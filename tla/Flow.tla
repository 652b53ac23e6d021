-------------------------------- MODULE Flow -------------------------------
(***************************************************************************)
(* smatch_flow.c: the walk over the statements of a function.  The program *)
(* is not given: a statement is chosen when the walk comes to it, from the *)
(* constant Grammar, so the runs of the specification are the walks over   *)
(* all functions of up to MaxNodes statements.                             *)
(***************************************************************************)
EXTENDS Conditions

CONSTANTS Starts,      \* what the FUNC_DEF_HOOKs may know of x
          Grammar,     \* the statements of a function
          InCondition, \* the statements inside a statement expression
          Conds,       \* the conditions of if statements and expressions
          LoopConds,   \* the conditions of loops
          CaseValues,  \* the values of the expression of a switch
          MaxNodes     \* bound of the statements of a function

VARIABLES nodes,       \* the statements that may still be chosen
          bail,        \* __bail_on_rest_of_function
          loop_num,    \* numbers the loops of a function
          label_seen   \* the label L of the function has been passed

vars == <<s, todo, tf, fresh, reach, ref, nodes, bail, loop_num, label_seen>>
aux == <<nodes, bail, loop_num, label_seen>>

LABEL == 0             \* the entry of the label L in goto_stack
InitialRef == [T |-> {}, F |-> {}, tru |-> <<>>, fls |-> <<>>, brk |-> <<>>,
               cont |-> <<>>, sw |-> <<>>, goto |-> {}]

\* split_function(), parse_inline(): the path is reachable, and the
\* FUNC_DEF_HOOKs set what they know.
Function == <<Frame("stmt"), Frame("end_function")>>
start_function_definition(r, start) == __set_sm(__unnullify_path(r), start)

Init == /\ \E start \in Starts : s = start_function_definition(InitialStates, start)
        /\ todo = Function
        /\ tf = UNKNOWN_TF
        /\ fresh = 1
        /\ reach = {Unset}
        /\ ref = InitialRef
        /\ nodes = MaxNodes
        /\ bail = FALSE
        /\ loop_num = 0
        /\ label_seen = FALSE
-----------------------------------------------------------------------------
\* The calls of this function that surround the statement.
Surrounding ==
    {todo[i].f : i \in {j \in DOMAIN todo : \A k \in 1..(j - 1) : todo[k].f # "inline"}}

InLoop == Surrounding \cap {"loop_end", "do_end"} # {}
InSwitch == "cases" \in Surrounding
InExprStmt == "expr_stmt" \in Surrounding

\* __split_stmt() is called with a statement of this kind.
Parse(kind) ==
    /\ At("stmt")
    /\ ~bail /\ ~s.oom
    /\ kind \in (IF InExprStmt THEN InCondition ELSE Grammar)
    /\ nodes > 0
    /\ nodes' = nodes - 1

Same == UNCHANGED <<bail, loop_num, label_seen>>
ThereMayBe(frame) == {<<>>, <<Frame(frame)>>}

\* The empty statement, and every statement once the walk has given up.
stmt_none ==
    /\ At("stmt") \/ At("none") \/ At("post")
    /\ IF bail THEN TRUE ELSE ~s.oom /\ ~At("post")
    /\ Return(<<>>)
    /\ UNCHANGED <<s, tf, fresh, reach, ref, aux>>

\* A bug: the calls that surround the statement are not returned from.
give_up_at_once ==
    /\ At("stmt") \/ At("none") \/ At("post") \/ At("cases")
    /\ ~bail
    /\ s.oom \/ "give_up" \in Grammar
    /\ s' = nullify_path(__unnullify_path(nullify_path(s)))
    /\ bail' = TRUE
    /\ reach' = {}
    /\ todo' = <<Last(todo)>>
    /\ UNCHANGED <<tf, fresh, ref, nodes, loop_num, label_seen>>

\* "Function too hairy.  Giving up.": fake_a_return().  A switch goes on to
\* its next case, and gives up on that too.
give_up ==
    /\ At("stmt") \/ At("none") \/ At("post") \/ At("cases")
    /\ ~bail
    /\ s.oom \/ "give_up" \in Grammar
    /\ s' = nullify_path(__unnullify_path(nullify_path(s)))
    /\ bail' = TRUE
    /\ reach' = {}
    /\ Return(IF At("cases") THEN <<Head(todo)>> ELSE <<>>)
    /\ UNCHANGED <<tf, fresh, ref, nodes, loop_num, label_seen>>

\* out_of_memory() becomes true: nothing is merged from now on.
run_out_of_memory ==
    /\ "oom" \in Grammar
    /\ todo # <<>> /\ ~s.oom /\ ~bail
    /\ s' = [s EXCEPT !.oom = TRUE]
    /\ UNCHANGED <<todo, tf, fresh, reach, ref, aux>>

\* An assignment to x: a statement, or what a for loop does after its body.
stmt_expression ==
    /\ \/ Parse("set")
       \/ At("post") /\ ~bail /\ ~s.oom /\ UNCHANGED nodes
    /\ s' = set_state(s, x, fresh)
    /\ reach' = Assign(reach, fresh)
    /\ fresh' = fresh + 1
    /\ Return(<<>>)
    /\ Same /\ UNCHANGED <<tf, ref>>

\* A bug: the code after the return is walked as if it could be reached.
return_goes_on ==
    /\ Parse("return")
    /\ reach' = {}
    /\ Return(<<>>)
    /\ Same /\ UNCHANGED <<s, tf, fresh, ref>>

stmt_return ==
    /\ Parse("return")
    /\ s' = nullify_path(s)
    /\ reach' = {}
    /\ Return(<<>>)
    /\ Same /\ UNCHANGED <<tf, fresh, ref>>

split_compound ==
    /\ Parse("compound")
    /\ Return(<<Frame("stmt"), Frame("stmt")>>)
    /\ Same /\ UNCHANGED <<s, tf, fresh, reach, ref>>
-----------------------------------------------------------------------------
\* if

\* A condition is split before the frames that follow.
Split(c, r, frames) ==
    /\ s' = BeginCondition(r)
    /\ Return(WholeCondition(c) \o frames)
    /\ tf' = UNKNOWN_TF
    /\ UNCHANGED fresh

split_if_statement ==
    /\ Parse("if")
    /\ \E c \in Conds : Split(c, s, <<Frame("if")>>)
    /\ Same /\ UNCHANGED <<reach, ref>>

if_true ==
    /\ At("if") /\ tf = TRUE_TF
    /\ Return(<<Frame("stmt"), Frame("discard_false")>>)
    /\ tf' = UNKNOWN_TF
    /\ UNCHANGED <<s, fresh, reach, ref, aux>>

discard_false ==
    /\ At("discard_false")
    /\ s' = __discard_false_states(s)
    /\ ref' = [ref EXCEPT !.fls = Front(@)]
    /\ Return(<<>>)
    /\ UNCHANGED <<tf, fresh, reach, aux>>

if_false ==
    /\ At("if") /\ tf = FALSE_TF
    /\ s' = __use_false_states(s)
    /\ reach' = Last(ref.fls)
    /\ ref' = [ref EXCEPT !.fls = Front(@)]
    /\ \E if_false_stmt \in ThereMayBe("stmt") : Return(if_false_stmt)
    /\ tf' = UNKNOWN_TF
    /\ UNCHANGED <<fresh, aux>>

if_unknown ==
    /\ At("if") /\ tf = UNKNOWN_TF
    /\ Return(<<Frame("stmt"), Frame("else")>>)
    /\ tf' = UNKNOWN_TF
    /\ UNCHANGED <<s, fresh, reach, ref, aux>>

else ==
    /\ At("else")
    /\ s' = __use_false_states(__push_true_states(s))
    /\ reach' = Last(ref.fls)
    /\ ref' = [ref EXCEPT !.fls = Front(@), !.tru = Append(@, reach)]
    /\ \E if_false_stmt \in ThereMayBe("stmt") :
           Return(if_false_stmt \o <<Frame("endif")>>)
    /\ UNCHANGED <<tf, fresh, aux>>

endif ==
    /\ At("endif")
    /\ s' = __merge_true_states(s)
    /\ reach' = reach \cup Last(ref.tru)
    /\ ref' = [ref EXCEPT !.tru = Front(@)]
    /\ Return(<<>>)
    /\ UNCHANGED <<tf, fresh, aux>>
-----------------------------------------------------------------------------
\* Loops.  The reference semantics goes through a loop once at most, as one
\* pass of the walk does.

EnterLoop(r) == __merge_gotos(__push_breaks(__push_continues(r)), loop_num + 1)
EnterRef == [ref EXCEPT !.brk = Append(@, {}), !.cont = Append(@, {})]
LeaveRef == [ref EXCEPT !.brk = Front(@), !.cont = Front(@)]

\* A bug: the loops of a function are not counted, so two share a label.
loop_not_counted ==
    /\ Parse("while")
    /\ \E c \in LoopConds :
           Split(c, EnterLoop(s),
                 <<[f |-> "loop_body", c |-> c, n |-> loop_num + 1]>>)
    /\ ref' = EnterRef
    /\ Same /\ UNCHANGED reach

\* while and for.
handle_pre_loop ==
    /\ Parse("while")
    /\ loop_num' = loop_num + 1
    /\ \E c \in LoopConds :
           Split(c, EnterLoop(s),
                 <<[f |-> "loop_body", c |-> c, n |-> loop_num + 1]>>)
    /\ ref' = EnterRef
    /\ UNCHANGED <<reach, bail, label_seen>>

\* The loop runs at least once when its condition is true or has no
\* expression, or when a once_through_hook says so.
loop_body ==
    /\ At("loop_body")
    /\ \E hook \in BOOLEAN :
        LET once == hook \/ tf = TRUE_TF \/ TheCond.t = "null"
        IN /\ Return(<<Frame("stmt"),
                       [f |-> "loop_end", c |-> TheCond, n |-> Head(todo).n,
                        once_through |-> once]>>)
           /\ ref' = IF once THEN [ref EXCEPT !.fls[Len(ref.fls)] = {}] ELSE ref
    /\ tf' = UNKNOWN_TF
    /\ UNCHANGED <<s, fresh, reach, aux>>

\* The false states of the first condition: none when it was not the exit.
LeaveByCondition(r, once_through) ==
    IF once_through THEN __discard_false_states(r) ELSE __merge_false_states(r)

loop_end ==
    /\ At("loop_end") /\ TheCond.t # "null"
    /\ s' = __merge_continues(s)
    /\ reach' = reach \cup Last(ref.cont)
    /\ \E post \in ThereMayBe("post") :
           Return(post \o <<[Head(todo) EXCEPT !.f = "loop_post"]>>)
    /\ UNCHANGED <<tf, fresh, ref, aux>>

loop_post ==
    /\ At("loop_post")
    /\ Split(TheCond, __save_gotos(s, Head(todo).n),
             <<[Head(todo) EXCEPT !.f = "loop_again"]>>)
    /\ UNCHANGED <<reach, ref, aux>>

loop_again ==
    /\ At("loop_again")
    /\ s' = __merge_breaks(LeaveByCondition(
                __merge_false_states(nullify_path(s)),
                Head(todo).once_through))
    /\ LET n == Len(ref.fls)
       IN /\ reach' = ref.fls[n] \cup ref.fls[n - 1] \cup Last(ref.brk)
          /\ ref' = [LeaveRef EXCEPT !.fls = SubSeq(@, 1, n - 2)]
    /\ Return(<<>>)
    /\ tf' = UNKNOWN_TF
    /\ UNCHANGED <<fresh, aux>>

\* for (...; c; goto label) if (0) label: break; else body
loop_scoped_guard ==
    /\ At("loop_end")
    /\ "scoped_guard" \in Grammar
    /\ s' = __merge_breaks(LeaveByCondition(
                __save_gotos(__merge_continues(s), Head(todo).n),
                Head(todo).once_through))
    /\ reach' = UNION {reach, Last(ref.cont), Last(ref.fls), Last(ref.brk)}
    /\ ref' = [LeaveRef EXCEPT !.fls = Front(@)]
    /\ Return(<<>>)
    /\ UNCHANGED <<tf, fresh, aux>>

\* for (;;): what follows the loop is reached by a break only.
loop_forever ==
    /\ At("loop_end") /\ TheCond.t = "null"
    /\ s' = __push_fake_cur_stree(
                __save_gotos(__merge_continues(s), Head(todo).n))
    /\ reach' = reach \cup Last(ref.cont)
    /\ \E post \in ThereMayBe("post") : Return(post \o <<Frame("loop_breaks")>>)
    /\ UNCHANGED <<tf, fresh, ref, aux>>

loop_breaks ==
    /\ At("loop_breaks")
    /\ LET stree == fake_cur_stree(s)
           r == __use_breaks(__discard_false_states(__pop_fake_cur_stree(s)))
       IN s' = IF is_unreachable(r) THEN r ELSE __merge_stree_into_cur(r, stree)
    /\ reach' = Last(ref.brk)
    /\ ref' = [LeaveRef EXCEPT !.fls = Front(@)]
    /\ Return(<<>>)
    /\ UNCHANGED <<tf, fresh, aux>>

\* do {} while ().  The conditions of Conds are not constant, so the loop
\* is not a do {} while (0) and the states of its end are saved.
handle_post_loop ==
    /\ Parse("do")
    /\ loop_num' = loop_num + 1
    /\ s' = EnterLoop(s)
    /\ ref' = EnterRef
    /\ Return(<<Frame("stmt"), [f |-> "do_end", n |-> loop_num + 1]>>)
    /\ UNCHANGED <<tf, fresh, reach, bail, label_seen>>

do_end ==
    /\ At("do_end")
    /\ \E c \in LoopConds :
        LET r == __save_gotos(__merge_continues(s), Head(todo).n)
        IN IF c.t = "null"                  \* do {} while (1)
           THEN /\ s' = __use_breaks(r)
                /\ reach' = Last(ref.brk)
                /\ ref' = LeaveRef
                /\ Return(<<>>)
                /\ UNCHANGED <<tf, fresh>>
           ELSE /\ Split(c, r, <<Frame("do_exit")>>)
                /\ reach' = reach \cup Last(ref.cont)
                /\ UNCHANGED ref
    /\ UNCHANGED aux

do_exit ==
    /\ At("do_exit")
    /\ s' = __merge_breaks(__use_false_states(s))
    /\ reach' = Last(ref.fls) \cup Last(ref.brk)
    /\ ref' = [LeaveRef EXCEPT !.fls = Front(@)]
    /\ Return(<<>>)
    /\ tf' = UNKNOWN_TF
    /\ UNCHANGED <<fresh, aux>>
-----------------------------------------------------------------------------
\* switch, on a value that is not known.  The frame "cases" keeps the values
\* and the default that the source has not labelled yet.

stmt_switch ==
    /\ Parse("switch")
    /\ s' = __push_breaks(__push_default(nullify_path(
                __save_switch_states(s, CaseValues))))
    /\ ref' = [ref EXCEPT !.sw = Append(@, reach), !.brk = Append(@, {})]
    /\ reach' = {}
    /\ Return(<<[f |-> "cases", left |-> CaseValues, default |-> FALSE]>>)
    /\ Same /\ UNCHANGED <<tf, fresh>>

\* A bug: what falls through from the case before is lost.
case_without_fall_through ==
    /\ At("cases") /\ ~bail /\ ~s.oom
    /\ \E rl \in SUBSET Head(todo).left, default \in BOOLEAN :
        /\ rl # {} \/ default
        /\ ~(default /\ Head(todo).default)
        /\ LET r == Cur(__merge_switches(s, rl), Top(s, "switch_stack"))
           IN s' = IF default THEN __set_default(r) ELSE r
        /\ Return(<<Frame("stmt"),
                    [Head(todo) EXCEPT !.left = @ \ rl,
                                       !.default = @ \/ default]>>)
    /\ reach' = reach \cup Last(ref.sw)
    /\ UNCHANGED <<tf, fresh, ref, aux>>

\* One or more labels, and the statement that follows them.
split_case ==
    /\ At("cases") /\ ~bail /\ ~s.oom
    /\ \E rl \in SUBSET Head(todo).left, default \in BOOLEAN :
        /\ rl # {} \/ default
        /\ ~(default /\ Head(todo).default)
        /\ LET r == __merge_switches(s, rl)
           IN s' = IF default THEN __set_default(r) ELSE r
        /\ Return(<<Frame("stmt"),
                    [Head(todo) EXCEPT !.left = @ \ rl,
                                       !.default = @ \/ default]>>)
    /\ reach' = reach \cup Last(ref.sw)
    /\ UNCHANGED <<tf, fresh, ref, aux>>

\* The switch statement ends; fake_an_empty_default().
end_cases ==
    /\ At("cases")
    /\ LET r == __pop_default(s)
       IN IF ~__has_default_case(s) /\ have_remaining_cases(s)
          THEN /\ s' = __merge_switches(r, {})
               /\ Return(<<Frame("none"), Frame("switch_end")>>)
          ELSE /\ s' = r
               /\ Return(<<Frame("switch_end")>>)
    /\ reach' = IF Head(todo).default \/ Head(todo).left = {} THEN reach
                ELSE reach \cup Last(ref.sw)
    /\ UNCHANGED <<tf, fresh, ref, aux>>

switch_end ==
    /\ At("switch_end")
    /\ s' = __merge_breaks(__discard_switches(s))
    /\ reach' = reach \cup Last(ref.brk)
    /\ ref' = [ref EXCEPT !.sw = Front(@), !.brk = Front(@)]
    /\ Return(<<>>)
    /\ UNCHANGED <<tf, fresh, aux>>
-----------------------------------------------------------------------------
\* Jumps.  The label L is after all the gotos to it.

\* The path ends here and goes on elsewhere.
Jump(r, where) ==
    /\ s' = nullify_path(r)
    /\ ref' = where
    /\ reach' = {}
    /\ Return(<<>>)
    /\ Same /\ UNCHANGED <<tf, fresh>>

stmt_break ==
    /\ InLoop \/ InSwitch
    /\ Parse("break")
    /\ Jump(__process_breaks(s),
            [ref EXCEPT !.brk[Len(ref.brk)] = @ \cup reach])

stmt_continue ==
    /\ InLoop
    /\ Parse("continue")
    /\ Jump(__process_continues(s),
            [ref EXCEPT !.cont[Len(ref.cont)] = @ \cup reach])

stmt_goto ==
    /\ ~label_seen
    /\ Parse("goto")
    /\ Jump(__save_gotos(s, LABEL), [ref EXCEPT !.goto = @ \cup reach])

stmt_label ==
    /\ ~label_seen
    /\ Parse("label")
    /\ label_seen' = TRUE
    /\ s' = __merge_gotos(s, LABEL)
    /\ reach' = reach \cup ref.goto
    /\ Return(<<Frame("stmt")>>)
    /\ UNCHANGED <<tf, fresh, ref, bail, loop_num>>
-----------------------------------------------------------------------------
\* Expressions that are parsed as conditions.

\* f(a && b)
__handle_logic ==
    /\ Parse("logic")
    /\ \E c \in Conds : Split(c, s, <<Frame("logic")>>)
    /\ Same /\ UNCHANGED <<reach, ref>>

logic_done ==
    /\ At("logic")
    /\ s' = __merge_false_states(s)
    /\ reach' = reach \cup Last(ref.fls)
    /\ ref' = [ref EXCEPT !.fls = Front(@)]
    /\ Return(<<>>)
    /\ tf' = UNKNOWN_TF
    /\ UNCHANGED <<fresh, aux>>

\* y = (a && b)
__handle_condition_assigns ==
    /\ Parse("cond_assign")
    /\ s' = BeginCondition(s)
    /\ \E c \in Conds :
           Return(<<Cond(c), [f |-> "cond_assign", pre |-> s.cur_stree]>>)
    /\ Same /\ UNCHANGED <<tf, fresh, reach, ref>>

\* What set_extra_expr_mod() sets in a fake tree of its own, when the
\* variable on the left is x.
FakeStree(r, isx, v) ==
    IF isx THEN fake_cur_stree(set_state(__push_fake_cur_stree(r), x, v))
    ELSE NULL

condition_assign ==
    /\ At("cond_assign")
    /\ \E isx \in BOOLEAN :
        LET r == __use_cond_states(s)
            f == __use_false_states(__push_true_states(r))
            true_stree == overwrite_stree(FakeStree(r, isx, fresh),
                                          Top(s, "cond_true_stack"))
            false_stree == overwrite_stree(FakeStree(f, isx, fresh + 1),
                                           Top(s, "cond_false_stack"))
        IN /\ s' = __set_sm(__merge_true_states(f),
                     merge_fake_stree(true_stree, false_stree,
                                      Head(todo).pre, s.oom))
           /\ reach' = IF isx THEN Assign(ref.T, fresh) \cup Assign(ref.F, fresh + 1)
                       ELSE ref.T \cup ref.F
    /\ Outcome({}, {})
    /\ fresh' = fresh + 2
    /\ Return(<<>>)
    /\ tf' = UNKNOWN_TF
    /\ UNCHANGED aux

\* x = a ? b : c
__handle_select_assigns ==
    /\ Parse("select_assign")
    /\ \E c \in Conds :
           Split(c, __save_pre_cond_states(s), <<Frame("select_assign")>>)
    /\ Same /\ UNCHANGED <<reach, ref>>

select_assign ==
    /\ At("select_assign")
    /\ \E implied \in Implied(reach, Last(ref.fls)) :
        LET t == IF implied = FALSE_TF THEN s ELSE set_state(s, x, fresh)
            f == IF implied = TRUE_TF THEN __discard_false_states(t)
                 ELSE set_state(__use_false_states(t), x, fresh + 1)
            final_states == merge_stree(
                IF implied = FALSE_TF THEN NULL ELSE t.cur_stree,
                f.cur_stree, s.oom)
        IN s' = __set_sm(__use_pre_cond_states(f), final_states)
    /\ reach' = Assign(reach, fresh) \cup Assign(Last(ref.fls), fresh + 1)
    /\ ref' = [ref EXCEPT !.fls = Front(@)]
    /\ fresh' = fresh + 2
    /\ Return(<<>>)
    /\ tf' = UNKNOWN_TF
    /\ UNCHANGED aux
-----------------------------------------------------------------------------
\* Inlined functions and the end of a function.

parse_inline ==
    /\ Parse("inline")
    /\ \E start \in Starts :
           s' = start_function_definition(save_all_states(s), start)
    /\ Return(<<Frame("stmt"),
                [f |-> "inline", before |-> s, reach |-> reach, ref |-> ref,
                 loop_num |-> loop_num, label_seen |-> label_seen]>>)
    /\ reach' = {Unset}
    /\ ref' = InitialRef
    /\ loop_num' = 0
    /\ label_seen' = FALSE
    /\ UNCHANGED <<tf, fresh, bail>>

inline_done ==
    /\ At("inline")
    /\ s' = restore_all_states([nullify_path(s) EXCEPT !.goto_stack = NULL])
    /\ reach' = Head(todo).reach
    /\ ref' = Head(todo).ref
    /\ loop_num' = Head(todo).loop_num
    /\ label_seen' = Head(todo).label_seen
    /\ Return(<<>>)
    /\ UNCHANGED <<tf, fresh, nodes, bail>>

end_function ==
    /\ At("end_function")
    /\ s' = clear_all_states(s)
    /\ bail' = FALSE
    /\ reach' = {}
    /\ ref' = InitialRef
    /\ Return(<<>>)
    /\ UNCHANGED <<tf, fresh, nodes, loop_num, label_seen>>

next_function ==
    /\ todo = <<>>
    /\ \E start \in Starts : s' = start_function_definition(s, start)
    /\ todo' = Function
    /\ tf' = UNKNOWN_TF
    /\ fresh' = 1
    /\ reach' = {Unset}
    /\ nodes' = MaxNodes
    /\ loop_num' = 0
    /\ label_seen' = FALSE
    /\ UNCHANGED <<ref, bail>>

Next ==
    \/ ConditionStep /\ UNCHANGED aux
    \/ stmt_none \/ give_up \/ run_out_of_memory
    \/ stmt_expression \/ stmt_return \/ split_compound
    \/ split_if_statement \/ if_true \/ discard_false \/ if_false
    \/ if_unknown \/ else \/ endif
    \/ handle_pre_loop \/ loop_body \/ loop_end \/ loop_post \/ loop_again
    \/ loop_scoped_guard \/ loop_forever \/ loop_breaks
    \/ handle_post_loop \/ do_end \/ do_exit
    \/ stmt_switch \/ split_case \/ end_cases \/ switch_end
    \/ stmt_break \/ stmt_continue \/ stmt_goto \/ stmt_label
    \/ __handle_logic \/ logic_done
    \/ __handle_condition_assigns \/ condition_assign
    \/ __handle_select_assigns \/ select_assign
    \/ parse_inline \/ inline_done
    \/ end_function \/ next_function

Spec == Init /\ [][Next]_vars
-----------------------------------------------------------------------------
Tree(t) == /\ DOMAIN t \subseteq {x, UNNULL}
           /\ \A k \in DOMAIN t : t[k] # {} /\ t[k] \subseteq {Unset} \cup 1..fresh
Covers(tree, paths) == paths # {} => tree # NULL /\ paths \subseteq Possible(tree, x)

\* Where the walk is between two statements, and not in the middle of
\* putting the parts of a condition together.
BetweenStatements ==
    todo # <<>> /\ Head(todo).f \notin
        {"negate", "logical_left", "logical_right", "select_cond",
         "select_true", "select_false", "use_cond_states", "cond_assign"}

\* The current states and every tree on the stacks map trackers to
\* non-empty sets of states that have been set.
TypeOK ==
    /\ DOMAIN s = Fields
    /\ Tree(s.cur_stree)
    /\ \A f \in Stacks : \A i \in DOMAIN s[f] : Tree(s[f][i])
    /\ \A l \in DOMAIN s.goto_stack : l \in 0..loop_num /\ Tree(s.goto_stack[l])
    /\ tf \in {UNKNOWN_TF, TRUE_TF, FALSE_TF}
    /\ nodes \in 0..MaxNodes
    /\ {bail, label_seen, s.perror, s.oom} \subseteq BOOLEAN

\* At the end of a function every stack that the walk pushed to is empty
\* again, whatever the statements were and wherever the walk gave up:
\* clear_all_states() finds nothing to complain about.
StacksBalanced == todo = <<>> => s = InitialStates

\* The analysis is sound for one pass over the code: whatever state x has
\* on some path to a statement is one of the possible states of x there,
\* and a statement that some path reaches is not unreachable.
Sound == BetweenStatements /\ ~bail /\ ~s.oom => Covers(s.cur_stree, reach)

\* A statement that some path reaches is never taken for unreachable.
LiveCode ==
    BetweenStatements /\ ~bail /\ ~s.oom /\ reach # {} => ~is_unreachable(s)

\* When the statements of a statement expression are done, the fake tree has
\* what they set: the states before them, overwritten with the fake tree,
\* are the states now (update_stree_with_merged()).
FakeIsCurrent ==
    At("expr_stmt") /\ ~bail /\ ~s.oom /\ ~is_unreachable(s) =>
        Possible(overwrite_stree(fake_cur_stree(s), Top(s, "pre_cond_stack")), x)
            = Possible(s.cur_stree, x)

\* The code that no path reaches is unreachable to the analysis, as long as it
\* did not give up.
DeadCode == BetweenStatements /\ ~bail /\ ~s.oom /\ reach = {} => is_unreachable(s)

\* Walking an inlined function leaves every state of the caller as it was.
InlineTransparent ==
    [][inline_done =>
         \A f \in Range(SaveOrder) \cup {"backup"} :
             s'[f] = Head(todo).before[f]]_vars
=============================================================================
