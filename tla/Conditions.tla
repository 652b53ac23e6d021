----------------------------- MODULE Conditions ----------------------------
(***************************************************************************)
(* smatch_conditions.c: splitting a condition into its parts so that the   *)
(* states where it is true and where it is false are known.                *)
(*                                                                         *)
(* The walk over the syntax tree is recursive: todo is the call stack, a   *)
(* sequence of frames with the innermost call first, and an action is the  *)
(* code between two recursive calls.  A condition is a tree c; what a      *)
(* check does with a leaf of it is arbitrary (CONDITION_HOOK), and so are  *)
(* the assignments inside it, so these are chosen when the leaf is split.  *)
(*                                                                         *)
(* The tracker x is followed by a reference semantics at the same time:    *)
(* reach is the set of states that x really has on the paths that lead to  *)
(* this point, ref.T and ref.F those on the paths on which the condition   *)
(* just split is true and false.  The analysis never reads either.         *)
(***************************************************************************)
EXTENDS States, Integers

CONSTANTS Effects,   \* <<t, f>>: does a check set x on the true, false side
          Sets,      \* when a leaf assigns x: "none", "pre", "post"
          Knowns     \* what can be known of a leaf: -1, TRUE_TF, FALSE_TF

UNKNOWN_TF == -1
TRUE_TF == 1
FALSE_TF == 0

VARIABLES s,         \* the states of smatch_states.c
          todo,      \* the frames of the recursive walk
          tf,        \* *known_tf of the condition just split
          fresh,     \* the next state to be set
          reach,     \* reference: the states of x on the paths to here
          ref        \* reference: the states of x elsewhere

x == "x"

Frame(f) == [f |-> f]
At(f) == todo # <<>> /\ Head(todo).f = f
Return(frames) == todo' = frames \o Tail(todo)

Cond(c) == [f |-> "cond", c |-> c]
AtCond(t) == At("cond") /\ Head(todo).c.t = t
TheCond == Head(todo).c

\* Every path gets the state a; a point that no path reaches has none.
Assign(paths, a) == IF paths = {} THEN {} ELSE {a}
Outcome(t, f) == ref' = [ref EXCEPT !.T = t, !.F = f]

\* __split_whole_condition_tf(): before and after the condition.
BeginCondition(r) == __push_cond_stacks(__save_pre_cond_states(r))
WholeCondition(c) == <<Cond(c), Frame("use_cond_states")>>

use_cond_states ==
    /\ At("use_cond_states")
    /\ s' = __use_cond_states(s)
    /\ reach' = ref.T
    /\ ref' = [ref EXCEPT !.fls = Append(@, ref.F), !.T = {}, !.F = {}]
    /\ Return(<<>>)
    /\ UNCHANGED <<tf, fresh>>

\* What the CONDITION_HOOK does: x gets a state on either side, or neither.
pass_to_client(r, e) ==
    __set_true_false_sm(r, IF e[1] THEN Leaf(x, fresh + 1) ELSE NULL,
                           IF e[2] THEN Leaf(x, fresh + 2) ELSE NULL)

do_condition(r, e) ==
    __fold_in_set_states(
        pass_to_client(__push_fake_cur_stree(__fold_in_set_states(r)), e))

\* A condition that is not split any further: the expression is parsed, the
\* clients see the condition, and the postfix operators happen.
split_leaf ==
    /\ AtCond("leaf")
    /\ \E e \in Effects, set \in Sets, known \in Knowns :
        LET parsed == IF set = "pre" THEN set_state(s, x, fresh) ELSE s
            post == __push_fake_cur_stree(do_condition(parsed, e))
            paths == IF set = "pre" THEN Assign(reach, fresh) ELSE reach
            t == IF e[1] THEN Assign(paths, fresh + 1) ELSE paths
            f == IF e[2] THEN Assign(paths, fresh + 2) ELSE paths
            After(q) == IF set = "post" THEN Assign(q, fresh + 3) ELSE q
        IN /\ s' = __fold_in_set_states(
                     IF set = "post" THEN set_state(post, x, fresh + 3)
                     ELSE post)
           /\ tf' = known
           /\ Outcome(IF known = FALSE_TF THEN {} ELSE After(t),
                      IF known = TRUE_TF THEN {} ELSE After(f))
    /\ fresh' = fresh + 4
    /\ Return(<<>>)
    /\ UNCHANGED reach

\* No expression: the condition of for (;;).
split_nothing ==
    /\ AtCond("null")
    /\ s' = __fold_in_set_states(s)
    /\ tf' = UNKNOWN_TF
    /\ Outcome(reach, {})
    /\ Return(<<>>)
    /\ UNCHANGED <<fresh, reach>>

handle_preop ==
    /\ AtCond("not")
    /\ Return(<<Cond(TheCond.a), Frame("negate")>>)
    /\ UNCHANGED <<s, tf, fresh, reach, ref>>

negate_tf(known) == IF known = UNKNOWN_TF THEN known ELSE 1 - known

negate ==
    /\ At("negate")
    /\ s' = __negate_cond_stacks(s)
    /\ tf' = negate_tf(tf)
    /\ Outcome(ref.F, ref.T)
    /\ Return(<<>>)
    /\ UNCHANGED <<fresh, reach>>

\* ({ stmt; a; }): the statements are walked inside the condition.
handle_expr_statement_conditions ==
    /\ AtCond("stmt")
    /\ Return(<<Frame("stmt"), Frame("expr_stmt"), Cond(TheCond.a)>>)
    /\ UNCHANGED <<s, tf, fresh, reach, ref>>

expr_stmt_done ==
    /\ At("expr_stmt")
    /\ Return(<<>>)
    /\ UNCHANGED <<s, tf, fresh, reach, ref>>
-----------------------------------------------------------------------------
\* a && b and a || b.  The right operand is split with the states that the
\* left one leaves when it does not decide the condition.
handle_logical ==
    /\ AtCond("and") \/ AtCond("or")
    /\ Return(<<Cond(TheCond.a),
                [f |-> "logical_left", c |-> TheCond]>>)
    /\ UNCHANGED <<s, tf, fresh, reach, ref>>

logical_left ==
    /\ At("logical_left")
    /\ LET and == TheCond.t = "and"
       IN /\ s' = __save_pre_cond_states(__push_cond_stacks(
                     IF and THEN __use_cond_true_states(s)
                     ELSE __use_cond_false_states(s)))
          /\ reach' = IF and THEN ref.T ELSE ref.F
          /\ Return(<<Cond(TheCond.b),
                      [f |-> "logical_right", c |-> TheCond, left |-> tf,
                       decided |-> IF and THEN ref.F ELSE ref.T,
                       before |-> reach]>>)
    /\ UNCHANGED <<tf, fresh, ref>>

\* What is known of a && b from what is known of a and b.
and_tf(left, right) ==
    CASE left = FALSE_TF \/ right = FALSE_TF -> FALSE_TF
      [] left = TRUE_TF /\ right = TRUE_TF -> TRUE_TF
      [] OTHER -> UNKNOWN_TF

logical_right ==
    /\ At("logical_right")
    /\ LET fr == Head(todo)
           r == __discard_pre_cond_states(s)
       IN IF fr.c.t = "and"
          THEN /\ s' = __use_cond_true_states(__and_cond_states(r))
               /\ tf' = and_tf(fr.left, tf)
               /\ Outcome(ref.T, fr.decided \cup ref.F)
          ELSE /\ s' = __use_cond_true_states(__or_cond_states(r))
               /\ tf' = negate_tf(and_tf(negate_tf(fr.left), negate_tf(tf)))
               /\ Outcome(fr.decided \cup ref.T, ref.F)
    /\ reach' = Head(todo).before
    /\ Return(<<>>)
    /\ UNCHANGED fresh
-----------------------------------------------------------------------------
\* a ? b : c as a condition.

handle_select ==
    /\ AtCond("select")
    /\ s' = __save_pre_cond_states(s)
    /\ Return(<<Cond(TheCond.a), [f |-> "select_cond", c |-> TheCond]>>)
    /\ UNCHANGED <<tf, fresh, reach, ref>>

\* One of b and c is split with the states of its side of a, in cond stacks
\* and a fake tree of its own.
Side(r) == __push_fake_cur_stree(__push_cond_stacks(r))

select_cond ==
    /\ At("select_cond")
    /\ s' = Side(__use_cond_true_states(s))
    /\ reach' = ref.T
    /\ Return(<<Cond(TheCond.b),
                [f |-> "select_true", c |-> TheCond, cond_tf |-> tf,
                 a_T |-> Top(s, "cond_true_stack"),
                 a_F |-> Top(s, "cond_false_stack"),
                 elsewhere |-> ref.F, before |-> reach]>>)
    /\ UNCHANGED <<tf, fresh, ref>>

\* The states where a and this side hold, and where a holds and it does not.
SideStates(a, fake, stack) ==
    overwrite_stree(Top(s, stack), overwrite_stree(fake, a))

select_true ==
    /\ At("select_true")
    /\ LET fr == Head(todo)
           fake == fake_cur_stree(s)
           r == __pop_cond_stacks(__pop_fake_cur_stree(s))
       IN /\ s' = Side(__use_cond_false_states(r))
          /\ reach' = fr.elsewhere
          /\ Return(<<Cond(fr.c.c),
                      [f |-> "select_false", fr |-> fr, true_tf |-> tf,
                       fake |-> fake, T |-> ref.T, F |-> ref.F,
                       b_T |-> SideStates(fr.a_T, fake, "cond_true_stack"),
                       b_F |-> SideStates(fr.a_T, fake, "cond_false_stack")]
                    >>)
    /\ UNCHANGED <<tf, fresh, ref>>

\* implied_condition_true(), implied_condition_false(): what is implied of
\* an operand by the states is so on every path.
Implied(t, f) == {UNKNOWN_TF} \cup (IF f = {} THEN {TRUE_TF} ELSE {})
                             \cup (IF t = {} THEN {FALSE_TF} ELSE {})

\* A side that is implied to be true has no false states.
Simplify(implied, a, fake, t, f) ==
    CASE implied = TRUE_TF -> <<overwrite_stree(fake, a), NULL>>
      [] implied = FALSE_TF -> <<NULL, overwrite_stree(fake, a)>>
      [] OTHER -> <<t, f>>

select_false ==
    /\ At("select_false")
    /\ \E i \in Implied(Head(todo).T, Head(todo).F), j \in Implied(ref.T, ref.F) :
       LET b == Head(todo)
           fr == b.fr
           fake == fake_cur_stree(s)
           sideb == Simplify(i, fr.a_T, b.fake, b.b_T, b.b_F)
           sidec == Simplify(j, fr.a_F, fake,
                        SideStates(fr.a_F, fake, "cond_true_stack"),
                        SideStates(fr.a_F, fake, "cond_false_stack"))
           true_states == merge_stree(sideb[1], sidec[1], s.oom)
           false_states == merge_stree(sideb[2], sidec[2], s.oom)
           r == __use_pre_cond_states(
                    __pop_cond_stacks(__pop_fake_cur_stree(s)))
       IN /\ s' = __pop_fake_cur_stree(__set_true_false_sm(
                     __push_cond_stacks(__pop_cond_stacks(r)),
                     true_states, false_states))
          /\ tf' = CASE fr.cond_tf = TRUE_TF /\ b.true_tf = TRUE_TF -> TRUE_TF
                     [] fr.cond_tf = FALSE_TF /\ tf = FALSE_TF -> FALSE_TF
                     [] OTHER -> UNKNOWN_TF
          /\ Outcome(b.T \cup ref.T, b.F \cup ref.F)
          /\ reach' = fr.before
    /\ Return(<<>>)
    /\ UNCHANGED fresh

ConditionStep ==
    \/ split_leaf \/ split_nothing
    \/ handle_preop \/ negate
    \/ handle_expr_statement_conditions \/ expr_stmt_done
    \/ handle_logical \/ logical_left \/ logical_right
    \/ handle_select \/ select_cond \/ select_true \/ select_false
    \/ use_cond_states
=============================================================================
