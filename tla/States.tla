------------------------------- MODULE States ------------------------------
(***************************************************************************)
(* smatch_states.c: what smatch knows about the path it is on, cur_stree,  *)
(* and the stacks of strees that hold what it knows about the other paths: *)
(* the branches not taken yet, the states before a condition and the ones  *)
(* it changes, breaks, continues, switches, gotos, and the callers of the  *)
(* function that is being inlined.  All of it is the record s, and every   *)
(* operation of the file is a function from such records to such records.  *)
(***************************************************************************)
EXTENDS Slist

UNNULL == "unnull_path"

Stacks == {"true_stack", "false_stack", "pre_cond_stack", "cond_true_stack",
           "cond_false_stack", "fake_cur_stree_stack", "break_stack",
           "fake_break_stack", "switch_stack", "continue_stack"}

Fields == Stacks \cup {"cur_stree", "remaining_cases", "default_stack",
                       "goto_stack", "backup", "perror", "oom"}

\* perror: an sm_perror() about the stacks was printed; oom: out_of_memory().
InitialStates ==
    [f \in Fields |-> CASE f \in {"cur_stree", "goto_stack"} -> NULL
                        [] f \in {"perror", "oom"} -> FALSE
                        [] OTHER -> <<>>]

is_unreachable(s) == s.cur_stree = NULL
Push(s, stack, tree) == [s EXCEPT ![stack] = push_stree(@, tree)]
Pop(s, stack) == [s EXCEPT ![stack] = pop_stree(@)]
Top(s, stack) == top_stree(s[stack])
Cur(s, tree) == [s EXCEPT !.cur_stree = tree]

\* A tree of new states, put into the fake tree too when there is one.
Overwrite(s, tree) ==
    [s EXCEPT !.fake_cur_stree_stack = IF @ = <<>> THEN @
                                       ELSE overwrite_top(@, tree),
              !.cur_stree = overwrite_stree(tree, @)]

__set_sm(s, tree) == IF is_unreachable(s) THEN s ELSE Overwrite(s, tree)

\* Owner -1, that of "unnull_path", may set a state on a null path.
set_state(s, k, v) ==
    IF k # UNNULL /\ is_unreachable(s) THEN s ELSE Overwrite(s, Leaf(k, v))

__unnullify_path(s) ==
    IF is_unreachable(s) THEN set_state(s, UNNULL, Unset) ELSE s

__save_pre_cond_states(s) == Push(s, "pre_cond_stack", s.cur_stree)
__discard_pre_cond_states(s) == Pop(s, "pre_cond_stack")
__use_pre_cond_states(s) ==
    Pop(Cur(s, Top(s, "pre_cond_stack")), "pre_cond_stack")

__push_fake_cur_stree(s) ==
    __save_pre_cond_states(Push(s, "fake_cur_stree_stack", NULL))

__pop_fake_cur_stree(s) ==
    LET t == __use_pre_cond_states(s)
    IN [Pop(t, "fake_cur_stree_stack")
          EXCEPT !.perror = @ \/ s.fake_cur_stree_stack = <<>>]

fake_cur_stree(s) == Top(s, "fake_cur_stree_stack")

nullify_path(s) ==
    Cur(IF s.fake_cur_stree_stack = <<>> THEN s
        ELSE __push_fake_cur_stree(__pop_fake_cur_stree(s)), NULL)
-----------------------------------------------------------------------------
\* Conditions: what is pushed here is popped by __use_cond_states().

\* The states of tree are set where the condition is true, those of other
\* where it is false.
__set_true_false_sm(s, tree, other) ==
    IF is_unreachable(s) \/ (tree = NULL /\ other = NULL) THEN s
    ELSE IF s.cond_true_stack = <<>> \/ s.cond_false_stack = <<>>
    THEN [s EXCEPT !.perror = TRUE]
    ELSE [s EXCEPT !.cond_true_stack = overwrite_top(@, tree),
                   !.cond_false_stack = overwrite_top(@, other)]

__push_cond_stacks(s) ==
    __push_fake_cur_stree(
        Push(Push(s, "cond_true_stack", NULL), "cond_false_stack", NULL))

\* A bug: the states set while the condition was evaluated are set on the
\* current path and not on the two paths that leave it.
fold_in_cur_only(s) == __set_sm(__pop_fake_cur_stree(s), fake_cur_stree(s))

__fold_in_set_states(s) ==
    LET new == fake_cur_stree(s)
    IN __set_true_false_sm(__set_sm(__pop_fake_cur_stree(s), new), new, new)

__pop_cond_stacks(s) == Pop(Pop(s, "cond_true_stack"), "cond_false_stack")

\* A bug: the states from before the condition are left out.
use_cond_states_only(s, stack) == Cur(s, Top(s, stack))

__use_cond_stack(s, stack) ==
    Cur(s, overwrite_stree(Top(s, stack), Top(s, "pre_cond_stack")))
__use_cond_true_states(s) == __use_cond_stack(s, "cond_true_stack")
__use_cond_false_states(s) == __use_cond_stack(s, "cond_false_stack")

__negate_cond_stacks(s) ==
    Push(Push(__pop_cond_stacks(s),
              "cond_false_stack", Top(s, "cond_true_stack")),
         "cond_true_stack", Top(s, "cond_false_stack"))

\* The side on which both operands hold is overwritten with the right one,
\* the side on which one of them fails is merged.
BothOperands(s, both, either) ==
    [s EXCEPT ![both] = and_stree_stack(@),
              ![either] = or_stree_stack(s.pre_cond_stack, s.cur_stree, @,
                                         s.oom)]
__and_cond_states(s) == BothOperands(s, "cond_true_stack", "cond_false_stack")
__or_cond_states(s) == BothOperands(s, "cond_false_stack", "cond_true_stack")

\* The true states are used right away, the false ones are kept.
__use_cond_states(s) ==
    LET pre == Top(s, "pre_cond_stack")
        true_states == overwrite_stree(Top(s, "cond_true_stack"), pre)
        false_states == overwrite_stree(Top(s, "cond_false_stack"), pre)
    IN Push(Cur(Pop(__pop_cond_stacks(s), "pre_cond_stack"), true_states),
            "false_stack", false_states)
-----------------------------------------------------------------------------
\* Branches.

MergeCur(s, tree) == Cur(s, merge_stree(s.cur_stree, tree, s.oom))

__push_true_states(s) == Push(s, "true_stack", s.cur_stree)
__use_false_states(s) == Pop(Cur(s, Top(s, "false_stack")), "false_stack")

__discard_false_states(s) == Pop(s, "false_stack")
__merge_false_states(s) == Pop(MergeCur(s, Top(s, "false_stack")), "false_stack")

\* The trackers of a fake tree, with the states they have now.
update_stree_with_merged(s, tree) ==
    [k \in DOMAIN tree |-> IF k \in DOMAIN s.cur_stree THEN s.cur_stree[k]
                           ELSE tree[k]]

update_fake_stree_with_merged(s) ==
    IF s.fake_cur_stree_stack = <<>> THEN s
    ELSE Push(Pop(s, "fake_cur_stree_stack"), "fake_cur_stree_stack",
              update_stree_with_merged(s, fake_cur_stree(s)))

\* A bug: the fake tree keeps the state of the branch that set it last.
merge_true_cur_only(s) == Pop(MergeCur(s, Top(s, "true_stack")), "true_stack")

\* A bug: the states of the branch stay on their stack.
merge_true_not_popped(s) ==
    update_fake_stree_with_merged(MergeCur(s, Top(s, "true_stack")))

__merge_true_states(s) ==
    update_fake_stree_with_merged(
        Pop(MergeCur(s, Top(s, "true_stack")), "true_stack"))
-----------------------------------------------------------------------------
\* Loops and switches.

\* What leaves through a break or a continue is merged with what did before;
\* the first one is cloned, even out of memory.
Leave(s, stack, tree) ==
    Push(Pop(s, stack), stack,
         IF Top(s, stack) = NULL THEN tree
         ELSE merge_stree(Top(s, stack), tree, s.oom))

__push_continues(s) == Push(s, "continue_stack", NULL)
__process_continues(s) == Leave(s, "continue_stack", s.cur_stree)
__merge_continues(s) ==
    Pop(MergeCur(s, Top(s, "continue_stack")), "continue_stack")

__push_breaks(s) ==
    LET t == Push(s, "break_stack", NULL)
    IN IF s.fake_cur_stree_stack = <<>> THEN t
       ELSE Push(t, "fake_break_stack", NULL)

__process_breaks(s) ==
    LET t == Leave(s, "break_stack", s.cur_stree)
    IN IF s.fake_cur_stree_stack = <<>> THEN t
       ELSE Leave(t, "fake_break_stack", fake_cur_stree(s))

\* The states set before the breaks are states set in this condition.
PopFakeBreaks(s, tree) ==
    [Pop(s, "fake_break_stack")
       EXCEPT !.fake_cur_stree_stack = overwrite_top(@, tree)]

__merge_breaks(s) ==
    LET t == Pop(MergeCur(s, Top(s, "break_stack")), "break_stack")
    IN IF s.fake_cur_stree_stack = <<>> THEN t
       ELSE PopFakeBreaks(t, update_stree_with_merged(
                                 t, Top(s, "fake_break_stack")))

__use_breaks(s) ==
    LET t == Pop(Cur(s, Top(s, "break_stack")), "break_stack")
    IN IF s.fake_cur_stree_stack = <<>> THEN t
       ELSE PopFakeBreaks(t, Top(s, "fake_break_stack"))

__merge_stree_into_cur(s, tree) ==
    __set_sm(s, [k \in DOMAIN tree |->
                   IF k \in DOMAIN s.cur_stree /\ ~s.oom
                   THEN s.cur_stree[k] \cup tree[k]
                   ELSE IF k \in DOMAIN s.cur_stree THEN s.cur_stree[k]
                   ELSE tree[k]])

__save_switch_states(s, rl) ==
    [Push(s, "switch_stack", s.cur_stree)
       EXCEPT !.remaining_cases = Append(@, rl)]

have_remaining_cases(s) ==
    s.remaining_cases # <<>> /\ Last(s.remaining_cases) # {}

\* A case takes the states from before the switch; the fake tree that
\* __implied_case_stree() sets the value of the switch in comes and goes.
__merge_switches(s, rl) ==
    LET tree == Top(s, "switch_stack")
    IN IF tree = NULL THEN s
       ELSE [MergeCur(s, tree)
               EXCEPT !.remaining_cases[Len(s.remaining_cases)] = @ \ rl]

\* A bug: the values of the switch that ends here stay.
discard_switches_only(s) == Pop(s, "switch_stack")

__discard_switches(s) ==
    [Pop(s, "switch_stack")
       EXCEPT !.remaining_cases = IF @ = <<>> THEN @ ELSE Front(@)]

__push_default(s) == [s EXCEPT !.default_stack = Append(@, FALSE)]
__set_default(s) == [s EXCEPT !.default_stack[Len(s.default_stack)] = TRUE]
__has_default_case(s) == Last(s.default_stack)
__pop_default(s) == [s EXCEPT !.default_stack = Front(@)]
-----------------------------------------------------------------------------
\* Gotos, inlined functions and the end of a function.

__save_gotos(s, label) ==
    [s EXCEPT !.goto_stack =
        [l \in DOMAIN @ \cup {label} |->
            CASE l # label -> @[l]
              [] label \in DOMAIN @ -> merge_stree(@[l], s.cur_stree, s.oom)
              [] OTHER -> s.cur_stree]]

__merge_gotos(s, label) ==
    IF label \in DOMAIN s.goto_stack THEN MergeCur(s, s.goto_stack[label])
    ELSE s

SaveOrder ==
    <<"cur_stree", "true_stack", "false_stack", "pre_cond_stack",
      "cond_true_stack", "cond_false_stack", "fake_cur_stree_stack",
      "break_stack", "fake_break_stack", "switch_stack", "remaining_cases",
      "default_stack", "continue_stack", "goto_stack">>

save_all_states(s) ==
    [f \in Fields |->
        CASE f = "backup" -> s.backup \o [i \in 1..14 |-> s[SaveOrder[i]]]
          [] f \in Range(SaveOrder) -> InitialStates[f]
          [] OTHER -> s[f]]

\* A bug: two of the stacks are restored in the order they were saved in.
SwappedOrder ==
    <<"goto_stack", "continue_stack", "default_stack", "remaining_cases",
      "switch_stack", "fake_break_stack", "break_stack",
      "fake_cur_stree_stack", "cond_false_stack", "cond_true_stack",
      "pre_cond_stack", "true_stack", "false_stack", "cur_stree">>

RestoreOrder ==
    <<"goto_stack", "continue_stack", "default_stack", "remaining_cases",
      "switch_stack", "fake_break_stack", "break_stack",
      "fake_cur_stree_stack", "cond_false_stack", "cond_true_stack",
      "pre_cond_stack", "false_stack", "true_stack", "cur_stree">>

\* The i-th pop_backup() takes the i-th entry from the end.
restore_all_states(s) ==
    [f \in Fields |->
        CASE f = "backup" -> SubSeq(s.backup, 1, Len(s.backup) - 14)
          [] f \in Range(RestoreOrder) ->
                LET i == CHOOSE j \in 1..14 : RestoreOrder[j] = f
                IN s.backup[Len(s.backup) + 1 - i]
          [] OTHER -> s[f]]

\* check_stree_stack_free() complains about every stack that is not empty.
Unbalanced(s) == {f \in Stacks : s[f] # <<>>}

clear_all_states(s) ==
    LET t == nullify_path(s)
    IN [f \in Fields |->
          CASE f \in Stacks -> <<>>
            [] f = "goto_stack" -> NULL
            [] f = "oom" -> FALSE
            [] f = "perror" -> s.perror \/ Unbalanced(t) # {}
            [] OTHER -> t[f]]
=============================================================================
