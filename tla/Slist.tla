------------------------------- MODULE Slist -------------------------------
(***************************************************************************)
(* smatch_slist.c: operations on whole strees and on stacks of strees.     *)
(* Module Stree shows that a pointer to a tree behaves as a private map,   *)
(* and that the null pointer is the empty one, so here an stree is a       *)
(* function from trackers to states and NULL is the empty function.  A     *)
(* state is the set of its possible states (sm->possible): a leaf is a     *)
(* singleton, a merged state the union of what was merged.  Every leaf is  *)
(* told from every other by the number it is given when it is set, so two  *)
(* states are equal exactly when the code compares equal pointers.         *)
(***************************************************************************)
EXTENDS Naturals, Sequences, Functions

CONSTANT Unset           \* the state "undefined": no client ever set one

\* The two operators of SequencesExt that are needed: the proofs about these
\* modules take three times as long with all of its definitions at hand.
Last(q) == q[Len(q)]
Front(q) == SubSeq(q, 1, Len(q) - 1)

NULL == [k \in {} |-> {}]

Leaf(k, s) == [j \in {k} |-> {s}]

\* The states that the tree stands for: a tracker that is not in the tree
\* gets the unmatched state when it has to be compared.
Possible(tree, k) == IF k \in DOMAIN tree THEN tree[k] ELSE {Unset}

overwrite_stree(from, to) ==
    [k \in DOMAIN from \cup DOMAIN to |->
        IF k \in DOMAIN from THEN from[k] ELSE to[k]]

\* match_states_stree() gives both sides the same trackers; a merged state
\* keeps the possible states of both.  Once memory has run out nothing is
\* merged any more.
merge_stree(to, tree, oom) ==
    CASE oom \/ tree = NULL -> to
      [] to = NULL -> tree
      [] OTHER -> [k \in DOMAIN to \cup DOMAIN tree |->
                      Possible(to, k) \cup Possible(tree, k)]

\* What one side of merge_fake_stree() lacks is looked up in the current
\* states, which no longer have the states of either side.
merge_fake_stree(to, tree, cur, oom) ==
    LET Matched(one, other) ==
            overwrite_stree(one, [k \in (DOMAIN other \ DOMAIN one)
                                         \cap DOMAIN cur |-> cur[k]])
    IN CASE tree = NULL -> to
         [] to = NULL -> tree
         [] OTHER -> merge_stree(Matched(to, tree), Matched(tree, to), oom)

\* Drop what the tree has in common with the filter.
filter_stree(tree, filter) ==
    [k \in {j \in DOMAIN tree :
               j \notin DOMAIN filter \/ filter[j] # tree[j]} |-> tree[k]]

push_stree(stack, tree) == Append(stack, tree)
top_stree(stack) == IF stack = <<>> THEN NULL ELSE Last(stack)
pop_stree(stack) == IF stack = <<>> THEN <<>> ELSE Front(stack)

\* FOR_EACH_SM(tree, sm) overwrite_sm_state_stree_stack(stack, sm)
overwrite_top(stack, tree) ==
    IF tree = NULL THEN stack
    ELSE push_stree(pop_stree(stack), overwrite_stree(tree, top_stree(stack)))

and_stree_stack(stack) == overwrite_top(pop_stree(stack), top_stree(stack))

\* A bug: the right operand starts from the states before the condition.
or_from_pre(pre_conds, cur, stack, oom) ==
    LET new == top_stree(stack)
        old == top_stree(pop_stree(stack))
        pre == top_stree(pre_conds)
        res == merge_stree(overwrite_stree(old, pre),
                           overwrite_stree(new, pre), oom)
    IN push_stree(pop_stree(pop_stree(stack)), filter_stree(res, pre))

or_stree_stack(pre_conds, cur, stack, oom) ==
    LET new == top_stree(stack)
        old == top_stree(pop_stree(stack))
        pre == top_stree(pre_conds)
        res == merge_stree(overwrite_stree(old, pre),
                           overwrite_stree(new, cur), oom)
    IN push_stree(pop_stree(pop_stree(stack)), filter_stree(res, pre))
=============================================================================
