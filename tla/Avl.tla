-------------------------------- MODULE Avl --------------------------------
(***************************************************************************)
(* avl.c: the balanced binary tree inside an stree.  A tree is a value:    *)
(* NULL or a node with its two subtrees lr[0] and lr[1], and a function of *)
(* the source that updates *p returns the new tree next to its result.     *)
(* Module Stree says who may write to a tree and when it is copied.        *)
(***************************************************************************)
EXTENDS Integers, Sequences, SequencesExt

CONSTANTS NULL,        \* the null pointer
          Key,         \* trackers, in the order of cmp_tracker()
          Sm, NoSm     \* sm_states; no state

ASSUME KeyAssumption == Key \subseteq Nat
ASSUME SmAssumption == NoSm \notin Sm

VARIABLES root,        \* stree->root
          count        \* stree->count

vars == <<root, count>>

mkNode(k, sm) ==
    [k |-> k, sm |-> sm, lr |-> [side \in {0, 1} |-> NULL], balance |-> 0]

bal(side) == IF side = 0 THEN -1 ELSE 1
side_of(cmp) == IF cmp = 1 THEN 1 ELSE 0
cmp_tracker(a, b) == CASE a < b -> -1 [] a > b -> 1 [] OTHER -> 0

RECURSIVE lookup(_, _)
lookup(node, k) ==
    IF node = NULL THEN NoSm
    ELSE LET cmp == cmp_tracker(k, node.k)
         IN IF cmp = 0 THEN node.sm ELSE lookup(node.lr[side_of(cmp)], k)
-----------------------------------------------------------------------------
\* A bug: the rotation for the other shape is never made.
balance_once(p, side) ==
    LET child == p.lr[side]
        b == child.balance - bal(side)
    IN [child EXCEPT
          !.lr[1 - side] = [p EXCEPT !.lr[side] = child.lr[1 - side],
                                     !.balance = -b],
          !.balance = b]

\* Tree rotations on a node that leans to one side by two.
balance(p, side) ==
    LET child == p.lr[side]
        opposite == 1 - side
        b == child.balance - bal(side)
        grandchild == child.lr[opposite]
    IN IF child.balance # -bal(side)
       THEN [child EXCEPT
               !.lr[opposite] = [p EXCEPT !.lr[side] = child.lr[opposite],
                                          !.balance = -b],
               !.balance = b]
       ELSE [grandchild EXCEPT
               !.lr[side] =
                   [child EXCEPT
                      !.lr[opposite] = grandchild.lr[side],
                      !.balance = IF grandchild.balance = -bal(side)
                                  THEN bal(side) ELSE 0],
               !.lr[opposite] =
                   [p EXCEPT
                      !.lr[side] = grandchild.lr[opposite],
                      !.balance = IF grandchild.balance = bal(side)
                                  THEN -bal(side) ELSE 0],
               !.balance = 0]

sway(p, by) == IF p.balance # by THEN [p EXCEPT !.balance = @ + by]
               ELSE balance(p, side_of(by))

\* grew, shrunk: what insert_sm() and remove_sm() return, the change of the
\* height of the subtree; n: the change of stree->count.
RECURSIVE insert_sm(_, _, _)
insert_sm(p, k, sm) ==
    IF p = NULL THEN [p |-> mkNode(k, sm), n |-> 1, grew |-> TRUE]
    ELSE LET cmp == cmp_tracker(k, p.k)
             r == insert_sm(p.lr[side_of(cmp)], k, sm)
             q == [p EXCEPT !.lr[side_of(cmp)] = r.p]
             swayed == sway(q, cmp)
         IN CASE cmp = 0 -> [p |-> [p EXCEPT !.sm = sm], n |-> 0, grew |-> FALSE]
              [] cmp # 0 /\ ~r.grew -> [r EXCEPT !.p = q]
              [] OTHER -> [r EXCEPT !.p = swayed, !.grew = swayed.balance # 0]

\* A bug: the subtree under the node that is taken out is lost.
RECURSIVE removeExtremum(_, _)
extremum_and_child(p, side) ==
    IF p.lr[side] = NULL THEN [p |-> NULL, ret |-> p, shrunk |-> TRUE]
    ELSE LET r == removeExtremum(p.lr[side], side)
             q == [p EXCEPT !.lr[side] = r.p]
             swayed == sway(q, -bal(side))
         IN IF ~r.shrunk THEN [r EXCEPT !.p = q]
            ELSE [r EXCEPT !.p = swayed, !.shrunk = swayed.balance = 0]

\* Take the left-most (side 0) or right-most node out of a subtree.
removeExtremum(p, side) ==
    IF p.lr[side] = NULL
    THEN [p |-> p.lr[1 - side], ret |-> p, shrunk |-> TRUE]
    ELSE LET r == removeExtremum(p.lr[side], side)
             q == [p EXCEPT !.lr[side] = r.p]
             swayed == sway(q, -bal(side))
         IN IF ~r.shrunk THEN [r EXCEPT !.p = q]
            ELSE [r EXCEPT !.p = swayed, !.shrunk = swayed.balance = 0]

\* A node with two subtrees is replaced by its neighbour in the higher one.
remove_node(p) ==
    LET side == IF p.balance <= 0 THEN 0 ELSE 1
        r == removeExtremum(p.lr[side], 1 - side)
        b == IF r.shrunk THEN p.balance - bal(side) ELSE p.balance
    IN CASE p.lr[0] = NULL -> [p |-> p.lr[1], n |-> -1, shrunk |-> TRUE]
         [] p.lr[1] = NULL -> [p |-> p.lr[0], n |-> -1, shrunk |-> TRUE]
         [] OTHER -> [p |-> [p EXCEPT !.k = r.ret.k, !.sm = r.ret.sm,
                                      !.lr[side] = r.p, !.balance = b],
                      n |-> -1, shrunk |-> r.shrunk /\ b = 0]

RECURSIVE remove_sm(_, _)
remove_sm(p, k) ==
    IF p = NULL THEN [p |-> NULL, n |-> 0, shrunk |-> FALSE]
    ELSE LET cmp == cmp_tracker(k, p.k)
             r == remove_sm(p.lr[side_of(cmp)], k)
             q == [p EXCEPT !.lr[side_of(cmp)] = r.p]
             swayed == sway(q, -cmp)
         IN CASE cmp = 0 -> remove_node(p)
              [] cmp # 0 /\ ~r.shrunk -> [r EXCEPT !.p = q]
              [] OTHER -> [r EXCEPT !.p = swayed, !.shrunk = swayed.balance = 0]
-----------------------------------------------------------------------------
\* Traversal: an AvlIter is the node it stands on, the nodes above it that
\* are still to be visited, and the direction.

RECURSIVE Descend(_, _, _)
Descend(node, stack, dir) ==
    IF node.lr[dir] = NULL THEN [node |-> node, stack |-> stack, dir |-> dir]
    ELSE Descend(node.lr[dir], Append(stack, node), dir)

avl_iter_begin(tree, dir) ==
    IF tree = NULL THEN [node |-> NULL, stack |-> <<>>, dir |-> dir]
    ELSE Descend(tree, <<>>, dir)

\* A bug: the subtree on the other side is entered at its root.
iter_next_at_root(iter) ==
    LET node == iter.node.lr[1 - iter.dir]
    IN CASE node # NULL -> [iter EXCEPT !.node = node]
         [] node = NULL /\ iter.stack # <<>> ->
                [iter EXCEPT !.node = Last(iter.stack), !.stack = Front(@)]
         [] OTHER -> [iter EXCEPT !.node = NULL]

avl_iter_next(iter) ==
    LET node == iter.node.lr[1 - iter.dir]
    IN CASE node # NULL -> Descend(node, iter.stack, iter.dir)
         [] node = NULL /\ iter.stack # <<>> ->
                [iter EXCEPT !.node = Last(iter.stack), !.stack = Front(@)]
         [] OTHER -> [iter EXCEPT !.node = NULL]

\* avl_traverse(): the trackers in the order the loop visits them.
RECURSIVE Visits(_)
Visits(iter) == IF iter.node = NULL THEN <<>>
                ELSE <<iter.node.k>> \o Visits(avl_iter_next(iter))
avl_traverse(tree, dir) == Visits(avl_iter_begin(tree, dir))
-----------------------------------------------------------------------------
Init == root = NULL /\ count = 0

avl_insert(k, sm) == LET r == insert_sm(root, k, sm)
                     IN root' = r.p /\ count' = count + r.n

avl_remove(k) == LET r == remove_sm(root, k)
                 IN root' = r.p /\ count' = count + r.n

Next == \E k \in Key : avl_remove(k) \/ \E sm \in Sm : avl_insert(k, sm)

Spec == Init /\ [][Next]_vars
-----------------------------------------------------------------------------
\* The height of a correctly balanced tree, or -1 if some balance field is
\* not the difference of the heights below it, or not one of -1, 0 and 1.
RECURSIVE checkBalances(_)
checkBalances(node) ==
    IF node = NULL THEN 0
    ELSE LET h0 == checkBalances(node.lr[0])
             h1 == checkBalances(node.lr[1])
         IN IF h0 < 0 \/ h1 < 0 \/ node.balance # h1 - h0
               \/ node.balance \notin {-1, 0, 1}
            THEN -1
            ELSE (IF h0 > h1 THEN h0 ELSE h1) + 1

RECURSIVE Trackers(_)
Trackers(node) == IF node = NULL THEN <<>>
                  ELSE Trackers(node.lr[0]) \o <<node.k>> \o Trackers(node.lr[1])

\* avl_check_invariants(): after any sequence of insertions and removals the
\* balance fields are the differences of the heights and within one, and
\* count is the number of nodes.
Balanced == checkBalances(root) >= 0 /\ count = Len(Trackers(root))

\* A loop over the tree, in either direction, visits every tracker in it
\* exactly once and in the order of cmp_tracker(): checkOrder().  merge
\* and match of two trees walk them side by side and rely on it.
VisitsInOrder ==
    LET forward == avl_traverse(root, 0)
    IN /\ forward = Trackers(root)
       /\ \A i \in 1..(Len(forward) - 1) : forward[i] < forward[i + 1]
       /\ avl_traverse(root, 1) = Reverse(forward)

\* What lookup() finds in the tree is a map: an insertion or a removal
\* changes the state of its own tracker and of no other, however many nodes
\* it rotates or replaces on its way.
LookupIsMap ==
    LET old == [k \in Key |-> lookup(root, k)]
        Is(tree, map) == \A k \in Key : lookup(tree, k) = map[k]
    IN \A k \in Key :
        /\ Is(remove_sm(root, k).p, [old EXCEPT ![k] = NoSm])
        /\ \A sm \in Sm : Is(insert_sm(root, k, sm).p, [old EXCEPT ![k] = sm])
=============================================================================
