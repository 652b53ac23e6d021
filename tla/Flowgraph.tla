----------------------------- MODULE Flowgraph ------------------------------
(***************************************************************************)
(* The order of the blocks, the dominance tree (flowgraph.c) and the        *)
(* iterated dominance frontier (dominate.c).                                *)
(***************************************************************************)
EXTENDS Ir
LOCAL INSTANCE SequencesExt
LOCAL INSTANCE FiniteSetsExt

RECURSIVE label_postorder(_, _, _)
label_postorder(f, b, order) ==
    IF b \in ToSet(order.seen) THEN order
    ELSE LET below == FoldLeft(LAMBDA o, c : label_postorder(f, c, o),
                               [order EXCEPT !.seen = Append(@, b)],
                               Reverse(f.children[b]))
         IN  [below EXCEPT !.list = Append(@, b)]

Postorder(f) == label_postorder(f, Entry, [seen |-> <<>>, list |-> <<>>]).list

cfg_postorder(f) == [f EXCEPT !.bbs = Reverse(Postorder(f))]

\* postorder_nr, by block
OrderNumber(f) ==
    LET order == Postorder(f)
    IN  [b \in ToSet(order) |-> SelectInSeq(order, LAMBDA c : c = b) - 1]

RECURSIVE intersect_dom(_, _, _, _)
intersect_dom(nr, doms, b1, b2) ==
    IF nr[b1] < nr[b2] THEN intersect_dom(nr, doms, doms[b1], b2)
    ELSE IF nr[b2] < nr[b1] THEN intersect_dom(nr, doms, b1, doms[b2])
    ELSE b1

\* A bug: the parents are not intersected.
IdomOfFirst(f, nr, doms, b) ==
    FoldLeft(LAMBDA new, p : IF doms[p] = 0 \/ new # 0 THEN new ELSE p, 0, f.parents[b])

\* the new immediate dominator of b, from those of its parents; 0 is NULL
NewIdom(f, nr, doms, b) ==
    FoldLeft(LAMBDA new, p : IF doms[p] = 0 THEN new
                             ELSE IF new = 0 THEN p
                             ELSE intersect_dom(nr, doms, p, new),
             0, f.parents[b])

RECURSIVE DomFixpoint(_, _, _)
DomFixpoint(f, nr, doms) ==
    LET Sweep(d, b) == IF b = Entry THEN d ELSE [d EXCEPT ![b] = NewIdom(f, nr, d, b)]
        new == FoldLeft(Sweep, doms, f.bbs)
    IN  IF new = doms THEN doms ELSE DomFixpoint(f, nr, new)

domtree_build(f) ==
    LET g == cfg_postorder(f)
        nr == OrderNumber(f)
        doms == DomFixpoint(g, nr, [b \in ToSet(g.bbs) |-> IF b = Entry THEN Entry ELSE 0])
        idom == [b \in DOMAIN f.idom |->
                    IF b \in DOMAIN doms THEN (IF b = Entry THEN 0 ELSE doms[b])
                    ELSE f.idom[b]]
        Level(l, b) == [l EXCEPT ![b] = IF b = Entry THEN 0 ELSE l[idom[b]] + 1]
    IN  [g EXCEPT
            !.idom = idom,
            !.doms = [b \in DOMAIN @ |->
                IF b \in DOMAIN doms THEN SelectSeq(g.bbs, LAMBDA c : idom[c] = b) ELSE @[b]],
            !.dom_level = FoldLeft(Level, @, g.bbs)]

RECURSIVE IdomChain(_, _, _)
IdomChain(f, a, b) == b # 0 /\ (b = a \/ IdomChain(f, a, f.idom[b]))

domtree_dominates(f, a, b) ==
    \/ a = b
    \/ a = f.idom[b]
    \/ /\ b # f.idom[a]
       /\ f.dom_level[a] < f.dom_level[b]
       /\ IdomChain(f, a, f.idom[b])

-----------------------------------------------------------------------------
(* idf_compute.  The state s of the computation: the piggy bank (one list of *)
(* blocks for each level of the tree), its current level max, the flags      *)
(* VISITED, INPHI and ALPHA of a block, and the frontier.                    *)

bank_put(f, s, b) == [s EXCEPT !.bank[f.dom_level[b]] = Append(@, b)]

\* A bug: the frontier is not iterated.
FoundOnly(f, s, y) == [s EXCEPT !.inphi = @ \union {y}, !.idf = Append(@, y)]

\* y is in the frontier, and its own frontier is to be looked at
Found(f, s, y) ==
    LET q == [s EXCEPT !.inphi = @ \union {y}, !.idf = Append(@, y)]
    IN  IF y \in s.alpha THEN q ELSE bank_put(f, q, y)

RECURSIVE visit(_, _, _, _)
visit(f, s, x, level) ==
    LET Edge(r, y) ==
            IF f.idom[y] = x \/ f.dom_level[y] > level \/ y \in r.inphi THEN r
            ELSE Found(f, r, y)
        Below(r, y) == IF y \in r.visited THEN r ELSE visit(f, r, y, level)
    IN  FoldLeft(Below,
                 FoldLeft(Edge, [s EXCEPT !.visited = @ \union {x}], f.children[x]),
                 f.doms[x])

\* bank_get() and the loop around it
RECURSIVE EmptyBank(_, _)
EmptyBank(f, s) ==
    IF s.bank[s.max] # <<>>
    THEN LET b == Last(s.bank[s.max])
         IN  EmptyBank(f, visit(f, [s EXCEPT !.bank[s.max] = Front(@)], b, f.dom_level[b]))
    ELSE IF s.max = 0 THEN s ELSE EmptyBank(f, [s EXCEPT !.max = @ - 1])

DomLevels(f) == Max({ f.dom_level[b] : b \in ToSet(f.bbs) }) + 1

idf_compute(f, alpha) ==
    LET start == [bank |-> [l \in 0..DomLevels(f) - 1 |-> <<>>], max |-> DomLevels(f) - 1,
                  visited |-> {}, inphi |-> {}, alpha |-> ToSet(alpha), idf |-> <<>>]
    IN  EmptyBank(f, FoldLeft(LAMBDA s, b : bank_put(f, s, b), start, alpha)).idf
=============================================================================
