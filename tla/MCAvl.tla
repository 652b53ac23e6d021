------------------------------- MODULE MCAvl -------------------------------
(***************************************************************************)
(* Twelve trackers are what it takes for a removal to rotate at two levels *)
(* of the tree: the smallest trees of height five have twelve nodes.       *)
(***************************************************************************)
EXTENDS Avl

Twelve == 1..12
=============================================================================
