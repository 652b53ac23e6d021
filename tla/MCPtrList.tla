----------------------------- MODULE MCPtrList -----------------------------
(***************************************************************************)
(* Blocks of three entries, odd like LIST_NODE_NR, so that a split leaves  *)
(* halves of different sizes, and enough entries for two or three blocks.  *)
(***************************************************************************)
EXTENDS PtrList, TLC

Symmetry == Permutations(Entry)
=============================================================================
