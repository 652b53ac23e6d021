------------------------------ MODULE MCStree ------------------------------
(* Three handles (two and the copy a loop makes, or three aliases of one   *)
(* tree), three tree addresses, a tracker of an ordinary check and          *)
(* "unnull_path", the one that has no has_states byte.                     *)
EXTENDS Stree, TLC

MCOwnerOf == 1 :> "check" @@ 2 :> "USHRT_MAX"
Symmetry == Permutations(Handle) \cup Permutations(Obj)
=============================================================================
