----------------------------- MODULE StateMaps -----------------------------
(***************************************************************************)
(* What the rest of smatch relies on when it holds a "struct stree *": the *)
(* pointer is a private map from trackers (owner, name, symbol) to states. *)
(* Whatever is done through one pointer, what the others hold stays as it  *)
(* was; the NULL pointer is the empty map.  avl.c (module Stree) gets this *)
(* from shared trees, reference counts and copy on write.                  *)
(***************************************************************************)
CONSTANTS Handle,   \* the variables, stack slots and pools that hold a tree
          Key,      \* trackers
          Sm,       \* sm_states
          NoSm      \* no state for this tracker

VARIABLE m          \* m[h]: the map that handle h holds

Maps == [Key -> Sm \cup {NoSm}]
Empty == [k \in Key |-> NoSm]

Init == m = [h \in Handle |-> Empty]

Insert(h, k, s) == m' = [m EXCEPT ![h] = [m[h] EXCEPT ![k] = s]]
Remove(h, k) == m' = [m EXCEPT ![h] = [m[h] EXCEPT ![k] = NoSm]]
Copy(h, g) == m[g] = Empty /\ m' = [m EXCEPT ![g] = m[h]]
Drop(h) == m' = [m EXCEPT ![h] = Empty]
Transfer(h, g) ==
    m[g] = Empty /\ m' = [m EXCEPT ![g] = m[h], ![h] = Empty]

Next == \E h \in Handle :
    \/ Drop(h)
    \/ \E k \in Key : Remove(h, k) \/ \E s \in Sm : Insert(h, k, s)
    \/ \E g \in Handle \ {h} : Copy(h, g) \/ Transfer(h, g)

Spec == Init /\ [][Next]_m
=============================================================================
