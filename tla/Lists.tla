------------------------------- MODULE Lists -------------------------------
(***************************************************************************)
(* What a ptrlist promises: a sequence of entries, and a loop over it      *)
(* whose body may add entries at the end, and insert before, replace or    *)
(* delete the current one.  While a loop runs the sequence is cut in two:  *)
(* a forward loop has gone through the entries behind it, a reverse loop   *)
(* through the ones ahead.  PtrList gets this from a ring of blocks.       *)
(***************************************************************************)
EXTENDS Sequences, SequencesExt

CONSTANT Entry

VARIABLES loop,      \* "none", "forward", "reverse"
          behind,    \* the entries before the cut
          ahead,     \* the entries after it; all of them without a loop
          on         \* there is a current entry

vars == <<loop, behind, ahead, on>>

Init == loop = "none" /\ behind = <<>> /\ ahead = <<>> /\ on = FALSE

Add(src) == ahead' = ahead \o src /\ UNCHANGED <<loop, behind, on>>

RemoveLast == /\ loop = "none" /\ ahead # <<>>
              /\ ahead' = Front(ahead)
              /\ UNCHANGED <<loop, behind, on>>

Clear == loop = "none" /\ ahead' = <<>> /\ UNCHANGED <<loop, behind, on>>

Begin == /\ loop = "none"
         /\ \/ loop' = "forward" /\ UNCHANGED <<behind, ahead>>
            \/ loop' = "reverse" /\ behind' = ahead /\ ahead' = <<>>
         /\ on' = FALSE

Step == /\ \/ /\ loop = "forward" /\ ahead # <<>>
              /\ behind' = Append(behind, Head(ahead))
              /\ ahead' = Tail(ahead)
           \/ /\ loop = "reverse" /\ behind # <<>>
              /\ behind' = Front(behind)
              /\ ahead' = <<Last(behind)>> \o ahead
        /\ on' = TRUE
        /\ UNCHANGED loop

Leave(seq) == loop' = "none" /\ behind' = <<>> /\ ahead' = seq /\ on' = FALSE

End == loop # "none" /\ Leave(behind \o ahead)

Change(new) ==
    /\ on
    /\ \/ loop = "forward" /\ behind' = Front(behind) \o new /\ UNCHANGED ahead
       \/ loop = "reverse" /\ ahead' = new \o Tail(ahead) /\ UNCHANGED behind
    /\ on' = (new # <<>>)
    /\ UNCHANGED loop

\* A forward loop is left after an insertion.
Insert(e) ==
    \/ /\ loop = "forward" /\ on
       /\ Leave(Front(behind) \o <<e, Last(behind)>> \o ahead)
    \/ /\ loop = "reverse" /\ on
       /\ ahead' = <<e>> \o ahead
       /\ UNCHANGED <<loop, behind, on>>

Next == \/ Begin \/ Step \/ End \/ RemoveLast \/ Clear
        \/ Change(<<>>)
        \/ \E e \in Entry : Add(<<e>>) \/ Change(<<e>>) \/ Insert(e)
        \/ \E e, f \in Entry : Add(<<e, f>>)

Spec == Init /\ [][Next]_vars
=============================================================================
