------------------------------ MODULE PtrList ------------------------------
(***************************************************************************)
(* ptrlist.c and the macros of ptrlist.h: lists of pointers as a ring of   *)
(* blocks of up to LIST_NODE_NR entries.  list is the ring, beginning with *)
(* the block that the head points to; the empty sequence is the null head. *)
(* A loop holds a block and an index into it (__list and __nr), and its    *)
(* body changes the blocks under it.                                       *)
(*                                                                         *)
(* No list is used with all the operations.  kind is the use of this one:  *)
(* "stack" is pushed and popped, "list" is edited by loops, "users" is the *)
(* list of uses of a pseudo, whose entries are only marked as deleted.     *)
(* "blocks" is the one list with deletions in a reverse loop, which skip   *)
(* an entry: the basic blocks of simplify_cfg_early(), where a block that  *)
(* is to be deleted does not occur (module Liveness).                      *)
(***************************************************************************)
EXTENDS Integers, Sequences, SequencesExt

CONSTANTS Entry,          \* what the pointers point to
          NIL,            \* the null pointer in a deleted entry
          LIST_NODE_NR,   \* entries in a block
          Kinds,          \* the uses considered
          MaxBlocks       \* bound of the blocks of a list

ASSUME NodeAssumption == LIST_NODE_NR \in Nat \ {0, 1}
ASSUME NilAssumption == NIL \notin Entry

VARIABLES kind,           \* the use of the list
          list,           \* blocks: nr entries, rm of them marked
          loop,           \* "none", "forward" or "reverse"
          cur,            \* __list and __nr, as the place of a block and an index
          on,             \* the loop is on an entry that is still in the list
          due             \* the entries that the loop has still to visit

vars == <<kind, list, loop, cur, on, due>>

Uses == [stack |-> {"add", "delete_last"},
         list |-> {"add", "copy", "undo", "pack", "insert", "delete", "replace"},
         users |-> {"add", "mark"},
         blocks |-> {"add", "delete", "reverse_delete"}]
Used(op) == op \in Uses[kind]

Nr(l, b) == Len(l[b].list)
Live(seq) == SelectSeq(seq, LAMBDA e : e # NIL)
Flat(l) == Live(FlattenSeq([b \in DOMAIN l |-> l[b].list]))
Idle == loop = "none"
NoLoop == loop' = "none" /\ cur' = [b |-> 1, nr |-> 0] /\ on' = FALSE /\ due' = {}

\* The entries before the place nr of block b.
Before(b, nr) ==
    Flat(SubSeq(list, 1, b - 1))
        \o Live(SubSeq(list[b].list, 1, IF nr < Nr(list, b) THEN nr ELSE Nr(list, b)))
-----------------------------------------------------------------------------
ptr_list_size(l) ==
    FoldSeq(LAMBDA blk, n : n + Len(blk.list) - blk.rm, 0, l)
ptr_list_empty(l) == \A b \in DOMAIN l : Len(l[b].list) = l[b].rm

\* The first block with entries, going one way round the ring or the other.
first_ptr_list(l) ==
    LET full == SelectSeq(l, LAMBDA blk : blk.list # <<>>)
    IN IF full = <<>> THEN NIL ELSE Head(Head(full).list)
last_ptr_list(l) ==
    LET full == SelectSeq(l, LAMBDA blk : blk.list # <<>>)
    IN IF full = <<>> THEN NIL ELSE Last(Last(full).list)

NewBlock(entries) == [list |-> entries, rm |-> 0]

\* A bug: one entry too many goes into a block.
add_off_by_one(l, e) ==
    IF l = <<>> \/ Len(Last(l).list) > LIST_NODE_NR
    THEN Append(l, NewBlock(<<e>>))
    ELSE [l EXCEPT ![Len(l)].list = Append(@, e)]

add_ptr_list(l, e) ==
    IF l = <<>> \/ Len(Last(l).list) >= LIST_NODE_NR
    THEN Append(l, NewBlock(<<e>>))
    ELSE [l EXCEPT ![Len(l)].list = Append(@, e)]

pack_ptr_list(l) == SelectSeq(l, LAMBDA blk : blk.list # <<>>)

\* A bug: the entries that move are counted from the other end.
split_off_less(l, b) ==
    LET old == Nr(l, b) \div 2
    IN InsertAt([l EXCEPT ![b].list = SubSeq(@, 1, old)], b + 1,
                NewBlock(SubSeq(l[b].list, old + 2, Nr(l, b))))

split_ptr_list_head(l, b) ==
    LET old == Nr(l, b) - Nr(l, b) \div 2
    IN InsertAt([l EXCEPT ![b].list = SubSeq(@, 1, old)], b + 1,
                NewBlock(SubSeq(l[b].list, old + 1, Nr(l, b))))
-----------------------------------------------------------------------------
Init == /\ kind \in Kinds
        /\ list = <<>>
        /\ loop = "none"
        /\ cur = [b |-> 1, nr |-> 0]
        /\ on = FALSE
        /\ due = {}

\* An entry added to the end is seen by a loop that goes forward.
add(e) ==
    /\ Used("add")
    /\ list' = add_ptr_list(list, e)
    /\ due' = IF loop = "forward" THEN due \cup {e} ELSE due
    /\ UNCHANGED <<kind, loop, cur, on>>

\* The blocks of src are taken over, or emptied into this list.
copy_ptr_list(src) ==
    /\ Used("copy") /\ Idle
    /\ list' = IF list = <<>> THEN <<NewBlock(src)>>
               ELSE FoldLeft(add_ptr_list, list, src)
    /\ UNCHANGED <<kind, loop, cur, on, due>>

undo_ptr_list_last ==
    /\ Used("undo") /\ Idle
    /\ LET full == {b \in DOMAIN list : list[b].list # <<>>}
       IN \E b \in full : /\ \A c \in full : c <= b
                          /\ list' = [list EXCEPT ![b].list = Front(@)]
    /\ UNCHANGED <<kind, loop, cur, on, due>>

\* Only the last block is looked at, and it is freed once it is empty.
delete_ptr_list_last ==
    /\ Used("delete_last") /\ Idle /\ list # <<>>
    /\ LET last == Last(list).list
       IN list' = IF Len(last) <= 1 THEN Front(list)
                  ELSE [list EXCEPT ![Len(list)].list = Front(@)]
    /\ UNCHANGED <<kind, loop, cur, on, due>>

PackList ==
    /\ Used("pack") /\ Idle
    /\ list' = pack_ptr_list(list)
    /\ UNCHANGED <<kind, loop, cur, on, due>>

free_ptr_list ==
    /\ Idle
    /\ list' = <<>>
    /\ UNCHANGED <<kind, loop, cur, on, due>>
-----------------------------------------------------------------------------
\* Loops.

for_each_ptr ==
    /\ Idle /\ list # <<>>
    /\ \/ loop' = "forward" /\ cur' = [b |-> 1, nr |-> -1]
       \/ /\ loop' = "reverse"
          /\ cur' = [b |-> Len(list), nr |-> Nr(list, Len(list))]
    /\ due' = Range(Flat(list))
    /\ UNCHANGED <<kind, list, on>>

EntryAt(p) == list[p.b].list[p.nr + 1]
Precedes(p, q) == p.b < q.b \/ (p.b = q.b /\ p.nr < q.nr)
Forth(p, q) == IF loop = "forward" THEN Precedes(p, q) ELSE Precedes(q, p)

\* The entries that are still in the way of the loop.
Remaining ==
    {p \in [b : DOMAIN list, nr : 0..(LIST_NODE_NR - 1)] :
        /\ p.nr < Nr(list, p.b)
        /\ ~(list[p.b].rm > 0 /\ EntryAt(p) = NIL)
        /\ Forth(cur, p)}

next_ptr ==
    /\ ~Idle
    /\ \E p \in Remaining :
        /\ \A q \in Remaining : p = q \/ Forth(p, q)
        /\ cur' = p
        /\ due' = due \ {EntryAt(p)}
    /\ on' = TRUE
    /\ UNCHANGED <<kind, list, loop>>

\* The loop ends, or its body leaves it.  Only delete_pseudo_user_list_entry()
\* loops over users, and it drops a list without users.
end_for_each_ptr ==
    /\ ~Idle
    /\ list' = IF kind = "users" /\ ptr_list_empty(list) THEN <<>> ELSE list
    /\ NoLoop
    /\ UNCHANGED kind

\* A full block is split; the current entry may be in the new one.
INSERT_CURRENT(e) ==
    /\ Used("insert") /\ on
    /\ LET full == Nr(list, cur.b) = LIST_NODE_NR
           l == IF full THEN split_ptr_list_head(list, cur.b) ELSE list
           p == IF full /\ cur.nr >= Nr(l, cur.b)
                THEN [b |-> cur.b + 1, nr |-> cur.nr - Nr(l, cur.b)] ELSE cur
       IN /\ list' = [l EXCEPT ![p.b].list = InsertAt(@, p.nr + 1, e)]
          /\ IF loop = "forward" THEN NoLoop
             ELSE cur' = p /\ UNCHANGED <<loop, on, due>>
    /\ UNCHANGED kind

\* A bug: the index is not moved back to where the entry was.
delete_and_skip ==
    /\ on
    /\ Used(IF loop = "forward" THEN "delete" ELSE "reverse_delete")
    /\ list' = [list EXCEPT ![cur.b].list = RemoveAt(@, cur.nr + 1)]
    /\ on' = FALSE
    /\ UNCHANGED <<kind, loop, cur, due>>

DELETE_CURRENT_PTR ==
    /\ on
    /\ Used(IF loop = "forward" THEN "delete" ELSE "reverse_delete")
    /\ list' = [list EXCEPT ![cur.b].list = RemoveAt(@, cur.nr + 1)]
    /\ cur' = [cur EXCEPT !.nr = @ - 1]
    /\ on' = FALSE
    /\ UNCHANGED <<kind, loop, due>>

REPLACE_CURRENT_PTR(e) ==
    /\ Used("replace") /\ on
    /\ list' = [list EXCEPT ![cur.b].list[cur.nr + 1] = e]
    /\ UNCHANGED <<kind, loop, cur, on, due>>

\* A bug: the entry is cleared and not counted.
mark_uncounted ==
    /\ Used("mark") /\ on
    /\ list' = [list EXCEPT ![cur.b].list[cur.nr + 1] = NIL]
    /\ on' = FALSE
    /\ UNCHANGED <<kind, loop, cur, due>>

MARK_CURRENT_DELETED ==
    /\ Used("mark") /\ on
    /\ list' = [list EXCEPT ![cur.b].list[cur.nr + 1] = NIL, ![cur.b].rm = @ + 1]
    /\ on' = FALSE
    /\ UNCHANGED <<kind, loop, cur, due>>

New == Entry \ Range(Flat(list))

Next ==
    \/ /\ \/ \E e \in New : add(e) \/ INSERT_CURRENT(e)
          \/ \E e, f \in New : e # f /\ copy_ptr_list(<<e, f>>)
       /\ Len(list') <= MaxBlocks
    \/ \E e \in New : REPLACE_CURRENT_PTR(e)
    \/ undo_ptr_list_last \/ delete_ptr_list_last \/ PackList \/ free_ptr_list
    \/ for_each_ptr \/ next_ptr \/ end_for_each_ptr
    \/ DELETE_CURRENT_PTR \/ MARK_CURRENT_DELETED

Spec == Init /\ [][Next]_vars
-----------------------------------------------------------------------------
\* A block holds at most LIST_NODE_NR entries, and the loop is on a block of
\* the ring.
TypeOK == /\ kind \in Kinds
          /\ \A b \in DOMAIN list : Nr(list, b) <= LIST_NODE_NR
          /\ loop \in {"none", "forward", "reverse"}
          /\ ~Idle => cur.b \in DOMAIN list
          /\ on \in BOOLEAN
          /\ due \subseteq Entry

\* ptr_list_size(), ptr_list_empty(), first_ptr_list() and last_ptr_list()
\* tell the truth about the entries that are not deleted, however they are
\* spread over full, half full and empty blocks.
QueriesAgree ==
    LET entries == Flat(list)
    IN /\ ptr_list_size(list) = Len(entries)
       /\ ptr_list_empty(list) = (entries = <<>>)
       /\ kind # "users" =>
            IF entries = <<>> THEN first_ptr_list(list) = NIL /\ last_ptr_list(list) = NIL
            ELSE first_ptr_list(list) = Head(entries) /\ last_ptr_list(list) = Last(entries)

\* A loop whose body deletes, replaces, inserts and adds entries visits all
\* the entries that it did not delete: when nothing is left in its way, it
\* has been everywhere.
AllVisited == ~Idle /\ Remaining = {} => due = {}

Cut == Before(cur.b, IF loop = "forward" THEN cur.nr + 1 ELSE cur.nr)
L == INSTANCE Lists WITH
        behind <- IF Idle THEN <<>> ELSE Cut,
        ahead <- IF Idle THEN Flat(list)
                 ELSE SubSeq(Flat(list), Len(Cut) + 1, Len(Flat(list)))

\* The ring of blocks implements a sequence with one loop over it: splitting,
\* packing and emptying blocks under a loop neither loses nor repeats an
\* entry, nor moves the loop off its place.
ListSpec == L!Spec
=============================================================================
