------------------------------- MODULE Stree -------------------------------
(***************************************************************************)
(* avl.c: the "stree", the map from trackers to sm_states in which smatch  *)
(* keeps what it knows on a path.  Trees are shared between handles (the   *)
(* variables, stack slots and pools that point to a struct stree) with a   *)
(* reference count, and copied when a handle writes to a shared one.  The  *)
(* balanced tree inside is the subject of module Avl; here its content is  *)
(* a function.                                                             *)
(***************************************************************************)
EXTENDS Integers, FiniteSets

CONSTANTS Handle,      \* pointers to strees
          Obj,         \* addresses malloc can return
          NULL,        \* the null pointer
          Key,         \* trackers, in the order of cmp_tracker()
          Owner,       \* checks with states
          OwnerOf,     \* the owner of a tracker, or USHRT_MAX
          USHRT_MAX,   \* the owner of "unnull_path"
          Sm, NoSm,    \* sm_states; no state
          MaxId,       \* bound of __stree_id
          MaxRefs      \* bound of references

ASSUME HandleAssumption == IsFiniteSet(Handle)
ASSUME NullAssumption == NULL \notin Obj \cup Handle
ASSUME KeyAssumption == Key \subseteq Nat \ {0}
ASSUME SmAssumption == NoSm \notin Sm
ASSUME OwnerAssumption ==
    OwnerOf \in [Key -> Owner \cup {USHRT_MAX}] /\ USHRT_MAX \notin Owner
ASSUME BoundAssumption == MaxId \in Nat /\ MaxRefs \in Nat

VARIABLES ptr,         \* ptr[h]: the tree a handle points to
          refs,        \* stree->references; 0 for memory not in use
          map,         \* the states in the tree
          has_states,  \* the owners whose has_states byte is set
          stree_id,    \* stree->stree_id
          iter         \* the FOR_EACH_SM_SAFE loop in progress

vars == <<ptr, refs, map, has_states, stree_id, iter>>

Maps == [Key -> Sm \cup {NoSm}]
EmptyMap == [k \in Key |-> NoSm]
FreeObj == {o \in Obj : refs[o] = 0}
HandlesOf(o) == {h \in Handle : ptr[h] = o}

\* What is stored under the tree of handle h.
View(h) == IF ptr[h] = NULL THEN EmptyMap ELSE map[ptr[h]]

OwnerBits(f) == {OwnerOf[k] : k \in {j \in Key : f[j] # NoSm}} \ {USHRT_MAX}

NoIter == [obj |-> NULL, copy |-> NULL, pos |-> 0]
Iters == [obj : Obj \cup {NULL}, copy : Handle \cup {NULL}, pos : Nat]

\* The _copy of the loop macro is a local of the loop: nobody else uses it.
Usable == Handle \ {iter.copy}

Init == /\ ptr = [h \in Handle |-> NULL]
        /\ refs = [o \in Obj |-> 0]
        /\ map = [o \in Obj |-> EmptyMap]
        /\ has_states = [o \in Obj |-> {}]
        /\ stree_id = [o \in Obj |-> 0]
        /\ iter = NoIter
-----------------------------------------------------------------------------
\* A bug: the copy is made only from the third handle on.
SharedByThree(h) == ptr[h] # NULL /\ refs[ptr[h]] > 2

Shared(h) == ptr[h] # NULL /\ refs[ptr[h]] > 1

\* The tree n that avl_insert() and avl_remove() write to: a new one
\* (avl_new()) for the null pointer, a copy (clone_stree_real()) of a shared
\* one, or the tree itself.
CopyOnWrite(h, n) ==
    IF ptr[h] = NULL \/ Shared(h) THEN n \in FreeObj ELSE n = ptr[h]

RefsAfterCopy(h, n) ==
    IF Shared(h) THEN [refs EXCEPT ![ptr[h]] = @ - 1, ![n] = 1]
                 ELSE [refs EXCEPT ![n] = 1]

\* A bug: a copy that duplicates the nodes and not the has_states bytes.
HasBytesForgotten(h, n) == IF n = ptr[h] THEN has_states[n] ELSE {}

\* clone_stree_real() inserts the states one by one, which sets their bytes.
HasAfterCopy(h, n) == IF n = ptr[h] THEN has_states[n] ELSE OwnerBits(View(h))
IdAfterCopy(h, n) == IF n = ptr[h] THEN stree_id[n] ELSE 0

avl_insert(h, k, s, n) ==
    /\ h \in Usable
    /\ CopyOnWrite(h, n)
    /\ ptr' = [ptr EXCEPT ![h] = n]
    /\ refs' = RefsAfterCopy(h, n)
    /\ map' = [map EXCEPT ![n] = [View(h) EXCEPT ![k] = s]]
    /\ has_states' = [has_states EXCEPT ![n] =
                        HasAfterCopy(h, n) \cup ({OwnerOf[k]} \ {USHRT_MAX})]
    /\ stree_id' = [stree_id EXCEPT ![n] = IdAfterCopy(h, n)]
    /\ UNCHANGED iter

\* A bug: the tree that became empty stays in place.
RemoveKeepsEmpty(h, k, n) ==
    /\ h \in Usable
    /\ ptr[h] # NULL
    /\ CopyOnWrite(h, n)
    /\ map' = [map EXCEPT ![n] = [View(h) EXCEPT ![k] = NoSm]]
    /\ ptr' = [ptr EXCEPT ![h] = n]
    /\ refs' = RefsAfterCopy(h, n)
    /\ has_states' = [has_states EXCEPT ![n] = HasAfterCopy(h, n)]
    /\ stree_id' = [stree_id EXCEPT ![n] = IdAfterCopy(h, n)]
    /\ UNCHANGED iter

\* Removing the last state frees the tree and leaves the null pointer.
avl_remove(h, k, n) ==
    /\ h \in Usable
    /\ ptr[h] # NULL
    /\ CopyOnWrite(h, n)
    /\ map' = [map EXCEPT ![n] = [View(h) EXCEPT ![k] = NoSm]]
    /\ IF [View(h) EXCEPT ![k] = NoSm] = EmptyMap
         THEN /\ ptr' = [ptr EXCEPT ![h] = NULL]
              /\ refs' = [RefsAfterCopy(h, n) EXCEPT ![n] = 0]
              /\ has_states' = [has_states EXCEPT ![n] = {}]
              /\ stree_id' = [stree_id EXCEPT ![n] = 0]
         ELSE /\ ptr' = [ptr EXCEPT ![h] = n]
              /\ refs' = RefsAfterCopy(h, n)
              /\ has_states' = [has_states EXCEPT ![n] = HasAfterCopy(h, n)]
              /\ stree_id' = [stree_id EXCEPT ![n] = IdAfterCopy(h, n)]
    /\ UNCHANGED iter

\* g is a variable that holds no tree: overwriting one would lose it.
clone_stree(h, g) ==
    /\ h \in Usable /\ g \in Usable
    /\ ptr[h] # NULL /\ ptr[g] = NULL
    /\ ptr' = [ptr EXCEPT ![g] = ptr[h]]
    /\ refs[ptr[h]] < MaxRefs
    /\ refs' = [refs EXCEPT ![ptr[h]] = @ + 1]
    /\ UNCHANGED <<map, has_states, stree_id, iter>>

\* A bug: the reference is dropped twice.
drop_twice(o) ==
    /\ refs' = [refs EXCEPT ![o] = @ - 2]
    /\ UNCHANGED <<map, has_states, stree_id>>

\* One reference less; the last one releases the tree and its nodes.
drop_reference(o) ==
    /\ refs' = [refs EXCEPT ![o] = @ - 1]
    /\ IF refs[o] > 1
         THEN UNCHANGED <<map, has_states, stree_id>>
         ELSE /\ map' = [map EXCEPT ![o] = EmptyMap]
              /\ has_states' = [has_states EXCEPT ![o] = {}]
              /\ stree_id' = [stree_id EXCEPT ![o] = 0]

free_stree(h) ==
    /\ h \in Usable
    /\ ptr[h] # NULL
    /\ ptr' = [ptr EXCEPT ![h] = NULL]
    /\ drop_reference(ptr[h])
    /\ UNCHANGED iter

\* push_stree(), pop_stree() and "*to = results" hand the reference over.
move_stree(h, g) ==
    /\ h \in Usable /\ g \in Usable
    /\ ptr[h] # NULL /\ ptr[g] = NULL
    /\ ptr' = [ptr EXCEPT ![g] = ptr[h], ![h] = NULL]
    /\ UNCHANGED <<refs, map, has_states, stree_id, iter>>

\* A tree that already has an id is copied, and its count is not lowered.
set_stree_id(h, i, n) ==
    /\ h \in Usable
    /\ ptr[h] # NULL
    /\ IF stree_id[ptr[h]] # 0
         THEN /\ n \in FreeObj
              /\ ptr' = [ptr EXCEPT ![h] = n]
              /\ refs' = [refs EXCEPT ![n] = 1]
              /\ map' = [map EXCEPT ![n] = View(h)]
              /\ has_states' = [has_states EXCEPT ![n] = OwnerBits(View(h))]
         ELSE n = ptr[h] /\ UNCHANGED <<ptr, refs, map, has_states>>
    /\ stree_id' = [stree_id EXCEPT ![n] = i]
    /\ UNCHANGED iter
-----------------------------------------------------------------------------
\* A bug: the plain FOR_EACH_SM() where the body writes to the tree.
for_each_sm(h, c) ==
    /\ iter = NoIter
    /\ ptr[h] # NULL /\ ptr[c] = NULL
    /\ iter' = [obj |-> ptr[h], copy |-> c, pos |-> 0]
    /\ UNCHANGED <<ptr, refs, map, has_states, stree_id>>

\* FOR_EACH_SM_SAFE(h): c is its _copy; the iterator walks the tree that h
\* held when the loop began, whatever the body of the loop does to h.
for_each_sm_safe(h, c) ==
    /\ iter = NoIter
    /\ ptr[h] # NULL /\ ptr[c] = NULL
    /\ ptr' = [ptr EXCEPT ![c] = ptr[h]]
    /\ refs[ptr[h]] < MaxRefs
    /\ refs' = [refs EXCEPT ![ptr[h]] = @ + 1]
    /\ iter' = [obj |-> ptr[h], copy |-> c, pos |-> 0]
    /\ UNCHANGED <<map, has_states, stree_id>>

\* The trackers that the iterator has still to visit.
Ahead == {k \in Key : k > iter.pos /\ map[iter.obj][k] # NoSm}

avl_iter_next ==
    /\ iter.obj # NULL
    /\ \E k \in Ahead : /\ \A j \in Ahead : k <= j
                        /\ iter' = [iter EXCEPT !.pos = k]
    /\ UNCHANGED <<ptr, refs, map, has_states, stree_id>>

end_for_each_sm_safe ==
    /\ iter.obj # NULL
    /\ Ahead = {}
    /\ ptr' = [ptr EXCEPT ![iter.copy] = NULL]
    /\ drop_reference(ptr[iter.copy])
    /\ iter' = NoIter

Next ==
    \/ \E h \in Handle, n \in Obj, k \in Key :
          avl_remove(h, k, n) \/ \E s \in Sm : avl_insert(h, k, s, n)
    \/ \E h \in Handle, n \in Obj, i \in 1..MaxId : set_stree_id(h, i, n)
    \/ \E h, g \in Handle :
          clone_stree(h, g) \/ move_stree(h, g) \/ for_each_sm_safe(h, g)
    \/ \E h \in Handle : free_stree(h)
    \/ avl_iter_next
    \/ end_for_each_sm_safe

Spec == Init /\ [][Next]_vars
-----------------------------------------------------------------------------
\* The fields of every struct stree have their types; no count of references
\* is ever negative, so no tree is freed twice (free_stree()).
TypeOK == /\ ptr \in [Handle -> Obj \cup {NULL}]
          /\ refs \in [Obj -> Nat]
          /\ map \in [Obj -> Maps]
          /\ has_states \in [Obj -> SUBSET Owner]
          /\ stree_id \in [Obj -> 0..MaxId]
          /\ iter \in Iters

\* A tree is never released, and never written in place, while a handle
\* besides the writer's still points to it: its references field is at least
\* the number of handles (free_stree(), avl_insert(), avl_remove()).  It may
\* exceed it, because set_stree_id() copies without dropping its reference.
RefsCoverHandles ==
    \A o \in Obj : refs[o] >= Cardinality(HandlesOf(o))

\* smatch takes a null cur_stree for "this path cannot be reached", so no
\* handle may hold a tree without states: avl_remove() has to free the tree
\* it empties, and copies are never made of empty trees.
NullIffEmpty ==
    \A h \in Handle : ptr[h] # NULL => map[ptr[h]] # EmptyMap

\* avl_lookup() gives up early when the has_states byte of the owner is
\* clear.  No state of a tree in use is hidden by that shortcut, through any
\* sequence of copies, insertions and removals.
LookupComplete ==
    \A o \in Obj : refs[o] > 0 => OwnerBits(map[o]) \subseteq has_states[o]

\* The iterator stands on the tree that the loop's own copy keeps alive.
IterOK == \/ iter = NoIter
          \/ /\ iter.obj \in Obj /\ iter.copy \in Handle
             /\ ptr[iter.copy] = iter.obj

\* The inductive invariant.  The count of references is what makes a write
\* in place safe; the other conjuncts say what the trees in use look like.
IInv == /\ TypeOK
        /\ RefsCoverHandles
        /\ NullIffEmpty
        /\ LookupComplete
        /\ IterOK

\* The body of a FOR_EACH_SM_SAFE loop may insert, remove and free through
\* the handle it iterates on: the nodes that the iterator stands on are
\* neither freed nor changed until the loop ends.
IterSnapshot ==
    [][iter.obj # NULL /\ iter'.obj = iter.obj =>
          map'[iter.obj] = map[iter.obj] /\ refs'[iter.obj] > 0]_<<map, refs>>

\* Handles behave as private maps.
SM == INSTANCE StateMaps WITH m <- [h \in Handle |-> View(h)]

\* The shared, counted, copied-on-write trees of avl.c implement private
\* maps: no operation through one handle changes what another one sees.
PrivateMaps == SM!Spec
=============================================================================
