---------------------------- MODULE Stree_proofs ----------------------------
(***************************************************************************)
(* Proofs about module Stree, for any number of handles, trees, trackers   *)
(* and states.                                                             *)
(***************************************************************************)
EXTENDS Stree, FiniteSetTheorems, TLAPS

USE NullAssumption, SmAssumption, BoundAssumption, OwnerAssumption

\* What a handle sees is a map from trackers to states.
LEMMA ViewType ==
    ASSUME TypeOK, NEW h \in Handle
    PROVE  View(h) \in Maps
BY DEF TypeOK, View, Maps, EmptyMap

\* The has_states bytes that a map needs are bytes of checks.
LEMMA OwnerBitsType ==
    ASSUME NEW f \in Maps
    PROVE  OwnerBits(f) \in SUBSET Owner
BY DEF OwnerBits, Maps

\* The fields of the tree that avl_insert() and avl_remove() write to, after
\* the copy if there is one, are of the right type.
LEMMA CopyTypes ==
    ASSUME TypeOK, NEW h \in Handle, NEW n \in Obj, CopyOnWrite(h, n)
    PROVE  /\ RefsAfterCopy(h, n) \in [Obj -> Nat]
           /\ HasAfterCopy(h, n) \in SUBSET Owner
           /\ IdAfterCopy(h, n) \in 0..MaxId
<1>1. RefsAfterCopy(h, n) \in [Obj -> Nat]
  BY DEF TypeOK, RefsAfterCopy, Shared
<1>2. HasAfterCopy(h, n) \in SUBSET Owner
  BY ViewType, OwnerBitsType DEF TypeOK, HasAfterCopy
<1>3. IdAfterCopy(h, n) \in 0..MaxId
  BY DEF TypeOK, IdAfterCopy
<1>. QED  BY <1>1, <1>2, <1>3
-----------------------------------------------------------------------------
(* Counting handles.                                                       *)

\* Every tree has a finite number of handles.
LEMMA CountType ==
    ASSUME NEW o
    PROVE  /\ IsFiniteSet(HandlesOf(o))
           /\ Cardinality(HandlesOf(o)) \in Nat
<1>1. HandlesOf(o) \in SUBSET Handle
  BY DEF HandlesOf
<1>2. IsFiniteSet(HandlesOf(o))
  BY <1>1, HandleAssumption, FS_Subset
<1>. QED  BY <1>2, FS_CardinalityType

\* A tree that a handle points to has a reference.
LEMMA Referenced ==
    ASSUME TypeOK, RefsCoverHandles, NEW h \in Handle, ptr[h] # NULL
    PROVE  ptr[h] \in Obj /\ refs[ptr[h]] \in Nat /\ refs[ptr[h]] >= 1
<1>1. ptr[h] \in Obj /\ refs[ptr[h]] \in Nat
  BY DEF TypeOK
<1>2. h \in HandlesOf(ptr[h])
  BY DEF HandlesOf
<1>3. Cardinality(HandlesOf(ptr[h])) # 0
  BY <1>2, CountType, FS_EmptySet
<1>4. Cardinality(HandlesOf(ptr[h])) \in Nat
  BY CountType
<1>5. refs[ptr[h]] >= Cardinality(HandlesOf(ptr[h]))
  BY <1>1 DEF RefsCoverHandles
<1>. QED  BY <1>1, <1>3, <1>4, <1>5

\* A tree with one reference is held by one handle.
LEMMA Exclusive ==
    ASSUME TypeOK, RefsCoverHandles, NEW h \in Handle, ptr[h] # NULL,
           ~ Shared(h), NEW g \in Handle, g # h
    PROVE  ptr[g] # ptr[h]
<1>. SUFFICES ASSUME ptr[g] = ptr[h] PROVE FALSE
  OBVIOUS
<1>. DEFINE S == HandlesOf(ptr[h])
<1>1. IsFiniteSet(S) /\ Cardinality(S) \in Nat
  BY CountType
<1>2. h \in S /\ g \in S
  BY DEF HandlesOf
<1>3. ptr[h] \in Obj /\ refs[ptr[h]] = 1
  BY Referenced DEF Shared
<1>4. Cardinality(S) <= 1
  BY <1>3 DEF RefsCoverHandles
<1>5. Cardinality(S) # 0
  BY <1>1, <1>2, FS_EmptySet
<1>6. Cardinality(S) = 1
  BY <1>1, <1>4, <1>5
<1>7. \E x : S = {x}
  BY <1>1, <1>6, FS_Singleton
<1>. QED  BY <1>2, <1>7

\* What pointing h from a tree to n does to the number of handles of o.
LEMMA Repoint ==
    ASSUME TypeOK, NEW h \in Handle, NEW n \in Obj \cup {NULL},
           ptr' = [ptr EXCEPT ![h] = n], NEW o \in Obj
    PROVE  Cardinality(HandlesOf(o)') =
             Cardinality(HandlesOf(o))
               + (IF o = n /\ o # ptr[h] THEN 1 ELSE 0)
               - (IF o = ptr[h] /\ o # n THEN 1 ELSE 0)
<1>. DEFINE S == HandlesOf(o)
<1>1. IsFiniteSet(S) /\ Cardinality(S) \in Nat
  BY CountType
<1>2. CASE o = n
  <2>1. S' = S \cup {h}
    BY <1>2 DEF TypeOK, HandlesOf
  <2>2. h \in S <=> o = ptr[h]
    BY DEF HandlesOf
  <2>3. Cardinality(S \cup {h}) =
          IF h \in S THEN Cardinality(S) ELSE Cardinality(S) + 1
    BY <1>1, FS_AddElement
  <2>4. Cardinality(S') = Cardinality(S \cup {h})
    BY <2>1
  <2>. QED  BY <1>1, <1>2, <2>2, <2>3, <2>4
<1>3. CASE o # n
  <2>1. S' = S \ {h}
    BY <1>3 DEF TypeOK, HandlesOf
  <2>2. h \in S <=> o = ptr[h]
    BY DEF HandlesOf
  <2>3. Cardinality(S \ {h}) =
          IF h \in S THEN Cardinality(S) - 1 ELSE Cardinality(S)
    BY <1>1, FS_RemoveElement
  <2>4. Cardinality(S') = Cardinality(S \ {h})
    BY <2>1
  <2>. QED  BY <1>1, <1>3, <2>2, <2>3, <2>4
<1>. QED  BY <1>2, <1>3
-----------------------------------------------------------------------------
(* The tree that a write goes to.                                          *)

\* Nobody but the writer holds the tree that avl_insert() and avl_remove()
\* write to, and it is the writer's own tree or an unused one.
LEMMA TargetIsPrivate ==
    ASSUME IInv, NEW h \in Handle, NEW n \in Obj, CopyOnWrite(h, n)
    PROVE  /\ \A g \in Handle : g # h => ptr[g] # n
           /\ n = ptr[h] => refs[n] = 1
           /\ n # ptr[h] => refs[n] = 0 /\ (ptr[h] = NULL \/ Shared(h))
<1>1. CASE ptr[h] = NULL \/ Shared(h)
  <2>1. refs[n] = 0
    BY <1>1 DEF CopyOnWrite, FreeObj
  <2>2. \A g \in Handle : ptr[g] # n
    BY <2>1, Referenced DEF IInv
  <2>. QED  BY <1>1, <2>1, <2>2
<1>2. CASE ~ (ptr[h] = NULL \/ Shared(h))
  <2>1. n = ptr[h] /\ ptr[h] # NULL
    BY <1>2 DEF CopyOnWrite
  <2>2. refs[n] = 1
    BY <1>2, <2>1, Referenced DEF IInv, Shared
  <2>. QED  BY <1>2, <2>1, <2>2, Exclusive DEF IInv
<1>. QED  BY <1>1, <1>2

\* The copy has the has_states byte of every state it starts with.
LEMMA BytesAfterCopy ==
    ASSUME IInv, NEW h \in Handle, NEW n \in Obj, CopyOnWrite(h, n)
    PROVE  OwnerBits(View(h)) \subseteq HasAfterCopy(h, n)
<1>1. CASE n = ptr[h]
  <2>1. refs[n] > 0 /\ View(h) = map[n]
    BY <1>1, TargetIsPrivate DEF View
  <2>. QED  BY <1>1, <2>1 DEF IInv, LookupComplete, HasAfterCopy
<1>2. CASE n # ptr[h]
  BY <1>2 DEF HasAfterCopy
<1>. QED  BY <1>1, <1>2

\* References still cover the handles when h moves to the tree it writes to.
LEMMA CoverAfterCopy ==
    ASSUME IInv, NEW h \in Handle, NEW n \in Obj, CopyOnWrite(h, n),
           ptr' = [ptr EXCEPT ![h] = n],
           refs' = RefsAfterCopy(h, n)
    PROVE  RefsCoverHandles'
<1>. SUFFICES ASSUME NEW o \in Obj
              PROVE  refs'[o] >= Cardinality(HandlesOf(o)')
  BY DEF RefsCoverHandles
<1>. DEFINE c == Cardinality(HandlesOf(o))
<1>1. c \in Nat /\ refs[o] \in Nat /\ refs[o] >= c
  BY CountType DEF IInv, TypeOK, RefsCoverHandles
<1>2. Cardinality(HandlesOf(o)') =
        c + (IF o = n /\ o # ptr[h] THEN 1 ELSE 0)
          - (IF o = ptr[h] /\ o # n THEN 1 ELSE 0)
  BY Repoint DEF IInv
<1>3. CASE o = n
  <2>1. refs'[o] = 1
    BY <1>3 DEF IInv, TypeOK, RefsAfterCopy
  <2>2. c + (IF o # ptr[h] THEN 1 ELSE 0) <= 1
    BY <1>1, <1>3, TargetIsPrivate
  <2>. QED  BY <1>1, <1>2, <1>3, <2>1, <2>2
<1>4. CASE o # n /\ o = ptr[h]
  <2>1. Shared(h)
    BY <1>4, TargetIsPrivate
  <2>2. refs'[o] = refs[o] - 1
    BY <1>4, <2>1 DEF IInv, TypeOK, RefsAfterCopy
  <2>. QED  BY <1>1, <1>2, <1>4, <2>2
<1>5. CASE o # n /\ o # ptr[h]
  <2>1. refs'[o] = refs[o]
    BY <1>5 DEF IInv, TypeOK, RefsAfterCopy
  <2>. QED  BY <1>1, <1>2, <1>5, <2>1
<1>. QED  BY <1>3, <1>4, <1>5
-----------------------------------------------------------------------------
(* Every action keeps the invariant.                                       *)

\* avl_insert() preserves the invariant.
LEMMA InsertInv ==
    ASSUME IInv, NEW h \in Handle, NEW k \in Key, NEW s \in Sm, NEW n \in Obj,
           avl_insert(h, k, s, n)
    PROVE  IInv'
<1>. DEFINE f == [View(h) EXCEPT ![k] = s]
<1>0. /\ TypeOK /\ CopyOnWrite(h, n) /\ h # iter.copy
      /\ ptr' = [ptr EXCEPT ![h] = n]
      /\ refs' = RefsAfterCopy(h, n)
      /\ map' = [map EXCEPT ![n] = f]
      /\ iter' = iter
  BY DEF IInv, avl_insert, Usable
<1>1. View(h) \in Maps /\ f \in Maps /\ f[k] = s /\ f # EmptyMap
  BY <1>0, ViewType DEF Maps, EmptyMap
<1>2. TypeOK'
  <2>1. OwnerOf[k] \in Owner \cup {USHRT_MAX}
    OBVIOUS
  <2>. QED  BY <1>0, <1>1, <2>1, CopyTypes DEF TypeOK, avl_insert
<1>3. RefsCoverHandles'
  BY <1>0, CoverAfterCopy
<1>4. NullIffEmpty'
  <2>. SUFFICES ASSUME NEW g \in Handle, ptr'[g] # NULL
                PROVE  map'[ptr'[g]] # EmptyMap
    BY DEF NullIffEmpty, EmptyMap
  <2>1. CASE g = h
    BY <1>0, <1>1, <2>1 DEF TypeOK
  <2>2. CASE g # h
    <3>1. ptr'[g] = ptr[g] /\ ptr[g] # n
      BY <1>0, <2>2, TargetIsPrivate DEF TypeOK
    <3>2. map'[ptr[g]] = map[ptr[g]]
      BY <1>0, <3>1 DEF TypeOK
    <3>. QED  BY <3>1, <3>2 DEF IInv, NullIffEmpty
  <2>. QED  BY <2>1, <2>2
<1>5. LookupComplete'
  <2>. SUFFICES ASSUME NEW o \in Obj, refs'[o] > 0
                PROVE  OwnerBits(map'[o]) \subseteq has_states'[o]
    BY DEF LookupComplete, OwnerBits
  <2>1. CASE o = n
    <3>1. OwnerBits(f) \subseteq OwnerBits(View(h)) \cup ({OwnerOf[k]} \ {USHRT_MAX})
      BY <1>1 DEF OwnerBits, Maps
    <3>2. OwnerBits(View(h)) \subseteq HasAfterCopy(h, n)
      BY <1>0, BytesAfterCopy
    <3>3. map'[n] = f
      BY <1>0 DEF TypeOK
    <3>4. has_states'[n] = HasAfterCopy(h, n) \cup ({OwnerOf[k]} \ {USHRT_MAX})
      BY <1>0 DEF avl_insert, TypeOK
    <3>. QED  BY <2>1, <3>1, <3>2, <3>3, <3>4
  <2>2. CASE o # n
    <3>1. map'[o] = map[o] /\ has_states'[o] = has_states[o]
      BY <1>0, <2>2 DEF avl_insert, TypeOK
    <3>2. refs[o] > 0
      BY <1>0, <2>2, SMTT(30) DEF RefsAfterCopy, Shared, TypeOK
    <3>. QED  BY <3>1, <3>2 DEF IInv, LookupComplete
  <2>. QED  BY <2>1, <2>2
<1>6. IterOK'
  BY <1>0 DEF IInv, IterOK, TypeOK, NoIter
<1>. QED  BY <1>2, <1>3, <1>4, <1>5, <1>6 DEF IInv

\* avl_remove() preserves the invariant; the tree it empties has no handle
\* left.
LEMMA RemoveInv ==
    ASSUME IInv, NEW h \in Handle, NEW k \in Key, NEW n \in Obj,
           avl_remove(h, k, n)
    PROVE  IInv'
<1>. DEFINE f == [View(h) EXCEPT ![k] = NoSm]
            gone == f = EmptyMap
<1>0. /\ TypeOK /\ CopyOnWrite(h, n) /\ h # iter.copy
      /\ ptr' = [ptr EXCEPT ![h] = IF gone THEN NULL ELSE n]
      /\ refs' = IF gone THEN [RefsAfterCopy(h, n) EXCEPT ![n] = 0]
                         ELSE RefsAfterCopy(h, n)
      /\ map' = [map EXCEPT ![n] = f]
      /\ has_states' = [has_states EXCEPT ![n] =
                          IF gone THEN {} ELSE HasAfterCopy(h, n)]
      /\ stree_id' = [stree_id EXCEPT ![n] =
                          IF gone THEN 0 ELSE IdAfterCopy(h, n)]
      /\ iter' = iter
  BY DEF IInv, avl_remove, Usable
<1>1. View(h) \in Maps /\ f \in Maps
  BY <1>0, ViewType DEF Maps
<1>2. TypeOK'
  BY <1>0, <1>1, CopyTypes DEF TypeOK
<1>3. RefsCoverHandles'
  <2>1. CASE ~ gone
    BY <1>0, <2>1, CoverAfterCopy
  <2>2. CASE gone
    <3>. SUFFICES ASSUME NEW o \in Obj
                  PROVE  refs'[o] >= Cardinality(HandlesOf(o)')
      BY DEF RefsCoverHandles
    <3>. DEFINE c == Cardinality(HandlesOf(o))
    <3>1. c \in Nat /\ refs[o] \in Nat /\ refs[o] >= c
      BY CountType DEF IInv, TypeOK, RefsCoverHandles
    <3>2. ptr' = [ptr EXCEPT ![h] = NULL]
      BY <1>0, <2>2
    <3>3. Cardinality(HandlesOf(o)') =
            c + (IF o = NULL /\ o # ptr[h] THEN 1 ELSE 0)
              - (IF o = ptr[h] /\ o # NULL THEN 1 ELSE 0)
      BY <1>0, <3>2, Repoint
    <3>4. CASE o = n
      <4>1. c - (IF o = ptr[h] THEN 1 ELSE 0) <= 0
        BY <1>0, <3>1, <3>4, TargetIsPrivate, SMTT(30)
      <4>2. refs'[o] = 0
        BY <1>0, <2>2, <3>4 DEF TypeOK, RefsAfterCopy
      <4>. QED  BY <3>1, <3>3, <4>1, <4>2
    <3>5. CASE o # n /\ o = ptr[h]
      <4>1. Shared(h)
        BY <1>0, <3>5, TargetIsPrivate
      <4>2. refs'[o] = refs[o] - 1
        BY <1>0, <2>2, <3>5, <4>1 DEF TypeOK, RefsAfterCopy
      <4>. QED  BY <3>1, <3>3, <3>5, <4>2
    <3>6. CASE o # n /\ o # ptr[h]
      <4>1. refs'[o] = refs[o]
        BY <1>0, <2>2, <3>6 DEF TypeOK, RefsAfterCopy
      <4>. QED  BY <3>1, <3>3, <3>6, <4>1
    <3>. QED  BY <3>4, <3>5, <3>6
  <2>. QED  BY <2>1, <2>2
<1>4. NullIffEmpty'
  <2>. SUFFICES ASSUME NEW g \in Handle, ptr'[g] # NULL
                PROVE  map'[ptr'[g]] # EmptyMap
    BY DEF NullIffEmpty, EmptyMap
  <2>1. CASE g = h
    <3>1. ~ gone /\ ptr'[g] = n
      BY <1>0, <2>1 DEF TypeOK
    <3>. QED  BY <1>0, <3>1 DEF TypeOK
  <2>2. CASE g # h
    <3>1. ptr'[g] = ptr[g] /\ ptr[g] # n
      BY <1>0, <2>2, TargetIsPrivate DEF TypeOK
    <3>2. map'[ptr[g]] = map[ptr[g]]
      BY <1>0, <3>1 DEF TypeOK
    <3>. QED  BY <3>1, <3>2 DEF IInv, NullIffEmpty
  <2>. QED  BY <2>1, <2>2
<1>5. LookupComplete'
  <2>. SUFFICES ASSUME NEW o \in Obj, refs'[o] > 0
                PROVE  OwnerBits(map'[o]) \subseteq has_states'[o]
    BY DEF LookupComplete, OwnerBits
  <2>1. CASE o = n
    <3>1. OwnerBits(f) \subseteq OwnerBits(View(h))
      BY <1>1 DEF OwnerBits, Maps
    <3>2. OwnerBits(View(h)) \subseteq HasAfterCopy(h, n)
      BY <1>0, BytesAfterCopy
    <3>3. map'[n] = f
      BY <1>0 DEF TypeOK
    <3>4. ~ gone
      BY <1>0, <2>1, CopyTypes, SMTT(30) DEF TypeOK
    <3>5. has_states'[n] = HasAfterCopy(h, n)
      BY <1>0, <3>4 DEF TypeOK
    <3>. QED  BY <2>1, <3>1, <3>2, <3>3, <3>5
  <2>2. CASE o # n
    <3>1. map'[o] = map[o] /\ has_states'[o] = has_states[o]
      BY <1>0, <2>2 DEF TypeOK
    <3>2. refs[o] > 0
      BY <1>0, <2>2, SMTT(30) DEF RefsAfterCopy, Shared, TypeOK
    <3>. QED  BY <3>1, <3>2 DEF IInv, LookupComplete
  <2>. QED  BY <2>1, <2>2
<1>6. IterOK'
  BY <1>0 DEF IInv, IterOK, TypeOK, NoIter
<1>. QED  BY <1>2, <1>3, <1>4, <1>5, <1>6 DEF IInv

\* One more handle on the tree of h, as clone_stree() makes it.
LEMMA CoverAfterClone ==
    ASSUME IInv, NEW h \in Handle, NEW g \in Handle,
           ptr[h] \in Obj, ptr[g] \notin Obj,
           ptr' = [ptr EXCEPT ![g] = ptr[h]],
           refs' = [refs EXCEPT ![ptr[h]] = @ + 1]
    PROVE  RefsCoverHandles'
<1>. SUFFICES ASSUME NEW o \in Obj
              PROVE  refs'[o] >= Cardinality(HandlesOf(o)')
  BY DEF RefsCoverHandles
<1>. DEFINE c == Cardinality(HandlesOf(o))
<1>1. c \in Nat /\ refs[o] \in Nat /\ refs[o] >= c /\ TypeOK
  BY CountType DEF IInv, TypeOK, RefsCoverHandles
<1>2. Cardinality(HandlesOf(o)') =
        c + (IF o = ptr[h] /\ o # ptr[g] THEN 1 ELSE 0)
          - (IF o = ptr[g] /\ o # ptr[h] THEN 1 ELSE 0)
  <2>1. PICK t \in Obj \cup {NULL} : t = ptr[h]
    BY <1>1 DEF TypeOK
  <2>2. ptr' = [ptr EXCEPT ![g] = t]
    BY <2>1
  <2>3. Cardinality(HandlesOf(o)') =
          c + (IF o = t /\ o # ptr[g] THEN 1 ELSE 0)
            - (IF o = ptr[g] /\ o # t THEN 1 ELSE 0)
    BY <1>1, <2>2, Repoint
  <2>. QED  BY <2>1, <2>3
<1>3. refs'[o] = IF o = ptr[h] THEN refs[o] + 1 ELSE refs[o]
  BY <1>1 DEF TypeOK
<1>. QED  BY <1>1, <1>2, <1>3

\* clone_stree() preserves the invariant.
LEMMA CloneInv ==
    ASSUME IInv, NEW h \in Handle, NEW g \in Handle, clone_stree(h, g)
    PROVE  IInv'
<1>0. /\ TypeOK /\ g # iter.copy /\ g # h
      /\ ptr[h] \in Obj /\ ptr[g] = NULL /\ refs[ptr[h]] >= 1
      /\ ptr' = [ptr EXCEPT ![g] = ptr[h]]
      /\ refs' = [refs EXCEPT ![ptr[h]] = @ + 1]
      /\ UNCHANGED <<map, has_states, stree_id, iter>>
  BY Referenced DEF IInv, clone_stree, Usable
<1>1. TypeOK'
  BY <1>0 DEF TypeOK
<1>2. RefsCoverHandles'
  BY <1>0, CoverAfterClone
<1>3. NullIffEmpty'
  BY <1>0 DEF IInv, NullIffEmpty, TypeOK, EmptyMap
<1>4. LookupComplete'
  <2>1. \A o \in Obj : refs'[o] > 0 => refs[o] > 0
    BY <1>0 DEF TypeOK
  <2>. QED  BY <1>0, <2>1 DEF IInv, LookupComplete, OwnerBits
<1>5. IterOK'
  BY <1>0 DEF IInv, IterOK, TypeOK, NoIter
<1>. QED  BY <1>1, <1>2, <1>3, <1>4, <1>5 DEF IInv

\* Handing a tree from one handle to another preserves the invariant.
LEMMA MoveInv ==
    ASSUME IInv, NEW h \in Handle, NEW g \in Handle, move_stree(h, g)
    PROVE  IInv'
<1>0. /\ TypeOK /\ g # iter.copy /\ h # iter.copy /\ g # h
      /\ ptr[h] \in Obj /\ ptr[g] = NULL
      /\ ptr' = [ptr EXCEPT ![g] = ptr[h], ![h] = NULL]
      /\ UNCHANGED <<refs, map, has_states, stree_id, iter>>
  BY Referenced DEF IInv, move_stree, Usable
<1>1. TypeOK'
  BY <1>0 DEF TypeOK
<1>2. RefsCoverHandles'
  <2>. SUFFICES ASSUME NEW o \in Obj
                PROVE  refs[o] >= Cardinality(HandlesOf(o)')
    BY <1>0 DEF RefsCoverHandles
  <2>. DEFINE S == HandlesOf(o)
  <2>1. IsFiniteSet(S) /\ Cardinality(S) \in Nat /\ refs[o] >= Cardinality(S)
    BY CountType DEF IInv, RefsCoverHandles
  <2>2. CASE o = ptr[h]
    <3>1. S' = (S \ {h}) \cup {g} /\ h \in S /\ g \notin S
      BY <1>0, <2>2 DEF HandlesOf, TypeOK
    <3>2. IsFiniteSet(S \ {h}) /\ Cardinality(S \ {h}) = Cardinality(S) - 1
      BY <2>1, <3>1, FS_RemoveElement
    <3>3. Cardinality((S \ {h}) \cup {g}) = Cardinality(S \ {h}) + 1
      BY <3>1, <3>2, FS_AddElement
    <3>4. Cardinality(S') = Cardinality((S \ {h}) \cup {g})
      BY <3>1
    <3>. QED  BY <2>1, <3>2, <3>3, <3>4
  <2>3. CASE o # ptr[h]
    <3>1. S' = S
      BY <1>0, <2>3 DEF HandlesOf, TypeOK
    <3>. QED  BY <2>1, <3>1
  <2>. QED  BY <2>2, <2>3
<1>3. NullIffEmpty'
  BY <1>0 DEF IInv, NullIffEmpty, TypeOK, EmptyMap
<1>4. LookupComplete'
  BY <1>0 DEF IInv, LookupComplete, OwnerBits
<1>5. IterOK'
  BY <1>0 DEF IInv, IterOK, TypeOK, NoIter
<1>. QED  BY <1>1, <1>2, <1>3, <1>4, <1>5 DEF IInv

\* A handle gives its reference up: free_stree(), and the end of the loop.
LEMMA DropInv ==
    ASSUME IInv, NEW h \in Handle, ptr[h] \in Obj,
           ptr' = [ptr EXCEPT ![h] = NULL],
           drop_reference(ptr[h])
    PROVE  /\ iter' \in Iters => TypeOK'
           /\ RefsCoverHandles' /\ NullIffEmpty' /\ LookupComplete'
<1>. DEFINE p == ptr[h]
<1>0. /\ TypeOK /\ p \in Obj /\ refs[p] \in Nat /\ refs[p] >= 1
      /\ refs' = [refs EXCEPT ![p] = @ - 1]
  BY Referenced DEF IInv, drop_reference
<1>1. refs' \in [Obj -> Nat]
  BY <1>0 DEF TypeOK
<1>2. ASSUME iter' \in Iters PROVE TypeOK'
  <2>1. EmptyMap \in Maps
    BY DEF EmptyMap, Maps
  <2>. QED  BY <1>0, <1>1, <1>2, <2>1 DEF TypeOK, drop_reference
<1>3. RefsCoverHandles'
  <2>. SUFFICES ASSUME NEW o \in Obj
                PROVE  refs'[o] >= Cardinality(HandlesOf(o)')
    BY DEF RefsCoverHandles
  <2>. DEFINE c == Cardinality(HandlesOf(o))
  <2>1. c \in Nat /\ refs[o] \in Nat /\ refs[o] >= c
    BY CountType DEF IInv, TypeOK, RefsCoverHandles
  <2>2. Cardinality(HandlesOf(o)') =
          c + (IF o = NULL /\ o # ptr[h] THEN 1 ELSE 0)
            - (IF o = ptr[h] /\ o # NULL THEN 1 ELSE 0)
    <3>1. TypeOK /\ ptr' = [ptr EXCEPT ![h] = NULL] /\ NULL \in Obj \cup {NULL}
      BY <1>0
    <3>. QED  BY <3>1, Repoint
  <2>3. refs'[o] = IF o = p THEN refs[o] - 1 ELSE refs[o]
    BY <1>0 DEF TypeOK
  <2>. QED  BY <1>0, <2>1, <2>2, <2>3
<1>4. \A o \in Obj : refs'[o] > 0 =>
        /\ refs[o] > 0
        /\ map'[o] = map[o] /\ has_states'[o] = has_states[o]
  BY <1>0 DEF TypeOK, drop_reference
<1>5. NullIffEmpty'
  <2>. SUFFICES ASSUME NEW g \in Handle, ptr'[g] # NULL
                PROVE  map'[ptr'[g]] # EmptyMap
    BY DEF NullIffEmpty, EmptyMap
  <2>1. g # h /\ ptr'[g] = ptr[g] /\ ptr[g] \in Obj
    BY <1>0 DEF TypeOK
  <2>2. CASE refs[p] > 1
    BY <2>1, <2>2 DEF drop_reference, IInv, NullIffEmpty
  <2>3. CASE refs[p] = 1
    <3>1. ptr[g] # p
      BY <2>1, <2>3, Exclusive DEF IInv, Shared
    <3>2. map'[ptr[g]] = map[ptr[g]]
      BY <1>0, <2>1, <3>1 DEF drop_reference, TypeOK
    <3>. QED  BY <2>1, <3>2 DEF IInv, NullIffEmpty
  <2>. QED  BY <1>0, <2>2, <2>3
<1>6. LookupComplete'
  BY <1>4 DEF IInv, LookupComplete, OwnerBits
<1>. QED  BY <1>2, <1>3, <1>5, <1>6

\* free_stree() preserves the invariant.
LEMMA FreeInv ==
    ASSUME IInv, NEW h \in Handle, free_stree(h)
    PROVE  IInv'
<1>0. /\ TypeOK /\ h # iter.copy /\ ptr[h] \in Obj
      /\ ptr' = [ptr EXCEPT ![h] = NULL]
      /\ drop_reference(ptr[h])
      /\ iter' = iter
  BY DEF IInv, TypeOK, free_stree, Usable
<1>1. iter' \in Iters
  BY <1>0 DEF TypeOK
<1>2. IterOK'
  BY <1>0 DEF IInv, IterOK, TypeOK, NoIter
<1>. QED  BY <1>0, <1>1, <1>2, DropInv DEF IInv

\* set_stree_id() preserves the invariant, with or without its copy.
LEMMA SetIdInv ==
    ASSUME IInv, NEW h \in Handle, NEW i \in 1..MaxId, NEW n \in Obj,
           set_stree_id(h, i, n)
    PROVE  IInv'
<1>0. /\ TypeOK /\ h # iter.copy /\ ptr[h] \in Obj /\ View(h) = map[ptr[h]]
      /\ stree_id' = [stree_id EXCEPT ![n] = i] /\ iter' = iter
  BY DEF IInv, TypeOK, set_stree_id, Usable, View
<1>1. CASE stree_id[ptr[h]] = 0
  <2>1. UNCHANGED <<ptr, refs, map, has_states, iter>>
    BY <1>0, <1>1 DEF set_stree_id
  <2>2. TypeOK'
    BY <1>0, <2>1 DEF TypeOK
  <2>3. RefsCoverHandles' /\ NullIffEmpty' /\ LookupComplete' /\ IterOK'
    BY <2>1 DEF IInv, RefsCoverHandles, HandlesOf, NullIffEmpty, EmptyMap,
                LookupComplete, OwnerBits, IterOK, NoIter
  <2>. QED  BY <2>2, <2>3 DEF IInv
<1>2. CASE stree_id[ptr[h]] # 0
  <2>0. /\ n \in FreeObj
        /\ ptr' = [ptr EXCEPT ![h] = n]
        /\ refs' = [refs EXCEPT ![n] = 1]
        /\ map' = [map EXCEPT ![n] = View(h)]
        /\ has_states' = [has_states EXCEPT ![n] = OwnerBits(View(h))]
    BY <1>0, <1>2 DEF set_stree_id
  <2>1. View(h) \in Maps /\ OwnerBits(View(h)) \in SUBSET Owner
    BY <1>0, ViewType, OwnerBitsType
  <2>2. TypeOK'
    BY <1>0, <2>0, <2>1 DEF TypeOK
  <2>3. refs[n] = 0 /\ \A g \in Handle : ptr[g] # n
    BY <2>0, Referenced DEF FreeObj, IInv
  <2>4. RefsCoverHandles'
    <3>. SUFFICES ASSUME NEW o \in Obj
                  PROVE  refs'[o] >= Cardinality(HandlesOf(o)')
      BY DEF RefsCoverHandles
    <3>. DEFINE c == Cardinality(HandlesOf(o))
    <3>1. c \in Nat /\ refs[o] \in Nat /\ refs[o] >= c
      BY CountType DEF IInv, TypeOK, RefsCoverHandles
    <3>2. Cardinality(HandlesOf(o)') =
            c + (IF o = n /\ o # ptr[h] THEN 1 ELSE 0)
              - (IF o = ptr[h] /\ o # n THEN 1 ELSE 0)
      BY <1>0, <2>0, Repoint
    <3>3. refs'[o] = IF o = n THEN 1 ELSE refs[o]
      BY <1>0, <2>0 DEF TypeOK
    <3>4. o = n => c = 0
      BY <2>3, <3>1
    <3>. QED  BY <3>1, <3>2, <3>3, <3>4
  <2>5. NullIffEmpty'
    BY <1>0, <2>0, <2>3 DEF IInv, NullIffEmpty, TypeOK, EmptyMap
  <2>6. LookupComplete'
    BY <1>0, <2>0 DEF IInv, LookupComplete, OwnerBits, TypeOK
  <2>7. IterOK'
    BY <1>0, <2>0 DEF IInv, IterOK, TypeOK, NoIter
  <2>. QED  BY <2>2, <2>4, <2>5, <2>6, <2>7 DEF IInv
<1>. QED  BY <1>1, <1>2

\* Entering FOR_EACH_SM_SAFE() preserves the invariant.
LEMMA ForEachInv ==
    ASSUME IInv, NEW h \in Handle, NEW g \in Handle, for_each_sm_safe(h, g)
    PROVE  IInv'
<1>0. /\ TypeOK /\ g # h
      /\ ptr[h] \in Obj /\ ptr[g] \notin Obj /\ refs[ptr[h]] >= 1
      /\ ptr' = [ptr EXCEPT ![g] = ptr[h]]
      /\ refs' = [refs EXCEPT ![ptr[h]] = @ + 1]
      /\ iter' = [obj |-> ptr[h], copy |-> g, pos |-> 0]
      /\ UNCHANGED <<map, has_states, stree_id>>
  BY Referenced DEF IInv, for_each_sm_safe
<1>1. TypeOK'
  BY <1>0 DEF TypeOK, Iters
<1>2. RefsCoverHandles'
  BY <1>0, CoverAfterClone
<1>3. NullIffEmpty'
  BY <1>0 DEF IInv, NullIffEmpty, TypeOK, EmptyMap
<1>4. LookupComplete'
  <2>1. \A o \in Obj : refs'[o] > 0 => refs[o] > 0
    BY <1>0 DEF TypeOK
  <2>. QED  BY <1>0, <2>1 DEF IInv, LookupComplete, OwnerBits
<1>5. IterOK'
  BY <1>0 DEF IterOK, TypeOK
<1>. QED  BY <1>1, <1>2, <1>3, <1>4, <1>5 DEF IInv

\* avl_iter_next() preserves the invariant.
LEMMA IterNextInv ==
    ASSUME IInv, avl_iter_next
    PROVE  IInv'
<1>1. UNCHANGED <<ptr, refs, map, has_states, stree_id>>
  BY DEF avl_iter_next
<1>2. PICK k \in Key : iter' = [iter EXCEPT !.pos = k]
  BY DEF avl_iter_next, Ahead
<1>3. TypeOK'
  BY <1>1, <1>2, KeyAssumption DEF IInv, TypeOK, Iters
<1>4. IterOK'
  <2>1. iter \in Iters /\ iter.obj # NULL
    BY DEF IInv, TypeOK, avl_iter_next
  <2>2. iter'.obj = iter.obj /\ iter'.copy = iter.copy
    BY <1>2, <2>1 DEF Iters
  <2>. QED  BY <1>1, <2>1, <2>2 DEF IInv, IterOK, NoIter
<1>. QED  BY <1>1, <1>3, <1>4 DEF IInv, RefsCoverHandles, HandlesOf,
            NullIffEmpty, EmptyMap, LookupComplete, OwnerBits

\* Leaving FOR_EACH_SM_SAFE() preserves the invariant.
LEMMA EndForEachInv ==
    ASSUME IInv, end_for_each_sm_safe
    PROVE  IInv'
<1>1. /\ iter.copy \in Handle /\ ptr[iter.copy] \in Obj
      /\ ptr' = [ptr EXCEPT ![iter.copy] = NULL]
      /\ drop_reference(ptr[iter.copy])
      /\ iter' = NoIter
  BY DEF IInv, IterOK, NoIter, end_for_each_sm_safe
<1>2. PICK c \in Handle : c = iter.copy
  BY <1>1
<1>3. /\ ptr[c] \in Obj /\ ptr' = [ptr EXCEPT ![c] = NULL]
      /\ drop_reference(ptr[c])
  BY <1>1, <1>2
<1>4. NoIter \in Iters
  BY DEF NoIter, Iters
<1>5. TypeOK' /\ RefsCoverHandles' /\ NullIffEmpty' /\ LookupComplete'
  BY <1>1, <1>3, <1>4, DropInv
<1>. QED  BY <1>1, <1>5 DEF IInv, IterOK, NoIter
-----------------------------------------------------------------------------
\* Without any tree the invariant holds.
LEMMA InitInv == Init => IInv
<1>. SUFFICES ASSUME Init PROVE IInv
  OBVIOUS
<1>1. TypeOK
  BY DEF Init, TypeOK, Maps, EmptyMap, NoIter, Iters
<1>2. RefsCoverHandles
  <2>. SUFFICES ASSUME NEW o \in Obj
                PROVE  refs[o] >= Cardinality(HandlesOf(o))
    BY DEF RefsCoverHandles
  <2>1. HandlesOf(o) = {}
    BY DEF Init, HandlesOf
  <2>2. Cardinality(HandlesOf(o)) = 0
    BY <2>1, FS_EmptySet
  <2>. QED  BY <2>2 DEF Init
<1>3. NullIffEmpty /\ LookupComplete /\ IterOK
  BY DEF Init, NullIffEmpty, LookupComplete, IterOK
<1>. QED  BY <1>1, <1>2, <1>3 DEF IInv

\* A step that changes nothing preserves the invariant.
LEMMA StutterInv ==
    ASSUME IInv, UNCHANGED vars
    PROVE  IInv'
BY DEF IInv, vars, TypeOK, RefsCoverHandles, HandlesOf, NullIffEmpty, EmptyMap,
       LookupComplete, OwnerBits, IterOK, NoIter

\* Every operation of avl.c preserves the invariant.
LEMMA NextInv == IInv /\ [Next]_vars => IInv'
<1>. SUFFICES ASSUME IInv, [Next]_vars PROVE IInv'
  OBVIOUS
<1>1. CASE \E h \in Handle, n \in Obj, k \in Key :
             avl_remove(h, k, n) \/ \E s \in Sm : avl_insert(h, k, s, n)
  BY <1>1, InsertInv, RemoveInv
<1>2. CASE \E h \in Handle, n \in Obj, i \in 1..MaxId : set_stree_id(h, i, n)
  BY <1>2, SetIdInv
<1>3. CASE \E h, g \in Handle :
             clone_stree(h, g) \/ move_stree(h, g) \/ for_each_sm_safe(h, g)
  BY <1>3, CloneInv, MoveInv, ForEachInv
<1>4. CASE \E h \in Handle : free_stree(h)
  BY <1>4, FreeInv
<1>5. CASE avl_iter_next
  BY <1>5, IterNextInv
<1>6. CASE end_for_each_sm_safe
  BY <1>6, EndForEachInv
<1>7. CASE UNCHANGED vars
  BY <1>7, StutterInv
<1>. QED  BY <1>1, <1>2, <1>3, <1>4, <1>5, <1>6, <1>7 DEF Next

\* In every behaviour of avl.c: a tree has at least as many references as
\* handles, no handle holds an empty tree, and the has_states shortcut of
\* avl_lookup() hides nothing.
THEOREM Invariance == Spec => []IInv
BY InitInv, NextInv, PTL DEF Spec

\* Every field of every tree keeps its type: in particular no reference
\* count of free_stree() goes below zero.
THEOREM TypeCorrect == Spec => []TypeOK
<1>1. IInv => TypeOK
  BY DEF IInv
<1>. QED  BY <1>1, Invariance, PTL

\* The references field of a tree covers the handles that point to it
\* (free_stree() and the copy on write of avl_insert() and avl_remove()).
THEOREM RefsCover == Spec => []RefsCoverHandles
<1>1. IInv => RefsCoverHandles
  BY DEF IInv
<1>. QED  BY <1>1, Invariance, PTL

\* No handle ever holds a tree without states: a path is null exactly when
\* nothing is known on it (avl_remove()).
THEOREM NullPaths == Spec => []NullIffEmpty
<1>1. IInv => NullIffEmpty
  BY DEF IInv
<1>. QED  BY <1>1, Invariance, PTL

\* avl_lookup() finds every state of a tree despite its has_states shortcut.
THEOREM Lookup == Spec => []LookupComplete
<1>1. IInv => LookupComplete
  BY DEF IInv
<1>. QED  BY <1>1, Invariance, PTL
-----------------------------------------------------------------------------
(* Loops over a tree.                                                      *)

\* An object that a handle other than the writer's points to survives a step
\* unchanged.
LEMMA HeldByAnother ==
    ASSUME IInv, NEW h \in Handle, NEW g \in Handle, g # h, ptr[g] \in Obj
    PROVE  /\ \A k \in Key, s \in Sm, n \in Obj : avl_insert(h, k, s, n) =>
                map'[ptr[g]] = map[ptr[g]]
           /\ \A k \in Key, n \in Obj : avl_remove(h, k, n) =>
                map'[ptr[g]] = map[ptr[g]]
           /\ \A i \in 1..MaxId, n \in Obj : set_stree_id(h, i, n) =>
                map'[ptr[g]] = map[ptr[g]]
           /\ free_stree(h) => map'[ptr[g]] = map[ptr[g]]
<1>0. TypeOK /\ RefsCoverHandles
  BY DEF IInv
<1>1. ASSUME NEW k \in Key, NEW s \in Sm, NEW n \in Obj, avl_insert(h, k, s, n)
      PROVE  map'[ptr[g]] = map[ptr[g]]
  <2>0. CopyOnWrite(h, n)
    BY <1>1 DEF avl_insert
  <2>1. ptr[g] # n
    BY <2>0, TargetIsPrivate
  <2>. QED  BY <1>0, <1>1, <2>1 DEF avl_insert, TypeOK
<1>2. ASSUME NEW k \in Key, NEW n \in Obj, avl_remove(h, k, n)
      PROVE  map'[ptr[g]] = map[ptr[g]]
  <2>0. CopyOnWrite(h, n)
    BY <1>2 DEF avl_remove
  <2>1. ptr[g] # n
    BY <2>0, TargetIsPrivate
  <2>. QED  BY <1>0, <1>2, <2>1 DEF avl_remove, TypeOK
<1>3. ASSUME NEW i \in 1..MaxId, NEW n \in Obj, set_stree_id(h, i, n)
      PROVE  map'[ptr[g]] = map[ptr[g]]
  <2>1. n \in FreeObj => ptr[g] # n
    BY <1>0, Referenced DEF FreeObj
  <2>. QED  BY <1>0, <1>3, <2>1 DEF set_stree_id, TypeOK
<1>4. ASSUME free_stree(h)
      PROVE  map'[ptr[g]] = map[ptr[g]]
  <2>1. ptr[h] \in Obj /\ refs[ptr[h]] >= 1 /\ refs[ptr[h]] \in Nat
    BY <1>0, <1>4, Referenced DEF free_stree
  <2>2. CASE refs[ptr[h]] > 1
    BY <1>4, <2>2 DEF free_stree, drop_reference
  <2>3. CASE refs[ptr[h]] = 1
    <3>0. ptr[h] # NULL /\ ~ Shared(h)
      BY <2>1, <2>3, NullAssumption DEF Shared
    <3>1. ptr[g] # ptr[h]
      BY <1>0, <3>0, Exclusive, Zenon
    <3>. QED  BY <1>0, <1>4, <3>1 DEF free_stree, drop_reference, TypeOK
  <2>. QED  BY <2>1, <2>2, <2>3
<1>. QED  BY <1>1, <1>2, <1>3, <1>4

\* The tree under the iterator has a reference.
IterReferenced == iter.obj # NULL => refs[iter.obj] > 0

\* The iterator's own copy counts as a handle of the tree it stands on.
LEMMA IterHolds == IInv => IterReferenced
<1>. SUFFICES ASSUME IInv, iter.obj # NULL PROVE refs[iter.obj] > 0
  BY DEF IterReferenced
<1>1. PICK c \in Handle : c = iter.copy /\ ptr[c] = iter.obj
  BY DEF IInv, IterOK, NoIter
<1>. QED  BY <1>1, Referenced DEF IInv

\* No step of a loop's body changes or frees the tree the loop walks.
LEMMA IterStep ==
    ASSUME IInv, [Next]_vars, iter.obj # NULL, iter'.obj = iter.obj
    PROVE  map'[iter.obj] = map[iter.obj]
<1>1. PICK c \in Handle : c = iter.copy /\ ptr[c] = iter.obj /\ iter.obj \in Obj
  BY DEF IInv, IterOK, NoIter
<1>2. TypeOK /\ iter'.obj # NULL
  BY DEF IInv
<1>3. map'[iter.obj] = map[iter.obj]
  <2>1. ASSUME NEW h \in Handle, h # c
        PROVE  /\ \A k \in Key, s \in Sm, n \in Obj : avl_insert(h, k, s, n) =>
                    map'[iter.obj] = map[iter.obj]
               /\ \A k \in Key, n \in Obj : avl_remove(h, k, n) =>
                    map'[iter.obj] = map[iter.obj]
               /\ \A i \in 1..MaxId, n \in Obj : set_stree_id(h, i, n) =>
                    map'[iter.obj] = map[iter.obj]
               /\ free_stree(h) => map'[iter.obj] = map[iter.obj]
    BY <1>1, <2>1, HeldByAnother
  <2>2. CASE \E h \in Handle, n \in Obj, k \in Key :
               avl_remove(h, k, n) \/ \E s \in Sm : avl_insert(h, k, s, n)
    <3>1. PICK h \in Handle, n \in Obj, k \in Key :
            avl_remove(h, k, n) \/ \E s \in Sm : avl_insert(h, k, s, n)
      BY <2>2
    <3>2. h # c
      BY <1>1, <3>1 DEF avl_insert, avl_remove, Usable
    <3>. QED  BY <2>1, <3>1, <3>2
  <2>3. CASE \E h \in Handle, n \in Obj, i \in 1..MaxId : set_stree_id(h, i, n)
    <3>1. PICK h \in Handle, n \in Obj, i \in 1..MaxId : set_stree_id(h, i, n)
      BY <2>3
    <3>2. h # c
      BY <1>1, <3>1 DEF set_stree_id, Usable
    <3>. QED  BY <2>1, <3>1, <3>2
  <2>4. CASE \E h, g \in Handle :
               clone_stree(h, g) \/ move_stree(h, g) \/ for_each_sm_safe(h, g)
    BY <2>4 DEF clone_stree, move_stree, for_each_sm_safe
  <2>5. CASE \E h \in Handle : free_stree(h)
    <3>1. PICK h \in Handle : free_stree(h)
      BY <2>5
    <3>2. h # c
      BY <1>1, <3>1 DEF free_stree, Usable
    <3>. QED  BY <2>1, <3>1, <3>2
  <2>6. CASE avl_iter_next
    BY <2>6 DEF avl_iter_next
  <2>7. CASE end_for_each_sm_safe
    BY <1>2, <2>7 DEF end_for_each_sm_safe, NoIter
  <2>8. CASE UNCHANGED vars
    BY <2>8 DEF vars
  <2>. QED  BY <2>2, <2>3, <2>4, <2>5, <2>6, <2>7, <2>8 DEF Next
<1>. QED  BY <1>3

\* The nodes under a FOR_EACH_SM_SAFE iterator are neither freed nor changed
\* before the loop ends, whatever its body does to the handle.
THEOREM IterationIsSafe == Spec => IterSnapshot
<1>1. IInv /\ IterReferenced' /\ [Next]_vars =>
        [iter.obj # NULL /\ iter'.obj = iter.obj =>
           map'[iter.obj] = map[iter.obj] /\ refs'[iter.obj] > 0]_<<map, refs>>
  BY IterStep DEF IterReferenced
<1>. QED  BY <1>1, IterHolds, Invariance, PTL DEF Spec, IterSnapshot
-----------------------------------------------------------------------------
(* Handles are private maps.                                               *)

\* The map seen through every handle.
Seen == [h \in Handle |-> View(h)]

\* A handle whose pointer and tree are left alone sees what it saw.
LEMMA ViewOfOther ==
    ASSUME TypeOK, NEW g \in Handle, ptr'[g] = ptr[g],
           ptr[g] \in Obj => map'[ptr[g]] = map[ptr[g]]
    PROVE  View(g)' = View(g)
BY DEF View, EmptyMap, TypeOK

\* avl_insert() is an insertion into one private map.
LEMMA RefineInsert ==
    ASSUME IInv, NEW h \in Handle, NEW k \in Key, NEW s \in Sm, NEW n \in Obj,
           avl_insert(h, k, s, n)
    PROVE  Seen' = [Seen EXCEPT ![h] = [Seen[h] EXCEPT ![k] = s]]
<1>0. TypeOK /\ ptr' = [ptr EXCEPT ![h] = n]
      /\ map' = [map EXCEPT ![n] = [View(h) EXCEPT ![k] = s]]
  BY DEF IInv, avl_insert
<1>1. View(h)' = [View(h) EXCEPT ![k] = s]
  BY <1>0 DEF View, TypeOK
<1>2. ASSUME NEW g \in Handle, g # h PROVE View(g)' = View(g)
  <2>1. ptr'[g] = ptr[g]
    BY <1>0, <1>2 DEF TypeOK
  <2>2. ptr[g] \in Obj => map'[ptr[g]] = map[ptr[g]]
    BY <1>2, HeldByAnother
  <2>. QED  BY <1>0, <2>1, <2>2, ViewOfOther
<1>. QED  BY <1>1, <1>2 DEF Seen

\* avl_remove() is a removal from one private map.
LEMMA RefineRemove ==
    ASSUME IInv, NEW h \in Handle, NEW k \in Key, NEW n \in Obj,
           avl_remove(h, k, n)
    PROVE  Seen' = [Seen EXCEPT ![h] = [Seen[h] EXCEPT ![k] = NoSm]]
<1>. DEFINE f == [View(h) EXCEPT ![k] = NoSm]
<1>0. TypeOK /\ ptr' = [ptr EXCEPT ![h] = IF f = EmptyMap THEN NULL ELSE n]
      /\ map' = [map EXCEPT ![n] = f]
  BY DEF IInv, avl_remove
<1>1. View(h)' = f
  BY <1>0 DEF View, TypeOK, EmptyMap
<1>2. ASSUME NEW g \in Handle, g # h PROVE View(g)' = View(g)
  <2>1. ptr'[g] = ptr[g]
    BY <1>0, <1>2 DEF TypeOK
  <2>2. ptr[g] \in Obj => map'[ptr[g]] = map[ptr[g]]
    BY <1>2, HeldByAnother
  <2>. QED  BY <1>0, <2>1, <2>2, ViewOfOther
<1>. QED  BY <1>1, <1>2 DEF Seen

\* set_stree_id() changes no map.
LEMMA RefineSetId ==
    ASSUME IInv, NEW h \in Handle, NEW i \in 1..MaxId, NEW n \in Obj,
           set_stree_id(h, i, n)
    PROVE  Seen' = Seen
<1>0. TypeOK
  BY DEF IInv
<1>1. View(h)' = View(h)
  BY <1>0 DEF set_stree_id, View, TypeOK, EmptyMap
<1>2. ASSUME NEW g \in Handle, g # h PROVE View(g)' = View(g)
  <2>1. ptr'[g] = ptr[g]
    BY <1>0, <1>2 DEF TypeOK, set_stree_id
  <2>2. ptr[g] \in Obj => map'[ptr[g]] = map[ptr[g]]
    BY <1>2, HeldByAnother
  <2>. QED  BY <1>0, <2>1, <2>2, ViewOfOther
<1>. QED  BY <1>1, <1>2 DEF Seen

\* Copies: clone_stree() and the beginning of FOR_EACH_SM_SAFE.
LEMMA RefineCopy ==
    ASSUME IInv, NEW h \in Handle, NEW g \in Handle,
           ptr[h] # NULL, ptr[g] = NULL,
           ptr' = [ptr EXCEPT ![g] = ptr[h]], map' = map
    PROVE  /\ g # h /\ Seen[g] = EmptyMap
           /\ Seen' = [Seen EXCEPT ![g] = Seen[h]]
BY DEF IInv, TypeOK, Seen, View, EmptyMap

\* Handing a tree over is a transfer of a map.
LEMMA RefineMove ==
    ASSUME IInv, NEW h \in Handle, NEW g \in Handle, move_stree(h, g)
    PROVE  /\ g # h /\ Seen[g] = EmptyMap
           /\ Seen' = [Seen EXCEPT ![g] = Seen[h], ![h] = EmptyMap]
<1>0. /\ TypeOK /\ ptr[h] # NULL /\ ptr[g] = NULL /\ map' = map /\ g # h
      /\ ptr' = [ptr EXCEPT ![g] = ptr[h], ![h] = NULL]
  BY DEF IInv, move_stree
<1>1. View(g) = EmptyMap /\ View(g)' = View(h) /\ View(h)' = EmptyMap
  BY <1>0 DEF TypeOK, View, EmptyMap
<1>2. \A d \in Handle : d # g /\ d # h => View(d)' = View(d)
  BY <1>0 DEF TypeOK, View, EmptyMap
<1>. QED  BY <1>0, <1>1, <1>2 DEF Seen

\* A handle that drops its reference: free_stree() and the end of the loop.
LEMMA RefineDrop ==
    ASSUME IInv, NEW h \in Handle, ptr[h] \in Obj,
           ptr' = [ptr EXCEPT ![h] = NULL], drop_reference(ptr[h])
    PROVE  Seen' = [Seen EXCEPT ![h] = EmptyMap]
<1>0. TypeOK /\ RefsCoverHandles /\ ptr[h] # NULL
  BY DEF IInv
<1>1. View(h)' = EmptyMap
  BY <1>0 DEF View, TypeOK, EmptyMap
<1>2. ASSUME NEW g \in Handle, g # h PROVE View(g)' = View(g)
  <2>1. ptr'[g] = ptr[g]
    BY <1>0, <1>2 DEF TypeOK
  <2>2. ptr[g] \in Obj => map'[ptr[g]] = map[ptr[g]]
    <3>1. CASE refs[ptr[h]] > 1
      BY <3>1 DEF drop_reference
    <3>2. CASE ~ (refs[ptr[h]] > 1)
      <4>1. ptr[g] # ptr[h]
        BY <1>0, <1>2, <3>2, Exclusive DEF Shared
      <4>. QED  BY <1>0, <4>1 DEF drop_reference, TypeOK
    <3>. QED  BY <3>1, <3>2
  <2>. QED  BY <1>0, <2>1, <2>2, ViewOfOther
<1>. QED  BY <1>1, <1>2 DEF Seen

\* Every operation of avl.c is an operation on private maps or changes none.
LEMMA RefineNext == IInv /\ [Next]_vars => [SM!Next]_Seen
<1>. SUFFICES ASSUME IInv, [Next]_vars PROVE [SM!Next]_Seen
  OBVIOUS
<1>. USE DEF SM!Next, SM!Empty
<1>1. ASSUME NEW h \in Handle, NEW n \in Obj, NEW k \in Key, avl_remove(h, k, n)
      PROVE  SM!Next
  <2>1. SM!Remove(h, k)
    BY <1>1, RefineRemove DEF SM!Remove, Seen
  <2>. QED  BY <2>1
<1>2. ASSUME NEW h \in Handle, NEW n \in Obj, NEW k \in Key, NEW s \in Sm,
             avl_insert(h, k, s, n)
      PROVE  SM!Next
  <2>1. SM!Insert(h, k, s)
    BY <1>2, RefineInsert DEF SM!Insert, Seen
  <2>. QED  BY <2>1
<1>3. ASSUME NEW h \in Handle, NEW n \in Obj, NEW i \in 1..MaxId,
             set_stree_id(h, i, n)
      PROVE  UNCHANGED Seen
  BY <1>3, RefineSetId
<1>4. ASSUME NEW h \in Handle, NEW g \in Handle,
             clone_stree(h, g) \/ for_each_sm_safe(h, g)
      PROVE  SM!Next
  <2>1. /\ ptr[h] # NULL /\ ptr[g] = NULL
        /\ ptr' = [ptr EXCEPT ![g] = ptr[h]] /\ map' = map
    BY <1>4 DEF clone_stree, for_each_sm_safe
  <2>2. g # h /\ SM!Copy(h, g)
    BY <2>1, RefineCopy DEF SM!Copy, Seen, EmptyMap
  <2>. QED  BY <2>2
<1>5. ASSUME NEW h \in Handle, NEW g \in Handle, move_stree(h, g)
      PROVE  SM!Next
  <2>1. g # h /\ SM!Transfer(h, g)
    BY <1>5, RefineMove DEF SM!Transfer, Seen, EmptyMap
  <2>. QED  BY <2>1
<1>6. ASSUME NEW h \in Handle, free_stree(h)
      PROVE  SM!Next
  <2>1. /\ ptr[h] \in Obj /\ ptr' = [ptr EXCEPT ![h] = NULL]
        /\ drop_reference(ptr[h])
    BY <1>6 DEF IInv, TypeOK, free_stree
  <2>2. SM!Drop(h)
    BY <2>1, RefineDrop DEF SM!Drop, Seen, EmptyMap
  <2>. QED  BY <2>2
<1>7. ASSUME end_for_each_sm_safe
      PROVE  SM!Next
  <2>1. PICK c \in Handle : c = iter.copy /\ ptr[c] \in Obj
    BY <1>7 DEF IInv, IterOK, NoIter, end_for_each_sm_safe
  <2>2. ptr' = [ptr EXCEPT ![c] = NULL] /\ drop_reference(ptr[c])
    BY <1>7, <2>1 DEF end_for_each_sm_safe
  <2>3. SM!Drop(c)
    BY <2>1, <2>2, RefineDrop DEF SM!Drop, Seen, EmptyMap
  <2>. QED  BY <2>3
<1>8. avl_iter_next => UNCHANGED Seen
  BY DEF avl_iter_next, Seen, View, EmptyMap
<1>9. UNCHANGED vars => UNCHANGED Seen
  BY DEF vars, Seen, View, EmptyMap
<1>. HIDE DEF SM!Next
<1>. QED  BY <1>1, <1>2, <1>3, <1>4, <1>5, <1>6, <1>7, <1>8, <1>9 DEF Next

\* avl.c implements private maps: whatever an operation does through one
\* handle, every other handle sees the states it saw before.
THEOREM Refinement == Spec => PrivateMaps
<1>1. Init => SM!Init
  BY DEF Init, SM!Init, SM!Empty, View, EmptyMap
<1>2. IInv /\ [Next]_vars => [SM!Next]_([h \in Handle |-> View(h)])
  BY RefineNext DEF Seen
<1>. QED  BY <1>1, <1>2, Invariance, PTL DEF Spec, PrivateMaps, SM!Spec
=============================================================================
