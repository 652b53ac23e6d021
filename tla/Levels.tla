-------------------------------- MODULE Levels ------------------------------
(***************************************************************************)
(* The depths of the stacks of smatch_states.c.  A level gives each stack  *)
(* its depth, and what the code pushes together leads from one to another. *)
(***************************************************************************)
EXTENDS States, Integers, SequenceTheorems, TLAPS

IsSeq(q) == \E S : q \in Seq(S)

\* The sequences of the record s that are pushed to and popped from.
Depths == Stacks \cup {"remaining_cases", "default_stack"}
Levels == [Depths -> Nat]
Zero == [g \in Depths |-> 0]
Up(l, f) == [l EXCEPT ![f] = @ + 1]

\* Every stack of r has the depth of the level l, what the callers saved is
\* k, and no sm_perror() about the stacks was printed.
Has(r, l, k) ==
    /\ DOMAIN r = Fields
    /\ r.perror = FALSE
    /\ r.backup = k
    /\ l \in Levels
    /\ \A g \in Depths : IsSeq(r[g]) /\ Len(r[g]) = l[g]

\* What is pushed together: a fake tree, the two sides of a condition, the
\* breaks of a loop or switch, the values of a switch.
Fake(l) == Up(Up(l, "fake_cur_stree_stack"), "pre_cond_stack")
Sides(l) == Up(Up(l, "cond_true_stack"), "cond_false_stack")
Breaks(l) == IF l["fake_cur_stree_stack"] > 0
             THEN Up(Up(l, "break_stack"), "fake_break_stack")
             ELSE Up(l, "break_stack")
Switch(l) == Up(Up(l, "switch_stack"), "remaining_cases")
-----------------------------------------------------------------------------
(* Sequences.                                                              *)

\* The length of a stack is a number, 0 for the empty stack only.
LEMMA SeqLen ==
    ASSUME NEW q, IsSeq(q)
    PROVE  Len(q) \in Nat /\ DOMAIN q = 1..Len(q) /\ (q = <<>> <=> Len(q) = 0)
BY DEF IsSeq

\* The empty stack.
LEMMA SeqEmpty == IsSeq(<<>>) /\ Len(<<>>) = 0
<1>1. <<>> \in Seq({}) OBVIOUS
<1>. QED BY <1>1 DEF IsSeq

\* A push makes a stack longer by one.
LEMMA SeqAppend ==
    ASSUME NEW q, IsSeq(q), NEW t
    PROVE  IsSeq(Append(q, t)) /\ Len(Append(q, t)) = Len(q) + 1
<1>1. PICK S : q \in Seq(S) BY DEF IsSeq
<1>2. q \in Seq(S \cup {t}) BY <1>1
<1>. QED BY <1>2 DEF IsSeq

\* A pop makes a stack that is not empty shorter by one.
LEMMA SeqFront ==
    ASSUME NEW q, IsSeq(q), q # <<>>
    PROVE  IsSeq(Front(q)) /\ Len(Front(q)) = Len(q) - 1
<1>1. PICK S : q \in Seq(S) BY DEF IsSeq
<1>2. Len(q) \in Nat \ {0} BY <1>1
<1>3. \A i \in 1 .. Len(q) - 1 : q[i] \in S BY <1>1, <1>2
<1>4. PICK n \in Int : n = Len(q) - 1 BY <1>2
<1>5. \A i \in 1 .. n : q[i] \in S BY <1>3, <1>4
<1>6. SubSeq(q, 1, n) \in Seq(S) /\ Len(SubSeq(q, 1, n)) = IF 1 <= n THEN n - 1 + 1 ELSE 0
      BY <1>5, SubSeqProperties
<1>7. Front(q) = SubSeq(q, 1, n) BY <1>4 DEF Front
<1>8. Front(q) \in Seq(S) /\ Len(Front(q)) = IF 1 <= n THEN n - 1 + 1 ELSE 0
      BY <1>6, <1>7, Zenon
<1>9. (IF 1 <= n THEN n - 1 + 1 ELSE 0) = Len(q) - 1 BY <1>2, <1>4
<1>10. IsSeq(Front(q)) BY <1>8, Zenon DEF IsSeq
<1>. QED BY <1>8, <1>9, <1>10

\* What two sequences are together, as save_all_states() puts them.
LEMMA SeqConcat ==
    ASSUME NEW q, IsSeq(q), NEW r, IsSeq(r)
    PROVE  /\ IsSeq(q \o r) /\ Len(q \o r) = Len(q) + Len(r)
           /\ \A i \in 1..Len(q) : (q \o r)[i] = q[i]
           /\ \A i \in 1..Len(r) : (q \o r)[Len(q) + i] = r[i]
<1>1. PICK S : q \in Seq(S) BY DEF IsSeq
<1>2. PICK T : r \in Seq(T) BY DEF IsSeq
<1>3. q \in Seq(S \cup T) /\ r \in Seq(S \cup T) BY <1>1, <1>2
<1>. QED BY <1>3 DEF IsSeq

\* A change of one entry keeps the length.
LEMMA SeqExcept ==
    ASSUME NEW q, IsSeq(q), NEW i \in 1..Len(q), NEW v
    PROVE  IsSeq([q EXCEPT ![i] = v]) /\ Len([q EXCEPT ![i] = v]) = Len(q)
<1>1. PICK S : q \in Seq(S) BY DEF IsSeq
<1>2. q \in Seq(S \cup {v}) BY <1>1
<1>3. [q EXCEPT ![i] = v] \in Seq(S \cup {v}) /\ Len([q EXCEPT ![i] = v]) = Len(q)
      BY <1>2, ExceptSeq
<1>. QED BY <1>3 DEF IsSeq

\* A return takes the first call off the call stack.
LEMMA SeqTail ==
    ASSUME NEW q, IsSeq(q), q # <<>>
    PROVE  /\ IsSeq(Tail(q)) /\ Len(Tail(q)) = Len(q) - 1
           /\ \A i \in 1..Len(q) - 1 : Tail(q)[i] = q[i + 1]
           /\ Head(q) = q[1]
<1>1. PICK S : q \in Seq(S) BY DEF IsSeq
<1>. QED BY <1>1 DEF IsSeq

\* A call puts one on it.
LEMMA SeqCons ==
    ASSUME NEW v, NEW q, IsSeq(q)
    PROVE  /\ IsSeq(<<v>> \o q) /\ Len(<<v>> \o q) = Len(q) + 1
           /\ (<<v>> \o q)[1] = v
           /\ \A i \in 1..Len(q) : (<<v>> \o q)[i + 1] = q[i]
<1>1. PICK S : q \in Seq(S) BY DEF IsSeq
<1>2. <<v>> \in Seq(S \cup {v}) /\ q \in Seq(S \cup {v}) BY <1>1
<1>3. PICK p : p = <<v>> OBVIOUS
<1>4. Len(p) = 1 /\ p[1] = v BY <1>3
<1>5. PICK w : w = p \o q OBVIOUS
<1>6. /\ w \in Seq(S \cup {v}) /\ Len(w) = Len(p) + Len(q)
      /\ \A i \in 1..Len(p) : w[i] = p[i]
      /\ \A i \in 1..Len(q) : w[Len(p) + i] = q[i]
      BY <1>2, <1>3, <1>5
<1>7. Len(q) \in Nat BY <1>1
<1>8. Len(w) = Len(q) + 1 /\ w[1] = v /\ \A i \in 1..Len(q) : w[i + 1] = q[i]
      BY <1>4, <1>6, <1>7
<1>9. IsSeq(w) BY <1>6, Zenon DEF IsSeq
<1>. QED BY <1>3, <1>5, <1>8, <1>9, Zenon

\* Calls one after the other.
LEMMA Tuples ==
    ASSUME NEW v, NEW w, NEW u
    PROVE  <<v>> \o <<w>> = <<v, w>> /\ <<v, w>> \o <<u>> = <<v, w, u>>
<1>1. PICK T : T = {u, v, w} OBVIOUS
<1>2. /\ <<v>> \in Seq(T) /\ <<w>> \in Seq(T) /\ <<u>> \in Seq(T)
      /\ <<v, w>> \in Seq(T) /\ <<v, w, u>> \in Seq(T)
      BY <1>1
<1>3. PICK p : p = <<v>> \o <<w>> OBVIOUS
<1>4. p \in Seq(T) /\ Len(p) = 2 /\ p[1] = v /\ p[2] = w
      BY <1>2, <1>3, ConcatProperties
<1>5. p = <<v, w>>
  <2>1. Len(<<v, w>>) = 2 /\ <<v, w>>[1] = v /\ <<v, w>>[2] = w OBVIOUS
  <2>2. \A i \in 1..2 : i = 1 \/ i = 2 OBVIOUS
  <2>. QED BY <1>2, <1>4, <2>1, <2>2, SeqEqual
<1>6. PICK r : r = p \o <<u>> OBVIOUS
<1>7. r \in Seq(T) /\ Len(r) = 3 /\ r[1] = v /\ r[2] = w /\ r[3] = u
  <2>1. PICK z : z = <<u>> OBVIOUS
  <2>2. z \in Seq(T) /\ Len(z) = 1 /\ z[1] = u BY <1>2, <2>1
  <2>3. /\ r \in Seq(T) /\ Len(r) = Len(p) + Len(z)
        /\ \A i \in 1..Len(p) + Len(z) : r[i] = IF i <= Len(p) THEN p[i] ELSE z[i - Len(p)]
        BY <1>4, <1>6, <2>1, <2>2, ConcatProperties
  <2>. QED BY <1>4, <2>2, <2>3
<1>8. r = <<v, w, u>>
  <2>1. Len(<<v, w, u>>) = 3 /\ <<v, w, u>>[1] = v /\ <<v, w, u>>[2] = w /\ <<v, w, u>>[3] = u
        OBVIOUS
  <2>2. \A i \in 1..3 : i = 1 \/ i = 2 \/ i = 3 OBVIOUS
  <2>. QED BY <1>2, <1>7, <2>1, <2>2, SeqEqual
<1>. QED BY <1>3, <1>5, <1>6, <1>8

\* Nothing is called.
LEMMA SeqNone ==
    ASSUME NEW q, IsSeq(q)
    PROVE  <<>> \o q = q
BY DEF IsSeq

\* Two calls are one and then another.
LEMMA SeqTwo ==
    ASSUME NEW v, NEW w, NEW q, IsSeq(q)
    PROVE  <<v, w>> \o q = <<v>> \o (<<w>> \o q)
<1>1. PICK S : q \in Seq(S) BY DEF IsSeq
<1>2. PICK T : T = S \cup {v, w} OBVIOUS
<1>3. q \in Seq(T) /\ <<v>> \in Seq(T) /\ <<w>> \in Seq(T) BY <1>1, <1>2
<1>4. (<<v>> \o <<w>>) \o q = <<v>> \o (<<w>> \o q) BY <1>3, ConcatAssociative
<1>5. <<v>> \o <<w>> = <<v, w>> BY Tuples
<1>. QED BY <1>4, <1>5

\* Three calls are one and then two.
LEMMA SeqThree ==
    ASSUME NEW v, NEW w, NEW u, NEW q, IsSeq(q)
    PROVE  <<v, w, u>> \o q = <<v, w>> \o (<<u>> \o q)
<1>1. PICK S : q \in Seq(S) BY DEF IsSeq
<1>2. PICK T : T = S \cup {u, v, w} OBVIOUS
<1>3. q \in Seq(T) /\ <<v, w>> \in Seq(T) /\ <<u>> \in Seq(T) BY <1>1, <1>2
<1>4. <<v, w>> \o <<u>> = <<v, w, u>> BY Tuples
<1>. QED BY <1>3, <1>4, ConcatAssociative
-----------------------------------------------------------------------------
(* Levels.                                                                 *)

\* The names of the stacks.
LEMMA Names ==
    /\ Stacks \subseteq Depths
    /\ {"true_stack", "false_stack", "pre_cond_stack", "cond_true_stack",
        "cond_false_stack", "fake_cur_stree_stack", "break_stack",
        "fake_break_stack", "switch_stack", "continue_stack"} \subseteq Stacks
    /\ {"remaining_cases", "default_stack"} \subseteq Depths
    /\ Depths \subseteq Fields
    /\ {"cur_stree", "goto_stack", "backup", "perror", "oom"} \cap Depths = {}
BY DEF Stacks, Depths, Fields

\* Each of them is a stack with a depth.
LEMMA InDepths ==
    /\ "true_stack" \in Depths /\ "false_stack" \in Depths
    /\ "pre_cond_stack" \in Depths /\ "fake_cur_stree_stack" \in Depths
    /\ "cond_true_stack" \in Depths /\ "cond_false_stack" \in Depths
    /\ "break_stack" \in Depths /\ "fake_break_stack" \in Depths
    /\ "switch_stack" \in Depths /\ "continue_stack" \in Depths
    /\ "remaining_cases" \in Depths /\ "default_stack" \in Depths
BY DEF Stacks, Depths

\* A depth is a number.
LEMMA LevelNat ==
    ASSUME NEW l \in Levels, NEW g \in Depths
    PROVE  l[g] \in Nat
BY DEF Levels

\* One push changes one depth.
LEMMA UpLevel ==
    ASSUME NEW l \in Levels, NEW f \in Depths
    PROVE  /\ Up(l, f) \in Levels
           /\ Up(l, f)[f] = l[f] + 1
           /\ \A g \in Depths : g # f => Up(l, f)[g] = l[g]
BY DEF Levels, Up

\* A push makes no stack shorter, and its own one not empty.
LEMMA UpMore ==
    ASSUME NEW l \in Levels, NEW f \in Depths
    PROVE  /\ \A g \in Depths : Up(l, f)[g] >= l[g]
           /\ Up(l, f)[f] > 0
<1>1. ASSUME NEW g \in Depths PROVE Up(l, f)[g] >= l[g]
  <2>1. l[g] \in Nat BY LevelNat
  <2>2. CASE g = f BY <2>1, <2>2, UpLevel
  <2>3. CASE g # f BY <2>1, <2>3, UpLevel
  <2>. QED BY <2>2, <2>3
<1>2. l[f] \in Nat BY LevelNat
<1>. QED BY <1>1, <1>2, UpLevel

\* Two levels with the same depths are the same.
LEMMA SameLevel ==
    ASSUME NEW l \in Levels, NEW m \in Levels, \A g \in Depths : l[g] = m[g]
    PROVE  l = m
BY DEF Levels

\* The order of two pushes does not matter for the depths.
LEMMA UpUp ==
    ASSUME NEW l \in Levels, NEW f \in Depths, NEW g \in Depths
    PROVE  Up(Up(l, f), g) = Up(Up(l, g), f)
BY DEF Levels, Up

\* The depth before a push is known from the one after it.
LEMMA UpInjective ==
    ASSUME NEW l \in Levels, NEW m \in Levels, NEW f \in Depths, Up(l, f) = Up(m, f)
    PROVE  l = m
<1>1. \A g \in Depths : l[g] \in Nat /\ m[g] \in Nat BY DEF Levels
<1>2. ASSUME NEW g \in Depths PROVE l[g] = m[g] BY <1>1, UpLevel
<1>. QED BY <1>2, SameLevel

\* A stack that is not empty has been pushed to.
LEMMA UpOf ==
    ASSUME NEW l \in Levels, NEW f \in Depths, l[f] > 0
    PROVE  \E m \in Levels : l = Up(m, f)
<1>1. \A g \in Depths : l[g] \in Nat BY DEF Levels
<1>2. PICK m : m = [g \in Depths |-> IF g = f THEN l[f] - 1 ELSE l[g]] OBVIOUS
<1>3. m \in Levels BY <1>1, <1>2 DEF Levels
<1>4. ASSUME NEW g \in Depths PROVE Up(m, f)[g] = l[g]
      BY <1>1, <1>2, <1>3, UpLevel
<1>. QED BY <1>3, <1>4, SameLevel, UpLevel

\* What is pushed together leads from level to level.
LEMMA Kinds ==
    ASSUME NEW l \in Levels
    PROVE  /\ Fake(l) \in Levels /\ Sides(l) \in Levels
           /\ Breaks(l) \in Levels /\ Switch(l) \in Levels
BY UpLevel, Names DEF Fake, Sides, Breaks, Switch

\* The depths below a fake tree and inside it.
LEMMA FakeDepths ==
    ASSUME NEW l \in Levels
    PROVE  /\ Fake(l)["fake_cur_stree_stack"] = l["fake_cur_stree_stack"] + 1
           /\ Fake(l)["pre_cond_stack"] = l["pre_cond_stack"] + 1
           /\ \A g \in Depths \ {"fake_cur_stree_stack", "pre_cond_stack"} : Fake(l)[g] = l[g]
<1>1. PICK m : m = Up(l, "fake_cur_stree_stack") OBVIOUS
<1>2. /\ m \in Levels /\ m["fake_cur_stree_stack"] = l["fake_cur_stree_stack"] + 1
      /\ \A g \in Depths \ {"fake_cur_stree_stack"} : m[g] = l[g]
      BY <1>1, InDepths DEF Up, Levels
<1>3. PICK n : n = Up(m, "pre_cond_stack") OBVIOUS
<1>4. /\ n["pre_cond_stack"] = m["pre_cond_stack"] + 1
      /\ \A g \in Depths \ {"pre_cond_stack"} : n[g] = m[g]
      BY <1>2, <1>3, InDepths DEF Up, Levels
<1>5. Fake(l) = n BY <1>1, <1>3 DEF Fake
<1>. QED BY <1>2, <1>4, <1>5, InDepths

\* The depths outside a condition and inside it.
LEMMA SidesDepths ==
    ASSUME NEW l \in Levels
    PROVE  /\ Sides(l)["cond_true_stack"] = l["cond_true_stack"] + 1
           /\ Sides(l)["cond_false_stack"] = l["cond_false_stack"] + 1
           /\ \A g \in Depths \ {"cond_true_stack", "cond_false_stack"} : Sides(l)[g] = l[g]
<1>1. PICK m : m = Up(l, "cond_true_stack") OBVIOUS
<1>2. /\ m \in Levels /\ m["cond_true_stack"] = l["cond_true_stack"] + 1
      /\ \A g \in Depths \ {"cond_true_stack"} : m[g] = l[g]
      BY <1>1, InDepths DEF Up, Levels
<1>3. PICK n : n = Up(m, "cond_false_stack") OBVIOUS
<1>4. /\ n["cond_false_stack"] = m["cond_false_stack"] + 1
      /\ \A g \in Depths \ {"cond_false_stack"} : n[g] = m[g]
      BY <1>2, <1>3, InDepths DEF Up, Levels
<1>5. Sides(l) = n BY <1>1, <1>3 DEF Sides
<1>. QED BY <1>2, <1>4, <1>5, InDepths

\* The depths outside a loop or switch and inside it.
LEMMA BreaksDepths ==
    ASSUME NEW l \in Levels
    PROVE  /\ Breaks(l)["break_stack"] = l["break_stack"] + 1
           /\ \A g \in Depths \ {"break_stack", "fake_break_stack"} : Breaks(l)[g] = l[g]
           /\ Breaks(l)["fake_cur_stree_stack"] = l["fake_cur_stree_stack"]
<1>1. PICK m : m = Up(l, "break_stack") OBVIOUS
<1>2. /\ m \in Levels /\ m["break_stack"] = l["break_stack"] + 1
      /\ \A g \in Depths \ {"break_stack"} : m[g] = l[g]
      BY <1>1, InDepths DEF Up, Levels
<1>3. PICK n : n = Up(m, "fake_break_stack") OBVIOUS
<1>4. \A g \in Depths \ {"fake_break_stack"} : n[g] = m[g]
      BY <1>2, <1>3, InDepths DEF Up, Levels
<1>5. Breaks(l) = n \/ Breaks(l) = m BY <1>1, <1>3 DEF Breaks
<1>. QED BY <1>2, <1>4, <1>5, InDepths

\* A fake tree that is there was pushed with its pre_cond entry.
LEMMA FakeOf ==
    ASSUME NEW l \in Levels, l["fake_cur_stree_stack"] > 0,
           l["pre_cond_stack"] >= l["fake_cur_stree_stack"]
    PROVE  \E m \in Levels : l = Fake(m)
<1>1. l["fake_cur_stree_stack"] \in Nat /\ l["pre_cond_stack"] \in Nat BY InDepths, LevelNat
<1>2. PICK n \in Levels : l = Up(n, "pre_cond_stack") BY <1>1, UpOf, InDepths
<1>3. n["fake_cur_stree_stack"] = l["fake_cur_stree_stack"] BY <1>2, InDepths DEF Up, Levels
<1>4. PICK m \in Levels : n = Up(m, "fake_cur_stree_stack") BY <1>3, UpOf, InDepths
<1>. QED BY <1>2, <1>4 DEF Fake

\* Inside a condition both sides were pushed.
LEMMA SidesOf ==
    ASSUME NEW l \in Levels, l["cond_true_stack"] > 0, l["cond_false_stack"] > 0
    PROVE  \E m \in Levels : l = Sides(m)
<1>1. l["cond_true_stack"] \in Nat /\ l["cond_false_stack"] \in Nat BY InDepths, LevelNat
<1>2. PICK n \in Levels : l = Up(n, "cond_false_stack") BY UpOf, InDepths
<1>3. n["cond_true_stack"] = l["cond_true_stack"] BY <1>2, InDepths DEF Up, Levels
<1>4. PICK m \in Levels : n = Up(m, "cond_true_stack") BY <1>3, UpOf, InDepths
<1>. QED BY <1>2, <1>4 DEF Sides

\* The two sides of a condition may be pushed in either order.
LEMMA SidesSwap ==
    ASSUME NEW l \in Levels
    PROVE  Sides(l) = Up(Up(l, "cond_false_stack"), "cond_true_stack")
BY UpUp, InDepths DEF Sides

\* A push under a fake tree, or under the sides of a condition, comes to the
\* same as one above it.
LEMMA UpFake ==
    ASSUME NEW l \in Levels, NEW f \in Depths
    PROVE  Up(Fake(l), f) = Fake(Up(l, f))
<1>1. Up(l, "fake_cur_stree_stack") \in Levels BY UpLevel, InDepths
<1>2. Up(Fake(l), f) = Up(Up(Up(l, "fake_cur_stree_stack"), f), "pre_cond_stack")
      BY <1>1, UpUp, InDepths DEF Fake
<1>3. Up(Up(l, "fake_cur_stree_stack"), f) = Up(Up(l, f), "fake_cur_stree_stack")
      BY UpUp, InDepths
<1>. QED BY <1>2, <1>3 DEF Fake

\* The same for the breaks, unless the push is one of a fake tree.
LEMMA UpBreaks ==
    ASSUME NEW l \in Levels, NEW f \in Depths \ {"fake_cur_stree_stack"}
    PROVE  Up(Breaks(l), f) = Breaks(Up(l, f))
<1>1. Up(l, f) \in Levels /\ Up(l, "break_stack") \in Levels BY UpLevel, InDepths
<1>2. Up(l, f)["fake_cur_stree_stack"] = l["fake_cur_stree_stack"] BY UpLevel, InDepths
<1>3. Up(Up(l, "break_stack"), f) = Up(Up(l, f), "break_stack") BY UpUp, InDepths
<1>4. CASE l["fake_cur_stree_stack"] > 0
  <2>1. Breaks(l) = Up(Up(l, "break_stack"), "fake_break_stack") BY <1>4 DEF Breaks
  <2>2. Breaks(Up(l, f)) = Up(Up(Up(l, f), "break_stack"), "fake_break_stack")
        BY <1>2, <1>4 DEF Breaks
  <2>3. Up(Up(Up(l, "break_stack"), "fake_break_stack"), f)
          = Up(Up(Up(l, "break_stack"), f), "fake_break_stack")
        BY <1>1, UpUp, InDepths
  <2>. QED BY <1>3, <2>1, <2>2, <2>3
<1>5. CASE ~(l["fake_cur_stree_stack"] > 0)
  <2>1. Breaks(l) = Up(l, "break_stack") BY <1>5 DEF Breaks
  <2>2. Breaks(Up(l, f)) = Up(Up(l, f), "break_stack") BY <1>2, <1>5 DEF Breaks
  <2>. QED BY <1>3, <2>1, <2>2
<1>. QED BY <1>4, <1>5
=============================================================================
