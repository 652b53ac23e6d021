---------------------------- MODULE States_proofs ---------------------------
(***************************************************************************)
(* What the operations of smatch_states.c do to the depth of every stack,  *)
(* for any trees and states.                                               *)
(***************************************************************************)
EXTENDS Levels
-----------------------------------------------------------------------------
(* Pushes and pops.                                                        *)

\* The depths of the stacks of a record.
LEMMA HasLevel ==
    ASSUME NEW r, NEW l, NEW k, Has(r, l, k)
    PROVE  /\ l \in Levels
           /\ \A g \in Depths : IsSeq(r[g]) /\ Len(r[g]) = l[g] /\ (r[g] = <<>> <=> l[g] = 0)
BY SeqLen DEF Has

\* Another stack in place of one leads to the level with its depth.
LEMMA HasReplaced ==
    ASSUME NEW r, NEW l, NEW k, Has(r, l, k), NEW f \in Depths, NEW q, IsSeq(q),
           NEW m \in Levels, Len(q) = m[f], \A g \in Depths : g # f => m[g] = l[g]
    PROVE  Has([r EXCEPT ![f] = q], m, k)
<1>1. f \in Fields /\ f # "perror" /\ f # "backup" BY Names
<1>2. PICK t : t = [r EXCEPT ![f] = q] OBVIOUS
<1>3. /\ DOMAIN t = Fields /\ t[f] = q
      /\ \A g \in Fields : g # f => t[g] = r[g]
      BY <1>1, <1>2 DEF Has
<1>4. t.perror = FALSE /\ t.backup = k BY <1>1, <1>3 DEF Has, Fields
<1>5. ASSUME NEW g \in Depths PROVE IsSeq(t[g]) /\ Len(t[g]) = m[g]
      BY <1>3, Names DEF Has
<1>. QED BY <1>2, <1>3, <1>4, <1>5 DEF Has

\* A push leads one up.
LEMMA HasPush ==
    ASSUME NEW r, NEW l, NEW k, Has(r, l, k), NEW f \in Depths, NEW t
    PROVE  Has([r EXCEPT ![f] = Append(@, t)], Up(l, f), k)
<1>1. IsSeq(r[f]) /\ Len(r[f]) = l[f] /\ l \in Levels BY DEF Has
<1>2. PICK q : q = Append(r[f], t) OBVIOUS
<1>3. IsSeq(q) /\ Len(q) = Up(l, f)[f] BY <1>1, <1>2, SeqAppend, UpLevel
<1>4. Has([r EXCEPT ![f] = q], Up(l, f), k) BY <1>1, <1>3, UpLevel, HasReplaced
<1>. QED BY <1>2, <1>4

\* A pop leads back, and finds something to pop.
LEMMA HasPop ==
    ASSUME NEW r, NEW l \in Levels, NEW f \in Depths, NEW k, Has(r, Up(l, f), k)
    PROVE  /\ r[f] # <<>>
           /\ Has([r EXCEPT ![f] = Front(@)], l, k)
<1>1. IsSeq(r[f]) /\ Len(r[f]) = l[f] + 1 /\ l[f] \in Nat
      BY UpLevel DEF Has, Levels
<1>2. r[f] # <<>> BY <1>1, SeqLen
<1>3. IsSeq(Front(r[f])) /\ Len(Front(r[f])) = l[f] BY <1>1, <1>2, SeqFront
<1>. QED BY <1>2, <1>3, UpLevel, HasReplaced

\* push_stree() and pop_stree().
LEMMA HasPushPop ==
    ASSUME NEW r, NEW l \in Levels, NEW f \in Stacks, NEW k, NEW t
    PROVE  /\ Has(r, l, k) => Has(Push(r, f, t), Up(l, f), k)
           /\ Has(r, Up(l, f), k) => Has(Pop(r, f), l, k)
<1>1. f \in Depths BY Names
<1>2. Has(r, l, k) => Has(Push(r, f, t), Up(l, f), k)
      BY <1>1, HasPush DEF Push, push_stree
<1>3. Has(r, Up(l, f), k) => Has(Pop(r, f), l, k)
      BY <1>1, HasPop DEF Pop, pop_stree
<1>. QED BY <1>2, <1>3

\* What changes the current tree, the gotos or the memory left changes no depth.
LEMMA HasCur ==
    ASSUME NEW r, NEW l, NEW k, Has(r, l, k), NEW t
    PROVE  /\ Has(Cur(r, t), l, k)
           /\ Has(MergeCur(r, t), l, k)
           /\ Has([r EXCEPT !.goto_stack = t], l, k)
           /\ Has([r EXCEPT !.oom = t], l, k)
BY DEF Has, Cur, MergeCur, Fields, Depths, Stacks

\* FOR_EACH_SM() overwrite_sm_state_stree_stack() keeps the depth of a stack.
LEMMA KeepsTop ==
    ASSUME NEW q, IsSeq(q), q # <<>>, NEW t
    PROVE  IsSeq(overwrite_top(q, t)) /\ Len(overwrite_top(q, t)) = Len(q)
<1>1. IsSeq(Front(q)) /\ Len(Front(q)) = Len(q) - 1 BY SeqFront
<1>2. \A u : IsSeq(Append(Front(q), u)) /\ Len(Append(Front(q), u)) = Len(q)
      BY <1>1, SeqAppend, SeqLen
<1>. QED BY <1>2 DEF overwrite_top, push_stree, pop_stree

\* Setting states, in the fake tree too, changes no depth.
LEMMA HasOverwrite ==
    ASSUME NEW r, NEW l, NEW k, Has(r, l, k), NEW t
    PROVE  Has(Overwrite(r, t), l, k)
<1>1. PICK q : /\ q = Overwrite(r, t).fake_cur_stree_stack
               /\ q = IF r.fake_cur_stree_stack = <<>> THEN r.fake_cur_stree_stack
                       ELSE overwrite_top(r.fake_cur_stree_stack, t)
      BY DEF Overwrite, Has, Fields, Stacks
<1>2. IsSeq(q) /\ Len(q) = l["fake_cur_stree_stack"]
      BY <1>1, KeepsTop DEF Has, Depths, Stacks
<1>. QED BY <1>1, <1>2 DEF Overwrite, Has, Fields, Depths, Stacks
-----------------------------------------------------------------------------
(* The fake tree and conditions.                                           *)

\* A field that is no stack may change as long as no error is printed.
LEMMA HasField ==
    ASSUME NEW r, NEW l, NEW k, Has(r, l, k), NEW u, DOMAIN u = Fields,
           u.perror = FALSE, u.backup = k, \A g \in Depths : u[g] = r[g]
    PROVE  Has(u, l, k)
BY DEF Has

\* The states before a condition are pushed and popped.
LEMMA HasPre ==
    ASSUME NEW r, NEW k, NEW l \in Levels
    PROVE  /\ Has(r, l, k) => Has(__save_pre_cond_states(r), Up(l, "pre_cond_stack"), k)
           /\ Has(r, Up(l, "pre_cond_stack"), k) =>
                 Has(__use_pre_cond_states(r), l, k) /\ Has(__discard_pre_cond_states(r), l, k)
BY HasPushPop, HasCur, Names
   DEF __save_pre_cond_states, __use_pre_cond_states, __discard_pre_cond_states

\* A fake tree comes with an entry of pre_cond_stack.
LEMMA HasPushFake ==
    ASSUME NEW r, NEW k, NEW l \in Levels, Has(r, l, k)
    PROVE  Has(__push_fake_cur_stree(r), Fake(l), k)
<1>1. Has(Push(r, "fake_cur_stree_stack", NULL), Up(l, "fake_cur_stree_stack"), k)
      BY HasPushPop, Names
<1>. QED BY <1>1, HasPre, UpLevel, Names DEF __push_fake_cur_stree, Fake

\* And goes with it; __pop_fake_cur_stree() finds one and prints nothing.
LEMMA HasPopFake ==
    ASSUME NEW r, NEW k, NEW l \in Levels, Has(r, Fake(l), k)
    PROVE  Has(__pop_fake_cur_stree(r), l, k)
<1>1. PICK t : t = __use_pre_cond_states(r) OBVIOUS
<1>2. Up(l, "fake_cur_stree_stack") \in Levels BY UpLevel, Names
<1>3. Has(t, Up(l, "fake_cur_stree_stack"), k) BY <1>1, <1>2, HasPre DEF Fake
<1>4. PICK u : u = Pop(t, "fake_cur_stree_stack") OBVIOUS
<1>5. Has(u, l, k) BY <1>3, <1>4, HasPushPop, Names
<1>6. r.fake_cur_stree_stack # <<>>
  <2>1. Fake(l)["fake_cur_stree_stack"] = l["fake_cur_stree_stack"] + 1 BY FakeDepths
  <2>2. l["fake_cur_stree_stack"] \in Nat BY LevelNat, InDepths
  <2>. QED BY <2>1, <2>2, HasLevel, InDepths
<1>7. PICK v : v = [u EXCEPT !.perror = @ \/ r.fake_cur_stree_stack = <<>>] OBVIOUS
<1>8. DOMAIN v = Fields /\ v.perror = FALSE BY <1>5, <1>6, <1>7 DEF Has, Fields
<1>9. v.backup = k /\ \A g \in Depths : v[g] = u[g]
      BY <1>5, <1>7 DEF Has, Fields, Depths, Stacks
<1>10. Has(v, l, k) BY <1>5, <1>8, <1>9, HasField
<1>11. __pop_fake_cur_stree(r) = v BY <1>1, <1>4, <1>7 DEF __pop_fake_cur_stree
<1>. QED BY <1>10, <1>11

\* The end of a path starts the fake tree anew and changes no depth.
LEMMA HasNullify ==
    ASSUME NEW r, NEW k, NEW l, Has(r, l, k),
           l["pre_cond_stack"] >= l["fake_cur_stree_stack"]
    PROVE  Has(nullify_path(r), l, k) /\ nullify_path(r).cur_stree = NULL
<1>1. l \in Levels BY HasLevel
<1>2. ASSUME NEW u, Has(u, l, k)
      PROVE  Has(Cur(u, NULL), l, k) /\ Cur(u, NULL).cur_stree = NULL
  <2>1. Has(Cur(u, NULL), l, k) BY <1>2, HasCur
  <2>2. "cur_stree" \in DOMAIN u BY <1>2 DEF Has, Fields
  <2>. QED BY <2>1, <2>2 DEF Cur
<1>3. CASE r.fake_cur_stree_stack = <<>>
      BY <1>2, <1>3 DEF nullify_path
<1>4. CASE r.fake_cur_stree_stack # <<>>
  <2>1. l["fake_cur_stree_stack"] # 0 BY <1>4, HasLevel, InDepths
  <2>2. l["fake_cur_stree_stack"] \in Nat BY <1>1, LevelNat, InDepths
  <2>3. PICK m \in Levels : l = Fake(m) BY <1>1, <2>1, <2>2, FakeOf
  <2>4. PICK u : u = __push_fake_cur_stree(__pop_fake_cur_stree(r)) OBVIOUS
  <2>5. Has(u, l, k) BY <2>3, <2>4, HasPopFake, HasPushFake
  <2>6. nullify_path(r) = Cur(u, NULL) BY <1>4, <2>4 DEF nullify_path
  <2>. QED BY <1>2, <2>5, <2>6
<1>. QED BY <1>3, <1>4

\* A state that is set changes no depth.
LEMMA HasSet ==
    ASSUME NEW r, NEW k, NEW l, Has(r, l, k), NEW t, NEW y, NEW v
    PROVE  /\ Has(__set_sm(r, t), l, k)
           /\ Has(set_state(r, y, v), l, k)
           /\ Has(__unnullify_path(r), l, k)
BY HasOverwrite DEF __set_sm, set_state, __unnullify_path

\* Inside a condition states are set on both sides, and nothing is printed.
LEMMA HasTrueFalse ==
    ASSUME NEW r, NEW k, NEW l, Has(r, l, k), l["cond_true_stack"] > 0,
           l["cond_false_stack"] > 0, NEW t, NEW u
    PROVE  Has(__set_true_false_sm(r, t, u), l, k)
<1>1. l \in Levels BY HasLevel
<1>2. r.cond_true_stack # <<>> /\ r.cond_false_stack # <<>>
      BY <1>1, HasLevel, InDepths DEF Levels
<1>3. PICK q : q = overwrite_top(r.cond_true_stack, t) OBVIOUS
<1>4. PICK p : p = overwrite_top(r.cond_false_stack, u) OBVIOUS
<1>5. IsSeq(q) /\ Len(q) = l["cond_true_stack"] BY <1>2, <1>3, KeepsTop, HasLevel, InDepths
<1>6. IsSeq(p) /\ Len(p) = l["cond_false_stack"] BY <1>2, <1>4, KeepsTop, HasLevel, InDepths
<1>7. Has([r EXCEPT !.cond_true_stack = q], l, k) BY <1>1, <1>5, HasReplaced, InDepths
<1>8. Has([[r EXCEPT !.cond_true_stack = q] EXCEPT !.cond_false_stack = p], l, k)
      BY <1>1, <1>6, <1>7, HasReplaced, InDepths
<1>9. [[r EXCEPT !.cond_true_stack = q] EXCEPT !.cond_false_stack = p]
        = [r EXCEPT !.cond_true_stack = q, !.cond_false_stack = p]
      OBVIOUS
<1>. QED BY <1>2, <1>3, <1>4, <1>8, <1>9 DEF __set_true_false_sm

\* The two sides of a condition are pushed with a fake tree.
LEMMA HasPushCond ==
    ASSUME NEW r, NEW k, NEW l \in Levels, Has(r, l, k)
    PROVE  Has(__push_cond_stacks(r), Fake(Sides(l)), k)
<1>1. Has(Push(r, "cond_true_stack", NULL), Up(l, "cond_true_stack"), k)
      BY HasPushPop, Names
<1>2. Has(Push(Push(r, "cond_true_stack", NULL), "cond_false_stack", NULL), Sides(l), k)
      BY <1>1, HasPushPop, UpLevel, Names DEF Sides
<1>. QED BY <1>2, HasPushFake, Kinds DEF __push_cond_stacks

\* And popped without it.
LEMMA HasPopCond ==
    ASSUME NEW r, NEW k, NEW l \in Levels, Has(r, Sides(l), k)
    PROVE  Has(__pop_cond_stacks(r), l, k)
<1>1. Has(Pop(r, "cond_true_stack"), Up(l, "cond_false_stack"), k)
      BY SidesSwap, HasPushPop, UpLevel, Names
<1>. QED BY <1>1, HasPushPop, Names DEF __pop_cond_stacks

\* The end of a leaf pops the fake tree and sets its states on both sides.
LEMMA HasFold ==
    ASSUME NEW r, NEW k, NEW l \in Levels, Has(r, Fake(l), k),
           l["cond_true_stack"] > 0, l["cond_false_stack"] > 0
    PROVE  Has(__fold_in_set_states(r), l, k)
<1>1. PICK new : new = fake_cur_stree(r) OBVIOUS
<1>2. Has(__set_sm(__pop_fake_cur_stree(r), new), l, k) BY HasPopFake, HasSet
<1>. QED BY <1>1, <1>2, HasTrueFalse DEF __fold_in_set_states

\* To look at one side of a condition pops nothing.
LEMMA HasUseSide ==
    ASSUME NEW r, NEW k, NEW l, Has(r, l, k)
    PROVE  Has(__use_cond_true_states(r), l, k) /\ Has(__use_cond_false_states(r), l, k)
BY HasCur DEF __use_cond_true_states, __use_cond_false_states, __use_cond_stack

\* To exchange the sides changes no depth.
LEMMA HasNegate ==
    ASSUME NEW r, NEW k, NEW l \in Levels, Has(r, l, k),
           l["cond_true_stack"] > 0, l["cond_false_stack"] > 0
    PROVE  Has(__negate_cond_stacks(r), l, k)
<1>1. PICK m \in Levels : l = Sides(m) BY SidesOf
<1>2. Has(__pop_cond_stacks(r), m, k) BY <1>1, HasPopCond
<1>3. ASSUME NEW t, NEW u
      PROVE  Has(Push(Push(__pop_cond_stacks(r), "cond_false_stack", t),
                      "cond_true_stack", u), l, k)
  <2>1. Has(Push(__pop_cond_stacks(r), "cond_false_stack", t), Up(m, "cond_false_stack"), k)
        BY <1>2, HasPushPop, Names
  <2>. QED BY <1>1, <2>1, HasPushPop, UpLevel, SidesSwap, Names
<1>. QED BY <1>3 DEF __negate_cond_stacks

\* The end of a condition pops all that was pushed and keeps the false states.
LEMMA HasUseCond ==
    ASSUME NEW r, NEW k, NEW l \in Levels, Has(r, Sides(Up(l, "pre_cond_stack")), k)
    PROVE  Has(__use_cond_states(r), Up(l, "false_stack"), k)
<1>1. Up(l, "pre_cond_stack") \in Levels BY UpLevel, Names
<1>2. Has(__pop_cond_stacks(r), Up(l, "pre_cond_stack"), k) BY <1>1, HasPopCond
<1>3. Has(Pop(__pop_cond_stacks(r), "pre_cond_stack"), l, k) BY <1>2, HasPushPop, Names
<1>4. \A t, u : Has(Push(Cur(Pop(__pop_cond_stacks(r), "pre_cond_stack"), t),
                         "false_stack", u), Up(l, "false_stack"), k)
      BY <1>3, HasCur, HasPushPop, Names
<1>. QED BY <1>4 DEF __use_cond_states

\* The depth that and_stree_stack() and or_stree_stack() leave: two entries
\* become one.
LEMMA TwoToOne ==
    ASSUME NEW q, IsSeq(q), Len(q) > 1, NEW pre, NEW cur, NEW oom
    PROVE  /\ IsSeq(and_stree_stack(q)) /\ Len(and_stree_stack(q)) = Len(q) - 1
           /\ IsSeq(or_stree_stack(pre, cur, q, oom))
           /\ Len(or_stree_stack(pre, cur, q, oom)) = Len(q) - 1
<1>1. Len(q) \in Nat /\ q # <<>> BY SeqLen
<1>2. PICK p : p = Front(q) OBVIOUS
<1>3. IsSeq(p) /\ Len(p) = Len(q) - 1 /\ p # <<>> BY <1>1, <1>2, SeqFront, SeqLen
<1>4. pop_stree(q) = p /\ pop_stree(p) = Front(p) BY <1>1, <1>2, <1>3 DEF pop_stree
<1>5. IsSeq(and_stree_stack(q)) /\ Len(and_stree_stack(q)) = Len(p)
      BY <1>3, <1>4, KeepsTop DEF and_stree_stack
<1>6. IsSeq(Front(p)) /\ Len(Front(p)) = Len(p) - 1 BY <1>3, SeqFront
<1>7. \A u : IsSeq(Append(Front(p), u)) /\ Len(Append(Front(p), u)) = Len(p) - 1 + 1
      BY <1>6, SeqAppend
<1>8. IsSeq(or_stree_stack(pre, cur, q, oom))
      /\ Len(or_stree_stack(pre, cur, q, oom)) = Len(p) - 1 + 1
      BY <1>4, <1>7 DEF or_stree_stack, push_stree
<1>. QED BY <1>1, <1>3, <1>5, <1>8

\* The sides of both operands of && and || become the sides of the whole.
LEMMA HasBoth ==
    ASSUME NEW r, NEW k, NEW l \in Levels, Has(r, Sides(l), k),
           l["cond_true_stack"] > 0, l["cond_false_stack"] > 0
    PROVE  Has(__and_cond_states(r), l, k) /\ Has(__or_cond_states(r), l, k)
<1>1. ASSUME NEW both, NEW either, both # either,
             {both, either} = {"cond_true_stack", "cond_false_stack"}
      PROVE  Has(BothOperands(r, both, either), l, k)
  <2>1. both \in Depths /\ either \in Depths BY <1>1, InDepths
  <2>2. /\ IsSeq(r[both]) /\ Len(r[both]) = l[both] + 1 /\ l[both] > 0
        /\ IsSeq(r[either]) /\ Len(r[either]) = l[either] + 1 /\ l[either] > 0
    <3>1. Sides(l)[both] = l[both] + 1 /\ Sides(l)[either] = l[either] + 1
          BY <1>1, SidesDepths
    <3>. QED BY <1>1, <2>1, <3>1, HasLevel
  <2>3. l[both] \in Nat /\ l[either] \in Nat BY <2>1, LevelNat
  <2>4. PICK q : q = and_stree_stack(r[both]) OBVIOUS
  <2>5. PICK p : p = or_stree_stack(r.pre_cond_stack, r.cur_stree, r[either], r.oom) OBVIOUS
  <2>6. IsSeq(q) /\ Len(q) = l[both] /\ IsSeq(p) /\ Len(p) = l[either]
    <3>1. Len(r[both]) > 1 /\ Len(r[either]) > 1 BY <2>2, <2>3
    <3>2. IsSeq(q) /\ Len(q) = Len(r[both]) - 1 BY <2>2, <2>4, <3>1, TwoToOne, Zenon
    <3>3. IsSeq(p) /\ Len(p) = Len(r[either]) - 1 BY <2>2, <2>5, <3>1, TwoToOne, Zenon
    <3>. QED BY <2>2, <2>3, <3>2, <3>3
  <2>7. PICK t : t = [r EXCEPT ![both] = q] OBVIOUS
  <2>8. PICK m : m = Up(l, either) OBVIOUS
  <2>9. m \in Levels /\ m[both] = l[both]
        /\ \A g \in Depths : g # both => m[g] = Sides(l)[g]
    <3>1. Sides(l) = Up(m, both)
          BY <1>1, <2>8, SidesSwap DEF Sides
    <3>2. m \in Levels BY <2>1, <2>8, UpLevel
    <3>3. m[both] = l[both] BY <1>1, <2>1, <2>8, UpLevel
    <3>4. PICK w : w = Sides(l) OBVIOUS
    <3>5. both \in Depths /\ w = Up(m, both) BY <2>1, <3>1, <3>4
    <3>6. \A g \in Depths : g # both => w[g] = m[g] BY <3>2, <3>5, UpLevel
    <3>. QED BY <3>2, <3>3, <3>4, <3>6, Zenon
  <2>10. Has(t, m, k) BY <2>1, <2>6, <2>7, <2>9, HasReplaced
  <2>11. \A g \in Depths : g # either => l[g] = m[g] BY <2>1, <2>8, UpLevel
  <2>12. Has([t EXCEPT ![either] = p], l, k) BY <2>1, <2>6, <2>10, <2>11, HasReplaced
  <2>13. BothOperands(r, both, either) = [t EXCEPT ![either] = p]
         BY <1>1, <2>4, <2>5, <2>7 DEF BothOperands
  <2>. QED BY <2>12, <2>13
<1>. QED BY <1>1 DEF __and_cond_states, __or_cond_states
-----------------------------------------------------------------------------
(* Branches, loops and switches.                                           *)

\* What replaces the top of a stack keeps its depth.
LEMMA HasPopPush ==
    ASSUME NEW r, NEW k, NEW l \in Levels, NEW f \in Stacks, Has(r, l, k), l[f] > 0, NEW t
    PROVE  Has(Push(Pop(r, f), f, t), l, k)
<1>1. f \in Depths BY Names
<1>2. PICK m \in Levels : l = Up(m, f) BY <1>1, UpOf
<1>3. Has(Pop(r, f), m, k) BY <1>2, HasPushPop
<1>. QED BY <1>2, <1>3, HasPushPop

\* The states of the branch not taken yet are pushed, used and dropped.
LEMMA HasBranch ==
    ASSUME NEW r, NEW k, NEW l \in Levels
    PROVE  /\ Has(r, l, k) => Has(__push_true_states(r), Up(l, "true_stack"), k)
           /\ Has(r, Up(l, "false_stack"), k) =>
                 /\ Has(__use_false_states(r), l, k)
                 /\ Has(__discard_false_states(r), l, k)
                 /\ Has(__merge_false_states(r), l, k)
BY HasPushPop, HasCur, Names
   DEF __push_true_states, __use_false_states, __discard_false_states, __merge_false_states

\* The fake tree is replaced where branches meet.
LEMMA HasMergeTrue ==
    ASSUME NEW r, NEW k, NEW l \in Levels, Has(r, Up(l, "true_stack"), k)
    PROVE  Has(__merge_true_states(r), l, k)
<1>1. PICK t : t = Pop(MergeCur(r, Top(r, "true_stack")), "true_stack") OBVIOUS
<1>2. Has(t, l, k) BY <1>1, HasCur, HasPushPop, Names
<1>3. CASE t.fake_cur_stree_stack = <<>>
      BY <1>1, <1>2, <1>3 DEF __merge_true_states, update_fake_stree_with_merged
<1>4. CASE t.fake_cur_stree_stack # <<>>
  <2>1. l["fake_cur_stree_stack"] > 0 BY <1>2, <1>4, HasLevel, LevelNat, InDepths
  <2>. QED BY <1>1, <1>2, <1>4, <2>1, HasPopPush, Names
           DEF __merge_true_states, update_fake_stree_with_merged
<1>. QED BY <1>3, <1>4

\* Continues: a loop pushes and merges one entry, a continue keeps the depth.
LEMMA HasContinues ==
    ASSUME NEW r, NEW k, NEW l \in Levels
    PROVE  /\ Has(r, l, k) => Has(__push_continues(r), Up(l, "continue_stack"), k)
           /\ Has(r, l, k) /\ l["continue_stack"] > 0 => Has(__process_continues(r), l, k)
           /\ Has(r, Up(l, "continue_stack"), k) => Has(__merge_continues(r), l, k)
BY HasPushPop, HasPopPush, HasCur, Names
   DEF __push_continues, __process_continues, __merge_continues, Leave

\* Inside a condition the breaks have a fake tree of their own.
LEMMA HasPushBreaks ==
    ASSUME NEW r, NEW k, NEW l \in Levels, Has(r, l, k)
    PROVE  Has(__push_breaks(r), Breaks(l), k)
<1>1. PICK t : t = Push(r, "break_stack", NULL) OBVIOUS
<1>2. Up(l, "break_stack") \in Levels BY UpLevel, Names
<1>3. Has(t, Up(l, "break_stack"), k) BY <1>1, HasPushPop, Names
<1>4. Has(Push(t, "fake_break_stack", NULL), Up(Up(l, "break_stack"), "fake_break_stack"), k)
      BY <1>2, <1>3, HasPushPop, Names
<1>5. r.fake_cur_stree_stack = <<>> <=> ~(l["fake_cur_stree_stack"] > 0)
      BY HasLevel, LevelNat, InDepths
<1>. QED BY <1>1, <1>3, <1>4, <1>5 DEF __push_breaks, Breaks

\* What breaks left behind goes into the fake tree.
LEMMA HasPopFakeBreaks ==
    ASSUME NEW r, NEW k, NEW l \in Levels, Has(r, Up(l, "fake_break_stack"), k),
           l["fake_cur_stree_stack"] > 0, NEW t
    PROVE  Has(PopFakeBreaks(r, t), l, k)
<1>1. PICK u : u = Pop(r, "fake_break_stack") OBVIOUS
<1>2. Has(u, l, k) BY <1>1, HasPushPop, Names
<1>3. PICK q : q = overwrite_top(u.fake_cur_stree_stack, t) OBVIOUS
<1>4. u.fake_cur_stree_stack # <<>> BY <1>2, HasLevel, LevelNat, InDepths
<1>5. IsSeq(q) /\ Len(q) = l["fake_cur_stree_stack"]
      BY <1>2, <1>3, <1>4, KeepsTop, HasLevel, InDepths
<1>6. Has([u EXCEPT !.fake_cur_stree_stack = q], l, k)
      BY <1>2, <1>5, HasReplaced, InDepths
<1>. QED BY <1>1, <1>3, <1>6 DEF PopFakeBreaks

\* The end of a loop or switch pops what its start pushed, when both see a
\* fake tree or both do not.
LEMMA HasPopBreaks ==
    ASSUME NEW r, NEW k, NEW l \in Levels, Has(r, Breaks(l), k)
    PROVE  Has(__merge_breaks(r), l, k) /\ Has(__use_breaks(r), l, k)
<1>1. r.fake_cur_stree_stack = <<>> <=> ~(l["fake_cur_stree_stack"] > 0)
  <2>1. Breaks(l)["fake_cur_stree_stack"] = l["fake_cur_stree_stack"] BY BreaksDepths
  <2>. QED BY <2>1, HasLevel, LevelNat, InDepths
<1>2. CASE r.fake_cur_stree_stack = <<>>
  <2>1. Has(r, Up(l, "break_stack"), k) BY <1>1, <1>2 DEF Breaks
  <2>. QED BY <1>2, <2>1, HasPushPop, HasCur, Names DEF __merge_breaks, __use_breaks
<1>3. CASE r.fake_cur_stree_stack # <<>>
  <2>1. l["fake_cur_stree_stack"] > 0 BY <1>1, <1>3
  <2>2. Up(l, "fake_break_stack") \in Levels BY UpLevel, Names
  <2>3. Has(r, Up(Up(l, "fake_break_stack"), "break_stack"), k)
        BY <2>1, UpUp, InDepths DEF Breaks
  <2>4. \A t : /\ Has(Pop(MergeCur(r, t), "break_stack"), Up(l, "fake_break_stack"), k)
               /\ Has(Pop(Cur(r, t), "break_stack"), Up(l, "fake_break_stack"), k)
        BY <2>2, <2>3, HasPushPop, HasCur, Names
  <2>5. \A t, u : /\ Has(PopFakeBreaks(Pop(MergeCur(r, t), "break_stack"), u), l, k)
                  /\ Has(PopFakeBreaks(Pop(Cur(r, t), "break_stack"), u), l, k)
        BY <2>1, <2>4, HasPopFakeBreaks
  <2>. QED BY <1>3, <2>5 DEF __merge_breaks, __use_breaks
<1>. QED BY <1>2, <1>3

\* A break outside a condition keeps the depth of the breaks of its loop.
LEMMA HasBreak ==
    ASSUME NEW r, NEW k, NEW l \in Levels, Has(r, l, k), l["break_stack"] > 0,
           l["fake_cur_stree_stack"] = 0
    PROVE  Has(__process_breaks(r), l, k)
<1>1. r.fake_cur_stree_stack = <<>> BY HasLevel, InDepths
<1>2. \A t : Has(Leave(r, "break_stack", t), l, k) BY HasPopPush, Names DEF Leave
<1>. QED BY <1>1, <1>2 DEF __process_breaks

\* A switch pushes its states and values and its default, and pops them.
LEMMA HasSwitch ==
    ASSUME NEW r, NEW k, NEW l \in Levels, NEW rl
    PROVE  /\ Has(r, l, k) => Has(__save_switch_states(r, rl), Switch(l), k)
           /\ Has(r, Switch(l), k) => Has(__discard_switches(r), l, k)
           /\ Has(r, l, k) => Has(__push_default(r), Up(l, "default_stack"), k)
           /\ Has(r, Up(l, "default_stack"), k) => Has(__pop_default(r), l, k)
<1>1. Up(l, "switch_stack") \in Levels /\ Up(l, "remaining_cases") \in Levels
      BY UpLevel, InDepths
<1>2. ASSUME Has(r, l, k) PROVE Has(__save_switch_states(r, rl), Switch(l), k)
  <2>1. PICK t : t = Push(r, "switch_stack", r.cur_stree) OBVIOUS
  <2>2. Has(t, Up(l, "switch_stack"), k) BY <1>2, <2>1, HasPushPop, Names
  <2>. QED BY <1>1, <2>1, <2>2, HasPush, InDepths DEF __save_switch_states, Switch
<1>3. ASSUME Has(r, Switch(l), k) PROVE Has(__discard_switches(r), l, k)
  <2>1. PICK t : t = Pop(r, "switch_stack") OBVIOUS
  <2>2. Switch(l) = Up(Up(l, "remaining_cases"), "switch_stack") BY UpUp, InDepths DEF Switch
  <2>3. Has(t, Up(l, "remaining_cases"), k) BY <1>1, <1>3, <2>1, <2>2, HasPushPop, Names
  <2>4. /\ t.remaining_cases # <<>>
        /\ Has([t EXCEPT !.remaining_cases = Front(@)], l, k)
        BY <2>3, HasPop, InDepths
  <2>. QED BY <2>1, <2>4 DEF __discard_switches
<1>4. Has(r, l, k) => Has(__push_default(r), Up(l, "default_stack"), k)
      BY HasPush, InDepths DEF __push_default
<1>5. Has(r, Up(l, "default_stack"), k) => Has(__pop_default(r), l, k)
      BY HasPop, InDepths DEF __pop_default
<1>. QED BY <1>2, <1>3, <1>4, <1>5

\* A change of the last entry of a stack that is not empty.
LEMMA HasLast ==
    ASSUME NEW r, NEW k, NEW l, Has(r, l, k), NEW f \in Depths, l[f] > 0, NEW v
    PROVE  Has([r EXCEPT ![f] = [@ EXCEPT ![Len(r[f])] = v]], l, k)
<1>1. l \in Levels /\ IsSeq(r[f]) /\ Len(r[f]) = l[f] /\ l[f] \in Nat
      BY HasLevel, LevelNat
<1>2. PICK q : q = [r[f] EXCEPT ![Len(r[f])] = v] OBVIOUS
<1>3. Len(r[f]) \in 1..Len(r[f]) BY <1>1
<1>4. IsSeq(q) /\ Len(q) = l[f] BY <1>1, <1>2, <1>3, SeqExcept
<1>5. Has([r EXCEPT ![f] = q], l, k) BY <1>1, <1>4, HasReplaced
<1>. QED BY <1>2, <1>5

\* A case takes values off the remaining ones, a default is noted.
LEMMA HasCase ==
    ASSUME NEW r, NEW k, NEW l, Has(r, l, k), NEW rl
    PROVE  /\ l["remaining_cases"] > 0 => Has(__merge_switches(r, rl), l, k)
           /\ l["default_stack"] > 0 => Has(__set_default(r), l, k)
<1>1. ASSUME l["remaining_cases"] > 0 PROVE Has(__merge_switches(r, rl), l, k)
  <2>1. PICK tree : tree = Top(r, "switch_stack") OBVIOUS
  <2>2. PICK t : t = MergeCur(r, tree) OBVIOUS
  <2>3. Has(t, l, k) BY <2>2, HasCur
  <2>4. t.remaining_cases = r.remaining_cases
        BY <2>2 DEF MergeCur, Cur, Has, Fields
  <2>5. PICK v : v = t.remaining_cases[Len(r.remaining_cases)] \ rl OBVIOUS
  <2>6. Has([t EXCEPT !.remaining_cases = [@ EXCEPT ![Len(t.remaining_cases)] = v]], l, k)
        BY <1>1, <2>3, HasLast, InDepths
  <2>7. __merge_switches(r, rl) \in
          {r, [t EXCEPT !.remaining_cases = [@ EXCEPT ![Len(t.remaining_cases)] = v]]}
        BY <2>1, <2>2, <2>4, <2>5 DEF __merge_switches
  <2>. QED BY <2>6, <2>7
<1>2. l["default_stack"] > 0 => Has(__set_default(r), l, k) BY HasLast, InDepths DEF __set_default
<1>. QED BY <1>1, <1>2

\* Gotos and the states after a loop without a condition change no depth.
LEMMA HasGotos ==
    ASSUME NEW r, NEW k, NEW l, Has(r, l, k), NEW label, NEW t
    PROVE  /\ Has(__save_gotos(r, label), l, k)
           /\ Has(__merge_gotos(r, label), l, k)
           /\ Has(__merge_stree_into_cur(r, t), l, k)
<1>1. Has(__save_gotos(r, label), l, k)
  <2>1. PICK v : __save_gotos(r, label) = [r EXCEPT !.goto_stack = v]
        BY DEF __save_gotos
  <2>2. Has([r EXCEPT !.goto_stack = v], l, k) BY HasCur
  <2>. QED BY <2>1, <2>2
<1>2. Has(__merge_gotos(r, label), l, k) BY HasCur DEF __merge_gotos
<1>3. Has(__merge_stree_into_cur(r, t), l, k) BY HasSet DEF __merge_stree_into_cur
<1>. QED BY <1>1, <1>2, <1>3
-----------------------------------------------------------------------------
(* Inlined functions and the end of a function.                            *)

Saved(r) == [i \in 1..14 |-> r[SaveOrder[i]]]
SavedFields == Depths \cup {"cur_stree", "goto_stack"}

\* Every entry of save_all_states() is a field, every field that changes
\* during a function but the error flags is one of them.
LEMMA SaveOrderFields ==
    /\ DOMAIN SaveOrder = 1..14
    /\ \A i \in 1..14 : SaveOrder[i] \in SavedFields
    /\ \A f \in SavedFields : \E i \in 1..14 : SaveOrder[i] = f
    /\ Range(SaveOrder) = SavedFields
<1>1. DOMAIN SaveOrder = 1..14 BY DEF SaveOrder
<1>2. /\ SaveOrder[1] = "cur_stree" /\ SaveOrder[2] = "true_stack"
      /\ SaveOrder[3] = "false_stack" /\ SaveOrder[4] = "pre_cond_stack"
      /\ SaveOrder[5] = "cond_true_stack" /\ SaveOrder[6] = "cond_false_stack"
      /\ SaveOrder[7] = "fake_cur_stree_stack" /\ SaveOrder[8] = "break_stack"
      /\ SaveOrder[9] = "fake_break_stack" /\ SaveOrder[10] = "switch_stack"
      /\ SaveOrder[11] = "remaining_cases" /\ SaveOrder[12] = "default_stack"
      /\ SaveOrder[13] = "continue_stack" /\ SaveOrder[14] = "goto_stack"
      BY DEF SaveOrder
<1>3. \A i \in 1..14 : i = 1 \/ i = 2 \/ i = 3 \/ i = 4 \/ i = 5 \/ i = 6 \/ i = 7
                       \/ i = 8 \/ i = 9 \/ i = 10 \/ i = 11 \/ i = 12 \/ i = 13 \/ i = 14
      OBVIOUS
<1>4. \A i \in 1..14 : SaveOrder[i] \in SavedFields
      BY <1>2, <1>3 DEF SavedFields, Depths, Stacks
<1>5. ASSUME NEW f \in SavedFields PROVE \E i \in 1..14 : SaveOrder[i] = f
      BY <1>2 DEF SavedFields, Depths, Stacks
<1>6. Range(SaveOrder) = SavedFields BY <1>1, <1>4, <1>5 DEF Range
<1>. QED BY <1>1, <1>4, <1>5, <1>6

\* restore_all_states() pops in the reverse order of save_all_states().
LEMMA OrdersMatch ==
    /\ \A i \in 1..14 : RestoreOrder[i] = SaveOrder[15 - i]
    /\ Range(RestoreOrder) = SavedFields
    /\ DOMAIN RestoreOrder = 1..14
<1>1. DOMAIN RestoreOrder = 1..14 BY DEF RestoreOrder
<1>2. /\ RestoreOrder[1] = SaveOrder[14] /\ RestoreOrder[2] = SaveOrder[13]
      /\ RestoreOrder[3] = SaveOrder[12] /\ RestoreOrder[4] = SaveOrder[11]
      /\ RestoreOrder[5] = SaveOrder[10] /\ RestoreOrder[6] = SaveOrder[9]
      /\ RestoreOrder[7] = SaveOrder[8] /\ RestoreOrder[8] = SaveOrder[7]
      /\ RestoreOrder[9] = SaveOrder[6] /\ RestoreOrder[10] = SaveOrder[5]
      /\ RestoreOrder[11] = SaveOrder[4] /\ RestoreOrder[12] = SaveOrder[3]
      /\ RestoreOrder[13] = SaveOrder[2] /\ RestoreOrder[14] = SaveOrder[1]
      BY DEF SaveOrder, RestoreOrder
<1>3. \A i \in 1..14 : i = 1 \/ i = 2 \/ i = 3 \/ i = 4 \/ i = 5 \/ i = 6 \/ i = 7
                       \/ i = 8 \/ i = 9 \/ i = 10 \/ i = 11 \/ i = 12 \/ i = 13 \/ i = 14
      OBVIOUS
<1>4. \A i \in 1..14 : RestoreOrder[i] = SaveOrder[15 - i] BY <1>2, <1>3
<1>5. \A i \in 1..14 : 15 - i \in 1..14 /\ 15 - (15 - i) = i OBVIOUS
<1>6. Range(RestoreOrder) = SavedFields
  <2>1. \A i \in 1..14 : RestoreOrder[i] \in SavedFields BY <1>4, <1>5, SaveOrderFields
  <2>2. ASSUME NEW f \in SavedFields PROVE \E i \in 1..14 : RestoreOrder[i] = f
    <3>1. PICK j \in 1..14 : SaveOrder[j] = f BY SaveOrderFields
    <3>2. RestoreOrder[15 - j] = f BY <1>4, <1>5, <3>1
    <3>. QED BY <1>5, <3>2
  <2>. QED BY <1>1, <2>1, <2>2 DEF Range
<1>. QED BY <1>1, <1>4, <1>6

\* An inlined function starts with empty stacks; what the caller had is on
\* the backup.
LEMMA HasSave ==
    ASSUME NEW r, NEW k, NEW l, Has(r, l, k)
    PROVE  Has(save_all_states(r), Zero, k \o Saved(r))
<1>1. PICK u : u = save_all_states(r) OBVIOUS
<1>2. DOMAIN u = Fields BY <1>1 DEF save_all_states
<1>3. u.backup = k \o Saved(r)
  <2>1. "backup" \in Fields /\ "backup" \notin Range(SaveOrder)
        BY SaveOrderFields DEF SavedFields, Depths, Stacks, Fields
  <2>2. u.backup = r.backup \o [i \in 1..14 |-> r[SaveOrder[i]]]
        BY <1>1, <2>1 DEF save_all_states
  <2>. QED BY <2>2 DEF Has, Saved
<1>4. u.perror = FALSE
      BY <1>1, SaveOrderFields DEF save_all_states, Has, SavedFields, Fields, Depths, Stacks
<1>5. ASSUME NEW g \in Depths PROVE u[g] = <<>>
  <2>1. g \in Fields /\ g # "backup" /\ g \in SavedFields BY Names DEF SavedFields
  <2>2. u[g] = InitialStates[g] BY <1>1, <2>1, SaveOrderFields DEF save_all_states
  <2>3. InitialStates[g] = <<>> BY <2>1, Names DEF InitialStates
  <2>. QED BY <2>2, <2>3
<1>6. Zero \in Levels /\ \A g \in Depths : Zero[g] = 0 BY DEF Zero, Levels
<1>. QED BY <1>1, <1>2, <1>3, <1>4, <1>5, <1>6, SeqEmpty DEF Has

\* save_all_states() saves fourteen things.
LEMMA SavedSeq ==
    ASSUME NEW r
    PROVE  IsSeq(Saved(r)) /\ Len(Saved(r)) = 14
<1>1. PICK T : T = {r[SaveOrder[i]] : i \in 1..14} OBVIOUS
<1>2. Saved(r) \in [1..14 -> T] BY <1>1 DEF Saved
<1>3. Saved(r) \in Seq(T)
  <2>1. 14 \in Nat OBVIOUS
  <2>. QED BY <1>2, <2>1, SeqDef
<1>4. Len(Saved(r)) = 14 BY <1>2, <1>3, LenProperties
<1>. QED BY <1>3, <1>4 DEF IsSeq

\* restore_all_states() gives back every field of the caller.
LEMMA Restores ==
    ASSUME NEW r, NEW u, IsSeq(r.backup), u.backup = r.backup \o Saved(r)
    PROVE  \A f \in SavedFields \cup {"backup"} : restore_all_states(u)[f] = r[f]
<1>1. IsSeq(Saved(r)) /\ Len(Saved(r)) = 14 BY SavedSeq
<1>2. PICK n \in Nat : n = Len(r.backup) BY SeqLen
<1>3. /\ Len(u.backup) = n + 14
      /\ \A j \in 1..14 : u.backup[n + j] = Saved(r)[j]
  <2>1. PICK p, q : p = r.backup /\ q = Saved(r) OBVIOUS
  <2>2. IsSeq(p) /\ IsSeq(q) /\ Len(p) = n /\ Len(q) = 14 /\ u.backup = p \o q
        BY <1>1, <1>2, <2>1
  <2>3. PICK w : w = p \o q OBVIOUS
  <2>4. Len(w) = Len(p) + Len(q) /\ \A j \in 1..Len(q) : w[Len(p) + j] = q[j]
    <3>1. IsSeq(p) /\ IsSeq(q) BY <2>2
    <3>2. /\ IsSeq(p \o q) /\ Len(p \o q) = Len(p) + Len(q)
          /\ \A i \in 1..Len(p) : (p \o q)[i] = p[i]
          /\ \A i \in 1..Len(q) : (p \o q)[Len(p) + i] = q[i]
          BY <3>1, SeqConcat
    <3>. QED BY <2>3, <3>2, Zenon
  <2>5. Len(w) = n + 14 /\ \A j \in 1..14 : w[n + j] = q[j] BY <2>2, <2>4, Zenon
  <2>. QED BY <2>1, <2>2, <2>3, <2>5, Zenon
<1>4. ASSUME NEW i \in 1..14 PROVE u.backup[n + 15 - i] = r[RestoreOrder[i]]
  <2>1. 15 - i \in 1..14 /\ n + 15 - i = n + (15 - i) BY <1>2
  <2>2. u.backup[n + (15 - i)] = Saved(r)[15 - i] BY <1>3, <2>1
  <2>3. Saved(r)[15 - i] = r[SaveOrder[15 - i]] BY <2>1 DEF Saved
  <2>. QED BY <2>1, <2>2, <2>3, OrdersMatch
<1>5. ASSUME NEW f \in SavedFields PROVE restore_all_states(u)[f] = r[f]
  <2>1. f \in Fields /\ f # "backup" BY DEF SavedFields, Depths, Fields, Stacks
  <2>2. PICK i : i = CHOOSE j \in 1..14 : RestoreOrder[j] = f OBVIOUS
  <2>3. \E j \in 1..14 : RestoreOrder[j] = f BY OrdersMatch DEF Range
  <2>4. i \in 1..14 /\ RestoreOrder[i] = f BY <2>2, <2>3
  <2>5. restore_all_states(u)[f] = u.backup[Len(u.backup) + 1 - i]
        BY <2>1, <2>2, OrdersMatch DEF restore_all_states
  <2>6. n + 14 + 1 - i = n + 15 - i BY <1>2, <2>4
  <2>. QED BY <1>3, <1>4, <2>4, <2>5, <2>6
<1>6. restore_all_states(u)["backup"] = r.backup
  <2>0. "backup" \in Fields /\ "backup" \notin Range(RestoreOrder)
        BY OrdersMatch DEF SavedFields, Depths, Stacks, Fields
  <2>1. restore_all_states(u)["backup"] = SubSeq(u.backup, 1, n)
        BY <1>2, <1>3, <2>0 DEF restore_all_states
  <2>2. SubSeq(r.backup \o Saved(r), 1, n) = r.backup
    <3>1. PICK S : r.backup \in Seq(S) BY DEF IsSeq
    <3>2. PICK T : Saved(r) \in Seq(T) BY <1>1 DEF IsSeq
    <3>3. r.backup \in Seq(S \cup T) /\ Saved(r) \in Seq(S \cup T) BY <3>1, <3>2
    <3>. QED BY <1>2, <3>3, ConcatProperties, SubSeqProperties
  <2>. QED BY <2>1, <2>2
<1>. QED BY <1>5, <1>6

\* The stacks that the caller had are restored; no error is printed.
LEMMA HasRestore ==
    ASSUME NEW r, NEW u, NEW k, NEW l, NEW m, Has(r, l, k), IsSeq(k),
           Has(u, m, k \o Saved(r))
    PROVE  Has(restore_all_states(u), l, k)
<1>1. PICK t : t = restore_all_states(u) OBVIOUS
<1>2. r.backup = k /\ u.backup = k \o Saved(r) BY DEF Has
<1>3. \A f \in SavedFields \cup {"backup"} : t[f] = r[f] BY <1>1, <1>2, Restores
<1>4. DOMAIN t = Fields BY <1>1 DEF restore_all_states
<1>5. t.perror = FALSE
  <2>1. /\ "perror" \in Fields /\ "perror" # "backup"
        /\ "perror" \notin Range(RestoreOrder)
        BY OrdersMatch DEF SavedFields, Depths, Stacks, Fields
  <2>2. t.perror = u.perror BY <1>1, <2>1 DEF restore_all_states
  <2>. QED BY <2>2 DEF Has
<1>6. t.backup = k BY <1>2, <1>3
<1>7. \A g \in Depths : t[g] = r[g] BY <1>3 DEF SavedFields
<1>. QED BY <1>1, <1>4, <1>5, <1>6, <1>7, HasField

\* clear_all_states() finds every stack empty, and leaves the initial states.
LEMMA HasClear ==
    ASSUME NEW r, Has(r, Zero, <<>>)
    PROVE  clear_all_states(r) = InitialStates
<1>1. Zero \in Levels /\ \A g \in Depths : Zero[g] = 0 BY DEF Zero, Levels
<1>2. PICK t : t = nullify_path(r) OBVIOUS
<1>3. Has(t, Zero, <<>>) /\ t.cur_stree = NULL BY <1>1, <1>2, HasNullify, InDepths
<1>4. \A g \in Depths : t[g] = <<>> BY <1>1, <1>3, HasLevel
<1>5. Unbalanced(t) = {} BY <1>4, Names DEF Unbalanced
<1>6. r.perror = FALSE /\ t.backup = <<>> BY <1>3 DEF Has
<1>7. ASSUME NEW f \in Fields PROVE clear_all_states(r)[f] = InitialStates[f]
  <2>1. CASE f \in Stacks
    <3>1. f \notin {"cur_stree", "goto_stack", "perror", "oom"} BY <2>1 DEF Stacks
    <3>. QED BY <2>1, <3>1 DEF clear_all_states, InitialStates
  <2>2. CASE f \in {"remaining_cases", "default_stack"}
    <3>1. f \notin Stacks /\ t[f] = <<>> BY <1>4, <2>2 DEF Stacks, Depths
    <3>. QED BY <1>2, <2>2, <3>1 DEF clear_all_states, InitialStates
  <2>3. CASE f = "cur_stree" \/ f = "backup"
    <3>1. f \notin Stacks BY <2>3 DEF Stacks
    <3>. QED BY <1>2, <1>3, <1>6, <2>3, <3>1 DEF clear_all_states, InitialStates
  <2>4. CASE f = "perror" \/ f = "oom" \/ f = "goto_stack"
    <3>1. f \notin Stacks BY <2>4 DEF Stacks
    <3>. QED BY <1>2, <1>5, <1>6, <2>4, <3>1 DEF clear_all_states, InitialStates
  <2>. QED BY <2>1, <2>2, <2>3, <2>4 DEF Fields
<1>. QED BY <1>7 DEF clear_all_states, InitialStates
=============================================================================
