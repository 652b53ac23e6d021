-------------------------- MODULE Conditions_proofs -------------------------
(***************************************************************************)
(* The steps of smatch_conditions.c keep the calls and the states together *)
(* (Fits).                                                                 *)
(***************************************************************************)
EXTENDS Conditions, Calls_proofs

\* split_conditions() is called inside a condition, with a fake tree.
LEMMA CallCond ==
    ASSUME NEW b, b.l \in Levels, b.l["cond_true_stack"] > 0, b.l["cond_false_stack"] > 0, NEW c
    PROVE  Callable(Cond(c), Fake(b.l), b) /\ Cond(c).f = "cond"
BY DEF Callable, Cond, CallNames, Parts, Walks, Plain, Expects

\* The innermost call returns to the place b inside a condition.
Within(b) ==
    /\ On(Tail(todo), b) /\ IsSeq(Tail(todo)) /\ b.l \in Levels /\ b.c # {}
    /\ b.l["cond_true_stack"] > 0 /\ b.l["cond_false_stack"] > 0

\* So do the calls that split a part of a condition.
LEMMA PartHere ==
    ASSUME Fits(todo, s), NEW f \in Parts, At(f)
    PROVE  \E b : Within(b) /\ \E l : Expects(f, l, b.l) /\ Has(s, l, b.k)
<1>1. PICK a, b : Has(s, a.l, a.k) /\ Here(todo, a, b) BY FitsHere DEF At
<1>2. Head(todo).f = f /\ f \notin {"inline", "end_function"} BY DEF At, Parts
<1>. QED BY <1>1, <1>2, Inside DEF Within

\* split_conditions() itself has a fake tree.
LEMMA CondHere ==
    ASSUME Fits(todo, s), At("cond")
    PROVE  \E b : Within(b) /\ Has(s, Fake(b.l), b.k)
BY PartHere, LevelOf DEF Parts

\* A part of a condition is split before the call u goes on.
LEMMA PutCond ==
    ASSUME NEW b, Within(b), NEW u, NEW m \in Levels, Callable(u, m, b),
           m["cond_true_stack"] > 0, m["cond_false_stack"] > 0,
           NEW c, NEW r, Has(r, Fake(m), b.k)
    PROVE  Fits(<<Cond(c), u>> \o Tail(todo), r)
<1>1. PICK d : d = Place(u, m, b) OBVIOUS
<1>2. d.l = m BY <1>1 DEF Place
<1>3. Callable(Cond(c), Fake(m), d) BY <1>2, CallCond
<1>. QED BY <1>1, <1>3, Put2 DEF Within
-----------------------------------------------------------------------------
(* Leaves, negations and statement expressions.                            *)

\* do_condition() leaves the fake tree it was called with.
LEMMA HasDoCondition ==
    ASSUME NEW r, NEW l \in Levels, NEW k, Has(r, Fake(l), k), NEW e,
           l["cond_true_stack"] > 0, l["cond_false_stack"] > 0
    PROVE  Has(do_condition(r, e), l, k)
<1>1. PICK u : u = __push_fake_cur_stree(__fold_in_set_states(r)) OBVIOUS
<1>2. Has(u, Fake(l), k) BY <1>1, HasFold, HasPushFake
<1>3. Fake(l)["cond_true_stack"] > 0 /\ Fake(l)["cond_false_stack"] > 0
      BY FakeDepths, InDepths
<1>4. Has(pass_to_client(u, e), Fake(l), k) BY <1>2, <1>3, HasTrueFalse DEF pass_to_client
<1>. QED BY <1>1, <1>4, HasFold DEF do_condition

\* A leaf: the expression is parsed, the clients see it, and the postfix
\* operators happen in a fake tree of their own.
LEMMA FitsLeaf ==
    ASSUME Fits(todo, s), split_leaf
    PROVE  Fits(todo', s')
<1>1. PICK b : Within(b) /\ Has(s, Fake(b.l), b.k) BY CondHere DEF split_leaf, AtCond
<1>2. PICK l \in Levels : l = b.l BY <1>1 DEF Within
<1>3. l["cond_true_stack"] > 0 /\ l["cond_false_stack"] > 0 BY <1>1, <1>2 DEF Within
<1>4. PICK e, set : s' = __fold_in_set_states(
            IF set = "post"
            THEN set_state(__push_fake_cur_stree(do_condition(
                     IF set = "pre" THEN set_state(s, x, fresh) ELSE s, e)), x, fresh + 3)
            ELSE __push_fake_cur_stree(do_condition(
                     IF set = "pre" THEN set_state(s, x, fresh) ELSE s, e)))
      BY DEF split_leaf
<1>5. PICK u : u = IF set = "pre" THEN set_state(s, x, fresh) ELSE s OBVIOUS
<1>6. Has(u, Fake(l), b.k) BY <1>1, <1>2, <1>5, HasSet
<1>7. PICK v : v = __push_fake_cur_stree(do_condition(u, e)) OBVIOUS
<1>8. Has(v, Fake(l), b.k) BY <1>3, <1>6, <1>7, HasDoCondition, HasPushFake
<1>9. s' = __fold_in_set_states(IF set = "post" THEN set_state(v, x, fresh + 3) ELSE v)
      BY <1>4, <1>5, <1>7
<1>10. Has(s', l, b.k)
  <2>1. CASE set = "post" BY <1>3, <1>8, <1>9, <2>1, HasSet, HasFold
  <2>2. CASE set # "post" BY <1>3, <1>8, <1>9, <2>2, HasFold
  <2>. QED BY <2>1, <2>2
<1>. QED BY <1>1, <1>2, <1>10, Put0 DEF Within, split_leaf, Return

\* The condition of for (;;).
LEMMA FitsNothing ==
    ASSUME Fits(todo, s), split_nothing
    PROVE  Fits(todo', s')
<1>1. PICK b : Within(b) /\ Has(s, Fake(b.l), b.k) BY CondHere DEF split_nothing, AtCond
<1>2. Has(__fold_in_set_states(s), b.l, b.k) BY <1>1, HasFold DEF Within
<1>. QED BY <1>1, <1>2, Put0 DEF Within, split_nothing, Return

\* The operand of ! is split, then the sides are exchanged.
LEMMA FitsPreop ==
    ASSUME Fits(todo, s), handle_preop
    PROVE  Fits(todo', s')
<1>1. PICK b : Within(b) /\ Has(s, Fake(b.l), b.k) BY CondHere DEF handle_preop, AtCond
<1>2. PICK u : u = Frame("negate") OBVIOUS
<1>3. Callable(u, b.l, b)
      BY <1>1, <1>2 DEF Within, Callable, Frame, CallNames, Parts, Walks, Plain, Expects
<1>. QED BY <1>1, <1>2, <1>3, PutCond DEF Within, handle_preop, Return

\* negate exchanges the two sides.
LEMMA FitsNegate ==
    ASSUME Fits(todo, s), negate
    PROVE  Fits(todo', s')
<1>1. PICK b : Within(b) /\ Has(s, b.l, b.k)
      BY PartHere, LevelOf DEF negate, Parts
<1>2. Has(__negate_cond_stacks(s), b.l, b.k) BY <1>1, HasNegate DEF Within
<1>. QED BY <1>1, <1>2, Put0 DEF Within, negate, Return

\* ({ stmt; a; }): the statement has the fake tree, and the condition too.
LEMMA FitsExprStatement ==
    ASSUME Fits(todo, s), handle_expr_statement_conditions
    PROVE  Fits(todo', s')
<1>1. PICK b : Within(b) /\ Has(s, Fake(b.l), b.k)
      BY CondHere DEF handle_expr_statement_conditions, AtCond
<1>2. PICK w : w = Cond(TheCond.a) OBVIOUS
<1>3. Callable(w, Fake(b.l), b) BY <1>1, <1>2, CallCond DEF Within
<1>4. PICK d : d = Place(w, Fake(b.l), b) OBVIOUS
<1>5. d.l = Fake(b.l) BY <1>4 DEF Place
<1>6. PICK v : v = Frame("expr_stmt") OBVIOUS
<1>7. Callable(v, Fake(b.l), d)
      BY <1>5, <1>6 DEF Callable, Frame, CallNames, Parts, Walks, Plain, Expects
<1>8. PICK e : e = Place(v, Fake(b.l), d) OBVIOUS
<1>9. e.l = Fake(b.l) /\ "expr_stmt" \in e.c BY <1>6, <1>8 DEF Place, Frame
<1>10. PICK u : u = Frame("stmt") OBVIOUS
<1>11. Callable(u, Fake(b.l), e)
       BY <1>9, <1>10 DEF Callable, Frame, CallNames, Parts, Walks, Plain, Expects
<1>12. Fits(<<u, v, w>> \o Tail(todo), s)
       BY <1>1, <1>3, <1>4, <1>7, <1>8, <1>11, Put3 DEF Within
<1>. QED BY <1>2, <1>6, <1>10, <1>12 DEF handle_expr_statement_conditions, Return

\* The statements of a statement expression are done.
LEMMA FitsExprStmtDone ==
    ASSUME Fits(todo, s), expr_stmt_done
    PROVE  Fits(todo', s')
<1>1. PICK a, b : Has(s, a.l, a.k) /\ Here(todo, a, b) BY FitsHere DEF expr_stmt_done, At
<1>2. On(Tail(todo), b) /\ IsSeq(Tail(todo)) /\ b.c # {} /\ Has(s, b.l, b.k)
  <2>1. Head(todo).f = "expr_stmt" BY DEF expr_stmt_done, At
  <2>2. Expects("expr_stmt", a.l, b.l) /\ a.k = b.k BY <1>1, <2>1, Inside
  <2>3. a.l = b.l BY <2>2, LevelOf, Zenon
  <2>. QED BY <1>1, <2>1, <2>2, <2>3, Inside
<1>. QED BY <1>2, Put0 DEF expr_stmt_done, Return
-----------------------------------------------------------------------------
(* a && b, a || b and a ? b : c.                                           *)

\* The left operand is split with the fake tree of the condition.
LEMMA FitsLogical ==
    ASSUME Fits(todo, s), handle_logical
    PROVE  Fits(todo', s')
<1>1. PICK b : Within(b) /\ Has(s, Fake(b.l), b.k) BY CondHere DEF handle_logical, AtCond
<1>2. PICK u : u = [f |-> "logical_left", c |-> TheCond] OBVIOUS
<1>3. Callable(u, b.l, b)
      BY <1>1, <1>2 DEF Within, Callable, CallNames, Parts, Walks, Plain, Expects
<1>. QED BY <1>1, <1>2, <1>3, PutCond DEF Within, handle_logical, Return

\* The right one with sides and a fake tree of its own, above another entry
\* of pre_cond_stack.
LEMMA FitsLogicalLeft ==
    ASSUME Fits(todo, s), logical_left
    PROVE  Fits(todo', s')
<1>0. PICK b, a : Within(b) /\ Expects("logical_left", a, b.l) /\ Has(s, a, b.k)
      BY PartHere DEF logical_left, Parts
<1>1. Within(b) /\ Has(s, b.l, b.k) BY <1>0, LevelOf, Zenon
<1>2. PICK r : /\ r = __use_cond_true_states(s) \/ r = __use_cond_false_states(s)
               /\ s' = __save_pre_cond_states(__push_cond_stacks(r))
      BY DEF logical_left
<1>3. PICK l, d \in Levels : l = b.l /\ d = Sides(l) BY <1>1, Kinds DEF Within
<1>4. PICK m \in Levels : m = Up(d, "pre_cond_stack") BY UpLevel, InDepths
<1>5. Has(s', Fake(m), b.k)
  <2>1. Has(r, l, b.k) BY <1>1, <1>2, <1>3, HasUseSide
  <2>2. Has(__push_cond_stacks(r), Fake(d), b.k) BY <1>1, <1>3, <2>1, HasPushCond DEF Within
  <2>3. Has(s', Up(Fake(d), "pre_cond_stack"), b.k) BY <1>2, <2>2, Kinds, HasPre
  <2>. QED BY <1>4, <2>3, UpFake, InDepths
<1>6. m["cond_true_stack"] > 0 /\ m["cond_false_stack"] > 0
  <2>1. d["cond_true_stack"] > 0 /\ d["cond_false_stack"] > 0
        BY <1>1, <1>3, SidesDepths, LevelNat, InDepths DEF Within
  <2>. QED BY <1>4, <2>1, InDepths DEF Up, Levels
<1>7. PICK u, c : /\ u.f = "logical_right" /\ "f" \in DOMAIN u
                  /\ todo' = <<Cond(c), u>> \o Tail(todo)
  <2>. DEFINE u == [f |-> "logical_right", c |-> TheCond, left |-> tf,
                    decided |-> IF TheCond.t = "and" THEN ref.F ELSE ref.T,
                    before |-> reach]
  <2>1. todo' = <<Cond(TheCond.b), u>> \o Tail(todo) BY DEF logical_left, Return
  <2>2. u.f = "logical_right" /\ "f" \in DOMAIN u OBVIOUS
  <2>. HIDE DEF u
  <2>. QED BY <2>1, <2>2
<1>8. Callable(u, m, b)
      BY <1>1, <1>3, <1>4, <1>7 DEF Within, Callable, CallNames, Parts, Walks, Plain, Expects
<1>. QED BY <1>1, <1>5, <1>6, <1>7, <1>8, PutCond

\* The sides of the operands are put together.
LEMMA FitsLogicalRight ==
    ASSUME Fits(todo, s), logical_right
    PROVE  Fits(todo', s')
<1>0. PICK b, a : Within(b) /\ Expects("logical_right", a, b.l) /\ Has(s, a, b.k)
      BY PartHere DEF logical_right, Parts
<1>1. Within(b) /\ Has(s, Up(Sides(b.l), "pre_cond_stack"), b.k) BY <1>0, LevelOf, Zenon
<1>2. PICK r : r = __discard_pre_cond_states(s) OBVIOUS
<1>3. Has(r, Sides(b.l), b.k) BY <1>1, <1>2, Kinds, HasPre DEF Within
<1>4. Has(__and_cond_states(r), b.l, b.k) /\ Has(__or_cond_states(r), b.l, b.k)
      BY <1>1, <1>3, HasBoth DEF Within
<1>5. \/ s' = __use_cond_true_states(__and_cond_states(r))
      \/ s' = __use_cond_true_states(__or_cond_states(r))
      BY <1>2 DEF logical_right
<1>6. Has(s', b.l, b.k) BY <1>4, <1>5, HasUseSide
<1>. QED BY <1>1, <1>6, Put0 DEF Within, logical_right, Return

\* The condition of a ? b : c is split above an entry of pre_cond_stack.
LEMMA FitsSelect ==
    ASSUME Fits(todo, s), handle_select
    PROVE  Fits(todo', s')
<1>1. PICK b : Within(b) /\ Has(s, Fake(b.l), b.k) BY CondHere DEF handle_select, AtCond
<1>2. PICK m \in Levels : m = Up(b.l, "pre_cond_stack") BY <1>1, UpLevel, InDepths DEF Within
<1>3. Has(s', Fake(m), b.k)
  <2>1. Has(s', Up(Fake(b.l), "pre_cond_stack"), b.k)
        BY <1>1, Kinds, HasPre DEF Within, handle_select
  <2>. QED BY <1>1, <1>2, <2>1, UpFake, InDepths DEF Within
<1>4. m["cond_true_stack"] > 0 /\ m["cond_false_stack"] > 0
      BY <1>1, <1>2, InDepths DEF Within, Up, Levels
<1>5. PICK u : u = [f |-> "select_cond", c |-> TheCond] OBVIOUS
<1>6. Callable(u, m, b)
      BY <1>1, <1>2, <1>5 DEF Within, Callable, CallNames, Parts, Walks, Plain, Expects
<1>. QED BY <1>1, <1>3, <1>4, <1>5, <1>6, PutCond DEF handle_select, Return

\* Sides and two fake trees for b or c.
LEMMA HasSide ==
    ASSUME NEW r, NEW l \in Levels, NEW k, Has(r, l, k)
    PROVE  Has(Side(r), Fake(Fake(Sides(l))), k)
BY HasPushCond, HasPushFake, Kinds DEF Side

\* b and c are split by the calls select_true and select_false.
LEMMA PutSide ==
    ASSUME NEW b, Within(b), NEW r, Has(r, Up(b.l, "pre_cond_stack"), b.k), NEW u, NEW c,
           u.f \in {"select_true", "select_false"}, "f" \in DOMAIN u
    PROVE  Fits(<<Cond(c), u>> \o Tail(todo), Side(r))
<1>1. PICK l, p \in Levels : l = b.l /\ p = Up(l, "pre_cond_stack")
      BY UpLevel, InDepths DEF Within
<1>2. PICK d, m \in Levels : d = Sides(p) /\ m = Fake(d) BY Kinds
<1>3. Has(Side(r), Fake(m), b.k) BY <1>1, <1>2, HasSide
<1>4. m["cond_true_stack"] > 0 /\ m["cond_false_stack"] > 0
  <2>1. d["cond_true_stack"] > 0 /\ d["cond_false_stack"] > 0
        BY <1>2, SidesDepths, LevelNat, InDepths
  <2>. QED BY <1>2, <2>1, FakeDepths, InDepths
<1>5. Callable(u, m, b)
      BY <1>1, <1>2 DEF Within, Callable, CallNames, Parts, Walks, Plain, Expects
<1>. QED BY <1>3, <1>4, <1>5, PutCond

\* b is split with the true states of a.
LEMMA FitsSelectCond ==
    ASSUME Fits(todo, s), select_cond
    PROVE  Fits(todo', s')
<1>0. PICK b, a : Within(b) /\ Expects("select_cond", a, b.l) /\ Has(s, a, b.k)
      BY PartHere DEF select_cond, Parts
<1>1. Within(b) /\ Has(s, Up(b.l, "pre_cond_stack"), b.k) BY <1>0, LevelOf, Zenon
<1>2. PICK r : r = __use_cond_true_states(s) /\ s' = Side(r) BY DEF select_cond
<1>3. Has(r, Up(b.l, "pre_cond_stack"), b.k) BY <1>1, <1>2, HasUseSide
<1>4. PICK u, c : /\ u.f = "select_true" /\ "f" \in DOMAIN u
                  /\ todo' = <<Cond(c), u>> \o Tail(todo)
  <2>. DEFINE u == [f |-> "select_true", c |-> TheCond, cond_tf |-> tf,
                    a_T |-> Top(s, "cond_true_stack"),
                    a_F |-> Top(s, "cond_false_stack"),
                    elsewhere |-> ref.F, before |-> reach]
  <2>1. todo' = <<Cond(TheCond.b), u>> \o Tail(todo) BY DEF select_cond, Return
  <2>2. u.f = "select_true" /\ "f" \in DOMAIN u OBVIOUS
  <2>. HIDE DEF u
  <2>. QED BY <2>1, <2>2
<1>. QED BY <1>1, <1>2, <1>3, <1>4, PutSide

\* c is split with the false states of a, once those of b are gone.
LEMMA FitsSelectTrue ==
    ASSUME Fits(todo, s), select_true
    PROVE  Fits(todo', s')
<1>0. PICK b, a : Within(b) /\ Expects("select_true", a, b.l) /\ Has(s, a, b.k)
      BY PartHere DEF select_true, Parts
<1>1. Within(b) /\ Has(s, Fake(Sides(Up(b.l, "pre_cond_stack"))), b.k) BY <1>0, LevelOf, Zenon
<1>2. PICK r : /\ r = __use_cond_false_states(__pop_cond_stacks(__pop_fake_cur_stree(s)))
               /\ s' = Side(r)
      BY DEF select_true
<1>3. Has(r, Up(b.l, "pre_cond_stack"), b.k)
  <2>1. Up(b.l, "pre_cond_stack") \in Levels BY <1>1, UpLevel, InDepths DEF Within
  <2>. QED BY <1>1, <1>2, <2>1, Kinds, HasPopFake, HasPopCond, HasUseSide
<1>4. PICK u, c : /\ u.f = "select_false" /\ "f" \in DOMAIN u
                  /\ todo' = <<Cond(c), u>> \o Tail(todo)
  <2>. DEFINE fr == Head(todo)
              fake == fake_cur_stree(s)
              u == [f |-> "select_false", fr |-> fr, true_tf |-> tf,
                    fake |-> fake, T |-> ref.T, F |-> ref.F,
                    b_T |-> SideStates(fr.a_T, fake, "cond_true_stack"),
                    b_F |-> SideStates(fr.a_T, fake, "cond_false_stack")]
  <2>1. todo' = <<Cond(fr.c.c), u>> \o Tail(todo) BY DEF select_true, Return
  <2>2. u.f = "select_false" /\ "f" \in DOMAIN u OBVIOUS
  <2>. HIDE DEF u
  <2>. QED BY <2>1, <2>2
<1>. QED BY <1>1, <1>2, <1>3, <1>4, PutSide

\* The states of both are set on the sides of the whole condition, which are
\* popped and pushed again.
LEMMA FitsSelectFalse ==
    ASSUME Fits(todo, s), select_false
    PROVE  Fits(todo', s')
<1>0. PICK b, a : Within(b) /\ Expects("select_false", a, b.l) /\ Has(s, a, b.k)
      BY PartHere DEF select_false, Parts
<1>1. Within(b) /\ Has(s, Fake(Sides(Up(b.l, "pre_cond_stack"))), b.k) BY <1>0, LevelOf, Zenon
<1>2. PICK l, p \in Levels : l = b.l /\ p = Up(l, "pre_cond_stack")
      BY <1>1, UpLevel, InDepths DEF Within
<1>3. PICK r : r = __use_pre_cond_states(__pop_cond_stacks(__pop_fake_cur_stree(s))) OBVIOUS
<1>4. PICK t, u : s' = __pop_fake_cur_stree(__set_true_false_sm(
                          __push_cond_stacks(__pop_cond_stacks(r)), t, u))
      BY <1>3 DEF select_false
<1>5. Has(r, l, b.k)
      BY <1>1, <1>2, <1>3, Kinds, HasPopFake, HasPopCond, HasPre
<1>6. PICK m \in Levels : l = Sides(m) BY <1>1, <1>2, SidesOf DEF Within
<1>7. PICK v : v = __push_cond_stacks(__pop_cond_stacks(r)) OBVIOUS
<1>8. Has(v, Fake(l), b.k) BY <1>5, <1>6, <1>7, HasPopCond, HasPushCond
<1>9. Fake(l)["cond_true_stack"] > 0 /\ Fake(l)["cond_false_stack"] > 0
      BY <1>1, <1>2, FakeDepths, InDepths DEF Within
<1>10. Has(__set_true_false_sm(v, t, u), Fake(l), b.k) BY <1>8, <1>9, HasTrueFalse
<1>11. Has(s', l, b.k) BY <1>4, <1>7, <1>10, HasPopFake
<1>. QED BY <1>1, <1>2, <1>11, Put0 DEF Within, select_false, Return
-----------------------------------------------------------------------------
(* The whole condition.                                                    *)

\* The true states are used, the false ones pushed.
LEMMA FitsUseCondStates ==
    ASSUME Fits(todo, s), use_cond_states
    PROVE  Fits(todo', s')
<1>1. PICK a, b : Has(s, a.l, a.k) /\ Here(todo, a, b) BY FitsHere DEF use_cond_states, At
<1>2. Head(todo).f = "use_cond_states" BY DEF use_cond_states, At
<1>3. On(Tail(todo), b) /\ IsSeq(Tail(todo)) /\ b.c # {} /\ a.k = b.k BY <1>1, <1>2, Inside
<1>4. PICK l \in Levels : a.l = Sides(Up(l, "pre_cond_stack")) /\ b.l = Up(l, "false_stack")
  <2>1. Expects("use_cond_states", a.l, b.l) BY <1>1, <1>2, Inside
  <2>. QED BY <2>1, LevelOf, Zenon
<1>5. Has(s', b.l, b.k) BY <1>1, <1>3, <1>4, HasUseCond DEF use_cond_states
<1>. QED BY <1>3, <1>5, Put0 DEF use_cond_states, Return

\* Every step of smatch_conditions.c leaves the stacks as deep as the calls
\* that are left rely on.
LEMMA FitsCondition ==
    ASSUME Fits(todo, s), ConditionStep
    PROVE  Fits(todo', s')
BY FitsLeaf, FitsNothing, FitsPreop, FitsNegate, FitsExprStatement, FitsExprStmtDone,
   FitsLogical, FitsLogicalLeft, FitsLogicalRight, FitsSelect, FitsSelectCond,
   FitsSelectTrue, FitsSelectFalse, FitsUseCondStates, Zenon DEF ConditionStep
=============================================================================
