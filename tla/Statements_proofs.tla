-------------------------- MODULE Statements_proofs -------------------------
(***************************************************************************)
(* The steps of smatch_flow.c that walk statements, branches, loops and    *)
(* switches keep the calls and the states together (Fits).                 *)
(***************************************************************************)
EXTENDS Flow, Conditions_proofs

\* Every fake tree has its entry of pre_cond_stack.
Proper(l) == l \in Levels /\ l["pre_cond_stack"] >= l["fake_cur_stree_stack"]

\* The innermost call returns to the place b.
Outer(b) == On(Tail(todo), b) /\ IsSeq(Tail(todo)) /\ Proper(b.l) /\ b.c # {}

\* Statements may be walked before a return to the place b.
Free(b) == b.l["fake_cur_stree_stack"] > 0 => "expr_stmt" \in b.c

\* What a call of smatch_flow.c may rely on.
LEMMA CallHere ==
    ASSUME Fits(todo, s), NEW f, At(f), f \notin {"inline", "end_function"}
    PROVE  \E b : /\ Outer(b) /\ (f \in Walks => Free(b)) /\ "f" \in DOMAIN Head(todo)
                  /\ \E l : Expects(f, l, b.l) /\ Has(s, l, b.k) /\ Proper(l)
<1>1. PICK a, b : Has(s, a.l, a.k) /\ Here(todo, a, b) BY FitsHere
<1>2. Head(todo).f = f BY DEF At
<1>3. Proper(a.l) /\ Proper(b.l) /\ "f" \in DOMAIN Head(todo)
      BY <1>1 DEF Here, Sane, Rel, Proper
<1>. QED BY <1>1, <1>2, <1>3, Inside DEF Outer, Free

\* A statement, the expression after a for loop, or an empty default.
LEMMA StmtHere ==
    ASSUME Fits(todo, s), At("stmt") \/ At("none") \/ At("post")
    PROVE  \E b : Outer(b) /\ Has(s, b.l, b.k) /\ (At("stmt") => Free(b))
<1>1. PICK f \in {"stmt", "none", "post"} : At(f) /\ (At("stmt") => f = "stmt") BY DEF At
<1>. QED BY <1>1, CallHere DEF Expects, Plain, Walks

\* __split_stmt() is called for a statement that is not walked yet.
LEMMA ParseHere ==
    ASSUME Fits(todo, s), At("stmt")
    PROVE  \E b : Outer(b) /\ Free(b) /\ Has(s, b.l, b.k)
BY StmtHere

\* What the call u, at level m, may rely on once it is put on the stack.
LEMMA FreePlace ==
    ASSUME NEW b, Free(b), NEW u, NEW m, m["fake_cur_stree_stack"] = b.l["fake_cur_stree_stack"]
    PROVE  Free(Place(u, m, b))
BY DEF Free, Place

\* __split_stmt() may be called wherever statements may be walked.
LEMMA CallStmt ==
    ASSUME NEW b, Free(b)
    PROVE  Callable(Frame("stmt"), b.l, b)
BY DEF Callable, Frame, Free, CallNames, Parts, Walks, Plain, Expects

\* A statement is walked before the call u goes on.
LEMMA PutStmt ==
    ASSUME NEW b, Outer(b), Free(b), NEW u, NEW m, Callable(u, m, b),
           m["fake_cur_stree_stack"] = b.l["fake_cur_stree_stack"],
           NEW r, Has(r, m, b.k)
    PROVE  Fits(<<Frame("stmt"), u>> \o Tail(todo), r)
<1>1. PICK d : d = Place(u, m, b) OBVIOUS
<1>2. d.l = m /\ Free(d) BY <1>1, FreePlace DEF Place
<1>3. Callable(Frame("stmt"), m, d) BY <1>2, CallStmt
<1>. QED BY <1>1, <1>3, Put2 DEF Outer

\* There may be a statement, or an expression after the loop, before the call
\* u goes on.
LEMMA PutMaybe ==
    ASSUME NEW b, Outer(b), NEW u, NEW m, Callable(u, m, b), NEW f \in {"stmt", "post"},
           f = "stmt" =>
             Free(b) /\ m["fake_cur_stree_stack"] = b.l["fake_cur_stree_stack"],
           NEW q \in ThereMayBe(f), NEW r, Has(r, m, b.k)
    PROVE  Fits((q \o <<u>>) \o Tail(todo), r)
<1>1. CASE q = <<>>
  <2>1. q \o <<u>> = <<u>> BY <1>1
  <2>2. Fits(<<u>> \o Tail(todo), r) BY Put1 DEF Outer
  <2>. QED BY <2>1, <2>2
<1>2. CASE q = <<Frame(f)>>
  <2>1. q \o <<u>> = <<Frame(f), u>> BY <1>2, Tuples
  <2>2. Fits(<<Frame(f), u>> \o Tail(todo), r)
    <3>1. CASE f = "stmt" BY <3>1, PutStmt
    <3>2. CASE f = "post"
      <4>1. PICK d : d = Place(u, m, b) OBVIOUS
      <4>2. d.l = m BY <4>1 DEF Place
      <4>3. Callable(Frame(f), m, d)
            BY <3>2, <4>2 DEF Callable, Frame, CallNames, Parts, Walks, Plain, Expects
      <4>. QED BY <4>1, <4>3, Put2 DEF Outer
    <3>. QED BY <3>1, <3>2
  <2>. QED BY <2>1, <2>2
<1>. QED BY <1>1, <1>2 DEF ThereMayBe

\* A condition is split before the call u, which finds its false states.
LEMMA PutSplit ==
    ASSUME NEW b, Outer(b), NEW u, NEW m \in Levels, Callable(u, Up(m, "false_stack"), b),
           NEW r, Has(r, m, b.k), NEW c
    PROVE  Fits((WholeCondition(c) \o <<u>>) \o Tail(todo), BeginCondition(r))
<1>1. PICK n, p, q \in Levels : /\ n = Up(m, "false_stack") /\ p = Up(m, "pre_cond_stack")
                               /\ q = Sides(p)
      BY UpLevel, Kinds, InDepths
<1>2. PICK d : d = Place(u, n, b) OBVIOUS
<1>3. PICK v : v = Frame("use_cond_states") OBVIOUS
<1>4. d.l = n /\ v.f = "use_cond_states" /\ "f" \in DOMAIN v BY <1>2, <1>3 DEF Place, Frame
<1>5. Expects(v.f, q, n) BY <1>1, <1>4 DEF Expects, Plain
<1>6. Callable(v, q, d) BY <1>4, <1>5 DEF Callable, CallNames, Parts, Walks, Plain
<1>7. PICK e : e = Place(v, q, d) OBVIOUS
<1>8. e.l = q BY <1>7 DEF Place
<1>9. q["cond_true_stack"] > 0 /\ q["cond_false_stack"] > 0
      BY <1>1, SidesDepths, LevelNat, InDepths
<1>10. PICK w : w = Cond(c) OBVIOUS
<1>11. Callable(w, Fake(q), e) BY <1>8, <1>9, <1>10, CallCond
<1>12. Has(BeginCondition(r), Fake(q), b.k) BY <1>1, HasPre, HasPushCond DEF BeginCondition
<1>13. Fits(<<w, v, u>> \o Tail(todo), BeginCondition(r))
       BY <1>1, <1>2, <1>6, <1>7, <1>11, <1>12, Put3 DEF Outer
<1>14. WholeCondition(c) \o <<u>> = <<w, v, u>> BY <1>3, <1>10, Tuples DEF WholeCondition
<1>. QED BY <1>13, <1>14
-----------------------------------------------------------------------------
(* Statements and branches.                                                *)

\* Nothing is done.
LEMMA FitsNone ==
    ASSUME Fits(todo, s), stmt_none
    PROVE  Fits(todo', s')
<1>1. PICK b : Outer(b) /\ Has(s, b.l, b.k) BY StmtHere DEF stmt_none
<1>. QED BY <1>1, Put0 DEF stmt_none, Return, Outer

\* The path ends, at every depth.
LEMMA HasGiveUp ==
    ASSUME NEW r, NEW k, NEW l, Has(r, l, k), Proper(l)
    PROVE  Has(nullify_path(__unnullify_path(nullify_path(r))), l, k)
BY HasNullify, HasSet DEF Proper

\* The walk gives up on the statement and returns to the call around it.
LEMMA FitsGiveUp ==
    ASSUME Fits(todo, s), give_up
    PROVE  Fits(todo', s')
<1>1. CASE At("cases")
  <2>1. PICK a, b : Has(s, a.l, a.k) /\ Here(todo, a, b) BY FitsHere
  <2>2. Head(todo).f = "cases" BY <1>1 DEF At
  <2>3. Callable(Head(todo), a.l, b) /\ a.k = b.k
        BY <2>1, <2>2 DEF Here, Rel, Callable, CallNames
  <2>4. Proper(a.l) BY <2>1 DEF Here, Sane, Proper
  <2>5. Has(s', a.l, b.k) BY <2>1, <2>3, <2>4, HasGiveUp DEF give_up
  <2>6. On(Tail(todo), b) /\ b.c # {} BY <2>1, <2>2, Inside
  <2>. QED BY <1>1, <2>3, <2>5, <2>6, Put1 DEF give_up, Return
<1>2. CASE ~At("cases")
  <2>1. PICK b : Outer(b) /\ Has(s, b.l, b.k) BY <1>2, StmtHere DEF give_up
  <2>2. Has(s', b.l, b.k) BY <2>1, HasGiveUp DEF give_up, Outer
  <2>. QED BY <1>2, <2>1, <2>2, Put0 DEF give_up, Return, Outer
<1>. QED BY <1>1, <1>2

\* That memory runs out changes no stack.
LEMMA FitsOom ==
    ASSUME Fits(todo, s), run_out_of_memory
    PROVE  Fits(todo', s')
BY HasCur DEF run_out_of_memory, Fits

\* An assignment.
LEMMA FitsExpression ==
    ASSUME Fits(todo, s), stmt_expression
    PROVE  Fits(todo', s')
<1>1. PICK b : Outer(b) /\ Has(s, b.l, b.k) BY StmtHere DEF stmt_expression, Parse
<1>2. Has(s', b.l, b.k) BY <1>1, HasSet DEF stmt_expression
<1>. QED BY <1>1, <1>2, Put0 DEF stmt_expression, Return, Outer

\* A return ends the path.
LEMMA FitsReturn ==
    ASSUME Fits(todo, s), stmt_return
    PROVE  Fits(todo', s')
<1>1. PICK b : Outer(b) /\ Has(s, b.l, b.k) BY ParseHere DEF stmt_return, Parse
<1>2. Has(s', b.l, b.k) BY <1>1, HasNullify DEF stmt_return, Outer, Proper
<1>. QED BY <1>1, <1>2, Put0 DEF stmt_return, Return, Outer

\* The statements of a block.
LEMMA FitsCompound ==
    ASSUME Fits(todo, s), split_compound
    PROVE  Fits(todo', s')
<1>1. PICK b : Outer(b) /\ Free(b) /\ Has(s, b.l, b.k) BY ParseHere DEF split_compound, Parse
<1>2. Callable(Frame("stmt"), b.l, b) BY <1>1, CallStmt
<1>. QED BY <1>1, <1>2, PutStmt DEF split_compound, Return

\* The condition of an if.
LEMMA FitsIf ==
    ASSUME Fits(todo, s), split_if_statement
    PROVE  Fits(todo', s')
<1>1. PICK b : Outer(b) /\ Free(b) /\ Has(s, b.l, b.k) BY ParseHere DEF split_if_statement, Parse
<1>2. Callable(Frame("if"), Up(b.l, "false_stack"), b)
      BY <1>1 DEF Callable, Frame, Free, CallNames, Parts, Walks, Plain, Expects
<1>. QED BY <1>1, <1>2, PutSplit DEF split_if_statement, Split, Return, Outer, Proper

\* The call f has the false states of a condition to deal with.
LEMMA BranchHere ==
    ASSUME Fits(todo, s), NEW f \in {"if", "discard_false", "else", "logic"}, At(f)
    PROVE  \E b : /\ Outer(b) /\ (f \in Walks => Free(b))
                  /\ Has(s, Up(b.l, "false_stack"), b.k)
BY CallHere DEF Expects

\* A branch that is always taken, and one that may be.
LEMMA FitsIfTrue ==
    ASSUME Fits(todo, s), if_true \/ if_unknown
    PROVE  Fits(todo', s')
<1>1. PICK b : Outer(b) /\ Free(b) /\ Has(s, Up(b.l, "false_stack"), b.k)
      BY BranchHere DEF if_true, if_unknown, Walks
<1>2. PICK m : m = Up(b.l, "false_stack") OBVIOUS
<1>3. m["fake_cur_stree_stack"] = b.l["fake_cur_stree_stack"]
      BY <1>1, <1>2, InDepths DEF Outer, Proper, Up, Levels
<1>4. PICK u \in {Frame("discard_false"), Frame("else")} :
        todo' = <<Frame("stmt"), u>> \o Tail(todo)
      BY DEF if_true, if_unknown, Return
<1>5. Callable(u, m, b)
  <2>1. CASE u = Frame("discard_false")
        BY <1>1, <1>2, <2>1 DEF Callable, Frame, CallNames, Parts, Walks, Plain, Expects
  <2>2. CASE u = Frame("else")
        BY <1>1, <1>2, <2>2 DEF Callable, Frame, Free, CallNames, Parts, Walks, Plain, Expects
  <2>. QED BY <1>4, <2>1, <2>2
<1>6. s' = s BY DEF if_true, if_unknown
<1>. QED BY <1>1, <1>2, <1>3, <1>4, <1>5, <1>6, PutStmt

\* The false states of a branch that was always taken are dropped.
LEMMA FitsDiscardFalse ==
    ASSUME Fits(todo, s), discard_false
    PROVE  Fits(todo', s')
<1>1. PICK b : Outer(b) /\ Has(s, Up(b.l, "false_stack"), b.k)
      BY BranchHere DEF discard_false
<1>2. Has(s', b.l, b.k) BY <1>1, HasBranch DEF discard_false, Outer, Proper
<1>. QED BY <1>1, <1>2, Put0 DEF discard_false, Return, Outer

\* A branch that is never taken.
LEMMA FitsIfFalse ==
    ASSUME Fits(todo, s), if_false
    PROVE  Fits(todo', s')
<1>1. PICK b : Outer(b) /\ Free(b) /\ Has(s, Up(b.l, "false_stack"), b.k)
      BY BranchHere DEF if_false, Walks
<1>2. Has(s', b.l, b.k) BY <1>1, HasBranch DEF if_false, Outer, Proper
<1>3. CASE todo' = <<>> \o Tail(todo) BY <1>1, <1>2, <1>3, Put0 DEF Outer
<1>4. CASE todo' = <<Frame("stmt")>> \o Tail(todo)
      BY <1>1, <1>2, <1>4, CallStmt, Put1 DEF Outer
<1>. QED BY <1>3, <1>4 DEF if_false, ThereMayBe, Return

\* The true states are kept while the other branch is walked.
LEMMA FitsElse ==
    ASSUME Fits(todo, s), else
    PROVE  Fits(todo', s')
<1>1. PICK b : Outer(b) /\ Free(b) /\ Has(s, Up(b.l, "false_stack"), b.k)
      BY BranchHere DEF else, Walks
<1>2. PICK l, m, n \in Levels : l = b.l /\ m = Up(l, "true_stack") /\ n = Up(l, "false_stack")
      BY <1>1, UpLevel, InDepths DEF Outer, Proper
<1>3. Up(n, "true_stack") = Up(m, "false_stack") BY <1>2, UpUp, InDepths
<1>4. Has(__push_true_states(s), Up(m, "false_stack"), b.k) BY <1>1, <1>2, <1>3, HasBranch
<1>5. Has(s', m, b.k) BY <1>4, HasBranch DEF else
<1>6. m["fake_cur_stree_stack"] = l["fake_cur_stree_stack"]
      BY <1>2, InDepths DEF Up, Levels
<1>7. Callable(Frame("endif"), m, b)
      BY <1>2 DEF Callable, Frame, CallNames, Parts, Walks, Plain, Expects
<1>. QED BY <1>1, <1>2, <1>5, <1>6, <1>7, PutMaybe DEF else, Return

\* Where the branches meet.
LEMMA FitsEndif ==
    ASSUME Fits(todo, s), endif
    PROVE  Fits(todo', s')
<1>1. PICK b : Outer(b) /\ Has(s, Up(b.l, "true_stack"), b.k)
      BY CallHere DEF endif, Expects
<1>2. Has(s', b.l, b.k) BY <1>1, HasMergeTrue DEF endif, Outer, Proper
<1>. QED BY <1>1, <1>2, Put0 DEF endif, Return, Outer
-----------------------------------------------------------------------------
(* Loops.                                                                  *)

\* The level of the body of a loop: its continues may be taken off first.
LEMMA LoopLevel ==
    ASSUME NEW l \in Levels
    PROVE  /\ Breaks(l) \in Levels /\ Up(Breaks(l), "false_stack") \in Levels
           /\ Breaks(Up(l, "continue_stack")) \in Levels
           /\ Breaks(Up(l, "continue_stack")) = Up(Breaks(l), "continue_stack")
           /\ Up(Breaks(Up(l, "continue_stack")), "false_stack")
                = Up(Up(Breaks(l), "false_stack"), "continue_stack")
<1>1. PICK d \in Levels : d = Breaks(l) BY Kinds
<1>2. Up(d, "false_stack") \in Levels /\ Breaks(Up(l, "continue_stack")) \in Levels
      BY UpLevel, Kinds, InDepths
<1>3. Breaks(Up(l, "continue_stack")) = Up(d, "continue_stack") BY <1>1, UpBreaks, InDepths
<1>4. Up(Up(d, "continue_stack"), "false_stack") = Up(Up(d, "false_stack"), "continue_stack")
      BY UpUp, InDepths
<1>. QED BY <1>1, <1>2, <1>3, <1>4

\* A loop has no fake tree of its own.
LEMMA LoopFake ==
    ASSUME NEW l \in Levels
    PROVE  /\ Breaks(Up(l, "continue_stack"))["fake_cur_stree_stack"]
                = l["fake_cur_stree_stack"]
           /\ Up(Breaks(Up(l, "continue_stack")), "false_stack")["fake_cur_stree_stack"]
                = l["fake_cur_stree_stack"]
<1>1. PICK c \in Levels : c = Up(l, "continue_stack") BY UpLevel, InDepths
<1>2. PICK d \in Levels : d = Breaks(c) BY Kinds
<1>3. c["fake_cur_stree_stack"] = l["fake_cur_stree_stack"]
      BY <1>1, InDepths DEF Up, Levels
<1>4. d["fake_cur_stree_stack"] = c["fake_cur_stree_stack"] BY <1>2, BreaksDepths
<1>5. Up(d, "false_stack")["fake_cur_stree_stack"] = d["fake_cur_stree_stack"]
      BY <1>2, InDepths DEF Up, Levels
<1>. QED BY <1>1, <1>2, <1>3, <1>4, <1>5

\* A loop pushes its continues and its breaks.
LEMMA HasEnterLoop ==
    ASSUME NEW r, NEW k, NEW l \in Levels, Has(r, l, k)
    PROVE  Has(EnterLoop(r), Breaks(Up(l, "continue_stack")), k)
<1>1. PICK c \in Levels : c = Up(l, "continue_stack") BY UpLevel, InDepths
<1>2. Has(__push_continues(r), c, k) BY <1>1, HasContinues
<1>3. Has(__push_breaks(__push_continues(r)), Breaks(c), k) BY <1>2, HasPushBreaks
<1>. QED BY <1>1, <1>3, HasGotos DEF EnterLoop

\* while and for: the condition is split inside the loop.
LEMMA FitsPreLoop ==
    ASSUME Fits(todo, s), handle_pre_loop
    PROVE  Fits(todo', s')
<1>1. PICK b : Outer(b) /\ Free(b) /\ Has(s, b.l, b.k) BY ParseHere DEF handle_pre_loop, Parse
<1>2. PICK m \in Levels : m = Breaks(Up(b.l, "continue_stack"))
      BY <1>1, LoopLevel DEF Outer, Proper
<1>3. Has(EnterLoop(s), m, b.k) BY <1>1, <1>2, HasEnterLoop DEF Outer, Proper
<1>4. PICK c, u : /\ u = [f |-> "loop_body", c |-> c, n |-> loop_num + 1]
                  /\ s' = BeginCondition(EnterLoop(s))
                  /\ todo' = (WholeCondition(c) \o <<u>>) \o Tail(todo)
      BY DEF handle_pre_loop, Split, Return
<1>5. Callable(u, Up(m, "false_stack"), b)
      BY <1>1, <1>2, <1>4 DEF Callable, Free, CallNames, Parts, Loop, Walks, Plain, Expects
<1>. QED BY <1>1, <1>3, <1>4, <1>5, PutSplit

\* The body of a while or for loop.
LEMMA FitsLoopBody ==
    ASSUME Fits(todo, s), loop_body
    PROVE  Fits(todo', s')
<1>1. PICK b : /\ Outer(b) /\ Free(b)
               /\ Has(s, Up(Breaks(Up(b.l, "continue_stack")), "false_stack"), b.k)
      BY CallHere DEF loop_body, Expects, Walks
<1>2. PICK m : m = Up(Breaks(Up(b.l, "continue_stack")), "false_stack") OBVIOUS
<1>3. m["fake_cur_stree_stack"] = b.l["fake_cur_stree_stack"]
      BY <1>1, <1>2, LoopFake DEF Outer, Proper
<1>4. PICK o, u : /\ u = [f |-> "loop_end", c |-> TheCond, n |-> Head(todo).n,
                          once_through |-> o]
                  /\ todo' = <<Frame("stmt"), u>> \o Tail(todo)
      BY DEF loop_body, Return
<1>5. Callable(u, m, b)
      BY <1>2, <1>4 DEF Callable, CallNames, Parts, Loop, Walks, Plain, Expects
<1>6. s' = s BY DEF loop_body
<1>. QED BY <1>1, <1>2, <1>3, <1>4, <1>5, <1>6, PutStmt

\* At the end of the body the continues are merged.
LEMMA LoopEndHere ==
    ASSUME Fits(todo, s), At("loop_end")
    PROVE  \E b : /\ Outer(b) /\ "f" \in DOMAIN Head(todo)
                  /\ Has(__merge_continues(s), Up(Breaks(b.l), "false_stack"), b.k)
<1>1. PICK b : /\ Outer(b) /\ "f" \in DOMAIN Head(todo)
               /\ Has(s, Up(Breaks(Up(b.l, "continue_stack")), "false_stack"), b.k)
      BY CallHere DEF Expects
<1>2. PICK m \in Levels : m = Up(Breaks(b.l), "false_stack")
      BY <1>1, LoopLevel DEF Outer, Proper
<1>3. Has(s, Up(m, "continue_stack"), b.k) BY <1>1, <1>2, LoopLevel DEF Outer, Proper
<1>. QED BY <1>1, <1>2, <1>3, HasContinues

\* The expression after the body, then the condition once more.
LEMMA FitsLoopEnd ==
    ASSUME Fits(todo, s), loop_end
    PROVE  Fits(todo', s')
<1>1. PICK b : /\ Outer(b) /\ "f" \in DOMAIN Head(todo)
               /\ Has(s', Up(Breaks(b.l), "false_stack"), b.k)
      BY LoopEndHere DEF loop_end
<1>2. PICK u : u = [Head(todo) EXCEPT !.f = "loop_post"] OBVIOUS
<1>3. u.f = "loop_post" /\ "f" \in DOMAIN u BY <1>1, <1>2
<1>4. Callable(u, Up(Breaks(b.l), "false_stack"), b)
      BY <1>3 DEF Callable, CallNames, Parts, Loop, Walks, Plain, Expects
<1>5. PICK q \in ThereMayBe("post") : todo' = (q \o <<u>>) \o Tail(todo)
      BY <1>2 DEF loop_end, Return
<1>. QED BY <1>1, <1>4, <1>5, PutMaybe

\* The condition is split a second time.
LEMMA FitsLoopPost ==
    ASSUME Fits(todo, s), loop_post
    PROVE  Fits(todo', s')
<1>1. PICK b : /\ Outer(b) /\ "f" \in DOMAIN Head(todo)
               /\ Has(s, Up(Breaks(b.l), "false_stack"), b.k)
      BY CallHere DEF loop_post, Expects
<1>2. PICK m \in Levels : m = Up(Breaks(b.l), "false_stack")
      BY <1>1, LoopLevel DEF Outer, Proper
<1>3. PICK u : u = [Head(todo) EXCEPT !.f = "loop_again"] OBVIOUS
<1>4. u.f = "loop_again" /\ "f" \in DOMAIN u BY <1>1, <1>3
<1>5. Callable(u, Up(m, "false_stack"), b)
      BY <1>2, <1>4 DEF Callable, CallNames, Parts, Loop, Walks, Plain, Expects
<1>6. PICK r : r = __save_gotos(s, Head(todo).n) OBVIOUS
<1>7. Has(r, m, b.k) BY <1>1, <1>2, <1>6, HasGotos
<1>8. s' = BeginCondition(r) /\ todo' = (WholeCondition(TheCond) \o <<u>>) \o Tail(todo)
      BY <1>3, <1>6 DEF loop_post, Split, Return
<1>. QED BY <1>1, <1>5, <1>7, <1>8, PutSplit

\* What leaves the loop by its condition and by its breaks.
LEMMA HasLeaveLoop ==
    ASSUME NEW r, NEW k, NEW l \in Levels, Has(r, Up(Breaks(l), "false_stack"), k), NEW once
    PROVE  Has(__merge_breaks(LeaveByCondition(r, once)), l, k)
<1>1. Has(LeaveByCondition(r, once), Breaks(l), k) BY HasBranch, Kinds DEF LeaveByCondition
<1>. QED BY <1>1, HasPopBreaks

\* The end of a while or for loop.
LEMMA FitsLoopAgain ==
    ASSUME Fits(todo, s), loop_again
    PROVE  Fits(todo', s')
<1>1. PICK b, l : /\ Outer(b) /\ Has(s, l, b.k) /\ Proper(l)
                  /\ l = Up(Up(Breaks(b.l), "false_stack"), "false_stack")
      BY CallHere DEF loop_again, Expects
<1>2. PICK m \in Levels : m = Up(Breaks(b.l), "false_stack")
      BY <1>1, LoopLevel DEF Outer, Proper
<1>3. Has(nullify_path(s), Up(m, "false_stack"), b.k) BY <1>1, <1>2, HasNullify DEF Proper
<1>4. Has(__merge_false_states(nullify_path(s)), m, b.k) BY <1>3, HasBranch
<1>5. Has(s', b.l, b.k) BY <1>1, <1>2, <1>4, HasLeaveLoop DEF loop_again, Outer, Proper
<1>. QED BY <1>1, <1>5, Put0 DEF loop_again, Return, Outer

\* The end of a loop that is walked once.
LEMMA FitsScopedGuard ==
    ASSUME Fits(todo, s), loop_scoped_guard
    PROVE  Fits(todo', s')
<1>1. PICK b : Outer(b) /\ Has(__merge_continues(s), Up(Breaks(b.l), "false_stack"), b.k)
      BY LoopEndHere DEF loop_scoped_guard
<1>2. Has(s', b.l, b.k) BY <1>1, HasGotos, HasLeaveLoop DEF loop_scoped_guard, Outer, Proper
<1>. QED BY <1>1, <1>2, Put0 DEF loop_scoped_guard, Return, Outer

\* for (;;): the expression after the body has a fake tree.
LEMMA FitsLoopForever ==
    ASSUME Fits(todo, s), loop_forever
    PROVE  Fits(todo', s')
<1>1. PICK b : Outer(b) /\ Has(__merge_continues(s), Up(Breaks(b.l), "false_stack"), b.k)
      BY LoopEndHere DEF loop_forever
<1>2. PICK m \in Levels : m = Up(Breaks(b.l), "false_stack")
      BY <1>1, LoopLevel DEF Outer, Proper
<1>3. Has(s', Fake(m), b.k) BY <1>1, <1>2, HasGotos, HasPushFake DEF loop_forever
<1>4. Callable(Frame("loop_breaks"), Fake(m), b)
      BY <1>2 DEF Callable, Frame, CallNames, Parts, Loop, Walks, Plain, Expects
<1>5. PICK q \in ThereMayBe("post") : todo' = (q \o <<Frame("loop_breaks")>>) \o Tail(todo)
      BY DEF loop_forever, Return
<1>. QED BY <1>1, <1>3, <1>4, <1>5, PutMaybe

\* The end of a for (;;) loop.
LEMMA FitsLoopBreaks ==
    ASSUME Fits(todo, s), loop_breaks
    PROVE  Fits(todo', s')
<1>1. PICK b : Outer(b) /\ Has(s, Fake(Up(Breaks(b.l), "false_stack")), b.k)
      BY CallHere DEF loop_breaks, Expects
<1>2. PICK l \in Levels : l = b.l BY <1>1 DEF Outer, Proper
<1>3. PICK m, d \in Levels : d = Breaks(l) /\ m = Up(d, "false_stack") BY LoopLevel
<1>4. PICK r : r = __use_breaks(__discard_false_states(__pop_fake_cur_stree(s))) OBVIOUS
<1>5. Has(__pop_fake_cur_stree(s), m, b.k) BY <1>1, <1>2, <1>3, HasPopFake
<1>6. Has(__discard_false_states(__pop_fake_cur_stree(s)), d, b.k) BY <1>3, <1>5, HasBranch
<1>7. Has(r, l, b.k) BY <1>3, <1>4, <1>6, HasPopBreaks
<1>8. Has(s', l, b.k) BY <1>4, <1>7, HasGotos DEF loop_breaks
<1>. QED BY <1>1, <1>2, <1>8, Put0 DEF loop_breaks, Return, Outer

\* do {} while (): the body comes first.
LEMMA FitsPostLoop ==
    ASSUME Fits(todo, s), handle_post_loop
    PROVE  Fits(todo', s')
<1>1. PICK b : Outer(b) /\ Free(b) /\ Has(s, b.l, b.k) BY ParseHere DEF handle_post_loop, Parse
<1>2. PICK m : m = Breaks(Up(b.l, "continue_stack")) OBVIOUS
<1>3. Has(s', m, b.k) /\ m["fake_cur_stree_stack"] = b.l["fake_cur_stree_stack"]
      BY <1>1, <1>2, HasEnterLoop, LoopFake DEF handle_post_loop, Outer, Proper
<1>4. PICK u : u = [f |-> "do_end", n |-> loop_num + 1] OBVIOUS
<1>5. Callable(u, m, b)
      BY <1>2, <1>4 DEF Callable, CallNames, Parts, Loop, Walks, Plain, Expects
<1>6. todo' = <<Frame("stmt"), u>> \o Tail(todo) BY <1>4 DEF handle_post_loop, Return
<1>. QED BY <1>1, <1>3, <1>5, <1>6, PutStmt

\* The end of its body, and its condition if it has one.
LEMMA FitsDoEnd ==
    ASSUME Fits(todo, s), do_end
    PROVE  Fits(todo', s')
<1>1. PICK b : Outer(b) /\ Has(s, Breaks(Up(b.l, "continue_stack")), b.k)
      BY CallHere DEF do_end, Expects
<1>2. PICK m \in Levels : m = Breaks(b.l) BY <1>1, LoopLevel DEF Outer, Proper
<1>3. Has(s, Up(m, "continue_stack"), b.k) BY <1>1, <1>2, LoopLevel DEF Outer, Proper
<1>4. PICK r : r = __save_gotos(__merge_continues(s), Head(todo).n) OBVIOUS
<1>5. Has(r, m, b.k) BY <1>3, <1>4, HasContinues, HasGotos
<1>6. CASE s' = __use_breaks(r) /\ todo' = <<>> \o Tail(todo)
  <2>1. Has(s', b.l, b.k) BY <1>1, <1>2, <1>5, <1>6, HasPopBreaks DEF Outer, Proper
  <2>. QED BY <1>1, <1>6, <2>1, Put0 DEF Outer
<1>7. ASSUME NEW c, s' = BeginCondition(r),
             todo' = (WholeCondition(c) \o <<Frame("do_exit")>>) \o Tail(todo)
      PROVE  Fits(todo', s')
  <2>1. Callable(Frame("do_exit"), Up(m, "false_stack"), b)
        BY <1>2 DEF Callable, Frame, CallNames, Parts, Loop, Walks, Plain, Expects
  <2>. QED BY <1>1, <1>5, <1>7, <2>1, PutSplit
<1>. QED BY <1>4, <1>6, <1>7 DEF do_end, Split, Return

\* Its end.
LEMMA FitsDoExit ==
    ASSUME Fits(todo, s), do_exit
    PROVE  Fits(todo', s')
<1>1. PICK b : Outer(b) /\ Has(s, Up(Breaks(b.l), "false_stack"), b.k)
      BY CallHere DEF do_exit, Expects
<1>2. Has(__use_false_states(s), Breaks(b.l), b.k) BY <1>1, HasBranch, LoopLevel DEF Outer, Proper
<1>3. Has(s', b.l, b.k) BY <1>1, <1>2, HasPopBreaks DEF do_exit, Outer, Proper
<1>. QED BY <1>1, <1>3, Put0 DEF do_exit, Return, Outer
=============================================================================
