------------------------------ MODULE Flow_proofs ---------------------------
(***************************************************************************)
(* The walk over a function keeps the stacks of smatch_states.c balanced:  *)
(* whatever the statements, the calls that have not returned and the       *)
(* depths of the stacks belong together (Fits), so all of them are empty   *)
(* at the end, and an inlined function leaves its caller as it was.        *)
(***************************************************************************)
EXTENDS Statements_proofs

-----------------------------------------------------------------------------
(* Switches.                                                               *)

\* The levels of the cases of a switch.
LEMMA SwitchLevel ==
    ASSUME NEW l \in Levels
    PROVE  /\ Breaks(Up(Switch(l), "default_stack")) = Up(Breaks(Switch(l)), "default_stack")
           /\ Breaks(Switch(l)) = Switch(Breaks(l))
           /\ Breaks(l) \in Levels /\ Switch(l) \in Levels /\ Breaks(Switch(l)) \in Levels
           /\ Up(Switch(l), "default_stack") \in Levels
           /\ Breaks(Up(Switch(l), "default_stack")) \in Levels
<1>1. PICK w \in Levels : w = Switch(l) BY Kinds
<1>2. PICK d \in Levels : d = Up(w, "default_stack") BY UpLevel, InDepths
<1>3. PICK p \in Levels : p = Up(l, "switch_stack") BY UpLevel, InDepths
<1>4. w = Up(p, "remaining_cases") BY <1>1, <1>3 DEF Switch
<1>5. Breaks(w) = Up(Breaks(p), "remaining_cases") BY <1>4, UpBreaks, InDepths
<1>6. Breaks(p) = Up(Breaks(l), "switch_stack") BY <1>3, UpBreaks, InDepths
<1>7. Breaks(d) = Up(Breaks(w), "default_stack") BY <1>2, UpBreaks, InDepths
<1>8. Breaks(w) = Switch(Breaks(l)) BY <1>5, <1>6 DEF Switch
<1>. QED BY <1>1, <1>2, <1>7, <1>8, Kinds

\* What is left of a level in a switch.
LEMMA SwitchDepths ==
    ASSUME NEW l \in Levels
    PROVE  /\ Switch(l)["remaining_cases"] > 0
           /\ Switch(l)["fake_cur_stree_stack"] = l["fake_cur_stree_stack"]
           /\ Switch(l)["pre_cond_stack"] = l["pre_cond_stack"]
<1>1. PICK p \in Levels : p = Up(l, "switch_stack") BY UpLevel, InDepths
<1>2. PICK w : w = Up(p, "remaining_cases") OBVIOUS
<1>3. /\ p["fake_cur_stree_stack"] = l["fake_cur_stree_stack"]
      /\ p["pre_cond_stack"] = l["pre_cond_stack"]
      BY <1>1, InDepths DEF Up, Levels
<1>4. /\ w["fake_cur_stree_stack"] = p["fake_cur_stree_stack"]
      /\ w["pre_cond_stack"] = p["pre_cond_stack"]
      BY <1>1, <1>2, InDepths DEF Up, Levels
<1>5. w["remaining_cases"] > 0 BY <1>1, <1>2, UpMore, InDepths
<1>. QED BY <1>1, <1>2, <1>3, <1>4, <1>5 DEF Switch

\* The depths in the cases of a switch.
LEMMA CasesDepths ==
    ASSUME NEW l \in Levels, NEW m, m = Breaks(Up(Switch(l), "default_stack"))
    PROVE  /\ m["remaining_cases"] > 0 /\ m["default_stack"] > 0
           /\ m["fake_cur_stree_stack"] = l["fake_cur_stree_stack"]
           /\ Breaks(Switch(l))["remaining_cases"] > 0
<1>1. PICK w \in Levels : w = Switch(l) BY Kinds
<1>2. PICK d \in Levels : d = Up(w, "default_stack") BY UpLevel, InDepths
<1>3. d["remaining_cases"] = w["remaining_cases"] BY <1>2, InDepths DEF Up, Levels
<1>4. d["fake_cur_stree_stack"] = w["fake_cur_stree_stack"] BY <1>2, InDepths DEF Up, Levels
<1>5. d["default_stack"] > 0 BY <1>2, UpMore, InDepths
<1>6. /\ m["remaining_cases"] = d["remaining_cases"]
      /\ m["default_stack"] = d["default_stack"]
      /\ m["fake_cur_stree_stack"] = d["fake_cur_stree_stack"]
      BY <1>1, <1>2, BreaksDepths, InDepths
<1>7. Breaks(w)["remaining_cases"] = w["remaining_cases"] BY BreaksDepths, InDepths
<1>. QED BY <1>1, <1>3, <1>4, <1>5, <1>6, <1>7, SwitchDepths

\* A switch pushes its states, its values, its default and its breaks.
LEMMA FitsSwitch ==
    ASSUME Fits(todo, s), stmt_switch
    PROVE  Fits(todo', s')
<1>1. PICK b : Outer(b) /\ Free(b) /\ Has(s, b.l, b.k) BY ParseHere DEF stmt_switch, Parse
<1>2. PICK l, w, d \in Levels : l = b.l /\ w = Switch(l) /\ d = Up(w, "default_stack")
      BY <1>1, Kinds, UpLevel, InDepths DEF Outer, Proper
<1>3. PICK r : r = __save_switch_states(s, CaseValues) OBVIOUS
<1>4. Has(r, w, b.k) BY <1>1, <1>2, <1>3, HasSwitch
<1>5. w["pre_cond_stack"] >= w["fake_cur_stree_stack"]
      BY <1>1, <1>2, SwitchDepths DEF Outer, Proper
<1>6. Has(nullify_path(r), w, b.k) BY <1>4, <1>5, HasNullify
<1>7. Has(__push_default(nullify_path(r)), d, b.k) BY <1>2, <1>6, HasSwitch
<1>8. Has(s', Breaks(d), b.k) BY <1>3, <1>7, HasPushBreaks DEF stmt_switch
<1>9. PICK u : u = [f |-> "cases", left |-> CaseValues, default |-> FALSE] OBVIOUS
<1>10. Callable(u, Breaks(d), b)
       BY <1>1, <1>2, <1>9 DEF Callable, Free, CallNames, Parts, Loop, Walks, Plain, Expects
<1>11. todo' = <<u>> \o Tail(todo) BY <1>9 DEF stmt_switch, Return
<1>. QED BY <1>1, <1>8, <1>10, <1>11, Put1 DEF Outer

\* The next case, or the end of the cases.
LEMMA CasesHere ==
    ASSUME Fits(todo, s), At("cases")
    PROVE  \E b : /\ Outer(b) /\ Free(b) /\ "f" \in DOMAIN Head(todo)
                  /\ Has(s, Breaks(Up(Switch(b.l), "default_stack")), b.k)
BY CallHere DEF Expects, Walks

\* The statement after a label starts from the states before the switch.
LEMMA FitsCase ==
    ASSUME Fits(todo, s), split_case
    PROVE  Fits(todo', s')
<1>1. PICK b : /\ Outer(b) /\ Free(b) /\ "f" \in DOMAIN Head(todo)
               /\ Has(s, Breaks(Up(Switch(b.l), "default_stack")), b.k)
      BY CasesHere DEF split_case
<1>2. PICK m : m = Breaks(Up(Switch(b.l), "default_stack")) OBVIOUS
<1>3. /\ m["remaining_cases"] > 0 /\ m["default_stack"] > 0
      /\ m["fake_cur_stree_stack"] = b.l["fake_cur_stree_stack"]
      BY <1>1, <1>2, CasesDepths DEF Outer, Proper
<1>4. PICK rl, def, u :
        /\ u = [Head(todo) EXCEPT !.left = @ \ rl, !.default = @ \/ def]
        /\ s' = IF def THEN __set_default(__merge_switches(s, rl)) ELSE __merge_switches(s, rl)
        /\ todo' = <<Frame("stmt"), u>> \o Tail(todo)
      BY DEF split_case, Return
<1>5. Has(__merge_switches(s, rl), m, b.k) BY <1>1, <1>2, <1>3, HasCase
<1>6. Has(s', m, b.k) BY <1>3, <1>4, <1>5, HasCase
<1>7. u.f = "cases" /\ "f" \in DOMAIN u BY <1>1, <1>4 DEF split_case, At
<1>8. Callable(u, m, b)
      BY <1>1, <1>2, <1>7 DEF Callable, Free, CallNames, Parts, Loop, Walks, Plain, Expects
<1>. QED BY <1>1, <1>3, <1>4, <1>6, <1>8, PutStmt

\* The last case: fake_an_empty_default() when some values are left.
LEMMA FitsEndCases ==
    ASSUME Fits(todo, s), end_cases
    PROVE  Fits(todo', s')
<1>1. PICK b : Outer(b) /\ Has(s, Breaks(Up(Switch(b.l), "default_stack")), b.k)
      BY CasesHere DEF end_cases
<1>2. PICK m \in Levels : m = Breaks(Switch(b.l)) BY <1>1, SwitchLevel DEF Outer, Proper
<1>3. Has(s, Up(m, "default_stack"), b.k) BY <1>1, <1>2, SwitchLevel DEF Outer, Proper
<1>4. PICK r : r = __pop_default(s) OBVIOUS
<1>5. Has(r, m, b.k) BY <1>3, <1>4, HasSwitch
<1>6. m["remaining_cases"] > 0 BY <1>1, <1>2, CasesDepths DEF Outer, Proper
<1>7. Has(__merge_switches(r, {}), m, b.k) BY <1>5, <1>6, HasCase
<1>8. PICK u : u = Frame("switch_end") OBVIOUS
<1>9. Callable(u, m, b)
      BY <1>2, <1>8 DEF Callable, Frame, CallNames, Parts, Loop, Walks, Plain, Expects
<1>10. CASE s' = __merge_switches(r, {}) /\ todo' = <<Frame("none"), u>> \o Tail(todo)
  <2>1. PICK d : d = Place(u, m, b) OBVIOUS
  <2>2. d.l = m BY <2>1 DEF Place
  <2>3. Callable(Frame("none"), m, d)
        BY <2>2 DEF Callable, Frame, CallNames, Parts, Loop, Walks, Plain, Expects
  <2>. QED BY <1>1, <1>7, <1>9, <1>10, <2>1, <2>3, Put2 DEF Outer
<1>11. CASE s' = r /\ todo' = <<u>> \o Tail(todo)
       BY <1>1, <1>5, <1>9, <1>11, Put1 DEF Outer
<1>. QED BY <1>4, <1>8, <1>10, <1>11 DEF end_cases, Return

\* The end of a switch.
LEMMA FitsSwitchEnd ==
    ASSUME Fits(todo, s), switch_end
    PROVE  Fits(todo', s')
<1>1. PICK b : Outer(b) /\ Has(s, Breaks(Switch(b.l)), b.k)
      BY CallHere DEF switch_end, Expects
<1>2. PICK m \in Levels : m = Breaks(b.l) BY <1>1, SwitchLevel DEF Outer, Proper
<1>3. Has(s, Switch(m), b.k) BY <1>1, <1>2, SwitchLevel DEF Outer, Proper
<1>4. Has(__discard_switches(s), m, b.k) BY <1>3, HasSwitch
<1>5. Has(s', b.l, b.k) BY <1>1, <1>2, <1>4, HasPopBreaks DEF switch_end, Outer, Proper
<1>. QED BY <1>1, <1>5, Put0 DEF switch_end, Return, Outer
-----------------------------------------------------------------------------
(* Jumps.                                                                  *)

\* The calls that surround the statement are the ones its place knows of.
LEMMA SurroundingCalls ==
    ASSUME NEW a, NEW b, Here(todo, a, b)
    PROVE  Surrounding = a.c
<1>1. DOMAIN todo = 1..Len(todo) BY SeqLen DEF Here
<1>. QED BY <1>1 DEF Surrounding, Calls, Here

\* A break, a continue or a goto ends the path.
LEMMA FitsJump ==
    ASSUME NEW b, Outer(b), NEW r, Has(r, b.l, b.k), NEW where, Jump(r, where)
    PROVE  Fits(todo', s')
<1>1. Has(s', b.l, b.k) BY HasNullify DEF Jump, Outer, Proper
<1>. QED BY <1>1, Put0 DEF Jump, Return, Outer

\* The statement is in a loop or switch, and not in a statement expression
\* unless such a one may have statements of its kind.
LEMMA JumpHere ==
    ASSUME Fits(todo, s), NEW kind, Parse(kind)
    PROVE  \E b : /\ Outer(b) /\ Has(s, b.l, b.k)
                  /\ InLoop => b.l["continue_stack"] > 0
                  /\ InLoop \/ InSwitch => b.l["break_stack"] > 0
                  /\ kind \notin InCondition => b.l["fake_cur_stree_stack"] = 0
<1>1. PICK a, b : Has(s, a.l, a.k) /\ Here(todo, a, b) BY FitsHere
<1>2. Head(todo).f = "stmt" BY DEF Parse, At
<1>3. a.c = {"stmt"} \cup b.c /\ a.k = b.k /\ a.l = b.l
  <2>1. Expects("stmt", a.l, b.l) BY <1>1, <1>2, Inside
  <2>2. a.l = b.l BY <2>1, LevelOf, Zenon
  <2>. QED BY <1>1, <1>2, <2>2, Inside
<1>4. Outer(b) BY <1>1, <1>2, Inside DEF Outer, Proper, Here, Sane
<1>5. Surrounding = a.c BY <1>1, SurroundingCalls
<1>6. InLoop => b.l["continue_stack"] > 0 BY <1>1, <1>3, <1>5 DEF Here, Sane, InLoop
<1>7. InLoop \/ InSwitch => b.l["break_stack"] > 0
      BY <1>1, <1>3, <1>5 DEF Here, Sane, InLoop, InSwitch
<1>8. ASSUME kind \notin InCondition PROVE b.l["fake_cur_stree_stack"] = 0
  <2>1. "expr_stmt" \notin b.c BY <1>3, <1>5, <1>8 DEF Parse, InExprStmt
  <2>2. ~(b.l["fake_cur_stree_stack"] > 0) BY <1>1, <1>2, <2>1, Inside DEF Walks
  <2>3. b.l["fake_cur_stree_stack"] \in Nat
        BY <1>4, LevelNat, InDepths DEF Outer, Proper
  <2>. QED BY <2>2, <2>3
<1>. QED BY <1>1, <1>3, <1>4, <1>6, <1>7, <1>8

\* A break finds the breaks of its loop or switch.  Inside a statement
\* expression it would need the fake breaks of one that is there too.
LEMMA FitsBreak ==
    ASSUME Fits(todo, s), stmt_break, "break" \notin InCondition
    PROVE  Fits(todo', s')
<1>1. PICK b : /\ Outer(b) /\ Has(s, b.l, b.k) /\ b.l["break_stack"] > 0
               /\ b.l["fake_cur_stree_stack"] = 0
      BY JumpHere DEF stmt_break
<1>2. Has(__process_breaks(s), b.l, b.k) BY <1>1, HasBreak DEF Outer, Proper
<1>. QED BY <1>1, <1>2, FitsJump DEF stmt_break

\* A continue finds the continues of its loop.
LEMMA FitsContinue ==
    ASSUME Fits(todo, s), stmt_continue
    PROVE  Fits(todo', s')
<1>1. PICK b : Outer(b) /\ Has(s, b.l, b.k) /\ b.l["continue_stack"] > 0
      BY JumpHere DEF stmt_continue
<1>2. Has(__process_continues(s), b.l, b.k) BY <1>1, HasContinues DEF Outer, Proper
<1>. QED BY <1>1, <1>2, FitsJump DEF stmt_continue

\* A goto keeps the states for its label.
LEMMA FitsGoto ==
    ASSUME Fits(todo, s), stmt_goto
    PROVE  Fits(todo', s')
<1>1. PICK b : Outer(b) /\ Has(s, b.l, b.k) BY ParseHere DEF stmt_goto, Parse
<1>2. Has(__save_gotos(s, LABEL), b.l, b.k) BY <1>1, HasGotos
<1>. QED BY <1>1, <1>2, FitsJump DEF stmt_goto

\* The label merges them, and its statement follows.
LEMMA FitsLabel ==
    ASSUME Fits(todo, s), stmt_label
    PROVE  Fits(todo', s')
<1>1. PICK b : Outer(b) /\ Free(b) /\ Has(s, b.l, b.k) BY ParseHere DEF stmt_label, Parse
<1>2. Has(s', b.l, b.k) BY <1>1, HasGotos DEF stmt_label
<1>. QED BY <1>1, <1>2, CallStmt, Put1 DEF stmt_label, Return, Outer
-----------------------------------------------------------------------------
(* Expressions that are parsed as conditions.                              *)

\* f(a && b)
LEMMA FitsLogic ==
    ASSUME Fits(todo, s), __handle_logic
    PROVE  Fits(todo', s')
<1>1. PICK b : Outer(b) /\ Has(s, b.l, b.k) BY ParseHere DEF __handle_logic, Parse
<1>2. Callable(Frame("logic"), Up(b.l, "false_stack"), b)
      BY <1>1 DEF Callable, Frame, CallNames, Parts, Loop, Walks, Plain, Expects
<1>. QED BY <1>1, <1>2, PutSplit DEF __handle_logic, Split, Return, Outer, Proper

\* The false states are merged back.
LEMMA FitsLogicDone ==
    ASSUME Fits(todo, s), logic_done
    PROVE  Fits(todo', s')
<1>1. PICK b : Outer(b) /\ Has(s, Up(b.l, "false_stack"), b.k)
      BY BranchHere DEF logic_done
<1>2. Has(s', b.l, b.k) BY <1>1, HasBranch DEF logic_done, Outer, Proper
<1>. QED BY <1>1, <1>2, Put0 DEF logic_done, Return, Outer

\* y = (a && b)
LEMMA FitsConditionAssigns ==
    ASSUME Fits(todo, s), __handle_condition_assigns
    PROVE  Fits(todo', s')
<1>1. PICK b : Outer(b) /\ Has(s, b.l, b.k) BY ParseHere DEF __handle_condition_assigns, Parse
<1>2. PICK l, p, m \in Levels : l = b.l /\ p = Up(l, "pre_cond_stack") /\ m = Sides(p)
      BY <1>1, UpLevel, Kinds, InDepths DEF Outer, Proper
<1>3. Has(s', Fake(m), b.k)
      BY <1>1, <1>2, HasPre, HasPushCond DEF __handle_condition_assigns, BeginCondition
<1>4. m["cond_true_stack"] > 0 /\ m["cond_false_stack"] > 0
      BY <1>2, SidesDepths, LevelNat, InDepths
<1>5. PICK c, u : /\ u = [f |-> "cond_assign", pre |-> s.cur_stree]
                  /\ todo' = <<Cond(c), u>> \o Tail(todo)
      BY DEF __handle_condition_assigns, Return
<1>6. Callable(u, m, b)
      BY <1>2, <1>5 DEF Callable, CallNames, Parts, Loop, Walks, Plain, Expects
<1>7. PICK d : d = Place(u, m, b) OBVIOUS
<1>8. d.l = m BY <1>7 DEF Place
<1>9. Callable(Cond(c), Fake(m), d) BY <1>4, <1>8, CallCond
<1>. QED BY <1>1, <1>3, <1>5, <1>6, <1>7, <1>9, Put2 DEF Outer

\* Both sides are assigned and merged.
LEMMA FitsConditionAssign ==
    ASSUME Fits(todo, s), condition_assign
    PROVE  Fits(todo', s')
<1>0. PICK b, a : Outer(b) /\ Expects("cond_assign", a, b.l) /\ Has(s, a, b.k)
      BY CallHere DEF condition_assign
<1>1. Outer(b) /\ Has(s, Sides(Up(b.l, "pre_cond_stack")), b.k) BY <1>0, LevelOf, Zenon
<1>2. PICK l, m, n \in Levels : l = b.l /\ m = Up(l, "true_stack") /\ n = Up(l, "false_stack")
      BY <1>1, UpLevel, InDepths DEF Outer, Proper
<1>3. PICK r : r = __use_cond_states(s) OBVIOUS
<1>4. Has(r, n, b.k) BY <1>1, <1>2, <1>3, HasUseCond
<1>5. Up(n, "true_stack") = Up(m, "false_stack") BY <1>2, UpUp, InDepths
<1>6. Has(__push_true_states(r), Up(m, "false_stack"), b.k) BY <1>4, <1>5, HasBranch
<1>7. PICK v : v = __use_false_states(__push_true_states(r)) OBVIOUS
<1>8. Has(v, m, b.k) BY <1>6, <1>7, HasBranch
<1>9. PICK t : s' = __set_sm(__merge_true_states(v), t) BY <1>3, <1>7 DEF condition_assign
<1>10. Has(s', l, b.k) BY <1>2, <1>8, <1>9, HasMergeTrue, HasSet
<1>. QED BY <1>1, <1>2, <1>10, Put0 DEF condition_assign, Return, Outer

\* x = a ? b : c
LEMMA FitsSelectAssigns ==
    ASSUME Fits(todo, s), __handle_select_assigns
    PROVE  Fits(todo', s')
<1>1. PICK b : Outer(b) /\ Has(s, b.l, b.k) BY ParseHere DEF __handle_select_assigns, Parse
<1>2. PICK m \in Levels : m = Up(b.l, "pre_cond_stack")
      BY <1>1, UpLevel, InDepths DEF Outer, Proper
<1>3. Has(__save_pre_cond_states(s), m, b.k) BY <1>1, <1>2, HasPre DEF Outer, Proper
<1>4. Callable(Frame("select_assign"), Up(m, "false_stack"), b)
      BY <1>2 DEF Callable, Frame, CallNames, Parts, Loop, Walks, Plain, Expects
<1>. QED BY <1>1, <1>3, <1>4, PutSplit DEF __handle_select_assigns, Split, Return

\* What is known on both sides is set after the states before are back.
LEMMA FitsSelectAssign ==
    ASSUME Fits(todo, s), select_assign
    PROVE  Fits(todo', s')
<1>1. PICK b : Outer(b) /\ Has(s, Up(Up(b.l, "pre_cond_stack"), "false_stack"), b.k)
      BY CallHere DEF select_assign, Expects
<1>2. PICK l, p \in Levels : l = b.l /\ p = Up(l, "pre_cond_stack")
      BY <1>1, UpLevel, InDepths DEF Outer, Proper
<1>3. PICK t, r, v :
        /\ t \in {s, set_state(s, x, fresh)}
        /\ r \in {__discard_false_states(t), set_state(__use_false_states(t), x, fresh + 1)}
        /\ s' = __set_sm(__use_pre_cond_states(r), v)
      BY DEF select_assign
<1>4. Has(t, Up(p, "false_stack"), b.k) BY <1>1, <1>2, <1>3, HasSet
<1>5. Has(r, p, b.k) BY <1>3, <1>4, HasBranch, HasSet
<1>6. Has(s', l, b.k) BY <1>2, <1>3, <1>5, HasPre, HasSet
<1>. QED BY <1>1, <1>2, <1>6, Put0 DEF select_assign, Return, Outer
-----------------------------------------------------------------------------
(* Functions.                                                              *)

\* A function starts with empty stacks above what its callers saved.
LEMMA HasStart ==
    ASSUME NEW r, NEW k, NEW l, Has(r, l, k), NEW start
    PROVE  Has(start_function_definition(r, start), l, k)
BY HasSet DEF start_function_definition

\* An inlined function saves the states of the caller.
LEMMA FitsInline ==
    ASSUME Fits(todo, s), parse_inline
    PROVE  Fits(todo', s')
<1>1. PICK b : Outer(b) /\ Has(s, b.l, b.k) BY ParseHere DEF parse_inline, Parse
<1>2. PICK fr : /\ fr.f = "inline" /\ "f" \in DOMAIN fr /\ fr.before = s
                /\ todo' = <<Frame("stmt"), fr>> \o Tail(todo)
  <2>. DEFINE fr == [f |-> "inline", before |-> s, reach |-> reach, ref |-> ref,
                     loop_num |-> loop_num, label_seen |-> label_seen]
  <2>1. todo' = <<Frame("stmt"), fr>> \o Tail(todo) BY DEF parse_inline, Return
  <2>2. fr.f = "inline" /\ "f" \in DOMAIN fr /\ fr.before = s OBVIOUS
  <2>. HIDE DEF fr
  <2>. QED BY <2>1, <2>2
<1>3. PICK a : a = [l |-> Zero, k |-> b.k \o Saved(s), c |-> {"inline"}] OBVIOUS
<1>4. a.l = Zero /\ a.k = b.k \o Saved(s) /\ a.c = {"inline"} BY <1>3
<1>5. Rel(fr, a, b)
  <2>1. "inline" \notin CallNames /\ "inline" \notin Walks /\ "inline" \notin Parts
        BY DEF CallNames, Plain, Parts, Loop, Walks
  <2>. QED BY <1>1, <1>2, <1>4, <2>1 DEF Rel, Outer
<1>6. PICK t : t = <<fr>> \o Tail(todo) OBVIOUS
<1>7. On(t, a) /\ IsSeq(t) BY <1>1, <1>5, <1>6, OnCall, SeqCons DEF Outer
<1>8. Has(s', Zero, a.k) BY <1>1, <1>4, HasSave, HasStart DEF parse_inline
<1>9. Zero["fake_cur_stree_stack"] = 0 BY InDepths DEF Zero
<1>10. Callable(Frame("stmt"), Zero, a) BY <1>4, <1>9, CallStmt DEF Free
<1>11. Fits(<<Frame("stmt")>> \o t, s') BY <1>4, <1>7, <1>8, <1>10, Put1
<1>12. <<Frame("stmt"), fr>> \o Tail(todo) = <<Frame("stmt")>> \o t
       BY <1>1, <1>6, SeqTwo DEF Outer
<1>. QED BY <1>2, <1>11, <1>12

\* Where an inlined function ends, the states of its caller are on top of what
\* was saved.
LEMMA InlineHere ==
    ASSUME Fits(todo, s), inline_done
    PROVE  \E b, u : /\ On(Tail(todo), b) /\ IsSeq(Tail(todo)) /\ b.c # {} /\ IsSeq(b.k)
                     /\ Has(Head(todo).before, b.l, b.k)
                     /\ Has(u, Zero, b.k \o Saved(Head(todo).before))
                     /\ s' = restore_all_states(u)
<1>1. PICK a, b : Has(s, a.l, a.k) /\ Here(todo, a, b) BY FitsHere
<1>2. Head(todo).f = "inline" BY DEF inline_done, At
<1>3. /\ a.l = Zero /\ a.k = b.k \o Saved(Head(todo).before) /\ b.c # {}
      /\ Has(Head(todo).before, b.l, b.k)
      BY <1>1, <1>2 DEF Here, Rel
<1>4. On(Tail(todo), b) /\ IsSeq(Tail(todo)) /\ IsSeq(b.k) BY <1>1 DEF Here, Sane
<1>5. a.l["pre_cond_stack"] >= a.l["fake_cur_stree_stack"] BY <1>1 DEF Here, Sane
<1>6. PICK u : u = [nullify_path(s) EXCEPT !.goto_stack = NULL] OBVIOUS
<1>7. Has(nullify_path(s), a.l, a.k) BY <1>1, <1>5, HasNullify
<1>8. Has(u, a.l, a.k) BY <1>6, <1>7, HasCur
<1>9. s' = restore_all_states(u) BY <1>6 DEF inline_done
<1>. QED BY <1>3, <1>4, <1>8, <1>9

\* They are restored.
LEMMA FitsInlineDone ==
    ASSUME Fits(todo, s), inline_done
    PROVE  Fits(todo', s')
<1>1. PICK b, u : /\ On(Tail(todo), b) /\ IsSeq(Tail(todo)) /\ b.c # {} /\ IsSeq(b.k)
                  /\ Has(Head(todo).before, b.l, b.k)
                  /\ Has(u, Zero, b.k \o Saved(Head(todo).before))
                  /\ s' = restore_all_states(u)
      BY InlineHere
<1>2. Has(s', b.l, b.k) BY <1>1, HasRestore
<1>. QED BY <1>1, <1>2, Put0 DEF inline_done, Return

\* restore_all_states() gives every field the value it had before the call.
LEMMA Transparent ==
    ASSUME Fits(todo, s), inline_done
    PROVE  \A f \in Range(SaveOrder) \cup {"backup"} : s'[f] = Head(todo).before[f]
<1>1. PICK b, u, r : /\ r = Head(todo).before /\ IsSeq(b.k) /\ Has(r, b.l, b.k)
                     /\ Has(u, Zero, b.k \o Saved(r)) /\ s' = restore_all_states(u)
      BY InlineHere
<1>2. IsSeq(r.backup) /\ u.backup = r.backup \o Saved(r) BY <1>1 DEF Has
<1>3. \A f \in SavedFields \cup {"backup"} : restore_all_states(u)[f] = r[f]
      BY <1>2, Restores
<1>. QED BY <1>1, <1>3, SaveOrderFields

\* A function starts with two calls: its body, and its end.
LEMMA FitsStart ==
    ASSUME NEW start
    PROVE  Fits(Function, start_function_definition(InitialStates, start))
<1>1. PICK v : v = Frame("end_function") OBVIOUS
<1>2. v.f = "end_function" /\ "f" \in DOMAIN v BY <1>1 DEF Frame
<1>3. PICK a : a = [l |-> Zero, k |-> <<>>, c |-> {"end_function"}] OBVIOUS
<1>4. a.l = Zero /\ a.k = <<>> /\ a.c = {"end_function"} BY <1>3
<1>5. Rel(v, a, Bottom)
      BY <1>2, <1>4 DEF Rel, Bottom, CallNames, Plain, Parts, Walks, Expects
<1>6. On(<<v>> \o <<>>, a) BY <1>5, OnBottom, OnCall
<1>7. <<v>> \o <<>> = <<v>> /\ IsSeq(<<v>>)
  <2>1. <<v>> \in Seq({v}) OBVIOUS
  <2>2. IsSeq(<<v>>) BY <2>1 DEF IsSeq
  <2>3. <<v>> \o <<>> = <<v>> BY <2>1, ConcatEmptySeq
  <2>. QED BY <2>2, <2>3
<1>8. Has(InitialStates, Zero, <<>>)
  <2>1. \A g \in Depths : InitialStates[g] = <<>> /\ Zero[g] = 0
        BY DEF InitialStates, Depths, Stacks, Fields, Zero
  <2>2. Zero \in Levels BY DEF Zero, Levels
  <2>3. /\ DOMAIN InitialStates = Fields /\ InitialStates.perror = FALSE
        /\ InitialStates.backup = <<>>
        BY DEF InitialStates, Fields, Stacks
  <2>. QED BY <2>1, <2>2, <2>3, SeqEmpty DEF Has
<1>9. PICK r : r = start_function_definition(InitialStates, start) OBVIOUS
<1>10. Has(r, Zero, a.k) BY <1>4, <1>8, <1>9, HasStart
<1>11. Zero["fake_cur_stree_stack"] = 0 BY InDepths DEF Zero
<1>12. Callable(Frame("stmt"), Zero, a) BY <1>4, <1>11, CallStmt DEF Free
<1>13. Fits(<<Frame("stmt")>> \o <<v>>, r) BY <1>4, <1>6, <1>7, <1>10, <1>12, Put1
<1>14. Function = <<Frame("stmt")>> \o <<v>> BY <1>1, Tuples DEF Function
<1>. QED BY <1>9, <1>13, <1>14

\* At its end nothing is left to complain about.
LEMMA EndsEmpty ==
    ASSUME Fits(todo, s), end_function
    PROVE  todo' = <<>> /\ s' = InitialStates
<1>1. PICK a, b : Has(s, a.l, a.k) /\ Here(todo, a, b) BY FitsHere
<1>2. Head(todo).f = "end_function" BY DEF end_function, At
<1>3. b.c = {} /\ On(Tail(todo), b) /\ Tail(todo) = <<>> BY <1>1, <1>2 DEF Here, Rel
<1>4. b = Bottom BY <1>3, OnNothing, Zenon
<1>5. a.l = b.l /\ a.k = b.k
  <2>0. Head(todo).f # "inline" BY <1>2
  <2>1. Rel(Head(todo), a, b) BY <1>1, Zenon DEF Here
  <2>2. Expects(Head(todo).f, a.l, b.l) /\ a.k = b.k BY <2>0, <2>1, Zenon DEF Rel
  <2>3. Expects("end_function", a.l, b.l) BY <1>2, <2>2, Zenon
  <2>. QED BY <2>2, <2>3, LevelOf, Zenon
<1>6. Has(s, Zero, <<>>) BY <1>1, <1>4, <1>5 DEF Bottom
<1>7. s' = InitialStates BY <1>6, HasClear DEF end_function
<1>8. todo' = <<>> BY <1>3 DEF end_function, Return
<1>. QED BY <1>7, <1>8
-----------------------------------------------------------------------------
(* The inductive invariant: between functions the states are the initial   *)
(* ones, and inside a function the calls and the states belong together.   *)

FlowInv == IF todo = <<>> THEN s = InitialStates ELSE Fits(todo, s)

\* Between functions nothing happens but the start of the next one.
LEMMA Calling ==
    ASSUME Next, todo = <<>>
    PROVE  next_function
<1>1. ~ConditionStep
      BY DEF ConditionStep, split_leaf, split_nothing, handle_preop, negate,
             handle_expr_statement_conditions, expr_stmt_done, handle_logical, logical_left,
             logical_right, handle_select, select_cond, select_true, select_false,
             use_cond_states, AtCond, At
<1>2. ~stmt_none /\ ~give_up /\ ~run_out_of_memory /\ ~stmt_expression
      BY DEF stmt_none, give_up, run_out_of_memory, stmt_expression, Parse, At
<1>3. /\ ~stmt_return /\ ~split_compound /\ ~split_if_statement /\ ~handle_pre_loop
      /\ ~handle_post_loop /\ ~stmt_switch /\ ~stmt_break /\ ~stmt_continue
      BY DEF stmt_return, split_compound, split_if_statement, handle_pre_loop,
             handle_post_loop, stmt_switch, stmt_break, stmt_continue, Parse, At
<1>4. /\ ~stmt_goto /\ ~stmt_label /\ ~__handle_logic /\ ~__handle_condition_assigns
      /\ ~__handle_select_assigns /\ ~parse_inline
      BY DEF stmt_goto, stmt_label, __handle_logic, __handle_condition_assigns,
             __handle_select_assigns, parse_inline, Parse, At
<1>5. /\ ~if_true /\ ~discard_false /\ ~if_false /\ ~if_unknown /\ ~else /\ ~endif
      BY DEF if_true, discard_false, if_false, if_unknown, else, endif, At
<1>6. /\ ~loop_body /\ ~loop_end /\ ~loop_post /\ ~loop_again /\ ~loop_scoped_guard
      /\ ~loop_forever /\ ~loop_breaks /\ ~do_end /\ ~do_exit
      BY DEF loop_body, loop_end, loop_post, loop_again, loop_scoped_guard, loop_forever,
             loop_breaks, do_end, do_exit, At
<1>7. /\ ~split_case /\ ~end_cases /\ ~switch_end /\ ~logic_done /\ ~condition_assign
      /\ ~select_assign /\ ~inline_done /\ ~end_function
      BY DEF split_case, end_cases, switch_end, logic_done, condition_assign,
             select_assign, inline_done, end_function, At
<1>. QED BY <1>1, <1>2, <1>3, <1>4, <1>5, <1>6, <1>7, Zenon DEF Next

\* Every step inside a function but the last one keeps the walk going.
LEMMA FitsNext ==
    ASSUME Fits(todo, s), Next, ~end_function, ~next_function, "break" \notin InCondition
    PROVE  Fits(todo', s')
<1>1. CASE \/ ConditionStep \/ stmt_none \/ give_up \/ run_out_of_memory
           \/ stmt_expression \/ stmt_return \/ split_compound
      BY <1>1, FitsCondition, FitsNone, FitsGiveUp, FitsOom, FitsExpression, FitsReturn,
         FitsCompound, Zenon
<1>2. CASE \/ split_if_statement \/ if_true \/ discard_false \/ if_false
           \/ if_unknown \/ else \/ endif
      BY <1>2, FitsIf, FitsIfTrue, FitsDiscardFalse, FitsIfFalse, FitsElse, FitsEndif, Zenon
<1>3. CASE \/ handle_pre_loop \/ loop_body \/ loop_end \/ loop_post \/ loop_again
           \/ loop_scoped_guard \/ loop_forever \/ loop_breaks
           \/ handle_post_loop \/ do_end \/ do_exit
      BY <1>3, FitsPreLoop, FitsLoopBody, FitsLoopEnd, FitsLoopPost, FitsLoopAgain,
         FitsScopedGuard, FitsLoopForever, FitsLoopBreaks, FitsPostLoop, FitsDoEnd,
         FitsDoExit, Zenon
<1>4. CASE \/ stmt_switch \/ split_case \/ end_cases \/ switch_end
           \/ stmt_break \/ stmt_continue \/ stmt_goto \/ stmt_label
      BY <1>4, FitsSwitch, FitsCase, FitsEndCases, FitsSwitchEnd, FitsBreak, FitsContinue,
         FitsGoto, FitsLabel, Zenon
<1>5. CASE \/ __handle_logic \/ logic_done \/ __handle_condition_assigns
           \/ condition_assign \/ __handle_select_assigns \/ select_assign
           \/ parse_inline \/ inline_done
      BY <1>5, FitsLogic, FitsLogicDone, FitsConditionAssigns, FitsConditionAssign,
         FitsSelectAssigns, FitsSelectAssign, FitsInline, FitsInlineDone, Zenon
<1>. QED BY <1>1, <1>2, <1>3, <1>4, <1>5, Zenon DEF Next

\* Whatever functions are walked, with whatever checks, inlined functions and
\* jumps, in or out of memory and wherever the walk gives up, each call finds
\* the stacks as deep as it relies on.  The one thing asked of the program is
\* that no statement expression inside a condition breaks out of it.
THEOREM FlowInvariant ==
    ASSUME "break" \notin InCondition
    PROVE  Spec => []FlowInv
<1>1. Init => FlowInv
  <2>1. SUFFICES ASSUME Init PROVE FlowInv OBVIOUS
  <2>2. PICK start : s = start_function_definition(InitialStates, start) BY <2>1 DEF Init
  <2>3. todo = Function BY <2>1 DEF Init
  <2>4. Fits(todo, s) BY <2>2, <2>3, FitsStart
  <2>. QED BY <2>4 DEF FlowInv, Fits
<1>2. FlowInv /\ [Next]_vars => FlowInv'
  <2>1. SUFFICES ASSUME FlowInv, [Next]_vars PROVE FlowInv' OBVIOUS
  <2>2. CASE UNCHANGED vars
    <3>1. todo' = todo /\ s' = s BY <2>2 DEF vars
    <3>. QED BY <2>1, <3>1 DEF FlowInv
  <2>3. CASE next_function
    <3>1. todo = <<>> BY <2>3 DEF next_function
    <3>2. s = InitialStates BY <2>1, <3>1 DEF FlowInv
    <3>3. PICK start : s' = start_function_definition(InitialStates, start)
          BY <2>3, <3>2 DEF next_function
    <3>4. todo' = Function BY <2>3 DEF next_function
    <3>5. Fits(todo', s') BY <3>3, <3>4, FitsStart
    <3>. QED BY <3>5 DEF FlowInv, Fits
  <2>4. CASE Next /\ ~next_function
    <3>1. todo # <<>> BY <2>4, Calling
    <3>2. Fits(todo, s) BY <2>1, <3>1 DEF FlowInv
    <3>3. CASE end_function BY <3>2, <3>3, EndsEmpty DEF FlowInv
    <3>4. CASE ~end_function
      <4>1. Fits(todo', s') BY <2>4, <3>2, <3>4, FitsNext
      <4>. QED BY <4>1 DEF FlowInv, Fits
    <3>. QED BY <3>3, <3>4
  <2>. QED BY <2>1, <2>2, <2>3, <2>4
<1>. QED BY <1>1, <1>2, PTL DEF Spec

\* At the end of a function every stack of smatch_states.c is empty again and
\* no sm_perror() about them was printed: clear_all_states() and
\* check_stree_stack_free() find nothing to complain about.
THEOREM StacksAreBalanced ==
    ASSUME "break" \notin InCondition
    PROVE  Spec => []StacksBalanced
<1>1. FlowInv => StacksBalanced BY DEF FlowInv, StacksBalanced
<1>. QED BY <1>1, FlowInvariant, PTL

\* parse_inline() leaves every state of the caller as it was, however deep
\* the inlined functions are nested.
THEOREM InliningIsTransparent ==
    ASSUME "break" \notin InCondition
    PROVE  Spec => InlineTransparent
<1>1. FlowInv /\ [Next]_vars =>
        [inline_done =>
           \A f \in Range(SaveOrder) \cup {"backup"} : s'[f] = Head(todo).before[f]]_vars
  <2>1. SUFFICES ASSUME FlowInv, inline_done
                 PROVE  \A f \in Range(SaveOrder) \cup {"backup"} :
                            s'[f] = Head(todo).before[f]
        OBVIOUS
  <2>2. todo # <<>> BY <2>1 DEF inline_done, At
  <2>3. Fits(todo, s) BY <2>1, <2>2 DEF FlowInv
  <2>. QED BY <2>1, <2>3, Transparent
<1>. QED BY <1>1, FlowInvariant, PTL DEF Spec, InlineTransparent
=============================================================================
