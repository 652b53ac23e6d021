---------------------------- MODULE Calls_proofs ----------------------------
(***************************************************************************)
(* The call stack of the walk and the stacks of smatch_states.c: which     *)
(* depths each call that has not returned yet relies on.  A place is a     *)
(* point between two calls: the level there, what the callers of inlined   *)
(* functions saved, and the names of the calls of this function.           *)
(***************************************************************************)
EXTENDS States_proofs

\* What a call that is at level a leaves behind when it returns: level b.
Plain == {"stmt", "none", "post", "end_function", "expr_stmt", "negate", "logical_left"}
Expects(f, a, b) ==
    /\ f \in Plain => a = b
    /\ f = "cond" => a = Fake(b)
    /\ f = "use_cond_states" =>
         \E l \in Levels : a = Sides(Up(l, "pre_cond_stack")) /\ b = Up(l, "false_stack")
    /\ f = "logical_right" => a = Up(Sides(b), "pre_cond_stack")
    /\ f = "select_cond" => a = Up(b, "pre_cond_stack")
    /\ f \in {"select_true", "select_false"} => a = Fake(Sides(Up(b, "pre_cond_stack")))
    /\ f \in {"if", "discard_false", "else", "logic"} => a = Up(b, "false_stack")
    /\ f = "endif" => a = Up(b, "true_stack")
    /\ f \in {"loop_body", "loop_end"} =>
         a = Up(Breaks(Up(b, "continue_stack")), "false_stack")
    /\ f \in {"loop_post", "do_exit"} => a = Up(Breaks(b), "false_stack")
    /\ f = "loop_again" => a = Up(Up(Breaks(b), "false_stack"), "false_stack")
    /\ f = "loop_breaks" => a = Fake(Up(Breaks(b), "false_stack"))
    /\ f = "do_end" => a = Breaks(Up(b, "continue_stack"))
    /\ f = "cases" => a = Breaks(Up(Switch(b), "default_stack"))
    /\ f = "switch_end" => a = Breaks(Switch(b))
    /\ f = "cond_assign" => a = Sides(Up(b, "pre_cond_stack"))
    /\ f = "select_assign" => a = Up(Up(b, "pre_cond_stack"), "false_stack")

Parts == {"cond", "negate", "logical_left", "logical_right", "select_cond",
           "select_true", "select_false"}
Loop == {"loop_body", "loop_end", "loop_post", "loop_again", "loop_breaks",
         "do_end", "do_exit"}
CallNames == Plain \cup Parts \cup Loop \cup
          {"use_cond_states", "if", "discard_false", "else", "logic", "endif",
           "cases", "switch_end", "cond_assign", "select_assign"}
\* The calls that walk statements of the function.
Walks == {"stmt", "if", "else", "loop_body", "cases"}

\* The call fr is at place a and returns to place b.
Rel(fr, a, b) ==
    /\ "f" \in DOMAIN fr
    /\ fr.f \in CallNames \cup {"inline"}
    /\ fr.f # "inline" => /\ Expects(fr.f, a.l, b.l)
                          /\ a.k = b.k
                          /\ a.c = {fr.f} \cup b.c
    /\ fr.f = "inline" => /\ a.l = Zero
                          /\ Has(fr.before, b.l, b.k)
                          /\ a.k = b.k \o Saved(fr.before)
                          /\ a.c = {"inline"}
    /\ fr.f = "end_function" <=> b.c = {}
    /\ fr.f \in Walks /\ b.l["fake_cur_stree_stack"] > 0 => "expr_stmt" \in b.c
    /\ fr.f \in Parts => b.l["cond_true_stack"] > 0 /\ b.l["cond_false_stack"] > 0

\* What holds at every place: a fake tree has its entry of pre_cond_stack, a
\* loop has continues and breaks, a switch has breaks.
Sane(a) ==
    /\ a.l \in Levels
    /\ IsSeq(a.k)
    /\ a.l["pre_cond_stack"] >= a.l["fake_cur_stree_stack"]
    /\ a.c \cap {"loop_end", "do_end"} # {} => a.l["continue_stack"] > 0
    /\ a.c \cap {"loop_end", "do_end", "cases"} # {} => a.l["break_stack"] > 0

Bottom == [l |-> Zero, k |-> <<>>, c |-> {}]
Calls(t, i) ==
    {t[j].f : j \in {j \in i..Len(t) : \A k \in i..(j - 1) : t[k].f # "inline"}}

\* The places p of the calls t, from the innermost one to the end.
Chain(t, p) ==
    /\ IsSeq(t) /\ IsSeq(p) /\ Len(p) = Len(t) + 1
    /\ p[Len(t) + 1] = Bottom
    /\ \A i \in 1..Len(t) : Rel(t[i], p[i], p[i + 1]) /\ p[i].c = Calls(t, i)
    /\ \A i \in 1..Len(t) + 1 : Sane(p[i])

\* The innermost call of t is at the place a.
On(t, a) == \E p : Chain(t, p) /\ p[1] = a

\* The walk goes on with the calls t, and the states r belong to them.
Fits(t, r) == t # <<>> /\ \E a : On(t, a) /\ Has(r, a.l, a.k)
-----------------------------------------------------------------------------
(* Levels above levels.                                                    *)

\* Nothing that a place needs is lost from level l to level m.
Above(m, l) ==
    /\ m \in Levels
    /\ m["pre_cond_stack"] - m["fake_cur_stree_stack"]
         >= l["pre_cond_stack"] - l["fake_cur_stree_stack"]
    /\ m["continue_stack"] >= l["continue_stack"]
    /\ m["break_stack"] >= l["break_stack"]

\* Above is transitive.
LEMMA AboveTrans ==
    ASSUME NEW l \in Levels, NEW m, NEW n, Above(m, l), Above(n, m)
    PROVE  Above(n, l)
BY InDepths, LevelNat DEF Above

\* A push of anything but a fake tree alone leads above.
LEMMA AboveUp ==
    ASSUME NEW l \in Levels, NEW f \in Depths \ {"fake_cur_stree_stack"}
    PROVE  Above(Up(l, f), l)
<1>1. Up(l, f) \in Levels BY UpLevel
<1>2. Up(l, f)["fake_cur_stree_stack"] = l["fake_cur_stree_stack"]
      BY InDepths DEF Up, Levels
<1>3. /\ Up(l, f)["pre_cond_stack"] >= l["pre_cond_stack"]
      /\ Up(l, f)["continue_stack"] >= l["continue_stack"]
      /\ Up(l, f)["break_stack"] >= l["break_stack"]
      BY UpMore, InDepths
<1>4. PICK m : m = Up(l, f) OBVIOUS
<1>5. \A g \in Depths : l[g] \in Nat /\ m[g] \in Nat BY <1>1, <1>4, LevelNat
<1>. QED BY <1>1, <1>2, <1>3, <1>4, <1>5, InDepths DEF Above

\* What is pushed together leads above.
LEMMA AboveKinds ==
    ASSUME NEW l \in Levels
    PROVE  /\ Above(l, l) /\ Above(Fake(l), l) /\ Above(Sides(l), l)
           /\ Above(Breaks(l), l) /\ Above(Switch(l), l)
<1>1. \A g \in Depths : l[g] \in Nat BY LevelNat
<1>2. Above(l, l) BY <1>1, InDepths DEF Above
<1>3. Above(Fake(l), l)
  <2>1. PICK m \in Levels : m = Fake(l) BY Kinds
  <2>2. /\ m["fake_cur_stree_stack"] = l["fake_cur_stree_stack"] + 1
        /\ m["pre_cond_stack"] = l["pre_cond_stack"] + 1
        /\ m["continue_stack"] = l["continue_stack"] /\ m["break_stack"] = l["break_stack"]
        BY <2>1, FakeDepths, InDepths
  <2>. QED BY <1>1, <2>1, <2>2, InDepths DEF Above
<1>4. Above(Sides(l), l)
  <2>1. PICK m \in Levels : m = Sides(l) BY Kinds
  <2>2. /\ m["fake_cur_stree_stack"] = l["fake_cur_stree_stack"]
        /\ m["pre_cond_stack"] = l["pre_cond_stack"]
        /\ m["continue_stack"] = l["continue_stack"] /\ m["break_stack"] = l["break_stack"]
        BY <2>1, SidesDepths, InDepths
  <2>. QED BY <1>1, <2>1, <2>2, InDepths DEF Above
<1>5. Above(Breaks(l), l)
  <2>1. PICK m \in Levels : m = Breaks(l) BY Kinds
  <2>2. /\ m["fake_cur_stree_stack"] = l["fake_cur_stree_stack"]
        /\ m["pre_cond_stack"] = l["pre_cond_stack"]
        /\ m["continue_stack"] = l["continue_stack"] /\ m["break_stack"] = l["break_stack"] + 1
        BY <2>1, BreaksDepths, InDepths
  <2>. QED BY <1>1, <2>1, <2>2, InDepths DEF Above
<1>6. Above(Switch(l), l)
  <2>1. PICK m \in Levels : m = Up(l, "switch_stack") BY UpLevel, InDepths
  <2>2. Above(m, l) BY <2>1, AboveUp, InDepths
  <2>3. Above(Up(m, "remaining_cases"), m) BY <2>1, AboveUp, InDepths
  <2>. QED BY <2>1, <2>2, <2>3, AboveTrans DEF Switch
<1>. QED BY <1>2, <1>3, <1>4, <1>5, <1>6

\* A call is above the place it returns to.
LEMMA ExpectsAbove ==
    ASSUME NEW f \in CallNames, NEW a, NEW b \in Levels, Expects(f, a, b)
    PROVE  Above(a, b)
<1>. DEFINE P(l) == Up(l, "pre_cond_stack")
            N(l) == Up(l, "false_stack")
            C(l) == Up(l, "continue_stack")
<1>0. \A l \in Levels : /\ P(l) \in Levels /\ N(l) \in Levels /\ C(l) \in Levels
                        /\ Above(P(l), l) /\ Above(N(l), l) /\ Above(C(l), l)
      BY UpLevel, AboveUp, InDepths
<1>. HIDE DEF P, N, C
<1>1. CASE f \in Plain BY <1>1, AboveKinds DEF Expects
<1>2. CASE f = "cond" BY <1>2, AboveKinds DEF Expects
<1>3. CASE f = "use_cond_states"
  <2>1. PICK l \in Levels : a = Sides(P(l)) /\ b = N(l) BY <1>3 DEF Expects, P, N
  <2>2. Above(a, l) BY <1>0, <2>1, AboveKinds, AboveTrans
  <2>3. /\ b["pre_cond_stack"] = l["pre_cond_stack"]
        /\ b["fake_cur_stree_stack"] = l["fake_cur_stree_stack"]
        /\ b["continue_stack"] = l["continue_stack"] /\ b["break_stack"] = l["break_stack"]
        BY <2>1, InDepths DEF N, Up, Levels
  <2>. QED BY <2>2, <2>3 DEF Above
<1>4. CASE f = "logical_right"
  <2>1. a = P(Sides(b)) BY <1>4 DEF Expects, P
  <2>. QED BY <1>0, <2>1, AboveKinds, Kinds, AboveTrans
<1>5. CASE f = "select_cond"
  <2>1. a = P(b) BY <1>5 DEF Expects, P
  <2>. QED BY <1>0, <2>1
<1>6. CASE f \in {"select_true", "select_false"}
  <2>1. a = Fake(Sides(P(b))) BY <1>6 DEF Expects, P
  <2>2. Above(Sides(P(b)), b) BY <1>0, AboveKinds, AboveTrans
  <2>. QED BY <1>0, <2>1, <2>2, Kinds, AboveKinds, AboveTrans
<1>7. CASE f \in {"if", "discard_false", "else", "logic"}
  <2>1. a = N(b) BY <1>7 DEF Expects, N
  <2>. QED BY <1>0, <2>1
<1>8. CASE f = "endif"
  <2>1. a = Up(b, "true_stack") BY <1>8 DEF Expects
  <2>. QED BY <2>1, AboveUp, InDepths
<1>9. CASE f \in {"loop_body", "loop_end"}
  <2>1. a = N(Breaks(C(b))) BY <1>9 DEF Expects, N, C
  <2>2. Above(Breaks(C(b)), b) /\ Breaks(C(b)) \in Levels BY <1>0, Kinds, AboveKinds, AboveTrans
  <2>. QED BY <1>0, <2>1, <2>2, AboveTrans
<1>10. CASE f \in {"loop_post", "do_exit"}
  <2>1. a = N(Breaks(b)) BY <1>10 DEF Expects, N
  <2>. QED BY <1>0, <2>1, Kinds, AboveKinds, AboveTrans
<1>11. CASE f = "loop_again"
  <2>1. a = N(N(Breaks(b))) BY <1>11 DEF Expects, N
  <2>2. Above(N(Breaks(b)), b) /\ N(Breaks(b)) \in Levels BY <1>0, Kinds, AboveKinds, AboveTrans
  <2>. QED BY <1>0, <2>1, <2>2, AboveTrans
<1>12. CASE f = "loop_breaks"
  <2>1. a = Fake(N(Breaks(b))) BY <1>12 DEF Expects, N
  <2>2. Above(N(Breaks(b)), b) /\ N(Breaks(b)) \in Levels BY <1>0, Kinds, AboveKinds, AboveTrans
  <2>. QED BY <2>1, <2>2, AboveKinds, AboveTrans
<1>13. CASE f = "do_end"
  <2>1. a = Breaks(C(b)) BY <1>13 DEF Expects, C
  <2>. QED BY <1>0, <2>1, AboveKinds, AboveTrans
<1>14. CASE f = "cases"
  <2>1. a = Breaks(Up(Switch(b), "default_stack")) BY <1>14 DEF Expects
  <2>2. PICK m \in Levels : m = Up(Switch(b), "default_stack") BY Kinds, UpLevel, InDepths
  <2>3. Above(m, b) BY <2>2, Kinds, AboveKinds, AboveUp, AboveTrans, InDepths
  <2>. QED BY <2>1, <2>2, <2>3, AboveKinds, AboveTrans
<1>15. CASE f = "switch_end"
  <2>1. a = Breaks(Switch(b)) BY <1>15 DEF Expects
  <2>. QED BY <2>1, Kinds, AboveKinds, AboveTrans
<1>16. CASE f = "cond_assign"
  <2>1. a = Sides(P(b)) BY <1>16 DEF Expects, P
  <2>. QED BY <1>0, <2>1, AboveKinds, AboveTrans
<1>17. CASE f = "select_assign"
  <2>1. a = N(P(b)) BY <1>17 DEF Expects, P, N
  <2>. QED BY <1>0, <2>1, AboveTrans
<1>. QED BY <1>1, <1>2, <1>3, <1>4, <1>5, <1>6, <1>7, <1>8, <1>9, <1>10, <1>11, <1>12,
            <1>13, <1>14, <1>15, <1>16, <1>17 DEF CallNames, Parts, Loop, Plain

\* Inside a loop there are continues and breaks, inside a switch breaks.
LEMMA ExpectsLoop ==
    ASSUME NEW f, NEW a, NEW b \in Levels, Expects(f, a, b)
    PROVE  /\ f \in {"loop_end", "do_end"} => a["continue_stack"] > 0
           /\ f \in {"loop_end", "do_end", "cases"} => a["break_stack"] > 0
<1>1. PICK c \in Levels : c = Up(b, "continue_stack") BY UpLevel, InDepths
<1>2. PICK d \in Levels : d = Breaks(c) BY Kinds
<1>3. PICK e \in Levels : e = Up(d, "false_stack") BY UpLevel, InDepths
<1>4. \A g \in Depths : b[g] \in Nat /\ c[g] \in Nat BY LevelNat
<1>5. c["continue_stack"] = b["continue_stack"] + 1 BY <1>1, InDepths DEF Up, Levels
<1>6. d["continue_stack"] = c["continue_stack"] /\ d["break_stack"] = c["break_stack"] + 1
      BY <1>2, BreaksDepths, InDepths
<1>7. e["continue_stack"] = d["continue_stack"] /\ e["break_stack"] = d["break_stack"]
      BY <1>3, InDepths DEF Up, Levels
<1>8. CASE f = "loop_end"
  <2>1. a = e BY <1>1, <1>2, <1>3, <1>8 DEF Expects
  <2>. QED BY <1>4, <1>5, <1>6, <1>7, <1>8, <2>1, InDepths
<1>9. CASE f = "do_end"
  <2>1. a = d BY <1>1, <1>2, <1>9 DEF Expects
  <2>. QED BY <1>4, <1>5, <1>6, <1>9, <2>1, InDepths
<1>10. CASE f = "cases"
  <2>1. a = Breaks(Up(Switch(b), "default_stack")) BY <1>10 DEF Expects
  <2>2. PICK m \in Levels : m = Up(Switch(b), "default_stack") BY Kinds, UpLevel, InDepths
  <2>3. a["break_stack"] = m["break_stack"] + 1 BY <2>1, <2>2, BreaksDepths
  <2>. QED BY <1>10, <2>2, <2>3, LevelNat, InDepths
<1>. QED BY <1>8, <1>9, <1>10

\* What holds at the place a call returns to holds at its own.
LEMMA SaneAbove ==
    ASSUME NEW fr, NEW a, NEW b, Rel(fr, a, b), Sane(b)
    PROVE  Sane(a)
<1>1. CASE fr.f = "inline"
  <2>1. a.l = Zero /\ a.c = {"inline"} /\ a.k = b.k \o Saved(fr.before) BY <1>1 DEF Rel
  <2>2. Zero \in Levels /\ \A g \in Depths : Zero[g] = 0 BY DEF Zero, Levels
  <2>3. IsSeq(Saved(fr.before)) BY SavedSeq
  <2>4. IsSeq(a.k) BY <2>1, <2>3, SeqConcat DEF Sane
  <2>5. Zero["pre_cond_stack"] = 0 /\ Zero["fake_cur_stree_stack"] = 0 BY <2>2, InDepths
  <2>6. /\ a.c \cap {"loop_end", "do_end"} = {}
        /\ a.c \cap {"loop_end", "do_end", "cases"} = {}
        BY <2>1
  <2>. QED BY <2>1, <2>2, <2>4, <2>5, <2>6 DEF Sane
<1>2. CASE fr.f # "inline"
  <2>1. /\ fr.f \in CallNames /\ Expects(fr.f, a.l, b.l) /\ a.k = b.k
        /\ a.c = {fr.f} \cup b.c /\ b.l \in Levels
        BY <1>2 DEF Rel, Sane
  <2>2. PICK m, l, f : m = a.l /\ l = b.l /\ f = fr.f OBVIOUS
  <2>3. Above(m, l) BY <2>1, <2>2, ExpectsAbove
  <2>4. m \in Levels /\ \A g \in Depths : m[g] \in Nat /\ l[g] \in Nat
        BY <2>1, <2>2, <2>3, LevelNat DEF Above
  <2>5. m["pre_cond_stack"] >= m["fake_cur_stree_stack"]
        BY <2>2, <2>3, <2>4, InDepths DEF Above, Sane
  <2>6. a.c \cap {"loop_end", "do_end"} # {} => m["continue_stack"] > 0
    <3>1. CASE f \in {"loop_end", "do_end"} BY <2>1, <2>2, <3>1, ExpectsLoop
    <3>2. CASE f \notin {"loop_end", "do_end"}
      <4>1. a.c \cap {"loop_end", "do_end"} # {} => l["continue_stack"] > 0
            BY <2>1, <2>2, <3>2 DEF Sane
      <4>. QED BY <2>3, <2>4, <4>1, InDepths DEF Above
    <3>. QED BY <3>1, <3>2
  <2>7. a.c \cap {"loop_end", "do_end", "cases"} # {} => m["break_stack"] > 0
    <3>1. CASE f \in {"loop_end", "do_end", "cases"} BY <2>1, <2>2, <3>1, ExpectsLoop
    <3>2. CASE f \notin {"loop_end", "do_end", "cases"}
      <4>1. a.c \cap {"loop_end", "do_end", "cases"} # {} => l["break_stack"] > 0
            BY <2>1, <2>2, <3>2 DEF Sane
      <4>. QED BY <2>3, <2>4, <4>1, InDepths DEF Above
    <3>. QED BY <3>1, <3>2
  <2>. QED BY <2>1, <2>2, <2>4, <2>5, <2>6, <2>7 DEF Sane
<1>. QED BY <1>1, <1>2
-----------------------------------------------------------------------------
(* Calls and returns.                                                      *)

\* The calls seen from an outer call are the ones seen after a return to it.
LEMMA CallsShift ==
    ASSUME NEW t, NEW u, IsSeq(t), IsSeq(u), Len(u) = Len(t) + 1,
           \A i \in 1..Len(t) : u[i + 1] = t[i]
    PROVE  \A i \in 1..Len(t) + 1 : Calls(u, i + 1) = Calls(t, i)
<1>1. PICK n \in Nat : n = Len(t) BY SeqLen
<1>2. TAKE i \in 1..Len(t) + 1
<1>3. ASSUME NEW v, v \in Calls(u, i + 1) PROVE v \in Calls(t, i)
  <2>1. PICK j \in (i + 1)..(n + 1) : /\ v = u[j].f
                                     /\ \A k \in (i + 1)..(j - 1) : u[k].f # "inline"
        BY <1>1, <1>3 DEF Calls
  <2>2. j - 1 \in i..n /\ j - 1 \in 1..n /\ (j - 1) + 1 = j BY <1>1, <1>2, <2>1
  <2>3. v = t[j - 1].f BY <1>1, <2>1, <2>2
  <2>4. ASSUME NEW k \in i..((j - 1) - 1) PROVE t[k].f # "inline"
    <3>1. k + 1 \in (i + 1)..(j - 1) /\ k \in 1..n BY <1>1, <1>2, <2>1, <2>4
    <3>. QED BY <1>1, <2>1, <3>1
  <2>. QED BY <1>1, <2>2, <2>3, <2>4 DEF Calls
<1>4. ASSUME NEW v, v \in Calls(t, i) PROVE v \in Calls(u, i + 1)
  <2>1. PICK j \in i..n : v = t[j].f /\ \A k \in i..(j - 1) : t[k].f # "inline"
        BY <1>1, <1>4 DEF Calls
  <2>2. j + 1 \in (i + 1)..(n + 1) /\ j \in 1..n BY <1>1, <1>2, <2>1
  <2>3. v = u[j + 1].f BY <1>1, <2>1, <2>2
  <2>4. ASSUME NEW k \in (i + 1)..((j + 1) - 1) PROVE u[k].f # "inline"
    <3>1. k - 1 \in i..(j - 1) /\ k - 1 \in 1..n /\ (k - 1) + 1 = k BY <1>1, <1>2, <2>1, <2>4
    <3>. QED BY <1>1, <2>1, <3>1
  <2>. QED BY <1>1, <2>2, <2>3, <2>4 DEF Calls
<1>. QED BY <1>3, <1>4

\* The calls seen from a call are itself and, within a function, the outer ones.
LEMMA CallsFirst ==
    ASSUME NEW u, IsSeq(u), Len(u) > 0
    PROVE  Calls(u, 1) = {u[1].f} \cup (IF u[1].f = "inline" THEN {} ELSE Calls(u, 2))
<1>1. PICK n \in Nat : n = Len(u) BY SeqLen
<1>2. u[1].f \in Calls(u, 1)
  <2>1. 1 \in 1..n /\ \A k \in 1..(1 - 1) : u[k].f # "inline" BY <1>1
  <2>. QED BY <1>1, <2>1 DEF Calls
<1>3. ASSUME NEW v, v \in Calls(u, 1), v # u[1].f
      PROVE  u[1].f # "inline" /\ v \in Calls(u, 2)
  <2>1. PICK j \in 1..n : v = u[j].f /\ \A k \in 1..(j - 1) : u[k].f # "inline"
        BY <1>1, <1>3 DEF Calls
  <2>2. j \in 2..n /\ 1 \in 1..(j - 1) BY <1>1, <1>3, <2>1
  <2>3. \A k \in 2..(j - 1) : k \in 1..(j - 1) BY <2>2
  <2>. QED BY <1>1, <2>1, <2>2, <2>3 DEF Calls
<1>4. ASSUME NEW v, v \in Calls(u, 2), u[1].f # "inline" PROVE v \in Calls(u, 1)
  <2>1. PICK j \in 2..n : v = u[j].f /\ \A k \in 2..(j - 1) : u[k].f # "inline"
        BY <1>1, <1>4 DEF Calls
  <2>2. j \in 1..n /\ \A k \in 1..(j - 1) : k = 1 \/ k \in 2..(j - 1) BY <1>1, <2>1
  <2>. QED BY <1>1, <1>4, <2>1, <2>2 DEF Calls
<1>. QED BY <1>2, <1>3, <1>4

\* Without calls the walk is at the end.
LEMMA OnBottom == On(<<>>, Bottom)
<1>1. PICK p : p = <<Bottom>> OBVIOUS
<1>2. Len(p) = 1 /\ p[1] = Bottom /\ p \in Seq({Bottom}) BY <1>1
<1>3. IsSeq(p) BY <1>2 DEF IsSeq
<1>4. Sane(Bottom)
  <2>1. Zero \in Levels /\ \A g \in Depths : Zero[g] = 0 BY DEF Zero, Levels
  <2>2. Zero["pre_cond_stack"] = 0 /\ Zero["fake_cur_stree_stack"] = 0 BY <2>1, InDepths
  <2>. QED BY <2>1, <2>2, SeqEmpty DEF Sane, Bottom
<1>5. Chain(<<>>, p)
  <2>1. \A i \in 1..0 + 1 : i = 1 OBVIOUS
  <2>. QED BY <1>2, <1>3, <1>4, <2>1, SeqEmpty DEF Chain
<1>. QED BY <1>2, <1>5 DEF On

\* A call from a place it may be made from.
LEMMA OnCall ==
    ASSUME NEW t, NEW b, On(t, b), NEW fr, NEW a, Rel(fr, a, b)
    PROVE  On(<<fr>> \o t, a)
<1>1. PICK p : Chain(t, p) /\ p[1] = b BY DEF On
<1>2. IsSeq(t) /\ IsSeq(p) BY <1>1 DEF Chain
<1>3. PICK n \in Nat : n = Len(t) BY <1>2, SeqLen
<1>4. Len(p) = n + 1 BY <1>1, <1>3 DEF Chain
<1>5. PICK u : u = <<fr>> \o t OBVIOUS
<1>6. IsSeq(u) /\ Len(u) = n + 1 /\ u[1] = fr /\ \A i \in 1..n : u[i + 1] = t[i]
      BY <1>2, <1>3, <1>5, SeqCons
<1>7. PICK q : q = <<a>> \o p OBVIOUS
<1>8. IsSeq(q) /\ Len(q) = n + 2 /\ q[1] = a /\ \A i \in 1..n + 1 : q[i + 1] = p[i]
  <2>1. /\ IsSeq(q) /\ Len(q) = Len(p) + 1 /\ q[1] = a
        /\ \A i \in 1..Len(p) : q[i + 1] = p[i]
        BY <1>2, <1>7, SeqCons
  <2>. QED BY <1>4, <2>1
<1>9. Sane(a)
  <2>1. Sane(p[1]) BY <1>1, <1>3 DEF Chain
  <2>. QED BY <1>1, <2>1, SaneAbove
<1>10. \A i \in 1..n + 1 : Calls(u, i + 1) = Calls(t, i)
       BY <1>2, <1>3, <1>6, CallsShift
<1>11. a.c = Calls(u, 1)
  <2>1. b.c = Calls(t, 1)
    <3>1. CASE n = 0
      <4>1. b = Bottom BY <1>1, <1>3, <3>1 DEF Chain
      <4>2. Calls(t, 1) = {} BY <1>3, <3>1 DEF Calls
      <4>. QED BY <4>1, <4>2 DEF Bottom
    <3>2. CASE n # 0 BY <1>1, <1>3, <3>2 DEF Chain
    <3>. QED BY <3>1, <3>2
  <2>2. Calls(u, 1) = {fr.f} \cup (IF fr.f = "inline" THEN {} ELSE Calls(u, 2))
        BY <1>6, CallsFirst
  <2>3. Calls(u, 2) = Calls(t, 1) BY <1>10
  <2>. QED BY <2>1, <2>2, <2>3 DEF Rel
<1>12. ASSUME NEW i \in 1..n + 1 PROVE Rel(u[i], q[i], q[i + 1]) /\ q[i].c = Calls(u, i)
  <2>1. CASE i = 1
    <3>1. q[2] = p[1] BY <1>8
    <3>. QED BY <1>1, <1>6, <1>8, <1>11, <2>1, <3>1
  <2>2. CASE i # 1
    <3>1. PICK j \in 1..n : i = j + 1
      <4>1. i - 1 \in 1..n /\ i = (i - 1) + 1 BY <2>2
      <4>. QED BY <4>1
    <3>2. u[i] = t[j] /\ q[i] = p[j] /\ q[i + 1] = p[j + 1] BY <1>6, <1>8, <3>1
    <3>3. Rel(t[j], p[j], p[j + 1]) /\ p[j].c = Calls(t, j) BY <1>1, <1>3 DEF Chain
    <3>4. Calls(u, i) = Calls(t, j) BY <1>10, <3>1
    <3>. QED BY <3>2, <3>3, <3>4
  <2>. QED BY <2>1, <2>2
<1>13. ASSUME NEW i \in 1..(n + 1) + 1 PROVE Sane(q[i])
  <2>1. CASE i = 1 BY <1>8, <1>9, <2>1
  <2>2. CASE i # 1
    <3>1. i - 1 \in 1..n + 1 /\ i = (i - 1) + 1 BY <2>2
    <3>2. Sane(p[i - 1]) BY <1>1, <1>3, <3>1 DEF Chain
    <3>. QED BY <1>8, <3>1, <3>2
  <2>. QED BY <2>1, <2>2
<1>14. q[(n + 1) + 1] = Bottom
  <2>1. p[n + 1] = Bottom BY <1>1, <1>3 DEF Chain
  <2>. QED BY <1>8, <2>1
<1>15. Chain(u, q) BY <1>6, <1>8, <1>12, <1>13, <1>14 DEF Chain
<1>. QED BY <1>5, <1>8, <1>15 DEF On

\* The innermost call, at the place a, will return to the place b.
Here(t, a, b) ==
    /\ Rel(Head(t), a, b) /\ On(Tail(t), b) /\ Sane(a) /\ Sane(b)
    /\ a.c = Calls(t, 1) /\ (b.c = {} => Tail(t) = <<>>)
    /\ IsSeq(t) /\ IsSeq(Tail(t))

\* A call has a place to return to.
LEMMA OnReturn ==
    ASSUME NEW t, NEW a, On(t, a), t # <<>>
    PROVE  \E b : Here(t, a, b)
<1>1. PICK p : Chain(t, p) /\ p[1] = a BY DEF On
<1>2. IsSeq(t) /\ IsSeq(p) BY <1>1 DEF Chain
<1>3. PICK n \in Nat : n = Len(t) BY <1>2, SeqLen
<1>4. Len(p) = n + 1 /\ p # <<>> /\ n > 0 BY <1>1, <1>2, <1>3, SeqLen DEF Chain
<1>5. PICK u : u = Tail(t) OBVIOUS
<1>6. IsSeq(u) /\ Len(u) = n - 1 /\ Head(t) = t[1] /\ \A i \in 1..n - 1 : u[i] = t[i + 1]
      BY <1>2, <1>3, <1>5, SeqTail
<1>7. PICK q : q = Tail(p) OBVIOUS
<1>8. IsSeq(q) /\ Len(q) = n /\ \A i \in 1..n : q[i] = p[i + 1]
  <2>1. IsSeq(q) /\ Len(q) = Len(p) - 1 /\ \A i \in 1..Len(p) - 1 : q[i] = p[i + 1]
        BY <1>2, <1>4, <1>7, SeqTail
  <2>. QED BY <1>4, <2>1
<1>9. \A i \in 1..n : Calls(t, i + 1) = Calls(u, i)
  <2>1. \A i \in 1..Len(u) : t[i + 1] = u[i] BY <1>6
  <2>2. Len(t) = Len(u) + 1 BY <1>3, <1>6
  <2>3. \A i \in 1..Len(u) + 1 : Calls(t, i + 1) = Calls(u, i)
        BY <1>2, <1>6, <2>1, <2>2, CallsShift
  <2>. QED BY <1>6, <2>3
<1>10. Chain(u, q)
  <2>1. ASSUME NEW i \in 1..n - 1 PROVE Rel(u[i], q[i], q[i + 1]) /\ q[i].c = Calls(u, i)
    <3>1. i + 1 \in 1..n /\ i \in 1..n BY <1>4
    <3>2. Rel(t[i + 1], p[i + 1], p[(i + 1) + 1]) /\ p[i + 1].c = Calls(t, i + 1)
          BY <1>1, <1>3, <3>1 DEF Chain
    <3>3. u[i] = t[i + 1] /\ q[i] = p[i + 1] /\ q[i + 1] = p[(i + 1) + 1]
          BY <1>6, <1>8, <3>1
    <3>. QED BY <1>9, <3>1, <3>2, <3>3
  <2>2. ASSUME NEW i \in 1..(n - 1) + 1 PROVE Sane(q[i])
    <3>1. i + 1 \in 1..n + 1 /\ i \in 1..n BY <1>4
    <3>2. Sane(p[i + 1]) BY <1>1, <1>3, <3>1 DEF Chain
    <3>. QED BY <1>8, <3>1, <3>2
  <2>3. q[(n - 1) + 1] = Bottom
    <3>1. p[n + 1] = Bottom BY <1>1, <1>3 DEF Chain
    <3>. QED BY <1>4, <1>8, <3>1
  <2>. QED BY <1>4, <1>6, <1>8, <2>1, <2>2, <2>3 DEF Chain
<1>11. PICK b : b = p[2] OBVIOUS
<1>12. q[1] = b BY <1>4, <1>8, <1>11
<1>13. Rel(Head(t), a, b) /\ a.c = Calls(t, 1) /\ Sane(a) /\ Sane(b)
       BY <1>1, <1>3, <1>4, <1>6, <1>11 DEF Chain
<1>14. b.c = {} => u = <<>>
  <2>1. SUFFICES ASSUME u # <<>> PROVE b.c # {} OBVIOUS
  <2>2. Len(u) > 0 BY <1>6, <2>1, SeqLen
  <2>3. u[1].f \in Calls(u, 1) BY <1>6, <2>2, CallsFirst
  <2>4. b.c = Calls(u, 1) BY <1>10, <1>12, <1>6, <2>2 DEF Chain
  <2>. QED BY <2>3, <2>4
<1>. QED BY <1>2, <1>5, <1>6, <1>10, <1>12, <1>13, <1>14 DEF Here, On

\* The call fr may be made at level m when it returns to the place b.
Callable(fr, m, b) ==
    /\ "f" \in DOMAIN fr
    /\ fr.f \in CallNames \ {"end_function"}
    /\ Expects(fr.f, m, b.l)
    /\ fr.f \in Walks /\ b.l["fake_cur_stree_stack"] > 0 => "expr_stmt" \in b.c
    /\ fr.f \in Parts => b.l["cond_true_stack"] > 0 /\ b.l["cond_false_stack"] > 0
Place(fr, m, b) == [l |-> m, k |-> b.k, c |-> {fr.f} \cup b.c]

\* Such a call is at a place of its own.
LEMMA OnPlace ==
    ASSUME NEW t, NEW b, On(t, b), b.c # {}, NEW fr, NEW m, Callable(fr, m, b)
    PROVE  On(<<fr>> \o t, Place(fr, m, b)) /\ Place(fr, m, b).c # {}
<1>1. "inline" \notin CallNames BY DEF CallNames, Plain, Parts, Loop
<1>2. Rel(fr, Place(fr, m, b), b) BY <1>1 DEF Callable, Rel, Place
<1>. QED BY <1>2, OnCall DEF Place

\* A walk without calls is at the end.
LEMMA OnNothing ==
    ASSUME NEW b, On(<<>>, b)
    PROVE  b = Bottom
BY SeqEmpty DEF On, Chain

\* A return to the place b.
LEMMA Put0 ==
    ASSUME NEW t, NEW b, On(t, b), IsSeq(t), b.c # {}, NEW r, Has(r, b.l, b.k)
    PROVE  Fits(<<>> \o t, r)
<1>1. t # <<>> BY OnNothing DEF Bottom
<1>. QED BY <1>1, SeqNone DEF Fits

\* One, two or three calls that return one to the other and then to b.
LEMMA Put1 ==
    ASSUME NEW t, NEW b, On(t, b), b.c # {},
           NEW u, NEW l, Callable(u, l, b), NEW r, Has(r, l, b.k)
    PROVE  Fits(<<u>> \o t, r)
<1>1. PICK a : a = Place(u, l, b) OBVIOUS
<1>2. On(<<u>> \o t, a) BY <1>1, OnPlace
<1>3. a.l = l /\ a.k = b.k /\ a.c # {} BY <1>1, OnPlace DEF Place
<1>4. <<u>> \o t # <<>> BY <1>2, <1>3, OnNothing DEF Bottom
<1>. QED BY <1>2, <1>3, <1>4 DEF Fits

\* Two calls, the second one at level m.
LEMMA Put2 ==
    ASSUME NEW t, NEW b, On(t, b), IsSeq(t), b.c # {},
           NEW v, NEW m, Callable(v, m, b),
           NEW u, NEW l, Callable(u, l, Place(v, m, b)), NEW r, Has(r, l, b.k)
    PROVE  Fits(<<u, v>> \o t, r)
<1>1. On(<<v>> \o t, Place(v, m, b)) /\ Place(v, m, b).c # {} BY OnPlace
<1>2. Has(r, l, Place(v, m, b).k) BY DEF Place
<1>3. Fits(<<u>> \o (<<v>> \o t), r) BY <1>1, <1>2, Put1
<1>4. <<u, v>> \o t = <<u>> \o (<<v>> \o t) BY SeqTwo
<1>. QED BY <1>3, <1>4, Zenon

\* Three calls, the last one at level n.
LEMMA Put3 ==
    ASSUME NEW t, NEW b, On(t, b), IsSeq(t), b.c # {},
           NEW w, NEW n, Callable(w, n, b),
           NEW v, NEW m, Callable(v, m, Place(w, n, b)),
           NEW u, NEW l, Callable(u, l, Place(v, m, Place(w, n, b))),
           NEW r, Has(r, l, b.k)
    PROVE  Fits(<<u, v, w>> \o t, r)
<1>1. PICK q, c : q = <<w>> \o t /\ c = Place(w, n, b) OBVIOUS
<1>2. On(q, c) /\ c.c # {} /\ IsSeq(q) BY <1>1, OnPlace, SeqCons
<1>3. Has(r, l, c.k) BY <1>1 DEF Place
<1>4. Fits(<<u, v>> \o q, r) BY <1>1, <1>2, <1>3, Put2
<1>5. <<u, v, w>> \o t = <<u, v>> \o (<<w>> \o t) BY SeqThree, SMTT(20)
<1>. QED BY <1>1, <1>4, <1>5, Zenon

\* While there is a call, it and the states are at a place.
LEMMA FitsHere ==
    ASSUME NEW t, NEW r, Fits(t, r)
    PROVE  \E a, b : Has(r, a.l, a.k) /\ Here(t, a, b)
BY OnReturn DEF Fits

\* What a call of the function f may rely on.
LEMMA Inside ==
    ASSUME NEW t, NEW a, NEW b, Here(t, a, b), Head(t).f # "inline"
    PROVE  /\ On(Tail(t), b) /\ IsSeq(Tail(t))
           /\ Expects(Head(t).f, a.l, b.l) /\ a.k = b.k /\ a.c = {Head(t).f} \cup b.c
           /\ a.l \in Levels /\ b.l \in Levels
           /\ Head(t).f # "end_function" => b.c # {}
           /\ Head(t).f \in Walks /\ b.l["fake_cur_stree_stack"] > 0 => "expr_stmt" \in b.c
           /\ Head(t).f \in Parts => b.l["cond_true_stack"] > 0 /\ b.l["cond_false_stack"] > 0
BY DEF Here, Rel, Sane

\* The levels of some of the calls.
LEMMA LevelOf ==
    ASSUME NEW a, NEW b
    PROVE  /\ Expects("cond", a, b) => a = Fake(b)
           /\ Expects("negate", a, b) => a = b
           /\ Expects("logical_left", a, b) => a = b
           /\ Expects("logical_right", a, b) => a = Up(Sides(b), "pre_cond_stack")
           /\ Expects("select_cond", a, b) => a = Up(b, "pre_cond_stack")
           /\ Expects("select_true", a, b) => a = Fake(Sides(Up(b, "pre_cond_stack")))
           /\ Expects("select_false", a, b) => a = Fake(Sides(Up(b, "pre_cond_stack")))
           /\ Expects("end_function", a, b) => a = b
           /\ Expects("stmt", a, b) => a = b
           /\ Expects("cond_assign", a, b) => a = Sides(Up(b, "pre_cond_stack"))
           /\ Expects("expr_stmt", a, b) => a = b
           /\ Expects("use_cond_states", a, b) =>
                \E l \in Levels : a = Sides(Up(l, "pre_cond_stack")) /\ b = Up(l, "false_stack")
BY DEF Expects, Plain
=============================================================================
