------------------------------- MODULE Memops -------------------------------
(***************************************************************************)
(* Loads and stores of the variables that stay in memory: memops.c.         *)
(***************************************************************************)
EXTENDS Ssa
LOCAL INSTANCE SequencesExt

local_pseudo(f, v, kind) ==
    /\ kind # "static"
    /\ \A u \in users(f, Sym(v)) :
          /\ IsLive(f, u[1]) => IsAccess(f, u[1])
          /\ u[2] = 1

\* A bug: a call cannot change what memory holds.
CallsIgnored(f, i, dom, local) ==
    IF IsAccess(f, dom) /\ f.insn[dom].a[1] = f.insn[i].a[1] THEN "yes" ELSE "no"

\* "yes", "no", or "unknown": does dom give the memory that i accesses its value
dominates(f, i, dom, local) ==
    CASE f.insn[dom].op \in {"call", "entry"} -> IF local THEN "no" ELSE "unknown"
      [] IsAccess(f, dom) -> IF f.insn[dom].a[1] = f.insn[i].a[1] THEN "yes" ELSE "no"
      [] OTHER -> "no"

rewrite_load_instruction(f, i, dominators) ==
    LET Src(p) == DefOf(f, p).a[1]
        g == replace_with_pseudo(f, i, Src(dominators[1]))
        h == IF \A k \in DOMAIN dominators : Src(dominators[k]) = Src(dominators[1])
             THEN FoldLeft(LAMBDA r, p : kill_instruction(r, p.n), g, dominators)
             ELSE [f EXCEPT !.insn[i] = [@ EXCEPT !.op = "phi", !.a = dominators]]
    IN  [h EXCEPT !.repeat = @ \union {"cse"}]

\* Walking back through the instructions before position k of a list: the
\* first that ends the search, and how ("none": the beginning was reached).
RECURSIVE SearchBack(_, _, _, _, _)
SearchBack(f, i, list, k, local) ==
    IF k = 0 THEN [how |-> "none", insn |-> 0]
    ELSE LET one == list[k]
             d == dominates(f, i, one, local)
         IN  CASE ~IsLive(f, one) -> SearchBack(f, i, list, k - 1, local)
               [] one = i -> [how |-> "none", insn |-> 0]
               [] d = "yes" -> [how |-> "found", insn |-> one]
               [] d = "unknown" /\ f.insn[one].op # "load" -> [how |-> "unknown", insn |-> 0]
               [] OTHER -> SearchBack(f, i, list, k - 1, local)

\* s: the function, the blocks of this generation, the phi-sources made so
\* far, and whether the search still goes on
RECURSIVE find_dominating_parents(_, _, _, _)
find_dominating_parents(s, i, b, local) ==
    LET Parent(r, p) ==
            LET end == SearchBack(r.f, i, r.f.insns[p], Len(r.f.insns[p]), local)
                src == NextId(r.f)
                g == insert_last_instruction(alloc_phisrc(r.f, Provides(r.f, end.insn)), p, src)
            IN  CASE ~r.ok -> r
                  [] end.how = "unknown" -> [r EXCEPT !.ok = FALSE]
                  [] end.how = "found" ->
                        [r EXCEPT !.f = [g EXCEPT !.node[src] = i],
                                  !.dominators = Append(@, Pseudo("phi", src))]
                  [] p \in r.gen -> r
                  [] OTHER -> find_dominating_parents([r EXCEPT !.gen = @ \union {p}], i, p, local)
    IN  FoldLeft(Parent, s, s.f.parents[b])

simplify_load(f, b, i, k, kinds) ==
    LET v == f.insn[i].a[1].n
        local == local_pseudo(f, v, kinds[v])
        near == SearchBack(f, i, f.insns[b], k - 1, local)
        far == find_dominating_parents(
                   [f |-> f, gen |-> {b}, dominators |-> <<>>, ok |-> TRUE], i, b, local)
        dropped == FoldLeft(LAMBDA g, p : kill_instruction(g, p.n), far.f, far.dominators)
    IN  CASE ~has_users(f, f.insn[i].target) -> kill_instruction(f, i)
          [] near.how = "found" -> replace_with_pseudo(f, i, Provides(f, near.insn))
          [] near.how = "unknown" -> f
          [] ~far.ok -> [dropped EXCEPT !.repeat = f.repeat]
          [] far.dominators # <<>> -> rewrite_load_instruction(far.f, i, far.dominators)
          [] local -> replace_with_pseudo(f, i, value_pseudo(0))
          [] OTHER -> f

\* the places of the loads, or stores, of a block, the last one first
Places(f, b, op) ==
    SelectSeq(Reverse([k \in DOMAIN f.insns[b] |-> k]),
              LAMBDA k : IsLive(f, f.insns[b][k]) /\ f.insn[f.insns[b][k]].op = op)

simplify_loads(f, b, kinds) ==
    LET One(g, k) == LET i == f.insns[b][k]
                     IN  IF IsLive(g, i) THEN simplify_load(g, b, i, k, kinds) ELSE g
    IN  FoldLeft(One, f, Places(f, b, "load"))

-----------------------------------------------------------------------------
(* kill_dominated_stores.  try_to_kill_store() says whether to look further. *)

try_to_kill_store(s, i, dom, local) ==
    LET f == s.f
        same == f.insn[i].a[2] = Provides(f, dom) /\ f.insn[i].bb = f.insn[dom].bb
    IN  CASE dominates(f, i, dom, local) = "no" -> s
          [] dominates(f, i, dom, local) = "unknown" -> [s EXCEPT !.go = FALSE]
          [] same -> [f |-> kill_instruction_force(f, i), go |-> FALSE]
          [] f.insn[dom].op = "load" -> [s EXCEPT !.go = FALSE]
          [] OTHER -> [s EXCEPT !.f = kill_instruction_force(f, dom)]

kill_dominated_store(f, b, i, k, kinds) ==
    LET v == f.insn[i].a[1].n
        local == local_pseudo(f, v, kinds[v])
        Try(s, dom) == IF ~s.go \/ ~IsLive(s.f, dom) THEN s
                       ELSE IF dom = i THEN [s EXCEPT !.go = FALSE]
                       ELSE try_to_kill_store(s, i, dom, local)
        near == FoldLeft(Try, [f |-> f, go |-> TRUE], Reverse(SubSeq(f.insns[b], 1, k - 1)))
        Parent(g, p) == IF Len(g.children[p]) # 1 THEN g
                        ELSE FoldLeft(Try, [f |-> g, go |-> TRUE], g.insns[p]).f
    IN  IF near.go THEN FoldLeft(Parent, near.f, near.f.parents[b]) ELSE near.f

kill_dominated_stores(f, b, kinds) ==
    LET One(g, k) == LET i == f.insns[b][k]
                     IN  IF IsLive(g, i) THEN kill_dominated_store(g, b, i, k, kinds) ELSE g
    IN  FoldLeft(One, f, Places(f, b, "store"))

\* the loops over the blocks, from the k-th one backwards
RECURSIVE LoadsFrom(_, _, _)
LoadsFrom(f, k, kinds) ==
    IF k \notin DOMAIN f.bbs THEN f
    ELSE LoadsFrom(simplify_loads(f, f.bbs[k], kinds), k - 1, kinds)

RECURSIVE StoresFrom(_, _, _)
StoresFrom(f, k, kinds) ==
    IF k \notin DOMAIN f.bbs THEN f
    ELSE StoresFrom(kill_dominated_stores(f, f.bbs[k], kinds), k - 1, kinds)

simplify_memops(f, kinds) ==
    LET n == Len(f.bbs)
        Dead(g, v) == IF kinds[v] = "static" THEN g
                      ELSE kill_dead_stores(g, v, local_pseudo(g, v, kinds[v]))
    IN  FoldLeft(Dead, StoresFrom(LoadsFrom(f, n, kinds), n, kinds), [v \in DOMAIN kinds |-> v])
=============================================================================
