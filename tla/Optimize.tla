------------------------------ MODULE Optimize ------------------------------
(***************************************************************************)
(* The optimization of a function (optimize.c): the passes in their order,  *)
(* one action each, with the loops around them.  Afterwards the function    *)
(* that was written (prog) and the one that came out (f) are run side by    *)
(* side: whatever the calls give back, they make the same calls with the    *)
(* same arguments and end alike.                                            *)
(*                                                                          *)
(* prog.kinds are the kinds of its variables (Ssa); prog.code its blocks,   *)
(* each a sequence of statements of which the last one leaves the block:    *)
(*   set v to val; copy w to v; get v (v = call()); use v (call(v));         *)
(*   give v (call(&v)); ret; br t; if v then t else e; ask t or e            *)
(*   (if (call()))                                                           *)
(***************************************************************************)
EXTENDS Liveness
LOCAL INSTANCE SequencesExt

CONSTANTS Programs,     \* the functions that are optimized
          Inputs        \* what calls give back

VARIABLES prog, f, phase, ref, opt

vars == <<prog, f, phase, ref, opt>>

Undef == -1

Blocks == DOMAIN prog.code
Vars == DOMAIN prog.kinds
Static == { v \in Vars : prog.kinds[v] = "static" }

-----------------------------------------------------------------------------
(* The linearized function: linearize.c emits a load for each read and a     *)
(* store for each write.                                                     *)

EmptyFunction(n) ==
    LET none(x) == [b \in 1..n |-> x]
    IN  [bbs |-> [b \in 1..n |-> b], parents |-> none(<<>>), children |-> none(<<>>),
         insns |-> none(<<>>), ep |-> none(TRUE), insn |-> <<>>, def |-> <<>>, node |-> <<>>,
         idom |-> none(0), doms |-> none(<<>>), dom_level |-> none(0),
         needs |-> none({}), defines |-> none({}), repeat |-> {}, hash |-> <<>>,
         torename |-> {}, phi_var |-> <<>>, phi_map |-> <<>>, phis_all |-> <<>>,
         phis_used |-> <<>>, stores |-> <<>>]

add_one_insn(g, b, op, target, operands) ==
    [alloc_instruction(g, Insn(op, b, target, operands)) EXCEPT !.insns[b] = Append(@, NextId(g))]

add_edge(g, b, c) == [g EXCEPT !.children[b] = Append(@, c), !.parents[c] = Append(@, b)]

NewReg(g) == Pseudo("reg", NextId(g))
add_load(g, b, v) == add_one_insn(g, b, "load", NewReg(g), <<Sym(v)>>)
add_store(g, b, v, p) == add_one_insn(g, b, "store", VOID, <<Sym(v), p>>)
add_call(g, b, operands) == add_one_insn(g, b, "call", NewReg(g), operands)

add_goto(g, b, t) ==
    LET h == add_one_insn(g, b, "br", VOID, <<>>)
    IN  add_edge([h EXCEPT !.insn[NextId(g)].t = t], b, t)

add_branch(g, b, cond, t, e) ==
    LET h == add_one_insn(g, b, "cbr", VOID, <<cond>>)
    IN  add_edge(add_edge([h EXCEPT !.insn[NextId(g)].t = t, !.insn[NextId(g)].e = e], b, t), b, e)

LinearizeStatement(g, b, s) ==
    CASE s.op = "set" -> add_store(g, b, s.v, value_pseudo(s.val))
      [] s.op = "copy" -> add_store(add_load(g, b, s.w), b, s.v, NewReg(g))
      [] s.op = "get" -> add_store(add_call(g, b, <<>>), b, s.v, NewReg(g))
      [] s.op = "use" -> add_call(add_load(g, b, s.v), b, <<NewReg(g)>>)
      [] s.op = "give" -> add_call(g, b, <<Sym(s.v)>>)
      [] s.op = "ret" -> add_one_insn(g, b, "ret", VOID, <<>>)
      [] s.op = "br"  -> add_goto(g, b, s.t)
      [] s.op = "if"  -> add_branch(add_load(g, b, s.v), b, NewReg(g), s.t, s.e)
      [] s.op = "ask" -> add_branch(add_call(g, b, <<>>), b, NewReg(g), s.t, s.e)

linearize_fn(code) ==
    LET entry == add_one_insn(EmptyFunction(Len(code)), Entry, "entry", VOID, <<>>)
        Block(g, b) == FoldLeft(LAMBDA h, s : LinearizeStatement(h, b, s), g, code[b])
    IN  FoldLeft(Block, entry, [b \in DOMAIN code |-> b])

-----------------------------------------------------------------------------
(* Running.  A machine runs up to its next call, return, or silent loop.     *)

\* what others see of the memory, at a call and after the return: static
\* variables, and those whose address a call has got
Event(kind, val, m) ==
    LET seen == CASE kind = "call" -> Static \union m.out
                  [] kind = "ret" -> Static
                  [] OTHER -> {}
    IN  [kind |-> kind, val |-> val, view |-> [v \in seen |-> m.mem[v]]]

Fuel == 9 * Len(prog.code) + 1

\* m: the block and position of the next statement, the memory, and the
\* variables whose address is out
RECURSIVE RunSource(_, _)
RunSource(m, fuel) ==
    LET s == prog.code[m.b][m.k]
        Goto(b) == RunSource([m EXCEPT !.b = b, !.k = 1], fuel - 1)
        Call(val) == [m EXCEPT !.event = Event("call", val, m)]
    IN  CASE fuel = 0 -> [m EXCEPT !.event = Event("loop", 0, m)]
          [] s.op = "set" -> RunSource([m EXCEPT !.mem[s.v] = s.val, !.k = @ + 1], fuel)
          [] s.op = "copy" /\ m.mem[s.w] # Undef ->
                RunSource([m EXCEPT !.mem[s.v] = m.mem[s.w], !.k = @ + 1], fuel)
          [] s.op \in {"get", "ask"} -> Call(0)
          [] s.op = "give" -> LET n == [m EXCEPT !.out = @ \union {s.v}]
                              IN  [n EXCEPT !.event = Event("call", 0, n)]
          [] \/ s.op = "copy" /\ m.mem[s.w] = Undef
             \/ s.op \in {"use", "if"} /\ m.mem[s.v] = Undef ->
                [m EXCEPT !.event = Event("undef", 0, m)]
          [] s.op = "use" -> Call(m.mem[s.v])
          [] s.op = "ret" -> [m EXCEPT !.event = Event("ret", 0, m)]
          [] s.op = "br" -> Goto(s.t)
          [] OTHER -> Goto(IF m.mem[s.v] # 0 THEN s.t ELSE s.e)

\* what the call gives back goes where the statement says
ResumeSource(m, mem, input) ==
    LET s == prog.code[m.b][m.k]
        n == [m EXCEPT !.mem = mem, !.k = @ + 1]
    IN  CASE s.op = "get" -> RunSource([n EXCEPT !.mem[s.v] = input], Fuel)
          [] s.op \in {"use", "give"} -> RunSource(n, Fuel)
          [] s.op = "ask" -> RunSource([n EXCEPT !.b = IF input # 0 THEN s.t ELSE s.e, !.k = 1],
                                       Fuel)

Value(m, p) == CASE p.type = "val" -> p.n
                 [] p.type = "reg" /\ p.n \in DOMAIN m.reg -> m.reg[p.n]
                 [] OTHER -> Undef

Set(reg, n, val) == (n :> val) @@ reg

\* A phi-source puts its value where its node finds it (as unssa.c has it).
RECURSIVE RunCode(_, _)
RunCode(m, fuel) ==
    LET i == f.insns[m.b][m.k]
        n == f.insn[i]
        Next1 == [m EXCEPT !.k = @ + 1]
        Goto(b) == RunCode([m EXCEPT !.b = b, !.k = 1], fuel - 1)
        Define(val) == RunCode([Next1 EXCEPT !.reg = Set(@, n.target.n, val)], fuel)
        cond == Value(m, n.a[1])
    IN  CASE fuel = 0 -> [m EXCEPT !.event = Event("loop", 0, m)]
          [] m.k > Len(f.insns[m.b]) -> [m EXCEPT !.event = Event("lost", 0, m)]
          [] ~IsLive(f, i) \/ n.op = "entry" -> RunCode(Next1, fuel)
          [] n.op = "load" -> Define(m.mem[n.a[1].n])
          [] n.op = "store" -> RunCode([Next1 EXCEPT !.mem[n.a[1].n] = Value(m, n.a[2])], fuel)
          [] n.op = "phisrc" -> RunCode([Next1 EXCEPT !.phi = Set(@, f.node[i], cond)], fuel)
          [] n.op = "phi" -> Define(IF i \in DOMAIN m.phi THEN m.phi[i] ELSE Undef)
          [] n.op = "sel" -> Define(IF cond = Undef THEN Undef
                                    ELSE IF cond # 0 THEN Value(m, n.a[2]) ELSE Value(m, n.a[3]))
          [] n.op = "call" ->
                IF n.a # <<>> /\ n.a[1].type = "sym"
                THEN LET g == [m EXCEPT !.out = @ \union {n.a[1].n}]
                     IN  [g EXCEPT !.event = Event("call", 0, g)]
                ELSE [m EXCEPT !.event = Event("call", IF n.a = <<>> THEN 0 ELSE cond, m)]
          [] n.op = "ret" -> [m EXCEPT !.event = Event("ret", 0, m)]
          [] n.op = "br" -> Goto(n.t)
          [] cond = Undef -> [m EXCEPT !.event = Event("undef", 0, m)]
          [] OTHER -> Goto(IF cond # 0 THEN n.t ELSE n.e)

ResumeCode(m, mem, input) ==
    LET n == f.insn[f.insns[m.b][m.k]]
    IN  RunCode([m EXCEPT !.mem = mem, !.k = @ + 1, !.reg = Set(@, n.target.n, input)], Fuel)
-----------------------------------------------------------------------------
(* The passes.                                                             *)

\* Killed instructions are skipped by every loop; here they leave the lists.
Pack(g) == [g EXCEPT !.insns = [b \in DOMAIN @ |-> Live(g, b)]]

Idle == [event |-> [kind |-> "idle"]]

Init == /\ prog \in Programs
        /\ f = linearize_fn(prog.code)
        /\ phase = "unreachable"
        /\ ref = Idle /\ opt = Idle

Pass(from, to, g) ==
    /\ phase = from
    /\ phase' = to
    /\ f' = Pack(g)
    /\ UNCHANGED <<prog, ref, opt>>

Unreachable == Pass("unreachable", "early", kill_unreachable_bbs(f))

Early == LET r == simplify_cfg_early(cfg_postorder(f))
         IN  Pass("early", "domtree", IF r.changed THEN kill_unreachable_bbs(r.f) ELSE r.f)

Domtree == Pass("domtree", "ssa", domtree_build(f))

\* ssa_convert(), in three steps
Convert == Pass("ssa", "rename", ssa_convert_vars(f, prog.kinds))
RenameInsns == Pass("rename", "phis", ssa_rename_insns(f))
RenamePhis == Pass("phis", "memops", remove_dead_stores(ssa_rename_phis(f)))

\* the label repeat: and the beginning of the outer loop
FirstMemops == Pass("memops", "clean", simplify_memops(f, prog.kinds))

\* the inner loop, in two steps
CleanUp ==
    /\ phase = "clean"
    /\ \E g \in {clean_up_insns([f EXCEPT !.repeat = {}])} :
        Pass("clean", "cse", IF "cfg" \in g.repeat THEN kill_unreachable_bbs(g) ELSE g)

\* Hashes are taken from addresses: whether they collide is up to the allocator.
Eliminate ==
    /\ phase = "cse"
    /\ \E g \in {simplify_memops(cse_eliminate(f, collide), prog.kinds) : collide \in BOOLEAN} :
        Pass("cse", IF g.repeat # {} THEN "clean" ELSE "pack", g)

cleanup_cfg(g) == domtree_build(kill_unreachable_bbs(g))

PackBlocks ==
    /\ phase = "pack"
    /\ \E g \in {pack_basic_blocks(f)} :
        Pass("pack", IF g.repeat # {} THEN "memops" ELSE "liveness",
             IF "cfg" \in g.repeat THEN cleanup_cfg(g) ELSE g)

TrackLiveness == Pass("liveness", "flow", track_pseudo_liveness(f))

SimplifyFlow ==
    /\ phase = "flow"
    /\ \E r \in {simplify_flow(f)} :
        LET g == clear_liveness(r.f)
        IN  IF r.changed
            THEN Pass("flow", "memops", IF "cfg" \in g.repeat THEN cleanup_cfg(g) ELSE g)
            ELSE Pass("flow", "done", r.f)

Start ==
    /\ phase = "done"
    /\ phase' = "run"
    /\ \E mem \in [Static -> Inputs] :
         LET m == [b |-> Entry, k |-> 1, event |-> 0, out |-> {},
                   mem |-> mem @@ [v \in Vars |-> Undef]]
         IN  /\ ref' = RunSource(m, Fuel)
             /\ opt' = RunCode([reg |-> <<>>, phi |-> <<>>] @@ m, Fuel)
    /\ UNCHANGED <<prog, f>>

\* A call returns; it may have changed what it can reach.
Return ==
    /\ phase = "run"
    /\ ref.event.kind = "call" /\ opt.event.kind = "call"
    /\ \E input \in Inputs, mem \in [Static \union ref.out -> Inputs] :
          /\ ref' = ResumeSource(ref, mem @@ ref.mem, input)
          /\ opt' = ResumeCode(opt, mem @@ opt.mem, input)
    /\ UNCHANGED <<prog, f, phase>>

Next == \/ Unreachable \/ Early \/ Domtree \/ Convert \/ RenameInsns
        \/ RenamePhis \/ FirstMemops \/ CleanUp
        \/ Eliminate \/ PackBlocks \/ TrackLiveness \/ SimplifyFlow \/ Start \/ Return

Phases == {"unreachable", "early", "domtree", "ssa", "rename", "phis", "memops", "clean", "cse", "pack",
           "liveness", "flow", "done", "run"}

\* Every pass leads to another phase, and no phase but the last has none.
Advance == phase # "run" /\ phase' \in Phases

\* optimize() is sequential: it makes every step it can.
Spec == Init /\ [][Next]_vars /\ WF_phase(Advance)

-----------------------------------------------------------------------------
(* What is expected of the results of the passes, by paths.                  *)

Reachables == ToSet(f.bbs)
Times(list, x) == Cardinality({ k \in DOMAIN list : list[k] = x })

\* the blocks on paths from a set of blocks along succ, the blocks in avoid left out
RECURSIVE Closure(_, _, _)
Closure(succ, from, avoid) ==
    LET next == from \union ((UNION { ToSet(succ[b]) : b \in from }) \ avoid)
    IN  IF next = from THEN from ELSE Closure(succ, next, avoid)

\* every path from the entry to b passes through a
Dominates(a, b) == a = b \/ a = Entry \/ b \notin Closure(f.children, {Entry}, {a})

Frontier(alpha) ==
    { c \in Reachables : \E a \in alpha, p \in ToSet(f.parents[c]) :
          Dominates(a, p) /\ (a = c \/ ~Dominates(a, c)) }

RECURSIVE IteratedFrontier(_, _)
IteratedFrontier(alpha, idf) ==
    LET next == Frontier(alpha \union idf)
    IN  IF next = idf THEN idf ELSE IteratedFrontier(alpha, next)

Place(i) == SelectInSeq(f.insns[f.insn[i].bb], LAMBDA j : j = i)

\* d is executed before i, on every path to i
Before(d, i) ==
    IF f.insn[d].bb = f.insn[i].bb THEN Place(d) < Place(i)
    ELSE Dominates(f.insn[d].bb, f.insn[i].bb)

LiveInsns == UNION { ToSet(Live(f, b)) : b \in Reachables }

Prepared == {"early", "domtree", "ssa"}
Converted == {"memops", "clean", "cse", "pack", "liveness", "flow", "done"}

\* Between two passes every block that is left ends with the branch that its
\* children say, and the lists of parents and of children hold the same edges,
\* a double edge twice (rewrite_parent_branch() asserts that the branch of a
\* parent has the block as a target).
FlowConsistent ==
    phase \in Prepared \union Converted =>
        \A b \in Reachables :
            LET end == f.insn[last_instruction(f, b)]
                targets == CASE end.op = "br" -> <<end.t>>
                             [] end.op = "cbr" -> <<end.t, end.e>>
                             [] end.op = "ret" -> <<>>
            IN  /\ f.ep[b] /\ Live(f, b) # <<>> /\ end.op \in {"br", "cbr", "ret"}
                /\ \A c \in DOMAIN f.insns :
                      /\ Times(f.children[b], c) = Times(targets, c)
                      /\ Times(f.children[b], c) = Times(f.parents[c], b)

\* The dominance tree of domtree_build() is that of the paths.  Passes then
\* remove edges and merge blocks, and it is not built again each time: what it
\* says about the blocks that are left stays true, so that cse.c may use it.
DominatorsRight ==
    \A a, b \in Reachables :
        /\ phase = "ssa" => (domtree_dominates(f, a, b) <=> Dominates(a, b))
        /\ phase \in Converted /\ domtree_dominates(f, a, b) => Dominates(a, b)

\* idf_compute() finds the iterated dominance frontier of any set of blocks.
FrontierRight ==
    phase = "ssa" => \A alpha \in SUBSET Reachables :
        ToSet(idf_compute(f, SetToSeq(alpha))) = IteratedFrontier(alpha, {})

\* the variables that are set before anything else happens
SetAtEntry ==
    { v \in Vars : \E k \in DOMAIN prog.code[Entry] :
          prog.code[Entry][k].op \in {"set", "get"} /\ prog.code[Entry][k].v = v }

\* From ssa_convert() on a register that an instruction uses is the target of an
\* instruction that is still there and comes before it on every path (a local
\* that memops.c works on has to be initialized for that), and a phi node that is
\* used has a source in every parent of its block, so that it has a value however
\* it is reached.
\* This is less than SSA form.  Documentation/TODO.md:6 says "SSA is broken by
\* simplify_loads() & branches rewriting/simplification", and it is: the node that
\* memops.c makes of a load has its sources wherever the stores were, so such
\* functions are left out of the statement on nodes; and when a parent is
\* redirected past the block of a node, try_to_simplify_bb() drops the source of
\* that node only, so that the nodes of other variables keep a source in a block
\* that is no parent any more.  With one variable no such source is left.
DefsDominateUses ==
    phase \in Converted => \A i \in LiveInsns :
        LET n == f.insn[i]
            parents == ToSet(f.parents[n.bb])
            sources == { DefOf(f, p).bb : p \in { q \in ToSet(n.a) : q.type = "phi" } } \ {0}
        IN  /\ \A p \in ToSet(n.a) : p.type = "reg" =>
                  \/ IsLive(f, f.def[p.n]) /\ Before(f.def[p.n], i)
                  \/ \E v \in Vars \ SetAtEntry : prog.kinds[v] \in {"struct", "address"}
            /\ n.op = "phi" /\ (\A v \in Vars : prog.kinds[v] = "scalar") =>
                  /\ has_users(f, n.target) => parents \subseteq sources
                  /\ Cardinality(Vars) = 1 => sources \subseteq parents

\* needs: the pseudos that some path from the beginning of a block uses before
\* it defines them.
LivenessRight ==
    phase = "flow" => \A b \in Reachables : \A i \in LiveInsns :
        LET p == f.insn[i].target
            Uses == { c \in Reachables : \E j \in ToSet(Live(f, c)) :
                        p \in InsnUses(f, j) /\ insn_uses(f, c, p) }
            Defines == { c \in Reachables : \E j \in LiveInsns : <<c, p>> \in InsnDefines(f, j) }
            onward == [c \in DOMAIN f.children |-> IF c \in Defines THEN <<>> ELSE f.children[c]]
        IN  p.type = "reg" =>
                (p \in f.needs[b] <=> Closure(onward, {b}, {}) \intersect Uses # {})

\* Whatever the passes did, the function makes the same calls, with the same
\* arguments and the same memory in sight, and returns or loops as before.
\* Where the written program reads what was never set, anything will do.
SameBehaviour ==
    phase = "run" /\ ref.event.kind # "undef" =>
        /\ opt.event.kind = ref.event.kind
        /\ opt.event.val = ref.event.val
        /\ \A v \in DOMAIN ref.event.view :
              ref.event.view[v] \in {Undef, opt.event.view[v]}

\* optimize() ends.
Terminates == <>(phase = "run")
=============================================================================
