------------------------------ MODULE Liveness ------------------------------
(***************************************************************************)
(* Which pseudos a block needs from its parents (liveness.c), and the       *)
(* simplifications of branches and blocks (flow.c) that use it or not.      *)
(***************************************************************************)
EXTENDS Simplify
LOCAL INSTANCE SequencesExt

trackable_pseudo(p) == p.type \in {"reg", "arg"}

\* The pseudos an instruction uses, and the blocks and pseudos it defines.
InsnUses(f, i) == CASE f.insn[i].op \in {"phi", "entry"} -> {}
                    [] OTHER -> ToSet(f.insn[i].a)

InsnDefines(f, i) ==
    LET n == f.insn[i]
    IN  CASE n.op = "phi" ->
                { <<DefOf(f, p).bb, n.target>> : p \in { q \in ToSet(Sources(f, i)) : DefOf(f, q).bb # 0 } }
          [] n.op \in {"sel", "load", "call"} /\ n.target # VOID -> {<<n.bb, n.target>>}
          [] OTHER -> {}

insn_uses(f, b, p) ==
    /\ trackable_pseudo(p)
    /\ p.type # "reg" \/ DefOf(f, p).bb # b \/ DefOf(f, p).op = "phi"

\* A bug: one round is enough.
LiveOnce(f) ==
    LET Parent(g, p, b) == [g EXCEPT !.needs[p] = @ \union (g.needs[b] \ g.defines[p])]
    IN  FoldLeft(LAMBDA g, b : FoldLeft(LAMBDA h, p : Parent(h, p, b), g, f.parents[b]),
                 f, Reverse(f.bbs))

RECURSIVE LiveFixpoint(_)
LiveFixpoint(f) ==
    LET Parent(g, p, b) == [g EXCEPT !.needs[p] = @ \union (g.needs[b] \ g.defines[p])]
        track_bb_liveness(g, b) == FoldLeft(LAMBDA h, p : Parent(h, p, b), g, f.parents[b])
        next == FoldLeft(track_bb_liveness, f, Reverse(f.bbs))
    IN  IF next.needs = f.needs THEN f ELSE LiveFixpoint(next)

track_pseudo_liveness(f) ==
    LET live == UNION { ToSet(Live(f, b)) : b \in ToSet(f.bbs) }
        defined == UNION { InsnDefines(f, i) : i \in live }
        start == [f EXCEPT
            !.needs = [b \in DOMAIN @ |-> @[b] \union
                UNION { { p \in InsnUses(f, i) : insn_uses(f, b, p) } : i \in ToSet(Live(f, b)) }],
            !.defines = [b \in DOMAIN @ |-> @[b] \union { d[2] : d \in { e \in defined : e[1] = b } }]]
        end == LiveFixpoint(start)
    IN  [end EXCEPT !.defines = [b \in DOMAIN @ |->
            { p \in @[b] : \E c \in ToSet(f.children[b]) : p \in end.needs[c] }]]

clear_liveness(f) ==
    LET Clear(lists) == [b \in DOMAIN lists |-> IF b \in ToSet(f.bbs) THEN {} ELSE lists[b]]
    IN  [f EXCEPT !.needs = Clear(@), !.defines = Clear(@)]

-----------------------------------------------------------------------------
(* Branches to branches: simplify_flow.                                     *)

\* bb_depends_on
bb_depends_on(f, target, src) == f.defines[src] \intersect f.needs[target] # {}

\* A bug: phi nodes are left to liveness, which does not know them.
LivenessOnly(f, target, src) == bb_depends_on(f, target, src)

bb_depends_on_phi(f, target, src) ==
    \E i \in ToSet(Live(f, src)) : f.insn[i].op = "phi" /\ f.insn[i].target \in f.needs[target]

bb_has_side_effects(f, b) == \E i \in ToSet(Live(f, b)) : f.insn[i].op \in {"call", "store"}

\* the parents, in order, are the blocks of the phi-sources
phi_check(f, node) ==
    LET list == Sources(f, node)
    IN  [k \in DOMAIN list |-> DefOf(f, list[k]).bb] = f.parents[f.insn[node].bb]

\* the loop over the phi-sources of first, the condition of the branch of b
try_to_simplify_bb(f, b, first, br) ==
    LET bogus == ~phi_check(f, first)
        One(s, k) ==
            LET g == s.f
                phi == g.insn[first].a[k]
                src == DefOf(g, phi)
                end == g.insn[last_instruction(g, src.bb)]
                target == IF src.a[1].n # 0 THEN g.insn[br].t ELSE g.insn[br].e
                h == rewrite_branch(rewrite_branch(g, src.bb, "t", b, target),
                                    src.bb, "e", b, target)
                changed == \/ s.changed
                           \/ \E side \in {"t", "e"} : CanRewrite(g, src.bb, side, b, target)
            IN  IF \/ phi = VOID \/ src.bb = 0 \/ ~constant(src.a[1])
                   \/ end.op \notin {"cbr", "br"}
                   \/ bb_depends_on(g, target, b) \/ bb_depends_on_phi(g, target, b)
                THEN s
                ELSE [f |-> IF changed /\ ~bogus THEN kill_use(h, first, k) ELSE h,
                      changed |-> changed]
    IN  FoldLeft(One, [f |-> f, changed |-> FALSE], [k \in DOMAIN f.insn[first].a |-> k])

simplify_phi_branch(f, b, br) ==
    LET cond == f.insn[br].a[1]
    IN  IF DEF_OPCODE(f, cond) = "phi" /\ DefOf(f, cond).bb = b /\ ~bb_has_side_effects(f, b)
        THEN try_to_simplify_bb(f, b, f.def[cond.n], br)
        ELSE [f |-> f, changed |-> FALSE]

simplify_branch_branch(f, b, br, side) ==
    LET target == f.insn[br][side]
        i == last_instruction(f, target)
        final == f.insn[i][side]
    IN  CASE \/ target = b \/ f.insns[target] = <<>>
             \/ f.insn[i].op # "cbr" \/ f.insn[i].a # f.insn[br].a -> [f |-> f, changed |-> FALSE]
          [] bb_has_side_effects(f, target) \/ bb_depends_on(f, final, target) ->
                IF Len(f.parents[target]) # 1 THEN [f |-> f, changed |-> FALSE]
                ELSE [f |-> convert_to_jump(f, i, final), changed |-> TRUE]
          [] bb_depends_on_phi(f, final, target) -> [f |-> f, changed |-> FALSE]
          [] OTHER -> [f |-> rewrite_branch(f, b, side, target, final),
                       changed |-> CanRewrite(f, b, side, target, final)]

simplify_one_branch(f, b, br) ==
    LET phi == simplify_phi_branch(f, b, br)
        true == simplify_branch_branch(f, b, br, "t")
        false == simplify_branch_branch(true.f, b, br, "e")
    IN  IF phi.changed THEN phi
        ELSE [f |-> false.f, changed |-> true.changed \/ false.changed]

\* the loop over the blocks, from the k-th one on
RECURSIVE FlowFrom(_, _)
FlowFrom(s, k) ==
    LET b == s.f.bbs[k]
        br == last_instruction(s.f, b)
        r == simplify_one_branch(s.f, b, br)
    IN  IF k \notin DOMAIN s.f.bbs THEN s
        ELSE IF s.f.insns[b] = <<>> \/ s.f.insn[br].op # "cbr" THEN FlowFrom(s, k + 1)
        ELSE FlowFrom([f |-> r.f, changed |-> s.changed \/ r.changed], k + 1)

simplify_flow(f) == FlowFrom([f |-> f, changed |-> FALSE], 1)

-----------------------------------------------------------------------------
(* Blocks into blocks: simplify_cfg_early and pack_basic_blocks.            *)

\* Only branches and nothing else that is alive.
bb_is_forwarder(f, b) ==
    LET live == Live(f, b) IN live # <<>> /\ f.insn[live[1]].op \in {"br", "cbr"}

retarget_parents(f, b, target) ==
    LET g == RewriteParents(f, b, target)
    IN  IF g.parents[b] # <<>> THEN [f |-> g, changed |-> FALSE]
        ELSE [f |-> kill_bb(g, b), changed |-> TRUE]

remove_merging_phisrc(f, i, bot) ==
    LET node == f.node[i]
    IN  IF node = 0 \/ \E p \in ToSet(Sources(f, node)) : DefOf(f, p).bb = bot
        THEN kill_instruction(f, i) ELSE f

remove_merging_phi(f, top, i) ==
    LET One(g, k) ==
            LET p == g.insn[i].a[k]
                d == DefOf(g, p)
            IN  IF p = VOID \/ d.bb # top THEN g
                ELSE kill_instruction(
                        kill_instruction(convert_instruction_target(g, i, d.a[1]), p.n), i)
    IN  FoldLeft(One, f, [k \in DOMAIN f.insn[i].a |-> k])

merge_bb(f, top, bot) ==
    LET Parents(g, c) == [g EXCEPT !.parents[c] = replace_bb_in_list(@, bot, top)]
        edges == FoldLeft(Parents, [f EXCEPT !.children[top] = f.children[bot],
                                             !.children[bot] = <<>>, !.parents[bot] = <<>>],
                          f.children[bot])
        PhiSrc(g, i) == IF IsLive(g, i) /\ g.insn[i].op = "phisrc"
                        THEN remove_merging_phisrc(g, i, bot) ELSE g
        sources == FoldLeft(PhiSrc, edges, f.insns[top])
        jump == [kill_instruction(sources, last_instruction(f, top))
                    EXCEPT !.insns[top] = Front(@)]
        Move(g, i) == CASE ~IsLive(g, i) -> g
                        [] g.insn[i].op = "phi" -> remove_merging_phi(g, top, i)
                        [] OTHER -> [g EXCEPT !.insns[top] = Append(@, i), !.insn[i].bb = top]
        moved == FoldLeft(Move, jump, f.insns[bot])
    IN  IF top = bot THEN f
        ELSE [moved EXCEPT !.insns[bot] = <<>>, !.ep[bot] = FALSE]

\* one round of the loop; changed: the result of simplify_cfg_early()
EarlyBlock(s, b) ==
    LET g == s.f
        br == g.insn[last_instruction(g, b)]
        r == retarget_parents(g, b, br.t)
    IN  CASE ~g.ep[b] -> [f |-> [g EXCEPT !.bbs = Without(@, b)], changed |-> TRUE]
          [] g.ep[b] /\ (g.insns[b] = <<>> \/ br.op # "br") -> s
          [] OTHER ->
                IF bb_is_forwarder(g, b)
                THEN [f |-> r.f, changed |-> s.changed \/ r.changed]
                ELSE IF Len(g.parents[br.t]) = 1
                THEN [f |-> merge_bb(g, b, br.t), changed |-> s.changed \/ b # br.t]
                ELSE s

\* The loop goes backwards: DELETE_CURRENT_PTR() moves it past one more block.
RECURSIVE EarlyFrom(_, _)
EarlyFrom(s, k) ==
    IF k \notin DOMAIN s.f.bbs THEN s
    ELSE LET r == EarlyBlock(s, s.f.bbs[k])
         IN  EarlyFrom(r, IF Len(r.f.bbs) < Len(s.f.bbs) THEN k - 2 ELSE k - 1)

simplify_cfg_early(f) == EarlyFrom([f |-> f, changed |-> FALSE], Len(f.bbs))

\* rewrite_branch_bb: a block that is only a branch with a known target
KnownTarget(f, i) ==
    LET n == f.insn[i]
    IN  CASE n.op = "br" -> n.t
          [] constant(n.a[1]) -> IF n.a[1].n # 0 THEN n.t ELSE n.e
          [] OTHER -> 0

PackBlock(f, b) ==
    LET live == Live(f, b)
        target == KnownTarget(f, live[1])
        rewritten == RewriteParents(f, b, target)
        Merge(g) ==
            LET p == Head(g.parents[b])
            IN  IF /\ g.parents[b] # <<>> /\ ToSet(g.parents[b]) = {p} /\ p # b
                   /\ ToSet(g.children[p]) = {b}
                THEN [merge_bb(g, p, b) EXCEPT !.repeat = @ \union {"cfg"}] ELSE g
    IN  IF live # <<>> /\ f.insn[live[1]].op \in {"br", "cbr"} /\ target # 0
        THEN IF rewritten.parents[b] = <<>> THEN kill_bb(rewritten, b) ELSE Merge(rewritten)
        ELSE Merge(f)

RECURSIVE PackFrom(_, _)
PackFrom(f, k) == IF k \notin DOMAIN f.bbs THEN f ELSE PackFrom(PackBlock(f, f.bbs[k]), k + 1)

pack_basic_blocks(f) == PackFrom(f, 1)
=============================================================================
