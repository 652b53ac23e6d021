--------------------------------- MODULE Ir ---------------------------------
(***************************************************************************)
(* The linearized form of a function (linearize.h) and the operations on it *)
(* that every pass of the back end uses: basic blocks with lists of their   *)
(* parents and children, instructions, pseudos, and the killing of all      *)
(* three (flow.c, simplify.c).                                              *)
(*                                                                          *)
(* A function is a record f:                                                *)
(*   bbs              ep->bbs                                               *)
(*   parents,children the lists of a block, an edge twice where it is double *)
(*   insns            bb->insns, numbers of instructions, killed ones too   *)
(*   ep               is bb->ep set (FALSE: a dead block)                   *)
(*   insn             the instructions; bb = 0 when killed; a holds the     *)
(*                    pseudos used, t and e are bb_true and bb_false        *)
(*   def              pseudo->def, by the number of the pseudo              *)
(*   node             phi_node of a phi-source                              *)
(*   idom, doms, dom_level   the dominance tree                             *)
(*   needs, defines   liveness                                              *)
(*   repeat           the flags of repeat_phase                             *)
(*   hash             the instructions of insn_hash_table                   *)
(*   torename, phi_var, phi_map, phis_all, phis_used, stores   those of ssa.c *)
(* The list of users of a pseudo is not kept: it is the set of the operands *)
(* that are equal to it.                                                    *)
(***************************************************************************)
EXTENDS Integers, Sequences, FiniteSets
LOCAL INSTANCE SequencesExt

Pseudo(type, n) == [type |-> type, n |-> n]
VOID == Pseudo("void", 0)
value_pseudo(k) == Pseudo("val", k)

has_use_list(p) == p.type \notin {"void", "undef", "val"}
has_definition(p) == p.type \in {"reg", "phi"}
constant(p) == p.type = "val"

users(f, p) ==
    { u \in (DOMAIN f.insn) \X (1..3) :
        u[2] \in DOMAIN f.insn[u[1]].a /\ f.insn[u[1]].a[u[2]] = p }

has_users(f, p) ==
    \E i \in DOMAIN f.insn : \E k \in DOMAIN f.insn[i].a : f.insn[i].a[k] = p

\* the instruction that defines p, and DEF_OPCODE
DefOf(f, p) == f.insn[f.def[p.n]]
DEF_OPCODE(f, p) == IF p.type = "reg" THEN DefOf(f, p).op ELSE "badop"

IsLive(f, i) == f.insn[i].bb # 0
Live(f, b) == SelectSeq(f.insns[b], LAMBDA i : IsLive(f, i))
last_instruction(f, b) == Last(f.insns[b])

Insn(op, b, target, operands) ==
    [op |-> op, bb |-> b, target |-> target, a |-> operands, t |-> 0, e |-> 0]

NextId(f) == Len(f.insn) + 1

\* a new instruction, not yet in a list; it defines the pseudo with its number
alloc_instruction(f, insn) ==
    [f EXCEPT !.insn = Append(@, insn), !.def = Append(@, NextId(f)),
              !.node = Append(@, 0)]

insert_last_instruction(f, b, i) ==
    [f EXCEPT !.insns[b] = Append(Append(Front(@), i), Last(@)),
              !.insn[i].bb = b]

alloc_phisrc(f, p) ==
    alloc_instruction(f, Insn("phisrc", 0, Pseudo("phi", NextId(f)), <<p>>))

\* link_phi: phi is the target of the phi-source with this number
link_phi(f, node, src) ==
    [f EXCEPT !.insn[node].a = Append(@, Pseudo("phi", src)),
              !.node[src] = node]

insert_phi_node(f, b) ==
    LET g == alloc_instruction(f, Insn("phi", b, Pseudo("reg", NextId(f)), <<>>))
        isPhi(i) == f.insn[i].op = "phi"
    IN  [g EXCEPT !.insns[b] = SelectSeq(@, isPhi) \o <<NextId(f)>>
                               \o SelectSeq(@, LAMBDA i : ~isPhi(i))]

-----------------------------------------------------------------------------
(* Uses and instructions that end.                                         *)

RECURSIVE kill_insn(_, _, _)

\* remove_use: without killing the definition
remove_use(f, i, k) == [f EXCEPT !.insn[i].a[k] = VOID]

kill_use(f, i, k) ==
    LET p == f.insn[i].a[k]
        g == remove_use(f, i, k)
    IN  IF has_definition(p) /\ ~has_users(g, p)
        THEN kill_insn(g, f.def[p.n], FALSE) ELSE g

kill_insn(f, i, force) ==
    LET op == f.insn[i].op
        uses == [k \in DOMAIN f.insn[i].a |-> k]
        g == IF op = "ret" THEN f
             ELSE FoldLeft(LAMBDA h, k : kill_use(h, i, k), f, uses)
    IN  IF ~IsLive(f, i) \/ op = "entry" \/ (~force /\ op \in {"call", "store"})
        THEN f
        ELSE [g EXCEPT !.insn[i].bb = 0, !.repeat = @ \union {"cse"}]

kill_instruction(f, i) == kill_insn(f, i, FALSE)
kill_instruction_force(f, i) == kill_insn(f, i, TRUE)

\* every use of the target becomes a use of p (SubSeq: TLC is to keep a tuple,
\* it mistakes the sequence when a function is updated and then appended to)
ReplaceUses(operands, old, p) == SubSeq(ReplaceAll(operands, old, p), 1, Len(operands))

convert_instruction_target(f, i, p) ==
    LET target == f.insn[i].target
    IN  [f EXCEPT !.insn = SubSeq(
            [j \in DOMAIN @ |-> [@[j] EXCEPT !.a = ReplaceUses(@, target, p)]], 1, Len(@))]

replace_with_pseudo(f, i, p) ==
    kill_instruction(convert_instruction_target(f, i, p), i)

replace_pseudo(f, i, k, p) ==
    LET old == f.insn[i].a[k]
        g == [f EXCEPT !.insn[i].a[k] = p]
    IN  IF has_definition(old) /\ ~has_users(g, old)
        THEN kill_insn(g, f.def[old.n], FALSE) ELSE g

-----------------------------------------------------------------------------
(* Edges and blocks that end.                                              *)

Without(list, b) == SelectSeq(list, LAMBDA c : c # b)

\* A bug: both edges of a double edge go.
RemoveBoth(list, b) == Without(list, b)

remove_bb_from_list(list, b) ==
    IF b \in ToSet(list) THEN RemoveAt(list, SelectInSeq(list, LAMBDA c : c = b)) ELSE list

replace_bb_in_list(list, old, new) ==
    IF old \in ToSet(list)
    THEN ReplaceAt(list, SelectInSeq(list, LAMBDA c : c = old), new) ELSE list

kill_defs(f, i) ==
    LET target == f.insn[i].target
    IN  IF has_use_list(target) /\ f.def[target.n] = i
        THEN convert_instruction_target(f, i, VOID) ELSE f

kill_bb(f, b) ==
    LET Kill(g, i) ==
            IF IsLive(g, i) THEN kill_defs(kill_instruction_force(g, i), i) ELSE g
        g == FoldLeft(Kill, f, f.insns[b])
    IN  [g EXCEPT !.insns[b] = <<>>,
                  !.parents = [c \in DOMAIN @ |->
                      IF c = b THEN <<>>
                      ELSE IF c \in ToSet(f.children[b]) THEN Without(@[c], b) ELSE @[c]],
                  !.children = [p \in DOMAIN @ |->
                      IF p = b THEN <<>>
                      ELSE IF p \in ToSet(f.parents[b]) THEN Without(@[p], b) ELSE @[p]]]

RECURSIVE mark_bb_reachable(_, _, _)
mark_bb_reachable(f, b, marked) ==
    IF b \in marked THEN marked
    ELSE FoldLeft(LAMBDA m, c : mark_bb_reachable(f, c, m), marked \union {b},
                  f.children[b])

Entry == 1

kill_unreachable_bbs(f) ==
    LET marked == mark_bb_reachable(f, Entry, {})
        Kill(g, b) == IF b \in marked THEN g
                      ELSE [kill_bb(g, b) EXCEPT !.ep[b] = FALSE]
        g == FoldLeft(Kill, f, f.bbs)
    IN  [g EXCEPT !.bbs = SelectSeq(@, LAMBDA b : b \in marked)]

\* the branch of b to old goes to new; side is "t" (bb_true) or "e" (bb_false)
CanRewrite(f, b, side, old, new) ==
    f.insn[last_instruction(f, b)][side] = old /\ new # old /\ f.ep[b]

rewrite_branch(f, b, side, old, new) ==
    IF ~CanRewrite(f, b, side, old, new) THEN f
    ELSE LET i == last_instruction(f, b)
             g == [f EXCEPT !.insn[i] = [@ EXCEPT ![side] = new],
                            !.children[b] = replace_bb_in_list(@, old, new),
                            !.parents[old] = remove_bb_from_list(@, b),
                            !.repeat = @ \union {"cse", "cfg"}]
         IN  [g EXCEPT !.parents[new] = Append(@, b)]

remove_phisources(f, par, old) ==
    LET live == Live(f, old)
        isPhi(i) == f.insn[i].op = "phi"
        first == SelectInSeq(live, LAMBDA i : ~isPhi(i))
        phis == IF first = 0 THEN live ELSE SubSeq(live, 1, first - 1)
        One(g, node) ==
            LET from == { k \in DOMAIN g.insn[node].a :
                            /\ g.insn[node].a[k] # VOID
                            /\ DefOf(g, g.insn[node].a[k]).bb = par }
                k == CHOOSE k \in from : \A l \in from : k <= l
                src == g.insn[node].a[k].n
            IN  IF from = {} THEN g
                ELSE [g EXCEPT !.insn[node].a[k] = VOID,
                               !.insn[src] = [@ EXCEPT !.a[1] = VOID, !.bb = 0]]
    IN  FoldLeft(One, f, phis)

\* The children that are no longer children: all but the first target.
DropOthers(f, b, target) ==
    LET list == f.children[b]
        kept == SelectInSeq(list, LAMBDA c : c = target)
        others == SelectSeq([k \in DOMAIN list |-> IF k = kept THEN 0 ELSE list[k]],
                            LAMBDA c : c # 0)
        g == FoldLeft(LAMBDA h, c : [h EXCEPT !.parents[c] = remove_bb_from_list(@, b)],
                      f, others)
    IN  [g EXCEPT !.children[b] = IF kept = 0 THEN <<>> ELSE <<target>>,
                  !.repeat = @ \union (IF others = <<>> THEN {} ELSE {"cfg"})]

convert_to_jump(f, i, target) ==
    LET n == f.insn[i]
        b == n.bb
        g == kill_use(remove_phisources(f, b, IF n.t = target THEN n.e ELSE n.t), i, 1)
        h == [g EXCEPT !.insn[i] = [@ EXCEPT !.t = target, !.e = 0, !.op = "br", !.a = <<>>],
                       !.repeat = @ \union {"cse"}]
    IN  DropOthers(h, b, target)

\* does rewrite_parent_branch() change anything
Rewritable(f, b, old, new) ==
    /\ f.insns[b] # <<>> /\ old # new
    /\ \E side \in {"t", "e"} : CanRewrite(f, b, side, old, new)

rewrite_parent_branch(f, b, old, new) ==
    rewrite_branch(rewrite_branch(f, b, "e", old, new), b, "t", old, new)

\* The loop over first_basic_block(bb->parents) of retarget_parents() and of
\* rewrite_branch_bb(): it ends early when a parent cannot be rewritten.
RECURSIVE RewriteParents(_, _, _)
RewriteParents(f, b, target) ==
    IF f.parents[b] = <<>> \/ ~Rewritable(f, Head(f.parents[b]), b, target) THEN f
    ELSE RewriteParents(rewrite_parent_branch(f, Head(f.parents[b]), b, target), b, target)
=============================================================================
