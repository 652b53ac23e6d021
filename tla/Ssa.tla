-------------------------------- MODULE Ssa ---------------------------------
(***************************************************************************)
(* Turning loads and stores of variables into pseudos: ssa.c, the dead      *)
(* stores of flow.c, and what memops.c does for the variables that ssa.c    *)
(* does not promote.                                                        *)
(*                                                                          *)
(* kind says what a variable is:                                            *)
(*   "scalar"  a local that is_promotable(), its address never taken        *)
(*   "struct"  a local that is not, its address never taken                 *)
(*   "address" a local whose address a call gets (MOD_ADDRESSABLE)          *)
(*   "static"  MOD_STATIC: calls read and write it, and it outlives the call *)
(* All accesses of a variable have the same size, offset and type.          *)
(***************************************************************************)
EXTENDS Flowgraph
LOCAL INSTANCE SequencesExt

Sym(v) == Pseudo("sym", v)

IsAccess(f, i) == f.insn[i].op \in {"load", "store"}
AccessOf(f, i, v) == IsLive(f, i) /\ IsAccess(f, i) /\ f.insn[i].a[1] = Sym(v)
Accesses(f, v) ==
    SelectSeq([i \in DOMAIN f.insn |-> i], LAMBDA i : AccessOf(f, i, v))

\* what a later load of the variable reads: insn->target of a store is a use,
\* that of a load or of a phi-node is its definition
Provides(f, i) == IF f.insn[i].op = "store" THEN f.insn[i].a[2] ELSE f.insn[i].target

\* undef_pseudo(): a new one at each call, like an instruction's number
undef_pseudo(i) == Pseudo("undef", i)

kill_store(f, i) == [f EXCEPT !.insn[i] = [@ EXCEPT !.a = <<VOID, VOID>>, !.bb = 0]]

rewrite_local_var(f, b, v) ==
    LET One(s, i) ==
            IF ~AccessOf(s.f, i, v) THEN s
            ELSE IF s.f.insn[i].op = "store" THEN [s EXCEPT !.store = i]
            ELSE [s EXCEPT !.f = replace_with_pseudo(@, i,
                     IF s.store = 0 THEN undef_pseudo(i) ELSE Provides(@, s.store))]
        end == FoldLeft(One, [f |-> f, store |-> 0], f.insns[b])
    IN  IF end.store = 0 THEN end.f ELSE kill_store(end.f, end.store)

-----------------------------------------------------------------------------
(* kill_dead_stores: backwards from the blocks where the function ends.     *)

\* s: the function, the blocks of this generation, and has a block been left
RECURSIVE kill_dead_stores_bb(_, _, _, _)
kill_dead_stores_bb(s, v, b, local) ==
    LET One(r, i) ==
            IF r.stop \/ ~IsLive(r.f, i) THEN r
            ELSE IF AccessOf(r.f, i, v)
                 THEN IF r.f.insn[i].op = "load" THEN [r EXCEPT !.stop = TRUE]
                      ELSE [r EXCEPT !.f = kill_instruction_force(@, i)]
            ELSE [r EXCEPT !.stop = ~local /\ r.f.insn[i].op = "call"]
        end == FoldLeft(One, [s EXCEPT !.gen = @ \union {b}], Reverse(s.f.insns[b]))
        Up(r, p) == IF Len(r.f.children[p]) > 1 THEN r
                    ELSE kill_dead_stores_bb(r, v, p, local)
    IN  IF b \in s.gen THEN s
        ELSE IF end.stop THEN [end EXCEPT !.stop = FALSE]
        ELSE FoldLeft(Up, end, end.f.parents[b])

kill_dead_stores(f, v, local) ==
    LET uses == users(f, Sym(v))
        only == CHOOSE u \in uses : TRUE
        One(s, b) == IF s.f.children[b] # <<>> THEN s
                     ELSE kill_dead_stores_bb(s, v, b, local)
    IN  CASE uses = {} -> f
          [] Cardinality(uses) = 1 /\ local /\ f.insn[only[1]].op = "store" ->
                kill_instruction_force(f, only[1])
          [] OTHER -> FoldLeft(One, [f |-> f, gen |-> {}, stop |-> FALSE], f.bbs).f

-----------------------------------------------------------------------------
(* ssa_convert.  In f: torename of a variable, phi_var of a node, phi_map of  *)
(* the blocks, and the lists phis_all, phis_used and stores.                  *)

ssa_convert_one_var(f, v, kind) ==
    LET accesses == Accesses(f, v)
        blocks == { f.insn[i].bb : i \in ToSet(accesses) }
        stored == SelectSeq(accesses, LAMBDA i : f.insn[i].op = "store")
        alpha == FoldLeft(LAMBDA l, i : IF f.insn[i].bb \in ToSet(l) THEN l
                                        ELSE Append(l, f.insn[i].bb), <<>>, stored)
        Insert(g, b) == [insert_phi_node(g, b) EXCEPT !.phi_var = @ @@ (NextId(g) :> v)]
        placed == FoldLeft(Insert, [f EXCEPT !.torename = @ \union {v}], idf_compute(f, alpha))
    IN  CASE users(f, Sym(v)) = {} \/ kind \in {"struct", "static"} -> f
          [] kind = "address" -> kill_dead_stores(f, v, FALSE)
          [] Cardinality(blocks) <= 1 ->
                IF blocks = {} THEN f ELSE rewrite_local_var(f, CHOOSE b \in blocks : TRUE, v)
          [] OTHER -> kill_dead_stores(placed, v, TRUE)

\* kinds is a sequence: the kinds of the variables, in the order of ep->accesses
ssa_convert_vars(f, kinds) ==
    FoldLeft(LAMBDA g, v : ssa_convert_one_var(g, v, kinds[v]), f, [v \in DOMAIN kinds |-> v])

\* the value of v at the end of b so far: its own definition or that of the
\* nearest block above it in the dominance tree; 0 is NULL
RECURSIVE lookup_var(_, _, _)
lookup_var(f, b, v) ==
    IF b = 0 THEN 0
    ELSE IF <<b, v>> \in DOMAIN f.phi_map THEN f.phi_map[<<b, v>>]
    ELSE lookup_var(f, f.idom[b], v)

phi_map_update(f, b, v, i) == [f EXCEPT !.phi_map = (<<b, v>> :> i) @@ @]

ssa_rename_insn(f, i) ==
    LET n == f.insn[i]
        v == IF n.op = "phi" THEN f.phi_var[i] ELSE n.a[1].n
        d == lookup_var(f, n.bb, v)
    IN  CASE v \notin f.torename -> f
          [] v \in f.torename /\ n.op = "phi" ->
                [phi_map_update(f, n.bb, v, i) EXCEPT !.phis_all = Append(@, i)]
          [] v \in f.torename /\ n.op = "store" ->
                [phi_map_update(f, n.bb, v, i) EXCEPT !.stores = Append(@, i)]
          [] v \in f.torename /\ n.op = "load" ->
                replace_with_pseudo(f, i, IF d = 0 THEN undef_pseudo(i) ELSE Provides(f, d))

\* in the order of the blocks; other instructions are left alone
ssa_rename_insns(f) ==
    LET Renamed(i) == IsLive(f, i) /\ f.insn[i].op \in {"phi", "load", "store"}
    IN  FoldLeft(ssa_rename_insn, f,
                 FlattenSeq([k \in DOMAIN f.bbs |-> SelectSeq(f.insns[f.bbs[k]], Renamed)]))

mark_phi_used(f, p) ==
    IF DEF_OPCODE(f, p) # "phi" \/ f.def[p.n] \in ToSet(f.phis_used) THEN f
    ELSE [f EXCEPT !.phis_used = Append(@, f.def[p.n])]

ssa_rename_phi(f, i) ==
    LET v == f.phi_var[i]
        Source(g, p) ==
            LET d == lookup_var(g, p, v)
                src == NextId(g)
                val == IF d = 0 THEN undef_pseudo(src) ELSE Provides(g, d)
            IN  mark_phi_used(
                    link_phi(insert_last_instruction(alloc_phisrc(g, val), p, src), i, src), val)
    IN  FoldLeft(Source, f, f.parents[f.insn[i].bb])

\* the list phis_used grows while it is walked
RECURSIVE RenameUsed(_, _)
RenameUsed(f, k) ==
    IF k > Len(f.phis_used) THEN f
    ELSE RenameUsed(IF IsLive(f, f.phis_used[k]) THEN ssa_rename_phi(f, f.phis_used[k]) ELSE f,
                    k + 1)

ssa_rename_phis(f) ==
    RenameUsed([f EXCEPT !.phis_used =
        SelectSeq(f.phis_all, LAMBDA i : has_users(f, f.insn[i].target))], 1)

\* the lists are not looked at afterwards
remove_dead_stores(f) ==
    [FoldLeft(kill_store, f, f.stores) EXCEPT
        !.torename = {}, !.phi_var = <<>>, !.phi_map = <<>>,
        !.phis_all = <<>>, !.phis_used = <<>>, !.stores = <<>>]
=============================================================================
