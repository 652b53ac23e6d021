------------------------------ MODULE Simplify ------------------------------
(***************************************************************************)
(* The simplification of single instructions (simplify.c), as far as the    *)
(* control of the function depends on it: phi-nodes, selects, conditional   *)
(* branches and the death of unused instructions; and the elimination of    *)
(* common phi-nodes and selects (cse.c).  Constants are zero or one power  *)
(* of two, so that no shift is needed to get from one to another.           *)
(***************************************************************************)
EXTENDS Memops
LOCAL INSTANCE SequencesExt

is_zero(p) == p = value_pseudo(0)
is_pow2(p) == constant(p) /\ p.n > 0

\* the phi-sources of a node that are left
Sources(f, i) == SelectSeq(f.insn[i].a, LAMBDA p : p # VOID)

\* trivial_phi: r.p is the candidate (VOID: none yet), r.seen the nodes on the
\* way; the node is not trivial when r.ok is FALSE
RECURSIVE trivial_phi(_, _, _)
trivial_phi(f, r, i) ==
    LET target == f.insn[i].target
        One(s, phi) ==
            LET d == DefOf(f, phi)
                src == d.a[1]
            IN  CASE ~s.ok \/ d.bb = 0 \/ src \in {VOID, target} -> s
                  [] ~s.some -> [s EXCEPT !.p = src, !.some = TRUE]
                  [] src = s.p -> s
                  [] DEF_OPCODE(f, src) = "phi" ->
                        IF src \in s.seen THEN s ELSE trivial_phi(f, s, f.def[src.n])
                  [] OTHER -> [s EXCEPT !.ok = FALSE]
    IN  FoldLeft(One, [r EXCEPT !.seen = @ \union {target}], Sources(f, i))

phi_parent(f, source, p) ==
    IF \/ p.type = "reg" /\ DefOf(f, p).bb = source
       \/ Len(f.children[source]) # 1
       \/ Len(f.parents[source]) # 1
    THEN source ELSE Head(f.parents[source])

\* The select takes over the target of the phi-node.
insert_select(f, source, i, if_true, if_false) ==
    LET br == last_instruction(f, source)
        sel == Insn("sel", source, f.insn[i].target,
                    <<f.insn[br].a[1], if_true, if_false>>)
        g == insert_last_instruction(alloc_instruction(f, sel), source, NextId(f))
    IN  [g EXCEPT !.def[f.insn[i].target.n] = NextId(f)]

\* if_convert_phi, with the phi-sources of the node
ConvertList(f, i, list) ==
    LET b == f.insn[i].bb
        Src(k) == DefOf(f, list[k]).a[1]
        From(k) == DefOf(f, list[k]).bb
        source == phi_parent(f, From(1), Src(1))
        br == f.insn[last_instruction(f, source)]
        swap == br.t = From(2) \/ br.e = From(1)
    IN  IF /\ Len(list) = 2 /\ Len(f.parents[b]) = 2
           /\ f.parents[b] \in {<<From(1), From(2)>>, <<From(2), From(1)>>}
           /\ source = phi_parent(f, From(2), Src(2))
           /\ f.insns[source] # <<>> /\ br.op = "cbr"
        THEN [f |-> kill_instruction(
                       IF swap THEN insert_select(f, source, i, Src(2), Src(1))
                       ELSE insert_select(f, source, i, Src(1), Src(2)), i),
              changed |-> TRUE]
        ELSE [f |-> f, changed |-> FALSE]

if_convert_phi(f, i) == ConvertList(f, i, Sources(f, i))

clean_up_phi(f, i) ==
    LET r == trivial_phi(f, [p |-> VOID, some |-> FALSE, ok |-> TRUE, seen |-> {}], i)
    IN  IF r.ok THEN [f |-> replace_with_pseudo(f, i, r.p), changed |-> TRUE]
        ELSE if_convert_phi(f, i)

-----------------------------------------------------------------------------
one_use(f, p) == Cardinality(users(f, p)) <= 1

\* The select instruction i.  A condition that is itself a select of which one
\* side is not constant goes on to the case of OP_AND.
simplify_select(f, i) ==
    LET n == f.insn[i]
        cond == n.a[1]
        src1 == n.a[2]
        src2 == n.a[3]
        d == DefOf(f, cond)
        swapped == [f EXCEPT !.insn[i].a = <<cond, src2, src1>>]
        Becomes(p) == [f |-> replace_with_pseudo(f, i, p), changed |-> TRUE]
        WithCond(g) == [f |-> replace_pseudo(g, i, 1, d.a[1]), changed |-> TRUE]
    IN  CASE constant(cond) -> Becomes(IF cond.n # 0 THEN src1 ELSE src2)
          [] src1 = src2 -> Becomes(src1)
          [] cond = src2 /\ is_zero(src1) -> Becomes(src1)
          [] cond = src1 /\ is_zero(src2) -> Becomes(cond)
          [] DEF_OPCODE(f, cond) # "sel" -> [f |-> f, changed |-> FALSE]
          [] constant(d.a[2]) /\ constant(d.a[3]) ->
                IF is_zero(d.a[3])
                THEN IF src1 = d.a[2] /\ src2 = d.a[3] THEN Becomes(cond) ELSE WithCond(f)
                ELSE IF is_zero(d.a[2]) THEN WithCond(swapped) ELSE Becomes(src1)
          [] is_pow2(d.a[2]) /\ is_pow2(src1) /\ is_zero(src2) /\ one_use(f, cond)
             /\ d.a[2] = src1 -> Becomes(cond)
          [] OTHER -> [f |-> f, changed |-> FALSE]

simplify_branch(f, i) ==
    LET n == f.insn[i]
        cond == n.a[1]
        d == DefOf(f, cond)
        Jump(target) == [f |-> convert_to_jump(f, i, target), changed |-> TRUE]
        swapped == [f EXCEPT !.insn[i] = [@ EXCEPT !.t = n.e, !.e = n.t]]
    IN  CASE constant(cond) -> Jump(IF cond.n # 0 THEN n.t ELSE n.e)
          [] n.t = n.e -> Jump(n.t)
          [] DEF_OPCODE(f, cond) = "sel" /\ constant(d.a[2]) /\ constant(d.a[3]) ->
                IF is_zero(d.a[2]) = is_zero(d.a[3])
                THEN Jump(IF is_zero(d.a[2]) THEN n.e ELSE n.t)
                ELSE [f |-> replace_pseudo(IF is_zero(d.a[2]) THEN swapped ELSE f, i, 1, d.a[1]),
                      changed |-> TRUE]
          [] OTHER -> [f |-> f, changed |-> FALSE]

\* A bug: a call without users is changed again and again.
AlwaysChanged(op) == TRUE

\* What kill_insn() returns for an instruction without users: a call stays.
DeadChanges(op) == op # "call"

HasTarget == {"sel", "load", "phisrc", "phi", "call"}

simplify_instruction(f, i) ==
    LET n == f.insn[i]
    IN  CASE n.op \in HasTarget /\ ~has_users(f, n.target) ->
                [f |-> kill_instruction(f, i), changed |-> DeadChanges(n.op)]
          [] n.op = "phi" -> clean_up_phi(f, i)
          [] n.op = "sel" -> simplify_select(f, i)
          [] n.op = "cbr" -> simplify_branch(f, i)
          [] OTHER -> [f |-> f, changed |-> FALSE]

-----------------------------------------------------------------------------
(* Common subexpressions.  f.hash holds the instructions in the order they   *)
(* were collected, each with what its hash was taken from at that time.       *)
(* Later simplifications change operands, so that instructions which have     *)
(* become equal are compared only if their hashes collide.                    *)

\* repeat_phase |= simplify_instruction(insn)
Repeats(r) == IF r.changed THEN [r.f EXCEPT !.repeat = @ \union {"cse"}] ELSE r.f

Hashed(f, i) ==
    LET n == f.insn[i]
        list == Sources(f, i)
    IN  <<n.op, IF n.op = "phi"
                THEN [k \in DOMAIN list |-> <<DefOf(f, list[k]).a[1], DefOf(f, list[k]).bb>>]
                ELSE n.a>>

cse_collect(f, i) ==
    IF IsLive(f, i) /\ f.insn[i].op \in {"phi", "sel"}
    THEN [f EXCEPT !.hash = Append(@, [insn |-> i, hash |-> Hashed(f, i)])] ELSE f

clean_up_one_instruction(f, i) ==
    IF IsLive(f, i) THEN cse_collect(Repeats(simplify_instruction(f, i)), i) ELSE f

\* position k of the list of b and on; an instruction may be added to the list
RECURSIVE CleanBlock(_, _, _)
CleanBlock(f, b, k) ==
    IF k > Len(f.insns[b]) THEN f
    ELSE CleanBlock(clean_up_one_instruction(f, f.insns[b][k]), b, k + 1)

RECURSIVE CleanFrom(_, _)
CleanFrom(f, k) ==
    IF k \notin DOMAIN f.bbs THEN f ELSE CleanFrom(CleanBlock(f, f.bbs[k], 1), k + 1)

clean_up_insns(f) == CleanFrom(f, 1)

insn_compare(f, i, j) ==
    LET same_phi_list ==
            LET l1 == Sources(f, i)
                l2 == Sources(f, j)
            IN  /\ Len(l1) = Len(l2)
                /\ \A k \in DOMAIN l1 : /\ DefOf(f, l1[k]).a[1] = DefOf(f, l2[k]).a[1]
                                       /\ DefOf(f, l1[k]).bb = DefOf(f, l2[k]).bb
    IN  /\ f.insn[i].op = f.insn[j].op
        /\ IF f.insn[i].op = "phi" THEN same_phi_list ELSE f.insn[i].a = f.insn[j].a

cse_one_instruction(f, i, d) == replace_with_pseudo(f, i, f.insn[d].target)

trivial_common_parent(f, b1, b2) ==
    IF Len(f.parents[b1]) = 1 /\ f.parents[b2] = f.parents[b1] THEN f.parents[b1][1] ELSE 0

\* [f, last]: the function afterwards, and the instruction to compare the next with
try_to_cse(f, i1, i2) ==
    LET b1 == f.insn[i1].bb
        b2 == f.insn[i2].bb
        Position(i) == SelectInSeq(f.insns[b1], LAMBDA j : j = i)
        First == [f |-> cse_one_instruction(f, i2, i1), last |-> i1]
        Second == [f |-> cse_one_instruction(f, i1, i2), last |-> i2]
        common == trivial_common_parent(f, b1, b2)
        moved == [First.f EXCEPT !.insns[b1] = SelectSeq(@, LAMBDA j : j # i1)]
    IN  CASE b1 = b2 -> IF Position(i1) < Position(i2) THEN First ELSE Second
          [] b1 # b2 /\ domtree_dominates(f, b1, b2) -> First
          [] b1 # b2 /\ ~domtree_dominates(f, b1, b2) /\ domtree_dominates(f, b2, b1) -> Second
          [] OTHER -> IF common # 0
                      THEN [f |-> insert_last_instruction(moved, common, i1), last |-> i1]
                      ELSE [f |-> f, last |-> i2]

\* Sorting a bucket brings an instruction behind those it compares equal to.
RECURSIVE SortBucket(_, _)
SortBucket(f, bucket) ==
    IF bucket = <<>> THEN <<>>
    ELSE LET same == SelectSeq(bucket, LAMBDA i : insn_compare(f, bucket[1], i))
             rest == SelectSeq(bucket, LAMBDA i : ~insn_compare(f, bucket[1], i))
         IN  same \o SortBucket(f, rest)

EliminateBucket(f, bucket) ==
    LET One(s, i) ==
            IF ~IsLive(s.f, i) THEN s
            ELSE IF s.last # 0 /\ insn_compare(s.f, s.last, i)
            THEN try_to_cse(s.f, s.last, i)
            ELSE [s EXCEPT !.last = i]
    IN  FoldLeft(One, [f |-> f, last |-> 0], SortBucket(f, bucket)).f

\* the table in its buckets: one for each hash, or one for all when hashes collide
RECURSIVE Buckets(_, _)
Buckets(table, collide) ==
    IF table = <<>> THEN <<>>
    ELSE LET Together(e) == collide \/ e.hash = table[1].hash
             first == SelectSeq(table, Together)
         IN  <<[k \in DOMAIN first |-> first[k].insn]>>
                \o Buckets(SelectSeq(table, LAMBDA e : ~Together(e)), collide)

cse_eliminate(f, collide) ==
    FoldLeft(EliminateBucket, [f EXCEPT !.hash = <<>>], Buckets(f.hash, collide))
=============================================================================
