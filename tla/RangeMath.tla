----------------------------- MODULE RangeMath -----------------------------
(***************************************************************************)
(* Arithmetic and comparisons on range lists (smatch_ranges.c).  A result  *)
(* that is null means that nothing is known.                               *)
(***************************************************************************)
EXTENDS Ranges

LOCAL INSTANCE SequencesExt

Known(sval) == alloc_rl(sval, sval)
Zero(rl) == Num(rl_type(rl), 0)

\* The parts of a list below zero and from zero on.
get_neg_rl(rl) ==
    LET neg == SelectSeq(rl, LAMBDA r : sval_is_negative(r.min))
    IN  [i \in DOMAIN neg |-> IF sval_is_negative(neg[i].max) THEN neg[i] ELSE [neg[i] EXCEPT !.max.value = -1]]

get_pos_rl(rl) ==
    LET pos == SelectSeq(rl, LAMBDA r : ~sval_is_negative(r.max))
    IN  [i \in DOMAIN pos |-> IF sval_is_negative(pos[i].min) THEN [pos[i] EXCEPT !.min.value = 0] ELSE pos[i]]

has_negative_information(rl) ==
    /\ rl # NULL
    /\ sval_is_negative(Head(rl).min)
    /\ ~sval_is_min(Head(rl).min) \/ (sval_is_negative(Head(rl).max) /\ Head(rl).max.value # -1)

\* can't divide by zero
NonZero(rl) == rl_filter(rl, Known(Num(int_ctype, 0)))

\* A bug: the part with two negative operands is forgotten.
OtherParts(neg_neg, neg_pos, pos_neg, pos_pos) == rl_union(rl_union(neg_pos, pos_neg), pos_pos)

\* The four parts of a product, quotient or remainder, by the signs of the operands.
UnionOfParts(neg_neg, neg_pos, pos_neg, pos_pos) ==
    rl_union(rl_union(rl_union(neg_neg, neg_pos), pos_neg), pos_pos)

-----------------------------------------------------------------------------
divide_rl_helper(left, right, low_left, low_right, high_left, high_right) ==
    IF left = NULL \/ right = NULL THEN NULL
    ELSE alloc_rl(sval_binop(low_left, "/", low_right), sval_binop(high_left, "/", high_right))

rl_handle_divide(left, right) ==
    LET ln == get_neg_rl(left)  lp == get_pos_rl(left)
        rn == get_neg_rl(right) rp == NonZero(get_pos_rl(right))
    IN  IF KnownZero(left) THEN Known(rl_min(left))
        ELSE IF is_whole_rl(left) THEN NULL
        ELSE IF is_whole_rl(right) THEN left
        ELSE UnionOfParts(divide_rl_helper(ln, rn, rl_max(ln), rl_min(rn), rl_min(ln), rl_max(rn)),
                          divide_rl_helper(ln, rp, rl_min(ln), rl_min(rp), rl_max(ln), rl_max(rp)),
                          divide_rl_helper(lp, rn, rl_max(lp), rl_max(rn), rl_min(lp), rl_min(rn)),
                          divide_rl_helper(lp, rp, rl_min(lp), rl_max(rp), rl_max(lp), rl_min(rp)))

mult_rl_helper(left, right, low_left, low_right, high_left, high_right) ==
    IF left = NULL \/ right = NULL THEN NULL
    ELSE IF \/ sval_binop_overflows(low_left, "*", low_right)
            \/ sval_binop_overflows(high_left, "*", high_right)
    THEN alloc_whole_rl(rl_type(left))
    ELSE alloc_rl(sval_binop(low_left, "*", low_right), sval_binop(high_left, "*", high_right))

rl_handle_mult(left, right) ==
    LET ln == get_neg_rl(left)  lp == get_pos_rl(left)
        rn == get_neg_rl(right) rp == get_pos_rl(right)
    IN  IF KnownZero(left) THEN Known(rl_min(left))
        ELSE IF KnownZero(right) THEN Known(rl_min(right))
        ELSE IF is_whole_rl(left) \/ is_whole_rl(right) THEN NULL
        ELSE UnionOfParts(mult_rl_helper(ln, rn, rl_max(ln), rl_max(rn), rl_min(ln), rl_min(rn)),
                          mult_rl_helper(ln, rp, rl_min(ln), rl_max(rp), rl_max(ln), rl_min(rp)),
                          mult_rl_helper(lp, rn, rl_max(lp), rl_min(rn), rl_min(lp), rl_max(rn)),
                          mult_rl_helper(lp, rp, rl_min(lp), rl_min(rp), rl_max(lp), rl_max(rp)))

rl_handle_add(left, right) ==
    IF KnownZero(left) THEN right
    ELSE IF KnownZero(right) THEN left
    ELSE IF \/ sval_binop_overflows(rl_min(left), "+", rl_min(right))
            \/ sval_binop_overflows(rl_max(left), "+", rl_max(right))
    THEN NULL
    ELSE alloc_rl(sval_binop(rl_min(left), "+", rl_min(right)), sval_binop(rl_max(left), "+", rl_max(right)))

get_signed_equivalent(type) ==
    CASE type_positive_bits(type) = IntBits -> int_ctype
      [] type_positive_bits(type) = LongBits -> llong_ctype
      [] OTHER -> NoType

sub_rl_helper(left, right) ==
    IF left = NULL \/ right = NULL THEN NULL
    ELSE IF \/ sval_binop_overflows(rl_min(left), "-", rl_max(right))
            \/ sval_binop_overflows(rl_max(left), "-", rl_min(right))
    THEN alloc_whole_rl(rl_type(left))
    ELSE alloc_rl(sval_binop(rl_min(left), "-", rl_max(right)), sval_binop(rl_max(left), "-", rl_min(right)))

\* rl_handle_sub() with no comparison known between the operands.
rl_handle_sub(left_orig, right_orig) ==
    LET type == rl_type(left_orig)
        below == type.unsigned /\ sval_cmp(rl_min(left_orig), rl_max(right_orig)) < 0
        signed_type == get_signed_equivalent(type)
        left == IF below THEN cast_rl(signed_type, left_orig) ELSE left_orig
        right == IF below THEN cast_rl(signed_type, right_orig) ELSE right_orig
        ln == get_neg_rl(left)  lp == get_pos_rl(left)
        rn == get_neg_rl(right) rp == get_pos_rl(right)
    IN  IF KnownZero(right_orig) THEN left_orig
        ELSE IF is_whole_rl(left_orig) \/ is_whole_rl(right_orig) \/ (below /\ signed_type = NoType) THEN NULL
        ELSE IF \/ lp # NULL /\ sval_is_max(rl_max(lp))
                \/ rp # NULL /\ sval_is_max(rl_max(rp))
        THEN NULL
        ELSE cast_rl(type, UnionOfParts(sub_rl_helper(ln, rn), sub_rl_helper(ln, rp),
                                        sub_rl_helper(lp, rn), sub_rl_helper(lp, rp)))

-----------------------------------------------------------------------------
(* Bits.                                                                   *)

\* rl_to_binfo()->possible
PossibleBits(rl) == IF IsKnown(rl) THEN uvalue(rl_min(rl)) ELSE sval_fls_mask(rl_max(rl))

RECURSIVE ffsll(_)
ffsll(u) == IF u = 0 THEN 0 ELSE IF u % 2 = 1 THEN 1 ELSE 1 + ffsll(u \div 2)

\* A bug: the largest result comes from the largest operands.
OrOfMaxima(left, right) ==
    alloc_rl(Num(rl_type(left), 0), sval_binop(rl_max(left), "|", rl_max(right)))

\* 1 << n in an int: the processor shifts by n modulo the width, and the top bit is the sign.
IntShift(n) == Truncate(2^(n % IntBits), IntBits, FALSE)

\* One known side: the sum.  Otherwise from the lowest to the highest possible bit, or zero.
rl_handle_OR(left, right) ==
    LET low_bit == LET l == ffsll(PossibleBits(left))  r == ffsll(PossibleBits(right)) IN IF r > l THEN r ELSE l
        max == fls_mask(PossibleBits(left) | PossibleBits(right))
        ret == alloc_rl(Num(rl_type(left), IntShift(low_bit - 1)), Num(rl_type(left), max))
    IN  IF (IsKnown(left) \/ IsKnown(right)) /\ ~sval_binop_overflows(rl_max(left), "+", rl_max(right))
        THEN rl_handle_add(left, right)
        ELSE IF low_bit = 0 THEN NULL
        ELSE add_range(ret, Zero(left), Zero(left))

-----------------------------------------------------------------------------
(* Shifts, and all operators.                                              *)

\* Small types are shifted as unsigned numbers, then cast back.
rl_handle_lshift(left_orig, right_orig) ==
    LET shift == rl_min(right_orig)
        type == rl_type(left_orig)
        left == IF type_positive_bits(type) < IntBits THEN cast_rl(uint_ctype, left_orig)
                ELSE IF type_positive_bits(type) = LongBits - 1 THEN cast_rl(ullong_ctype, left_orig)
                ELSE left_orig
        room(r) == uvalue(sval_type_max(r.max.type)) \div 2^uvalue(shift)
        from(r) == IF r.min.value = 0 THEN Num(r.min.type, 1) ELSE r.min
        parts == SelectSeq(left, LAMBDA r : r.max.value # 0)
        ret == FoldLeft(LAMBDA acc, r : add_range(acc, sval_binop(from(r), "<<", shift), sval_binop(r.max, "<<", shift)),
                        NULL, parts)
        add_zero == \/ \E i \in DOMAIN left : left[i].min.value = 0 \/ uvalue(left[i].max) > room(left[i])
                    \/ ~rl_fits_in_type(ret, type)
    IN  IF ~IsKnown(right_orig) \/ sval_is_negative(shift) THEN NULL
        ELSE IF shift.value = 0 THEN left_orig
        ELSE IF add_zero THEN add_range(cast_rl(type, ret), Zero(left_orig), Zero(left_orig))
        ELSE cast_rl(type, ret)

rl_handle_rshift(left, right) ==
    LET shift == rl_min(right)
    IN  IF ~IsKnown(right) \/ sval_is_negative(shift) THEN NULL
        ELSE IF shift.value = 0 THEN left
        ELSE FoldLeft(LAMBDA acc, r : add_range(acc, sval_binop(r.min, ">>", shift), sval_binop(r.max, ">>", shift)),
                      NULL, left)

\* Up to MaxParts pairs of ranges are computed one by one.
MaxParts == 6

Pairs(left, right) ==
    FlattenSeq([i \in DOMAIN left |-> [j \in DOMAIN right |-> [l |-> left[i], r |-> right[j]]]])

ByParts(Handle(_, _), left, right) ==
    IF Len(left) * Len(right) > MaxParts THEN Handle(left, right)
    ELSE FoldLeft(LAMBDA ret, p : rl_union(ret, Handle(alloc_rl(p.l.min, p.l.max), alloc_rl(p.r.min, p.r.max))),
                  NULL, Pairs(left, right))

\* rl_binop(rl, '*', minus_one), as the remainder uses it.
Negate(rl) ==
    LET minus_one == Num(int_ctype, -1)
        type == get_promoted_type(rl_type(rl), int_ctype)
    IN  IF rl = NULL THEN NULL
        ELSE IF IsKnown(rl) THEN Known(sval_binop(rl_min(rl), "*", minus_one))
        ELSE ByParts(rl_handle_mult, cast_rl(type, rl), cast_rl(type, Known(minus_one)))

PosMod(left, right) ==
    LET max == sub_one(rl_max(right))
    IN  IF left = NULL \/ right = NULL THEN NULL
        ELSE IF sval_cmp(rl_max(left), max) < 0 THEN left
        ELSE alloc_rl(Zero(left), max)

rl_handle_mod(left, right) ==
    LET positive == ~has_negative_information(left) /\ ~has_negative_information(right)
        ln == IF positive THEN NULL ELSE get_neg_rl(left)
        rn == IF positive THEN NULL ELSE get_neg_rl(right)
        lp == get_pos_rl(left)
        rp == NonZero(get_pos_rl(right))
        low == IF sval_is_negative(rl_min(left)) THEN rl_min(left) ELSE Zero(left)
    IN  IF KnownZero(left) THEN Known(rl_min(left))
        ELSE IF is_whole_rl(right) THEN alloc_rl(low, rl_max(left))
        ELSE IF sval_is_max(rl_max(right)) THEN left
        ELSE UnionOfParts(PosMod(Negate(ln), NonZero(Negate(rn))), Negate(PosMod(Negate(ln), rp)),
                          Negate(PosMod(lp, NonZero(Negate(rn)))), PosMod(lp, rp))

rl_binop_helper(left, op, right) ==
    LET By(Handle(_, _)) == ByParts(Handle, left, right)
    IN  CASE op = "%" -> By(rl_handle_mod)
          [] op = "/" -> By(rl_handle_divide)
          [] op = "*" -> By(rl_handle_mult)
          [] op = "+" -> By(rl_handle_add)
          [] op = "-" -> By(rl_handle_sub)
          [] op = ">>" -> By(rl_handle_rshift)
          [] op = "<<" -> By(rl_handle_lshift)
          [] op = "|" -> By(rl_handle_OR)

rl_binop(left, op, right) ==
    LET cast_type == get_binop_type(left, right)
        promoted == IF type_positive_bits(rl_type(left)) < IntBits - 1 THEN cast_rl(int_ctype, left) ELSE left
    IN  IF left = NULL \/ right = NULL THEN NULL
        ELSE IF IsKnown(left) /\ IsKnown(right) THEN Known(sval_binop(rl_min(left), op, rl_min(right)))
        ELSE IF op \in {">>", "<<"} THEN rl_binop_helper(promoted, op, right)
        ELSE rl_binop_helper(cast_rl(cast_type, left), op, cast_rl(cast_type, right))

-----------------------------------------------------------------------------
(* Comparisons.                                                            *)

\* A bug: the ends of the ranges that are compared are the wrong ones.
CompareMaxima(left, comparison, right) ==
    CASE comparison \in {"<", "<="} -> sval_cmp(left.max, right.max) < 0
      [] comparison \in {">", ">="} -> sval_cmp(left.max, right.max) > 0
      [] OTHER -> TRUE

true_comparison_range(left, comparison, right) ==
    CASE comparison = "<" -> sval_cmp(left.min, right.max) < 0
      [] comparison = "<=" -> sval_cmp(left.min, right.max) <= 0
      [] comparison = "==" -> sval_cmp(left.max, right.min) >= 0 /\ sval_cmp(left.min, right.max) <= 0
      [] comparison = ">=" -> sval_cmp(left.max, right.min) >= 0
      [] comparison = ">" -> sval_cmp(left.max, right.min) > 0
      [] comparison = "!=" -> \/ sval_cmp(left.min, left.max) # 0
                              \/ sval_cmp(right.min, right.max) # 0
                              \/ sval_cmp(left.min, right.min) # 0

false_comparison_range_sval(left, comparison, right) ==
    CASE comparison = "<" -> sval_cmp(left.max, right.min) >= 0
      [] comparison = "<=" -> sval_cmp(left.max, right.min) > 0
      [] comparison = "==" -> \/ sval_cmp(left.min, left.max) # 0
                              \/ sval_cmp(right.min, right.max) # 0
                              \/ sval_cmp(left.min, right.min) # 0
      [] comparison = ">=" -> sval_cmp(left.min, right.max) < 0
      [] comparison = ">" -> sval_cmp(left.min, right.max) <= 0
      [] comparison = "!=" -> sval_cmp(left.max, right.min) >= 0 /\ sval_cmp(left.min, right.max) <= 0

possibly_true_rl(left, comparison, right) ==
    LET type == get_binop_type(left, right)
        one == cast_rl(type, left)
        two == cast_rl(type, right)
    IN  \/ left = NULL \/ right = NULL
        \/ \E i \in DOMAIN one, j \in DOMAIN two : true_comparison_range(one[i], comparison, two[j])

possibly_false_rl(left, comparison, right) ==
    LET type == get_binop_type(left, right)
        one == cast_rl(type, left)
        two == cast_rl(type, right)
    IN  \/ left = NULL \/ right = NULL
        \/ \E i \in DOMAIN one, j \in DOMAIN two : false_comparison_range_sval(one[i], comparison, two[j])

\* A bug: the number after it is kept.
AboveNext(rl, sval) ==
    IF sval_is_max(sval) THEN rl
    ELSE IF sval_is_max(add_one(sval)) THEN rl
    ELSE remove_range(rl, add_one(add_one(sval)), sval_type_max(sval.type))

\* remove_range() up to or from a number, the number itself included or not; nothing
\* is removed when the number is the last that there is.
Below(rl, sval) == IF sval_is_min(sval) THEN rl ELSE remove_range(rl, sval_type_min(sval.type), sub_one(sval))
Above(rl, sval) == IF sval_is_max(sval) THEN rl ELSE remove_range(rl, add_one(sval), sval_type_max(sval.type))
UpTo(rl, sval) == remove_range(rl, sval_type_min(sval.type), sval)
From(rl, sval) == remove_range(rl, sval, sval_type_max(sval.type))
Only(rl, sval) == remove_range(rl, sval, sval)

\* <= and >= remove once more the end that both sides share.
SharedEnd(rl, one, two) == IF sval_cmp(one, two) = 0 THEN Only(rl, one) ELSE rl

\* What is left of both operands, of one type, when the comparison is true and when it is false.
split_comparison_rl(left, op, right) ==
    LET lmin == rl_min(left)  lmax == rl_max(left)  rmin == rl_min(right)  rmax == rl_max(right)
        both == rl_intersection(left, right)
        lne == IF IsKnown(right) THEN Only(left, rmin) ELSE left
        rne == IF IsKnown(left) THEN Only(right, lmin) ELSE right
        split(lt, lf, rt, rf) == [left_true |-> lt, left_false |-> lf, right_true |-> rt, right_false |-> rf]
    IN  CASE op = "<" -> split(From(left, rmax), Below(left, rmin), UpTo(right, lmin), Above(right, lmax))
          [] op = "<=" -> split(Above(left, rmax), SharedEnd(UpTo(left, rmin), lmin, rmin),
                                Below(right, lmin), SharedEnd(From(right, lmax), lmax, rmax))
          [] op = "==" -> split(both, lne, both, rne)
          [] op = ">=" -> split(Below(left, rmin), SharedEnd(From(left, rmax), lmax, rmax),
                                Above(right, lmax), SharedEnd(UpTo(right, lmin), lmin, rmin))
          [] op = ">" -> split(UpTo(left, rmin), Above(left, rmax), From(right, lmax), Below(right, lmin))
          [] op = "!=" -> split(lne, both, rne, both)

\* The part of a list for which the comparison may be true.
filter_by_comparison(rl, comparison, right_orig) ==
    LET cast_type == get_binop_type(rl, right_orig)
        left == cast_rl(cast_type, rl)
        right == cast_rl(cast_type, right_orig)
        ret_rl == CASE comparison = "<" -> From(left, rl_max(right))
                    [] comparison = "<=" -> IF sval_is_max(rl_max(right)) THEN rl ELSE Above(left, rl_max(right))
                    [] comparison = "==" -> rl_intersection(left, right)
                    [] comparison = ">=" -> IF sval_is_min(rl_min(right)) THEN rl ELSE Below(left, rl_min(right))
                    [] comparison = ">" -> UpTo(left, rl_min(right))
                    [] comparison = "!=" -> IF IsKnown(right) THEN Only(left, rl_min(right)) ELSE rl
    IN  cast_rl(rl_type(rl), ret_rl)

\* A return value that is limited by an argument of the call.
filter_by_comparison_call(start_rl, comparison, right_orig) ==
    LET type == get_binop_type(start_rl, right_orig)
    IN  cast_rl(rl_type(start_rl),
                filter_by_comparison(cast_rl(type, start_rl), comparison, cast_rl(type, right_orig)))
=============================================================================
