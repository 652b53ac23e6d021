------------------------------- MODULE Ranges -------------------------------
(***************************************************************************)
(* Range lists (smatch_ranges.c): what smatch knows of a number is a list  *)
(* of ranges of svals, sorted and apart.  A list is a sequence here and    *)
(* the null pointer the empty one.                                         *)
(***************************************************************************)
EXTENDS Sval, Sequences

LOCAL INSTANCE SequencesExt

NULL == <<>>
NoType == IntType(0, FALSE)

alloc_range(min, max) == [min |-> min, max |-> max]

rl_min(rl) == IF rl = NULL THEN sval_type_min(llong_ctype) ELSE Head(rl).min
rl_max(rl) == IF rl = NULL THEN sval_type_max(llong_ctype) ELSE Last(rl).max
rl_type(rl) == IF rl = NULL THEN NoType ELSE rl_min(rl).type

\* rl_to_sval() answers, and the answer is rl_min().
IsKnown(rl) == rl # NULL /\ sval_cmp(rl_min(rl), rl_max(rl)) = 0
KnownZero(rl) == IsKnown(rl) /\ rl_min(rl).value = 0

is_whole_rl(rl) == rl # NULL /\ sval_is_min(Head(rl).min) /\ sval_is_max(Head(rl).max)

rl_is_sane(rl) == \A i \in DOMAIN rl : /\ sval_fits(rl_type(rl), rl[i].min)
                                       /\ sval_fits(rl_type(rl), rl[i].max)
                                       /\ sval_cmp(rl[i].min, rl[i].max) <= 0

rl_type_consistent(rl) ==
    \A i \in DOMAIN rl : rl[i].min.type = rl_type(rl) /\ rl[i].max.type = rl_type(rl)

add_one(sval) == [sval EXCEPT !.value = Stored(@ + 1)]
sub_one(sval) == [sval EXCEPT !.value = Stored(@ - 1)]

get_binop_type(left, right) == get_promoted_type(rl_type(left), rl_type(right))

-----------------------------------------------------------------------------
(* Union.                                                                  *)

\* A bug: ranges that touch stay apart.
NeverTouches(max, tmp) == FALSE

\* max is followed by the number that the range tmp begins with.
Touches(max, tmp) == ~sval_is_max(max) /\ add_one(max).value = tmp.min.value

\* add_range() once the new range is in the list: what it covers of the rest goes.
RECURSIVE CheckNext(_, _)
CheckNext(new, rest) ==
    IF rest = <<>> THEN <<new>>
    ELSE LET tmp == Head(rest)
         IN  IF Touches(new.max, tmp) THEN <<alloc_range(new.min, tmp.max)>> \o Tail(rest)
             ELSE IF sval_cmp(new.max, tmp.min) < 0 THEN <<new>> \o rest
             ELSE IF sval_cmp(new.max, tmp.max) <= 0 THEN <<alloc_range(new.min, tmp.max)>> \o Tail(rest)
             ELSE CheckNext(new, Tail(rest))

RECURSIVE AddToRanges(_, _, _)
AddToRanges(list, min, max) ==
    IF list = <<>> THEN <<alloc_range(min, max)>>
    ELSE LET tmp == Head(list)
         IN  IF Touches(max, tmp) THEN <<alloc_range(min, tmp.max)>> \o Tail(list)
             ELSE IF sval_cmp(max, tmp.min) < 0 THEN <<alloc_range(min, max)>> \o list
             ELSE IF sval_cmp(min, tmp.min) < 0
                  THEN IF sval_cmp(max, tmp.max) < 0
                       THEN <<alloc_range(min, tmp.max)>> \o Tail(list)
                       ELSE CheckNext(alloc_range(min, max), Tail(list))
             ELSE IF sval_cmp(max, tmp.max) <= 0 THEN list
             ELSE IF \/ sval_cmp(min, tmp.max) <= 0
                     \/ ~sval_is_min(min) /\ sub_one(min).value = tmp.max.value
                  THEN CheckNext(alloc_range(tmp.min, max), Tail(list))
             ELSE <<tmp>> \o AddToRanges(Tail(list), min, max)

\* A range that is upside down is the whole type.
AddSameType(list, min, max) ==
    IF sval_cmp(min, max) > 0
    THEN AddToRanges(list, sval_type_min(min.type), sval_type_max(min.type))
    ELSE AddToRanges(list, min, max)

sval_too_big(type, sval) ==
    /\ ~(type.bits >= IntBits /\ sval.type.bits <= type.bits)
    /\ uvalue(sval) > 2^type.bits - 1
    /\ IF sval.type.unsigned
       THEN uvalue(sval) > uvalue(sval_type_max(type))
       ELSE /\ ~(type.unsigned /\ uvalue(Num(type, -sval.value - 1)) <= uvalue(sval_type_max(type)))
            /\ \/ sval.value < sval_type_min(type).value
               \/ sval.value > sval_type_max(type).value

truncates_nicely(type, min, max) ==
    /\ type.bits < min.type.bits
    /\ uvalue(min) \div 2^type.bits = uvalue(max) \div 2^type.bits

AddCast(type, rl, min, max) == AddSameType(rl, sval_cast(type, min), sval_cast(type, max))

\* The end of add_range_t(): negative numbers that become high ones, then high
\* numbers that become negative, then whatever min and max are by now.
HighToNegative(type, rl, min, max) ==
    LET min2 == IF sval_is_negative(sval_cast(type, min)) THEN sval_cast(type, min) ELSE sval_type_min(type)
        low == IF sval_is_negative(sval_cast(type, min)) THEN rl
               ELSE AddSameType(rl, sval_cast(type, min), sval_type_max(type))
        both == AddSameType(low, min2, sval_cast(type, max))
    IN  IF max.type.unsigned /\ sval_is_negative(sval_cast(type, max))
        THEN AddCast(type, both, min2, max)
        ELSE AddCast(type, rl, min, max)

NegativeToHigh(type, rl, min, max) ==
    LET min2 == sval_cast(type, min)
        max2 == IF sval_is_negative(max) THEN sval_cast(type, max) ELSE sval_type_max(type)
        low == IF sval_is_negative(max) THEN rl ELSE AddSameType(rl, Num(type, 0), sval_cast(type, max))
    IN  HighToNegative(type, AddSameType(low, min2, max2), min2, max2)

add_range_t(type, rl, min, max) ==
    IF \/ sval_cmp(min, max) = 0
       \/ sval_fits(type, min) /\ sval_fits(type, max)
       \/ truncates_nicely(type, min, max)
    THEN AddCast(type, rl, min, max)
    ELSE IF \/ sval_too_big(type, min)
            \/ sval_too_big(type, max)
            \/ sval_is_negative(min) /\ type.unsigned /\ ~sval_is_negative(max) /\ sval_too_high(type, max)
    THEN AddSameType(rl, sval_type_min(type), sval_type_max(type))
    ELSE IF sval_is_negative(min) /\ type.unsigned
    THEN NegativeToHigh(type, rl, min, max)
    ELSE HighToNegative(type, rl, min, max)

alloc_rl(min, max) == AddSameType(NULL, min, max)
alloc_whole_rl(type) ==
    LET min == sval_type_min(type)  max == sval_type_max(type) IN alloc_rl(min, max)

cast_to_bool(rl) ==
    LET has_one == \E i \in DOMAIN rl : rl[i].min.value # 0 \/ rl[i].max.value # 0
        has_zero == \E i \in DOMAIN rl :
                       /\ ~(sval_is_negative(rl[i].min) /\ sval_is_negative(rl[i].max))
                       /\ \/ rl[i].min.value = 0
                          \/ rl[i].max.value = 0
                          \/ sval_is_negative(rl[i].min) /\ rl[i].max.value > 0
    IN  AddSameType(NULL, Num(bool_ctype, IF has_zero THEN 0 ELSE 1),
                          Num(bool_ctype, IF has_one THEN 1 ELSE 0))

cast_rl(type, rl) ==
    LET Add(ret, tmp) == add_range_t(type, ret, tmp.min, tmp.max)
    IN  IF rl = NULL THEN NULL
        ELSE IF ~rl_is_sane(rl) THEN alloc_whole_rl(type)
        ELSE IF type = rl_type(rl) /\ rl_type_consistent(rl) THEN rl
        ELSE IF type = bool_ctype THEN cast_to_bool(rl)
        ELSE FoldLeft(Add, NULL, rl)

rl_fits_in_type(rl, type) ==
    \/ rl_type(rl).bits <= type.bits
    \/ /\ sval_cmp(rl_max(rl), sval_type_max(type)) <= 0
       /\ ~(sval_is_negative(rl_min(rl)) /\ sval_cmp(rl_min(rl), sval_type_min(type)) < 0)

\* A list that was widened for a comparison goes back to the type of its expression.
rl_truncate_cast(type, rl) ==
    LET narrow == type.bits < rl_type(rl).bits
        low(sval) == IF narrow THEN Num(sval.type, uvalue(sval) % 2^type.bits) ELSE sval
        fit(r, sval) == IF sval_cmp(low(r.min), low(r.max)) > 0 THEN sval_cast(type, low(sval)) ELSE low(sval)
    IN  IF rl = NULL \/ type = rl_type(rl) THEN rl
        ELSE FoldLeft(LAMBDA ret, r : add_range_t(type, ret, fit(r, r.min), fit(r, r.max)), NULL, rl)

\* The wider of two types wins, the list's type if they are equally wide.
add_range(list, min, max) ==
    LET type == rl_type(list)
    IN  IF list = NULL \/ type = min.type THEN AddSameType(list, min, max)
        ELSE IF type.bits >= min.type.bits THEN AddCast(type, list, min, max)
        ELSE AddSameType(cast_rl(min.type, list), min, max)

rl_union(one, two) ==
    LET Add(ret, tmp) == add_range(ret, tmp.min, tmp.max)
    IN  FoldLeft(Add, NULL, one \o two)

-----------------------------------------------------------------------------
(* Difference and intersection.                                            *)

\* The loop of remove_range(): min and max move outwards as they are used.
RECURSIVE RemoveFrom(_, _, _, _)
RemoveFrom(list, min, max, ret) ==
    IF list = <<>> THEN ret
    ELSE LET tmp == Head(list)
             rest == Tail(list)
         IN  IF sval_cmp(tmp.max, min) < 0 \/ sval_cmp(tmp.min, max) > 0
             THEN RemoveFrom(rest, min, max, add_range(ret, tmp.min, tmp.max))
             ELSE IF sval_cmp(tmp.min, min) >= 0 /\ sval_cmp(tmp.max, max) <= 0
             THEN RemoveFrom(rest, min, max, ret)
             ELSE IF sval_cmp(tmp.min, min) >= 0
             THEN RemoveFrom(rest, min, add_one(max), add_range(ret, add_one(max), tmp.max))
             ELSE IF sval_cmp(tmp.max, max) <= 0
             THEN RemoveFrom(rest, sub_one(min), max, add_range(ret, tmp.min, sub_one(min)))
             ELSE RemoveFrom(rest, sub_one(min), add_one(max),
                             add_range(add_range(ret, tmp.min, sub_one(min)), add_one(max), tmp.max))

remove_range(list, min, max) ==
    LET one == sval_cast(rl_type(list), min)
        two == sval_cast(rl_type(list), max)
    IN  IF list = NULL THEN NULL
        ELSE IF sval_cmp(one, two) > 0 THEN RemoveFrom(list, two, one, NULL)
        ELSE RemoveFrom(list, one, two, NULL)

rl_filter(rl, filter) ==
    LET Cut(ret, tmp) == remove_range(ret, tmp.min, tmp.max)
    IN  FoldLeft(Cut, rl, filter)

RECURSIVE Intersect(_, _, _)
Intersect(one_rl, two_rl, ret) ==
    IF one_rl = <<>> \/ two_rl = <<>> THEN ret
    ELSE LET one == Head(one_rl)
             two == Head(two_rl)
             below == sval_cmp(one.min, two.min) < 0
             within == sval_cmp(one.max, two.max) <= 0
         IN  IF sval_cmp(one.max, two.min) < 0 THEN Intersect(Tail(one_rl), two_rl, ret)
             ELSE IF within
             THEN Intersect(Tail(one_rl), two_rl, add_range(ret, IF below THEN two.min ELSE one.min, one.max))
             ELSE IF below THEN Intersect(one_rl, Tail(two_rl), add_range(ret, two.min, two.max))
             ELSE IF sval_cmp(one.min, two.max) <= 0
             THEN Intersect(one_rl, Tail(two_rl), add_range(ret, one.min, two.max))
             ELSE Intersect(one_rl, Tail(two_rl), ret)

do_intersection(one_rl, two_rl) == Intersect(one_rl, two_rl, NULL)

rl_intersection(one, two) ==
    LET large_type == IF rl_type(two).bits < rl_type(one).bits THEN rl_type(one) ELSE rl_type(two)
    IN  IF one = NULL \/ two = NULL THEN NULL
        ELSE cast_rl(rl_type(one), do_intersection(cast_rl(large_type, one), cast_rl(large_type, two)))
=============================================================================
