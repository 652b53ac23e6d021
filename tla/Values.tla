------------------------------- MODULE Values -------------------------------
(***************************************************************************)
(* What smatch knows of two variables, next to what they really hold.      *)
(* x and y are the range lists that smatch_extra.c keeps, real_x and       *)
(* real_y the values that the variables have when they are unrelated: the  *)
(* analysis never reads them.  An action is a statement of the program     *)
(* that is analysed.  The operations on lists are parameters: the ones of  *)
(* modules Ranges and RangeMath are the values that TLC gives them.        *)
(***************************************************************************)
EXTENDS Ranges

CONSTANTS Starts,       \* [x, y, ops, steps]: lists to start from, which operations follow and how many
          Comparisons,
          Casts,        \* pairs of types
          \* rl_union(), rl_filter() and rl_intersection()
          Union(_, _), Without(_, _), Meet(_, _),
          \* cast_rl(), rl_truncate_cast() and alloc_whole_rl()
          Convert(_, _), ConvertBack(_, _), Whole(_),
          \* split_comparison_rl() and filter_by_comparison_call()
          Split(_, _, _), Limited(_, _, _),
          \* possibly_true_rl() and possibly_false_rl()
          PossiblyTrue(_, _, _), PossiblyFalse(_, _, _),
          \* rl_binop(), and rl_binop_helper() on operands of its type
          Binop(_, _, _), BinopHelper(_, _, _)

VARIABLES x, y, real_x, real_y, ops, trust, steps

vars == <<x, y, real_x, real_y, ops, trust, steps>>

-----------------------------------------------------------------------------
\* The numbers that a list stands for.
Denotes(rl) == UNION {Meaning(rl[i].min) .. Meaning(rl[i].max) : i \in DOMAIN rl}

\* What C does with numbers.  A conversion keeps the low bits, or, to _Bool, the truth.
CConvert(type, n) ==
    IF type = bool_ctype THEN IF n = 0 THEN 0 ELSE 1 ELSE Truncate(n, type.bits, type.unsigned)

\* The type in which an operation is done: a shift promotes its left operand alone.
CType(op, left, right) == get_promoted_type(left, IF op \in {"<<", ">>"} THEN int_ctype ELSE right)

\* The operation on operands of that type.
CBinop(type, l, op, r) ==
    LET bits(n) == n % 2^type.bits
    IN  CConvert(type, CASE op = "+" -> l + r
                         [] op = "-" -> l - r
                         [] op = "*" -> l * r
                         [] op = "/" -> Quotient(l, r)
                         [] op = "%" -> Remainder(l, r)
                         [] op = "|" -> bits(l) | bits(r)
                         [] op = "<<" -> l * 2^r
                         [] op = ">>" -> l \div 2^r)

\* Operands for which C says what happens: no division by zero, no shift by the
\* width or more, no signed overflow.
CDefined(type, l, op, r) ==
    CASE op \in {"+", "-", "*"} -> type.unsigned \/ Exactly(l, op, r) \in TypeMeanings(type)
      [] op \in {"/", "%"} -> r # 0 /\ (type.unsigned \/ Quotient(l, r) \in TypeMeanings(type))
      [] op \in {"<<", ">>"} -> r \in 0 .. (type.bits - 1)
      [] OTHER -> TRUE

\* Some number of one set compares so with some number of the other.
SomeCompare(ls, op, rs) ==
    CASE op = "<"  -> \E l \in ls, r \in rs : l < r
      [] op = "<=" -> \E l \in ls, r \in rs : l <= r
      [] op = "==" -> \E l \in ls, r \in rs : l = r
      [] op = "!=" -> \E l \in ls, r \in rs : l # r
      [] op = ">=" -> \E l \in ls, r \in rs : l >= r
      [] op = ">"  -> \E l \in ls, r \in rs : l > r

Negated == [op \in {"<", "<=", "==", "!=", ">=", ">"} |->
                CASE op = "<" -> ">="  [] op = "<=" -> ">"  [] op = "==" -> "!="
                  [] op = "!=" -> "==" [] op = ">=" -> "<"  [] op = ">" -> "<="]

-----------------------------------------------------------------------------
Init ==
    /\ \E s \in Starts : x = s.x /\ y = s.y /\ ops = s.ops /\ steps = s.steps
    /\ real_x = Denotes(x)
    /\ real_y = Denotes(y)
    /\ trust = "exact"

Step == /\ steps > 0
        /\ steps' = steps - 1
        /\ x # NULL /\ y # NULL
        /\ trust # "bound"
        /\ UNCHANGED ops

\* What can be said of the lists: that they hold all values and no other, all values, or
\* none above their end.
Less(kept) == IF kept THEN trust ELSE "sound"

\* Paths meet: x has its value or that of y.
Merge ==
    /\ Step /\ "merge" \in ops
    /\ x' = Union(x, y)
    /\ real_x' = {CConvert(rl_type(x'), n) : n \in real_x \cup real_y}
    /\ trust' = Less(rl_type(x) = rl_type(y))
    /\ UNCHANGED <<y, real_y>>

\* What x can be when it is none, or one, of the values that y can be.
Filter ==
    /\ Step /\ "filter" \in ops /\ rl_type(x) = rl_type(y)
    /\ x' = Without(x, y)
    /\ real_x' = real_x \ Denotes(y)
    /\ UNCHANGED <<y, real_y, trust>>

Intersection ==
    /\ Step /\ "intersection" \in ops /\ rl_type(x) = rl_type(y)
    /\ x' = Meet(x, y)
    /\ real_x' = real_x \cap Denotes(y)
    /\ UNCHANGED <<y, real_y, trust>>

\* y = x, by way of a cast.
Cast(type) ==
    /\ Step /\ "cast" \in ops /\ <<rl_type(x), type>> \in Casts
    /\ y' = Convert(type, x)
    /\ real_y' = {CConvert(type, n) : n \in real_x}
    /\ trust' = Less(real_x \subseteq TypeMeanings(type))
    /\ UNCHANGED <<x, real_x>>

\* if (x op y): what handle_comparison() does to the ranges of both.
Branch(op, truth) ==
    LET type == get_binop_type(x, y)
        split == Split(Convert(type, x), op, Convert(type, y))
        xs == {CConvert(type, n) : n \in real_x}
        ys == {CConvert(type, n) : n \in real_y}
        outcome == IF truth THEN op ELSE Negated[op]
    IN  /\ Step /\ "compare" \in ops
        /\ x' = ConvertBack(rl_type(x), IF truth THEN split.left_true ELSE split.left_false)
        /\ y' = ConvertBack(rl_type(y), IF truth THEN split.right_true ELSE split.right_false)
        /\ real_x' = {n \in real_x : SomeCompare({CConvert(type, n)}, outcome, ys)}
        /\ real_y' = {n \in real_y : SomeCompare(xs, outcome, {CConvert(type, n)})}
        /\ trust' = Less(rl_type(x) = rl_type(y))

\* The caller's argument y limits the result x to part of its range, as in "[<=$0]".
Limit(op) ==
    LET type == get_binop_type(x, y)
        ys == {CConvert(type, n) : n \in real_y}
    IN  /\ Step /\ "limit" \in ops
        /\ x' = Limited(x, op, y)
        /\ real_x' = {n \in real_x : SomeCompare({CConvert(type, n)}, op, ys)}
        /\ trust' = Less(rl_type(x) = rl_type(y))
        /\ UNCHANGED <<y, real_y>>

\* Operands for which the code gives a simplified answer: an unknown part is left out of
\* the union with the others; a division by anything ("FIXME: this ignores negative
\* divides"); LLONG_MIN / -1, for which sval_binop() makes up a number; a negative number
\* divided as an unsigned one, which it does not convert first; a shift by a number of a
\* larger type, which it takes for the type of the result; a left shift that overflows;
\* bits and remainders of negative numbers.
Simplified(type, op) ==
    LET shift == op \in {"<<", ">>"}
        left == Convert(type, x)
        right == IF shift THEN y ELSE Convert(type, y)
        parts == (DOMAIN left) \X (DOMAIN right)
        unknown == {p \in parts : BinopHelper(<<left[p[1]]>>, op, <<right[p[2]]>>) = NULL}
        negative == Meaning(rl_min(x)) < 0 \/ Meaning(rl_min(y)) < 0
    IN  \/ shift /\ ~(Denotes(y) \subseteq 0 .. type.bits - 1)
        \/ shift /\ get_binop_type(x, y) # type
        \/ op = "<<" /\ \E l \in Denotes(left), r \in Denotes(y) : l * 2^r \notin TypeMeanings(type)
        \/ op = "/" /\ (is_whole_rl(right) \/ (type.unsigned /\ negative))
        \/ op = "/" /\ Meaning(sval_type_min(llong_ctype)) \in Denotes(left) /\ -1 \in Denotes(right)
        \/ op \in {"%", "|"} /\ negative
        \/ unknown \notin {{}, parts}

Operators == {"+", "-", "*", "/", "%", "|", "<<", ">>"}

\* x op y becomes x.  An unknown result may be anything.
Assign(op) ==
    LET type == CType(op, rl_type(x), rl_type(y))
        operands == {CConvert(type, n) : n \in real_x} \X
                    (IF op \in {"<<", ">>"} THEN real_y ELSE {CConvert(type, n) : n \in real_y})
        rl == Binop(x, op, y)
    IN  /\ Step /\ op \in ops /\ ~Simplified(type, op)
        /\ x' = IF rl = NULL THEN Whole(type) ELSE rl
        /\ real_x' = {CBinop(type, p[1], op, p[2]) : p \in {q \in operands : CDefined(type, q[1], op, q[2])}}
        /\ trust' = IF op \in {"%", "|"} THEN "bound" ELSE "sound"
        /\ UNCHANGED <<y, real_y>>

Next ==
    \/ Merge
    \/ Filter
    \/ Intersection
    \/ \E type \in Types : Cast(type)
    \/ \E op \in Comparisons, truth \in BOOLEAN : Branch(op, truth)
    \/ \E op \in Comparisons : Limit(op)
    \/ \E op \in ops \cap Operators : Assign(op)

Spec == Init /\ [][Next]_vars

-----------------------------------------------------------------------------
\* A list is in order and no two of its ranges overlap or touch, so that rl_min(), rl_max(),
\* rl_to_sval() and the loops that stop early are right about it; all ends are of one type.
\* The FIXME at smatch_ranges.c:1059 says that add_range() "has a problem merging a range_list
\* like: min-0,3-max with a range like 1-2.  You end up with min-2,3-max instead of just
\* min-max."  It is out of date: the loop extends min-0 to min-2 with check_next set, and line 1068
\* joins the next range.  Bridged in MCValues is this very case, and the lists of Algebra have gaps
\* of every width and place that the ranges merged into them fill.
Ordered(rl) ==
    /\ \A i \in DOMAIN rl : Meaning(rl[i].min) <= Meaning(rl[i].max)
    /\ \A i \in 1 .. Len(rl) - 1 : Meaning(rl[i].max) + 1 < Meaning(rl[i + 1].min)
    /\ rl_type_consistent(rl)
    /\ rl_is_sane(rl)

Canonical == Ordered(x) /\ Ordered(y)

\* No value that a variable really has is missing from its range list, whatever sequence of
\* assignments, casts, comparisons and merges led to it: a value that add_range(), cast_rl(),
\* split_comparison_rl() or rl_binop() drops is a path that smatch takes for impossible.
Sound == trust # "bound" => real_x \subseteq Denotes(x) /\ real_y \subseteq Denotes(y)

\* Unions, differences, intersections, comparisons of operands of one type and casts that every
\* value survives lose nothing either: the list holds no value that the variable cannot have.
Exact == trust = "exact" => Denotes(x) = real_x /\ Denotes(y) = real_y

\* The end of the list of a remainder or a bitwise or of nonnegative numbers bounds all results,
\* which is what the checks for array indices rely on (a number below it may be missing).
Bounded == trust = "bound" => \A n \in real_x : n <= Meaning(rl_max(x))

\* possibly_true_rl() and possibly_false_rl() never exclude an outcome that can happen, and
\* for exact lists of one type they exclude every other.
ComparisonsRight ==
    LET type == get_binop_type(x, y)
        xs == {CConvert(type, n) : n \in real_x}
        ys == {CConvert(type, n) : n \in real_y}
        agrees(possible, happens) ==
            IF trust = "exact" /\ rl_type(x) = rl_type(y) THEN possible = happens ELSE happens => possible
    IN  x # NULL /\ y # NULL /\ trust # "bound" => \A op \in Comparisons :
            /\ agrees(PossiblyTrue(x, op, y), SomeCompare(xs, op, ys))
            /\ agrees(PossiblyFalse(x, op, y), SomeCompare(xs, Negated[op], ys))
=============================================================================
