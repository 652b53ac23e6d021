------------------------------ MODULE MCValues ------------------------------
(* Instances of Values. *)
EXTENDS Values, RangeMath

LOCAL INSTANCE SequencesExt

AllComparisons == {"<", "<=", "==", "!=", ">=", ">"}
SetLike == {"merge", "filter", "intersection"}

\* All casts but those of a signed number to a smaller signed type.
SignedNarrowing(from, to) == ~from.unsigned /\ ~to.unsigned /\ to.bits < from.bits
GoodCasts == {c \in Types \X Types : ~SignedNarrowing(c[1], c[2])}
Narrowing == {<<int_ctype, char_ctype>>}

\* The list of a set of numbers.
ListOf(type, set) ==
    LET firsts == SetToSortSeq({n \in set : n - 1 \notin set}, <)
        lasts == SetToSortSeq({n \in set : n + 1 \notin set}, <)
    IN  [i \in DOMAIN firsts |-> alloc_range(Num(type, firsts[i]), Num(type, lasts[i]))]

Lists(type, numbers) == {ListOf(type, s) : s \in (SUBSET numbers) \ {{}}}

RangesBetween(type, ends) == {ListOf(type, e[1] .. e[2]) : e \in {f \in ends \X ends : f[1] <= f[2]}}

\* The numbers of a type at which something happens.
Ends(type) == TypeMeanings(type) \cap {Meaning(sval_type_min(type)), -1, 0, 1, Meaning(sval_type_max(type))}

\* Types of one width, and of both widths in one order.
TypePairs == {int_ctype, uint_ctype} \X {int_ctype, uint_ctype} \cup
             {<<int_ctype, ullong_ctype>>, <<llong_ctype, int_ctype>>, <<uint_ctype, llong_ctype>>,
              <<ullong_ctype, uint_ctype>>, <<llong_ctype, ullong_ctype>>}

\* Every operation on ranges of pairs of types.
Pairwise == UNION {[x : RangesBetween(t, Ends(t)), y : RangesBetween(u, Ends(u)),
                    ops : {Operators \cup {"compare", "cast", "limit"}}, steps : {1}] :
                       <<t, u>> \in TypePairs}

\* Any list of numbers up to seven, and one range.
Algebra == [x : Lists(uint_ctype, 0 .. 6), y : RangesBetween(uint_ctype, 0 .. 6), ops : {SetLike}, steps : {1}]

\* min-0,3-max and 1-2, the lists of the FIXME above the loop of add_range().
Bridged == [x : {ListOf(int_ctype, TypeMeanings(int_ctype) \ 1 .. 2)}, y : {ListOf(int_ctype, 1 .. 2)},
            ops : {SetLike}, steps : {1}]

\* Lists of three ranges: more parts than are computed one by one.
Many == [x : {ListOf(int_ctype, s) : s \in {{-8, -4, 7}, {-3, 0, 3}, {1, 3, 5, 6}}},
         y : {ListOf(int_ctype, s) : s \in {{-2, 0, 2}, {1, 2, 4, 6}, {0, 3, 7}}},
         ops : {Operators \cup {"compare", "limit"}}, steps : {1}]

\* Sequences of operations on small numbers.
Sequences3 == [x : RangesBetween(char_ctype, {-2, -1, 1}), y : RangesBetween(uchar_ctype, {0, 3}),
               ops : {SetLike \cup {"+", "-", "compare", "cast"}}, steps : {3}]

AllStarts == Pairwise \cup Algebra \cup Bridged \cup Many \cup Sequences3

\* One cast from int to char.
CastStarts == [x : RangesBetween(int_ctype, -8 .. 7), y : {ListOf(int_ctype, {0})}, ops : {{"cast"}}, steps : {1}]
=============================================================================
