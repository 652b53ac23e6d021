-------------------------------- MODULE Sval --------------------------------
(***************************************************************************)
(* The numbers of smatch (smatch_sval.c, and the types of smatch_type.c    *)
(* and smatch.h).  An sval_t is a type and 64 bits that are read as        *)
(* "value" (signed) or "uvalue" (unsigned).  Here the 64 bits are LongBits *)
(* bits and the types have CharBits, IntBits and LongBits of them, in the  *)
(* proportions that the code relies on: an unsigned char fits into an int, *)
(* an unsigned int into a long long.  Integer types only: floating point   *)
(* and pointers are left out.                                              *)
(***************************************************************************)
EXTENDS Integers, Bitwise

CONSTANTS CharBits, IntBits, LongBits

ASSUME WidthAssumption == /\ CharBits \in Nat /\ IntBits \in Nat /\ LongBits \in Nat
                          /\ 1 < CharBits
                          /\ CharBits < IntBits - 1
                          /\ IntBits < LongBits - 1

IntType(bits, unsigned) == [bits |-> bits, unsigned |-> unsigned]

bool_ctype == IntType(1, TRUE)
char_ctype == IntType(CharBits, FALSE)
uchar_ctype == IntType(CharBits, TRUE)
int_ctype == IntType(IntBits, FALSE)
uint_ctype == IntType(IntBits, TRUE)
llong_ctype == IntType(LongBits, FALSE)
ullong_ctype == IntType(LongBits, TRUE)

Types == {bool_ctype, char_ctype, uchar_ctype, int_ctype, uint_ctype, llong_ctype, ullong_ctype}

type_positive_bits(type) == IF type.unsigned THEN type.bits ELSE type.bits - 1

-----------------------------------------------------------------------------
\* The low bits of n as a number, and what is left of n in a "long long value".
Truncate(n, bits, unsigned) ==
    LET low == n % 2^bits IN IF ~unsigned /\ low >= 2^(bits - 1) THEN low - 2^bits ELSE low

Stored(n) == Truncate(n, LongBits, FALSE)

Num(type, n) == [type |-> type, value |-> Stored(n)]

uvalue(sval) == sval.value % 2^LongBits

\* The number that an sval_t stands for.
Meaning(sval) == IF sval.type.unsigned THEN uvalue(sval) ELSE sval.value

sval_type_max(type) == Num(type, 2^type_positive_bits(type) - 1)
sval_type_min(type) == Num(type, IF type.unsigned THEN 0 ELSE -(2^type_positive_bits(type)))

TypeMeanings(type) == Meaning(sval_type_min(type)) .. Meaning(sval_type_max(type))

sval_cast(type, sval) ==
    CASE type.bits = 1 -> Num(type, IF sval.value # 0 THEN 1 ELSE 0)
      [] type.bits \in {CharBits, IntBits} -> Num(type, Truncate(sval.value, type.bits, type.unsigned))
      [] OTHER -> Num(type, sval.value)

sval_is_negative(sval) == ~sval.type.unsigned /\ sval.value < 0

sval_is_min(sval) ==
    IF sval.type.unsigned THEN uvalue(sval) = 0 ELSE sval.value <= sval_type_min(sval.type).value

sval_is_max(sval) ==
    IF sval.type.unsigned
    THEN uvalue(sval) >= uvalue(sval_type_max(sval.type))
    ELSE sval.value >= sval_type_max(sval.type).value

\* The usual arithmetic conversions, by positive bits.
get_promoted_type(left, right) ==
    LET ret == IF type_positive_bits(left) > type_positive_bits(int_ctype) THEN left ELSE int_ctype
    IN  IF type_positive_bits(right) > type_positive_bits(ret) THEN right ELSE ret

\* < 0, 0 or > 0
sval_cmp(one, two) ==
    LET larger == IF type_positive_bits(two.type) > type_positive_bits(one.type)
                  THEN two.type ELSE one.type
        type == IF larger.bits < IntBits - 1 THEN int_ctype ELSE larger
    IN  Meaning(sval_cast(type, one)) - Meaning(sval_cast(type, two))

sval_too_low(type, sval) ==
    \/ sval_is_negative(sval) /\ type.unsigned
    \/ /\ ~(~type.unsigned /\ sval.type.unsigned)
       /\ \/ ~sval.type.unsigned /\ sval.value < sval_type_min(type).value
          \/ sval_cmp(sval, sval_type_min(type)) < 0

sval_too_high(type, sval) ==
    ~sval_is_negative(sval) /\ uvalue(sval) > uvalue(sval_type_max(type))

sval_fits(type, sval) == ~sval_too_low(type, sval) /\ ~sval_too_high(type, sval)

-----------------------------------------------------------------------------
(* Operations on the 64 bits.  C divides towards zero.                     *)

Abs(n) == IF n < 0 THEN -n ELSE n
Quotient(a, b) == LET q == Abs(a) \div Abs(b) IN IF (a < 0) = (b < 0) THEN q ELSE -q
Remainder(a, b) == a - b * Quotient(a, b)

\* The code's values for a division by zero.
DivByZero == 123456789

\* value and uvalue differ for / % and >> only: the others have the same low bits.
sval_binop_unsigned(type, left, op, right) ==
    LET a == uvalue(left)  b == uvalue(right)
    IN  Num(type, CASE op = "*" -> a * b
                    [] op = "/" -> IF b = 0 THEN DivByZero ELSE a \div b
                    [] op = "+" -> a + b
                    [] op = "-" -> a - b
                    [] op = "%" -> IF b = 0 THEN DivByZero ELSE a % b
                    [] op = "|" -> a | b
                    [] op = "&" -> a & b
                    [] op = "^" -> a ^^ b
                    [] op = ">>" -> a \div 2^b
                    [] op = "<<" -> a * 2^b)

\* LLONG_MIN / -1 is caught, as the division by zero is.
sval_binop_signed(type, left, op, right) ==
    LET a == left.value  b == right.value
        bits == sval_binop_unsigned(type, left, op, right)
    IN  CASE op = "/" /\ b # 0 /\ ~(a = -(2^(LongBits - 1)) /\ b = -1) -> Num(type, Quotient(a, b))
          [] op = "/" /\ a = -(2^(LongBits - 1)) /\ b = -1 -> Num(type, 12345678)
          [] op = "%" /\ b # 0 -> Num(type, Remainder(a, b))
          [] op = ">>" -> Num(type, a \div 2^b)
          [] OTHER -> bits

sval_binop(left, op, right) ==
    LET type == get_promoted_type(left.type, right.type)
    IN  sval_cast(type, IF type.unsigned
                        THEN sval_binop_unsigned(type, left, op, right)
                        ELSE sval_binop_signed(type, left, op, right))

\* The operators of type_overflow(), computed without wrapping.
Exactly(a, op, b) == CASE op = "*" -> a * b [] op = "+" -> a + b [] op = "-" -> a - b

sval_binop_overflows(left, op, right) ==
    LET type == get_promoted_type(left.type, right.type)
    IN  IF op = "<<"
        THEN sval_cmp(left, sval_binop(sval_type_max(type), ">>", right)) > 0
        ELSE /\ op \in {"*", "+", "-"}
             /\ Exactly(Meaning(sval_cast(type, left)), op, Meaning(sval_cast(type, right)))
                    \notin TypeMeanings(type)

RECURSIVE sm_fls64(_)
sm_fls64(u) == IF u = 0 THEN 0 ELSE 1 + sm_fls64(u \div 2)

fls_mask(u) == 2^sm_fls64(u) - 1

sval_fls_mask(sval) == fls_mask(uvalue(sval))
=============================================================================
