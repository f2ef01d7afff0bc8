------------------------------ MODULE Ieee754 ------------------------------
(***************************************************************************)
(* The two formats of soft-float.hpp, the conversions between them, and    *)
(* what IEEE 754 and the RISC-V manual say an operation returns, stated by *)
(* comparing exact values: no rounding is computed here.                   *)
(***************************************************************************)
EXTENDS Integers, Sequences, FiniteSets

CONSTANTS EXP32, MANT32, EXP64, MANT64

\* As in the code, every float of the small format is one of the large format.
ASSUME FormatAssumption ==
  /\ {EXP32, MANT32, EXP64, MANT64} \subseteq Nat
  /\ EXP32 >= 5 /\ MANT32 >= 2 /\ EXP64 > EXP32 /\ MANT64 > MANT32

F32 == INSTANCE SoftFloat WITH EXP_SIZE <- EXP32, MANT_SIZE <- MANT32
F64 == INSTANCE SoftFloat WITH EXP_SIZE <- EXP64, MANT_SIZE <- MANT64

sfloat_cvt_f32_f64(a) ==
  LET u == F32!Unpacked(a)
  IN  IF F32!isnan(a) THEN [r |-> F64!F_QNAN, f |-> F32!NaNResult({a}).f]
      ELSE IF F32!isinf(a) THEN F64!Infinity(F32!SignOf(a))
      ELSE IF F32!iszero(a) THEN F64!Zero(F32!SignOf(a))
      ELSE F64!Result(F64!pack(F32!SignOf(a), u.exp - F32!HALF_EXP + F64!HALF_EXP,
                               u.mant * 2^(MANT64 - MANT32)))

\* The mantissa is shifted to the size that normalize takes.
Narrow(a, mant, rm) ==
  IF F64!isnan(a) THEN [r |-> F32!F_QNAN, f |-> F64!NaNResult({a}).f]
  ELSE IF F64!isinf(a) THEN F32!Infinity(F64!SignOf(a))
  ELSE IF F64!iszero(a) THEN F32!Zero(F64!SignOf(a))
  ELSE F32!normalize(F64!SignOf(a), F64!Unpacked(a).exp - F64!HALF_EXP + F32!HALF_EXP, mant, rm)

\* The mantissa of a subnormal number is not the normalized one: the call that
\* normalizes it is for the exponent.
sfloat_cvt_f64_f32(a, rm) ==
  Narrow(a, F64!mant_rshift_rnd(F64!MantOf(a) + (IF F64!ExpOf(a) = 0 THEN 0 ELSE 2^MANT64),
                                MANT64 - (F32!F_SIZE - 2)), rm)

-----------------------------------------------------------------------------
\* Exact values of the smaller format: <<m, e>> is m * 2^e eighths of the
\* smallest subnormal number.  The code after the last finite one stands for the
\* power of two that follows the largest number.

LastCode == F32!EXP_MASK * 2^MANT32
Exp(k) == IF F32!ExpOf(k) = 0 THEN 0 ELSE F32!ExpOf(k) - 1
Mant(k) == F32!MantOf(k) + IF F32!ExpOf(k) = 0 THEN 0 ELSE 2^MANT32
Point(k) == <<Mant(k), Exp(k) + 3>>
Half(k) == <<2 * Mant(k) + 1, Exp(k) + 2>>
BelowMinNormal(n) == <<8 * 2^MANT32 - n, 0>>
Finite(a) == F32!AbsOf(a) < LastCode
Neg(a) == F32!SignOf(a) = 1
\* The exponent of the smallest subnormal number.
MinExp == 1 - F32!HALF_EXP - MANT32

Sgn(n) == IF n < 0 THEN -1 ELSE IF n = 0 THEN 0 ELSE 1
Least(x, y) == IF x < y THEN x ELSE y

\* The sign of x - y; their first components are below 2^18 and at most 2^12.
Compare(x, y) ==
  LET d == x[2] - y[2]
  IN  IF d >= 0 THEN Sgn(x[1] * 2^Least(d, 13) - y[1]) ELSE Sgn(x[1] - y[1] * 2^Least(-d, 18))

\* Does a magnitude round to more than the k-th of a series of points?  c is how
\* it compares with that point, mid with the middle to the next, and next with
\* the next.
RoundsAbove(k, c, mid, next, sign, rm) ==
  IF rm \in {"RNE", "RMM"} THEN mid > 0 \/ (mid = 0 /\ (rm = "RMM" \/ k % 2 = 1))
  ELSE IF rm = IF sign = 1 THEN "RDN" ELSE "RUP" THEN c > 0 ELSE next >= 0

\* Is res the result, of the given sign, of rounding a magnitude, and are its
\* flags the right ones?  Cmp(p) is the sign of the magnitude minus p.
CorrectlyRounded(res, sign, rm, Cmp(_)) ==
  LET above(k) == RoundsAbove(k, Cmp(Point(k)), Cmp(Half(k)), Cmp(Point(k + 1)), sign, rm)
      k == F32!AbsOf(res.r)
      overflow == above(LastCode - 1)
      inexact == overflow \/ Cmp(Point(k)) # 0
      tiny == ~RoundsAbove(1, Cmp(BelowMinNormal(4)), Cmp(BelowMinNormal(2)), Cmp(BelowMinNormal(0)), sign, rm)
      toInfinity == rm \in {"RNE", "RMM", IF sign = 1 THEN "RDN" ELSE "RUP"}
  IN  /\ F32!SignOf(res.r) = sign
      /\ IF overflow THEN k = IF toInfinity THEN LastCode ELSE LastCode - 1
         ELSE k < LastCode /\ ~above(k) /\ (k = 0 \/ above(k - 1))
      /\ res.f = (IF inexact THEN {"NX"} ELSE {}) \union (IF overflow THEN {"OF"} ELSE {})
                   \union (IF inexact /\ tiny THEN {"UF"} ELSE {})

\* The exact sum of x and y with their signs.  What is 2^12 times smaller than
\* the other term is brought to that distance: it is still less than any
\* distance that a comparison above can see.
RoundedSum(res, x, negx, y, negy, rm) ==
  LET top == IF y[1] = 0 \/ (x[1] # 0 /\ x[2] >= y[2]) THEN x[2] ELSE y[2]
      bottom == IF x[1] = 0 \/ (y[1] # 0 /\ y[2] <= x[2]) THEN y[2] ELSE x[2]
      e == IF top - bottom > 12 THEN top - 12 ELSE bottom
      term(z, neg) == z[1] * 2^(IF z[2] < e \/ z[1] = 0 THEN 0 ELSE z[2] - e) * IF neg THEN -1 ELSE 1
      s == term(x, negx) + term(y, negy)
      Cmp(p) == Compare(<<IF s < 0 THEN -s ELSE s, e>>, p)
      zeroNeg == IF negx = negy THEN negx ELSE rm = "RDN"
  IN  CorrectlyRounded(res, F32!Bit(s < 0 \/ (s = 0 /\ zeroNeg)), rm, Cmp)

NaNs(S) == [r |-> F32!F_QNAN, f |-> IF \E a \in S : F32!issignan(a) THEN {"NV"} ELSE {}]
AnyNaN(S) == \E a \in S : F32!isnan(a)
Magnitude(a) == Point(F32!AbsOf(a))

AddCorrect(a, b, rm) ==
  LET res == F32!add(a, b, rm)
  IN  IF AnyNaN({a, b}) THEN res = NaNs({a, b})
      ELSE IF Finite(a) /\ Finite(b)
        THEN RoundedSum(res, Magnitude(a), Neg(a), Magnitude(b), Neg(b), rm)
      ELSE res = IF ~Finite(a) /\ ~Finite(b) /\ a # b THEN F32!Invalid
                 ELSE F32!Result(IF Finite(a) THEN b ELSE a)

\* The magnitude of a product.
Product(a, b) ==
  <<Mant(F32!AbsOf(a)) * Mant(F32!AbsOf(b)), Exp(F32!AbsOf(a)) + Exp(F32!AbsOf(b)) + MinExp + 3>>

MulCorrect(a, b, rm) ==
  LET res == F32!mul(a, b, rm)
      sign == F32!Bit(Neg(a) # Neg(b))
      Cmp(p) == Compare(Product(a, b), p)
  IN  IF AnyNaN({a, b}) THEN res = NaNs({a, b})
      ELSE IF Finite(a) /\ Finite(b) THEN CorrectlyRounded(res, sign, rm, Cmp)
      ELSE res = IF F32!iszero(a) \/ F32!iszero(b) THEN F32!Invalid ELSE F32!Infinity(sign)

DivCorrect(a, b, rm) ==
  LET res == F32!div(a, b, rm)
      sign == F32!Bit(Neg(a) # Neg(b))
      Cmp(p) == Compare(Magnitude(a), <<p[1] * Mant(F32!AbsOf(b)), p[2] + Exp(F32!AbsOf(b)) + MinExp>>)
  IN  IF AnyNaN({a, b}) THEN res = NaNs({a, b})
      ELSE IF ~Finite(a) THEN res = IF Finite(b) THEN F32!Infinity(sign) ELSE F32!Invalid
      ELSE IF ~Finite(b) THEN res = F32!Zero(sign)
      ELSE IF F32!iszero(b)
        THEN res = IF F32!iszero(a) THEN F32!Invalid
                   ELSE [r |-> F32!pack(sign, F32!EXP_MASK, 0), f |-> {"DZ"}]
      ELSE CorrectlyRounded(res, sign, rm, Cmp)

SqrtCorrect(a, rm) ==
  LET res == F32!sqrt(a, rm)
      Cmp(p) == Compare(Magnitude(a), <<p[1]^2, 2 * p[2] + MinExp - 3>>)
  IN  IF F32!isnan(a) THEN res = NaNs({a})
      ELSE IF F32!iszero(a) THEN res = F32!Result(a)
      ELSE IF Neg(a) THEN res = F32!Invalid
      ELSE IF ~Finite(a) THEN res = F32!Result(a)
      ELSE CorrectlyRounded(res, 0, rm, Cmp)

\* One rounding, of the exact product plus c.  A zero times an infinity is
\* invalid whatever c is.
FmaCorrect(a, b, c, rm) ==
  LET res == F32!fma(a, b, c, rm)
      neg == Neg(a) # Neg(b)
      infinite == ~AnyNaN({a, b}) /\ (~Finite(a) \/ ~Finite(b))
      zero == F32!iszero(a) \/ F32!iszero(b)
  IN  IF infinite /\ zero THEN res = F32!Invalid
      ELSE IF AnyNaN({a, b, c}) THEN res = NaNs({a, b, c})
      ELSE IF infinite
        THEN res = IF ~Finite(c) /\ Neg(c) # neg THEN F32!Invalid ELSE F32!Infinity(F32!Bit(neg))
      ELSE IF ~Finite(c) THEN res = F32!Result(c)
      ELSE RoundedSum(res, Product(a, b), neg, Magnitude(c), Neg(c), rm)

-----------------------------------------------------------------------------
\* Comparisons and conversions.

\* The order of numbers, infinities included.
Less(a, b) ==
  LET c == IF F32!AbsOf(a) = F32!AbsOf(b) THEN 0
           ELSE IF ~Finite(a) THEN 1 ELSE IF ~Finite(b) THEN -1
           ELSE Compare(Magnitude(a), Magnitude(b))
  IN  IF Neg(a) # Neg(b) THEN Neg(a) /\ ~(F32!iszero(a) /\ F32!iszero(b))
      ELSE IF Neg(a) THEN c > 0 ELSE c < 0

\* A quiet comparison is invalid for a signaling NaN, an ordered one for any;
\* the smaller of two numbers is the one that is not a NaN; -0 is below +0.
OrderCorrect(a, b) ==
  LET before == Less(a, b) \/ (F32!iszero(a) /\ F32!iszero(b) /\ Neg(a))
      flags == NaNs({a, b}).f
      bothNaN == F32!isnan(a) /\ F32!isnan(b)
  IN  IF AnyNaN({a, b})
        THEN /\ F32!eq(a, b) = [r |-> FALSE, f |-> flags]
             /\ {F32!lt(a, b), F32!le(a, b)} = {[r |-> FALSE, f |-> {"NV"}]}
             /\ {F32!min(a, b), F32!max(a, b)} =
                  {[r |-> IF bothNaN THEN F32!F_QNAN ELSE IF F32!isnan(a) THEN b ELSE a, f |-> flags]}
      ELSE /\ F32!lt(a, b) = F32!Result(Less(a, b))
           /\ F32!le(a, b) = F32!Result(~Less(b, a))
           /\ F32!eq(a, b) = F32!Result(~Less(a, b) /\ ~Less(b, a))
           /\ F32!min(a, b) = F32!Result(IF before THEN a ELSE b)
           /\ F32!max(a, b) = F32!Result(IF before THEN b ELSE a)

\* A number is rounded to an integer; out of the range of the type it is invalid,
\* and the result is the nearest of the range, the largest for a NaN.
ToIntCorrect(a, rm, size, unsigned) ==
  LET res == F32!cvt_f_i(a, rm, size, unsigned)
      neg == Neg(a) /\ ~F32!isnan(a)
      Cmp(n, half) == IF ~Finite(a) THEN 1 ELSE Compare(Magnitude(a), <<2 * n + half, 2 - MinExp>>)
      above(n) == RoundsAbove(n, Cmp(n, 0), Cmp(n, 1), Cmp(n + 1, 0), F32!Bit(neg), rm)
      last == IF unsigned THEN IF neg THEN 0 ELSE 2^size - 1
              ELSE IF neg THEN 2^(size - 1) ELSE 2^(size - 1) - 1
      n == IF neg THEN (-res.r) % 2^size ELSE res.r
  IN  IF above(last) THEN n = last /\ res.f = {"NV"}
      ELSE /\ n <= last /\ ~above(n) /\ (n = 0 \/ above(n - 1))
           /\ res.f = IF Cmp(n, 0) = 0 THEN {} ELSE {"NX"}

FromIntCorrect(i, rm, size, unsigned) ==
  LET neg == ~unsigned /\ i >= 2^(size - 1)
      Cmp(p) == Compare(<<IF neg THEN 2^size - i ELSE i, 3 - MinExp>>, p)
  IN  CorrectlyRounded(F32!cvt_i_f(i, rm, size, unsigned), F32!Bit(neg), rm, Cmp)

\* Of a float of the larger format.
NarrowCorrect(a, rm) ==
  LET res == sfloat_cvt_f64_f32(a, rm)
      u == F64!Unpacked(a)
      Cmp(p) == Compare(<<u.mant, u.exp - F64!HALF_EXP - MANT64 - MinExp + 3>>, p)
  IN  IF F64!isnan(a) THEN res = [r |-> F32!F_QNAN, f |-> IF F64!issignan(a) THEN {"NV"} ELSE {}]
      ELSE IF F64!isinf(a) \/ F64!iszero(a)
        THEN res = F32!Result(F32!pack(F64!SignOf(a), IF F64!isinf(a) THEN F32!EXP_MASK ELSE 0, 0))
      ELSE CorrectlyRounded(res, F64!SignOf(a), rm, Cmp)

\* Widening is exact.
WidenCorrect(a) ==
  IF F32!isnan(a) THEN sfloat_cvt_f32_f64(a) = [r |-> F64!F_QNAN, f |-> NaNs({a}).f]
  ELSE \A rm \in F32!Modes :
         sfloat_cvt_f32_f64(a).f = {} /\ sfloat_cvt_f64_f32(sfloat_cvt_f32_f64(a).r, rm) = F32!Result(a)

\* The class of a float says what it is.
ClassCorrect(a) ==
  LET c == F32!fclass(a)
      minNormal == 2^MANT32
  IN  /\ (c \in {"QNAN", "SNAN"}) = F32!isnan(a) /\ (c = "SNAN") = F32!issignan(a)
      /\ (c \in {"NINF", "NNORMAL", "NSUBNORMAL", "NZERO"}) = (Neg(a) /\ ~F32!isnan(a))
      /\ (c \in {"NINF", "PINF"}) = (~Finite(a) /\ ~F32!isnan(a))
      /\ (c \in {"NNORMAL", "PNORMAL"}) = (Finite(a) /\ ~Less(F32!AbsOf(a), minNormal))
      /\ (c \in {"NZERO", "PZERO"}) = (F32!AbsOf(a) = 0)
=============================================================================
