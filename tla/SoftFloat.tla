------------------------------ MODULE SoftFloat ------------------------------
(***************************************************************************)
(* i_sfloat: IEEE 754 arithmetic in integers, a template over the sizes of *)
(* the exponent and the mantissa (8 and 23, or 11 and 52, in the code).    *)
(* Floats are their binary representations, natural numbers; operations    *)
(* return the result r and the set f of flags they raise.  A shift is a    *)
(* multiplication or a division by a power of two, modulo the word.        *)
(***************************************************************************)
EXTENDS Integers, Sequences, SequencesExt

CONSTANTS EXP_SIZE, MANT_SIZE

F_SIZE == 1 + EXP_SIZE + MANT_SIZE
IMANT_SIZE == F_SIZE - 2
RND_SIZE == IMANT_SIZE - MANT_SIZE
EXP_MASK == 2^EXP_SIZE - 1
HALF_EXP == EXP_MASK \div 2
F_QNAN == EXP_MASK * 2^MANT_SIZE + 2^(MANT_SIZE - 1)
Floats == 0..(2^F_SIZE - 1)
Modes == {"RNE", "RTZ", "RDN", "RUP", "RMM"}

SignOf(a) == a \div 2^(F_SIZE - 1)
ExpOf(a) == (a \div 2^MANT_SIZE) % 2^EXP_SIZE
MantOf(a) == a % 2^MANT_SIZE
AbsOf(a) == a % 2^(F_SIZE - 1)
pack(sign, exp, mant) == sign * 2^(F_SIZE - 1) + exp * 2^MANT_SIZE + (mant % 2^MANT_SIZE)

Bit(p) == IF p THEN 1 ELSE 0
Xor(x, y) == (x + y) % 2
\* x | 1, if p.
Sticky(x, p) == x + Bit(p /\ x % 2 = 0)
Left(x, d) == (x * 2^d) % 2^F_SIZE
BitLen(x) == CHOOSE k \in 0..30 : 2^k > x /\ (k = 0 \/ 2^(k - 1) <= x)
clz(x) == F_SIZE - BitLen(x)

Result(r) == [r |-> r, f |-> {}]
Raise(r, f) == [r |-> r, f |-> f]
Invalid == Raise(F_QNAN, {"NV"})

isnan(a) == ExpOf(a) = EXP_MASK /\ MantOf(a) # 0
issignan(a) == isnan(a) /\ MantOf(a) < 2^(MANT_SIZE - 1)
iszero(a) == AbsOf(a) = 0
isinf(a) == ExpOf(a) = EXP_MASK /\ MantOf(a) = 0
NaNResult(S) == Raise(F_QNAN, IF \E a \in S : issignan(a) THEN {"NV"} ELSE {})
Infinity(sign) == Result(pack(sign, EXP_MASK, 0))
Zero(sign) == Result(pack(sign, 0, 0))

-----------------------------------------------------------------------------
\* Rounding.

mant_rshift_rnd(a, d) ==
  IF d <= 0 THEN a
  ELSE IF d >= F_SIZE THEN Bit(a # 0)
  ELSE Sticky(a \div 2^d, a % 2^d # 0)

\* mant_normalize_subnormal, and the implicit bit of what is not: the exponent
\* and the mantissa of a float that is not zero.
Unpacked(a) ==
  LET shift == MANT_SIZE - (BitLen(MantOf(a)) - 1)
  IN  IF ExpOf(a) = 0 THEN [exp |-> 1 - shift, mant |-> MantOf(a) * 2^shift]
      ELSE [exp |-> ExpOf(a), mant |-> MantOf(a) + 2^MANT_SIZE]

Addend(sign, rm) ==
  CASE rm \in {"RNE", "RMM"} -> 2^(RND_SIZE - 1)
    [] rm = "RTZ" -> 0
    [] rm = "RDN" -> IF sign = 1 THEN 2^RND_SIZE - 1 ELSE 0
    [] rm = "RUP" -> IF sign = 0 THEN 2^RND_SIZE - 1 ELSE 0

\* Drop the rounding bits.
Rounded(mant, sign, rm) ==
  LET m == (mant + Addend(sign, rm)) \div 2^RND_SIZE
  IN  IF rm = "RNE" /\ mant % 2^RND_SIZE = 2^(RND_SIZE - 1) THEN m - (m % 2) ELSE m

\* Round and pack; underflow is raised for an inexact result if is_subnormal.
RoundPack(sign, exp, mant, rm, is_subnormal) ==
  LET m == IF exp <= 0 THEN mant_rshift_rnd(mant, 1 - exp) ELSE mant
      inexact == m % 2^RND_SIZE # 0
      r_mant == Rounded(m, sign, rm)
      e == (IF exp <= 0 THEN 1 ELSE exp) + (r_mant \div 2^(MANT_SIZE + 1))
      flags == (IF inexact THEN {"NX"} ELSE {})
                 \union (IF exp <= 0 /\ is_subnormal /\ inexact THEN {"UF"} ELSE {})
  IN  IF r_mant < 2^MANT_SIZE THEN Raise(pack(sign, 0, r_mant), flags)
      ELSE IF e < EXP_MASK THEN Raise(pack(sign, e, r_mant), flags)
      ELSE Raise(IF Addend(sign, rm) = 0 THEN pack(sign, EXP_MASK - 1, 2^MANT_SIZE - 1)
                 ELSE pack(sign, EXP_MASK, 0), flags \union {"OF", "NX"})

\* What is below the normal numbers before it is rounded underflows.
Badround_pack(sign, exp, mant, rm) == RoundPack(sign, exp, mant, rm, TRUE)

\* The mantissa has its first bit at F_SIZE - 2.
round_pack(sign, exp, mant, rm) ==
  RoundPack(sign, exp, mant, rm, exp < 0 \/ mant + Addend(sign, rm) < 2^(F_SIZE - 1))

normalize(sign, exp, mant, rm) ==
  LET shift == clz(mant) - 1
  IN  round_pack(sign, exp - shift, Left(mant, shift), rm)

\* Of a mantissa of two words.
normalize2(sign, exp, mant1, mant0, rm) ==
  LET shift == (IF mant1 = 0 THEN F_SIZE + clz(mant0) ELSE clz(mant1)) - 1
      mant == CASE shift = 0 -> Sticky(mant1, mant0 # 0)
                [] shift > 0 /\ shift < F_SIZE ->
                     Sticky(Left(mant1, shift) + (mant0 \div 2^(F_SIZE - shift)), Left(mant0, shift) # 0)
                [] shift >= F_SIZE -> Left(mant0, shift - F_SIZE)
  IN  round_pack(sign, exp - shift, mant, rm)

-----------------------------------------------------------------------------
\* Operations.

add(x, y, rm) ==
  LET a == IF AbsOf(x) < AbsOf(y) THEN y ELSE x
      b == IF AbsOf(x) < AbsOf(y) THEN x ELSE y
      exp(v) == IF ExpOf(v) = 0 THEN 1 ELSE ExpOf(v)
      mant(v) == (MantOf(v) + IF ExpOf(v) = 0 THEN 0 ELSE 2^MANT_SIZE) * 8
      b_mant == mant_rshift_rnd(mant(b), exp(a) - exp(b))
      same == SignOf(a) = SignOf(b)
      sum == IF same THEN mant(a) + b_mant ELSE mant(a) - b_mant
      sign == IF ~same /\ sum = 0 THEN Bit(rm = "RDN") ELSE SignOf(a)
  IN  IF isnan(a) THEN NaNResult({a, b})
      ELSE IF isinf(a) THEN IF isinf(b) /\ ~same THEN Invalid ELSE Result(a)
      ELSE normalize(sign, exp(a) + RND_SIZE - 3, sum, rm)

mul(a, b, rm) ==
  LET sign == Xor(SignOf(a), SignOf(b))
      u == Unpacked(a)
      v == Unpacked(b)
      p == (u.mant * 2^RND_SIZE) * (v.mant * 2^(RND_SIZE + 1))
  IN  IF isnan(a) \/ isnan(b) THEN NaNResult({a, b})
      ELSE IF isinf(a) \/ isinf(b) THEN IF iszero(a) \/ iszero(b) THEN Invalid ELSE Infinity(sign)
      ELSE IF iszero(a) \/ iszero(b) THEN Zero(sign)
      ELSE normalize(sign, u.exp + v.exp - 2^(EXP_SIZE - 1) + 2,
                     Sticky(p \div 2^F_SIZE, p % 2^F_SIZE # 0), rm)

\* A two-word number shifted right, with what falls out kept as its last bit.
Shifted(c, shift) ==
  CASE shift >= 2 * F_SIZE -> <<0, Bit(c # <<0, 0>>)>>
    [] shift < 2 * F_SIZE /\ shift > F_SIZE -> <<0, mant_rshift_rnd(c[1], shift - F_SIZE)>>
    [] shift = F_SIZE -> <<0, Sticky(c[1], c[2] # 0)>>
    [] shift < F_SIZE /\ shift > 0 ->
         <<c[1] \div 2^shift,
           Sticky(Left(c[1], F_SIZE - shift) + (c[2] \div 2^shift), c[2] % 2^shift # 0)>>
    [] shift = 0 -> c

\* fma, from the product on: r and c are their signs, exponents and two words.
AddProduct(r, c, rm) ==
  LET first == r.exp > c.exp \/ (r.exp = c.exp /\ r.m[1] >= c.m[1])
      x == IF first THEN r ELSE c
      y == IF first THEN c ELSE r
      s == Shifted(y.m, x.exp - y.exp)
      same == x.sign = y.sign
      low == (IF same THEN x.m[2] + s[2] ELSE x.m[2] - s[2]) % 2^F_SIZE
      carry == Bit(IF same THEN low < s[2] ELSE low > x.m[2])
      high == (IF same THEN x.m[1] + s[1] + carry ELSE x.m[1] - s[1] - carry) % 2^F_SIZE
      sign == IF ~same /\ high = 0 /\ low = 0 THEN Bit(rm = "RDN") ELSE x.sign
  IN  normalize2(sign, x.exp, high, low, rm)

fma(a, b, c, rm) ==
  LET sign == Xor(SignOf(a), SignOf(b))
      u == Unpacked(a)
      v == Unpacked(b)
      w == Unpacked(c)
      p == (u.mant * 2^RND_SIZE) * (v.mant * 2^RND_SIZE)
      high == p \div 2^F_SIZE >= 2^(F_SIZE - 3)
      p1 == IF high THEN p ELSE 2 * p
      r == [sign |-> sign, m |-> <<p1 \div 2^F_SIZE, p1 % 2^F_SIZE>>,
            exp |-> u.exp + v.exp - 2^(EXP_SIZE - 1) + IF high THEN 3 ELSE 2]
  IN  IF (isinf(a) /\ iszero(b)) \/ (isinf(b) /\ iszero(a)) THEN Invalid
      ELSE IF isnan(a) \/ isnan(b) \/ isnan(c) THEN NaNResult({a, b, c})
      ELSE IF (isinf(a) \/ isinf(b)) /\ isinf(c) /\ sign # SignOf(c) THEN Invalid
      ELSE IF isinf(c) THEN Infinity(SignOf(c))
      ELSE IF isinf(a) \/ isinf(b) THEN Infinity(sign)
      ELSE IF iszero(a) \/ iszero(b)
        THEN IF iszero(c) THEN Zero(IF SignOf(c) # sign THEN Bit(rm = "RDN") ELSE sign) ELSE Result(c)
      ELSE IF iszero(c) THEN normalize(sign, r.exp, Sticky(r.m[1], r.m[2] # 0), rm)
      ELSE AddProduct(r, [sign |-> SignOf(c), exp |-> w.exp + 1, m |-> <<w.mant * 2^(RND_SIZE - 1), 0>>], rm)

div(a, b, rm) ==
  LET sign == Xor(SignOf(a), SignOf(b))
      u == Unpacked(a)
      v == Unpacked(b)
      n == u.mant * 2^F_SIZE
      d == v.mant * 4
  IN  IF isnan(a) \/ isnan(b) THEN NaNResult({a, b})
      ELSE IF isinf(a) THEN IF isinf(b) THEN Invalid ELSE Infinity(sign)
      ELSE IF isinf(b) THEN Zero(sign)
      ELSE IF iszero(b)
        THEN IF iszero(a) THEN Invalid ELSE Raise(pack(sign, EXP_MASK, 0), {"DZ"})
      ELSE IF iszero(a) THEN Zero(sign)
      ELSE normalize(sign, u.exp - v.exp + 2^(EXP_SIZE - 1) - 1, Sticky(n \div d, n % d # 0), rm)

\* sqrtrem_u: digit by digit.
sqrtrem_u(n) ==
  LET Digit(t, k) ==
        LET bit == 2^(2 * F_SIZE - 2 * k)
        IN  IF t.rem >= t.res + bit
              THEN [rem |-> t.rem - (t.res + bit), res |-> (t.res \div 2) + bit]
              ELSE [t EXCEPT !.res = @ \div 2]
  IN  FoldLeft(Digit, [rem |-> n, res |-> 0], [k \in 1..F_SIZE |-> k])

sqrt(a, rm) ==
  LET u == Unpacked(a)
      e == u.exp - HALF_EXP
      q == sqrtrem_u(u.mant * 2^(e % 2) * 2^(F_SIZE - 4 - MANT_SIZE) * 2^F_SIZE)
  IN  IF isnan(a) THEN NaNResult({a})
      ELSE IF iszero(a) THEN Result(a)
      ELSE IF SignOf(a) = 1 THEN Invalid
      ELSE IF isinf(a) THEN Result(a)
      ELSE normalize(0, (e \div 2) + HALF_EXP, Sticky(q.res, q.rem # 0), rm)

-----------------------------------------------------------------------------
\* Comparisons.

min_max_nan(a, b) ==
  Raise(IF isnan(a) THEN IF isnan(b) THEN F_QNAN ELSE b ELSE a,
        IF issignan(a) \/ issignan(b) THEN {"NV"} ELSE {})

min(a, b) ==
  IF isnan(a) \/ isnan(b) THEN min_max_nan(a, b)
  ELSE IF SignOf(a) # SignOf(b) THEN Result(IF SignOf(a) = 1 THEN a ELSE b)
  ELSE Result(IF (a < b) # (SignOf(a) = 1) THEN a ELSE b)

max(a, b) ==
  IF isnan(a) \/ isnan(b) THEN min_max_nan(a, b)
  ELSE IF SignOf(a) # SignOf(b) THEN Result(IF SignOf(a) = 1 THEN b ELSE a)
  ELSE Result(IF (a < b) # (SignOf(a) = 1) THEN b ELSE a)

eq(a, b) ==
  IF isnan(a) \/ isnan(b) THEN Raise(FALSE, NaNResult({a, b}).f)
  ELSE Result((iszero(a) /\ iszero(b)) \/ a = b)

Badle(a, b) ==
  IF isnan(a) \/ isnan(b) THEN Raise(FALSE, {"NV"})
  ELSE IF SignOf(a) # SignOf(b) THEN Result(SignOf(a) = 1)
  ELSE Result(IF SignOf(a) = 1 THEN a >= b ELSE a <= b)

le(a, b) ==
  IF isnan(a) \/ isnan(b) THEN Raise(FALSE, {"NV"})
  ELSE IF SignOf(a) # SignOf(b) THEN Result(SignOf(a) = 1 \/ (iszero(a) /\ iszero(b)))
  ELSE Result(IF SignOf(a) = 1 THEN a >= b ELSE a <= b)

lt(a, b) ==
  IF isnan(a) \/ isnan(b) THEN Raise(FALSE, {"NV"})
  ELSE IF SignOf(a) # SignOf(b) THEN Result(SignOf(a) = 1 /\ ~(iszero(a) /\ iszero(b)))
  ELSE Result(IF SignOf(a) = 1 THEN a > b ELSE a < b)

fclass(a) ==
  LET signed(neg, pos) == IF SignOf(a) = 1 THEN neg ELSE pos
  IN  CASE ExpOf(a) = EXP_MASK /\ MantOf(a) # 0 ->
             IF MantOf(a) >= 2^(MANT_SIZE - 1) THEN "QNAN" ELSE "SNAN"
        [] ExpOf(a) = EXP_MASK /\ MantOf(a) = 0 -> signed("NINF", "PINF")
        [] ExpOf(a) = 0 /\ MantOf(a) = 0 -> signed("NZERO", "PZERO")
        [] ExpOf(a) = 0 /\ MantOf(a) # 0 -> signed("NSUBNORMAL", "PSUBNORMAL")
        [] ExpOf(a) \in 1..(EXP_MASK - 1) -> signed("NNORMAL", "PNORMAL")

-----------------------------------------------------------------------------
\* Conversions to and from an integer of size bits, as its representation.

CvtFI(x, sign, rm, size, unsigned) ==
  LET exp == (IF ExpOf(x) = 0 THEN 1 ELSE ExpOf(x)) - HALF_EXP - MANT_SIZE
      mant == MantOf(x) + IF ExpOf(x) = 0 THEN 0 ELSE 2^MANT_SIZE
      r_max == IF unsigned THEN (sign - 1) % 2^size ELSE 2^(size - 1) - (1 - sign)
      m == mant_rshift_rnd(mant * 2^RND_SIZE, -exp)
      r == IF exp >= 0 THEN mant * 2^exp ELSE Rounded(m, sign, rm)
  IN  IF exp > size - 1 - MANT_SIZE \/ r > r_max THEN Raise(r_max, {"NV"})
      ELSE Raise(IF sign = 1 THEN (-r) % 2^size ELSE r,
                 IF exp < 0 /\ m % 2^RND_SIZE # 0 THEN {"NX"} ELSE {})

\* A NaN keeps its sign.
Badcvt_f_i(x, rm, size, unsigned) == CvtFI(x, SignOf(x), rm, size, unsigned)

cvt_f_i(x, rm, size, unsigned) ==
  CvtFI(x, IF isnan(x) THEN 0 ELSE SignOf(x), rm, size, unsigned)

cvt_i_f(i, rm, size, unsigned) ==
  LET neg == ~unsigned /\ i >= 2^(size - 1)
      r == IF neg THEN 2^size - i ELSE i
      l == BitLen(r) - (F_SIZE - 1)
      mant == IF l > 0 THEN Sticky(r \div 2^l, r % 2^l # 0) ELSE r
  IN  normalize(Bit(neg), HALF_EXP + F_SIZE - 2 + (IF l > 0 THEN l ELSE 0), mant, rm)
=============================================================================
