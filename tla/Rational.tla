------------------------------ MODULE Rational ------------------------------
(***************************************************************************)
(* Rationals and complex rationals (src/code/numbers.lisp, irrat.lisp,     *)
(* float.lisp, target-float.lisp): the case analyses that keep a number in *)
(* its one canonical form without taking a greatest common divisor where   *)
(* none is needed.  Integers are numbers here (module Bignum is about      *)
(* them); only whether one is a fixnum matters to the code.                *)
(*                                                                         *)
(* A float is the rational it stands for: m * 2^e with |m| < 2^P.          *)
(***************************************************************************)
EXTENDS Integers, Sequences

CONSTANTS
    F,          \* most-positive-fixnum
    P,          \* digits of precision of a float
    Bias,       \* its exponent bias
    Reals,      \* the integers and ratios tried, as pairs <<n, d>>
    Parts,      \* the pairs complexes are made of
    Powers,     \* the exponents tried
    Bounds      \* the bounds of ranges tried

Sizes == /\ F \in Nat \ {0} /\ P \in Nat \ {0} /\ Bias \in Nat
                /\ \A q \in Reals \cup Parts : q[2] \in Nat \ {0}
                /\ Powers \cup Bounds \subseteq Int

(***************************************************************************)
(* Numbers and their parts.                                                *)
(***************************************************************************)

Whole(n) == [int |-> n]
Ratio(n, d) == [num |-> n, den |-> d]           \* %make-ratio: trusted
IsInt(x) == "int" \in DOMAIN x
IsRatio(x) == "den" \in DOMAIN x
IsComplex(x) == "re" \in DOMAIN x
IsFix(n) == n \in -F - 1 .. F

numerator(x) == IF IsInt(x) THEN x.int ELSE x.num
denominator(x) == IF IsInt(x) THEN 1 ELSE x.den
realpart(x) == IF IsComplex(x) THEN x.re ELSE x
imagpart(x) == IF IsComplex(x) THEN x.im ELSE Whole(0)

Abs(n) == IF n < 0 THEN -n ELSE n
Sign(n) == IF n < 0 THEN -1 ELSE IF n = 0 THEN 0 ELSE 1

\* Division of integers toward zero, its remainder, the greatest common
\* divisor and the length in bits.
Trunc(m, n) == Sign(m) * Sign(n) * (Abs(m) \div Abs(n))
Rest(m, n) == m - n * Trunc(m, n)
RECURSIVE Gcd(_, _)
Gcd(m, n) == IF n = 0 THEN Abs(m) ELSE Gcd(n, m % Abs(n))
RECURSIVE Length(_)
Length(n) == IF n = 0 THEN 0 ELSE 1 + Length(n \div 2)

\* The common denominator made positive; 1 is dropped.  The two integers
\* have no common divisor.
BuildPositive(n, d) == IF d = 1 THEN Whole(n) ELSE Ratio(n, d)
build_ratio(n, d) == IF d < 0 THEN BuildPositive(-n, -d) ELSE BuildPositive(n, d)
maybe_truncate(m, n) == IF n = 1 THEN m ELSE Trunc(m, n)

canonical_complex(re, im) == IF im = Whole(0) THEN re ELSE [re |-> re, im |-> im]

NegateReal(x) == IF IsInt(x) THEN Whole(-x.int) ELSE Ratio(-x.num, x.den)
negate(x) ==
    IF IsComplex(x) THEN canonical_complex(NegateReal(x.re), NegateReal(x.im)) ELSE NegateReal(x)
conjugate(x) == IF IsComplex(x) THEN canonical_complex(x.re, NegateReal(x.im)) ELSE x
signum(x) == Whole(Sign(numerator(x)))

(***************************************************************************)
(* Sums and differences (s is 1 or -1).                                    *)
(***************************************************************************)

\* Equal denominators.
SumOver(t1, dx) ==
    IF t1 = 0 THEN Whole(0)
    ELSE LET g2 == Gcd(t1, dx)
         IN  IF g2 = 1 THEN Ratio(t1, dx) ELSE BuildPositive(Trunc(t1, g2), Trunc(dx, g2))

\* Denominators with the common divisor g1: only g1 can be cancelled.
SumUnreduced(t1, t2, ty1, dy, g1) ==
    IF t1 = 0 THEN Whole(0) ELSE Ratio(t1, t2 * dy)
SumWithCommon(t1, t2, ty1, dy, g1) ==
    LET g2 == Gcd(t1, g1)
    IN  IF t1 = 0 THEN Whole(0)
        ELSE IF g2 = 1 THEN Ratio(t1, t2 * dy)
        ELSE IF g2 = g1 THEN BuildPositive(Trunc(t1, g1), t2 * ty1)
        ELSE BuildPositive(Trunc(t1, g2), t2 * (Trunc(g1, g2) * ty1))

SumOfRatios(s, nx, dx, ny, dy, g1) ==
    IF dx = dy THEN SumOver(nx + s * ny, dx)
    ELSE IF g1 = 1 THEN Ratio(nx * dy + s * (dx * ny), dx * dy)
    ELSE SumWithCommon(nx * Trunc(dy, g1) + s * (Trunc(dx, g1) * ny), Trunc(dx, g1), Trunc(dy, g1), dy, g1)

AddReals(s, x, y) ==
    IF IsInt(x) /\ IsInt(y) THEN Whole(x.int + s * y.int)
    ELSE IF IsInt(x)
    THEN IF x.int = 0 THEN (IF s = 1 THEN y ELSE NegateReal(y)) ELSE Ratio(x.int * y.den + s * y.num, y.den)
    ELSE IF IsInt(y) THEN IF y.int = 0 THEN x ELSE Ratio(x.num + s * (y.int * x.den), x.den)
    ELSE SumOfRatios(s, x.num, x.den, y.num, y.den, Gcd(x.den, y.den))

two_arg_plus_minus(s, x, y) ==
    IF ~IsComplex(x) /\ ~IsComplex(y) THEN AddReals(s, x, y)
    ELSE canonical_complex(AddReals(s, realpart(x), realpart(y)), AddReals(s, imagpart(x), imagpart(y)))

(***************************************************************************)
(* Quotients and products.                                                 *)
(***************************************************************************)

\* Both fixnums: the division that shows one divides the other leaves less
\* work for the greatest common divisor.
Reduced(x, y, g) == IF g = 1 THEN build_ratio(x, y) ELSE build_ratio(Trunc(x, g), Trunc(y, g))
FixnumQuotient(x, y) ==
    IF x = 0 THEN Whole(0)
    ELSE IF Abs(y) > Abs(x)
    THEN IF Rest(y, x) = 0 THEN build_ratio(1, Trunc(y, x)) ELSE Reduced(x, y, Gcd(x, Rest(y, x)))
    ELSE IF Rest(x, y) = 0 THEN Whole(Trunc(x, y)) ELSE Reduced(x, y, Gcd(y, Rest(x, y)))

integer_over_integer(x, y) ==
    IF IsFix(x) /\ IsFix(y) THEN FixnumQuotient(x, y)
    ELSE IF y = 1 THEN Whole(x)
    ELSE IF y = -1 THEN Whole(-x)
    ELSE IF Abs(x) = 1 THEN Ratio(x * Sign(y), Abs(y))
    ELSE Reduced(x, y, Gcd(x, y))

IntegerTimesGeneral(x, ny, dy, g) ==
    IF g = 1 THEN Ratio(x * ny, dy) ELSE BuildPositive(Trunc(x, g) * ny, Trunc(dy, g))
integer_times_ratio(x, y) ==
    IF x = 0 THEN Whole(0)
    ELSE IF x = 1 THEN y
    ELSE IF x = -1 THEN Ratio(-y.num, y.den)
    ELSE IF y.num = 1 THEN integer_over_integer(x, y.den)
    ELSE IF y.num = -1 THEN integer_over_integer(-x, y.den)
    ELSE IntegerTimesGeneral(x, y.num, y.den, Gcd(x, y.den))

RatioTimesRatio(nx, dx, ny, dy, g1, g2) ==
    build_ratio(maybe_truncate(nx, g1) * maybe_truncate(ny, g2), maybe_truncate(dx, g2) * maybe_truncate(dy, g1))

MultiplyReals(x, y) ==
    IF IsInt(x) /\ IsInt(y) THEN Whole(x.int * y.int)
    ELSE IF IsInt(x) THEN integer_times_ratio(x.int, y)
    ELSE IF IsInt(y) THEN integer_times_ratio(y.int, x)
    ELSE RatioTimesRatio(x.num, x.den, y.num, y.den, Gcd(x.num, y.den), Gcd(x.den, y.num))

two_arg_times(x, y) ==
    IF IsComplex(x) /\ IsComplex(y)
    THEN canonical_complex(AddReals(-1, MultiplyReals(x.re, y.re), MultiplyReals(x.im, y.im)),
                           AddReals(1, MultiplyReals(x.re, y.im), MultiplyReals(x.im, y.re)))
    ELSE IF IsComplex(x) THEN canonical_complex(MultiplyReals(x.re, y), MultiplyReals(x.im, y))
    ELSE IF IsComplex(y) THEN canonical_complex(MultiplyReals(y.re, x), MultiplyReals(y.im, x))
    ELSE MultiplyReals(x, y)

\* The product of a rational that is no fixnum and a fixnum, where a fixnum
\* is wanted.  ERR multiplies the two for the type error this must be, and
\* the compiler is told that control does not get past it.
ToFixnum(p) == IF IsInt(p) /\ IsFix(p.int) THEN p ELSE [error |-> TRUE]
Err(x, f) == IF "error" \in DOMAIN ToFixnum(two_arg_times(x, Whole(f))) THEN [error |-> TRUE] ELSE [unreachable |-> TRUE]
times_by_fixnum_to_fixnum(x, f) ==
    IF f = 0 THEN Whole(0)
    ELSE IF IsRatio(x) /\ IsFix(x.num) /\ IsFix(x.den) /\ Rest(f, x.den) = 0 THEN ToFixnum(Whole(Trunc(f, x.den) * x.num))
    ELSE IF IsInt(x) /\ f = -1 /\ x.int = F + 1 THEN Whole(-F - 1)
    ELSE Err(x, f)

RatioOverRatio(x, y) ==
    IF y.num = 1 THEN MultiplyReals(x, Whole(y.den))
    ELSE IF y.num = -1 THEN MultiplyReals(x, Whole(-y.den))
    ELSE IF x.den = y.den
    THEN IF x.num = y.num THEN Whole(1)
         ELSE IF IsFix(x.num) /\ -x.num = y.num THEN Whole(-1)
         ELSE integer_over_integer(x.num, y.num)
    ELSE LET g1 == Gcd(x.num, y.num)
             g2 == Gcd(x.den, y.den)
         IN  build_ratio(maybe_truncate(x.num, g1) * maybe_truncate(y.den, g2),
                         maybe_truncate(x.den, g2) * maybe_truncate(y.num, g1))

IntegerOverRatio(x, ny, dy) ==
    IF x = 0 THEN Whole(0)
    ELSE IF Abs(x) = 1
    THEN IF Abs(ny) = 1 THEN Whole(x * ny * dy) ELSE Ratio(x * Sign(ny) * dy, Abs(ny))
    ELSE build_ratio(maybe_truncate(x, Gcd(x, ny)) * dy, maybe_truncate(ny, Gcd(x, ny)))

RatioOverInteger(x, y) ==
    IF y = 1 THEN x
    ELSE IF y = -1 THEN Ratio(-x.num, x.den)
    ELSE IF x.num = 1 THEN build_ratio(1, x.den * y)
    ELSE build_ratio(maybe_truncate(x.num, Gcd(x.num, y)), maybe_truncate(y, Gcd(x.num, y)) * x.den)

DivideReals(x, y) ==
    IF IsRatio(x) /\ IsRatio(y) THEN RatioOverRatio(x, y)
    ELSE IF IsRatio(y) THEN IntegerOverRatio(x.int, y.num, y.den)
    ELSE IF IsRatio(x) THEN RatioOverInteger(x, y.int)
    ELSE integer_over_integer(x.int, y.int)

\* Is x > y in absolute value (comparing two reals is below).
AbsGreater(x, y) ==
    Abs(numerator(x)) * denominator(y) > Abs(numerator(y)) * denominator(x)

\* Divide by a complex through the ratio of its smaller part to its larger.
OverComplex(rx, ix, ry, iy) ==
    IF AbsGreater(ry, iy)
    THEN LET r == DivideReals(iy, ry)
             dn == AddReals(1, ry, MultiplyReals(r, iy))
         IN  canonical_complex(DivideReals(AddReals(1, rx, MultiplyReals(ix, r)), dn),
                               DivideReals(AddReals(-1, ix, MultiplyReals(rx, r)), dn))
    ELSE LET r == DivideReals(ry, iy)
             dn == AddReals(1, iy, MultiplyReals(r, ry))
         IN  canonical_complex(DivideReals(AddReals(1, MultiplyReals(rx, r), ix), dn),
                               DivideReals(AddReals(-1, MultiplyReals(ix, r), rx), dn))

two_arg_over(x, y) ==
    IF IsComplex(y) THEN OverComplex(realpart(x), imagpart(x), y.re, y.im)
    ELSE IF IsComplex(x) THEN canonical_complex(DivideReals(x.re, y), DivideReals(x.im, y))
    ELSE DivideReals(x, y)

two_arg_lcm(n, m) ==
    IF n = 0 \/ m = 0 THEN Whole(0)
    ELSE IF Abs(m) > Abs(n) THEN Whole(Trunc(Abs(m), Gcd(n, m)) * Abs(n))
    ELSE Whole(Trunc(Abs(n), Gcd(n, m)) * Abs(m))

(***************************************************************************)
(* Integer quotients.  Each function returns a quotient and a remainder.   *)
(***************************************************************************)

QR(q, r) == [q |-> q, r |-> r]

\* TRUNCATE: only the most negative fixnum is divided by a larger bignum.
TruncateIntegers(m, n) ==
    IF IsFix(m) /\ ~IsFix(n)
    THEN IF m = -F - 1 /\ n = F + 1 THEN QR(-1, 0) ELSE QR(0, m)
    ELSE QR(Trunc(m, n), Rest(m, n))

\* The quotient and remainder of ratios from those of q = num / den, which
\* are integers; the remainder is over rd.
OverDenominator(q, rd, coprime) ==
    QR(Whole(q.q), IF coprime THEN Ratio(q.r, rd) ELSE integer_over_integer(q.r, rd))
truncate(x, y) ==
    IF IsInt(x) /\ IsInt(y)
    THEN LET t == TruncateIntegers(x.int, y.int) IN QR(Whole(t.q), Whole(t.r))
    ELSE IF IsInt(y) THEN OverDenominator(TruncateIntegers(x.num, x.den * y.int), x.den, TRUE)
    ELSE OverDenominator(TruncateIntegers(numerator(x) * y.den, denominator(x) * y.num), denominator(x) * y.den, FALSE)

\* FLOOR and CEILING correct TRUNCATE's answer by dir when the remainder
\* has the sign that means it was rounded the other way.
Fixup(t, dir, d, y) == IF Sign(t.r) = dir * Sign(y) THEN QR(t.q + dir, t.r - dir * d) ELSE t
RoundIntegers(dir, m, n) ==
    IF ~(IsFix(m) /\ ~IsFix(n)) THEN Fixup(QR(Trunc(m, n), Rest(m, n)), dir, n, n)
    ELSE IF dir = 1 /\ m = -F - 1 /\ n = F + 1 THEN QR(-1, 0)
    ELSE IF Sign(m) = dir * Sign(n) THEN QR(dir, m - dir * n) ELSE QR(0, m)
floor_or_ceiling(dir, x, y) ==
    IF IsInt(x) /\ IsInt(y)
    THEN LET t == RoundIntegers(dir, x.int, y.int) IN QR(Whole(t.q), Whole(t.r))
    ELSE IF IsInt(y)
    THEN OverDenominator(Fixup(TruncateIntegers(x.num, x.den * y.int), dir, x.den * y.int, y.int), x.den, TRUE)
    ELSE OverDenominator(
             Fixup(TruncateIntegers(numerator(x) * y.den, denominator(x) * y.num), dir, denominator(x) * y.num, y.num),
             denominator(x) * y.den, FALSE)
floor(x, y) == floor_or_ceiling(-1, x, y)
ceiling(x, y) == floor_or_ceiling(1, x, y)

\* ROUND: to the even quotient when the remainder is half the divisor.
RoundUp(t, m, n) ==
    IF (m < 0) = (n < 0) THEN QR(t.q + 1, t.r - n) ELSE QR(t.q - 1, t.r + n)
Rounded(t, m, n) ==
    IF t.r # 0 /\ (2 * Abs(t.r) > Abs(n) \/ (2 * Abs(t.r) = Abs(n) /\ t.q % 2 = 1)) THEN RoundUp(t, m, n) ELSE t
round(x, y) ==
    LET m == numerator(x) * denominator(y)
        n == denominator(x) * numerator(y)
        t == Rounded(TruncateIntegers(m, n), m, n)
    IN  IF IsInt(x) /\ IsInt(y) THEN QR(Whole(t.q), Whole(t.r))
        ELSE OverDenominator(t, denominator(x) * denominator(y), IsInt(y))

(***************************************************************************)
(* Comparison (op is one of "<", ">", "<=", ">=").                         *)
(***************************************************************************)

Holds(op, m, n) ==
    CASE op = "<" -> m < n
      [] op = ">" -> m > n
      [] op = "<=" -> m <= n
      [] op = ">=" -> m >= n
Strict(op) == IF op \in {"<", "<="} THEN "<" ELSE ">"

\* The products of fixnums are compared as two words each.
Word == 4 * (F + 1)
CompareWords(op, p1, p2) ==
    IF p1 \div Word = p2 \div Word THEN Holds(op, p1 % Word, p2 % Word)
    ELSE Holds(Strict(op), p1 \div Word, p2 \div Word)
compare_two_ratios(op, x, y) ==
    IF IsFix(x.num) /\ IsFix(x.den) /\ IsFix(y.num) /\ IsFix(y.den)
    THEN CompareWords(op, x.num * y.den, y.num * x.den)
    ELSE \/ op \in {"<=", ">="} /\ x = y
         \/ Holds(Strict(op), x.num * y.den, y.num * x.den)

\* A ratio is never equal to an integer: it is rounded toward it, or away.
Toward(op, x) == IF Strict(op) = "<" THEN floor(Whole(x.num), Whole(x.den)).q.int ELSE ceiling(Whole(x.num), Whole(x.den)).q.int
Away(op, x) == IF Strict(op) = "<" THEN ceiling(Whole(x.num), Whole(x.den)).q.int ELSE floor(Whole(x.num), Whole(x.den)).q.int
two_arg_compare(op, x, y) ==
    IF IsInt(x) /\ IsInt(y) THEN Holds(op, x.int, y.int)
    ELSE IF IsInt(x) THEN Holds(Strict(op), x.int, Away(op, y))
    ELSE IF IsInt(y) THEN Holds(Strict(op), Toward(op, x), y.int)
    ELSE compare_two_ratios(op, x, y)

EqualReals(x, y) == IsInt(x) = IsInt(y) /\ numerator(x) = numerator(y) /\ denominator(x) = denominator(y)
two_arg_equal(x, y) ==
    IF IsComplex(x) /\ IsComplex(y) THEN EqualReals(x.re, y.re) /\ EqualReals(x.im, y.im)
    ELSE IF IsComplex(x) THEN EqualReals(x.re, y) /\ x.im = Whole(0)
    ELSE IF IsComplex(y) THEN EqualReals(x, y.re) /\ y.im = Whole(0)
    ELSE EqualReals(x, y)

\* The functions of any number of arguments, as sequences.
all_equal(s) == \A i \in 2 .. Len(s) : two_arg_equal(s[1], s[i])
all_different(s) == \A i \in 1 .. Len(s) : \A j \in i + 1 .. Len(s) : ~two_arg_equal(s[i], s[j])
in_order(op, s) == \A i \in 1 .. Len(s) - 1 : two_arg_compare(op, s[i], s[i + 1])
RECURSIVE max_from(_, _, _)
max_from(op, best, s) ==
    IF s = <<>> THEN best
    ELSE max_from(op, IF two_arg_compare(op, Head(s), best) THEN Head(s) ELSE best, Tail(s))

(***************************************************************************)
(* Powers.                                                                 *)
(***************************************************************************)

RECURSIVE Squarings(_, _, _)
Squarings(base, total, power) ==
    IF power = 0 THEN total
    ELSE LET sq == two_arg_times(base, base)
         IN  Squarings(sq, IF power % 2 = 1 THEN two_arg_times(sq, total) ELSE total, power \div 2)

\* A base that is an integer or complex, a power >= 0.
PositivePower(base, power) ==
    IF base = Whole(1) \/ power = 1 THEN base
    ELSE IF base = Whole(-1) THEN Whole(IF power % 2 = 0 THEN 1 ELSE -1)
    ELSE IF base = Whole(0) THEN Whole(IF power = 0 THEN 1 ELSE 0)
    ELSE IF base = Whole(2) THEN Whole(2 ^ power)
    ELSE IF base = Whole(-2) THEN Whole((IF power % 2 = 1 THEN -1 ELSE 1) * 2 ^ power)
    ELSE Squarings(base, IF power % 2 = 1 THEN base ELSE Whole(1), power \div 2)
PowerOf(n, power) == PositivePower(Whole(n), power).int

RatioToPower(n, d, power) ==
    IF power = 0 THEN Whole(1)
    ELSE IF power > 0 THEN Ratio(PowerOf(n, power), PowerOf(d, power))
    ELSE IF n = 1 THEN Whole(PowerOf(d, -power))
    ELSE IF n = -1 THEN Whole(PowerOf(-d, -power))
    ELSE IF power % 2 = 1 /\ n < 0 THEN build_ratio(PowerOf(-d, -power), PowerOf(-n, -power))
    ELSE build_ratio(PowerOf(d, -power), PowerOf(n, -power))

\* Defined unless the base is zero and the power negative.
intexp(base, power) ==
    IF base = Whole(1) \/ power = 1 THEN base
    ELSE IF IsRatio(base) THEN RatioToPower(base.num, base.den, power)
    ELSE IF power >= 0 \/ base = Whole(-1) THEN PositivePower(base, Abs(power))
    ELSE IF IsInt(base)
    THEN IF power % 2 = 1 /\ base.int < 0 THEN Ratio(-1, PowerOf(-base.int, -power))
         ELSE Ratio(1, PowerOf(base.int, -power))
    ELSE two_arg_over(Whole(1), PositivePower(base, -power))

(***************************************************************************)
(* Floats: m * 2^e, m < 2^P and the sign apart.                            *)
(***************************************************************************)

\* integer-decode-float of a float, denormal or not.
Float(neg, m, e) == [neg |-> neg, m |-> m, e |-> e]
MinExp == 1 - Bias

Shifted(n, k) == IF k >= 0 THEN n * 2 ^ k ELSE n \div 2 ^ (-k)
RECURSIVE TrailingZeros(_)
TrailingZeros(n) == IF n % 2 = 1 THEN 0 ELSE 1 + TrailingZeros(n \div 2)

\* The real a number or a float stands for, as a pair of an integer and a
\* positive one, whatever their common divisors.
Frac(r) == <<numerator(r), denominator(r)>>
FracEq(p, q) == p[1] * q[2] = q[1] * p[2]
FracLess(p, q) == p[1] * q[2] < q[1] * p[2]
FracPlus(p, q) ==
    IF q[2] % p[2] = 0 THEN <<p[1] * (q[2] \div p[2]) + q[1], q[2]>>
    ELSE IF p[2] % q[2] = 0 THEN <<p[1] + q[1] * (p[2] \div q[2]), p[2]>>
    ELSE <<p[1] * q[2] + q[1] * p[2], p[2] * q[2]>>
FracTimes(p, q) == IF p[1] = 0 \/ q[1] = 0 THEN <<0, 1>> ELSE <<p[1] * q[1], p[2] * q[2]>>
FracMinus(p, q) == FracPlus(p, <<-q[1], q[2]>>)
FracAbs(p) == <<Abs(p[1]), p[2]>>
Signed(f) == IF f.neg THEN -f.m ELSE f.m
FloatFrac(f) == IF f.e >= 0 THEN <<Signed(f) * 2 ^ f.e, 1>> ELSE <<Signed(f), 2 ^ (-f.e)>>

\* RATIONAL: the denominator is a power of two.
rational(f) ==
    IF f.m = 0 THEN Whole(0)
    ELSE IF f.e < 0 /\ -f.e > TrailingZeros(f.m)
    THEN Ratio(Shifted(Signed(f), -TrailingZeros(f.m)), 2 ^ (-f.e - TrailingZeros(f.m)))
    ELSE Whole(Shifted(Signed(f), f.e))

\* RATIONALIZE: the simplest rational between the two halfway points a and
\* b, by continued fractions.
RECURSIVE Simplest(_, _, _, _, _, _)
SimplestStep(a, b, k, p0, q0, p1, q1) ==
    Simplest(DivideReals(Whole(1), AddReals(-1, b, Whole(k))), DivideReals(Whole(1), AddReals(-1, a, Whole(k))),
             p1, q1, k * p1 + p0, k * q1 + q0)
Simplest(a, b, p0, q0, p1, q1) ==
    LET c == ceiling(a, Whole(1)).q.int
    IN  IF two_arg_compare("<", Whole(c), b) THEN <<c * p1 + p0, c * q1 + q0>>
        ELSE SimplestStep(a, b, c - 1, p0, q0, p1, q1)
Rationalized(neg, frac, expo) ==
    IF frac = 0 \/ expo >= 0 THEN Whole((IF neg THEN -1 ELSE 1) * Shifted(frac, expo))
    ELSE LET s == Simplest(build_ratio(2 * frac - 1, 2 ^ (1 - expo)), build_ratio(2 * frac + 1, 2 ^ (1 - expo)), 0, 1, 1, 0)
         IN  build_ratio(IF neg THEN -s[1] ELSE s[1], s[2])
rationalize(f) == Rationalized(f.neg, f.m * 2 ^ (P - Length(f.m)), f.e - (P - Length(f.m)))

\* The float nearest to n / d, for n > 0, as a pair m, e of m * 2^e, by an
\* integer division to two bits more than the significand needs.
RoundAway(x, inexact, mask, shift) ==
    LET low == IF inexact /\ x % 2 = 0 THEN x + 1 ELSE x
        up == (low \div mask) % 2 = 1 /\ ((low \div (2 * mask)) % 2 = 1 \/ low % mask # 0)
        y == IF up THEN x + mask ELSE x
    IN  <<y - (y % (2 * mask)), shift>>
DivideShifted(n, d, shift, inexact) ==
    LET x == n \div d
        extra == (IF Length(x) > MinExp - shift THEN Length(x) ELSE MinExp - shift) - P
    IN  RoundAway(x, inexact \/ n % d # 0, 2 ^ (extra - 1), shift)
WithShift(n, d, shift) ==
    IF shift < 0 THEN DivideShifted(n * 2 ^ (-shift), d, shift, FALSE)
    ELSE DivideShifted(n \div 2 ^ shift, d, shift, n % 2 ^ shift # 0)
float_ratio(n, d) ==
    LET diff == Length(n) - Length(d)
    IN  WithShift(n, d, (IF diff > MinExp - 1 THEN diff ELSE MinExp - 1) - P - 2)

(***************************************************************************)
(* Floats compared with rationals, and tests of fixnum ranges, without     *)
(* making a rational of the float.                                         *)
(***************************************************************************)

\* The floats that truncate to fixnums, and the truncation.
most_positive_fixnum_float == (2 ^ P - 1) * 2 ^ (Length(F) - P)
TooLarge(f) == FracLess(<<most_positive_fixnum_float, 1>>, FloatFrac(f))
TooSmall(f) == FracLess(FloatFrac(f), <<-F - 1, 1>>)
UnaryTruncate(f) == Trunc(FloatFrac(f)[1], FloatFrac(f)[2])
UnaryFloor(f) == FloatFrac(f)[1] \div FloatFrac(f)[2]
UnaryCeiling(f) == -((-FloatFrac(f)[1]) \div FloatFrac(f)[2])
IsExactly(f, n) == FracEq(FloatFrac(f), <<n, 1>>)

\* With and without instructions that round a float down and up.
WithFloor(o, n, f) ==
    CASE o = "=" -> UnaryTruncate(f) = n /\ IsExactly(f, n)
      [] o = ">" -> n > UnaryFloor(f)
      [] o = "<" -> n < UnaryCeiling(f)
      [] o = ">=" -> n > UnaryFloor(f) \/ (n = UnaryFloor(f) /\ IsExactly(f, n))
      [] o = "<=" -> n < UnaryCeiling(f) \/ (n = UnaryCeiling(f) /\ IsExactly(f, n))
WithTruncate(o, n, f) ==
    LET quot == UnaryTruncate(f)
    IN  CASE o = "=" -> quot = n /\ IsExactly(f, n)
          [] o = ">" -> n > quot \/ (n = quot /\ n <= 0 /\ FracLess(FloatFrac(f), <<quot, 1>>))
          [] o = "<" -> n < quot \/ (n = quot /\ n >= 0 /\ FracLess(<<quot, 1>>, FloatFrac(f)))
          [] o = ">=" -> n > quot \/ (n = quot /\ (Signed(f) < 0 \/ IsExactly(f, n)))
          [] o = "<=" -> n < quot \/ (n = quot /\ (Signed(f) >= 0 \/ IsExactly(f, n)))
fixnum_float_comparer(o, n, f, roundsToInteger) ==
    IF TooLarge(f) THEN o \in {"<", "<="}
    ELSE IF TooSmall(f) THEN o \in {">", ">="}
    ELSE IF roundsToInteger THEN WithFloor(o, n, f) ELSE WithTruncate(o, n, f)

\* A ratio on the left of a float.
ratio_float_compare(o, r, f) ==
    IF f.m = 0 THEN two_arg_compare(o, r, Whole(0))
    ELSE IF f.e < 0 THEN Holds(o, r.num * 2 ^ (-f.e), Signed(f) * r.den)
    ELSE two_arg_compare(o, r, Whole(Shifted(Signed(f), f.e)))

\* RANGE<, RANGE<=, RANGE<<= and RANGE<=<, by where the bounds are open.
FloatInRange(openLow, openHigh, low, f, high) ==
    LET quot == UnaryTruncate(f)
    IN  /\ ~TooLarge(f) /\ ~TooSmall(f)
        /\ quot \in low .. high
        /\ (openLow \/ openHigh) => low # high
        /\ IF quot = high
           THEN IF openHigh THEN Signed(f) < 0 /\ ~IsExactly(f, quot)
                ELSE (Signed(f) < 0 /\ low # high) \/ IsExactly(f, quot)
           ELSE quot = low => IF openLow THEN Signed(f) > 0 /\ ~IsExactly(f, quot)
                              ELSE Signed(f) > 0 \/ IsExactly(f, quot)
RatioInRange(low, r, high) ==
    LET q == Trunc(r.num, r.den)
    IN  /\ IsFix(q) /\ q \in low .. high /\ low # high
        /\ q = high => r.num < 0
        /\ q = low => r.num >= 0
IntegerInRange(openLow, openHigh, low, n, high) ==
    /\ IsFix(n)
    /\ Holds(IF openLow THEN "<" ELSE "<=", low, n)
    /\ Holds(IF openHigh THEN "<" ELSE "<=", n, high)
in_range(openLow, openHigh, low, n, high) ==
    IF "neg" \in DOMAIN n THEN FloatInRange(openLow, openHigh, low, n, high)
    ELSE IF IsRatio(n) THEN RatioInRange(low, n, high)
    ELSE IntegerInRange(openLow, openHigh, low, n.int, high)

(***************************************************************************)
(* A session: one operation, its operands and its result.                  *)
(***************************************************************************)

VARIABLES op, left, right, res

vars == <<op, left, right, res>>

Real(q) == IF q[2] = 1 THEN Whole(q[1]) ELSE Ratio(q[1], q[2])
RealNumbers == {Real(q) : q \in Reals}
ComplexNumbers == {[re |-> Real(p), im |-> Real(q)] : p \in Parts, q \in {r \in Parts : r[1] # 0}}
Numbers == RealNumbers \cup ComplexNumbers
SmallReal(r) == Abs(numerator(r)) <= 3 /\ denominator(r) <= 3
Bases == {z \in Numbers : SmallReal(realpart(z)) /\ SmallReal(imagpart(z)) /\ (IsComplex(z) => IsInt(z.re) \/ IsInt(z.im))}
IntegerNumbers == {r \in RealNumbers : IsInt(r)}
Floats == {Float(neg, m, e) : neg \in BOOLEAN, m \in 2 ^ (P - 1) .. 2 ^ P - 1, e \in MinExp - P .. 4}
              \cup {Float(neg, m, MinExp - P) : neg \in BOOLEAN, m \in 0 .. 2 ^ (P - 1) - 1}

Result(o, a, b, r) == op' = o /\ left' = a /\ right' = b /\ res' = r

Init == op = "none" /\ left = Whole(0) /\ right = Whole(0) /\ res = Whole(0)

Plus == op = "none" /\ \E a, b \in Numbers : Result("+", a, b, two_arg_plus_minus(1, a, b))
Minus == op = "none" /\ \E a, b \in Numbers : Result("-", a, b, two_arg_plus_minus(-1, a, b))
Times == op = "none" /\ \E a, b \in Numbers : Result("*", a, b, two_arg_times(a, b))
Over == op = "none" /\ \E a, b \in Numbers : b # Whole(0) /\ Result("/", a, b, two_arg_over(a, b))
Unary == op = "none" /\ \E a \in Numbers :
             \/ Result("negate", a, a, negate(a))
             \/ Result("conjugate", a, a, conjugate(a))
             \/ ~IsComplex(a) /\ Result("signum", a, a, signum(a))
Lcm == op = "none" /\ \E a, b \in IntegerNumbers : Result("lcm", a, b, two_arg_lcm(a.int, b.int))
TimesToFixnum == op = "none" /\ \E a \in Numbers, b \in IntegerNumbers :
                     /\ IsFix(b.int) /\ ~(IsInt(a) /\ IsFix(a.int))
                     /\ Result("*fixnum", a, b, times_by_fixnum_to_fixnum(a, b.int))
Divisions == op = "none" /\ \E a, b \in RealNumbers :
                 /\ b # Whole(0)
                 /\ \/ Result("truncate", a, b, truncate(a, b))
                    \/ Result("floor", a, b, floor(a, b))
                    \/ Result("ceiling", a, b, ceiling(a, b))
                    \/ Result("round", a, b, round(a, b))
Compare == op = "none" /\ \E a, b \in RealNumbers, o \in {"<", ">", "<=", ">="} :
               Result(o, a, b, [holds |-> two_arg_compare(o, a, b)])
Equal == op = "none" /\ \E a, b \in Numbers : Result("=", a, b, [holds |-> two_arg_equal(a, b)])
Many == op = "none" /\ \E a, b, c \in {Real(p) : p \in Parts} :
            \/ Result("max", <<a, b, c>>, a, max_from(">", a, <<b, c>>))
            \/ Result("min", <<a, b, c>>, a, max_from("<", a, <<b, c>>))
            \/ Result("all=", <<a, b, c>>, a, [holds |-> all_equal(<<a, b, c>>)])
            \/ Result("all/=", <<a, b, c>>, a, [holds |-> all_different(<<a, b, c>>)])
            \/ Result("all<=", <<a, b, c>>, a, [holds |-> in_order("<=", <<a, b, c>>)])
Expt == op = "none" /\ \E a \in Bases, n \in Powers :
            /\ a = Whole(0) => n >= 0
            /\ ~IsFix(n) => a \in {Whole(-1), Whole(0), Whole(1)}
            /\ IsComplex(a) => n > -3
            /\ Result("expt", a, Whole(n), intexp(a, n))
FromFloat == op = "none" /\ \E f \in Floats :
                 \/ Result("rational", f, f, rational(f))
                 \/ Result("rationalize", f, f, rationalize(f))
CompareFloat == op = "none" /\ \E a \in RealNumbers, f \in Floats, o \in {"<", ">", "<=", ">=", "="} :
                    \/ /\ IsInt(a) /\ IsFix(a.int)
                       /\ \E rounds \in BOOLEAN :
                             Result(o, a, f, [holds |-> fixnum_float_comparer(o, a.int, f, rounds)])
                    \/ /\ IsRatio(a) /\ o # "="
                       /\ Result(o, a, f, [holds |-> ratio_float_compare(o, a, f)])
Range == op = "none" /\ \E n \in RealNumbers \cup Floats, low, high \in Bounds, openLow, openHigh \in BOOLEAN :
             Result("range", n, [low |-> low, high |-> high, openLow |-> openLow, openHigh |-> openHigh],
                    [holds |-> in_range(openLow, openHigh, low, n, high)])
ToFloat == op = "none" /\ \E n, d \in 1 .. 70 :
               /\ d > 1 /\ Gcd(n, d) = 1 /\ (n > 2 ^ P \/ d > 2 ^ P)
               /\ Result("float", n, d, [float |-> float_ratio(n, d)])

Next ==
    \/ Plus \/ Minus \/ Times \/ Over \/ Unary \/ Lcm \/ TimesToFixnum \/ Divisions
    \/ Compare \/ Equal \/ Many \/ Expt \/ FromFloat \/ CompareFloat \/ Range \/ ToFloat

Spec == Init /\ [][Next]_vars

(***************************************************************************)
(* What the results should be.                                             *)
(***************************************************************************)

Value(n) == IF "neg" \in DOMAIN n THEN FloatFrac(n) ELSE Frac(n)
Pair(n) == <<Frac(realpart(n)), Frac(imagpart(n))>>
PairEq(u, v) == FracEq(u[1], v[1]) /\ FracEq(u[2], v[2])
PairPlus(u, v) == <<FracPlus(u[1], v[1]), FracPlus(u[2], v[2])>>
PairTimes(u, v) == <<FracMinus(FracTimes(u[1], v[1]), FracTimes(u[2], v[2])),
                     FracPlus(FracTimes(u[1], v[2]), FracTimes(u[2], v[1]))>>
RECURSIVE PairPower(_, _)
PairPower(u, n) == IF n = 0 THEN <<<<1, 1>>, <<0, 1>>>> ELSE PairTimes(u, PairPower(u, n - 1))

\* number = quotient * divisor + remainder, the quotient an integer, and the
\* remainder as small and of the sign the function promises.
DivisionIsExact ==
    LET r == Frac(res.r)
        d == Frac(right)
        s == Sign(r[1])
    IN  /\ IsInt(res.q) /\ FracEq(Frac(left), FracPlus(FracTimes(Frac(res.q), d), r))
        /\ FracLess(FracAbs(r), FracAbs(d))
        /\ op = "truncate" => s \in {0, Sign(numerator(left))}
        /\ op = "floor" => s \in {0, Sign(d[1])}
        /\ op = "ceiling" => s \in {0, -Sign(d[1])}
        /\ op = "round" => LET twice == FracTimes(<<2, 1>>, FracAbs(r))
                           IN  ~FracLess(FracAbs(d), twice) /\ (FracEq(twice, FracAbs(d)) => res.q.int % 2 = 0)

\* f is the float nearest to the positive p; of two, the even one.
Distance(p, f) == FracAbs(FracMinus(p, FloatFrac(f)))
Nearest(p, f) == \A g \in {h \in Floats : ~h.neg} :
                     \/ FracLess(Distance(p, f), Distance(p, g)) \/ FracEq(FloatFrac(f), FloatFrac(g))
                     \/ FracEq(Distance(p, f), Distance(p, g)) /\ f.m % 2 = 0
ShiftFrac(f) == IF f[2] >= 0 THEN <<f[1] * 2 ^ f[2], 1>> ELSE <<f[1], 2 ^ (-f[2])>>

\* Every operation of numbers.lisp, and every conversion between rationals
\* and floats, gives the number that arithmetic on unreduced fractions says
\* it is, whichever of the special cases computes it; a product that must be
\* a fixnum is one, or a type error if it is none; RATIONALIZE gives a
\* rational whose nearest float is the float it began with.
ResultsAreExact ==
    CASE op = "+" -> PairEq(Pair(res), PairPlus(Pair(left), Pair(right)))
      [] op = "-" -> PairEq(PairPlus(Pair(res), Pair(right)), Pair(left))
      [] op = "*" -> PairEq(Pair(res), PairTimes(Pair(left), Pair(right)))
      [] op = "/" -> PairEq(PairTimes(Pair(res), Pair(right)), Pair(left))
      [] op = "negate" -> PairEq(PairPlus(Pair(res), Pair(left)), Pair(Whole(0)))
      [] op = "conjugate" -> PairTimes(Pair(left), Pair(res))[2][1] = 0
      [] op = "signum" -> FracEq(FracTimes(Frac(res), FracAbs(Frac(left))), Frac(left))
      [] op = "lcm" -> /\ res.int >= 0 /\ Gcd(left.int, right.int) * res.int = Abs(left.int * right.int)
      [] op = "*fixnum" -> LET fits == {i \in -F - 1 .. F : PairEq(Pair(Whole(i)), PairTimes(Pair(left), Pair(right)))}
                           IN  IF fits = {} THEN res = [error |-> TRUE] ELSE \E i \in fits : res = Whole(i)
      [] op \in {"truncate", "floor", "ceiling", "round"} -> DivisionIsExact
      [] op \in {"<", ">", "<=", ">="} -> res.holds = Holds(op, Value(left)[1] * Value(right)[2], Value(right)[1] * Value(left)[2])
      [] op = "=" -> res.holds = IF "neg" \in DOMAIN right THEN FracEq(Value(left), Value(right)) ELSE PairEq(Pair(left), Pair(right))
      [] op = "range" ->
             res.holds = /\ Holds(IF right.openLow THEN "<" ELSE "<=", right.low * Value(left)[2], Value(left)[1])
                         /\ Holds(IF right.openHigh THEN "<" ELSE "<=", Value(left)[1], right.high * Value(left)[2])
      [] op = "max" -> (\E i \in 1 .. 3 : res = left[i]) /\ \A i \in 1 .. 3 : ~FracLess(Frac(res), Frac(left[i]))
      [] op = "min" -> (\E i \in 1 .. 3 : res = left[i]) /\ \A i \in 1 .. 3 : ~FracLess(Frac(left[i]), Frac(res))
      [] op = "all=" -> res.holds = \A i, j \in 1 .. 3 : FracEq(Frac(left[i]), Frac(left[j]))
      [] op = "all/=" -> res.holds = \A i, j \in 1 .. 3 : i = j \/ ~FracEq(Frac(left[i]), Frac(left[j]))
      [] op = "all<=" -> res.holds = \A i, j \in 1 .. 3 : i < j => ~FracLess(Frac(left[j]), Frac(left[i]))
      [] op = "expt" -> IF right.int >= 0 THEN PairEq(Pair(res), PairPower(Pair(left), right.int))
                        ELSE PairEq(PairTimes(Pair(res), PairPower(Pair(left), -right.int)), Pair(Whole(1)))
      [] op = "rational" -> FracEq(Frac(res), FloatFrac(left))
      [] op = "rationalize" -> Nearest(FracAbs(Frac(res)), [left EXCEPT !.neg = FALSE]) /\ (left.m # 0 => left.neg = (numerator(res) < 0))
      [] op = "float" -> \E f \in Floats : FracEq(FloatFrac(f), ShiftFrac(res.float)) /\ Nearest(<<left, right>>, f)
      [] OTHER -> TRUE

\* The type error of ERR is the only way out of it.  (The code breaks this: a
\* product with the most negative fixnum can be a fixnum although a part of the
\* ratio is none.)
UnreachableIsNotReached == op = "*fixnum" => res # [unreachable |-> TRUE]

\* Every result has the one representation numbers of its value have: a
\* ratio is in lowest terms over a denominator greater than 1, a complex
\* rational has an imaginary part that is not zero.  EQL and the hash
\* functions rest on it.
CanonicalReal(r) == IsRatio(r) => r.den > 1 /\ Gcd(r.num, r.den) = 1
Canonical(r) ==
    IF IsComplex(r) THEN CanonicalReal(r.re) /\ CanonicalReal(r.im) /\ r.im # Whole(0) ELSE CanonicalReal(r)
ResultsAreCanonical ==
    IF "q" \in DOMAIN res THEN Canonical(res.q) /\ Canonical(res.r) ELSE Canonical(res)

=============================================================================
