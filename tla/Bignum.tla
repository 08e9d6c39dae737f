------------------------------- MODULE Bignum -------------------------------
(***************************************************************************)
(* Integers of any size (src/code/bignum.lisp): vectors of digits in two's *)
(* complement, least significant digit first, and the algorithms on them.  *)
(* A digit has W bits (digit-size, 64 in the build); nothing in the        *)
(* algorithms depends on W but the constants below, so a small W reaches   *)
(* every carry, borrow, sign and normalisation case with few digits.       *)
(*                                                                         *)
(* A bignum is its physical words and its length: an object takes an odd   *)
(* number of words after its header, so a bignum of even length is         *)
(* followed by a padding word.  A fresh object holds junk, never zeroes.   *)
(* Where the build has an assembly routine for a loop, the loop written in *)
(* Lisp next to it is the one modelled.                                    *)
(***************************************************************************)
EXTENDS Integers, Sequences, FiniteSets, Bitwise

CONSTANTS
    W,          \* bits of a digit: sb-vm:n-word-bits
    Junk,       \* the digit a fresh object is full of
    P,          \* digits of precision of a float: sb-vm:double-float-digits
    Bias,       \* sb-vm:double-float-bias
    ExpMax,     \* sb-vm:double-float-normal-exponent-max
    Operands,   \* the integers the operations are tried on, as numbers
    Counts,     \* the shift counts tried
    MaxBits     \* the longest product or left shift tried

ASSUME Widths == /\ W \in Nat /\ W >= 4 /\ W % 2 = 0
                 /\ Junk \in 1 .. 2 ^ W - 1
                 /\ P \in 2 .. W - 3
                 /\ Operands \subseteq Int /\ Counts \subseteq Nat /\ MaxBits \in Nat

Radix == 2 ^ W
AllOnes == Radix - 1
PosFixBits == W - 2                     \* sb-vm:n-positive-fixnum-bits
MostPositiveFixnum == 2 ^ PosFixBits - 1
MostNegativeFixnum == -(2 ^ PosFixBits)
Larger(i, j) == IF i > j THEN i ELSE j

(***************************************************************************)
(* Digits.                                                                 *)
(***************************************************************************)

\* %ashl, %digit-logical-shift-right, %ashr, %lognot and the two readings of
\* a digit as a signed word.
ashl(d, n) == (d * 2 ^ n) % Radix
lsr(d, n) == d \div 2 ^ n
ashr(d, n) == IF d < Radix \div 2 THEN d \div 2 ^ n
              ELSE AllOnes - (AllOnes - d) \div 2 ^ n
digit_lognot(d) == AllOnes - d
digit_plusp(d) == d < Radix \div 2
signed(d) == IF digit_plusp(d) THEN d ELSE d - Radix

RECURSIVE bits(_)
bits(n) == IF n = 0 THEN 0 ELSE 1 + bits(n \div 2)
integer_length(n) == bits(IF n < 0 THEN -n - 1 ELSE n)

(***************************************************************************)
(* Objects.                                                                *)
(***************************************************************************)

Fix(n) == [fix |-> n]
IsFix(x) == "fix" \in DOMAIN x

\* An object of len digits: an odd number of words, all of them junk.
allocate_bignum(len) == [w |-> [i \in 1 .. len + 1 - (len % 2) |-> Junk], len |-> len]

ref(b, i) == b.w[i + 1]
put(b, i, v) == [b EXCEPT !.w[i + 1] = v]

\* b with its digits from k on replaced by those of f, n of them.
putAll(b, k, f) ==
    LET n == Cardinality(DOMAIN f)
    IN  [b EXCEPT !.w = SubSeq(b.w, 1, k) \o [i \in 1 .. n |-> f[i - 1]] \o SubSeq(b.w, k + n + 1, Len(b.w))]

alloc_zeroing(len) == putAll(allocate_bignum(len), 0, [i \in 0 .. len - 1 |-> 0])
alloc_zeroing_below(len, end) == putAll(allocate_bignum(len), 0, [i \in 0 .. end - 1 |-> 0])

bignum_plusp(b, len) == digit_plusp(ref(b, len - 1))
bignum_plus_p(b) == bignum_plusp(b, b.len)
sign_digit(b, len) == ashr(ref(b, len - 1), W - 1)

\* The first n digits of b, extended with its sign beyond len.
Extended(b, len, n) ==
    [i \in 0 .. n - 1 |-> IF i < len THEN ref(b, i) ELSE sign_digit(b, len)]

clear_padding_word(b, oldlen) == IF oldlen % 2 = 0 THEN put(b, oldlen, 0) ELSE b

\* Drop the digits that only repeat the sign, zeroing them.
RECURSIVE normalize_bignum_buffer(_, _)
normalize_bignum_buffer(b, len) ==
    IF len = 1 \/ ref(b, len - 1) # ashr(ref(b, len - 2), W - 1)
    THEN [b |-> b, len |-> len]
    ELSE normalize_bignum_buffer(put(b, len - 1, 0), len - 1)

\* Shrink the object and turn it into a fixnum if its one digit is one.
ShrinkTo(n, len) ==
    IF n.len = len THEN n.b ELSE [clear_padding_word(n.b, len) EXCEPT !.len = n.len]
FixnumIfOne(b, n) ==
    IF n = 1 /\ ashr(ref(b, 0), PosFixBits) = ashr(ref(b, 0), W - 1) THEN Fix(signed(ref(b, 0))) ELSE b
Normalized(n, len) == FixnumIfOne(ShrinkTo(n, len), n.len)
normalize_bignum(b, len) == Normalized(normalize_bignum_buffer(b, len), len)

normalized(b) == normalize_bignum(b, b.len)

\* A fixnum as a bignum of one digit, and a word or signed word as an integer.
make_small_bignum(n) == put(allocate_bignum(1), 0, n % Radix)
Boxed(n) ==
    IF n \in MostNegativeFixnum .. MostPositiveFixnum THEN Fix(n)
    ELSE IF n \in -(Radix \div 2) .. Radix \div 2 - 1 THEN make_small_bignum(n)
    ELSE putAll(allocate_bignum(2), 0, [i \in 0 .. 1 |-> (n \div Radix ^ i) % Radix])
Small(x) == IF IsFix(x) THEN make_small_bignum(x.fix) ELSE x

bignum_buffer_integer_length(b, len) == integer_length(signed(ref(b, len - 1))) + (len - 1) * W

bignum_lower_bits_zero_p(b, n, len) ==
    /\ len > n \div W
    /\ \A i \in 0 .. n \div W - 1 : ref(b, i) = 0
    /\ ref(b, n \div W) % 2 ^ (n % W) = 0

(***************************************************************************)
(* The loops: a carry, a borrow (1 when there is none) or a carry digit    *)
(* runs from one digit to the next.                                        *)
(***************************************************************************)

AddLoop(x, y, carry, n) ==
    LET c[i \in 0 .. n] == IF i = 0 THEN carry ELSE (x[i - 1] + y[i - 1] + c[i - 1]) \div Radix
    IN  [i \in 0 .. n - 1 |-> (x[i] + y[i] + c[i]) % Radix]

SubtractLoop(x, y, n) ==
    LET k[i \in 0 .. n] == IF i = 0 THEN 1
                           ELSE IF x[i - 1] - y[i - 1] - 1 + k[i - 1] >= 0 THEN 1 ELSE 0
    IN  [i \in 0 .. n - 1 |-> (x[i] - y[i] - 1 + k[i] + Radix) % Radix]

\* The digits of x times b plus those of r, and the carry digit after them.
MultiplyLoop(x, b, n, r) ==
    LET c[i \in 0 .. n] == IF i = 0 THEN 0 ELSE (x * ref(b, i - 1) + r[i - 1] + c[i - 1]) \div Radix
    IN  [i \in 0 .. n |-> IF i = n THEN c[n] ELSE (x * ref(b, i) + r[i] + c[i]) % Radix]

Zeros(n) == [i \in 0 .. n - 1 |-> 0]

(***************************************************************************)
(* Addition, subtraction, negation.                                        *)
(***************************************************************************)

add_bignums(a, b) ==
    LET n == Larger(a.len, b.len) + 1
    IN  normalized(putAll(allocate_bignum(n), 0,
            AddLoop(Extended(a, a.len, n), Extended(b, b.len, n), 0, n)))

add_bignum_fixnum(a, n) ==
    LET len == a.len + 1
        b == [i \in 0 .. len - 1 |-> IF i = 0 THEN n % Radix ELSE (IF n < 0 THEN AllOnes ELSE 0)]
    IN  normalized(putAll(allocate_bignum(len), 0,
            AddLoop(Extended(a, a.len, len), b, 0, len)))

subtract_bignum(a, b) ==
    LET n == Larger(a.len, b.len) + 1
    IN  normalized(putAll(allocate_bignum(n), 0,
            SubtractLoop(Extended(a, a.len, n), Extended(b, b.len, n), n)))

\* A fixnum operand stands for its digit followed by its sign.
subtract_bignum_fixnum(a, n) ==
    LET len == a.len + 1
    IN  normalized(putAll(allocate_bignum(len), 0,
            SubtractLoop(Extended(a, a.len, len), Extended(make_small_bignum(n), 1, len), len)))

subtract_fixnum_bignum(n, b) ==
    LET len == b.len + 1
    IN  normalized(putAll(allocate_bignum(len), 0,
            SubtractLoop(Extended(make_small_bignum(n), 1, len), Extended(b, b.len, len), len)))

\* a - b into the buffer res, its length after dropping sign digits.
subtract_bignum_buffers_with_len(a, lenA, b, lenB, res, len) ==
    normalize_bignum_buffer(
        putAll(res, 0, SubtractLoop(Extended(a, lenA, len), Extended(b, lenB, len), len)), len)

subtract_bignum_buffers(a, lenA, b, lenB, res) ==
    subtract_bignum_buffers_with_len(a, lenA, b, lenB, res, Larger(lenA, lenB))

\* Subtract the len digits of b from a's digits at offset; the borrow is lost.
subtract_bignum_in_place(a, b, offset, len) ==
    putAll(a, offset,
        SubtractLoop([i \in 0 .. len - 1 |-> ref(a, offset + i)],
                     [i \in 0 .. len - 1 |-> ref(b, i)], len))

negate_bignum_buffer_in_place(b, len) ==
    putAll(b, 0, AddLoop([i \in 0 .. len - 1 |-> digit_lognot(ref(b, i))], Zeros(len), 1, len))

negate_bignum_in_place(b) == negate_bignum_buffer_in_place(b, b.len)

bignum_abs_buffer(b, len) ==
    IF bignum_plusp(b, len) THEN b ELSE negate_bignum_buffer_in_place(b, len)

\* Negate into a fresh bignum with no useless digit.  Only a first digit of
\* 100..0 can need one more digit; a result of one digit is made a fixnum
\* only in the one case the caller asks for.
DropLast(res, len, last1) ==
    IF ref(res, len - 1) = ashr(last1, W - 1)
    THEN [clear_padding_word(put(res, len - 1, 0), len) EXCEPT !.len = len - 1]
    ELSE res
Negated(b, len) ==
    [i \in 0 .. len - 1 |-> IF i = b.len THEN 0
                            ELSE AddLoop([j \in 0 .. b.len - 1 |-> digit_lognot(ref(b, j))], Zeros(b.len), 1, b.len)[i]]
DropSign(res, len) == DropLast(res, len, IF len = 1 THEN 0 ELSE ref(res, len - 2))
NegateTo(b, len) == DropSign(putAll(allocate_bignum(len), 0, Negated(b, len)), len)

negate_bignum(b, fully) ==
    IF fully /\ b.len = 1 /\ ref(b, 0) = MostPositiveFixnum + 1 THEN Fix(MostNegativeFixnum)
    ELSE NegateTo(b, IF ref(b, b.len - 1) = 2 ^ (W - 1) THEN b.len + 1 ELSE b.len)

negate_bignum_not_fully_normalized(b) == negate_bignum(b, FALSE)
Absolute(b) == IF bignum_plus_p(b) THEN b ELSE negate_bignum_not_fully_normalized(b)

(***************************************************************************)
(* Multiplication: rows of partial products of the unsigned digits, then   *)
(* the other operand taken off the high digits for each negative one.      *)
(***************************************************************************)

\* Row i of the product: the earlier rows plus a[i] times b.
AddRow(r, a, b, i) ==
    putAll(r, i, MultiplyLoop(ref(a, i), b, b.len,
                     IF i = 0 THEN Zeros(b.len) ELSE [j \in 0 .. b.len - 1 |-> ref(r, i + j)]))
SignFix(r, a, b) == IF bignum_plus_p(a) THEN r ELSE subtract_bignum_in_place(r, b, a.len, b.len)
MultiplyOrdered(a, b) ==
    LET row[i \in 0 .. a.len] ==
            IF i = 0 THEN allocate_bignum(a.len + b.len) ELSE AddRow(row[i - 1], a, b, i - 1)
    IN  normalized(SignFix(SignFix(row[a.len], a, b), b, a))
multiply_bignums(a, b) == IF a.len > b.len THEN MultiplyOrdered(b, a) ELSE MultiplyOrdered(a, b)

TimesWord(b, n) == putAll(allocate_bignum(b.len + 1), 0, MultiplyLoop(n, b, b.len, Zeros(b.len)))
TakeOff(r, b, n) == IF bignum_plus_p(b) THEN r ELSE put(r, b.len, (ref(r, b.len) - n) % Radix)
multiply_bignum_and_fixnum(b, n) ==
    IF n = 1 THEN b
    ELSE IF n = -1 THEN negate_bignum(b, TRUE)
    ELSE IF n < 0 THEN normalized(negate_bignum_in_place(TakeOff(TimesWord(b, -n), b, -n)))
    ELSE normalized(TakeOff(TimesWord(b, n), b, n))

multiply_fixnums(m, n) ==
    LET p == (IF m < 0 THEN -m ELSE m) * (IF n < 0 THEN -n ELSE n)
        same == (m < 0) = (n < 0)
        res == putAll(allocate_bignum(2), 0,
                   [i \in 0 .. 1 |-> IF i = 0 THEN p % Radix ELSE p \div Radix])
    IN  IF p \div Radix = 0 /\ digit_plusp(p % Radix)
        THEN Boxed(IF same THEN p ELSE -p)
        ELSE normalized(IF same THEN res ELSE negate_bignum_in_place(res))

\* A buffer times a word into another buffer (the sign of the buffer is taken
\* off it and put back, which restores it).
WithSign(r, plus) == IF plus THEN r ELSE [r EXCEPT !.b = negate_bignum_buffer_in_place(r.b, r.len)]
multiply_bignum_buffer_and_smallnum_to_buffer(b, len, n, res) ==
    WithSign(normalize_bignum_buffer(
                 putAll(res, 0, MultiplyLoop(IF n < 0 THEN -n ELSE n, bignum_abs_buffer(b, len), len, Zeros(len))),
                 len + 1),
             bignum_plusp(b, len) = (n >= 0))

(***************************************************************************)
(* Shifts.                                                                 *)
(***************************************************************************)

\* Digits of src from start on, moved down by pos bits (1 .. W - 1), the
\* last of them with its sign.
shift_right_unaligned(src, start, pos, len) ==
    [j \in 0 .. len - 1 |->
        IF j = len - 1 THEN ashr(ref(src, start + j), pos)
        ELSE lsr(ref(src, start + j), pos) | ashl(ref(src, start + j + 1), W - pos)]

bignum_ashift_right_digits(b, digits) ==
    LET len == b.len - digits
    IN  normalized(putAll(allocate_bignum(len), 0, [i \in 0 .. len - 1 |-> ref(b, i + digits)]))

bignum_ashift_right(b, count) ==
    LET digits == count \div W
        len == b.len - digits
    IN  IF digits >= b.len THEN Fix(signed(sign_digit(b, b.len)))
        ELSE IF count % W = 0 THEN bignum_ashift_right_digits(b, digits)
        ELSE normalized(putAll(allocate_bignum(len), 0,
                               shift_right_unaligned(b, digits, count % W, len)))

\* The same in place, for the greatest common divisor.
bignum_buffer_ashift_right(b, len, x) ==
    LET digits == x \div W
        new == len - digits
        f == IF x % W = 0 THEN [i \in 0 .. new - 1 |-> ref(b, i + digits)]
             ELSE shift_right_unaligned(b, digits, x % W, new)
    IN  normalize_bignum_buffer(putAll(b, 0, f), new)

bignum_ashift_left_digits(b, len, digits) ==
    putAll(alloc_zeroing_below(len + digits, digits), digits, [i \in 0 .. len - 1 |-> ref(b, i)])

\* The digits of b moved up by n bits, with the bits of low in the gap.
ShiftedLeft(b, len, n, low) ==
    [j \in 0 .. len |->
        IF j = 0 THEN ashl(ref(b, 0), n) | low
        ELSE IF j = len THEN ashr(ref(b, len - 1), W - n)
        ELSE lsr(ref(b, j - 1), W - n) | ashl(ref(b, j), n)]

bignum_ashift_left_unaligned(b, len, digits, n) ==
    normalized(putAll(alloc_zeroing_below(digits + len + 1, digits), digits, ShiftedLeft(b, len, n, 0)))

bignum_ashift_left(b, len, x) ==
    IF x % W = 0 THEN bignum_ashift_left_digits(b, len, x \div W)
    ELSE bignum_ashift_left_unaligned(b, len, x \div W, x % W)

\* (+ (ash b x) add) for a word add of at most x bits, 1 <= x <= W: what the
\* compiler turns such a sum into.
bignum_ashift_left_add(b, x, add) ==
    IF x % W = 0 THEN put(bignum_ashift_left_digits(b, b.len, x \div W), 0, add)
    ELSE normalized(putAll(allocate_bignum(b.len + 1), 0, ShiftedLeft(b, b.len, x, add)))

bignum_ashift_left_fixnum(n, count) ==
    LET zeros == count \div W
        right == (n * 2 ^ (count % W)) % Radix
        left == n \div 2 ^ (W - (count % W))
        more == left # (IF digit_plusp(right) THEN 0 ELSE -1)
        res == put(alloc_zeroing_below(zeros + (IF more THEN 2 ELSE 1), zeros), zeros, right)
    IN  IF more THEN put(res, zeros + 1, left % Radix) ELSE res

\* ASH of an integer of either kind (count >= 0 shifts left).
ash_left(x, count) ==
    IF ~IsFix(x) THEN IF count > 0 THEN bignum_ashift_left(x, x.len, count) ELSE bignum_ashift_right(x, 0)
    ELSE IF x.fix = 0 THEN Fix(0)
    ELSE IF count > 0 /\ integer_length(x.fix) + count >= W THEN bignum_ashift_left_fixnum(x.fix, count)
    ELSE Boxed(x.fix * 2 ^ count)
ash_right(x, count) ==
    IF IsFix(x) THEN Fix(x.fix \div 2 ^ count) ELSE bignum_ashift_right(x, count)

(***************************************************************************)
(* Comparison, bits.                                                       *)
(***************************************************************************)

bignum_compare(a, b) ==
    LET ap == bignum_plus_p(a)
        differ == {i \in 0 .. a.len - 1 : ref(a, i) # ref(b, i)}
        top == CHOOSE i \in differ : \A j \in differ : j <= i
    IN  IF ap # bignum_plus_p(b) THEN IF ap THEN 1 ELSE -1
        ELSE IF a.len = b.len
        THEN IF differ = {} THEN 0 ELSE IF ref(a, top) > ref(b, top) THEN 1 ELSE -1
        ELSE IF (a.len > b.len) = ap THEN 1 ELSE -1

bignum_integer_length(b) == bignum_buffer_integer_length(b, b.len)

bignum_logbitp(i, b) ==
    IF i \div W >= b.len THEN ~bignum_plus_p(b)
    ELSE lsr(ref(b, i \div W), i % W) % 2 = 1

RECURSIVE digit_logcount(_)
digit_logcount(d) == IF d = 0 THEN 0 ELSE (d % 2) + digit_logcount(d \div 2)

bignum_logcount(b) ==
    LET n[i \in 0 .. b.len] == IF i = 0 THEN 0 ELSE n[i - 1] + digit_logcount(ref(b, i - 1))
    IN  IF bignum_plus_p(b) THEN n[b.len] ELSE b.len * W - n[b.len]

\* The result is as long as the operand: the complement of a bignum is one.
bignum_logical_not(a) ==
    putAll(allocate_bignum(a.len), 0, [i \in 0 .. a.len - 1 |-> digit_lognot(ref(a, i))])

Shorter(a, b) == IF a.len < b.len THEN a ELSE b
Longer(a, b) == IF a.len < b.len THEN b ELSE a

\* A positive shorter operand cuts the result to its length; a negative one
\* lets the longer operand's digits through.
bignum_logical_and(x, y) ==
    LET a == Shorter(y, x)
        b == Longer(y, x)
        len == IF a.len = b.len \/ bignum_plus_p(a) THEN a.len ELSE b.len
    IN  normalized(putAll(allocate_bignum(len), 0,
            [i \in 0 .. len - 1 |-> IF i < a.len THEN ref(a, i) & ref(b, i) ELSE ref(b, i)]))

bignum_logical_ior(x, y) ==
    LET a == Shorter(y, x)
        b == Longer(y, x)
    IN  normalized(putAll(allocate_bignum(b.len), 0,
            [i \in 0 .. b.len - 1 |->
                IF i < a.len THEN ref(a, i) | ref(b, i)
                ELSE IF bignum_plus_p(a) THEN ref(b, i) ELSE sign_digit(a, a.len)]))

bignum_logical_xor(x, y) ==
    LET a == Shorter(x, y)
        b == Longer(x, y)
    IN  normalized(putAll(allocate_bignum(b.len), 0,
            [i \in 0 .. b.len - 1 |->
                (IF i < a.len THEN ref(a, i) ELSE sign_digit(a, a.len)) ^^ ref(b, i)]))

\* size bits of b from position pos, size <= PosFixBits.
ldb_bignum_fixnum(size, pos, b) ==
    LET word == pos \div W
        bit == pos % W
        low == W - bit
        next == IF word + 1 < b.len THEN ref(b, word + 1) ELSE sign_digit(b, b.len)
    IN  IF word >= b.len THEN sign_digit(b, b.len) % 2 ^ size
        ELSE IF bit + size <= W THEN lsr(ref(b, word), bit) % 2 ^ size
        ELSE ((next % 2 ^ (size - low)) * 2 ^ low) | lsr(ref(b, word), bit)

\* The bits from pos to the end of b, which fit a fixnum.
last_bignum_part_fixnum(left, pos, b) ==
    LET word == pos \div W
        bit == pos % W
        m == ((ref(b, word + 1) * 2 ^ (W - bit)) | lsr(ref(b, word), bit)) % 2 ^ (W - 1)
    IN  IF bit <= left THEN signed(ref(b, word)) \div 2 ^ bit
        ELSE IF m < 2 ^ (W - 2) THEN m ELSE m - 2 ^ (W - 1)

(***************************************************************************)
(* Division.  For one word, digit by digit; in general Knuth's algorithm:  *)
(* both operands are shifted until the divisor has a one in its second     *)
(* highest bit, each quotient digit is guessed from the highest digits,    *)
(* and the guess is one too large at most.                                 *)
(***************************************************************************)

Quotient(q, r) == [q |-> q, r |-> r]

\* Divide the positive x by the word y: a power of two shifts.
WordRemainders(b, y, len) ==
    LET rem[i \in 0 .. len] == IF i = len THEN 0 ELSE (rem[i + 1] * Radix + ref(b, i)) % y
    IN  rem
QuotientDigits(b, rem, y, len) == [i \in 0 .. len - 1 |-> (rem[i + 1] * Radix + ref(b, i)) \div y]
PowerOfTwo(y) == y = 2 ^ (integer_length(y) - 1)
WordQuotient(b, y) ==
    putAll(allocate_bignum(b.len), 0,
        IF y > 1 /\ PowerOfTwo(y) THEN shift_right_unaligned(b, 0, integer_length(y) - 1, b.len)
        ELSE QuotientDigits(b, WordRemainders(b, y, b.len), y, b.len))
WordRemainder(b, y) == IF PowerOfTwo(y) THEN ref(b, 0) % y ELSE WordRemainders(b, y, b.len)[0]

SignedQuotient(q, same) == normalized(IF same THEN q ELSE negate_bignum_in_place(q))
DivideByWord(b, y, plus, same, cq, cr) ==
    Quotient(IF cq THEN SignedQuotient(WordQuotient(b, y), same) ELSE Fix(0),
             IF ~cr THEN Fix(IF WordRemainder(b, y) = 0 THEN 1 ELSE 0)
             ELSE Boxed(IF plus THEN WordRemainder(b, y) ELSE -WordRemainder(b, y)))

\* cq and cr say whether the quotient and the remainder are wanted (without
\* cr: is the remainder zero).
bignum_truncate_single_digit(b, y, cq, cr) ==
    DivideByWord(Absolute(b), IF y < 0 THEN -y ELSE y, bignum_plus_p(b), bignum_plus_p(b) = (y >= 0), cq, cr)

\* The next digit of the quotient, or one more than it.
RECURSIVE CheckGuess(_, _, _, _, _, _)
CheckGuess(g, y1, y2, x1, x2, x3) ==
    LET low1 == (g * y1) % Radix
        middle == (x2 - low1) % Radix
        high == (x1 - (g * y1) \div Radix - (IF x2 >= low1 THEN 0 ELSE 1)) % Radix
        high2 == (g * y2) \div Radix
    IN  IF high = 0 /\ (high2 > middle \/ (middle = high2 /\ (g * y2) % Radix > x3))
        THEN CheckGuess((g - 1) % Radix, y1, y2, x1, x2, x3)
        ELSE g

bignum_truncate_guess(y1, y2, x1, x2, x3) ==
    CheckGuess(IF x1 = y1 THEN AllOnes ELSE (x1 * Radix + x2) \div y1, y1, y2, x1, x2, x3)

\* Subtract g times ty from tx at low; if that made tx negative, g was one
\* too large: add ty back.
try_bignum_truncate_guess(tx, ty, g, len, low) ==
    LET window(b) == [i \in 0 .. len |-> ref(b, low + i)]
        sub == putAll(tx, low, SubtractLoop(window(tx), MultiplyLoop(g, ty, len, Zeros(len)), len + 1))
        y == [i \in 0 .. len |-> IF i < len THEN ref(ty, i) ELSE 0]
    IN  IF digit_plusp(ref(sub, low + len)) THEN [x |-> sub, digit |-> g]
        ELSE [x |-> putAll(sub, low, AddLoop(y, window(sub), 0, len + 1)),
              digit |-> (g - 1) % Radix]

\* The digits k .. 0 of the quotient, most significant first; tx is left
\* holding the remainder.
RECURSIVE quotient_leaving_remainder(_, _, _, _, _)
NextDigit(tx, ty, len, k) ==
    try_bignum_truncate_guess(tx, ty,
        bignum_truncate_guess(ref(ty, len - 1), ref(ty, len - 2),
                              ref(tx, k + len), ref(tx, k + len - 1), ref(tx, k + len - 2)), len, k)
WithDigit(t, ty, len, k, q) ==
    IF k = 0 THEN [x |-> t.x, q |-> put(q, 0, t.digit)]
    ELSE quotient_leaving_remainder(t.x, ty, len, k - 1, put(q, k, t.digit))
quotient_leaving_remainder(tx, ty, len, k, q) == WithDigit(NextDigit(tx, ty, len, k), ty, len, k, q)

shift_y_for_truncate(b) == W - integer_length(ref(b, b.len - 1)) - 1
DigitsOf(b) == [i \in 0 .. b.len - 1 |-> ref(b, i)]
LongDivision(a, b, n) ==
    quotient_leaving_remainder(
        putAll(alloc_zeroing(a.len + 1), 0, IF n = 0 THEN DigitsOf(a) ELSE ShiftedLeft(a, a.len, n, 0)),
        IF n = 0 THEN b ELSE putAll(alloc_zeroing(b.len + 1), 0, ShiftedLeft(b, b.len, n, 0)),
        b.len, a.len - b.len, put(allocate_bignum(a.len + 2 - b.len), a.len + 1 - b.len, 0))

SignedRemainder(r, plus) ==
    IF IsFix(r) THEN Fix(IF plus THEN r.fix ELSE -r.fix)
    ELSE normalized(IF plus THEN r ELSE negate_bignum_in_place(r))
ShiftBack(tx, n, len) ==
    normalize_bignum(IF n = 0 THEN tx ELSE putAll(tx, 0, shift_right_unaligned(tx, 0, n, len)), len)
DivisionResult(d, n, len, plus, same, cq, cr) ==
    Quotient(IF cq THEN SignedQuotient(d.q, same) ELSE Fix(0),
             IF cr THEN SignedRemainder(ShiftBack(d.x, n, len), plus)
             ELSE Fix(IF \A j \in 0 .. len - 1 : ref(d.x, j) = 0 THEN 1 ELSE 0))
DivideAbsolute(a, b, orig, plus, same, cq, cr) ==
    IF bignum_compare(b, a) > 0 THEN Quotient(Fix(0), IF cr THEN orig ELSE Fix(0))
    ELSE DivisionResult(LongDivision(a, b, shift_y_for_truncate(b)), shift_y_for_truncate(b), b.len,
                        plus, same, cq, cr)
bignum_truncate(a, b, cq, cr) ==
    DivideAbsolute(Absolute(a), Absolute(b), a, bignum_plus_p(a), bignum_plus_p(a) = bignum_plus_p(b), cq, cr)

\* The repeated division of the printer: x by the word y into q, and the
\* length of the quotient without its high zero digit.
DividedTo(b, rem, y, q, len) ==
    [q |-> putAll(q, 0, QuotientDigits(b, rem, y, len)), r |-> rem[0],
     len |-> IF ref(b, len - 1) \div y = 0 THEN len - 1 ELSE len]
bignum_truncate_single_digit_to(b, y, q, len) == DividedTo(b, WordRemainders(b, y, len), y, q, len)

\* The word a bignum fits in, if any: (typep y '(or word signed-word)).
single_digit_bignum_p(y) ==
    \/ y.len = 1
    \/ y.len = 2 /\ ref(y, 1) = 0
WordValue(y) == IF y.len = 1 THEN signed(ref(y, 0)) ELSE ref(y, 0)

(***************************************************************************)
(* The greatest common divisor.                                            *)
(***************************************************************************)

bignum_factors_of_two(a, b) ==
    LET or(i) == ref(a, i) | ref(b, i)
        i0 == CHOOSE i \in 0 .. Len(a.w) - 1 : or(i) # 0 /\ \A k \in 0 .. i - 1 : or(k) = 0
    IN  i0 * W + (CHOOSE j \in 0 .. W - 1 : lsr(or(i0), j) % 2 = 1 /\ or(i0) % 2 ^ j = 0)

make_gcd_bignum_odd(b, len) ==
    LET ones == {i \in 0 .. len * W - 1 : lsr(ref(b, i \div W), i % W) % 2 = 1}
        low == CHOOSE i \in ones : \A j \in ones : i <= j
    IN  bignum_buffer_ashift_right(b, len, low)

\* u / v modulo the radix, for odd v.
bmod(u, v) ==
    LET step[i \in 0 .. W] ==
            IF i = 0 THEN [u |-> ref(u, 0), v |-> ref(v, 0), m |-> 0]
            ELSE LET s == step[i - 1]
                     hit == s.u % 2 ^ i # 0
                 IN  [u |-> IF hit THEN (s.u - s.v) % Radix ELSE s.u,
                      v |-> ashl(s.v, 1),
                      m |-> IF hit THEN s.m + 2 ^ (i - 1) ELSE s.m]
    IN  step[W].m

\* |u - n * v|.
AbsBuffer(s) == [b |-> bignum_abs_buffer(s.b, s.len), len |-> s.len]
SubtractFrom(u, lenU, t) == AbsBuffer(subtract_bignum_buffers(u, lenU, t.b, t.len, u))
SubtractMultiple(u, lenU, v, lenV, n, tmp) ==
    SubtractFrom(u, lenU, multiply_bignum_buffer_and_smallnum_to_buffer(v, lenV, n, tmp))

\* (1- (ash 1 d)), d declared unsigned.  The code asserts that d >= 0, which
\* a subtraction that cancels the high digits makes false: the machine's
\* shift clears the word for every count that is not below W.
LowOnes(d) == IF d \in 0 .. W - 1 THEN 2 ^ d - 1 ELSE AllOnes

\* Reduce u modulo v digit by digit from below, then the last few bits.
RECURSIVE dmod(_, _, _, _)
DropDigit(s, v, lenV, tmp) == dmod(bignum_buffer_ashift_right(s.b, s.len, W), v, lenV, tmp)
ClearBits(u, v, lenV, n, tmp) ==
    IF ref(u.b, 0) & n = 0 THEN u ELSE SubtractMultiple(u.b, u.len, v, lenV, n & bmod(u.b, v), tmp)
ModStep(u, v, lenV, diff, tmp) ==
    IF diff <= W THEN ClearBits(u, v, lenV, LowOnes(diff + 1), tmp)
    ELSE DropDigit(IF ref(u.b, 0) = 0 THEN u ELSE SubtractMultiple(u.b, u.len, v, lenV, bmod(u.b, v), tmp),
                   v, lenV, tmp)
dmod(u, v, lenV, tmp) ==
    ModStep(u, v, lenV, bignum_buffer_integer_length(u.b, u.len) - bignum_buffer_integer_length(v, lenV), tmp)

\* n and d, about half a word each, with d * x = n * y modulo the radix.
RECURSIVE RatioStep(_, _, _, _, _)
RatioStep(n1, d1, n2, d2, i) ==
    IF n1 < n2 THEN [n |-> n1, d |-> d1]
    ELSE IF n1 >= ashl(n2, i)
    THEN RatioStep((n1 - ashl(n2, i)) % Radix, (d1 - ashl(d2, i)) % Radix, n2, d2, i - 1)
    ELSE RatioStep(n1, d1, n2, d2, i - 1)

RECURSIVE RatioLoop(_, _, _, _)
RatioLoop(n1, d1, n2, d2) ==
    IF n2 <= 2 ^ (W \div 2) THEN [n |-> n2, d |-> d2]
    ELSE LET s == RatioStep(n1, d1, n2, d2, integer_length(n1) - integer_length(n2))
         IN  RatioLoop(n2, d2, s.n, s.d)

HalfWords(r) ==
    [n |-> r.n,
     d |-> IF r.d >= 2 ^ (W - 1) THEN -((AllOnes - r.d) % 2 ^ PosFixBits) - 1 ELSE r.d % 2 ^ (W \div 2)]
reduced_ratio_mod(u, v) ==
    LET c == bmod(u, v) IN HalfWords(RatioLoop(c, 1, (Radix - c) % Radix, AllOnes))

\* The larger, the smaller with its length, and their difference in res.
Difference(u, v, lenV, s) == [u |-> u, v |-> v, lenV |-> lenV, r |-> s.b, lenR |-> s.len]
FirstIsLarger(a, lenA, b, lenB) ==
    IF lenA # lenB THEN lenA > lenB
    ELSE \E i \in 0 .. lenA - 1 : /\ ref(a, i) > ref(b, i)
                                  /\ \A j \in i + 1 .. lenA - 1 : ref(a, j) = ref(b, j)
gcd_order_and_subtract(a, lenA, b, lenB, res) ==
    IF lenA = lenB /\ \A i \in 0 .. lenA - 1 : ref(a, i) = ref(b, i)
    THEN Difference(a, b, lenB, [b |-> put(res, 0, 0), len |-> 1])
    ELSE IF FirstIsLarger(a, lenA, b, lenB)
    THEN Difference(a, b, lenB, subtract_bignum_buffers(a, lenA, b, lenB, res))
    ELSE Difference(b, a, lenA, subtract_bignum_buffers(b, lenB, a, lenA, res))

\* Subtract the smaller from the larger and make the difference odd, until
\* it is zero.  The buffers change places.
RECURSIVE BinaryGcdLoop(_, _, _, _, _, _)
WithOdd(s, o, twos) == BinaryGcdLoop(s.v, s.lenV, o.b, o.len, s.u, twos)
FinishGcd(b, len, twos) ==
    IF twos = 0 THEN normalized(putAll(allocate_bignum(len), 0, [i \in 0 .. len - 1 |-> ref(b, i)]))
    ELSE bignum_ashift_left(b, len, twos)
AfterSubtract(s, twos) ==
    IF s.lenR = 1 /\ ref(s.r, 0) = 0 THEN FinishGcd(s.v, s.lenV, twos)
    ELSE WithOdd(s, make_gcd_bignum_odd(s.r, s.lenR), twos)
BinaryGcdLoop(a, lenA, b, lenB, c, twos) == AfterSubtract(gcd_order_and_subtract(a, lenA, b, lenB, c), twos)

Copy(b, len) == putAll(allocate_bignum(len), 0, [i \in 0 .. len - 1 |-> ref(b, i)])

OddOf(s) == make_gcd_bignum_odd(s.b, s.len)
OddPart(b, len, twos) == OddOf(bignum_buffer_ashift_right(b, len, twos))

OddGcd(a, b, res, twos) == BinaryGcdLoop(a.b, a.len, b.b, b.len, res, twos)
WithTwos(a, b, twos) ==
    OddGcd(OddPart(Copy(a, a.len), a.len, twos), OddPart(Copy(b, b.len), b.len, twos),
           allocate_bignum(Larger(a.len, b.len)), twos)
bignum_binary_gcd(a, b) == WithTwos(a, b, bignum_factors_of_two(a, b))

\* REM, MOD of two integers one of which is a bignum: floor's correction of
\* truncate's remainder is not needed, both are positive here.
Rem(a, b) ==
    IF single_digit_bignum_p(b) THEN bignum_truncate_single_digit(a, WordValue(b), TRUE, TRUE).r
    ELSE bignum_truncate(a, b, TRUE, TRUE).r

RECURSIVE ModGcdLoop(_, _)
ModGcdLoop(a, b) ==
    IF b.len = 1 /\ ref(b, 0) = 0 THEN IF a.len = 1 THEN normalized(a) ELSE a
    ELSE IF a.len <= b.len + 1 THEN bignum_binary_gcd(a, b)
    ELSE ModGcdLoop(b, Small(Rem(a, b)))

bignum_mod_gcd(a, b) ==
    LET swap == bignum_compare(a, b) < 0
    IN  ModGcdLoop(IF swap THEN b ELSE a, IF swap THEN a ELSE b)

AcceleratedGcdCutoff == 3

\* |n * v - d * u|, a multiple of the radix.
RatioDifference(u, t1, t2) ==
    AbsBuffer(subtract_bignum_buffers_with_len(t1.b, t1.len, t2.b, t2.len, u, Larger(t1.len, t2.len) + 1))
RatioReduce(u, lenU, v, lenV, ratio, tmp) ==
    RatioDifference(u, multiply_bignum_buffer_and_smallnum_to_buffer(v, lenV, ratio.n, tmp),
                       multiply_bignum_buffer_and_smallnum_to_buffer(u, lenU, ratio.d, tmp))

\* Alternate the two reductions until u has fewer than three digits or v is
\* zero.  All the buffers are long enough for the intermediate products.
RECURSIVE GcdLoop(_, _, _, _, _)
RotateOdd(v, lenV, odd, tmp) == GcdLoop(v, lenV, odd.b, odd.len, tmp)
Rotate(v, lenV, r, tmp) ==
    IF \A i \in 0 .. r.len - 1 : ref(r.b, i) = 0 THEN [b |-> bignum_abs_buffer(v, lenV), len |-> lenV]
    ELSE RotateOdd(v, lenV, OddOf(r), tmp)
GcdLoop(u, lenU, v, lenV, tmp) ==
    IF lenU < AcceleratedGcdCutoff \/ (lenV = 1 /\ ref(v, 0) = 0)
    THEN [b |-> bignum_abs_buffer(u, lenU), len |-> lenU]
    ELSE Rotate(v, lenV,
             IF bignum_buffer_integer_length(u, lenU) > W \div 4 + bignum_buffer_integer_length(v, lenV)
             THEN dmod([b |-> u, len |-> lenU], v, lenV, tmp)
             ELSE RatioReduce(u, lenU, v, lenV, reduced_ratio_mod(u, v), tmp), tmp)

InRoom(b, len) == putAll(allocate_bignum(len), 0, DigitsOf(b))
CopyOf(g) == Copy(g.b, g.len)
Accelerated(u, v, room) == CopyOf(GcdLoop(u.b, u.len, v.b, v.len, room))
FilterFactors(u, v, g, twos) == ash_left(bignum_mod_gcd(u, Small(bignum_mod_gcd(v, g))), twos)
GcdBuffers(u, v, len, twos) ==
    FilterFactors(u, v, Accelerated(OddPart(InRoom(u, len), u.len, twos), OddPart(InRoom(v, len), v.len, twos),
                                    allocate_bignum(len)), twos)
GcdAfterRem(u, n) ==
    IF n = Fix(0) THEN normalized(u)
    ELSE GcdBuffers(u, Small(n), u.len + 2, bignum_factors_of_two(u, Small(n)))
GcdOrdered(u, v) == GcdAfterRem(u, Rem(v, u))
GcdPositive(u, v, swap) == GcdOrdered(IF swap THEN v ELSE u, IF swap THEN u ELSE v)
bignum_gcd(u, v) == GcdPositive(Absolute(u), Absolute(v), bignum_compare(Absolute(u), Absolute(v)) > 0)

(***************************************************************************)
(* Floats.  A float is its sign and its bits: the exponent and, below it,  *)
(* P - 1 bits of significand whose leading one is hidden.                  *)
(***************************************************************************)

Infinity == (ExpMax + 1) * 2 ^ (P - 1)
Exponent(f) == f.bits \div 2 ^ (P - 1)
Significand(f) == 2 ^ (P - 1) + (f.bits % 2 ^ (P - 1))

\* The last two digits of the negated bignum.
LastTwo(b) == [last1 |-> ref(b, b.len - 2), last2 |-> ref(b, b.len - 1)]
bignum_negate_last_two(b) == LastTwo(negate_bignum_in_place(b))

\* Round to even: the bit below the significand decides, and then whether
\* any bit below that is set.  Rounding up may carry into the exponent.
RoundedBits(b, shift, shifted, exp) ==
    LET signif == (shifted \div 2) % 2 ^ (P - 1)
        up == /\ shifted % 2 = 1
              /\ signif % 2 = 1 \/ ~bignum_lower_bits_zero_p(b, shift, b.len)
    IN  IF exp > ExpMax THEN Infinity ELSE exp * 2 ^ (P - 1) + signif + (IF up THEN 1 ELSE 0)
Rounded(b, shift, shifted) ==
    [neg |-> ~bignum_plus_p(b), bits |-> RoundedBits(b, shift, shifted, Bias + shift + P + 1)]
PositiveToFloat(b, shift) == Rounded(b, shift, last_bignum_part_fixnum(W - P, shift, b))
NegativeBits(last, bit) ==
    IF last.last2 = 0 THEN lsr(last.last1, bit)
    ELSE IF bit <= W - (P + 1) THEN lsr(last.last2, bit)
    ELSE ((last.last2 * 2 ^ (W - bit)) | lsr(last.last1, bit)) % Radix
NegativeToFloat(b, last, shift) == Rounded(b, shift, NegativeBits(last, shift % W))
NegateToFloat(b, last) == NegativeToFloat(b, last, integer_length(last.last2) + (b.len - 1) * W - P - 1)
bignum_to_float(b) ==
    IF bignum_plus_p(b) THEN PositiveToFloat(b, bignum_integer_length(b) - P - 1)
    ELSE NegateToFloat(b, bignum_negate_last_two(b))

\* FLOAT-BIGNUM-=, -< and ->: the float against the bignum, exactly.
Sig(f) == IF f.neg THEN -Significand(f) ELSE Significand(f)
Exp(f) == Exponent(f) - Bias - P
IsSmall(f) == Exponent(f) < W - 1 + Bias
LengthDiff(f, b) == bignum_integer_length(b) - (integer_length(Sig(f)) + Exp(f))
LastPart(f, b) == last_bignum_part_fixnum(W - 1 - integer_length(Sig(f)), Exp(f), b)

float_bignum_equal(f, b) ==
    /\ ~IsSmall(f)
    /\ LengthDiff(f, b) = 0
    /\ bignum_lower_bits_zero_p(b, Exp(f), b.len)
    /\ Sig(f) = LastPart(f, b)

float_bignum_less(f, b) ==
    IF IsSmall(f) \/ LengthDiff(f, b) > 0 THEN bignum_plus_p(b)
    ELSE IF LengthDiff(f, b) < 0 THEN f.neg
    ELSE \/ LastPart(f, b) > Sig(f)
         \/ LastPart(f, b) = Sig(f) /\ ~bignum_lower_bits_zero_p(b, Exp(f), b.len)

float_bignum_greater(f, b) ==
    IF IsSmall(f) \/ LengthDiff(f, b) > 0 THEN ~bignum_plus_p(b)
    ELSE IF LengthDiff(f, b) < 0 THEN ~f.neg
    ELSE LastPart(f, b) < Sig(f)

\* A float too large for a fixnum, as an integer.
unary_truncate_to_bignum(f) == bignum_ashift_left_fixnum(Sig(f), Exp(f))

(***************************************************************************)
(* Integers of either kind: the dispatch of src/code/numbers.lisp.         *)
(***************************************************************************)

two_arg_plus(x, y) ==
    IF IsFix(x) THEN IF IsFix(y) THEN Boxed(x.fix + y.fix) ELSE add_bignum_fixnum(y, x.fix)
    ELSE IF IsFix(y) THEN add_bignum_fixnum(x, y.fix) ELSE add_bignums(x, y)

two_arg_minus(x, y) ==
    IF IsFix(x) THEN IF IsFix(y) THEN Boxed(x.fix - y.fix) ELSE subtract_fixnum_bignum(x.fix, y)
    ELSE IF IsFix(y) THEN subtract_bignum_fixnum(x, y.fix) ELSE subtract_bignum(x, y)

two_arg_times(x, y) ==
    IF IsFix(x) THEN IF IsFix(y) THEN multiply_fixnums(x.fix, y.fix) ELSE multiply_bignum_and_fixnum(y, x.fix)
    ELSE IF IsFix(y) THEN multiply_bignum_and_fixnum(x, y.fix) ELSE multiply_bignums(x, y)

negate(x) == IF IsFix(x) THEN Boxed(-x.fix) ELSE negate_bignum(x, TRUE)
abs_integer(x) == IF IsFix(x) THEN (IF x.fix < 0 THEN negate(x) ELSE x)
                  ELSE IF bignum_plus_p(x) THEN x ELSE negate(x)

\* TRUNCATE and the two predicates that want less than it, of a nonzero y.
\* Only the most negative fixnum is as large as a bignum that divides it.
FixQuotient(m, n) == LET q == (IF m < 0 THEN -m ELSE m) \div (IF n < 0 THEN -n ELSE n)
                     IN  IF (m < 0) = (n < 0) THEN q ELSE -q
Truncate(x, y, cq, cr) ==
    IF IsFix(x) /\ IsFix(y)
    THEN LET q == FixQuotient(x.fix, y.fix)
             r == x.fix - q * y.fix
         IN  Quotient(IF cq THEN Boxed(q) ELSE Fix(0), Fix(IF cr THEN r ELSE IF r = 0 THEN 1 ELSE 0))
    ELSE IF IsFix(x)
    THEN LET even == x.fix = MostNegativeFixnum /\ y.len = 1 /\ ref(y, 0) = -MostNegativeFixnum
         IN  Quotient(Fix(IF cq /\ even THEN -1 ELSE 0),
                      IF cr THEN (IF even THEN Fix(0) ELSE x)
                      ELSE Fix(IF x.fix = 0 \/ even THEN 1 ELSE 0))
    ELSE IF IsFix(y) THEN bignum_truncate_single_digit(x, y.fix, cq, cr)
    ELSE IF single_digit_bignum_p(y) THEN bignum_truncate_single_digit(x, WordValue(y), cq, cr)
    ELSE bignum_truncate(x, y, cq, cr)

RECURSIVE Euclid(_, _)
Euclid(u, v) == IF v = 0 THEN u ELSE Euclid(v, u % v)
fixnum_gcd(u, v) == Euclid(IF u < 0 THEN -u ELSE u, IF v < 0 THEN -v ELSE v)

two_arg_gcd(u, v) ==
    IF u = Fix(0) THEN abs_integer(v)
    ELSE IF v = Fix(0) THEN abs_integer(u)
    ELSE IF IsFix(u) /\ IsFix(v) THEN Boxed(fixnum_gcd(u.fix, v.fix))
    ELSE bignum_gcd(Small(u), Small(v))


\* LOGAND, LOGIOR, LOGXOR and the complements: a fixnum operand is first made
\* a small bignum.  Two fixnums are the machine's own business.
two_arg_and(x, y) == bignum_logical_and(Small(x), Small(y))
two_arg_ior(x, y) == bignum_logical_ior(Small(x), Small(y))
two_arg_xor(x, y) == bignum_logical_xor(Small(x), Small(y))
lognot(x) == IF IsFix(x) THEN Fix(-x.fix - 1) ELSE bignum_logical_not(x)
two_arg_eqv(x, y) == lognot(two_arg_xor(x, y))
logandc1(x, y) == bignum_logical_and(bignum_logical_not(Small(x)), Small(y))
logorc2(x, y) == bignum_logical_ior(Small(x), bignum_logical_not(Small(y)))

logbitp(i, x) ==
    IF ~IsFix(x) THEN bignum_logbitp(i, x)
    ELSE IF i < PosFixBits THEN (x.fix % Radix) & (2 ^ i) # 0 ELSE x.fix < 0

\* %LDB, %DPB and MASK-SIGNED-FIELD.
ldb(size, posn, x) ==
    IF size <= PosFixBits
    THEN IF IsFix(x) THEN Fix((x.fix \div 2 ^ posn) % 2 ^ size) ELSE Fix(ldb_bignum_fixnum(size, posn, x))
    ELSE two_arg_and(ash_right(x, posn), two_arg_minus(ash_left(Fix(1), size), Fix(1)))

Deposit(new, mask, posn, x) ==
    two_arg_ior(two_arg_and(x, lognot(ash_left(mask, posn))), ash_left(two_arg_and(new, mask), posn))
dpb(new, size, posn, x) == Deposit(new, two_arg_minus(ash_left(Fix(1), size), Fix(1)), posn, x)

\* The lower size bits as a signed integer; the sizes up to a word take the
\* low digit only.
msf(n, size) == IF (n \div 2 ^ (size - 1)) % 2 = 1 THEN (n % 2 ^ (size - 1)) - 2 ^ (size - 1)
                ELSE n % 2 ^ (size - 1)
mask_signed_field(size, x) ==
    IF size = 0 THEN Fix(0)
    ELSE IF size <= W - 1 THEN Fix(msf(IF IsFix(x) THEN x.fix ELSE ref(x, 0), size))
    ELSE IF size = W THEN IF IsFix(x) THEN x ELSE Boxed(signed(ref(x, 0)))
    ELSE IF logbitp(size - 1, x) THEN dpb(x, size - 1, 0, Fix(-1)) ELSE ldb(size - 1, 0, x)

(***************************************************************************)
(* One call of each operation on each pair of operands.                    *)
(***************************************************************************)
VARIABLES
    x, y,       \* the operands, as numbers
    op,         \* the operation called, "none" before the call
    res         \* the objects it returned

vars == <<x, y, op, res>>

\* The object that stands for the number n, junk in its padding word.
Obj(n) ==
    LET len == integer_length(n) \div W + 1
    IN  IF n \in MostNegativeFixnum .. MostPositiveFixnum THEN Fix(n)
        ELSE putAll(allocate_bignum(len), 0, [i \in 0 .. len - 1 |-> (n \div Radix ^ i) % Radix])

\* The number an object stands for.
Num(v) ==
    IF IsFix(v) THEN v.fix
    ELSE LET n[i \in 0 .. v.len - 1] ==
             IF i = v.len - 1 THEN signed(ref(v, i)) ELSE ref(v, i) + Radix * n[i + 1]
         IN  n[0]

Both(d) == <<d.q, d.r>>
Bool(b) == Fix(IF b THEN 1 ELSE 0)

Floats == [neg : BOOLEAN, bits : (Bias + 1) * 2 ^ (P - 1) .. Infinity - 1]

\* The digits of |n| in base y, least significant first, as the printer
\* takes them off with one preallocated quotient.
RECURSIVE DigitsInBase(_, _, _, _)
DigitsInBase(b, len, base, acc) ==
    IF len = 0 THEN acc
    ELSE LET d == bignum_truncate_single_digit_to(b, base, b, len)
         IN  DigitsInBase(d.q, d.len, base, Append(acc, Fix(d.r)))

Call(name, results) ==
    /\ op = "none"
    /\ op' = name
    /\ res' = results
    /\ UNCHANGED <<x, y>>

Ox == Obj(x)
Oy == Obj(y)
TwoBig == ~IsFix(Ox) /\ ~IsFix(Oy)

Init == x \in Operands /\ y \in Operands /\ op = "none" /\ res = <<>>

Add == Call("+", <<two_arg_plus(Ox, Oy)>>)
Subtract == Call("-", <<two_arg_minus(Ox, Oy), negate(Oy)>>)
Multiply ==
    /\ integer_length(x) + integer_length(y) <= MaxBits
    /\ Call("*", <<two_arg_times(Ox, Oy)>>)
Divide ==
    /\ y # 0
    /\ Call("truncate", Both(Truncate(Ox, Oy, TRUE, TRUE)))
Divides ==
    /\ y # 0
    /\ Call("divides", Append(Both(Truncate(Ox, Oy, TRUE, FALSE)), Truncate(Ox, Oy, FALSE, FALSE).r))
Gcd == Call("gcd", <<two_arg_gcd(Ox, Oy)>>)
Compare == TwoBig /\ Call("compare", <<Fix(bignum_compare(Ox, Oy))>>)
Logical ==
    Call("logical", <<two_arg_and(Ox, Oy), two_arg_ior(Ox, Oy), two_arg_xor(Ox, Oy), two_arg_eqv(Ox, Oy),
                      logandc1(Ox, Oy), logorc2(Ox, Oy), lognot(Ox)>>)
Shift ==
    /\ y \in Counts /\ integer_length(x) + y <= MaxBits
    /\ Call("ash", <<ash_left(Ox, y), ash_right(Ox, y)>>)
ShiftAdd ==
    /\ ~IsFix(Ox) /\ y \in 1 .. W
    /\ Call("ash+", <<bignum_ashift_left_add(Ox, y, (2 ^ y - 1) % Radix)>>)
Bits ==
    /\ y \in Counts
    /\ Call("bits", <<Bool(logbitp(y, Ox)), Fix(IF IsFix(Ox) THEN integer_length(x) ELSE bignum_integer_length(Ox)),
                      Fix(IF IsFix(Ox) THEN digit_logcount(IF x < 0 THEN -x - 1 ELSE x) ELSE bignum_logcount(Ox)),
                      mask_signed_field(y, Ox)>>)
Field(size) ==
    /\ y \in Counts
    /\ Call("ldb", <<Fix(size), ldb(size, y, Ox), dpb(Obj(37), size, y, Ox)>>)
ToFloat ==
    /\ ~IsFix(Ox) /\ Ox.len >= 2 /\ y = 0
    /\ LET f == bignum_to_float(Ox) IN Call("float", <<Bool(f.neg), Fix(f.bits)>>)
CompareFloat(f) ==
    /\ ~IsFix(Ox) /\ y = 0
    /\ Call("float?", <<Bool(f.neg), Fix(f.bits), Bool(float_bignum_equal(f, Ox)), Bool(float_bignum_less(f, Ox)),
                        Bool(float_bignum_greater(f, Ox))>>)
FromFloat(f) ==
    /\ x = 0 /\ y = 0
    /\ ~IsSmall(f) /\ Sig(f) * 2 ^ Exp(f) # MostNegativeFixnum
    /\ Call("integer", <<Bool(f.neg), Fix(f.bits), unary_truncate_to_bignum(f)>>)
PrintDigits ==
    /\ ~IsFix(Ox) /\ bignum_plus_p(Ox) /\ y \in 2 .. AllOnes
    /\ Call("digits", DigitsInBase(Ox, Ox.len, y, <<>>))

Next ==
    \/ Add \/ Subtract \/ Multiply \/ Divide \/ Divides \/ Gcd \/ Compare \/ Logical
    \/ Shift \/ ShiftAdd \/ Bits \/ (\E n \in 0 .. W + 1 : Field(n)) \/ PrintDigits
    \/ ToFloat \/ (\E f \in Floats : CompareFloat(f) \/ FromFloat(f))

Spec == Init /\ [][Next]_vars

(***************************************************************************)
(* What the operations promise.                                            *)
(***************************************************************************)

\* Operations on numbers, as infinite strings of bits where need be.
Span == 2 ^ (4 * W + 2)
AsSigned(n) == IF n < Span \div 2 THEN n ELSE n - Span
LogAnd(m, n) == AsSigned((m % Span) & (n % Span))
LogIor(m, n) == AsSigned((m % Span) | (n % Span))
LogXor(m, n) == AsSigned((m % Span) ^^ (n % Span))
Complement(n) == -n - 1
FieldOf(n, size, pos) == (n \div 2 ^ pos) % 2 ^ size
Abs(n) == IF n < 0 THEN -n ELSE n

\* The magnitude of a float, as a multiple of 2^-(P + Bias).
Magnitude(f) == Significand(f) * 2 ^ (Exponent(f) - Bias)
NumOfFloat(f) == (IF f.neg THEN -1 ELSE 1) * Magnitude(f)

\* f is a float nearest to n, the one with an even significand if two are.
Nearest(f, n) ==
    LET m == Abs(n) * 2 ^ P
        ulp == 2 ^ (Exponent(f) - Bias)
        err == Abs(m - Magnitude(f))
    IN  \/ f.bits = Infinity /\ 2 * m >= (2 ^ (P + 1) - 1) * 2 ^ (ExpMax - Bias)
        \/ f.bits < Infinity /\ 2 * err < ulp
        \/ f.bits < Infinity /\ 2 * err = ulp /\ f.bits % 2 = 0

Answer(i) == Num(res[i])
FloatAnswer == [neg |-> Answer(1) = 1, bits |-> Answer(2)]

\* Every operation returns what the operation on the numbers is: whatever
\* the lengths and signs of the operands, the carries and borrows between
\* digits, the sign digits dropped, the guesses of the division and the
\* buffers of the greatest common divisor.
ResultsAreExact ==
    /\ op = "+" => Answer(1) = x + y
    /\ op = "-" => Answer(1) = x - y /\ Answer(2) = -y
    /\ op = "*" => Answer(1) = x * y
    /\ op = "truncate" => /\ Answer(1) * y + Answer(2) = x
                          /\ Abs(Answer(2)) < Abs(y)
                          /\ Answer(2) = 0 \/ (Answer(2) < 0) = (x < 0)
    /\ op = "divides" => /\ Answer(1) = FixQuotient(x, y)
                         /\ Answer(2) = (IF x % Abs(y) = 0 THEN 1 ELSE 0)
                         /\ Answer(3) = Answer(2)
    /\ op = "gcd" => Answer(1) = fixnum_gcd(x, y)
    /\ op = "compare" => Answer(1) = (IF x < y THEN -1 ELSE IF x = y THEN 0 ELSE 1)
    /\ op = "logical" => [i \in 1 .. 7 |-> Answer(i)] =
           <<LogAnd(x, y), LogIor(x, y), LogXor(x, y), Complement(LogXor(x, y)), LogAnd(Complement(x), y), LogIor(x, Complement(y)), Complement(x)>>
    /\ op = "ash" => Answer(1) = x * 2 ^ y /\ Answer(2) = x \div 2 ^ y
    /\ op = "ash+" => Answer(1) = x * 2 ^ y + 2 ^ y - 1
    /\ op = "bits" => /\ Answer(1) = FieldOf(x, 1, y)
                      /\ Answer(2) = integer_length(x)
                      /\ Answer(3) = digit_logcount(IF x < 0 THEN Complement(x) ELSE x)
                      /\ y > 0 => Answer(4) = (IF FieldOf(x, 1, y - 1) = 0 THEN 0 ELSE -(2 ^ (y - 1)))
                                              + FieldOf(x, y - 1, 0)
    /\ op = "ldb" => LET n == Answer(1)
                     IN  /\ Answer(2) = FieldOf(x, n, y)
                         /\ \A i \in 0 .. 3 * W : FieldOf(Answer(3), 1, i) =
                                IF i \in y .. y + n - 1 THEN FieldOf(37, 1, i - y) ELSE FieldOf(x, 1, i)
    /\ op = "float" => FloatAnswer.neg = (x < 0) /\ Nearest(FloatAnswer, x)
    /\ op = "float?" => LET f == NumOfFloat(FloatAnswer)
                            n == x * 2 ^ P
                        IN  <<Answer(3), Answer(4), Answer(5)>> =
                            <<IF f = n THEN 1 ELSE 0, IF f < n THEN 1 ELSE 0, IF f > n THEN 1 ELSE 0>>
    /\ op = "integer" => Answer(3) * 2 ^ P = NumOfFloat(FloatAnswer)
    /\ op = "digits" => LET n[i \in 1 .. Len(res) + 1] == IF i > Len(res) THEN 0 ELSE Answer(i) + y * n[i + 1]
                        IN  n[1] = x

\* Every result is in the one form its number has: a fixnum if it fits one,
\* no digit that only repeats the sign.  EQL and the hash tables compare
\* integers by their form.
ResultsAreCanonical ==
    \A i \in DOMAIN res : LET r == res[i] IN
        ~IsFix(r) => /\ Num(r) \notin MostNegativeFixnum .. MostPositiveFixnum
                     /\ r.len = integer_length(Num(r)) \div W + 1

=============================================================================
