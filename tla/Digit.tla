------------------------------- MODULE Digit -------------------------------
(***************************************************************************)
(* Operations on one digit of a big number (big_num.h, "DIGIT             *)
(* OPERATIONS").  A digit is an unsigned integer of BN_DIGIT_BITS bits,    *)
(* the operations keep its width.  The code has two builds: with          *)
(* BN_CC_MULL_DIV the compiler multiplies and divides double digits,      *)
(* without it the header does so itself; both are here.                    *)
(***************************************************************************)
EXTENDS Integers, Sequences, FiniteSets, FiniteSetsExt, Bitwise, Loops

CONSTANTS BN_DIGIT_BITS, BN_CC_MULL_DIV

ASSUME DigitAssumption ==
    /\ BN_DIGIT_BITS \in {4, 8, 16}
    /\ BN_CC_MULL_DIV \in BOOLEAN

Base == 2^BN_DIGIT_BITS
BN_MAX_DIGIT == Base - 1
D(x) == x % Base                               \* cut to the width of a digit
Half == 2^(BN_DIGIT_BITS \div 2)

BitIndex == 0 .. BN_DIGIT_BITS - 1
Bits(x) == {i \in BitIndex : (x \div 2^i) % 2 = 1}
(* The steps of the bit tricks: half a digit, a quarter, ... 1. *)
Widths == {w \in {1, 2, 4, 8} : w < BN_DIGIT_BITS}
(* The mask of every other field of w bits (0x0f0f.. for w = 4). *)
LowFields(w) == {i \in BitIndex : (i \div w) % 2 = 0}

----------------------------------------------------------------------------
bn_digit_is_even(d) == d % 2 = 0
bn_digit_is_odd(d) == d % 2 # 0
bn_digit_is_pow2(d) == d # 0 /\ Cardinality(Bits(d)) = 1

(* The ones are counted by adding up neighbouring fields. *)
bn_digit_bits(d) ==
    LET RECURSIVE Fields(_)
        Fields(f) == IF Len(f) = 1 THEN f[1]
                     ELSE Fields([i \in 1 .. Len(f) \div 2 |-> f[2 * i - 1] + f[2 * i]])
    IN  IF d = 0 THEN 0
        ELSE IF d = BN_MAX_DIGIT THEN BN_DIGIT_BITS
        ELSE Fields([i \in 1 .. BN_DIGIT_BITS |-> (d \div 2^(i - 1)) % 2])

(* reg &= -reg leaves the lowest one; each mask it meets takes a step off. *)
bn_digit_ctz(d) ==
    LET reg == Bits(d) \cap Bits(D(Base - d)) IN
    IF d = 0 THEN BN_DIGIT_BITS
    ELSE (BN_DIGIT_BITS - 1) - SumSet({w \in Widths : reg \cap LowFields(w) # {}})

bn_digit_ffs(d) == IF d = 0 THEN 0 ELSE bn_digit_ctz(d) + 1

(* The upper fields are looked at from the widest on; a hit drops the rest. *)
bn_digit_clz(d) ==
    LET RECURSIVE Scan(_, _, _)
        Scan(w, reg, n) ==
            LET hi == reg \ LowFields(w)
                r == IF hi # {} THEN hi ELSE reg
                m == IF hi # {} THEN n - w ELSE n
            IN  IF w = 1 THEN m ELSE Scan(w \div 2, r, m)
    IN  IF d = 0 THEN BN_DIGIT_BITS
        ELSE Scan(BN_DIGIT_BITS \div 2, Bits(d), BN_DIGIT_BITS - 1)

----------------------------------------------------------------------------
Pair(lo, hi) == [lo |-> lo, hi |-> hi]
Wide(p) == p.hi * Base + p.lo

MultCC(a, b) == Pair((a * b) % Base, (a * b) \div Base)

(* Shifts for powers of two, else Knuth's algorithm M on half digits. *)
MultHalves(a, b) ==
    LET big == IF a > b THEN a ELSE b
        small == IF a > b THEN b ELSE a
        Shift(x, n) == Pair(D(x * 2^n), x \div 2^(BN_DIGIT_BITS - n))
        u1 == big \div Half    u0 == big % Half
        v1 == small \div Half  v0 == small % Half
        t0 == D(u0 * v0)
        t1 == D(u1 * v0 + t0 \div Half)
        t2 == D(u0 * v1 + (t1 % Half))
    IN  IF small = 0 THEN Pair(0, 0)
        ELSE IF small = 1 THEN Pair(big, 0)
        ELSE IF bn_digit_is_pow2(big) THEN Shift(small, bn_digit_ctz(big))
        ELSE IF bn_digit_is_pow2(small) THEN Shift(big, bn_digit_ctz(small))
        ELSE Pair(D(t2 * Half + (t0 % Half)), D(u1 * v1 + t1 \div Half + t2 \div Half))

bn_digit_mult__int(a, b) == IF BN_CC_MULL_DIV THEN MultCC(a, b) ELSE MultHalves(a, b)
bn_digit_mult(a, b) == IF a = 0 \/ b = 0 THEN Pair(0, 0) ELSE bn_digit_mult__int(a, b)

(* A division of two digits by one: quotient, remainder or an error. *)
Quot(err, q, r) == [err |-> err, q |-> q, r |-> r]

DivCC(n, d) ==
    LET w == Wide(n) IN
    IF d = 0 THEN Quot("EINVAL", Pair(0, 0), Pair(0, 0))
    ELSE Quot("ok", Pair(D(w \div d), (w \div d) \div Base), Pair(w % d, 0))

(* Shift and subtract on double digits. *)
DivLoop(n, d) ==
    LET norm == bn_digit_clz(d)
        Step(s, i) ==
            LET hit == s.d <= s.r IN
            [q |-> ((s.q * 2) % (Base * Base)) + (IF hit THEN 1 ELSE 0),
             r |-> IF hit THEN s.r - s.d ELSE s.r,
             d |-> s.d \div 2]
    IN  For(BN_DIGIT_BITS + 1 + norm, Step, [q |-> 0, r |-> Wide(n), d |-> d * 2^norm * Base])

DivShort(n, d) ==
    IF d = 0 THEN Quot("EINVAL", Pair(0, 0), Pair(0, n.hi))
    ELSE IF d = 1 THEN Quot("ok", n, Pair(0, 0))
    ELSE IF n.hi = 0 THEN Quot("ok", Pair(n.lo \div d, 0), Pair(n.lo % d, 0))
    ELSE IF bn_digit_is_pow2(d) THEN
         LET k == bn_digit_ctz(d) IN
         Quot("ok", Pair((n.lo \div 2^k) | D(n.hi * 2^(BN_DIGIT_BITS - k)), n.hi \div 2^k),
              Pair(n.lo & (2^k - 1), n.hi & (2^(BN_DIGIT_BITS - k) - 1)))
    ELSE LET s == DivLoop(n, d) IN
         Quot("ok", Pair(s.q % Base, s.q \div Base), Pair(s.r % Base, s.r \div Base))

bn_digit_div__int(n, d) == IF BN_CC_MULL_DIV THEN DivCC(n, d) ELSE DivShort(n, d)

(* Only the low digit of the quotient is kept. *)
bn_digit_div__int_short(n, d) ==
    IF d = 0 THEN Quot("EINVAL", 0, 0)
    ELSE IF BN_CC_MULL_DIV THEN Quot("ok", D(Wide(n) \div d), 0)
    ELSE IF d = 1 THEN Quot("ok", n.lo, 0)
    ELSE IF n.hi = 0 THEN
         Quot("ok", IF d > n.lo THEN 0 ELSE IF d = n.lo THEN 1 ELSE n.lo \div d, 0)
    ELSE IF bn_digit_is_pow2(d) THEN
         LET k == bn_digit_ctz(d) IN
         Quot("ok", (n.lo \div 2^k) | D(n.hi * 2^(BN_DIGIT_BITS - k)), 0)
    ELSE Quot("ok", D(DivLoop(n, d).q), 0)

----------------------------------------------------------------------------
(* Euclid *)
bn_digit_gcd(a, b) ==
    LET hi == IF a < b THEN b ELSE a
        lo == IF a < b THEN a ELSE b
    IN  IF a = 0 THEN b
        ELSE IF b = 0 \/ a = b THEN a
        ELSE While(LAMBDA s : s.b # 0, LAMBDA s : [a |-> s.b, b |-> s.a % s.b],
                   [a |-> hi, b |-> lo]).a

(* Stein: the factors of 2 are shifted out, the rest is subtracted down. *)
bn_digit_gcd_bin(a, b) ==
    LET sa == bn_digit_ctz(a)
        sb == bn_digit_ctz(b)
        Odd(x) == While(bn_digit_is_even, LAMBDA y : y \div 2, x)
        Step(s) == LET o == Odd(s.b) IN
                   IF s.a > o THEN [a |-> o, b |-> s.a - o] ELSE [a |-> s.a, b |-> o - s.a]
    IN  IF a = 0 THEN b
        ELSE IF b = 0 \/ a = b THEN a
        ELSE D(While(LAMBDA s : s.b # 0, Step, [a |-> a \div 2^sa, b |-> b \div 2^sb]).a
               * 2^(IF sa >= sb THEN sb ELSE sa))

(* Extended Euclid; the cofactors wrap at the width of a digit. *)
bn_digit_egcd(a, b) ==
    LET Step(s) ==
            LET q == s.a \div s.b IN
            [a |-> s.b, b |-> s.a % s.b,
             x |-> D(s.xp - D(q * s.x)), xp |-> s.x,
             y |-> D(s.yp - D(q * s.y)), yp |-> s.y]
        From(g, h, x, xp, y, yp) == [a |-> g, b |-> h, x |-> x, xp |-> xp, y |-> y, yp |-> yp]
    IN  IF a = 0 THEN From(b, 0, 1, 0, 0, 1)
        ELSE IF b = 0 THEN From(a, 0, 0, 1, 1, 0)
        ELSE IF a = b THEN From(a, 0, 0, 1, 1, 1)
        ELSE While(LAMBDA s : s.b # 0, Step,
                   IF a < b THEN From(b, a, 1, 0, 0, 1) ELSE From(a, b, 0, 1, 1, 0))

----------------------------------------------------------------------------
(* What the operations promise. *)
GcdOf(a, b) == IF a = 0 THEN b ELSE IF b = 0 THEN a
               ELSE Max({k \in 1 .. BN_MAX_DIGIT : a % k = 0 /\ b % k = 0})

BitTricksRight(d) ==
    /\ bn_digit_bits(d) = Cardinality(Bits(d))
    /\ bn_digit_ctz(d) = IF d = 0 THEN BN_DIGIT_BITS ELSE Min(Bits(d))
    /\ bn_digit_ffs(d) = IF d = 0 THEN 0 ELSE Min(Bits(d)) + 1
    /\ bn_digit_clz(d) = IF d = 0 THEN BN_DIGIT_BITS ELSE BN_DIGIT_BITS - 1 - Max(Bits(d))
    /\ bn_digit_is_odd(d) <=> 0 \in Bits(d)
    /\ bn_digit_is_even(d) <=> 0 \notin Bits(d)

(* a * b, n / d and the greatest common divisor; both builds agree.  The   *)
(* high digit of the remainder of DivShort is left out: see the README.    *)
DigitArithmeticRight(a, b, c) ==
    /\ Wide(bn_digit_mult(a, b)) = a * b
    /\ MultHalves(a, b) = MultCC(a, b)
    /\ LET n == Pair(a, b)
           cc == DivCC(n, c)
           sw == DivShort(n, c)
       IN  /\ cc.err = sw.err /\ cc.q = sw.q /\ cc.r.lo = sw.r.lo
           /\ bn_digit_div__int(n, c).q = cc.q
           /\ bn_digit_div__int_short(n, c).q = (IF c = 0 THEN 0 ELSE cc.q.lo)
           /\ c # 0 => Wide(n) = Wide(cc.q) * c + cc.r.lo /\ cc.r.lo < c
    /\ bn_digit_gcd(a, b) = GcdOf(a, b)
    /\ bn_digit_gcd_bin(a, b) = GcdOf(a, b)
    /\ LET e == bn_digit_egcd(a, b) IN
       e.a = GcdOf(a, b) /\ (a # b => D(a * e.xp + b * e.yp) = e.a)
=============================================================================
