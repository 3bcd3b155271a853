------------------------------- MODULE BnDigits -------------------------------
(***************************************************************************)
(* Memory and digit arrays of big numbers (big_num.h, "DIGITS          *)
(* OPERATIONS").  A number has room for "count" digits, uses    *)
(* the lowest "digits" of them, and nothing is said about what the digits  *)
(* above hold: they are cleared when an operation needs them.  Memory that *)
(* was never written holds "junk".                                         *)
(*                                                                         *)
(* A byte has BYTE_BITS bits (8 in the code) and a digit BN_DIGIT_SIZE     *)
(* bytes; a hexadecimal digit is half a byte.  An operation that fails     *)
(* leaves its error in the number and the callers hand it on.              *)
(***************************************************************************)
EXTENDS Digit, SequencesExt

CONSTANTS BYTE_BITS, BN_MAX_DIGITS

ASSUME BigNumAssumption ==
    /\ BYTE_BITS \in {2, 4, 8} /\ BN_DIGIT_BITS % BYTE_BITS = 0
    /\ BN_MAX_DIGITS \in Nat \ {0}

VARIABLE junk                  \* what memory holds that was never written

BN_DIGIT_SIZE == BN_DIGIT_BITS \div BYTE_BITS
Byte == 2^BYTE_BITS
Nibble == 2^(BYTE_BITS \div 2)
Index == 0 .. BN_MAX_DIGITS - 1

(* bn_t on the stack, not initialised; count is set by the first use. *)
Local == [err |-> "ok", count |-> 0, digits |-> 0, num |-> [i \in Index |-> junk]]
Failed(bn, e) == [bn EXCEPT !.err = e]
(* BN_RET_ON_ERR *)
Ret(a, b, r) ==
    IF a.err # "ok" THEN a ELSE IF b.err # "ok" THEN Failed(a, b.err) ELSE r

Larger(a, b) == IF a >= b THEN a ELSE b
Smaller(a, b) == IF a <= b THEN a ELSE b

----------------------------------------------------------------------------
(* Arrays of digits.  "off" is where the array starts in num.              *)

bn_digits_calc_digits(a, count) ==
    LET used == {i \in 0 .. count - 1 : a[i] # 0} IN
    IF used = {} THEN 0 ELSE Max(used) + 1

bn_digits_cmp(a, off, b, count) ==
    LET diff == {i \in 0 .. count - 1 : a[off + i] # b[i]} IN
    IF diff = {} THEN 0
    ELSE LET i == Max(diff) IN IF a[off + i] > b[i] THEN 1 ELSE -1

(* The array as the bytes it is made of, for memmove() and memcpy(). *)
ByteAt(a, k) == (a[k \div BN_DIGIT_SIZE] \div 2^(BYTE_BITS * (k % BN_DIGIT_SIZE))) % Byte
SetBytes(a, n, F(_)) ==
    LET Part(d, j) == LET k == d * BN_DIGIT_SIZE + j IN
                      (IF k < n THEN F(k) ELSE ByteAt(a, k)) * 2^(BYTE_BITS * j)
    IN  [d \in Index |-> IF d * BN_DIGIT_SIZE >= n THEN a[d]
                         ELSE MapThenSumSet(LAMBDA j : Part(d, j), 0 .. BN_DIGIT_SIZE - 1)]

(* Whole bytes are moved, the bits that are left are shifted digit by      *)
(* digit.  The code expects bits <= count * BN_DIGIT_BITS.                 *)
bn_digits_l_shift(a, count, bits) ==
    LET move == bits % BYTE_BITS = 0 \/ BN_DIGIT_BITS < bits
        i == bits \div BYTE_BITS
        moved == IF move
                 THEN SetBytes(a, count * BN_DIGIT_SIZE, LAMBDA k : IF k < i THEN 0 ELSE ByteAt(a, k - i))
                 ELSE a
        rest == IF move THEN bits % BYTE_BITS ELSE bits
        from == IF move THEN i \div BN_DIGIT_SIZE ELSE 0
        Crr(d) == IF d = from THEN 0 ELSE moved[d - 1] \div 2^(BN_DIGIT_BITS - rest)
    IN  IF count = 0 \/ bits = 0 THEN a
        ELSE IF rest = 0 THEN moved
        ELSE [d \in Index |-> IF d \in from .. count - 1 THEN D(moved[d] * 2^rest) + Crr(d)
                              ELSE moved[d]]

bn_digits_r_shift(a, count, bits) ==
    LET move == bits % BYTE_BITS = 0 \/ BN_DIGIT_BITS < bits
        i == bits \div BYTE_BITS
        size == count * BN_DIGIT_SIZE
        moved == IF move
                 THEN SetBytes(a, size, LAMBDA k : IF k < size - i THEN ByteAt(a, k + i) ELSE 0)
                 ELSE a
        rest == IF move THEN bits % BYTE_BITS ELSE bits
        last == (IF move THEN count - (i \div BN_DIGIT_SIZE) ELSE count) - 1
        Crr(d) == IF d = last THEN 0 ELSE D(moved[d + 1] * 2^(BN_DIGIT_BITS - rest))
    IN  IF count = 0 \/ bits = 0 THEN a
        ELSE IF rest = 0 THEN moved
        ELSE [d \in Index |-> IF d \in 0 .. last THEN (moved[d] \div 2^rest) + Crr(d) ELSE moved[d]]

(* The result of an operation on an array: the array and what is carried out. *)
Arr(a, c) == [num |-> a, c |-> c]

(* Carry and borrow run through the digits until one takes them. *)
bn_digits_add_digit(a, off, count, b) ==
    LET v == D(a[off] + b)
        Ripple(s) == LET x == D(s.num[off + s.i] + 1) IN
                     [s EXCEPT !.num[off + s.i] = x, !.c = IF x = 0 THEN 1 ELSE 0, !.i = @ + 1]
        s0 == [num |-> [a EXCEPT ![off] = v], c |-> IF v < b THEN 1 ELSE 0, i |-> 1]
        s1 == While(LAMBDA s : s.c # 0 /\ s.i < count, Ripple, s0)
    IN  IF count = 0 \/ b = 0 THEN Arr(a, 0) ELSE Arr(s1.num, s1.c)

bn_digits_add(a, off, a_count, b, b_count) ==
    LET Step(s, i) ==
            LET v == D(s.num[off + i] + s.c)
                w == D(v + b[i])
                c == IF v < s.c THEN 1 ELSE 0
            IN  IF b[i] = 0 THEN [num |-> [s.num EXCEPT ![off + i] = v], c |-> c]
                ELSE [num |-> [s.num EXCEPT ![off + i] = w], c |-> IF w < b[i] THEN 1 ELSE c]
        s1 == For(b_count, Step, Arr(a, 0))
    IN  IF b_count = 0 THEN Arr(a, 0)
        ELSE IF s1.c # 0 /\ a_count > b_count
             THEN bn_digits_add_digit(s1.num, off + b_count, a_count - b_count, s1.c)
             ELSE s1

bn_digits_sub_digit(a, off, count, b) ==
    LET Sub(x, y) == D(x - y)
        Over(x, y) == IF x > BN_MAX_DIGIT - y THEN 1 ELSE 0
        v == Sub(a[off], b)
        Ripple(s) == LET x == Sub(s.num[off + s.i], s.c) IN
                     [s EXCEPT !.num[off + s.i] = x, !.c = Over(x, s.c), !.i = @ + 1]
        s1 == While(LAMBDA s : s.c # 0 /\ s.i < count, Ripple,
                    [num |-> [a EXCEPT ![off] = v], c |-> Over(v, b), i |-> 1])
    IN  IF count = 0 \/ b = 0 THEN Arr(a, 0) ELSE Arr(s1.num, s1.c)

bn_digits_sub__int(a, off, a_count, b, b_count) ==
    LET Step(s, i) ==
            LET v == D(s.num[off + i] - s.c)
                w == D(v - b[i])
                c == IF v > BN_MAX_DIGIT - s.c THEN 1 ELSE 0
            IN  IF b[i] = 0 THEN [num |-> [s.num EXCEPT ![off + i] = v], c |-> c]
                ELSE [num |-> [s.num EXCEPT ![off + i] = w],
                      c |-> IF w > BN_MAX_DIGIT - b[i] THEN 1 ELSE c]
        s1 == For(b_count, Step, Arr(a, 0))
    IN  IF s1.c # 0 /\ a_count > b_count
        THEN bn_digits_sub_digit(s1.num, off + b_count, a_count - b_count, s1.c)
        ELSE s1

bn_digits_mult_digit__int(a, count, d) ==
    LET Step(s, i) ==
            LET m == bn_digit_mult(d, s.num[i])
                v == D(m.lo + s.c)
            IN  [num |-> [s.num EXCEPT ![i] = v], c |-> D((IF v < s.c THEN 1 ELSE 0) + m.hi)]
    IN  IF count = 0 THEN a
        ELSE IF bn_digit_is_pow2(d) THEN bn_digits_l_shift(a, count, bn_digit_ctz(d))
        ELSE For(count, Step, Arr(a, 0)).num

(* a += b * d *)
bn_digits_add_digit_mult__int(a, off, a_count, b, b_count, d) ==
    LET Step(s, i) ==
            LET m == bn_digit_mult(d, b[i])
                v == D(s.num[off + i] + s.c)
                w == D(v + m.lo)
            IN  [num |-> [s.num EXCEPT ![off + i] = w],
                 c |-> D((IF v < s.c THEN 1 ELSE 0) + m.hi + (IF w < m.lo THEN 1 ELSE 0))]
        s1 == For(b_count, Step, Arr(a, 0))
    IN  IF d = 1 THEN bn_digits_add(a, off, a_count, b, b_count).num
        ELSE IF s1.c # 0 /\ a_count > b_count
             THEN bn_digits_add_digit(s1.num, off + b_count, a_count - b_count, s1.c).num
             ELSE s1.num

(* a -= b * d *)
bn_digits_sub_digit_mult__int(a, off, a_count, b, b_count, d) ==
    LET Step(s, i) ==
            LET v == D(s.num[off + i] - s.c)
                c == IF v > BN_MAX_DIGIT - s.c THEN 1 ELSE 0
                m == bn_digit_mult__int(d, b[i])
                w == D(v - m.lo)
            IN  IF b[i] = 0 THEN [num |-> [s.num EXCEPT ![off + i] = v], c |-> c]
                ELSE [num |-> [s.num EXCEPT ![off + i] = w],
                      c |-> D(c + m.hi + (IF w > BN_MAX_DIGIT - m.lo THEN 1 ELSE 0))]
        s1 == For(b_count, Step, Arr(a, 0))
    IN  IF d = 1 THEN bn_digits_sub__int(a, off, a_count, b, b_count).num
        ELSE IF s1.c # 0 /\ a_count > b_count
             THEN bn_digits_sub_digit(s1.num, off + b_count, a_count - b_count, s1.c).num
             ELSE s1.num
=============================================================================
