------------------------------- MODULE BigNum -------------------------------
(***************************************************************************)
(* Numbers (big_num.h, "BINUM OPERATIONS"): bookkeeping of the digits in   *)
(* use, assignments, shifts, bit operations and arithmetic.  A number      *)
(* passed by reference is the value of the operator; bn_div has two.       *)
(***************************************************************************)
EXTENDS BnDigits

bn_init(bn, bits) ==
    LET count == (bits + BN_DIGIT_BITS - 1) \div BN_DIGIT_BITS IN
    IF bn.err # "ok" THEN bn
    ELSE IF bits = 0 \/ count > BN_MAX_DIGITS THEN Failed(bn, "EINVAL")
    ELSE [bn EXCEPT !.count = count, !.digits = 0]

bn_calc_digits(bn) == [bn EXCEPT !.digits = bn_digits_calc_digits(bn.num, bn.count)]
bn_calc_bits(bn) ==
    IF bn.digits = 0 THEN 0 ELSE bn.digits * BN_DIGIT_BITS - bn_digit_clz(bn.num[bn.digits - 1])
bn_update(bn) == bn_calc_digits(bn)

(* Delayed initialisation: digits below digit_off that are not in use are cleared. *)
bn_init_digits__int(bn, digit_off) ==
    [bn EXCEPT !.num = [i \in Index |-> IF i \in bn.digits .. Smaller(digit_off, bn.count) - 1
                                        THEN 0 ELSE bn.num[i]]]

bn_update_digits__int(bn, digits) ==
    [bn EXCEPT !.digits =
        IF digits >= bn.count THEN bn_digits_calc_digits(bn.num, bn.count)
        ELSE IF digits < bn.digits THEN bn_digits_calc_digits(bn.num, bn.digits)
        ELSE IF digits > bn.digits /\ bn.num[digits - 1] # 0 THEN digits
        ELSE bn_digits_calc_digits(bn.num, digits)]

bn_is_zero(bn) == bn.digits = 0
bn_is_one(bn) == bn.digits = 1 /\ bn.num[0] = 1
bn_is_pow2(bn) ==
    /\ bn.digits # 0
    /\ bn_digit_is_pow2(bn.num[bn.digits - 1])
    /\ \A i \in 0 .. bn.digits - 2 : bn.num[i] = 0
bn_is_even(bn) == bn.digits # 0 /\ bn.num[0] % 2 = 0
bn_is_odd(bn) == bn.digits # 0 /\ bn.num[0] % 2 = 1

bn_ctz(bn) ==
    LET set == {i \in 0 .. bn.digits - 1 : bn.num[i] # 0} IN
    IF set = {} THEN bn.digits * BN_DIGIT_BITS
    ELSE Min(set) * BN_DIGIT_BITS + bn_digit_ctz(bn.num[Min(set)])
(* The code expects a number that is not zero. *)
bn_clz(bn) == BN_DIGIT_BITS * (bn.count - bn.digits) + bn_digit_clz(bn.num[bn.digits - 1])

bn_cmp(a, b) ==
    IF a.digits # b.digits THEN IF a.digits > b.digits THEN 1 ELSE -1
    ELSE bn_digits_cmp(a.num, 0, b.num, a.digits)
bn_is_equal(a, b) == bn_cmp(a, b) = 0

(* Bits of the lowest digit are read even when it is not in use. *)
bn_is_bit_set(bn, bit) ==
    /\ BN_DIGIT_BITS > bit \/ bn.digits * BN_DIGIT_BITS > bit
    /\ (bn.num[bit \div BN_DIGIT_BITS] \div 2^(bit % BN_DIGIT_BITS)) % 2 = 1

bn_bit_set(bn, bit, val) ==
    LET idx == bit \div BN_DIGIT_BITS
        mask == 2^(bit % BN_DIGIT_BITS)
        b == bn_init_digits__int(bn, idx + 1)
        set == (b.num[idx] \div mask) % 2
    IN  IF bn.err # "ok" THEN bn
        ELSE IF bn.count <= idx THEN Failed(bn, "EOVERFLOW")
        ELSE bn_update_digits__int([b EXCEPT !.num[idx] = @ + (val - set) * mask], idx + 1)

----------------------------------------------------------------------------
CopyNum(dst, src) == [i \in Index |-> IF i < src.digits THEN src.num[i] ELSE dst.num[i]]

bn_assign(dst, src) ==
    Ret(dst, src,
        IF src.digits > dst.count THEN Failed(dst, "EOVERFLOW")
        ELSE [dst EXCEPT !.digits = src.digits, !.num = CopyNum(dst, src)])
bn_assign_init(dst, src) ==
    Ret(dst, src, [dst EXCEPT !.count = src.count, !.digits = src.digits, !.num = CopyNum(dst, src)])
bn_assign_zero(bn) == [bn EXCEPT !.digits = 0]
bn_assign_2exp(bn, exp) == bn_bit_set(bn_assign_zero(bn), exp, 1)
bn_assign_digit(bn, digit) ==
    IF bn.err # "ok" THEN bn
    ELSE IF bn.count = 0 THEN Failed(bn, "EOVERFLOW")
    ELSE [bn EXCEPT !.digits = 1, !.num[0] = digit]
Copy(src) == bn_assign_init(Local, src)

bn_l_shift(bn, bits) ==
    LET digits == Smaller(bn.count, bn.digits + 1 + (bits \div BN_DIGIT_BITS))
        b == bn_init_digits__int(bn, digits)
    IN  IF bn.err # "ok" \/ bn.digits = 0 THEN bn
        ELSE bn_update_digits__int([b EXCEPT !.num = bn_digits_l_shift(b.num, digits, bits)], digits)
bn_r_shift(bn, bits) ==
    IF bn.err # "ok" \/ bn.digits = 0 THEN bn
    ELSE bn_update_digits__int([bn EXCEPT !.num = bn_digits_r_shift(bn.num, bn.digits, bits)], bn.digits)

bn_and(bn, n) ==
    LET digits == Smaller(bn.digits, n.digits) IN
    Ret(bn, n, bn_update_digits__int(
        [bn EXCEPT !.num = [i \in Index |-> IF i < digits THEN bn.num[i] & n.num[i]
                                            ELSE IF i = digits /\ bn.count > digits THEN 0
                                            ELSE bn.num[i]]], digits))
(* bn_or() and bn_xor() differ in the operation on a digit only. *)
Digitwise(bn, n, Op(_, _)) ==
    LET digits == Larger(bn.digits, n.digits)
        b == bn_init_digits__int(bn, digits)
    IN  Ret(bn, n, IF bn.count < n.digits THEN Failed(bn, "EOVERFLOW")
            ELSE bn_update_digits__int(
                 [b EXCEPT !.num = [i \in Index |-> IF i < n.digits THEN Op(b.num[i], n.num[i])
                                                    ELSE b.num[i]]], digits))
bn_or(bn, n) == Digitwise(bn, n, LAMBDA x, y : x | y)
bn_xor(bn, n) == Digitwise(bn, n, LAMBDA x, y : x ^^ y)

----------------------------------------------------------------------------
bn_add_digit(bn, n) ==
    LET b == bn_init_digits__int(bn, bn.digits + 1) IN
    IF bn.err # "ok" \/ n = 0 THEN bn
    ELSE bn_update_digits__int([b EXCEPT !.num = bn_digits_add_digit(b.num, 0, bn.count, n).num],
                               bn.digits + 1)
bn_add(bn, n) ==
    LET digits == Larger(bn.digits, n.digits) + 1
        b == bn_init_digits__int(bn, digits)
    IN  Ret(bn, n,
            IF bn.count < n.digits THEN Failed(bn, "EOVERFLOW")
            ELSE bn_update_digits__int(
                 [b EXCEPT !.num = bn_digits_add(b.num, 0, bn.count, n.num, n.digits).num], digits))

bn_sub_digit(bn, n) ==
    LET digits == IF bn.digits = 0 \/ (bn.digits = 1 /\ bn.num[0] < n) THEN bn.count ELSE bn.digits
        b == bn_init_digits__int(bn, digits)
    IN  IF bn.err # "ok" \/ n = 0 THEN bn
        ELSE bn_update_digits__int([b EXCEPT !.num = bn_digits_sub_digit(b.num, 0, bn.count, n).num], digits)
(* Mutation: with equal top digits the result is taken to be no longer than bn. *)
bn_sub_EqualTop(bn, n) ==
    LET top == bn.digits - 1
        digits == IF \/ bn.digits < n.digits
                     \/ bn.digits = n.digits /\ (bn.digits = 0 \/ bn.num[top] < n.num[top])
                  THEN bn.count ELSE bn.digits
        b == bn_init_digits__int(bn, digits)
    IN  Ret(bn, n,
            IF n.digits > bn.count THEN Failed(bn, "EOVERFLOW")
            ELSE bn_update_digits__int(
                 [b EXCEPT !.num = bn_digits_sub__int(b.num, 0, bn.count, n.num, n.digits).num], digits))

(* With two zeros num[-1] is compared with num[-1]: the "digits" before it, equal. *)
bn_sub(bn, n) ==
    LET top == bn.digits - 1
        digits == IF \/ bn.digits < n.digits
                     \/ bn.digits = n.digits /\ (bn.digits = 0 \/ bn.num[top] <= n.num[top])
                  THEN bn.count ELSE bn.digits
        b == bn_init_digits__int(bn, digits)
    IN  Ret(bn, n,
            IF n.digits > bn.count THEN Failed(bn, "EOVERFLOW")
            ELSE bn_update_digits__int(
                 [b EXCEPT !.num = bn_digits_sub__int(b.num, 0, bn.count, n.num, n.digits).num], digits))

(* Schoolbook: one row per digit of the smaller operand. *)
bn_mult(bn, n) ==
    LET digits == bn.digits + n.digits
        tmp == Copy(bn)
        big == IF bn_cmp(tmp, n) > 0 THEN tmp ELSE n
        small == IF bn_cmp(tmp, n) > 0 THEN n ELSE tmp
        b == bn_init_digits__int(bn_assign_zero(bn), digits)
        Row(num, j) ==
            IF small.num[j] = 0 THEN num
            ELSE bn_digits_add_digit_mult__int(num, j, digits - j, big.num, big.digits, small.num[j])
    IN  Ret(bn, n,
            IF bn_is_zero(bn) \/ bn_is_zero(n) THEN bn_assign_zero(bn)
            ELSE IF digits > bn.count THEN Failed(bn, "EOVERFLOW")
            ELSE bn_update_digits__int([b EXCEPT !.num = For(small.digits, Row, b.num)], digits))

bn_mult_digit(bn, n) ==
    LET b == bn_init_digits__int(bn, bn.digits + 1) IN
    IF bn.err # "ok" \/ bn_is_zero(bn) THEN bn
    ELSE IF n = 0 THEN bn_assign_zero(bn)
    ELSE IF n = 1 THEN bn
    ELSE IF n = 2 THEN bn_add(bn, bn)
    ELSE IF n = 3 THEN bn_add(bn, bn_add(Copy(bn), Copy(bn)))
    ELSE IF bn.digits >= bn.count THEN Failed(bn, "EOVERFLOW")
    ELSE bn_update_digits__int(
         [b EXCEPT !.num = bn_digits_mult_digit__int(b.num, bn.digits + 1, n)], bn.digits + 1)

bn_square(bn) == bn_mult(bn, bn)

(* Square and multiply; the base is squared once more than it is needed. *)
bn_exp_digit(bn, exp) ==
    LET Step(s) == [bn |-> IF s.exp % 2 = 1 THEN bn_mult(s.bn, s.base) ELSE s.bn,
                    base |-> bn_mult(s.base, s.base), exp |-> s.exp \div 2]
        s1 == While(LAMBDA s : s.exp # 0 /\ s.bn.err = "ok" /\ s.base.err = "ok", Step,
                    [bn |-> bn_assign_digit(bn, 1), base |-> Copy(bn), exp |-> exp])
    IN  IF bn.err # "ok" THEN bn
        ELSE IF exp = 0 THEN bn_assign_digit(bn, 1)
        ELSE IF exp = 1 THEN bn
        ELSE IF exp = 2 THEN bn_mult(bn, bn)
        ELSE IF bn.digits * exp > bn.count THEN Failed(bn, "EOVERFLOW")
        ELSE IF bn.digits = 1 /\ bn.num[0] \in {0, 1} THEN bn
        ELSE IF bn.digits = 1 /\ bn.num[0] = 2 THEN bn_assign_2exp(bn, exp)
        ELSE Ret(s1.bn, s1.base, s1.bn)

(* Division.  The operands are shifted so that the divisor's top digit is  *)
(* at least half a digit; a quotient digit is first estimated too low with *)
(* the top digit plus one and then corrected.                              *)
DivDigits(nn, dd, q) ==
    LET t == dd.num[dd.digits - 1]
        Estimate(num, j) ==
            LET top == j + dd.digits IN
            IF nn.count = top
            THEN IF t = BN_MAX_DIGIT THEN 0 ELSE num[top - 1] \div (t + 1)
            ELSE IF t = BN_MAX_DIGIT THEN num[top]
            ELSE bn_digit_div__int_short(Pair(num[top - 1], num[top]), t + 1).q
        Fits(num, j) ==
            \/ nn.count > j + dd.digits /\ num[j + dd.digits] # 0
            \/ bn_digits_cmp(num, j, dd.num, dd.digits) >= 0
        Step(s, j) ==
            LET ai == Estimate(s.num, j)
                n1 == IF ai = 0 THEN s.num
                      ELSE bn_digits_sub_digit_mult__int(s.num, j, nn.digits - j, dd.num, dd.digits, ai)
                c == While(LAMBDA x : Fits(x.num, j),
                           LAMBDA x : [num |-> bn_digits_sub__int(x.num, j, nn.digits - j,
                                                                  dd.num, dd.digits).num,
                                       ai |-> D(x.ai + 1)],
                           [num |-> n1, ai |-> ai])
            IN  [num |-> c.num, q |-> [s.q EXCEPT ![j] = c.ai]]
    IN  ForDown(nn.digits - dd.digits + 1, Step, [num |-> nn.num, q |-> q])

(* bn / d and bn % d; "rem" is where the remainder goes. *)
bn_div(bn, d, rem) ==
    LET Res(q, r) == [q |-> q, r |-> r]
        shift == bn_digit_clz(d.num[d.digits - 1])
        dd == bn_l_shift(bn_init_digits__int(Copy(d), d.count), shift)
        nn == bn_l_shift(bn_init_digits__int(Copy(bn), bn.count), shift)
        s == DivDigits(nn, dd, bn.num)
        q == bn_update_digits__int([bn_assign_zero(bn) EXCEPT !.num = s.q], 1 + nn.digits - dd.digits)
        r == bn_r_shift(bn_update_digits__int([nn EXCEPT !.num = s.num], nn.digits), shift)
    IN  IF bn.err # "ok" \/ d.err # "ok" THEN Res(Ret(bn, d, bn), Ret(bn, d, bn))
        ELSE IF bn_is_zero(d) THEN Res(Failed(bn, "EINVAL"), Failed(bn, "EINVAL"))
        ELSE IF bn_cmp(bn, d) = 0 THEN Res(bn_assign_digit(bn, 1), bn_assign_zero(rem))
        ELSE IF bn_cmp(bn, d) < 0 THEN Res(bn_assign_zero(bn), bn_assign(rem, bn))
        ELSE IF bn.count = bn.digits /\ shift > bn_digit_clz(bn.num[bn.digits - 1])
             THEN Res(Failed(bn, "EOVERFLOW"), Failed(bn, "EOVERFLOW"))
        ELSE Res(q, bn_assign(rem, r))
=============================================================================
