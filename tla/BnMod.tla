-------------------------------- MODULE BnMod --------------------------------
(***************************************************************************)
(* Greatest common divisors, square roots, recodings of a scalar and       *)
(* arithmetic modulo m (big_num.h, "NUMBER THEORY").  The build is the     *)
(* default one: reduction by division.                                     *)
(***************************************************************************)
EXTENDS BigNum

Ok(S) == \A x \in S : x.err = "ok"
(* The first error among the numbers of S, handed on in bn. *)
Hand(bn, S, r) ==
    IF Ok(S \cup {bn}) THEN r
    ELSE Failed(bn, (CHOOSE x \in S \cup {bn} : x.err # "ok").err)

bn_gcd(bn, a, b) ==
    LET big == IF bn_cmp(a, b) < 0 THEN b ELSE a
        small == IF bn_cmp(a, b) < 0 THEN a ELSE b
        s1 == While(LAMBDA s : Ok({s.a, s.b}) /\ ~bn_is_zero(s.b),
                    LAMBDA s : [a |-> s.b, b |-> bn_div(s.a, s.b, s.a).r],
                    [a |-> bn_assign_init(bn, big), b |-> Copy(small)])
    IN  IF bn_is_zero(a) THEN bn_assign(bn, b)
        ELSE IF bn_is_zero(b) \/ bn_cmp(a, b) = 0 THEN bn_assign(bn, a)
        ELSE Hand(bn, {s1.a, s1.b}, bn_assign(bn_assign_init(bn, big), s1.a))

bn_gcd_bin(bn, a, b) ==
    LET sa == bn_ctz(a)
        sb == bn_ctz(b)
        Step(s) ==
            LET o == bn_r_shift(s.b, bn_ctz(s.b))
                lo == IF bn_cmp(s.a, o) > 0 THEN o ELSE s.a
                hi == IF bn_cmp(s.a, o) > 0 THEN s.a ELSE o
            IN  [a |-> lo, b |-> bn_sub(hi, lo)]
        s1 == While(LAMBDA s : Ok({s.a, s.b}) /\ ~bn_is_zero(s.b), Step,
                    [a |-> bn_r_shift(bn_assign_init(bn, a), sa), b |-> Copy(b)])
    IN  IF bn_is_zero(a) THEN bn_assign(bn, b)
        ELSE IF bn_is_zero(b) \/ bn_cmp(a, b) = 0 THEN bn_assign(bn, a)
        ELSE Hand(bn, {s1.a, s1.b},
                  bn_l_shift(bn_assign(bn_assign_init(bn, a), s1.a), Smaller(sa, sb)))

----------------------------------------------------------------------------
(* Integer square roots, bit pair by bit pair. *)

RoomOf(bn) == bn.count * BN_DIGIT_BITS
RootBit(bn) ==
    While(LAMBDA bit : bit.err = "ok" /\ bn_cmp(bit, bn) > 0, LAMBDA bit : bn_r_shift(bit, 2),
          bn_assign_2exp(bn_init(Local, RoomOf(bn)), RoomOf(bn) - bn_clz(bn)))

bn_sqrt1(bn) ==
    LET Step(s) ==
            LET tmp == bn_add(s.res, s.bit)
                half == bn_r_shift(s.res, 1)
                fits == bn_cmp(s.bn, tmp) >= 0
            IN  [bn |-> IF fits THEN bn_sub(s.bn, tmp) ELSE s.bn,
                 res |-> IF fits THEN bn_add(half, s.bit) ELSE half,
                 bit |-> bn_r_shift(s.bit, 2)]
        s1 == While(LAMBDA s : Ok({s.bn, s.res, s.bit}) /\ ~bn_is_zero(s.bit), Step,
                    [bn |-> bn, res |-> bn_init(Local, RoomOf(bn)), bit |-> RootBit(bn)])
    IN  IF bn.err # "ok" THEN bn ELSE Hand(bn, {s1.res, s1.bit}, bn_assign(s1.bn, s1.res))

bn_sqrt2(bn) ==
    LET Step(s) ==
            LET tmp == bn_add(s.res, s.bit)
                fits == bn_cmp(s.bn, tmp) >= 0
                res == IF fits THEN bn_add(s.res, bn_l_shift(s.bit, 1)) ELSE s.res
            IN  [bn |-> IF fits THEN bn_sub(s.bn, tmp) ELSE s.bn,
                 res |-> bn_r_shift(res, 1), bit |-> bn_r_shift(s.bit, 2)]
        s1 == While(LAMBDA s : Ok({s.bn, s.res, s.bit}) /\ ~bn_is_zero(s.bit), Step,
                    [bn |-> bn, res |-> bn_init(Local, RoomOf(bn)), bit |-> RootBit(bn)])
    IN  IF bn.err # "ok" THEN bn ELSE Hand(bn, {s1.res, s1.bit}, bn_assign(s1.bn, s1.res))

bn_sqrt3(bn) ==
    LET used == RoomOf(bn) - bn_clz(bn)
        Step(s) ==
            LET tmp == bn_bit_set(bn_assign(bn_init(Local, RoomOf(bn)), s.res), s.bit, 1)
                half == bn_r_shift(s.res, 1)
                fits == bn_cmp(s.bn, tmp) >= 0
            IN  [bn |-> IF tmp.err # "ok" THEN Failed(s.bn, tmp.err)
                        ELSE IF fits THEN bn_sub(s.bn, tmp) ELSE s.bn,
                 res |-> IF fits THEN bn_bit_set(half, s.bit, 1) ELSE half,
                 bit |-> s.bit - 2]
        s1 == While(LAMBDA s : Ok({s.bn, s.res}) /\ s.bit >= 0, Step,
                    [bn |-> bn, res |-> bn_init(Local, RoomOf(bn)), bit |-> used - (used % 2)])
    IN  IF bn.err # "ok" THEN bn ELSE Hand(bn, {s1.bn, s1.res}, bn_assign(s1.bn, s1.res))

(* Bits are tried from the top, the square is compared. *)
bn_sqrt5(bn) ==
    LET bits == 1 + (RoomOf(bn) - bn_clz(bn)) \div 2
        Try(res, k) ==
            LET set == bn_bit_set(res, k, 1)
                sq == bn_square(bn_assign(bn_init(Local, RoomOf(bn)), set))
            IN  Ret(set, sq, IF bn_cmp(sq, bn) > 0 THEN bn_bit_set(set, k, 0) ELSE set)
        res == ForDown(bits + 1, Try, bn_assign_2exp(bn_init(Local, RoomOf(bn)), bits))
    IN  IF bn.err # "ok" THEN bn ELSE bn_assign(bn, res)

----------------------------------------------------------------------------
(* The bits of one column of the comb, the highest window first. *)
bn_combo_column_get(bn, bit_off, wnd_bits, wnd_count) ==
    LET Bit(off) == IF bn.digits * BN_DIGIT_BITS > off
                    THEN (bn.num[off \div BN_DIGIT_BITS] \div 2^(off % BN_DIGIT_BITS)) % 2 ELSE 0
    IN  For(wnd_bits, LAMBDA res, i : D(2 * res) + Bit(bit_off - i * wnd_count), 0)

Recoded(err, a, b) == [err |-> err, a |-> a, b |-> b]

(* Joint sparse form of a and b: one item per bit for each, -1, 0 or 1. *)
bn_calc_jsf(a, b, jsf_arr_size) ==
    LET offset == Larger(bn_calc_bits(a), bn_calc_bits(b)) + 1
        Low(x, d) == (x.num[0] + d) % 8      \* read even when x is zero
        Item(l, m) ==
            IF l % 2 = 0 THEN 0
            ELSE IF l \in {3, 5} /\ m % 4 = 2 THEN (l % 4) - 2 ELSE 2 - (l % 4)
        Flip(d, itm) == IF 2 * d = 1 + itm THEN 1 - d ELSE d
        Step(s) ==
            LET l0 == Low(s.a, s.d0)  l1 == Low(s.b, s.d1)
                i0 == Item(l0, l1)    i1 == Item(l1, l0)
            IN  [a |-> bn_r_shift(s.a, 1), b |-> bn_r_shift(s.b, 1),
                 d0 |-> Flip(s.d0, i0), d1 |-> Flip(s.d1, i1),
                 x |-> Append(s.x, i0), y |-> Append(s.y, i1)]
        More(s) == ~bn_is_zero(s.a) \/ s.d0 # 0 \/ ~bn_is_zero(s.b) \/ s.d1 # 0
        s1 == While(More, Step,
                    [a |-> Copy(a), b |-> Copy(b), d0 |-> 0, d1 |-> 0, x |-> <<>>, y |-> <<>>])
    IN  IF jsf_arr_size < 2 * offset THEN Recoded("EOVERFLOW", <<>>, <<>>)
        ELSE Recoded("ok", s1.x, s1.y)

(* Non-adjacent form of width wnd_bits, lowest item first. *)
bn_calc_naf(bn, wnd_bits, naf_arr_size) ==
    LET Item(x) == LET itm == x.num[0] % 2^wnd_bits IN
                   IF itm >= 2^(wnd_bits - 1) THEN itm - 2^wnd_bits ELSE itm
        Step(s) ==
            LET itm == IF s.tm.num[0] % 2 = 1 THEN Item(s.tm) ELSE 0
                t == IF itm < 0 THEN bn_add_digit(s.tm, 0 - itm)
                     ELSE IF itm > 0 THEN bn_sub_digit(s.tm, itm) ELSE s.tm
            IN  [tm |-> bn_r_shift(t, 1), a |-> Append(s.a, itm)]
        s1 == While(LAMBDA s : ~bn_is_zero(s.tm), Step, [tm |-> Copy(bn), a |-> <<>>])
    IN  IF wnd_bits < 2 THEN Recoded("EINVAL", <<>>, <<>>)
        ELSE IF naf_arr_size < bn_calc_bits(bn) + 1 THEN Recoded("EOVERFLOW", <<>>, <<>>)
        ELSE Recoded("ok", s1.a, <<>>)

----------------------------------------------------------------------------
(* Modulo m.  The operands of sums and differences are below m already. *)

bn_mod(bn, m) == bn_div(bn, m, bn).r

bn_mod_add(bn, n, m) ==
    LET s == bn_add(bn, n) IN Ret(s, m, IF bn_cmp(s, m) >= 0 THEN bn_sub(s, m) ELSE s)
bn_mod_sub(bn, n, m) ==
    Ret(bn, n, bn_mod(bn_sub(IF bn_cmp(bn, n) < 0 THEN bn_add(bn, m) ELSE bn, n), m))
bn_mod_mult(bn, n, m) == bn_mod(bn_mult(bn, n), m)
bn_mod_mult_digit(bn, n, m) == bn_mod(bn_mult_digit(bn, n), m)
bn_mod_square(bn, m) == bn_mod_mult(bn, bn, m)

(* One pass over the bits of the exponent, lowest first. *)
PowStep(s, set, m) ==
    [bn |-> IF set THEN bn_mod_mult(s.bn, s.base, m) ELSE s.bn,
     base |-> bn_mod_mult(s.base, s.base, m)]

bn_mod_exp_digit(bn, exp, m) ==
    LET Step(s) == PowStep(s, s.exp % 2 = 1, m) @@ [exp |-> s.exp \div 2]
        s1 == While(LAMBDA s : s.exp # 0 /\ Ok({s.bn, s.base}), Step,
                    [bn |-> bn_assign_digit(bn, 1), base |-> Copy(bn), exp |-> exp])
    IN  IF bn.err # "ok" THEN bn
        ELSE IF bn.count < m.count \/ bn.digits * 2 > bn.count THEN Failed(bn, "EOVERFLOW")
        ELSE IF exp = 0 THEN bn_assign_digit(bn, 1)
        ELSE IF exp = 1 THEN bn
        ELSE IF exp = 2 THEN bn_mod_mult(bn, bn, m)
        ELSE IF exp = 3 THEN bn_mod_mult(bn, bn_mod_mult(Copy(bn), bn, m), m)
        ELSE IF bn.digits = 1 /\ bn.num[0] \in {0, 1} THEN bn
        ELSE Ret(s1.bn, s1.base, s1.bn)

bn_mod_exp(bn, exp, m) ==
    LET s1 == For(bn_calc_bits(exp), LAMBDA s, i : PowStep(s, bn_is_bit_set(exp, i), m),
                  [bn |-> bn_assign_digit(bn, 1), base |-> Copy(bn)])
        small == IF exp.digits = 1 THEN exp.num[0] ELSE 3
    IN  Ret(bn, exp,
            IF bn.count < m.count THEN Failed(bn, "EOVERFLOW")
            ELSE IF small = 0 THEN bn_assign_digit(bn, 1)
            ELSE IF small = 1 THEN bn
            ELSE IF small = 2 THEN bn_mod_mult(bn, bn, m)
            ELSE IF bn.digits * 2 > bn.count THEN Failed(bn, "EOVERFLOW")
            ELSE IF bn.digits = 1 /\ bn.num[0] \in {0, 1} THEN bn
            ELSE Ret(s1.bn, s1.base, s1.bn))

----------------------------------------------------------------------------
(* Inverses.  Each of them works in numbers of four digits more. *)
Wider(bn, m) == bn_init(Local, (4 + Larger(bn.digits, m.digits)) * BN_DIGIT_BITS)
NoInverse(bn, m) == bn_is_zero(bn) \/ bn_is_zero(m) \/ bn_cmp(bn, m) >= 0

(* Extended Euclid with a separate sign. *)
bn_mod_inv1(bn, m) ==
    LET w == Wider(bn, m)
        Step(s) ==
            LET d == bn_div(bn_assign(w, s.u3), s.v3, w) IN
            [u1 |-> s.v1, v1 |-> bn_add(s.u1, bn_mult(d.q, s.v1)),
             u3 |-> s.v3, v3 |-> d.r, sign |-> 0 - s.sign]
        s1 == While(LAMBDA s : Ok({s.u1, s.v1, s.v3}) /\ ~bn_is_zero(s.v3), Step,
                    [u1 |-> bn_assign_digit(w, 1), v1 |-> w, u3 |-> bn_assign(w, bn),
                     v3 |-> bn_assign(w, m), sign |-> 1])
    IN  IF bn.err # "ok" THEN bn
        ELSE IF NoInverse(bn, m) THEN Failed(bn, "EINVAL")
        ELSE Hand(bn, {s1.u1, s1.v1, s1.v3},
                  IF s1.sign < 0 THEN bn_sub(bn_assign(bn, m), s1.u1) ELSE bn_assign(bn, s1.u1))

(* Extended Euclid modulo m. *)
bn_mod_inv2(bn, m) ==
    LET w == Wider(bn, m)
        Step(s) ==
            LET d == bn_div(bn_assign(w, s.u), s.v, w) IN
            [u |-> s.v, v |-> d.r, d2 |-> s.d1,
             d1 |-> bn_mod_sub(bn_assign(w, s.d2), bn_mod_mult(d.q, s.d1, m), m)]
        s1 == While(LAMBDA s : Ok({s.v, s.d1}) /\ ~bn_is_zero(s.v), Step,
                    [u |-> bn_assign(w, m), v |-> bn, d1 |-> bn_assign_digit(w, 1), d2 |-> w])
    IN  IF bn.err # "ok" THEN bn
        ELSE IF NoInverse(bn, m) THEN Failed(bn, "EINVAL")
        ELSE Hand(bn, {s1.v, s1.d1}, bn_assign(bn, s1.d2))

(* The inverse that bn_mod_inv() stands for: halve and subtract. *)
Halve(s, m) ==
    While(LAMBDA t : t.x.err = "ok" /\ bn_is_even(t.u),
          LAMBDA t : [u |-> bn_r_shift(t.u, 1),
                      x |-> bn_r_shift(IF bn_is_even(t.x) THEN t.x ELSE bn_add(t.x, m), 1)], s)
bn_mod_inv_bin(bn, m) ==
    LET w == Wider(bn, m)
        Step(s) ==
            LET h == Halve([u |-> s.u, x |-> s.x1], m)
                g == Halve([u |-> s.v, x |-> s.x2], m)
            IN  IF bn_cmp(h.u, g.u) >= 0
                THEN [u |-> bn_mod_sub(h.u, g.u, m), x1 |-> bn_mod_sub(h.x, g.x, m), v |-> g.u, x2 |-> g.x]
                ELSE [u |-> h.u, x1 |-> h.x, v |-> bn_mod_sub(g.u, h.u, m), x2 |-> bn_mod_sub(g.x, h.x, m)]
        s1 == While(LAMBDA s : Ok({s.u, s.v, s.x1, s.x2}) /\ ~bn_is_one(s.u) /\ ~bn_is_one(s.v), Step,
                    [u |-> bn_assign(w, bn), v |-> bn_assign(w, m), x1 |-> bn_assign_digit(w, 1), x2 |-> w])
    IN  IF bn.err # "ok" THEN bn
        ELSE IF NoInverse(bn, m) THEN Failed(bn, "EINVAL")
        ELSE Hand(bn, {s1.u, s1.v, s1.x1, s1.x2}, bn_assign(bn, IF bn_is_one(s1.u) THEN s1.x1 ELSE s1.x2))
bn_mod_inv(bn, m) == bn_mod_inv_bin(bn, m)

(* bn / d: the pair (a, bn) and the pair (b, v) are brought down together. *)
bn_mod_div_mont(bn, d, m) ==
    LET w == Wider(bn, m)
        HalfOf(x) == bn_r_shift(IF bn_is_even(x) THEN x ELSE bn_add(x, m), 1)
        Diff(x, y) == bn_sub(IF bn_cmp(x, y) < 0 THEN bn_add(x, m) ELSE x, y)
        Step(s) ==
            IF bn_is_even(s.a) THEN [s EXCEPT !.a = bn_r_shift(s.a, 1), !.u = HalfOf(s.u)]
            ELSE IF bn_is_even(s.b) THEN [s EXCEPT !.b = bn_r_shift(s.b, 1), !.v = HalfOf(s.v)]
            ELSE IF bn_cmp(s.a, s.b) > 0
                 THEN [s EXCEPT !.a = bn_r_shift(bn_sub(s.a, s.b), 1), !.u = HalfOf(Diff(s.u, s.v))]
            ELSE [s EXCEPT !.b = bn_r_shift(bn_sub(s.b, s.a), 1), !.v = HalfOf(Diff(s.v, s.u))]
        s1 == While(LAMBDA s : Ok({s.a, s.b, s.u, s.v}) /\ bn_cmp(s.a, s.b) # 0, Step,
                    [a |-> bn_assign(w, d), b |-> bn_assign(w, m), u |-> bn, v |-> w])
    IN  Ret(bn, d, IF NoInverse(bn, m) THEN Failed(bn, "EINVAL")
                   ELSE Hand(bn, {s1.a, s1.b, s1.u, s1.v}, s1.u))
bn_mod_inv_mont(bn, m) ==
    LET tm == bn_init(Local, (1 + Larger(bn.digits, m.digits)) * BN_DIGIT_BITS) IN
    bn_assign(bn, bn_mod_div_mont(bn_assign_digit(tm, 1), bn, m))
bn_mod_div(bn, d, m) == bn_mod_mult(bn, bn_mod_inv(Copy(d), m), m)

(* (bn mod (m - 1)) + 1, for numbers that are not below m. *)
bn_mod_reduce(bn, m) ==
    IF bn.err # "ok" \/ bn_cmp(bn, m) < 0 THEN bn
    ELSE bn_add_digit(bn_mod(bn, bn_sub_digit(Copy(m), 1)), 1)
bn_mod_small(bn, m) ==
    While(LAMBDA x : x.err = "ok" /\ bn_cmp(x, m) > 0, LAMBDA x : bn_sub(x, m), bn)

----------------------------------------------------------------------------
(* Legendre symbol: -1, 0, 1; an error number is returned in its place. *)
Errno(e) == IF e = "EINVAL" THEN 22 ELSE 84
bn_mod_legendre(bn, m) ==
    LET a == bn_mod(Copy(bn), m)
        tm == bn_sub_digit(Copy(m), 1)
        p == bn_mod_exp(a, bn_r_shift(Copy(tm), 1), m)
    IN  IF ~bn_is_odd(m) THEN Errno("EINVAL")
        ELSE IF a.err # "ok" THEN Errno(a.err)
        ELSE IF bn_is_zero(a) THEN 0
        ELSE IF bn_is_one(a) THEN 1
        ELSE IF p.err # "ok" THEN Errno(p.err)
        ELSE IF bn_cmp(tm, p) = 0 THEN -1
        ELSE IF bn_is_zero(p) THEN 0 ELSE 1

(* The roots for m = 3 (mod 4), m = 5 (mod 8) and the rest (Tonelli-Shanks). *)
Root34(bn, m) == bn_mod_exp(bn, bn_r_shift(bn_add_digit(Copy(m), 1), 2), m)
Root58(bn, m) ==
    LET two == bn_mod_mult_digit(Copy(bn), 2, m)
        tm == bn_mod_exp(two, bn_r_shift(Copy(m), 3), m)
        tm2 == bn_sub_digit(bn_mod_mult(bn_mod_mult(two, tm, m), tm, m), 1)
    IN  bn_mod_mult(bn_mod_mult(bn, tm, m), tm2, m)

(* A number that is not a square: bn is mixed with m shifted right until one is found. *)
Twice(bn, m) == bn_init(Local, BN_DIGIT_BITS + Larger(bn.digits, m.digits) * 2 * BN_DIGIT_BITS)
NonResidue(bn, m) ==
    LET w == Twice(bn, m)
        Mix(s) == LET tm == bn_r_shift(s.tm, 1) IN
                  [b |-> bn_xor(s.b, tm), tm |-> tm, bits |-> s.bits - 1]
        start == [b |-> bn_assign(w, bn), tm |-> bn_assign(w, m), bits |-> bn_calc_bits(bn) + 1]
    IN  While(LAMBDA s : s.b.err = "ok" /\ bn_mod_legendre(s.b, m) # -1 /\ s.bits > 1, Mix, Mix(start))

RootShanks(bn, m) ==
    LET b0 == NonResidue(bn, m)
        m1 == bn_sub_digit(Copy(m), 1)
        k == bn_ctz(m1)
        w == Twice(bn, m)
        t == bn_div(bn_assign(w, m1), bn_assign_2exp(w, k), w).q
        inv == bn_mod_inv(Copy(bn), m)
        Step(s) ==
            LET x == bn_mod_exp(bn_mod_mult(bn_mod_square(s.bn, m), inv, m),
                                bn_assign_2exp(w, s.k - 2), m)
            IN  [bn |-> IF bn_cmp(x, m1) = 0 THEN bn_mod_mult(s.bn, s.b, m) ELSE s.bn,
                 b |-> bn_mod_square(s.b, m), k |-> s.k - 1]
        s1 == While(LAMBDA s : Ok({s.bn, s.b}) /\ s.k > 1, Step,
                    [bn |-> bn_mod_exp(bn, bn_r_shift(bn_add_digit(t, 1), 1), m),
                     b |-> bn_mod_exp(b0.b, t, m), k |-> k])
    IN  IF bn_mod_legendre(b0.b, m) # -1 THEN Failed(bn, "none") ELSE Ret(s1.bn, s1.b, s1.bn)

(* A root of bn modulo an odd prime; "none" when there is none. *)
bn_mod_sqrt(bn, m) ==
    LET a == bn_mod(bn, m)
        r == IF m.num[0] % 4 = 3 THEN Root34(a, m)
             ELSE IF m.num[0] % 8 = 5 THEN Root58(a, m) ELSE RootShanks(a, m)
    IN  IF bn.err # "ok" THEN bn
        ELSE IF ~bn_is_odd(m) THEN Failed(bn, "EINVAL")
        ELSE IF a.err # "ok" \/ bn_is_zero(a) \/ bn_is_one(a) THEN a
        ELSE IF bn_mod_legendre(a, m) = -1 THEN Failed(a, "none")
        ELSE IF r.err # "ok" THEN r
        ELSE IF bn_cmp(bn_mod_square(Copy(r), m), a) # 0 THEN Failed(r, "none") ELSE r
=============================================================================
