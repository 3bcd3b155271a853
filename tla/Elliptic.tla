------------------------------ MODULE Elliptic ------------------------------
(***************************************************************************)
(* Points of an elliptic curve over a prime field (elliptic_curve.h).      *)
(* Coordinates are the values the big numbers hold; that bn_mod_add() and  *)
(* the others compute those values is what BnMod is checked for.  A scalar *)
(* is turned back into digits where the code looks at digits.              *)
(***************************************************************************)
EXTENDS BnMod

CONSTANTS EC_PROJ_ADD_MIX,        \* tables hold affine points
          EC_PROJ_REPEAT_DOUBLE   \* ec_point_proj_dbl_n() has its own formula

VARIABLE curve   \* ec_curve_t: p, a, b, G, n, h, m, t, a_m3, algo, wnd_bits

p == curve.p
x ++ y == (x + y) % p
x -- y == ((IF x < y THEN x + p ELSE x) - y) % p
x ** y == (x * y) % p
Sq(x) == x ** x
Inv(x) == CHOOSE y \in 1..(p - 1) : x ** y = 1
Halved(x) == (IF x % 2 = 1 THEN x + p ELSE x) \div 2

(* A value as the big number that holds it. *)
Digits(v) == While(LAMBDA k : v >= Base^k, LAMBDA k : k + 1, 0)
Bn(v) == [err |-> "ok", count |-> BN_MAX_DIGITS, digits |-> Digits(v),
          num |-> [i \in Index |-> IF i < Digits(v) THEN (v \div Base^i) % Base ELSE junk]]
BitsOf(v) == bn_calc_bits(Bn(v))
Bit(v, i) == (v \div 2^i) % 2 = 1

----------------------------------------------------------------------------
ec_point_init == [x |-> 0, y |-> 0, inf |-> FALSE]
ec_point_proj_init == [x |-> 0, y |-> 0, z |-> 1]
AtInfinity(pt) == pt.z = 0
Infinite(pt) == [pt EXCEPT !.z = 0]

ec_point_is_eq(a, b) ==
    \/ a.inf /\ b.inf
    \/ ~a.inf /\ ~b.inf /\ a.x = b.x /\ a.y = b.y

ec_point_is_inverse(a, b) == a.x = b.x /\ p - a.y = b.y

ec_point_proj_import_affine(b) ==
    IF b.inf THEN [x |-> 0, y |-> 0, z |-> 0] ELSE [x |-> b.x, y |-> b.y, z |-> 1]

ec_point_proj_norm(pt) ==
    LET i == Inv(pt.z) IN
    IF AtInfinity(pt) \/ pt.z = 1 THEN pt
    ELSE [x |-> pt.x ** Sq(i), y |-> pt.y ** Sq(i) ** i, z |-> 1]

ec_point_proj_export_affine(a, b) ==
    LET n == ec_point_proj_norm(a) IN
    IF AtInfinity(a) THEN [b EXCEPT !.inf = TRUE] ELSE [x |-> n.x, y |-> n.y, inf |-> FALSE]

(* The slope's numerator with z2 = z^2. *)
Slope(x, z2) ==
    IF curve.a_m3 THEN (x -- z2) ** (z2 ++ x) ** 3
    ELSE Sq(x) ** 3 ++ curve.a ** Sq(z2)

(* ec_point_proj_add() of a point to itself. *)
ProjDouble(a) ==
    LET B == Slope(a.x, Sq(a.z))
        y2 == a.y ** 2
        C == a.x ** Sq(y2)
        X == Sq(B) -- C -- C
    IN  IF a.y = 0 THEN Infinite(a)
        ELSE [x |-> X, y |-> (C -- X) ** B -- Halved(Sq(Sq(y2))), z |-> a.z ** y2]

ec_point_proj_add(a, b) ==
    LET A == Sq(b.z) ** a.x
        B == Sq(b.z) ** b.z ** a.y
        C == Sq(a.z) ** b.x
        D_ == Sq(a.z) ** a.z ** b.y
        E == C -- A
        F == D_ -- B
        AE2 == Sq(E) ** A
        E3 == Sq(E) ** E
        X == Sq(F) -- E3 -- (AE2 ** 2)
    IN  IF AtInfinity(b) THEN a
        ELSE IF AtInfinity(a) THEN b
        ELSE IF A = C THEN (IF B = D_ THEN ProjDouble(a) ELSE Infinite(a))
        ELSE [x |-> X, y |-> ((AE2 -- X) ** F) -- (E3 ** B), z |-> E ** a.z ** b.z]

ec_point_proj_sub(a, b) == ec_point_proj_add(a, [b EXCEPT !.y = p -- b.y])

(* n doublings.  s: x, z, y = 2Y and c = Z^4 of the point so far. *)
ec_point_proj_dbl_n(pt, n) ==
    LET Step(s, i) ==
            LET A == IF curve.a_m3 THEN (Sq(s.x) -- s.c) ** 3
                     ELSE Sq(s.x) ** 3 ++ curve.a ** s.c
                B == s.x ** Sq(s.y)
                X == Sq(A) -- B -- B
                y4 == Sq(Sq(s.y))
            IN  [x |-> X, z |-> s.y ** s.z, c |-> IF i < n - 1 THEN s.c ** y4 ELSE s.c,
                 y |-> (A ** 2 ** (B -- X)) -- y4]
        r == For(n, Step, [x |-> pt.x, z |-> pt.z, y |-> pt.y ** 2, c |-> Sq(Sq(pt.z))])
    IN  IF ~EC_PROJ_REPEAT_DOUBLE THEN For(n, LAMBDA s, i : ec_point_proj_add(s, s), pt)
        ELSE IF pt.y = 0 THEN Infinite(pt)
        ELSE IF n = 0 \/ AtInfinity(pt) THEN pt
        ELSE [x |-> r.x, y |-> Halved(r.y), z |-> r.z]

(* Mutation: a point added to itself or to its opposite like to any other. *)
ec_point_proj_add_mix_NoDouble(a, b) ==
    LET T1 == (Sq(a.z) ** b.x) -- a.x
        T2 == (Sq(a.z) ** a.z ** b.y) -- a.y
        T3 == Sq(T1) ** a.x
        T4 == Sq(T1) ** T1
        X == Sq(T2) -- (T3 ** 2) -- T4
    IN  IF ~EC_PROJ_ADD_MIX THEN ec_point_proj_add(a, ec_point_proj_import_affine(b))
        ELSE IF b.inf THEN a
        ELSE IF AtInfinity(a) THEN ec_point_proj_import_affine(b)
        ELSE [x |-> X, y |-> ((T3 -- X) ** T2) -- (T4 ** a.y), z |-> T1 ** a.z]

(* a is projective, b affine. *)
ec_point_proj_add_mix(a, b) ==
    LET T1 == (Sq(a.z) ** b.x) -- a.x
        T2 == (Sq(a.z) ** a.z ** b.y) -- a.y
        T3 == Sq(T1) ** a.x
        T4 == Sq(T1) ** T1
        X == Sq(T2) -- (T3 ** 2) -- T4
    IN  IF ~EC_PROJ_ADD_MIX THEN ec_point_proj_add(a, ec_point_proj_import_affine(b))
        ELSE IF b.inf THEN a
        ELSE IF AtInfinity(a) THEN ec_point_proj_import_affine(b)
        ELSE IF T1 = 0 THEN (IF T2 = 0 THEN ec_point_proj_add(a, a) ELSE Infinite(a))
        ELSE [x |-> X, y |-> ((T3 -- X) ** T2) -- (T4 ** a.y), z |-> T1 ** a.z]

Opposite(b) == [b EXCEPT !.y = p -- b.y]
ec_point_proj_sub_mix(a, b) == ec_point_proj_add_mix(a, Opposite(b))

ec_point_proj_add_affine(a, b) ==
    ec_point_proj_export_affine(ec_point_proj_add_mix(ec_point_proj_import_affine(a), b), a)
ec_point_proj_sub_affine(a, b) ==
    ec_point_proj_export_affine(ec_point_proj_sub_mix(ec_point_proj_import_affine(a), b), a)

----------------------------------------------------------------------------
(* Affine arithmetic. *)

ec_point_affine_add(a, b) ==
    LET twice == a.x = b.x
        lam == IF twice
               THEN (IF curve.a_m3 THEN (Sq(a.x) ** 3) -- 3 ELSE (Sq(a.x) ** 3) ++ curve.a)
                    ** Inv(a.y ** 2)
               ELSE (b.y -- a.y) ** Inv(b.x -- a.x)
        X == Sq(lam) -- a.x -- b.x
    IN  IF b.inf THEN a
        ELSE IF a.inf THEN b
        ELSE IF twice /\ (a.y # b.y \/ a.y = 0) THEN [a EXCEPT !.inf = TRUE]
        ELSE [x |-> X, y |-> (lam ** (a.x -- X)) -- a.y, inf |-> FALSE]

ec_point_affine_sub(a, b) == ec_point_affine_add(a, Opposite(b))
ec_point_affine_dbl_n(pt, n) == For(n, LAMBDA s, i : ec_point_affine_add(s, s), pt)

----------------------------------------------------------------------------
(* Multiplication by a scalar, for either form of points. *)

(* Right to left: s.tm is the point doubled i times. *)
Binary(zero, pt, d, Plus(_, _)) ==
    For(BitsOf(d), LAMBDA s, i : [r |-> IF Bit(d, i) THEN Plus(s.r, s.tm) ELSE s.r,
                                tm |-> Plus(s.tm, s.tm)], [r |-> zero, tm |-> pt]).r

(* Window by window through the digits, the highest first. *)
Sliding(zero, t, d, DblN(_, _), Plus(_, _)) ==
    LET Window(s, i, j) ==
            LET w == (Bn(d).num[i] \div 2^(j * t.wnd_bits)) % 2^t.wnd_bits
                dbl == DblN(s, t.wnd_bits)
            IN  IF w = 0 THEN dbl ELSE Plus(dbl, t.add[w])
    IN  ForDown(Digits(d),
                LAMBDA s, i : ForDown(BN_DIGIT_BITS \div t.wnd_bits,
                                      LAMBDA r, j : Window(r, i, j), s), zero)

Column(d, off, t) == bn_combo_column_get(Bn(d), off, t.wnd_bits, t.wnd_count)
FromTable(s, tbl, w, Plus(_, _)) == IF w = 0 THEN s ELSE Plus(s, tbl[w])

Comb1(zero, t, d, Plus(_, _)) ==
    LET low == (t.wnd_bits - 1) * t.wnd_count IN
    ForDown(t.wnd_count,
            LAMBDA s, i : FromTable(Plus(s, s), t.add, Column(d, low + i, t), Plus), zero)

Comb2(zero, t, d, Plus(_, _)) ==
    LET low == (t.wnd_bits - 1) * t.wnd_count
        Step(s, i) ==
            LET r == FromTable(Plus(s, s), t.add, Column(d, low + i, t), Plus) IN
            IF i + t.e_count >= t.wnd_count THEN r
            ELSE FromTable(r, t.dbl, Column(d, low + i + t.e_count, t), Plus)
    IN  ForDown(t.e_count, Step, zero)

(* Table of the combs: item 2^i stands for the bit of row i. *)
CombTable(pt, w, n, DblN(_, _), Plus(_, _)) ==
    For(w - 1, LAMBDA s, k : LET top == DblN(s[2^k], n) IN
                             s \o <<top>> \o [j \in 1..(2^(k + 1) - 1) |-> Plus(s[j], top)],
        <<pt>>)
Rounded(a, b) == (a \div b) + (IF a % b # 0 THEN 1 ELSE 0)
NoWindows == [wnd_bits |-> 0]

(* What every method does before it looks at its table. *)
Through(zero, t, d, Orig(_), Method(_, _)) ==
    IF t.wnd_bits # 0 /\ d = 1 THEN Orig(t.add[1])
    ELSE IF d = 0 \/ t.wnd_bits = 0 THEN zero
    ELSE Method(t, d)
TooLong(d) == Digits(d) * BN_DIGIT_BITS > curve.m

----------------------------------------------------------------------------
(* Projective methods.  A table item is an affine point or a normalised    *)
(* projective one, by the build.                                           *)

ProjZero == Infinite(ec_point_proj_init)
First(pt) == IF EC_PROJ_ADD_MIX THEN pt ELSE ec_point_proj_import_affine(pt)
Keep(s) == IF EC_PROJ_ADD_MIX THEN ec_point_proj_export_affine(s, ec_point_init)
           ELSE ec_point_proj_norm(s)
Take(e) == IF EC_PROJ_ADD_MIX THEN ec_point_proj_import_affine(e) ELSE e
PlusItem(s, e) == IF EC_PROJ_ADD_MIX THEN ec_point_proj_add_mix(s, e) ELSE ec_point_proj_add(s, e)
MinusItem(s, e) == IF EC_PROJ_ADD_MIX THEN ec_point_proj_sub_mix(s, e) ELSE ec_point_proj_sub(s, e)

ec_point_proj_bin_mult(pt, d) ==
    IF d = 0 THEN Infinite(pt)
    ELSE IF d = 1 \/ AtInfinity(pt) THEN pt
    ELSE Binary(Infinite(pt), pt, d, ec_point_proj_add)

ec_point_proj_fpx_pre_dbl_mult_precompute_affine(pt) ==
    IF pt.inf THEN <<First(pt)>>
    ELSE For(curve.m - 1, LAMBDA s, i : Append(s, Keep(ec_point_proj_add(Take(s[i + 1]), Take(s[i + 1])))),
             <<First(pt)>>)
ec_point_proj_fpx_pre_dbl_mult(tbl, d) ==
    IF d = 1 THEN Take(tbl[1])
    ELSE IF d = 0 \/ AtInfinity(Take(tbl[1])) THEN ProjZero
    ELSE For(BitsOf(d), LAMBDA s, i : IF Bit(d, i) THEN PlusItem(s, tbl[i + 1]) ELSE s, ProjZero)

ec_point_proj_fpx_sl_win_mult_precompute_affine(w, pt) ==
    IF pt.inf THEN NoWindows
    ELSE [wnd_bits |-> w,
          add |-> For(2^w - 2, LAMBDA s, i : Append(s, Keep(PlusItem(Take(s[i + 1]), First(pt)))),
                      <<First(pt)>>)]
ec_point_proj_fpx_sl_win_mult(t, d) ==
    Through(ProjZero, t, d, Take,
            LAMBDA u, v : Sliding(ProjZero, u, v, ec_point_proj_dbl_n, PlusItem))

ec_point_proj_fpx_comb1t_mult_precompute_affine(w, pt) ==
    LET n == Rounded(curve.m, w)
        Dbl(e, k) == Keep(ec_point_proj_dbl_n(Take(e), k))
        Plus(e, f) == Keep(PlusItem(Take(e), f))
    IN  IF pt.inf THEN NoWindows
        ELSE [wnd_bits |-> w, wnd_count |-> n, add |-> CombTable(First(pt), w, n, Dbl, Plus)]
(* Plus of the combs also doubles the running point. *)
ProjPlus(s, e) == IF s = e THEN ec_point_proj_add(s, s) ELSE PlusItem(s, e)
ec_point_proj_fpx_comb1t_mult(t, d) ==
    Through(ProjZero, t, d, Take,
            LAMBDA u, v : IF TooLong(v) THEN ec_point_proj_bin_mult(Take(u.add[1]), v)
                          ELSE Comb1(ProjZero, u, v, ProjPlus))

ec_point_proj_fpx_comb2t_mult_precompute_affine(w, pt) ==
    LET t == ec_point_proj_fpx_comb1t_mult_precompute_affine(w, pt)
        e == Rounded(t.wnd_count, 2)
    IN  IF t.wnd_bits = 0 THEN t
        ELSE t @@ [e_count |-> e,
                   dbl |-> [i \in DOMAIN t.add |-> Keep(ec_point_proj_dbl_n(Take(t.add[i]), e))]]
ec_point_proj_fpx_comb2t_mult(t, d) ==
    Through(ProjZero, t, d, Take,
            LAMBDA u, v : IF TooLong(v) THEN ec_point_proj_bin_mult(Take(u.add[1]), v)
                          ELSE Comb2(ProjZero, u, v, ProjPlus))

Affine(s, res) == ec_point_proj_export_affine(s, res)
ec_point_proj_bin_mult_affine(pt, d) ==
    Affine(ec_point_proj_bin_mult(ec_point_proj_import_affine(pt), d), pt)

(* The default methods: two tables for the base point, one for others. *)
ec_point_proj_fpx_mult_affine(pt, t, d) == Affine(ec_point_proj_fpx_comb2t_mult(t, d), pt)
ec_point_proj_unkpt_mult_affine(pt, t, d) == Affine(ec_point_proj_fpx_comb1t_mult(t, d), pt)

----------------------------------------------------------------------------
(* Affine methods. *)

AffZero(pt) == [pt EXCEPT !.inf = TRUE]
ec_point_affine_bin_mult(pt, d) ==
    IF pt.inf THEN pt
    ELSE IF d = 0 THEN AffZero(pt)
    ELSE IF d = 1 THEN pt
    ELSE Binary(AffZero(pt), pt, d, ec_point_affine_add)

(* Written for a table that ec_point_affine_add() filled. *)
ec_point_affine_fpx_pre_dbl_mult(pt, tbl, d) ==
    IF d = 1 THEN tbl[1]
    ELSE IF d = 0 \/ tbl[1].inf THEN AffZero(pt)
    ELSE For(BitsOf(d), LAMBDA s, i : IF Bit(d, i) THEN ec_point_affine_add(s, tbl[i + 1]) ELSE s,
             AffZero(pt))

ec_point_affine_fpx_sl_win_mult_precompute(w, pt) ==
    IF pt.inf THEN NoWindows
    ELSE [wnd_bits |-> w,
          add |-> For(2^w - 2, LAMBDA s, i : Append(s, ec_point_affine_add(pt, s[i + 1])), <<pt>>)]
ec_point_affine_fpx_sl_win_mult(pt, t, d) ==
    Through(AffZero(pt), t, d, LAMBDA e : e,
            LAMBDA u, v : Sliding(AffZero(pt), u, v, ec_point_affine_dbl_n, ec_point_affine_add))

ec_point_affine_fpx_comb1t_mult_precompute(w, pt) ==
    LET n == Rounded(curve.m, w) IN
    IF pt.inf THEN NoWindows
    ELSE [wnd_bits |-> w, wnd_count |-> n,
          add |-> CombTable(pt, w, n, ec_point_affine_dbl_n, ec_point_affine_add)]
ec_point_affine_fpx_comb1t_mult(pt, t, d) ==
    Through(AffZero(pt), t, d, LAMBDA e : e,
            LAMBDA u, v : IF TooLong(v) THEN ec_point_affine_bin_mult(u.add[1], v)
                          ELSE Comb1(AffZero(pt), u, v, ec_point_affine_add))

ec_point_affine_fpx_comb2t_mult_precompute(w, pt) ==
    LET t == ec_point_affine_fpx_comb1t_mult_precompute(w, pt)
        e == Rounded(t.wnd_count, 2)
    IN  IF t.wnd_bits = 0 THEN t
        ELSE t @@ [e_count |-> e,
                   dbl |-> [i \in DOMAIN t.add |-> ec_point_affine_dbl_n(t.add[i], e)]]
ec_point_affine_fpx_comb2t_mult(pt, t, d) ==
    Through(AffZero(pt), t, d, LAMBDA e : e,
            LAMBDA u, v : IF TooLong(v) THEN ec_point_affine_bin_mult(u.add[1], v)
                          ELSE Comb2(AffZero(pt), u, v, ec_point_affine_add))

----------------------------------------------------------------------------
(* a * ad + b * bd *)

ec_point_proj_bin_twin_mult_affine(a, ad, b, bd) ==
    Affine(ec_point_proj_add(ec_point_proj_bin_mult(ec_point_proj_import_affine(a), ad),
                             ec_point_proj_bin_mult(ec_point_proj_import_affine(b), bd)),
           ec_point_init)
ec_point_proj_fpx_unkpt_twin_mult_bp_affine(Gd, b, bd, wG, wB) ==
    Affine(ec_point_proj_add(
               ec_point_proj_fpx_comb2t_mult(ec_point_proj_fpx_comb2t_mult_precompute_affine(wG, curve.G), Gd),
               ec_point_proj_fpx_comb1t_mult(ec_point_proj_fpx_comb1t_mult_precompute_affine(wB, b), bd)),
           ec_point_init)
ec_point_affine_bin_twin_mult(a, ad, b, bd) ==
    ec_point_affine_add(ec_point_affine_bin_mult(a, ad), ec_point_affine_bin_mult(b, bd))
ec_point_affine_fpx_unkpt_twin_mult_bp(Gd, b, bd, wG, wB) ==
    ec_point_affine_add(
        ec_point_affine_fpx_comb2t_mult(ec_point_init, ec_point_affine_fpx_comb2t_mult_precompute(wG, curve.G), Gd),
        ec_point_affine_fpx_comb1t_mult(ec_point_init, ec_point_affine_fpx_comb1t_mult_precompute(wB, b), bd))

(* The table of the joint form: b, a, a + b, a - b. *)
Joint(zero, tbl, ad, bd, Plus(_, _), Minus(_, _)) ==
    LET j == bn_calc_jsf(Bn(ad), Bn(bd), 2 * BN_MAX_DIGITS * BN_DIGIT_BITS)
        Step(s, i) ==
            LET u == j.a[i + 1]  v == j.b[i + 1]
                k == IF u # 0 /\ u = 0 - v THEN (IF u < 0 THEN -4 ELSE 4) ELSE 2 * u + v
                t == Plus(s, s)
            IN  IF k = 0 THEN t ELSE IF k < 0 THEN Minus(t, tbl[0 - k]) ELSE Plus(t, tbl[k])
    IN  ForDown(Len(j.a), Step, zero)

ec_point_proj_joint_twin_mult_affine(a, ad, b, bd) ==
    LET A == ec_point_proj_import_affine(a)
        tbl == <<First(b), First(a), Keep(PlusItem(A, First(b))), Keep(MinusItem(A, First(b)))>>
    IN  Affine(Joint(ProjZero, tbl, ad, bd, ProjPlus, MinusItem), ec_point_init)

ec_point_affine_joint_twin_mult(a, ad, b, bd) ==
    Joint(AffZero(ec_point_init), <<b, a, ec_point_affine_add(a, b), ec_point_affine_sub(a, b)>>,
          ad, bd, ec_point_affine_add, ec_point_affine_sub)

(* P, 3P, 5P ... *)
ec_point_proj_inter_twin_mult_precalc_affine(pt, w) ==
    LET two == Keep(ec_point_proj_add(ec_point_proj_import_affine(pt), ec_point_proj_import_affine(pt))) IN
    For(2^(w - 2) - 1, LAMBDA s, i : Append(s, Keep(PlusItem(Take(s[i + 1]), two))), <<First(pt)>>)

EP_WIDTH == 4
ec_point_proj_inter_twin_mult_affine(a, ad, b, bd) ==
    LET size == BN_MAX_DIGITS * BN_DIGIT_BITS
        n0 == bn_calc_naf(Bn(ad), EP_WIDTH, size).a
        n1 == bn_calc_naf(Bn(bd), EP_WIDTH, size).a
        t0 == ec_point_proj_inter_twin_mult_precalc_affine(a, EP_WIDTH)
        t1 == ec_point_proj_inter_twin_mult_precalc_affine(b, EP_WIDTH)
        By(s, n, t, i) ==
            LET k == IF i < Len(n) THEN n[i + 1] ELSE 0 IN
            IF k = 0 THEN s ELSE IF k > 0 THEN PlusItem(s, t[1 + k \div 2])
            ELSE MinusItem(s, t[1 + (0 - k) \div 2])
    IN  Affine(ForDown(Larger(Len(n0), Len(n1)),
                       LAMBDA s, i : By(By(ec_point_proj_add(s, s), n0, t0, i), n1, t1, i), ProjZero),
               ec_point_init)

----------------------------------------------------------------------------
(* The calls the rest of the library makes, with the projective build and  *)
(* the default methods.                                                    *)

EC_PF_UNKPT_MULT_WIN_BITS == 2
ec_point_unknown_pt_mult(pt, d) ==
    ec_point_proj_unkpt_mult_affine(
        pt, ec_point_proj_fpx_comb1t_mult_precompute_affine(EC_PF_UNKPT_MULT_WIN_BITS, pt), d)
(* curve->G_fpx_mult_data *)
BaseTable == ec_point_proj_fpx_comb2t_mult_precompute_affine(curve.wnd_bits, curve.G)
ec_point_mult_bp(d) == ec_point_proj_fpx_mult_affine(ec_point_init, BaseTable, d)
ec_point_twin_mult_bp(Gd, b, bd) == ec_point_proj_joint_twin_mult_affine(curve.G, Gd, b, bd)

Right(x) == LET cb == (x ** x ** x) ++ curve.b IN
            IF curve.a_m3 THEN cb -- (x ** 3) ELSE cb ++ (curve.a ** x)
ec_point_check_affine(pt) ==
    IF pt.x >= p \/ pt.y >= p \/ Sq(pt.y) # Right(pt.x) THEN "invalid" ELSE "ok"
ec_point_check_scalar_mult(pt) ==
    IF ec_point_unknown_pt_mult(pt, curve.n).inf THEN "ok" ELSE "invalid"
ec_point_check_as_pub_key(pt) ==
    IF ec_point_check_affine(pt) # "ok" THEN "invalid" ELSE ec_point_check_scalar_mult(pt)

Value(bn) == For(bn.digits, LAMBDA v, i : v + bn.num[i] * Base^i, 0)
(* y_is_odd: 0, 1, or 2 to find out. *)
ec_point_restore_y_by_x(y_is_odd, pt) ==
    LET root == bn_mod_sqrt(Bn(Right(pt.x)), Bn(p))
        r == Value(root)
        same == [pt EXCEPT !.y = r]
        other == [pt EXCEPT !.y = p -- r]
        Checked(q) == [err |-> ec_point_check_as_pub_key(q), pt |-> q]
    IN  IF root.err # "ok" THEN [err |-> root.err, pt |-> pt]
        ELSE IF y_is_odd = 2 /\ ec_point_check_as_pub_key(same) # "ok" THEN Checked(other)
        ELSE IF y_is_odd = 2 \/ y_is_odd = r % 2 THEN Checked(same)
        ELSE Checked(other)

(* bn_sqrt() of p as the build's bn_sqrt1() computes it. *)
RootP == Value(bn_sqrt1(Bn(p)))
ec_curve_validate ==
    LET b27 == Sq(curve.b) ** 27
        disc == IF curve.a_m3 THEN b27 -- 108
                ELSE b27 ++ (curve.a ** curve.a ** curve.a ** 4)
        Pow(k) == For(k, LAMBDA v, i : (v * p) % curve.n, 1)
    IN  IF \/ curve.a_m3 /\ p - 3 # curve.a
           \/ p <= curve.a \/ p <= curve.b
           \/ disc = 0
           \/ ec_point_check_affine(curve.G) # "ok"
           \/ curve.n <= RootP * 4
           \/ curve.m > 160 /\ curve.n <= 2^160
           \/ curve.h > 2^(curve.t \div 8)
           \/ ec_point_check_scalar_mult(curve.G) # "ok"
           \/ curve.n = p
           \/ \E k \in 1..99 : Pow(k) = 1
        THEN "invalid" ELSE "ok"
=============================================================================
