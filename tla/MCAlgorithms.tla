--------------------------- MODULE MCAlgorithms ----------------------------
(***************************************************************************)
(* The algorithms of the library against reference definitions, on scaled  *)
(* words: big numbers (digits of four bits), elliptic curves and           *)
(* signatures (three curves over fields of eight bits), digests, ciphers,  *)
(* RADIUS packets and DHCP options.  A step takes a case, the next one     *)
(* checks it and puts it back.  What memory holds that was never written   *)
(* (junk) and the curve are chosen once.                                   *)
(***************************************************************************)
EXTENDS Ecdsa

CONSTANTS Fill,         \* what uninitialised digits may hold
          NONE          \* no size, in the table of the DHCP options

VARIABLE c              \* the case at hand
vars == <<junk, curve, c>>

Idle == [op |-> "idle"]

-----------------------------------------------------------------------------
(* Big numbers. *)

\* The number v in room digits; what lies above the used digits is junk.
Num(room, v) ==
    LET used == {k \in 0 .. room - 1 : v >= Base^k}
    IN  [err |-> "ok", count |-> room, digits |-> Cardinality(used),
         num |-> [k \in Index |-> IF k \in used THEN (v \div Base^k) % Base ELSE junk]]

Is(r, v) == /\ r.err = "ok" /\ Value(r) = v
            /\ r.digits = 0 \/ r.num[r.digits - 1] # 0
OkIs(r, v) == r.err = "ok" => Is(r, v)

Operands == {x + y * Base + z * Base * Base : x \in {0, 1, 6, 15}, y \in {0, 7, 8}, z \in {0, 1, 15}}
Rooms == {3, 5}

\* What is left of v above its lowest n digits.
Above(v, n) == v - (v % Base^n)

\* bn_and() clears the digit after the last of the shorter operand and keeps
\* those of the first operand above it; bn_is_bit_set() reads the lowest digit
\* of 0, which is not there.
BitwiseRight(a, b, x, y) ==
    /\ OkIs(bn_or(a, b), x | y) /\ OkIs(bn_xor(a, b), x ^^ y)
    /\ OkIs(bn_and(a, b), (x & y) + Above(x, b.digits + 1))
    /\ \A k \in {0, 3, 4, 7, 11} :
          /\ OkIs(bn_bit_set(a, k, 1), x | (2^k))
          /\ OkIs(bn_bit_set(a, k, 0), IF (x \div 2^k) % 2 = 1 THEN x - 2^k ELSE x)
          /\ x > 0 \/ k >= BN_DIGIT_BITS => (bn_is_bit_set(a, k) <=> (x \div 2^k) % 2 = 1)
    /\ \A k \in {1, 4} : OkIs(bn_l_shift(a, k), (x * 2^k) % Base^a.count)
    /\ \A k \in {0, 1, 4, 7, 15} : OkIs(bn_r_shift(a, k), x \div 2^k)

\* Exported and imported again, into a new number and into b.  The binary
\* imports keep the digits of b above the imported ones.
ConvertedRight(a, b, x, y) ==
    LET room == bn_init(Local, 6 * BN_DIGIT_BITS)
        be == bn_export_be_bin(a, TRUE, 12)
        le == bn_export_le_bin(a, FALSE, 12)
        bh == bn_export_be_hex(a, FALSE, 24)
        lh == bn_export_le_hex(a, TRUE, 24)
        short == bn_export_le_bin(a, TRUE, 12)
        Kept(buf) == Above(y, (Len(buf) + BN_DIGIT_SIZE - 1) \div BN_DIGIT_SIZE)
    IN  /\ be.err = "ok" /\ OkIs(bn_import_be_bin(room, be.buf), x)
        /\ le.err = "ok" /\ Is(bn_import_le_bin(room, le.buf), x)
        /\ bh.err = "ok" /\ Is(bn_import_be_hex(room, bh.buf), x)
        /\ lh.err = "ok" /\ Is(bn_import_le_hex(room, lh.buf), x)
        /\ OkIs(bn_import_be_bin(b, be.buf), x + Kept(be.buf))
        /\ OkIs(bn_import_le_bin(b, short.buf), x + Kept(short.buf))
        /\ OkIs(bn_import_be_hex(b, bh.buf), x) /\ OkIs(bn_import_le_hex(b, lh.buf), x)

\* The number a recoding stands for.
Recoding(q) == FoldLeft(LAMBDA v, d : 2 * v + d, 0, Reverse(q))

Pow(x, e) == For(e, LAMBDA v, k : v * x, 1)
BitLen(x) == Cardinality({k \in 0 .. 20 : 2^k <= x})
RootRight(r, x) == r.err = "ok" => Value(r)^2 <= x /\ x < (Value(r) + 1)^2

Gcd(x, y) == IF x = 0 THEN y ELSE IF y = 0 THEN x
             ELSE Max({k \in 1 .. Smaller(x, y) : x % k = 0 /\ y % k = 0})

\* The roots and the joint sparse form are for numbers above 0: the code reads
\* a digit of 0 that is not there.  The first two roots start at the highest
\* bit, which is a power of 4 only for an even number of bits.
ArithmeticRight(a, b, x, y) ==
    LET full == Base^a.count
        q == bn_div(a, b, a)
    IN  /\ OkIs(bn_add(a, b), (x + y) % full) /\ OkIs(bn_sub(a, b), (x - y) % full)
        /\ OkIs(bn_mult(a, b), x * y) /\ OkIs(bn_square(a), x * x)
        /\ y # 0 => OkIs(q.q, x \div y) /\ OkIs(q.r, x % y)
        /\ bn_cmp(a, b) = (IF x > y THEN 1 ELSE IF x < y THEN -1 ELSE 0)
        /\ bn_is_equal(a, b) = (x = y) /\ bn_is_pow2(a) = (\E k \in 0 .. 11 : x = 2^k)
        /\ \A e \in 0 .. 5 : OkIs(bn_exp_digit(a, e), Pow(x, e))
        /\ BitwiseRight(a, b, x, y)
        /\ ConvertedRight(a, b, x, y)
        /\ x > 0 => RootRight(bn_sqrt3(a), x) /\ RootRight(bn_sqrt5(a), x)
        /\ x > 0 /\ BitLen(x) % 2 = 0 => RootRight(bn_sqrt1(a), x) /\ RootRight(bn_sqrt2(a), x)
        /\ y \in {0, 1, 15, 128} => /\ OkIs(bn_gcd(Local, a, b), Gcd(x, y))
                                    /\ OkIs(bn_gcd_bin(Local, a, b), Gcd(x, y))
        /\ x > 0 /\ y > 0 => LET j == bn_calc_jsf(a, b, 100)
                             IN  Recoding(j.a) = x /\ Recoding(j.b) = y
        /\ Recoding(bn_calc_naf(a, 3, 100).a) = x

Primes == {7, 97, 101, 113}
Power(x, e, m) == For(e, LAMBDA y, k : (y * x) % m, 1)
InverseRight(r, x, m) == r.err = "ok" /\ (Value(r) * x) % m = 1 /\ Value(r) < m

\* bn_mod_small() gives m for m; bn_mod_sqrt() may give up, with an error,
\* only for moduli of the form 8 * k + 1.
ResidueRight(a, m, x, q) ==
    LET root == bn_mod_sqrt(a, m)
        squares == {(k * k) % q : k \in 1 .. q - 1}
    IN  /\ \A y \in {0, 1, 5, q - 1} :
              /\ Is(bn_mod_add(a, Num(5, y), m), (x + y) % q)
              /\ Is(bn_mod_sub(a, Num(5, y), m), (x - y) % q)
              /\ Is(bn_mod_mult(a, Num(5, y), m), (x * y) % q)
        /\ \A y \in {1, 5} : LET d == bn_mod_div(a, Num(5, y), m)
                            IN  d.err = "ok" /\ (Value(d) * y) % q = x
        /\ Is(bn_mod_reduce(Num(5, x + q), m), ((x + q) % (q - 1)) + 1)
        /\ Is(bn_mod_small(Num(5, x + q), m), IF x = 0 THEN q ELSE x)
        /\ \A e \in {1, 2, 7, 30} : /\ Is(bn_mod_exp(a, Num(5, e), m), Power(x, e, q))
                                    /\ e < Base => Is(bn_mod_exp_digit(a, e, m), Power(x, e, q))
        /\ x > 0 => /\ InverseRight(bn_mod_inv1(a, m), x, q) /\ InverseRight(bn_mod_inv2(a, m), x, q)
                    /\ InverseRight(bn_mod_inv_bin(a, m), x, q) /\ InverseRight(bn_mod_inv_mont(a, m), x, q)
        /\ bn_mod_legendre(a, m) = (IF x = 0 THEN 0 ELSE IF x \in squares THEN 1 ELSE -1)
        /\ x \in squares => \/ root.err = "ok" /\ (Value(root) * Value(root)) % q = x
                            \/ root.err # "ok" /\ q % 8 = 1

-----------------------------------------------------------------------------
(* Curves: of prime order, of order 2 * 103, with a = -3 and without. *)

Point(x, y) == [x |-> x, y |-> y, inf |-> FALSE]
Curve(q, a, b, order, cofactor, m3, kind, base) ==
    [p |-> q, a |-> a, b |-> b, G |-> base, n |-> order, h |-> cofactor, m |-> 8, t |-> 8,
     a_m3 |-> m3, algo |-> kind, wnd_bits |-> 2]
FirstCurve == Curve(191, 2, 27, 181, 1, FALSE, "ECDSA", Point(1, 52))
Curves == {FirstCurve, Curve(239, 236, 28, 227, 1, TRUE, "GOST", Point(2, 35)),
           Curve(191, 188, 3, 103, 2, TRUE, "ECDSA", Point(189, 190))}

\* The group law as the textbook has it, and the k-fold of the base point.
Sum(a, b) ==
    LET slope == IF a = b THEN (3 * Sq(a.x) + curve.a) ** Inv(2 ** a.y)
                          ELSE (b.y -- a.y) ** Inv(b.x -- a.x)
        x == (Sq(slope) -- a.x) -- b.x
    IN  IF a.inf THEN b ELSE IF b.inf THEN a
        ELSE IF a.x = b.x /\ a.y ++ b.y = 0 THEN AffZero(a)
        ELSE Point(x, (slope ** (a.x -- x)) -- a.y)
Multiple(k) == For(k, LAMBDA pt, i : Sum(pt, curve.G), AffZero(curve.G))

Eq(a, b) == ec_point_is_eq(a, b)
MultiplesRight(k) ==
    LET base == curve.G
        kG == Multiple(k)
        sum == Multiple(k + 3)
        G3 == Multiple(3)
        Doubled == For(7, LAMBDA t, i : Append(t, ec_point_affine_add(Last(t), Last(t))), <<base>>)
        Ways(d, R, w) ==
          /\ Eq(Affine(ec_point_proj_fpx_sl_win_mult(
                 ec_point_proj_fpx_sl_win_mult_precompute_affine(w, base), d), base), R)
          /\ Eq(Affine(ec_point_proj_fpx_comb1t_mult(
                 ec_point_proj_fpx_comb1t_mult_precompute_affine(w, base), d), base), R)
          /\ Eq(Affine(ec_point_proj_fpx_comb2t_mult(
                 ec_point_proj_fpx_comb2t_mult_precompute_affine(w, base), d), base), R)
          /\ Eq(ec_point_affine_fpx_sl_win_mult(base, ec_point_affine_fpx_sl_win_mult_precompute(w, base), d), R)
          /\ Eq(ec_point_affine_fpx_comb1t_mult(base, ec_point_affine_fpx_comb1t_mult_precompute(w, base), d), R)
          /\ Eq(ec_point_affine_fpx_comb2t_mult(base, ec_point_affine_fpx_comb2t_mult_precompute(w, base), d), R)
        Right1(d, R) ==
          /\ Eq(ec_point_proj_bin_mult_affine(base, d), R) /\ Eq(ec_point_affine_bin_mult(base, d), R)
          /\ Eq(Affine(ec_point_proj_fpx_pre_dbl_mult(
                 ec_point_proj_fpx_pre_dbl_mult_precompute_affine(base), d), base), R)
          /\ Eq(ec_point_affine_fpx_pre_dbl_mult(base, Doubled, d), R)
          /\ \A w \in {1, 2} : Ways(d, R, w)
        Right2(d, S) ==
          /\ Eq(ec_point_proj_bin_twin_mult_affine(base, d, base, 3), S)
          /\ Eq(ec_point_affine_bin_twin_mult(base, d, base, 3), S)
          /\ Eq(ec_point_proj_joint_twin_mult_affine(base, d, G3, 1), S)
          /\ Eq(ec_point_affine_joint_twin_mult(base, d, base, 3), S)
          /\ Eq(ec_point_proj_inter_twin_mult_affine(base, d, base, 3), S)
          /\ Eq(ec_point_affine_fpx_unkpt_twin_mult_bp(d, base, 3, 2, 2), S)
          /\ Eq(ec_point_proj_fpx_unkpt_twin_mult_bp_affine(d, base, 3, 2, 2), S)
    IN  /\ ec_curve_validate = "ok"
        /\ Eq(ec_point_proj_add_affine(kG, G3), sum) /\ Eq(ec_point_proj_sub_affine(sum, G3), kG)
        /\ k > 0 => ec_point_is_inverse(kG, Opposite(kG))
        /\ Right1(k, kG) /\ Right1(curve.n - k, Opposite(kG))
        /\ k > 0 => Right2(k, sum)

-----------------------------------------------------------------------------
(* Signatures.  Buffers are of four bytes of two bits. *)

Bytes4(v) == [i \in 1 .. 4 |-> (v \div 4^(4 - i)) % 4]
Hex8(v) == [i \in 1 .. 8 |-> (v \div 2^(8 - i)) % 2]
Text(cv) == [name |-> "toy", p |-> Hex8(cv.p), a |-> Hex8(cv.a), b |-> Hex8(cv.b), n |-> Hex8(cv.n),
             Gx |-> Hex8(cv.G.x), Gy |-> Hex8(cv.G.y), h |-> cv.h, m |-> cv.m, t |-> cv.t,
             a_m3 |-> cv.a_m3, algo |-> cv.algo, num_size |-> 8]

SignatureRight(key, rnd, hash) ==
    LET Be(compress, sep) ==
          LET g == ecdsa_key_gen_be(key, compress, TRUE)
              s == ecdsa_sign_be(hash, g.priv, rnd)
              pub == ecdsa_recover_pub_key_from_priv_key_be(g.priv, compress, sep)
          IN  g.err = "ok" /\ s.err = "ok" =>
                /\ ecdsa_verify_be(hash, s, pub) = "ok"
                /\ ecdsa_verify_priv_key_be(hash, s, g.priv) = "ok"
                /\ pub.err = "ok" /\ (sep => pub = g.pub)
        Le(compress, sep) ==
          LET g == ecdsa_key_gen_le(key, compress, TRUE)
              s == ecdsa_sign_le(hash, g.priv, rnd)
              pub == ecdsa_recover_pub_key_from_priv_key_le(g.priv, compress, sep)
          IN  g.err = "ok" /\ s.err = "ok" =>
                /\ ecdsa_verify_le(hash, s, pub) = "ok"
                /\ ecdsa_verify_priv_key_le(hash, s, g.priv) = "ok"
                /\ pub.err = "ok" /\ (sep => pub = g.pub)
        one == ecdsa_key_gen_be(key, TRUE, TRUE)
        two == ecdsa_key_gen_be(rnd, FALSE, TRUE)
        Shared(cofactor) == ecdsa_dh_be(cofactor, one.pub, two.priv)
        leOne == ecdsa_key_gen_le(key, TRUE, TRUE)
        leTwo == ecdsa_key_gen_le(rnd, FALSE, TRUE)
        leShared(cofactor) == ecdsa_dh_le(cofactor, leOne.pub, leTwo.priv)
        be == ecdsa_pub_key_import_be(one.pub, ec_point_init)
        le == ecdsa_pub_key_import_le(leOne.pub, ec_point_init)
    IN  /\ ecdsa_curve_from_str(ecdsa_curve_str_get_by_name({Text(curve)}, "toy"), 2) = curve
        /\ one.err = "ok"
        /\ Be(TRUE, TRUE) /\ Be(FALSE, TRUE) /\ Be(FALSE, FALSE) /\ Le(TRUE, TRUE) /\ Le(FALSE, FALSE)
        /\ two.err = "ok" => \A cofactor \in BOOLEAN :
              Shared(cofactor).err = "ok" /\ Shared(cofactor) = ecdsa_dh_be(cofactor, two.pub, one.priv)
        /\ leOne.err = "ok" /\ leTwo.err = "ok" => \A cofactor \in BOOLEAN :
              leShared(cofactor).err = "ok" /\ leShared(cofactor) = ecdsa_dh_le(cofactor, leTwo.pub, leOne.priv)
        /\ be.err = "ok" /\ ecdsa_pub_key_export_be(TRUE, be.pt, TRUE) = one.pub
        /\ leOne.err = "ok" => le.err = "ok" /\ ecdsa_pub_key_export_le(TRUE, le.pt, TRUE) = leOne.pub

-----------------------------------------------------------------------------
(* Digests: bytes of two bits, words of two bytes; the block functions are *)
(* arbitrary mixing functions.                                             *)

Alg(blk, lens, size, iv, be) == [blk |-> blk, lens |-> lens, size |-> size, iv |-> iv, be |-> be]
ScaledAlgs ==
    [md5 |-> Alg(4, 1, 3, <<1, 2>>, FALSE), sha1 |-> Alg(4, 1, 4, <<3, 5>>, TRUE),
     sha224 |-> Alg(4, 1, 3, <<3, 7>>, TRUE), sha256 |-> Alg(4, 1, 4, <<4, 7>>, TRUE),
     sha384 |-> Alg(8, 2, 5, <<5, 11, 9>>, TRUE), sha512 |-> Alg(8, 2, 6, <<6, 12, 4>>, TRUE),
     gost256 |-> Alg(4, 0, 3, <<5, 5>>, FALSE), gost512 |-> Alg(4, 0, 4, <<0, 0>>, FALSE)]
Mixed(alg, h, b) ==
    <<>> \o [i \in DOMAIN h |-> (3 * h[i] + (5 + i) * h[(i % Len(h)) + 1]
                                 + For(Len(b), LAMBDA s, j : s * (3 + 2 * i) + b[j + 1] + 1, i)) % 16]
Scrambled(w) == <<>> \o [i \in DOMAIN w |-> (7 * w[i] + 3 * (w[(i % Len(w)) + 1] \div 2) + i) % 16]
XorByte(x, y) == x ^^ y

Hash == INSTANCE HashCtx WITH BYTE <- 4, WORD_BYTES <- 2, BITS <- 4, Algs <- ScaledAlgs,
            transform <- Mixed, PAD <- 2, IPAD <- 1, OPAD <- 3, xor <- XorByte, SLP <- Scrambled,
            ROUND_C <- <<<<3, 9>>, <<12, 7>>, <<1, 14>>>>

SomeBytes(n, k) == [i \in 1 .. n |-> ((i * i + k) \div 3) % 4]

-----------------------------------------------------------------------------
(* Ciphers: nibbles of two bits, words of two bytes. *)

NoBytes == <<-1>>
Cipher == INSTANCE Ciphers WITH NIBBLE <- 4, WORD_BYTES <- 2, ROT <- 3, ROTS <- <<4, 3, 2, 7>>,
            K256 <- <<9, 200, 33, 71>>, K128 <- <<9, 13, 33, 71>>, NULL <- NoBytes
SBox == <<<<2, 0, 3, 1>>, <<1, 3, 0, 2>>, <<3, 2, 1, 0>>, <<0, 2, 1, 3>>>>

Clear(n, k) == Cipher!Seq1([i \in 1 .. n |-> (i * i * 7 + k * 5 + (i \div 3)) % Cipher!BYTE])
ChaCha(k) == Cipher!chacha_init(Cipher!Fresh(3), Clear(IF k = 0 THEN 16 ELSE 8, k),
                IF k = 0 THEN NoBytes ELSE Cipher!Bytes(<<Cipher!WORD - 1, k>>),
                IF k = 0 THEN NoBytes ELSE Clear(4, k), 4)

-----------------------------------------------------------------------------
(* Packets. *)

Folded(q) == FoldLeft(LAMBDA a, b : (3 * a + b + 1) % 16, 0, q)
ToyMd5(q) == <<Folded(q), Folded(Append(q, 5))>>
ToyHmac(k, q) == ToyMd5(k \o ToyMd5(k \o q))
Radius == INSTANCE RadiusPkt WITH MD5_HASH_SIZE <- 2, md5 <- ToyMd5, hmac_md5 <- ToyHmac,
            rad_attr_params <- [t \in 0 .. 100 |-> [data_type |-> IF t = 4 THEN "ipv4" ELSE "str",
                                                    len_min |-> 0, len_max |-> 0]],
            RADIUS_PKT_MAX_SIZE <- 100, RADIUS_A_T_USER_PASSWORD_MAX_LEN <- 8,
            RADIUS_ATTR_DATA_SIZE_MAX <- 50
Request == [code |-> "access_request", id |-> 1, authr |-> <<3, 9>>, len |-> 6, body |-> <<>>]
AttrLists == {<<>>, <<<<2, <<>>>>>>, <<<<1, <<7>>>>, <<2, <<1, 2, 3>>>>>>,
              <<<<2, <<5>>>>, <<4, <<1, 2, 3, 4>>>>>>, <<<<1, <<1>>>>, <<1, <<2>>>>>>}
HasPassword(attrs) == \E i \in DOMAIN attrs : attrs[i][1] = 2

\* Left out: passwords in packets without a random authenticator, and the two
\* kinds whose signature the code computes and checks over different bytes.
Signable(code, attrs, add) ==
    /\ HasPassword(attrs) => code \in Radius!RandomAuthr
    /\ code = "accounting_response" => ~add
    /\ code = "status_server" => add

Opt(fixed, array, min) == [nolen |-> FALSE, end |-> FALSE, fixed |-> fixed, array |-> array, min |-> min]
Mark(last) == [Opt(NONE, FALSE, NONE) EXCEPT !.nolen = TRUE, !.end = last]
Dhcp == INSTANCE Dhcp4 WITH BYTE <- 8, OPT_MAX <- 3, PTR_SIZE <- 2, LEN_MOD <- 64, OVERLOAD <- 2,
            HTYPE_MAX <- 4, HLEN_MAX <- 4,
            opts <- <<Mark(FALSE), Opt(NONE, FALSE, 1), Opt(1, FALSE, NONE), Opt(2, FALSE, NONE),
                      Opt(2, TRUE, NONE), Mark(TRUE)>>
Pieces == [code : {1, 3, 4, 6}, data : {<<2, 3>>, <<1, 2, 3>>}]
Options == {<<>>} \cup {<<o>> : o \in Pieces} \cup {<<o, r>> : o \in Pieces, r \in Pieces}

-----------------------------------------------------------------------------
(* Taking a case, one action per algorithm; the cases that know no curve are *)
(* taken with the first one, those that know no memory with one content.     *)

Take1(case) == c.op = "idle" /\ c' = case /\ UNCHANGED <<junk, curve>>
NoCurve == curve = FirstCurve
Once == NoCurve /\ junk = 0

Arithmetic == NoCurve /\ \E x, y \in Operands, room \in Rooms :
    Take1([op |-> "arithmetic", x |-> x, y |-> y, room |-> room])
Residue == NoCurve /\ \E m \in Primes, x \in 0 .. 112 :
    x < m /\ Take1([op |-> "residue", x |-> x, m |-> m])
DigitOps == Once /\ \E x, y, z \in {0, 1, 2, 5, 8, 15} :
    Take1([op |-> "digit", x |-> x, y |-> y, z |-> z])
Multiplication == junk = 0 /\ \E k \in (0 .. 12) \cup {51, 102} : Take1([op |-> "multiply", k |-> k])
Signature == junk = 0 /\ \E k \in {1, 9, 60, 102}, r \in {0, 3, 77, 150}, h \in {1, 100, 180, 255} :
    Take1([op |-> "sign", key |-> k, rnd |-> r, hash |-> h])
Digesting == Once /\ \E one \in {0, 3, 4, 5, 15}, two \in {0, 3, 4, 9, 14}, key \in {0, 4, 5} :
    Take1([op |-> "digest", one |-> one, two |-> two, key |-> key])
Gost28147 == Once /\ \E n, cut \in 0 .. 3, k \in 0 .. 1, aligned \in BOOLEAN :
    cut <= n /\ Take1([op |-> "gost28147", n |-> n, cut |-> cut, key |-> k, aligned |-> aligned])
ChaChaStream == Once /\ \E n \in {0, 1, 31, 32, 33, 70}, k \in {0, 1}, cut \in {0, 1, 32, 40}, align \in {1, 4, 8} :
    Take1([op |-> "chacha", n |-> n, key |-> k, cut |-> cut, align |-> align])
RadiusPacket == Once /\ \E code \in Radius!Codes, attrs \in AttrLists, key \in {<<>>, <<4>>}, add \in BOOLEAN :
    /\ Signable(code, attrs, add)
    /\ Take1([op |-> "radius", code |-> code, attrs |-> attrs, key |-> key, add |-> add])
DhcpPacket == Once /\ \E main \in Options, file \in {<<>>} \cup {<<o>> : o \in Pieces},
                          sname \in {<<>>, <<[code |-> 1, data |-> <<7>>]>>}, flags \in 0 .. 3 :
    Take1([op |-> "dhcp", main |-> main, file |-> file, sname |-> sname, flags |-> flags])
Done == c.op # "idle" /\ c' = Idle /\ UNCHANGED <<junk, curve>>

Init == junk \in Fill /\ curve \in Curves /\ c = Idle /\ (junk = 0 \/ NoCurve)
Next == \/ Arithmetic \/ Residue \/ DigitOps \/ Multiplication \/ Signature
        \/ Digesting \/ Gost28147 \/ ChaChaStream \/ RadiusPacket \/ DhcpPacket \/ Done
Spec == Init /\ [][Next]_vars

-----------------------------------------------------------------------------
(* Properties. *)

\* The operations of big_num.h on digits, numbers and residues compute what the
\* same operations on integers do, or report an error, whatever uninitialised
\* digits hold; what is exported and imported again, and recodings, keep the
\* value.  Where the code does otherwise the property says what it computes:
\* bn_and() with a shorter second operand and the binary imports over a longer
\* number keep upper digits, and bn_mod_small() stops at the modulus.  It says
\* nothing of the low bits, the roots and the joint sparse form of 0, of
\* bn_sqrt1() and bn_sqrt2() for an odd number of bits, of the coefficients of
\* bn_digit_egcd(a, a), of the high digit of the remainder of the division
\* without double digits, and of exports into buffers that are too small.
NumbersRight ==
    [][/\ c.op = "digit" => BitTricksRight(c.x) /\ DigitArithmeticRight(c.x, c.y, c.z)
       /\ c.op = "arithmetic" => ArithmeticRight(Num(c.room, c.x), Num(c.room, c.y), c.x, c.y)
       /\ c.op = "residue" => ResidueRight(Num(5, c.x), Num(5, c.m), c.x, c.m)]_vars

\* All the ways elliptic_curve.h multiplies a point (binary, windows, combs, twin
\* forms, affine or projective) give the multiple the group law gives; a
\* signature made by ecdsa_sign_be() or _le() verifies with the public key in
\* every form, the public key is recovered from the private one, and both sides
\* of ecdsa_dh_be() agree.
SignaturesVerify ==
    [][/\ c.op = "multiply" => MultiplesRight(c.k)
       /\ c.op = "sign" => SignatureRight(Bytes4(c.key), Bytes4(c.rnd), Bytes4(c.hash))]_vars

\* A digest does not depend on how the data is cut into updates and equals the
\* padded definition, an HMAC its definition (md5.h, sha1.h, sha2.h,
\* gost3411-2012.h); a ChaCha stream depends neither on cuts nor on the width of
\* the loads and stores the alignment selects, and the counter carries; GOST
\* 28147 encryption and MAC do not depend on the alignment and aligned
\* decryption undoes encryption.  Unaligned decryption (gost28147.h:433, 470)
\* does not: it undoes it only on blocks with their bytes reversed.
DigestsAndCiphersRight ==
    [][/\ c.op = "digest" =>
            /\ Hash!PiecesDoNotMatter(SomeBytes(c.one, c.two), SomeBytes(c.two, c.key), 3)
            /\ Hash!HmacRight(SomeBytes(c.key, c.one), SomeBytes(c.two, c.one), 3)
       /\ c.op = "gost28147" => Cipher!GostRight(Clear(16, c.key), SBox, Clear(4 * c.n, c.key + 1), 4 * c.cut, c.aligned)
       /\ c.op = "chacha" => Cipher!StreamRight(ChaCha(c.key), Clear(c.n, c.key), Smaller(c.n, c.cut),
                                                Smaller(c.n, c.cut + 25), c.align)]_vars

\* A RADIUS packet that radius_pkt_sign() has signed passes radius_pkt_chk() and
\* radius_pkt_verify() at the other side, which also reads its password; the
\* options of a DHCP packet, split over its fields, are put together by
\* dhcp4_pkt_chk_opts_aggregate() and written out again without loss.
PacketsRight ==
    [][/\ c.op = "radius" =>
            Radius!SignedIsVerified(c.code, IF c.code \in Radius!RandomAuthr THEN <<7, 8>> ELSE Request.authr,
                                    c.attrs, c.key, c.add, Request)
       /\ c.op = "dhcp" => Dhcp!AggregatedRight(c.main, c.file, c.sname, c.flags)]_vars
=============================================================================
