------------------------------- MODULE Ecdsa -------------------------------
(***************************************************************************)
(* Keys, signatures and shared secrets on a curve (ecdsa.h), with the      *)
(* public key check on.  Buffers are sequences of bytes; a NULL buffer is  *)
(* the empty one.  Each operation has a form for either byte order.  sep:  *)
(* the caller has a buffer for y (pub_key_y is not NULL).                  *)
(***************************************************************************)
EXTENDS Elliptic, BnConv

NULL == "NULL"
EcBytes == (curve.m + BYTE_BITS - 1) \div BYTE_BITS
Fresh == bn_init(Local, BN_MAX_DIGITS * BN_DIGIT_BITS)
Out(err, v) == [err |-> err, v |-> v]
Empty(bufs) == <<>> \in bufs

(* The byte orders: what is written, and the value read back. *)
ExpBe(v, n) == bn_export_be_bin(Bn(v), FALSE, n)
ExpLe(v, n) == bn_export_le_bin(Bn(v), FALSE, n)
ImpBe(buf) == Value(bn_import_be_bin(Fresh, buf))
ImpLe(buf) == Value(bn_import_le_bin(Fresh, buf))

(* A curve's description: its numbers as text, num_size characters each,  *)
(* but for n.  wnd_bits: EC_PF_FXP_MULT_WIN_BITS.                          *)
ecdsa_curve_str_get_by_name(strs, name) ==
    IF \E s \in strs : s.name = name THEN CHOOSE s \in strs : s.name = name ELSE NULL
ecdsa_curve_from_str(s, wnd_bits) ==
    LET Hex(buf) == Value(bn_import_be_hex(Fresh, buf))
        Num(buf) == Hex(SubSeq(buf, 1, s.num_size))
    IN  [p |-> Num(s.p), a |-> Num(s.a), b |-> Num(s.b), n |-> Hex(s.n),
         G |-> [x |-> Num(s.Gx), y |-> Num(s.Gy), inf |-> FALSE],
         h |-> s.h, m |-> s.m, t |-> s.t, algo |-> s.algo, a_m3 |-> s.a_m3, wnd_bits |-> wnd_bits]

----------------------------------------------------------------------------
PubKey(err, x, y, size) == [err |-> err, x |-> x, y |-> y, size |-> size]

PubKeyExport(compress, pt, sep, Exp(_, _)) ==
    LET x == Exp(pt.x, EcBytes)
        y == Exp(pt.y, EcBytes)
        Bad(S) == \E e \in S : e.err # "ok"
    IN  IF pt.inf THEN PubKey("ok", <<0>>, <<>>, 1)
        ELSE IF Bad({x} \cup IF compress THEN {} ELSE {y}) THEN PubKey("EOVERFLOW", <<>>, <<>>, 0)
        ELSE IF compress THEN PubKey("ok", <<IF pt.y % 2 = 0 THEN 2 ELSE 3>> \o x.buf, <<>>, 1 + EcBytes)
        ELSE IF sep THEN PubKey("ok", x.buf, y.buf, EcBytes)
        ELSE PubKey("ok", <<4>> \o x.buf \o y.buf, <<>>, 1 + 2 * EcBytes)
ecdsa_pub_key_export_be(compress, pt, sep) == PubKeyExport(compress, pt, sep, ExpBe)
ecdsa_pub_key_export_le(compress, pt, sep) == PubKeyExport(compress, pt, sep, ExpLe)

(* k: x, y and the size the caller gives.  Point is the one handed in: its *)
(* infinity flag is set here but never cleared.                            *)
PubKeyImport(k, pt, Imp(_)) ==
    LET n == EcBytes
        Both(a, b) == LET q == [pt EXCEPT !.x = Imp(a), !.y = Imp(b)] IN
                      [err |-> ec_point_check_as_pub_key(q), pt |-> q]
        Bad(e) == [err |-> e, pt |-> pt]
    IN  IF k.size = 1 THEN (IF k.x[1] # 0 THEN Bad("EINVAL") ELSE [err |-> "ok", pt |-> AffZero(pt)])
        ELSE IF k.size = n THEN (IF k.y = <<>> THEN Bad("EINVAL") ELSE Both(k.x, k.y))
        ELSE IF k.size = 1 + n
             THEN IF k.x[1] \notin {2, 3} THEN Bad("invalid")
                  ELSE ec_point_restore_y_by_x(k.x[1] % 2, [pt EXCEPT !.x = Imp(SubSeq(k.x, 2, 1 + n))])
        ELSE IF k.size = 1 + 2 * n
             THEN IF k.x[1] \notin {4, 6, 7} THEN Bad("invalid")
                  ELSE Both(SubSeq(k.x, 2, 1 + n), SubSeq(k.x, 2 + n, 1 + 2 * n))
        ELSE IF k.size = 2 * n THEN Both(SubSeq(k.x, 1, n), SubSeq(k.x, 1 + n, 2 * n))
        ELSE Bad("invalid")
ecdsa_pub_key_import_be(k, pt) == PubKeyImport(k, pt, ImpBe)
ecdsa_pub_key_import_le(k, pt) == PubKeyImport(k, pt, ImpLe)

----------------------------------------------------------------------------
N == curve.n
Reduced(v) == Value(bn_mod_reduce(Bn(v), Bn(N)))
InvN(v) == bn_mod_inv(Bn(v), Bn(N))

ecdsa_key_gen(rnd) ==
    LET d == Reduced(rnd)
        Q == ec_point_mult_bp(d)
    IN  [err |-> ec_point_check_as_pub_key(Q), d |-> d, Q |-> Q]

KeyGen(rnd, compress, sep, Imp(_), Exp(_, _)) ==
    LET g == ecdsa_key_gen(Imp(SubSeq(rnd, 1, EcBytes)))
        priv == Exp(g.d, EcBytes)
        pub == PubKeyExport(compress, g.Q, sep, Exp)
        err == IF Len(rnd) < EcBytes \/ ~sep THEN "EINVAL"
               ELSE IF g.err # "ok" THEN g.err
               ELSE IF priv.err # "ok" THEN priv.err ELSE pub.err
    IN  [err |-> err, priv |-> priv.buf, pub |-> pub]
ecdsa_key_gen_be(rnd, compress, sep) == KeyGen(rnd, compress, sep, ImpBe, ExpBe)
ecdsa_key_gen_le(rnd, compress, sep) == KeyGen(rnd, compress, sep, ImpLe, ExpLe)

Sig(err, r, s) == [err |-> err, r |-> r, s |-> s]

ecdsa_sign(hash, d, rnd) ==
    LET k == Reduced(rnd)
        r == ec_point_mult_bp(k).x % N
        e == Reduced(hash)
        dr == (r * d) % N
        s == CASE curve.algo = "ECDSA" -> (Value(InvN(k)) * ((e + dr) % N)) % N
               [] curve.algo = "GOST" -> (((IF e # 0 THEN k * e ELSE k) % N) + dr) % N
    IN  IF d >= N THEN Sig("EINVAL", 0, 0)
        ELSE IF r = 0 \/ s = 0 THEN Sig("again", r, s)
        ELSE Sig("ok", r, s)

(* Random bytes are asked for by the key's size and read by the curve's. *)
Sign(hash, priv, rnd, Imp(_), Exp(_, _)) ==
    LET g == ecdsa_sign(Imp(SubSeq(hash, 1, Smaller(Len(hash), EcBytes))), Imp(priv),
                        Imp(SubSeq(rnd, 1, EcBytes)))
        r == Exp(g.r, EcBytes)
        s == Exp(g.s, EcBytes)
    IN  IF Empty({hash, priv, rnd}) \/ Len(rnd) < Len(priv) \/ Len(priv) > EcBytes
        THEN Sig("EINVAL", <<>>, <<>>)
        ELSE IF g.err # "ok" THEN Sig(g.err, <<>>, <<>>)
        ELSE IF r.err # "ok" \/ s.err # "ok" THEN Sig("EOVERFLOW", <<>>, <<>>)
        ELSE Sig("ok", r.buf, s.buf)
ecdsa_sign_be(hash, priv, rnd) == Sign(hash, priv, rnd, ImpBe, ExpBe)
ecdsa_sign_le(hash, priv, rnd) == Sign(hash, priv, rnd, ImpLe, ExpLe)

(* u1 and u2 of a signature. *)
Factors(hash, r, s) ==
    LET e == Reduced(hash)
        i == InvN(IF curve.algo = "ECDSA" THEN s ELSE IF e = 0 THEN 1 ELSE e)
        v == Value(i)
    IN  IF i.err # "ok" THEN [err |-> i.err, u1 |-> 0, u2 |-> 0]
        ELSE IF curve.algo = "ECDSA" THEN [err |-> "ok", u1 |-> (e * v) % N, u2 |-> (v * r) % N]
        ELSE [err |-> "ok", u1 |-> (v * s) % N, u2 |-> ((N - v) * r) % N]

ecdsa_verify(hash, r, s, Q) ==
    LET u == Factors(hash, r, s)
        R == ec_point_twin_mult_bp(u.u1, Q, u.u2)
    IN  IF r >= N \/ s >= N THEN "EINVAL"
        ELSE IF u.err # "ok" THEN u.err
        ELSE IF R.inf THEN "invalid"
        ELSE IF R.x % N # r THEN "bad sign" ELSE "ok"

Verify(hash, sig, k, Imp(_)) ==
    LET q == PubKeyImport(k, ec_point_init, Imp) IN
    IF Empty({hash, sig.r, k.x}) \/ Len(sig.r) > EcBytes THEN "EINVAL"
    ELSE IF q.err # "ok" THEN q.err
    ELSE ecdsa_verify(Imp(SubSeq(hash, 1, Smaller(Len(hash), EcBytes))), Imp(sig.r), Imp(sig.s), q.pt)
ecdsa_verify_be(hash, sig, k) == Verify(hash, sig, k, ImpBe)
ecdsa_verify_le(hash, sig, k) == Verify(hash, sig, k, ImpLe)

ecdsa_verify_priv_key(hash, r, s, d) ==
    LET u == Factors(hash, r, s)
        R == ec_point_mult_bp((((u.u2 * d) % N) + u.u1) % N)
    IN  IF r >= N \/ s >= N \/ d >= N THEN "EINVAL"
        ELSE IF u.err # "ok" THEN u.err
        ELSE IF R.inf \/ R.x % N # r THEN "bad sign" ELSE "ok"

VerifyPriv(hash, sig, priv, Imp(_)) ==
    IF Empty({hash, sig.r, priv}) \/ Len(sig.r) > EcBytes THEN "EINVAL"
    ELSE ecdsa_verify_priv_key(Imp(SubSeq(hash, 1, Smaller(Len(hash), EcBytes))),
                               Imp(sig.r), Imp(sig.s), Imp(priv))
ecdsa_verify_priv_key_be(hash, sig, priv) == VerifyPriv(hash, sig, priv, ImpBe)
ecdsa_verify_priv_key_le(hash, sig, priv) == VerifyPriv(hash, sig, priv, ImpLe)

ecdsa_dh(use_cofactor, Q, d) ==
    LET k == IF use_cofactor THEN (d * curve.h) % N ELSE d
        R == ec_point_unknown_pt_mult(Q, k)
    IN  IF d >= N THEN Out("EINVAL", 0)
        ELSE IF R.inf THEN Out("invalid", 0)
        ELSE Out("ok", R.x)

Dh(use_cofactor, k, priv, Imp(_), Exp(_, _)) ==
    LET q == PubKeyImport(k, ec_point_init, Imp)
        g == ecdsa_dh(use_cofactor, q.pt, Imp(priv))
        e == Exp(g.v, EcBytes)
    IN  IF Empty({k.x, priv}) \/ Len(priv) > EcBytes THEN Out("EINVAL", <<>>)
        ELSE IF q.err # "ok" THEN Out(q.err, <<>>)
        ELSE IF g.err # "ok" THEN Out(g.err, <<>>)
        ELSE Out(e.err, e.buf)
ecdsa_dh_be(use_cofactor, k, priv) == Dh(use_cofactor, k, priv, ImpBe, ExpBe)
ecdsa_dh_le(use_cofactor, k, priv) == Dh(use_cofactor, k, priv, ImpLe, ExpLe)

Recover(priv, compress, sep, Imp(_), Exp(_, _)) ==
    LET d == Imp(priv)
        Q == ec_point_mult_bp(d)
        err == IF Empty({priv}) \/ Len(priv) > EcBytes \/ d >= N THEN "EINVAL" ELSE ec_point_check_as_pub_key(Q)
    IN  IF err # "ok" THEN PubKey(err, <<>>, <<>>, 0) ELSE PubKeyExport(compress, Q, sep, Exp)
ecdsa_recover_pub_key_from_priv_key_be(priv, compress, sep) == Recover(priv, compress, sep, ImpBe, ExpBe)
ecdsa_recover_pub_key_from_priv_key_le(priv, compress, sep) == Recover(priv, compress, sep, ImpLe, ExpLe)
=============================================================================
