------------------------------ MODULE HashCtx ------------------------------
(***************************************************************************)
(* The message digests of crypto/hash: md5.h, sha1.h, sha2.h and           *)
(* gost3411-2012.h.  What is modelled is everything around the block       *)
(* function: the buffering of a message that arrives in pieces, the        *)
(* padding, the length field with its 64-bit (SHA-384/512: 128-bit)        *)
(* counter, the 512-bit counter and sum of GOST R 34.11-2012, RFC 2104     *)
(* HMAC and the hexadecimal output.  The block functions themselves are    *)
(* constants.                                                              *)
(*                                                                         *)
(* A message is a sequence of bytes 0 .. BYTE - 1; a word is WORD_BYTES of *)
(* them.  The code has 8-bit bytes and 8-byte words; small values make     *)
(* the counters wrap within short messages.                                *)
(***************************************************************************)
EXTENDS Integers, Sequences, SequencesExt, FiniteSetsExt, Functions, Loops

CONSTANTS
    BYTE,                  \* values of a byte (256)
    WORD_BYTES,            \* bytes of a word: ctx->count, a word of the hash (8)
    BITS,                  \* "<< 3": bits of a byte, as the counters count them
    Algs,                  \* the parameters of each hash: see below
    transform(_, _, _),    \* the block function of a hash: (alg, hash words, block)
    PAD, IPAD, OPAD,       \* 0x80, 0x36, 0x5c
    xor(_, _),             \* exclusive or of two bytes
    SLP(_),                \* GOST R 34.11-2012: linear, permutation, substitution
    ROUND_C                \* the round keys gost3411_2012_C

\* Algs[a] = [blk: block size in bytes, lens: words of the length field,
\*            size: digest size in bytes, iv: initial words, be: big endian].

WORD == BYTE ^ WORD_BYTES

Zeros(n) == [i \in 1..n |-> 0]

\* The bytes of a word in memory, and back.
LeBytes(w) == [i \in 1..WORD_BYTES |-> (w \div BYTE ^ (i - 1)) % BYTE]
BeBytes(w) == Reverse(LeBytes(w))
LeWord(b) == For(WORD_BYTES, LAMBDA s, i: s + b[i + 1] * BYTE ^ i, 0)

\* memcpy(buffer + at, data, n): the other bytes of the buffer stay.
Store(buffer, at, data) ==
    SubSeq(buffer, 1, at) \o data \o SubSeq(buffer, at + Len(data) + 1, Len(buffer))

Blocks(blk, data) ==
    [k \in 1..(Len(data) \div blk) |-> SubSeq(data, (k - 1) * blk + 1, k * blk)]

-----------------------------------------------------------------------------
(* MD5, SHA-1 and SHA-2 share the shape: the fill of the buffer is         *)
(* count & (block size - 1).                                               *)

Ctx(a, junk) ==
    [alg |-> a, hash |-> Algs[a].iv, count |-> 0, count_hi |-> 0,
     buffer |-> [i \in 1..Algs[a].blk |-> junk]]

Transforms(ctx, bs) ==
    [ctx EXCEPT !.hash = For(Len(bs), LAMBDA h, i: transform(ctx.alg, h, bs[i + 1]), @)]

Counted(ctx, n) ==
    LET count == (ctx.count + n) % WORD
    IN  [ctx EXCEPT !.count = count,
                    !.count_hi = IF count < n THEN (@ + 1) % WORD ELSE @]

Update(ctx, data) ==
    LET blk == Algs[ctx.alg].blk
        usage == ctx.count % blk
        part == blk - usage
        c == Counted(ctx, Len(data))
        filled == [c EXCEPT !.buffer = Store(@, usage, SubSeq(data, 1, part))]
        first == IF usage = 0 THEN c ELSE Transforms(filled, <<filled.buffer>>)
        rest == IF usage = 0 THEN data ELSE SubSeq(data, part + 1, Len(data))
        whole == (Len(rest) \div blk) * blk
    IN  IF data = <<>> THEN ctx
        ELSE IF part <= Len(data)
        THEN [Transforms(first, Blocks(blk, SubSeq(rest, 1, whole)))
                EXCEPT !.buffer = Store(@, 0, SubSeq(rest, whole + 1, Len(rest)))]
        ELSE [c EXCEPT !.buffer = Store(@, usage, data)]

\* The length field: one word of bits, or (SHA-384/512) two.
LengthField(ctx) ==
    LET alg == Algs[ctx.alg]
        lo == (ctx.count * BITS) % WORD
        hi == ((ctx.count_hi * BITS) % WORD) + ctx.count \div (WORD \div BITS)
    IN  IF alg.lens = 2 THEN BeBytes(hi) \o BeBytes(lo)
        ELSE IF alg.be THEN BeBytes(lo) ELSE LeBytes(lo)

\* The digest: the words of the hash in the order of the algorithm, cut to size.
Digest(ctx) ==
    SubSeq(FlattenSeq([i \in DOMAIN ctx.hash |->
                IF Algs[ctx.alg].be THEN BeBytes(ctx.hash[i]) ELSE LeBytes(ctx.hash[i])]),
           1, Algs[ctx.alg].size)

\* Mutation: without the extra block when the length does not fit.
Final_OneBlock(ctx) ==
    LET alg == Algs[ctx.alg]
        len_off == alg.blk - alg.lens * WORD_BYTES
        usage == (ctx.count % alg.blk) + 1
    IN  Digest(Transforms(ctx, <<Store(Store(Store(ctx.buffer, usage - 1, <<PAD>>), usage,
                    Zeros(alg.blk - usage)), len_off, LengthField(ctx))>>))

Final(ctx) ==
    LET alg == Algs[ctx.alg]
        len_off == alg.blk - alg.lens * WORD_BYTES
        usage == (ctx.count % alg.blk) + 1
        padded == [ctx EXCEPT !.buffer[usage] = PAD]
        full == [padded EXCEPT !.buffer = Store(@, usage, Zeros(alg.blk - usage))]
        last == IF len_off < usage
                THEN [Transforms(full, <<full.buffer>>)
                        EXCEPT !.buffer = Store(full.buffer, 0, Zeros(len_off))]
                ELSE [padded EXCEPT !.buffer = Store(@, usage, Zeros(len_off - usage))]
    IN  Digest(Transforms(last, <<Store(last.buffer, len_off, LengthField(ctx))>>))

-----------------------------------------------------------------------------
(* RFC 2104, the same in all four headers.  begin(_) gives a new context   *)
(* of a hash, upd and fin are its update and final.                        *)

KeyPad(begin, upd(_, _), fin(_), blk, key) ==
    LET k == IF Len(key) > blk THEN fin(upd(begin, key)) ELSE key
    IN  k \o Zeros(blk - Len(k))

HmacInit(begin, upd(_, _), fin(_), blk, key) ==
    LET k == KeyPad(begin, upd, fin, blk, key)
    IN  [ctx |-> upd(begin, [i \in DOMAIN k |-> xor(k[i], IPAD)]),
         k_opad |-> [i \in DOMAIN k |-> xor(k[i], OPAD)]]

HmacFinal(begin, upd(_, _), fin(_), hctx) ==
    fin(upd(upd(begin, hctx.k_opad), fin(hctx.ctx)))

\* The digest as lower-case hexadecimal digits, each half a byte.
CvtHex(bin) ==
    LET HALF == CHOOSE h \in 1..BYTE: h * h = BYTE
    IN  [i \in 1..(2 * Len(bin)) |->
            IF i % 2 = 1 THEN bin[(i + 1) \div 2] \div HALF ELSE bin[i \div 2] % HALF]

-----------------------------------------------------------------------------
(* md5.h                                                                   *)

md5_init(junk) == Ctx("md5", junk)
md5_update(ctx, data) == Update(ctx, data)
md5_final(ctx) == Final(ctx)
hmac_md5_init(junk, key) ==
    HmacInit(md5_init(junk), md5_update, md5_final, Algs["md5"].blk, key)
hmac_md5_update(hctx, data) == [hctx EXCEPT !.ctx = md5_update(@, data)]
hmac_md5_final(junk, hctx) == HmacFinal(md5_init(junk), md5_update, md5_final, hctx)
hmac_md5(junk, key, data) == hmac_md5_final(junk, hmac_md5_update(hmac_md5_init(junk, key), data))
md5_cvt_hex(bin) == CvtHex(bin)
md5_cvt_str(digest) == md5_cvt_hex(digest)
md5_get_digest(junk, data) == md5_final(md5_update(md5_init(junk), data))
md5_get_digest_str(junk, data) == md5_cvt_str(md5_get_digest(junk, data))
md5_hmac_get_digest(junk, key, data) == hmac_md5(junk, key, data)
md5_hmac_get_digest_str(junk, key, data) == md5_cvt_str(hmac_md5(junk, key, data))

(* sha1.h                                                                  *)

sha1_init(junk) == Ctx("sha1", junk)
sha1_update(ctx, data) == Update(ctx, data)
sha1_final(ctx) == Final(ctx)
hmac_sha1_init(junk, key) ==
    HmacInit(sha1_init(junk), sha1_update, sha1_final, Algs["sha1"].blk, key)
hmac_sha1_update(hctx, data) == [hctx EXCEPT !.ctx = sha1_update(@, data)]
hmac_sha1_final(junk, hctx) == HmacFinal(sha1_init(junk), sha1_update, sha1_final, hctx)
hmac_sha1(junk, key, data) == hmac_sha1_final(junk, hmac_sha1_update(hmac_sha1_init(junk, key), data))
sha1_cvt_hex(bin) == CvtHex(bin)
sha1_cvt_str(digest) == sha1_cvt_hex(digest)
sha1_get_digest(junk, data) == sha1_final(sha1_update(sha1_init(junk), data))
sha1_get_digest_str(junk, data) == sha1_cvt_str(sha1_get_digest(junk, data))
sha1_hmac_get_digest(junk, key, data) == hmac_sha1(junk, key, data)
sha1_hmac_get_digest_str(junk, key, data) == sha1_cvt_str(hmac_sha1(junk, key, data))

(* sha2.h: bits selects the variant, given in bits or as a digest size;    *)
(* hmac_sha2_final() starts its second pass with the digest size.          *)

Sha2Name(bits) ==
    CHOOSE a \in {"sha224", "sha256", "sha384", "sha512"} :
        bits \in {Algs[a].size, Algs[a].size * BITS}
sha2_init(bits, junk) == Ctx(Sha2Name(bits), junk)
sha2_transform(ctx, bs) == Transforms(ctx, bs)
sha2_update(ctx, data) == Update(ctx, data)
sha2_final(ctx) == Final(ctx)
hmac_sha2_init(bits, junk, key) ==
    HmacInit(sha2_init(bits, junk), sha2_update, sha2_final, Algs[Sha2Name(bits)].blk, key)
hmac_sha2_update(hctx, data) == [hctx EXCEPT !.ctx = sha2_update(@, data)]
hmac_sha2_final(junk, hctx) ==
    HmacFinal(sha2_init(Algs[hctx.ctx.alg].size, junk), sha2_update, sha2_final, hctx)
hmac_sha2(bits, junk, key, data) ==
    hmac_sha2_final(junk, hmac_sha2_update(hmac_sha2_init(bits, junk, key), data))
sha2_cvt_hex(bin) == CvtHex(bin)
sha2_cvt_str(digest) == sha2_cvt_hex(digest)
sha2_get_digest(bits, junk, data) == sha2_final(sha2_update(sha2_init(bits, junk), data))
sha2_get_digest_str(bits, junk, data) == sha2_cvt_str(sha2_get_digest(bits, junk, data))
sha2_hmac_get_digest(bits, junk, key, data) == hmac_sha2(bits, junk, key, data)
sha2_hmac_get_digest_str(bits, junk, key, data) == sha2_cvt_str(hmac_sha2(bits, junk, key, data))

-----------------------------------------------------------------------------
(* gost3411-2012.h                                                         *)

GBLK == Algs["gost512"].blk
GWORDS == GBLK \div WORD_BYTES
GWords(block) == [i \in 1..GWORDS |-> LeWord(SubSeq(block, (i - 1) * WORD_BYTES + 1, i * WORD_BYTES))]

\* a += b modulo 2^512, word by word with the carry as the code computes it.
gost3411_2012_addmod512(a, b) ==
    For(GWORDS, LAMBDA s, i:
            LET x == (s.a[i + 1] + s.crr) % WORD
                c == IF x < s.crr THEN 1 ELSE 0
                y == (x + b[i + 1]) % WORD
            IN  [a |-> [s.a EXCEPT ![i + 1] = y],
                 crr |-> IF b[i + 1] # 0 /\ y < b[i + 1] THEN 1 ELSE c],
        [a |-> a, crr |-> 0]).a

\* a += b where b is one word: the carry runs on while the words wrap to zero.
gost3411_2012_addmod512_digit(a, b) ==
    LET a0 == (a[1] + b) % WORD
        s == While(LAMBDA t: t.go /\ t.i <= GWORDS,
                   LAMBDA t: [a |-> [t.a EXCEPT ![t.i] = (@ + 1) % WORD], i |-> t.i + 1,
                              go |-> t.a[t.i] = WORD - 1],
                   [a |-> [a EXCEPT ![1] = a0], i |-> 2, go |-> a0 < b])
    IN  s.a

WordXor(v, w) == LeWord([i \in 1..WORD_BYTES |-> xor(LeBytes(v)[i], LeBytes(w)[i])])
Xor2(a, b) == <<>> \o [i \in 1..GWORDS |-> WordXor(a[i], b[i])]

gost3411_2012_SLP(src) == SLP(src)
gost3411_2012_XSLP(a, b) == gost3411_2012_SLP(Xor2(a, b))

\* E(): the key schedule and the rounds, then the final exclusive or.
Encrypted(hash, key, block) ==
    LET k0 == gost3411_2012_XSLP(key, ROUND_C[1])
        s == For(Len(ROUND_C) - 1,
                 LAMBDA t, i: [t |-> gost3411_2012_XSLP(t.t, t.k),
                               k |-> gost3411_2012_XSLP(t.k, ROUND_C[i + 2])],
                 [t |-> gost3411_2012_XSLP(key, block), k |-> k0])
    IN  Xor2(hash, Xor2(block, Xor2(s.t, s.k)))

gost3411_2012_transform_n_generic(ctx, bits, bs) ==
    For(Len(bs), LAMBDA c, i:
            LET b == GWords(bs[i + 1])
            IN  [c EXCEPT !.counter = gost3411_2012_addmod512_digit(@, bits),
                          !.sigma = gost3411_2012_addmod512(@, b),
                          !.hash = Encrypted(@, gost3411_2012_XSLP(@, c.counter), b)],
        ctx)
gost3411_2012_transform_1_generic(ctx, block) ==
    [ctx EXCEPT !.hash = Encrypted(@, gost3411_2012_SLP(@), block)]
gost3411_2012_transform_n(ctx, bits, bs) == gost3411_2012_transform_n_generic(ctx, bits, bs)
gost3411_2012_transform_1(ctx, block) == gost3411_2012_transform_1_generic(ctx, block)

\* Any number of bits but 256 (or 32 bytes) means the 512-bit variant.
gost3411_2012_init(bits) ==
    LET short == bits \in {Algs["gost256"].size, Algs["gost256"].size * BITS}
        a == IF short THEN "gost256" ELSE "gost512"
    IN  [alg |-> a, hash |-> Algs[a].iv, counter |-> Zeros(GWORDS), sigma |-> Zeros(GWORDS),
         usage |-> 0, buffer |-> Zeros(GBLK)]

gost3411_2012_update(ctx, data) ==
    LET part == GBLK - ctx.usage
        filled == [ctx EXCEPT !.buffer = Store(@, ctx.usage, SubSeq(data, 1, part)), !.usage = 0]
        first == IF ctx.usage = 0 THEN ctx
                 ELSE gost3411_2012_transform_n(filled, GBLK * BITS, <<filled.buffer>>)
        rest == IF ctx.usage = 0 THEN data ELSE SubSeq(data, part + 1, Len(data))
        whole == (Len(rest) \div GBLK) * GBLK
        c == gost3411_2012_transform_n(first, GBLK * BITS, Blocks(GBLK, SubSeq(rest, 1, whole)))
        kept == SubSeq(rest, whole + 1, Len(rest))
    IN  IF data = <<>> THEN ctx
        ELSE IF part <= Len(data)
        THEN [c EXCEPT !.buffer = Store(@, 0, kept), !.usage = Len(kept)]
        ELSE [ctx EXCEPT !.buffer = Store(@, ctx.usage, data), !.usage = @ + Len(data)]

gost3411_2012_final(ctx) ==
    LET buffer == Store(Store(ctx.buffer, ctx.usage, Zeros(GBLK - ctx.usage)), ctx.usage, <<1>>)
        c == gost3411_2012_transform_n(ctx, ctx.usage * BITS, <<buffer>>)
        d == gost3411_2012_transform_1(gost3411_2012_transform_1(c, c.counter), c.sigma)
        out == FlattenSeq([i \in 1..GWORDS |-> LeBytes(d.hash[i])])
    IN  SubSeq(out, Len(out) - Algs[ctx.alg].size + 1, Len(out))

hmac_gost3411_2012_init(bits, key) ==
    HmacInit(gost3411_2012_init(bits), gost3411_2012_update, gost3411_2012_final, GBLK, key)
hmac_gost3411_2012_update(hctx, data) == [hctx EXCEPT !.ctx = gost3411_2012_update(@, data)]
hmac_gost3411_2012_final(hctx) ==
    HmacFinal(gost3411_2012_init(Algs[hctx.ctx.alg].size), gost3411_2012_update, gost3411_2012_final, hctx)
hmac_gost3411_2012(bits, key, data) ==
    hmac_gost3411_2012_final(hmac_gost3411_2012_update(hmac_gost3411_2012_init(bits, key), data))
gost3411_2012_cvt_hex(bin) == CvtHex(bin)
gost3411_2012_cvt_str(digest) == gost3411_2012_cvt_hex(digest)
gost3411_2012_get_digest(bits, data) ==
    gost3411_2012_final(gost3411_2012_update(gost3411_2012_init(bits), data))
gost3411_2012_get_digest_str(bits, data) == gost3411_2012_cvt_str(gost3411_2012_get_digest(bits, data))
gost3411_2012_hmac_get_digest(bits, key, data) == hmac_gost3411_2012(bits, key, data)
gost3411_2012_hmac_get_digest_str(bits, key, data) ==
    gost3411_2012_cvt_str(hmac_gost3411_2012(bits, key, data))

-----------------------------------------------------------------------------
(* What the standards say, from the whole message at once.                 *)

\* FIPS 180, RFC 1321: the padded message.
Padded(a, msg) ==
    LET alg == Algs[a]
        room == alg.lens * WORD_BYTES
        fill == (alg.blk - ((Len(msg) + 1 + room) % alg.blk)) % alg.blk
        bits == Len(msg) * BITS
        lo == bits % WORD
        hi == (bits \div WORD) % WORD
        field == IF alg.lens = 2 THEN BeBytes(hi) \o BeBytes(lo)
                 ELSE IF alg.be THEN BeBytes(lo) ELSE LeBytes(lo)
    IN  msg \o <<PAD>> \o Zeros(fill) \o field

ShaOf(a, msg) == Digest(Transforms(Ctx(a, 0), Blocks(Algs[a].blk, Padded(a, msg))))

\* GOST R 34.11-2012: the counter and the sum are numbers modulo 2^512.
Number(ws) == For(Len(ws), LAMBDA s, i: s * WORD + ws[Len(ws) - i], 0)
WordsOf(n) == [i \in 1..GWORDS |-> (n \div WORD ^ (i - 1)) % WORD]
GostOf(a, msg) ==
    LET tail == SubSeq(msg, (Len(msg) \div GBLK) * GBLK + 1, Len(msg))
        bs == Append(Blocks(GBLK, msg), tail \o <<1>> \o Zeros(GBLK - Len(tail) - 1))
        h == For(Len(bs), LAMBDA x, i:
                    Encrypted(x, gost3411_2012_XSLP(x, WordsOf(i * GBLK * BITS)), GWords(bs[i + 1])),
                 Algs[a].iv)
        sum == WordsOf(For(Len(bs), LAMBDA x, i: (x + Number(GWords(bs[i + 1]))) % WORD ^ GWORDS, 0))
        g1 == Encrypted(h, SLP(h), WordsOf(Len(msg) * BITS))
        g2 == Encrypted(g1, SLP(g1), sum)
        out == FlattenSeq([i \in 1..GWORDS |-> LeBytes(g2[i])])
    IN  SubSeq(out, Len(out) - Algs[a].size + 1, Len(out))

RefHash(a, msg) == IF a \in {"gost256", "gost512"} THEN GostOf(a, msg) ELSE ShaOf(a, msg)

RefHmac(a, key, msg) ==
    LET blk == Algs[a].blk
        k0 == IF Len(key) > blk THEN RefHash(a, key) ELSE key
        k == k0 \o Zeros(blk - Len(k0))
    IN  RefHash(a, [i \in 1..blk |-> xor(k[i], OPAD)] \o
                   RefHash(a, [i \in 1..blk |-> xor(k[i], IPAD)] \o msg))

\* A message handed over in two pieces has the digest of the whole message,
\* whatever was in the buffer before, for every hash of the library.
PiecesDoNotMatter(one, two, junk) ==
    LET msg == one \o two
    IN  /\ md5_final(md5_update(md5_update(md5_init(junk), one), two)) = RefHash("md5", msg)
        /\ sha1_final(sha1_update(sha1_update(sha1_init(junk), one), two)) = RefHash("sha1", msg)
        /\ \A a \in {"sha224", "sha256", "sha384", "sha512"} :
             sha2_final(sha2_update(sha2_update(sha2_init(Algs[a].size, junk), one), two)) = RefHash(a, msg)
        /\ \A a \in {"gost256", "gost512"} :
             gost3411_2012_final(gost3411_2012_update(gost3411_2012_update(
                gost3411_2012_init(Algs[a].size), one), two)) = RefHash(a, msg)

\* The HMAC of a message (shorter than a word can count) under a key of any
\* length is RFC 2104's, and the strings spell the digests.
HmacRight(key, msg, junk) ==
    /\ md5_hmac_get_digest_str(junk, key, msg) = CvtHex(RefHmac("md5", key, msg))
    /\ sha1_hmac_get_digest_str(junk, key, msg) = CvtHex(RefHmac("sha1", key, msg))
    /\ \A a \in {"sha224", "sha256", "sha384", "sha512"} :
         sha2_hmac_get_digest_str(Algs[a].size * BITS, junk, key, msg) = CvtHex(RefHmac(a, key, msg))
    /\ \A a \in {"gost256", "gost512"} :
         gost3411_2012_hmac_get_digest_str(Algs[a].size * BITS, key, msg) = CvtHex(RefHmac(a, key, msg))
    /\ md5_get_digest_str(junk, msg) = CvtHex(RefHash("md5", msg))
    /\ sha1_get_digest_str(junk, msg) = CvtHex(RefHash("sha1", msg))
    /\ sha2_get_digest_str(Algs["sha384"].size, junk, msg) = CvtHex(RefHash("sha384", msg))
    /\ gost3411_2012_get_digest_str(Algs["gost512"].size, msg) = CvtHex(RefHash("gost512", msg))
=============================================================================
