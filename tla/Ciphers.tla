------------------------------ MODULE Ciphers ------------------------------
(***************************************************************************)
(* The ciphers of crypto/cipher: gost28147.h (the block cipher and its     *)
(* MAC) and chacha.h (ChaCha, HChaCha, XChaCha and the processing of a     *)
(* message in pieces).                                                     *)
(*                                                                         *)
(* A byte has two NIBBLEs, a word (the code's uint32_t) WORD_BYTES bytes.  *)
(* The code's sizes are NIBBLE 16, WORD_BYTES 4 and ROT 11; smaller ones   *)
(* keep every step of the code.  The machine is little endian.             *)
(***************************************************************************)
EXTENDS Integers, Sequences, SequencesExt, Functions, Bitwise, Loops

CONSTANTS NIBBLE, WORD_BYTES,
          ROT,             \* the rotation of gost28147_block32()
          ROTS,            \* the four rotations of CHACHA_QUARTERROUND
          K256, K128,      \* chacha_constants_k256, chacha_constants_k128
          NULL

BYTE == NIBBLE * NIBBLE
WORD == BYTE ^ WORD_BYTES
WordBits == CHOOSE n \in 1..32 : 2 ^ n = WORD

\* The sequence f, evaluated.
Seq1(f) == <<>> \o f

U8TO32_LITTLE(b) == For(WORD_BYTES, LAMBDA s, i: s + b[i + 1] * BYTE ^ i, 0)
U32TO8_LITTLE(w) == Seq1([i \in 1..WORD_BYTES |-> (w \div BYTE ^ (i - 1)) % BYTE])
ntohl(w) == U8TO32_LITTLE(Reverse(U32TO8_LITTLE(w)))
Word(b, i) == U8TO32_LITTLE(SubSeq(b, i * WORD_BYTES + 1, (i + 1) * WORD_BYTES))
Words(b) == Seq1([i \in 1..(Len(b) \div WORD_BYTES) |-> Word(b, i - 1)])
Bytes(ws) == FlattenSeq(Seq1([i \in DOMAIN ws |-> U32TO8_LITTLE(ws[i])]))

\* A machine integer kept at the bytes b, of whatever width, and the bytes of
\* one: how an aligned pointer is read and written.
Load(b) == FoldRight(LAMBDA d, v: v * BYTE + d, b, 0)
Store(v, size) == Seq1([i \in 1..size |-> (v \div BYTE ^ (i - 1)) % BYTE])
LoadAll(b, size) == Seq1([i \in 1..(Len(b) \div size) |-> Load(SubSeq(b, (i - 1) * size + 1, i * size))])
StoreAll(vs, size) == FlattenSeq(Seq1([i \in DOMAIN vs |-> Store(vs[i], size)]))

ROTL(w, n) == ((w * 2 ^ n) % WORD) + w \div 2 ^ (WordBits - n)

-----------------------------------------------------------------------------
(* gost28147.h                                                             *)

GBLK == 2 * WORD_BYTES

\* One row of the S-box for each nibble of the word, then a rotation.
gost28147_block32(ctx, src) ==
    ROTL(For(2 * WORD_BYTES,
             LAMBDA s, i: s + ctx.sbox[i + 1][((src \div NIBBLE ^ i) % NIBBLE) + 1] * NIBBLE ^ i, 0),
         ROT)

\* Eight rounds, one key word each; the halves change roles every round.
KeyRounds(ctx, n, keys) ==
    For(8, LAMBDA s, i:
            IF i % 2 = 0
            THEN <<s[1], s[2] ^^ gost28147_block32(ctx, (s[1] + keys[i + 1]) % WORD)>>
            ELSE <<s[1] ^^ gost28147_block32(ctx, (s[2] + keys[i + 1]) % WORD), s[2]>>, n)
DIRECT_KEY_ROUND8(ctx, n) == KeyRounds(ctx, n, ctx.key)
REVERSE_KEY_ROUND8(ctx, n) == KeyRounds(ctx, n, Reverse(ctx.key))

gost28147_mac_block(ctx, n1, n2) ==
    [ctx EXCEPT !.mac = DIRECT_KEY_ROUND8(ctx, DIRECT_KEY_ROUND8(ctx, <<@[1] ^^ n1, @[2] ^^ n2>>))]

gost28147_block_encrypt(ctx, n1, n2) ==
    Reverse(REVERSE_KEY_ROUND8(ctx, For(3, LAMBDA s, i: DIRECT_KEY_ROUND8(ctx, s), <<n1, n2>>)))
gost28147_block_decrypt(ctx, n1, n2) ==
    Reverse(For(3, LAMBDA s, i: REVERSE_KEY_ROUND8(ctx, s), DIRECT_KEY_ROUND8(ctx, <<n1, n2>>)))

BlocksOf(src) == Seq1([k \in 1..(Len(src) \div GBLK) |-> SubSeq(src, (k - 1) * GBLK + 1, k * GBLK)])
EachBlock(f(_), src) == FlattenSeq(Seq1([k \in DOMAIN BlocksOf(src) |-> f(BlocksOf(src)[k])]))

\* Whether the pointers are aligned selects one of two loops: words read and
\* written as the machine does, or byte by byte.
In(b, i, aligned) ==
    LET w == SubSeq(b, i * WORD_BYTES + 1, (i + 1) * WORD_BYTES)
    IN  IF aligned THEN Load(w) ELSE U8TO32_LITTLE(w)
Out(ns, aligned) == IF aligned THEN StoreAll(ns, WORD_BYTES) ELSE Bytes(ns)
LeIn(b, aligned) == <<In(b, 0, aligned), In(b, 1, aligned)>>
BeIn(b, aligned) == <<ntohl(In(b, 1, aligned)), ntohl(In(b, 0, aligned))>>
BeOut(n, aligned) == Out(<<ntohl(n[2]), ntohl(n[1])>>, aligned)

gost28147_blocks_mac(ctx, src, aligned) ==
    For(Len(BlocksOf(src)),
        LAMBDA c, k: LET n == LeIn(BlocksOf(src)[k + 1], aligned) IN gost28147_mac_block(c, n[1], n[2]), ctx)
gost28147_blocks_mac_be(ctx, src, aligned) ==
    For(Len(BlocksOf(src)),
        LAMBDA c, k: LET n == BeIn(BlocksOf(src)[k + 1], aligned) IN gost28147_mac_block(c, n[1], n[2]), ctx)

gost28147_blocks_encrypt(ctx, src, aligned) ==
    EachBlock(LAMBDA b: LET n == LeIn(b, aligned)
                        IN  Out(gost28147_block_encrypt(ctx, n[1], n[2]), aligned), src)
gost28147_blocks_encrypt_be(ctx, src, aligned) ==
    EachBlock(LAMBDA b: LET n == BeIn(b, aligned)
                        IN  BeOut(gost28147_block_encrypt(ctx, n[1], n[2]), aligned), src)

\* The unaligned loops of the two decryptions load the block with the byte
\* order of the other one.
gost28147_blocks_decrypt(ctx, src, aligned) ==
    EachBlock(LAMBDA b: LET n == IF aligned THEN LeIn(b, TRUE) ELSE BeIn(b, FALSE)
                        IN  Out(gost28147_block_decrypt(ctx, n[1], n[2]), aligned), src)
gost28147_blocks_decrypt_be(ctx, src, aligned) ==
    EachBlock(LAMBDA b: LET n == IF aligned THEN BeIn(b, TRUE) ELSE LeIn(b, FALSE)
                        IN  BeOut(gost28147_block_decrypt(ctx, n[1], n[2]), aligned), src)

gost28147_init(key, sbox) == [key |-> Words(key), sbox |-> sbox, mac |-> <<0, 0>>]
gost28147_init_be(key, sbox) ==
    [gost28147_init(key, sbox) EXCEPT !.key = Seq1([i \in DOMAIN @ |-> ntohl(@[i])])]
MacOut(mac, size) == [i \in 1..size |-> IF i <= GBLK THEN Bytes(mac)[i] ELSE 0]
gost28147_final(ctx, mac_size) == MacOut(ctx.mac, mac_size)
gost28147_final_be(ctx, mac_size) == MacOut(<<ntohl(ctx.mac[1]), ntohl(ctx.mac[2])>>, mac_size)

-----------------------------------------------------------------------------
(* chacha.h                                                                *)

CHACHA_BLOCK_LEN == 16 * WORD_BYTES

CHACHA_QUARTERROUND(n, a, b, c, d) ==
    LET half(x, p, q, r, s1) ==      \* p += q; r = ROTL(r ^ p, s1)
            LET p1 == (x[p] + x[q]) % WORD IN [x EXCEPT ![p] = p1, ![r] = ROTL(x[r] ^^ p1, s1)]
        n1 == half(n, a, b, d, ROTS[1])
        n2 == half(n1, c, d, b, ROTS[2])
        n3 == half(n2, a, b, d, ROTS[3])
    IN  half(n3, c, d, b, ROTS[4])

CHACHA_DOUBLEROUND(n) ==
    LET q == <<<<1, 5, 9, 13>>, <<2, 6, 10, 14>>, <<3, 7, 11, 15>>, <<4, 8, 12, 16>>,
               <<1, 6, 11, 16>>, <<2, 7, 12, 13>>, <<3, 8, 9, 14>>, <<4, 5, 10, 15>>>>
    IN  For(8, LAMBDA s, i: CHACHA_QUARTERROUND(s, q[i + 1][1], q[i + 1][2], q[i + 1][3], q[i + 1][4]), n)

\* for (i = 0; i < rounds; i += 2)
Rounds(n, rounds) == For((rounds + 1) \div 2, LAMBDA s, i: CHACHA_DOUBLEROUND(s), n)

\* A key of 8 words, or one of 4 used twice.
chacha_key_set(ctx, key) ==
    LET k == Words(key)
    IN  [ctx EXCEPT !.state = (IF Len(k) = 8 THEN K256 \o k ELSE K128 \o k \o k) \o SubSeq(@, 13, 16)]

Optional(b) == IF b = NULL THEN <<0, 0>> ELSE Words(b)
chacha_counter_set(ctx, counter) ==
    [ctx EXCEPT !.state = SubSeq(@, 1, 12) \o Optional(counter) \o SubSeq(@, 15, 16)]
chacha_counter_set_u64(ctx, counter) ==
    [ctx EXCEPT !.state = [@ EXCEPT ![13] = counter % WORD, ![14] = (counter \div WORD) % WORD]]
chacha_counter_get_u64(ctx) == ctx.state[13] + ctx.state[14] * WORD
chacha_iv_set(ctx, iv) == [ctx EXCEPT !.state = SubSeq(@, 1, 14) \o Optional(iv)]

\* A new key from a key and the first four words of the nonce: no addition
\* of the initial state at the end.
hchacha(ctx, key, iv, rounds) ==
    LET s == chacha_key_set(ctx, key).state
        n == SubSeq(s, 1, 12) \o (IF iv = NULL THEN <<0, 0, 0, 0>> ELSE SubSeq(Words(iv), 1, 4))
        r == Rounds(n, rounds)
    IN  Bytes(SubSeq(r, 1, 4) \o SubSeq(r, 13, 16))
xchacha_set_key_iv_rounds(ctx, key, iv, rounds) ==
    LET keyed == [ctx EXCEPT !.state = K256 \o Words(hchacha(ctx, key, iv, rounds)) \o SubSeq(@, 13, 16),
                             !.rounds = rounds]
    IN  chacha_iv_set(keyed, IF iv = NULL THEN NULL ELSE SubSeq(iv, 4 * WORD_BYTES + 1, Len(iv)))

\* One block: the words x of the key stream, combined with src when there is
\* one, and the counter stepped over its two words.
KeyStream(ctx) ==
    LET x == Rounds(ctx.state, ctx.rounds)
    IN  Seq1([i \in 1..16 |-> (x[i] + ctx.state[i]) % WORD])
Stepped(ctx) ==
    LET low == (ctx.state[13] + 1) % WORD
    IN  [ctx EXCEPT !.state = [@ EXCEPT ![13] = low,
                                        ![14] = IF low = 0 THEN (@ + 1) % WORD ELSE @]]
Combined(src, ks) == Seq1([i \in DOMAIN ks |-> src[i] ^^ ks[i]])

\* The three blocks move the data in units of two words, of a word, and of
\* bytes put together to a word.
CHACHA_BLOCK_XOR_ALIGN8(src, x) ==
    StoreAll(Combined(LoadAll(src, 2 * WORD_BYTES), LoadAll(StoreAll(x, WORD_BYTES), 2 * WORD_BYTES)),
             2 * WORD_BYTES)
CHACHA_BLOCK_COPY_ALIGN8(x) == StoreAll(LoadAll(StoreAll(x, WORD_BYTES), 2 * WORD_BYTES), 2 * WORD_BYTES)
CHACHA_BLOCK_XOR_ALIGN4(src, x) == StoreAll(Combined(LoadAll(src, WORD_BYTES), x), WORD_BYTES)
CHACHA_BLOCK_COPY_ALIGN4(x) == StoreAll(x, WORD_BYTES)
CHACHA_BLOCK_XOR_2UNALIGN4(src, x) == Bytes(Combined(Words(src), x))
CHACHA_BLOCK_COPY_2UNALIGN4(x) == Bytes(x)

chacha_block_aligned8(ctx, src) ==
    [ctx |-> Stepped(ctx),
     dst |-> IF src # NULL THEN CHACHA_BLOCK_XOR_ALIGN8(src, KeyStream(ctx))
             ELSE CHACHA_BLOCK_COPY_ALIGN8(KeyStream(ctx))]
chacha_block_aligned4(ctx, src) ==
    [ctx |-> Stepped(ctx),
     dst |-> IF src # NULL THEN CHACHA_BLOCK_XOR_ALIGN4(src, KeyStream(ctx))
             ELSE CHACHA_BLOCK_COPY_ALIGN4(KeyStream(ctx))]
chacha_block_unaligneg(ctx, src) ==
    [ctx |-> Stepped(ctx),
     dst |-> IF src # NULL THEN CHACHA_BLOCK_XOR_2UNALIGN4(src, KeyStream(ctx))
             ELSE CHACHA_BLOCK_COPY_2UNALIGN4(KeyStream(ctx))]

\* Part of src, if there is a src.
Cut(src, a, b) == IF src = NULL THEN NULL ELSE SubSeq(src, a, b)

\* align: how src and dst are aligned, 8, 4 or 1.
chacha_blocks_transform(ctx, src, count, align) ==
    For(count, LAMBDA s, k:
            LET b == Cut(src, k * CHACHA_BLOCK_LEN + 1, (k + 1) * CHACHA_BLOCK_LEN)
                r == CASE align = 8 -> chacha_block_aligned8(s.ctx, b)
                       [] align = 4 -> chacha_block_aligned4(s.ctx, b)
                       [] OTHER -> chacha_block_unaligneg(s.ctx, b)
            IN  [ctx |-> r.ctx, dst |-> s.dst \o r.dst],
        [ctx |-> ctx, dst |-> <<>>])

chacha_init(ctx, key, counter, iv, rounds) ==
    [chacha_iv_set(chacha_counter_set(chacha_key_set(ctx, key), counter), iv) EXCEPT !.rounds = rounds]
xchacha_init(ctx, key, counter, iv, rounds) ==
    chacha_counter_set(xchacha_set_key_iv_rounds(ctx, key, iv, rounds), counter)

\* A context that has not been initialised.
Fresh(junk) == [state |-> [i \in 1..16 |-> junk], rounds |-> 0]

\* A stream also keeps the part of the last key stream block not used yet.
chacha_str_init(ctx, key, counter, iv, rounds) ==
    [c |-> chacha_init(ctx, key, counter, iv, rounds), ks |-> <<>>]
xchacha_str_init(ctx, key, counter, iv, rounds) ==
    [c |-> xchacha_init(ctx, key, counter, iv, rounds), ks |-> <<>>]

\* bytes of src (or of the bare key stream): the saved key stream first, then
\* whole blocks, then one more block for the tail whose rest is saved.
chacha_str_data_crypt(s, src, bytes, align) ==
    LET saved == IF Len(s.ks) > bytes THEN bytes ELSE Len(s.ks)
        head == IF src = NULL THEN SubSeq(s.ks, 1, saved) ELSE Combined(SubSeq(src, 1, saved), SubSeq(s.ks, 1, saved))
        ks1 == SubSeq(s.ks, saved + 1, Len(s.ks))
        count == (bytes - saved) \div CHACHA_BLOCK_LEN
        body == chacha_blocks_transform(s.c, Cut(src, saved + 1, bytes), count, align)
        done == saved + count * CHACHA_BLOCK_LEN
        left == bytes - done
        padded == IF src = NULL THEN NULL
                  ELSE SubSeq(src, done + 1, bytes) \o [i \in 1..(CHACHA_BLOCK_LEN - left) |-> 0]
        tail == chacha_block_aligned8(body.ctx, padded)
    IN  IF left = 0 THEN [s |-> [c |-> body.ctx, ks |-> ks1], dst |-> head \o body.dst]
        ELSE [s |-> [c |-> tail.ctx, ks |-> SubSeq(tail.dst, left + 1, CHACHA_BLOCK_LEN)],
              dst |-> head \o body.dst \o SubSeq(tail.dst, 1, left)]

chacha(ctx, key, counter, iv, rounds, src, bytes) ==
    chacha_str_data_crypt(chacha_str_init(ctx, key, counter, iv, rounds), src, bytes, 8).dst
xchacha(ctx, key, counter, iv, rounds, src, bytes) ==
    chacha_str_data_crypt(xchacha_str_init(ctx, key, counter, iv, rounds), src, bytes, 8).dst

-----------------------------------------------------------------------------
(* What the ciphers promise.                                               *)

\* The key stream of a ChaCha state as one sequence: block k has the 64-bit
\* counter increased by k.
RefStream(ctx, bytes) ==
    LET n == (bytes + CHACHA_BLOCK_LEN - 1) \div CHACHA_BLOCK_LEN
        at(k) == chacha_counter_set_u64(ctx, chacha_counter_get_u64(ctx) + k)
    IN  SubSeq(FlattenSeq(Seq1([k \in 1..n |-> Bytes(KeyStream(at(k - 1)))])), 1, bytes)

\* However a message is cut in three, at whatever alignment, the pieces are
\* encrypted with consecutive parts of one key stream; a second pass decrypts.
StreamRight(ctx, src, cut1, cut2, align) ==
    LET s0 == [c |-> ctx, ks |-> <<>>]
        a == chacha_str_data_crypt(s0, SubSeq(src, 1, cut1), cut1, align)
        b == chacha_str_data_crypt(a.s, NULL, cut2 - cut1, align)
        c == chacha_str_data_crypt(b.s, SubSeq(src, cut2 + 1, Len(src)), Len(src) - cut2, align)
        ref == RefStream(ctx, Len(src))
    IN  /\ a.dst = Combined(SubSeq(src, 1, cut1), SubSeq(ref, 1, cut1))
        /\ b.dst = SubSeq(ref, cut1 + 1, cut2)
        /\ c.dst = Combined(SubSeq(src, cut2 + 1, Len(src)), SubSeq(ref, cut2 + 1, Len(src)))

\* Encryption does not depend on the alignment and aligned decryption undoes
\* it, in either byte order; unaligned decryption undoes it only when every
\* block is handed over with its bytes reversed.  The MAC depends neither on
\* the alignment nor on how the message is cut at block borders.
GostRight(key, sbox, src, cut, aligned) ==
    LET le == gost28147_init(key, sbox)
        be == gost28147_init_be(key, sbox)
        leText == gost28147_blocks_encrypt(le, src, aligned)
        beText == gost28147_blocks_encrypt_be(be, src, aligned)
        Reversed(text) == EachBlock(Reverse, text)
    IN  /\ gost28147_blocks_decrypt(le, leText, TRUE) = src
        /\ gost28147_blocks_decrypt_be(be, beText, TRUE) = src
        /\ gost28147_blocks_decrypt(le, Reversed(leText), FALSE) = src
        /\ gost28147_blocks_decrypt_be(be, Reversed(beText), FALSE) = src
        /\ gost28147_final(gost28147_blocks_mac(gost28147_blocks_mac(le, SubSeq(src, 1, cut), aligned),
                SubSeq(src, cut + 1, Len(src)), ~aligned), GBLK) =
           gost28147_final(gost28147_blocks_mac(le, src, TRUE), GBLK)
        /\ gost28147_final_be(gost28147_blocks_mac_be(le, Reversed(src), aligned), GBLK + 1) =
           BeOut(Reverse(gost28147_blocks_mac(le, src, TRUE).mac), TRUE) \o <<0>>
=============================================================================
