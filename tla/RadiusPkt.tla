----------------------------- MODULE RadiusPkt -----------------------------
(***************************************************************************)
(* RADIUS packets (proto/radius.h): building, walking the attributes,      *)
(* hiding the password, signing and verifying.                             *)
(*                                                                         *)
(* A packet is its code, id, authenticator, the length its header states   *)
(* and the bytes behind the header.  Offsets count from the start of the   *)
(* packet, as in the code.  The digests are parameters: nothing here       *)
(* depends on which function MD5 is.                                       *)
(***************************************************************************)
EXTENDS Loops, SequencesExt, Bitwise

CONSTANTS
    MD5_HASH_SIZE,
    md5(_),                 \* digest of a sequence of bytes (external)
    hmac_md5(_, _),         \* digest under a key (external)
    RADIUS_PKT_MAX_SIZE,
    RADIUS_A_T_USER_PASSWORD_MAX_LEN,
    RADIUS_ATTR_DATA_SIZE_MAX,
    rad_attr_params         \* type -> [data_type, len_min, len_max]

RADIUS_PKT_HDR_SIZE == 4 + MD5_HASH_SIZE
UserPassword == 2
ChapPassword == 3
EapMsg == 79
MsgAuthentic == 80

RandomAuthr == {"access_request", "status_server", "status_client"}
ZeroAuthr == {"accounting_request", "disconnect_request", "coa_request"}
Replies == {"access_accept", "access_reject", "access_challenge",
            "disconnect_ack", "disconnect_nak", "coa_ack", "coa_nak"}
Codes == RandomAuthr \cup ZeroAuthr \cup Replies \cup {"accounting_response"}

NoPkt == [code |-> "none"]
Zeros(n) == [i \in 1 .. n |-> 0]
(* The bytes of a packet the digests run over; code, id and length make the first four. *)
Head4(pkt) == <<Len(pkt.code), pkt.id, pkt.len \div 256, pkt.len % 256>>
Byte(pkt, off) == pkt.body[off - RADIUS_PKT_HDR_SIZE + 1]
Bytes(pkt, off, n) == SubSeq(pkt.body, off - RADIUS_PKT_HDR_SIZE + 1, off - RADIUS_PKT_HDR_SIZE + n)
SetBytesAt(pkt, off, s) ==
    [pkt EXCEPT !.body = [i \in DOMAIN @ |->
        LET k == i - (off - RADIUS_PKT_HDR_SIZE) IN IF k \in DOMAIN s THEN s[k] ELSE @[i]]]
Attrs(pkt) == Bytes(pkt, RADIUS_PKT_HDR_SIZE, pkt.len - RADIUS_PKT_HDR_SIZE)

-----------------------------------------------------------------------------
(* Attributes *)

radius_attr_len_chk(type, len) ==
    LET prm == rad_attr_params[type]
        lengths == CASE prm.data_type = "none" -> 0 .. 255
                     [] prm.data_type \in {"str", "text", "adv", "any"} ->
                          {l \in 1 .. 255 : /\ prm.len_min # 255 => l >= prm.len_min
                                            /\ prm.len_max # 0 => l <= prm.len_max}
                     [] prm.data_type \in {"ipv4", "int32", "time32"} -> {4}
                     [] prm.data_type = "int64" -> {8}
                     [] prm.data_type = "ipv6" -> {16}
                     [] prm.data_type = "ipv6_prefix" -> 2 .. 18
                     [] prm.data_type = "vendor_spec" -> 5 .. 255
                     [] prm.data_type = "ext" -> 2 .. 255
                     [] prm.data_type = "ext_long" -> 3 .. 255
                     [] OTHER -> {}
    IN  IF type = 0 \/ len = 0 \/ len \notin lengths THEN "EINVAL" ELSE "ok"

radius_pkt_attr_get_from_offset(pkt, off) ==
    IF off < RADIUS_PKT_HDR_SIZE \/ off > pkt.len THEN "EINVAL"
    ELSE IF off + 1 >= pkt.len \/ off + Byte(pkt, off + 1) > pkt.len THEN "EBADMSG"
    ELSE "ok"

radius_pkt_attr_chk(pkt, off) ==
    IF \/ Byte(pkt, off) = 0
       \/ Byte(pkt, off + 1) < 2
       \/ radius_attr_len_chk(Byte(pkt, off), Byte(pkt, off + 1) - 2) # "ok"
    THEN "EBADMSG" ELSE "ok"

(* The offset of the first attribute of a type at or behind an offset; 0 is the first attribute. *)
radius_pkt_attr_find_raw(pkt, offset, type) ==
    LET RECURSIVE Find(_)
        Find(off) ==
            LET left == pkt.len - off IN
            IF left = 0 THEN [err |-> "ENOATTR", off |-> 0]
            ELSE IF left < 2 \/ left < Byte(pkt, off + 1) \/ Byte(pkt, off) = 0 \/ Byte(pkt, off + 1) < 2
            THEN [err |-> "EBADMSG", off |-> 0]
            ELSE IF Byte(pkt, off) = type THEN [err |-> "ok", off |-> off]
            ELSE Find(off + Byte(pkt, off + 1))
    IN  IF offset = 0 THEN Find(RADIUS_PKT_HDR_SIZE)
        ELSE IF radius_pkt_attr_get_from_offset(pkt, offset) # "ok" THEN [err |-> "EINVAL", off |-> 0]
        ELSE Find(offset)

AttrData(pkt, off) == Bytes(pkt, off + 2, Byte(pkt, off + 1) - 2)

radius_pkt_attr_get_data_ptr_raw(pkt, off) ==
    LET err == radius_pkt_attr_get_from_offset(pkt, off) IN
    IF err # "ok" THEN [err |-> err] ELSE [err |-> "ok", type |-> Byte(pkt, off), data |-> AttrData(pkt, off)]

(* A password ends at its first zero: a decoded one is padded. *)
strnlen(s) == IF Contains(s, 0) THEN SelectInSeq(s, LAMBDA b : b = 0) - 1 ELSE Len(s)
radius_pkt_attr_get_data_ptr(pkt, off) ==
    LET a == radius_pkt_attr_get_data_ptr_raw(pkt, off) IN
    IF a.err = "ok" /\ a.type = UserPassword
    THEN [a EXCEPT !.data = SubSeq(@, 1, strnlen(@))] ELSE a

(* The data of up to count attributes of a type, one behind the other; 0 asks for all of   *)
(* them.  The next search starts behind the data that was copied.                          *)
radius_pkt_attr_get_data_to_buf(pkt, offset, count, type, buf_size) ==
    LET RECURSIVE Copy(_, _, _, _)
        Copy(off, left, data, err) ==
            LET found == radius_pkt_attr_find_raw(pkt, off, type)
                a == radius_pkt_attr_get_data_ptr(pkt, found.off)
            IN  IF (count # 0 /\ left = 0) \/ found.err # "ok" THEN [err |-> err, data |-> data]
                ELSE IF a.err # "ok" \/ buf_size < Len(data) + Len(a.data)
                THEN [err |-> a.err, data |-> data]
                ELSE Copy(found.off + Len(a.data) + 2, left - 1, data \o a.data, "ok")
    IN  Copy(offset, count, <<>>, "ENOATTR")

-----------------------------------------------------------------------------
(* Hiding of the password *)

Blocks(n) == IF n = 0 THEN MD5_HASH_SIZE
             ELSE ((n + MD5_HASH_SIZE - 1) \div MD5_HASH_SIZE) * MD5_HASH_SIZE
XorBlock(s, j, digest) ==
    [i \in DOMAIN s |-> IF i \in j + 1 .. j + MD5_HASH_SIZE THEN s[i] ^^ digest[i - j] ELSE s[i]]
BlockAt(s, j) == SubSeq(s, j + 1, j + MD5_HASH_SIZE)

(* The size is reported even when the buffer is too small for it. *)
radius_pkt_attr_password_encode(authr, password, key, buf_size) ==
    LET size == Blocks(Len(password))
        Body(x, k) == LET j == k * MD5_HASH_SIZE
                          buf == XorBlock(x.buf, j, md5(key \o x.prev))
                      IN  [buf |-> buf, prev |-> BlockAt(buf, j)]
    IN  IF Len(password) > RADIUS_A_T_USER_PASSWORD_MAX_LEN THEN [err |-> "EINVAL", size |-> 0]
        ELSE IF size > buf_size THEN [err |-> "EOVERFLOW", size |-> size]
        ELSE [err |-> "ok", size |-> size,
              buf |-> For(size \div MD5_HASH_SIZE, Body,
                          [buf |-> password \o Zeros(size - Len(password)), prev |-> authr]).buf]

radius_pkt_attr_password_decode(authr, enc, key, buf_size) ==
    LET Body(x, k) == LET j == k * MD5_HASH_SIZE
                      IN  [buf |-> XorBlock(x.buf, j, md5(key \o x.prev)), prev |-> BlockAt(x.buf, j)]
    IN  IF Len(enc) = 0 \/ Len(enc) > RADIUS_A_T_USER_PASSWORD_MAX_LEN \/ Len(enc) % MD5_HASH_SIZE # 0
        THEN [err |-> "EINVAL"]
        ELSE IF Len(enc) > buf_size THEN [err |-> "EOVERFLOW", size |-> Len(enc)]
        ELSE LET buf == For(Len(enc) \div MD5_HASH_SIZE, Body, [buf |-> enc, prev |-> authr]).buf
             IN  [err |-> "ok", size |-> strnlen(buf), buf |-> buf]

-----------------------------------------------------------------------------
(* Message-Authenticator and authenticator *)

radius_pkt_attr_msg_authenticator_calc(pkt, off, key, inside, req) ==
    LET reply == pkt.code \in Replies \/ (pkt.code = "accounting_response" /\ req.code = "status_server")
        authr == IF inside \/ pkt.code \in RandomAuthr THEN pkt.authr
                 ELSE IF reply THEN req.authr ELSE Zeros(MD5_HASH_SIZE)
        zeroed == SetBytesAt(pkt, off + 2, Zeros(MD5_HASH_SIZE))
    IN  IF Byte(pkt, off + 1) # 2 + MD5_HASH_SIZE THEN [err |-> "EBADMSG"]
        ELSE IF ~inside /\ pkt.code \notin Codes THEN [err |-> "EBADMSG"]
        ELSE IF ~inside /\ pkt.code \in Replies /\ req = NoPkt THEN [err |-> "EINVAL"]
        ELSE [err |-> "ok", digest |-> hmac_md5(key, Head4(pkt) \o authr \o Attrs(zeroed))]

(* Both take the attribute at an offset, or look for it when the offset is 0. *)
MsgAuthenticator(pkt, offset) ==
    IF offset # 0
    THEN IF \/ radius_pkt_attr_get_from_offset(pkt, offset) # "ok"
            \/ Byte(pkt, offset) # MsgAuthentic
         THEN [err |-> "EINVAL"] ELSE [err |-> "ok", off |-> offset]
    ELSE LET f == radius_pkt_attr_find_raw(pkt, 0, MsgAuthentic) IN
         IF f.err # "ok" THEN [err |-> "none"] ELSE f
radius_pkt_attr_msg_authenticator_chk(pkt, offset, key, inside, req) ==
    LET at == MsgAuthenticator(pkt, offset) IN
    IF at.err # "ok" THEN at.err
    ELSE LET c == radius_pkt_attr_msg_authenticator_calc(pkt, at.off, key, inside, req) IN
         IF c.err # "ok" THEN c.err ELSE IF c.digest = AttrData(pkt, at.off) THEN "ok" ELSE "EBADMSG"
radius_pkt_attr_msg_authenticator_update(pkt, offset, key, inside, req) ==
    LET at == MsgAuthenticator(pkt, offset) IN
    IF at.err # "ok" THEN [err |-> at.err, pkt |-> pkt]
    ELSE LET c == radius_pkt_attr_msg_authenticator_calc(pkt, at.off, key, inside, req) IN
         IF c.err # "ok" THEN [err |-> c.err, pkt |-> pkt]
         ELSE [err |-> "ok", pkt |-> SetBytesAt(pkt, at.off + 2, c.digest)]

radius_pkt_authenticator_calc(pkt, key, inside, req) ==
    LET Digest(authr) == [err |-> "ok", digest |-> md5(Head4(pkt) \o authr \o Attrs(pkt) \o key)] IN
    IF pkt.code \in RandomAuthr THEN [err |-> "ok", digest |-> pkt.authr]
    ELSE IF inside THEN Digest(pkt.authr)
    ELSE IF pkt.code \in ZeroAuthr THEN Digest(Zeros(MD5_HASH_SIZE))
    ELSE IF pkt.code \in Codes /\ req # NoPkt THEN Digest(req.authr)
    ELSE [err |-> "EINVAL"]
radius_pkt_authenticator_chk(pkt, key, inside, req) ==
    LET c == radius_pkt_authenticator_calc(pkt, key, inside, req) IN
    IF pkt.code \in RandomAuthr THEN "ok"
    ELSE IF c.err # "ok" THEN "EINVAL" ELSE IF c.digest = pkt.authr THEN "ok" ELSE "EBADMSG"
radius_pkt_authenticator_update(pkt, key, inside, req) ==
    LET c == radius_pkt_authenticator_calc(pkt, key, inside, req) IN
    IF pkt.code \in RandomAuthr THEN [err |-> "ok", pkt |-> pkt]
    ELSE IF c.err # "ok" THEN [err |-> c.err, pkt |-> pkt]
    ELSE [err |-> "ok", pkt |-> [pkt EXCEPT !.authr = c.digest]]

-----------------------------------------------------------------------------
(* Building a packet in a buffer of buf_size bytes *)

radius_pkt_init(buf_size, code, id, authr) ==
    LET start(a) == [err |-> "ok", pkt |-> [code |-> code, id |-> id, authr |-> a,
                                            len |-> RADIUS_PKT_HDR_SIZE, body |-> <<>>]]
        given == authr # <<>>
    IN  IF RADIUS_PKT_HDR_SIZE > buf_size THEN [err |-> "EOVERFLOW"]
        ELSE IF code \in ZeroAuthr \/ (code = "accounting_response" /\ ~given) THEN start(Zeros(MD5_HASH_SIZE))
        ELSE IF code \in Codes /\ given THEN start(authr)
        ELSE [err |-> "EINVAL"]
radius_pkt_reply_init(buf_size, code, req) == radius_pkt_init(buf_size, code, req.id, req.authr)

(* A new attribute's data is what the buffer holds until it is written. *)
radius_pkt_attr_alloc_raw(pkt, buf_size, type, len, data) ==
    IF len > RADIUS_ATTR_DATA_SIZE_MAX THEN [err |-> "EINVAL", pkt |-> pkt]
    ELSE IF pkt.len + 2 + len > buf_size THEN [err |-> "EOVERFLOW", pkt |-> pkt]
    ELSE [err |-> "ok", off |-> pkt.len,
          pkt |-> [pkt EXCEPT !.len = @ + 2 + len, !.body = Attrs(pkt) \o <<type, 2 + len>> \o data]]
radius_pkt_attr_add_raw(pkt, buf_size, type, data) ==
    radius_pkt_attr_alloc_raw(pkt, buf_size, type, Len(data), data)

(* The size of a password's attribute comes from a call of the encoder that offers it no   *)
(* buffer, which is never 0.                                                               *)
radius_pkt_attr_add(pkt, buf_size, type, data) ==
    LET Present(t) == radius_pkt_attr_find_raw(pkt, 0, t).err
        Clash(t) == IF Present(t) = "ok" THEN "EEXIST" ELSE Present(t)
        size == radius_pkt_attr_password_encode(<<>>, data, <<>>, 0)
        Fail(e) == [err |-> e, pkt |-> pkt]
    IN  IF type = 0 THEN Fail("EINVAL")
        ELSE IF type = UserPassword
        THEN IF Len(data) > RADIUS_A_T_USER_PASSWORD_MAX_LEN THEN Fail("EINVAL")
             ELSE IF Present(type) # "ENOATTR" THEN Fail(Clash(type))
             ELSE IF Present(ChapPassword) # "ENOATTR" THEN Fail(Clash(ChapPassword))
             ELSE IF size.err # "ok" THEN Fail(size.err)
             ELSE radius_pkt_attr_alloc_raw(pkt, buf_size, type, size.size,
                                            data \o Zeros(size.size - Len(data)))
        ELSE IF type = MsgAuthentic
        THEN IF Present(type) # "ENOATTR" THEN Fail(Clash(type))
             ELSE radius_pkt_attr_alloc_raw(pkt, buf_size, type, MD5_HASH_SIZE, Zeros(MD5_HASH_SIZE))
        ELSE IF radius_attr_len_chk(type, Len(data)) # "ok" THEN Fail(radius_attr_len_chk(type, Len(data)))
        ELSE radius_pkt_attr_add_raw(pkt, buf_size, type, data)

(* Numbers and ports are added as four bytes, addresses as a whole sockaddr. *)
radius_pkt_attr_add_uint32(pkt, buf_size, type, data) == radius_pkt_attr_add(pkt, buf_size, type, data)
radius_pkt_attr_add_addr(pkt, buf_size, type_v4, type_v6, family, sa) ==
    IF family = "v4" THEN radius_pkt_attr_add(pkt, buf_size, type_v4, SubSeq(sa, 1, 16))
    ELSE IF family = "v6" THEN radius_pkt_attr_add(pkt, buf_size, type_v6, SubSeq(sa, 1, 28))
    ELSE [err |-> "EINVAL", pkt |-> pkt]

-----------------------------------------------------------------------------
(* Whole packets *)

radius_pkt_chk(pkt, pkt_size) ==
    LET RECURSIVE Walk(_, _)
        Walk(off, types) ==
            LET left == pkt.len - off IN
            IF left = 0 THEN [err |-> "ok", types |-> types]
            ELSE IF left < 2 \/ left < Byte(pkt, off + 1) \/ radius_pkt_attr_chk(pkt, off) # "ok"
            THEN [err |-> "EBADMSG"]
            ELSE Walk(off + Byte(pkt, off + 1), Append(types, Byte(pkt, off)))
        attrs == Walk(RADIUS_PKT_HDR_SIZE, <<>>)
        Count(t) == Len(SelectSeq(attrs.types, LAMBDA x : x = t))
    IN  IF \/ pkt.len > pkt_size \/ RADIUS_PKT_HDR_SIZE > pkt.len \/ RADIUS_PKT_MAX_SIZE < pkt.len
           \/ pkt.code \notin Codes
        THEN "EBADMSG"
        ELSE IF attrs.err # "ok" THEN "EBADMSG"
        ELSE IF \/ Count(MsgAuthentic) > 1
                \/ Count(MsgAuthentic) = 0 /\ (pkt.code = "status_server" \/ Count(EapMsg) # 0)
        THEN "EBADMSG" ELSE "ok"

(* Signing adds the Message-Authenticator; a packet that has one is refused. *)
radius_pkt_sign(pkt, buf_size, key, add_msg_authr) ==
    LET at == radius_pkt_attr_find_raw(pkt, 0, UserPassword)
        enc == IF at.err # "ok" THEN [err |-> "ok", buf |-> <<>>]
               ELSE radius_pkt_attr_password_encode(pkt.authr, AttrData(pkt, at.off), key,
                                                    Len(AttrData(pkt, at.off)))
        hidden == IF at.err # "ok" \/ enc.err # "ok" THEN pkt ELSE SetBytesAt(pkt, at.off + 2, enc.buf)
        found == radius_pkt_attr_find_raw(hidden, 0, MsgAuthentic)
        added == IF add_msg_authr THEN radius_pkt_attr_add(hidden, buf_size, MsgAuthentic, <<>>)
                 ELSE IF found.err = "ENOATTR" THEN [err |-> "ok", off |-> 0, pkt |-> hidden]
                 ELSE [err |-> found.err, off |-> found.off, pkt |-> hidden]
        signed == IF added.err # "ok" \/ added.off = 0 THEN added
                  ELSE radius_pkt_attr_msg_authenticator_update(added.pkt, added.off, key, TRUE, NoPkt)
    IN  IF enc.err # "ok" THEN [err |-> enc.err, pkt |-> pkt]
        ELSE IF signed.err # "ok" THEN [err |-> signed.err, pkt |-> signed.pkt]
        ELSE radius_pkt_authenticator_update(signed.pkt, key, TRUE, NoPkt)

radius_pkt_verify(pkt, key, req) ==
    LET msg == radius_pkt_attr_find_raw(pkt, 0, MsgAuthentic)
        msg_err == IF msg.err # "ok" THEN "ok"
                   ELSE radius_pkt_attr_msg_authenticator_chk(pkt, msg.off, key, FALSE, req)
        authr_err == radius_pkt_authenticator_chk(pkt, key, FALSE, req)
        at == radius_pkt_attr_find_raw(pkt, 0, UserPassword)
        dec == radius_pkt_attr_password_decode(pkt.authr, AttrData(pkt, at.off), key,
                                               Len(AttrData(pkt, at.off)))
    IN  IF msg_err # "ok" THEN [err |-> msg_err, pkt |-> pkt]
        ELSE IF authr_err # "ok" THEN [err |-> authr_err, pkt |-> pkt]
        ELSE IF at.err # "ok" THEN [err |-> "ok", pkt |-> pkt]
        ELSE IF dec.err # "ok" THEN [err |-> dec.err, pkt |-> pkt]
        ELSE [err |-> "ok", pkt |-> SetBytesAt(pkt, at.off + 2, dec.buf)]

-----------------------------------------------------------------------------
(* A packet that was signed is accepted by the other side, which reads back every          *)
(* attribute as it was added, the hidden password included.  An Accounting-Response with a *)
(* Message-Authenticator is the exception: it is signed over the request's authenticator   *)
(* (radius_pkt_sign) and checked over zeros (radius_pkt_attr_msg_authenticator_calc).      *)
SignedIsVerified(code, authr, attrs, key, add, req) ==
    LET big == 10000
        start == IF code \in RandomAuthr THEN radius_pkt_init(big, code, req.id, authr).pkt
                 ELSE radius_pkt_reply_init(big, code, req).pkt
        padded == [i \in DOMAIN attrs |->
                     IF attrs[i][1] = UserPassword
                     THEN attrs[i][2] \o Zeros(Blocks(Len(attrs[i][2])) - Len(attrs[i][2])) ELSE attrs[i][2]]
        built == FoldLeft(LAMBDA p, i : radius_pkt_attr_add_raw(p, big, attrs[i][1], padded[i]).pkt,
                          start, [i \in DOMAIN attrs |-> i])
        s == radius_pkt_sign(built, big, key, add)
        v == radius_pkt_verify(s.pkt, key, req)
    IN  /\ s.err = "ok"
        /\ radius_pkt_chk(s.pkt, s.pkt.len) = "ok"
        /\ v.err = "ok"
        /\ \A i \in DOMAIN attrs :
              LET f == radius_pkt_attr_find_raw(v.pkt, 0, attrs[i][1]) IN
              (\A j \in 1 .. i - 1 : attrs[j][1] # attrs[i][1])
                  => /\ radius_pkt_attr_get_data_ptr(v.pkt, f.off).data = attrs[i][2]
                     /\ radius_pkt_attr_get_data_to_buf(v.pkt, 0, 1, attrs[i][1], big) =
                            [err |-> "ok", data |-> attrs[i][2]]
=============================================================================
