------------------------------ MODULE DnsMsg ------------------------------
(***************************************************************************)
(* include/proto/dns.h: DNS messages are built by appending questions and  *)
(* resource records to a buffer, and read back by offset.  A message is    *)
(* its four counters and the bytes after the header; a name is a sequence  *)
(* of characters.  Offsets count from the start of the header, as in the   *)
(* code.  A read past the end of the message gives the byte beyond.        *)
(***************************************************************************)
EXTENDS Integers, Sequences, SequencesExt, Loops

CONSTANTS MSGBUF_SIZE,          \* size of the buffer a message is built in
          DNS_MAX_NAME_CYCLES,  \* limit of compression jumps in a name
          beyond                \* what lies in memory after a message

HDR == 12                       \* sizeof(dns_hdr_t)
SEQ_LABEL_DATA_MASK == 63
DOT == 46
OPT == 41                       \* DNS_RR_TYPE_OPT

\* dns_hdr_create() in host byte order.
dns_hdr_create == [qd |-> 0, an |-> 0, ns |-> 0, ar |-> 0, body |-> <<>>]

Size(m) == HDR + Len(m.body)
ByteAt(m, off) == IF off - HDR + 1 \in DOMAIN m.body THEN m.body[off - HDR + 1] ELSE beyond
U16(m, off) == 256 * ByteAt(m, off) + ByteAt(m, off + 1)
Be16(n) == <<n \div 256, n % 256>>
Err(e) == [err |-> e]

-----------------------------------------------------------------------------
\* The zones of a name: what is between the dots.
DomainZones(name) ==
    FoldLeft(LAMBDA zs, c : IF c = DOT THEN Append(zs, <<>>)
                            ELSE [zs EXCEPT ![Len(zs)] = Append(@, c)], <<<<>>>>, name)

\* DomainNameToSequenceOfLabels(): every label preceded by its length.
DomainNameToSequenceOfLabels(name, room) ==
    LET zs == DomainZones(name)
        BadLabel(z) == Len(z) = 0 \/ Len(z) > SEQ_LABEL_DATA_MASK
    IN  IF (IF name = <<>> THEN 1 ELSE Len(name) + 2) > room THEN Err("EOVERFLOW")
        ELSE IF name = <<>> THEN [err |-> "", bytes |-> <<0>>]
        ELSE IF \E i \in DOMAIN zs : BadLabel(zs[i]) THEN Err("EINVAL")
        ELSE [err |-> "", bytes |-> FoldLeft(LAMBDA s, z : s \o <<Len(z)>> \o z, <<>>, zs) \o <<0>>]

Ctrl(label) == label \div 64          \* 0 length, 3 pointer, others unsupported

\* Mutation: a pointer is one byte long.
SequenceOfLabelsGetSize_Pointer(m, off) ==
    LET Step(s)  == LET label == ByteAt(m, s.pos) IN
            CASE Ctrl(label) # 0 \/ label = 0 -> [s EXCEPT !.err = "", !.pos = @ + 1]
              [] s.pos + 1 + label > Size(m) -> [s EXCEPT !.err = "EBADMSG"]
              [] OTHER -> [s EXCEPT !.pos = @ + 1 + label]
        end == While(LAMBDA s : s.err = "go", Step, [err |-> "go", pos |-> off])
    IN  [err |-> end.err, size |-> end.pos - off]

\* SequenceOfLabelsGetSize(): bytes a name takes where it stands.
SequenceOfLabelsGetSize(m, off) ==
    LET Plain(s) == s.err = "go"
        Step(s)  == LET label == ByteAt(m, s.pos)  data == s.pos + 1 IN
            CASE s.pos >= Size(m) /\ s.pos = off -> [s EXCEPT !.err = "EINVAL"]
              [] Ctrl(label) = 3 -> [s EXCEPT !.err = "", !.pos = data + 1]
              [] Ctrl(label) \in {1, 2} -> [s EXCEPT !.err = "", !.pos = data]
              [] data + label > Size(m) -> [s EXCEPT !.err = "EBADMSG"]
              [] label = 0 -> [s EXCEPT !.err = "", !.pos = data]
              [] OTHER -> [s EXCEPT !.pos = data + label]
        end == While(Plain, Step, [err |-> "go", pos |-> off])
    IN  [err |-> end.err, size |-> end.pos - off]

\* dns_msg_sequence_of_labels2name(): the name at off, pointers followed.
dns_msg_sequence_of_labels2name(m, off, room) ==
    LET Going(s) == s.err = "go"
        Step(s)  ==
          LET label == ByteAt(m, s.pos)
              to    == U16(m, s.pos) % 16384
              data  == s.pos + 1
          IN  CASE s.jumps >= DNS_MAX_NAME_CYCLES -> [s EXCEPT !.err = "ELOOP"]
                [] Ctrl(label) = 3 /\ (Size(m) < to \/ HDR > to \/ to = s.pos) -> [s EXCEPT !.err = "EBADMSG"]
                [] Ctrl(label) = 3 -> [s EXCEPT !.pos = to, !.jumps = @ + 1]
                [] Ctrl(label) # 0 -> [s EXCEPT !.err = "EOPNOTSUPP"]
                [] data + label > off + Size(m) -> [s EXCEPT !.err = "EBADMSG"]
                [] label = 0 -> [s EXCEPT !.err = ""]
                [] Len(s.name) + label + 1 >= room -> [s EXCEPT !.err = "EOVERFLOW"]
                [] OTHER -> [s EXCEPT !.pos = data + label,
                                      !.name = @ \o [i \in 1 .. label |-> ByteAt(m, data + i - 1)] \o <<DOT>>]
        end == While(Going, Step, [err |-> "go", pos |-> off, jumps |-> 0, name |-> <<>>])
    IN  IF HDR > off \/ Size(m) < off THEN Err("EINVAL")
        ELSE [err |-> end.err, name |-> IF end.name = <<>> THEN <<>> ELSE Front(end.name)]

\* dns_msg_sequence_of_labels_get_name_len(): its length, for any room.
dns_msg_sequence_of_labels_get_name_len(m, off) ==
    LET r == dns_msg_sequence_of_labels2name(m, off, 64 * (DNS_MAX_NAME_CYCLES + 1) + Size(m))
    IN  IF r.err # "" THEN Err(r.err) ELSE [err |-> "", len |-> Len(r.name)]

\* dns_msg_name2sequence_of_labels(): compression is not implemented.
dns_msg_name2sequence_of_labels(m, name, compress) ==
    IF compress THEN Err("EOPNOTSUPP")
    ELSE DomainNameToSequenceOfLabels(name, MSGBUF_SIZE - Size(m))

-----------------------------------------------------------------------------
\* dns_msg_question_add(): a question, counted in the header.
dns_msg_question_add(m, compress, name, type, class) ==
    LET labels == dns_msg_name2sequence_of_labels(m, name, compress) IN
    CASE MSGBUF_SIZE < Size(m) + 2 + Len(name) + 4 -> Err("EOVERFLOW")
      [] labels.err # "" -> Err(labels.err)
      [] OTHER -> [err |-> "", msg |-> [m EXCEPT !.body = @ \o labels.bytes \o Be16(type) \o Be16(class),
                                                 !.qd = @ + 1]]

dns_msg_question_get_data(m, off, room) ==
    LET size == SequenceOfLabelsGetSize(m, off)
        at   == off + size.size
        name == dns_msg_sequence_of_labels2name(m, off, room)
    IN  CASE off = 0 \/ Size(m) < off -> Err("EINVAL")
          [] size.err # "" \/ at + 4 > Size(m) -> Err("EBADMSG")
          [] name.err # "" -> Err(name.err)
          [] OTHER -> [err |-> "", name |-> name.name, type |-> U16(m, at),
                       class |-> U16(m, at + 2), size |-> size.size + 4]

\* dns_msg_question_get_size(): no name is asked for.
dns_msg_question_get_size(m, off) ==
    LET size == SequenceOfLabelsGetSize(m, off) IN
    IF off = 0 \/ Size(m) < off THEN Err("EINVAL")
    ELSE IF size.err # "" \/ off + size.size + 4 > Size(m) THEN Err("EBADMSG")
    ELSE [err |-> "", size |-> size.size + 4]

\* dns_msg_rr_add(): the caller counts the record in the header.
dns_msg_rr_add(m, compress, name, type, class, ttl, data) ==
    LET labels == dns_msg_name2sequence_of_labels(m, name, compress) IN
    CASE MSGBUF_SIZE < Size(m) + 2 + Len(name) + 10 + Len(data) -> Err("EOVERFLOW")
      [] labels.err # "" -> Err(labels.err)
      [] OTHER -> [err |-> "", msg |-> [m EXCEPT !.body = @ \o labels.bytes \o Be16(type) \o Be16(class)
                                                 \o Be16(ttl \div 65536) \o Be16(ttl % 65536)
                                                 \o Be16(Len(data)) \o data]]

\* dns_msg_optrr_add(): the OPT record has the root's name.
dns_msg_optrr_add(m, payload, version, ex_rcode, ex_flags, data) ==
    IF MSGBUF_SIZE < Size(m) + 11 + Len(data) THEN Err("EOVERFLOW")
    ELSE [err |-> "", msg |-> [m EXCEPT !.body = @ \o <<0>> \o Be16(OPT) \o Be16(payload)
                                          \o <<version, ex_rcode>> \o ex_flags
                                          \o Be16(Len(data)) \o data]]

\* dns_msg_rr_get_size()
dns_msg_rr_get_size(m, off) ==
    LET size  == SequenceOfLabelsGetSize(m, off)
        total == size.size + 10 + U16(m, off + size.size + 8)
    IN  IF off = 0 \/ Size(m) < off THEN Err("EINVAL")
        ELSE IF size.err # "" \/ off + total > Size(m) THEN Err("EBADMSG")
        ELSE [err |-> "", size |-> total]

\* The ttl field of an OPT record is left in network byte order.
SwappedTtl(m, at) == FoldRight(LAMBDA i, n : ByteAt(m, at + 4 + i) + 256 * n, <<0, 1, 2, 3>>, 0)

dns_msg_rr_get_data(m, off, room) ==
    LET size == dns_msg_rr_get_size(m, off)
        at   == off + SequenceOfLabelsGetSize(m, off).size
        name == dns_msg_sequence_of_labels2name(m, off, room)
        len  == U16(m, at + 8)
    IN  IF size.err # "" THEN Err(size.err)
        ELSE IF name.err # "" THEN Err(name.err)
        ELSE [err |-> "", name |-> name.name, type |-> U16(m, at), class |-> U16(m, at + 2),
              ttl |-> IF U16(m, at) = OPT THEN SwappedTtl(m, at) ELSE 65536 * U16(m, at + 4) + U16(m, at + 6),
              size |-> size.size,
              data |-> [i \in 1 .. len |-> ByteAt(m, at + 9 + i)]]

Lower(s) == [i \in DOMAIN s |-> IF s[i] \in 65 .. 90 THEN s[i] + 32 ELSE s[i]]

\* dns_msg_rr_find(): the first of count records from off with the name;
\* also where the search stopped and how many records are left.
dns_msg_rr_find(m, off, count, name, room) ==
    LET Looking(s) == s.left # 0 /\ s.err = "ESPIPE"
        Step(s) == LET rr == dns_msg_rr_get_data(m, s.off, room) IN
                   CASE rr.err # "" -> [s EXCEPT !.err = rr.err, !.left = 0]
                     [] rr.err = "" /\ Lower(rr.name) = Lower(name) ->
                          [s EXCEPT !.err = "", !.left = @ - 1, !.rr = rr]
                     [] OTHER -> [s EXCEPT !.off = @ + rr.size, !.left = @ - 1]
    IN  While(Looking, Step, [err |-> "ESPIPE", off |-> off, left |-> count, rr |-> Err("ESPIPE")])

\* dns_msg_info_get(): where the sections start, how many records there are
\* and where the message ends.
dns_msg_info_get(m) ==
    LET Skip(s, n, SizeAt(_, _)) ==
          LET One(x, i) == IF x.err # "" THEN x
                           ELSE LET r == SizeAt(m, x.off) IN
                                IF r.err # "" THEN [x EXCEPT !.err = r.err]
                                ELSE [x EXCEPT !.off = @ + r.size]
          IN  For(n, One, s)
        qd == [err |-> "", off |-> HDR]
        an == Skip(qd, m.qd, dns_msg_question_get_size)
        ns == Skip(an, m.an, dns_msg_rr_get_size)
        ar == Skip(ns, m.ns, dns_msg_rr_get_size)
        end == Skip(ar, m.ar, dns_msg_rr_get_size)
    IN  IF end.err # "" THEN Err(end.err)
        ELSE [err |-> "", qd |-> qd.off, an |-> an.off, ns |-> ns.off, ar |-> ar.off,
              rr_count |-> m.an + m.ns + m.ar, size |-> end.off]

dns_msg_size_get(m) == LET r == dns_msg_info_get(m) IN IF r.err = "" THEN r.size ELSE 0
dns_msg_validate(m) == dns_msg_info_get(m).err
=============================================================================
