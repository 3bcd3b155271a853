------------------------------- MODULE Dhcp4 -------------------------------
(***************************************************************************)
(* proto/dhcpv4.h: the check of a DHCPv4 packet and the collection of its  *)
(* options into an aggregate option buffer (RFC 3396), and the writing of  *)
(* such a buffer.                                                          *)
(*                                                                         *)
(* A byte is a number below BYTE (256); OPT_MAX (255) is the largest       *)
(* length of one option.  opts[c] says what the table dhcp4_options holds  *)
(* for the code c: nolen and end for PAD and END, and the size of the      *)
(* type, exact (of one element, if array) or minimal.                      *)
(***************************************************************************)
EXTENDS Integers, Sequences, SequencesExt, FiniteSets, Loops

CONSTANTS BYTE, OPT_MAX,
          PTR_SIZE,        \* sizeof(uint8_t*): data that short is not allocated
          LEN_MOD,         \* opt[].len is a uint16_t
          opts,            \* dhcp4_options: codes 0 .. Len - 1
          OVERLOAD,        \* the code of the option overload (52)
          HTYPE_MAX, HLEN_MAX,
          NONE             \* no size: UINT8_MAX in the tables

Codes == 0..(BYTE - 1)

-----------------------------------------------------------------------------
(* The bitmap of the codes: a set.                                         *)

dhcp4_ao_buf_map_is_set(map, idx) == idx \in map
dhcp4_ao_buf_map_set(map, idx, val) == IF val THEN map \cup {idx} ELSE map \ {idx}
dhcp4_ao_buf_map_buf_import(map, val, buf) ==
    For(Len(buf), LAMBDA m, i: dhcp4_ao_buf_map_set(m, buf[i + 1], val), map)
dhcp4_ao_buf_map_invert(map) == Codes \ map
dhcp4_ao_buf_map_and(src1, src2) == src1 \cap src2
dhcp4_ao_buf_map_or(src1, src2) == src1 \cup src2
dhcp4_ao_buf_map_xor(src1, src2) == (src1 \ src2) \cup (src2 \ src1)
dhcp4_ao_buf_map_and_inv(dst, src) == dst \ src

-----------------------------------------------------------------------------
(* The buffer: for each code the bytes kept so far.  Short data lives in   *)
(* the pointer itself, longer data is allocated.                           *)

NoOpt == [data |-> <<>>, allocated |-> FALSE]
Empty == [opt |-> [c \in Codes |-> NoOpt], map |-> {}]

dhcp4_ao_buf_opt_clean(ao, code) ==
    [opt |-> [ao.opt EXCEPT ![code] = NoOpt], map |-> dhcp4_ao_buf_map_set(ao.map, code, FALSE)]
dhcp4_ao_buf_clean(ao) == Empty
dhcp4_ao_buf_data_get(ao, code) ==
    IF dhcp4_ao_buf_map_is_set(ao.map, code) THEN ao.opt[code].data ELSE NONE

\* Mutation: the last piece of an option replaces those before it.
dhcp4_ao_buf_data_get_free_space_Replaces(ao, code, data) ==
    [ao EXCEPT !.opt[code] = [data |-> data, allocated |-> Len(data) > PTR_SIZE]]
\* Room for size more bytes, and the bytes put there by the caller.
dhcp4_ao_buf_data_get_free_space(ao, code, data) ==
    LET o == ao.opt[code]
        inline == ~o.allocated /\ PTR_SIZE - Len(o.data) >= Len(data)
        new == o.data \o data
    IN  [ao EXCEPT !.opt[code] = [data |-> SubSeq(new, 1, Len(new) % LEN_MOD), allocated |-> ~inline]]

\* The bytes an option takes: one header for each full piece and one for a
\* rest; none at all for an option without data.
SeqSize(data) ==
    Len(data) + 2 * (Len(data) \div OPT_MAX) + (IF Len(data) % OPT_MAX # 0 THEN 2 ELSE 0)
Filtered(ao, allow) == IF allow = NONE THEN ao.map ELSE dhcp4_ao_buf_map_and(ao.map, allow)

dhcp4_ao_buf_calc_size(ao, allow) ==
    For(BYTE, LAMBDA n, c: IF c \in Filtered(ao, allow) THEN n + SeqSize(ao.opt[c].data) ELSE n, 0)

\* The pieces of one option.
Pieces(code, data) ==
    IF data = <<>> THEN <<code, 0>>
    ELSE For((Len(data) + OPT_MAX - 1) \div OPT_MAX,
             LAMBDA out, k: LET end == IF (k + 1) * OPT_MAX > Len(data) THEN Len(data) ELSE (k + 1) * OPT_MAX
                                piece == SubSeq(data, k * OPT_MAX + 1, end)
                            IN  out \o <<code, Len(piece)>> \o piece,
             <<>>)

\* Options in the order of their codes; one that does not fit, and all that
\* come after it, are only counted.
dhcp4_ao_buf_serialize(ao, allow, buf_size) ==
    LET r == For(BYTE, LAMBDA s, c:
                    IF c \notin Filtered(ao, allow) THEN s
                    ELSE IF s.n + SeqSize(ao.opt[c].data) > buf_size
                    THEN [s EXCEPT !.n = @ + SeqSize(ao.opt[c].data)]
                    ELSE LET p == Pieces(c, ao.opt[c].data)
                         IN  [n |-> s.n + Len(p), buf |-> s.buf \o p],
                [n |-> 0, buf |-> <<>>])
    IN  [error |-> r.n > buf_size, buf |-> r.buf, written |-> r.n]

\* The length of one piece is checked against what is known of the option.
LengthGood(p, len) ==
    IF p.fixed # NONE
    THEN IF p.array THEN len >= p.fixed /\ len % p.fixed = 0 ELSE len = p.fixed
    ELSE p.min = NONE \/ len >= p.min

Unknown == [nolen |-> FALSE, end |-> FALSE, fixed |-> NONE, array |-> FALSE, min |-> NONE]
Params(code) == IF code < Len(opts) THEN opts[code + 1] ELSE Unknown

dhcp4_ao_buf_aggregate(buf, ao) ==
    LET Step(s) ==
            LET code == buf[s.pos]
                p == Params(code)
                len == IF s.pos < Len(buf) THEN buf[s.pos + 1] ELSE 0
                data == SubSeq(buf, s.pos + 2, s.pos + 1 + len)
                stored == dhcp4_ao_buf_data_get_free_space(s.ao, code, data)
            IN  IF p.nolen THEN [s EXCEPT !.pos = @ + 1, !.done = p.end]
                ELSE IF s.pos + 1 + len > Len(buf) \/ ~LengthGood(p, len)
                THEN [s EXCEPT !.error = TRUE, !.done = TRUE]
                ELSE [s EXCEPT !.pos = @ + 2 + len,
                               !.ao = [stored EXCEPT !.map = dhcp4_ao_buf_map_set(@, code, TRUE)]]
        r == While(LAMBDA s: ~s.done /\ s.pos <= Len(buf), Step,
                   [pos |-> 1, ao |-> ao, error |-> FALSE, done |-> FALSE])
    IN  [error |-> r.error, ao |-> r.ao]

-----------------------------------------------------------------------------
(* A packet: the header fields the code looks at and the options.          *)

dhcp4_hdr_check(pkt) ==
    /\ pkt.op \in {1, 2}
    /\ pkt.htype # 0 /\ pkt.htype < HTYPE_MAX
    /\ pkt.hlen < HLEN_MAX
    /\ pkt.cookie

FILE_F == {1, 3}
SNAME_F == {2, 3}

\* The options of the packet, then those in the file and sname fields when
\* the option overload says so; the option itself is taken out.
dhcp4_pkt_chk_opts_aggregate(pkt) ==
    LET a == dhcp4_ao_buf_aggregate(pkt.options, Empty)
        over == dhcp4_ao_buf_data_get(a.ao, OVERLOAD)
        flags == IF over = NONE \/ over = <<>> THEN 0 ELSE over[1] % 4
        a0 == dhcp4_ao_buf_opt_clean(a.ao, OVERLOAD)
        b == IF flags \in FILE_F THEN dhcp4_ao_buf_aggregate(pkt.file, a0) ELSE [error |-> FALSE, ao |-> a0]
        c == IF ~b.error /\ flags \in SNAME_F THEN dhcp4_ao_buf_aggregate(pkt.sname, b.ao) ELSE b
    IN  IF ~dhcp4_hdr_check(pkt) THEN [error |-> TRUE, ao |-> Empty]
        ELSE IF a.error \/ c.error THEN [error |-> TRUE, ao |-> dhcp4_ao_buf_clean(a.ao)]
        ELSE [error |-> FALSE, ao |-> c.ao]

-----------------------------------------------------------------------------

\* One field of options written by a sender: pieces with their codes.
Field(pieces) == FlattenSeq([i \in DOMAIN pieces |-> <<pieces[i].code, Len(pieces[i].data)>> \o pieces[i].data])
DataOf(pieces, code) ==
    FlattenSeq([i \in DOMAIN pieces |-> IF pieces[i].code = code THEN pieces[i].data ELSE <<>>])

\* Options the code writes in a form it also reads: the pieces of a longer
\* option, and an option that occurs twice, fail the check of the exact size.
OnePiece(ao) ==
    \A c \in ao.map: Params(c).fixed = NONE \/
                     (Len(ao.opt[c].data) <= OPT_MAX /\ LengthGood(Params(c), Len(ao.opt[c].data)))
\* An option without data takes two bytes that the computed size leaves out.
NoneEmpty(ao) == \A c \in ao.map: ao.opt[c].data # <<>>

\* RFC 3396: the value of an option is the concatenation of its pieces, those
\* of the options field first, then file, then sname; the buffer holds exactly
\* the codes that occur.  Written out it fits the size that was computed and
\* reads back the same.  (Without the two conditions the last part fails.)
AggregatedRight(main, file, sname, flags) ==
    LET over == IF flags = 0 THEN <<>> ELSE <<[code |-> OVERLOAD, data |-> <<flags>>]>>
        r == dhcp4_pkt_chk_opts_aggregate(
                [op |-> 1, htype |-> 1, hlen |-> 1, cookie |-> TRUE,
                 options |-> Field(over \o main), file |-> Field(file), sname |-> Field(sname)])
        all == main \o (IF flags \in FILE_F THEN file ELSE <<>>) \o (IF flags \in SNAME_F THEN sname ELSE <<>>)
        size == dhcp4_ao_buf_calc_size(r.ao, NONE)
        w == dhcp4_ao_buf_serialize(r.ao, NONE, size)
        again == dhcp4_ao_buf_aggregate(w.buf, Empty)
        data(ao) == [c \in ao.map |-> ao.opt[c].data]
    IN  ~r.error =>
            /\ data(r.ao) = [c \in {all[i].code : i \in DOMAIN all} |-> DataOf(all, c)]
            /\ NoneEmpty(r.ao) => ~w.error /\ Len(w.buf) = size
            /\ OnePiece(r.ao) /\ NoneEmpty(r.ao) => ~again.error /\ data(again.ao) = data(r.ao)
=============================================================================
