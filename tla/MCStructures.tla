--------------------------- MODULE MCStructures ----------------------------
(***************************************************************************)
(* Instances, for TLC, of the data structures of the library: the ring     *)
(* buffer, the reassembly helper, the hash bucket, the ini file, and DNS   *)
(* messages as they are built record by record.  They share no state: a    *)
(* behaviour uses the one that `part' names, the variables of the others   *)
(* are switched off; those of the hash bucket, which this module extends,  *)
(* stay as they were created.                                              *)
(***************************************************************************)
EXTENDS HashBucket

CONSTANTS Parts,        \* the structures to check
          IniNumbers,   \* the numbers the user of the ini file sets
          Off

VARIABLES part,
          rb, mem, next, room, rpos, read,      \* ring buffer
          rh, sent, seen, ret,                  \* reassembly
          lines, last,                          \* ini file
          m, log                                \* DNS message, what was put in

-----------------------------------------------------------------------------
(* A ring buffer of eight bytes and blocks of two and of four, with and    *)
(* without a gap before them, lapped up to twice; the reader asks for      *)
(* nothing, for about a block, for all.                                    *)
Ring == INSTANCE RingBuffer WITH SIZE <- 8, MIN_BLOCK_SIZE <- 2, IOV_SPARE <- 3, KEEP_TAIL <- FALSE,
            BlockSizes <- {2, 4}, Offsets <- {0, 1}, Asks <- {0, 5, 9}, IOV_CNT <- 3, MaxBytes <- 10

(* Three messages of a stream, of three, one and four fragments.           *)
Frags(first, number, tail) == [first |-> first, count |-> number, tail |-> tail]
Reassembly == INSTANCE Reass WITH SEQ_MAX <- 15, BUF_SIZE <- 8, BITMAP_SIZE <- 4, BLK_SIZE <- 2,
            Messages <- <<Frags(3, 3, 1), Frags(6, 1, 2), Frags(7, 4, 2)>>, InOrderMsgs <- TRUE

(* Three keys, two of them in one zone.                                    *)
ZoneOf(key) == IF key = "c" THEN 1 ELSE 0

(* Names that differ in case only, a value of delimiters, a text with      *)
(* comments, empty lines and a torn last line.                             *)
Lower(c) == IF c = "A" THEN "a" ELSE c
IniFile == INSTANCE Ini WITH
            Texts <- {<<"[", "a", "]", "\r", "\n", ";", "\n", "A", "=", "1", "\n", "\r", "\n",
                        "[", "b", "]", "\n">>,
                      <<"a", "\n", "[", "b">>},
            Sects <- {<<"a">>, <<"b">>}, Names <- {<<"a">>, <<"A">>, <<"c">>}, Vals <- {<<"=", "]">>},
            Numbers <- IniNumbers, Fold <- Lower, MaxLines <- 6

-----------------------------------------------------------------------------
(* DNS messages of up to three questions and records, by the functions of  *)
(* dns.h; compressed names, which a peer may send, are put in by hand.     *)
Dns == INSTANCE DnsMsg WITH MSGBUF_SIZE <- 64, DNS_MAX_NAME_CYCLES <- 4, beyond <- 0
DomainNames == {<<>>, <<97>>, <<97, 46, 98>>, <<65, 46, 98, 46>>, <<97, 97, 46, 98, 46, 99>>, <<46, 97>>}
Sections == {"an", "ar"}
MaxRecords == 3

Entry(section, name, type, data) == [section |-> section, name |-> name, type |-> type, data |-> data]
InOrderOf(section) == section = "an" => m.ns + m.ar = 0

DnsInit == m = Dns!dns_hdr_create /\ log = <<>>

AddQuestion(name) ==
    /\ m.an + m.ns + m.ar = 0
    /\ LET r == Dns!dns_msg_question_add(m, FALSE, name, 28, 1)
       IN  r.err = "" /\ m' = r.msg
    /\ log' = Append(log, Entry("qd", name, 28, <<>>))

AddRecord(section, name, data) ==
    /\ InOrderOf(section)
    /\ LET r == Dns!dns_msg_rr_add(m, FALSE, name, 1, 1, 70000, data)
       IN  r.err = "" /\ m' = [r.msg EXCEPT ![section] = @ + 1]
    /\ log' = Append(log, Entry(section, name, 1, data))

AddOpt ==
    /\ LET r == Dns!dns_msg_optrr_add(m, 1280, 1, 2, <<0, 0>>, <<9>>)
       IN  r.err = "" /\ m' = [r.msg EXCEPT !.ar = @ + 1]
    /\ log' = Append(log, Entry("ar", <<>>, 41, <<9>>))

\* A record whose name points to the first name of the message.
AddCompressed(section) ==
    /\ log # <<>> /\ InOrderOf(section)
    /\ m' = [m EXCEPT ![section] = @ + 1,
                      !.body = @ \o <<192, 12, 0, 1, 0, 1, 0, 0, 0, 7, 0, 1, 8>>]
    /\ log' = Append(log, Entry(section, log[1].name, 1, <<8>>))

DnsNext ==
    /\ Len(log) < MaxRecords
    /\ \/ \E name \in DomainNames : AddQuestion(name)
       \/ \E name \in DomainNames, section \in Sections, data \in {<<>>, <<1, 2>>} :
             AddRecord(section, name, data)
       \/ AddOpt
       \/ \E section \in Sections : AddCompressed(section)

-----------------------------------------------------------------------------
RingVars == <<rb, mem, next, room, rpos, read>>
ReassVars == <<rh, sent, seen, ret>>
IniVars == <<lines, last>>
DnsVars == <<m, log>>
all == <<part, RingVars, ReassVars, vars, IniVars, DnsVars>>

RingOff == rb = Off /\ mem = Off /\ next = Off /\ room = Off /\ rpos = Off /\ read = Off
ReassOff == rh = Off /\ sent = Off /\ seen = Off /\ ret = Off
IniOff == lines = Off /\ last = Off
DnsOff == m = Off /\ log = Off

StructuresInit ==
    /\ part \in Parts
    /\ IF part = "ring" THEN Ring!Init ELSE RingOff
    /\ IF part = "reass" THEN Reassembly!Init ELSE ReassOff
    /\ Init
    /\ IF part = "ini" THEN IniFile!Init ELSE IniOff
    /\ IF part = "dns" THEN DnsInit ELSE DnsOff

RingStep == part = "ring" /\ Ring!Next /\ UNCHANGED <<part, ReassVars, vars, IniVars, DnsVars>>
ReassStep == part = "reass" /\ Reassembly!Next /\ UNCHANGED <<part, RingVars, vars, IniVars, DnsVars>>
BucketStep == part = "bucket" /\ Next /\ UNCHANGED <<part, RingVars, ReassVars, IniVars, DnsVars>>
IniStep == part = "ini" /\ IniFile!Next /\ UNCHANGED <<part, RingVars, ReassVars, vars, DnsVars>>
DnsStep == part = "dns" /\ DnsNext /\ UNCHANGED <<part, RingVars, ReassVars, vars, IniVars>>

StructuresNext == RingStep \/ ReassStep \/ BucketStep \/ IniStep \/ DnsStep

Structures == StructuresInit /\ [][StructuresNext]_all

-----------------------------------------------------------------------------
(* Properties. *)

\* A reader of the ring buffer is given consecutive bytes, newer than all it
\* read before, and none is skipped unless a read in between told of a loss: a
\* reader the writer has lapped gets no mixture of old and new data
\* (r_buf_data_get(), r_buf_rpos_check()).  Two reads are excepted, which blocks
\* of different sizes or with gaps make possible: one from a block whose index is
\* still ahead of the writer's but whose bytes the writer has reached, and one
\* that skips a block at the end of the last round because it asks for too little
\* and goes on with a smaller block of this round.  What r_buf_data_avail_size()
\* promises is what a reader that asks for everything gets.
RingReadsInOrder == [][part = "ring" => Ring!InOrder /\ Ring!AvailIsDelivered]_all

\* reass_hlp_handle_frag() returns 0 exactly when every fragment of the message
\* has come since its first one, and the buffer then holds the message, however
\* its fragments were reordered or repeated.
ReassembledWhole == [][part = "reass" => Reassembly!CompleteIsWhole]_all

\* After ini_val_set() the value reads back, under the name in any case, and
\* every value of another name or section reads as before; the text ini_buf_gen()
\* then writes, into a buffer of the size ini_buf_calc_size() gives, parses back
\* to the same lines, values with delimiters and torn lines included.
IniSetIsRead ==
    [][part = "ini" => IniFile!OnlyThatSet /\ (last'.op = "set" => IniFile!RoundTrip(lines'))]_all

\* ini_val_set_int() and ini_val_set_uint() store a number that
\* ini_val_get_int() and ini_vali_get_uint() read back.
IniNumberIsRead == part = "ini" => IniFile!NumberIsRead

\* Every record put into a DNS message is found again with its name, type and
\* data by the walk of dns_msg_info_get() and dns_msg_rr_get_data(), compressed
\* names included, and dns_msg_rr_find() finds exactly the names that are there,
\* in any case.
Records(msg, off, number) ==
    FoldLeft(LAMBDA x, k : LET r == Dns!dns_msg_rr_get_data(msg, x.off, 100)
                           IN  [off |-> x.off + r.size, recs |-> Append(x.recs, r)],
             [off |-> off, recs |-> <<>>], [k \in 1 .. number |-> k]).recs
Found(msg, off, name) == Dns!dns_msg_rr_find(msg, off, msg.an, name, 100).err = ""
SameName(x, y) == Dns!Lower(x) = Dns!Lower(y)
Readable(msg, entries) ==
    LET info == Dns!dns_msg_info_get(msg)
        put == SelectSeq(entries, LAMBDA e : e.section # "qd")
        got == Records(msg, info.an, Len(put))
        question == Dns!dns_msg_question_get_data(msg, info.qd, 100)
        len == Dns!dns_msg_sequence_of_labels_get_name_len(msg, info.qd)
    IN  /\ Dns!dns_msg_validate(msg) = "" /\ Dns!dns_msg_size_get(msg) = Dns!Size(msg)
        /\ \A k \in DOMAIN put : /\ got[k].err = "" /\ got[k].name = put[k].name
                                 /\ got[k].type = put[k].type /\ got[k].data = put[k].data
        /\ msg.qd > 0 => /\ question.err = "" /\ question.name = entries[1].name /\ question.type = 28
                       /\ len.err = "" /\ len.len = Len(question.name)
        /\ \A name \in DomainNames :
             Found(msg, info.an, name) = (\E e \in Range(entries) : e.section = "an" /\ SameName(e.name, name))
DnsRecordsRead == [][part = "dns" => Readable(m', log')]_all
=============================================================================
