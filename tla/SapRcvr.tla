------------------------------ MODULE SapRcvr ------------------------------
(***************************************************************************)
(* src/proto/sap_rcvr.c: the receiver of session announcements, with the   *)
(* data cache (src/utils/data_cache.c) it keeps them in, the SAP packet    *)
(* (include/proto/sap.h) and the SDP text (include/proto/sdp.h).  A packet *)
(* is a record of the header fields the code tests and a message; a        *)
(* message is the sequence of its lines, each with its type letter, its    *)
(* fields and whether all its characters are allowed.                      *)
(***************************************************************************)
EXTENDS Integers, Sequences, SequencesExt

CONSTANTS Packets,               \* packets that may arrive
          SAP_MIN_PAYLOAD, SAP_HDR_SIZE, ADDR_SIZES,   \* sizes of a packet's parts
          SDP_MIN_SIZE, MEDIA_MIN_SIZE, ADDR_MIN_SIZE, \* the sizes the code asks for
          CACHE_TIME,            \* srcvr->cache_time
          CLEAN_INTERVAL,        \* dcache->clean_interval
          MaxTime,               \* bound: clock
          Buckets, hash_fn(_)    \* buckets of the cache

VARIABLES dcache,   \* bucket -> sequence of items, newest first
          next_clean_time, now,
          heard     \* ghost: origin -> time of the last accepted announcement

vars == <<dcache, next_clean_time, now, heard>>

-----------------------------------------------------------------------------
\* sap_packet_is_valid()
sap_packet_is_valid(p) ==
    /\ p.size >= SAP_HDR_SIZE /\ p.v = 1 /\ p.msg_id_hash # 0
    /\ p.size >= SAP_HDR_SIZE + ADDR_SIZES[p.a] + p.auth_len + SAP_MIN_PAYLOAD

\* sap_packet_get_payload(): what follows the optional payload type.
sap_packet_get_payload(p) == p.msg

Types(msg) == [i \in DOMAIN msg |-> msg[i].type]

\* sdp_msg_type_get(): fields of the first line of a type, <<>> if there is none.
sdp_msg_type_get(msg, type) ==
    LET at == SelectInSeq(msg, LAMBDA l : l.type = type)
    IN  IF at = 0 THEN <<>> ELSE msg[at].fields

sdp_msg_type_get_count(msg, type) == Len(SelectSeq(Types(msg), LAMBDA t : t = type))

\* sdp_msg_feilds_get(): number of fields, at most max.
sdp_msg_feilds_get(fields, max) == IF Len(fields) > max THEN max ELSE Len(fields)

Size(fields) == FoldLeft(LAMBDA n, f : n + f.size + 1, -1, fields)
MsgSize(msg) == FoldLeft(LAMBDA n, l : n + Size(l.fields) + 4, 0, msg)

\* sdp_msg_sec_chk(): 0 for a message whose form is right.
sdp_msg_sec_chk(msg) ==
    CASE MsgSize(msg) < SDP_MIN_SIZE -> 1
      [] msg[1].type # "v" \/ msg[1].fields[1].text # "0" -> 2
      [] \E i \in DOMAIN msg : ~msg[i].chars -> 3
      [] sdp_msg_type_get_count(msg, "v") # 1 -> 5
      [] sdp_msg_type_get_count(msg, "o") # 1 -> 6
      [] sdp_msg_type_get_count(msg, "s") # 1 -> 7
      [] sdp_msg_type_get_count(msg, "t") = 0 -> 8
      [] sdp_msg_type_get_count(msg, "c") = 0 -> 9
      [] sdp_msg_type_get_count(msg, "m") = 0 -> 9
      [] OTHER -> 0

-----------------------------------------------------------------------------
\* sap_data_cache_cmp_data(): an item is found by its origin line.
sap_data_cache_cmp_data(key, item) == item.id = key

\* sdp_lite_alloc(): an item not filled in yet.
sdp_lite_alloc(key) == [id |-> key, flags |-> 0, addr |-> "none", port |-> 0,
                        media_proto |-> 0, name |-> <<>>, valid_untill |-> 0]

\* data_cache_create()
data_cache_create == [b \in Buckets |-> <<>>]

\* data_cache_get_bucket()
data_cache_get_bucket(key) == hash_fn(key)

\* data_cache_item_get(): place of the item in its bucket, 0 if not cached.
data_cache_item_get(c, key) ==
    SelectInSeq(c[data_cache_get_bucket(key)], LAMBDA it : sap_data_cache_cmp_data(key, it))

\* data_cache_item_add(): the cache with an item for the key.
data_cache_item_add(c, key) ==
    IF data_cache_item_get(c, key) # 0 THEN c
    ELSE [c EXCEPT ![data_cache_get_bucket(key)] = <<sdp_lite_alloc(key)>> \o @]

\* Mutation: items are dropped as soon as they are outdated.
data_cache_clean_AtOnce(c) ==
    IF now < next_clean_time THEN <<c, next_clean_time>>
    ELSE <<[b \in Buckets |-> SelectSeq(c[b], LAMBDA it : it.valid_untill > now)],
           now + CLEAN_INTERVAL>>

\* data_cache_item_free() of the items that are long outdated, walking along a
\* bucket; no user of the cache marks an item as being updated.
Stays(item) == CLEAN_INTERVAL + item.valid_untill > now
Cleaned(items) ==
    LET upto[k \in 0..Len(items)] ==
            IF k = 0 THEN <<>>
            ELSE IF Stays(items[k]) THEN Append(upto[k - 1], items[k]) ELSE upto[k - 1]
    IN  upto[Len(items)]

data_cache_clean(c) ==
    IF now < next_clean_time THEN <<c, next_clean_time>>
    ELSE <<[b \in Buckets |-> Cleaned(c[b])], now + CLEAN_INTERVAL>>

-----------------------------------------------------------------------------
Init == /\ dcache = data_cache_create /\ now = 0 /\ next_clean_time = CLEAN_INTERVAL
        /\ heard = [o \in {} |-> 0]

MediaProto(text) == CASE text = "udp" -> 1 [] text = "RTP/AVP" -> 2 [] text = "RTP/SAVP" -> 3 [] OTHER -> 0

\* The fields of c= name an address the code can convert.
ConnGood(conn) == /\ sdp_msg_feilds_get(conn, 8) >= 3
                  /\ conn[1].text = "IN" /\ conn[2].text \in {"IP4", "IP6"}
                  /\ conn[3].size >= ADDR_MIN_SIZE /\ conn[3].pton = conn[2].text

\* sap_receiver_recv_cb() with a packet that passed recvmsg().
sap_receiver_recv_cb(p) ==
    LET msg   == sap_packet_get_payload(p)
        media == sdp_msg_type_get(msg, "m")
        key   == sdp_msg_type_get(msg, "o")
        conn  == sdp_msg_type_get(msg, "c")
        b     == data_cache_get_bucket(key)
        added == data_cache_item_add(dcache, key)
        i     == data_cache_item_get(added, key)
        fresh == [added EXCEPT ![b][i].valid_untill = now + CACHE_TIME]
        known == added[b][i].flags # 0
        good  == sdp_msg_feilds_get(media, 8) >= 4 /\ ConnGood(conn)
        full  == [fresh EXCEPT ![b][i] = [@ EXCEPT !.addr = conn[3].text, !.port = media[2].text,
                                                   !.media_proto = MediaProto(media[3].text),
                                                   !.name = sdp_msg_type_get(msg, "s"), !.flags = 1]]
        clean == data_cache_clean(full)
    IN  /\ sap_packet_is_valid(p) /\ p.e = 0 /\ p.c = 0
        /\ sdp_msg_sec_chk(msg) = 0
        /\ Size(media) >= MEDIA_MIN_SIZE /\ media[1].text \in {"video", "audio"}
        /\ Size(key) # 0                            \* sdp_lite_alloc()
        /\ IF known \/ ~good
           THEN dcache' = fresh /\ UNCHANGED next_clean_time
           ELSE dcache' = clean[1] /\ next_clean_time' = clean[2]
        /\ heard' = [o \in DOMAIN heard \cup {key} |-> IF o = key THEN now ELSE heard[o]]
        /\ UNCHANGED now

Tick == now < MaxTime /\ now' = now + 1 /\ UNCHANGED <<dcache, next_clean_time, heard>>

Next == Tick \/ \E p \in Packets : sap_receiver_recv_cb(p)

Spec == Init /\ [][Next]_vars

-----------------------------------------------------------------------------
(* The cache has one item per session, in the bucket its origin hashes to, *)
(* and never drops a session before it has been silent for the cache time  *)
(* and the clean interval: whichever other announcement starts the         *)
(* cleaning, and even if the session's later announcements were unusable.  *)
SessionsKept ==
    /\ \A o \in DOMAIN heard :
         heard[o] + CACHE_TIME + CLEAN_INTERVAL > now => data_cache_item_get(dcache, o) # 0
    /\ \A b \in Buckets : \A i, j \in DOMAIN dcache[b] :
         /\ hash_fn(dcache[b][i].id) = b
         /\ dcache[b][i].id = dcache[b][j].id => i = j
=============================================================================
