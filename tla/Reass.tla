------------------------------- MODULE Reass -------------------------------
(***************************************************************************)
(* include/utils/reass_helper.h: a message that was cut into fragments is  *)
(* put together again.  Fragments carry a sequence number and first / last *)
(* marks; they arrive in any order and more than once.  A fragment's data  *)
(* is the set of places of the message it fills, so the buffer is the set  *)
(* of <<message, place>> it holds.                                         *)
(***************************************************************************)
EXTENDS Integers, FiniteSets

CONSTANTS SEQ_MAX,      \* UINT64_T_MAX, scaled
          BUF_SIZE,     \* reass_hlp->buf_size
          BITMAP_SIZE,  \* reass_hlp->bitmap_size, bytes; the bitmap is used
          BLK_SIZE,     \* size of every fragment of a message but the last
          Messages,     \* the stream: sequence of [first, count, tail]
          InOrderMsgs   \* fragments of a message come before those of the next

VARIABLES rh,     \* struct reasseble_helper_s
          sent,   \* ghost: message whose fragments are on the way
          seen,   \* ghost: <<m, i>> handed over since message m's first fragment
          ret     \* ghost: fragment handled last and the value returned

vars == <<rh, sent, seen, ret>>

\* reass_hlp_reset(): cur_seq_no keeps its value.
reass_hlp_reset(r) ==
    [buf |-> r.buf, cur_seq_no |-> r.cur_seq_no, bitmap |-> {}, recv_cnt |-> 0, blk_cnt |-> 0,
     blk_size |-> 0, sequence_size |-> 0, first_seq_no |-> 0, last_seq_no |-> 0]

\* reass_hlp_init()
reass_hlp_init == reass_hlp_reset([buf |-> {}, cur_seq_no |-> 0])

reass_hlp_seq_calc_diff(first, last) == IF last >= first THEN last - first
                                        ELSE last + (SEQ_MAX - first)

-----------------------------------------------------------------------------
\* A fragment: number i of message m.
Frag(m, i) == LET msg == Messages[m] IN
    [seq   |-> (msg.first + i) % (SEQ_MAX + 1), is_first |-> i = 0, is_last |-> i = msg.count - 1,
     size  |-> IF i = msg.count - 1 THEN msg.tail ELSE BLK_SIZE,
     bytes |-> [j \in 0 .. BLK_SIZE - 1 |-> <<m, i, j>>]]

Put(buf, off, f) == {x \in buf : x[1] \notin off .. off + f.size - 1}
                        \cup {<<off + j, f.bytes[j]>> : j \in 0 .. f.size - 1}

\* Mutation: a fragment that came twice is counted twice.
Repeated_Counted(r, idx) == FALSE
\* The bitmap knows the fragment.
Repeated(r, idx) == idx \in r.bitmap

\* reass_hlp_handle_frag(): new state and return value.
reass_hlp_handle_frag(r, f) ==
    LET r0  == IF f.is_first
               THEN [reass_hlp_reset(r) EXCEPT !.blk_size = f.size, !.first_seq_no = f.seq] ELSE r
        idx == reass_hlp_seq_calc_diff(r0.first_seq_no, f.seq)
        off == idx * r0.blk_size
        r1  == [r0 EXCEPT !.bitmap = @ \cup {idx}]
        r2  == IF f.is_last /\ r1.sequence_size = 0
               THEN [r1 EXCEPT !.sequence_size = off + f.size, !.last_seq_no = f.seq] ELSE r1
        r3  == [r2 EXCEPT !.buf = Put(@, off, f), !.recv_cnt = @ + f.size,
                          !.blk_cnt = @ + 1, !.cur_seq_no = f.seq]
    IN  CASE f.is_first /\ f.size = 0 -> <<r, "EINVAL">>
          [] f.is_first /\ BUF_SIZE \div f.size > BITMAP_SIZE * 8 -> <<r0, "ENOBUFS">>
          [] ~f.is_first /\ ~f.is_last /\ r.blk_size # f.size -> <<r, "EINVAL">>
          [] off + f.size > BUF_SIZE -> <<r0, "EINVAL">>
          [] BITMAP_SIZE <= idx -> <<r0, "ERANGE">>
          [] Repeated(r0, idx) -> <<r0, "EAGAIN">>
          [] r3.sequence_size = 0
             \/ reass_hlp_seq_calc_diff(r3.first_seq_no, r3.last_seq_no) + 1 > r3.blk_cnt -> <<r3, "EAGAIN">>
          [] r3.sequence_size # r3.recv_cnt -> <<r3, "EBADMSG">>
          [] OTHER -> <<r3, "OK">>

-----------------------------------------------------------------------------
Init == rh = reass_hlp_init /\ sent = 1 /\ seen = {} /\ ret = <<0, 0, "none">>

\* A fragment arrives, possibly again, possibly after later ones.
Arrive(m, i) ==
    LET res == reass_hlp_handle_frag(rh, Frag(m, i)) IN
    /\ IF InOrderMsgs THEN m = sent ELSE m <= sent
    /\ rh' = res[1] /\ ret' = <<m, i, res[2]>>
    /\ seen' = IF i = 0 THEN {x \in seen : x[1] # m} \cup {<<m, 0>>}
               ELSE IF <<m, 0>> \in seen THEN seen \cup {<<m, i>>} ELSE seen
    /\ UNCHANGED sent

\* The sender goes on to the next message.
NextMessage == /\ sent < Cardinality(DOMAIN Messages) /\ sent' = sent + 1
               /\ UNCHANGED <<rh, seen, ret>>

Next == NextMessage \/ \E m \in DOMAIN Messages : \E i \in 0 .. Messages[m].count - 1 : Arrive(m, i)

Spec == Init /\ [][Next]_vars

-----------------------------------------------------------------------------
Whole(m) == UNION {{<<i * BLK_SIZE + j, <<m, i, j>>>> : j \in 0 .. Frag(m, i).size - 1} :
                     i \in 0 .. Messages[m].count - 1}

(* reass_hlp_handle_frag() returns 0 exactly when the message is complete: *)
(* every fragment came since its first one, and the buffer then holds the  *)
(* message, however its fragments were reordered or repeated.              *)
CompleteIsWhole ==
    LET m == ret'[1]
        all == \A i \in 0 .. Messages[m].count - 1 : <<m, i>> \in seen'
    IN  ret' # ret /\ m # 0 =>
          /\ ret'[3] = "OK" => all /\ Whole(m) \subseteq rh'.buf
          /\ all /\ seen' # seen /\ rh.first_seq_no = Messages[m].first => ret'[3] = "OK"
=============================================================================
