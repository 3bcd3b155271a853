---------------------------- MODULE RingBuffer ----------------------------
(***************************************************************************)
(* src/utils/ring_buffer.c: one writer fills a ring of blocks, each        *)
(* described by an iovec; a reader keeps a position of its own (iovec      *)
(* index, offset, round) and asks for what it has not read.  A reader that *)
(* is too slow is overtaken and told how much it lost.  Calls on one       *)
(* buffer are made from one thread, so each is one step.                   *)
(*                                                                         *)
(* The bytes of the stream are numbered 1, 2, ... and mem holds the number *)
(* each byte of the buffer has; 0 is a byte never written.                 *)
(***************************************************************************)
EXTENDS Integers, Sequences, SequencesExt, Loops

CONSTANTS SIZE,             \* r_buf->size
          MIN_BLOCK_SIZE,   \* r_buf->min_block_size
          IOV_SPARE,        \* iovecs beyond those min_block_size calls for: 32
          KEEP_TAIL,        \* RBUF_F_U_KEEP_TAIL
          BlockSizes,       \* sizes of the blocks the writer commits
          Offsets,          \* bytes it leaves unused before a block
          Asks,             \* data_size of the reader's calls
          IOV_CNT,          \* iovecs the reader has room for
          MaxBytes          \* bound: bytes written in a behaviour

VARIABLES rb,     \* struct r_buf_s
          mem,    \* the bytes of rb->buf
          next,   \* number of the next byte of the stream
          room,   \* writer: size r_buf_wbuf_get() returned, 0 before the call
          rpos,   \* struct r_buf_rpos_s of the reader, or none
          read    \* ghost: bytes of the last read, whether it is torn, the last
                  \* byte read (0: none, or torn), bytes missed

vars == <<rb, mem, next, room, rpos, read>>

None == [iov_index |-> -1, iov_off |-> 0, round_num |-> 0]
iov_count == (SIZE \div MIN_BLOCK_SIZE) + IOV_SPARE

\* r_buf_iovec_calc_size(): total length of n iovecs from index i.
r_buf_iovec_calc_size(b, i, n) ==
    FoldSet(LAMBDA j, s : s + b.iov[j].len, 0, i .. i + n - 1)

r_buf_rpos_index_inc(b, p) ==
    IF p.round_num = b.round_num
    THEN [p EXCEPT !.iov_index = IF @ > b.iov_index THEN @ ELSE @ + 1]
    ELSE IF p.iov_index + 1 > b.iov_index_max
         THEN [p EXCEPT !.iov_index = 0, !.round_num = b.round_num]
         ELSE [p EXCEPT !.iov_index = @ + 1]

\* iovec_aggregate_ex(): the regions read and the reminder of data_size.
\* Neighbouring regions are joined; a block that does not fit is left whole.
iovec_aggregate_ex(b, first, cnt, data_size, off, ret_cnt) ==
    IF \/ cnt = 0 \/ ret_cnt = 0 \/ data_size = 0
       \/ b.iov[first].len - off >= data_size
       \/ cnt = 1 /\ b.iov[first].len = off
    THEN [ret |-> <<>>, left |-> 0]
    ELSE LET head == [base |-> b.iov[first].base + off, len |-> b.iov[first].len - off]
             Joins(i) == b.iov[i - 1].base + b.iov[i - 1].len = b.iov[i].base
             Fits(s)  == /\ s.i < first + cnt /\ Len(s.ret) < ret_cnt
                         /\ s.left >= b.iov[s.i].len
             Take(s)  == [i    |-> s.i + 1,
                          left |-> s.left - b.iov[s.i].len,
                          ret  |-> IF Joins(s.i)
                                   THEN [s.ret EXCEPT ![Len(s.ret)].len = @ + b.iov[s.i].len]
                                   ELSE Append(s.ret, b.iov[s.i])]
             done     == While(Fits, Take, [i |-> first + 1, left |-> data_size - head.len,
                                            ret |-> <<head>>])
         IN  [ret |-> done.ret, left |-> done.left]

-----------------------------------------------------------------------------
\* r_buf_rpos_init(): a new reader starts data_size bytes behind the writer.
r_buf_rpos_init(b, data_size) ==
    LET Step(s)   == [i |-> s.i - 1, n |-> s.n - b.iov[s.i].len]
        InRound(s) == s.i > 0 /\ s.n >= b.iov[s.i].len
        InPrev(s)  == s.i > b.iov_index /\ s.n >= b.iov[s.i].len
        now  == While(InRound, Step, [i |-> b.iov_index + 1, n |-> data_size])
        prev == While(InPrev, Step, [i |-> b.iov_index_max, n |-> now.n])
    IN  IF now.n <= b.iov[now.i].len \/ ~b.full
        THEN [iov_index |-> now.i, iov_off |-> 0, round_num |-> b.round_num]
        ELSE [iov_index |-> prev.i, iov_off |-> 0, round_num |-> b.round_num - 1]

\* Mutation: a reader one round behind is believed up to the writer's block.
r_buf_rpos_check_OneBehind(b, p) ==
    IF p.round_num = b.round_num \/ (p.round_num + 1 = b.round_num /\ p.iov_index >= b.iov_index)
    THEN [ok |-> TRUE, rpos |-> IF p.round_num # b.round_num /\ p.iov_index > b.iov_index_max
                                THEN [iov_index |-> 0, iov_off |-> 0, round_num |-> b.round_num] ELSE p,
          drop |-> 0]
    ELSE [ok |-> FALSE, rpos |-> [iov_index |-> b.iov_index + 1, iov_off |-> 0, round_num |-> b.round_num],
          drop |-> SIZE]

\* r_buf_rpos_check(): is there something to read at p?  The position may be
\* moved, and a reader that was overtaken learns how much it missed.
r_buf_rpos_check(b, p0) ==
    LET p     == IF b.iov[p0.iov_index].len < p0.iov_off THEN [p0 EXCEPT !.iov_off = 0] ELSE p0
        reset == [iov_index |-> b.iov_index + 1, iov_off |-> 0, round_num |-> b.round_num]
        Ok(q)       == [ok |-> TRUE, rpos |-> q, drop |-> 0]
        No(q, drop) == [ok |-> FALSE, rpos |-> q, drop |-> drop]
    IN  CASE p.round_num = b.round_num ->
               IF p.iov_index <= b.iov_index + 1 THEN Ok(p) ELSE No(reset, 0)
          [] p.round_num + 1 = b.round_num ->
               IF p.iov_index > b.iov_index_max
               THEN Ok([iov_index |-> 0, iov_off |-> 0, round_num |-> b.round_num])
               ELSE IF p.iov_index > b.iov_index THEN Ok(p)
               ELSE No(p, SIZE + r_buf_iovec_calc_size(b, p.iov_index,
                                                       1 + b.iov_index - p.iov_index))
          [] OTHER -> No(reset, IF p.round_num + 1 >= b.round_num THEN 0
                                ELSE SIZE * (b.round_num - p.round_num))

\* r_buf_rpos_check_fast(): the same question, nothing moved.
r_buf_rpos_check_fast(b, p) ==
    \/ p.round_num = b.round_num /\ p.iov_index <= b.iov_index + 1
    \/ p.round_num + 1 = b.round_num /\ (p.iov_index > b.iov_index_max \/ p.iov_index > b.iov_index)

\* r_buf_alloc(): everything zeroed but the sizes and the user's flags.
r_buf_alloc == [iov |-> [i \in 0 .. iov_count - 1 |-> [base |-> 0, len |-> 0]],
                iov_index |-> 0, iov_index_max |-> 0, round_num |-> 0, wpos |-> 0,
                full |-> FALSE, frag |-> FALSE]

Init == /\ rb = r_buf_alloc /\ mem = [i \in 1 .. SIZE |-> 0]
        /\ next = 1 /\ room = 0 /\ rpos = None
        /\ read = [bytes |-> <<>>, torn |-> FALSE, last |-> 0, missed |-> FALSE]

-----------------------------------------------------------------------------
\* r_buf_wbuf_get(): where to write next; starts a new round when the rest
\* of the buffer is too small.
WbufGet(b, min) ==
    LET opened == IF b.iov[b.iov_index].len = 0 THEN b
                  ELSE [b EXCEPT !.iov_index = @ + 1, !.iov[b.iov_index + 1].len = 0]
        wraps  == SIZE - b.wpos < min \/ SIZE - b.wpos < MIN_BLOCK_SIZE
        placed == IF ~wraps THEN opened
                  ELSE [opened EXCEPT !.wpos = 0, !.iov_index_max = opened.iov_index - 1,
                                      !.iov_index = 0, !.round_num = @ + 1,
                                      !.full = TRUE, !.iov[0].len = 0]
    IN  [wraps |-> wraps, rb |-> [placed EXCEPT !.iov[placed.iov_index].base = placed.wpos]]

r_buf_wbuf_get(min) ==
    LET g == WbufGet(rb, min) IN
    /\ room = 0 /\ min <= SIZE
    /\ rb' = g.rb /\ room' = SIZE - g.rb.wpos
    /\ mem' = IF ~(g.wraps /\ KEEP_TAIL) THEN mem
              ELSE [i \in 1 .. SIZE |-> IF i <= SIZE - rb.wpos THEN mem[i + rb.wpos] ELSE mem[i]]
    /\ UNCHANGED <<next, rpos, read>>

\* The writer puts n bytes of the stream at position at of the buffer.
Fill(at, n) == /\ mem' = [i \in 1 .. SIZE |-> IF i \in at + 1 .. at + n
                                              THEN next + (i - at - 1) ELSE mem[i]]
               /\ next' = next + n

\* r_buf_wbuf_set(): n bytes were written, offset bytes into the space.
r_buf_wbuf_set(offset, n) ==
    /\ room > 0 /\ next + n - 1 <= MaxBytes
    /\ offset + n <= room
    /\ n >= MIN_BLOCK_SIZE /\ n <= SIZE - rb.wpos
    /\ rb' = [rb EXCEPT !.iov[rb.iov_index] = [base |-> @.base + offset, len |-> n],
                        !.frag = @ \/ offset # 0, !.wpos = @ + offset + n,
                        !.iov_index_max = Max({@, rb.iov_index})]
    /\ Fill(rb.wpos + offset, n)
    /\ room' = 0 /\ UNCHANGED <<rpos, read>>

\* r_buf_wbuf_set2(): the same by address; the next iovec is opened at once.
r_buf_wbuf_set2(offset, n) ==
    LET i == rb.iov_index  buf == rb.iov[i].base + offset IN
    /\ room > 0 /\ next + n - 1 <= MaxBytes
    /\ n >= MIN_BLOCK_SIZE /\ buf + n <= SIZE
    /\ rb' = [rb EXCEPT !.iov = [@ EXCEPT ![i] = [base |-> buf, len |-> n],
                                          ![i + 1] = [base |-> buf + n, len |-> 0]],
                        !.frag = @ \/ offset # 0, !.wpos = buf + n,
                        !.iov_index_max = Max({@, i}), !.iov_index = i + 1]
    /\ Fill(buf, n)
    /\ room' = 0 /\ UNCHANGED <<rpos, read>>

\* A reader joins.
Join(data_size) ==
    /\ rpos = None
    /\ rpos' = r_buf_rpos_init(rb, data_size)
    /\ UNCHANGED <<rb, mem, next, room, read>>

-----------------------------------------------------------------------------
\* r_buf_data_avail_size(): bytes the reader at p can get.
r_buf_data_avail_size(b, p) ==
    LET c == r_buf_rpos_check(b, p)
        q == c.rpos
        Rest(from, to) == r_buf_iovec_calc_size(b, from, 1 + to - from)
        End(i) == b.iov[i].base + b.iov[i].len
    IN  IF ~c.ok THEN 0
        ELSE IF q.round_num = b.round_num
        THEN IF q.iov_index = b.iov_index + 1 THEN 0
             ELSE (IF b.frag THEN Rest(q.iov_index, b.iov_index)
                   ELSE b.wpos - b.iov[q.iov_index].base) - q.iov_off
        ELSE (IF b.frag THEN Rest(q.iov_index, b.iov_index_max) + Rest(0, b.iov_index)
              ELSE End(b.iov_index_max) - b.iov[q.iov_index].base + b.wpos) - q.iov_off

\* r_buf_data_get(): regions with at most data_size bytes, and their size.  Asked
\* for nothing it does not even look at the position.
r_buf_data_get(b, p, data_size, iov_cnt) ==
    LET c == r_buf_rpos_check(b, p)
        q == c.rpos
        Got(agg, ret) == [rpos |-> q, drop |-> 0, ret |-> ret, size |-> data_size - agg.left]
    IN  IF data_size = 0 THEN [rpos |-> p, drop |-> 0, ret |-> <<>>, size |-> 0]
        ELSE IF ~c.ok THEN [rpos |-> q, drop |-> c.drop, ret |-> <<>>, size |-> 0]
        ELSE IF q.round_num = b.round_num
        THEN IF q.iov_index = b.iov_index + 1
             THEN [rpos |-> q, drop |-> 0, ret |-> <<>>, size |-> 0]
             ELSE LET a == iovec_aggregate_ex(b, q.iov_index, 1 + b.iov_index - q.iov_index,
                                              data_size, q.iov_off, iov_cnt)
                  IN  Got(a, a.ret)
        ELSE LET a == iovec_aggregate_ex(b, q.iov_index, 1 + b.iov_index_max - q.iov_index,
                                         data_size, q.iov_off, iov_cnt)
                 z == iovec_aggregate_ex(b, 0, 1 + b.iov_index, a.left, 0, iov_cnt - Len(a.ret))
             IN  Got(z, a.ret \o z.ret)

\* r_buf_rpos_inc(): the reader has used data_size bytes.
r_buf_rpos_inc(b, p, data_size) ==
    LET rest    == b.iov[p.iov_index].len - p.iov_off
        partial == p.iov_off # 0
        start   == IF partial THEN [p |-> r_buf_rpos_index_inc(b, [p EXCEPT !.iov_off = 0]),
                                    n |-> data_size - rest]
                   ELSE [p |-> p, n |-> data_size]
        Whole(s) == s.n # 0 /\ b.iov[s.p.iov_index].len <= s.n
        Skip(s)  == [p |-> r_buf_rpos_index_inc(b, s.p), n |-> s.n - b.iov[s.p.iov_index].len]
        last    == While(Whole, Skip, start)
    IN  IF data_size = 0 THEN p
        ELSE IF partial /\ data_size < rest THEN [p EXCEPT !.iov_off = @ + data_size]
        ELSE IF last.n = 0 THEN last.p ELSE [last.p EXCEPT !.iov_off = last.n]

(* The index of the reader's block is still beyond the writer's, but the   *)
(* writer, whose blocks are larger or further apart in this round, has     *)
(* already written into it: r_buf_rpos_check() takes such a position for   *)
(* good.                                                                   *)
Overwritten(b, p) == /\ p.round_num + 1 = b.round_num
                     /\ p.iov_index \in b.iov_index + 1 .. b.iov_index_max
                     /\ b.iov[p.iov_index].base < b.wpos

(* The rest of the last round does not fit, and a block of this round,     *)
(* being smaller, is delivered in its place: r_buf_data_get() goes on with *)
(* the new round whatever stopped it in the old one.                       *)
PassedOver(b, p, data_size, ret) ==
    LET count == 1 + b.iov_index_max - p.iov_index
        old == iovec_aggregate_ex(b, p.iov_index, count, data_size, p.iov_off, IOV_CNT)
    IN  /\ p.round_num # b.round_num /\ Len(ret) > Len(old.ret)
        /\ data_size - old.left < r_buf_iovec_calc_size(b, p.iov_index, count) - p.iov_off

\* The bytes of the regions, in order.
Bytes(ret) == FoldLeft(LAMBDA acc, v : acc \o SubSeq(mem, v.base + 1, v.base + v.len), <<>>, ret)

\* The reader gets at most data_size bytes and sends all but keep of them.
Read(data_size, keep) ==
    /\ rpos # None
    /\ LET g     == r_buf_data_get(rb, rpos, data_size, IOV_CNT)
           bytes == Bytes(g.ret)
           sent  == Max({0, Len(bytes) - keep})
           torn  == Overwritten(rb, rpos) \/ PassedOver(rb, g.rpos, data_size, g.ret)
       IN  /\ rpos' = r_buf_rpos_inc(rb, g.rpos, sent)
           /\ read' = [bytes  |-> bytes,
                       torn   |-> torn,
                       last   |-> IF sent = 0 THEN read.last ELSE IF torn THEN 0 ELSE bytes[sent],
                       missed |-> IF g.drop > 0 THEN TRUE ELSE sent = 0 /\ read.missed]
    /\ UNCHANGED <<rb, mem, next, room>>

Next == \/ \E min \in BlockSizes : r_buf_wbuf_get(min)
        \/ \E o \in Offsets, n \in BlockSizes : r_buf_wbuf_set(o, n) \/ r_buf_wbuf_set2(o, n)
        \/ \E n \in Asks : Join(n)
        \/ \E n \in Asks, keep \in {0, 1} : Read(n, keep)

Spec == Init /\ [][Next]_vars

-----------------------------------------------------------------------------
(* What a reader is given is the stream: the bytes of one read are         *)
(* consecutive, newer than everything read before, and no byte is skipped  *)
(* unless a read in between told of a loss.  A reader overtaken by the     *)
(* writer thus gets no mixture of old and new data, with two exceptions,   *)
(* for blocks of different sizes or with gaps: a reader overtaken within   *)
(* an index (Overwritten), and a read across the end of a round that the   *)
(* rest of the round does not fit in (PassedOver).                         *)
InOrder ==
    LET b == read'.bytes
    IN  read' # read /\ b # <<>> /\ ~read'.torn =>
          /\ \A i \in 1 .. Len(b) - 1 : b[i + 1] = b[i] + 1
          /\ b[1] > read.last
          /\ read.last # 0 /\ ~read.missed => b[1] = read.last + 1

(* r_buf_data_avail_size(), which adds up addresses as long as the buffer  *)
(* is not fragmented, promises exactly the bytes r_buf_data_get() delivers *)
(* to a reader that asks for everything, and both agree with               *)
(* r_buf_rpos_check_fast() on whether the position is still good.          *)
AvailIsDelivered ==
    rpos # None =>
       /\ Len(Bytes(r_buf_data_get(rb, rpos, 3 * SIZE, iov_count).ret)) = r_buf_data_avail_size(rb, rpos)
       /\ r_buf_rpos_check_fast(rb, rpos) = r_buf_rpos_check(rb, rpos).ok
=============================================================================
