----------------------------- MODULE HttpServer -----------------------------
(***************************************************************************)
(* The HTTP server of src/src/proto/http_server.c: the list of listening   *)
(* binds and one client connection, from accept to close.                  *)
(*                                                                         *)
(* The client's byte stream is a sequence of cells <<k, j>>: cell j of     *)
(* request k.  Cells 1 and 2 are the headers, cell 2 holds the CRLFCRLF,   *)
(* the cells after it are the body.  PAGE is a cell of a generated error   *)
(* page, NUL the terminator the server writes behind a request.            *)
(*                                                                         *)
(* The user's callbacks on_conn, on_req_rcv and on_rep_snd may return any  *)
(* of their three codes; a connection they keep (CB_NONE) is `held' until  *)
(* the user resumes or frees it.                                           *)
(***************************************************************************)
EXTENDS Integers, Sequences, FiniteSets, SequencesExt

CONSTANTS Binds,        \* the addresses the user listens on
          Clients,      \* what a client may send: sequences of requests, records
                        \* [m, body, len, close, host]: len is the value of
                        \* content-length, or -1
          INIT_SIZE,    \* rcv_io_buf_init_size, in cells
          MAX_SIZE,     \* rcv_io_buf_max_size
          HOST_CHECK    \* HTTP_SRV_REQ_P_F_HOST is set

VARIABLES srv,          \* the server: alive, its binds, the listening ones, whether
                        \* rcv_timeout and snd_timeout are set: 0 means no timer
          cli,          \* the client connection, http_srv_cli_t
          net           \* the client: its requests, the cells it has sent, the
                        \* cells read from the socket, whether it shut down

vars == <<srv, cli, net>>

HDR == 2                \* cells of a request's headers
PAGE == <<0, 0>>
NUL == <<0, 1>>

\* The cells of request k, and of all requests.
Reqs == net.reqs
Cells(k) == [j \in 1..(HDR + Reqs[k].body) |-> <<k, j>>]
Stream == FlattenSeq([k \in 1..Len(Reqs) |-> Cells(k)])

IsEnd(cell) == cell[1] # 0 /\ cell[2] = HDR

NoReq == [set |-> FALSE, k |-> 0, data |-> 0, size |-> 0, gen |-> 0, close |-> FALSE]
NoResp == [close |-> FALSE, page |-> FALSE]

\* A connection that does not exist; calloc() of http_srv_cli_alloc().
NoCli == [st |-> "none", arm |-> "no", timer |-> FALSE, every |-> TRUE,
          data |-> <<>>, size |-> INIT_SIZE, off |-> 0, tr |-> 0, gen |-> 0,
          req |-> NoReq, resp |-> NoResp, buf |-> "rcv",
          half |-> FALSE, next |-> NUL, held |-> "no", bnd |-> "none",
          seen |-> <<>>, out |-> <<>>]

-----------------------------------------------------------------------------
(* io_buf macros on the receive buffer, and the receive task. *)

Used(c) == Len(c.data)
Free(c) == c.size - Used(c)
AllFree(c) == [c EXCEPT !.off = Used(c), !.tr = Free(c)]
EveryRead(c, on) == [c EXCEPT !.every = on]

\* tp_task_stop(), tp_task_restart() of the receive task; post_int() after a
\* callback returned CONTINUE re-arms the timer and nothing else.  There is a
\* timer only where the timeout is not 0.
Stop(c) == [c EXCEPT !.arm = "no", !.timer = FALSE]
Start(c, ev) == [c EXCEPT !.arm = ev, !.timer = IF ev = "read" THEN srv.rcv ELSE srv.snd]
Continue(c) == [c EXCEPT !.timer = srv.rcv]

\* The program has read outside the buffer or through a dangling pointer.
Undefined(c) == [NoCli EXCEPT !.st = "undefined", !.bnd = c.bnd, !.seen = c.seen, !.out = c.out]

\* io_buf_realloc(): the block may stay or move; transfer_size is cut to `used'.
io_buf_realloc(c, size) ==
    {[c EXCEPT !.size = size, !.gen = g, !.tr = IF c.tr > Used(c) THEN Used(c) ELSE c.tr] :
        g \in {c.gen, 1 - c.gen}}

http_srv_cli_free(c) ==
    [NoCli EXCEPT !.st = "freed", !.bnd = c.bnd, !.seen = c.seen, !.out = c.out]

\* Mutation: what follows the request is dropped with it.
http_srv_cli_next_req_DropsRest(c) ==
    [c EXCEPT !.data = <<>>, !.off = 0, !.next = NUL, !.req = NoReq, !.resp = NoResp]

\* http_srv_cli_next_req(): what follows the request moves to the front.
http_srv_cli_next_req(c) ==
    LET end == c.req.data + c.req.size
        rest == SubSeq(c.data, end + 1, Used(c))
        fixed == IF c.next = NUL \/ rest = <<>> THEN rest ELSE [rest EXCEPT ![1] = c.next]
    IN  IF c.req.gen # c.gen \/ end > Used(c)
        THEN Undefined(c)
        ELSE [c EXCEPT !.data = fixed, !.off = Len(fixed), !.next = NUL,
                       !.req = NoReq, !.resp = NoResp]

MustClose(c) == c.half \/ c.req.close \/ c.resp.close

-----------------------------------------------------------------------------
(* Sending. *)

(* http_srv_snd(): the response is built and sendmsg() takes all of it, only a
   part, or fails.  A generated page is appended to cli->buf.  With the receive
   buffer as cli->buf that puts it behind the received data, unless the
   connection closes.
   Results: <<connection, "sent" | "progress" | "error">>. *)
http_srv_snd(c, status) ==
    LET r == [c EXCEPT !.resp.close = @ \/ c.half]
        inRcv == r.buf = "rcv" /\ ~r.resp.close
        p == IF r.resp.page /\ inRcv THEN [r EXCEPT !.data = Append(@, PAGE)] ELSE r
        answer == [k |-> c.req.k, status |-> status, close |-> r.resp.close]
        sent == [p EXCEPT !.out = Append(@, answer)]
        \* The headers not yet sent are copied in front of the body.
        moved == IF ~inRcv THEN sent
                 ELSE IF 1 > p.off THEN [sent EXCEPT !.data = <<PAGE, PAGE>>, !.off = 0]
                 ELSE [sent EXCEPT !.off = @ - 1, !.data[p.off] = PAGE]
    IN  IF r.resp.page /\ inRcv /\ Free(r) = 0
        THEN {<<r, "error">>}
        ELSE {<<sent, "sent">>, <<p, "error">>}
             \cup {<<Start(m, "write"), "progress">> : m \in {sent, moved}}

\* Mutation: after a response the connection is not read again.
Restarted_NotAtAll(c) == {EveryRead(AllFree(c), TRUE)}
\* tp_task_restart() for the next request; if it fails the connection is freed.
Restarted(c) == {Start(EveryRead(AllFree(c), TRUE), "read"), http_srv_cli_free(c)}

HasHeaders(c) == \E i \in 1..Used(c) : IsEnd(c.data[i])

(* http_srv_send_responce(): send, then close, or look for the next request in
   the buffer, or go on receiving. *)
http_srv_send_responce(c, status) ==
    LET After(r) ==
          LET n == http_srv_cli_next_req(r[1])
          IN  IF r[2] = "progress" THEN {<<r[1], "NONE">>}
              ELSE IF MustClose(r[1]) \/ r[2] = "error" THEN {<<http_srv_cli_free(r[1]), "NONE">>}
              ELSE IF n.st # "open" THEN {<<n, "NONE">>}
              ELSE IF HasHeaders(n) THEN {<<n, "CONTINUE">>}
              ELSE {<<m, "NONE">> : m \in Restarted(n)}
    IN  UNION {After(r) : r \in http_srv_snd(c, status)}

-----------------------------------------------------------------------------
(* Receiving.  Each operator returns a set of <<connection, return code>>. *)

\* tp_task_cb_check()
tp_task_cb_check(c, eof, n) ==
    IF c.tr = 0 THEN "NONE" ELSE IF eof # "no" THEN "EOF" ELSE IF n = 0 THEN "ERROR" ELSE "CONTINUE"

\* Label continue_recv: go on, grow the buffer, or drop the client.
ContinueRecv(c) ==
    IF Free(c) # 0 /\ c.tr <= Free(c) THEN {<<c, "CONTINUE">>}
    ELSE IF c.tr + Used(c) > MAX_SIZE THEN {<<http_srv_cli_free(c), "NONE">>}
    ELSE {<<r, "CONTINUE">> : r \in io_buf_realloc(c, c.tr + Used(c))}

\* Labels stop_and_drop_with_http_err and send_error.
WithError(c, status, close) ==
    LET s == [(IF close THEN Stop(c) ELSE c) EXCEPT !.resp.page = TRUE, !.resp.close = @ \/ close]
    IN  http_srv_send_responce(s, status)

\* The request as the user's callback sees it: its number and what has come in
\* of its body; "lost" when its pointers are into a block that was freed.
Seen(c) == [k |-> c.req.k,
            body |-> IF c.req.gen # c.gen THEN "lost"
                     ELSE IF c.req.data + c.req.size > Used(c) THEN "short" ELSE "full"]

\* on_req_rcv(): the separate send buffer is allocated, the byte behind the
\* request is saved and cleared, the user answers (and may close), keeps the
\* connection or destroys it.
OnReqRcv(c) ==
    LET end == c.req.data + c.req.size
        nul == IF end < Used(c) THEN [c EXCEPT !.next = c.data[end + 1], !.data[end + 1] = NUL] ELSE c
        called == [nul EXCEPT !.buf = "own", !.seen = Append(@, Seen(c)),
                              !.resp.close = @ \/ c.half \/ c.req.close]
    IN  IF c.req.gen # c.gen THEN {<<Undefined([c EXCEPT !.seen = Append(@, Seen(c))]), "NONE">>}
        ELSE {<<http_srv_cli_free(called), "NONE">>, <<[called EXCEPT !.held = "req"], "NONE">>}
             \cup UNION {http_srv_send_responce([called EXCEPT !.resp.close = @ \/ cl], 200) :
                           cl \in BOOLEAN}

\* Nobody to call answers 404; no memory for the send buffer, which is allocated
\* for the first request, 500.
NotCalled(c) ==
    WithError(c, 404, TRUE) \cup (IF c.buf = "rcv" THEN WithError(c, 500, TRUE) ELSE {})

\* Label req_received: the request line and the headers decide.
ReqReceived(c) ==
    LET q == Reqs[c.req.k]
        r == [Stop(c) EXCEPT !.req.close = q.close]
    IN  IF HOST_CHECK /\ q.host = "mismatch" THEN WithError(r, 400, FALSE)
        ELSE IF HOST_CHECK /\ q.host = "loopback" THEN WithError(r, 403, FALSE)
        ELSE OnReqRcv(r) \cup NotCalled(r)

\* Label http_hdr_found: the headers end at cell e.
HdrFound(c, action) ==
    LET e == CHOOSE i \in 1..Used(c) : IsEnd(c.data[i]) /\ \A j \in 1..(i - 1) : ~IsEnd(c.data[j])
        k == c.data[e][1]
        q == Reqs[k]
        r == [c EXCEPT !.req = [NoReq EXCEPT !.set = TRUE, !.k = k, !.data = e, !.gen = c.gen]]
        tm == Used(c) - e
        b == [r EXCEPT !.req.size = q.len]
    IN  IF e # HDR \/ c.data[1] # <<k, 1>> \/ q.m = "bad" THEN WithError(r, 400, TRUE)
        ELSE IF q.m = "post" /\ q.len = -1 THEN WithError(r, 411, TRUE)
        ELSE IF q.m = "get" \/ q.len = -1 THEN ReqReceived(r)
        ELSE IF q.len <= tm THEN ReqReceived(b)
        ELSE IF q.len > MAX_SIZE THEN WithError(b, 413, TRUE)
        ELSE IF action \notin {"CONTINUE", "NONE"} \/ c.half THEN WithError(b, 400, TRUE)
        ELSE ContinueRecv([EveryRead(b, FALSE) EXCEPT !.tr = q.len - tm])

\* A response sent at once is followed by the next request of the buffer; there
\* are no more requests than the client sends.
HasNext(r) == r[2] = "CONTINUE" /\ ~r[1].req.set /\ r[1].st = "open" /\ HasHeaders(r[1])
NextTaken(results) == {r \in results : ~HasNext(r)}
    \cup UNION {HdrFound(r[1], "CONTINUE") : r \in {s \in results : HasNext(s)}}
Pipelined(results) ==
    LET after[n \in 0..Len(Reqs)] == IF n = 0 THEN results ELSE NextTaken(after[n - 1])
    IN  after[Len(Reqs)]

(* http_srv_recv_done_cb(): n cells came in, the task's buffer is full when tr is
   0; eof is "sys" when the event says that the client has shut down its side,
   "buf" when only recv() has found the end. *)
http_srv_recv_done_cb(c, eof, n) ==
    LET action == tp_task_cb_check(c, eof, n)
        h == [c EXCEPT !.half = @ \/ eof = "sys"]
    IN  IF action = "ERROR" THEN {<<http_srv_cli_free(c), "NONE">>}
        ELSE IF h.req.set
        THEN IF action = "CONTINUE" /\ h.tr # 0 THEN ContinueRecv(h)
             ELSE Pipelined(ReqReceived(EveryRead(h, TRUE)))
        ELSE IF HasHeaders(h) THEN Pipelined(HdrFound(h, action))
        ELSE IF action # "CONTINUE" THEN {<<http_srv_cli_free(h), "NONE">>}
        ELSE ContinueRecv(AllFree(h))

\* tp_task_handler(): recv() takes what is there up to transfer_size.
Avail == net.sent - net.got
RecvSize(c) == IF Avail < c.tr THEN Avail ELSE c.tr
Filled(c, n) == [c EXCEPT !.data = @ \o SubSeq(Stream, net.got + 1, net.got + n),
                          !.off = @ + n, !.tr = @ - n]

(* One read event: the callback is called after the first recv() with the
   flag CB_AFTER_EVERY_READ, without it when the transfer is complete or the
   stream has ended. *)
Handled(c, direct) ==
    LET n == RecvSize(c)
        f == Filled(c, n)
        eof == IF net.fin /\ ~direct THEN "sys" ELSE IF net.fin /\ n = 0 THEN "buf" ELSE "no"
        quiet == n = 0 /\ c.tr # 0 /\ ~net.fin            \* EAGAIN
        waits == ~c.every /\ f.tr # 0 /\ ~net.fin
    IN  IF quiet \/ waits THEN {<<f, "CONTINUE">>}
        ELSE http_srv_recv_done_cb(f, eof, n)

\* tp_task_start_ex() that reads first, and otherwise waits for an event; if it
\* fails the connection is freed.
StartEx(c, first) ==
    {http_srv_cli_free(c)} \cup
    IF first \/ c.tr = 0 THEN {Start(c, "read")}
    ELSE {IF r[2] = "CONTINUE" THEN Start(r[1], "read") ELSE r[1] : r \in Handled(c, TRUE)}

\* http_srv_resume_next_request()
http_srv_resume_next_request(c) ==
    LET n == http_srv_cli_next_req([c EXCEPT !.held = "no"])
        r == EveryRead(AllFree(n), TRUE)
    IN  IF n.st # "open" THEN {n} ELSE StartEx(r, Used(r) = 0)

\* http_srv_resume_responce(): the user answers a request it kept.
http_srv_resume_responce(c) ==
    LET After(r) == IF r[2] = "NONE" THEN {r[1]} ELSE Restarted(r[1])
        first == http_srv_send_responce([c EXCEPT !.held = "no"], 200)
    IN  {r[1] : r \in {s \in first : s[2] = "NONE"}}
        \cup UNION {UNION {After(s) : s \in http_srv_recv_done_cb(r[1], "no", Used(r[1]))} :
                      r \in {s \in first : s[2] = "CONTINUE"}}

-----------------------------------------------------------------------------
(* The connection's actions. *)

\* What a read event takes from the socket, with the cells a direct read takes.
Took(c, d) == [net EXCEPT !.got = @ + d]

http_srv_new_conn_cb(b) ==
    /\ srv.alive /\ b \in srv.listening /\ cli.st = "none"
    /\ \/ cli' = [NoCli EXCEPT !.st = "freed", !.bnd = b]     \* on_conn refuses or takes the socket
       \/ LET c == AllFree([NoCli EXCEPT !.st = "open", !.bnd = b])
          IN  cli' \in StartEx(c, TRUE)
    /\ UNCHANGED <<srv, net>>

ReadEvent ==
    /\ cli.st = "open" /\ cli.arm = "read"
    /\ Avail > 0 \/ net.fin \/ cli.tr = 0
    /\ \E r \in (IF cli.tr = 0 THEN http_srv_recv_done_cb(cli, IF net.fin THEN "sys" ELSE "no", 0)
                 ELSE Handled(cli, FALSE)) :
         cli' = IF r[2] = "CONTINUE" THEN Continue(r[1]) ELSE r[1]
    /\ net' = Took(cli, IF cli.tr = 0 THEN 0 ELSE RecvSize(cli))
    /\ UNCHANGED srv

\* The connection's timer, or an error of the socket.
ReadFails ==
    /\ cli.st = "open"
    /\ cli.arm # "no" \/ cli.timer
    /\ cli' = http_srv_cli_free(cli)
    /\ UNCHANGED <<srv, net>>

\* http_srv_snd_done_cb(): the rest of a response was written.
http_srv_snd_done_cb ==
    /\ cli.st = "open" /\ cli.arm = "write"
    /\ LET c == [cli EXCEPT !.half = @ \/ net.fin, !.off = Used(cli), !.tr = 0]
           s == Stop(c)
           d == IF Used(http_srv_cli_next_req(s)) # 0 /\ ~MustClose(c)
                THEN RecvSize(AllFree(http_srv_cli_next_req(s))) ELSE 0
       IN  \/ /\ cli' = http_srv_cli_free(c)        \* on_rep_snd destroys, or the connection closes
              /\ UNCHANGED net
           \/ /\ ~MustClose(c)
              /\ \/ cli' = [s EXCEPT !.held = "resp"] /\ UNCHANGED net
                 \/ cli' \in http_srv_resume_next_request(s) /\ net' = Took(s, d)
    /\ UNCHANGED srv

\* The user comes back to a connection it kept.
UserResumes ==
    /\ cli.st = "open" /\ cli.held # "no"
    /\ \/ /\ cli.held = "req"
          /\ \E cl \in BOOLEAN :
               cli' \in http_srv_resume_responce([cli EXCEPT !.resp.close = @ \/ cl])
          /\ UNCHANGED net
       \/ /\ cli' \in http_srv_resume_next_request(cli)
          /\ LET n == AllFree(http_srv_cli_next_req(cli))
             IN  net' = Took(cli, IF Used(n) = 0 THEN 0 ELSE RecvSize(n))
       \/ cli' = http_srv_cli_free(cli) /\ UNCHANGED net
    /\ UNCHANGED srv

-----------------------------------------------------------------------------
(* The server and its binds. *)

\* http_srv_bind_add(): listen, or fail and leave nothing behind.
http_srv_bind_add(b) ==
    /\ srv.alive /\ b \notin Range(srv.bnd) /\ b \notin srv.listening
    /\ srv' = [srv EXCEPT !.bnd = Append(@, b), !.listening = @ \cup {b}]
    /\ UNCHANGED <<cli, net>>

http_srv_bind_shutdown(b) ==
    /\ b \in Range(srv.bnd)
    /\ srv' = [srv EXCEPT !.listening = @ \ {b}]
    /\ UNCHANGED <<cli, net>>

\* The bind's memory goes with it: the user removes it after its connections.
InUse(b) == cli.st = "open" /\ cli.bnd = b

http_srv_bind_remove(b) ==
    /\ b \in Range(srv.bnd) /\ ~InUse(b)
    /\ srv' = [srv EXCEPT !.bnd = SelectSeq(@, LAMBDA x : x # b), !.listening = @ \ {b}]
    /\ UNCHANGED <<cli, net>>

\* http_srv_shutdown() never does anything: it returns when there are binds.
\* http_srv_destroy(): the loop's index goes up while the list shrinks, so
\* every other bind stays.
http_srv_destroy ==
    /\ srv.alive /\ cli.st # "open"
    /\ srv' = [srv EXCEPT !.alive = FALSE, !.bnd = <<>>,
                   !.listening = @ \ {srv.bnd[i] : i \in {j \in 1..Len(srv.bnd) : j % 2 = 1}}]
    /\ UNCHANGED <<cli, net>>

-----------------------------------------------------------------------------
\* The client sends some more of its stream, or ends it.
ClientSends ==
    /\ ~net.fin
    /\ \E n \in (net.sent + 1)..Len(Stream) : net' = [net EXCEPT !.sent = n]
    /\ UNCHANGED <<srv, cli>>

ClientShutsDown ==
    /\ ~net.fin
    /\ net' = [net EXCEPT !.fin = TRUE]
    /\ UNCHANGED <<srv, cli>>

Init ==
    /\ \E rcv, snd \in BOOLEAN :
         srv = [alive |-> TRUE, bnd |-> <<>>, listening |-> {}, rcv |-> rcv, snd |-> snd]
    /\ cli = NoCli
    /\ \E reqs \in Clients : net = [reqs |-> reqs, sent |-> 0, got |-> 0, fin |-> FALSE]

Next ==
    \/ \E b \in Binds :
         \/ http_srv_bind_add(b)
         \/ http_srv_bind_shutdown(b)
         \/ http_srv_bind_remove(b)
         \/ http_srv_new_conn_cb(b)
    \/ http_srv_destroy
    \/ ReadEvent
    \/ ReadFails
    \/ http_srv_snd_done_cb
    \/ UserResumes
    \/ ClientSends
    \/ ClientShutsDown

Spec == Init /\ [][Next]_vars

-----------------------------------------------------------------------------
(* Properties. *)

\* The requests are handled one after the other in the order the client sent
\* them: none twice, none passed over (http_srv_recv_done_cb(),
\* http_srv_cli_next_req()), whatever was pipelined, kept by the user or written
\* in parts.  The exception is a request behind one that was refused without
\* closing before the first callback: the headers of the error page are put into
\* the receive buffer, over what was received (http_srv_snd()).  The request found
\* next is then refused, and the connection closes.
Handled1(k) == \E i \in 1..Len(cli.seen) : cli.seen[i].k = k
Answered1(k) == \E i \in 1..Len(cli.out) : cli.out[i].k = k
Overwritten(p) ==
    \E i \in 1..Len(cli.out) :
        /\ cli.out[i].k < p /\ cli.out[i].status # 200 /\ ~cli.out[i].close
        /\ \A j \in 1..Len(cli.seen) : cli.out[i].k < cli.seen[j].k
Refused(k) == \E i \in 1..Len(cli.out) : cli.out[i] = [k |-> k, status |-> 400, close |-> TRUE]
InOrder ==
    /\ \A i, j \in 1..Len(cli.seen) : i < j => cli.seen[i].k < cli.seen[j].k
    /\ \A i, j \in 1..Len(cli.out) : i < j => cli.out[i].k < cli.out[j].k
    /\ \A k \in 1..Len(Reqs) : Handled1(k) \/ Answered1(k) =>
         \A p \in 1..(k - 1) : Handled1(p) \/ Answered1(p) \/ (Overwritten(p) /\ Refused(k))

\* After a response that says "Connection: close" (MustClose() in
\* http_srv_send_responce() and http_srv_snd_done_cb()) no request is taken from
\* the connection any more.
CloseIsFinal ==
    \A i \in 1..Len(cli.out) : cli.out[i].close =>
        /\ i = Len(cli.out)
        /\ \A j \in 1..Len(cli.seen) : cli.seen[j].k <= cli.out[i].k

\* A connection the user does not hold is attended: its task waits for the
\* socket or at least its timer runs, so it is used or freed in the end.  The
\* exception: a request that was received together with the one answered before
\* it and is not complete.  The task was stopped for the first request, CONTINUE
\* starts no more than the timer, and with rcv_timeout 0 there is none.
Forgotten == ~srv.rcv /\ cli.out # <<>> /\ HasHeaders(cli)
Attended ==
    cli.st = "open" /\ cli.held = "no" => cli.arm # "no" \/ cli.timer \/ Forgotten
=============================================================================
