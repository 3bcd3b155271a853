---------------------------- MODULE RadiusClient ----------------------------
(***************************************************************************)
(* RADIUS client (proto/radius_client.c).                                  *)
(*                                                                         *)
(* A query is handed over to a pool thread by a message and stays there:   *)
(* the thread owns up to thr_sockets_max UDP sockets per address family,   *)
(* a socket has one slot per packet id, a slot its retransmission timer.   *)
(* A query ends with an answer, when its tries are used up, with an error, *)
(* or when the client is destroyed.  One thread is modelled: a query's     *)
(* thread is the thread that reports it (query->tpt), and the threads      *)
(* share nothing but the list of servers.                                  *)
(*                                                                         *)
(* The calls of one handler change much of the state one after another;    *)
(* the state of the client is one record that they pass on.  "wild" says   *)
(* that memory that is gone was used: nothing is known about the program   *)
(* from there on, and the model stops.                                     *)
(***************************************************************************)
EXTENDS Integers, Sequences, FiniteSetsExt

CONSTANTS
    Queries,        \* queries the users make
    Sockets,        \* names of socket structures
    Ids,            \* 0 .. RADIUS_PKT_HDR_ID_MAX_COUNT - 1
    Servers,        \* the servers in the order they are added: a sequence of settings
    Addrs,          \* addresses packets come from
    SktLimits,      \* settings users give: pairs <<thr_sockets_min, thr_sockets_max>>
    NoQuery, NoSkt

VARIABLES
    cli,            \* the client: see Init
    msgs,           \* messages to the thread, oldest first
    limits,         \* thr_sockets_min and _max after radius_client_create()
    life            \* "live", "destroying" or "destroyed"
vars == <<cli, msgs, limits, life>>

Families == {"v4", "v6"}
(* What memset() leaves of a server. *)
Blank == [enabled |-> FALSE, addr |-> "none", family |-> "v6", init |-> 0, max |-> 0, duration |-> 0, tries |-> 0]

NoSlots == [fam |-> "v4", st |-> "none", tmr |-> [i \in Ids |-> NoQuery], ktmr |-> [i \in Ids |-> "none"],
            count |-> 0, index |-> 0]
NewQuery == [st |-> "idle", any |-> TRUE, id |-> 0, skt |-> NoSkt, idx |-> 1, count |-> 0, time |-> 0,
             duration |-> 0, cb |-> TRUE, signed |-> FALSE, tried |-> {}]

(* radius_client_create(): at least one socket, and no fewer at most than at least. *)
Created(min, max) ==
    LET m == IF min = 0 THEN 1 ELSE min IN [min |-> m, max |-> IF max < m THEN m ELSE max]

Init ==
    /\ limits \in {Created(l[1], l[2]) : l \in SktLimits}
    /\ cli = [srv |-> <<>>, srv_count |-> 0,
              sock |-> [s \in Sockets |-> NoSlots],
              skts |-> [f \in Families |-> [skt |-> <<>>, queries |-> 0]],
              q |-> [x \in Queries |-> NewQuery],
              rep |-> [x \in Queries |-> <<>>],
              sent |-> {},
              wild |-> "none"]
    /\ msgs = <<>>
    /\ life = "live"

-----------------------------------------------------------------------------
(* Queries and sockets *)

(* radius_client_query_done() behind the unlinking: the callback runs here, a cancelled    *)
(* query has none, and the query is freed.                                                 *)
Freed(q) == [NewQuery EXCEPT !.st = "freed", !.cb = q.cb, !.tried = q.tried]
Reason(err) == IF err \in {"ok", "ETIMEDOUT"} THEN err ELSE "error"
(* Mutation: a cancelled query is called back too. *)
Report_Cancelled(c, x, err) ==
    [c EXCEPT !.q[x] = Freed(@), !.rep[x] = Append(@, Reason(err))]
Report(c, x, err) ==
    [c EXCEPT !.q[x] = Freed(@), !.rep[x] = IF c.q[x].cb THEN Append(@, Reason(err)) ELSE @]

(* The place of the socket is cleared and the list is one entry shorter at its end. *)
OffList(list, s) ==
    LET i == CHOOSE k \in DOMAIN list : list[k] = s
    IN  SubSeq([list EXCEPT ![i] = NoSkt], 1, Len(list) - 1)

(* Freeing a socket reports its queries; their timers are left in the kernel. *)
radius_client_socket_free(c, s) ==
    LET f == c.sock[s].fam
        owned == {c.sock[s].tmr[i] : i \in Ids} \ {NoQuery}
        listed == \E i \in DOMAIN c.skts[f].skt : c.skts[f].skt[i] = s
    IN  [c EXCEPT
            !.sock[s].st = "freed",
            !.skts[f] = IF listed THEN [skt |-> OffList(@.skt, s), queries |-> @.queries - c.sock[s].count] ELSE @,
            !.sent = {p \in @ : p.s # s},
            !.q = [x \in Queries |-> IF x \in owned THEN Freed(@[x]) ELSE @[x]],
            !.rep = [x \in Queries |-> IF x \in owned /\ c.q[x].cb THEN Append(@[x], Reason("EINTR")) ELSE @[x]]]

(* The last query on a socket the pool can do without takes the socket with it. *)
Spared(c, s, f) ==
    IF /\ c.sock[s].count = 0
       /\ Len(c.skts[f].skt) > limits.min
       /\ c.skts[f].skt[Len(c.skts[f].skt)] = s
    THEN radius_client_socket_free(c, s) ELSE c
(* Mutation: the slot goes on naming the query. *)
radius_client_query_unlink_skt_KeepsSlot(c, x) ==
    LET s == c.q[x].skt
        id == c.q[x].id
        f == c.sock[s].fam
        kept == [c.sock[s] EXCEPT !.ktmr[id] = "none", !.count = @ - 1]
    IN  IF s = NoSkt THEN c
        ELSE Spared([c EXCEPT !.q[x].skt = NoSkt, !.sock[s] = kept, !.skts[f].queries = @ - 1], s, f)
radius_client_query_unlink_skt(c, x) ==
    LET s == c.q[x].skt
        id == c.q[x].id
        f == c.sock[s].fam
        left == [c.sock[s] EXCEPT !.tmr[id] = NoQuery, !.ktmr[id] = "none", !.count = @ - 1]
    IN  IF s = NoSkt THEN c
        ELSE Spared([c EXCEPT !.q[x].skt = NoSkt, !.sock[s] = left, !.skts[f].queries = @ - 1], s, f)

radius_client_query_done(c, x, err) == Report(radius_client_query_unlink_skt(c, x), x, err)

(* Names of freed sockets are used again once the kernel holds nothing of them. *)
Unused(c) == {s \in Sockets : c.sock[s].st # "live" /\ \A i \in Ids : c.sock[s].ktmr[i] = "none"}

(* The slot of a query: the first socket where its id is free, or for any id the first     *)
(* free one at or behind the last one used.                                                *)
FreeIds(k, x, q) == {i \in Ids : k.tmr[i] = NoQuery /\ (q[x].any \/ i = q[x].id)}
NextId(k, x, q) == LET free == FreeIds(k, x, q)
                       behind == {i \in free : i >= k.index}
                   IN  IF q[x].any /\ behind # {} THEN Min(behind) ELSE Min(free)

(* radius_client_socket_alloc(): outcome "memory" is a failing calloc(), "create" a socket *)
(* the kernel refuses: the clean-up then reads the thread of a structure that has none.    *)
radius_client_socket_alloc(c, f, outcome) ==
    LET s == CHOOSE u \in Unused(c) : TRUE IN
    CASE outcome = "memory" -> [c |-> c, err |-> "ENOMEM"]
      [] outcome = "create" -> [c |-> [c EXCEPT !.wild = "create"], err |-> "EMFILE"]
      [] outcome = "task" -> [c |-> c, err |-> "ENOMEM"]
      [] OTHER -> [c |-> [c EXCEPT !.sock[s] = [NoSlots EXCEPT !.st = "live", !.fam = f],
                                   !.skts[f].skt = Append(@, s)], err |-> "ok"]

(* Everything a retransmission time may be: d, less a fraction of it of either sign. *)
radius_client_rnd_factor(d) ==
    LET parts == {d \div k : k \in 1 .. Min({127, d + 1})} IN parts \cup {-p : p \in parts}
RetransTimes(srv, d) ==
    LET Limit(t) == IF srv.max # 0 /\ t > srv.max
                    THEN {srv.max - r : r \in radius_client_rnd_factor(srv.max)} ELSE {t}
    IN  UNION {Limit(t) : t \in d}
FirstTimes(srv) == RetransTimes(srv, {srv.init - r : r \in radius_client_rnd_factor(srv.init)})
NextTimes(srv, t) == RetransTimes(srv, {2 * t - r : r \in radius_client_rnd_factor(t)})

(* A timer set to 0 is switched off. *)
radius_client_send(c, x, outcome) ==
    LET q == c.q[x]
        srv == c.srv[q.idx]
        Timer(v) == [c EXCEPT !.sock[q.skt].ktmr[q.id] = v]
    IN  IF outcome = "timer" THEN [c |-> Timer("none"), err |-> "EINVAL"]
        ELSE IF outcome = "send" \/ srv.addr = "none" THEN [c |-> Timer("off"), err |-> "ECONNREFUSED"]
        ELSE [c |-> [Timer(IF q.time = 0 THEN "off" ELSE "set") EXCEPT
                        !.sent = @ \cup {[s |-> q.skt, id |-> q.id, q |-> x, addr |-> srv.addr]},
                        !.q[x].tried = @ \cup {srv.addr}],
              err |-> "ok"]

(* radius_client_send_new(): o says what the system calls on the way do, and which         *)
(* retransmission time is drawn.  A query keeps its socket if the next server has the same *)
(* family; otherwise it is given a slot of the first socket with room, or of a new one.    *)
SlotTaken(c, x, f, s, id, o) ==
    LET taken == [c.sock[s] EXCEPT !.index = IF c.q[x].any THEN id + 1 ELSE @,
                                   !.tmr[id] = x, !.count = @ + 1,
                                   !.ktmr[id] = IF o.call = "add" THEN "none" ELSE "set"]
    IN  [c |-> [c EXCEPT !.q[x].id = id, !.q[x].skt = s, !.sock[s] = taken, !.skts[f].queries = @ + 1],
         err |-> IF o.call = "add" THEN "ENOMEM" ELSE "ok"]
NewSlot(r, x, f, o) ==
    LET s == r.c.skts[f].skt[Len(r.c.skts[f].skt)]
    IN  IF r.err # "ok" THEN r ELSE SlotTaken(r.c, x, f, s, NextId(r.c.sock[s], x, r.c.q), o)
Slot(c, x, f, o) ==
    LET roomy == {i \in DOMAIN c.skts[f].skt : FreeIds(c.sock[c.skts[f].skt[i]], x, c.q) # {}}
        s == c.skts[f].skt[Min(roomy)]
    IN  IF roomy # {} THEN SlotTaken(c, x, f, s, NextId(c.sock[s], x, c.q), o)
        ELSE IF Len(c.skts[f].skt) >= limits.max THEN [c |-> c, err |-> "EAGAIN"]
        ELSE NewSlot(radius_client_socket_alloc(c, f, o.call), x, f, o)
SignedSent(r, x, o) ==
    IF r.err # "ok" THEN r
    ELSE IF r.c.q[x].signed THEN [c |-> r.c, err |-> "EEXIST"]
    ELSE IF o.call = "sign" THEN [c |-> r.c, err |-> "EOVERFLOW"]
    ELSE radius_client_send([r.c EXCEPT !.q[x].signed = TRUE, !.q[x].time = o.time,
                                        !.q[x].count = 0, !.q[x].duration = 0], x, o.call)
ToServer(c, x, f, o) ==
    SignedSent(IF c.q[x].skt # NoSkt /\ c.sock[c.q[x].skt].fam = f THEN [c |-> c, err |-> "ok"]
               ELSE Slot(radius_client_query_unlink_skt(c, x), x, f, o), x, o)
radius_client_send_new(c, x, o) ==
    LET enabled == {i \in c.q[x].idx .. c.srv_count : c.srv[i].enabled}
        idx == Min(enabled)
    IN  IF c.srv_count = 0 THEN [c |-> c, err |-> "EDESTADDRREQ"]
        ELSE IF enabled = {}
        THEN [c |-> [c EXCEPT !.q[x].idx = Max({@, c.srv_count + 1})], err |-> "ECONNREFUSED"]
        ELSE ToServer([c EXCEPT !.q[x].idx = idx], x, c.srv[idx].family, o)

(* What a handler does with the outcome: a query that cannot go on is reported. *)
Settled(r, x) ==
    IF r.err = "ok" \/ r.c.wild # "none" THEN r.c ELSE radius_client_query_done(r.c, x, r.err)

Calls == {"ok", "memory", "create", "task", "add", "sign", "timer", "send"}
(* Outcomes for a query that will try the server at its index or the next enabled one. *)
Outcomes(c, x) ==
    LET times == UNION {FirstTimes(c.srv[i]) : i \in 1 .. c.srv_count} IN
    [call : Calls, time : times \cup {0}]

-----------------------------------------------------------------------------
(* The user *)

(* A message that cannot be sent leaves no query behind. *)
radius_client_query(x, any, id, delivered) ==
    /\ life = "live" /\ cli.wild = "none"
    /\ cli.q[x].st = "idle"
    /\ IF delivered
       THEN /\ cli' = [cli EXCEPT !.q[x].st = "queued", !.q[x].any = any, !.q[x].id = id]
            /\ msgs' = Append(msgs, x)
       ELSE /\ cli' = [cli EXCEPT !.q[x].st = "freed"]
            /\ UNCHANGED msgs
    /\ UNCHANGED <<limits, life>>

(* The caller must not cancel a query that was reported. *)
radius_client_query_cancel(x) ==
    /\ cli.wild = "none"
    /\ cli.q[x].st \in {"queued", "active"} /\ cli.q[x].cb
    /\ cli' = [cli EXCEPT !.q[x].cb = FALSE]
    /\ UNCHANGED <<msgs, limits, life>>

radius_client_server_add ==
    /\ life = "live" /\ cli.wild = "none"
    /\ Len(cli.srv) < Len(Servers)
    /\ cli.srv_count = Len(cli.srv)
    /\ cli' = [cli EXCEPT !.srv = Append(@, [Servers[Len(@) + 1] EXCEPT !.enabled = TRUE]), !.srv_count = @ + 1]
    /\ UNCHANGED <<msgs, limits, life>>

(* The entry taken is the first one with another address.  memmove() is given the size of  *)
(* a pointer per entry, which moves no more than "enabled"; memset() clears the last entry *)
(* that stays in the list.                                                                 *)
radius_client_server_remove_by_addr(addr) ==
    /\ life = "live" /\ cli.wild = "none"
    /\ LET others == {i \in 1 .. cli.srv_count : cli.srv[i].addr # addr}
           i == Min(others)
           n == cli.srv_count - 1
           moved == [cli EXCEPT !.srv[i].enabled = IF i <= n THEN cli.srv[i + 1].enabled ELSE @,
                                !.srv_count = n]
       IN  /\ others # {}
           /\ cli' = IF n = 0 THEN [moved EXCEPT !.wild = "srv"]
                     ELSE [moved EXCEPT !.srv[n] = Blank]
    /\ UNCHANGED <<msgs, limits, life>>

(* The message is forced into the queue, and the caller waits for the thread. *)
radius_client_destroy ==
    /\ life = "live" /\ cli.wild = "none"
    /\ life' = "destroying"
    /\ msgs' = Append(msgs, "destroy")
    /\ UNCHANGED <<cli, limits>>

-----------------------------------------------------------------------------
(* The thread *)

radius_client_query_tpt_msg_cb(o) ==
    /\ cli.wild = "none" /\ msgs # <<>> /\ Head(msgs) # "destroy"
    /\ LET x == Head(msgs)
       IN  cli' = Settled(radius_client_send_new([cli EXCEPT !.q[x].st = "active"], x, o), x)
    /\ msgs' = Tail(msgs)
    /\ UNCHANGED <<limits, life>>

(* The loop counts up to a number of sockets that socket_free() lowers: the second half of *)
(* the sockets is left behind.                                                             *)
NextFreed(c, f, i) ==
    IF i > Len(c.skts[f].skt) THEN c ELSE radius_client_socket_free(c, c.skts[f].skt[i])
SocketsFreed(c, f) ==
    LET after[i \in 0 .. Len(c.skts[f].skt)] == IF i = 0 THEN c ELSE NextFreed(after[i - 1], f, i)
    IN  after[Len(c.skts[f].skt)]
radius_client_destroy_tpt_msg_cb ==
    /\ cli.wild = "none" /\ msgs # <<>> /\ Head(msgs) = "destroy"
    /\ cli' = SocketsFreed(SocketsFreed(cli, "v4"), "v6")
    /\ msgs' = Tail(msgs)
    /\ life' = "destroyed"
    /\ UNCHANGED limits

(* The servers tried in one go meet the same outcome o; a try raises the index at least    *)
(* by one.                                                                                 *)
NextTried(r, x, o) ==
    IF r.err = "ok" \/ r.c.q[x].idx + 1 > r.c.srv_count \/ r.c.wild # "none" THEN r
    ELSE radius_client_send_new([r.c EXCEPT !.q[x].idx = @ + 1], x, o)
TryNext(r, x, o) ==
    LET after[n \in 0 .. r.c.srv_count] == IF n = 0 THEN r ELSE NextTried(after[n - 1], x, o)
    IN  after[r.c.srv_count]

(* After the tries with one server are used up the query ends; only a failing send goes on *)
(* to the next server.                                                                     *)
Retried(c, x, time, over, outcome, o) ==
    IF over THEN [c |-> c, err |-> "ETIMEDOUT"]
    ELSE TryNext(radius_client_send([c EXCEPT !.q[x].time = time], x, outcome), x, o)
(* Query x leaves the socket of its timer for a server of the other family, and nobody     *)
(* else needs the socket.                                                                  *)
TimerFreed(c, x, s) ==
    LET f == c.sock[s].fam
    IN  /\ c.sock[s].count = 1 /\ Len(c.skts[f].skt) > limits.min /\ c.skts[f].skt[Len(c.skts[f].skt)] = s
        /\ \E j \in c.q[x].idx + 1 .. c.srv_count : c.srv[j].enabled /\ c.srv[j].family # f
radius_client_query_timeout_cb(s, i, t, outcome, o) ==
    LET x == cli.sock[s].tmr[i]
        q == cli.q[x]
        srv == cli.srv[q.idx]
        duration == q.duration + q.time
        cut == srv.duration # 0 /\ duration + t >= srv.duration
        time == IF cut THEN srv.duration - duration ELSE t
        over == \/ srv.tries # 0 /\ q.count + 1 >= srv.tries
                \/ srv.duration # 0 /\ duration >= srv.duration
                \/ cut /\ time < srv.init
        c == [cli EXCEPT !.sock[s].ktmr[i] = "off", !.q[x].count = @ + 1, !.q[x].duration = duration]
        r == Retried(c, x, time, over, outcome, o)
    IN  /\ cli.wild = "none"
        /\ cli.sock[s].ktmr[i] = "set"
        /\ cli' = IF cli.sock[s].st = "freed" \/ life = "destroyed" THEN [cli EXCEPT !.wild = "timer"]
                  ELSE IF ~over /\ r.err # "ok" /\ TimerFreed(c, x, s) THEN [cli EXCEPT !.wild = "surplus"]
                  ELSE Settled(r, x)
        /\ UNCHANGED <<msgs, limits, life>>

(* Mutation: the sender is not compared. *)
FromServer_Any(p, srv) == TRUE
(* sa_addr_port_is_eq(): the packet comes from the server of the query. *)
FromServer(p, srv) == p.from = srv.addr

(* radius_pkt_verify(): a reply is signed over the request of this query.  A packet with   *)
(* the code of a request is not: its authenticator is taken as it is, or is computed over  *)
(* zeros, and nobody looks at the code.                                                    *)
MadeFor(p, x, srv) == p.code = "reply" => p.req = [q |-> x, addr |-> srv.addr]

(* A packet on socket s: checked is radius_pkt_chk() and whatever the signature of a       *)
(* request needs, req the request a reply is signed for.  The receive buffer and the task  *)
(* are used again after the query was reported.                                            *)
Arrivals(c, s) ==
    [id : Ids, from : Addrs, checked : BOOLEAN, code : {"reply"},
     req : {[q |-> p.q, addr |-> p.addr] : p \in c.sent}]
    \cup [id : Ids, from : Addrs, checked : BOOLEAN, code : {"request"}, req : {"none"}]
radius_client_recv_cb(s, p) ==
    LET x == cli.sock[s].tmr[p.id]
        srv == cli.srv[cli.q[x].idx]
        answer == /\ p.checked
                  /\ x # NoQuery
                  /\ FromServer(p, srv) /\ MadeFor(p, x, srv)
        After(c) == IF c.sock[s].st = "freed" THEN [c EXCEPT !.wild = "surplus"] ELSE c
    IN  /\ cli.wild = "none"
        /\ cli.sock[s].st = "live"
        /\ cli' = IF life = "destroyed" THEN [cli EXCEPT !.wild = "recv"]
                  ELSE IF ~answer THEN cli
                  ELSE After(radius_client_query_done(cli, x, "ok"))
        /\ UNCHANGED <<msgs, limits, life>>

-----------------------------------------------------------------------------

Timeout(s, i) ==
    /\ cli.sock[s].ktmr[i] = "set"
    /\ LET x == cli.sock[s].tmr[i]
           times == IF x = NoQuery \/ life = "destroyed" THEN {0}
                    ELSE NextTimes(cli.srv[cli.q[x].idx], cli.q[x].time)
       IN  \E t \in times, outcome \in {"ok", "timer", "send"} :
             \E call \in Calls :
                radius_client_query_timeout_cb(s, i, t, outcome, [call |-> call, time |-> 0])
QueryMessage ==
    /\ msgs # <<>> /\ Head(msgs) # "destroy"
    /\ \E o \in Outcomes(cli, Head(msgs)) : radius_client_query_tpt_msg_cb(o)
Receive(s) == \E p \in Arrivals(cli, s) : radius_client_recv_cb(s, p)

Next ==
    \/ \E x \in Queries, ok \in BOOLEAN :
          \E any \in BOOLEAN : \E id \in Ids : (any => id = 0) /\ radius_client_query(x, any, id, ok)
    \/ \E x \in Queries : radius_client_query_cancel(x)
    \/ radius_client_server_add
    \/ \E a \in Addrs : radius_client_server_remove_by_addr(a)
    \/ radius_client_destroy
    \/ QueryMessage
    \/ radius_client_destroy_tpt_msg_cb
    \/ \E s \in Sockets : Receive(s)
    \/ \E s \in Sockets, i \in Ids : Timeout(s, i)

Spec == Init /\ [][Next]_vars

-----------------------------------------------------------------------------
(* Properties *)

Used(s) == {i \in Ids : cli.sock[s].tmr[i] # NoQuery}
UsedOf(f) == {si \in Sockets \X Ids : /\ \E k \in DOMAIN cli.skts[f].skt : cli.skts[f].skt[k] = si[1]
                                     /\ si[2] \in Used(si[1])}

(* radius_client_query_unlink_skt(), radius_client_send_new(): while the client lives a    *)
(* query in the hands of the thread sits in exactly the slot it names, a slot names a      *)
(* query that is still there, and the counters that decide about freeing a socket count    *)
(* the slots in use.  A slot that outlives its query would hand a freed one to a late      *)
(* packet or timer.                                                                        *)
SlotsOwned ==
    (cli.wild = "none" /\ life # "destroyed") =>
        /\ \A f \in Families :
              /\ cli.skts[f].queries = Cardinality(UsedOf(f))
              /\ \A k \in DOMAIN cli.skts[f].skt :
                    LET s == cli.skts[f].skt[k] IN
                    /\ cli.sock[s].st = "live" /\ cli.sock[s].fam = f
                    /\ cli.sock[s].count = Cardinality(Used(s))
                    /\ \A i \in Used(s) : LET q == cli.q[cli.sock[s].tmr[i]] IN
                                           q.st = "active" /\ q.skt = s /\ q.id = i
        /\ \A x \in Queries : cli.q[x].st = "active" =>
              LET q == cli.q[x] IN q.skt # NoSkt /\ cli.sock[q.skt].tmr[q.id] = x

(* radius_client_query_done(), radius_client_query_cancel(): a query is reported at most   *)
(* once, and one that was cancelled in time is not; success is only reported to a query    *)
(* that a packet was sent for.  Answers that come late, twice, or for the former owner of  *)
(* a slot, and timers that race with them, must not report a second time or the wrong one. *)
ReportedOnce ==
    \A x \in Queries :
        /\ Len(cli.rep[x]) <= 1
        /\ cli.rep[x] # <<>> => cli.q[x].st = "freed" /\ cli.q[x].cb
        /\ cli.rep[x] = <<"ok">> => cli.q[x].tried # {}

(* radius_client_recv_cb(): the packet that ends a query with success arrived in the slot  *)
(* of this query and comes from a server a packet for it went to.  If its code is that of  *)
(* a reply it also answers such a packet, sent from the same slot.  A packet with the code *)
(* of a request ends the query as well, whatever it was sent for.                          *)
AnswersOwn ==
    \A x \in {y \in Queries : cli'.rep[y] # cli.rep[y] /\ cli'.rep[y] = <<"ok">>} :
        \A s \in Sockets : \A p \in Arrivals(cli, s) :
            radius_client_recv_cb(s, p) =>
                /\ cli.q[x].skt = s /\ cli.q[x].id = p.id /\ p.from \in cli.q[x].tried
                /\ p.code = "reply" =>
                       /\ p.req.q = x
                       /\ \E r \in cli.sent : r.q = x /\ r.s = s /\ r.id = p.id /\ r.addr = p.from

(* radius_client_query_unlink_skt(): as long as the pool has no sockets to spare           *)
(* (thr_sockets_min = thr_sockets_max) no handler of a living client goes on with a socket *)
(* it has just freed.                                                                      *)
SocketOutlivesHandler ==
    limits.min = limits.max => cli.wild \notin {"surplus"} /\ (life = "live" => cli.wild # "timer")

(* radius_client_send(), radius_client_query_timeout_cb(): a query that waits has tries     *)
(* left with its server and a running timer, so it ends without an answer too.  The        *)
(* exception is a retransmission time of 0, which radius_client_rnd_factor() can draw by   *)
(* returning all of it: it switches the timer off.                                         *)
TimerArmed ==
    (cli.wild = "none" /\ life # "destroyed") =>
        \A x \in Queries : cli.q[x].st = "active" =>
            LET q == cli.q[x] IN
            /\ cli.sock[q.skt].ktmr[q.id] = IF q.time = 0 THEN "off" ELSE "set"
            /\ cli.srv[q.idx].tries # 0 => q.count < cli.srv[q.idx].tries

=============================================================================
