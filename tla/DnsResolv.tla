----------------------------- MODULE DnsResolv -----------------------------
(***************************************************************************)
(* The caching stub resolver of dns_resolv.c: requests by callback, a      *)
(* cache of names whose entries are updated by one task at a time while    *)
(* the tasks of other requests wait in a queue of the entry, queries over  *)
(* UDP to servers tried in turn, and aliases followed through the cache    *)
(* and through the answer.                                                 *)
(*                                                                         *)
(* Handlers run one at a time, as on a pool of one thread: where several   *)
(* threads share the resolver the code itself marks the locks it lacks     *)
(* (XXX Lock).  What a handler does between two callbacks is a step; the   *)
(* calls that are still to be made are kept in todo, the stack of the      *)
(* handler, and nothing else runs until it is empty.                       *)
(*                                                                         *)
(* A task belongs to one request and is known by it.                       *)
(***************************************************************************)
EXTENDS Integers, Sequences, FiniteSets

CONSTANTS Names,     \* host names
          RequestMax, \* bound on the calls of dns_resolv_hostaddr()
          Cycles,    \* DNS_MAX_NAME_CYCLES
          Params,    \* what a resolver is made with and meets
          Null       \* NULL

ASSUME DnsResolvAssumption ==
    /\ Cycles \in Nat
    /\ RequestMax \in Nat /\ Null \notin Names /\ Null \notin Nat /\ Null # "garbage"
    /\ {"addr", "none", "garbage"} \cap Names = {}
    /\ \A p \in Params : /\ p.slots \in Nat /\ p.slots >= 2
                         /\ p.servers \in Nat \ {0} /\ p.retries \in Nat
                         /\ p.world \in [Names -> Names \cup {"addr", "none"}]
                         /\ p.fails \in BOOLEAN /\ p.requests \in 0 .. RequestMax
                         /\ p.asked \subseteq Names

Requests == 1 .. RequestMax

VARIABLES
    prm,   \* DNS_RESOLVER_MAX_TASKS, dns_addrs_count, retry_count, and the
           \* environment: what the servers
           \* know of a name (an address, nothing or an alias), whether
           \* allocations and sendto() fail, how many requests are made
           \* and for which names
    cache, \* hbskt: name -> entry or Null
    tsk,   \* the tasks, by request
    slot,  \* tasks_tmr[].ident
    index, \* tasks_index
    sent,  \* every query ever sent: it may be answered late and again
    req,   \* what the caller knows of its requests
    todo,  \* the calls still to be made by the running handler
    up     \* "up", "down" after dns_resolver_destroy(), "crash"

vars == <<prm, cache, tsk, slot, index, sent, req, todo, up>>

world == prm.world
fails == prm.fails
SlotCount == prm.slots
Slots == 0 .. SlotCount - 1
Servers == prm.servers
Retries == prm.retries

\* data_alias_name or addrs; both are pdata, and pdata is used as what flags says.
NoData == [k |-> "none", of |-> Null]
Data == {NoData} \cup [k : {"addrs", "alias", "mixed"}, of : Names]

Entry == [upd : BOOLEAN,   \* DNS_R_CD_F_UPDATING
          cname : BOOLEAN, \* DNS_R_CD_F_CNAME
          fresh : BOOLEAN, \* valid_untill is not over
          data : Data,
          queue : Seq(Requests)]

Task == [id : Slots,
         cb : BOOLEAN,                \* cb_func is not NULL
         name : Names \cup {Null},    \* cache_entry
         queued : BOOLEAN,            \* DNS_R_TSK_F_QUEUED
         tries : 0 .. Retries,        \* timeouts
         srv : 0 .. Servers,          \* cur_srv_idx
         loops : 0 .. Cycles + 1,     \* loop_count
         armed : BOOLEAN]             \* the timer is enabled

\* Null is neither an entry nor a task.
ASSUME NullAssumption ==
    /\ Null \notin Entry
    /\ Null \notin [id : Nat, cb : BOOLEAN, name : Names \cup {Null}, queued : BOOLEAN,
                    tries : Nat, srv : Nat, loops : Nat, armed : BOOLEAN]

\* An answer given to a caller: an error, no address, the addresses of a name,
\* or whatever the bytes of an alias are when they are read as addresses.
Results == [err : BOOLEAN, of : Names \cup {Null, "garbage"}]
NoResult == [err |-> TRUE, of |-> Null]

TypeOK ==
    /\ prm \in Params
    /\ cache \in [Names -> Entry \cup {Null}]
    /\ tsk \in [Requests -> Task \cup {Null}]
    /\ slot \in [Slots -> Requests \cup {Null}] /\ index \in Slots
    /\ sent \subseteq [id : Slots, srv : 0 .. Servers - 1, name : Names]
    /\ req \in [Requests -> [name : Names \cup {Null}, res : Results,
                    st : {"idle", "open", "done", "cancelled", "twice"}]]
    /\ up \in {"up", "down", "crash"}

Init ==
    /\ prm \in Params
    /\ cache = [x \in Names |-> Null]
    /\ tsk = [r \in Requests |-> Null]
    /\ slot = [s \in Slots |-> Null] /\ index = 0
    /\ sent = {}
    /\ req = [r \in Requests |-> [name |-> Null, st |-> "idle", res |-> NoResult]]
    /\ todo = <<>> /\ up = "up"

-----------------------------------------------------------------------------
(* Tasks and their slots.                                                  *)

Busy == {s \in Slots : slot[s] # Null}

\* The slots in the order of the search of dns_rslvr_task_alloc(): from
\* tasks_index round to the slot before it.
Order(k) == (index + k) % SlotCount

\* "No free task slot": by the count, or by the search, which passes over 0 and
\* takes the slot where it stops if that one is free.
FreeSlot ==
    LET hit == {k \in 0 .. SlotCount - 2 : Order(k) # 0 /\ slot[Order(k)] = Null}
    IN IF Cardinality(Busy) = SlotCount - 1 THEN Null
       ELSE IF hit # {} THEN Order(CHOOSE k \in hit : \A j \in hit : k <= j)
       ELSE IF slot[Order(SlotCount - 1)] = Null THEN Order(SlotCount - 1)
       ELSE Null

NewTask(s) == [id |-> s, cb |-> TRUE, name |-> Null, queued |-> FALSE,
               tries |-> 0, srv |-> 0, loops |-> 0, armed |-> FALSE]

\* The task a request goes on with: its own or a new one.
TaskFor(r) == IF tsk[r] # Null THEN {tsk[r]}
              ELSE IF FreeSlot # Null THEN {NewTask(FreeSlot)} ELSE {}

\* Task t of r is in use.
Taken(r, t) == /\ tsk' = [tsk EXCEPT ![r] = t]
               /\ slot' = [slot EXCEPT ![t.id] = r]
               /\ index' = IF tsk[r] = Null THEN t.id ELSE index

\* dns_rslvr_task_free().
Free(r) == /\ tsk' = [tsk EXCEPT ![r] = Null]
           /\ slot' = [s \in Slots |-> IF slot[s] = r THEN Null ELSE slot[s]]

\* Mutation: the task of an answer found in the cache is kept.
Release_Not(r) == UNCHANGED <<tsk, slot>>

\* "Free if called from: dns_resolver_recv_cb()"
Release(r) == Free(r)

\* The callback of a request, made once if all is well.
Call(r, res) ==
    req' = [req EXCEPT ![r].st = IF @ = "open" THEN "done" ELSE "twice",
                       ![r].res = res]

-----------------------------------------------------------------------------
(* The stack of the running handler.                                       *)

\* The records of an answer: the names that have some before its end or before
\* the first record that cannot be read, and whether there is such a record.
NoRecords == [of |-> {}, bad |-> FALSE]

\* dns_resolv_hostaddr_int(); rr is the answer a restarted search goes on with.
Lookup(r, x, n, send, rr) == [op |-> "lookup", r |-> r, x |-> x, n |-> n,
                              send |-> send, rr |-> rr]
\* dns_rslvr_task_notify_chain().
Notify(x, q) == [op |-> "notify", x |-> x, q |-> q]
\* The rest of dns_resolver_task_done().
Done(r, res) == [op |-> "done", r |-> r, res |-> res]
\* The loop over the records of an answer, and its rest after an alias is stored.
Scan(r, rr, again) == [op |-> "scan", r |-> r, rr |-> rr, again |-> again]
Follow(r, y, rr) == [op |-> "follow", r |-> r, x |-> y, rr |-> rr]

Idle == todo = <<>> /\ up = "up"
Top(op) == up = "up" /\ todo # <<>> /\ Head(todo).op = op
Push(items) == todo' = items \o Tail(todo)

-----------------------------------------------------------------------------
(* The cache.                                                              *)

NewEntry == [upd |-> TRUE, cname |-> FALSE, fresh |-> FALSE, data |-> NoData,
             queue |-> <<>>]

\* What dns_rslvr_cache_entry_data_add() makes of pdata.  Without data it is left
\* alone; it is thrown away first only where DNS_R_CD_F_CNAME changes, so that
\* addresses may be added to an alias the flag of which was lost.
Merged(e, d) ==
    IF d = NoData THEN e.data
    ELSE IF d.k = "addrs" /\ ~e.cname /\ e.data.k \in {"alias", "mixed"}
    THEN [d EXCEPT !.k = "mixed"]
    ELSE d

\* The entry after dns_rslvr_cache_entry_data_add(): flags is overwritten, the
\* queue taken.
Updated(e, d) ==
    [e EXCEPT !.data = Merged(e, d), !.cname = (d.k = "alias"), !.fresh = TRUE,
              !.queue = <<>>, !.upd = FALSE]

\* The answer a caller gets from an entry.
Cached(e) ==
    [err |-> FALSE, of |-> IF e.data.k \in {"alias", "mixed"} THEN "garbage"
                           ELSE e.data.of]

\* dns_resolver_task_done() for task t of r: the cache is updated, the queue is
\* notified, the callback is made, the task freed.
Finish(r, t, res, d) ==
    /\ tsk' = [tsk EXCEPT ![r] = t]
    /\ IF t.name = Null
       THEN cache' = cache /\ todo' = <<Done(r, res)>>
       ELSE /\ cache' = [cache EXCEPT ![t.name] = Updated(@, d)]
            /\ todo' = <<Notify(t.name, cache[t.name].queue), Done(r, res)>>

-----------------------------------------------------------------------------
(* Queries.                                                                *)

Query(t) == [id |-> t.id, srv |-> t.srv, name |-> t.name]

\* dns_resolver_send() may succeed, or fail.
CanSend(t) == t.srv < Servers
SendFails(t) == ~CanSend(t) \/ fails

\* Mutation: the timer is not started.
Armed_Not(t) == t

\* The query is on its way and its timer runs.
Armed(t) == [t EXCEPT !.armed = TRUE]

-----------------------------------------------------------------------------
(* dns_resolv_hostaddr_int(): the top of the stack is its call.            *)

\* err_out: the callback is made unless the call comes from an answer.
Fail(i) ==
    /\ IF i.send THEN Call(i.r, NoResult) ELSE req' = req
    /\ Free(i.r)
    /\ Push(<<>>)
    /\ UNCHANGED <<sent, up>>

\* dns_rslvr_task_alloc() fails: the entry stays as it was made or marked.
Refused(i) ==
    /\ tsk[i.r] = Null /\ (FreeSlot = Null \/ fails)
    /\ Fail(i)
    /\ index' \in {index} \cup (IF FreeSlot = Null THEN {} ELSE {FreeSlot})

\* task_alloc: the entry i.x is to be updated by this task.  A query is sent, or
\* the search goes on in the answer that named the alias (ERESTART).
Own(i) ==
    \/ \E t \in TaskFor(i.r) :
         LET o == [t EXCEPT !.name = i.x, !.tries = 0, !.srv = 0, !.loops = i.n]
         IN \/ /\ ~i.send
               /\ Taken(i.r, o)
               /\ Push(<<Scan(i.r, i.rr, TRUE)>>)
               /\ UNCHANGED <<sent, req, up>>
            \/ /\ i.send /\ CanSend(o)
               /\ Taken(i.r, Armed(o))
               /\ sent' = sent \cup {Query(o)}
               /\ Push(<<>>)
               /\ UNCHANGED <<req, up>>
            \/ /\ i.send /\ SendFails(o)
               /\ Fail(i)
               /\ index' = IF tsk[i.r] = Null THEN t.id ELSE index
    \/ Refused(i)

\* The queue of the entry takes the task at its head.
Enqueue(i) ==
    \/ /\ \E t \in TaskFor(i.r) :
            Taken(i.r, [t EXCEPT !.name = Null, !.queued = TRUE, !.tries = 0,
                                 !.srv = 0, !.loops = i.n])
       /\ cache' = [cache EXCEPT ![i.x].queue = <<i.r>> \o @]
       /\ Push(<<>>)
       /\ UNCHANGED <<sent, req, up>>
    \/ Refused(i) /\ cache' = cache

\* A task whose callback was taken away is not even freed.
LookupCancelled ==
    /\ Top("lookup")
    /\ tsk[Head(todo).r] # Null /\ ~tsk[Head(todo).r].cb
    /\ Push(<<>>)
    /\ UNCHANGED <<prm, cache, tsk, slot, index, sent, req, up>>

Looking == /\ Top("lookup")
           /\ tsk[Head(todo).r] # Null => tsk[Head(todo).r].cb
           /\ UNCHANGED prm

\* "Loop detected."
LookupLoop ==
    Looking /\ LET i == Head(todo) IN
        /\ i.n >= Cycles
        /\ Fail(i)
        /\ UNCHANGED <<cache, index>>

\* "Not found, create new."
LookupMiss ==
    Looking /\ LET i == Head(todo) IN
        /\ i.n < Cycles /\ cache[i.x] = Null
        /\ \/ fails /\ Fail(i) /\ UNCHANGED <<cache, index>>
           \/ Own(i) /\ cache' = [cache EXCEPT ![i.x] = NewEntry]

\* flags |= DNS_R_CD_F_UPDATING
Marked(e) == [e EXCEPT !.upd = TRUE]

\* The entry was found: it is being updated, is outdated, is an alias or is
\* what was looked for.
LookupHit ==
    Looking /\ LET i == Head(todo) IN
        /\ i.n < Cycles /\ cache[i.x] # Null
        /\ LET e == cache[i.x]
           IN \/ e.upd /\ Enqueue(i)
              \/ /\ ~e.upd /\ ~e.fresh
                 /\ Own(i) /\ cache' = [cache EXCEPT ![i.x] = Marked(e)]
              \/ /\ ~e.upd /\ e.fresh /\ e.cname
                 /\ Push(<<[i EXCEPT !.x = e.data.of, !.n = @ + 1]>>)
                 /\ UNCHANGED <<cache, tsk, slot, index, sent, req, up>>
              \/ /\ ~e.upd /\ e.fresh /\ ~e.cname
                 /\ Call(i.r, Cached(e))
                 /\ Release(i.r)
                 /\ Push(<<>>)
                 /\ UNCHANGED <<cache, index, sent, up>>

-----------------------------------------------------------------------------
(* What handlers go on with.                                               *)

\* next_task
Rest(q) == Tail(q)

\* dns_rslvr_task_notify_chain(): the first task of the chain looks again.
NotifyStep ==
    /\ Top("notify")
    /\ LET i == Head(todo) IN
       IF i.q = <<>> THEN Push(<<>>) /\ UNCHANGED <<tsk, up>>
       ELSE IF tsk[Head(i.q)] = Null
       THEN up' = "crash" /\ UNCHANGED <<todo, tsk>>
       ELSE /\ tsk' = [tsk EXCEPT ![Head(i.q)].queued = FALSE]
            /\ Push(<<Lookup(Head(i.q), i.x, tsk[Head(i.q)].loops, TRUE, NoRecords),
                      Notify(i.x, Rest(i.q))>>)
            /\ up' = up
    /\ UNCHANGED <<prm, cache, slot, index, sent, req>>

\* The callback of dns_resolver_task_done().
DoneStep ==
    /\ Top("done")
    /\ LET i == Head(todo) IN
       /\ IF tsk[i.r].cb THEN Call(i.r, i.res) ELSE req' = req
       /\ Free(i.r)
    /\ Push(<<>>)
    /\ UNCHANGED <<prm, cache, index, sent, up>>

\* Mutation: records of other names are taken too.
Match_Any(rr, x) == rr

\* dns_msg_rr_find(): the names whose records are looked at.
Match(rr, x) == rr \cap {x}

\* The records of an answer, as dns_resolver_recv_cb() goes through them: the
\* addresses of the name end the task, with the error of a record behind them
\* that cannot be read; an alias is stored and followed; no record sends a query
\* for the alias, or to the next server, or ends the task.
ScanStep ==
    /\ Top("scan")
    /\ LET i == Head(todo)
           t == tsk[i.r]
           hit == Match(i.rr.of, t.name)
           n == IF i.rr.bad THEN [t EXCEPT !.srv = @ + 1] ELSE t
       IN \/ \E z \in hit : /\ world[z] = "addr"
                            /\ Finish(i.r, t, [err |-> i.rr.bad, of |-> z],
                                      [k |-> "addrs", of |-> z])
                            /\ UNCHANGED <<sent>>
          \/ /\ t.name \in hit /\ world[t.name] = t.name
             /\ Finish(i.r, t, NoResult, NoData)
             /\ UNCHANGED <<sent>>
          \/ /\ t.name \in hit /\ world[t.name] \in Names \ {t.name}
             /\ cache' = [cache EXCEPT ![t.name] =
                            Updated(@, [k |-> "alias", of |-> world[t.name]])]
             /\ Push(<<Notify(t.name, cache[t.name].queue),
                       Follow(i.r, world[t.name], i.rr)>>)
             /\ UNCHANGED <<tsk, sent>>
          \/ /\ \A z \in hit : world[z] = "none"
             /\ i.again \/ i.rr.bad
             /\ \/ /\ CanSend(n)
                   /\ tsk' = [tsk EXCEPT ![i.r] = Armed(n)]
                   /\ sent' = sent \cup {Query(n)}
                   /\ Push(<<>>) /\ cache' = cache
                \/ /\ SendFails(n)
                   /\ Finish(i.r, n, NoResult, NoData)
                   /\ UNCHANGED <<sent>>
          \/ /\ \A z \in hit : world[z] = "none"
             /\ ~i.again /\ ~i.rr.bad
             /\ Finish(i.r, t, [err |-> FALSE, of |-> Null], NoData)
             /\ UNCHANGED <<sent>>
    /\ UNCHANGED <<prm, slot, index, req, up>>

\* The alias is looked for by the same task.
FollowStep ==
    /\ Top("follow")
    /\ LET i == Head(todo) IN
       /\ tsk' = [tsk EXCEPT ![i.r].name = Null, ![i.r].loops = @ + 1]
       /\ Push(<<Lookup(i.r, i.x, tsk[i.r].loops + 1, FALSE, i.rr)>>)
    /\ UNCHANGED <<prm, cache, slot, index, sent, req, up>>

-----------------------------------------------------------------------------
(* Calls and events.                                                       *)

\* dns_resolv_hostaddr(); requests are numbered in the order of their calls.
Ask(r, x) ==
    /\ Idle /\ req[r].st = "idle" /\ r <= prm.requests /\ x \in prm.asked
    /\ \A q \in 1 .. r - 1 : req[q].st # "idle"
    /\ req' = [req EXCEPT ![r].st = "open", ![r].name = x]
    /\ todo' = <<Lookup(r, x, 0, TRUE, NoRecords)>>
    /\ UNCHANGED <<prm, cache, tsk, slot, index, sent, up>>

\* dns_resolv_cancel()
Cancel(r) ==
    /\ Idle /\ tsk[r] # Null /\ tsk[r].cb
    /\ tsk' = [tsk EXCEPT ![r].cb = FALSE]
    /\ req' = [req EXCEPT ![r].st = "cancelled"]
    /\ UNCHANGED <<prm, cache, slot, index, sent, todo, up>>

\* dns_resolver_task_timeout_cb(): the same server again, then the next one that
\* can be sent to.
NextSend(t) ==
    (IF t.tries + 1 <= Retries THEN {[t EXCEPT !.tries = @ + 1]} ELSE {})
    \cup (IF t.srv + 1 < Servers /\ (t.tries + 1 > Retries \/ fails)
          THEN {[t EXCEPT !.tries = 0, !.srv = @ + 1]} ELSE {})
    \cup {[t EXCEPT !.tries = 0, !.srv = k] :
             k \in {k \in t.srv + 2 .. Servers - 1 : fails}}

Timeout(r) ==
    /\ Idle /\ tsk[r] # Null /\ tsk[r].armed
    /\ LET t == [tsk[r] EXCEPT !.armed = FALSE]
       IN \/ \E n \in NextSend(t) :
               /\ tsk' = [tsk EXCEPT ![r] = Armed(n)]
               /\ sent' = sent \cup {Query(n)}
               /\ UNCHANGED <<cache, todo>>
          \/ /\ NextSend(t) = {} \/ fails
             /\ Finish(r, t, NoResult, NoData)
             /\ UNCHANGED <<sent>>
    /\ UNCHANGED <<prm, slot, index, req, up>>

\* The task an answer to q is taken for: by its id and by its sender.
Taker(q, r) == Idle /\ slot[q.id] = r /\ r # Null /\ tsk[r].srv = q.srv

\* "Send query to next dns server."  A task that waits in a queue has no entry
\* whose name could be asked for.
RecvError(q, r) ==
    /\ Taker(q, r)
    /\ LET t == [tsk[r] EXCEPT !.armed = FALSE, !.srv = @ + 1]
       IN \/ /\ CanSend(t) /\ t.name # Null
             /\ tsk' = [tsk EXCEPT ![r] = Armed(t)]
             /\ sent' = sent \cup {Query(t)}
             /\ UNCHANGED <<cache, todo, up>>
          \/ /\ CanSend(t) /\ t.name = Null
             /\ up' = "crash"
             /\ UNCHANGED <<tsk, sent, cache, todo>>
          \/ /\ SendFails(t) /\ (CanSend(t) => t.name # Null)
             /\ Finish(r, t, NoResult, NoData)
             /\ UNCHANGED <<sent, up>>
    /\ UNCHANGED <<prm, slot, index, req>>

\* NXDOMAIN
RecvNoName(q, r) ==
    /\ Taker(q, r)
    /\ Finish(r, [tsk[r] EXCEPT !.armed = FALSE], NoResult, NoData)
    /\ UNCHANGED <<prm, slot, index, sent, req, up>>

\* What a name leads to, alias by alias: the least set that holds it and the alias
\* of every name in it.
Closed(S) == \A y \in S : world[y] \in Names => world[y] \in S
Chain(x) == {y \in Names : \A S \in SUBSET Names : x \in S /\ Closed(S) => y \in S}

\* The name at the end of the aliases, if they have one.
Last(x) == {y \in Chain(x) : world[y] \notin Names}

\* Records: of the name asked for, of it and all it leads to, of none of them,
\* before the end of the answer or before a record that cannot be read.
RecvRecords(q, r) ==
    /\ Taker(q, r)
    /\ IF tsk[r].name = Null
       THEN up' = "crash" /\ UNCHANGED <<tsk, todo>>
       ELSE /\ tsk' = [tsk EXCEPT ![r].armed = FALSE]
            /\ \E z \in {{}, {q.name}, Chain(q.name)}, bad \in BOOLEAN :
                  todo' = <<Scan(r, [of |-> z, bad |-> bad], FALSE)>>
            /\ up' = up
    /\ UNCHANGED <<prm, cache, slot, index, sent, req>>

\* valid_untill passes.
Expire(x) ==
    /\ Idle /\ cache[x] # Null /\ cache[x].fresh
    /\ cache' = [cache EXCEPT ![x].fresh = FALSE]
    /\ UNCHANGED <<prm, tsk, slot, index, sent, req, todo, up>>

\* dns_resolver_destroy(): the tasks are freed, then the entries with their
\* queues, the tasks of which are notified.
Destroy ==
    /\ Idle
    /\ up' = IF \E x \in Names : cache[x] # Null /\ cache[x].queue # <<>>
             THEN "crash" ELSE "down"
    /\ tsk' = [r \in Requests |-> Null] /\ slot' = [s \in Slots |-> Null]
    /\ cache' = [x \in Names |-> Null] /\ sent' = {}
    /\ UNCHANGED <<prm, index, req, todo>>

Handler == \/ LookupCancelled \/ LookupLoop \/ LookupMiss \/ LookupHit
           \/ NotifyStep \/ DoneStep \/ ScanStep \/ FollowStep

Next ==
    \/ Handler
    \/ \E r \in Requests, x \in Names : Ask(r, x)
    \/ \E r \in Requests : Cancel(r) \/ Timeout(r)
    \/ \E q \in sent, r \in Requests :
           RecvError(q, r) \/ RecvNoName(q, r) \/ RecvRecords(q, r)
    \/ \E x \in Names : Expire(x)
    \/ Destroy

Spec == Init /\ [][Next]_vars

\* The thread serves its timers and ends the handler it runs; nothing is assumed
\* of the servers and of the network.
FairSpec == /\ Spec /\ WF_vars(Handler)
            /\ \A r \in Requests : WF_vars(Timeout(r))

-----------------------------------------------------------------------------
(* Properties.                                                             *)

Owners(x) == {r \in Requests : tsk[r] # Null /\ tsk[r].name = x}

\* DNS_R_CD_F_UPDATING gives an entry to one task: a name is never asked for by
\* two tasks at a time.
OneOwner ==
    \A x \in Names : /\ Cardinality(Owners(x)) <= 1
                     /\ todo = <<>> /\ Owners(x) # {} => cache[x].upd

InQueue(r, x) == cache[x] # Null /\ \E k \in DOMAIN cache[x].queue : cache[x].queue[k] = r

\* Between handlers a task with a callback is in exactly one place: in the queue
\* of an entry that is being updated, or asking for its own entry under a timer.
TasksAccounted ==
    Idle => \A r \in Requests :
        tsk[r] # Null /\ tsk[r].cb =>
            IF tsk[r].queued
            THEN /\ tsk[r].name = Null /\ ~tsk[r].armed
                 /\ \E x \in Names : /\ InQueue(r, x) /\ cache[x].upd
                                     /\ \A y \in Names \ {x} : ~InQueue(r, y)
            ELSE tsk[r].armed /\ tsk[r].name # Null

\* A callback is made at most once, and never after a cancel, whatever answers
\* come late or twice; until then its task is in one place, and is the only one
\* that asks for its name.
CalledOnce ==
    /\ TypeOK /\ OneOwner /\ TasksAccounted
    /\ \A r \in Requests : req[r].st # "twice"

\* A request is refused for want of a slot only when every slot but 0, which is
\* never used, is taken.
SlotFound == /\ slot[0] = Null
             /\ FreeSlot = Null => \A s \in Slots \ {0} : slot[s] # Null

\* The addresses a caller gets are those the aliases of its name lead to, however
\* the answer was put together from cache, queue and packets, with one exception:
\* the bytes of an alias may be given out as addresses, without an error, because
\* an alias whose renewal brought no data loses DNS_R_CD_F_CNAME and keeps its
\* bytes (dns_rslvr_cache_entry_data_add()).  That happens only to callers of a
\* name that is an alias; who asks for a name with addresses of its own, or with
\* none, never gets them.  And a request is not refused while there is a slot.
RightAnswer ==
    /\ \A r \in Requests :
          /\ req[r].res.of \in Names => /\ req[r].res.of \in Last(req[r].name)
                                        /\ world[req[r].res.of] = "addr"
          /\ req[r].res.of = "garbage" => world[req[r].name] \in Names
    /\ SlotFound

\* Nobody updates the entry that is marked as being updated.
Stuck(x) == cache[x] # Null /\ cache[x].upd /\ Owners(x) = {}

\* The aliases of a name end before the limit on them.
Short(x) == Cardinality(Chain(x)) < Cycles /\ Last(x) # {}

\* A request is answered, whatever packets are lost, as long as no failed call has
\* left an entry marked and the aliases are not too many.
Answered ==
    \A r \in Requests :
        (req[r].st = "open" /\ Short(req[r].name) /\ ~fails)
            ~> (req[r].st # "open" \/ up # "up" \/ \E x \in Names : Stuck(x))
=============================================================================
