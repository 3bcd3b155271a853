# A TLA+ verification of liblcb

liblcb is a C library for network services: a thread pool with an event loop,
tasks on sockets built on it, and protocol modules (HTTP server and client, DNS
resolver, RADIUS client, UPnP SSDP, SAP) built on those, together with utilities
and cryptography.  This directory holds TLA+ models of it, the TLC
configurations that check them and TLAPS proofs about them.  Paths below are
relative to the root of the repository (`src/threadpool/...`,
`include/threadpool/...`).

## 1. The system

### 1.1 Components

| component | state | operations | depends on |
|---|---|---|---|
| thread pool (`threadpool.c`) | `tp_t`: `shutdown`, `threads_cnt`, the array of `thread_t` with `state`, `pt_id`, pipe; one extra *virtual* thread that all threads poll | `tp_create`, `tp_threads_create`, `tp_shutdown`, `tp_shutdown_wait`, `tp_destroy`, `tp_thread_proc`, signal handler | pthreads, pipes |
| messages (`threadpool_msg_sys.c`) | a pipe per thread, `tpt_msg_data_t` shared by the receivers of a broadcast | `tpt_msg_send`, `tpt_msg_bsend_ex`, `tpt_msg_cbsend`, asynchronous operations, the reader of the pipe | thread pool |
| events and timers (`threadpool.c`) | the word `tpdata` of every `tp_udata_t`, the epoll interest, timerfd, pidfd | `tpt_ev_add*`, `tpt_ev_enable*`, `tpt_ev_del*`, `tpt_loop` | epoll |
| tasks (`threadpool_task.c`) | `tp_task_t`: two registrations (descriptor and timer), buffer, counters, flags, timeout | create, start, restart, stop, enable, destroy, six handlers | events |
| connect with retries (`threadpool_task.c`) | index of the address, number of the try, the timer | `tp_task_connect_ex_create`, its start and handler | tasks |
| listeners (`threadpool_task.c`) | array of accept tasks | `tp_task_bind_accept_create`, `..._multi_bind_accept_create` | tasks, sockets |
| ring buffer (`ring_buffer.c`) | one writer position, a table of blocks, any number of reader positions | `r_buf_wbuf_get`, `r_buf_wbuf_set`, `r_buf_wbuf_set2`, `r_buf_rpos_*`, `r_buf_data_get` | - |
| reassembly (`reass_helper.h`) | buffer, bitmap, counters, sequence numbers | `reass_hlp_reset`, `reass_hlp_handle_frag` | - |
| data cache, hash buckets (`data_cache.c`, `hash_bucket.h`) | buckets with lists of items, a lock per zone, expiry times | get, add, enumerate, clean, remove | - |
| DNS resolver (`dns_resolv.c`) | cache entries with queues of waiting tasks, 65536 task slots with timers | resolve, cancel, answer received, timeout, destroy | hash buckets, tasks, events of the virtual thread |
| RADIUS client (`radius_client.c`) | servers, sockets per thread with 256 query slots and timers each | query, cancel, answer received, timeout, destroy | tasks, messages |
| HTTP server (`http_server.c`) | bindings, connections with buffer, request, response | accept, receive, parse, respond, resume, destroy | tasks |
| HTTP client (`http_client.c`) | connection, request and response | connect, send, receive, done | connect with retries |
| UPnP SSDP, SAP receiver (`upnp_ssdp.c`, `sap_rcvr.c`) | devices and their announcements, receivers | announce, search, receive, expire | tasks, timers |
| packet formats (`dns.h`, `radius.h`, `dhcpv4.h`, `dhcpv6.h`, `rtp.h`, `mpeg2ts.h`, `sap.h`, `sdp.h`, `bt_encode.c`, `http.c`) | - | encode, decode, find, verify | - |
| sockets and addresses (`net/`) | - | wrappers of system calls, address arithmetic | - |
| text and data (`ini`, `xml`, `buf_str`, `num2str`, `base64`, `asn1`, `utf8`, `io_buf`) | lines and values of a configuration; offsets of a buffer | conversions, editing | - |
| arithmetic and cryptography (`big_num.h`, `elliptic_curve.h`, `ecdsa.h`, hashes, ciphers, `crc32.h`) | - | pure functions | - |

### 1.2 How they interact

A pool thread runs `tpt_loop()` on its own epoll descriptor, in which the epoll
descriptor of the virtual thread is nested.  Every registration names its
callback; the library's own callbacks are the handlers of tasks and the reader
of the message pipe.  Tasks call the application, which may restart, stop or
destroy the task from inside its callback.  Threads never share a registration,
except those of the virtual thread; all other communication is by messages
written to pipes.  `tp_shutdown()` is such a message.

### 1.3 What is hard

* *Concurrency*: creation, shutdown and destruction of the pool by several
  threads and a signal handler; the last user of shared message data; several
  threads told of the same event of the virtual thread.
* *Failure*: every send, registration and thread creation can fail on its own,
  in the middle of a loop over several.
* *Ordering*: events that epoll has already reported when the owner disables or
  deletes them; a descriptor and its timeout ready together; a shutdown message
  between application messages.
* *Long histories*: two registrations, a timeout and one-time flags per task,
  driven by calls from the outside, from callbacks and by return codes.
* *Limits*: full pipes, empty and full tables, the wrap of a ring buffer and of
  sequence numbers.

`PROJECT.json` lists the hazards one by one, each at its line.

### 1.4 What makes each part correct

* Thread pool: no thread runs application code once `tp_shutdown_wait()` has
  returned; accepted messages are processed; hooks come in pairs; `tp_destroy()`
  returns and nobody touches the pool after it.
* Messages: a callback runs at most once per thread, `done_cb` once with the
  right counts after the last of them; shared data outlives its users and is
  freed; a synchronous call returns when all have run.
* Events: a callback only for an event that is wanted, once per request for
  one-time events; the kernel holds what the owner asked for; a wanted event is
  delivered.
* Tasks: a callback only while the owner waits, for I/O or for the timeout and
  not for both; nothing is registered for a freed task; every byte transferred
  is reported exactly once.
* Connect: the limit on tries holds, every address is tried in the promised
  order, no descriptor is lost, the task ends.
* Listeners: all sockets or none, none closed twice.
* Ring buffer: a reader gets the bytes the writer wrote, in order, or is told it
  was too slow.
* Reassembly: success means that every fragment is in its place.
* Hash bucket: a key is in the table once, however many threads look it up and
  add it.
* Resolver and RADIUS client: every query is answered exactly once, by an answer
  to it or by an error; slots and timers are released.
* HTTP server: requests of a connection are handled and answered once and in
  order; a connection nobody holds has something that ends it.
* SSDP: what was announced is taken back, nobody is told of what is gone.  SAP: a
  session is kept while it is announced.
* Settings: what is set is what is read, and nothing else changes.
* DNS, RADIUS and DHCP packets: what was built is read, signed is verified.
* Arithmetic, signatures, digests, ciphers: the functions of the books, however the
  input is cut, aligned or stored.

## 2. The modules

Each module names the source it translates in its header; `PROJECT.json` maps
every definition to its lines.  Definitions called `X_Something` in front of a
definition `X` are mutations of it: the same operator with a plausible mistake,
used to show that a property would notice.  A helper that stands for part
of the lines of an action is covered by the entry of that action.

| module | models |
|---|---|
| `TpSend` | the states of a thread and the decision `tpt_msg_send()` makes from the flags: call directly, write to the pipe, refuse |
| `ThreadPool` | the life of a pool |
| `TpMsg` | broadcasts and asynchronous operations |
| `EventFlags`, `EventSource` | one-time flags; the abstract specification of a registration |
| `TpEvent` | a registration on epoll, timerfd and pidfd; implements `EventSource` |
| `TpTask` | a task and its handlers |
| `TpConnectEx` | connect with retries |
| `TpAccept` | creation of listeners |
| `ThreadPool_proofs`, `Services_proofs`, `TpTask_proofs`, `TpEvent_proofs`, `TpConnectEx_proofs`, `TpMsg_proofs`, `HashBucket_proofs`, `DnsResolv_proofs` | theorems about these modules (section 4) |
| `DnsResolv` | the resolver: requests, cache, queues, slots, queries |
| `HttpServer` | a connection of the HTTP server |
| `RadiusClient` | the RADIUS client: servers, queries, sockets, identifiers, timers |
| `UpnpSsdp`, `SapRcvr` | devices and their announcements; received sessions and the data cache |
| `Services` | `TpAccept` and the four services side by side, with the assumptions on their constants and the properties of each |
| `RingBuffer`, `Reass`, `HashBucket`, `Ini`, `DnsMsg` | the data structures and DNS messages |
| `Digit`, `BnDigits`, `BigNum`, `BnConv`, `BnMod` | `big_num.h`: single digits, strings of digits, numbers, conversions, residues |
| `Elliptic`, `Ecdsa` | points of a curve and their multiples; keys, signatures, shared secrets |
| `HashCtx`, `Ciphers` | the contexts of the four hash headers and HMAC; ChaCha and GOST 28147 |
| `RadiusPkt`, `Dhcp4` | RADIUS packets; the options of a DHCP packet |
| `Loops` | the loops of C (`While`, `For`, `ForDown`) as operators |
| `MCServices` | requests, servers, packets for `Services` |
| `MCStructures`, `MCAlgorithms` | as in `Services`, one run over several parts that share no state: `part` (or `c.op`) says which one a behaviour is about |
| `MCDnsResolv` | what the servers know and the requests for `DnsResolv`; `ThreadPool`, `TpMsg`, `TpTask`, `TpEvent` and `TpConnectEx` are run as they are |

### 2.1 ThreadPool

`pool`, `shutdown`, `state`, `pt` are the fields of `tp_t` and `thread_t`.
`mpc`, `mop`, `mi` say where the owner of the pool is, `wpc` where every pool
thread is, `sd` is an activation record of `tp_shutdown()` for every actor that
may be inside it (the owner, a pool thread from a callback, the signal handler,
which interrupts the owner).  `pipe` and `batch` are the messages written to a
thread and those it has read but not yet processed (`tpt_msg_recv_and_process()`
reads several at once).  `early`, `starts`, `stops` are history variables.

Steps are as fine as the memory accesses other threads can observe: test and
increment of `tp->shutdown` are two steps (`ShutdownTest`, `ShutdownSet`), every
iteration of the loop that sends the shutdown message is one (`ShutdownSend`),
so is every iteration of the loops in `tp_threads_create()` and
`tp_shutdown_wait()`; a thread leaves in three steps (`ThreadOnStop`,
`ThreadClear`, `ThreadExit`) because `tp_shutdown_wait()` looks at its state in
between.  The application sends messages with any flags from any callback.

### 2.2 TpMsg

One operation per behaviour; `Init` chooses the number of threads `n`, the mode, the
flags and the caller and which threads are down.  `md` is the shared `tpt_msg_data_t`
with the memory it lives in (`stack`, `heap`, `gone`); `job` is the proxy callback an
actor is executing and where in it; `cpc` and `ci` are the program counter and loop
index of the caller.  The unlock of the counter and what follows it are separate
steps. `Shutdown` and `Stop` let the pool go down meanwhile.

### 2.3 EventSource and TpEvent

`EventSource` says what the owner of a registration may count on: `want` (none,
on, off), the flags `wfl`, and that a callback happens only while the event is
wanted, at most once per request for a one-time event, after which the event is
off (`TP_F_DISPATCH`) or gone (`TP_F_ONESHOT`).

`TpEvent` has the mechanism: `tpdata` (decoded into its fields), `reg` (what
`epoll_ctl()` has been told), `tmr` (the timerfd), `ready` and `hup` (the world),
and `pol`, what each polling thread is doing with the event.  `Post` is
`tpt_ev_post()` with its three branches, each with its failures.  `Wait`,
`Check`, `Mark`, `Handle`, `Return` are the stages of `tpt_loop()`; only the
owning thread posts, and never between `Wait` and the callback, because both are
on its stack.  `virt` says whether the event belongs to the virtual thread,
which all threads poll, or to thread 0.  The refinement `Implements` covers every
event but the timers of the virtual thread (`Served`), which the mapping shows as
a registration nobody asks for.

### 2.4 TpTask

The two registrations are abstracted to what `TpEvent` shows of them: on, off or
none, and switched by their one-time flags when they are reported.  `asked` and
`timed` record what the owner may expect; `moved`, `told`, `tot`, `got`, `left`
follow the bytes of the buffer through partial transfers.  `IoEvent` and
`TimerEvent` are the prologues of the handlers, `Transfer`, `TransferEnds`,
`Receive`, `NoMore` their loops, `Return*` the epilogue for each return code of
the callback, `StartDirect` a start that calls the handler at once.  The history
variable `odd` records three kinds of use in which the code does not keep what a
waiting owner expects (section 3.2); `Regular` is their absence.  One of them is
an error nobody looks at: when a handler goes on, `PostRegs` arms the timer and
enables the descriptor again, and either may fail.

### 2.5 TpConnectEx and TpAccept

`TpConnectEx` keeps the two counters where the code keeps them
(`tot_transfered_size`, `offset`) and the decision of
`tp_task_connect_ex_start()` as one operator, `NextTry`.  The clock, `connect()`
and the limit on the whole duration are nondeterministic.  `lost` is history: the
index of an address has been overwritten (section 3.2).  `tp_task_start()` may fail
at the timer or at the descriptor; in the second case the timer stays armed
(`stray`), and after the last report it calls the handler once more (`late`).
`prm.close` is `TP_TASK_F_CLOSE_ON_DESTROY`.  `TpAccept` follows
the loop over the sockets with a failure possible at each call and the undo loop.

### 2.6 DnsResolv

`cache` is the table of entries (flags decoded; `fresh` is `valid_untill` against
the clock; `data` is what `pdata` holds, whatever the flags say of it), `tsk` and
`slot` are the tasks and `tasks_tmr[]`, `sent` every query that was sent, which
the network may answer late, repeatedly or never.  `req` is what the callers
see.  Handlers run one at a time, as on a pool of one thread.  A handler is
several steps, because it calls itself through the queue of an entry and through
aliases: `todo` is its stack.  `LookupMiss`, `LookupHit`, `LookupLoop`,
`LookupCancelled` are the ways through `dns_resolv_hostaddr_int()`, `NotifyStep`
one round of `dns_rslvr_task_notify_chain()`, `ScanStep` and `FollowStep` the loop
over the records of an answer, `DoneStep` the callback of
`dns_resolver_task_done()`; no event comes in between.  The servers know the
constant function `world`; an answer holds the record of the name, the whole
chain of its aliases, nothing or an error, and may end in a record that cannot be
read, behind which the records before it count (`bad`).  A null or freed
pointer that is followed stops the model (`up = "crash"`).

### 2.7 The services: HttpServer, RadiusClient, UpnpSsdp, SapRcvr

`HttpServer` is one connection from accept to close, with the listening binds.
The client's bytes are cells `<<k, j>>`, part `j` of request `k`, so that the
buffer shows whose bytes it holds after it was moved, grown or cut.  The operators
between the actions follow the labels of `http_srv_recv_done_cb()` (`HdrFound`,
`ReqReceived`, `OnReqRcv`, `Pipelined`, `ContinueRecv`, `WithError`) and return
sets of <<connection, return code>>, because the user's callback and `sendmsg()`
may end in several ways.  `ReadEvent`, `ReadFails`, `UserResumes` and the others
are the events; what the task layer does with a return code (`Continue`, `Stop`,
`Start`, `StartEx`) is taken from `threadpool_task.c`.  `srv.rcv` and `srv.snd` say
whether the two timeouts are other than 0, which is what a timer depends on.

`RadiusClient` keeps the client as one record that the calls of a handler pass on:
`q` (queries), `sock` (sockets with their 256, here two, slots), `skts` (the array
of a thread and family with its counters), `sent` (every packet on the network,
which may be answered late, repeatedly or never, or by somebody else).
A packet has the code of a reply, which is signed over the request it answers, or
that of a request, which `radius_pkt_verify()` does not tie to anything (`MadeFor`).
`wild` says that a handler went on with freed memory; the model stops there.

`UpnpSsdp` keeps the arrays of devices, interfaces and their links, and `known`,
what listeners on the network have been told and not told otherwise.  `SapRcvr`
parses announcements (`sap.h`, `sdp.h`) whose lines are abstract and keeps the
sessions in the buckets of `data_cache.c` with a bounded clock.

Loops over arrays are recursive functions of the index or folds
(`Pipelined`, `TryNext`, `SocketsFreed`, `Cleaned`, `DevsDestroyed`), one turn being an
operator of its own (`NextTaken`, `NextTried`, `NextFreed`), so that the prover can
reason about them.

Several modules have a class of call the run does not make; section 3.2 lists
what the code does there.

### 2.8 The data structures: RingBuffer, Reass, HashBucket, Ini, DnsMsg

`RingBuffer` numbers the bytes of the stream, so that what a reader is given shows
where it comes from.  `Reass` gives every byte of a fragment its message and
place.  In `HashBucket` two threads use the protocol the header recommends, with
a recursive mutex per zone; the unprotected counter is read and written in two
steps.  `Ini` keeps the array of lines as the code does, with the text conversions
done on characters because the property is about them.  `DnsMsg` builds and reads
messages as bytes, names with and without compression.

### 2.9 The algorithms

Words are scaled, control is not: a digit of `big_num.h` has four bits, a byte of
the hashes two, a word of the ciphers eight, the curves are over fields of eight
bits.  `Digit` to `BnMod` keep numbers as the code does, digits with a count of
those in use, and `junk` is what memory above them holds.  `Elliptic` works on
values, because `BnMod` is checked to compute them, and goes back to digits where
the code inspects a scalar.  `HashCtx`, `RadiusPkt` take the block functions and
digests as constant operators, for which `MCAlgorithms` has arbitrary mixing
functions; nothing in the padding, buffering or signing depends on them.
References: integer arithmetic, the textbook's group law, the padded definition
of a digest, decryption of what was encrypted, verification of what was signed.

Helpers that take an operator as a parameter (`Binary`, `Sliding`, `Comb1`,
`Comb2`, `KeyGen`, `Sign`, `Verify`, `ImportBytes`, ...) are what the affine and
projective, or the little and big endian, functions have in common; those
functions are in the map one by one.

## 3. The runs

### 3.1 What is checked

| run | constants | checks |
|---|---|---|
| `tp_safety` | 2 threads, pipes of 2, batches of 2, 1 message; shutdown by owner, thread 0 and signal, also early; failures | `NoCallbackAfterWait`, `EarlyWorkProcessed`, `ThreadHooksPaired` |
| `tp_live` | the same without failures and early shutdown, batches of 1 | `ShutdownStopsThreads`, `DestroyReturns` |
| `msg_all` | 1 to 3 threads, all modes, flags, callers, any threads down, failing writes, concurrent shutdown | `DataOutlivesUse`, `DoneReport`, `NoLeak`, `DoneEventually`, `SyncReturns` |
| `ev_all` | event of one thread or of the virtual one with 2 threads, all kinds and flags, failing system calls | `KernelAgrees`, `Implements` (the refinement of `EventSource`), `Delivered` |
| `task_all` | all handlers, all flags, all failures, buffer of 2 | `ReportedOnce`, `FreedIsQuiet`, `WaitEnds` |
| `conn_all` | 1 to 3 addresses, 1, 2 or unlimited tries, all flags, all failures | `TriesLimited`, `NoDescriptorLost`, `Ends` |
| `dns_all` | 2 names, 2 or 3 requests, 1 or 2 servers, 2 to 4 slots, failing calls, aliases of an address, of nothing, of each other | `CalledOnce`, `RightAnswer`, `Answered` |
| `services_all` | listeners of up to 4 threads with a failure anywhere; seven kinds of HTTP client with up to 4 requests; 2 RADIUS queries, 2 servers of 2 tries, 2 ids, with and without surplus sockets; 2 SSDP devices on 2 interfaces; 3 SAP sessions | `AllOrNothing`, `ClosedOnce`, `HttpInOrder`, `HttpAttended`, `RadiusSlotsOwned`, `RadiusReportedOnce`, `RadiusRightAnswer`, `SsdpNoGhost`, `SapSessionsKept` |
| `structures_all` | a ring of 8 bytes, blocks of 2 and 4 with and without gaps; messages of 1 to 4 fragments; 2 threads and 3 keys in 2 zones; texts of up to 6 lines; messages of 3 questions and records | `RingReadsInOrder`, `ReassembledWhole`, `KeysUnique`, `IniSetIsRead`, `DnsRecordsRead` |
| `algorithms_all` | operands at the borders of the digits, four primes, three curves, pieces around the block sizes, every kind of packet | `NumbersRight`, `SignaturesVerify`, `DigestsAndCiphersRight`, `PacketsRight` |

Type invariants and the smaller invariants a property rests on are conjuncts of
it (`DoneReport` contains `TypeOK` of `TpMsg`, for instance), named on their own in
the modules.

Two more runs end in a counterexample, each a disagreement between the code and
what it says of itself (the quoted lines are under `findings` in `PROJECT.json`):

| run | property | what happens |
|---|---|---|
| `msg_sync_stack` | `SyncDataOutlivesUse` | the last worker reads `done_cb` from a stack frame that is gone |
| `ini_numbers` | `IniNumberIsRead` | 10, like every power of ten, is written with one digit too few |

*Bounds.*  Two pool threads are enough for the pool because threads interact only with
the owner and through `shutdown`; a third would only repeat what the second does in
the loops.  Broadcasts need three: one that sends, one that is last, one in between
(one-by-one delivery passes through all three roles).  A pipe of two and a batch of
two (one in `tp_live`) give full pipes, batches that are full and batches that are
not.  A buffer of two units gives no, partial and complete transfers.  Three addresses
give a first, a middle and a last one; the bound `TryBound` stops unlimited tries
after three, more than the largest limit.  Four sockets give an undo loop with several
iterations.  In the resolver a queue of two needs three requests (for one name, with
one server, to keep the run small), everything else two; two names give an alias and
its target, or two aliases of each other; two slots, one of them unused, give a table
that is full.  The HTTP buffer of 5 cells, at most 7, holds one request and a half,
has to grow for the larger bodies and cannot hold the largest; with 4 the headers of
an error page never fit behind a pipelined request, and what then happens (section
3.2) would be missed.  Two ids per RADIUS socket give a socket that is full and a
second one; two queries give an id that is given to the other one.  The ring of 8 with
blocks of 2 and 4 and gaps of 1 has tails that are too small and rounds whose blocks
have other sizes and places than those of the round before; 10 bytes lap a reader that
is one round behind and one that is two.  Scaled words are as small as the code's own
shifts allow (half a digit, a rotation within a word).

*Fairness.*  `FairSpec` asks weak fairness of the steps of threads inside the library
(a thread that can run is scheduled), of the event loop, and of armed timers (they
expire), in `DnsResolv` of the running handler and of the timers.  Nothing obliges the
application, the peer or a failing system call to act.  `Delivered` and `WaitEnds`
suppose that the owner stops interfering and, for `WaitEnds`, that nothing arrives,
for every event starts the idle timeout anew.

*Deadlock.*  `tp_safety`, `msg_all`, `task_all`, `dns_all`, `services_all` and
`structures_all` do not check it: a pool that lost a shutdown message waits for ever
(section 3.2), a synchronous broadcast to the calling thread itself or to a stopping
thread polls for ever, a task that its owner has left alone may rest, and so may a
resolver without requests, a service that was destroyed and a structure whose bounded
input is used up.

### 3.2 What the properties leave out

The passing properties exclude, by an antecedent or by a constant, the following
uses, in which the code does something else than its comments say.  Dropping the
antecedent makes TLC show the behaviour.

* `threadpool.c:1128`: test and increment of `tp->shutdown` are two steps, so two
  callers can both run the stop hook of the virtual thread.  `ThreadHooksPaired`
  counts the hooks of the real threads only.
* `threadpool.c:1314-1315`: a thread sets its state to `STOP` and then decrements
  `threads_cnt`; `tp_shutdown_wait()` detaches a thread it sees in `STOP`, so the
  pool may be freed in between.  `NoCallbackAfterWait` is about application code.
* `threadpool.c:1238-1241`: a thread that calls `tp_shutdown()` while
  `tp_threads_create()` is still in its loop misses the threads not yet marked;
  they get no message and `tp_destroy()` joins them for ever.  `tp_live` has
  `EarlyShutdown = FALSE`.
* `threadpool_msg_sys.c:524`: one by one, when every thread but the caller
  refuses, the message data is not freed (`NoLeak` asks for one that accepted);
  line 538: when all sends fail `done_cb` runs and `ESPIPE` is returned as well;
  line 395: a synchronous broadcast in a pool of one returns 0 with
  `send_msg_cnt` 0 (`SyncReturn` is about the other paths).
* `threadpool.c:690`: adding an existing timer with other flags changes the timer
  and not the flags the loop acts on (`NewFlags = TRUE` violates `KernelAgrees`);
  line 902: a one-time socket event of the virtual thread is deleted from the
  wrong epoll descriptor and stays registered (`KernelAgrees` says `~virt`);
  lines 692 and 871: timers are added without `EPOLLONESHOT`, and two threads that
  poll the virtual thread can both deliver one expiry of a one-time timer, the
  second as `TP_EV_READ` (`Implements` says `Served`).
* `threadpool_task.c:398, 431`: when the descriptor is refused, the timer of
  `tp_data` is removed instead of that of `tp_timer`, which stays armed (`odd`
  contains `"failed"`); line 409: `tp_task_stop()` looks at the present timeout
  and forgets the timer after `tp_task_timeout_set(0)` (`"zeroed"`); lines 428 and
  481: a task that is enabled again loses `TP_F_DISPATCH`, and a `TP_F_ONESHOT`
  transfer that needs a second event is not registered for it (`"flags"`).
* `threadpool.c:1171-1182`: a thread that `pthread_join()` refuses to join is marked as
  stopped, and the count of threads is polled instead ("Fallback code, normally not
  used."); in `ThreadPool` a join succeeds.
* `threadpool_task.c:476, 481`: errors of arming the timer and enabling the descriptor
  again are not looked at; a task may then wait for nothing (`WaitEnds` excepts it).
* `threadpool_task.c:340` with `1115`: `tp_task_start()` sets the field that holds
  the index of the address to 0 (`lost`); line 398, as above: the timer of a start
  that failed fires after the last report, with no descriptor, and the handler
  takes it for the end of a delay and connects, beyond `max_tries` and perhaps with
  an index behind the last address (`NoDescriptorLost` says `stray`, `TriesLimited`
  and `Ends` say `late`); line 1129: the delay timer of a
  task without timeout is not deleted with it (`QuietAfterEnd` says `prm.timed`).
* `threadpool_task.c:898`: with `TP_TASK_F_CLOSE_ON_DESTROY` the socket of a
  listener that does not start is closed twice (`ClosedOnce` says which).
* `dns_resolv.c:774, 808`: an entry is marked as being updated before its task is
  made and its query sent; if either fails the mark stays, and later requests for
  the name queue up for ever (`Answered` excepts `Stuck` entries); line 845: a
  failure behind an alias is not reported (`Answered` says `Short` and `~fails`).
* `dns_resolv.c:341, 444`: an update without data, after a timeout or an error, keeps
  the data and clears `DNS_R_CD_F_CNAME`; the alias of an outdated entry is then
  handed out as addresses, without an error (line 791: `"garbage"`).  `RightAnswer`
  names the exception and bounds it: only callers of a name that is an alias meet it.
* `dns_resolv.c:458, 749`: a queued task has no `cache_entry`, and a second answer to
  its earlier query, or a late answer to its id, is processed through that null
  pointer or frees the task while it is in the queue (`up = "crash"`); a cancelled
  task that is woken or meets an alias is left in its slot (`TasksAccounted` is
  about tasks with a callback); `dns_resolver_destroy()` frees the queued tasks
  and then wakes them.
* `dns_resolv.c:845` and `threadpool_task.c:340, 1115`, said again as what a
  caller sees: a request whose aliases lead in a circle gets no callback, against
  the comment at line 1109 ("On error will call back."), and the second of two
  addresses is tried without limit, against `threadpool_task.h:61`.
* HTTP server.  `http_server.c:1254` says "Full request received!", but a peer that
  closes in the middle of a body has what came handed over as the request, and a body
  for which the buffer was grown may be cut (`io_buf_realloc()` clips the transfer
  size); after growing (line 1169) the parsed request points into the old buffer.  An
  error page without close is appended to the receive buffer and then parsed as a
  request; after a response that was sent at once it is sent with the bytes of the
  previous body.  Where its headers are not written at once (`http_srv_snd()`, line
  1825) the rest of them is copied over the pipelined bytes in the receive buffer: a
  request that was received is passed over, what is left of it is refused and the
  connection closes (`InOrder` says `Overwritten` and `Refused`).  A pipelined request
  whose body is incomplete is not read further: the task was stopped for the request
  before it (line 1255) and `TP_TASK_CB_CONTINUE` arms only the timer,
  against its comment ("Continue receive.", line 1164); with `rcv_timeout` 0 there is no timer either and
  nothing ends the connection (`HttpAttended` says `Forgotten`).  The same when the
  user resumes ("Process next." at line 1532).  A header longer than the initial
  buffer never makes it grow.  `http_srv_destroy()` skips every other bind,
  `http_srv_bind_remove()` frees a bind that open connections point to,
  `http_srv_shutdown()` does nothing, and a failed `http_srv_cli_alloc()` frees a
  connection whose bind is not set.
* RADIUS client.  Line 961: when the tries with a server are used up the loop over
  the next servers is jumped over, against the comment at line 981; line 673: the
  last answer on a surplus socket frees the socket inside its own callback
  (`SocketOutlivesHandler` says `limits.min = limits.max`), and line 986 does the same
  to the socket of the timer that is being handled (`TimerFreed`); `radius.h:1387`:
  packets with the code of an Access-Request, Status-Server or Status-Client pass
  `radius_pkt_verify()` unchecked, other requests are checked over zeros, and the
  client never looks at the code, so that such a packet from the server's address
  ends the query whose identifier it has (`RadiusRightAnswer` ties only replies to
  the request); line 441: the destroy
  loop skips every other socket and leaves its timers; `..._server_remove_by_addr()`
  removes the first server with another address and clears the wrong entry; a
  socket that cannot be made is used through a null pointer; a random factor can
  give the time 0, which switches the timer off; line 729 looks at the buffer's
  descriptor instead of the packet.
* RADIUS packets.  `radius_pkt_attr_add()` of a User-Password always ends in
  `EOVERFLOW`; a second signing with Message-Authenticator in `EEXIST`; an
  Accounting-Response with Message-Authenticator is signed over the request's
  authenticator and checked over zeros; an IPv4 address attribute is added with the
  size of `sockaddr_in`.
* SSDP.  The destroy loop at line 378 ("Destroy all upnp devices and services.")
  skips every other device; the error path of `upnp_ssdp_create()` closes a socket
  its task owns; a device whose registration fails is freed with its timer armed;
  nothing locks the timer callbacks against the API.
* SAP.  Session deletions are taken for announcements; the clean interval is
  multiplied by 1000 although the clock counts seconds; a full buffer is
  terminated one byte behind its end; the error path of the creation leaks.
* Ring buffer.  With blocks that differ in size or leave gaps two things go wrong,
  which the run reaches and `RingReadsInOrder` excepts by name.  Line 288: a reader one
  round behind is taken to be good while its index is beyond the writer's, although
  larger blocks of the new round may already cover its bytes (`Overwritten`).
  Lines 640-650: a read that was stopped inside the old round goes on with the new one
  and passes over the rest (`PassedOver`).  `r_buf_data_get()` reports
  data as read when it returned none; a reader that was too slow is not moved.
* Reassembly.  The distance over the wrap of the sequence number is one too small;
  the size of the bitmap in bytes is compared with the index of a block, so an
  eighth of it is used; with fragments of two messages mixed
  (`InOrderMsgs = FALSE`) a late one lands in the next message.
* Hash bucket.  The count of the whole bucket (line 134: "Total entries count in
  bucket.") is updated under the locks of different zones and gets lost updates.
* Ini.  Value names are compared without case by `ini_sect_val_find()` too;
  `ini_buf_gen()` checks each line against the whole buffer; when the array cannot
  grow a section line that is already in it is freed.
* DNS messages.  Names are checked against the start of the name plus the message
  size; the fields of the OPT record stand in another order than in the RFC;
  compression is not written.
* Big numbers.  `NumbersRight` states what the code computes where that is not the
  operation on integers: `bn_and()` with a shorter second operand keeps the upper
  digits of the first, the binary imports keep those of an older number, and
  `bn_mod_small()` stops at the modulus.  It says nothing of: the roots, the lowest bits
  and the joint sparse form of 0 (`bn_calc_jsf()` reads an uninitialised digit,
  `bn_is_bit_set()` a digit that is not there); `bn_sqrt1()` and `bn_sqrt2()` for an odd
  number of bits, where line 2650 starts at a bit that is not a power of four (they
  give 0 for 1); the coefficients of `bn_digit_egcd(a, a)`; the upper half of a
  remainder by a power of two without double digit division; buffers that are too
  small (`bn_export_le_bin()` allows one size too small).  `bn_mod_sqrt()` reports
  an error for some squares modulo a prime 8k + 1 (32 modulo 97), which the property
  allows; an odd last hexadecimal digit is dropped; `bn_assign_digit(0)` and `bn_exp()`
  leave a zero with one digit.
* Signatures.  `ecdsa_sign_be()` checks the size of the random number against the
  private key and reads the size of the curve; an import never clears the mark of
  the point at infinity; hash 0 meets the zero of the joint sparse form;
  `ecdsa_key_gen_*()` wants a buffer for y even when it compresses.
* GOST 28147: the loops of `gost28147_blocks_decrypt()` and its big endian form for
  unaligned data (lines 433, 470) load the words in the byte order of the other form.
  `DigestsAndCiphersRight` is checked with both alignments and says that the unaligned
  loops undo encryption only when every block is handed over with its bytes reversed.
* DHCP.  The length of every piece of a split option is checked as if it were the
  whole, which refuses packets RFC 3396 allows; an option without data counts 0
  bytes and is written as 2.

## 4. The proofs

All theorems hold for every value of the constants that satisfies the named
assumption of the module; none limits the number of threads, messages, addresses
or bytes.  Every proof has the same shape: an invariant `IInv`, checked by TLC on
the instance of the run first, `Init => IInv`, one step per action for
`IInv /\ [Next]_vars => IInv'`, and the property from `IInv`.  What an action does
to typed variables is a lemma of its own (`...Facts`), cited wherever the action
is looked at.

### 4.1 ThreadPool_proofs

From `ThreadPoolAssumption`:

* `TypeCorrect`: `Spec => []TypeOK`;
* `WaitIsSafe`: `Spec => []NoCallbackAfterWait` - whenever `tp_shutdown_wait()`
  has returned, every pool thread either was never created or has run its last
  application code;
* `EarlyWorkIsProcessed`: `Spec => []EarlyWorkProcessed` - a message accepted
  before the flag of the shutdown was set has been taken from its pipe when the
  thread runs its on_stop hook;
* `HooksArePaired`: `Spec => []ThreadHooksPaired`.

`NoCallbackAfterWait` is not inductive: that a thread has gone follows from what
the waiting loop saw of it earlier.  The invariant `IInv` of theorem `Inductive`
adds: `IndexInv` (the loop indices are within their range for the program
counters that use them), `SpawnInv` (which threads exist for each stage of the
owner, and that a slot without thread has no program counter), `StateInv` (the
`state` field agrees with how far its thread has got, so that a thread seen in
`STOP` has left its callbacks) and `WaitInv` (every slot the waiting loop has
passed has left).  `WaitOne` (a thread seen stopped is detached) and `Join` are the
steps that carry the argument, the rest frame it.

Theorem `Ordered` adds three more on top of `IInv`.  `HooksInv` counts the hooks by
program counter.  `FlagInv`: nobody stops, and no request to stop is on its way,
before `tp->shutdown` is set; an early message is one that is no longer new.
`OrderInv` is the argument about the pipe: behind the request to stop there is no
early message, and once it has been read, or its thread is stopping, none is left
in the pipe.  A message becomes early only while the flag is not set, so that it
cannot be appended behind the request; reading takes a prefix, which keeps both.

### 4.2 Services_proofs: the listening tasks

`Services_proofs` is about `TpAccept` and the four services of `Services`, which share
no state: a step of one leaves the others alone (`AcceptRuns` and its like), so that
each has an invariant of its own.

From `TpAcceptAssumption`: `TypeCorrect`, `IsAllOrNothing` (`Spec => []AllOrNothing`)
and `IsClosedOnce`.  The two properties speak of the end of the function only;
`IInv` says what holds in the middle: `Making`, while sockets are being made (all
before the i-th are complete, all after it untouched, `Current` for the i-th itself),
and `Undoing`, while they are taken back (three zones: undone, still to undo, never
completed).

### 4.3 TpTask_proofs

From `TpTaskAssumption`: `FreedTasksAreQuiet` (`Spec => []FreedIsQuiet`),
`TransferIsReportedOnce` (`Spec => []ReportedOnce`) and `CalledOnlyWhileWaiting`
(`Spec => OnlyWhileWaiting`, an action property).  `CountInv` is the balance of the
counters (moved = told + still to tell + got in this call).  The other two rest on
`ArmedInv`: for each stand of the owner (new, waiting, held, stopped, failed) and
each place of the handler it says which of the two registrations, the descriptor
and the timer, is armed.  It needs `FlagsInv` (the flags in the task are those the
registration was made with), `LifeInv` and `TimerInv`.  `ArmedInv` holds for regular
use (`Regular`, that is `odd = {}`: the usual event flags, a timeout that is not changed
under a running timer, no call that failed half way, no failed re-arming).

### 4.4 TpEvent_proofs

From `TpEventAssumption` and `~NewFlags`: `KernelAgreesWithOwner`
(`Spec => []KernelAgrees`) and `RegistrationImplementsSource` (`Spec => Implements`:
the registration implements `EventSource`, and an event that is off does not wake
the loop).  `~NewFlags` excludes owners that add a timer that exists a second time
with other flags; `tpt_ev_post()` then arms the timer by the new flags and leaves the
old ones in force, and both theorems would be false (section 3.2).  The run of the
module has the same value.

`IInv` has a conjunct per kind of event, because the kinds are kept quiet by
different means: `RwInv` by `EPOLLONESHOT` in the kernel and the mark in `tpdata`,
`ProcInv` by the pidfd, `TimerInv` by the timerfd, which with a one-time flag either
has not expired and nobody is busy or has an unread tick.  `SoloInv` and `UniqueInv`
say who can be busy at once: the thread the event belongs to, and with a one-time
flag one thread of a virtual registration.  Lemma `HandledIsWanted` is the heart of the
refinement: a thread about to call the callback of a served event finds that the
owner wants it; the other steps of the loop stutter.

### 4.5 TpConnectEx_proofs

From `TpConnectExAssumption`: `TriesAreLimited` (`Spec => []TriesLimited`) and
`DescriptorsAreKept` (`Spec => []NoDescriptorLost`).  The assumption that the set of
address counts has a largest element stands for the width of `size_t`.  `CountInv`
relates the loop variables to the tries that were made: `Spent(c, t, a)` is what
address `a` has had when the loop stands at address `c` in try `t`, different for
round robin and one address at a time, and `Had` says that this is what was counted
(at least, once the index was overwritten).  `EndInv` keeps the limits when the loop
variables mean nothing any more; `PlaceInv` lists for each place of the handler which
registrations and which descriptor exist, with the timer that a refused descriptor
left (`stray`) as the one exception; what the two theorems say of the tries ends when
such a timer has fired after the last report (`late`), from which on the loop
variables no longer mean what `Had` says.

### 4.6 TpMsg_proofs

From `TpMsgAssumption`: `DataIsKept` (`Spec => []DataOutlivesUse`), `ReportIsRight`
(`Spec => []DoneReport`) and `NothingLeaks` (`Spec => []NoLeak`), for pools of any
size, all modes, flags and callers, threads that are down, pipes that fail and a
`tp_shutdown()` at any time.

The invariant speaks of places.  `Out(k, t)` says that a message of kind `k` for
thread `t` is in the pipe of `t`, in its batch or about to be run by some actor, and
`Uniq` that it is in one of these only.  `TokInv` is the discipline of these tokens
(a message is of the kind of the operation, there is one per thread, a proxy past its
callback belongs to the mode), `OnceInv` that a thread with a message has not run the
callback.  Sets are built from it - `Waiting` (threads with a message), `Decs` and
`Lasts` (proxies that will take the count down, that took it to zero), `Stages`
(proxies that carry a one by one broadcast on), `Called` - and the counters of
`tpt_msg_data_t` are compared with their sizes:

* `CastInv`: `send_msg_cnt = |Waiting| + |Called|`, sent, failed and not yet tried
  threads add up to the initial count, and `active_thr_count = |Waiting| + |Decs|`
  plus the threads the loop has not come to and the failures not yet counted off;
* `DoneInv`: there is one actor who took the count to zero, or one done message, or
  done_cb has run, or (after a shutdown only) the done message was refused;
* `OboInv`: one by one exactly one of the caller, a message, a worker and the done
  message has the turn, and the tries so far are the threads the index has passed;
* `SyncInv`, `AopInv`, `AtOnceInv`, `StartInv`, `ShutInv` for the other modes, the
  calls that return at once and what a shutdown may change.

The proof goes in layers: what appending, reading and running a message does to `Out`
and `Uniq` (`SeqFacts`, `DeliverStep`, `RunStep`, `StageStep`), the same in terms of
the sets (`SendStep`, `CallStep`, `MoveStep`, `StillStep`, `LoopStep`), and one lemma per
action that only counts.

### 4.7 HashBucket_proofs

`KeysStayUnique`: `Spec => []KeysUnique`, for any number of threads, keys and zones,
from `BucketAssumption` (the hash function yields a zone for every key, and nobody is
not a thread).  The run `structures_all` checks the same `KeysUnique`.
`IInv` is `LockInv` (a thread in the middle of an operation owns the mutex of its zone,
once, or twice inside `hbucket_entry_remove()`, and an owned mutex belongs to such a
thread), `SeenInv` (what the search found still holds when it is acted on) and
`GoodInv`, which says of the entries what `KeysUnique` says.  Lemma `OneStep` does the
framing once for all actions: a step on one zone, which is free before it or the one the
thread holds, concerns no other thread.  `Inserting` and `Unlinking` are about the lists.

### 4.8 DnsResolv_proofs

From `DnsResolvAssumption` and `NullAssumption` (names, NULL, numbers and records are
apart, there are two slots at least, of which the code never uses slot 0, and a server):

* `CallbackOnce`: `Spec => []CalledOnce`;
* `AnswersAreRight`: `Spec => []RightAnswer`.

A handler of the resolver runs in several steps, and most of what `CalledOnce` says
holds only between handlers.  `IInv` says what holds on the way: `todo` is always one
of five stacks, a search (`lk`) on the notification of a chain (`nt`) on the scan of an
answer or the end of a task (`fn`), with some of them missing, and `Inv(lk, nt, fn)`
relates these to the tasks and the cache:

* `SlotInv`: tasks and slots point at each other, slot 0 is free;
* `CallInv`: a task has its callback as long as its request is open;
* `OwnInv`, `SoleOwner`: a task with a name is the only one, and the entry is marked
  `DNS_R_CD_F_UPDATING` until the task is about to end, when it is fresh instead (so that
  no search which runs before the task is freed can take the entry over);
* `PlaceInv`, `WaitInv`, `CacheInv`: a task waits in one queue or in the chain that is
  being notified, exactly if its flag says so, or its timer runs, or the handler is at
  it; only an entry that is being updated has a queue;
* `HandlerInv`: what the handler finds in the task it goes on with;
* `PathInv`: whatever a request has asked, waited or looked for, and what it was
  answered, is reached from its name along the aliases.

`Chain(x)` is the least set that holds `x` and the alias of each of its names, which
needs no recursion; `OneEnd` shows that it has one end at most, so that `RightAnswer`
determines the answer, but for the bytes of an alias given out as addresses, of which
the invariant says where they can come from: an entry of the cache for a name that is
an alias.  `FreeSlotIs` is the correctness of the search for a slot. `OneStep` does
the framing once: a step of one request concerns no other.  The theorems include a
resolver in which a failed call has left an entry marked, and say nothing of whether a
request is answered: `Answered` is for TLC.  They are about handlers that run one at a
time, like the model.

### 4.9 Services_proofs: the services

From `HttpAssumption` (a client sends requests), `RadiusAssumption` (finitely many
sockets and identifiers, a name for every socket the limits allow) and `SapAssumption`
(a session is looked up in a bucket that exists):

* `HttpIsAttended`: `Services => []HttpAttended`;
* `RadiusReportsOnce`, `RadiusOwnsSlots`: `Services => []RadiusReportedOnce` and
  `Services => []RadiusSlotsOwned`;
* `RadiusAnswersRight`: `Services => RadiusRightAnswer`, an action property;
* `SsdpLeavesNoGhost`: `Services => []SsdpNoGhost`;
* `SapKeepsSessions`: `Services => []SapSessionsKept`.

*Loops.*  A loop of the code is a recursive function of the index in the model.  The
induction the prover cannot do on a predicate is done on a set: `Counting` says that a
set of numbers that holds 0 and with `k - 1` also `k` holds all numbers up to a bound,
which follows from the least number principle of the library, and the set is the set
of indices at which the loop invariant holds.  That the function which a recursive
definition means exists is shown the same way (`TriesExist`, `FreesExist`).

*HTTP.*  `Cares` says of a result, a connection and a return code, that the connection
is attended or that the code asks the task layer to go on, which then attends to it,
or that it is one of the connections `Forgotten` names: with `rcv_timeout` 0 going on
attends to nothing, and the lemmas carry along that this takes an answered request and
headers in the buffer. There is a lemma for each label of `http_srv_recv_done_cb()`;
`PipelinedCares` is the loop over the requests in the buffer.

*RADIUS.*  A handler passes the client through several calls, and between them a query
has no slot, or a slot without timer, or a timer and no packet.  `Base` is what holds
at any moment: slots and queries name each other (`Slots`, `Named`), timers of unused
slots are not in the kernel (`Quiet`), the counters are the sizes of the sets they
count (`Counts`, `Totals`), the lists hold the living sockets once each (`Lists`,
`Listed`), a report was made once (`Reports`), and a packet on the network is for a
query that is active and signed or gone (`Sent`).  `Placed` and `Armed` are what a
query regains at the end of a handler: its packets were sent from the slot it holds,
whose timer runs, and it has tries left.  `AtRest` is all of this for all queries; a
lemma about a call takes `AtRest` of the others and says what the call did to one
query (`Apart`).  `Mail` says of the queue of the thread that a query in it is marked
as queued and is in it once, and that a destroy comes last.  `RadiusInv` joins them
for a client whose handlers never went on with a freed socket; without surplus sockets
that is every client (`NoSurplus`).  `RadiusRightAnswer` follows from `Slots` and
`Placed`: the packet is looked up by its slot, and all packets of the query in the
slot were sent from it; of a packet with the code of a request only the slot and the
sender are known.

*SSDP.*  `SsdpSaid` is the strengthening: all that was announced is covered by a link
that exists, whose device has the service and whose interface has joined the group.
Deleting a device or an interface takes the links away together with what was
announced over them.

*SAP.*  `SapHeard`: an item of a session that was heard is not outdated before its time.
`CleanedKeeps` is the loop over a bucket: it keeps exactly the items that stay, in their
bucket and without doubles.

### 4.10 What is only model-checked

* Liveness, and everything with `ENABLED`: out of the prover's reach.
* `HttpInOrder`: what the buffer holds is compared with the flattened stream of the
  client's requests, through every move, growth and overwriting of the buffer; the
  argument is one about the contents of sequences for every input.
* The properties of the data structures but the hash bucket, and of the algorithms:
  what they compute for every input is induction over data, and the modules of the big
  numbers, of what builds on them and `RadiusPkt` have `RECURSIVE` operators, with
  which the prover cannot be used.

## 5. What is not modelled

* The kqueue variant of the event loop; `TP_F_EDGE`, `TP_F_EXCLUSIVE` and low
  water marks; CPU binding, thread names, cached time.
* Resynchronisation of the pipe reader on a damaged packet: packets are written
  by one `write()` below `PIPE_BUF` and are atomic.
* Getters, setters, settings, XML configuration, logging; failures of `malloc()`
  in the services.
* A direct start from inside a callback of the same task (recursion into the
  handler); the owner there has to return `TP_TASK_CB_NONE`.
* The block functions of the hashes (and their vectorised variants), the tables of
  real curves and the size of real big numbers: outside of what TLC enumerates;
  covered by test vectors in `tests/`.
* `bn_egcd`, `bn_mod_inv3`, `bn_sqrt4`, Barrett reduction, the self tests of
  `big_num.h`, `elliptic_curve.h` and `ecdsa.h`;
  `ec_point_affine_fpx_pre_dbl_mult_precompute()`, which initialises one element of
  its table only; `ecdsa_recover_pub_key_from_sign_be()`, which is unfinished.
* In the resolver: failures of `realloc()` for cached data, the text dump of the
  cache, several threads in its handlers at once.
* HTTP: the text of requests and headers (`http.c`), export and import of the task,
  authentication; `http_client.c` is unfinished and not part of the build.
* `radius_pkt_attr_add_port()`, `dhcp4_validate_opt_params()`; DHCPv6, which is a table
  of option descriptions; BitTorrent, RTP and MPEG-2 TS layouts.
* Ring buffer: `r_buf_rpos_cmp`, `r_buf_rpos_calc_size`, `r_buf_rpos_init_near`,
  `r_buf_conv2off`, `r_buf_wbuf_set_ex`.  Reassembly without bitmap.  Enumeration
  and the unlocked mode of the hash bucket.
* xml, base64, utf8, asn1, CRC-32; address arithmetic and host lists.
* System information, command line, resource limits, daemonising: pure I/O.

## 6. Plan

1. Done: `ThreadPool`, `TpMsg`, `TpEvent`, `TpTask`, `TpConnectEx`, `TpAccept`,
   `DnsResolv`; the services; the data structures; the algorithms.
2. Theorems, done: the safety invariants of `ThreadPool`, `TpAccept`, `TpTask`,
   `TpEvent` (with the refinement of `EventSource`), `TpConnectEx`, `TpMsg`,
   `HashBucket`, `DnsResolv` and of the services but `HttpInOrder`.  Next: the order of
   HTTP requests, by an invariant on the cells of the buffer.
3. The resolver shared by several threads; readers of different speed in one ring
   buffer with an abstract specification, a window on a stream.
4. The parsing of requests and chunked bodies in `http.c`, base64, `bt_encode.c`.
