----------------------------- MODULE ThreadPool -----------------------------
(***************************************************************************)
(* The life of a thread pool: tp_create(), tp_threads_create(), the        *)
(* procedure of the pool threads, tp_shutdown(), tp_shutdown_wait() and    *)
(* tp_destroy(), with the messages the threads receive through their       *)
(* pipes.                                                                  *)
(*                                                                         *)
(* The main thread of the application owns the pool: it creates and        *)
(* destroys it.  tp_shutdown() may also be called by a pool thread, from a *)
(* callback, and by tp_signal_handler(), which interrupts the main thread. *)
(***************************************************************************)
EXTENDS TpSend, FiniteSets

CONSTANTS ThreadsMax,    \* tp->threads_max
          QueueCap,      \* messages a pipe holds before write() fails
          ReadMax,       \* TPT_MSG_COUNT_TO_READ
          WorkMax,       \* number of messages the application sends
          Callers,       \* who calls tp_shutdown() besides the main thread
          EarlyShutdown, \* ... already while tp_threads_create() runs?
          MayFail        \* may tpt_data_init() and pthread_create() fail?

Threads == 0 .. ThreadsMax - 1
Works   == 1 .. WorkMax
Pvt     == ThreadsMax    \* &tp->threads[tp->threads_max]
Slots   == 0 .. ThreadsMax
Main    == ThreadsMax + 1
Sig     == ThreadsMax + 2
Actors  == Threads \cup {Main, Sig}
Shut    == 0             \* the message whose callback is tpt_msg_shutdown_cb

ASSUME ThreadPoolAssumption ==
    /\ ThreadsMax \in Nat \ {0}
    /\ QueueCap \in Nat \ {0}
    /\ ReadMax \in Nat \ {0}
    /\ WorkMax \in Nat
    /\ Callers \subseteq Threads \cup {Sig}
    /\ EarlyShutdown \in BOOLEAN
    /\ MayFail \in BOOLEAN

VARIABLES
    pool,     \* the tp_t allocation: "none", "alive" or "freed"
    shutdown, \* tp->shutdown
    state,    \* state of every pool thread, the virtual one included
    pt,       \* pt_id of every pool thread: "none", "joinable", "detached"
    mpc,      \* where the main thread is
    mop,      \* the public function the main thread is in
    mi,       \* its loop index
    wpc,      \* where every pool thread is
    pipe,     \* messages written to the pipe of every pool thread
    batch,    \* messages read from the pipe and not yet processed
    sd,       \* activation of tp_shutdown() on the stack of every actor
    called,   \* the members of Callers that have called tp_shutdown()
    work,     \* what became of every message of the application
    early,    \* history: messages accepted before tp_shutdown() began
    starts,   \* history: calls of tpt_on_start() for every slot
    stops     \* history: calls of tpt_on_stop() for every slot

poolVars == <<pool, shutdown, state, pt>>
mainVars == <<mpc, mop, mi>>
msgVars  == <<pipe, batch, work, early>>
hookVars == <<starts, stops>>
vars == <<pool, shutdown, state, pt, mpc, mop, mi, wpc, pipe, batch,
          sd, called, work, early, starts, stops>>

MainPcs == {"tp_create", "init_threads", "created", "threads_create", "spawn",
            "up", "in_shutdown", "wait", "join", "uninit", "done"}
Ops == {"none", "shutdown", "wait", "destroy"}
WorkerPcs == {"none", "born", "hook", "loop", "read", "process",
              "process_full", "on_stop", "clear", "last", "gone"}
ShutdownPcs == {"idle", "test", "set", "send"}
WorkStates == {"new", "queued", "done", "refused"}

TypeOK ==
    /\ pool \in {"none", "alive", "freed"}
    /\ shutdown \in Nat
    /\ state \in [Slots -> ThreadStates]
    /\ pt \in [Threads -> {"none", "joinable", "detached"}]
    /\ mpc \in MainPcs /\ mop \in Ops /\ mi \in Slots
    /\ wpc \in [Threads -> WorkerPcs]
    /\ pipe \in [Threads -> Seq(Works \cup {Shut})]
    /\ batch \in [Threads -> Seq(Works \cup {Shut})]
    /\ sd \in [Actors -> [pc: ShutdownPcs, i: Slots]]
    /\ called \subseteq Callers
    /\ work \in [Works -> WorkStates]
    /\ early \subseteq Works
    /\ starts \in [Slots -> Nat] /\ stops \in [Slots -> Nat]

Idle == [pc |-> "idle", i |-> 0]

Init ==
    /\ pool = "none" /\ shutdown = 0
    /\ state = [t \in Slots |-> STOP]
    /\ pt = [t \in Threads |-> "none"]
    /\ mpc = "tp_create" /\ mop = "none" /\ mi = 0
    /\ wpc = [t \in Threads |-> "none"]
    /\ pipe = [t \in Threads |-> <<>>]
    /\ batch = [t \in Threads |-> <<>>]
    /\ sd = [a \in Actors |-> Idle]
    /\ called = {}
    /\ work = [m \in Works |-> "new"]
    /\ early = {}
    /\ starts = [t \in Slots |-> 0] /\ stops = [t \in Slots |-> 0]

-----------------------------------------------------------------------------
(* tpt_msg_send(): messages.                                               *)

Full(t) == Len(pipe[t]) >= QueueCap

\* The main thread can run: no signal handler is on its stack.
MainFree == sd[Sig].pc = "idle"

\* A pool thread is inside a callback: the tpt_on_start() hook, a message
\* callback, or the callback of some other event of its loop.
InCallback(t) ==
    /\ sd[t].pc = "idle"
    /\ \/ wpc[t] \in {"hook", "process", "process_full"}
       \/ wpc[t] = "loop" /\ state[t] = RUNNING

\* The application sends message m to thread dst from thread src (Main is a
\* thread outside of the pool).
SendWork(src, dst, m, flags) ==
    /\ \/ src = Main /\ MainFree /\ mpc = "up"
       \/ src \in Threads /\ InCallback(src)
    /\ work[m] = "new"
    /\ LET out == SendOutcome(src = dst, IsRunning(state[dst]), Full(dst), flags)
       IN  /\ work' = [work EXCEPT ![m] =
                 CASE out = "direct" -> "done"
                   [] out = "queued" -> "queued"
                   [] OTHER -> "refused"]
           /\ pipe' = IF out = "queued"
                      THEN [pipe EXCEPT ![dst] = Append(@, m)]
                      ELSE pipe
           /\ early' = IF out = "queued" /\ shutdown = 0
                       THEN early \cup {m} ELSE early
    /\ UNCHANGED <<poolVars, mainVars, wpc, batch, sd, called, hookVars>>

-----------------------------------------------------------------------------
(* tp_shutdown(): three kinds of step on the stack of actor a.             *)

\* The caller finds the flag clear, or returns.
ShutdownTest(a) ==
    /\ sd[a].pc = "test"
    /\ a = Main => MainFree
    /\ sd' = [sd EXCEPT ![a] = IF shutdown = 0 THEN [pc |-> "set", i |-> 0]
                                               ELSE Idle]
    /\ UNCHANGED <<poolVars, mainVars, wpc, msgVars, called, hookVars>>

\* The flag is set, the virtual thread stops and its hook is called.
ShutdownSet(a) ==
    /\ sd[a].pc = "set"
    /\ a = Main => MainFree
    /\ shutdown' = shutdown + 1
    /\ state' = [state EXCEPT ![Pvt] = STOP]
    /\ stops' = [stops EXCEPT ![Pvt] = @ + 1]
    /\ sd' = [sd EXCEPT ![a] = [pc |-> "send", i |-> 0]]
    /\ UNCHANGED <<pool, pt, mainVars, wpc, msgVars, called, starts>>

\* Mutation: the loop ends before the last thread.
ShutdownSend_MissesLast(a) ==
    /\ sd[a].pc = "send"
    /\ a = Main => MainFree
    /\ LET t == sd[a].i
       IN  IF t < ThreadsMax - 1
           THEN /\ pipe' = IF IsRunning(state[t]) /\ ~Full(t)
                           THEN [pipe EXCEPT ![t] = Append(@, Shut)]
                           ELSE pipe
                /\ sd' = [sd EXCEPT ![a].i = t + 1]
           ELSE /\ sd' = [sd EXCEPT ![a] = Idle]
                /\ pipe' = pipe
    /\ UNCHANGED <<poolVars, mainVars, wpc, batch, work, early, called, hookVars>>

\* Mutation: the state of the thread is set instead of sending it a message.
ShutdownSend_SetsState(a) ==
    /\ sd[a].pc = "send"
    /\ a = Main => MainFree
    /\ LET t == sd[a].i
       IN  IF t \in Threads
           THEN /\ state' = IF IsRunning(state[t])
                            THEN [state EXCEPT ![t] = STOPPING] ELSE state
                /\ sd' = [sd EXCEPT ![a].i = t + 1]
           ELSE /\ sd' = [sd EXCEPT ![a] = Idle]
                /\ state' = state
    /\ UNCHANGED <<pool, shutdown, pt, mainVars, wpc, msgVars, called, hookVars>>

\* One turn of the loop over the threads, or the return after the last one.
\* The error of tpt_msg_send() is not looked at.
ShutdownSend(a) ==
    /\ sd[a].pc = "send"
    /\ a = Main => MainFree
    /\ LET t == sd[a].i
       IN  IF t \in Threads
           THEN /\ pipe' = IF SendOutcome(a = t, IsRunning(state[t]), Full(t), {})
                              = "queued"
                           THEN [pipe EXCEPT ![t] = Append(@, Shut)]
                           ELSE pipe
                /\ sd' = [sd EXCEPT ![a].i = t + 1]
           ELSE /\ sd' = [sd EXCEPT ![a] = Idle]
                /\ pipe' = pipe
    /\ UNCHANGED <<poolVars, mainVars, wpc, batch, work, early, called, hookVars>>

\* A pool thread calls tp_shutdown() from a callback (once: a later call
\* returns at once).
PoolShutdown(t) ==
    /\ t \in Callers \ called /\ InCallback(t)
    /\ EarlyShutdown \/ mpc \notin {"threads_create", "spawn"}
    /\ called' = called \cup {t}
    /\ sd' = [sd EXCEPT ![t] = [pc |-> "test", i |-> 0]]
    /\ UNCHANGED <<poolVars, mainVars, wpc, msgVars, hookVars>>

\* tp_signal_handler(): SIGTERM or SIGINT arrives while g_tp is this pool; the
\* handler then forgets the pool.
Signal ==
    /\ Sig \in Callers \ called /\ pool = "alive"
    /\ mpc \in IF EarlyShutdown
               THEN {"created", "threads_create", "spawn", "up"} ELSE {"up"}
    /\ called' = called \cup {Sig}
    /\ sd' = [sd EXCEPT ![Sig] = [pc |-> "test", i |-> 0]]
    /\ UNCHANGED <<poolVars, mainVars, wpc, msgVars, hookVars>>

-----------------------------------------------------------------------------
(* tp_create() and tp_threads_create().                                    *)

\* tp_create(): the allocation and the virtual thread.  When tpt_data_init()
\* fails the half made pool goes to tp_destroy().
CreatePvt ==
    /\ mpc = "tp_create"
    /\ pool' = "alive"
    /\ \/ /\ state' = [state EXCEPT ![Pvt] = RUNNING]
          /\ starts' = [starts EXCEPT ![Pvt] = @ + 1]
          /\ mpc' = "init_threads" /\ mi' = 0
          /\ UNCHANGED <<mop, sd>>
       \/ /\ MayFail
          /\ mpc' = "in_shutdown" /\ mop' = "destroy"
          /\ sd' = [sd EXCEPT ![Main] = [pc |-> "test", i |-> 0]]
          /\ UNCHANGED <<state, starts, mi>>
    /\ UNCHANGED <<shutdown, pt, wpc, msgVars, called, stops>>

\* tp_create(): tpt_data_init() of every thread.
CreateThreads ==
    /\ mpc = "init_threads"
    /\ \/ /\ IF mi + 1 \in Threads
             THEN mi' = mi + 1 /\ mpc' = mpc
             ELSE mi' = 0 /\ mpc' = "created"
          /\ UNCHANGED <<mop, sd>>
       \/ /\ MayFail
          /\ mpc' = "in_shutdown" /\ mop' = "destroy" /\ mi' = 0
          /\ sd' = [sd EXCEPT ![Main] = [pc |-> "test", i |-> 0]]
    /\ UNCHANGED <<pool, shutdown, state, pt, wpc, msgVars, called, hookVars>>

\* tp_threads_create(): refused with EBUSY after a shutdown.
ThreadsCreate ==
    /\ mpc = "created" /\ MainFree
    /\ mi' = 0
    /\ mpc' = IF shutdown # 0 THEN "up" ELSE "threads_create"
    /\ UNCHANGED <<poolVars, mop, wpc, msgVars, sd, called, hookVars>>

ThreadsCreateMark ==
    /\ mpc = "threads_create" /\ MainFree
    /\ state' = [state EXCEPT ![mi] = STARTING]
    /\ mpc' = "spawn"
    /\ UNCHANGED <<pool, shutdown, pt, mop, mi, wpc, msgVars, sd,
                   called, hookVars>>

\* pthread_create_eagain().
ThreadsCreateSpawn ==
    /\ mpc = "spawn" /\ MainFree
    /\ \/ /\ pt' = [pt EXCEPT ![mi] = "joinable"]
          /\ wpc' = [wpc EXCEPT ![mi] = "born"]
          /\ state' = state
       \/ /\ MayFail
          /\ state' = [state EXCEPT ![mi] = STOP]
          /\ UNCHANGED <<pt, wpc>>
    /\ IF mi + 1 \in Threads
       THEN mi' = mi + 1 /\ mpc' = "threads_create"
       ELSE mi' = 0 /\ mpc' = "up"
    /\ UNCHANGED <<pool, shutdown, mop, msgVars, sd, called, hookVars>>

-----------------------------------------------------------------------------
(* tp_thread_proc() and tpt_loop() of pool thread t.                       *)

WorkerFree(t) == sd[t].pc = "idle"

ThreadStart(t) ==
    /\ wpc[t] = "born"
    /\ state' = [state EXCEPT ![t] = RUNNING]
    /\ starts' = [starts EXCEPT ![t] = @ + 1]
    /\ wpc' = [wpc EXCEPT ![t] = "hook"]
    /\ UNCHANGED <<pool, shutdown, pt, mainVars, msgVars, sd, called,
                   stops>>

ThreadEnterLoop(t) ==
    /\ wpc[t] = "hook" /\ WorkerFree(t)
    /\ wpc' = [wpc EXCEPT ![t] = "loop"]
    /\ UNCHANGED <<poolVars, mainVars, msgVars, sd, called, hookVars>>

\* The test of the loop, then epoll_wait() reports the pipe.
ThreadWake(t) ==
    /\ wpc[t] = "loop" /\ WorkerFree(t)
    /\ \/ state[t] = RUNNING /\ pipe[t] # <<>>
          /\ wpc' = [wpc EXCEPT ![t] = "read"]
       \/ state[t] # RUNNING
          /\ wpc' = [wpc EXCEPT ![t] = "on_stop"]
    /\ UNCHANGED <<poolVars, mainVars, msgVars, sd, called, hookVars>>

\* tpt_msg_recv_and_process(): one read().
ThreadRead(t) ==
    /\ wpc[t] = "read"
    /\ LET n == IF Len(pipe[t]) < ReadMax THEN Len(pipe[t]) ELSE ReadMax
       IN  /\ batch' = [batch EXCEPT ![t] = SubSeq(pipe[t], 1, n)]
           /\ pipe' = [pipe EXCEPT ![t] = SubSeq(pipe[t], n + 1, Len(pipe[t]))]
           /\ wpc' = [wpc EXCEPT ![t] = CASE n = 0 -> "loop"
                                          [] n = ReadMax -> "process_full"
                                          [] OTHER -> "process"]
    /\ UNCHANGED <<poolVars, mainVars, work, early, sd, called, hookVars>>

\* One callback of the batch.  After the last one the pipe is read again when
\* that read had filled the buffer, without a look at the state of the thread.
ThreadProcess(t) ==
    /\ wpc[t] \in {"process", "process_full"} /\ WorkerFree(t)
    /\ LET m == Head(batch[t])
       IN  /\ state' = IF m = Shut THEN [state EXCEPT ![t] = STOPPING]
                                   ELSE state
           /\ work' = IF m = Shut THEN work ELSE [work EXCEPT ![m] = "done"]
    /\ batch' = [batch EXCEPT ![t] = Tail(@)]
    /\ wpc' = [wpc EXCEPT ![t] = IF Len(batch[t]) > 1 THEN @
                                 ELSE IF @ = "process_full" THEN "read"
                                 ELSE "loop"]
    /\ UNCHANGED <<pool, shutdown, pt, mainVars, pipe, early, sd, called,
                   hookVars>>

\* Mutation: the hook is left out when the pool is shutting down.
ThreadOnStop_Skips(t) ==
    /\ wpc[t] = "on_stop"
    /\ stops' = IF shutdown # 0 THEN stops ELSE [stops EXCEPT ![t] = @ + 1]
    /\ wpc' = [wpc EXCEPT ![t] = "clear"]
    /\ UNCHANGED <<poolVars, mainVars, msgVars, sd, called, starts>>

ThreadOnStop(t) ==
    /\ wpc[t] = "on_stop"
    /\ stops' = [stops EXCEPT ![t] = @ + 1]
    /\ wpc' = [wpc EXCEPT ![t] = "clear"]
    /\ UNCHANGED <<poolVars, mainVars, msgVars, sd, called, starts>>

\* "Reset state on exit."
ThreadClear(t) ==
    /\ wpc[t] = "clear"
    /\ state' = [state EXCEPT ![t] = STOP]
    /\ wpc' = [wpc EXCEPT ![t] = "last"]
    /\ UNCHANGED <<pool, shutdown, pt, mainVars, msgVars, sd, called,
                   hookVars>>

\* tpt->tp->threads_cnt --, the last access to the memory of the pool.
ThreadExit(t) ==
    /\ wpc[t] = "last"
    /\ wpc' = [wpc EXCEPT ![t] = "gone"]
    /\ UNCHANGED <<poolVars, mainVars, msgVars, sd, called, hookVars>>

-----------------------------------------------------------------------------
(* What the main thread calls while the pool is up.                        *)

CallShutdown ==
    /\ mpc = "up" /\ MainFree
    /\ \E op \in {"shutdown", "destroy"} : mop' = op
    /\ mpc' = "in_shutdown"
    /\ sd' = [sd EXCEPT ![Main] = [pc |-> "test", i |-> 0]]
    /\ UNCHANGED <<poolVars, mi, wpc, msgVars, called, hookVars>>

ReturnFromShutdown ==
    /\ mpc = "in_shutdown" /\ MainFree /\ sd[Main].pc = "idle"
    /\ mi' = 0
    /\ IF mop = "shutdown"
       THEN mpc' = "up" /\ mop' = "none"
       ELSE mpc' = "wait" /\ mop' = mop
    /\ UNCHANGED <<poolVars, wpc, msgVars, sd, called, hookVars>>

\* The application waits for threads that it, or somebody else, shuts down.
CallWait ==
    /\ mpc = "up" /\ MainFree
    /\ shutdown # 0 \/ Callers # {}
    /\ mpc' = "wait" /\ mop' = "wait" /\ mi' = 0
    /\ UNCHANGED <<poolVars, wpc, msgVars, sd, called, hookVars>>

\* Mutation: a thread that is stopping counts as stopped.
WaitOne_StoppingIsStopped ==
    /\ mpc = "wait" /\ MainFree /\ mi \in Threads
    /\ IF ~IsRunning(state[mi])
       THEN /\ pt' = [pt EXCEPT ![mi] = IF @ = "joinable" THEN "detached" ELSE @]
            /\ mi' = mi + 1 /\ mpc' = mpc
       ELSE mpc' = "join" /\ UNCHANGED <<pt, mi>>
    /\ UNCHANGED <<pool, shutdown, state, mop, wpc, msgVars, sd, called,
                   hookVars>>

\* tp_shutdown_wait(): a thread seen in state STOP is detached, any other one
\* is joined.
WaitOne ==
    /\ mpc = "wait" /\ MainFree /\ mi \in Threads
    /\ IF state[mi] = STOP
       THEN /\ pt' = [pt EXCEPT ![mi] = IF @ = "joinable" THEN "detached" ELSE @]
            /\ mi' = mi + 1 /\ mpc' = mpc
       ELSE mpc' = "join" /\ UNCHANGED <<pt, mi>>
    /\ UNCHANGED <<pool, shutdown, state, mop, wpc, msgVars, sd, called,
                   hookVars>>

\* pthread_join() returns once the thread is gone.  It does not fail for a thread
\* that is joinable and that nobody else waits for; the fallback behind the loop
\* is for a second caller of tp_shutdown_wait(), which is not modelled.
Join ==
    /\ mpc = "join" /\ MainFree /\ wpc[mi] = "gone"
    /\ pt' = [pt EXCEPT ![mi] = "none"]
    /\ mi' = mi + 1 /\ mpc' = "wait"
    /\ UNCHANGED <<pool, shutdown, state, mop, wpc, msgVars, sd, called,
                   hookVars>>

WaitReturn ==
    /\ mpc = "wait" /\ MainFree /\ mi \notin Threads
    /\ mi' = 0
    /\ IF mop = "wait" THEN mpc' = "up" /\ mop' = "none"
                       ELSE mpc' = "uninit" /\ mop' = mop
    /\ UNCHANGED <<poolVars, wpc, msgVars, sd, called, hookVars>>

\* tp_destroy(): tpt_data_uninit() of every slot closes the pipes and clears
\* the threads, then the pool is freed.
DestroyFree ==
    /\ mpc = "uninit"
    /\ pool' = "freed"
    /\ state' = [t \in Slots |-> STOP]
    /\ pipe' = [t \in Threads |-> <<>>]
    /\ mpc' = "done" /\ mop' = "none"
    /\ UNCHANGED <<shutdown, pt, mi, wpc, batch, work, early, sd, called,
                   hookVars>>

-----------------------------------------------------------------------------
ShutdownStep(a) == ShutdownTest(a) \/ ShutdownSet(a) \/ ShutdownSend(a)

WorkerStep(t) ==
    \/ ThreadStart(t) \/ ThreadEnterLoop(t) \/ ThreadWake(t)
    \/ ThreadRead(t) \/ ThreadProcess(t)
    \/ ThreadOnStop(t) \/ ThreadClear(t) \/ ThreadExit(t)

\* The steps of functions the main thread has already called.
MainStep ==
    \/ CreatePvt \/ CreateThreads
    \/ ThreadsCreateMark \/ ThreadsCreateSpawn
    \/ ReturnFromShutdown \/ WaitOne \/ Join \/ WaitReturn \/ DestroyFree

\* The calls the application is free to make.
Application ==
    \/ ThreadsCreate \/ CallShutdown \/ CallWait \/ Signal
    \/ \E t \in Threads : PoolShutdown(t)
    \/ \E src \in Threads \cup {Main}, dst \in Threads, m \in Works,
         flags \in SUBSET MsgFlags : SendWork(src, dst, m, flags)

\* The pool is gone and so are its threads.
Finished ==
    /\ mpc = "done"
    /\ \A t \in Threads : wpc[t] \in {"none", "gone"}
    /\ UNCHANGED vars

Next ==
    \/ Application \/ MainStep \/ Finished
    \/ \E a \in Actors : ShutdownStep(a)
    \/ \E t \in Threads : WorkerStep(t)

Spec == Init /\ [][Next]_vars

\* Threads are scheduled: whoever can take a step of a function it is in takes
\* it.  Nothing obliges the application to call anything.
Fairness ==
    /\ WF_vars(MainStep)
    /\ \A a \in Actors : WF_vars(ShutdownStep(a))
    /\ \A t \in Threads : WF_vars(WorkerStep(t))

FairSpec == Spec /\ Fairness

-----------------------------------------------------------------------------
(* Properties.                                                             *)

\* A thread after its on_stop hook touches the pool only to count itself out.
Left(t) == wpc[t] \in {"none", "last", "gone"}

\* Safety of tp_shutdown_wait() and tp_destroy(): when the wait has returned
\* inside tp_destroy(), and still when the pool is freed, no pool thread can
\* run a callback, a hook or its loop any more, whoever called tp_shutdown()
\* and whichever thread creations failed.
NoCallbackAfterWait ==
    mpc \in {"uninit", "done"} => \A t \in Threads : Left(t)

\* A message that tpt_msg_send() accepted before tp_shutdown() was called is
\* processed before its thread runs its on_stop hook: the shutdown request
\* travels in the same pipe and does not overtake it.
EarlyWorkProcessed ==
    \A t \in Threads :
        wpc[t] \in {"on_stop", "clear", "last", "gone"} =>
            \A m \in early : \A i \in 1 .. Len(pipe[t]) : pipe[t][i] # m

\* tpt_on_start() and tpt_on_stop() run exactly once for every thread that
\* lived, the stop after the start, whatever the order of creation, shutdown
\* and wait (tests/threadpool/main.c counts them).
ThreadHooksPaired ==
    \A t \in Threads :
        /\ stops[t] <= starts[t] /\ starts[t] <= 1
        /\ wpc[t] \in {"clear", "last", "gone"} => stops[t] = 1
        /\ wpc[t] \in {"none", "born"} => starts[t] = 0

\* Once somebody has called tp_shutdown(), every pool thread ends.
ShutdownStopsThreads ==
    shutdown # 0 ~> \A t \in Threads : wpc[t] \in {"none", "gone"}

\* tp_destroy() returns.
DestroyReturns == mop = "destroy" ~> pool = "freed"

=============================================================================
