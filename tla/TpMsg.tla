------------------------------- MODULE TpMsg -------------------------------
(***************************************************************************)
(* Broadcasts between the threads of a pool: tpt_msg_bsend_ex() with and   *)
(* without TP_BMSG_F_SYNC, tpt_msg_cbsend() in parallel and one by one,    *)
(* and the asynchronous operation tpt_msg_async_op_cb_free().              *)
(*                                                                         *)
(* One operation runs per behaviour.  The number of threads, the mode, the *)
(* flags and the caller are chosen by Init.  The caller is a pool thread   *)
(* inside a callback or a thread of no pool (Ext).  While the operation    *)
(* runs, tp_shutdown() may tell the threads of the pool to stop.           *)
(***************************************************************************)
EXTENDS TpSend, FiniteSets

CONSTANTS ThreadsMax,   \* bound of tp->threads_max
          Modes,        \* the operations to look at
          Sources,      \* the callers to look at
          MayBeDown,    \* threads whose creation may have failed
          ShutdownMax,  \* largest pool tp_shutdown() runs in concurrently (bound)
          PipeFails     \* may write() to a pipe fail?

Threads == 0 .. ThreadsMax - 1
Ext     == ThreadsMax
Actors  == 0 .. ThreadsMax
SKIP    == "SELF_SKIP"         \* TP_BMSG_F_SELF_SKIP
BFlags  == MsgFlags \cup {SKIP}
AllModes == {"bsend", "sync", "cb", "obo", "aop"}

ASSUME TpMsgAssumption ==
    /\ ThreadsMax \in Nat \ {0}
    /\ Modes \subseteq AllModes
    /\ Sources \subseteq Actors
    /\ MayBeDown \subseteq Threads
    /\ ShutdownMax \in Nat
    /\ PipeFails \in BOOLEAN

VARIABLES
    n,      \* tp->threads_max
    mode, flags, src,  \* the operation
    back,   \* fallback_flags of an asynchronous operation
    state,  \* state of every thread
    queue,  \* messages in the pipe of every thread
    batch,  \* messages a thread has read and not yet processed
    job,    \* the proxy callback every actor is in
    cpc,    \* where the caller is in the operation
    ci,     \* its loop index
    md,     \* tpt_msg_data_t (or the tpt_msg_async_op_t)
    shut,   \* loop index of the concurrent tp_shutdown()
    calls,  \* history: runs of msg_cb (or op_cb) for every thread
    dones,  \* history: runs of done_cb
    report, \* history: the counts done_cb was given
    ret     \* what the operation returned

opVars   == <<n, mode, flags, src, back>>
histVars == <<calls, dones, report>>
vars == <<n, mode, flags, src, back, state, queue, batch, job, cpc, ci, md, shut,
          calls, dones, report, ret>>

\* "cb": the callback of the application; "sync", "obo", "done", "aop": the
\* proxies, whose argument is md; "shut": tpt_msg_shutdown_cb.
Kinds == {"cb", "sync", "obo", "done", "aop", "shut"}

\* A proxy k runs for thread t and is at pc.
None == [k |-> "none", t |-> 0, pc |-> "run"]
Job(k, t) == [k |-> k, t |-> t, pc |-> "run"]
Jobs == [k : Kinds \cup {"none"}, t : Threads,
         pc : {"run", "dec", "last", "next", "self", "fin"}]

TypeOK ==
    /\ n \in 1 .. ThreadsMax
    /\ mode \in Modes /\ flags \subseteq BFlags /\ back \subseteq BFlags
    /\ src \in Sources
    /\ state \in [Threads -> ThreadStates]
    /\ queue \in [Threads -> Seq(Kinds)] /\ batch \in [Threads -> Seq(Kinds)]
    /\ job \in [Actors -> Jobs]
    /\ cpc \in {"start", "next", "loop", "end", "spin", "again", "ret"}
    /\ ci \in 0 .. ThreadsMax
    /\ md \in [mem : {"none", "stack", "heap", "gone"},
               active : 0 .. ThreadsMax, idx : 0 .. ThreadsMax + 1,
               send : 0 .. ThreadsMax + 1, err : 0 .. ThreadsMax + 1,
               tpt : Actors, done : BOOLEAN]
    /\ shut \in 0 .. ThreadsMax
    /\ calls \in [Threads -> Nat] /\ dones \in Nat
    /\ report \in [send : Nat, err : Nat]
    /\ ret \in {"none", "0", "EINVAL", "ESPIPE", "EHOSTDOWN", "EAGAIN"}

Init ==
    /\ n \in 1 .. ThreadsMax
    /\ mode \in Modes /\ src \in {a \in Sources : a < n \/ a = Ext}
    /\ flags \in SUBSET BFlags
    /\ back \in IF mode = "aop" THEN SUBSET MsgFlags ELSE {{}}
    /\ mode = "aop" => SKIP \notin flags
    /\ \E down \in SUBSET (MayBeDown \ {src}) :
          state = [t \in Threads |-> IF t >= n \/ t \in down THEN STOP ELSE RUNNING]
    /\ queue = [t \in Threads |-> <<>>] /\ batch = [t \in Threads |-> <<>>]
    /\ job = [a \in Actors |-> None]
    /\ cpc = "start" /\ ci = 0
    /\ md = [mem |-> "none", active |-> 0, idx |-> 0, send |-> 0, err |-> 0,
             tpt |-> src, done |-> FALSE]
    /\ shut = 0
    /\ calls = [t \in Threads |-> 0] /\ dones = 0
    /\ report = [send |-> 0, err |-> 0]
    /\ ret = "none"

-----------------------------------------------------------------------------
(* Sending.                                                                *)

Fulls == IF PipeFails THEN BOOLEAN ELSE {FALSE}

\* tpt_msg_send(dst, s, fl) by actor a of a message of kind k: where the
\* message goes.  A direct call becomes the job of the caller.
Outcome(dst, s, fl, full) ==
    SendOutcome(s = dst, IsRunning(state[dst]), full, fl \cap MsgFlags)
Sent(out) == out \in {"direct", "queued"}
Deliver(out, a, dst, k) ==
    /\ queue' = IF out = "queued"
                THEN [queue EXCEPT ![dst] = Append(@, k)] ELSE queue
    /\ job' = IF out = "direct"
              THEN [job EXCEPT ![a] = Job(k, dst)]
              ELSE [job EXCEPT ![a] = None]

\* Mutation: send_msg_cnt is not taken back.
Count_NoRollback(m, out) ==
    IF Sent(out) THEN [m EXCEPT !.send = @ + 1]
                 ELSE [m EXCEPT !.send = @ + 1, !.err = @ + 1]

\* The counters of one attempt: send_msg_cnt ++, taken back on an error.
Count(m, out) == IF Sent(out) THEN [m EXCEPT !.send = @ + 1]
                              ELSE [m EXCEPT !.err = @ + 1]

\* TP_MSG_F_SELF_DIRECT without TP_BMSG_F_SELF_SKIP.
SelfDirect == SELF_DIRECT \in flags /\ SKIP \notin flags

\* tpt_msg_send(md.tpt, s, FAIL_DIRECT | SELF_DIRECT, tpt_msg_cb_done_proxy_cb)
\* as the last thing actor a does in its job.  Its error is not looked at.
SendDone(a, s, full) ==
    LET out == Outcome(md.tpt, s, {FAIL_DIRECT, SELF_DIRECT}, full)
    IN  Deliver(out, a, md.tpt, "done")

-----------------------------------------------------------------------------
(* The caller.                                                             *)

CallerFree == job[src] = None

\* tpt_msg_bsend_ex() in a pool with a single thread, by a thread with context.
BsendSingle ==
    /\ cpc = "start" /\ mode \in {"bsend", "sync"}
    /\ n = 1 /\ src # Ext
    /\ cpc' = "ret"
    /\ \/ /\ SKIP \in flags                          \* Nothing to do.
          /\ ret' = "0"
          /\ UNCHANGED <<queue, job, md, calls>>
       \/ /\ SKIP \notin flags /\ mode = "bsend"
          /\ \E full \in Fulls :
                LET out == Outcome(0, src, flags, full)
                IN  /\ Deliver(out, src, 0, "cb")
                    /\ md' = IF Sent(out) THEN [md EXCEPT !.send = 1] ELSE md
                    /\ ret' = IF Sent(out) THEN "0" ELSE out
          /\ calls' = calls
       \/ /\ SKIP \notin flags /\ mode = "sync"        \* Cant async call from self.
          /\ calls' = [calls EXCEPT ![src] = @ + 1]
          /\ ret' = "0"
          /\ UNCHANGED <<queue, job, md>>
    /\ UNCHANGED <<opVars, state, batch, ci, shut, dones, report>>

\* tpt_msg_cbsend() in a pool with a single thread: both callbacks run at once.
CbsendSingle ==
    /\ cpc = "start" /\ mode \in {"cb", "obo"}
    /\ n = 1 /\ src # Ext
    /\ cpc' = "ret" /\ ret' = "0"
    /\ dones' = dones + 1
    /\ IF SKIP \in flags
       THEN UNCHANGED <<calls, report>>               \* done_cb(src, 0, 0, udata)
       ELSE /\ calls' = [calls EXCEPT ![src] = @ + 1]
            /\ report' = [send |-> 1, err |-> 0]
    /\ UNCHANGED <<opVars, state, queue, batch, job, ci, md, shut>>

\* tpt_msg_cbsend() by a thread of no pool: "Cant do final callback".
CbsendRefused ==
    /\ cpc = "start" /\ mode \in {"cb", "obo"} /\ src = Ext
    /\ cpc' = "ret" /\ ret' = "EINVAL"
    /\ UNCHANGED <<opVars, state, queue, batch, job, ci, md, shut, histVars>>

\* Mutation: a skipped caller is not taken off the count.
InitActive_NoSkip == n

\* active_thr_count when the send loop starts.
InitActive == IF src # Ext /\ SKIP \in flags THEN n - 1 ELSE n

\* tpt_msg_bsend_ex(): the counts, and for TP_BMSG_F_SYNC the message data, are
\* local variables.
BsendStart ==
    /\ cpc = "start" /\ mode \in {"bsend", "sync"}
    /\ n > 1 \/ src = Ext
    /\ cpc' = "loop"
    /\ md' = [md EXCEPT !.mem = "stack", !.active = InitActive]
    /\ UNCHANGED <<opVars, state, queue, batch, job, ci, shut, histVars, ret>>

\* tpt_msg_cbsend(): the message data is allocated.  One by one, the caller
\* that asked for it is served here, ahead of the others.
CbsendStart ==
    /\ cpc = "start" /\ mode \in {"cb", "obo"}
    /\ n > 1 /\ src # Ext
    /\ cpc' = IF mode = "obo" THEN "next" ELSE "loop"
    /\ md' = [md EXCEPT !.mem = "heap", !.done = TRUE,
                        !.active = IF mode = "obo" THEN n ELSE InitActive,
                        !.send = IF mode = "obo" /\ SelfDirect THEN 1 ELSE 0]
    /\ calls' = IF mode = "obo" /\ SelfDirect
                THEN [calls EXCEPT ![src] = @ + 1] ELSE calls
    /\ UNCHANGED <<opVars, state, queue, batch, job, ci, shut, dones, report, ret>>

\* tpt_msg_broadcast_send__int(): one turn of the loop.
BroadcastSend ==
    /\ cpc = "loop" /\ CallerFree
    /\ IF ci = n
       THEN cpc' = "end" /\ UNCHANGED <<ci, md, queue, job>>
       ELSE /\ ci' = ci + 1 /\ cpc' = cpc
            /\ IF ci = src /\ SKIP \in flags
               THEN UNCHANGED <<md, queue, job>>
               ELSE \E full \in Fulls :
                      LET out == Outcome(ci, src, flags, full)
                      IN  /\ md' = Count(md, out)
                          /\ Deliver(out, src, ci,
                                     IF mode = "bsend" THEN "cb" ELSE "sync")
    /\ UNCHANGED <<opVars, state, batch, shut, histVars, ret>>

\* tpt_msg_bsend_ex() without TP_BMSG_F_SYNC, after the loop.
BsendEnd ==
    /\ cpc = "end" /\ mode = "bsend"
    /\ ret' = IF md.send = 0 THEN "ESPIPE" ELSE "0"
    /\ cpc' = "ret" /\ md' = [md EXCEPT !.mem = "gone"]
    /\ UNCHANGED <<opVars, state, queue, batch, job, ci, shut, histVars>>

\* Mutation: the failed sends are not counted off.
SyncEnd_KeepsFailed ==
    /\ cpc = "end" /\ mode = "sync"
    /\ cpc' = "spin"
    /\ UNCHANGED <<opVars, state, queue, batch, job, ci, md, shut, histVars, ret>>

\* With TP_BMSG_F_SYNC the failed sends are counted off and the wait begins.
SyncEnd ==
    /\ cpc = "end" /\ mode = "sync"
    /\ md' = [md EXCEPT !.active = @ - md.err]
    /\ cpc' = "spin"
    /\ UNCHANGED <<opVars, state, queue, batch, job, ci, shut, histVars, ret>>

\* tpt_msg_cbsend() after the loop: without errors the message data belongs to
\* the workers.  With errors the caller may be the last one.
CbsendEnd ==
    /\ cpc = "end" /\ mode = "cb"
    /\ cpc' = "ret"
    /\ ret' = IF md.err > 0 /\ md.send = 0 THEN "ESPIPE" ELSE "0"
    /\ IF md.err = 0
       THEN UNCHANGED <<md, queue, job>>
       ELSE /\ md' = [md EXCEPT !.active = @ - md.err]
            /\ IF md.active = md.err
               THEN \E full \in Fulls : SendDone(src, src, full)
               ELSE UNCHANGED <<queue, job>>
    /\ UNCHANGED <<opVars, state, batch, ci, shut, histVars>>

\* TP_BMSG_F_SYNC: the count is polled; the message data is on this stack.
Spin ==
    /\ cpc = "spin" /\ CallerFree
    /\ md.active = 0
    /\ md' = [md EXCEPT !.mem = "gone"]
    /\ ret' = IF md.send = 0 THEN "ESPIPE" ELSE "0"
    /\ cpc' = "ret"
    /\ UNCHANGED <<opVars, state, queue, batch, job, ci, shut, histVars>>

\* The one by one loop passes over the thread of the caller.
IsCaller(i) == i = md.tpt

\* tpt_msg_one_by_one_send_next__int() of the caller: one attempt, or its end.
CallerNext ==
    /\ cpc = "next"
    /\ IF md.idx < n
       THEN IF IsCaller(md.idx)
            THEN md' = [md EXCEPT !.idx = @ + 1]
                 /\ UNCHANGED <<cpc, ret, queue, job, dones, report>>
            ELSE \E full \in Fulls :
                   LET out == Outcome(md.idx, src, flags, full)
                   IN  /\ Deliver(out, src, md.idx, "obo")
                       /\ IF Sent(out)
                          THEN /\ md' = Count(md, out)
                               /\ cpc' = "ret" /\ ret' = "0"
                          ELSE /\ md' = [Count(md, out) EXCEPT !.idx = @ + 1]
                               /\ UNCHANGED <<cpc, ret>>
                       /\ UNCHANGED <<dones, report>>
       ELSE /\ cpc' = "ret"
            /\ IF SelfDirect
               THEN /\ dones' = dones + 1
                    /\ report' = [send |-> md.send, err |-> md.err]
                    /\ ret' = "0"
               ELSE ret' = "ESPIPE" /\ UNCHANGED <<dones, report>>
            /\ UNCHANGED <<md, queue, job>>
    /\ UNCHANGED <<opVars, state, batch, ci, shut, calls>>

\* A failed first attempt is repeated when other flags are given for it.
AsyncOpRetry(out) == ~Sent(out) /\ back # {} /\ back # flags

\* tpt_msg_async_op_alloc() and the first attempt of tpt_msg_async_op_cb_free().
AsyncOp ==
    /\ cpc = "start" /\ mode = "aop"
    /\ \E dst \in 0 .. n - 1, full \in Fulls :
          LET out == Outcome(dst, src, flags, full)
          IN  /\ md' = [md EXCEPT !.mem = "heap", !.tpt = dst]
              /\ Deliver(out, src, dst, "aop")
              /\ IF AsyncOpRetry(out)
                 THEN cpc' = "again" /\ ret' = ret
                 ELSE cpc' = "ret" /\ ret' = IF Sent(out) THEN "0" ELSE out
    /\ UNCHANGED <<opVars, state, batch, ci, shut, histVars>>

\* The second attempt, with fallback_flags.
AsyncOpAgain ==
    /\ cpc = "again" /\ CallerFree
    /\ \E full \in Fulls :
          LET out == Outcome(md.tpt, src, back, full)
          IN  /\ Deliver(out, src, md.tpt, "aop")
              /\ ret' = IF Sent(out) THEN "0" ELSE out
    /\ cpc' = "ret"
    /\ UNCHANGED <<opVars, state, batch, ci, md, shut, histVars>>

-----------------------------------------------------------------------------
(* Callbacks, on the stack of actor a.                                     *)

\* The callback of the application, called for thread job[a].t.
Calls1(a) == calls' = [calls EXCEPT ![job[a].t] = @ + 1]

\* A message whose callback is the application's own.
RunCallback(a) ==
    /\ job[a].k = "cb"
    /\ Calls1(a)
    /\ job' = [job EXCEPT ![a] = None]
    /\ UNCHANGED <<opVars, state, queue, batch, cpc, ci, md, shut, dones, report, ret>>

\* tpt_msg_sync_proxy_cb(): msg_cb, before the count is taken down.
SyncProxy(a) ==
    /\ job[a].k = "sync" /\ job[a].pc = "run"
    /\ Calls1(a)
    /\ job' = [job EXCEPT ![a].pc = "dec"]
    /\ UNCHANGED <<opVars, state, queue, batch, cpc, ci, md, shut, dones, report, ret>>

\* tpt_msg_one_by_one_proxy_cb(): msg_cb and cur_thr_idx ++.
OneByOneProxy(a) ==
    /\ job[a].k = "obo" /\ job[a].pc = "run"
    /\ Calls1(a)
    /\ md' = [md EXCEPT !.idx = @ + 1]
    /\ job' = [job EXCEPT ![a].pc = "next"]
    /\ UNCHANGED <<opVars, state, queue, batch, cpc, ci, shut, dones, report, ret>>

\* tpt_msg_async_op_cb_free_cb(): op_cb, then the operation is freed.
AsyncOpCallback(a) ==
    /\ job[a].k = "aop"
    /\ Calls1(a)
    /\ md' = [md EXCEPT !.mem = "gone"]
    /\ job' = [job EXCEPT ![a] = None]
    /\ UNCHANGED <<opVars, state, queue, batch, cpc, ci, shut, dones, report, ret>>

\* tpt_msg_active_thr_count_dec() of a worker, under the lock.
SyncDec(a) ==
    /\ job[a].k = "sync" /\ job[a].pc = "dec"
    /\ md' = [md EXCEPT !.active = @ - 1]
    /\ job' = [job EXCEPT ![a] = IF md.active = 1 THEN [@ EXCEPT !.pc = "last"]
                                                  ELSE None]
    /\ UNCHANGED <<opVars, state, queue, batch, cpc, ci, shut, histVars, ret>>

\* ... and after the unlock: "This was last thread", done_cb is read.
SyncLast(a) ==
    /\ job[a].k = "sync" /\ job[a].pc = "last"
    /\ IF md.done
       THEN \E full \in Fulls : SendDone(a, job[a].t, full)
       ELSE job' = [job EXCEPT ![a] = None] /\ queue' = queue
    /\ UNCHANGED <<opVars, state, batch, cpc, ci, md, shut, histVars, ret>>

\* tpt_msg_one_by_one_proxy_cb(): tpt_msg_one_by_one_send_next__int(), one
\* attempt.
OneByOneNext(a) ==
    /\ job[a].k = "obo" /\ job[a].pc = "next"
    /\ IF md.idx >= n
       THEN /\ job' = [job EXCEPT ![a].pc = "self"]
            /\ UNCHANGED <<md, queue>>
       ELSE IF IsCaller(md.idx)
       THEN md' = [md EXCEPT !.idx = @ + 1] /\ UNCHANGED <<job, queue>>
       ELSE \E full \in Fulls :
              LET out == Outcome(md.idx, job[a].t, flags, full)
              IN  IF Sent(out)
                  THEN md' = Count(md, out) /\ Deliver(out, a, md.idx, "obo")
                  ELSE /\ md' = [Count(md, out) EXCEPT !.idx = @ + 1]
                       /\ UNCHANGED <<job, queue>>
    /\ UNCHANGED <<opVars, state, batch, cpc, ci, shut, histVars, ret>>

\* Mutation: the return after the successful send is missing.
OneByOneSelf_FallsThrough(a) ==
    /\ job[a].k = "obo" /\ job[a].pc = "self"
    /\ job' = [job EXCEPT ![a].pc = "fin"]
    /\ IF {SKIP, SELF_DIRECT} \cap flags = {} /\ md.tpt # job[a].t
       THEN /\ md' = [md EXCEPT !.send = @ + 1, !.idx = n]
            /\ queue' = [queue EXCEPT ![md.tpt] = Append(@, "obo")]
       ELSE UNCHANGED <<md, queue>>
    /\ UNCHANGED <<opVars, state, batch, cpc, ci, shut, histVars, ret>>

\* "Try shedule caller thread", unless it is done or is to be left out.
OneByOneSelf(a) ==
    /\ job[a].k = "obo" /\ job[a].pc = "self"
    /\ IF {SKIP, SELF_DIRECT} \cap flags = {} /\ md.tpt # job[a].t
       THEN \E full \in Fulls :
              LET out == Outcome(md.tpt, job[a].t, flags, full)
              IN  /\ md' = [Count(md, out) EXCEPT !.idx = n]
                  /\ IF Sent(out)
                     THEN Deliver(out, a, md.tpt, "obo")
                     ELSE job' = [job EXCEPT ![a].pc = "fin"] /\ queue' = queue
       ELSE /\ job' = [job EXCEPT ![a].pc = "fin"]
            /\ UNCHANGED <<md, queue>>
    /\ UNCHANGED <<opVars, state, batch, cpc, ci, shut, histVars, ret>>

OneByOneFin(a) ==
    /\ job[a].k = "obo" /\ job[a].pc = "fin"
    /\ \E full \in Fulls : SendDone(a, job[a].t, full)
    /\ UNCHANGED <<opVars, state, batch, cpc, ci, md, shut, histVars, ret>>

\* tpt_msg_cb_done_proxy_cb().
DoneProxy(a) ==
    /\ job[a].k = "done"
    /\ dones' = dones + 1
    /\ report' = [send |-> md.send, err |-> md.err]
    /\ md' = [md EXCEPT !.mem = "gone"]
    /\ job' = [job EXCEPT ![a] = None]
    /\ UNCHANGED <<opVars, state, queue, batch, cpc, ci, shut, calls, ret>>

-----------------------------------------------------------------------------
(* The loop of thread t.                                                    *)

\* A pool thread that makes the call is in a callback until the call returns.
LoopFree(t) == job[t] = None /\ (t = src => cpc = "ret")

Read(t) ==
    /\ LoopFree(t) /\ state[t] = RUNNING
    /\ batch[t] = <<>> /\ queue[t] # <<>>
    /\ batch' = [batch EXCEPT ![t] = queue[t]]
    /\ queue' = [queue EXCEPT ![t] = <<>>]
    /\ UNCHANGED <<opVars, state, job, cpc, ci, md, shut, histVars, ret>>

Process(t) ==
    /\ LoopFree(t) /\ batch[t] # <<>>
    /\ batch' = [batch EXCEPT ![t] = Tail(@)]
    /\ IF Head(batch[t]) = "shut"
       THEN state' = [state EXCEPT ![t] = STOPPING] /\ job' = job
       ELSE job' = [job EXCEPT ![t] = Job(Head(batch[t]), t)] /\ state' = state
    /\ UNCHANGED <<opVars, queue, cpc, ci, md, shut, histVars, ret>>

\* The thread leaves its loop; what is still in its pipe is never read.
Stop(t) ==
    /\ LoopFree(t) /\ state[t] = STOPPING /\ batch[t] = <<>>
    /\ state' = [state EXCEPT ![t] = STOP]
    /\ UNCHANGED <<opVars, queue, batch, job, cpc, ci, md, shut, histVars, ret>>

\* tp_shutdown() of this pool, one thread per step.
Shutdown ==
    /\ n <= ShutdownMax /\ shut < n
    /\ shut' = shut + 1
    /\ queue' = IF IsRunning(state[shut])
                THEN [queue EXCEPT ![shut] = Append(@, "shut")] ELSE queue
    /\ UNCHANGED <<opVars, state, batch, job, cpc, ci, md, histVars, ret>>

-----------------------------------------------------------------------------
Caller == \/ BsendSingle \/ CbsendSingle \/ CbsendRefused
          \/ BsendStart \/ CbsendStart \/ BroadcastSend
          \/ BsendEnd \/ SyncEnd \/ Spin \/ CbsendEnd
          \/ CallerNext \/ AsyncOp \/ AsyncOpAgain

Callback(a) == \/ RunCallback(a) \/ AsyncOpCallback(a)
               \/ SyncProxy(a) \/ SyncDec(a) \/ SyncLast(a)
               \/ OneByOneProxy(a) \/ OneByOneNext(a) \/ OneByOneSelf(a)
               \/ OneByOneFin(a) \/ DoneProxy(a)

Loop(t) == Read(t) \/ Process(t) \/ Stop(t)

\* The call has returned and nothing is left to process.
Quiet == /\ cpc = "ret"
         /\ \A a \in Actors : job[a] = None
         /\ \A t \in Threads : state[t] # STOP => queue[t] = <<>> /\ batch[t] = <<>>

Finished == Quiet /\ UNCHANGED vars

Next == \/ Caller \/ Shutdown \/ Finished
        \/ \E a \in Actors : Callback(a)
        \/ \E t \in Threads : Loop(t)

Spec == Init /\ [][Next]_vars

\* Every thread of the pool, and the caller, is scheduled.
FairSpec == /\ Spec
            /\ WF_vars(Caller)
            /\ \A a \in Actors : WF_vars(Callback(a))
            /\ \A t \in Threads : WF_vars(Loop(t))

-----------------------------------------------------------------------------
(* Properties.                                                             *)

\* The messages and direct calls that will still touch the message data.
Refers == \/ \E a \in Actors : job[a].k \in {"sync", "obo", "done", "aop"}
          \/ \E t \in Threads : \E k \in {"sync", "obo", "done", "aop"} :
                \/ \E i \in 1 .. Len(queue[t]) : queue[t][i] = k
                \/ \E i \in 1 .. Len(batch[t]) : batch[t][i] = k

\* How many threads the operation is for, and how many ran the callback.
Targets == n - (IF SKIP \in flags THEN 1 ELSE 0)
Calls == Cardinality({t \in Threads : calls[t] > 0})

\* tpt_msg_async_op_cb_free(): 0 means op_cb runs once and the operation is
\* freed, an error leaves it to the caller and op_cb never runs.
AsyncOpOwnership ==
    mode = "aop" /\ cpc = "ret" =>
        /\ ret # "0" => md.mem = "heap" /\ Calls = 0 /\ ~Refers
        /\ ret = "0" => (md.mem = "gone" <=> Calls = 1)

\* The message data of tpt_msg_cbsend() and of an asynchronous operation is
\* freed only when no message, proxy or loop of the caller still refers to it
\* ("if err_cnt = 0 then msg_data may not exist!"): all the loop may still do
\* then is skip the caller.  An operation has one owner at a time.
DataOutlivesUse ==
    /\ md.mem = "gone" /\ mode \in {"cb", "obo", "aop"} =>
          /\ ~Refers
          /\ cpc \in {"loop", "end"} =>
                /\ md.err = 0
                /\ \A i \in ci .. n - 1 : i = src /\ SKIP \in flags
    /\ AsyncOpOwnership

\* The message data of a synchronous broadcast is on the stack of the caller:
\* when the call returns no thread may still use it.
SyncDataOutlivesUse == mode = "sync" /\ md.mem = "gone" => ~Refers

\* TP_BMSG_F_SYNC, "Wait before all thread process message before return": at
\* the return every message that was sent has been processed.
SyncReturn == mode = "sync" /\ (n > 1 \/ src = Ext) /\ cpc = "ret" => Calls = md.send

\* No thread runs the callback twice and done_cb runs once; when it runs, every
\* thread a message was sent to has run the callback, and the two counts it is
\* given add up to the threads of the pool without the skipped caller.  A
\* synchronous broadcast returns with the same assurance.
DoneReport ==
    /\ TypeOK /\ SyncReturn
    /\ dones <= 1 /\ \A t \in Threads : calls[t] <= 1
    /\ dones = 1 => /\ report.send = Calls
                    /\ report.send + report.err = Targets

\* "Do not forget for "unlock" and free + done cb": when all is quiet, without a
\* shutdown, the message data of a broadcast with done_cb has been freed,
\* whichever sends failed; one by one, if another thread than the caller was
\* reached.
NoLeak ==
    Quiet /\ shut = 0 /\ (mode = "cb" \/ (mode = "obo" /\ \E t \in Threads \ {src} : calls[t] > 0))
        => md.mem # "heap"

\* Accepted broadcasts come to their done_cb, unless the pool is shut down.
DoneEventually ==
    mode \in {"cb", "obo"} /\ cpc = "ret" /\ ret = "0" ~> dones = 1 \/ shut > 0

\* A synchronous broadcast returns, unless the pool is shut down or a pool thread
\* waits for a message in its own pipe ("WARNING! This deadlock, frizes
\* possible.").
SyncReturns ==
    mode = "sync" /\ (src = Ext \/ n = 1 \/ {SKIP, SELF_DIRECT} \cap flags # {})
        ~> cpc = "ret" \/ shut > 0

=============================================================================
