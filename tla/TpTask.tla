------------------------------ MODULE TpTask -------------------------------
(***************************************************************************)
(* An I/O task (threadpool_task.c): one descriptor registration, tp_data,  *)
(* and one timer registration, tp_timer, that share a handler, a buffer    *)
(* and a callback.  A registration is used as TpEvent shows it to behave:  *)
(* on, off or none, taken off by its one time flags with its first report, *)
(* and handled by one thread, which takes one event at a time.             *)
(***************************************************************************)
EXTENDS EventFlags, Naturals

CONSTANT BufSize   \* transfer size of the buffer, 0 = no buffer

ASSUME TpTaskAssumption == BufSize \in Nat

Handlers == {"sr", "notify", "pkt", "accept", "connect"}

\* Flag sets given to tp_task_start(): tp_task_create_connect() has its own.
EventFlags(h) == IF h = "connect" THEN {{ONESHOT}} ELSE FlagSets

VARIABLES
    mem,      \* "none", "live" or "freed"
    hnd,      \* tp_data.cb_func
    every,    \* TP_TASK_F_CB_AFTER_EVERY_READ
    evfl,     \* event_flags
    timeout,  \* timeout # 0
    data,     \* registration of the descriptor: state and flags
    tmr,      \* registration of the timer, always TP_F_DISPATCH
    ready,    \* the descriptor has something to report
    pc,       \* "loop", "xfer" (in the handler) or "cb"
    cb,       \* what the handler was called for, and what it reports
    left,     \* IO_BUF_TR_SIZE_GET(buf)
    tot,      \* tot_transfered_size
    got,      \* transfered_size of the running handler
    moved, told,  \* units transferred and reported since tp_task_start()
    asked,    \* what the owner may expect: see Asked
    timed,    \* a timeout runs with the present wait
    odd       \* history: see Odd

tvars == <<mem, hnd, every>>
prms  == <<evfl, timeout>>
regs  == <<data, tmr>>
bufs  == <<left, tot, got, moved, told>>
asks  == <<asked, timed>>
vars  == <<mem, hnd, every, evfl, timeout, data, tmr, ready, pc, cb, left, tot,
           got, moved, told, asked, timed, odd>>

\* "new": not started; "stop": stopped; "fail": a start or enable returned an error;
\* "wait": started; "off": disabled; "held": its callback has begun.
Asked == {"new", "stop", "fail", "wait", "off", "held"}

\* What voids the guarantees of a task: "flags", it was started with flags the
\* library's own functions never pass; "zeroed", the timeout of a task with a
\* timer became 0; "failed", a call failed half way: the timer or the descriptor
\* was refused while the other one was armed.
Odd == {"flags", "zeroed", "failed"}

NoCb == [ev |-> "IO", err |-> FALSE, direct |-> FALSE]

TypeOK ==
    /\ mem \in {"none", "live", "freed"} /\ hnd \in Handlers /\ every \in BOOLEAN
    /\ evfl \in FlagSets /\ timeout \in BOOLEAN
    /\ data \in [st : {"none", "on", "off"}, fl : FlagSets]
    /\ tmr \in {"none", "on", "off"}
    /\ ready \in BOOLEAN
    /\ pc \in {"loop", "xfer", "cb"}
    /\ cb \in [ev : {"IO", "TIMER"}, err : BOOLEAN, direct : BOOLEAN]
    /\ left \in 0 .. BufSize /\ tot \in 0 .. BufSize /\ got \in 0 .. BufSize
    /\ moved \in 0 .. BufSize /\ told \in 0 .. BufSize
    /\ asked \in Asked /\ timed \in BOOLEAN /\ odd \subseteq Odd

None == [st |-> "none", fl |-> {}]

Init ==
    /\ mem = "none" /\ hnd \in Handlers /\ every \in BOOLEAN
    /\ evfl = {} /\ timeout = FALSE
    /\ data = None /\ tmr = "none" /\ ready = FALSE
    /\ pc = "loop" /\ cb = NoCb
    /\ left = 0 /\ tot = 0 /\ got = 0 /\ moved = 0 /\ told = 0
    /\ asked = "new" /\ timed = FALSE /\ odd = {}

-----------------------------------------------------------------------------
(* Registrations.                                                          *)

\* Mutation: the descriptor stays registered.
StopRegs_Data == data' = data /\ tmr' = IF timeout THEN "none" ELSE tmr

\* tp_task_stop(): the timer is deleted when the task has a timeout now.
StopRegs == data' = None /\ tmr' = IF timeout THEN "none" ELSE tmr

UsualFlags == CASE hnd = "connect" -> {{ONESHOT}}
                [] hnd = "notify" -> {{}, {ONESHOT}}
                [] OTHER -> {{}}

\* History of a call with flags fl and timeout t.
Strange(t, fl) ==
    odd \cup (IF fl \notin UsualFlags THEN {"flags"} ELSE {})
        \cup (IF ~t /\ tmr # "none" THEN {"zeroed"} ELSE {})

\* The timer, then the descriptor are added or enabled.  A failure of the first
\* ends the call.  After a failure of the second the code deletes or disables
\* the timer of tp_data, which has none: tp_timer is left as it is.
Register(t, fl) ==
    \/ /\ t
       /\ tmr' = "none" /\ data' = data
       /\ asked' = "fail" /\ timed' = FALSE
       /\ odd' = Strange(t, fl) \cup (IF data.st = "on" THEN {"failed"} ELSE {})
    \/ /\ tmr' = IF t THEN "on" ELSE tmr
       /\ data' = None
       /\ asked' = "fail" /\ timed' = FALSE
       /\ odd' = Strange(t, fl) \cup (IF t THEN {"failed"} ELSE {})
    \/ /\ tmr' = IF t THEN "on" ELSE tmr
       /\ data' = [st |-> "on", fl |-> fl]
       /\ asked' = "wait" /\ timed' = t /\ odd' = Strange(t, fl)

-----------------------------------------------------------------------------
(* The owner, in the callback or on the thread of the task.                *)

MayCall == mem = "live" /\ (pc = "loop" \/ pc = "cb")

Create == /\ mem = "none"
          /\ mem' = "live"
          /\ UNCHANGED <<hnd, every, prms, regs, ready, pc, cb, bufs, asks, odd>>

\* What tp_task_start_ex() sets before anything else.
StartSets(fl, t, size) ==
    /\ evfl' = fl /\ timeout' = t
    /\ left' = size
    /\ tot' = 0 /\ got' = 0 /\ moved' = 0 /\ told' = 0

\* A task that waits, or that failed to start, is stopped before it is started.
MayStart == MayCall /\ asked \notin {"wait", "fail"}

\* tp_task_start(): scheduled I/O.
Start == \E fl \in EventFlags(hnd), t \in BOOLEAN, size \in {0, BufSize} :
            /\ MayStart
            /\ StartSets(fl, t, size)
            /\ Register(t, fl)
            /\ UNCHANGED <<tvars, ready, pc, cb>>

\* tp_task_start_ex(0, ...): the handler transfers first, in the caller.
StartDirect ==
    \E fl \in EventFlags(hnd), t \in BOOLEAN :
        /\ MayStart /\ pc = "loop"
        /\ hnd = "sr" /\ BufSize > 0
        /\ StartSets(fl, t, BufSize)
        /\ pc' = "xfer" /\ cb' = [NoCb EXCEPT !.direct = TRUE]
        /\ asked' = "wait" /\ timed' = FALSE /\ odd' = Strange(t, fl)
        /\ UNCHANGED <<tvars, regs, ready>>

\* tp_task_restart() with the values of the last start.
Restart == /\ MayCall /\ asked \in {"stop", "held"}
           /\ Register(timeout, evfl)
           /\ UNCHANGED <<tvars, prms, ready, pc, cb, bufs>>

Stop == /\ MayCall
        /\ StopRegs
        /\ asked' = (IF asked = "new" THEN asked ELSE "stop") /\ timed' = FALSE
        /\ UNCHANGED <<tvars, prms, ready, pc, cb, bufs, odd>>

\* tp_task_enable(1): tpt_ev_enable_args1() has no flags to give.
Enable1 == /\ MayCall /\ asked \in {"off", "held"} /\ ONESHOT \notin evfl
           /\ Register(timeout, {})
           /\ UNCHANGED <<tvars, prms, ready, pc, cb, bufs>>

\* tp_task_enable(0) of a started task.
Enable0 == /\ MayCall /\ asked \in {"wait", "held"} /\ data.st # "none"
           /\ tmr' = IF timeout /\ tmr # "none" THEN "off" ELSE tmr
           /\ data' = [st |-> "off", fl |-> {}]
           /\ asked' = "off" /\ timed' = FALSE
           /\ UNCHANGED <<tvars, prms, ready, pc, cb, bufs, odd>>

\* tp_task_timeout_set(0).
TimeoutSet0 == /\ MayCall
               /\ timeout /\ timeout' = FALSE /\ odd' = Strange(FALSE, evfl)
               /\ UNCHANGED <<tvars, evfl, regs, ready, pc, cb, bufs, asks>>

\* tp_task_destroy(), with the close of the descriptor.
Destroy == /\ MayCall
           /\ StopRegs
           /\ mem' = "freed" /\ ready' = FALSE
           /\ asked' = "stop" /\ timed' = FALSE
           /\ UNCHANGED <<hnd, every, prms, pc, cb, bufs, odd>>

-----------------------------------------------------------------------------
(* The loop calls the handler.                                             *)

\* A descriptor or timer event with flags fl is taken off.
Taken(fl) == [st |-> After("on", fl), fl |-> IF ONESHOT \in fl THEN {} ELSE fl]

\* tp_task_handler_pre_int() of an I/O event: the timer is deleted or disabled.
TimerPre == tmr' = IF ~timeout THEN tmr
                   ELSE IF ONESHOT \in evfl THEN "none"
                   ELSE IF tmr = "none" THEN tmr ELSE "off"

\* A callback begins: what the handler has counted is reported.
CallBack(ev, err, direct) ==
    /\ pc' = "cb" /\ cb' = [ev |-> ev, err |-> err, direct |-> direct]
    /\ asked' = "held" /\ timed' = FALSE
    /\ UNCHANGED <<left, moved>>

\* call_cb: the transfer of this event and of earlier ones is reported once.
Report(n) == told' = told + n + tot /\ tot' = 0 /\ got' = 0

\* The descriptor is reported.
IoEvent ==
    /\ pc = "loop" /\ data.st = "on" /\ ready
    /\ IF hnd = "connect"
       THEN /\ data' = None /\ tmr' = IF timeout THEN "none" ELSE tmr
            /\ \E err \in BOOLEAN : CallBack("IO", err, FALSE)
            /\ UNCHANGED <<tot, got, told>>
       ELSE /\ data' = Taken(data.fl) /\ TimerPre
            /\ IF hnd = "notify" \/ (hnd = "sr" /\ left = 0)
               THEN /\ \E err \in BOOLEAN : CallBack("IO", err, FALSE)
                    /\ Report(0)
               ELSE /\ pc' = "xfer" /\ cb' = NoCb /\ got' = 0
                    /\ UNCHANGED <<left, tot, moved, told, asks>>
    /\ UNCHANGED <<tvars, prms, ready, odd>>

\* Timeout: the descriptor is deleted with TP_F_ONESHOT and else disabled.
TimeoutPre ==
    IF ONESHOT \in evfl
    THEN data' = None /\ tmr' = IF timeout THEN "none" ELSE "off"
    ELSE data' = [st |-> "off", fl |-> {}] /\ tmr' = "off"

\* The timer is reported.
TimerEvent ==
    /\ pc = "loop" /\ tmr = "on" /\ mem = "live"
    /\ IF hnd = "connect"
       THEN data' = None /\ tmr' = IF timeout THEN "none" ELSE "off"
       ELSE TimeoutPre
    /\ CallBack("TIMER", TRUE, FALSE)
    /\ IF hnd = "sr" THEN Report(0) ELSE UNCHANGED <<tot, got, told>>
    /\ UNCHANGED <<tvars, prms, ready, odd>>

-----------------------------------------------------------------------------
(* Inside the handler.                                                     *)

\* Mutation: what has been transferred so far is forgotten.
SaveTotal_Forgets == tot' = tot /\ got' = 0

\* "Save transfered_size."
SaveTotal == tot' = tot + got /\ got' = 0

\* Is the descriptor enabled when the handler goes on?
EnabledAgain(ev) == DISPATCH \in evfl \/ ev = "TIMER"

\* Mutation: the timer is not armed again.
PostRegs_NoTimer(ev) ==
    /\ tmr' = tmr /\ odd' = odd
    /\ data' = IF EnabledAgain(ev) THEN [st |-> "on", fl |-> {}] ELSE data

\* tp_task_handler_post_int(): nothing unless the handler goes on; then the
\* timer is armed again and, after a timeout or with TP_F_DISPATCH, the
\* descriptor enabled without its flags.  Either may fail, and nobody is told.
PostRegs(ev) ==
    \E armed, enabled \in BOOLEAN :
        /\ tmr' = IF ~timeout THEN tmr ELSE IF armed THEN "on" ELSE "none"
        /\ data' = IF ~EnabledAgain(ev) THEN data
                   ELSE IF enabled THEN [st |-> "on", fl |-> {}] ELSE None
        /\ odd' = odd \cup (IF (timeout /\ ~armed) \/ (EnabledAgain(ev) /\ ~enabled)
                            THEN {"failed"} ELSE {})

\* The buffer moves on by n units.
Consume(n) == left' = left - n /\ moved' = moved + n

\* read(), recv(), write() or send() moves n units; the callback is called when
\* the buffer is done or after every read.
Transfer ==
    /\ pc = "xfer" /\ hnd = "sr" /\ left > 0
    /\ \E n \in 1 .. left :
          /\ Consume(n)
          /\ IF left = n \/ every
             THEN /\ Report(got + n)
                  /\ pc' = "cb" /\ asked' = "held" /\ timed' = FALSE
             ELSE /\ got' = got + n
                  /\ UNCHANGED <<tot, told, pc, asks>>
    /\ ready' \in BOOLEAN
    /\ UNCHANGED <<tvars, prms, regs, cb, odd>>

\* End of file, or an error that SKT_ERR_FILTER() keeps.
TransferEnds ==
    /\ pc = "xfer" /\ hnd = "sr"
    /\ Report(got)
    /\ \E err \in BOOLEAN : CallBack("IO", err, cb.direct)
    /\ UNCHANGED <<tvars, prms, regs, ready, odd>>

\* A packet or a connection is received and handed over, or an error is.
Receive ==
    /\ pc = "xfer" /\ hnd \in {"pkt", "accept"}
    /\ \E err \in BOOLEAN : CallBack("IO", err, FALSE)
    /\ UNCHANGED <<tvars, prms, regs, ready, tot, got, told, odd>>

\* EAGAIN: "Continue write/send at next event."  A direct transfer goes on
\* with tp_task_restart().
NoMore ==
    /\ pc = "xfer"
    /\ ready' = FALSE
    /\ SaveTotal
    /\ pc' = "loop" /\ cb' = NoCb
    /\ IF cb.direct
       THEN Register(timeout, evfl)
       ELSE PostRegs("IO") /\ asked' = "wait" /\ timed' = timeout
    /\ UNCHANGED <<tvars, prms, left, moved, told>>

-----------------------------------------------------------------------------
(* The callback returns.                                                   *)

\* A packet receiver goes on receiving, a listener after a success.
GoesOn == cb.ev = "IO" /\ (hnd = "pkt" \/ (hnd = "accept" /\ ~cb.err))

\* TP_TASK_CB_CONTINUE, which is for a task that has not been stopped,
\* disabled or destroyed in the callback and is not TP_F_ONESHOT.
ReturnContinue ==
    /\ pc = "cb" /\ mem = "live" /\ asked \in {"held", "wait"}
    /\ ONESHOT \notin evfl /\ hnd # "connect"
    /\ asked' = "wait" /\ timed' = timeout
    /\ cb' = NoCb
    /\ \/ /\ GoesOn
          /\ pc' = "xfer" /\ UNCHANGED <<regs, odd>>
       \/ /\ ~GoesOn /\ ~cb.direct
          /\ pc' = "loop" /\ PostRegs(cb.ev)
    /\ UNCHANGED <<tvars, prms, ready, bufs>>

\* The same after a direct transfer: tp_task_start_ex() registers the task.
ReturnDirect ==
    /\ pc = "cb" /\ mem = "live" /\ cb.direct /\ asked = "held"
    /\ ONESHOT \notin evfl
    /\ pc' = "loop" /\ cb' = NoCb
    /\ Register(timeout, evfl)
    /\ UNCHANGED <<tvars, prms, ready, bufs>>

\* Any other code: "you must call tp_task_stop() / tp_task_enable(0) /
\* tp_task_ident_close() / tp_task_destroy() before" unless the event has a one
\* time flag; a task started anew in its callback is left alone, and stopped
\* if that start failed.
ReturnOther ==
    /\ pc = "cb"
    /\ \/ asked \in {"stop", "off", "wait"}
       \/ asked = "held" /\ (evfl # {} \/ cb.ev = "TIMER" \/ cb.direct)
    /\ pc' = "loop" /\ cb' = NoCb
    /\ UNCHANGED <<tvars, prms, regs, ready, bufs, asks, odd>>

\* The descriptor becomes ready (external).
Arrive == /\ mem = "live" /\ ~ready
          /\ ready' = TRUE
          /\ UNCHANGED <<tvars, prms, regs, pc, cb, bufs, asks, odd>>

-----------------------------------------------------------------------------
Owner == \/ Create \/ Start \/ StartDirect \/ Restart \/ Stop \/ Enable1
         \/ Enable0 \/ TimeoutSet0 \/ Destroy
Loop == IoEvent \/ TimerEvent
Handler == Transfer \/ TransferEnds \/ Receive \/ NoMore
Return == ReturnContinue \/ ReturnDirect \/ ReturnOther

Next == Owner \/ Loop \/ Handler \/ Return \/ Arrive

Spec == Init /\ [][Next]_vars

\* The thread runs; timers expire; a transfer does not go on for ever without
\* an end of the data.
FairSpec == Spec /\ WF_vars(Loop) /\ WF_vars(Return) /\ WF_vars(Handler)
                 /\ SF_vars(TimerEvent)

-----------------------------------------------------------------------------
(* Properties.                                                             *)

\* The flags the library's own functions pass, a timeout that is not changed
\* under a running timer, no call that failed half way and no failed re-arming.
Regular == odd = {}

\* While a task in regular use waits, the registrations are those of the
\* request: the descriptor enabled and the timer running if and only if there
\* is a timeout.
WaitIsArmed ==
    (Regular /\ asked = "wait" /\ pc = "loop")
        => data.st = "on" /\ (timed <=> tmr = "on")

\* A destroyed task has no registration left that would call its handler,
\* whatever failed before, unless its timeout was changed to 0; one that waits
\* has those it waits for.
FreedIsQuiet ==
    /\ TypeOK /\ WaitIsArmed
    /\ mem = "freed" /\ "zeroed" \notin odd => data.st = "none" /\ tmr = "none"

\* Every transferred unit is reported in exactly one callback.
ReportedOnce == moved = told + tot + got

\* In regular use the callback runs only while the owner waits for it: not
\* after a stop or a disable, not after a callback that did not continue, and
\* it reports a timeout only when a timeout runs, so that I/O and its timeout
\* are never both reported.
OnlyWhileWaiting ==
    [][pc # "cb" /\ pc' = "cb" /\ Regular
          => asked = "wait" /\ (cb'.ev = "TIMER" => timed)]_vars

\* When nothing more arrives, a task that waits with a timeout is told, unless
\* arming its timer or its descriptor again failed, an error that
\* tp_task_handler_post_int() does not look at; told it is only while it waits.
WaitEnds ==
    /\ OnlyWhileWaiting
    /\ <>[][~Arrive /\ ~Owner]_vars
         => ((Regular /\ asked = "wait" /\ timed) ~> asked # "wait" \/ "failed" \in odd)

=============================================================================
