---------------------------- MODULE TpConnectEx ----------------------------
(***************************************************************************)
(* tp_task_connect_ex: one task that tries addresses in turn until one     *)
(* connects, the tries or the time are used up, or its owner destroys it.  *)
(* The task keeps the index of the address in tot_transfered_size, the     *)
(* number of the try in offset, and uses its timer both for the timeout of *)
(* a try and for the delay between tries; which of the two it is the       *)
(* handler knows from ident.                                               *)
(*                                                                         *)
(* The registrations are those of TpTask.  When the descriptor is refused  *)
(* after the timer was armed, tp_task_restart() deletes a timer of tp_data *)
(* and leaves that of tp_timer running.  A later try arms it anew; after   *)
(* the last report it calls the handler again, which takes it for the end  *)
(* of a delay and connects.                                                *)
(***************************************************************************)
EXTENDS Integers, FiniteSets

CONSTANTS AddrCounts,  \* addrs_count
          MaxTries,    \* max_tries, 0 = no limit
          TryBound     \* bound of the model on the tries of an address

ASSUME TpConnectExAssumption ==
    /\ AddrCounts \subseteq Nat \ {0} /\ MaxTries \subseteq Nat
    /\ \E n \in AddrCounts : \A m \in AddrCounts : m <= n   \* a size_t is bounded
    /\ TryBound \in Nat

VARIABLES
    prm,   \* conn_prms, the flags and the timeout: fixed by the owner
    cur,   \* tot_transfered_size: "addrs_cur for connect_ex()"
    try,   \* offset: "try_no for connect_ex()"
    open,  \* ident # -1
    io,    \* the descriptor is registered
    tmr,   \* the timer: "none", "on" or "off"
    pc,    \* see Places
    err,   \* error of the handler: "0", "err" or "-1"
    addr,  \* address of the last try
    tries, \* tries spent on every address
    rep,   \* last report: result and addr_index
    lost,  \* history: the index of another address than the first was lost
    stray, \* history: the timer runs because a refused descriptor has left it
    late   \* history: such a timer called the handler after the last report

vars == <<prm, cur, try, open, io, tmr, pc, err, addr, tries, rep, lost, stray, late>>
regs == <<open, io, tmr, stray>>
ghost == <<addr, tries, rep, lost, late>>

\* "create", "handler": a call of tp_task_connect_ex_start() comes next, made
\* there; "report": top of the loop of the handler; "wait": connecting or in a
\* delay; "done": last report made; "null": create has failed; "freed".
Places == {"create", "handler", "report", "wait", "done", "null", "freed"}

Params == [n : AddrCounts, max : MaxTries, rr : BOOLEAN, delay : BOOLEAN,
           initial : BOOLEAN, every : BOOLEAN, limit : BOOLEAN, timed : BOOLEAN,
           close : BOOLEAN]

MaxN == CHOOSE n \in AddrCounts : \A m \in AddrCounts : m <= n

TypeOK ==
    /\ prm \in Params
    /\ cur \in Nat /\ try \in Nat
    /\ open \in BOOLEAN /\ io \in BOOLEAN /\ tmr \in {"none", "on", "off"}
    /\ pc \in Places /\ err \in {"0", "err", "-1"}
    /\ addr \in Nat \cup {-1}
    /\ tries \in [0 .. MaxN -> Nat]     \* one place more: see Connect
    /\ rep \in [res : {"none", "0", "err", "-1"}, idx : Nat]
    /\ lost \in BOOLEAN /\ stray \in BOOLEAN /\ late \in BOOLEAN

\* The checks of tp_task_connect_ex_create().
Valid(p) == (p.initial => p.delay) /\ (p.limit => p.timed)

Init ==
    /\ prm \in {p \in Params : Valid(p)}
    /\ cur = 0 /\ try = 0
    /\ open = FALSE /\ io = FALSE /\ tmr = "none"
    /\ pc = "create" /\ err = "err"
    /\ addr = -1 /\ tries = [a \in 0 .. MaxN |-> 0]
    /\ rep = [res |-> "none", idx |-> 0] /\ lost = FALSE
    /\ stray = FALSE /\ late = FALSE

\* TP_TASK_CONNECT_F_ROUND_ROBIN, "Force" without a limit.
RoundRobin == prm.max = 0 \/ prm.rr

-----------------------------------------------------------------------------
(* tp_task_connect_ex_start().                                             *)

Step(act, c, t) == [act |-> act, cur |-> c, try |-> t]
DelayOr(act, c, t) == Step(IF prm.delay THEN "delay" ELSE act, c, t)

\* Mutation: one try too many.
NextTry_OneMore ==
    IF RoundRobin
    THEN IF cur < prm.n THEN Step("connect", cur, try)
         ELSE IF prm.max # 0 /\ try + 1 > prm.max THEN Step("fail", 0, try + 1)
         ELSE DelayOr("connect", 0, try + 1)
    ELSE IF try <= prm.max THEN DelayOr("connect", cur, try)
         ELSE IF cur + 1 >= prm.n THEN Step("fail", cur + 1, 0)
         ELSE DelayOr("connect", cur + 1, 0)

\* "Check addr index and retry limit."  Round robin counts the rounds and
\* waits between them; otherwise an address has its tries one after another
\* and every try but the first is delayed.
NextTry ==
    IF RoundRobin
    THEN IF cur < prm.n THEN Step("connect", cur, try)
         ELSE IF prm.max # 0 /\ try + 1 >= prm.max THEN Step("fail", 0, try + 1)
         ELSE DelayOr("connect", 0, try + 1)
    ELSE IF try < prm.max THEN DelayOr("connect", cur, try)
         ELSE IF cur + 1 >= prm.n THEN Step("fail", cur + 1, 0)
         ELSE DelayOr("connect", cur + 1, 0)

\* "Check connect time limit / do initial delay."  The time limit may be reached
\* at any call but the first, or be too near for a delay.
Checked ==
    IF try = 0 /\ cur = 0
    THEN {IF prm.initial THEN DelayOr("connect", 0, 0) ELSE Step("connect", 0, 0)}
    ELSE {NextTry} \cup (IF prm.limit THEN {Step("fail", cur, try)} ELSE {})
                   \cup (IF prm.limit /\ NextTry.act = "delay"
                         THEN {Step("fail", NextTry.cur, NextTry.try)} ELSE {})

\* Mutation: the checks, and the delay, come again after the delay.
Decisions_DelaysAgain(do) == Checked

\* What the function decides; after a delay it connects.
Decisions(do) == IF do THEN {Step("connect", cur, try)} ELSE Checked

\* Mutation: the descriptor of a connect that could not be started stays open.
StartFails_Open == open' = TRUE

\* tp_task_start() has failed: the new descriptor is closed.
StartFails == open' = FALSE

\* Where a call that failed goes on.
AfterFailure == IF pc = "create" THEN "create" ELSE "report"

\* The address that d is about is connected to: skt_connect() and tp_task_start(),
\* which sets tot_transfered_size to 0.  A late timer may find the index behind the
\* last address: what is read there is connected to.
Connect(d) ==
    /\ d.act = "connect"
    /\ addr' = d.cur /\ tries' = [tries EXCEPT ![d.cur] = @ + 1]
    /\ try' = d.try
    /\ \/ /\ open' = TRUE /\ io' = TRUE
          /\ tmr' = (IF prm.timed THEN "on" ELSE tmr) /\ stray' = FALSE
          /\ cur' = 0 /\ lost' = (lost \/ d.cur # 0)
          /\ pc' = "wait" /\ err' = "0"
       \/ /\ err' = "err" /\ cur' = d.cur             \* skt_connect() fails
          /\ pc' = AfterFailure
          /\ UNCHANGED <<regs, lost>>
       \/ /\ prm.timed                                \* the timer is refused
          /\ tmr' = "none" /\ stray' = FALSE /\ io' = FALSE
          /\ StartFails
          /\ err' = "err" /\ cur' = 0 /\ lost' = (lost \/ d.cur # 0)
          /\ pc' = AfterFailure
       \/ /\ tmr' = (IF prm.timed THEN "on" ELSE tmr) \* the descriptor is refused
          /\ stray' = prm.timed /\ io' = FALSE
          /\ StartFails
          /\ err' = "err" /\ cur' = 0 /\ lost' = (lost \/ d.cur # 0)
          /\ pc' = AfterFailure
    /\ UNCHANGED <<prm, rep, late>>

\* "Shedule delay timer."  A try whose delay is refused is spent.
Delay(d) ==
    /\ d.act = "delay"
    /\ cur' = d.cur /\ try' = d.try
    /\ \/ /\ tmr' = "on"
          /\ pc' = "wait" /\ err' = "0"
          /\ UNCHANGED <<addr, tries>>
       \/ /\ tmr' = "none"
          /\ pc' = AfterFailure /\ err' = "err"
          /\ addr' = d.cur /\ tries' = [tries EXCEPT ![d.cur] = @ + 1]
    /\ stray' = FALSE
    /\ UNCHANGED <<prm, open, io, rep, lost, late>>

\* "No more tries."
GiveUp(d) ==
    /\ d.act = "fail"
    /\ cur' = d.cur /\ try' = d.try
    /\ err' = "-1"
    /\ pc' = IF pc = "create" THEN "null" ELSE "report"
    /\ IF pc = "create" /\ prm.timed THEN tmr' = "none" /\ stray' = FALSE
                                     ELSE UNCHANGED <<tmr, stray>>
    /\ UNCHANGED <<prm, open, io, ghost>>

Outcome(d) == Connect(d) \/ Delay(d) \/ GiveUp(d)

InBound == try <= TryBound /\ \A a \in DOMAIN tries : tries[a] <= TryBound

\* Next address, or next try of the same one; TryBound bounds the model.
Bump == /\ InBound
        /\ IF RoundRobin THEN cur' = cur + 1 /\ try' = try
                         ELSE cur' = cur /\ try' = try + 1

\* A call from tp_task_connect_ex_create(): the first one, or after a failure.
CreateStart == /\ pc = "create" /\ addr = -1 /\ err = "err"
               /\ \E d \in Decisions(FALSE) : Outcome(d)

CreateRetry == /\ pc = "create" /\ addr # -1 /\ err = "err"
               /\ Bump /\ err' = "0"
               /\ UNCHANGED <<prm, regs, pc, ghost>>

CreateAgain == /\ pc = "create" /\ err = "0"
               /\ \E d \in Decisions(FALSE) : Outcome(d)

-----------------------------------------------------------------------------
(* tp_task_connect_ex_handler().                                           *)

\* tp_task_stop(): the timer is deleted only if there is a timeout.
StopRegs == /\ io' = FALSE /\ tmr' = IF prm.timed THEN "none" ELSE tmr
            /\ stray' = FALSE

\* Connected: last report.
Connected ==
    /\ pc = "wait" /\ io
    /\ StopRegs
    /\ rep' = [res |-> "0", idx |-> cur]
    /\ pc' = "done"
    /\ UNCHANGED <<prm, cur, try, open, err, addr, tries, lost, late>>

\* The connect fails or times out.  The timer has disabled itself.
Failed ==
    /\ pc = "wait" /\ io
    /\ StopRegs /\ open' = FALSE
    /\ pc' = "report" /\ err' = "err"
    /\ UNCHANGED <<prm, cur, try, ghost>>

\* The delay is over, or so the handler thinks: without a descriptor it takes
\* every timer for that of a delay.
DelayOver ==
    /\ pc = "wait" \/ (pc = "done" /\ InBound)      \* TryBound bounds the model
    /\ ~open /\ tmr = "on"
    /\ tmr' = "off" /\ stray' = FALSE
    /\ pc' = "handler" /\ err' = "0"
    /\ late' = (late \/ pc = "done")
    /\ UNCHANGED <<prm, cur, try, open, io, addr, tries, rep, lost>>

\* What the callback is told.
Told == [res |-> err, idx |-> cur]

\* "Report about fail to connect": always when it cannot continue, else when
\* asked to; the owner may end it by its return code.
ReportFail ==
    /\ pc = "report"
    /\ \/ /\ err = "-1" \/ prm.every
          /\ rep' = Told
          /\ IF err = "-1" THEN pc' = "done" /\ UNCHANGED <<cur, try>>
             ELSE \/ pc' = "done" /\ UNCHANGED <<cur, try>>
                  \/ pc' = "handler" /\ Bump
       \/ /\ err # "-1" /\ ~prm.every
          /\ pc' = "handler" /\ Bump /\ rep' = rep
    /\ UNCHANGED <<prm, regs, err, addr, tries, lost, late>>

\* The handler calls tp_task_connect_ex_start(tptask, (0 == error)).
HandlerStart == /\ pc = "handler"
                /\ \E d \in Decisions(err = "0") : Outcome(d)

\* The owner destroys the task; without TP_TASK_F_CLOSE_ON_DESTROY the
\* descriptor stays open and is the owner's to close.
Destroy == /\ pc \in {"wait", "done"}
           /\ StopRegs
           /\ open' = (open /\ ~prm.close)
           /\ pc' = "freed"
           /\ UNCHANGED <<prm, cur, try, err, ghost>>

Ended == pc \in {"null", "freed"}

Loop == \/ CreateStart \/ CreateRetry \/ CreateAgain \/ Connected \/ Failed
        \/ DelayOver \/ ReportFail \/ HandlerStart
Next == Loop \/ Destroy \/ ((Ended \/ ~InBound) /\ UNCHANGED vars)

Spec == Init /\ [][Next]_vars

\* Threads run and timers expire.
FairSpec == Spec /\ WF_vars(Loop)

-----------------------------------------------------------------------------
(* Properties.                                                             *)

\* Without a time limit the task gives up only when every address has had all
\* of its tries, and the addresses are the ones it was given.
AllTried ==
    /\ \A a \in DOMAIN tries : a >= prm.n => tries[a] = 0
    /\ (err = "-1" /\ ~prm.limit) =>
           prm.max # 0 /\ \A a \in 0 .. prm.n - 1 : tries[a] >= prm.max

\* No address is tried more than max_tries times ("Num tries to connect"), and
\* round robin goes on to the next address only after all the others before it
\* have had their try of this round, as long as the index of the address is
\* kept; and none is passed over.  All of it until a timer that a refused
\* descriptor has left (tp_task_restart()) starts the task again after its end.
TriesLimited ==
    /\ TypeOK
    /\ ~late => AllTried
    /\ ~lost /\ ~late =>
          /\ prm.max # 0 => \A a \in DOMAIN tries : tries[a] <= prm.max
          /\ prm.rr => \A a, b \in 0 .. prm.n - 1 :
                a < b => tries[b] <= tries[a] /\ tries[a] <= tries[b] + 1

\* After the last report, and after the task is destroyed, nothing calls the
\* handler of a task with a timeout any more.
QuietAfterEnd ==
    prm.timed /\ pc \in {"done", "null", "freed"} => ~io /\ tmr # "on"

\* Before its end a task has a descriptor exactly while it is being connected,
\* after its end exactly if it was handed over; a task that is gone has none, but
\* for the one it had when the owner did not ask for the close
\* (TP_TASK_F_CLOSE_ON_DESTROY).  After the end of a task with a timeout nothing is
\* left that would call the handler, but for one thing: the timer, if the last
\* start of the task failed with a refused descriptor; a task that is gone leaves
\* nothing in any case.
NoDescriptorLost ==
    /\ pc \notin {"null", "freed"} => (open <=> io \/ (pc = "done" /\ rep.res = "0"))
    /\ open /\ pc \in {"null", "freed"} => pc = "freed" /\ ~prm.close
    /\ ~stray => QuietAfterEnd
    /\ stray => prm.timed /\ tmr = "on" /\ ~open /\ pc \in {"create", "handler", "report", "done"}

\* A task with a limited number of tries and a timeout for each ends, as long
\* as the index of the address is kept and no stray timer has started it again
\* after its end.
Ends == prm.max # 0 /\ prm.timed ~> lost \/ late \/ pc \in {"done", "null", "freed"}

=============================================================================
