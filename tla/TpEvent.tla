------------------------------ MODULE TpEvent ------------------------------
(***************************************************************************)
(* One event registration on Linux: the tpdata word of its tp_udata_t, the *)
(* interest epoll keeps for it, its timerfd or pidfd, and the threads that *)
(* run tpt_loop() for it: thread 0 for an event of that pool thread, all   *)
(* of them for an event of the virtual thread, which every thread polls.   *)
(*                                                                         *)
(* epoll, timerfd and pidfd are external: interest is level triggered,     *)
(* EPOLLONESHOT disarms it with the first report, timerfd_settime() clears *)
(* the ticks, closing a descriptor removes it from epoll.                  *)
(***************************************************************************)
EXTENDS EventSource

CONSTANTS Threads,     \* the threads of the pool
          Kinds,       \* events to look at: "RW", "TIMER", "PROC"
          AddFlags,    \* flag sets the owner passes to tpt_ev_add*()
          NewFlags,    \* may it add an existing timer again with other flags?
          KernelFails  \* may timerfd_*(), pidfd_open() and epoll_ctl() fail?

ASSUME TpEventAssumption ==
    /\ 0 \in Threads
    /\ Kinds \subseteq {"RW", "TIMER", "PROC"}
    /\ AddFlags \subseteq SUBSET {ONESHOT, DISPATCH}
    /\ NewFlags \in BOOLEAN /\ KernelFails \in BOOLEAN

VARIABLES
    kind,    \* the event this registration is used with
    virt,    \* does it belong to the virtual thread?
    tpdata,  \* tp_udata->tpdata
    reg,     \* what epoll has been told
    tmr,     \* setting of the timerfd
    ready,   \* data to transfer / unread ticks / exited process
    hup,     \* the peer has closed
    pol      \* what every thread does with this event

fixed == <<kind, virt>>
kvars == <<reg, tmr, ready>>
vars  == <<want, wfl, calls, kind, virt, tpdata, reg, tmr, ready, hup, pol>>

\* tpdata: a timerfd or pidfd is stored, TPDATA_EVENT, TPDATA_FLAGS and
\* TPDATA_F_DISABLED.  The value 0 reads as TP_EV_READ without flags.
Zero == [tfd |-> FALSE, ev |-> "RW", fl |-> {}, dis |-> FALSE]
TpData == [tfd : BOOLEAN, ev : {"RW", "TIMER", "PROC"}, fl : FlagSets, dis : BOOLEAN]

\* in: EPOLLIN or EPOLLOUT; hup: EPOLLHUP is still reported; once:
\* EPOLLONESHOT; et: EPOLLET.
NoReg == [on |-> FALSE, in |-> FALSE, hup |-> FALSE, once |-> FALSE, et |-> FALSE]

Idle == [pc |-> "wait", ev |-> "RW", fl |-> {}]

TypeOK ==
    /\ want \in {"none", "on", "off"} /\ wfl \in FlagSets /\ calls \in 0 .. CallsBound
    /\ kind \in Kinds /\ virt \in BOOLEAN
    /\ tpdata \in TpData
    /\ reg \in [on : BOOLEAN, in : BOOLEAN, hup : BOOLEAN, once : BOOLEAN, et : BOOLEAN]
    /\ tmr \in {"off", "once", "per"}
    /\ ready \in BOOLEAN /\ hup \in BOOLEAN
    /\ pol \in [Threads -> [pc : {"wait", "got", "mark", "handle", "cb"},
                            ev : {"RW", "TIMER", "PROC"}, fl : FlagSets]]

Init ==
    /\ AInit
    /\ kind \in Kinds /\ virt \in BOOLEAN
    /\ tpdata = Zero /\ reg = NoReg /\ tmr = "off"
    /\ ready = FALSE /\ hup = FALSE
    /\ pol = [p \in Threads |-> Idle]

-----------------------------------------------------------------------------
(* tpt_ev_post().                                                          *)

Fails == IF KernelFails THEN BOOLEAN ELSE {FALSE}
OneTime(fl) == fl # {}

\* What the owner may count on when the call has returned.
Wants(w, fl) == want' = w /\ wfl' = fl /\ calls' = 0

\* Mutation: EPOLLONESHOT is not asked for.
RwInterest_NotOnce(op, fl) ==
    [on |-> TRUE, in |-> op # "DISABLE", hup |-> TRUE, once |-> FALSE,
     et |-> op = "DISABLE"]

\* The events and flags given to epoll_ctl().
RwInterest(op, fl) ==
    [on |-> TRUE, in |-> op # "DISABLE", hup |-> TRUE,
     once |-> op # "DISABLE" /\ OneTime(fl), et |-> op = "DISABLE"]

\* Read and write events.  DISABLE keeps the registration, without the event
\* itself and edge triggered, "to only once report HUP/ERR".
PostRw(op, fl, asked) ==
    \/ /\ op = "DEL"
       /\ tpdata' = Zero
       /\ reg' = NoReg
       /\ Wants("none", {})
       /\ UNCHANGED <<tmr, ready>>
    \/ /\ op \in {"ADD", "ENABLE", "DISABLE"}
       /\ tpdata' = [tfd |-> FALSE, ev |-> "RW", fl |-> fl, dis |-> op = "DISABLE"]
       /\ reg' = RwInterest(op, fl)
       /\ Wants(IF op = "DISABLE" THEN "off" ELSE "on", asked)
       /\ UNCHANGED <<tmr, ready>>
    \/ /\ op \in {"ADD", "ENABLE", "DISABLE"}
       /\ TRUE \in Fails /\ ~reg.on                 \* EPOLL_CTL_ADD is refused
       /\ tpdata' = Zero
       /\ Wants("none", {})
       /\ UNCHANGED kvars

\* Mutation: the unread ticks of a disabled timer stay (timerfd_settime() is
\* not called).
TimerOff_KeepsTicks == tmr' = tmr /\ ready' = ready

\* timerfd_settime() with an empty value: the timer stops, its ticks are gone.
TimerOff == tmr' = "off" /\ ready' = FALSE

\* The interval is zero for the one time flags; data 0 disarms.
TimerSet(fl, data) == IF data = 0 THEN "off" ELSE IF OneTime(fl) THEN "once" ELSE "per"

\* Mutation: a timer that is enabled again stays marked as disabled.
TimerWord_StaysDisabled(fl) ==
    IF tpdata.tfd THEN tpdata
    ELSE [tfd |-> TRUE, ev |-> "TIMER", fl |-> fl, dis |-> FALSE]

\* tpdata of an added or enabled timer.
TimerWord(fl) ==
    IF tpdata.tfd THEN [tpdata EXCEPT !.dis = FALSE]
    ELSE [tfd |-> TRUE, ev |-> "TIMER", fl |-> fl, dis |-> FALSE]

\* Timers: the descriptor is made by the first call and kept until DEL; the
\* flags are remembered by the call that makes it.
PostTimer(op, fl, data, asked) ==
    \/ /\ op = "DEL"
       /\ tpdata' = Zero /\ reg' = NoReg
       /\ TimerOff
       /\ Wants("none", {})
    \/ /\ op = "DISABLE" /\ tpdata.tfd
       /\ tpdata' = [tpdata EXCEPT !.dis = TRUE]
       /\ TimerOff
       /\ reg' = reg
       /\ Wants("off", asked)
    \/ /\ op = "DISABLE" /\ ~tpdata.tfd            \* ENOENT
       /\ Wants("none", {})
       /\ UNCHANGED <<tpdata, reg, tmr, ready>>
    \/ /\ op \in {"ADD", "ENABLE"}
       /\ tpdata' = TimerWord(fl)
       /\ reg' = [on |-> TRUE, in |-> TRUE, hup |-> FALSE, once |-> FALSE, et |-> FALSE]
       /\ tmr' = TimerSet(fl, data) /\ ready' = FALSE
       /\ Wants("on", asked)
    \/ /\ TRUE \in Fails          \* no timerfd, not added to epoll, or not set:
       /\ tpdata' = Zero /\ reg' = NoReg             \* err_out_timer closes it
       /\ TimerOff
       /\ Wants("none", {})

\* Processes: DISABLE is DEL, a second ADD is refused with EEXIST.
PostProc(op, fl, asked) ==
    \/ /\ op \in {"DEL", "DISABLE"}
       /\ tpdata' = Zero /\ reg' = NoReg
       /\ Wants("none", {})
       /\ UNCHANGED <<tmr, ready>>
    \/ /\ op \in {"ADD", "ENABLE"} /\ ~tpdata.tfd
       /\ tpdata' = [tfd |-> TRUE, ev |-> "PROC", fl |-> fl, dis |-> FALSE]
       /\ reg' = [on |-> TRUE, in |-> TRUE, hup |-> FALSE, once |-> TRUE, et |-> FALSE]
       /\ Wants("on", {ONESHOT})
       /\ UNCHANGED <<tmr, ready>>
    \/ /\ op \in {"ADD", "ENABLE"} /\ TRUE \in Fails /\ ~tpdata.tfd
       /\ tpdata' = Zero
       /\ Wants("none", {})
       /\ UNCHANGED kvars

Post(op, fl, data, asked) ==
    /\ \/ kind = "RW"    /\ PostRw(op, fl, asked)
       \/ kind = "TIMER" /\ PostTimer(op, fl, data, asked)
       \/ kind = "PROC"  /\ PostProc(op, fl, asked)
    /\ UNCHANGED <<fixed, hup, pol>>

-----------------------------------------------------------------------------
(* The owner.                                                              *)

\* A call is made in the callback of the event or while no thread is busy with
\* it.  On its own thread there is no other time; the owner of an event of the
\* virtual thread must see to it.
MayCall == \A p \in Threads : pol[p].pc \in {"wait", "cb"}

\* tpt_ev_validate(): what it refuses of these calls is ONESHOT with DISPATCH.
Validate(fl) == ~({ONESHOT, DISPATCH} \subseteq fl)

\* tpt_ev_add_args(), of a timer that exists with the flags it has unless
\* NewFlags allows others.
Add == \E fl \in AddFlags :
          /\ tpdata.ev = "TIMER" => NewFlags \/ fl = tpdata.fl
          /\ Validate(fl)
          /\ MayCall /\ Post("ADD", fl, 1, fl)

\* tpt_ev_enable_args(1, ...) with the flags of the add.
Enable == /\ want # "none" /\ MayCall
          /\ Post("ENABLE", wfl, 1, wfl)

\* tpt_ev_enable_args1(1, ...): flags, fflags and data are 0, which is right for
\* a persistent socket event only (TpTask has the other use of it).
EnableArgs1 == /\ kind = "RW" /\ want # "none" /\ wfl = {} /\ MayCall
               /\ Post("ENABLE", {}, 0, wfl)

\* tpt_ev_enable_args1(0, ...).
Disable == MayCall /\ Post("DISABLE", {}, 0, wfl)

\* tpt_ev_del_args1().
Del == MayCall /\ Post("DEL", {}, 0, {})

-----------------------------------------------------------------------------
(* The outside world.                                                      *)

Arrive == /\ kind = "RW" /\ ~ready
          /\ ready' = TRUE
          /\ UNCHANGED <<avars, fixed, tpdata, reg, tmr, hup, pol>>

HangUp == /\ kind = "RW" /\ ~hup
          /\ hup' = TRUE
          /\ UNCHANGED <<avars, fixed, tpdata, reg, tmr, ready, pol>>

Expire == /\ tmr # "off"
          /\ ready' = TRUE
          /\ tmr' = IF tmr = "once" THEN "off" ELSE tmr
          /\ UNCHANGED <<avars, fixed, tpdata, reg, hup, pol>>

ProcExit == /\ kind = "PROC" /\ ~ready
            /\ ready' = TRUE
            /\ UNCHANGED <<avars, fixed, tpdata, reg, tmr, hup, pol>>

-----------------------------------------------------------------------------
(* tpt_loop().                                                             *)

\* epoll has something to report.
Reports == reg.on /\ ((reg.in /\ ready) \/ (reg.hup /\ hup))

\* epoll_wait(), for the virtual thread both of them: EPOLLONESHOT disarms,
\* EPOLLET reports a closed peer once.
Wait(p) ==
    /\ p = 0 \/ virt
    /\ pol[p].pc = "wait" /\ Reports
    /\ pol' = [pol EXCEPT ![p].pc = "got"]
    /\ reg' = IF reg.once THEN [reg EXCEPT !.in = FALSE, !.hup = FALSE]
              ELSE IF reg.et THEN [reg EXCEPT !.hup = FALSE] ELSE reg
    /\ UNCHANGED <<avars, fixed, tpdata, tmr, ready, hup>>

\* "Do not process disabled events."; the event and its flags are read.
Check(p) ==
    /\ pol[p].pc = "got"
    /\ pol' = [pol EXCEPT ![p] = IF tpdata.dis THEN Idle
                                 ELSE [pc |-> "mark", ev |-> tpdata.ev, fl |-> tpdata.fl]]
    /\ UNCHANGED <<avars, fixed, tpdata, kvars, hup>>

\* TP_F_DISPATCH: "Mark as disabled."
Mark(p) ==
    /\ pol[p].pc = "mark"
    /\ tpdata' = IF DISPATCH \in pol[p].fl THEN [tpdata EXCEPT !.dis = TRUE] ELSE tpdata
    /\ pol' = [pol EXCEPT ![p].pc = "handle"]
    /\ UNCHANGED <<avars, fixed, kvars, hup>>

\* The EPOLL_CTL_DEL of a one time event goes to the epoll descriptor of the
\* calling thread, where an event of the virtual thread is not.
OwnEpoll == ~virt

\* A callback begins.
Called(p) == /\ pol' = [pol EXCEPT ![p].pc = "cb"]
             /\ want' = After(want, wfl)
             /\ calls' = CallsInc(calls)
             /\ wfl' = wfl

\* The event is taken off as its kind and flags ask and the callback is called.
Handle(p) ==
    /\ pol[p].pc = "handle"
    /\ \/ /\ pol[p].ev = "RW"
          /\ IF ONESHOT \in pol[p].fl
             THEN tpdata' = Zero /\ reg' = (IF OwnEpoll THEN NoReg ELSE reg)
             ELSE UNCHANGED <<tpdata, reg>>
          /\ UNCHANGED <<tmr, ready>>
       \/ /\ pol[p].ev = "TIMER"
          /\ ready' = FALSE                           \* the ticks are read
          /\ IF ONESHOT \in pol[p].fl
             THEN tpdata' = Zero /\ reg' = NoReg /\ tmr' = "off"
             ELSE UNCHANGED <<tpdata, reg, tmr>>
       \/ /\ pol[p].ev = "PROC"
          /\ tpdata' = Zero /\ reg' = NoReg
          /\ UNCHANGED <<tmr, ready>>
    /\ Called(p)
    /\ UNCHANGED <<fixed, hup>>

\* The callback returns; it may have taken the data.
Return(p) ==
    /\ pol[p].pc = "cb"
    /\ pol' = [pol EXCEPT ![p] = Idle]
    /\ ready' \in IF kind = "RW" THEN {ready, FALSE} ELSE {ready}
    /\ UNCHANGED <<avars, fixed, tpdata, reg, tmr, hup>>

-----------------------------------------------------------------------------
Owner == Add \/ Enable \/ EnableArgs1 \/ Disable \/ Del
World == Arrive \/ HangUp \/ Expire \/ ProcExit
Loop(p) == Wait(p) \/ Check(p) \/ Mark(p) \/ Handle(p) \/ Return(p)

Next == Owner \/ World \/ \E p \in Threads : Loop(p)

Spec == Init /\ [][Next]_vars

\* The threads are scheduled and an armed timer expires.
FairSpec == Spec /\ (\A p \in Threads : WF_vars(Loop(p))) /\ WF_vars(Expire)

-----------------------------------------------------------------------------
(* Properties.                                                             *)

\* Any event of a pool thread, and of the virtual thread all but the timers.
Served == ~virt \/ kind # "TIMER"

\* A disabled or deleted event does not keep waking the loop: what epoll still
\* has to report for it is reported once.
DisabledIsQuiet ==
    [][\A p \in Threads : Wait(p) /\ want # "on" => ~Reports']_vars

\* The registration implements EventSource: a callback runs only while the
\* owner wants it, TP_F_ONESHOT and TP_F_DISPATCH give one callback per
\* request ("Make sure that disabled event never call cb func.").  For timers
\* this is so on their own thread only.  And an event that is off is quiet.
Source == INSTANCE EventSource
          WITH want <- IF Served THEN want ELSE "none",
               wfl <- IF Served THEN wfl ELSE {},
               calls <- IF Served THEN calls ELSE 0
Implements == Source!ASpec /\ DisabledIsQuiet

\* At rest the kernel holds what the owner of an event of a pool thread asked
\* for: nothing for a deleted event, no armed interest for a disabled one, and
\* for a wanted event either an armed interest (RW, PROC) or a timer that runs
\* or has expired.
KernelAgrees ==
    /\ TypeOK
    /\ (~virt /\ \A p \in Threads : pol[p].pc \in {"wait", "cb"}) =>
          /\ want = "none" => ~reg.on /\ tpdata = Zero
          /\ want = "off"  => ~reg.in \/ (tmr = "off" /\ ~ready)
          /\ want = "on"   => /\ reg.in /\ ~tpdata.dis
                              /\ kind = "TIMER" => tmr # "off" \/ ready

\* Once the owner leaves it alone, a wanted event is delivered: a timer fires,
\* data to transfer reaches a callback, or an earlier callback has taken it.
Delivered ==
    <>[][~Owner]_vars =>
        ((want = "on" /\ (kind = "TIMER" \/ ready))
             ~> (calls > 0 \/ want # "on" \/ (kind # "TIMER" /\ ~ready)))

=============================================================================
