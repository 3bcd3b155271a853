---------------------------- MODULE TpEvent_proofs ---------------------------
(***************************************************************************)
(* Proofs about TpEvent for every number of threads: a registration, of    *)
(* whatever kind and with whatever flags, implements EventSource and       *)
(* agrees with the kernel.                                                 *)
(***************************************************************************)
EXTENDS TpEvent, TLAPS

-----------------------------------------------------------------------------
(* The inductive invariant.                                                *)

\* A thread between epoll_wait() and the callback: the event has been reported
\* to it; past the test of TPDATA_F_DISABLED it has read the event and flags.
Busy(p)  == pol[p].pc \in {"got", "mark", "handle"}
Taken(p) == pol[p].pc \in {"mark", "handle"}
NoneBusy == \A p \in Threads : ~Busy(p)
Marked   == \E p \in Threads : pol[p].pc = "handle"

\* An event of a pool thread is served by that thread alone.
SoloInv == ~virt => \A p \in Threads : p # 0 => pol[p].pc = "wait"

\* EPOLLONESHOT reports a socket or a process to one thread only.
UniqueInv ==
    kind # "TIMER" /\ want = "on" /\ wfl # {} =>
        \A p, q \in Threads : Busy(p) /\ Busy(q) => p = q

\* A read or write event.
RwInv ==
    kind = "RW" =>
        /\ ~tpdata.tfd /\ tpdata.ev = "RW" /\ tmr = "off"
        /\ reg.et => ~reg.once /\ ~reg.in
        /\ ~reg.on => ~reg.in /\ ~reg.hup
        /\ want = "none" => /\ ~reg.in /\ ~reg.hup /\ tpdata = Zero
                            /\ ~virt => ~reg.on
        /\ want = "off" => ~reg.in /\ tpdata.dis /\ (reg.hup => reg.et)
        /\ want = "on" => /\ tpdata.fl = wfl /\ reg.on /\ ~reg.et
                          /\ reg.once <=> wfl # {}
                          /\ reg.hup <=> reg.in
                          /\ wfl = {} => reg.in
                          /\ wfl # {} => (reg.in <=> NoneBusy)
                          /\ tpdata.dis => wfl # {} /\ Marked
        /\ \A p \in Threads : Busy(p) => want # "none"
        /\ \A p \in Threads :
              Taken(p) => want = "on" /\ pol[p].ev = "RW" /\ pol[p].fl = wfl
        /\ \A p \in Threads : pol[p].pc = "handle" /\ DISPATCH \in wfl => tpdata.dis

\* The exit of a process.
ProcInv ==
    kind = "PROC" =>
        /\ tmr = "off" /\ ~reg.hup /\ ~reg.et
        /\ want # "off"
        /\ want = "none" => tpdata = Zero /\ reg = NoReg
        /\ want = "on" => /\ wfl = {ONESHOT}
                          /\ tpdata.tfd /\ tpdata.ev = "PROC"
                          /\ reg.on /\ reg.once
                          /\ reg.in <=> NoneBusy
                          /\ tpdata.dis => Marked
        /\ \A p \in Threads : Busy(p) => want = "on"
        /\ \A p \in Threads : Taken(p) => pol[p].ev = "PROC"

\* A timer: with a one time flag it has not expired and nobody is busy, or its
\* tick is unread.
TimerInv ==
    kind = "TIMER" =>
        /\ ~reg.hup /\ ~reg.et /\ ~reg.once
        /\ want = "none" => tpdata = Zero /\ reg = NoReg /\ DISPATCH \notin wfl
        /\ want # "on" => tmr = "off" /\ ~ready
        /\ want = "off" => tpdata = [tfd |-> TRUE, ev |-> "TIMER", fl |-> wfl, dis |-> TRUE]
        /\ want = "on" => /\ tpdata.tfd /\ tpdata.ev = "TIMER" /\ tpdata.fl = wfl
                          /\ reg.on /\ reg.in
                          /\ tpdata.dis => wfl = {DISPATCH} /\ Marked
                          /\ IF wfl = {} THEN tmr = "per"
                             ELSE \/ tmr = "once" /\ ~ready /\ NoneBusy
                                  \/ tmr = "off" /\ ready
        /\ \A p \in Threads :
              Taken(p) => \/ pol[p].ev = "TIMER" /\ pol[p].fl = wfl
                          \/ pol[p].ev = "RW" /\ pol[p].fl = {} /\ want = "none"
        /\ \A p \in Threads :
              pol[p].pc = "handle" /\ DISPATCH \in pol[p].fl => tpdata.dis
        /\ \A p \in Threads : Busy(p) => /\ want = "off" => wfl = {DISPATCH}
                                         /\ ~virt => want = "on"

IInv == TypeOK /\ SoloInv /\ UniqueInv /\ RwInv /\ ProcInv /\ TimerInv

-----------------------------------------------------------------------------
\* A flag set that tpt_ev_validate() lets through.
LEMMA ValidFlags ==
    ASSUME NEW fl \in AddFlags, Validate(fl)
    PROVE  fl \in FlagSets
  <1>1. fl \subseteq {ONESHOT, DISPATCH}
    BY TpEventAssumption
  <1>2. ONESHOT \notin fl \/ DISPATCH \notin fl
    BY DEF Validate
  <1> QED
    BY <1>1, <1>2 DEF FlagSets, ONESHOT, DISPATCH

\* What epoll can have been told.
Regs == [on : BOOLEAN, in : BOOLEAN, hup : BOOLEAN, once : BOOLEAN, et : BOOLEAN]

\* The words and interests that tpt_ev_post() makes are well formed.
LEMMA WordTypes ==
    ASSUME TypeOK
    PROVE  /\ Zero \in TpData /\ NoReg \in Regs
           /\ [tpdata EXCEPT !.dis = TRUE] \in TpData
           /\ \A op : \A fl \in FlagSets :
                 /\ RwInterest(op, fl) \in Regs /\ TimerWord(fl) \in TpData
                 /\ [tfd |-> FALSE, ev |-> "RW", fl |-> fl, dis |-> op = "DISABLE"] \in TpData
                 /\ [tfd |-> TRUE, ev |-> "PROC", fl |-> fl, dis |-> FALSE] \in TpData
           /\ \A b \in BOOLEAN :
                 [on |-> TRUE, in |-> TRUE, hup |-> FALSE, once |-> b, et |-> FALSE] \in Regs
  <1>1. Zero \in TpData /\ NoReg \in Regs
    BY DEF Zero, TpData, FlagSets, NoReg, Regs
  <1>2. ASSUME NEW op, NEW fl \in FlagSets
        PROVE  /\ RwInterest(op, fl) \in Regs /\ TimerWord(fl) \in TpData
               /\ [tfd |-> FALSE, ev |-> "RW", fl |-> fl, dis |-> op = "DISABLE"] \in TpData
               /\ [tfd |-> TRUE, ev |-> "PROC", fl |-> fl, dis |-> FALSE] \in TpData
    <2>1. RwInterest(op, fl) \in Regs
      BY DEF RwInterest, Regs
    <2>2. TimerWord(fl) \in TpData
      BY DEF TimerWord, TypeOK, TpData
    <2>3. [tfd |-> FALSE, ev |-> "RW", fl |-> fl, dis |-> op = "DISABLE"] \in TpData
      BY DEF TpData
    <2>4. [tfd |-> TRUE, ev |-> "PROC", fl |-> fl, dis |-> FALSE] \in TpData
      BY DEF TpData
    <2> QED
      BY <2>1, <2>2, <2>3, <2>4
  <1>3. \A b \in BOOLEAN :
           [on |-> TRUE, in |-> TRUE, hup |-> FALSE, once |-> b, et |-> FALSE] \in Regs
    BY DEF Regs
  <1>4. [tpdata EXCEPT !.dis = TRUE] \in TpData
    BY DEF TypeOK, TpData
  <1> QED
    BY <1>1, <1>2, <1>3, <1>4

\* What a step of the owner is: one call of tpt_ev_post() while no thread is
\* between epoll_wait() and the callback.
LEMMA OwnerCalls ==
    ASSUME TypeOK, Owner, ~NewFlags
    PROVE  \E op \in {"ADD", "ENABLE", "DISABLE", "DEL"}, fl \in FlagSets,
              data \in {0, 1}, asked \in FlagSets :
             /\ Post(op, fl, data, asked) /\ MayCall
             /\ op \in {"ADD", "ENABLE"} => asked = fl /\ (kind # "RW" => data = 1)
             /\ op = "ADD" /\ tpdata.ev = "TIMER" => fl = tpdata.fl
             /\ op = "ENABLE" => want # "none" /\ fl = wfl
             /\ op = "DISABLE" => asked = wfl
  <1>1. {} \in FlagSets /\ wfl \in FlagSets
    BY DEF TypeOK, FlagSets
  <1>2. CASE Add
    <2>1. PICK fl \in AddFlags :
             /\ tpdata.ev = "TIMER" => NewFlags \/ fl = tpdata.fl
             /\ Validate(fl) /\ MayCall /\ Post("ADD", fl, 1, fl)
      BY <1>2 DEF Add
    <2>2. fl \in FlagSets
      BY <2>1, ValidFlags
    <2> QED
      BY <2>1, <2>2
  <1>3. CASE Enable
    BY <1>1, <1>3 DEF Enable
  <1>4. CASE EnableArgs1
    BY <1>1, <1>4 DEF EnableArgs1
  <1>5. CASE Disable
    BY <1>1, <1>5 DEF Disable
  <1>6. CASE Del
    BY <1>1, <1>6 DEF Del
  <1> QED
    BY <1>2, <1>3, <1>4, <1>5, <1>6 DEF Owner

\* What tpt_ev_post() writes.
LEMMA PostType ==
    ASSUME TypeOK, NEW op, NEW fl \in FlagSets, NEW data, NEW asked \in FlagSets,
           Post(op, fl, data, asked)
    PROVE  TypeOK'
  <1>1. {} \in FlagSets /\ {ONESHOT} \in FlagSets
    BY DEF FlagSets
  <1>2. UNCHANGED <<kind, virt, hup, pol>>
    BY DEF Post, fixed
  <1>3. /\ tpdata \in TpData /\ reg \in Regs
        /\ tmr \in {"off", "once", "per"} /\ ready \in BOOLEAN
    BY DEF TypeOK, Regs
  <1>4. PostRw(op, fl, asked) \/ PostTimer(op, fl, data, asked) \/ PostProc(op, fl, asked)
    BY DEF Post
  <1>5. want' \in {"none", "on", "off"} /\ wfl' \in FlagSets /\ calls' = 0
    <2>1. \E w \in {"none", "on", "off"}, f \in FlagSets : Wants(w, f)
      BY <1>1, <1>4 DEF PostRw, PostTimer, PostProc
    <2> QED
      BY <2>1 DEF Wants
  <1>6. tmr' \in {"off", "once", "per"} /\ ready' \in BOOLEAN
    BY <1>3, <1>4 DEF PostRw, PostTimer, PostProc, TimerOff, TimerSet, kvars
  <1>7. tpdata' \in TpData
    BY <1>3, <1>4, WordTypes DEF PostRw, PostTimer, PostProc
  <1>8. reg' \in Regs
    BY <1>3, <1>4, WordTypes DEF PostRw, PostTimer, PostProc, kvars
  <1> QED
    BY <1>2, <1>5, <1>6, <1>7, <1>8 DEF TypeOK, CallsBound, Regs

\* What a step of a loop does to the threads: only p moves.
LEMMA LoopMoves ==
    ASSUME TypeOK, NEW p \in Threads, Loop(p)
    PROVE  /\ \A q \in Threads : q # p => pol'[q] = pol[q]
           /\ UNCHANGED <<kind, virt, hup>>
           /\ pol' \in [Threads -> [pc : {"wait", "got", "mark", "handle", "cb"},
                                    ev : {"RW", "TIMER", "PROC"}, fl : FlagSets]]
  <1>1. UNCHANGED <<kind, virt, hup>>
    BY DEF Loop, Wait, Check, Mark, Handle, Return, fixed
  <1>2. \A q \in Threads : q # p => pol'[q] = pol[q]
    BY DEF Loop, Wait, Check, Mark, Handle, Called, Return, TypeOK
  <1>3. pol' \in [Threads -> [pc : {"wait", "got", "mark", "handle", "cb"},
                              ev : {"RW", "TIMER", "PROC"}, fl : FlagSets]]
    <2>1. CASE Wait(p)
      BY <2>1 DEF Wait, TypeOK
    <2>2. CASE Check(p)
      BY <2>2 DEF Check, TypeOK, TpData, Idle, FlagSets
    <2>3. CASE Mark(p)
      BY <2>3 DEF Mark, TypeOK
    <2>4. CASE Handle(p)
      BY <2>4 DEF Handle, Called, TypeOK
    <2>5. CASE Return(p)
      BY <2>5 DEF Return, TypeOK, Idle, FlagSets
    <2> QED
      BY <2>1, <2>2, <2>3, <2>4, <2>5 DEF Loop
  <1> QED
    BY <1>1, <1>2, <1>3

\* Every step keeps the types.
LEMMA TypeStep ==
    ASSUME TypeOK, ~NewFlags, [Next]_vars
    PROVE  TypeOK'
  <1>1. CASE Owner
    BY <1>1, OwnerCalls, PostType
  <1>2. CASE World
    BY <1>2 DEF World, Arrive, HangUp, Expire, ProcExit, TypeOK, avars, fixed
  <1>3. ASSUME NEW p \in Threads, Loop(p) PROVE TypeOK'
    <2>1. /\ UNCHANGED <<kind, virt, hup>>
          /\ pol' \in [Threads -> [pc : {"wait", "got", "mark", "handle", "cb"},
                                   ev : {"RW", "TIMER", "PROC"}, fl : FlagSets]]
      BY <1>3, LoopMoves
    <2>2. tpdata' \in TpData
      <3>1. tpdata' \in {tpdata, Zero, [tpdata EXCEPT !.dis = TRUE]}
        BY <1>3 DEF Loop, Wait, Check, Mark, Handle, Return
      <3> QED
        BY <3>1, WordTypes DEF TypeOK
    <2>3. reg' \in Regs
      <3>1. reg' \in {reg, NoReg, [reg EXCEPT !.in = FALSE, !.hup = FALSE],
                      [reg EXCEPT !.hup = FALSE]}
        BY <1>3 DEF Loop, Wait, Check, Mark, Handle, Return, kvars
      <3>2. reg \in Regs
        BY DEF TypeOK, Regs
      <3>3. [reg EXCEPT !.in = FALSE, !.hup = FALSE] \in Regs
            /\ [reg EXCEPT !.hup = FALSE] \in Regs
        BY <3>2 DEF Regs
      <3> QED
        BY <3>1, <3>2, <3>3, WordTypes
    <2>4. tmr' \in {"off", "once", "per"} /\ ready' \in BOOLEAN
      BY <1>3 DEF Loop, Wait, Check, Mark, Handle, Return, TypeOK, kvars
    <2>5. want' \in {"none", "on", "off"} /\ wfl' \in FlagSets /\ calls' \in 0 .. CallsBound
      <3>1. \/ UNCHANGED <<want, wfl, calls>>
            \/ want' = After(want, wfl) /\ wfl' = wfl /\ calls' = CallsInc(calls)
        BY <1>3 DEF Loop, Wait, Check, Mark, Handle, Called, Return, avars
      <3>2. After(want, wfl) \in {"none", "on", "off"}
        BY DEF TypeOK, After
      <3>3. CallsInc(calls) \in 0 .. CallsBound
        BY DEF TypeOK, CallsInc, CallsBound
      <3> QED
        BY <3>1, <3>2, <3>3 DEF TypeOK
    <2> QED
      BY <2>1, <2>2, <2>3, <2>4, <2>5 DEF TypeOK, Regs
  <1>4. CASE UNCHANGED vars
    BY <1>4 DEF vars, TypeOK
  <1> QED
    BY <1>1, <1>2, <1>3, <1>4 DEF Next

-----------------------------------------------------------------------------
(* What the steps of tpt_loop() do, whatever the kind of the event: thread *)
(* p moves and the others stay where they are.                             *)

LEMMA WaitFacts ==
    ASSUME TypeOK, NEW p \in Threads, Wait(p)
    PROVE  /\ UNCHANGED <<kind, virt, want, wfl, tpdata, tmr, ready>>
           /\ pol[p].pc = "wait" /\ pol'[p].pc = "got"
           /\ ~Busy(p) /\ Busy(p)' /\ ~Taken(p)' /\ ~NoneBusy' /\ (Marked => Marked')
           /\ reg.on /\ (~reg.hup => reg.in /\ ready) /\ (reg.in \/ reg.hup)
           /\ reg' = IF reg.once THEN [reg EXCEPT !.in = FALSE, !.hup = FALSE]
                     ELSE IF reg.et THEN [reg EXCEPT !.hup = FALSE] ELSE reg
           /\ \A q \in Threads : q # p => /\ pol'[q] = pol[q]
                                          /\ Busy(q)' <=> Busy(q)
                                          /\ Taken(q)' <=> Taken(q)
  <1>0. DOMAIN pol = Threads /\ reg \in Regs
    BY DEF TypeOK, Regs
  <1>1. UNCHANGED <<kind, virt, want, wfl, tpdata, tmr, ready>>
    BY DEF Wait, fixed, avars
  <1>2. /\ pol[p].pc = "wait" /\ pol'[p].pc = "got"
        /\ \A q \in Threads : q # p => pol'[q] = pol[q]
    BY <1>0 DEF Wait
  <1>3. /\ reg.on /\ (~reg.hup => reg.in /\ ready) /\ (reg.in \/ reg.hup)
        /\ reg' = IF reg.once THEN [reg EXCEPT !.in = FALSE, !.hup = FALSE]
                  ELSE IF reg.et THEN [reg EXCEPT !.hup = FALSE] ELSE reg
    BY <1>0 DEF Wait, Reports, Regs
  <1>4. /\ ~Busy(p) /\ Busy(p)' /\ ~Taken(p)'
        /\ \A q \in Threads : q # p => (Busy(q)' <=> Busy(q)) /\ (Taken(q)' <=> Taken(q))
    BY <1>2 DEF Busy, Taken
  <1>5. ~NoneBusy' /\ (Marked => Marked')
    BY <1>2, <1>4 DEF NoneBusy, Marked
  <1> QED
    BY <1>1, <1>2, <1>3, <1>4, <1>5

LEMMA CheckFacts ==
    ASSUME TypeOK, NEW p \in Threads, Check(p)
    PROVE  /\ UNCHANGED <<kind, virt, want, wfl, tpdata, reg, tmr, ready>>
           /\ pol[p].pc = "got" /\ Busy(p) /\ ~Taken(p) /\ ~NoneBusy /\ (Marked => Marked')
           /\ tpdata.dis => pol'[p] = Idle /\ ~Busy(p)' /\ ~Taken(p)'
           /\ ~tpdata.dis =>
                 /\ pol'[p] = [pc |-> "mark", ev |-> tpdata.ev, fl |-> tpdata.fl]
                 /\ Busy(p)' /\ Taken(p)' /\ ~NoneBusy'
           /\ \A q \in Threads : q # p => /\ pol'[q] = pol[q]
                                          /\ Busy(q)' <=> Busy(q)
                                          /\ Taken(q)' <=> Taken(q)
  <1>0. DOMAIN pol = Threads /\ tpdata.dis \in BOOLEAN
    BY DEF TypeOK, TpData
  <1>1. UNCHANGED <<kind, virt, want, wfl, tpdata, reg, tmr, ready>>
    BY DEF Check, fixed, avars, kvars
  <1>2. pol[p].pc = "got" /\ \A q \in Threads : q # p => pol'[q] = pol[q]
    BY <1>0 DEF Check
  <1>3. /\ tpdata.dis => pol'[p] = Idle
        /\ ~tpdata.dis => pol'[p] = [pc |-> "mark", ev |-> tpdata.ev, fl |-> tpdata.fl]
    BY <1>0 DEF Check
  <1>4. /\ Busy(p) /\ ~Taken(p)
        /\ \A q \in Threads : q # p => (Busy(q)' <=> Busy(q)) /\ (Taken(q)' <=> Taken(q))
    BY <1>2 DEF Busy, Taken
  <1>5. tpdata.dis => ~Busy(p)' /\ ~Taken(p)'
    BY <1>3 DEF Busy, Taken, Idle
  <1>6. ~tpdata.dis => Busy(p)' /\ Taken(p)'
    BY <1>3 DEF Busy, Taken
  <1>7. ~NoneBusy /\ (~tpdata.dis => ~NoneBusy') /\ (Marked => Marked')
    BY <1>2, <1>4, <1>6 DEF NoneBusy, Marked
  <1> QED
    BY <1>1, <1>2, <1>3, <1>4, <1>5, <1>6, <1>7

LEMMA MarkFacts ==
    ASSUME TypeOK, NEW p \in Threads, Mark(p)
    PROVE  /\ UNCHANGED <<kind, virt, want, wfl, reg, tmr, ready>>
           /\ pol[p].pc = "mark" /\ pol'[p].pc = "handle"
           /\ pol'[p].ev = pol[p].ev /\ pol'[p].fl = pol[p].fl
           /\ Busy(p) /\ Taken(p) /\ Busy(p)' /\ Taken(p)'
           /\ ~NoneBusy /\ ~NoneBusy' /\ Marked'
           /\ tpdata'.tfd = tpdata.tfd /\ tpdata'.ev = tpdata.ev /\ tpdata'.fl = tpdata.fl
           /\ tpdata'.dis => tpdata.dis \/ DISPATCH \in pol[p].fl
           /\ DISPATCH \in pol[p].fl \/ tpdata.dis => tpdata'.dis
           /\ DISPATCH \notin pol[p].fl => tpdata' = tpdata
           /\ \A q \in Threads : q # p => /\ pol'[q] = pol[q]
                                          /\ Busy(q)' <=> Busy(q)
                                          /\ Taken(q)' <=> Taken(q)
  <1>0. /\ DOMAIN pol = Threads /\ tpdata \in TpData
        /\ pol[p] \in [pc : {"wait", "got", "mark", "handle", "cb"},
                       ev : {"RW", "TIMER", "PROC"}, fl : FlagSets]
    BY DEF TypeOK
  <1>1. /\ UNCHANGED <<kind, virt, want, wfl, reg, tmr, ready>>
        /\ pol[p].pc = "mark"
        /\ pol'[p] = [pol[p] EXCEPT !.pc = "handle"]
        /\ \A q \in Threads : q # p => pol'[q] = pol[q]
        /\ tpdata' = IF DISPATCH \in pol[p].fl THEN [tpdata EXCEPT !.dis = TRUE] ELSE tpdata
    BY <1>0 DEF Mark, fixed, avars, kvars
  <1>2. pol'[p].pc = "handle" /\ pol'[p].ev = pol[p].ev /\ pol'[p].fl = pol[p].fl
    BY <1>0, <1>1
  <1>3. /\ Busy(p) /\ Taken(p) /\ Busy(p)' /\ Taken(p)'
        /\ ~NoneBusy /\ ~NoneBusy' /\ Marked'
        /\ \A q \in Threads : q # p => (Busy(q)' <=> Busy(q)) /\ (Taken(q)' <=> Taken(q))
    BY <1>1, <1>2 DEF Busy, Taken, NoneBusy, Marked
  <1>4. /\ tpdata'.tfd = tpdata.tfd /\ tpdata'.ev = tpdata.ev /\ tpdata'.fl = tpdata.fl
        /\ tpdata'.dis => tpdata.dis \/ DISPATCH \in pol[p].fl
        /\ DISPATCH \in pol[p].fl \/ tpdata.dis => tpdata'.dis
        /\ DISPATCH \notin pol[p].fl => tpdata' = tpdata
    BY <1>0, <1>1 DEF TpData
  <1> QED
    BY <1>1, <1>2, <1>3, <1>4

LEMMA HandleFacts ==
    ASSUME TypeOK, NEW p \in Threads, Handle(p)
    PROVE  /\ UNCHANGED <<kind, virt, wfl>> /\ want' = After(want, wfl)
           /\ pol[p].pc = "handle" /\ Busy(p) /\ Taken(p) /\ ~NoneBusy
           /\ pol'[p].pc = "cb" /\ ~Busy(p)' /\ ~Taken(p)'
           /\ \A q \in Threads : q # p => /\ pol'[q] = pol[q]
                                          /\ Busy(q)' <=> Busy(q)
                                          /\ Taken(q)' <=> Taken(q)
  <1>0. DOMAIN pol = Threads
    BY DEF TypeOK
  <1>1. UNCHANGED <<kind, virt, wfl>> /\ want' = After(want, wfl)
    BY DEF Handle, Called, fixed
  <1>2. /\ pol[p].pc = "handle" /\ pol'[p].pc = "cb"
        /\ \A q \in Threads : q # p => pol'[q] = pol[q]
    BY <1>0 DEF Handle, Called
  <1>3. /\ Busy(p) /\ Taken(p) /\ ~NoneBusy /\ ~Busy(p)' /\ ~Taken(p)'
        /\ \A q \in Threads : q # p => (Busy(q)' <=> Busy(q)) /\ (Taken(q)' <=> Taken(q))
    BY <1>2 DEF Busy, Taken, NoneBusy
  <1> QED
    BY <1>1, <1>2, <1>3

LEMMA ReturnFacts ==
    ASSUME TypeOK, NEW p \in Threads, Return(p)
    PROVE  /\ UNCHANGED <<kind, virt, want, wfl, tpdata, reg, tmr>>
           /\ kind # "RW" => ready' = ready
           /\ NoneBusy' <=> NoneBusy
           /\ Marked' <=> Marked
           /\ \A q \in Threads : /\ Busy(q)' <=> Busy(q)
                                 /\ Taken(q)' <=> Taken(q)
                                 /\ pol'[q].pc = "handle" <=> pol[q].pc = "handle"
                                 /\ Taken(q) => pol'[q] = pol[q]
  <1>0. DOMAIN pol = Threads
    BY DEF TypeOK
  <1>1. /\ UNCHANGED <<kind, virt, want, wfl, tpdata, reg, tmr>>
        /\ kind # "RW" => ready' = ready
    BY DEF Return, fixed, avars
  <1>2. pol[p].pc = "cb" /\ pol'[p] = Idle /\ \A q \in Threads : q # p => pol'[q] = pol[q]
    BY <1>0 DEF Return
  <1>3. \A q \in Threads : /\ Busy(q)' <=> Busy(q)
                           /\ Taken(q)' <=> Taken(q)
                           /\ pol'[q].pc = "handle" <=> pol[q].pc = "handle"
                           /\ Taken(q) => pol'[q] = pol[q]
    BY <1>2 DEF Busy, Taken, Idle
  <1>4. (NoneBusy' <=> NoneBusy) /\ (Marked' <=> Marked)
    BY <1>3 DEF NoneBusy, Marked
  <1> QED
    BY <1>1, <1>3, <1>4

\* No thread is busy when the owner may call.
LEMMA CallIsIdle == MayCall => NoneBusy
  BY DEF MayCall, NoneBusy, Busy

\* Only its own thread serves an event of a pool thread.
LEMMA SoloStep ==
    ASSUME TypeOK, SoloInv, [Next]_vars
    PROVE  SoloInv'
  <1>1. CASE UNCHANGED <<virt, pol>>
    BY <1>1 DEF SoloInv
  <1>2. CASE Owner \/ World \/ UNCHANGED vars
    BY <1>1, <1>2 DEF Owner, Add, Enable, EnableArgs1, Disable, Del, Post, World, Arrive,
       HangUp, Expire, ProcExit, vars, fixed
  <1>3. ASSUME NEW p \in Threads, Loop(p) PROVE SoloInv'
    <2>1. virt' = virt /\ \A q \in Threads : q # p => pol'[q] = pol[q]
      BY <1>3, LoopMoves
    <2>2. virt \/ p = 0 \/ pol[p].pc # "wait"
      BY <1>3 DEF Loop, Wait, Check, Mark, Handle, Return
    <2> QED
      BY <2>1, <2>2 DEF SoloInv
  <1> QED
    BY <1>2, <1>3 DEF Next

\* Every step keeps what is known of a read or write event.
LEMMA RwStep ==
    ASSUME IInv, ~NewFlags, kind = "RW", [Next]_vars
    PROVE  RwInv' /\ UniqueInv'
  <1>t. TypeOK /\ RwInv /\ UniqueInv
    BY DEF IInv
  <1>b. /\ reg \in Regs /\ tpdata \in TpData /\ wfl \in FlagSets /\ virt \in BOOLEAN
        /\ want \in {"none", "on", "off"} /\ DOMAIN pol = Threads
    BY <1>t DEF TypeOK, Regs
  <1>1. CASE Owner
    <2>1. PICK op \in {"ADD", "ENABLE", "DISABLE", "DEL"}, fl \in FlagSets,
               data \in {0, 1}, asked \in FlagSets :
             /\ Post(op, fl, data, asked) /\ MayCall
             /\ op \in {"ADD", "ENABLE"} => asked = fl /\ (kind # "RW" => data = 1)
      BY <1>t, <1>1, OwnerCalls
    <2>2. NoneBusy /\ UNCHANGED <<kind, virt, pol>> /\ PostRw(op, fl, asked)
      BY <2>1, CallIsIdle DEF Post, fixed
    <2>3. \A p \in Threads : ~Busy(p)' /\ ~Taken(p)'
      BY <2>2 DEF NoneBusy, Busy, Taken
    <2>4. NoneBusy'
      BY <2>3 DEF NoneBusy
    <2>5. UniqueInv'
      BY <2>3 DEF UniqueInv
    <2>6. RwInv'
      <3>1. tmr' = "off" /\ \A p \in Threads : ~(pol'[p].pc = "handle")
        BY <1>t, <2>2, <2>3 DEF PostRw, RwInv, kvars, Taken
      <3>2. CASE /\ tpdata' = Zero /\ want' = "none"
                 /\ reg' = NoReg \/ (reg' = reg /\ ~reg.on)
        BY <1>t, <2>2, <2>3, <3>1, <3>2 DEF RwInv, NoReg, Zero
      <3>3. CASE /\ op \in {"ADD", "ENABLE", "DISABLE"}
                 /\ tpdata' = [tfd |-> FALSE, ev |-> "RW", fl |-> fl, dis |-> op = "DISABLE"]
                 /\ reg' = RwInterest(op, fl)
                 /\ Wants(IF op = "DISABLE" THEN "off" ELSE "on", asked)
        <4>1. CASE op = "DISABLE"
          BY <2>2, <2>3, <3>1, <3>3, <4>1 DEF RwInv, RwInterest, Wants
        <4>2. CASE op \in {"ADD", "ENABLE"}
          BY <2>1, <2>2, <2>3, <2>4, <3>1, <3>3, <4>2 DEF RwInv, RwInterest, Wants, OneTime
        <4> QED
          BY <3>3, <4>1, <4>2
      <3> QED
        BY <2>2, <3>2, <3>3 DEF PostRw, Wants, kvars
    <2> QED
      BY <2>5, <2>6
  <1>2. CASE World \/ UNCHANGED vars
    <2>1. UNCHANGED <<kind, virt, pol, want, wfl, tpdata, reg, tmr>>
      BY <1>t, <1>2 DEF World, Arrive, HangUp, Expire, ProcExit, vars, avars, fixed, RwInv
    <2> QED
      BY <1>t, <2>1 DEF RwInv, UniqueInv, NoneBusy, Busy, Taken, Marked
  <1>3. ASSUME NEW p \in Threads, Wait(p) PROVE RwInv' /\ UniqueInv'
    <2>1. want # "none" /\ (want = "on" /\ wfl # {} => NoneBusy)
      BY <1>t, <1>3, WaitFacts DEF RwInv
    <2>2. UniqueInv'
      BY <1>t, <1>3, <2>1, WaitFacts DEF UniqueInv, NoneBusy
    <2>3. RwInv'
      BY <1>t, <1>b, <1>3, <2>1, WaitFacts, ZenonT(60) DEF RwInv, Regs
    <2> QED
      BY <2>2, <2>3
  <1>4. ASSUME NEW p \in Threads, Check(p) PROVE RwInv' /\ UniqueInv'
    <2>1. want # "none" /\ (tpdata.dis <=> want = "off")
      <3>1. want = "on" /\ tpdata.dis => FALSE
        BY <1>t, <1>4, CheckFacts DEF RwInv, UniqueInv, Marked, Busy
      <3> QED
        BY <1>t, <1>b, <1>4, <3>1, CheckFacts DEF RwInv
    <2>2. CASE want = "off"
      <3>1. pol'[p].pc # "handle"
        BY <1>t, <1>4, <2>1, <2>2, CheckFacts DEF Idle
      <3> QED
        BY <1>t, <1>4, <2>1, <2>2, <3>1, CheckFacts DEF RwInv, UniqueInv
    <2>3. CASE want = "on"
      <3>1. pol'[p] = [pc |-> "mark", ev |-> "RW", fl |-> wfl]
        BY <1>t, <1>4, <2>1, <2>3, CheckFacts DEF RwInv
      <3> QED
        BY <1>t, <1>4, <2>1, <2>3, <3>1, CheckFacts DEF RwInv, UniqueInv
    <2> QED
      BY <1>b, <2>1, <2>2, <2>3
  <1>5. ASSUME NEW p \in Threads, Mark(p) PROVE RwInv' /\ UniqueInv'
    <2>1. want = "on" /\ pol[p].ev = "RW" /\ pol[p].fl = wfl
      BY <1>t, <1>5, MarkFacts DEF RwInv
    <2>2. UniqueInv'
      BY <1>t, <1>5, MarkFacts DEF UniqueInv
    <2>3. RwInv'
      BY <1>t, <1>5, <2>1, MarkFacts DEF RwInv
    <2> QED
      BY <2>2, <2>3
  <1>6. ASSUME NEW p \in Threads, Handle(p) PROVE RwInv' /\ UniqueInv'
    <2>1. pol[p].pc = "handle" /\ Busy(p) /\ Taken(p)
      BY <1>t, <1>6, HandleFacts
    <2>2. want = "on" /\ pol[p].ev = "RW" /\ pol[p].fl = wfl
      BY <1>t, <2>1 DEF RwInv
    <2>3. /\ UNCHANGED <<kind, virt, wfl, tmr>>
          /\ want' = After(want, wfl)
          /\ IF ONESHOT \in wfl
             THEN tpdata' = Zero /\ reg' = (IF OwnEpoll THEN NoReg ELSE reg)
             ELSE UNCHANGED <<tpdata, reg>>
      BY <1>6, <2>2 DEF Handle, Called, fixed
    <2>4. /\ pol'[p].pc = "cb" /\ ~Busy(p)' /\ ~Taken(p)'
          /\ \A q \in Threads : q # p => /\ pol'[q] = pol[q]
                                         /\ Busy(q)' <=> Busy(q)
                                         /\ Taken(q)' <=> Taken(q)
      BY <1>t, <1>6, HandleFacts
    <2>5. CASE wfl = {}
      <3>1. UNCHANGED <<tpdata, reg>> /\ want' = "on"
        BY <2>2, <2>3, <2>5 DEF After
      <3> QED
        BY <1>t, <2>2, <2>3, <2>4, <2>5, <3>1 DEF RwInv, UniqueInv
    <2>6. CASE wfl # {}
      <3>1. \A q \in Threads : ~Busy(q)' /\ ~Taken(q)' /\ pol'[q].pc # "handle"
        BY <1>t, <2>1, <2>2, <2>4, <2>6 DEF UniqueInv, Busy, Taken
      <3>2. ~reg.in /\ ~reg.hup /\ ~reg.et
        BY <1>t, <2>1, <2>2, <2>6 DEF RwInv, NoneBusy
      <3>3. CASE ONESHOT \in wfl
        <4>1. want' = "none" /\ tpdata' = Zero /\ reg' = (IF virt THEN reg ELSE NoReg)
          BY <2>3, <3>3 DEF After, OwnEpoll
        <4> QED
          BY <1>t, <2>3, <3>1, <3>2, <4>1 DEF RwInv, UniqueInv, NoReg, Zero
      <3>4. CASE ONESHOT \notin wfl
        <4>1. DISPATCH \in wfl
          BY <1>b, <2>6, <3>4 DEF FlagSets
        <4>2. want' = "off" /\ UNCHANGED <<tpdata, reg>>
          BY <2>3, <3>4, <4>1 DEF After
        <4>3. tpdata.dis
          BY <1>t, <2>1, <4>1 DEF RwInv
        <4> QED
          BY <1>t, <2>3, <3>1, <3>2, <4>2, <4>3 DEF RwInv, UniqueInv
      <3> QED
        BY <3>3, <3>4
    <2> QED
      BY <2>5, <2>6
  <1>7. ASSUME NEW p \in Threads, Return(p) PROVE RwInv' /\ UniqueInv'
    BY <1>t, <1>7, ReturnFacts DEF RwInv, UniqueInv
  <1> QED
    BY <1>1, <1>2, <1>3, <1>4, <1>5, <1>6, <1>7 DEF Next, Loop

\* Every step keeps what is known of the exit of a process.
LEMMA ProcStep ==
    ASSUME IInv, ~NewFlags, kind = "PROC", [Next]_vars
    PROVE  ProcInv' /\ UniqueInv'
  <1>t. TypeOK /\ ProcInv /\ UniqueInv
    BY DEF IInv
  <1>b. /\ reg \in Regs /\ tpdata \in TpData /\ want \in {"none", "on", "off"}
        /\ \A q \in Threads : Busy(q) => want = "on"
    BY <1>t DEF TypeOK, Regs, ProcInv
  <1>u. \A p, q \in Threads : Busy(p) /\ Busy(q) => p = q
    BY <1>t, <1>b DEF ProcInv, UniqueInv
  <1>1. CASE Owner
    <2>1. PICK op \in {"ADD", "ENABLE", "DISABLE", "DEL"}, fl \in FlagSets,
               data \in {0, 1}, asked \in FlagSets :
             Post(op, fl, data, asked) /\ MayCall
      BY <1>t, <1>1, OwnerCalls
    <2>2. NoneBusy /\ UNCHANGED <<kind, virt, pol>> /\ PostProc(op, fl, asked)
      BY <2>1, CallIsIdle DEF Post, fixed
    <2>3. \A p \in Threads : ~Busy(p)' /\ ~Taken(p)'
      BY <2>2 DEF NoneBusy, Busy, Taken
    <2>4. NoneBusy' /\ UniqueInv'
      BY <2>3 DEF NoneBusy, UniqueInv
    <2>5. CASE /\ tpdata' = Zero /\ want' = "none" /\ tmr' = tmr
               /\ reg' = NoReg \/ (reg' = reg /\ ~tpdata.tfd)
      <3>1. reg' = NoReg
        BY <1>t, <1>b, <2>5 DEF ProcInv
      <3> QED
        BY <1>t, <2>2, <2>3, <2>4, <2>5, <3>1 DEF ProcInv, NoReg
    <2>6. CASE /\ tpdata' = [tfd |-> TRUE, ev |-> "PROC", fl |-> fl, dis |-> FALSE]
               /\ reg' = [on |-> TRUE, in |-> TRUE, hup |-> FALSE, once |-> TRUE, et |-> FALSE]
               /\ Wants("on", {ONESHOT}) /\ tmr' = tmr
      BY <1>t, <2>2, <2>3, <2>4, <2>6 DEF ProcInv, Wants
    <2> QED
      BY <2>2, <2>5, <2>6 DEF PostProc, Wants, kvars
  <1>2. CASE World \/ UNCHANGED vars
    <2>1. UNCHANGED <<kind, virt, pol, want, wfl, tpdata, reg, tmr>>
      BY <1>t, <1>2 DEF World, Arrive, HangUp, Expire, ProcExit, vars, avars, fixed, ProcInv
    <2> QED
      BY <1>t, <2>1 DEF ProcInv, UniqueInv, NoneBusy, Busy, Taken, Marked
  <1>3. ASSUME NEW p \in Threads, Wait(p) PROVE ProcInv' /\ UniqueInv'
    <2>1. want = "on" /\ reg.in /\ NoneBusy /\ reg.once
      BY <1>t, <1>b, <1>3, WaitFacts DEF ProcInv, NoReg
    <2>2. UniqueInv'
      BY <1>t, <1>3, <2>1, WaitFacts DEF UniqueInv, NoneBusy
    <2>3. ProcInv'
      BY <1>t, <1>b, <1>3, <2>1, WaitFacts DEF ProcInv, Regs
    <2> QED
      BY <2>2, <2>3
  <1>4. ASSUME NEW p \in Threads, Check(p) PROVE ProcInv' /\ UniqueInv'
    <2>1. want = "on"
      BY <1>t, <1>b, <1>4, CheckFacts
    <2>2. ~tpdata.dis
      BY <1>t, <1>u, <1>4, <2>1, CheckFacts DEF ProcInv, Marked, Busy
    <2>3. pol'[p] = [pc |-> "mark", ev |-> "PROC", fl |-> tpdata.fl]
      BY <1>t, <1>4, <2>1, <2>2, CheckFacts DEF ProcInv
    <2> QED
      BY <1>t, <1>4, <2>1, <2>2, <2>3, CheckFacts DEF ProcInv, UniqueInv
  <1>5. ASSUME NEW p \in Threads, Mark(p) PROVE ProcInv' /\ UniqueInv'
    <2>1. want = "on" /\ pol[p].ev = "PROC"
      BY <1>t, <1>b, <1>5, MarkFacts DEF ProcInv
    <2> QED
      BY <1>t, <1>5, <2>1, MarkFacts DEF ProcInv, UniqueInv
  <1>6. ASSUME NEW p \in Threads, Handle(p) PROVE ProcInv' /\ UniqueInv'
    <2>1. want = "on" /\ pol[p].ev = "PROC"
      BY <1>t, <1>b, <1>6, HandleFacts DEF ProcInv
    <2>2. tpdata' = Zero /\ reg' = NoReg /\ tmr' = tmr
      BY <1>6, <2>1 DEF Handle
    <2>3. want' = "none"
      BY <1>t, <1>6, <2>1, HandleFacts DEF ProcInv, After
    <2>4. \A q \in Threads : ~Busy(q)' /\ ~Taken(q)'
      <3>1. \A q \in Threads : ~Busy(q)'
        BY <1>t, <1>u, <1>6, HandleFacts
      <3> QED
        BY <3>1 DEF Busy, Taken
    <2> QED
      BY <1>t, <1>6, <2>2, <2>3, <2>4, HandleFacts DEF ProcInv, UniqueInv, NoReg
  <1>7. ASSUME NEW p \in Threads, Return(p) PROVE ProcInv' /\ UniqueInv'
    BY <1>t, <1>7, ReturnFacts DEF ProcInv, UniqueInv
  <1> QED
    BY <1>1, <1>2, <1>3, <1>4, <1>5, <1>6, <1>7 DEF Next, Loop

\* Every step keeps what is known of a timer.
LEMMA TimerStep ==
    ASSUME IInv, ~NewFlags, kind = "TIMER", [Next]_vars
    PROVE  TimerInv'
  <1>t. TypeOK /\ SoloInv /\ TimerInv
    BY DEF IInv
  <1>b. /\ reg \in Regs /\ tpdata \in TpData /\ wfl \in FlagSets /\ virt \in BOOLEAN
        /\ want \in {"none", "on", "off"}
    BY <1>t DEF TypeOK, Regs
  <1>w. wfl = {} \/ wfl = {ONESHOT} \/ wfl = {DISPATCH}
    BY <1>b DEF FlagSets
  <1>1. CASE Owner
    <2>1. PICK op \in {"ADD", "ENABLE", "DISABLE", "DEL"}, fl \in FlagSets,
               data \in {0, 1}, asked \in FlagSets :
             /\ Post(op, fl, data, asked) /\ MayCall
             /\ op \in {"ADD", "ENABLE"} => asked = fl /\ (kind # "RW" => data = 1)
             /\ op = "ADD" /\ tpdata.ev = "TIMER" => fl = tpdata.fl
             /\ op = "ENABLE" => want # "none" /\ fl = wfl
             /\ op = "DISABLE" => asked = wfl
      BY <1>t, <1>1, OwnerCalls
    <2>2. NoneBusy /\ UNCHANGED <<kind, virt, pol>> /\ PostTimer(op, fl, data, asked)
      BY <2>1, CallIsIdle DEF Post, fixed
    <2>3. \A p \in Threads : ~Busy(p)' /\ ~Taken(p)' /\ pol'[p].pc # "handle"
      BY <2>2 DEF NoneBusy, Busy, Taken
    <2>4. NoneBusy'
      BY <2>3 DEF NoneBusy
    <2>5. CASE /\ tpdata' = Zero /\ reg' = NoReg /\ TimerOff /\ Wants("none", {})
      BY <2>2, <2>3, <2>5 DEF TimerInv, TimerOff, Wants, NoReg
    <2>6. CASE /\ op = "DISABLE" /\ tpdata.tfd
               /\ tpdata' = [tpdata EXCEPT !.dis = TRUE]
               /\ TimerOff /\ reg' = reg /\ Wants("off", asked)
      <3>1. want # "none"
        BY <1>t, <2>6 DEF TimerInv, Zero
      <3>2. tpdata.tfd = TRUE /\ tpdata.ev = "TIMER" /\ tpdata.fl = wfl
        BY <1>t, <1>b, <3>1 DEF TimerInv, TpData
      <3>3. tpdata' = [tfd |-> TRUE, ev |-> "TIMER", fl |-> wfl, dis |-> TRUE]
        BY <1>b, <2>6, <3>2 DEF TpData
      <3> QED
        BY <1>t, <2>1, <2>2, <2>3, <2>6, <3>3 DEF TimerInv, TimerOff, Wants
    <2>7. CASE /\ op = "DISABLE" /\ ~tpdata.tfd /\ Wants("none", {})
               /\ UNCHANGED <<tpdata, reg, tmr, ready>>
      <3>1. want = "none"
        BY <1>t, <1>b, <2>7 DEF TimerInv
      <3> QED
        BY <1>t, <2>2, <2>3, <2>7, <3>1 DEF TimerInv, Wants
    <2>8. CASE /\ op \in {"ADD", "ENABLE"}
               /\ tpdata' = TimerWord(fl)
               /\ reg' = [on |-> TRUE, in |-> TRUE, hup |-> FALSE, once |-> FALSE, et |-> FALSE]
               /\ tmr' = TimerSet(fl, data) /\ ready' = FALSE
               /\ Wants("on", asked)
      <3>1. tpdata' = [tfd |-> TRUE, ev |-> "TIMER", fl |-> fl, dis |-> FALSE]
        <4>1. CASE tpdata.tfd
          <5>1. want # "none"
            BY <1>t, <4>1 DEF TimerInv, Zero
          <5>2. tpdata.tfd = TRUE /\ tpdata.ev = "TIMER" /\ tpdata.fl = wfl
            BY <1>t, <1>b, <5>1 DEF TimerInv, TpData
          <5>3. fl = wfl
            BY <2>1, <2>8, <5>2
          <5> QED
            BY <1>b, <2>8, <4>1, <5>2, <5>3 DEF TimerWord, TpData
        <4>2. CASE ~tpdata.tfd
          BY <2>8, <4>2 DEF TimerWord
        <4> QED
          BY <4>1, <4>2
      <3>2. want' = "on" /\ wfl' = fl /\ ready' = FALSE
            /\ tmr' = IF fl = {} THEN "per" ELSE "once"
        BY <2>1, <2>8 DEF Wants, TimerSet, OneTime
      <3> QED
        BY <2>2, <2>3, <2>4, <2>8, <3>1, <3>2 DEF TimerInv
    <2> QED
      BY <2>2, <2>5, <2>6, <2>7, <2>8 DEF PostTimer
  <1>2. CASE World \/ UNCHANGED vars
    <2>1. UNCHANGED <<kind, virt, pol, want, wfl, tpdata, reg>>
      BY <1>2 DEF World, Arrive, HangUp, Expire, ProcExit, vars, avars, fixed
    <2>2. /\ NoneBusy' <=> NoneBusy
          /\ Marked' <=> Marked
          /\ \A p \in Threads : (Busy(p)' <=> Busy(p)) /\ (Taken(p)' <=> Taken(p))
      BY <2>1 DEF NoneBusy, Busy, Taken, Marked
    <2>3. \/ UNCHANGED <<tmr, ready>>
          \/ tmr # "off" /\ ready' = TRUE /\ tmr' = IF tmr = "once" THEN "off" ELSE tmr
      BY <1>2 DEF World, Arrive, HangUp, Expire, ProcExit, vars
    <2>4. CASE UNCHANGED <<tmr, ready>>
      BY <1>t, <2>1, <2>2, <2>4 DEF TimerInv
    <2>5. CASE tmr # "off" /\ ready' = TRUE /\ tmr' = IF tmr = "once" THEN "off" ELSE tmr
      <3>1. want = "on"
        BY <1>t, <2>5 DEF TimerInv
      <3>2. IF wfl = {} THEN tmr' = "per" ELSE tmr' = "off" /\ ready'
        BY <1>t, <2>5, <3>1 DEF TimerInv
      <3> QED
        BY <1>t, <2>1, <2>2, <3>1, <3>2 DEF TimerInv
    <2> QED
      BY <2>3, <2>4, <2>5
  <1>3. ASSUME NEW p \in Threads, Wait(p) PROVE TimerInv'
    <2>1. want = "on" /\ ready /\ reg' = reg
      BY <1>t, <1>b, <1>3, WaitFacts DEF TimerInv
    <2>2. pol'[p].pc # "handle"
      BY <1>t, <1>3, WaitFacts
    <2> QED
      BY <1>t, <1>3, <2>1, <2>2, WaitFacts DEF TimerInv
  <1>4. ASSUME NEW p \in Threads, Check(p) PROVE TimerInv'
    <2>1. CASE tpdata.dis
      <3>1. pol'[p].pc # "handle"
        BY <1>t, <1>4, <2>1, CheckFacts DEF Idle
      <3>2. want = "on" => ~(tmr = "once" /\ ~ready /\ NoneBusy)
        BY <1>t, <1>4, CheckFacts
      <3> QED
        BY <1>t, <1>4, <2>1, <3>1, <3>2, CheckFacts DEF TimerInv
    <2>2. CASE ~tpdata.dis
      <3>1. want # "off"
        BY <1>t, <2>2 DEF TimerInv
      <3>2. \/ want = "on" /\ pol'[p] = [pc |-> "mark", ev |-> "TIMER", fl |-> wfl]
            \/ want = "none" /\ pol'[p] = [pc |-> "mark", ev |-> "RW", fl |-> {}]
        <4>1. pol'[p] = [pc |-> "mark", ev |-> tpdata.ev, fl |-> tpdata.fl]
          BY <1>t, <1>4, <2>2, CheckFacts
        <4>2. want = "on" => tpdata.ev = "TIMER" /\ tpdata.fl = wfl
          BY <1>t DEF TimerInv
        <4>3. want = "none" => tpdata.ev = "RW" /\ tpdata.fl = {}
          BY <1>t DEF TimerInv, Zero
        <4> QED
          BY <1>b, <3>1, <4>1, <4>2, <4>3
      <3> QED
        BY <1>t, <1>4, <2>2, <3>1, <3>2, CheckFacts DEF TimerInv
    <2> QED
      BY <2>1, <2>2
  <1>5. ASSUME NEW p \in Threads, Mark(p) PROVE TimerInv'
    <2>1. \/ pol[p].ev = "TIMER" /\ pol[p].fl = wfl
          \/ pol[p].ev = "RW" /\ pol[p].fl = {} /\ want = "none"
      BY <1>t, <1>5, MarkFacts DEF TimerInv
    <2>2. want # "on" => tpdata' = tpdata
      <3>1. CASE want = "none"
        BY <1>t, <1>5, <2>1, <3>1, MarkFacts DEF TimerInv
      <3>2. CASE want = "off"
        <4>1. tpdata = [tfd |-> TRUE, ev |-> "TIMER", fl |-> wfl, dis |-> TRUE]
          BY <1>t, <3>2 DEF TimerInv
        <4>2. tpdata' \in {tpdata, [tpdata EXCEPT !.dis = TRUE]}
          BY <1>5 DEF Mark
        <4> QED
          BY <4>1, <4>2
      <3> QED
        BY <1>b, <3>1, <3>2
    <2>3. want = "on" /\ tpdata'.dis => wfl = {DISPATCH} /\ Marked'
      BY <1>t, <1>w, <1>5, <2>1, MarkFacts DEF TimerInv, ONESHOT, DISPATCH
    <2> QED
      BY <1>t, <1>b, <1>5, <2>1, <2>2, <2>3, MarkFacts DEF TimerInv
  <1>6. ASSUME NEW p \in Threads, Handle(p) PROVE TimerInv'
    <2>1. \/ pol[p].ev = "TIMER" /\ pol[p].fl = wfl
          \/ pol[p].ev = "RW" /\ pol[p].fl = {} /\ want = "none"
      BY <1>t, <1>6, HandleFacts DEF TimerInv
    <2>2. /\ UNCHANGED <<kind, virt, wfl>> /\ want' = After(want, wfl)
          /\ pol[p].pc = "handle" /\ Busy(p) /\ Taken(p) /\ ~NoneBusy
          /\ pol'[p].pc = "cb" /\ ~Busy(p)' /\ ~Taken(p)'
          /\ \A q \in Threads : q # p => /\ pol'[q] = pol[q]
                                         /\ Busy(q)' <=> Busy(q)
                                         /\ Taken(q)' <=> Taken(q)
      BY <1>t, <1>6, HandleFacts
    <2>3. ~virt => \A q \in Threads : ~Busy(q)'
      BY <1>t, <2>2 DEF SoloInv, Busy
    <2>4. CASE pol[p].ev = "RW" /\ pol[p].fl = {} /\ want = "none"
      <3>1. UNCHANGED <<tpdata, reg, tmr, ready>>
        BY <1>6, <2>4 DEF Handle
      <3>2. want' = "none"
        BY <1>t, <2>2, <2>4 DEF TimerInv, After
      <3> QED
        BY <1>t, <2>2, <2>3, <2>4, <3>1, <3>2 DEF TimerInv
    <2>5. CASE pol[p].ev = "TIMER" /\ pol[p].fl = wfl
      <3>1. CASE wfl = {ONESHOT}
        <4>1. tpdata' = Zero /\ reg' = NoReg /\ tmr' = "off" /\ ready' = FALSE
          BY <1>6, <2>5, <3>1 DEF Handle
        <4>2. want' = "none" /\ DISPATCH \notin wfl
          BY <2>2, <3>1 DEF After, ONESHOT, DISPATCH
        <4>3. \A q \in Threads : pol'[q].pc = "handle" => DISPATCH \notin pol'[q].fl
          BY <1>t, <2>2, <4>2 DEF TimerInv, Taken
        <4> QED
          BY <1>t, <2>2, <2>3, <3>1, <4>1, <4>2, <4>3 DEF TimerInv, NoReg
      <3>2. CASE wfl = {DISPATCH}
        <4>1. UNCHANGED <<tpdata, reg, tmr>> /\ ready' = FALSE
          BY <1>6, <2>5, <3>2 DEF Handle, ONESHOT, DISPATCH
        <4>2. want' = "off"
          BY <2>2, <3>2 DEF After, ONESHOT, DISPATCH
        <4>3. tpdata.dis /\ want # "none"
          BY <1>t, <2>2, <2>5, <3>2 DEF TimerInv
        <4>4. tmr = "off"
          BY <1>t, <1>b, <2>2, <3>2, <4>3 DEF TimerInv
        <4>5. tpdata = [tfd |-> TRUE, ev |-> "TIMER", fl |-> wfl, dis |-> TRUE]
          BY <1>t, <1>b, <4>3 DEF TimerInv, TpData
        <4> QED
          BY <1>t, <2>2, <2>3, <3>2, <4>1, <4>2, <4>3, <4>4, <4>5 DEF TimerInv
      <3>3. CASE wfl = {}
        <4>1. UNCHANGED <<tpdata, reg, tmr>> /\ ready' = FALSE
          BY <1>6, <2>5, <3>3 DEF Handle
        <4>2. want' = want
          BY <2>2, <3>3 DEF After
        <4>3. want = "on" => ~tpdata.dis
          BY <1>t, <3>3 DEF TimerInv
        <4> QED
          BY <1>t, <2>2, <2>3, <3>3, <4>1, <4>2, <4>3 DEF TimerInv
      <3> QED
        BY <1>w, <3>1, <3>2, <3>3
    <2> QED
      BY <2>1, <2>4, <2>5
  <1>7. ASSUME NEW p \in Threads, Return(p) PROVE TimerInv'
    <2>1. \A q \in Threads : pol'[q].pc = "handle" => pol'[q] = pol[q]
      BY <1>t, <1>7, ReturnFacts DEF Taken
    <2>2. UNCHANGED <<kind, virt, want, wfl, tpdata, reg, tmr, ready>>
      BY <1>t, <1>7, ReturnFacts
    <2> QED
      BY <1>t, <1>7, <2>1, <2>2, ReturnFacts DEF TimerInv
  <1> QED
    BY <1>1, <1>2, <1>3, <1>4, <1>5, <1>6, <1>7 DEF Next, Loop

-----------------------------------------------------------------------------
\* Of every registration: the types and what its kind keeps to is an invariant
\* of tpt_ev_post(), the kernel and tpt_loop(), for any number of threads.
THEOREM Inductive ==
    ASSUME ~NewFlags
    PROVE  Spec => []IInv
  <1>1. Init => IInv
    <2> SUFFICES ASSUME Init PROVE IInv
      OBVIOUS
    <2>1. TypeOK
      <3>1. /\ want = "none" /\ wfl \in FlagSets /\ calls \in 0 .. CallsBound
            /\ kind \in Kinds /\ virt \in BOOLEAN /\ tmr = "off"
            /\ ready = FALSE /\ hup = FALSE
        BY DEF Init, AInit, FlagSets, CallsBound
      <3>2. tpdata \in TpData /\ reg \in Regs
        BY DEF Init, Zero, TpData, FlagSets, NoReg, Regs
      <3>3. pol \in [Threads -> [pc : {"wait", "got", "mark", "handle", "cb"},
                                ev : {"RW", "TIMER", "PROC"}, fl : FlagSets]]
        BY DEF Init, Idle, FlagSets
      <3> QED
        BY <3>1, <3>2, <3>3 DEF TypeOK, Regs
    <2>2. \A p \in Threads : pol[p].pc = "wait" /\ ~Busy(p) /\ ~Taken(p)
      BY DEF Init, Idle, Busy, Taken
    <2>3. SoloInv /\ UniqueInv
      BY <2>2 DEF SoloInv, UniqueInv
    <2>4. RwInv /\ ProcInv /\ TimerInv
      BY <2>2 DEF Init, AInit, RwInv, ProcInv, TimerInv, Zero, NoReg
    <2> QED
      BY <2>1, <2>3, <2>4 DEF IInv
  <1>2. IInv /\ [Next]_vars => IInv'
    <2> SUFFICES ASSUME IInv, [Next]_vars PROVE IInv'
      OBVIOUS
    <2>1. TypeOK' /\ SoloInv'
      BY TypeStep, SoloStep DEF IInv
    <2>2. kind' = kind
      <3>1. \A p \in Threads : Loop(p) => kind' = kind
        BY DEF Loop, Wait, Check, Mark, Handle, Return, fixed
      <3>2. Owner \/ World \/ UNCHANGED vars => kind' = kind
        BY DEF Owner, Add, Enable, EnableArgs1, Disable, Del, Post, World, Arrive,
           HangUp, Expire, ProcExit, vars, fixed
      <3> QED
        BY <3>1, <3>2 DEF Next
    <2>3. kind \in {"RW", "TIMER", "PROC"}
      BY TpEventAssumption DEF IInv, TypeOK
    <2>4. CASE kind = "RW"
      BY <2>1, <2>2, <2>4, RwStep DEF IInv, ProcInv, TimerInv
    <2>5. CASE kind = "PROC"
      BY <2>1, <2>2, <2>5, ProcStep DEF IInv, RwInv, TimerInv
    <2>6. CASE kind = "TIMER"
      BY <2>1, <2>2, <2>6, TimerStep DEF IInv, RwInv, ProcInv, UniqueInv
    <2> QED
      BY <2>3, <2>4, <2>5, <2>6
  <1> QED
    BY <1>1, <1>2, PTL DEF Spec

\* While the loop is not between epoll_wait() and the callback, what the kernel
\* holds for an event of a pool thread is what its owner asked for: tpt_ev_post()
\* and tpt_loop() leave no armed interest behind and lose none.
THEOREM KernelAgreesWithOwner ==
    ASSUME ~NewFlags
    PROVE  Spec => []KernelAgrees
  <1>1. IInv => KernelAgrees
    <2> SUFFICES ASSUME IInv PROVE KernelAgrees
      OBVIOUS
    <2>1. /\ TypeOK /\ RwInv /\ ProcInv /\ TimerInv
          /\ kind \in {"RW", "TIMER", "PROC"} /\ wfl \in FlagSets
      BY TpEventAssumption DEF IInv, TypeOK
    <2>2. SUFFICES ASSUME ~virt, \A p \in Threads : pol[p].pc \in {"wait", "cb"}
                   PROVE  /\ want = "none" => ~reg.on /\ tpdata = Zero
                          /\ want = "off"  => ~reg.in \/ (tmr = "off" /\ ~ready)
                          /\ want = "on"   => /\ reg.in /\ ~tpdata.dis
                                              /\ kind = "TIMER" => tmr # "off" \/ ready
      BY <2>1 DEF KernelAgrees
    <2>3. NoneBusy /\ ~Marked
      BY <2>2 DEF NoneBusy, Busy, Marked
    <2>4. CASE kind = "RW"
      BY <2>1, <2>2, <2>3, <2>4 DEF RwInv
    <2>5. CASE kind = "PROC"
      BY <2>1, <2>2, <2>3, <2>5 DEF ProcInv, NoReg
    <2>6. CASE kind = "TIMER"
      BY <2>1, <2>2, <2>3, <2>6 DEF TimerInv, NoReg
    <2> QED
      BY <2>1, <2>4, <2>5, <2>6
  <1> QED
    BY <1>1, Inductive, PTL

\* A callback runs only for an event its owner wants, unless it is a timer of
\* the virtual thread.
LEMMA HandledIsWanted ==
    ASSUME IInv, Served, NEW p \in Threads, pol[p].pc = "handle"
    PROVE  want = "on"
  <1>1. Taken(p) /\ Busy(p)
    BY DEF Taken, Busy
  <1>2. kind \in {"RW", "TIMER", "PROC"} /\ virt \in BOOLEAN
    BY TpEventAssumption DEF IInv, TypeOK
  <1> QED
    BY <1>1, <1>2 DEF IInv, RwInv, ProcInv, TimerInv, Served

\* After epoll has reported an event that is off it has no more to report.
LEMMA QuietStep ==
    ASSUME IInv, NEW p \in Threads, Wait(p), want # "on"
    PROVE  ~Reports'
  <1>1. /\ TypeOK /\ RwInv /\ ProcInv /\ TimerInv /\ reg \in Regs
        /\ kind \in {"RW", "TIMER", "PROC"} /\ want \in {"none", "off"}
    BY TpEventAssumption DEF IInv, TypeOK, Regs
  <1>2. kind = "RW" /\ want = "off"
    BY <1>1, WaitFacts DEF RwInv, ProcInv, TimerInv, NoReg
  <1>3. ~reg.in /\ reg.hup /\ reg.et /\ ~reg.once
    BY <1>1, <1>2, WaitFacts DEF RwInv
  <1>4. ~reg'.in /\ ~reg'.hup
    BY <1>1, <1>3, WaitFacts DEF Regs
  <1> QED
    BY <1>4 DEF Reports

\* A registration implements EventSource, for any number of threads that serve
\* it: tpt_loop() calls the callback of a served event only while its owner
\* wants it, and TP_F_ONESHOT and TP_F_DISPATCH withdraw it with the callback;
\* and an event that is off does not keep waking the loop.
THEOREM RegistrationImplementsSource ==
    ASSUME ~NewFlags
    PROVE  Spec => Implements
  <1>1. Init => Source!AInit
    BY DEF Init, AInit, Source!AInit
  <1>2. IInv /\ [Next]_vars => [Source!ANext]_(Source!avars)
    <2> SUFFICES ASSUME IInv, [Next]_vars
                 PROVE  [Source!ANext]_(Source!avars)
      OBVIOUS
    <2>t. TypeOK
      BY DEF IInv
    <2>1. Served' <=> Served
      <3>1. \A p \in Threads : Loop(p) => UNCHANGED <<kind, virt>>
        BY DEF Loop, Wait, Check, Mark, Handle, Return, fixed
      <3>2. Owner \/ World \/ UNCHANGED vars => UNCHANGED <<kind, virt>>
        BY DEF Owner, Add, Enable, EnableArgs1, Disable, Del, Post, World, Arrive,
           HangUp, Expire, ProcExit, vars, fixed
      <3> QED
        BY <3>1, <3>2 DEF Next, Served
    <2>2. CASE ~Served
      BY <2>1, <2>2 DEF Source!avars
    <2>3. CASE Served /\ UNCHANGED <<want, wfl, calls>>
      BY <2>1, <2>3 DEF Source!avars
    <2>4. CASE Served /\ Owner
      <3>1. PICK op \in {"ADD", "ENABLE", "DISABLE", "DEL"}, fl \in FlagSets,
                 data \in {0, 1}, asked \in FlagSets : Post(op, fl, data, asked)
        BY <2>t, <2>4, OwnerCalls
      <3>2. \E x \in {"none", "on", "off"}, y \in FlagSets : Wants(x, y)
        <4>1. {} \in FlagSets /\ {ONESHOT} \in FlagSets
          BY DEF FlagSets
        <4> QED
          BY <3>1, <4>1 DEF Post, PostRw, PostTimer, PostProc
      <3>3. want' \in {"none", "on", "off"} /\ wfl' \in FlagSets /\ calls' = 0
        BY <3>2 DEF Wants
      <3> QED
        BY <2>1, <2>4, <3>3 DEF Source!ANext, Source!Ask, Source!FlagSets, FlagSets,
           Source!ONESHOT, ONESHOT, Source!DISPATCH, DISPATCH
    <2>5. ASSUME Served, NEW p \in Threads, Handle(p)
          PROVE  [Source!ANext]_(Source!avars)
      <3>1. want = "on"
        BY <2>5, HandledIsWanted DEF Handle
      <3>2. want' = After(want, wfl) /\ calls' = CallsInc(calls) /\ wfl' = wfl
        BY <2>5 DEF Handle, Called
      <3> QED
        BY <2>1, <2>5, <3>1, <3>2
           DEF Source!ANext, Source!Deliver, Source!After, After, Source!CallsInc, CallsInc,
           Source!CallsBound, CallsBound, Source!ONESHOT, ONESHOT, Source!DISPATCH, DISPATCH
    <2>6. CASE \E p \in Threads : Wait(p) \/ Check(p) \/ Mark(p) \/ Return(p)
      <3>1. UNCHANGED <<want, wfl, calls>>
        BY <2>6 DEF Wait, Check, Mark, Return, avars
      <3> QED
        BY <2>2, <2>3, <3>1
    <2>7. CASE World \/ UNCHANGED vars
      <3>1. UNCHANGED <<want, wfl, calls>>
        BY <2>7 DEF World, Arrive, HangUp, Expire, ProcExit, vars, avars
      <3> QED
        BY <2>2, <2>3, <3>1
    <2> QED
      BY <2>2, <2>4, <2>5, <2>6, <2>7 DEF Next, Loop
  <1>3. IInv /\ [Next]_vars => [\A p \in Threads : Wait(p) /\ want # "on" => ~Reports']_vars
    BY QuietStep
  <1> QED
    BY <1>1, <1>2, <1>3, Inductive, PTL DEF Spec, Implements, Source!ASpec, DisabledIsQuiet
=============================================================================
