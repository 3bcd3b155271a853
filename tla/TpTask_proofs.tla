---------------------------- MODULE TpTask_proofs ----------------------------
(***************************************************************************)
(* Proofs about TpTask for every size of the buffer.                       *)
(***************************************************************************)
EXTENDS TpTask, TLAPS

-----------------------------------------------------------------------------
(* The inductive invariant.                                                *)

\* The units counted: they are bounded by the buffer, and transfered_size is
\* in use only inside the transfer of tp_task_sr_handler().
CountInv ==
    /\ moved + left <= BufSize
    /\ moved = told + tot + got
    /\ got # 0 => pc = "xfer" /\ hnd = "sr"

\* The counters in TypeOK.
CountType ==
    /\ left \in 0 .. BufSize /\ tot \in 0 .. BufSize /\ got \in 0 .. BufSize
    /\ moved \in 0 .. BufSize /\ told \in 0 .. BufSize

\* The rest of TypeOK.
ControlType ==
    /\ mem \in {"none", "live", "freed"} /\ hnd \in Handlers /\ every \in BOOLEAN
    /\ evfl \in FlagSets /\ timeout \in BOOLEAN
    /\ data \in [st : {"none", "on", "off"}, fl : FlagSets]
    /\ tmr \in {"none", "on", "off"} /\ ready \in BOOLEAN
    /\ pc \in {"loop", "xfer", "cb"}
    /\ cb \in [ev : {"IO", "TIMER"}, err : BOOLEAN, direct : BOOLEAN]
    /\ asked \in Asked /\ timed \in BOOLEAN /\ odd \subseteq Odd

\* A task that is not allocated has no registration of its descriptor and its
\* handler does not run; one that was never started has none at all.
LifeInv ==
    /\ mem # "live" => data.st = "none"
    /\ mem = "none" => asked = "new"
    /\ mem = "freed" => asked = "stop"
    /\ pc = "xfer" => mem = "live" /\ hnd \in {"sr", "pkt", "accept"} /\ cb.ev = "IO"
    /\ asked = "new" => pc = "loop" /\ data.st = "none" /\ tmr = "none"
    /\ cb.direct => hnd = "sr"

\* The timer exists only for an allocated task with a timeout.
TimerInv == "zeroed" \notin odd /\ (mem = "freed" \/ ~timeout) => tmr = "none"

\* In regular use the flags are the usual ones, and those of the registration.
FlagsInv ==
    Regular => /\ mem = "live" /\ asked # "new" => evfl \in UsualFlags
               /\ data.st = "on" => data.fl = evfl

\* The registrations of a wait, and none that would report anything.
Armed == data.st = "on" /\ (timed <=> tmr = "on")
Unarmed == data.st # "on" /\ tmr # "on"

\* The event that was reported will be reported no more by itself.
OneTime == evfl # {} \/ cb.ev = "TIMER" \/ cb.direct

\* What is registered, by what the owner may expect and where the handler is.
ArmedInv ==
    Regular =>
        /\ asked \in {"new", "stop", "fail", "off"} => Unarmed
        /\ asked = "wait" /\ pc # "xfer" => Armed
        /\ asked = "held" /\ pc = "loop" => Unarmed
        /\ asked = "held" /\ pc = "cb" => IF OneTime THEN Unarmed ELSE data.st = "on"
        /\ pc = "xfer" => /\ asked = "wait"
                          /\ IF cb.direct THEN Unarmed ELSE data.st = "on"

IInv == TypeOK /\ CountInv /\ LifeInv /\ TimerInv /\ FlagsInv /\ ArmedInv

-----------------------------------------------------------------------------
\* What a call adds to the history.
LEMMA StrangeType ==
    ASSUME ControlType, NEW t, NEW fl
    PROVE  Strange(t, fl) \subseteq Odd
  BY DEF ControlType, Strange, Odd

\* What a call that registers the task writes.
LEMMA RegisterType ==
    ASSUME ControlType, NEW t \in BOOLEAN, NEW fl \in FlagSets, Register(t, fl)
    PROVE  /\ data' \in [st : {"none", "on", "off"}, fl : FlagSets]
           /\ tmr' \in {"none", "on", "off"}
           /\ asked' \in Asked /\ timed' \in BOOLEAN /\ odd' \subseteq Odd
  <1>1. Strange(t, fl) \subseteq Odd
    BY StrangeType
  <1>2. odd' \subseteq Odd
    BY <1>1 DEF Register, Odd
  <1>3. data' \in [st : {"none", "on", "off"}, fl : FlagSets]
    BY DEF ControlType, Register, None, FlagSets
  <1>4. tmr' \in {"none", "on", "off"} /\ asked' \in Asked /\ timed' \in BOOLEAN
    BY DEF ControlType, Register, Asked
  <1> QED
    BY <1>2, <1>3, <1>4

\* What the end of a handler that goes on writes.
LEMMA PostType ==
    ASSUME ControlType, NEW ev, PostRegs(ev)
    PROVE  /\ data' \in [st : {"none", "on", "off"}, fl : FlagSets]
           /\ tmr' \in {"none", "on", "off"} /\ odd' \subseteq Odd
  <1>1. PICK armed \in BOOLEAN, enabled \in BOOLEAN :
           /\ tmr' = IF ~timeout THEN tmr ELSE IF armed THEN "on" ELSE "none"
           /\ data' = IF ~EnabledAgain(ev) THEN data
                      ELSE IF enabled THEN [st |-> "on", fl |-> {}] ELSE None
           /\ odd' \subseteq odd \cup {"failed"}
    BY DEF PostRegs
  <1>2. data' \in [st : {"none", "on", "off"}, fl : FlagSets]
    BY <1>1 DEF ControlType, None, FlagSets
  <1>3. tmr' \in {"none", "on", "off"} /\ odd' \subseteq Odd
    BY <1>1 DEF ControlType, Odd
  <1> QED
    BY <1>2, <1>3

\* The flags the owner gives.
LEMMA GivenFlags == EventFlags(hnd) \subseteq FlagSets
  BY DEF EventFlags, FlagSets

\* Every step keeps the counts.
LEMMA CountStep ==
    ASSUME TypeOK, CountInv, [Next]_vars
    PROVE  CountInv' /\ CountType'
  <1> USE TpTaskAssumption
  <1>1. left \in Nat /\ tot \in Nat /\ got \in Nat /\ moved \in Nat /\ told \in Nat
    BY DEF TypeOK
  <1>2. ASSUME left' \in Nat, tot' \in Nat, got' \in Nat, told' \in Nat, CountInv'
        PROVE  CountInv' /\ CountType'
    <2>1. moved' = told' + tot' + got' /\ moved' + left' <= BufSize
      BY <1>2 DEF CountInv
    <2>2. \A B, l, m, a, b, c \in Nat :
             m = a + b + c /\ m + l <= B =>
                l \in 0 .. B /\ m \in 0 .. B /\ a \in 0 .. B /\ b \in 0 .. B /\ c \in 0 .. B
      OBVIOUS
    <2>3. \A a, b, c \in Nat : a + b + c \in Nat
      OBVIOUS
    <2>4. left' \in Nat /\ tot' \in Nat /\ got' \in Nat /\ told' \in Nat
      BY <1>2
    <2>5. moved' \in Nat
      BY <2>1, <2>3, <2>4
    <2>6. CountType'
      BY <2>1, <2>2, <2>4, <2>5 DEF CountType
    <2> QED
      BY <1>2, <2>6
  <1>3. ASSUME UNCHANGED <<left, tot, got, moved, told>>,
               got = 0 \/ UNCHANGED <<pc, hnd>>
        PROVE  CountInv' /\ CountType'
    BY <1>1, <1>2, <1>3 DEF CountInv
  <1>4. CASE Owner
    <2>1. CASE Start \/ StartDirect
      BY <1>2, <2>1 DEF Start, StartDirect, StartSets, CountInv
    <2>2. CASE ~(Start \/ StartDirect)
      BY <1>3, <1>4, <2>2 DEF Owner, Create, Restart, Stop, Enable1, Enable0,
         TimeoutSet0,
         Destroy, tvars, bufs
    <2> QED
      BY <2>1, <2>2
  <1>5. CASE Loop
    <2>1. got = 0 /\ left' = left /\ moved' = moved /\ got' = 0 /\ hnd' = hnd
      BY <1>5 DEF Loop, IoEvent, TimerEvent, CallBack, Report, CountInv, tvars
    <2>2. \/ tot' = tot /\ told' = told
          \/ tot' = 0 /\ told' = told + 0 + tot
      BY <1>5 DEF Loop, IoEvent, TimerEvent, Report
    <2> QED
      BY <1>1, <1>2, <2>1, <2>2 DEF CountInv
  <1>6. CASE Transfer
    <2>1. PICK n \in 1 .. left :
             /\ left' = left - n /\ moved' = moved + n
             /\ \/ told' = told + (got + n) + tot /\ tot' = 0 /\ got' = 0
                \/ got' = got + n /\ UNCHANGED <<tot, told, pc>>
      BY <1>6 DEF Transfer, Consume, Report
    <2>2. pc = "xfer" /\ hnd = "sr" /\ hnd' = hnd
      BY <1>6 DEF Transfer, tvars
    <2> QED
      BY <1>1, <1>2, <2>1, <2>2 DEF CountInv
  <1>7. CASE TransferEnds
    <2>1. /\ told' = told + got + tot /\ tot' = 0 /\ got' = 0
          /\ left' = left /\ moved' = moved
      BY <1>7 DEF TransferEnds, Report, CallBack
    <2> QED
      BY <1>1, <1>2, <2>1 DEF CountInv
  <1>8. CASE Receive
    <2>1. UNCHANGED <<left, tot, got, moved, told>> /\ hnd # "sr"
      BY <1>8 DEF Receive, CallBack
    <2> QED
      BY <1>3, <2>1 DEF CountInv
  <1>9. CASE NoMore
    <2>1. tot' = tot + got /\ got' = 0 /\ UNCHANGED <<left, moved, told>>
      BY <1>9 DEF NoMore, SaveTotal
    <2> QED
      BY <1>1, <1>2, <2>1 DEF CountInv
  <1>10. CASE Return
    <2>1. got = 0
      BY <1>10 DEF CountInv, Return, ReturnContinue, ReturnDirect, ReturnOther
    <2>2. UNCHANGED <<left, tot, got, moved, told>>
      BY <1>10 DEF Return, ReturnContinue, ReturnDirect, ReturnOther, bufs
    <2> QED
      BY <1>3, <2>1, <2>2
  <1>11. CASE Arrive \/ UNCHANGED vars
    BY <1>3, <1>11 DEF Arrive, vars, tvars, bufs
  <1> QED
    BY <1>4, <1>5, <1>6, <1>7, <1>8, <1>9, <1>10, <1>11 DEF Next, Handler

\* Every step keeps the types.
LEMMA TypeStep ==
    ASSUME ControlType, [Next]_vars
    PROVE  ControlType'
  <1> USE DEF ControlType, FlagSets, None, Asked, tvars, prms, regs, bufs, asks
  <1>1. CASE Create
    BY <1>1 DEF Create
  <1>2. CASE Start
    <2>1. /\ data' \in [st : {"none", "on", "off"}, fl : FlagSets]
          /\ tmr' \in {"none", "on", "off"}
          /\ asked' \in Asked /\ timed' \in BOOLEAN /\ odd' \subseteq Odd
      BY <1>2, RegisterType, GivenFlags, ZenonT(60) DEF Start
    <2> QED
      BY <1>2, <2>1, GivenFlags DEF Start, StartSets
  <1>3. CASE StartDirect
    <2>1. PICK fl \in EventFlags(hnd), t \in BOOLEAN :
             evfl' = fl /\ timeout' = t /\ odd' = Strange(t, fl)
      BY <1>3 DEF StartDirect, StartSets
    <2>2. odd' \subseteq Odd
      BY <2>1, StrangeType
    <2>3. evfl' \in FlagSets /\ timeout' \in BOOLEAN
      BY <2>1, GivenFlags
    <2> QED
      BY <1>3, <2>2, <2>3 DEF StartDirect, NoCb
  <1>4. CASE Restart
    <2>1. /\ data' \in [st : {"none", "on", "off"}, fl : FlagSets]
          /\ tmr' \in {"none", "on", "off"}
          /\ asked' \in Asked /\ timed' \in BOOLEAN /\ odd' \subseteq Odd
      BY <1>4, RegisterType, GivenFlags, ZenonT(60) DEF Restart
    <2> QED
      BY <1>4, <2>1, GivenFlags DEF Restart
  <1>5. CASE Stop
    BY <1>5, ZenonT(60) DEF Stop, MayCall, StopRegs
  <1>6. CASE Enable1
    <2>1. /\ data' \in [st : {"none", "on", "off"}, fl : FlagSets]
          /\ tmr' \in {"none", "on", "off"}
          /\ asked' \in Asked /\ timed' \in BOOLEAN /\ odd' \subseteq Odd
      BY <1>6, RegisterType, GivenFlags DEF Enable1
    <2> QED
      BY <1>6, <2>1, GivenFlags DEF Enable1
  <1>7. CASE Enable0
    BY <1>7 DEF Enable0, MayCall
  <1>8. CASE TimeoutSet0
    <2>1. odd' \subseteq Odd
      BY <1>8, StrangeType DEF TimeoutSet0
    <2>2. timeout' \in BOOLEAN
      BY <1>8 DEF TimeoutSet0
    <2>3. UNCHANGED <<mem, hnd, every, evfl, data, tmr, ready, pc, cb, asked, timed>>
      BY <1>8 DEF TimeoutSet0
    <2> QED
      BY <2>1, <2>2, <2>3
  <1>9. CASE Destroy
    BY <1>9 DEF Destroy, MayCall, StopRegs
  <1>10. CASE IoEvent
    <2>1. UNCHANGED <<mem, hnd, every, evfl, timeout, ready, odd>>
      BY <1>10 DEF IoEvent
    <2>2. \/ data' = None /\ tmr' \in {"none", tmr}
          \/ data' = Taken(data.fl) /\ TimerPre
      BY <1>10 DEF IoEvent
    <2>3. data' \in [st : {"none", "on", "off"}, fl : FlagSets]
      BY <2>2 DEF Taken, After
    <2>4. tmr' \in {"none", "on", "off"}
      BY <2>2 DEF TimerPre
    <2>5. \/ \E err \in BOOLEAN : CallBack("IO", err, FALSE)
          \/ pc' = "xfer" /\ cb' = NoCb /\ UNCHANGED <<asked, timed>>
      BY <1>10 DEF IoEvent
    <2>6. /\ pc' \in {"loop", "xfer", "cb"} /\ asked' \in Asked /\ timed' \in BOOLEAN
          /\ cb' \in [ev : {"IO", "TIMER"}, err : BOOLEAN, direct : BOOLEAN]
      <3>1. CASE \E err \in BOOLEAN : CallBack("IO", err, FALSE)
        <4>1. PICK err \in BOOLEAN :
                 /\ pc' = "cb" /\ cb' = [ev |-> "IO", err |-> err, direct |-> FALSE]
                 /\ asked' = "held" /\ timed' = FALSE
          BY <3>1 DEF CallBack
        <4> QED
          BY <4>1
      <3>2. CASE pc' = "xfer" /\ cb' = NoCb /\ UNCHANGED <<asked, timed>>
        BY <3>2 DEF NoCb
      <3> QED
        BY <2>5, <3>1, <3>2
    <2> QED
      BY <2>1, <2>3, <2>4, <2>6
  <1>11. CASE TimerEvent
    <2>1. pc' \in {"loop", "xfer", "cb"} /\ asked' \in Asked /\ timed' \in BOOLEAN
      BY <1>11 DEF TimerEvent, CallBack
    <2>2. cb' \in [ev : {"IO", "TIMER"}, err : BOOLEAN, direct : BOOLEAN]
      BY <1>11 DEF TimerEvent, CallBack, NoCb
    <2>3. /\ data' \in [st : {"none", "on", "off"}, fl : FlagSets]
          /\ tmr' \in {"none", "on", "off"}
      BY <1>11 DEF TimerEvent, TimeoutPre
    <2> QED
      BY <1>11, <2>1, <2>2, <2>3 DEF TimerEvent
  <1>12. CASE Transfer
    <2>1. pc' \in {"loop", "xfer", "cb"} /\ asked' \in Asked /\ timed' \in BOOLEAN
      BY <1>12 DEF Transfer, CallBack
    <2>2. cb' \in [ev : {"IO", "TIMER"}, err : BOOLEAN, direct : BOOLEAN]
      BY <1>12 DEF Transfer, CallBack, NoCb
    <2>3. /\ data' \in [st : {"none", "on", "off"}, fl : FlagSets]
          /\ tmr' \in {"none", "on", "off"}
      BY <1>12 DEF Transfer, regs
    <2> QED
      BY <1>12, <2>1, <2>2, <2>3 DEF Transfer
  <1>13. CASE TransferEnds
    <2>1. pc' \in {"loop", "xfer", "cb"} /\ asked' \in Asked /\ timed' \in BOOLEAN
      BY <1>13 DEF TransferEnds, CallBack
    <2>2. cb' \in [ev : {"IO", "TIMER"}, err : BOOLEAN, direct : BOOLEAN]
      BY <1>13 DEF TransferEnds, CallBack, NoCb
    <2>3. /\ data' \in [st : {"none", "on", "off"}, fl : FlagSets]
          /\ tmr' \in {"none", "on", "off"}
      BY <1>13 DEF TransferEnds, regs
    <2> QED
      BY <1>13, <2>1, <2>2, <2>3 DEF TransferEnds
  <1>14. CASE Receive
    <2>1. pc' \in {"loop", "xfer", "cb"} /\ asked' \in Asked /\ timed' \in BOOLEAN
      BY <1>14 DEF Receive, CallBack
    <2>2. cb' \in [ev : {"IO", "TIMER"}, err : BOOLEAN, direct : BOOLEAN]
      BY <1>14 DEF Receive, CallBack, NoCb
    <2>3. /\ data' \in [st : {"none", "on", "off"}, fl : FlagSets]
          /\ tmr' \in {"none", "on", "off"}
      BY <1>14 DEF Receive, regs
    <2> QED
      BY <1>14, <2>1, <2>2, <2>3 DEF Receive
  <1>15. CASE NoMore
    <2>1. /\ data' \in [st : {"none", "on", "off"}, fl : FlagSets]
          /\ tmr' \in {"none", "on", "off"}
          /\ asked' \in Asked /\ timed' \in BOOLEAN /\ odd' \subseteq Odd
      <3>1. CASE cb.direct
        BY <1>15, <3>1, RegisterType DEF NoMore
      <3>2. CASE ~cb.direct
        BY <1>15, <3>2, PostType DEF NoMore
      <3> QED
        BY <3>1, <3>2
    <2> QED
      BY <1>15, <2>1 DEF NoMore, NoCb
  <1>16. CASE ReturnContinue
    <2>1. /\ data' \in [st : {"none", "on", "off"}, fl : FlagSets]
          /\ tmr' \in {"none", "on", "off"} /\ odd' \subseteq Odd
      BY <1>16, PostType DEF ReturnContinue
    <2> QED
      BY <1>16, <2>1 DEF ReturnContinue, NoCb
  <1>17. CASE ReturnDirect
    <2>1. /\ data' \in [st : {"none", "on", "off"}, fl : FlagSets]
          /\ tmr' \in {"none", "on", "off"}
          /\ asked' \in Asked /\ timed' \in BOOLEAN /\ odd' \subseteq Odd
      BY <1>17, RegisterType, GivenFlags DEF ReturnDirect
    <2> QED
      BY <1>17, <2>1, GivenFlags DEF ReturnDirect, NoCb
  <1>18. CASE ReturnOther
    BY <1>18 DEF ReturnOther, NoCb
  <1>19. CASE Arrive
    BY <1>19 DEF Arrive
  <1>20. CASE UNCHANGED vars
    BY <1>20 DEF vars
  <1> QED
    BY <1>1, <1>2, <1>3, <1>4, <1>5, <1>6, <1>7, <1>8, <1>9, <1>10, <1>11, <1>12,
       <1>13, <1>14, <1>15, <1>16, <1>17, <1>18, <1>19, <1>20 DEF Next, Owner, Loop,
       Handler, Return

\* Every step keeps the life of a task.
LEMMA LifeStep ==
    ASSUME TypeOK, LifeInv, [Next]_vars
    PROVE  LifeInv'
  <1> USE DEF TypeOK, LifeInv, Asked, Handlers, None, tvars, prms, regs, bufs, asks
  <1>1. CASE Create
    BY <1>1 DEF Create
  <1>2. CASE Start
    BY <1>2 DEF Start, MayStart, MayCall, StartSets, Register, Strange
  <1>3. CASE StartDirect
    BY <1>3 DEF StartDirect, MayStart, MayCall, StartSets, Strange, NoCb
  <1>4. CASE Restart
    BY <1>4 DEF Restart, MayCall, Register, Strange
  <1>5. CASE Stop
    BY <1>5 DEF Stop, MayCall, StopRegs
  <1>6. CASE Enable1
    BY <1>6 DEF Enable1, MayCall, Register, Strange
  <1>7. CASE Enable0
    BY <1>7 DEF Enable0, MayCall
  <1>8. CASE TimeoutSet0
    BY <1>8 DEF TimeoutSet0, MayCall, Strange
  <1>9. CASE Destroy
    BY <1>9 DEF Destroy, MayCall, StopRegs
  <1>10. CASE IoEvent
    BY <1>10 DEF IoEvent, CallBack, Report, Taken, TimerPre, NoCb
  <1>11. CASE TimerEvent
    BY <1>11 DEF TimerEvent, CallBack, Report, TimeoutPre
  <1>12. CASE Transfer
    BY <1>12 DEF Transfer, Consume, Report
  <1>13. CASE TransferEnds
    BY <1>13 DEF TransferEnds, Report, CallBack
  <1>14. CASE Receive
    BY <1>14 DEF Receive, CallBack
  <1>15. CASE NoMore
    BY <1>15 DEF NoMore, SaveTotal, PostRegs, EnabledAgain, Register, Strange, NoCb
  <1>16. CASE ReturnContinue
    BY <1>16 DEF ReturnContinue, GoesOn, PostRegs, EnabledAgain, NoCb
  <1>17. CASE ReturnDirect
    BY <1>17 DEF ReturnDirect, Register, Strange, NoCb
  <1>18. CASE ReturnOther
    BY <1>18 DEF ReturnOther, NoCb
  <1>19. CASE Arrive
    BY <1>19 DEF Arrive
  <1>20. CASE UNCHANGED vars
    BY <1>20 DEF vars
  <1> QED
    BY <1>1, <1>2, <1>3, <1>4, <1>5, <1>6, <1>7, <1>8, <1>9, <1>10, <1>11, <1>12,
       <1>13, <1>14, <1>15, <1>16, <1>17, <1>18, <1>19, <1>20 DEF Next, Owner, Loop,
       Handler, Return

\* Every step keeps what is registered.
LEMMA ArmedStep ==
    ASSUME IInv, [Next]_vars
    PROVE  TimerInv' /\ FlagsInv' /\ ArmedInv'
  <1> USE DEF IInv, TypeOK, LifeInv, TimerInv, FlagsInv, ArmedInv, Armed, Unarmed,
           OneTime, Regular, UsualFlags, FlagSets, Handlers, Asked, None, After,
           ONESHOT, DISPATCH, tvars, prms, regs, bufs, asks
  <1>1. CASE Create
    BY <1>1 DEF Create
  <1>2. CASE Start
    BY <1>2 DEF Start, MayStart, MayCall, StartSets, Register, Strange
  <1>3. CASE StartDirect
    BY <1>3 DEF StartDirect, MayStart, MayCall, StartSets, Strange, NoCb
  <1>4. CASE Restart
    BY <1>4 DEF Restart, MayCall, Register, Strange
  <1>5. CASE Stop
    BY <1>5 DEF Stop, MayCall, StopRegs
  <1>6. CASE Enable1
    BY <1>6 DEF Enable1, MayCall, Register, Strange
  <1>7. CASE Enable0
    BY <1>7 DEF Enable0, MayCall
  <1>8. CASE TimeoutSet0
    BY <1>8 DEF TimeoutSet0, MayCall, Strange
  <1>9. CASE Destroy
    BY <1>9 DEF Destroy, MayCall, StopRegs
  <1>10. CASE IoEvent
    BY <1>10 DEF IoEvent, CallBack, Report, Taken, TimerPre, NoCb
  <1>11. CASE TimerEvent
    BY <1>11 DEF TimerEvent, CallBack, Report, TimeoutPre
  <1>12. CASE Transfer
    BY <1>12 DEF Transfer, Consume, Report
  <1>13. CASE TransferEnds
    BY <1>13 DEF TransferEnds, Report, CallBack
  <1>14. CASE Receive
    BY <1>14 DEF Receive, CallBack
  <1>15. CASE NoMore
    BY <1>15 DEF NoMore, SaveTotal, PostRegs, EnabledAgain, Register, Strange, NoCb
  <1>16. CASE ReturnContinue
    BY <1>16 DEF ReturnContinue, GoesOn, PostRegs, EnabledAgain, NoCb
  <1>17. CASE ReturnDirect
    BY <1>17 DEF ReturnDirect, Register, Strange, NoCb
  <1>18. CASE ReturnOther
    BY <1>18 DEF ReturnOther, NoCb
  <1>19. CASE Arrive
    BY <1>19 DEF Arrive
  <1>20. CASE UNCHANGED vars
    BY <1>20 DEF vars
  <1> QED
    BY <1>1, <1>2, <1>3, <1>4, <1>5, <1>6, <1>7, <1>8, <1>9, <1>10, <1>11, <1>12,
       <1>13, <1>14, <1>15, <1>16, <1>17, <1>18, <1>19, <1>20 DEF Next, Owner, Loop,
       Handler, Return

-----------------------------------------------------------------------------
\* The invariant holds in every reachable state.
THEOREM Inductive == Spec => []IInv
  <1>1. Init => IInv
    <2> SUFFICES ASSUME Init PROVE IInv
      OBVIOUS
    <2>1. TypeOK
      <3>1. ControlType
        BY DEF Init, ControlType, NoCb, None, FlagSets, Asked
      <3>2. CountType
        BY TpTaskAssumption DEF Init, CountType
      <3> QED
        BY <3>1, <3>2 DEF TypeOK, ControlType, CountType
    <2>2. CountInv /\ LifeInv /\ TimerInv
      BY TpTaskAssumption DEF Init, CountInv, LifeInv, TimerInv, None, NoCb
    <2>3. FlagsInv /\ ArmedInv
      BY DEF Init, FlagsInv, ArmedInv, Unarmed, None
    <2> QED
      BY <2>1, <2>2, <2>3 DEF IInv
  <1>2. IInv /\ [Next]_vars => IInv'
    <2>1. TypeOK <=> CountType /\ ControlType
      BY DEF TypeOK, CountType, ControlType
    <2>2. TypeOK' <=> CountType' /\ ControlType'
      BY DEF TypeOK, CountType, ControlType
    <2> QED
      BY <2>1, <2>2, CountStep, TypeStep, LifeStep, ArmedStep DEF IInv
  <1> QED
    BY <1>1, <1>2, PTL DEF Spec

\* A destroyed task leaves no registration behind that would call its handler,
\* and a task that waits is registered for what it waits for.
THEOREM FreedTasksAreQuiet == Spec => []FreedIsQuiet
  <1>1. IInv => FreedIsQuiet
    <2> SUFFICES ASSUME IInv PROVE FreedIsQuiet
      OBVIOUS
    <2>1. TypeOK /\ WaitIsArmed
      BY DEF IInv, ArmedInv, Armed, WaitIsArmed
    <2>2. mem = "freed" => data.st = "none"
      BY DEF IInv, LifeInv
    <2>3. mem = "freed" /\ "zeroed" \notin odd => tmr = "none"
      BY DEF IInv, TimerInv
    <2> QED
      BY <2>1, <2>2, <2>3 DEF FreedIsQuiet
  <1> QED
    BY Inductive, <1>1, PTL

\* Every unit that read(), recv(), write() or send() moved is reported in
\* exactly one callback or is still counted for the next one.
THEOREM TransferIsReportedOnce == Spec => []ReportedOnce
  <1>1. IInv => ReportedOnce
    BY DEF IInv, CountInv, ReportedOnce
  <1> QED
    BY Inductive, <1>1, PTL

\* In regular use a callback begins only while its owner waits, and reports a
\* timeout only when one runs.
THEOREM CalledOnlyWhileWaiting == Spec => OnlyWhileWaiting
  <1> DEFINE Begins == pc # "cb" /\ pc' = "cb" /\ Regular
                          => asked = "wait" /\ (cb'.ev = "TIMER" => timed)
  <1>1. IInv /\ [Next]_vars => [Begins]_vars
    <2> SUFFICES ASSUME IInv, Next, pc # "cb", pc' = "cb", Regular
                 PROVE  asked = "wait" /\ (cb'.ev = "TIMER" => timed)
      BY DEF Begins
    <2>1. asked \in Asked
      BY DEF IInv, TypeOK
    <2>2. CASE IoEvent
      <3>1. asked = "wait"
        BY <2>1, <2>2 DEF IoEvent, IInv, ArmedInv, Unarmed, Asked
      <3>2. cb'.ev = "IO"
        BY <2>2 DEF IoEvent, CallBack, NoCb
      <3> QED
        BY <3>1, <3>2
    <2>3. CASE TimerEvent
      BY <2>1, <2>3 DEF TimerEvent, IInv, ArmedInv, Unarmed, Armed, Asked
    <2>4. CASE Transfer \/ TransferEnds \/ Receive
      <3>1. pc = "xfer" /\ cb'.ev = "IO"
        BY <2>4 DEF Transfer, TransferEnds, Receive, CallBack, IInv, LifeInv
      <3> QED
        BY <3>1 DEF IInv, ArmedInv
    <2>5. IoEvent \/ TimerEvent \/ Transfer \/ TransferEnds \/ Receive
      BY DEF Next, Owner, Loop, Handler, Return, Create, Start, StartDirect, Restart,
         Stop,
         Enable1, Enable0, TimeoutSet0, Destroy, NoMore, ReturnContinue, ReturnDirect,
         ReturnOther, Arrive
    <2> QED
      BY <2>2, <2>3, <2>4, <2>5
  <1>2. Spec => [][Begins]_vars
    BY Inductive, <1>1, PTL DEF Spec
  <1> QED
    BY <1>2 DEF OnlyWhileWaiting
=============================================================================
