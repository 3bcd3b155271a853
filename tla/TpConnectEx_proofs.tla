-------------------------- MODULE TpConnectEx_proofs -------------------------
(***************************************************************************)
(* Proofs about TpConnectEx for any number of addresses, tries and bound:  *)
(* no descriptor is lost and every address has its tries, no more and no   *)
(* less as long as the index of the address is kept.                       *)
(***************************************************************************)
EXTENDS TpConnectEx, TLAPS

-----------------------------------------------------------------------------
(* The inductive invariant.                                                *)

\* The next decision is about address cur and try; and the address cur has been
\* tried, but the index has not been moved on yet.
Ahead == \/ pc = "handler" \/ (pc = "wait" /\ ~io)
         \/ pc = "create" /\ (addr = -1 \/ err = "0")
Tried == \/ (pc = "wait" /\ io) \/ (pc = "report" /\ err = "err")
         \/ pc = "create" /\ addr # -1 /\ err = "err"

\* The tries address a has had when try t of address c comes next.
Spent(c, t, a) ==
    IF RoundRobin THEN IF a < c THEN t + 1 ELSE t
    ELSE IF a < c THEN prm.max ELSE IF a = c THEN t ELSE 0

Had(c, t) == \A a \in 0 .. prm.n - 1 : /\ tries[a] >= Spent(c, t, a)
                                       /\ ~lost => tries[a] = Spent(c, t, a)

\* Where tp_task_connect_ex_start() finds cur and try, and where it connects.
Reached(c, t) == /\ c \in 0 .. prm.n /\ t \in Nat
                 /\ RoundRobin => (prm.max # 0 => t < prm.max)
                 /\ ~RoundRobin => c < prm.n /\ t <= prm.max
Ready(c, t) == c \in 0 .. prm.n - 1 /\ t \in Nat /\ (prm.max # 0 => t < prm.max)

\* The index and the try are those of the tries that were made.
CountInv ==
    /\ Ahead => Reached(cur, try) /\ Had(cur, try)
    /\ (pc = "wait" \/ (pc = "handler" /\ err = "0")) => Ready(cur, try)
    /\ Tried => /\ Ready(cur, try)
                /\ IF RoundRobin THEN Had(cur + 1, try) ELSE Had(cur, try + 1)
    /\ cur <= prm.n
    /\ \A a \in DOMAIN tries : a >= prm.n => tries[a] = 0

\* What TriesLimited says of the tries, kept after the end.
Limits ==
    ~lost => /\ prm.max # 0 => \A a \in DOMAIN tries : tries[a] <= prm.max
             /\ prm.rr => \A a, b \in 0 .. prm.n - 1 :
                   a < b => tries[b] <= tries[a] /\ tries[a] <= tries[b] + 1
EndInv ==
    /\ ~Ahead /\ ~Tried => Limits
    /\ err = "-1" /\ ~prm.limit =>
          prm.max # 0 /\ \A a \in 0 .. prm.n - 1 : tries[a] >= prm.max

\* The registrations and the error of every place: a timer that runs although
\* nothing waits was left by a refused descriptor.
PlaceInv ==
    /\ pc \in {"create", "handler"} => err \in {"0", "err"}
    /\ pc = "report" => err \in {"err", "-1"}
    /\ pc = "wait" => err = "0" /\ (open <=> io) /\ (~io => tmr = "on") /\ ~stray
    /\ pc # "wait" => ~io
    /\ pc \notin {"wait", "done", "freed"} => ~open
    /\ pc = "done" => (open <=> rep.res = "0")
    /\ pc = "freed" /\ prm.close => ~open
    /\ prm.timed /\ pc # "wait" => (tmr = "on" <=> stray)
    /\ stray => prm.timed /\ ~open /\ pc \in {"create", "handler", "report", "done"}

\* What holds at all times, and until a stray timer starts the task again.
Shape == TypeOK /\ Valid(prm) /\ PlaceInv
Counted == ~late => CountInv /\ EndInv
IInv == Shape /\ CountInv /\ EndInv

-----------------------------------------------------------------------------
\* The parameters are numbers, and MaxN is the largest number of addresses.
LEMMA ParamFacts ==
    ASSUME prm \in Params
    PROVE  /\ prm.n \in Nat /\ prm.n >= 1 /\ prm.max \in Nat
           /\ MaxN \in Nat /\ prm.n <= MaxN
           /\ prm.rr \in BOOLEAN /\ prm.delay \in BOOLEAN /\ prm.initial \in BOOLEAN
           /\ prm.limit \in BOOLEAN /\ prm.timed \in BOOLEAN /\ prm.every \in BOOLEAN
           /\ prm.close \in BOOLEAN
  <1>1. MaxN \in AddrCounts /\ \A m \in AddrCounts : m <= MaxN
    BY TpConnectExAssumption DEF MaxN
  <1>2. /\ prm.n \in AddrCounts /\ prm.max \in MaxTries
        /\ prm.rr \in BOOLEAN /\ prm.delay \in BOOLEAN /\ prm.initial \in BOOLEAN
        /\ prm.limit \in BOOLEAN /\ prm.timed \in BOOLEAN /\ prm.every \in BOOLEAN
        /\ prm.close \in BOOLEAN
    BY DEF Params
  <1>3. MaxN \in Nat /\ prm.n \in Nat /\ prm.n # 0 /\ prm.max \in Nat
    BY <1>1, <1>2, TpConnectExAssumption
  <1> QED
    BY <1>1, <1>2, <1>3

\* When the tries are those of the index, they keep the limits.
LEMMA HadLimits ==
    ASSUME TypeOK, NEW c \in Nat, NEW t \in Nat, Had(c, t),
           prm.max # 0 => (IF RoundRobin THEN t < prm.max \/ (c = 0 /\ t <= prm.max)
                           ELSE t <= prm.max),
           \A a \in DOMAIN tries : a >= prm.n => tries[a] = 0
    PROVE  Limits
  <1>1. /\ prm.n \in Nat /\ prm.max \in Nat /\ prm.n <= MaxN /\ MaxN \in Nat
        /\ tries \in [0 .. MaxN -> Nat]
    BY ParamFacts DEF TypeOK
  <1>2. SUFFICES ASSUME ~lost PROVE
           /\ prm.max # 0 => \A a \in DOMAIN tries : tries[a] <= prm.max
           /\ prm.rr => \A a, b \in 0 .. prm.n - 1 :
                 a < b => tries[b] <= tries[a] /\ tries[a] <= tries[b] + 1
    BY DEF Limits
  <1>3. \A a \in 0 .. prm.n - 1 : tries[a] = Spent(c, t, a)
    BY <1>2 DEF Had
  <1>4. ASSUME prm.max # 0, NEW a \in DOMAIN tries PROVE tries[a] <= prm.max
    <2>1. a \in 0 .. MaxN
      BY <1>1, <1>4
    <2>2. CASE a < prm.n
      <3>1. Spent(c, t, a) <= prm.max
        BY <1>1, <1>4, <2>1 DEF Spent
      <3> QED
        BY <1>1, <1>3, <2>1, <2>2, <3>1, SMTT(40)
    <2>3. CASE a >= prm.n
      BY <1>1, <1>4, <2>3
    <2> QED
      BY <1>1, <2>1, <2>2, <2>3
  <1>5. ASSUME prm.rr, NEW a \in 0 .. prm.n - 1, NEW b \in 0 .. prm.n - 1, a < b
        PROVE  tries[b] <= tries[a] /\ tries[a] <= tries[b] + 1
    <2>1. RoundRobin
      BY <1>5 DEF RoundRobin
    <2>2. Spent(c, t, b) <= Spent(c, t, a) /\ Spent(c, t, a) <= Spent(c, t, b) + 1
      BY <1>1, <1>5, <2>1 DEF Spent
    <2> QED
      BY <1>3, <1>5, <2>2
  <1> QED
    BY <1>4, <1>5

\* The limits hold at all times.
LEMMA LimitsHold == IInv => Limits
  <1> SUFFICES ASSUME IInv PROVE Limits
    OBVIOUS
  <1>1. /\ TypeOK /\ CountInv /\ EndInv /\ cur \in Nat /\ try \in Nat
        /\ prm.n \in Nat /\ prm.max \in Nat
        /\ \A a \in DOMAIN tries : a >= prm.n => tries[a] = 0
    BY ParamFacts DEF IInv, Shape, TypeOK, CountInv
  <1>2. CASE Ahead
    <2>1. Had(cur, try) /\ Reached(cur, try)
      BY <1>1, <1>2 DEF CountInv
    <2> QED
      BY <1>1, <2>1, HadLimits DEF Reached
  <1>3. CASE Tried
    <2>1. Ready(cur, try) /\ IF RoundRobin THEN Had(cur + 1, try) ELSE Had(cur, try + 1)
      BY <1>1, <1>3 DEF CountInv
    <2>2. CASE RoundRobin
      BY <1>1, <2>1, <2>2, HadLimits DEF Ready
    <2>3. CASE ~RoundRobin
      <3>1. try + 1 \in Nat /\ (prm.max # 0 => try + 1 <= prm.max)
        BY <1>1, <2>1 DEF Ready
      <3> QED
        BY <1>1, <2>1, <2>3, <3>1, HadLimits
    <2> QED
      BY <2>2, <2>3
  <1>4. CASE ~Ahead /\ ~Tried
    BY <1>1, <1>4 DEF EndInv
  <1> QED
    BY <1>2, <1>3, <1>4

\* When the index moves on the tries are still those of the index: a round is
\* over, an address has had all of its tries.
LEMMA RoundOver ==
    ASSUME prm \in Params, NEW t \in Nat, RoundRobin, Had(prm.n, t)
    PROVE  Had(0, t + 1)
  <1>1. prm.n \in Nat
    BY ParamFacts
  <1>2. \A a \in 0 .. prm.n - 1 : Spent(prm.n, t, a) = Spent(0, t + 1, a)
    BY <1>1 DEF Spent
  <1> QED
    BY <1>2 DEF Had

LEMMA AddressOver ==
    ASSUME prm \in Params, NEW c \in Nat, ~RoundRobin, Had(c, prm.max)
    PROVE  Had(c + 1, 0)
  <1>1. prm.n \in Nat /\ prm.max \in Nat
    BY ParamFacts
  <1>2. \A a \in 0 .. prm.n - 1 : Spent(c, prm.max, a) = Spent(c + 1, 0, a)
    BY <1>1 DEF Spent
  <1> QED
    BY <1>2 DEF Had

\* What tp_task_connect_ex_start() decides.
LEMMA NextTryFacts ==
    ASSUME IInv, Ahead, ~(try = 0 /\ cur = 0)
    PROVE  LET d == NextTry IN
           /\ d.act \in {"connect", "delay", "fail"}
           /\ d.cur \in 0 .. prm.n /\ d.try \in Nat
           /\ d.act # "fail" => Ready(d.cur, d.try) /\ Had(d.cur, d.try)
           /\ d.act = "fail" =>
                 prm.max # 0 /\ \A a \in 0 .. prm.n - 1 : tries[a] >= prm.max
  <1>1. /\ Reached(cur, try) /\ Had(cur, try) /\ prm \in Params
        /\ cur \in Nat /\ try \in Nat /\ prm.n \in Nat /\ prm.n >= 1 /\ prm.max \in Nat
        /\ tries \in [0 .. MaxN -> Nat] /\ MaxN \in Nat /\ prm.n <= MaxN
        /\ prm.delay \in BOOLEAN
    BY ParamFacts DEF IInv, Shape, CountInv, TypeOK
  <1>2. CASE RoundRobin
    <2>1. CASE cur < prm.n
      <3>1. NextTry = Step("connect", cur, try)
        BY <1>2, <2>1 DEF NextTry
      <3> QED
        BY <1>1, <1>2, <2>1, <3>1 DEF Step, Ready, Reached
    <2>2. CASE ~(cur < prm.n)
      <3>1. cur = prm.n
        BY <1>1, <2>2 DEF Reached
      <3>2. Had(0, try + 1)
        BY <1>1, <1>2, <3>1, RoundOver
      <3>3. CASE prm.max # 0 /\ try + 1 >= prm.max
        <4>1. NextTry = Step("fail", 0, try + 1)
          BY <1>2, <2>2, <3>3 DEF NextTry
        <4>2. \A a \in 0 .. prm.n - 1 : tries[a] >= try + 1
          BY <1>1, <1>2, <3>2 DEF Had, Spent
        <4>3. \A a \in 0 .. prm.n - 1 : tries[a] >= prm.max
          BY <1>1, <3>3, <4>2
        <4> QED
          BY <1>1, <3>3, <4>1, <4>3 DEF Step
      <3>4. CASE ~(prm.max # 0 /\ try + 1 >= prm.max)
        <4>1. NextTry = Step(IF prm.delay THEN "delay" ELSE "connect", 0, try + 1)
          BY <1>2, <2>2, <3>4 DEF NextTry, DelayOr
        <4> QED
          BY <1>1, <3>2, <3>4, <4>1 DEF Step, Ready
      <3> QED
        BY <3>3, <3>4
    <2> QED
      BY <2>1, <2>2
  <1>3. CASE ~RoundRobin
    <2>0. cur < prm.n /\ try <= prm.max
      BY <1>1, <1>3 DEF Reached
    <2>1. CASE try < prm.max
      <3>1. NextTry = Step(IF prm.delay THEN "delay" ELSE "connect", cur, try)
        BY <1>3, <2>1 DEF NextTry, DelayOr
      <3> QED
        BY <1>1, <2>0, <2>1, <3>1 DEF Step, Ready
    <2>2. CASE ~(try < prm.max)
      <3>1. try = prm.max /\ prm.max # 0
        BY <1>1, <1>3, <2>0, <2>2 DEF RoundRobin
      <3>2. Had(cur + 1, 0)
        BY <1>1, <1>3, <3>1, AddressOver
      <3>3. CASE cur + 1 >= prm.n
        <4>1. NextTry = Step("fail", cur + 1, 0)
          BY <1>3, <2>2, <3>3 DEF NextTry
        <4>2. \A a \in 0 .. prm.n - 1 : tries[a] >= prm.max
          BY <1>1, <1>3, <3>2, <3>3 DEF Had, Spent
        <4> QED
          BY <1>1, <2>0, <3>1, <4>1, <4>2 DEF Step
      <3>4. CASE ~(cur + 1 >= prm.n)
        <4>1. NextTry = Step(IF prm.delay THEN "delay" ELSE "connect", cur + 1, 0)
          BY <1>3, <2>2, <3>4 DEF NextTry, DelayOr
        <4> QED
          BY <1>1, <3>1, <3>2, <3>4, <4>1 DEF Step, Ready
      <3> QED
        BY <3>3, <3>4
    <2> QED
      BY <2>1, <2>2
  <1> QED
    BY <1>2, <1>3

LEMMA DecisionFacts ==
    ASSUME IInv, Ahead, NEW do \in BOOLEAN, do => Ready(cur, try), NEW d \in Decisions(do)
    PROVE  /\ d.act \in {"connect", "delay", "fail"}
           /\ d.cur \in 0 .. prm.n /\ d.try \in Nat
           /\ d.act # "fail" => Ready(d.cur, d.try) /\ Had(d.cur, d.try)
           /\ d.act = "fail" /\ ~prm.limit =>
                 prm.max # 0 /\ \A a \in 0 .. prm.n - 1 : tries[a] >= prm.max
  <1>1. /\ Had(cur, try) /\ cur \in 0 .. prm.n /\ try \in Nat
        /\ prm.n \in Nat /\ prm.n >= 1 /\ prm.max \in Nat
        /\ prm.delay \in BOOLEAN /\ prm.initial \in BOOLEAN /\ prm.limit \in BOOLEAN
    BY ParamFacts DEF IInv, Shape, CountInv, TypeOK
  <1>2. CASE do
    <2>1. d = Step("connect", cur, try)
      BY <1>2 DEF Decisions
    <2> QED
      BY <1>1, <1>2, <2>1 DEF Step
  <1>3. CASE ~do /\ try = 0 /\ cur = 0
    <2>1. d = Step("connect", 0, 0) \/ d = Step("delay", 0, 0)
      BY <1>1, <1>3 DEF Decisions, Checked, DelayOr
    <2>2. Ready(0, 0) /\ Had(0, 0)
      BY <1>1, <1>3 DEF Ready
    <2> QED
      BY <1>1, <2>1, <2>2 DEF Step
  <1>4. CASE ~do /\ ~(try = 0 /\ cur = 0)
    <2>1. \/ d = NextTry
          \/ d = Step("fail", cur, try) /\ prm.limit
          \/ d = Step("fail", NextTry.cur, NextTry.try) /\ prm.limit
      BY <1>1, <1>4 DEF Decisions, Checked
    <2>2. CASE d = NextTry
      BY <1>4, <2>2, NextTryFacts
    <2>3. CASE d = Step("fail", cur, try) /\ prm.limit
      BY <1>1, <2>3 DEF Step
    <2>4. CASE d = Step("fail", NextTry.cur, NextTry.try) /\ prm.limit
      <3>1. NextTry.cur \in 0 .. prm.n /\ NextTry.try \in Nat
        BY <1>4, NextTryFacts
      <3> QED
        BY <2>4, <3>1 DEF Step
    <2> QED
      BY <2>1, <2>2, <2>3, <2>4
  <1> QED
    BY <1>2, <1>3, <1>4

\* A try is counted: the index is kept, or lost and set to the first address.
LEMMA OneMoreTry ==
    ASSUME TypeOK, NEW c, NEW t, Ready(c, t), Had(c, t),
           tries' = [tries EXCEPT ![c] = @ + 1], prm' = prm, lost => lost'
    PROVE  /\ IF RoundRobin THEN Had(c + 1, t)' ELSE Had(c, t + 1)'
           /\ lost' /\ c # 0 => IF RoundRobin THEN Had(1, t)' ELSE Had(0, t + 1)'
  <1>1. /\ prm.n \in Nat /\ prm.max \in Nat /\ prm.n <= MaxN /\ MaxN \in Nat
        /\ tries \in [0 .. MaxN -> Nat] /\ c \in 0 .. prm.n - 1 /\ t \in Nat
    BY ParamFacts DEF TypeOK, Ready
  <1>2. RoundRobin' <=> RoundRobin
    BY DEF RoundRobin
  <1>3. \A a \in 0 .. prm.n - 1 : tries'[a] = IF a = c THEN tries[a] + 1 ELSE tries[a]
    BY <1>1
  <1>4. \A a \in 0 .. prm.n - 1 : /\ tries[a] \in Nat /\ tries[a] >= Spent(c, t, a)
                                  /\ ~lost' => tries[a] = Spent(c, t, a)
    BY <1>1 DEF Had
  <1>5. CASE RoundRobin
    <2>1. \A a \in 0 .. prm.n - 1 :
             Spent(c, t, a) = (IF a < c THEN t + 1 ELSE t)
      BY <1>5 DEF Spent
    <2>2. \A a \in 0 .. prm.n - 1 :
             /\ Spent(c + 1, t, a)' = IF a < c + 1 THEN t + 1 ELSE t
             /\ Spent(1, t, a)' = IF a < 1 THEN t + 1 ELSE t
      BY <1>2, <1>5 DEF Spent
    <2>3. Had(c + 1, t)'
      <3>1. ASSUME NEW a \in 0 .. prm.n - 1
            PROVE  /\ tries'[a] >= Spent(c + 1, t, a)'
                   /\ ~lost' => tries'[a] = Spent(c + 1, t, a)'
        BY <1>1, <1>3, <1>4, <2>1, <2>2, SMTT(40)
      <3> QED
        BY <3>1 DEF Had
    <2>4. lost' /\ c # 0 => Had(1, t)'
      <3>1. ASSUME c # 0, NEW a \in 0 .. prm.n - 1 PROVE tries'[a] >= Spent(1, t, a)'
        <4>1. a \in Nat /\ tries[a] \in Nat /\ tries'[a] >= tries[a] /\ tries[a] >= t
          BY <1>1, <1>3, <1>4, <2>1, SMTT(40)
        <4>2. a = 0 => tries[a] >= t + 1
          BY <1>1, <1>4, <2>1, <3>1
        <4>3. tries'[a] \in Nat /\ Spent(1, t, a)' = IF a < 1 THEN t + 1 ELSE t
          BY <1>1, <1>3, <2>2, SMTT(40)
        <4> QED
          BY <1>1, <4>1, <4>2, <4>3
      <3> QED
        BY <3>1 DEF Had
    <2> QED
      BY <1>5, <2>3, <2>4
  <1>6. CASE ~RoundRobin
    <2>1. \A a \in 0 .. prm.n - 1 :
             Spent(c, t, a) = (IF a < c THEN prm.max ELSE IF a = c THEN t ELSE 0)
      BY <1>6 DEF Spent
    <2>2. \A a \in 0 .. prm.n - 1 :
             /\ Spent(c, t + 1, a)' = IF a < c THEN prm.max ELSE IF a = c THEN t + 1 ELSE 0
             /\ Spent(0, t + 1, a)' = IF a < 0 THEN prm.max ELSE IF a = 0 THEN t + 1 ELSE 0
      BY <1>2, <1>6 DEF Spent
    <2>3. t < prm.max
      BY <1>1, <1>6 DEF Ready, RoundRobin
    <2>4. Had(c, t + 1)'
      <3>1. ASSUME NEW a \in 0 .. prm.n - 1
            PROVE  /\ tries'[a] >= Spent(c, t + 1, a)'
                   /\ ~lost' => tries'[a] = Spent(c, t + 1, a)'
        BY <1>1, <1>3, <1>4, <2>1, <2>2, SMTT(40)
      <3> QED
        BY <3>1 DEF Had
    <2>5. lost' /\ c # 0 => Had(0, t + 1)'
      <3>1. ASSUME c # 0, NEW a \in 0 .. prm.n - 1 PROVE tries'[a] >= Spent(0, t + 1, a)'
        <4>1. a \in Nat /\ tries[a] \in Nat /\ tries'[a] >= tries[a]
          BY <1>1, <1>3, <1>4
        <4>2. a = 0 => tries[a] >= prm.max
          BY <1>1, <1>4, <2>1, <3>1
        <4>3. tries'[a] \in Nat /\ Spent(0, t + 1, a)' = IF a = 0 THEN t + 1 ELSE 0
          BY <1>1, <1>3, <2>2, <4>1, SMTT(40)
        <4> QED
          BY <1>1, <2>3, <4>1, <4>2, <4>3
      <3> QED
        BY <3>1 DEF Had
    <2> QED
      BY <1>6, <2>4, <2>5
  <1> QED
    BY <1>5, <1>6

\* Nothing but the place, the error and the registrations changes.
LEMMA SameTries ==
    ASSUME UNCHANGED <<prm, tries, lost>>
    PROVE  /\ Limits' <=> Limits
           /\ RoundRobin' <=> RoundRobin
           /\ \A c, t : /\ Had(c, t)' <=> Had(c, t)
                        /\ Reached(c, t)' <=> Reached(c, t)
                        /\ Ready(c, t)' <=> Ready(c, t)
  <1>1. RoundRobin' <=> RoundRobin
    BY DEF RoundRobin
  <1>2. \A c, t : \A a : Spent(c, t, a)' = Spent(c, t, a)
    BY <1>1 DEF Spent
  <1>3. \A c, t : Had(c, t)' <=> Had(c, t)
    BY <1>2 DEF Had
  <1>4. \A c, t : (Reached(c, t)' <=> Reached(c, t)) /\ (Ready(c, t)' <=> Ready(c, t))
    BY <1>1 DEF Reached, Ready
  <1>5. Limits' <=> Limits
    BY DEF Limits
  <1> QED
    BY <1>1, <1>3, <1>4, <1>5

\* An attempt at address c: it counts, and what comes next is the next index.
LEMMA AttemptStep ==
    ASSUME IInv, NEW c, NEW t, Ready(c, t), Had(c, t),
           prm' = prm, tries' = [tries EXCEPT ![c] = @ + 1], addr' = c, try' = t,
           \/ cur' = c /\ lost' = lost
           \/ cur' = 0 /\ lost' = (lost \/ c # 0),
           err' \in {"0", "err"}, Tried', ~Ahead'
    PROVE  CountInv' /\ EndInv'
  <1>1. /\ TypeOK /\ CountInv /\ prm.n \in Nat /\ prm.n >= 1 /\ prm.max \in Nat
        /\ prm.n <= MaxN /\ MaxN \in Nat /\ lost \in BOOLEAN
        /\ tries \in [0 .. MaxN -> Nat] /\ c \in 0 .. prm.n - 1 /\ t \in Nat
    BY ParamFacts DEF IInv, Shape, TypeOK, Ready
  <1>3. Ready(cur, try)'
    BY <1>1 DEF Ready
  <1>4. RoundRobin' <=> RoundRobin
    BY DEF RoundRobin
  <1>5. IF RoundRobin' THEN Had(cur + 1, try)' ELSE Had(cur, try + 1)'
    <2>0. lost => lost'
      BY <1>1
    <2>1. CASE cur' = c
      <3>1. IF RoundRobin THEN Had(c + 1, t)' ELSE Had(c, t + 1)'
        BY <1>1, <2>0, OneMoreTry
      <3> QED
        BY <1>4, <2>1, <3>1 DEF Had, Spent
    <2>2. CASE cur' = 0 /\ lost' /\ c # 0
      <3>1. IF RoundRobin THEN Had(1, t)' ELSE Had(0, t + 1)'
        BY <1>1, <2>0, <2>2, OneMoreTry
      <3> QED
        BY <1>4, <2>2, <3>1 DEF Had, Spent
    <2> QED
      BY <1>1, <2>1, <2>2
  <1>6. \A a \in DOMAIN tries' : a >= prm'.n => tries'[a] = 0
    BY <1>1 DEF CountInv
  <1>7. cur' <= prm'.n
    BY <1>1
  <1>8. CountInv'
    BY <1>3, <1>5, <1>6, <1>7 DEF CountInv, Ahead, Tried
  <1>9. EndInv'
    BY DEF EndInv
  <1> QED
    BY <1>8, <1>9

\* A call of tp_task_connect_ex_start(), whatever it decides.
LEMMA OutcomeStep ==
    ASSUME IInv, Ahead, pc \in {"create", "handler"}, NEW do \in BOOLEAN,
           do => Ready(cur, try), NEW d \in Decisions(do), Outcome(d)
    PROVE  CountInv' /\ EndInv'
  <1>t. /\ TypeOK /\ CountInv /\ EndInv /\ Limits
        /\ prm \in Params /\ prm.n \in Nat /\ prm.n <= MaxN /\ MaxN \in Nat
    BY LimitsHold, ParamFacts DEF IInv, Shape, TypeOK
  <1>d. /\ d.act \in {"connect", "delay", "fail"} /\ d.cur \in 0 .. prm.n /\ d.try \in Nat
        /\ d.act # "fail" => Ready(d.cur, d.try) /\ Had(d.cur, d.try)
        /\ d.act = "fail" /\ ~prm.limit =>
              prm.max # 0 /\ \A a \in 0 .. prm.n - 1 : tries[a] >= prm.max
    BY DecisionFacts
  <1>1. prm' = prm
    BY DEF Outcome, Connect, Delay, GiveUp
  <1>2. CASE Connect(d)
    <2>1. /\ d.act = "connect" /\ addr' = d.cur /\ tries' = [tries EXCEPT ![d.cur] = @ + 1]
          /\ try' = d.try
      BY <1>2 DEF Connect
    <2>2. /\ \/ cur' = d.cur /\ lost' = lost
             \/ cur' = 0 /\ lost' = (lost \/ d.cur # 0)
          /\ \/ err' = "0" /\ pc' = "wait" /\ io' = TRUE
             \/ err' = "err" /\ pc' \in {"create", "report"}
          /\ pc' = "create" => pc = "create"
      BY <1>2, <1>t DEF Connect, AfterFailure
    <2>3. Tried' /\ ~Ahead'
      BY <1>d, <2>1, <2>2 DEF Tried, Ahead, Ready
    <2> QED
      BY <1>1, <1>d, <2>1, <2>2, <2>3, AttemptStep
  <1>3. CASE Delay(d) /\ pc' = "wait"
    <2>1. /\ d.act = "delay" /\ cur' = d.cur /\ try' = d.try /\ err' = "0"
          /\ UNCHANGED <<addr, tries, lost, io>>
      BY <1>3 DEF Delay, AfterFailure
    <2>2. ~io
      BY DEF IInv, Shape, PlaceInv
    <2>3. Ready(cur, try)' /\ Had(cur, try)' /\ Reached(cur, try)'
      <3>1. Ready(d.cur, d.try)' /\ Had(d.cur, d.try)'
        BY <1>1, <1>d, <2>1, SameTries
      <3>2. Ready(cur, try)' /\ Had(cur, try)'
        BY <2>1, <3>1 DEF Ready, Had, Spent
      <3>3. prm.max # 0 => prm.max \in Nat
        BY <1>t, ParamFacts
      <3> QED
        BY <1>t, <1>1, <3>2, <3>3 DEF Ready, Reached, RoundRobin
    <2>4. CountInv'
      <3>1. \A a \in DOMAIN tries' : a >= prm'.n => tries'[a] = 0
        BY <1>t, <1>1, <2>1 DEF CountInv
      <3>2. ~Tried' /\ cur' <= prm'.n
        BY <1>t, <1>d, <1>1, <1>3, <2>1, <2>2 DEF Tried
      <3> QED
        BY <2>3, <3>1, <3>2 DEF CountInv
    <2>5. EndInv'
      BY <1>3, <2>1, <2>2 DEF EndInv, Ahead
    <2> QED
      BY <2>4, <2>5
  <1>4. CASE Delay(d) /\ pc' # "wait"
    <2>1. /\ d.act = "delay" /\ cur' = d.cur /\ try' = d.try /\ err' = "err"
          /\ pc' \in {"create", "report"} /\ (pc' = "create" => pc = "create")
          /\ addr' = d.cur /\ tries' = [tries EXCEPT ![d.cur] = @ + 1]
          /\ lost' = lost
      BY <1>4 DEF Delay, AfterFailure
    <2>2. Tried' /\ ~Ahead'
      BY <1>d, <2>1 DEF Tried, Ahead, Ready
    <2> QED
      BY <1>1, <1>d, <2>1, <2>2, AttemptStep
  <1>5. CASE GiveUp(d)
    <2>1. /\ d.act = "fail" /\ cur' = d.cur /\ try' = d.try /\ err' = "-1"
          /\ pc' \in {"null", "report"}
          /\ UNCHANGED <<addr, tries, lost>>
      BY <1>5 DEF GiveUp, ghost
    <2>2. ~Ahead' /\ ~Tried'
      BY <2>1 DEF Ahead, Tried
    <2>3. CountInv'
      <3>1. \A a \in DOMAIN tries' : a >= prm'.n => tries'[a] = 0
        BY <1>t, <1>1, <2>1 DEF CountInv
      <3>2. cur' <= prm'.n
        BY <1>t, <1>d, <1>1, <2>1
      <3> QED
        BY <2>1, <2>2, <3>1, <3>2 DEF CountInv
    <2>4. EndInv'
      <3>1. Limits'
        BY <1>t, <1>1, <2>1, SameTries
      <3>2. ~prm'.limit => prm'.max # 0 /\ \A a \in 0 .. prm'.n - 1 : tries'[a] >= prm'.max
        BY <1>d, <1>1, <2>1
      <3> QED
        BY <3>1, <3>2 DEF EndInv
    <2> QED
      BY <2>3, <2>4
  <1> QED
    BY <1>2, <1>3, <1>4, <1>5 DEF Outcome

\* The index is moved on to the next address or the next try.
LEMMA BumpStep ==
    ASSUME IInv, Tried, Bump, UNCHANGED <<prm, tries, lost>>
    PROVE  /\ Reached(cur, try)' /\ Had(cur, try)'
           /\ cur' \in 0 .. prm.n /\ try' \in Nat
  <1>1. /\ Ready(cur, try) /\ cur \in Nat /\ try \in Nat /\ prm.n \in Nat /\ prm.max \in Nat
        /\ IF RoundRobin THEN Had(cur + 1, try) ELSE Had(cur, try + 1)
    BY ParamFacts DEF IInv, Shape, TypeOK, CountInv
  <1>2. CASE RoundRobin
    <2>1. cur' = cur + 1 /\ try' = try
      BY <1>2 DEF Bump
    <2>2. Reached(cur + 1, try)
      BY <1>1, <1>2 DEF Ready, Reached
    <2> QED
      BY <1>1, <1>2, <2>1, <2>2 DEF Reached, Had, Spent, RoundRobin
  <1>3. CASE ~RoundRobin
    <2>1. cur' = cur /\ try' = try + 1
      BY <1>3 DEF Bump
    <2>2. Reached(cur, try + 1)
      BY <1>1, <1>3 DEF Ready, Reached, RoundRobin
    <2> QED
      BY <1>1, <1>3, <2>1, <2>2 DEF Reached, Had, Spent, RoundRobin
  <1> QED
    BY <1>2, <1>3

-----------------------------------------------------------------------------
(* What holds at all times.                                                *)

\* What tp_task_connect_ex_start() decides, whatever its state.
LEMMA DecisionTypes ==
    ASSUME TypeOK, NEW do \in BOOLEAN, NEW d \in Decisions(do)
    PROVE  d.cur \in Nat /\ d.try \in Nat
  <1>1. cur \in Nat /\ try \in Nat /\ prm.n \in Nat
    BY ParamFacts DEF TypeOK
  <1>2. NextTry.cur \in Nat /\ NextTry.try \in Nat
    BY <1>1 DEF NextTry, DelayOr, Step
  <1> QED
    BY <1>1, <1>2 DEF Decisions, Checked, DelayOr, Step

LEMMA OutcomeShape ==
    ASSUME Shape, pc \in {"create", "handler"}, NEW do \in BOOLEAN,
           NEW d \in Decisions(do), Outcome(d)
    PROVE  Shape'
  <1>t. /\ TypeOK /\ Valid(prm) /\ PlaceInv /\ prm \in Params /\ prm.timed \in BOOLEAN
        /\ open = FALSE /\ io = FALSE /\ tmr \in {"none", "on", "off"}
        /\ tries \in [0 .. MaxN -> Nat] /\ lost \in BOOLEAN /\ stray \in BOOLEAN
        /\ (stray => prm.timed) /\ (prm.timed => (tmr = "on" <=> stray))
    BY ParamFacts DEF Shape, TypeOK, PlaceInv
  <1>d. d.cur \in Nat /\ d.try \in Nat
    BY <1>t, DecisionTypes
  <1>1. prm' = prm /\ rep' = rep /\ late' = late
    BY DEF Outcome, Connect, Delay, GiveUp, ghost
  <1>2. /\ cur' \in Nat /\ try' \in Nat /\ addr' \in Nat \cup {-1} /\ lost' \in BOOLEAN
        /\ tries' \in [0 .. MaxN -> Nat]
    <2>1. tries' = tries \/ tries' = [tries EXCEPT ![d.cur] = @ + 1]
      BY DEF Outcome, Connect, Delay, GiveUp, ghost
    <2>2. [tries EXCEPT ![d.cur] = @ + 1] \in [0 .. MaxN -> Nat]
      <3>1. [tries EXCEPT ![d.cur] = @ + 1]
               = [x \in 0 .. MaxN |-> IF x = d.cur THEN tries[x] + 1 ELSE tries[x]]
        BY <1>t
      <3>2. \A x \in 0 .. MaxN : tries[x] \in Nat /\ tries[x] + 1 \in Nat
        BY <1>t
      <3> QED
        BY <3>1, <3>2
    <2>3. /\ cur' = d.cur \/ cur' = 0
          /\ try' = d.try
          /\ addr' = d.cur \/ addr' = addr
          /\ lost' = lost \/ lost' = (lost \/ d.cur # 0)
      <3>1. CASE Connect(d)
        BY <3>1 DEF Connect
      <3>2. CASE Delay(d)
        BY <3>2 DEF Delay
      <3>3. CASE GiveUp(d)
        BY <3>3 DEF GiveUp, ghost
      <3> QED
        BY <3>1, <3>2, <3>3 DEF Outcome
    <2>4. addr \in Nat \cup {-1}
      BY <1>t DEF TypeOK
    <2>5. cur' \in Nat /\ try' \in Nat /\ addr' \in Nat \cup {-1}
      BY <1>d, <2>3, <2>4
    <2>6. lost' \in BOOLEAN
      BY <1>t, <2>3
    <2>7. tries' \in [0 .. MaxN -> Nat]
      BY <1>t, <2>1, <2>2
    <2> QED
      BY <2>5, <2>6, <2>7
  <1>3. CASE Connect(d)
    <2>1. \/ /\ open' = TRUE /\ io' = TRUE /\ pc' = "wait" /\ err' = "0" /\ stray' = FALSE
             /\ tmr' \in {"none", "on", "off"}
          \/ /\ open' = FALSE /\ io' = FALSE /\ pc' \in {"create", "report"} /\ err' = "err"
             /\ tmr' \in {"none", "on", "off"} /\ stray' \in BOOLEAN
             /\ (stray' => prm.timed) /\ (prm.timed => (tmr' = "on" <=> stray'))
      BY <1>t, <1>3 DEF Connect, StartFails, AfterFailure, regs
    <2>2. PlaceInv'
      BY <1>1, <2>1 DEF PlaceInv
    <2>3. TypeOK'
      BY <1>t, <1>1, <1>2, <2>1 DEF TypeOK, Places
    <2> QED
      BY <1>t, <1>1, <2>2, <2>3 DEF Shape
  <1>4. CASE Delay(d)
    <2>1. /\ open' = FALSE /\ io' = FALSE /\ stray' = FALSE
          /\ \/ pc' = "wait" /\ err' = "0" /\ tmr' = "on"
             \/ pc' \in {"create", "report"} /\ err' = "err" /\ tmr' = "none"
      BY <1>t, <1>4 DEF Delay, AfterFailure
    <2>2. PlaceInv'
      BY <1>1, <2>1 DEF PlaceInv
    <2>3. TypeOK'
      BY <1>t, <1>1, <1>2, <2>1 DEF TypeOK, Places
    <2> QED
      BY <1>t, <1>1, <2>2, <2>3 DEF Shape
  <1>5. CASE GiveUp(d)
    <2>1. /\ open' = FALSE /\ io' = FALSE /\ err' = "-1" /\ tmr' \in {"none", "on", "off"}
          /\ stray' \in BOOLEAN /\ (stray' => prm.timed) /\ (prm.timed => (tmr' = "on" <=> stray'))
          /\ pc' = "report" \/ (pc' = "null" /\ ~stray')
      BY <1>t, <1>5 DEF GiveUp
    <2>2. PlaceInv'
      BY <1>1, <2>1 DEF PlaceInv
    <2>3. TypeOK'
      BY <1>t, <1>1, <1>2, <2>1 DEF TypeOK, Places
    <2> QED
      BY <1>t, <1>1, <2>2, <2>3 DEF Shape
  <1> QED
    BY <1>3, <1>4, <1>5 DEF Outcome

\* The types and what is known of the places are kept by every step.
LEMMA ShapeStep ==
    ASSUME Shape, [Next]_vars
    PROVE  Shape'
  <1>t. /\ TypeOK /\ Valid(prm) /\ PlaceInv /\ pc \in Places /\ prm.timed \in BOOLEAN
        /\ tmr \in {"none", "on", "off"} /\ open \in BOOLEAN /\ prm.close \in BOOLEAN
        /\ cur \in Nat /\ try \in Nat
    BY ParamFacts DEF Shape, TypeOK
  <1>1. CASE CreateStart \/ CreateAgain \/ HandlerStart
    <2>1. PICK do \in BOOLEAN : \E d \in Decisions(do) : Outcome(d)
      BY <1>1 DEF CreateStart, CreateAgain, HandlerStart
    <2>2. pc \in {"create", "handler"}
      BY <1>1 DEF CreateStart, CreateAgain, HandlerStart
    <2> QED
      BY <2>1, <2>2, OutcomeShape
  <1>2. CASE CreateRetry
    <2>1. /\ pc = "create" /\ pc' = "create" /\ err' = "0" /\ cur' \in Nat /\ try' \in Nat
          /\ UNCHANGED <<prm, open, io, tmr, stray, addr, tries, rep, lost, late>>
      BY <1>t, <1>2 DEF CreateRetry, Bump, regs, ghost
    <2>2. PlaceInv'
      BY <1>t, <2>1 DEF PlaceInv
    <2>3. TypeOK'
      BY <1>t, <2>1 DEF TypeOK
    <2> QED
      BY <1>t, <2>1, <2>2, <2>3 DEF Shape
  <1>3. CASE Connected
    <2>1. /\ io' = FALSE /\ rep' = [res |-> "0", idx |-> cur] /\ pc' = "done" /\ open /\ err = "0"
          /\ tmr' = (IF prm.timed THEN "none" ELSE tmr) /\ stray' = FALSE
          /\ UNCHANGED <<prm, cur, try, open, err, addr, tries, lost, late>>
      BY <1>t, <1>3 DEF Connected, StopRegs, PlaceInv
    <2>2. PlaceInv'
      BY <1>t, <2>1 DEF PlaceInv
    <2>3. TypeOK'
      BY <1>t, <2>1 DEF TypeOK, Places
    <2> QED
      BY <1>t, <2>1, <2>2, <2>3 DEF Shape
  <1>4. CASE Failed
    <2>1. /\ io' = FALSE /\ open' = FALSE /\ pc' = "report" /\ err' = "err"
          /\ tmr' = (IF prm.timed THEN "none" ELSE tmr) /\ stray' = FALSE
          /\ UNCHANGED <<prm, cur, try, addr, tries, rep, lost, late>>
      BY <1>4 DEF Failed, StopRegs, ghost
    <2>2. PlaceInv'
      BY <1>t, <2>1 DEF PlaceInv
    <2>3. TypeOK'
      BY <1>t, <2>1 DEF TypeOK, Places
    <2> QED
      BY <1>t, <2>1, <2>2, <2>3 DEF Shape
  <1>5. CASE DelayOver
    <2>1. /\ pc \in {"wait", "done"} /\ ~open /\ tmr' = "off" /\ stray' = FALSE
          /\ pc' = "handler" /\ err' = "0" /\ late' \in BOOLEAN
          /\ UNCHANGED <<prm, cur, try, open, io, addr, tries, rep, lost>>
      BY <1>t, <1>5 DEF DelayOver, TypeOK
    <2>2. PlaceInv'
      BY <1>t, <2>1 DEF PlaceInv
    <2>3. TypeOK'
      BY <1>t, <2>1 DEF TypeOK, Places
    <2> QED
      BY <1>t, <2>1, <2>2, <2>3 DEF Shape
  <1>6. CASE ReportFail
    <2>1. /\ pc = "report" /\ UNCHANGED <<prm, open, io, tmr, stray, err, addr, tries, lost, late>>
          /\ err \in {"err", "-1"} /\ ~open /\ ~io /\ cur' \in Nat /\ try' \in Nat
          /\ \/ pc' = "done" /\ rep' = Told
             \/ pc' = "handler" /\ err = "err" /\ (rep' = Told \/ rep' = rep)
      BY <1>t, <1>6 DEF ReportFail, Bump, regs, PlaceInv
    <2>2. Told \in [res : {"none", "0", "err", "-1"}, idx : Nat] /\ Told.res = err
      BY <1>t, <2>1 DEF Told
    <2>3. rep' \in [res : {"none", "0", "err", "-1"}, idx : Nat]
      BY <1>t, <2>1, <2>2 DEF TypeOK
    <2>4. PlaceInv'
      BY <1>t, <2>1, <2>2 DEF PlaceInv
    <2>5. TypeOK'
      BY <1>t, <2>1, <2>3 DEF TypeOK, Places
    <2> QED
      BY <1>t, <2>1, <2>4, <2>5 DEF Shape
  <1>7. CASE Destroy
    <2>1. /\ pc \in {"wait", "done"} /\ io' = FALSE /\ open' = (open /\ ~prm.close)
          /\ pc' = "freed"
          /\ tmr' = (IF prm.timed THEN "none" ELSE tmr) /\ stray' = FALSE
          /\ UNCHANGED <<prm, cur, try, err, addr, tries, rep, lost, late>>
      BY <1>7 DEF Destroy, StopRegs, ghost
    <2>2. PlaceInv'
      BY <1>t, <2>1 DEF PlaceInv
    <2>3. TypeOK'
      BY <1>t, <2>1 DEF TypeOK, Places
    <2> QED
      BY <1>t, <2>1, <2>2, <2>3 DEF Shape
  <1>8. CASE UNCHANGED vars
    BY <1>t, <1>8 DEF vars, Shape, TypeOK, PlaceInv, Valid
  <1> QED
    BY <1>1, <1>2, <1>3, <1>4, <1>5, <1>6, <1>7, <1>8 DEF Next, Loop

-----------------------------------------------------------------------------
\* The tries are counted right by every step but that of a stray timer.
LEMMA CountedStep ==
    ASSUME IInv, [Next]_vars, ~late, ~late'
    PROVE  CountInv' /\ EndInv'
  <1>t. /\ TypeOK /\ CountInv /\ EndInv /\ PlaceInv /\ Limits
        /\ cur \in Nat /\ try \in Nat /\ prm.n \in Nat
    BY LimitsHold, ParamFacts DEF IInv, Shape, TypeOK
  <1>1. CASE CreateStart
    <2>1. Ahead /\ pc \in {"create", "handler"}
      BY <1>1 DEF CreateStart, Ahead
    <2> QED
      BY <1>1, <2>1, OutcomeStep DEF CreateStart
  <1>2. CASE CreateAgain
    <2>1. Ahead /\ pc \in {"create", "handler"}
      BY <1>2 DEF CreateAgain, Ahead
    <2> QED
      BY <1>2, <2>1, OutcomeStep DEF CreateAgain
  <1>3. CASE HandlerStart
    <2>1. Ahead /\ pc \in {"create", "handler"} /\ ((err = "0") => Ready(cur, try))
      BY <1>t, <1>3 DEF HandlerStart, Ahead, CountInv
    <2>2. PICK d \in Decisions(err = "0") : Outcome(d)
      BY <1>3 DEF HandlerStart
    <2> QED
      BY <2>1, <2>2, OutcomeStep
  <1>4. CASE CreateRetry
    <2>1. /\ Tried /\ pc = "create" /\ pc' = "create" /\ err' = "0" /\ Bump
          /\ UNCHANGED <<prm, addr, tries, lost>>
      BY <1>4 DEF CreateRetry, Tried, ghost
    <2>2. Reached(cur, try)' /\ Had(cur, try)' /\ cur' \in 0 .. prm.n
      BY <2>1, BumpStep
    <2>3. Ahead' /\ ~Tried'
      BY <2>1 DEF Ahead, Tried
    <2>4. CountInv'
      BY <1>t, <2>1, <2>2, <2>3 DEF CountInv
    <2> QED
      BY <2>1, <2>3, <2>4 DEF EndInv
  <1>5. CASE Connected
    <2>1. /\ pc' = "done" /\ err = "0"
          /\ UNCHANGED <<prm, cur, try, err, addr, tries, lost>>
      BY <1>t, <1>5 DEF Connected, PlaceInv
    <2>2. ~Ahead' /\ ~Tried'
      BY <2>1 DEF Ahead, Tried
    <2>3. CountInv' /\ Limits'
      BY <1>t, <2>1, <2>2, SameTries DEF CountInv
    <2> QED
      BY <2>1, <2>3 DEF EndInv
  <1>6. CASE Failed
    <2>1. /\ pc = "wait" /\ io /\ pc' = "report" /\ err' = "err"
          /\ UNCHANGED <<prm, cur, try, addr, tries, lost>>
      BY <1>6 DEF Failed, ghost
    <2>2. Tried /\ ~Ahead' /\ Tried'
      BY <2>1 DEF Ahead, Tried
    <2>3. /\ Ready(cur, try)' /\ (RoundRobin' <=> RoundRobin)
          /\ IF RoundRobin THEN Had(cur + 1, try)' ELSE Had(cur, try + 1)'
      BY <1>t, <2>1, <2>2 DEF CountInv, Ready, Had, Spent, RoundRobin
    <2>4. CountInv'
      BY <1>t, <2>1, <2>2, <2>3 DEF CountInv
    <2> QED
      BY <2>1, <2>2, <2>4 DEF EndInv
  <1>7. CASE DelayOver
    <2>1. /\ pc = "wait" /\ ~open /\ pc' = "handler" /\ err' = "0"
          /\ UNCHANGED <<prm, cur, try, addr, tries, lost>>
      BY <1>7 DEF DelayOver
    <2>2. Ahead /\ Ahead' /\ ~Tried'
      BY <1>t, <2>1 DEF Ahead, Tried, PlaceInv
    <2>3. Ready(cur, try)' /\ Had(cur, try)' /\ Reached(cur, try)'
      BY <1>t, <2>1, <2>2 DEF CountInv, Ready, Reached, Had, Spent, RoundRobin
    <2>4. CountInv'
      BY <1>t, <2>1, <2>2, <2>3 DEF CountInv
    <2> QED
      BY <2>1, <2>2, <2>4 DEF EndInv
  <1>8. CASE ReportFail
    <2>1. /\ pc = "report" /\ UNCHANGED <<prm, err, addr, tries, lost>>
          /\ \/ pc' = "done" /\ UNCHANGED <<cur, try>>
             \/ pc' = "handler" /\ err = "err" /\ Bump
      BY <1>t, <1>8 DEF ReportFail, PlaceInv
    <2>2. CASE pc' = "done" /\ UNCHANGED <<cur, try>>
      <3>1. ~Ahead' /\ ~Tried'
        BY <2>1, <2>2 DEF Ahead, Tried
      <3>2. CountInv' /\ Limits'
        BY <1>t, <2>1, <2>2, <3>1, SameTries DEF CountInv
      <3> QED
        BY <1>t, <2>1, <3>2 DEF EndInv
    <2>3. CASE pc' = "handler" /\ err = "err" /\ Bump
      <3>1. Tried /\ Ahead' /\ ~Tried'
        BY <2>1, <2>3 DEF Ahead, Tried
      <3>2. Reached(cur, try)' /\ Had(cur, try)' /\ cur' \in 0 .. prm.n
        BY <2>1, <2>3, <3>1, BumpStep
      <3>3. CountInv'
        BY <1>t, <2>1, <2>3, <3>1, <3>2 DEF CountInv
      <3> QED
        BY <2>1, <2>3, <3>1, <3>3 DEF EndInv
    <2> QED
      BY <2>1, <2>2, <2>3
  <1>9. CASE Destroy
    <2>1. pc' = "freed" /\ UNCHANGED <<prm, cur, try, err, addr, tries, lost>>
      BY <1>9 DEF Destroy, ghost
    <2>2. ~Ahead' /\ ~Tried'
      BY <2>1 DEF Ahead, Tried
    <2>3. CountInv' /\ Limits'
      BY <1>t, <2>1, <2>2, SameTries DEF CountInv
    <2> QED
      BY <1>t, <2>1, <2>3 DEF EndInv
  <1>10. CASE UNCHANGED vars
    BY <1>t, <1>10 DEF vars, CountInv, EndInv, Ahead, Tried, Reached, Ready, Had, Spent,
       RoundRobin, Limits
  <1> QED
    BY <1>1, <1>2, <1>3, <1>4, <1>5, <1>6, <1>7, <1>8, <1>9, <1>10 DEF Next, Loop

\* The types and what is known of the places are an invariant, and so is what is
\* known of the tries until a stray timer starts the task again.
THEOREM Inductive == Spec => [](Shape /\ Counted)
  <1>1. Init => Shape /\ Counted
    <2> SUFFICES ASSUME Init PROVE Shape /\ Counted
      OBVIOUS
    <2>1. /\ prm \in Params /\ Valid(prm) /\ prm.n \in Nat /\ prm.n >= 1 /\ prm.max \in Nat
          /\ MaxN \in Nat /\ prm.n <= MaxN
      BY ParamFacts DEF Init
    <2>2. TypeOK
      <3>1. prm \in Params /\ cur \in Nat /\ try \in Nat /\ addr \in Nat \cup {-1}
        BY <2>1 DEF Init
      <3>2. tries \in [0 .. MaxN -> Nat]
        BY DEF Init
      <3>3. /\ open \in BOOLEAN /\ io \in BOOLEAN /\ tmr = "none" /\ lost \in BOOLEAN
            /\ pc \in Places /\ err = "err" /\ stray \in BOOLEAN /\ late \in BOOLEAN
        BY DEF Init, Places
      <3>4. rep \in [res : {"none", "0", "err", "-1"}, idx : Nat]
        BY <2>1 DEF Init
      <3> QED
        BY <3>1, <3>2, <3>3, <3>4 DEF TypeOK
    <2>3. Ahead /\ ~Tried
      BY DEF Init, Ahead, Tried
    <2>4. Reached(cur, try) /\ Had(cur, try)
      BY <2>1 DEF Init, Reached, Had, Spent, RoundRobin
    <2>5. CountInv
      BY <2>1, <2>3, <2>4 DEF Init, CountInv
    <2>6. EndInv /\ PlaceInv
      BY <2>3 DEF Init, EndInv, PlaceInv
    <2> QED
      BY <2>1, <2>2, <2>5, <2>6 DEF Shape, Counted
  <1>2. Shape /\ Counted /\ [Next]_vars => Shape' /\ Counted'
    <2> SUFFICES ASSUME Shape, Counted, [Next]_vars PROVE Shape' /\ Counted'
      OBVIOUS
    <2>1. Shape'
      BY ShapeStep
    <2>2. ASSUME ~late' PROVE CountInv' /\ EndInv'
      <3>1. late => late'
        BY DEF Next, Loop, CreateStart, CreateRetry, CreateAgain, Connected, Failed, DelayOver,
           ReportFail, HandlerStart, Destroy, Outcome, Connect, Delay, GiveUp, ghost, vars
      <3>2. IInv /\ ~late
        BY <2>2, <3>1 DEF IInv, Counted
      <3> QED
        BY <2>2, <3>2, CountedStep
    <2> QED
      BY <2>1, <2>2 DEF Counted
  <1> QED
    BY <1>1, <1>2, PTL DEF Spec

\* Without a time limit tp_task_connect_ex gives up only when every address has
\* had max_tries tries, and none has more, in the promised order, as long as
\* tp_task_start() has not overwritten the index of the address; and all of it
\* until a timer that a refused descriptor has left starts a task again that has
\* made its last report.
THEOREM TriesAreLimited == Spec => []TriesLimited
  <1>1. Shape /\ Counted => TriesLimited
    <2> SUFFICES ASSUME Shape, Counted PROVE TriesLimited
      OBVIOUS
    <2>1. ASSUME ~late PROVE AllTried /\ Limits
      <3>1. IInv
        BY <2>1 DEF IInv, Counted
      <3> QED
        BY <3>1, LimitsHold DEF IInv, AllTried, CountInv, EndInv
    <2> QED
      BY <2>1 DEF Shape, TriesLimited, Limits
  <1> QED
    BY <1>1, Inductive, PTL

\* A descriptor is open exactly while tp_task_connect_ex connects it or has
\* handed it over, through every failure and delay, and tp_task_destroy() leaves
\* one open only to an owner that did not ask for the close.  After the last report
\* nothing is registered that would call the handler, but for the timer that the
\* refused descriptor of the last try has left; tp_task_destroy() takes that too.
THEOREM DescriptorsAreKept == Spec => []NoDescriptorLost
  <1>1. Shape => NoDescriptorLost
    BY DEF Shape, TypeOK, PlaceInv, NoDescriptorLost, QuietAfterEnd
  <1> QED
    BY <1>1, Inductive, PTL
=============================================================================
