----------------------------- MODULE TpMsg_proofs ----------------------------
(***************************************************************************)
(* Proofs about TpMsg for pools of any size: the message data outlives its *)
(* use, the callbacks run as often as they should and the counts done_cb   *)
(* is given are right.                                                     *)
(***************************************************************************)
EXTENDS TpMsg, FiniteSetTheorems, TLAPS

-----------------------------------------------------------------------------
(* Where a message is: in the pipe of its thread, in its batch, or in the  *)
(* hands of the actor that runs it.                                        *)

Holds(s, k)  == \E i \in 1 .. Len(s) : s[i] = k
Single(s, k) == \A i, j \in 1 .. Len(s) : s[i] = k /\ s[j] = k => i = j

Runs(a, k, t) == job[a].k = k /\ job[a].t = t /\ job[a].pc = "run"
Out(k, t) == Holds(queue[t], k) \/ Holds(batch[t], k) \/ \E a \in Actors : Runs(a, k, t)

\* There is one such message at most.
Uniq(k, t) ==
    /\ Single(queue[t], k) /\ Single(batch[t], k)
    /\ ~(Holds(queue[t], k) /\ Holds(batch[t], k))
    /\ \A a \in Actors : Runs(a, k, t) =>
          /\ ~Holds(queue[t], k) /\ ~Holds(batch[t], k)
          /\ \A b \in Actors : Runs(b, k, t) => a = b

\* The message an operation sends to the threads.
Main == IF mode = "bsend" THEN "cb" ELSE IF mode = "obo" THEN "obo"
        ELSE IF mode = "aop" THEN "aop" ELSE "sync"

\* Proxies past the callback.
At(a, pcs) == job[a].pc \in pcs
Past(a)    == job[a].pc # "run"

\* The messages of an operation are its own, one for every thread.
TokInv ==
    /\ \A k \in Kinds, t \in Threads :
          /\ Out(k, t) => k \in {Main, "done", "shut"}
          /\ k # "shut" => Uniq(k, t)
    /\ \A t \in Threads : Out("done", t) => mode \in {"cb", "obo"} /\ t = md.tpt
    /\ \A a \in Actors :
          /\ job[a].k = "none" => job[a] = None
          /\ Past(a) => \/ mode \in {"sync", "cb"} /\ job[a].k = "sync" /\ At(a, {"dec", "last"})
                        \/ mode = "obo" /\ job[a].k = "obo" /\ At(a, {"next", "self", "fin"})

\* Threads with a message, workers that will take the count down, workers that
\* took it to zero, workers one by one, and threads the callback has run for.
Waiting == {t \in Threads : Out(Main, t)}
DoneOut == \E t \in Threads : Out("done", t)
Decs    == {a \in Actors : job[a].pc = "dec"}
Lasts   == {a \in Actors : job[a].pc = "last"}
Stages  == {a \in Actors : At(a, {"next", "self", "fin"})}
Called  == {t \in Threads : calls[t] > 0}

\* The callback has not run for a thread that still has a message, and runs once.
OnceInv ==
    /\ Waiting \cap Called = {}
    /\ \A t \in Threads : calls[t] <= 1

NothingOut == Waiting = {} /\ ~DoneOut /\ Decs = {} /\ Lasts = {} /\ Stages = {}

StartInv ==
    /\ src \in Threads => src < n
    /\ cpc \in {"start", "next", "end", "again"} => job[src] = None
    /\ cpc = "start" =>
          /\ NothingOut /\ Called = {} /\ dones = 0 /\ ci = 0 /\ ret = "none"
          /\ report = [send |-> 0, err |-> 0]
          /\ md = [mem |-> "none", active |-> 0, idx |-> 0, send |-> 0, err |-> 0,
                   tpt |-> src, done |-> FALSE]

\* The operation was done at once, or refused: there is no message data.
AtOnceInv ==
    /\ cpc = "ret" /\ md.mem = "none" =>
          /\ mode # "aop" /\ ~DoneOut /\ Decs = {} /\ Lasts = {} /\ Stages = {}
          /\ mode # "bsend" => Waiting = {}
          /\ mode \in {"bsend", "sync"} => n = 1 /\ src # Ext /\ dones = 0
          /\ dones \in 0 .. 1
          /\ dones = 1 => /\ report.send = Cardinality(Called)
                          /\ report.send + report.err = Targets
    /\ mode \in {"bsend", "sync"} /\ md.mem # "none" => n > 1 \/ src = Ext
    /\ mode \in {"cb", "obo"} /\ md.mem # "none" => n > 1 /\ src # Ext

-----------------------------------------------------------------------------
(* Broadcasts.                                                             *)

\* Threads the loop has still to send to, and failed sends not counted off yet.
Left   == n - ci - (IF SKIP \in flags /\ ci <= src /\ src < n THEN 1 ELSE 0)
Failed == IF cpc \in {"loop", "end"} THEN md.err ELSE 0

CastInv ==
    mode \in {"bsend", "sync", "cb"} =>
        /\ cpc \in {"start", "loop", "end", "spin", "ret"}
        /\ cpc = "spin" => mode = "sync"
        /\ md.mem = "none" => cpc \in {"start", "ret"}
        /\ md.tpt = src
        /\ md.mem # "none" =>
              /\ cpc # "start" /\ ci \in 0 .. n /\ (cpc # "loop" => ci = n)
              /\ \A t \in Threads : t >= ci \/ (t = src /\ SKIP \in flags) =>
                    t \notin Waiting /\ t \notin Called
              /\ md.send = Cardinality(Waiting) + Cardinality(Called)
              /\ md.send + md.err + Left = InitActive
              /\ mode # "bsend" =>
                    md.active = Cardinality(Waiting) + Cardinality(Decs) + Left + Failed

\* A synchronous broadcast waits for the count.
SyncInv ==
    mode \in {"bsend", "sync"} =>
        /\ dones = 0 /\ md.done = FALSE /\ md.mem \in {"none", "stack", "gone"} /\ ~DoneOut
        /\ mode = "sync" /\ cpc = "ret" => md.mem # "stack"
        /\ mode = "sync" /\ md.mem = "gone" => md.active = 0 /\ cpc = "ret"

\* The one that takes the count to zero sees to done_cb.
DoneInv ==
    mode = "cb" /\ md.mem # "none" =>
        /\ md.mem \in {"heap", "gone"} /\ md.done = TRUE
        /\ md.active > 0 => Lasts = {} /\ ~DoneOut /\ md.mem = "heap"
        /\ \A a \in Lasts : Lasts = {a} /\ ~DoneOut /\ md.mem = "heap"
        /\ DoneOut => md.mem = "heap"
        /\ dones = IF md.mem = "gone" THEN 1 ELSE 0
        /\ dones = 1 => report = [send |-> md.send, err |-> md.err]
        /\ md.active = 0 /\ md.mem = "heap" /\ Lasts = {} /\ ~DoneOut => shut > 0

-----------------------------------------------------------------------------
(* One by one: the caller, a message, a worker or done_cb has the turn.    *)

\* Other threads than the caller below i.
Others(i) == i - (IF src < i THEN 1 ELSE 0)
SelfN == IF SelfDirect THEN 1 ELSE 0
Tries == md.send + md.err
SelfLast == {SKIP, SELF_DIRECT} \cap flags = {}

\* Nobody has the turn.
NoTurn == Waiting = {} /\ Stages = {} /\ ~DoneOut

OboInv ==
    mode = "obo" =>
        /\ cpc \in {"start", "next", "ret"}
        /\ md.mem = "none" => cpc \in {"start", "ret"}
        /\ md.tpt = src /\ ci = 0
        /\ md.mem # "none" =>
              /\ cpc # "start" /\ md.mem \in {"heap", "gone"}
              /\ md.idx \in 0 .. n + 1 /\ dones \in 0 .. 1
              /\ \A t \in Threads : t # src /\ t >= md.idx => t \notin Called
              /\ src \in Called => SelfDirect \/ md.idx = n + 1
              /\ md.send = Cardinality(Called) + (IF Waiting = {} THEN 0 ELSE 1)
              /\ Tries \in 0 .. n
              /\ cpc = "next" => /\ NoTurn /\ dones = 0 /\ md.mem = "heap" /\ md.idx <= n
                                 /\ Tries = Others(md.idx) + SelfN
                                 /\ \A t \in Threads : t # src => t \notin Called
              /\ \A t \in Waiting :
                    /\ Waiting = {t} /\ Stages = {} /\ ~DoneOut
                    /\ dones = 0 /\ md.mem = "heap"
                    /\ \/ t # src /\ t < n /\ md.idx = t /\ Tries = Others(t) + 1 + SelfN
                       \/ t = src /\ md.idx = n /\ SelfLast /\ Tries = n
              /\ \A a \in Stages :
                    /\ Stages = {a} /\ ~DoneOut /\ dones = 0 /\ md.mem = "heap"
                    /\ \/ /\ job[a].t # src /\ job[a].pc # "fin"
                          /\ md.idx <= n /\ Tries = Others(md.idx) + SelfN
                          /\ job[a].pc = "self" => md.idx = n
                       \/ job[a].t = src /\ md.idx = n + 1 /\ SelfLast /\ Tries = n
                       \/ job[a].pc = "fin" /\ Tries = Targets
              /\ DoneOut => dones = 0 /\ md.mem = "heap" /\ Tries = Targets
              /\ md.mem = "gone" => dones = 1
              /\ dones = 1 => /\ NoTurn /\ Tries = Targets
                              /\ report = [send |-> md.send, err |-> md.err]
              /\ cpc = "ret" /\ NoTurn /\ md.mem = "heap" =>
                    shut > 0 \/ \A t \in Threads : t # src => t \notin Called

-----------------------------------------------------------------------------
(* The asynchronous operation, and what a concurrent shutdown changes.     *)

AopInv ==
    mode = "aop" =>
        /\ cpc \in {"start", "again", "ret"} /\ dones = 0 /\ ci = 0
        /\ Waiting \subseteq {md.tpt} /\ Called \subseteq {md.tpt}
        /\ cpc = "again" => /\ md.tpt < n /\ Waiting = {} /\ Called = {} /\ md.mem = "heap"
                            /\ ret = "none"
        /\ cpc = "ret" => /\ ret # "none" /\ md.mem \in {"heap", "gone"}
                          /\ ret # "0" => Waiting = {} /\ Called = {} /\ md.mem = "heap"
                          /\ ret = "0" => /\ md.mem = "gone" <=> Called = {md.tpt}
                                          /\ md.mem = "heap" <=> Waiting = {md.tpt}

ShutInv ==
    shut = 0 =>
        /\ \A t \in Threads :
              /\ state[t] \in {RUNNING, STOP}
              /\ ~Out("shut", t)
              /\ state[t] = STOP => queue[t] = <<>> /\ batch[t] = <<>>
        /\ src \in Threads => state[src] = RUNNING

IInv == /\ TypeOK /\ TokInv /\ OnceInv /\ StartInv /\ AtOnceInv /\ CastInv /\ SyncInv
        /\ DoneInv /\ OboInv /\ AopInv /\ ShutInv

-----------------------------------------------------------------------------
(* Messages on their way.                                                  *)

\* A message appended to a pipe, taken from the head of a batch, or gone.
LEMMA SeqFacts ==
    /\ \A k : ~Holds(<<>>, k) /\ Single(<<>>, k)
    /\ \A s \in Seq(Kinds) : \A k \in Kinds : \A j :
          /\ Holds(Append(s, k), j) <=> (Holds(s, j) \/ j = k)
          /\ Single(s, j) /\ (j = k => ~Holds(s, j)) => Single(Append(s, k), j)
    /\ \A s \in Seq(Kinds) : s # <<>> =>
          /\ Head(s) \in Kinds /\ Tail(s) \in Seq(Kinds)
          /\ \A j : /\ Holds(s, j) <=> (Holds(Tail(s), j) \/ j = Head(s))
                    /\ Single(s, j) => Single(Tail(s), j) /\ (j = Head(s) => ~Holds(Tail(s), j))
  <1>1. \A k : ~Holds(<<>>, k) /\ Single(<<>>, k)
    BY DEF Holds, Single
  <1>2. ASSUME NEW s \in Seq(Kinds), NEW k \in Kinds, NEW j
        PROVE  /\ Holds(Append(s, k), j) <=> (Holds(s, j) \/ j = k)
               /\ Single(s, j) /\ (j = k => ~Holds(s, j)) => Single(Append(s, k), j)
    <2>1. /\ Len(Append(s, k)) = Len(s) + 1 /\ Len(s) \in Nat /\ Append(s, k)[Len(s) + 1] = k
          /\ \A i \in 1 .. Len(s) : Append(s, k)[i] = s[i]
      OBVIOUS
    <2>2. Holds(Append(s, k), j) <=> (Holds(s, j) \/ j = k)
      <3>1. ASSUME Holds(Append(s, k), j) PROVE Holds(s, j) \/ j = k
        <4>1. PICK i \in 1 .. Len(Append(s, k)) : Append(s, k)[i] = j
          BY <3>1 DEF Holds
        <4>2. i \in 1 .. Len(s) \/ i = Len(s) + 1
          BY <2>1
        <4> QED
          BY <2>1, <4>1, <4>2 DEF Holds
      <3>2. ASSUME Holds(s, j) PROVE Holds(Append(s, k), j)
        <4>1. PICK i \in 1 .. Len(s) : s[i] = j
          BY <3>2 DEF Holds
        <4>2. i \in 1 .. Len(Append(s, k)) /\ Append(s, k)[i] = j
          BY <2>1, <4>1
        <4> QED
          BY <4>2 DEF Holds
      <3>3. ASSUME j = k PROVE Holds(Append(s, k), j)
        <4>1. Len(s) + 1 \in 1 .. Len(Append(s, k))
          BY <2>1
        <4> QED
          BY <2>1, <3>3, <4>1 DEF Holds
      <3> QED
        BY <3>1, <3>2, <3>3
    <2>3. ASSUME Single(s, j), j = k => ~Holds(s, j) PROVE Single(Append(s, k), j)
      <3>1. ASSUME NEW x \in 1 .. Len(s) + 1, NEW y \in 1 .. Len(s) + 1,
                   Append(s, k)[x] = j, Append(s, k)[y] = j
            PROVE  x = y
        <4>1. (x \in 1 .. Len(s) \/ x = Len(s) + 1) /\ (y \in 1 .. Len(s) \/ y = Len(s) + 1)
          BY <2>1
        <4> QED
          BY <2>1, <2>3, <3>1, <4>1 DEF Single, Holds
      <3> QED
        BY <2>1, <3>1 DEF Single
    <2> QED
      BY <2>2, <2>3
  <1>3. ASSUME NEW s \in Seq(Kinds), s # <<>>
        PROVE  /\ Head(s) \in Kinds /\ Tail(s) \in Seq(Kinds)
               /\ \A j : /\ Holds(s, j) <=> (Holds(Tail(s), j) \/ j = Head(s))
                         /\ Single(s, j) => /\ Single(Tail(s), j)
                                            /\ j = Head(s) => ~Holds(Tail(s), j)
    <2>1. /\ Head(s) \in Kinds /\ Tail(s) \in Seq(Kinds) /\ Len(s) \in Nat /\ Len(s) >= 1
          /\ Len(Tail(s)) = Len(s) - 1 /\ Head(s) = s[1]
          /\ \A i \in 1 .. Len(s) - 1 : Tail(s)[i] = s[i + 1]
      BY <1>3
    <2>2. ASSUME NEW j PROVE Holds(s, j) <=> (Holds(Tail(s), j) \/ j = Head(s))
      <3>1. ASSUME Holds(s, j) PROVE Holds(Tail(s), j) \/ j = Head(s)
        <4>1. PICK i \in 1 .. Len(s) : s[i] = j
          BY <3>1 DEF Holds
        <4>2. i = 1 \/ (i - 1 \in 1 .. Len(s) - 1 /\ s[(i - 1) + 1] = j)
          BY <2>1, <4>1
        <4> QED
          BY <2>1, <4>1, <4>2 DEF Holds
      <3>2. ASSUME Holds(Tail(s), j) PROVE Holds(s, j)
        <4>1. PICK i \in 1 .. Len(s) - 1 : s[i + 1] = j
          BY <2>1, <3>2 DEF Holds
        <4>2. i + 1 \in 1 .. Len(s)
          BY <2>1
        <4> QED
          BY <4>1, <4>2 DEF Holds
      <3>3. ASSUME j = Head(s) PROVE Holds(s, j)
        <4>1. 1 \in 1 .. Len(s)
          BY <2>1
        <4> QED
          BY <2>1, <3>3, <4>1 DEF Holds
      <3> QED
        BY <3>1, <3>2, <3>3
    <2>3. ASSUME NEW j, Single(s, j)
          PROVE  Single(Tail(s), j) /\ (j = Head(s) => ~Holds(Tail(s), j))
      <3>1. ASSUME NEW x \in 1 .. Len(s) - 1, NEW y \in 1 .. Len(s) - 1,
                   s[x + 1] = j, s[y + 1] = j
            PROVE  x = y
        <4>1. x + 1 \in 1 .. Len(s) /\ y + 1 \in 1 .. Len(s)
          BY <2>1
        <4>2. x + 1 = y + 1
          BY <2>3, <3>1, <4>1 DEF Single
        <4> QED
          BY <2>1, <4>2
      <3>2. ASSUME j = Head(s), NEW x \in 1 .. Len(s) - 1, s[x + 1] = j PROVE FALSE
        <4>1. 1 \in 1 .. Len(s) /\ x + 1 \in 1 .. Len(s) /\ x + 1 # 1
          BY <2>1
        <4> QED
          BY <2>1, <2>3, <3>2, <4>1 DEF Single
      <3>3. Single(Tail(s), j)
        BY <2>1, <3>1 DEF Single
      <3> QED
        BY <2>1, <3>2, <3>3 DEF Holds
    <2> QED
      BY <2>1, <2>2, <2>3
  <1> QED
    BY <1>1, <1>2, <1>3

\* What is known of the places of messages.
LEMMA PlaceTypes ==
    ASSUME TypeOK
    PROVE  /\ queue \in [Threads -> Seq(Kinds)] /\ batch \in [Threads -> Seq(Kinds)]
           /\ job \in [Actors -> Jobs] /\ DOMAIN job = Actors
           /\ Threads \subseteq Actors /\ Main \in Kinds \ {"shut", "done"}
           /\ None \in Jobs /\ None.k = "none" /\ None.pc = "run" /\ None.k \notin Kinds
           /\ \A k \in Kinds, t \in Threads :
                 /\ Job(k, t) \in Jobs
                 /\ Job(k, t).k = k /\ Job(k, t).t = t /\ Job(k, t).pc = "run"
  <1>1. queue \in [Threads -> Seq(Kinds)] /\ batch \in [Threads -> Seq(Kinds)]
        /\ job \in [Actors -> Jobs] /\ DOMAIN job = Actors
    BY DEF TypeOK
  <1>2. Threads \subseteq Actors /\ 0 \in Threads
    BY TpMsgAssumption DEF Threads, Actors
  <1>3. Main \in Kinds \ {"shut", "done"}
    BY DEF Main, Kinds
  <1>4. None \in Jobs /\ None.k = "none" /\ None.pc = "run" /\ None.k \notin Kinds
    BY <1>2 DEF None, Jobs, Kinds
  <1>5. \A k \in Kinds, t \in Threads :
           /\ Job(k, t) \in Jobs
           /\ Job(k, t).k = k /\ Job(k, t).t = t /\ Job(k, t).pc = "run"
    BY DEF Job, Jobs
  <1> QED
    BY <1>1, <1>2, <1>3, <1>4, <1>5

\* One attempt of tpt_msg_send() by an actor that has nothing to run: the message
\* is on its way exactly if the attempt succeeds.
LEMMA DeliverStep ==
    ASSUME TypeOK, NEW a \in Actors, NEW dst \in Threads, NEW k \in Kinds \ {"shut"},
           NEW out, Deliver(out, a, dst, k), batch' = batch,
           job[a].k = "none" \/ Past(a),
           Sent(out) => ~Out(k, dst)
    PROVE  /\ queue' \in [Threads -> Seq(Kinds)] /\ job' \in [Actors -> Jobs]
           /\ \A j \in Kinds, u \in Threads :
                 /\ Out(j, u)' <=> (Out(j, u) \/ (Sent(out) /\ j = k /\ u = dst))
                 /\ Uniq(j, u) => Uniq(j, u)'
           /\ \A b \in Actors : b # a => job'[b] = job[b]
           /\ job'[a].pc = "run" /\ (job'[a].k = "none" => job'[a] = None)
           /\ out # "direct" => job'[a] = None
           /\ ~Sent(out) => queue' = queue
  <1>t. /\ queue \in [Threads -> Seq(Kinds)] /\ batch \in [Threads -> Seq(Kinds)]
        /\ job \in [Actors -> Jobs] /\ None.k = "none" /\ None.pc = "run" /\ None \in Jobs
        /\ "none" \notin Kinds
        /\ Job(k, dst) \in Jobs
        /\ Job(k, dst).k = k /\ Job(k, dst).t = dst /\ Job(k, dst).pc = "run"
    BY PlaceTypes DEF Kinds
  <1>r. \A j \in Kinds, u \in Threads : ~Runs(a, j, u)
    BY <1>t DEF Runs, Past
  <1>1. CASE out = "queued"
    <2>1. /\ queue' = [queue EXCEPT ![dst] = Append(@, k)]
          /\ job' = [job EXCEPT ![a] = None] /\ Sent(out)
      BY <1>1 DEF Deliver, Sent
    <2>2. queue' \in [Threads -> Seq(Kinds)] /\ job' \in [Actors -> Jobs]
      BY <1>t, <2>1
    <2>3. /\ queue'[dst] = Append(queue[dst], k)
          /\ \A u \in Threads : u # dst => queue'[u] = queue[u]
          /\ job'[a] = None /\ \A b \in Actors : b # a => job'[b] = job[b]
      BY <1>t, <2>1
    <2>4. \A b \in Actors, j \in Kinds, u \in Threads : Runs(b, j, u)' <=> Runs(b, j, u)
      BY <1>t, <1>r, <2>3 DEF Runs
    <2>5. ASSUME NEW j \in Kinds, NEW u \in Threads
          PROVE  /\ Out(j, u)' <=> (Out(j, u) \/ (j = k /\ u = dst))
                 /\ Uniq(j, u) => Uniq(j, u)'
      <3>1. CASE u = dst
        <4>1. queue[dst] \in Seq(Kinds)
          BY <1>t
        <4>2. /\ Holds(Append(queue[dst], k), j) <=> (Holds(queue[dst], j) \/ j = k)
              /\ Single(queue[dst], j) /\ (j = k => ~Holds(queue[dst], j))
                    => Single(Append(queue[dst], k), j)
          BY <4>1, SeqFacts
        <4>3. Out(j, u)' <=> (Out(j, u) \/ j = k)
          BY <2>3, <2>4, <3>1, <4>2 DEF Out
        <4>4. ~Out(k, dst)
          BY <2>1
        <4>5. Uniq(j, u) => Uniq(j, u)'
          BY <2>3, <2>4, <3>1, <4>2, <4>4 DEF Uniq, Out
        <4> QED
          BY <3>1, <4>3, <4>5
      <3>2. CASE u # dst
        BY <2>3, <2>4, <3>2 DEF Out, Uniq
      <3> QED
        BY <3>1, <3>2
    <2> QED
      BY <1>1, <1>t, <2>1, <2>2, <2>3, <2>5
  <1>2. CASE out = "direct"
    <2>1. queue' = queue /\ job' = [job EXCEPT ![a] = Job(k, dst)] /\ Sent(out)
      BY <1>2 DEF Deliver, Sent
    <2>2. job' \in [Actors -> Jobs] /\ job'[a] = Job(k, dst)
          /\ \A b \in Actors : b # a => job'[b] = job[b]
      BY <1>t, <2>1
    <2>3. \A b \in Actors, j \in Kinds, u \in Threads :
             Runs(b, j, u)' <=> (Runs(b, j, u) \/ (b = a /\ j = k /\ u = dst))
      BY <1>t, <1>r, <2>2 DEF Runs
    <2>4. ASSUME NEW j \in Kinds, NEW u \in Threads
          PROVE  /\ Out(j, u)' <=> (Out(j, u) \/ (j = k /\ u = dst))
                 /\ Uniq(j, u) => Uniq(j, u)'
      <3>1. Out(j, u)' <=> (Out(j, u) \/ (j = k /\ u = dst))
        BY <2>1, <2>3 DEF Out
      <3>2. ~Out(k, dst)
        BY <2>1
      <3>3. Uniq(j, u) => Uniq(j, u)'
        BY <2>1, <2>3, <3>2 DEF Uniq, Out
      <3> QED
        BY <3>1, <3>3
    <2> QED
      BY <1>2, <1>t, <2>1, <2>2, <2>4
  <1>3. CASE ~(out = "queued") /\ ~(out = "direct")
    <2>1. queue' = queue /\ job' = [job EXCEPT ![a] = None] /\ ~Sent(out)
      BY <1>3 DEF Deliver, Sent
    <2>2. job' \in [Actors -> Jobs] /\ job'[a] = None
          /\ \A b \in Actors : b # a => job'[b] = job[b]
      BY <1>t, <2>1
    <2>3. \A b \in Actors, j \in Kinds, u \in Threads : Runs(b, j, u)' <=> Runs(b, j, u)
      BY <1>t, <1>r, <2>2 DEF Runs
    <2>4. \A j \in Kinds, u \in Threads : (Out(j, u)' <=> Out(j, u)) /\ (Uniq(j, u) => Uniq(j, u)')
      BY <2>1, <2>3 DEF Out, Uniq
    <2> QED
      BY <1>3, <1>t, <2>1, <2>2, <2>4
  <1> QED
    BY <1>1, <1>2, <1>3

\* An actor runs the callback of its message: the message is no more.
LEMMA RunStep ==
    ASSUME TypeOK, NEW a \in Actors, NEW k \in Kinds \ {"shut"}, NEW x \in Jobs,
           job[a].k = k, ~Past(a), Uniq(k, job[a].t),
           UNCHANGED <<queue, batch>>, job' = [job EXCEPT ![a] = x],
           x = None \/ x.pc # "run"
    PROVE  /\ job' \in [Actors -> Jobs] /\ job'[a] = x /\ job[a].t \in Threads
           /\ \A b \in Actors : b # a => job'[b] = job[b]
           /\ Out(k, job[a].t)
           /\ \A j \in Kinds, u \in Threads :
                 /\ Out(j, u)' <=> (Out(j, u) /\ ~(j = k /\ u = job[a].t))
                 /\ Uniq(j, u) => Uniq(j, u)'
  <1>t. /\ job \in [Actors -> Jobs] /\ None.k = "none" /\ "none" \notin Kinds
        /\ job[a].t \in Threads
    BY PlaceTypes DEF Kinds, Jobs
  <1>1. /\ job' \in [Actors -> Jobs] /\ job'[a] = x
        /\ \A b \in Actors : b # a => job'[b] = job[b]
    BY <1>t
  <1>2. Runs(a, k, job[a].t) /\ Out(k, job[a].t)
    BY <1>t DEF Runs, Past, Out
  <1>3. \A b \in Actors, j \in Kinds, u \in Threads :
           Runs(b, j, u)' <=> (Runs(b, j, u) /\ b # a)
    BY <1>t, <1>1 DEF Runs
  <1>4. \A j \in Kinds, u \in Threads : Runs(a, j, u) => j = k /\ u = job[a].t
    BY DEF Runs
  <1>5. ASSUME NEW j \in Kinds, NEW u \in Threads
        PROVE  /\ Out(j, u)' <=> (Out(j, u) /\ ~(j = k /\ u = job[a].t))
               /\ Uniq(j, u) => Uniq(j, u)'
    <2>1. Uniq(j, u) => Uniq(j, u)'
      BY <1>3 DEF Uniq
    <2>2. CASE j = k /\ u = job[a].t
      BY <1>2, <1>3, <2>2 DEF Uniq, Out
    <2>3. CASE ~(j = k /\ u = job[a].t)
      <3>1. \A b \in Actors : Runs(b, j, u)' <=> Runs(b, j, u)
        BY <1>3, <1>4, <2>3
      <3>2. Out(j, u)' <=> Out(j, u)
        BY <3>1 DEF Out
      <3> QED
        BY <2>1, <2>3, <3>2
    <2> QED
      BY <2>1, <2>2, <2>3
  <1> QED
    BY <1>t, <1>1, <1>2, <1>5

\* An actor past the callback goes on: no message is touched.
LEMMA StageStep ==
    ASSUME TypeOK, NEW a \in Actors, NEW x \in Jobs, job[a] = None \/ Past(a),
           UNCHANGED <<queue, batch>>, job' = [job EXCEPT ![a] = x],
           x = None \/ x.pc # "run"
    PROVE  /\ job' \in [Actors -> Jobs] /\ job'[a] = x
           /\ \A b \in Actors : b # a => job'[b] = job[b]
           /\ \A j \in Kinds, u \in Threads :
                 (Out(j, u)' <=> Out(j, u)) /\ (Uniq(j, u) => Uniq(j, u)')
  <1>t. job \in [Actors -> Jobs] /\ None.k = "none" /\ "none" \notin Kinds
    BY PlaceTypes DEF Kinds
  <1>1. /\ job' \in [Actors -> Jobs] /\ job'[a] = x
        /\ \A b \in Actors : b # a => job'[b] = job[b]
    BY <1>t
  <1>2. \A b \in Actors, j \in Kinds, u \in Threads : Runs(b, j, u)' <=> Runs(b, j, u)
    BY <1>t, <1>1 DEF Runs, Past
  <1>3. \A j \in Kinds, u \in Threads : (Out(j, u)' <=> Out(j, u)) /\ (Uniq(j, u) => Uniq(j, u)')
    BY <1>2 DEF Out, Uniq
  <1> QED
    BY <1>1, <1>3


-----------------------------------------------------------------------------
(* Steps of messages, in terms of the sets above.                          *)

\* The numbers.
LEMMA Sorts ==
    ASSUME TypeOK
    PROVE  /\ ThreadsMax \in Nat /\ ThreadsMax >= 1 /\ Ext = ThreadsMax
           /\ Threads = 0 .. ThreadsMax - 1 /\ Actors = 0 .. ThreadsMax
           /\ n \in Nat /\ 1 <= n /\ n <= ThreadsMax /\ src \in Actors /\ mode \in AllModes
           /\ src \in Threads <=> src # Ext
           /\ ci \in Nat /\ shut \in Nat /\ dones \in Nat
           /\ \A t \in Threads : calls[t] \in Nat
  <1>1. ThreadsMax \in Nat /\ ThreadsMax >= 1 /\ Sources \subseteq Actors /\ Modes \subseteq AllModes
    BY TpMsgAssumption
  <1>2. n \in 1 .. ThreadsMax /\ src \in Actors /\ mode \in AllModes
    BY <1>1 DEF TypeOK
  <1>3. ci \in Nat /\ shut \in Nat /\ dones \in Nat /\ \A t \in Threads : calls[t] \in Nat
    BY <1>1 DEF TypeOK
  <1> QED
    BY <1>1, <1>2, <1>3 DEF Threads, Actors, Ext

\* The message data.
MdType == [mem : {"none", "stack", "heap", "gone"},
           active : 0 .. ThreadsMax, idx : 0 .. ThreadsMax + 1,
           send : 0 .. ThreadsMax + 1, err : 0 .. ThreadsMax + 1,
           tpt : Actors, done : BOOLEAN]

LEMMA DataSorts ==
    ASSUME TypeOK
    PROVE  /\ md \in MdType
           /\ md.mem \in {"none", "stack", "heap", "gone"} /\ md.done \in BOOLEAN
           /\ md.active \in Nat /\ md.idx \in Nat /\ md.send \in Nat /\ md.err \in Nat
           /\ md.active <= ThreadsMax /\ md.idx <= ThreadsMax + 1
           /\ md.send <= ThreadsMax + 1 /\ md.err <= ThreadsMax + 1
           /\ md.tpt \in Actors
  <1>1. md \in MdType
    BY DEF TypeOK, MdType
  <1>2. ThreadsMax \in Nat
    BY TpMsgAssumption
  <1> QED
    BY <1>1, <1>2 DEF MdType

\* All sets of threads and actors are finite.
LEMMA Sizes ==
    ASSUME TypeOK
    PROVE  /\ IsFiniteSet(Waiting) /\ Waiting \subseteq Threads
           /\ IsFiniteSet(Called) /\ Called \subseteq Threads
           /\ IsFiniteSet(Decs) /\ Decs \subseteq Actors
           /\ Cardinality(Waiting) \in Nat /\ Cardinality(Called) \in Nat
           /\ Cardinality(Decs) \in Nat
  <1>1. IsFiniteSet(Threads) /\ IsFiniteSet(Actors)
    BY FS_Interval, TpMsgAssumption DEF Threads, Actors
  <1>2. Waiting \subseteq Threads /\ Called \subseteq Threads /\ Decs \subseteq Actors
    BY DEF Waiting, Called, Decs
  <1>3. IsFiniteSet(Waiting) /\ IsFiniteSet(Called) /\ IsFiniteSet(Decs)
    BY <1>1, <1>2, FS_Subset
  <1> QED
    BY <1>2, <1>3, FS_CardinalityType

\* Counting one more or one less.
LEMMA OneMore ==
    ASSUME NEW S, IsFiniteSet(S), NEW x
    PROVE  /\ Cardinality(S) \in Nat
           /\ S = {} <=> Cardinality(S) = 0
           /\ x \notin S => Cardinality(S \cup {x}) = Cardinality(S) + 1
           /\ x \in S => Cardinality(S \ {x}) = Cardinality(S) - 1 /\ Cardinality(S) >= 1
  <1>1. Cardinality(S) \in Nat /\ (S = {} <=> Cardinality(S) = 0)
    BY FS_CardinalityType, FS_EmptySet
  <1>2. x \notin S => Cardinality(S \cup {x}) = Cardinality(S) + 1
    BY FS_AddElement
  <1>3. x \in S => Cardinality(S \ {x}) = Cardinality(S) - 1
    BY FS_RemoveElement
  <1> QED
    BY <1>1, <1>2, <1>3

\* A message is accepted by the pipe of a running thread only.
LEMMA OutcomeFacts ==
    ASSUME NEW dst, NEW s, NEW fl, NEW full
    PROVE  /\ Outcome(dst, s, fl, full) = "queued" => IsRunning(state[dst])
           /\ Outcome(dst, s, fl, full) \in {"direct", "queued", "EHOSTDOWN", "EAGAIN"}
           /\ FAIL_DIRECT \in fl /\ IsRunning(state[dst]) => Sent(Outcome(dst, s, fl, full))
  BY DEF Outcome, SendOutcome, Sent, FAIL_DIRECT, SELF_DIRECT, FORCE, MsgFlags

\* tpt_msg_send() by actor a: a thread waits for its message, or done_cb is on
\* its way.
LEMMA SendStep ==
    ASSUME TypeOK, TokInv, ShutInv, NEW a \in Actors, NEW dst \in Threads,
           NEW k \in {Main, "done"}, NEW out,
           Deliver(out, a, dst, k), UNCHANGED <<batch, state, shut, src, mode>>,
           mode # "aop" => md'.tpt = md.tpt,
           job[a] = None \/ Past(a),
           out = "queued" => IsRunning(state[dst]),
           k = Main => dst \notin Waiting,
           k = "done" => mode \in {"cb", "obo"} /\ dst = md.tpt /\ ~DoneOut
    PROVE  /\ queue' \in [Threads -> Seq(Kinds)] /\ job' \in [Actors -> Jobs]
           /\ TokInv' /\ ShutInv'
           /\ Waiting' = IF Sent(out) /\ k = Main THEN Waiting \cup {dst} ELSE Waiting
           /\ DoneOut' <=> (DoneOut \/ (Sent(out) /\ k = "done"))
           /\ Decs' = Decs \ {a} /\ Lasts' = Lasts \ {a} /\ Stages' = Stages \ {a}
           /\ \A b \in Actors : b # a => job'[b] = job[b]
           /\ out # "direct" => job'[a] = None
           /\ ~Sent(out) => queue' = queue
  <1>t. /\ k \in Kinds \ {"shut"} /\ Main # "done" /\ "none" \notin Kinds /\ None.k = "none"
        /\ Main \in Kinds /\ "done" \in Kinds /\ "shut" \in Kinds /\ Main # "shut"
        /\ "shut" # "done" /\ k # "shut"
    BY PlaceTypes DEF Kinds
  <1>u. mode' = mode /\ Main' = Main
    BY DEF Main
  <1>o. Sent(out) => ~Out(k, dst)
    BY DEF Waiting, DoneOut
  <1>1. /\ queue' \in [Threads -> Seq(Kinds)] /\ job' \in [Actors -> Jobs]
        /\ \A j \in Kinds, u \in Threads :
              /\ Out(j, u)' <=> (Out(j, u) \/ (Sent(out) /\ j = k /\ u = dst))
              /\ Uniq(j, u) => Uniq(j, u)'
        /\ \A b \in Actors : b # a => job'[b] = job[b]
        /\ job'[a].pc = "run" /\ (job'[a].k = "none" => job'[a] = None)
        /\ out # "direct" => job'[a] = None
        /\ ~Sent(out) => queue' = queue
    BY <1>t, <1>o, DeliverStep
  <1>2. Waiting' = IF Sent(out) /\ k = Main THEN Waiting \cup {dst} ELSE Waiting
    BY <1>1, <1>t, <1>u DEF Waiting
  <1>3. DoneOut' <=> (DoneOut \/ (Sent(out) /\ k = "done"))
    BY <1>1, <1>t DEF DoneOut
  <1>4. Decs' = Decs \ {a} /\ Lasts' = Lasts \ {a} /\ Stages' = Stages \ {a}
    BY <1>1 DEF Decs, Lasts, Stages, At
  <1>5. TokInv'
    <2>1. ASSUME NEW j \in Kinds, NEW u \in Threads
          PROVE  (Out(j, u)' => j \in {Main, "done", "shut"}) /\ (j # "shut" => Uniq(j, u)')
      BY <1>1, <1>t DEF TokInv
    <2>2. ASSUME NEW u \in Threads, Out("done", u)'
          PROVE  mode \in {"cb", "obo"} /\ u = md'.tpt
      <3>1. CASE Out("done", u)
        BY <3>1 DEF TokInv
      <3>2. CASE ~Out("done", u)
        <4>1. k = "done" /\ u = dst
          BY <1>1, <1>t, <2>2, <3>2
        <4> QED
          BY <4>1, <1>t
      <3> QED
        BY <3>1, <3>2
    <2>3. ASSUME NEW b \in Actors
          PROVE  /\ job'[b].k = "none" => job'[b] = None
                 /\ job'[b].pc # "run" =>
                       \/ /\ mode \in {"sync", "cb"} /\ job'[b].k = "sync"
                          /\ job'[b].pc \in {"dec", "last"}
                       \/ /\ mode = "obo" /\ job'[b].k = "obo"
                          /\ job'[b].pc \in {"next", "self", "fin"}
      <3>1. CASE b = a
        BY <1>1, <3>1
      <3>2. CASE b # a
        BY <1>1, <3>2 DEF TokInv, Past, At
      <3> QED
        BY <3>1, <3>2
    <2> QED
      BY <2>1, <2>2, <2>3, <1>u DEF TokInv, Past, At
  <1>6. ShutInv'
    <2> SUFFICES ASSUME shut = 0, NEW t \in Threads
                 PROVE  /\ ~Out("shut", t)'
                        /\ state[t] = STOP => queue'[t] = queue[t]
      BY DEF ShutInv
    <2>1. ~Out("shut", t)'
      BY <1>1, <1>t DEF ShutInv
    <2>2. state[t] = STOP => queue'[t] = queue[t]
      <3>1. queue \in [Threads -> Seq(Kinds)]
        BY PlaceTypes
      <3> QED
        BY <3>1 DEF Deliver, IsRunning, STOP, RUNNING, STARTING
    <2> QED
      BY <2>1, <2>2
  <1> QED
    BY <1>1, <1>2, <1>3, <1>4, <1>5, <1>6

\* The callback of a message runs; the proxy goes on with x.
LEMMA CallStep ==
    ASSUME TypeOK, TokInv, ShutInv, NEW a \in Actors, NEW x \in Jobs,
           job[a].k \in {Main, "done"}, ~Past(a),
           UNCHANGED <<queue, batch, state, shut, src, mode>>, md'.tpt = md.tpt,
           job' = [job EXCEPT ![a] = x],
           x = None \/ (x.pc # "run" /\ \/ mode \in {"sync", "cb"} /\ x.k = "sync"
                                           /\ x.pc \in {"dec", "last"}
                                        \/ mode = "obo" /\ x.k = "obo"
                                           /\ x.pc \in {"next", "self", "fin"})
    PROVE  /\ job' \in [Actors -> Jobs] /\ job'[a] = x /\ job[a].t \in Threads
           /\ TokInv' /\ ShutInv'
           /\ \A b \in Actors : b # a => job'[b] = job[b]
           /\ a \notin Decs /\ a \notin Lasts /\ a \notin Stages
           /\ Decs' = IF x.pc = "dec" THEN Decs \cup {a} ELSE Decs
           /\ Lasts' = IF x.pc = "last" THEN Lasts \cup {a} ELSE Lasts
           /\ Stages' = IF x.pc \in {"next", "self", "fin"} THEN Stages \cup {a} ELSE Stages
           /\ job[a].k = Main => /\ job[a].t \in Waiting /\ Waiting' = Waiting \ {job[a].t}
                                 /\ DoneOut' <=> DoneOut
           /\ job[a].k = "done" => Waiting' = Waiting /\ DoneOut /\ ~DoneOut'
                                   /\ mode \in {"cb", "obo"} /\ job[a].t = md.tpt
  <1> DEFINE k == job[a].k
             t == job[a].t
  <1>t. /\ k \in Kinds \ {"shut"} /\ Main # "done" /\ "none" \notin Kinds /\ None.k = "none"
        /\ Main \in Kinds /\ "done" \in Kinds /\ "shut" \in Kinds /\ Main # "shut"
        /\ "shut" # "done" /\ k # "shut" /\ job \in [Actors -> Jobs] /\ None.pc = "run"
    BY PlaceTypes DEF Kinds
  <1>u. mode' = mode /\ Main' = Main
    BY DEF Main
  <1>v. t \in Threads /\ Uniq(k, t) /\ x \in Jobs
    BY <1>t DEF TokInv, Jobs
  <1>1. /\ job' \in [Actors -> Jobs] /\ job'[a] = x
        /\ \A b \in Actors : b # a => job'[b] = job[b]
        /\ Out(k, t)
        /\ \A j \in Kinds, u \in Threads :
              /\ Out(j, u)' <=> (Out(j, u) /\ ~(j = k /\ u = t))
              /\ Uniq(j, u) => Uniq(j, u)'
    BY <1>t, <1>v, RunStep
  <1>2. /\ a \notin Decs /\ a \notin Lasts /\ a \notin Stages
        /\ Decs' = IF x.pc = "dec" THEN Decs \cup {a} ELSE Decs
        /\ Lasts' = IF x.pc = "last" THEN Lasts \cup {a} ELSE Lasts
        /\ Stages' = IF x.pc \in {"next", "self", "fin"} THEN Stages \cup {a} ELSE Stages
    BY <1>1 DEF Decs, Lasts, Stages, At, Past
  <1>3. k = Main => /\ t \in Waiting /\ Waiting' = Waiting \ {t}
                    /\ DoneOut' <=> DoneOut
    BY <1>1, <1>t, <1>u, <1>v DEF Waiting, DoneOut
  <1>4. k = "done" => Waiting' = Waiting /\ DoneOut /\ ~DoneOut' /\ mode \in {"cb", "obo"}
                      /\ t = md.tpt
    <2> SUFFICES ASSUME k = "done"
                 PROVE  Waiting' = Waiting /\ DoneOut /\ ~DoneOut' /\ mode \in {"cb", "obo"}
                        /\ t = md.tpt
      OBVIOUS
    <2>1. \A u \in Threads : Out("done", u) => u = md.tpt /\ mode \in {"cb", "obo"}
      BY DEF TokInv
    <2>2. DoneOut /\ ~DoneOut' /\ mode \in {"cb", "obo"} /\ t = md.tpt
      BY <1>1, <1>t, <1>v, <2>1 DEF DoneOut
    <2>3. Waiting' = Waiting
      BY <1>1, <1>t, <1>u DEF Waiting
    <2> QED
      BY <2>2, <2>3
  <1>5. TokInv'
    <2>1. ASSUME NEW j \in Kinds, NEW u \in Threads
          PROVE  (Out(j, u)' => j \in {Main, "done", "shut"}) /\ (j # "shut" => Uniq(j, u)')
      BY <1>1, <1>t DEF TokInv
    <2>2. ASSUME NEW u \in Threads, Out("done", u)'
          PROVE  mode \in {"cb", "obo"} /\ u = md'.tpt
      <3>1. Out("done", u)
        BY <1>1, <1>t, <2>2
      <3> QED
        BY <3>1 DEF TokInv
    <2>3. ASSUME NEW b \in Actors
          PROVE  /\ job'[b].k = "none" => job'[b] = None
                 /\ job'[b].pc # "run" =>
                       \/ /\ mode \in {"sync", "cb"} /\ job'[b].k = "sync"
                          /\ job'[b].pc \in {"dec", "last"}
                       \/ /\ mode = "obo" /\ job'[b].k = "obo"
                          /\ job'[b].pc \in {"next", "self", "fin"}
      <3>1. CASE b = a
        BY <1>1, <1>t, <3>1
      <3>2. CASE b # a
        BY <1>1, <3>2 DEF TokInv, Past, At
      <3> QED
        BY <3>1, <3>2
    <2> QED
      BY <2>1, <2>2, <2>3, <1>u DEF TokInv, Past, At
  <1>6. ShutInv'
    BY <1>1, <1>t DEF ShutInv
  <1> QED
    BY <1>1, <1>2, <1>3, <1>4, <1>5, <1>6, <1>v

\* A proxy past the callback goes on with x.
LEMMA MoveStep ==
    ASSUME TypeOK, TokInv, ShutInv, NEW a \in Actors, NEW x \in Jobs, Past(a),
           UNCHANGED <<queue, batch, state, shut, src, mode>>, md'.tpt = md.tpt,
           job' = [job EXCEPT ![a] = x],
           x = None \/ (x.pc # "run" /\ \/ mode \in {"sync", "cb"} /\ x.k = "sync"
                                           /\ x.pc \in {"dec", "last"}
                                        \/ mode = "obo" /\ x.k = "obo"
                                           /\ x.pc \in {"next", "self", "fin"})
    PROVE  /\ job' \in [Actors -> Jobs] /\ job'[a] = x /\ TokInv' /\ ShutInv'
           /\ \A b \in Actors : b # a => job'[b] = job[b]
           /\ Waiting' = Waiting /\ (DoneOut' <=> DoneOut)
           /\ Decs' = IF x.pc = "dec" THEN Decs \cup {a} ELSE Decs \ {a}
           /\ Lasts' = IF x.pc = "last" THEN Lasts \cup {a} ELSE Lasts \ {a}
           /\ Stages' = IF x.pc \in {"next", "self", "fin"} THEN Stages \cup {a}
                        ELSE Stages \ {a}
  <1>t. /\ Main \in Kinds /\ "done" \in Kinds /\ "shut" \in Kinds
        /\ job \in [Actors -> Jobs] /\ None.pc = "run"
    BY PlaceTypes DEF Kinds
  <1>u. mode' = mode /\ Main' = Main
    BY DEF Main
  <1>1. /\ job' \in [Actors -> Jobs] /\ job'[a] = x
        /\ \A b \in Actors : b # a => job'[b] = job[b]
        /\ \A j \in Kinds, u \in Threads :
              (Out(j, u)' <=> Out(j, u)) /\ (Uniq(j, u) => Uniq(j, u)')
    BY StageStep
  <1>2. /\ Decs' = IF x.pc = "dec" THEN Decs \cup {a} ELSE Decs \ {a}
        /\ Lasts' = IF x.pc = "last" THEN Lasts \cup {a} ELSE Lasts \ {a}
        /\ Stages' = IF x.pc \in {"next", "self", "fin"} THEN Stages \cup {a}
                     ELSE Stages \ {a}
    BY <1>1 DEF Decs, Lasts, Stages, At
  <1>3. Waiting' = Waiting /\ (DoneOut' <=> DoneOut)
    BY <1>1, <1>t, <1>u DEF Waiting, DoneOut
  <1>5. TokInv'
    <2>1. ASSUME NEW j \in Kinds, NEW u \in Threads
          PROVE  (Out(j, u)' => j \in {Main, "done", "shut"}) /\ (j # "shut" => Uniq(j, u)')
      BY <1>1 DEF TokInv
    <2>2. ASSUME NEW u \in Threads, Out("done", u)'
          PROVE  mode \in {"cb", "obo"} /\ u = md'.tpt
      <3>1. Out("done", u)
        BY <1>1, <1>t, <2>2
      <3> QED
        BY <3>1 DEF TokInv
    <2>3. ASSUME NEW b \in Actors
          PROVE  /\ job'[b].k = "none" => job'[b] = None
                 /\ job'[b].pc # "run" =>
                       \/ /\ mode \in {"sync", "cb"} /\ job'[b].k = "sync"
                          /\ job'[b].pc \in {"dec", "last"}
                       \/ /\ mode = "obo" /\ job'[b].k = "obo"
                          /\ job'[b].pc \in {"next", "self", "fin"}
      <3>1. CASE b = a
        BY <1>1, <1>t, <3>1
      <3>2. CASE b # a
        BY <1>1, <3>2 DEF TokInv, Past, At
      <3> QED
        BY <3>1, <3>2
    <2> QED
      BY <2>1, <2>2, <2>3, <1>u DEF TokInv, Past, At
  <1>6. ShutInv'
    BY <1>1, <1>t DEF ShutInv
  <1> QED
    BY <1>1, <1>2, <1>3, <1>5, <1>6

\* A step that leaves the messages alone.
LEMMA StillStep ==
    ASSUME TokInv, ShutInv, UNCHANGED <<queue, batch, job, state, shut, src, mode>>,
           mode # "aop" => md'.tpt = md.tpt
    PROVE  /\ TokInv' /\ ShutInv' /\ Waiting' = Waiting /\ (DoneOut' <=> DoneOut)
           /\ Decs' = Decs /\ Lasts' = Lasts /\ Stages' = Stages
  <1>1. /\ \A j, u : (Out(j, u)' <=> Out(j, u)) /\ (Uniq(j, u)' <=> Uniq(j, u))
        /\ Main' = Main
    BY DEF Out, Uniq, Runs, Main
  <1>2. \A u \in Threads : Out("done", u) => mode # "aop"
    BY DEF TokInv
  <1>3. Waiting' = Waiting /\ (DoneOut' <=> DoneOut) /\ Decs' = Decs /\ Lasts' = Lasts
        /\ Stages' = Stages
    BY <1>1 DEF Waiting, DoneOut, Decs, Lasts, Stages, At
  <1>4. TokInv'
    BY <1>1, <1>2 DEF TokInv, Past, At
  <1>5. ShutInv'
    BY <1>1 DEF ShutInv
  <1> QED
    BY <1>3, <1>4, <1>5

-----------------------------------------------------------------------------
(* The loop of a thread and a concurrent shutdown move messages only.      *)

\* Messages are where they were or have moved on within their thread.
LEMMA KeptStep ==
    ASSUME TokInv, UNCHANGED <<mode, md>>,
           \A j \in Kinds, u \in Threads : j # "shut" =>
              (Out(j, u)' <=> Out(j, u)) /\ (Uniq(j, u) => Uniq(j, u)'),
           \A b \in Actors : Past(b) => job'[b] = job[b],
           \A b \in Actors : ~Past(b) => job'[b].pc = "run" /\ (job'[b].k = "none" => job'[b] = None),
           Main \in Kinds \ {"shut", "done"}, "done" \in Kinds
    PROVE  /\ TokInv' /\ Waiting' = Waiting /\ (DoneOut' <=> DoneOut)
           /\ Decs' = Decs /\ Lasts' = Lasts /\ Stages' = Stages
  <1>u. Main' = Main
    BY DEF Main
  <1>1. Waiting' = Waiting /\ (DoneOut' <=> DoneOut)
    BY <1>u DEF Waiting, DoneOut
  <1>2. \A b \in Actors : job'[b].pc = job[b].pc
    BY DEF Past
  <1>3. Decs' = Decs /\ Lasts' = Lasts /\ Stages' = Stages
    BY <1>2 DEF Decs, Lasts, Stages, At
  <1>4. ASSUME NEW j \in Kinds, NEW u \in Threads
        PROVE  (Out(j, u)' => j \in {Main, "done", "shut"}) /\ (j # "shut" => Uniq(j, u)')
    BY DEF TokInv
  <1>5. ASSUME NEW u \in Threads, Out("done", u)'
        PROVE  mode \in {"cb", "obo"} /\ u = md.tpt
    BY <1>5 DEF TokInv
  <1>6. ASSUME NEW b \in Actors
        PROVE  /\ job'[b].k = "none" => job'[b] = None
               /\ job'[b].pc # "run" =>
                     \/ /\ mode \in {"sync", "cb"} /\ job'[b].k = "sync"
                        /\ job'[b].pc \in {"dec", "last"}
                     \/ /\ mode = "obo" /\ job'[b].k = "obo"
                        /\ job'[b].pc \in {"next", "self", "fin"}
    BY DEF TokInv, Past, At
  <1> QED
    BY <1>1, <1>3, <1>4, <1>5, <1>6, <1>u DEF TokInv, Past, At

LEMMA LoopStep ==
    ASSUME TypeOK, TokInv, ShutInv, NEW t \in Threads, Loop(t)
    PROVE  /\ queue' \in [Threads -> Seq(Kinds)] /\ batch' \in [Threads -> Seq(Kinds)]
           /\ job' \in [Actors -> Jobs] /\ state' \in [Threads -> ThreadStates]
           /\ TokInv' /\ ShutInv' /\ Waiting' = Waiting /\ (DoneOut' <=> DoneOut)
           /\ Decs' = Decs /\ Lasts' = Lasts /\ Stages' = Stages
           /\ \A b \in Actors : Past(b) => job'[b] = job[b]
           /\ t = src => cpc = "ret"
           /\ \A b \in Actors : b # t => job'[b] = job[b]
           /\ UNCHANGED <<opVars, cpc, ci, md, shut, histVars, ret>>
  <1>t. /\ queue \in [Threads -> Seq(Kinds)] /\ batch \in [Threads -> Seq(Kinds)]
        /\ job \in [Actors -> Jobs] /\ None.k = "none" /\ None.pc = "run" /\ None \in Jobs
        /\ "none" \notin Kinds /\ t \in Actors /\ "shut" \in Kinds /\ "done" \in Kinds
        /\ Main \in Kinds \ {"shut", "done"} /\ state \in [Threads -> ThreadStates]
    BY PlaceTypes DEF Kinds, TypeOK
  <1>f. /\ UNCHANGED <<opVars, cpc, ci, md, shut, histVars, ret>>
        /\ job[t] = None /\ (t = src => cpc = "ret")
    BY DEF Loop, Read, Process, Stop, LoopFree
  <1>g. UNCHANGED <<mode, md, shut, src>>
    BY <1>f DEF opVars
  <1>r. ~Past(t) /\ \A j \in Kinds, u \in Threads : ~Runs(t, j, u)
    BY <1>f, <1>t DEF Runs, Past
  <1>n. \A b \in Actors : job[b].k = "none" => job[b] = None
    BY DEF TokInv
  <1>1. CASE Read(t)
    <2>1. /\ batch' = [batch EXCEPT ![t] = queue[t]] /\ queue' = [queue EXCEPT ![t] = <<>>]
          /\ batch[t] = <<>> /\ UNCHANGED <<job, state>> /\ state[t] = RUNNING
      BY <1>1 DEF Read
    <2>2. /\ queue' \in [Threads -> Seq(Kinds)] /\ batch' \in [Threads -> Seq(Kinds)]
          /\ batch'[t] = queue[t] /\ queue'[t] = <<>>
          /\ \A u \in Threads : u # t => queue'[u] = queue[u] /\ batch'[u] = batch[u]
      BY <1>t, <2>1
    <2>3. \A b, j, u : Runs(b, j, u)' <=> Runs(b, j, u)
      BY <2>1 DEF Runs
    <2>4. \A j : ~Holds(<<>>, j) /\ Single(<<>>, j)
      BY SeqFacts
    <2>5. ASSUME NEW j \in Kinds, NEW u \in Threads
          PROVE  (Out(j, u)' <=> Out(j, u)) /\ (Uniq(j, u) => Uniq(j, u)')
      <3>1. CASE u = t
        BY <2>1, <2>2, <2>3, <2>4, <3>1 DEF Out, Uniq
      <3>2. CASE u # t
        BY <2>2, <2>3, <3>2 DEF Out, Uniq
      <3> QED
        BY <3>1, <3>2
    <2>6. ShutInv'
      <3> SUFFICES ASSUME shut = 0, NEW u \in Threads
                   PROVE  ~Out("shut", u)'
                          /\ (state[u] = STOP => queue'[u] = queue[u] /\ batch'[u] = batch[u])
        BY <1>g, <2>1 DEF ShutInv
      <3> QED
        BY <1>t, <2>1, <2>2, <2>5 DEF ShutInv, STOP, RUNNING
    <2>7. /\ TokInv' /\ Waiting' = Waiting /\ (DoneOut' <=> DoneOut)
          /\ Decs' = Decs /\ Lasts' = Lasts /\ Stages' = Stages
      BY <1>t, <1>g, <1>n, <2>1, <2>5, KeptStep DEF Past
    <2> QED
      BY <1>t, <1>f, <2>1, <2>2, <2>6, <2>7
  <1>2. CASE Process(t)
    <2> DEFINE h == Head(batch[t])
    <2>1. /\ batch' = [batch EXCEPT ![t] = Tail(batch[t])] /\ queue' = queue
          /\ batch[t] # <<>> /\ batch[t] \in Seq(Kinds)
          /\ h = "shut" => state' = [state EXCEPT ![t] = STOPPING] /\ job' = job
          /\ h # "shut" => job' = [job EXCEPT ![t] = Job(h, t)] /\ state' = state
      BY <1>2, <1>t DEF Process
    <2>2. /\ h \in Kinds /\ Tail(batch[t]) \in Seq(Kinds)
          /\ \A j : /\ Holds(batch[t], j) <=> (Holds(Tail(batch[t]), j) \/ j = h)
                    /\ Single(batch[t], j) => /\ Single(Tail(batch[t]), j)
                                              /\ j = h => ~Holds(Tail(batch[t]), j)
      BY <2>1, SeqFacts
    <2>3. /\ batch' \in [Threads -> Seq(Kinds)]
          /\ batch'[t] = Tail(batch[t]) /\ \A u \in Threads : u # t => batch'[u] = batch[u]
      BY <1>t, <2>1, <2>2
    <2>4. Job(h, t) \in Jobs /\ Job(h, t).k = h /\ Job(h, t).t = t /\ Job(h, t).pc = "run"
      BY <2>2, PlaceTypes
    <2>5. /\ job' \in [Actors -> Jobs] /\ \A b \in Actors : b # t => job'[b] = job[b]
          /\ h # "shut" => job'[t] = Job(h, t)
          /\ h = "shut" => job'[t] = job[t]
      BY <1>t, <2>1, <2>4
    <2>6. \A b \in Actors, j \in Kinds, u \in Threads :
             Runs(b, j, u)' <=> (Runs(b, j, u) \/ (h # "shut" /\ b = t /\ j = h /\ u = t))
      BY <1>r, <1>t, <2>4, <2>5 DEF Runs
    <2>7. ASSUME NEW j \in Kinds, NEW u \in Threads
          PROVE  /\ Out(j, u)' => Out(j, u)
                 /\ j # "shut" => (Out(j, u)' <=> Out(j, u)) /\ (Uniq(j, u) => Uniq(j, u)')
      <3>1. CASE u = t
        <4>1. Out(j, u)' <=> (Holds(queue[t], j) \/ Holds(Tail(batch[t]), j)
                              \/ (\E b \in Actors : Runs(b, j, t)) \/ (h # "shut" /\ j = h))
          BY <1>t, <2>1, <2>3, <2>6, <3>1 DEF Out
        <4>2. Out(j, u)' => Out(j, u)
          BY <4>1, <2>2, <3>1 DEF Out
        <4>3. j # "shut" => (Out(j, u)' <=> Out(j, u))
          BY <4>1, <2>2, <3>1 DEF Out
        <4>4. j # "shut" /\ Uniq(j, u) => Uniq(j, u)'
          <5> SUFFICES ASSUME j # "shut", Uniq(j, t)
                       PROVE  Uniq(j, t)'
            BY <3>1
          <5>1. CASE j = h
            <6>1. ~Holds(Tail(batch[t]), j) /\ ~Holds(queue[t], j)
              BY <2>2, <5>1 DEF Uniq
            <6>2. \A b \in Actors : ~Runs(b, j, t)
              BY <2>2, <5>1 DEF Uniq
            <6>3. \A b \in Actors : Runs(b, j, t)' => b = t
              BY <6>2, <2>6
            <6> QED
              BY <6>1, <6>3, <2>1, <2>2, <2>3 DEF Uniq
          <5>2. CASE j # h
            <6>1. \A b \in Actors : Runs(b, j, t)' <=> Runs(b, j, t)
              BY <5>2, <2>6
            <6> QED
              BY <6>1, <5>2, <2>1, <2>2, <2>3 DEF Uniq
          <5> QED
            BY <5>1, <5>2
        <4> QED
          BY <4>2, <4>3, <4>4
      <3>2. CASE u # t
        <4>1. \A b \in Actors : Runs(b, j, u)' <=> Runs(b, j, u)
          BY <2>6, <3>2
        <4> QED
          BY <4>1, <2>1, <2>3, <3>2 DEF Out, Uniq
      <3> QED
        BY <3>1, <3>2
    <2>8. ShutInv'
      <3> SUFFICES ASSUME shut = 0
                   PROVE  /\ \A u \in Threads :
                                /\ state'[u] \in {RUNNING, STOP}
                                /\ ~Out("shut", u)'
                                /\ state'[u] = STOP => queue'[u] = <<>> /\ batch'[u] = <<>>
                          /\ src \in Threads => state'[src] = RUNNING
        BY <1>g DEF ShutInv
      <3>1. h # "shut"
        <4>1. ~Holds(batch[t], "shut")
          BY DEF ShutInv, Out
        <4> QED
          BY <4>1, <2>2
      <3>2. state' = state /\ state[t] # STOP
        BY <3>1, <2>1 DEF ShutInv
      <3> QED
        BY <3>2, <2>1, <2>3, <2>7, <1>t DEF ShutInv
    <2>9. /\ TokInv' /\ Waiting' = Waiting /\ (DoneOut' <=> DoneOut)
          /\ Decs' = Decs /\ Lasts' = Lasts /\ Stages' = Stages
      <3>1. /\ \A b \in Actors : Past(b) => job'[b] = job[b]
            /\ \A b \in Actors :
                  ~Past(b) => job'[b].pc = "run" /\ (job'[b].k = "none" => job'[b] = None)
        BY <1>r, <1>n, <1>t, <2>2, <2>4, <2>5 DEF Past
      <3> QED
        BY <3>1, <1>t, <1>g, <2>7, KeptStep
    <2>10. state' \in [Threads -> ThreadStates]
      BY <1>t, <2>1 DEF ThreadStates
    <2> QED
      BY <1>t, <1>f, <1>r, <2>1, <2>3, <2>5, <2>8, <2>9, <2>10
  <1>3. CASE Stop(t)
    <2>1. UNCHANGED <<queue, batch, job>> /\ state' = [state EXCEPT ![t] = STOP]
          /\ state[t] = STOPPING
      BY <1>3 DEF Stop
    <2>2. \A j, u : (Out(j, u)' <=> Out(j, u)) /\ (Uniq(j, u)' <=> Uniq(j, u))
      BY <2>1 DEF Out, Uniq, Runs
    <2>3. ShutInv'
      BY <1>g, <2>1 DEF ShutInv, STOPPING, RUNNING, STOP
    <2>4. /\ TokInv' /\ Waiting' = Waiting /\ (DoneOut' <=> DoneOut)
          /\ Decs' = Decs /\ Lasts' = Lasts /\ Stages' = Stages
      BY <1>t, <1>g, <1>n, <2>1, <2>2, KeptStep DEF Past
    <2>5. state' \in [Threads -> ThreadStates]
      BY <1>t, <2>1 DEF ThreadStates
    <2> QED
      BY <1>t, <1>f, <2>1, <2>3, <2>4, <2>5
  <1> QED
    BY <1>1, <1>2, <1>3 DEF Loop

LEMMA ShutdownStep ==
    ASSUME TypeOK, TokInv, Shutdown
    PROVE  /\ queue' \in [Threads -> Seq(Kinds)] /\ shut' \in 0 .. ThreadsMax /\ shut' > 0
           /\ TokInv' /\ ShutInv' /\ Waiting' = Waiting /\ (DoneOut' <=> DoneOut)
           /\ Decs' = Decs /\ Lasts' = Lasts /\ Stages' = Stages
           /\ UNCHANGED <<batch, job, state, opVars, cpc, ci, md, histVars, ret>>
  <1>t. /\ queue \in [Threads -> Seq(Kinds)] /\ "shut" \in Kinds /\ "done" \in Kinds
        /\ Main \in Kinds \ {"shut", "done"}
    BY PlaceTypes DEF Kinds
  <1>s. shut \in Threads /\ shut' = shut + 1 /\ shut' \in 0 .. ThreadsMax /\ shut' > 0
    BY Sorts DEF Shutdown
  <1>f. UNCHANGED <<batch, job, state, opVars, cpc, ci, md, histVars, ret>>
        /\ UNCHANGED <<mode, md, batch, job>>
    BY DEF Shutdown, opVars
  <1>1. queue' \in [Threads -> Seq(Kinds)]
    <2>1. queue' = queue \/ queue' = [queue EXCEPT ![shut] = Append(queue[shut], "shut")]
      BY DEF Shutdown
    <2>2. queue[shut] \in Seq(Kinds) /\ Append(queue[shut], "shut") \in Seq(Kinds)
      BY <1>t, <1>s
    <2> QED
      BY <1>t, <2>1, <2>2
  <1>2. ASSUME NEW u \in Threads, NEW j \in Kinds, j # "shut"
        PROVE  /\ Holds(queue'[u], j) <=> Holds(queue[u], j)
               /\ Single(queue[u], j) => Single(queue'[u], j)
    <2>1. queue'[u] = queue[u] \/ queue'[u] = Append(queue[u], "shut")
      BY <1>t, <1>s DEF Shutdown
    <2>2. queue[u] \in Seq(Kinds)
      BY <1>t
    <2>3. /\ Holds(Append(queue[u], "shut"), j) <=> (Holds(queue[u], j) \/ j = "shut")
          /\ Single(queue[u], j) /\ (j = "shut" => ~Holds(queue[u], j))
                => Single(Append(queue[u], "shut"), j)
      BY <1>t, <2>2, SeqFacts
    <2> QED
      BY <1>2, <2>1, <2>3
  <1>3. \A b, j, u : Runs(b, j, u)' <=> Runs(b, j, u)
    BY <1>f DEF Runs
  <1>4. \A j \in Kinds, u \in Threads : j # "shut" =>
           (Out(j, u)' <=> Out(j, u)) /\ (Uniq(j, u) => Uniq(j, u)')
    BY <1>f, <1>2, <1>3 DEF Out, Uniq
  <1>5. /\ TokInv' /\ Waiting' = Waiting /\ (DoneOut' <=> DoneOut)
        /\ Decs' = Decs /\ Lasts' = Lasts /\ Stages' = Stages
    <2>1. \A b \in Actors : job[b].k = "none" => job[b] = None
      BY DEF TokInv
    <2> QED
      BY <1>t, <1>f, <1>4, <2>1, KeptStep DEF Past
  <1>6. ShutInv'
    BY <1>s DEF ShutInv
  <1> QED
    BY <1>s, <1>f, <1>1, <1>5, <1>6

\* Nothing changes but where the messages are.
LEMMA FrameStep ==
    ASSUME IInv, Waiting' = Waiting, DoneOut' <=> DoneOut, Decs' = Decs, Lasts' = Lasts,
           Stages' = Stages, UNCHANGED <<opVars, cpc, ci, md, histVars, ret>>,
           shut > 0 => shut' > 0,
           \A b \in Actors : Past(b) => job'[b] = job[b],
           cpc # "ret" => job'[src] = job[src]
    PROVE  OnceInv' /\ StartInv' /\ AtOnceInv' /\ CastInv' /\ SyncInv' /\ DoneInv' /\ OboInv'
           /\ AopInv'
  <1>u. /\ n' = n /\ mode' = mode /\ flags' = flags /\ src' = src /\ cpc' = cpc /\ ci' = ci
        /\ md' = md /\ calls' = calls /\ dones' = dones /\ report' = report /\ ret' = ret
    BY DEF opVars, histVars
  <1>d. /\ Called' = Called /\ Targets' = Targets /\ Left' = Left /\ Failed' = Failed
        /\ InitActive' = InitActive /\ (SelfDirect' <=> SelfDirect) /\ SelfN' = SelfN
        /\ Tries' = Tries /\ (SelfLast' <=> SelfLast) /\ \A i : Others(i)' = Others(i)
    BY <1>u DEF Called, Targets, Left, Failed, InitActive, SelfDirect, SelfN, Tries, SelfLast, Others
  <1>e. (NothingOut' <=> NothingOut) /\ (NoTurn' <=> NoTurn)
    BY DEF NothingOut, NoTurn
  <1>1. OnceInv'
    BY <1>u, <1>d DEF IInv, OnceInv
  <1>2. StartInv'
    BY <1>u, <1>d, <1>e DEF IInv, StartInv
  <1>3. AtOnceInv'
    BY <1>u, <1>d DEF IInv, AtOnceInv
  <1>4. CastInv'
    BY <1>u, <1>d DEF IInv, CastInv
  <1>5. SyncInv'
    BY <1>u DEF IInv, SyncInv
  <1>6. DoneInv'
    BY <1>u DEF IInv, DoneInv
  <1>7. OboInv'
    <2>1. \A a \in Stages : job'[a] = job[a]
      BY DEF Stages, At, Past
    <2>2. mode = "obo" /\ md.mem # "none" =>
             \A a \in Stages :
                    /\ Stages = {a} /\ ~DoneOut /\ dones = 0 /\ md.mem = "heap"
                    /\ \/ /\ job'[a].t # src /\ job'[a].pc # "fin"
                          /\ md.idx <= n /\ Tries = Others(md.idx) + SelfN
                          /\ job'[a].pc = "self" => md.idx = n
                       \/ job'[a].t = src /\ md.idx = n + 1 /\ SelfLast /\ Tries = n
                       \/ job'[a].pc = "fin" /\ Tries = Targets
      BY <2>1 DEF IInv, OboInv
    <2> QED
      BY <1>u, <1>d, <1>e, <2>2 DEF IInv, OboInv
  <1>8. AopInv'
    BY <1>u, <1>d DEF IInv, AopInv
  <1> QED
    BY <1>1, <1>2, <1>3, <1>4, <1>5, <1>6, <1>7, <1>8

\* The loop of a thread, tp_shutdown() and the end keep the invariant.
LEMMA TransportInv ==
    ASSUME IInv, Shutdown \/ (\E t \in Threads : Loop(t)) \/ UNCHANGED vars
    PROVE  IInv'
  <1>t. TypeOK /\ TokInv /\ ShutInv
    BY DEF IInv
  <1>1. CASE Shutdown
    <2>1. /\ queue' \in [Threads -> Seq(Kinds)] /\ shut' \in 0 .. ThreadsMax /\ shut' > 0
          /\ TokInv' /\ ShutInv' /\ Waiting' = Waiting /\ (DoneOut' <=> DoneOut)
          /\ Decs' = Decs /\ Lasts' = Lasts /\ Stages' = Stages
          /\ UNCHANGED <<batch, job, state, opVars, cpc, ci, md, histVars, ret>>
      BY <1>t, <1>1, ShutdownStep
    <2>2. OnceInv' /\ StartInv' /\ AtOnceInv' /\ CastInv' /\ SyncInv' /\ DoneInv' /\ OboInv'
          /\ AopInv'
      BY <2>1, FrameStep
    <2>3. TypeOK'
      BY <1>t, <2>1 DEF TypeOK, opVars, histVars
    <2> QED
      BY <2>1, <2>2, <2>3 DEF IInv
  <1>2. ASSUME NEW t \in Threads, Loop(t) PROVE IInv'
    <2>1. /\ queue' \in [Threads -> Seq(Kinds)] /\ batch' \in [Threads -> Seq(Kinds)]
          /\ job' \in [Actors -> Jobs] /\ state' \in [Threads -> ThreadStates]
          /\ TokInv' /\ ShutInv' /\ Waiting' = Waiting /\ (DoneOut' <=> DoneOut)
          /\ Decs' = Decs /\ Lasts' = Lasts /\ Stages' = Stages
          /\ \A b \in Actors : Past(b) => job'[b] = job[b]
          /\ t = src => cpc = "ret"
          /\ \A b \in Actors : b # t => job'[b] = job[b]
          /\ UNCHANGED <<opVars, cpc, ci, md, shut, histVars, ret>>
      BY <1>t, <1>2, LoopStep
    <2>2. cpc # "ret" => job'[src] = job[src]
      BY <1>t, <2>1, Sorts
    <2>3. OnceInv' /\ StartInv' /\ AtOnceInv' /\ CastInv' /\ SyncInv' /\ DoneInv' /\ OboInv'
          /\ AopInv'
      BY <2>1, <2>2, FrameStep
    <2>4. TypeOK'
      BY <1>t, <2>1 DEF TypeOK, opVars, histVars
    <2> QED
      BY <2>1, <2>3, <2>4 DEF IInv
  <1>3. CASE UNCHANGED vars
    <2>1. /\ UNCHANGED <<queue, batch, job, state, shut, src, mode, md>>
          /\ UNCHANGED <<opVars, cpc, ci, md, histVars, ret>>
      BY <1>3 DEF vars, opVars, histVars
    <2>2. /\ TokInv' /\ ShutInv' /\ Waiting' = Waiting /\ (DoneOut' <=> DoneOut)
          /\ Decs' = Decs /\ Lasts' = Lasts /\ Stages' = Stages
      BY <1>t, <2>1, StillStep
    <2>3. OnceInv' /\ StartInv' /\ AtOnceInv' /\ CastInv' /\ SyncInv' /\ DoneInv' /\ OboInv'
          /\ AopInv'
      BY <2>1, <2>2, FrameStep
    <2>4. TypeOK'
      BY <1>t, <2>1 DEF TypeOK, opVars, histVars
    <2> QED
      BY <2>2, <2>3, <2>4 DEF IInv
  <1> QED
    BY <1>1, <1>2, <1>3

-----------------------------------------------------------------------------
(* What the invariant says of an actor in a callback.                      *)

LEMMA JobFacts ==
    ASSUME IInv, NEW a \in Actors
    PROVE  /\ job[a] \in Jobs /\ job[a].t \in Threads
           /\ job[a].k \in Kinds /\ ~Past(a) => Out(job[a].k, job[a].t)
           /\ job[a].k \in Kinds => job[a] # None
           /\ job[a].k = "cb" => mode = "bsend" /\ ~Past(a) /\ Main = "cb"
           /\ job[a].k = "aop" => mode = "aop" /\ ~Past(a) /\ Main = "aop"
           /\ job[a].k = "done" => ~Past(a)
           /\ job[a].k = "sync" => mode \in {"sync", "cb"} /\ Main = "sync"
           /\ job[a].k = "obo" => mode = "obo" /\ Main = "obo"
  <1>t. /\ job \in [Actors -> Jobs] /\ None.k = "none" /\ "none" \notin Kinds
        /\ mode \in AllModes
    BY PlaceTypes, Sorts DEF IInv, Kinds
  <1>1. job[a] \in Jobs /\ job[a].t \in Threads
    BY <1>t DEF Jobs
  <1>2. job[a].k \in Kinds /\ ~Past(a) => Out(job[a].k, job[a].t)
    BY DEF Out, Runs, Past
  <1>3. job[a].k \in Kinds /\ ~Past(a) => job[a].k \in {Main, "done", "shut"}
    BY <1>1, <1>2 DEF IInv, TokInv
  <1>4. Past(a) => \/ mode \in {"sync", "cb"} /\ job[a].k = "sync"
                   \/ mode = "obo" /\ job[a].k = "obo"
    BY DEF IInv, TokInv
  <1>5. {"cb", "aop", "done", "sync", "obo"} \subseteq Kinds
    BY DEF Kinds
  <1>6. /\ Main = "cb" <=> mode = "bsend"
        /\ Main = "obo" <=> mode = "obo"
        /\ Main = "aop" <=> mode = "aop"
        /\ Main = "sync" <=> mode \in {"sync", "cb"}
    BY <1>t DEF Main, AllModes
  <1> QED
    BY <1>t, <1>1, <1>2, <1>3, <1>4, <1>5, <1>6

\* Where there are messages there is message data.
LEMMA Live ==
    ASSUME IInv, mode # "bsend",
           Waiting # {} \/ DoneOut \/ Decs # {} \/ Lasts # {} \/ Stages # {}
    PROVE  md.mem # "none" /\ cpc # "start"
  <1>1. cpc # "start"
    BY DEF IInv, StartInv, NothingOut
  <1>2. cpc = "ret" => md.mem # "none"
    BY DEF IInv, AtOnceInv
  <1>3. mode \in AllModes
    BY Sorts DEF IInv
  <1>4. md.mem = "none" => cpc \in {"start", "ret"}
    BY <1>3 DEF IInv, CastInv, OboInv, AopInv, AllModes
  <1> QED
    BY <1>1, <1>2, <1>4

\* The start.
LEMMA StartFacts ==
    ASSUME IInv, cpc = "start"
    PROVE  /\ job[src] = None /\ src \in Actors
           /\ Waiting = {} /\ ~DoneOut /\ Decs = {} /\ Lasts = {} /\ Stages = {}
           /\ Called = {} /\ dones = 0 /\ ci = 0 /\ ret = "none"
           /\ report = [send |-> 0, err |-> 0]
           /\ md.mem = "none" /\ md.active = 0 /\ md.idx = 0 /\ md.send = 0 /\ md.err = 0
           /\ md.tpt = src /\ md.done = FALSE
           /\ Cardinality(Called) = 0 /\ Cardinality(Waiting) = 0 /\ Cardinality(Decs) = 0
  <1>1. src \in Actors
    BY Sorts DEF IInv
  <1>2. Cardinality({}) = 0
    BY FS_EmptySet
  <1> QED
    BY <1>1, <1>2 DEF IInv, StartInv, NothingOut

\* tpt_msg_bsend_ex() and tpt_msg_cbsend() where there is nothing to wait for.
LEMMA BsendSingleInv ==
    ASSUME IInv, BsendSingle
    PROVE  IInv'
  <1>t. TypeOK /\ TokInv /\ ShutInv /\ md \in MdType
    BY DataSorts DEF IInv
  <1>s. /\ job[src] = None /\ src \in Actors
        /\ Waiting = {} /\ ~DoneOut /\ Decs = {} /\ Lasts = {} /\ Stages = {}
        /\ Called = {} /\ dones = 0 /\ ret = "none"
        /\ md.mem = "none" /\ md.tpt = src /\ md.done = FALSE
    BY StartFacts DEF BsendSingle
  <1>u. /\ cpc' = "ret" /\ n = 1 /\ src # Ext /\ mode \in {"bsend", "sync"}
        /\ UNCHANGED <<n, mode, flags, src, back, state, batch, ci, shut, dones, report>>
    BY DEF BsendSingle, opVars
  <1>0. 0 \in Threads /\ src = 0
    BY <1>t, <1>u, Sorts DEF IInv, StartInv
  <1>1. /\ queue' \in [Threads -> Seq(Kinds)] /\ job' \in [Actors -> Jobs] /\ TokInv' /\ ShutInv'
        /\ ~DoneOut' /\ Decs' = {} /\ Lasts' = {} /\ Stages' = {}
        /\ mode # "bsend" => Waiting' = {}
        /\ Waiting' \cap Called' = {} /\ \A t \in Threads : calls'[t] <= 1
        /\ calls' \in [Threads -> Nat]
        /\ md' \in MdType /\ md'.mem = "none" /\ md'.tpt = src /\ md'.done = FALSE
        /\ ret' \in {"none", "0", "EINVAL", "ESPIPE", "EHOSTDOWN", "EAGAIN"}
    <2>c. calls \in [Threads -> Nat] /\ \A t \in Threads : calls[t] <= 1 /\ ~(calls[t] > 0)
      BY <1>s, <1>t DEF TypeOK, IInv, OnceInv, Called
    <2>p. queue \in [Threads -> Seq(Kinds)] /\ job \in [Actors -> Jobs]
      BY <1>t, PlaceTypes
    <2>1. CASE SKIP \in flags
      <3>1. UNCHANGED <<queue, job, md, calls>> /\ ret' = "0"
        BY <2>1 DEF BsendSingle
      <3>2. /\ TokInv' /\ ShutInv' /\ Waiting' = Waiting /\ (DoneOut' <=> DoneOut)
            /\ Decs' = Decs /\ Lasts' = Lasts /\ Stages' = Stages
        BY <1>t, <1>u, <3>1, StillStep
      <3> QED
        BY <1>s, <1>t, <2>c, <2>p, <3>1, <3>2
    <2>2. CASE SKIP \notin flags /\ mode = "bsend"
      <3>1. PICK full \in Fulls :
               LET out == Outcome(0, src, flags, full)
               IN  /\ Deliver(out, src, 0, "cb")
                   /\ md' = IF Sent(out) THEN [md EXCEPT !.send = 1] ELSE md
                   /\ ret' = IF Sent(out) THEN "0" ELSE out
        BY <2>2 DEF BsendSingle
      <3> DEFINE out == Outcome(0, src, flags, full)
      <3>2. /\ Deliver(out, src, 0, "cb") /\ calls' = calls
            /\ md' = md \/ md' = [md EXCEPT !.send = 1]
            /\ ret' = "0" \/ (ret' = out /\ ~Sent(out))
        BY <2>2, <3>1 DEF BsendSingle
      <3>3. /\ md' \in MdType /\ md'.mem = "none" /\ md'.tpt = src /\ md'.done = FALSE
        <4>1. 1 \in 0 .. ThreadsMax + 1
          BY <1>t, Sorts
        <4>2. CASE md' = md
          BY <4>2, <1>s, <1>t
        <4>3. CASE md' = [md EXCEPT !.send = 1]
          BY <4>1, <4>3, <1>s, <1>t DEF MdType
        <4> QED
          BY <3>2, <4>2, <4>3
      <3>4. /\ out = "queued" => IsRunning(state[0])
            /\ out \in {"direct", "queued", "EHOSTDOWN", "EAGAIN"}
        BY OutcomeFacts
      <3>5. Main = "cb" /\ Main # "done"
        BY <2>2 DEF Main
      <3> HIDE DEF out
      <3>6. /\ queue' \in [Threads -> Seq(Kinds)] /\ job' \in [Actors -> Jobs]
            /\ TokInv' /\ ShutInv' /\ (DoneOut' <=> DoneOut)
            /\ Decs' = Decs \ {src} /\ Lasts' = Lasts \ {src} /\ Stages' = Stages \ {src}
        <4>1. Deliver(out, src, 0, Main) /\ 0 \notin Waiting
          BY <3>2, <3>5, <1>s
        <4> QED
          BY <1>s, <1>t, <1>u, <1>0, <3>3, <3>4, <3>5, <4>1, SendStep
      <3>7. ret' \in {"0", "EHOSTDOWN", "EAGAIN"}
        BY <3>2, <3>4 DEF Sent
      <3>8. Called' = {}
        BY <1>s, <3>2 DEF Called
      <3> QED
        BY <1>s, <2>c, <2>2, <3>2, <3>3, <3>6, <3>7, <3>8
    <2>3. CASE SKIP \notin flags /\ mode = "sync"
      <3>1. UNCHANGED <<queue, job, md>> /\ ret' = "0" /\ calls' = [calls EXCEPT ![src] = @ + 1]
        BY <2>3 DEF BsendSingle
      <3>2. /\ TokInv' /\ ShutInv' /\ Waiting' = Waiting /\ (DoneOut' <=> DoneOut)
            /\ Decs' = Decs /\ Lasts' = Lasts /\ Stages' = Stages
        BY <1>t, <1>u, <3>1, StillStep
      <3>3. calls' \in [Threads -> Nat] /\ \A t \in Threads : calls'[t] <= 1
        BY <1>0, <2>c, <3>1
      <3> QED
        BY <1>s, <1>t, <2>p, <3>1, <3>2, <3>3
    <2> QED
      BY <1>u, <2>1, <2>2, <2>3
  <1>2. TypeOK'
    BY <1>t, <1>u, <1>1 DEF TypeOK, MdType
  <1>3. OnceInv' /\ StartInv'
    BY <1>1, <1>u, <1>0 DEF OnceInv, StartInv, IInv
  <1>4. AtOnceInv'
    BY <1>1, <1>s, <1>u DEF AtOnceInv
  <1>5. CastInv' /\ SyncInv'
    BY <1>1, <1>s, <1>u DEF CastInv, SyncInv
  <1>6. DoneInv' /\ OboInv' /\ AopInv'
    BY <1>u DEF DoneInv, OboInv, AopInv
  <1> QED
    BY <1>1, <1>2, <1>3, <1>4, <1>5, <1>6 DEF IInv

LEMMA CbsendSingleInv ==
    ASSUME IInv, CbsendSingle
    PROVE  IInv'
  <1>t. TypeOK /\ TokInv /\ ShutInv
    BY DEF IInv
  <1>s. /\ src \in Actors /\ Waiting = {} /\ ~DoneOut /\ Decs = {} /\ Lasts = {} /\ Stages = {}
        /\ Called = {} /\ dones = 0 /\ md.mem = "none" /\ md.tpt = src
        /\ report = [send |-> 0, err |-> 0] /\ Cardinality(Called) = 0 /\ ci = 0
    BY StartFacts DEF CbsendSingle
  <1>u. /\ cpc' = "ret" /\ n = 1 /\ src # Ext /\ mode \in {"cb", "obo"}
        /\ ret' = "0" /\ dones' = 1
        /\ UNCHANGED <<n, mode, flags, src, back, state, queue, batch, job, ci, md, shut>>
    BY <1>s DEF CbsendSingle, opVars
  <1>0. 0 \in Threads /\ src = 0
    BY <1>t, <1>u, Sorts DEF IInv, StartInv
  <1>1. /\ TokInv' /\ ShutInv' /\ Waiting' = {} /\ ~DoneOut' /\ Decs' = {} /\ Lasts' = {}
        /\ Stages' = {}
    BY <1>s, <1>t, <1>u, StillStep
  <1>c. calls \in [Threads -> Nat] /\ \A t \in Threads : calls[t] = 0
    BY <1>s, <1>t DEF TypeOK, Called
  <1>2. /\ calls' \in [Threads -> Nat] /\ \A t \in Threads : calls'[t] <= 1
        /\ report' \in [send : Nat, err : Nat]
        /\ report'.send = Cardinality(Called') /\ report'.send + report'.err = Targets'
    <2>1. CASE SKIP \in flags
      <3>1. calls' = calls /\ report' = report /\ Targets' = 0 /\ Called' = Called
        BY <2>1, <1>u DEF CbsendSingle, Targets, Called
      <3> QED
        BY <3>1, <1>c, <1>s
    <2>2. CASE SKIP \notin flags
      <3>1. /\ calls' = [calls EXCEPT ![src] = @ + 1] /\ Targets' = 1
            /\ report' = [send |-> 1, err |-> 0]
        BY <2>2, <1>u DEF CbsendSingle, Targets
      <3>2. /\ calls' \in [Threads -> Nat] /\ \A t \in Threads : calls'[t] <= 1
            /\ \A t \in Threads : calls'[t] > 0 <=> t = src
        BY <3>1, <1>c, <1>0
      <3>3. Called' = {src} /\ Cardinality({src}) = 1
        BY <3>2, <1>0, FS_Singleton DEF Called
      <3> QED
        BY <3>1, <3>2, <3>3
    <2> QED
      BY <2>1, <2>2
  <1>3. TypeOK'
    BY <1>t, <1>u, <1>2 DEF TypeOK
  <1>4. OnceInv' /\ StartInv'
    BY <1>1, <1>2, <1>u, <1>0 DEF OnceInv, StartInv, IInv
  <1>5. AtOnceInv'
    BY <1>1, <1>2, <1>s, <1>u DEF AtOnceInv
  <1>6. CastInv' /\ SyncInv' /\ DoneInv' /\ OboInv' /\ AopInv'
    BY <1>s, <1>u DEF CastInv, SyncInv, DoneInv, OboInv, AopInv
  <1> QED
    BY <1>1, <1>3, <1>4, <1>5, <1>6 DEF IInv

LEMMA CbsendRefusedInv ==
    ASSUME IInv, CbsendRefused
    PROVE  IInv'
  <1>t. TypeOK /\ TokInv /\ ShutInv
    BY DEF IInv
  <1>s. /\ Waiting = {} /\ ~DoneOut /\ Decs = {} /\ Lasts = {} /\ Stages = {}
        /\ Called = {} /\ dones = 0 /\ md.mem = "none" /\ md.tpt = src /\ ci = 0
    BY StartFacts DEF CbsendRefused
  <1>u. /\ cpc' = "ret" /\ src = Ext /\ mode \in {"cb", "obo"} /\ ret' = "EINVAL"
        /\ UNCHANGED <<n, mode, flags, src, back, state, queue, batch, job, ci, md, shut,
                       calls, dones, report>>
    BY DEF CbsendRefused, opVars, histVars
  <1>1. /\ TokInv' /\ ShutInv' /\ Waiting' = {} /\ ~DoneOut' /\ Decs' = {} /\ Lasts' = {}
        /\ Stages' = {} /\ Called' = {}
    BY <1>s, <1>t, <1>u, StillStep DEF Called
  <1>3. TypeOK'
    BY <1>t, <1>u DEF TypeOK
  <1>4. OnceInv' /\ StartInv'
    BY <1>1, <1>u DEF OnceInv, StartInv, IInv
  <1>5. AtOnceInv'
    BY <1>1, <1>s, <1>u DEF AtOnceInv
  <1>6. CastInv' /\ SyncInv' /\ DoneInv' /\ OboInv' /\ AopInv'
    BY <1>s, <1>u DEF CastInv, SyncInv, DoneInv, OboInv, AopInv
  <1> QED
    BY <1>1, <1>3, <1>4, <1>5, <1>6 DEF IInv

\* The count the loop starts with is that of the threads it will send to.
LEMMA ActiveFacts ==
    ASSUME IInv
    PROVE  /\ InitActive \in Nat /\ InitActive <= n /\ InitActive + 1 >= n
           /\ ci = 0 => Left = InitActive
  <1>t. /\ n \in Nat /\ 1 <= n /\ n <= ThreadsMax /\ ThreadsMax \in Nat /\ src \in Nat
        /\ (src \in Threads => src < n) /\ (src \in Threads <=> src # Ext) /\ Ext = ThreadsMax
    BY Sorts DEF IInv, StartInv
  <1> QED
    BY <1>t DEF InitActive, Left

LEMMA BsendStartInv ==
    ASSUME IInv, BsendStart
    PROVE  IInv'
  <1>t. TypeOK /\ TokInv /\ ShutInv /\ md \in MdType /\ n \in Nat /\ n <= ThreadsMax
        /\ ThreadsMax \in Nat
    BY DataSorts, Sorts DEF IInv
  <1>s. /\ Waiting = {} /\ ~DoneOut /\ Decs = {} /\ Lasts = {} /\ Stages = {}
        /\ Called = {} /\ dones = 0 /\ ci = 0 /\ ret = "none"
        /\ md.mem = "none" /\ md.idx = 0 /\ md.send = 0 /\ md.err = 0
        /\ md.tpt = src /\ md.done = FALSE
        /\ Cardinality(Called) = 0 /\ Cardinality(Waiting) = 0 /\ Cardinality(Decs) = 0
    BY StartFacts DEF BsendStart
  <1>u. /\ cpc' = "loop" /\ (n > 1 \/ src = Ext) /\ mode \in {"bsend", "sync"}
        /\ md' = [md EXCEPT !.mem = "stack", !.active = InitActive]
        /\ UNCHANGED <<n, mode, flags, src, back, state, queue, batch, job, ci, shut,
                       calls, dones, report, ret>>
    BY DEF BsendStart, opVars, histVars
  <1>a. InitActive \in Nat /\ InitActive <= n /\ Left = InitActive
    BY <1>s, ActiveFacts
  <1>b. InitActive \in 0 .. ThreadsMax
    BY <1>a, <1>t
  <1>m. /\ md' \in MdType /\ md'.mem = "stack" /\ md'.active = InitActive
        /\ md'.send = 0 /\ md'.err = 0 /\ md'.tpt = src /\ md'.done = FALSE
    BY <1>t, <1>s, <1>u, <1>b DEF MdType
  <1>1. /\ TokInv' /\ ShutInv' /\ Waiting' = {} /\ ~DoneOut' /\ Decs' = {} /\ Lasts' = {}
        /\ Stages' = {} /\ Called' = {} /\ Left' = Left /\ InitActive' = InitActive
        /\ Failed' = 0
    BY <1>s, <1>t, <1>u, <1>m, StillStep DEF Called, Left, InitActive, Failed
  <1>3. TypeOK'
    BY <1>t, <1>u, <1>m DEF TypeOK, MdType
  <1>4. OnceInv' /\ StartInv' /\ AtOnceInv'
    BY <1>1, <1>u, <1>m DEF OnceInv, StartInv, AtOnceInv, IInv
  <1>5. CastInv'
    BY <1>1, <1>s, <1>u, <1>m, <1>a, <1>t DEF CastInv
  <1>6. SyncInv' /\ DoneInv' /\ OboInv' /\ AopInv'
    BY <1>1, <1>s, <1>u, <1>m DEF SyncInv, DoneInv, OboInv, AopInv
  <1> QED
    BY <1>1, <1>3, <1>4, <1>5, <1>6 DEF IInv

LEMMA CbsendStartInv ==
    ASSUME IInv, CbsendStart
    PROVE  IInv'
  <1>t. TypeOK /\ TokInv /\ ShutInv /\ md \in MdType /\ n \in Nat /\ n <= ThreadsMax
        /\ ThreadsMax \in Nat /\ src \in Actors /\ src \in Nat
    BY DataSorts, Sorts DEF IInv
  <1>s. /\ Waiting = {} /\ ~DoneOut /\ Decs = {} /\ Lasts = {} /\ Stages = {} /\ job[src] = None
        /\ Called = {} /\ dones = 0 /\ ci = 0 /\ ret = "none"
        /\ md.mem = "none" /\ md.idx = 0 /\ md.send = 0 /\ md.err = 0 /\ md.tpt = src
        /\ Cardinality(Called) = 0 /\ Cardinality(Waiting) = 0 /\ Cardinality(Decs) = 0
    BY StartFacts DEF CbsendStart
  <1>u. /\ n > 1 /\ src # Ext /\ mode \in {"cb", "obo"}
        /\ UNCHANGED <<n, mode, flags, src, back, state, queue, batch, job, ci, shut,
                       dones, report, ret>>
        /\ md' = [md EXCEPT !.mem = "heap", !.done = TRUE,
                            !.active = IF mode = "obo" THEN n ELSE InitActive,
                            !.send = IF mode = "obo" /\ SelfDirect THEN 1 ELSE 0]
    BY DEF CbsendStart, opVars
  <1>0. src \in Threads /\ src < n
    BY <1>t, <1>u, Sorts DEF IInv, StartInv
  <1>a. InitActive \in Nat /\ InitActive <= n /\ InitActive >= 1 /\ Left = InitActive
    BY <1>s, <1>u, <1>t, ActiveFacts
  <1>b. /\ (IF mode = "obo" THEN n ELSE InitActive) \in 0 .. ThreadsMax
        /\ (IF mode = "obo" /\ SelfDirect THEN 1 ELSE 0) \in 0 .. ThreadsMax + 1
    BY <1>a, <1>t
  <1>m. /\ md' \in MdType /\ md'.mem = "heap" /\ md'.done = TRUE /\ md'.idx = 0 /\ md'.err = 0
        /\ md'.tpt = src
        /\ md'.active = IF mode = "obo" THEN n ELSE InitActive
        /\ md'.send = IF mode = "obo" /\ SelfDirect THEN 1 ELSE 0
    BY <1>t, <1>s, <1>u, <1>b DEF MdType
  <1>1. /\ TokInv' /\ ShutInv' /\ Waiting' = {} /\ ~DoneOut' /\ Decs' = {} /\ Lasts' = {}
        /\ Stages' = {}
    BY <1>s, <1>t, <1>u, <1>m, StillStep
  <1>c. calls \in [Threads -> Nat] /\ \A t \in Threads : calls[t] = 0
    BY <1>s, <1>t DEF TypeOK, Called
  <1>2. CASE mode = "cb"
    <2>1. cpc' = "loop" /\ calls' = calls
      BY <1>2 DEF CbsendStart
    <2>2. Called' = {} /\ Left' = Left /\ InitActive' = InitActive /\ Failed' = 0
      BY <1>s, <1>u, <1>m, <2>1 DEF Called, Left, InitActive, Failed
    <2>3. TypeOK'
      BY <1>t, <1>u, <1>m, <2>1 DEF TypeOK, MdType
    <2>4. OnceInv' /\ StartInv' /\ AtOnceInv'
      BY <1>1, <1>u, <1>m, <2>1, <2>2 DEF OnceInv, StartInv, AtOnceInv, IInv
    <2>5. CastInv'
      BY <1>1, <1>2, <1>s, <1>u, <1>m, <1>a, <1>t, <2>1, <2>2 DEF CastInv
    <2>6. DoneInv'
      BY <1>1, <1>2, <1>s, <1>u, <1>m, <1>a DEF DoneInv
    <2>7. SyncInv' /\ OboInv' /\ AopInv'
      BY <1>2, <1>u DEF SyncInv, OboInv, AopInv
    <2> QED
      BY <1>1, <2>3, <2>4, <2>5, <2>6, <2>7 DEF IInv
  <1>3. CASE mode = "obo"
    <2>1. cpc' = "next"
      BY <1>3 DEF CbsendStart
    <2>2. /\ calls' \in [Threads -> Nat] /\ \A t \in Threads : calls'[t] <= 1
          /\ Called' = IF SelfDirect THEN {src} ELSE {}
          /\ Cardinality(Called') = IF SelfDirect THEN 1 ELSE 0
      <3>1. CASE SelfDirect
        <4>1. calls' = [calls EXCEPT ![src] = @ + 1]
          BY <1>3, <3>1 DEF CbsendStart
        <4>2. /\ calls' \in [Threads -> Nat] /\ \A t \in Threads : calls'[t] <= 1
              /\ \A t \in Threads : calls'[t] > 0 <=> t = src
          BY <4>1, <1>c, <1>0
        <4>3. Called' = {src} /\ Cardinality({src}) = 1
          BY <4>2, <1>0, FS_Singleton DEF Called
        <4> QED
          BY <3>1, <4>2, <4>3
      <3>2. CASE ~SelfDirect
        <4>1. calls' = calls /\ Called' = Called
          BY <1>3, <3>2 DEF CbsendStart, Called
        <4> QED
          BY <3>2, <4>1, <1>c, <1>s
      <3> QED
        BY <3>1, <3>2
    <2>3. TypeOK'
      BY <1>t, <1>u, <1>m, <2>1, <2>2 DEF TypeOK, MdType
    <2>4. OnceInv' /\ StartInv' /\ AtOnceInv'
      BY <1>1, <1>u, <1>m, <1>0, <1>s, <2>1, <2>2 DEF OnceInv, StartInv, AtOnceInv
    <2>5. /\ SelfDirect' <=> SelfDirect
          /\ Tries' = SelfN' /\ Others(0)' = 0 /\ SelfN' \in 0 .. 1 /\ md'.send = SelfN'
          /\ SelfN' = IF SelfDirect THEN 1 ELSE 0
      <3>1. SelfDirect' <=> SelfDirect
        BY <1>u DEF SelfDirect
      <3>2. SelfN' = IF SelfDirect THEN 1 ELSE 0
        BY <3>1 DEF SelfN
      <3>4. Others(0)' = 0
        <4>1. src' \in Nat
          BY <1>u, <1>t
        <4>2. \A i \in Nat : Others(i)' = IF src' < i THEN i - 1 ELSE i
          BY <4>1 DEF Others
        <4> QED
          BY <4>1, <4>2
      <3>3. Tries' = md'.send + 0
        BY <1>m DEF Tries
      <3> QED
        BY <1>m, <1>3, <3>1, <3>2, <3>3, <3>4
    <2>6. OboInv'
      BY <1>1, <1>3, <1>s, <1>u, <1>m, <1>t, <2>1, <2>2, <2>5 DEF OboInv, NoTurn
    <2>7. CastInv' /\ SyncInv' /\ DoneInv' /\ AopInv'
      BY <1>3, <1>u DEF CastInv, SyncInv, DoneInv, AopInv
    <2> QED
      BY <1>1, <2>3, <2>4, <2>6, <2>7 DEF IInv
  <1> QED
    BY <1>u, <1>2, <1>3

-----------------------------------------------------------------------------
(* Broadcasts: the loop and its end.                                       *)

\* The counters of one attempt.
LEMMA CountFacts ==
    ASSUME TypeOK, md.send + md.err <= ThreadsMax, NEW out, md' = Count(md, out)
    PROVE  /\ md' \in MdType /\ md'.mem = md.mem /\ md'.active = md.active /\ md'.idx = md.idx
           /\ md'.tpt = md.tpt /\ md'.done = md.done
           /\ Sent(out) => md'.send = md.send + 1 /\ md'.err = md.err
           /\ ~Sent(out) => md'.send = md.send /\ md'.err = md.err + 1
  <1>1. /\ md \in MdType /\ ThreadsMax \in Nat /\ md.send \in Nat /\ md.err \in Nat
    BY DataSorts, Sorts
  <1>2. md.send + 1 \in 0 .. ThreadsMax + 1 /\ md.err + 1 \in 0 .. ThreadsMax + 1
    BY <1>1
  <1>3. md' = IF Sent(out) THEN [md EXCEPT !.send = md.send + 1]
                           ELSE [md EXCEPT !.err = md.err + 1]
    BY DEF Count
  <1> QED
    BY <1>1, <1>2, <1>3 DEF MdType

\* Where a broadcast is when its loop or what follows it runs.
LEMMA CastFacts ==
    ASSUME IInv, cpc \in {"loop", "end", "spin"}
    PROVE  /\ mode \in {"bsend", "sync", "cb"} /\ md.mem # "none" /\ md.tpt = src
           /\ ci \in 0 .. n /\ (cpc # "loop" => ci = n)
           /\ \A t \in Threads : t >= ci \/ (t = src /\ SKIP \in flags) =>
                 t \notin Waiting /\ t \notin Called
           /\ md.send = Cardinality(Waiting) + Cardinality(Called)
           /\ md.send + md.err + Left = InitActive
           /\ mode # "bsend" =>
                 md.active = Cardinality(Waiting) + Cardinality(Decs) + Left + Failed
           /\ mode = "sync" => md.mem = "stack"
           /\ Cardinality(Waiting) \in Nat /\ Cardinality(Decs) \in Nat
           /\ Cardinality(Called) \in Nat /\ Left \in Nat
           /\ InitActive \in Nat /\ InitActive <= n
  <1>t. TypeOK /\ mode \in AllModes
    BY Sorts DEF IInv
  <1>1. mode \in {"bsend", "sync", "cb"}
    BY <1>t DEF IInv, OboInv, AopInv, AllModes
  <1>2. md.mem # "none"
    BY <1>1 DEF IInv, CastInv
  <1>3. mode = "sync" => md.mem = "stack"
    BY <1>2 DEF IInv, SyncInv
  <1>4. /\ ci \in 0 .. n /\ md.tpt = src /\ (cpc # "loop" => ci = n)
        /\ \A t \in Threads : t >= ci \/ (t = src /\ SKIP \in flags) =>
                 t \notin Waiting /\ t \notin Called
        /\ md.send = Cardinality(Waiting) + Cardinality(Called)
        /\ md.send + md.err + Left = InitActive
        /\ mode # "bsend" =>
              md.active = Cardinality(Waiting) + Cardinality(Decs) + Left + Failed
    BY <1>1, <1>2 DEF IInv, CastInv
  <1>5. Left \in Nat
    <2>1. n \in Nat /\ src \in Nat /\ ci \in Nat /\ ci <= n
      BY <1>t, <1>4, Sorts
    <2> QED
      BY <2>1 DEF Left
  <1> QED
    BY <1>t, <1>1, <1>2, <1>3, <1>4, <1>5, Sizes, ActiveFacts

LEMMA BroadcastSendInv ==
    ASSUME IInv, BroadcastSend
    PROVE  IInv'
  <1>t. /\ TypeOK /\ TokInv /\ ShutInv /\ md \in MdType /\ n \in Nat /\ n <= ThreadsMax
        /\ ThreadsMax \in Nat /\ src \in Actors /\ src \in Nat /\ md.send \in Nat /\ md.err \in Nat
        /\ md.active \in Nat /\ Threads = 0 .. ThreadsMax - 1
    BY DataSorts, Sorts DEF IInv
  <1>u. /\ cpc = "loop" /\ job[src] = None
        /\ UNCHANGED <<n, mode, flags, src, back, state, batch, shut, calls, dones, report, ret>>
    BY DEF BroadcastSend, CallerFree, opVars, histVars
  <1>c. /\ mode \in {"bsend", "sync", "cb"} /\ md.mem # "none" /\ md.tpt = src
        /\ ci \in 0 .. n
        /\ \A t \in Threads : t >= ci \/ (t = src /\ SKIP \in flags) =>
              t \notin Waiting /\ t \notin Called
        /\ md.send = Cardinality(Waiting) + Cardinality(Called)
        /\ md.send + md.err + Left = InitActive
        /\ mode # "bsend" =>
              md.active = Cardinality(Waiting) + Cardinality(Decs) + Left + md.err
        /\ mode = "sync" => md.mem = "stack"
        /\ Cardinality(Waiting) \in Nat /\ Cardinality(Decs) \in Nat
        /\ Cardinality(Called) \in Nat /\ Left \in Nat
        /\ InitActive \in Nat /\ InitActive <= n
    BY <1>u, CastFacts DEF Failed
  <1>d. Called' = Called /\ InitActive' = InitActive
    BY <1>u DEF Called, InitActive
  <1>1. CASE ci = n
    <2>1. cpc' = "end" /\ UNCHANGED <<ci, md, queue, job>>
      BY <1>1 DEF BroadcastSend
    <2>2. /\ TokInv' /\ ShutInv' /\ Waiting' = Waiting /\ (DoneOut' <=> DoneOut)
          /\ Decs' = Decs /\ Lasts' = Lasts /\ Stages' = Stages
      BY <1>t, <1>u, <2>1, StillStep
    <2>3. Left' = Left /\ Failed' = md.err
      BY <1>u, <2>1 DEF Left, Failed
    <2>4. TypeOK'
      BY <1>t, <1>u, <2>1 DEF TypeOK
    <2>5. OnceInv' /\ StartInv' /\ AtOnceInv'
      BY <1>c, <1>d, <1>u, <2>1, <2>2 DEF OnceInv, StartInv, AtOnceInv, IInv
    <2>6. CastInv'
      BY <1>1, <1>c, <1>d, <1>t, <1>u, <2>1, <2>2, <2>3 DEF CastInv
    <2>7. SyncInv' /\ DoneInv'
      BY <1>c, <1>u, <2>1, <2>2 DEF SyncInv, DoneInv, IInv
    <2>8. OboInv' /\ AopInv'
      BY <1>c, <1>u DEF OboInv, AopInv
    <2> QED
      BY <2>2, <2>4, <2>5, <2>6, <2>7, <2>8 DEF IInv
  <1>2. CASE ci # n /\ ci = src /\ SKIP \in flags
    <2>1. cpc' = "loop" /\ ci' = ci + 1 /\ UNCHANGED <<md, queue, job>>
      BY <1>2, <1>u DEF BroadcastSend
    <2>2. /\ TokInv' /\ ShutInv' /\ Waiting' = Waiting /\ (DoneOut' <=> DoneOut)
          /\ Decs' = Decs /\ Lasts' = Lasts /\ Stages' = Stages
      BY <1>t, <1>u, <2>1, StillStep
    <2>3. Left' = Left /\ Failed' = md.err
      BY <1>u, <1>t, <1>c, <1>2, <2>1 DEF Left, Failed
    <2>4. TypeOK'
      <3>1. ci' \in 0 .. ThreadsMax
        BY <1>2, <1>t, <1>c, <2>1
      <3> QED
        BY <1>t, <1>u, <2>1, <3>1 DEF TypeOK
    <2>5. OnceInv' /\ StartInv' /\ AtOnceInv'
      BY <1>c, <1>d, <1>u, <2>1, <2>2 DEF OnceInv, StartInv, AtOnceInv, IInv
    <2>6. CastInv'
      <3>1. ci' \in 0 .. n /\ \A t \in Threads : t >= ci' => t >= ci
        BY <1>2, <1>t, <1>c, <2>1
      <3> QED
        BY <1>c, <1>d, <1>t, <1>u, <2>1, <2>2, <2>3, <3>1 DEF CastInv
    <2>7. SyncInv' /\ DoneInv'
      BY <1>c, <1>u, <2>1, <2>2 DEF SyncInv, DoneInv, IInv
    <2>8. OboInv' /\ AopInv'
      BY <1>c, <1>u DEF OboInv, AopInv
    <2> QED
      BY <2>2, <2>4, <2>5, <2>6, <2>7, <2>8 DEF IInv
  <1>3. CASE ci # n /\ ~(ci = src /\ SKIP \in flags)
    <2>0. cpc' = "loop" /\ ci' = ci + 1
      BY <1>3, <1>u DEF BroadcastSend
    <2>1. PICK full \in Fulls :
             LET out == Outcome(ci, src, flags, full)
             IN  /\ md' = Count(md, out)
                 /\ Deliver(out, src, ci, IF mode = "bsend" THEN "cb" ELSE "sync")
      BY <1>3 DEF BroadcastSend
    <2> DEFINE out == Outcome(ci, src, flags, full)
    <2>2. Main = IF mode = "bsend" THEN "cb" ELSE "sync"
      BY <1>c DEF Main
    <2>3. md' = Count(md, out) /\ Deliver(out, src, ci, Main)
          /\ (out = "queued" => IsRunning(state[ci]))
      BY <2>1, <2>2, OutcomeFacts
    <2> HIDE DEF out
    <2>4. /\ ci \in Threads /\ ci \notin Waiting /\ ci \notin Called /\ ci' \in 0 .. n
          /\ ci' \in 0 .. ThreadsMax /\ \A t \in Threads : t >= ci' => t >= ci /\ t # ci
      BY <1>3, <1>c, <1>t, <2>0
    <2>5. Left >= 1 /\ Left' = Left - 1
      BY <1>3, <1>c, <1>t, <1>u, <2>0 DEF Left
    <2>6. /\ md' \in MdType /\ md'.mem = md.mem /\ md'.active = md.active
          /\ md'.tpt = md.tpt /\ md'.done = md.done
          /\ Sent(out) => md'.send = md.send + 1 /\ md'.err = md.err
          /\ ~Sent(out) => md'.send = md.send /\ md'.err = md.err + 1
      <3>1. md.send + md.err <= ThreadsMax
        BY <1>c, <1>t, <2>5
      <3> QED
        BY <1>t, <2>3, <3>1, CountFacts
    <2>7. /\ queue' \in [Threads -> Seq(Kinds)] /\ job' \in [Actors -> Jobs]
          /\ TokInv' /\ ShutInv'
          /\ Waiting' = IF Sent(out) THEN Waiting \cup {ci} ELSE Waiting
          /\ DoneOut' <=> DoneOut
          /\ Decs' = Decs /\ Lasts' = Lasts /\ Stages' = Stages
      <3>1. Main # "done" /\ None.pc = "run"
        BY <1>t, PlaceTypes
      <3>2. src \notin Decs /\ src \notin Lasts /\ src \notin Stages
        BY <1>u, <3>1 DEF Decs, Lasts, Stages, At
      <3>3. /\ queue' \in [Threads -> Seq(Kinds)] /\ job' \in [Actors -> Jobs]
            /\ TokInv' /\ ShutInv'
            /\ Waiting' = IF Sent(out) /\ Main = Main THEN Waiting \cup {ci} ELSE Waiting
            /\ DoneOut' <=> (DoneOut \/ (Sent(out) /\ Main = "done"))
            /\ Decs' = Decs \ {src} /\ Lasts' = Lasts \ {src} /\ Stages' = Stages \ {src}
        BY <1>t, <1>u, <2>3, <2>4, <2>6, <3>1, SendStep
      <3> QED
        BY <3>1, <3>2, <3>3
    <2>8. Cardinality(Waiting') = IF Sent(out) THEN Cardinality(Waiting) + 1
                                               ELSE Cardinality(Waiting)
      BY <1>t, <2>4, <2>7, OneMore, Sizes
    <2>9. TypeOK'
      BY <1>t, <1>u, <2>0, <2>4, <2>6, <2>7 DEF TypeOK, MdType
    <2>10. OnceInv' /\ StartInv' /\ AtOnceInv'
      BY <1>c, <1>d, <1>u, <2>0, <2>4, <2>6, <2>7 DEF OnceInv, StartInv, AtOnceInv, IInv
    <2>11. CastInv'
      <3>1. \A t \in Threads : t >= ci' \/ (t = src /\ SKIP \in flags) =>
               t \notin Waiting' /\ t \notin Called
        BY <1>3, <1>c, <2>4, <2>7
      <3>2. Failed' = md'.err
        BY <2>0 DEF Failed
      <3>3. /\ md'.send = Cardinality(Waiting') + Cardinality(Called)
            /\ md'.send + md'.err + Left' = InitActive
            /\ mode # "bsend" =>
                  md'.active = Cardinality(Waiting') + Cardinality(Decs) + Left' + md'.err
        <4>0. /\ md.send = Cardinality(Waiting) + Cardinality(Called)
              /\ md.send + md.err + Left = InitActive
              /\ mode # "bsend" =>
                    md.active = Cardinality(Waiting) + Cardinality(Decs) + Left + md.err
              /\ Cardinality(Waiting) \in Nat /\ Cardinality(Decs) \in Nat
              /\ Cardinality(Called) \in Nat /\ Left \in Nat /\ md.send \in Nat
              /\ md.err \in Nat /\ md'.active = md.active /\ Left' = Left - 1
          BY <1>c, <1>t, <2>5, <2>6
        <4>1. CASE Sent(out)
          <5>1. md'.send = md.send + 1 /\ md'.err = md.err
                /\ Cardinality(Waiting') = Cardinality(Waiting) + 1
            BY <2>6, <2>8, <4>1
          <5> QED
            BY <4>0, <5>1
        <4>2. CASE ~Sent(out)
          <5>1. md'.send = md.send /\ md'.err = md.err + 1
                /\ Cardinality(Waiting') = Cardinality(Waiting)
            BY <2>6, <2>8, <4>2
          <5>2. md'.send + md'.err + Left' = InitActive
            BY <4>0, <5>1
          <5>3. Left' + md'.err = Left + md.err
            BY <4>0, <5>1
          <5>4. mode # "bsend" =>
                   md'.active = Cardinality(Waiting') + Cardinality(Decs) + (Left' + md'.err)
            BY <4>0, <5>1, <5>3
          <5>5. md'.err \in Nat /\ Left' \in Int
            BY <4>0, <5>1
          <5> QED
            BY <4>0, <5>1, <5>2, <5>4, <5>5
        <4> QED
          BY <4>1, <4>2
      <3> QED
        BY <1>c, <1>d, <1>u, <2>0, <2>4, <2>6, <2>7, <3>1, <3>2, <3>3 DEF CastInv
    <2>12. SyncInv'
      BY <1>c, <1>u, <2>0, <2>6, <2>7 DEF SyncInv, IInv
    <2>13. DoneInv'
      <3>1. mode = "cb" => md.active > 0
        BY <1>c, <1>t, <2>5
      <3> QED
        BY <1>c, <1>u, <2>6, <2>7, <3>1 DEF DoneInv, IInv
    <2>14. OboInv' /\ AopInv'
      BY <1>c, <1>u DEF OboInv, AopInv
    <2> QED
      BY <2>7, <2>9, <2>10, <2>11, <2>12, <2>13, <2>14 DEF IInv
  <1> QED
    BY <1>1, <1>2, <1>3

\* The ends of tpt_msg_bsend_ex().
LEMMA BsendEndsInv ==
    ASSUME IInv, BsendEnd \/ SyncEnd \/ Spin
    PROVE  IInv'
  <1>t. /\ TypeOK /\ TokInv /\ ShutInv /\ md \in MdType /\ n \in Nat /\ n <= ThreadsMax
        /\ ThreadsMax \in Nat /\ src \in Actors /\ md.err \in Nat /\ md.active \in Nat
        /\ md.active <= ThreadsMax
    BY DataSorts, Sorts DEF IInv
  <1>u. /\ cpc \in {"end", "spin"} /\ mode \in {"bsend", "sync"}
        /\ UNCHANGED <<n, mode, flags, src, back, state, queue, batch, job, ci, shut,
                       calls, dones, report>>
        /\ ret' \in {"none", "0", "EINVAL", "ESPIPE", "EHOSTDOWN", "EAGAIN"}
    <2>1. ret \in {"none", "0", "EINVAL", "ESPIPE", "EHOSTDOWN", "EAGAIN"}
      BY <1>t DEF TypeOK
    <2>2. cpc = "spin" => mode = "sync"
      BY CastFacts DEF IInv, CastInv
    <2> QED
      BY <2>1, <2>2 DEF BsendEnd, SyncEnd, Spin, opVars, histVars
  <1>c. /\ md.mem # "none" /\ md.tpt = src /\ ci = n /\ ci \in 0 .. n
        /\ \A t \in Threads : t >= ci \/ (t = src /\ SKIP \in flags) =>
              t \notin Waiting /\ t \notin Called
        /\ md.send = Cardinality(Waiting) + Cardinality(Called)
        /\ md.send + md.err + Left = InitActive
        /\ mode # "bsend" =>
              md.active = Cardinality(Waiting) + Cardinality(Decs) + Left + Failed
        /\ mode = "sync" => md.mem = "stack"
        /\ Cardinality(Waiting) \in Nat /\ Cardinality(Decs) \in Nat
        /\ Cardinality(Called) \in Nat /\ Left \in Nat
    BY <1>u, CastFacts
  <1>d. Called' = Called /\ InitActive' = InitActive /\ Left' = Left
    BY <1>u DEF Called, InitActive, Left
  <1>1. /\ md' \in MdType /\ md'.send = md.send /\ md'.err = md.err /\ md'.tpt = md.tpt
        /\ md'.done = md.done /\ cpc' \in {"spin", "ret"} /\ md'.mem \in {"stack", "gone"}
        /\ mode = "sync" => md'.active = Cardinality(Waiting) + Cardinality(Decs) + Left
        /\ cpc' = "spin" => mode = "sync" /\ md'.mem = "stack"
        /\ mode = "sync" /\ cpc' = "ret" => md'.active = 0 /\ md'.mem = "gone"
    <2>1. CASE BsendEnd
      <3>1. mode = "bsend" /\ cpc' = "ret" /\ md' = [md EXCEPT !.mem = "gone"]
        BY <2>1 DEF BsendEnd
      <3> QED
        BY <3>1, <1>t DEF MdType
    <2>2. CASE SyncEnd
      <3>1. mode = "sync" /\ cpc' = "spin" /\ md' = [md EXCEPT !.active = md.active - md.err]
            /\ cpc = "end"
        BY <2>2 DEF SyncEnd
      <3>2. Failed = md.err
        BY <3>1 DEF Failed
      <3>3. /\ md.active - md.err = Cardinality(Waiting) + Cardinality(Decs) + Left
            /\ md.active - md.err \in 0 .. ThreadsMax
        BY <1>c, <1>t, <3>1, <3>2
      <3> QED
        BY <3>1, <3>3, <1>c, <1>t DEF MdType
    <2>3. CASE Spin
      <3>1. /\ cpc = "spin" /\ cpc' = "ret" /\ md.active = 0
            /\ md' = [md EXCEPT !.mem = "gone"] /\ mode = "sync"
        BY <2>3, <1>u DEF Spin, IInv, CastInv
      <3>2. Failed = 0
        BY <3>1 DEF Failed
      <3> QED
        BY <3>1, <3>2, <1>c, <1>t DEF MdType
    <2> QED
      BY <2>1, <2>2, <2>3
  <1>2. /\ TokInv' /\ ShutInv' /\ Waiting' = Waiting /\ (DoneOut' <=> DoneOut)
        /\ Decs' = Decs /\ Lasts' = Lasts /\ Stages' = Stages
    BY <1>t, <1>u, <1>1, StillStep
  <1>3. TypeOK'
    BY <1>t, <1>u, <1>1 DEF TypeOK, MdType
  <1>4. OnceInv' /\ StartInv' /\ AtOnceInv'
    BY <1>c, <1>d, <1>u, <1>1, <1>2 DEF OnceInv, StartInv, AtOnceInv, IInv
  <1>5. CastInv'
    <2>1. Failed' = 0
      BY <1>1 DEF Failed
    <2> QED
      BY <1>c, <1>d, <1>u, <1>t, <1>1, <1>2, <2>1 DEF CastInv
  <1>6. SyncInv'
    BY <1>c, <1>u, <1>1, <1>2 DEF SyncInv, IInv
  <1>7. DoneInv' /\ OboInv' /\ AopInv'
    BY <1>u DEF DoneInv, OboInv, AopInv
  <1> QED
    BY <1>2, <1>3, <1>4, <1>5, <1>6, <1>7 DEF IInv

\* A done_cb that could not be sent was for a thread that has been stopped.
LEMMA SendDoneFacts ==
    ASSUME TypeOK, ShutInv, md.tpt = src, src \in Threads, NEW s, NEW full,
           ~Sent(Outcome(md.tpt, s, {FAIL_DIRECT, SELF_DIRECT}, full))
    PROVE  shut > 0
  <1>1. ~IsRunning(state[src])
    BY OutcomeFacts
  <1>2. state[src] # RUNNING
    BY <1>1 DEF IsRunning
  <1> QED
    BY <1>2, Sorts DEF ShutInv

\* The end of tpt_msg_cbsend().
LEMMA CbsendEndInv ==
    ASSUME IInv, CbsendEnd
    PROVE  IInv'
  <1>t. /\ TypeOK /\ TokInv /\ ShutInv /\ md \in MdType /\ n \in Nat /\ n <= ThreadsMax
        /\ ThreadsMax \in Nat /\ src \in Actors /\ md.err \in Nat /\ md.active \in Nat
        /\ md.active <= ThreadsMax /\ md.send \in Nat
    BY DataSorts, Sorts DEF IInv
  <1>u. /\ cpc = "end" /\ mode = "cb" /\ cpc' = "ret"
        /\ ret' \in {"none", "0", "EINVAL", "ESPIPE", "EHOSTDOWN", "EAGAIN"}
        /\ UNCHANGED <<n, mode, flags, src, back, state, batch, ci, shut, calls, dones, report>>
    BY DEF CbsendEnd, opVars, histVars
  <1>c. /\ md.mem # "none" /\ md.tpt = src /\ ci = n /\ ci \in 0 .. n
        /\ \A t \in Threads : t >= ci \/ (t = src /\ SKIP \in flags) =>
              t \notin Waiting /\ t \notin Called
        /\ md.send = Cardinality(Waiting) + Cardinality(Called)
        /\ md.send + md.err + Left = InitActive
        /\ md.active = Cardinality(Waiting) + Cardinality(Decs) + Left + md.err
        /\ Cardinality(Waiting) \in Nat /\ Cardinality(Decs) \in Nat
        /\ Cardinality(Called) \in Nat /\ Left \in Nat
    BY <1>u, CastFacts DEF Failed
  <1>d. Called' = Called /\ InitActive' = InitActive /\ Left' = Left /\ Failed' = 0
    BY <1>u DEF Called, InitActive, Left, Failed
  <1>j. job[src] = None /\ src # Ext /\ src \in Threads /\ n > 1
    BY <1>t, <1>u, <1>c, Sorts DEF IInv, StartInv, AtOnceInv
  <1>1. /\ md' \in MdType /\ md'.send = md.send /\ md'.err = md.err /\ md'.tpt = md.tpt
        /\ md'.done = md.done /\ md'.mem = md.mem
        /\ md'.active = Cardinality(Waiting) + Cardinality(Decs) + Left
        /\ md'.active = md.active - md.err /\ md.active >= md.err
    <2>0. /\ md.active - md.err = Cardinality(Waiting) + Cardinality(Decs) + Left
          /\ md.active - md.err \in 0 .. ThreadsMax /\ md.active >= md.err
      BY <1>c, <1>t
    <2>1. CASE md.err = 0
      <3>1. md' = md /\ md.active = md.active - md.err
        BY <2>1, <1>t DEF CbsendEnd
      <3> QED
        BY <2>0, <3>1, <1>t
    <2>2. CASE md.err # 0
      <3>1. md' = [md EXCEPT !.active = md.active - md.err]
        BY <2>2 DEF CbsendEnd
      <3> QED
        BY <2>0, <3>1, <1>t DEF MdType
    <2> QED
      BY <2>1, <2>2
  <1>2. /\ queue' \in [Threads -> Seq(Kinds)] /\ job' \in [Actors -> Jobs]
        /\ TokInv' /\ ShutInv' /\ Waiting' = Waiting
        /\ Decs' = Decs /\ Lasts' = Lasts /\ Stages' = Stages /\ DoneInv'
    <2>q. queue \in [Threads -> Seq(Kinds)] /\ job \in [Actors -> Jobs] /\ None.pc = "run"
      BY <1>t, PlaceTypes
    <2>1. CASE md.err = 0
      <3>1. UNCHANGED <<md, queue, job>>
        BY <2>1 DEF CbsendEnd
      <3>2. /\ TokInv' /\ ShutInv' /\ Waiting' = Waiting /\ (DoneOut' <=> DoneOut)
            /\ Decs' = Decs /\ Lasts' = Lasts /\ Stages' = Stages
        BY <1>t, <1>u, <3>1, StillStep
      <3>3. DoneInv'
        BY <1>u, <3>1, <3>2 DEF DoneInv, IInv
      <3> QED
        BY <2>q, <3>1, <3>2, <3>3
    <2>2. CASE md.err # 0
      <3>a. md.active > 0
        BY <2>2, <1>1, <1>t
      <3>0. /\ md.mem = "heap" /\ ~DoneOut /\ Lasts = {} /\ md.done = TRUE /\ dones = 0
        BY <3>a, <1>c, <1>u DEF IInv, DoneInv
      <3>1. CASE md.active = md.err
        <4>1. PICK full \in Fulls : SendDone(src, src, full)
          BY <2>2, <3>1 DEF CbsendEnd
        <4> DEFINE out == Outcome(md.tpt, src, {FAIL_DIRECT, SELF_DIRECT}, full)
        <4>2. /\ Deliver(out, src, md.tpt, "done")
              /\ out = "queued" => IsRunning(state[md.tpt])
              /\ ~Sent(out) => shut > 0
          BY <4>1, <1>t, <1>c, <1>j, OutcomeFacts, SendDoneFacts DEF SendDone
        <4> HIDE DEF out
        <4>3. Main # "done" /\ src \notin Decs /\ src \notin Lasts /\ src \notin Stages
          BY <1>j, <1>t, <2>q, PlaceTypes DEF Decs, Lasts, Stages, At
        <4>4. /\ queue' \in [Threads -> Seq(Kinds)] /\ job' \in [Actors -> Jobs]
              /\ TokInv' /\ ShutInv'
              /\ Waiting' = IF Sent(out) /\ "done" = Main THEN Waiting \cup {md.tpt} ELSE Waiting
              /\ DoneOut' <=> (DoneOut \/ (Sent(out) /\ "done" = "done"))
              /\ Decs' = Decs \ {src} /\ Lasts' = Lasts \ {src} /\ Stages' = Stages \ {src}
          BY <1>t, <1>u, <1>c, <1>j, <1>1, <3>0, <4>2, <4>3, SendStep
        <4>5. Waiting' = Waiting /\ Decs' = Decs /\ Lasts' = Lasts /\ Stages' = Stages
              /\ (DoneOut' <=> Sent(out))
          BY <3>0, <4>3, <4>4
        <4>6. md'.active = 0
          BY <3>1, <1>t, <1>1
        <4>7. DoneInv'
          BY <1>u, <1>1, <3>0, <4>2, <4>5, <4>6 DEF DoneInv
        <4> QED
          BY <4>4, <4>5, <4>7
      <3>2. CASE md.active # md.err
        <4>1. UNCHANGED <<queue, job>>
          BY <2>2, <3>2 DEF CbsendEnd
        <4>2. /\ TokInv' /\ ShutInv' /\ Waiting' = Waiting /\ (DoneOut' <=> DoneOut)
              /\ Decs' = Decs /\ Lasts' = Lasts /\ Stages' = Stages
          BY <1>t, <1>u, <1>1, <4>1, StillStep
        <4>3. md'.active > 0
          BY <3>2, <1>t, <1>1
        <4>4. DoneInv'
          BY <1>u, <1>1, <3>0, <4>2, <4>3 DEF DoneInv
        <4> QED
          BY <2>q, <4>1, <4>2, <4>4
      <3> QED
        BY <3>1, <3>2
    <2> QED
      BY <2>1, <2>2
  <1>3. TypeOK'
    BY <1>t, <1>u, <1>1, <1>2 DEF TypeOK, MdType
  <1>4. OnceInv' /\ StartInv' /\ AtOnceInv'
    BY <1>c, <1>d, <1>u, <1>1, <1>2, <1>j DEF OnceInv, StartInv, AtOnceInv, IInv
  <1>5. CastInv'
    BY <1>c, <1>d, <1>u, <1>t, <1>1, <1>2 DEF CastInv
  <1>6. SyncInv' /\ OboInv' /\ AopInv'
    BY <1>u DEF SyncInv, OboInv, AopInv
  <1> QED
    BY <1>2, <1>3, <1>4, <1>5, <1>6 DEF IInv

-----------------------------------------------------------------------------
(* The callbacks of a broadcast.                                           *)

\* The callback of the application runs for a thread that waits for it.
LEMMA CalledStep ==
    ASSUME IInv, NEW t \in Waiting, calls' = [calls EXCEPT ![t] = @ + 1]
    PROVE  /\ calls' \in [Threads -> Nat] /\ \A u \in Threads : calls'[u] <= 1
           /\ Called' = Called \cup {t} /\ t \notin Called /\ t \in Threads
           /\ Cardinality(Called') = Cardinality(Called) + 1
           /\ (Waiting \ {t}) \cap Called' = {}
           /\ Cardinality(Waiting \ {t}) = Cardinality(Waiting) - 1 /\ Cardinality(Waiting) >= 1
           /\ Cardinality(Waiting) \in Nat /\ Cardinality(Called) \in Nat
           /\ Cardinality(Decs) \in Nat
  <1>1. /\ TypeOK /\ calls \in [Threads -> Nat] /\ t \in Threads /\ t \notin Called
        /\ Waiting \cap Called = {} /\ IsFiniteSet(Waiting) /\ IsFiniteSet(Called)
        /\ Cardinality(Waiting) \in Nat /\ Cardinality(Called) \in Nat
        /\ Cardinality(Decs) \in Nat
    BY Sizes DEF IInv, TypeOK, OnceInv
  <1>2. calls[t] = 0
    BY <1>1 DEF Called
  <1>3. /\ calls' \in [Threads -> Nat] /\ calls'[t] = 1
        /\ \A u \in Threads : u # t => calls'[u] = calls[u]
    BY <1>1, <1>2
  <1>4. \A u \in Threads : calls'[u] <= 1
    BY <1>3 DEF IInv, OnceInv
  <1>5. Called' = Called \cup {t}
    BY <1>1, <1>3 DEF Called
  <1>6. /\ Cardinality(Called \cup {t}) = Cardinality(Called) + 1
        /\ Cardinality(Waiting \ {t}) = Cardinality(Waiting) - 1 /\ Cardinality(Waiting) >= 1
    BY <1>1, OneMore
  <1> QED
    BY <1>1, <1>3, <1>4, <1>5, <1>6

\* The actor in a callback is not the caller in the middle of its own steps.
LEMMA NotTheCaller ==
    ASSUME IInv, NEW a \in Actors, job[a].k \in Kinds,
           \A b \in Actors : b # a => job'[b] = job[b]
    PROVE  cpc \in {"start", "next", "end", "again"} => job'[src] = None
  <1>1. job[a] # None /\ src \in Actors
    BY JobFacts, Sorts DEF IInv
  <1> QED
    BY <1>1 DEF IInv, StartInv

LEMMA RunCallbackInv ==
    ASSUME IInv, NEW a \in Actors, RunCallback(a)
    PROVE  IInv'
  <1>t. TypeOK /\ TokInv /\ ShutInv /\ md \in MdType
    BY DataSorts DEF IInv
  <1> DEFINE t == job[a].t
  <1>u. /\ job[a].k = "cb" /\ Calls1(a) /\ job' = [job EXCEPT ![a] = None]
        /\ UNCHANGED <<n, mode, flags, src, back, state, queue, batch, cpc, ci, md, shut,
                       dones, report, ret>>
    BY DEF RunCallback, opVars
  <1>j. mode = "bsend" /\ ~Past(a) /\ Main = "cb" /\ "cb" \in Kinds /\ None \in Jobs
        /\ None.pc = "run"
    BY <1>t, <1>u, JobFacts, PlaceTypes DEF Kinds
  <1>1. /\ job' \in [Actors -> Jobs] /\ TokInv' /\ ShutInv'
        /\ \A b \in Actors : b # a => job'[b] = job[b]
        /\ Decs' = Decs /\ Lasts' = Lasts /\ Stages' = Stages /\ (DoneOut' <=> DoneOut)
        /\ t \in Waiting /\ Waiting' = Waiting \ {t}
    BY <1>t, <1>u, <1>j, CallStep
  <1>2. /\ calls' \in [Threads -> Nat] /\ \A u \in Threads : calls'[u] <= 1
        /\ Called' = Called \cup {t} /\ Waiting' \cap Called' = {}
        /\ Cardinality(Waiting') + Cardinality(Called') = Cardinality(Waiting) + Cardinality(Called)
    <2>1. calls' = [calls EXCEPT ![t] = @ + 1]
      BY <1>u DEF Calls1
    <2> HIDE DEF t
    <2>2. /\ calls' \in [Threads -> Nat] /\ \A u \in Threads : calls'[u] <= 1
          /\ Called' = Called \cup {t}
          /\ Cardinality(Called') = Cardinality(Called) + 1
          /\ (Waiting \ {t}) \cap Called' = {}
          /\ Cardinality(Waiting \ {t}) = Cardinality(Waiting) - 1
          /\ Cardinality(Waiting) \in Nat /\ Cardinality(Called) \in Nat
      BY <2>1, <1>1, CalledStep
    <2> QED
      BY <1>1, <2>2
  <1>3. TypeOK'
    BY <1>t, <1>u, <1>1, <1>2 DEF TypeOK
  <1>4. OnceInv'
    BY <1>2 DEF OnceInv
  <1>5. StartInv'
    <2>1. cpc \in {"start", "next", "end", "again"} => job'[src] = None
      BY <1>u, <1>j, <1>1, NotTheCaller
    <2>2. cpc # "start"
      BY <1>1 DEF IInv, StartInv, NothingOut
    <2> QED
      BY <1>u, <2>1, <2>2 DEF IInv, StartInv
  <1>6. AtOnceInv' /\ SyncInv'
    BY <1>u, <1>j, <1>1 DEF IInv, AtOnceInv, SyncInv
  <1>7. CastInv'
    <2>1. Left' = Left /\ InitActive' = InitActive
      BY <1>u DEF Left, InitActive
    <2> QED
      BY <1>u, <1>j, <1>1, <1>2, <2>1 DEF IInv, CastInv
  <1>8. DoneInv' /\ OboInv' /\ AopInv'
    BY <1>u, <1>j DEF DoneInv, OboInv, AopInv
  <1> QED
    BY <1>1, <1>3, <1>4, <1>5, <1>6, <1>7, <1>8 DEF IInv

\* What a broadcast of tpt_msg_sync_proxy_cb() looks like while proxies run.
LEMMA ProxyFacts ==
    ASSUME IInv, mode \in {"sync", "cb"}, Waiting # {} \/ Decs # {} \/ Lasts # {} \/ DoneOut
    PROVE  /\ md.mem # "none" /\ cpc # "start" /\ md.tpt = src
           /\ md.send = Cardinality(Waiting) + Cardinality(Called)
           /\ md.active = Cardinality(Waiting) + Cardinality(Decs) + Left + Failed
           /\ Left \in Nat /\ Failed \in Nat /\ Left + Failed \in Nat
           /\ Cardinality(Waiting) \in Nat /\ Cardinality(Decs) \in Nat
           /\ Waiting # {} \/ Decs # {} => md.active > 0
  <1>t. TypeOK /\ mode \in AllModes
    BY Sorts DEF IInv
  <1>1. md.mem # "none" /\ cpc # "start"
    BY Live
  <1>2. /\ md.tpt = src /\ md.send = Cardinality(Waiting) + Cardinality(Called)
        /\ md.active = Cardinality(Waiting) + Cardinality(Decs) + Left + Failed
        /\ ci \in 0 .. n
    BY <1>1 DEF IInv, CastInv
  <1>3. Left \in Nat
    <2>1. n \in Nat /\ src \in Nat /\ ci \in Nat /\ ci <= n
      BY <1>t, <1>2, Sorts
    <2> QED
      BY <2>1 DEF Left
  <1>4. Failed \in Nat
    BY <1>t, DataSorts DEF Failed
  <1>5. /\ Cardinality(Waiting) \in Nat /\ Cardinality(Decs) \in Nat
        /\ Waiting # {} => Cardinality(Waiting) > 0
        /\ Decs # {} => Cardinality(Decs) > 0
    <2>1. /\ IsFiniteSet(Waiting) /\ IsFiniteSet(Decs)
          /\ Cardinality(Waiting) \in Nat /\ Cardinality(Decs) \in Nat
      BY <1>t, Sizes
    <2>2. (Waiting # {} => Cardinality(Waiting) # 0) /\ (Decs # {} => Cardinality(Decs) # 0)
      BY <2>1, FS_EmptySet
    <2> QED
      BY <2>1, <2>2
  <1>6. Left + Failed \in Nat
    BY <1>3, <1>4
  <1>7. ASSUME Waiting # {} \/ Decs # {} PROVE md.active > 0
    BY <1>2, <1>3, <1>4, <1>5, <1>7
  <1> QED
    BY <1>1, <1>2, <1>3, <1>4, <1>5, <1>6, <1>7

LEMMA SyncProxyInv ==
    ASSUME IInv, NEW a \in Actors, SyncProxy(a)
    PROVE  IInv'
  <1>t. TypeOK /\ TokInv /\ ShutInv /\ md \in MdType
    BY DataSorts DEF IInv
  <1> DEFINE t == job[a].t
             x == [job[a] EXCEPT !.pc = "dec"]
  <1>u. /\ job[a].k = "sync" /\ job[a].pc = "run" /\ Calls1(a) /\ job' = [job EXCEPT ![a] = x]
        /\ UNCHANGED <<n, mode, flags, src, back, state, queue, batch, cpc, ci, md, shut,
                       dones, report, ret>>
    BY DEF SyncProxy, opVars
  <1>j. mode \in {"sync", "cb"} /\ ~Past(a) /\ Main = "sync" /\ "sync" \in Kinds
        /\ job[a] \in Jobs
    BY <1>u, JobFacts DEF Kinds, Past
  <1>x. x \in Jobs /\ x.pc = "dec" /\ x.k = "sync"
    BY <1>u, <1>j DEF Jobs
  <1>1. /\ job' \in [Actors -> Jobs] /\ TokInv' /\ ShutInv'
        /\ \A b \in Actors : b # a => job'[b] = job[b]
        /\ Decs' = Decs \cup {a} /\ a \notin Decs /\ Lasts' = Lasts /\ Stages' = Stages
        /\ (DoneOut' <=> DoneOut) /\ t \in Waiting /\ Waiting' = Waiting \ {t}
    <2> HIDE DEF x
    <2> QED
      BY <1>t, <1>u, <1>j, <1>x, CallStep
  <1>2. /\ calls' \in [Threads -> Nat] /\ \A u \in Threads : calls'[u] <= 1
        /\ Called' = Called \cup {t} /\ Waiting' \cap Called' = {}
        /\ Cardinality(Waiting') + Cardinality(Called') = Cardinality(Waiting) + Cardinality(Called)
        /\ Cardinality(Waiting') + Cardinality(Decs') = Cardinality(Waiting) + Cardinality(Decs)
    <2>1. calls' = [calls EXCEPT ![t] = @ + 1]
      BY <1>u DEF Calls1
    <2> HIDE DEF t
    <2>2. /\ calls' \in [Threads -> Nat] /\ \A u \in Threads : calls'[u] <= 1
          /\ Called' = Called \cup {t}
          /\ Cardinality(Called') = Cardinality(Called) + 1
          /\ (Waiting \ {t}) \cap Called' = {}
          /\ Cardinality(Waiting \ {t}) = Cardinality(Waiting) - 1
          /\ Cardinality(Waiting) \in Nat /\ Cardinality(Called) \in Nat
          /\ Cardinality(Decs) \in Nat
      BY <2>1, <1>1, CalledStep
    <2>3. Cardinality(Decs') = Cardinality(Decs) + 1
      BY <1>t, <1>1, Sizes, OneMore
    <2> QED
      BY <1>1, <2>2, <2>3
  <1>3. TypeOK'
    BY <1>t, <1>u, <1>1, <1>2 DEF TypeOK
  <1>4. OnceInv'
    BY <1>2 DEF OnceInv
  <1>l. md.mem # "none" /\ cpc # "start" /\ md.active > 0
    BY <1>1, <1>j, ProxyFacts
  <1>5. StartInv'
    <2>1. cpc \in {"start", "next", "end", "again"} => job'[src] = None
      BY <1>u, <1>j, <1>1, NotTheCaller
    <2> QED
      BY <1>u, <1>l, <2>1 DEF IInv, StartInv
  <1>6. AtOnceInv' /\ SyncInv'
    BY <1>u, <1>j, <1>l, <1>1 DEF IInv, AtOnceInv, SyncInv
  <1>7. CastInv'
    <2>1. Left' = Left /\ InitActive' = InitActive /\ Failed' = Failed
      BY <1>u DEF Left, InitActive, Failed
    <2>2. md.active = Cardinality(Waiting') + Cardinality(Decs') + Left + Failed
      BY <1>1, <1>2, <1>j, ProxyFacts
    <2> QED
      BY <1>u, <1>j, <1>l, <1>1, <1>2, <2>1, <2>2 DEF IInv, CastInv
  <1>8. DoneInv'
    BY <1>u, <1>l, <1>1 DEF IInv, DoneInv
  <1>9. OboInv' /\ AopInv'
    BY <1>u, <1>j DEF OboInv, AopInv
  <1> QED
    BY <1>1, <1>3, <1>4, <1>5, <1>6, <1>7, <1>8, <1>9 DEF IInv

LEMMA SyncDecInv ==
    ASSUME IInv, NEW a \in Actors, SyncDec(a)
    PROVE  IInv'
  <1>t. TypeOK /\ TokInv /\ ShutInv /\ md \in MdType /\ md.active \in Nat /\ md.active <= ThreadsMax
        /\ ThreadsMax \in Nat
    BY DataSorts, Sorts DEF IInv
  <1> DEFINE x == IF md.active = 1 THEN [job[a] EXCEPT !.pc = "last"] ELSE None
  <1>u. /\ job[a].k = "sync" /\ job[a].pc = "dec" /\ job' = [job EXCEPT ![a] = x]
        /\ md' = [md EXCEPT !.active = md.active - 1]
        /\ UNCHANGED <<n, mode, flags, src, back, state, queue, batch, cpc, ci, shut,
                       calls, dones, report, ret>>
    BY DEF SyncDec, opVars, histVars
  <1>j. mode \in {"sync", "cb"} /\ Past(a) /\ Main = "sync" /\ "sync" \in Kinds
        /\ job[a] \in Jobs /\ None \in Jobs /\ None.pc = "run"
    BY <1>t, <1>u, JobFacts, PlaceTypes DEF Kinds, Past
  <1>x. /\ x \in Jobs
        /\ md.active = 1 => x.pc = "last" /\ x.k = "sync"
        /\ md.active # 1 => x = None
    BY <1>u, <1>j DEF Jobs
  <1>d. a \in Decs /\ a \notin Stages /\ a \notin Lasts
    BY <1>u DEF Decs, Stages, Lasts, At
  <1>l. /\ md.mem # "none" /\ cpc # "start" /\ md.active > 0
        /\ md.active = Cardinality(Waiting) + Cardinality(Decs) + Left + Failed
        /\ Left + Failed \in Nat /\ Left \in Nat /\ Failed \in Nat
        /\ Cardinality(Waiting) \in Nat /\ Cardinality(Decs) \in Nat
    BY <1>d, <1>j, ProxyFacts
  <1>m. /\ md' \in MdType /\ md'.active = md.active - 1 /\ md'.send = md.send /\ md'.err = md.err
        /\ md'.tpt = md.tpt /\ md'.done = md.done /\ md'.mem = md.mem
    <2>1. md.active - 1 \in 0 .. ThreadsMax
      BY <1>l, <1>t
    <2> QED
      BY <1>u, <1>t, <2>1 DEF MdType
  <1>1. /\ job' \in [Actors -> Jobs] /\ TokInv' /\ ShutInv'
        /\ \A b \in Actors : b # a => job'[b] = job[b]
        /\ Waiting' = Waiting /\ (DoneOut' <=> DoneOut)
        /\ Decs' = Decs \ {a} /\ Stages' = Stages
        /\ Lasts' = IF md.active = 1 THEN Lasts \cup {a} ELSE Lasts
    <2> HIDE DEF x
    <2>1. /\ job' \in [Actors -> Jobs] /\ TokInv' /\ ShutInv'
          /\ \A b \in Actors : b # a => job'[b] = job[b]
          /\ Waiting' = Waiting /\ (DoneOut' <=> DoneOut)
          /\ Decs' = IF x.pc = "dec" THEN Decs \cup {a} ELSE Decs \ {a}
          /\ Lasts' = IF x.pc = "last" THEN Lasts \cup {a} ELSE Lasts \ {a}
          /\ Stages' = IF x.pc \in {"next", "self", "fin"} THEN Stages \cup {a}
                       ELSE Stages \ {a}
      BY <1>t, <1>u, <1>j, <1>x, <1>m, MoveStep
    <2>2. x.pc = IF md.active = 1 THEN "last" ELSE "run"
      BY <1>x, <1>j
    <2> QED
      BY <2>1, <2>2, <1>d
  <1>2. /\ Called' = Called /\ Left' = Left /\ InitActive' = InitActive /\ Failed' = Failed
    BY <1>u, <1>m DEF Left, InitActive, Failed, Called
  <1>3. TypeOK'
    BY <1>t, <1>u, <1>1, <1>m DEF TypeOK, MdType
  <1>4. OnceInv'
    BY <1>1, <1>2, <1>u DEF OnceInv, IInv
  <1>5. StartInv'
    <2>1. cpc \in {"start", "next", "end", "again"} => job'[src] = None
      BY <1>u, <1>j, <1>1, NotTheCaller
    <2> QED
      BY <1>u, <1>l, <2>1 DEF IInv, StartInv
  <1>6. AtOnceInv' /\ SyncInv'
    BY <1>u, <1>j, <1>l, <1>m, <1>1 DEF IInv, AtOnceInv, SyncInv
  <1>7. CastInv'
    <2>1. Cardinality(Decs') = Cardinality(Decs) - 1
      BY <1>t, <1>1, <1>d, Sizes, OneMore
    <2>2. md'.active = Cardinality(Waiting) + Cardinality(Decs') + Left + Failed
      BY <1>l, <1>m, <2>1
    <2> QED
      BY <1>u, <1>j, <1>l, <1>m, <1>1, <1>2, <2>2 DEF IInv, CastInv
  <1>8. DoneInv'
    <2> SUFFICES ASSUME mode = "cb" PROVE DoneInv'
      BY <1>u DEF DoneInv
    <2>1. /\ md.mem = "heap" /\ md.done = TRUE /\ Lasts = {} /\ ~DoneOut /\ dones = 0
      BY <1>l DEF IInv, DoneInv
    <2>2. CASE md.active = 1
      <3>1. md'.active = 0 /\ Lasts' = {a}
        BY <2>1, <2>2, <1>1, <1>m
      <3> QED
        BY <1>u, <1>1, <1>m, <2>1, <3>1 DEF DoneInv
    <2>3. CASE md.active # 1
      <3>1. md'.active > 0 /\ Lasts' = {}
        BY <2>1, <2>3, <1>1, <1>m, <1>t, <1>l
      <3> QED
        BY <1>u, <1>1, <1>m, <2>1, <3>1 DEF DoneInv
    <2> QED
      BY <2>2, <2>3
  <1>9. OboInv' /\ AopInv'
    BY <1>u, <1>j DEF OboInv, AopInv
  <1> QED
    BY <1>1, <1>3, <1>4, <1>5, <1>6, <1>7, <1>8, <1>9 DEF IInv

LEMMA SyncLastInv ==
    ASSUME IInv, NEW a \in Actors, SyncLast(a)
    PROVE  IInv'
  <1>t. TypeOK /\ TokInv /\ ShutInv /\ md \in MdType
    BY DataSorts DEF IInv
  <1>u. /\ job[a].k = "sync" /\ job[a].pc = "last"
        /\ UNCHANGED <<n, mode, flags, src, back, state, batch, cpc, ci, md, shut,
                       calls, dones, report, ret>>
    BY DEF SyncLast, opVars, histVars
  <1>j. mode \in {"sync", "cb"} /\ Past(a) /\ Main = "sync" /\ "sync" \in Kinds
        /\ None \in Jobs /\ None.pc = "run"
    BY <1>t, <1>u, JobFacts, PlaceTypes DEF Kinds, Past
  <1>d. a \in Lasts /\ a \notin Stages /\ a \notin Decs
    BY <1>u DEF Decs, Stages, Lasts, At
  <1>l. md.mem # "none" /\ cpc # "start" /\ md.tpt = src
    BY <1>d, <1>j, ProxyFacts
  <1>1. /\ queue' \in [Threads -> Seq(Kinds)] /\ job' \in [Actors -> Jobs] /\ TokInv' /\ ShutInv'
        /\ \A b \in Actors : b # a => job'[b] = job[b]
        /\ Waiting' = Waiting /\ Decs' = Decs /\ Stages' = Stages
        /\ mode = "sync" => (DoneOut' <=> DoneOut)
        /\ DoneInv'
    <2>1. CASE mode = "sync"
      <3>1. job' = [job EXCEPT ![a] = None] /\ queue' = queue
        BY <2>1 DEF SyncLast, IInv, SyncInv
      <3>2. /\ job' \in [Actors -> Jobs] /\ TokInv' /\ ShutInv'
            /\ \A b \in Actors : b # a => job'[b] = job[b]
            /\ Waiting' = Waiting /\ (DoneOut' <=> DoneOut)
            /\ Decs' = Decs \ {a} /\ Stages' = Stages \ {a}
        BY <1>t, <1>u, <1>j, <3>1, MoveStep
      <3> QED
        BY <2>1, <3>1, <3>2, <1>d, <1>t, <1>u, PlaceTypes DEF DoneInv
    <2>2. CASE mode = "cb"
      <3>0. /\ md.mem = "heap" /\ md.done = TRUE /\ Lasts = {a} /\ ~DoneOut /\ dones = 0
        BY <1>l, <1>d, <2>2 DEF IInv, DoneInv
      <3>a. md.active = 0
        <4>1. ~(md.active > 0) /\ md.active \in Nat
          BY <1>l, <1>d, <1>t, <2>2, DataSorts DEF IInv, DoneInv
        <4> QED
          BY <4>1
      <3>j. src # Ext /\ src \in Threads
        BY <1>t, <1>l, <2>2, Sorts DEF IInv, AtOnceInv
      <3>1. PICK full \in Fulls : SendDone(a, job[a].t, full)
        BY <3>0 DEF SyncLast
      <3> DEFINE out == Outcome(md.tpt, job[a].t, {FAIL_DIRECT, SELF_DIRECT}, full)
      <3>2. /\ Deliver(out, a, md.tpt, "done")
            /\ out = "queued" => IsRunning(state[md.tpt])
            /\ ~Sent(out) => shut > 0
        BY <3>1, <1>t, <1>l, <3>j, OutcomeFacts, SendDoneFacts DEF SendDone
      <3> HIDE DEF out
      <3>4. /\ queue' \in [Threads -> Seq(Kinds)] /\ job' \in [Actors -> Jobs]
            /\ TokInv' /\ ShutInv'
            /\ Waiting' = IF Sent(out) /\ "done" = Main THEN Waiting \cup {md.tpt} ELSE Waiting
            /\ DoneOut' <=> (DoneOut \/ (Sent(out) /\ "done" = "done"))
            /\ Decs' = Decs \ {a} /\ Lasts' = Lasts \ {a} /\ Stages' = Stages \ {a}
            /\ \A b \in Actors : b # a => job'[b] = job[b]
        BY <1>t, <1>u, <1>j, <1>l, <2>2, <3>0, <3>j, <3>2, SendStep
      <3>5. Waiting' = Waiting /\ Decs' = Decs /\ Lasts' = {} /\ Stages' = Stages
            /\ (DoneOut' <=> Sent(out))
        BY <3>0, <3>4, <1>d, <1>j
      <3>6. DoneInv'
        BY <1>u, <3>0, <3>a, <3>2, <3>5 DEF DoneInv
      <3> QED
        BY <2>2, <3>4, <3>5, <3>6
    <2> QED
      BY <1>j, <2>1, <2>2
  <1>2. /\ Called' = Called /\ Left' = Left /\ InitActive' = InitActive /\ Failed' = Failed
    BY <1>u DEF Left, InitActive, Failed, Called
  <1>3. TypeOK'
    BY <1>t, <1>u, <1>1 DEF TypeOK
  <1>4. OnceInv'
    BY <1>1, <1>2, <1>u DEF OnceInv, IInv
  <1>5. StartInv'
    <2>1. cpc \in {"start", "next", "end", "again"} => job'[src] = None
      BY <1>u, <1>j, <1>1, NotTheCaller
    <2> QED
      BY <1>u, <1>l, <2>1 DEF IInv, StartInv
  <1>6. AtOnceInv' /\ SyncInv'
    BY <1>u, <1>j, <1>l, <1>1 DEF IInv, AtOnceInv, SyncInv
  <1>7. CastInv'
    BY <1>u, <1>j, <1>l, <1>1, <1>2 DEF IInv, CastInv
  <1>9. OboInv' /\ AopInv'
    BY <1>u, <1>j DEF OboInv, AopInv
  <1> QED
    BY <1>1, <1>3, <1>4, <1>5, <1>6, <1>7, <1>9 DEF IInv

\* tpt_msg_cb_done_proxy_cb() runs for a broadcast that is over.
LEMMA DoneProxyInv ==
    ASSUME IInv, NEW a \in Actors, DoneProxy(a)
    PROVE  IInv'
  <1>t. TypeOK /\ TokInv /\ ShutInv /\ md \in MdType /\ dones \in Nat /\ md.send \in Nat
        /\ md.err \in Nat
    BY DataSorts, Sorts DEF IInv
  <1>u. /\ job[a].k = "done" /\ job' = [job EXCEPT ![a] = None]
        /\ dones' = dones + 1 /\ report' = [send |-> md.send, err |-> md.err]
        /\ md' = [md EXCEPT !.mem = "gone"]
        /\ UNCHANGED <<n, mode, flags, src, back, state, queue, batch, cpc, ci, shut, calls, ret>>
    BY DEF DoneProxy, opVars
  <1>j. ~Past(a) /\ "done" \in Kinds /\ None \in Jobs /\ None.pc = "run" /\ Main # "done"
    BY <1>t, <1>u, JobFacts, PlaceTypes DEF Kinds
  <1>m. /\ md' \in MdType /\ md'.mem = "gone" /\ md'.active = md.active /\ md'.send = md.send
        /\ md'.err = md.err /\ md'.tpt = md.tpt /\ md'.done = md.done /\ md'.idx = md.idx
    BY <1>u, <1>t DEF MdType
  <1>1. /\ job' \in [Actors -> Jobs] /\ TokInv' /\ ShutInv'
        /\ \A b \in Actors : b # a => job'[b] = job[b]
        /\ Decs' = Decs /\ Lasts' = Lasts /\ Stages' = Stages
        /\ Waiting' = Waiting /\ DoneOut /\ ~DoneOut' /\ mode \in {"cb", "obo"}
    BY <1>t, <1>u, <1>j, <1>m, CallStep
  <1>l. md.mem # "none" /\ cpc # "start"
    BY <1>1, Live
  <1>2. /\ Called' = Called /\ Left' = Left /\ InitActive' = InitActive /\ Failed' = Failed
        /\ Tries' = Tries /\ Targets' = Targets /\ (SelfDirect' <=> SelfDirect)
    BY <1>u, <1>m DEF Left, InitActive, Failed, Called, Tries, Targets, SelfDirect
  <1>0. dones = 0 /\ dones' = 1
    <2>1. dones = 0
      BY <1>1, <1>l DEF IInv, DoneInv, OboInv
    <2> QED
      BY <2>1, <1>u
  <1>3. TypeOK'
    <2>1. report' \in [send : Nat, err : Nat] /\ dones' \in Nat
      BY <1>u, <1>t, <1>0
    <2> QED
      BY <1>t, <1>u, <1>1, <1>m, <2>1 DEF TypeOK, MdType
  <1>4. OnceInv'
    BY <1>1, <1>2, <1>u DEF OnceInv, IInv
  <1>5. StartInv'
    <2>1. cpc \in {"start", "next", "end", "again"} => job'[src] = None
      BY <1>u, <1>j, <1>1, NotTheCaller
    <2> QED
      BY <1>u, <1>l, <2>1 DEF IInv, StartInv
  <1>6. AtOnceInv' /\ SyncInv'
    BY <1>u, <1>l, <1>m, <1>1 DEF IInv, AtOnceInv, SyncInv
  <1>7. CastInv'
    BY <1>u, <1>l, <1>m, <1>1, <1>2 DEF IInv, CastInv
  <1>8. DoneInv'
    <2> SUFFICES ASSUME mode = "cb" PROVE DoneInv'
      BY <1>u DEF DoneInv
    <2>1. ~(md.active > 0) /\ Lasts = {} /\ md.done = TRUE
      BY <1>l, <1>1 DEF IInv, DoneInv
    <2> QED
      BY <1>u, <1>m, <1>1, <1>0, <2>1 DEF DoneInv
  <1>9. OboInv'
    <2> SUFFICES ASSUME mode = "obo" PROVE OboInv'
      BY <1>u DEF OboInv
    <2>1. Waiting = {} /\ Stages = {} /\ Tries = Targets /\ cpc # "next"
      BY <1>l, <1>1 DEF IInv, OboInv, NoTurn
    <2>2. NoTurn'
      BY <1>1, <2>1 DEF NoTurn
    <2> QED
      BY <1>u, <1>l, <1>m, <1>1, <1>2, <1>0, <2>1, <2>2 DEF IInv, OboInv
  <1>10. AopInv'
    BY <1>u, <1>1 DEF AopInv
  <1> QED
    BY <1>1, <1>3, <1>4, <1>5, <1>6, <1>7, <1>8, <1>9, <1>10 DEF IInv

-----------------------------------------------------------------------------
(* The asynchronous operation.                                             *)

LEMMA AsyncOpInv ==
    ASSUME IInv, AsyncOp
    PROVE  IInv'
  <1>t. /\ TypeOK /\ TokInv /\ ShutInv /\ md \in MdType /\ n \in Nat /\ n <= ThreadsMax
        /\ ThreadsMax \in Nat /\ src \in Actors /\ Threads = 0 .. ThreadsMax - 1
        /\ Actors = 0 .. ThreadsMax
    BY DataSorts, Sorts DEF IInv
  <1>s. /\ job[src] = None /\ Waiting = {} /\ ~DoneOut /\ Decs = {} /\ Lasts = {} /\ Stages = {}
        /\ Called = {} /\ dones = 0 /\ ci = 0 /\ ret = "none" /\ mode = "aop"
    BY StartFacts DEF AsyncOp
  <1>u. UNCHANGED <<n, mode, flags, src, back, state, batch, ci, shut, calls, dones, report>>
    BY DEF AsyncOp, opVars, histVars
  <1>1. PICK dst \in 0 .. n - 1, full \in Fulls :
           LET out == Outcome(dst, src, flags, full)
           IN  /\ md' = [md EXCEPT !.mem = "heap", !.tpt = dst]
               /\ Deliver(out, src, dst, "aop")
               /\ IF AsyncOpRetry(out)
                  THEN cpc' = "again" /\ ret' = ret
                  ELSE cpc' = "ret" /\ ret' = IF Sent(out) THEN "0" ELSE out
    BY DEF AsyncOp
  <1> DEFINE out == Outcome(dst, src, flags, full)
  <1>d. dst \in Threads /\ dst \in Actors /\ dst < n
    BY <1>t
  <1>2. /\ md' = [md EXCEPT !.mem = "heap", !.tpt = dst] /\ Deliver(out, src, dst, "aop")
        /\ out \in {"direct", "queued", "EHOSTDOWN", "EAGAIN"}
        /\ out = "queued" => IsRunning(state[dst])
    BY <1>1, OutcomeFacts
  <1>3. \/ cpc' = "again" /\ ret' = "none" /\ ~Sent(out)
        \/ cpc' = "ret" /\ ret' = "0" /\ Sent(out)
        \/ cpc' = "ret" /\ ret' = out /\ ~Sent(out)
    BY <1>1, <1>s DEF AsyncOpRetry
  <1> HIDE DEF out
  <1>m. md' \in MdType /\ md'.mem = "heap" /\ md'.tpt = dst
    BY <1>t, <1>d, <1>2 DEF MdType
  <1>4. Main = "aop" /\ Main # "done" /\ None.pc = "run"
    BY <1>s, <1>t, PlaceTypes DEF Main
  <1>5. /\ queue' \in [Threads -> Seq(Kinds)] /\ job' \in [Actors -> Jobs] /\ TokInv' /\ ShutInv'
        /\ Waiting' = (IF Sent(out) THEN {dst} ELSE {}) /\ ~DoneOut'
        /\ Decs' = {} /\ Lasts' = {} /\ Stages' = {} /\ (out # "direct" => job'[src] = None)
    <2>1. /\ queue' \in [Threads -> Seq(Kinds)] /\ job' \in [Actors -> Jobs]
          /\ TokInv' /\ ShutInv'
          /\ Waiting' = IF Sent(out) /\ Main = Main THEN Waiting \cup {dst} ELSE Waiting
          /\ DoneOut' <=> (DoneOut \/ (Sent(out) /\ Main = "done"))
          /\ Decs' = Decs \ {src} /\ Lasts' = Lasts \ {src} /\ Stages' = Stages \ {src}
          /\ out # "direct" => job'[src] = None
      <3>1. Deliver(out, src, dst, Main) /\ dst \notin Waiting
        BY <1>2, <1>4, <1>s
      <3> QED
        BY <1>t, <1>s, <1>u, <1>d, <1>2, <1>4, <3>1, SendStep
    <2> QED
      BY <2>1, <1>4, <1>s
  <1>6. Called' = {}
    BY <1>s, <1>u DEF Called
  <1>7. /\ cpc' \in {"again", "ret"} /\ ret' \in {"none", "0", "EHOSTDOWN", "EAGAIN"}
        /\ cpc' = "again" => ret' = "none" /\ Waiting' = {} /\ job'[src] = None
        /\ cpc' = "ret" => /\ ret' # "none"
                           /\ ret' = "0" => Waiting' = {dst}
                           /\ ret' # "0" => Waiting' = {}
    BY <1>2, <1>3, <1>5 DEF Sent
  <1>8. TypeOK'
    BY <1>t, <1>u, <1>m, <1>5, <1>7 DEF TypeOK, MdType
  <1>9. OnceInv' /\ StartInv' /\ AtOnceInv'
    BY <1>s, <1>u, <1>m, <1>5, <1>6, <1>7 DEF OnceInv, StartInv, AtOnceInv, IInv
  <1>10. AopInv'
    BY <1>s, <1>u, <1>m, <1>d, <1>5, <1>6, <1>7 DEF AopInv
  <1>11. CastInv' /\ SyncInv' /\ DoneInv' /\ OboInv'
    BY <1>s, <1>u DEF CastInv, SyncInv, DoneInv, OboInv
  <1> QED
    BY <1>5, <1>8, <1>9, <1>10, <1>11 DEF IInv

LEMMA AsyncOpAgainInv ==
    ASSUME IInv, AsyncOpAgain
    PROVE  IInv'
  <1>t. /\ TypeOK /\ TokInv /\ ShutInv /\ n \in Nat /\ n <= ThreadsMax /\ mode \in AllModes
        /\ ThreadsMax \in Nat /\ src \in Actors /\ Threads = 0 .. ThreadsMax - 1
        /\ md.tpt \in Actors /\ Actors = 0 .. ThreadsMax
    BY DataSorts, Sorts DEF IInv
  <1>u. /\ cpc = "again" /\ cpc' = "ret" /\ job[src] = None
        /\ UNCHANGED <<n, mode, flags, src, back, state, batch, ci, md, shut, calls, dones, report>>
    BY DEF AsyncOpAgain, CallerFree, opVars, histVars
  <1>s. /\ mode = "aop" /\ md.tpt < n /\ Waiting = {} /\ Called = {} /\ md.mem = "heap"
        /\ dones = 0 /\ ci = 0
    <2>1. mode = "aop"
      BY <1>t, <1>u DEF IInv, CastInv, OboInv, AllModes
    <2> QED
      BY <1>u, <2>1 DEF IInv, AopInv
  <1>1. PICK full \in Fulls :
           LET out == Outcome(md.tpt, src, back, full)
           IN  /\ Deliver(out, src, md.tpt, "aop")
               /\ ret' = IF Sent(out) THEN "0" ELSE out
    BY DEF AsyncOpAgain
  <1> DEFINE out == Outcome(md.tpt, src, back, full)
  <1>2. /\ Deliver(out, src, md.tpt, "aop")
        /\ out \in {"direct", "queued", "EHOSTDOWN", "EAGAIN"}
        /\ out = "queued" => IsRunning(state[md.tpt])
        /\ ret' = IF Sent(out) THEN "0" ELSE out
    BY <1>1, OutcomeFacts
  <1> HIDE DEF out
  <1>d. md.tpt \in Threads
    BY <1>t, <1>s
  <1>4. Main = "aop" /\ Main # "done" /\ None.pc = "run"
    BY <1>s, <1>t, PlaceTypes DEF Main
  <1>5. /\ queue' \in [Threads -> Seq(Kinds)] /\ job' \in [Actors -> Jobs] /\ TokInv' /\ ShutInv'
        /\ Waiting' = IF Sent(out) THEN {md.tpt} ELSE {}
    <2>1. /\ queue' \in [Threads -> Seq(Kinds)] /\ job' \in [Actors -> Jobs]
          /\ TokInv' /\ ShutInv'
          /\ Waiting' = IF Sent(out) /\ Main = Main THEN Waiting \cup {md.tpt} ELSE Waiting
      <3>1. Deliver(out, src, md.tpt, Main) /\ md.tpt \notin Waiting
        BY <1>2, <1>4, <1>s
      <3> QED
        BY <1>t, <1>s, <1>u, <1>d, <1>2, <1>4, <3>1, SendStep
    <2> QED
      BY <2>1, <1>s
  <1>6. Called' = {}
    BY <1>s, <1>u DEF Called
  <1>7. /\ ret' \in {"0", "EHOSTDOWN", "EAGAIN"}
        /\ ret' = "0" => Waiting' = {md.tpt}
        /\ ret' # "0" => Waiting' = {}
    BY <1>2, <1>5 DEF Sent
  <1>8. TypeOK'
    BY <1>t, <1>u, <1>5, <1>7 DEF TypeOK
  <1>9. OnceInv' /\ StartInv' /\ AtOnceInv'
    BY <1>s, <1>u, <1>5, <1>6, <1>7 DEF OnceInv, StartInv, AtOnceInv, IInv
  <1>10. AopInv'
    BY <1>s, <1>u, <1>5, <1>6, <1>7 DEF AopInv
  <1>11. CastInv' /\ SyncInv' /\ DoneInv' /\ OboInv'
    BY <1>s, <1>u DEF CastInv, SyncInv, DoneInv, OboInv
  <1> QED
    BY <1>5, <1>8, <1>9, <1>10, <1>11 DEF IInv

LEMMA AsyncOpCallbackInv ==
    ASSUME IInv, NEW a \in Actors, AsyncOpCallback(a)
    PROVE  IInv'
  <1>t. TypeOK /\ TokInv /\ ShutInv /\ md \in MdType
    BY DataSorts DEF IInv
  <1> DEFINE t == job[a].t
  <1>u. /\ job[a].k = "aop" /\ Calls1(a) /\ job' = [job EXCEPT ![a] = None]
        /\ md' = [md EXCEPT !.mem = "gone"]
        /\ UNCHANGED <<n, mode, flags, src, back, state, queue, batch, cpc, ci, shut,
                       dones, report, ret>>
    BY DEF AsyncOpCallback, opVars
  <1>j. mode = "aop" /\ ~Past(a) /\ Main = "aop" /\ "aop" \in Kinds /\ None \in Jobs
        /\ None.pc = "run"
    BY <1>t, <1>u, JobFacts, PlaceTypes DEF Kinds
  <1>m. md' \in MdType /\ md'.mem = "gone" /\ md'.tpt = md.tpt
    BY <1>t, <1>u DEF MdType
  <1>1. /\ job' \in [Actors -> Jobs] /\ TokInv' /\ ShutInv'
        /\ \A b \in Actors : b # a => job'[b] = job[b]
        /\ t \in Waiting /\ Waiting' = Waiting \ {t}
    BY <1>t, <1>u, <1>j, <1>m, CallStep
  <1>2. /\ calls' \in [Threads -> Nat] /\ \A u \in Threads : calls'[u] <= 1
        /\ Called' = Called \cup {t} /\ Waiting' \cap Called' = {}
    <2>1. calls' = [calls EXCEPT ![t] = @ + 1]
      BY <1>u DEF Calls1
    <2> HIDE DEF t
    <2>2. /\ calls' \in [Threads -> Nat] /\ \A u \in Threads : calls'[u] <= 1
          /\ Called' = Called \cup {t}
          /\ (Waiting \ {t}) \cap Called' = {}
      BY <2>1, <1>1, CalledStep
    <2> QED
      BY <1>1, <2>2
  <1>l. cpc # "start" /\ cpc = "ret" /\ ret = "0" /\ t = md.tpt /\ Waiting' = {}
        /\ Called' = {md.tpt}
    <2>1. cpc # "start"
      BY <1>1, <1>j, Live
    <2>2. cpc = "ret" /\ ret = "0"
      BY <1>1, <1>j, <2>1 DEF IInv, AopInv
    <2>3. t = md.tpt /\ Waiting = {md.tpt} /\ Called \subseteq {md.tpt}
      BY <1>1, <1>j DEF IInv, AopInv
    <2> QED
      BY <1>1, <1>2, <2>1, <2>2, <2>3
  <1>3. TypeOK'
    BY <1>t, <1>u, <1>1, <1>2, <1>m DEF TypeOK, MdType
  <1>4. OnceInv' /\ StartInv' /\ AtOnceInv'
    BY <1>2, <1>u, <1>j, <1>l, <1>m DEF OnceInv, StartInv, AtOnceInv, IInv
  <1>5. AopInv'
    BY <1>u, <1>j, <1>l, <1>m DEF AopInv, IInv
  <1>6. CastInv' /\ SyncInv' /\ DoneInv' /\ OboInv'
    BY <1>u, <1>j DEF CastInv, SyncInv, DoneInv, OboInv
  <1> QED
    BY <1>1, <1>3, <1>4, <1>5, <1>6 DEF IInv

-----------------------------------------------------------------------------
(* One by one.                                                             *)

\* Counting the threads without the caller.
LEMMA OthersFacts ==
    ASSUME TypeOK, src < n
    PROVE  /\ \A i \in Nat : Others(i) = IF src < i THEN i - 1 ELSE i
           /\ \A i \in Nat : i # src => Others(i + 1) = Others(i) + 1
           /\ \A i \in Nat : i = src => Others(i + 1) = Others(i)
           /\ Others(n) = n - 1
           /\ \A i \in Nat : i < n /\ i # src => Others(i) + 1 <= n - 1
           /\ \A i \in Nat : Others(i) \in Nat
           /\ SelfN \in 0 .. 1 /\ (SelfDirect <=> SelfN = 1)
  <1>t. n \in Nat /\ src \in Nat
    BY Sorts
  <1>1. \A i \in Nat : Others(i) = IF src < i THEN i - 1 ELSE i
    BY <1>t DEF Others
  <1>2. SelfN \in 0 .. 1 /\ (SelfDirect <=> SelfN = 1)
    BY DEF SelfN
  <1> QED
    BY <1>t, <1>1, <1>2

\* Somebody has the turn.
LEMMA TurnFacts ==
    ASSUME IInv, mode = "obo", cpc = "next" \/ Waiting # {} \/ Stages # {}
    PROVE  /\ src \in Threads /\ src < n /\ n > 1 /\ md.tpt = src /\ ci = 0
           /\ md.mem = "heap" /\ dones = 0 /\ ~DoneOut /\ cpc \in {"next", "ret"}
           /\ md.idx \in 0 .. n + 1 /\ Tries \in 0 .. n
           /\ \A t \in Threads : t # src /\ t >= md.idx => t \notin Called
           /\ src \in Called => SelfDirect \/ md.idx = n + 1
           /\ md.send = Cardinality(Called) + (IF Waiting = {} THEN 0 ELSE 1)
           /\ Waiting # {} \/ Stages # {} => cpc = "ret"
           /\ Stages # {} => Waiting = {}
           /\ Cardinality(Called) \in Nat
  <1>t. TypeOK
    BY DEF IInv
  <1>1. md.mem # "none" /\ cpc # "start"
    <2>1. cpc = "next" => md.mem # "none"
      BY DEF IInv, OboInv
    <2> QED
      BY <2>1, Live
  <1>2. src # Ext /\ n > 1 /\ src \in Threads /\ src < n
    BY <1>1, <1>t, Sorts DEF IInv, AtOnceInv, StartInv
  <1>3. /\ md.tpt = src /\ ci = 0 /\ cpc \in {"next", "ret"}
        /\ md.idx \in 0 .. n + 1 /\ Tries \in 0 .. n
        /\ \A t \in Threads : t # src /\ t >= md.idx => t \notin Called
        /\ src \in Called => SelfDirect \/ md.idx = n + 1
        /\ md.send = Cardinality(Called) + (IF Waiting = {} THEN 0 ELSE 1)
    BY <1>1 DEF IInv, OboInv
  <1>4. cpc = "next" => NoTurn /\ dones = 0 /\ md.mem = "heap"
    BY <1>1 DEF IInv, OboInv
  <1>5. \A t \in Waiting : Stages = {} /\ ~DoneOut /\ dones = 0 /\ md.mem = "heap"
    BY <1>1 DEF IInv, OboInv
  <1>6. \A a \in Stages : ~DoneOut /\ dones = 0 /\ md.mem = "heap"
    BY <1>1 DEF IInv, OboInv
  <1>7. Cardinality(Called) \in Nat
    BY <1>t, Sizes
  <1> QED
    BY <1>2, <1>3, <1>4, <1>5, <1>6, <1>7 DEF NoTurn

\* What the constants of the operation amount to stays.
LEMMA OboConst ==
    ASSUME UNCHANGED <<n, flags, src>>
    PROVE  /\ SelfDirect' <=> SelfDirect
           /\ SelfN' = SelfN /\ (SelfLast' <=> SelfLast) /\ Targets' = Targets
           /\ \A i : Others(i)' = Others(i)
  BY DEF SelfDirect, SelfN, SelfLast, Targets, Others

\* The tries so far, in terms of the threads passed.
LEMMA TriesFacts ==
    ASSUME IInv, mode = "obo"
    PROVE  /\ cpc = "next" => /\ md.idx <= n /\ Tries = Others(md.idx) + SelfN
                              /\ NoTurn /\ job[src] = None
                              /\ \A t \in Threads : t # src => t \notin Called
           /\ \A t \in Waiting :
                 /\ Waiting = {t}
                 /\ \/ t # src /\ t < n /\ md.idx = t /\ Tries = Others(t) + 1 + SelfN
                    \/ t = src /\ md.idx = n /\ SelfLast /\ Tries = n
           /\ \A a \in Stages :
                 /\ Stages = {a}
                 /\ \/ /\ job[a].t # src /\ job[a].pc # "fin"
                       /\ md.idx <= n /\ Tries = Others(md.idx) + SelfN
                       /\ job[a].pc = "self" => md.idx = n
                    \/ job[a].t = src /\ md.idx = n + 1 /\ SelfLast /\ Tries = n
                    \/ job[a].pc = "fin" /\ Tries = Targets
  <1>1. cpc = "next" \/ Waiting # {} \/ Stages # {} => md.mem # "none"
    BY Live DEF IInv, OboInv
  <1>2. cpc = "next" => job[src] = None
    BY DEF IInv, StartInv
  <1> QED
    BY <1>1, <1>2 DEF IInv, OboInv

\* The invariant when a message has the turn, and when worker a has it.
LEMMA MessageTurn ==
    ASSUME mode' = "obo", cpc' = "ret", md'.tpt = src', ci' = 0, md'.mem = "heap", dones' = 0,
           md'.idx \in 0 .. n' + 1, Tries' \in 0 .. n',
           \A u \in Threads : u # src' /\ u >= md'.idx => u \notin Called',
           src' \in Called' => SelfDirect' \/ md'.idx = n' + 1,
           NEW t, Waiting' = {t}, Stages' = {}, ~DoneOut', md'.send = Cardinality(Called') + 1,
           \/ t # src' /\ t < n' /\ md'.idx = t /\ Tries' = Others(t)' + 1 + SelfN'
           \/ t = src' /\ md'.idx = n' /\ SelfLast' /\ Tries' = n'
    PROVE  OboInv'
  <1>1. ~NoTurn' /\ dones' # 1
    BY DEF NoTurn
  <1>2. ASSUME NEW u \in Waiting'
        PROVE  \/ u # src' /\ u < n' /\ md'.idx = u /\ Tries' = Others(u)' + 1 + SelfN'
               \/ u = src' /\ md'.idx = n' /\ SelfLast' /\ Tries' = n'
    BY <1>2
  <1> QED
    BY <1>1, <1>2 DEF OboInv

LEMMA WorkerTurn ==
    ASSUME mode' = "obo", cpc' = "ret", md'.tpt = src', ci' = 0, md'.mem = "heap", dones' = 0,
           md'.idx \in 0 .. n' + 1, Tries' \in 0 .. n',
           \A u \in Threads : u # src' /\ u >= md'.idx => u \notin Called',
           src' \in Called' => SelfDirect' \/ md'.idx = n' + 1,
           NEW a, Waiting' = {}, Stages' = {a}, ~DoneOut', md'.send = Cardinality(Called'),
           md'.send \in Nat,
           \/ /\ job'[a].t # src' /\ job'[a].pc # "fin"
              /\ md'.idx <= n' /\ Tries' = Others(md.idx)' + SelfN'
              /\ job'[a].pc = "self" => md'.idx = n'
           \/ job'[a].t = src' /\ md'.idx = n' + 1 /\ SelfLast' /\ Tries' = n'
           \/ job'[a].pc = "fin" /\ Tries' = Targets'
    PROVE  OboInv'
  <1>1. ~NoTurn' /\ dones' # 1
    BY DEF NoTurn
  <1>2. md'.send = Cardinality(Called') + (IF Waiting' = {} THEN 0 ELSE 1)
    OBVIOUS
  <1>3. ASSUME NEW b \in Stages'
        PROVE  \/ /\ job'[b].t # src' /\ job'[b].pc # "fin"
                  /\ md'.idx <= n' /\ Tries' = Others(md.idx)' + SelfN'
                  /\ job'[b].pc = "self" => md'.idx = n'
               \/ job'[b].t = src' /\ md'.idx = n' + 1 /\ SelfLast' /\ Tries' = n'
               \/ job'[b].pc = "fin" /\ Tries' = Targets'
    BY <1>3
  <1> QED
    BY <1>1, <1>2, <1>3 DEF OboInv

\* One attempt of tpt_msg_one_by_one_send_next__int() by actor a, for thread
\* md.idx that is not the caller.
LEMMA AttemptFacts ==
    ASSUME IInv, mode = "obo", cpc = "next" \/ Stages # {}, md.idx < n, md.idx # src,
           Tries = Others(md.idx) + SelfN, NEW out,
           \/ Sent(out) /\ md' = Count(md, out)
           \/ ~Sent(out) /\ md' = [Count(md, out) EXCEPT !.idx = @ + 1]
    PROVE  /\ md' \in MdType /\ md'.mem = "heap" /\ md'.active = md.active /\ md'.tpt = src
           /\ md'.done = md.done
           /\ Sent(out) => /\ md'.send = md.send + 1 /\ md'.err = md.err /\ md'.idx = md.idx
                           /\ md'.send + md'.err = Others(md.idx) + 1 + SelfN
           /\ ~Sent(out) => /\ md'.send = md.send /\ md'.err = md.err + 1 /\ md'.idx = md.idx + 1
                            /\ md'.send + md'.err = Others(md.idx + 1) + SelfN
           /\ md'.send + md'.err \in 0 .. n
           /\ md.idx \in Threads
  <1>t. /\ TypeOK /\ md \in MdType /\ n \in Nat /\ n <= ThreadsMax /\ ThreadsMax \in Nat
        /\ md.send \in Nat /\ md.err \in Nat /\ md.idx \in Nat /\ Threads = 0 .. ThreadsMax - 1
    BY DataSorts, Sorts DEF IInv
  <1>f. src < n /\ md.mem = "heap" /\ md.tpt = src
    BY TurnFacts
  <1>o. /\ Others(md.idx + 1) = Others(md.idx) + 1 /\ Others(md.idx) + 1 <= n - 1
        /\ Others(md.idx) \in Nat /\ SelfN \in 0 .. 1
    BY <1>t, <1>f, OthersFacts
  <1>1. md.send + md.err = Others(md.idx) + SelfN
    BY DEF Tries
  <1>2. /\ md.send + 1 \in 0 .. ThreadsMax + 1 /\ md.err + 1 \in 0 .. ThreadsMax + 1
        /\ md.idx + 1 \in 0 .. ThreadsMax + 1 /\ md.idx \in Threads
    <2>1. md.send + md.err <= n
      BY <1>t, <1>o, <1>1
    <2>2. md.send <= n /\ md.err <= n
      BY <1>t, <2>1
    <2>i. /\ n \in Nat /\ n <= ThreadsMax /\ ThreadsMax \in Nat /\ md.idx \in Nat /\ md.idx < n
          /\ Threads = 0 .. ThreadsMax - 1 /\ md.send \in Nat /\ md.err \in Nat
      BY <1>t
    <2>3. md.idx + 1 \in 0 .. ThreadsMax + 1 /\ md.idx \in Threads
      BY <2>i
    <2>4. md.send + 1 \in 0 .. ThreadsMax + 1
      BY <2>i, <2>2
    <2>5. md.err + 1 \in 0 .. ThreadsMax + 1
      BY <2>i, <2>2
    <2> QED
      BY <2>3, <2>4, <2>5
  <1>3. CASE Sent(out)
    <2>1. md' = [md EXCEPT !.send = md.send + 1]
      BY <1>3 DEF Count
    <2>2. /\ md' \in MdType /\ md'.mem = "heap" /\ md'.active = md.active /\ md'.tpt = src
          /\ md'.done = md.done /\ md'.send = md.send + 1 /\ md'.err = md.err
          /\ md'.idx = md.idx
      BY <1>t, <1>f, <1>2, <2>1 DEF MdType
    <2>3. md'.send + md'.err = Others(md.idx) + 1 + SelfN
      BY <1>t, <1>o, <1>1, <2>2
    <2>4. md'.send + md'.err \in 0 .. n
      BY <1>t, <1>o, <2>3
    <2> QED
      BY <1>2, <1>3, <2>2, <2>3, <2>4
  <1>4. CASE ~Sent(out)
    <2>1. md' = [md EXCEPT !.err = md.err + 1, !.idx = md.idx + 1]
      <3>1. Count(md, out) = [md EXCEPT !.err = md.err + 1]
        BY <1>4 DEF Count
      <3>2. [md EXCEPT !.err = md.err + 1].idx = md.idx
        BY <1>t DEF MdType
      <3> QED
        BY <1>4, <3>1, <3>2
    <2>2. /\ md' \in MdType /\ md'.mem = "heap" /\ md'.active = md.active /\ md'.tpt = src
          /\ md'.done = md.done /\ md'.send = md.send /\ md'.err = md.err + 1
          /\ md'.idx = md.idx + 1
      BY <1>t, <1>f, <1>2, <2>1 DEF MdType
    <2>3. md'.send + md'.err = Others(md.idx + 1) + SelfN
      BY <1>t, <1>o, <1>1, <2>2
    <2>4. md'.send + md'.err \in 0 .. n
      BY <1>t, <1>o, <2>3
    <2> QED
      BY <1>2, <1>4, <2>2, <2>3, <2>4
  <1> QED
    BY <1>3, <1>4

LEMMA CallerNextInv ==
    ASSUME IInv, CallerNext
    PROVE  IInv'
  <1>t. /\ TypeOK /\ TokInv /\ ShutInv /\ md \in MdType /\ n \in Nat /\ n <= ThreadsMax
        /\ ThreadsMax \in Nat /\ src \in Actors /\ md.idx \in Nat /\ mode \in AllModes
        /\ md.send \in Nat /\ md.err \in Nat
    BY DataSorts, Sorts DEF IInv
  <1>u. /\ cpc = "next"
        /\ UNCHANGED <<n, mode, flags, src, back, state, batch, ci, shut, calls>>
    BY DEF CallerNext, opVars
  <1>j. mode = "obo"
    BY <1>t, <1>u DEF IInv, CastInv, AopInv, AllModes
  <1>f. /\ src \in Threads /\ src < n /\ n > 1 /\ md.tpt = src /\ ci = 0
        /\ md.mem = "heap" /\ dones = 0 /\ ~DoneOut
        /\ md.idx \in 0 .. n + 1 /\ Tries \in 0 .. n
        /\ \A t \in Threads : t # src /\ t >= md.idx => t \notin Called
        /\ src \in Called => SelfDirect \/ md.idx = n + 1
        /\ Cardinality(Called) \in Nat
    BY <1>u, <1>j, TurnFacts
  <1>w. /\ md.idx <= n /\ Tries = Others(md.idx) + SelfN /\ NoTurn /\ job[src] = None
        /\ \A t \in Threads : t # src => t \notin Called
        /\ Waiting = {} /\ Stages = {}
    BY <1>u, <1>j, TriesFacts DEF NoTurn
  <1>z. md.send = Cardinality(Called)
    BY <1>f, <1>w, <1>u, <1>j, TurnFacts
  <1>k. /\ SelfDirect' <=> SelfDirect
        /\ SelfN' = SelfN /\ (SelfLast' <=> SelfLast) /\ Targets' = Targets
        /\ (\A i : Others(i)' = Others(i)) /\ Called' = Called
        /\ Tries' = md'.send + md'.err
    BY <1>u, OboConst DEF Called, Tries
  <1>q. queue \in [Threads -> Seq(Kinds)] /\ job \in [Actors -> Jobs] /\ None.pc = "run"
        /\ Main # "done"
    BY <1>t, PlaceTypes
  <1>o. Others(n) = n - 1 /\ SelfN \in 0 .. 1 /\ (SelfDirect <=> SelfN = 1)
    BY <1>t, <1>f, OthersFacts
  <1>x. CastInv' /\ SyncInv' /\ DoneInv' /\ AopInv'
    BY <1>u, <1>j DEF CastInv, SyncInv, DoneInv, AopInv
  <1>1. CASE md.idx < n /\ md.idx = src
    <2>1. md' = [md EXCEPT !.idx = md.idx + 1] /\ UNCHANGED <<cpc, ret, queue, job, dones, report>>
      BY <1>1, <1>f DEF CallerNext, IsCaller
    <2>2. /\ TokInv' /\ ShutInv' /\ Waiting' = Waiting /\ (DoneOut' <=> DoneOut)
          /\ Decs' = Decs /\ Lasts' = Lasts /\ Stages' = Stages
      <3>1. md'.tpt = md.tpt
        BY <2>1, <1>t DEF MdType
      <3> QED
        BY <1>t, <1>u, <2>1, <3>1, StillStep
    <2>m. /\ md' \in MdType /\ md'.mem = "heap" /\ md'.send = md.send /\ md'.err = md.err
          /\ md'.tpt = src /\ md'.idx = md.idx + 1 /\ md'.idx \in 0 .. n
      <3>1. md.idx + 1 \in 0 .. ThreadsMax + 1 /\ md.idx + 1 \in 0 .. n
        BY <1>1, <1>t
      <3> QED
        BY <2>1, <1>t, <1>f, <3>1 DEF MdType
    <2>3. TypeOK'
      BY <1>t, <1>u, <2>1, <2>m DEF TypeOK, MdType
    <2>4. OnceInv' /\ StartInv' /\ AtOnceInv'
      BY <1>u, <1>w, <1>f, <1>k, <2>1, <2>2, <2>m DEF OnceInv, StartInv, AtOnceInv, IInv
    <2>5. OboInv'
      <3>1. Tries' = Tries /\ Others(md'.idx) = Others(md.idx)
        BY <1>k, <1>1, <1>t, <1>f, <2>m, OthersFacts DEF Tries
      <3>2. NoTurn'
        BY <1>w, <2>2 DEF NoTurn
      <3>3. src \in Called => SelfDirect
        BY <1>f, <1>1, <1>t
      <3> QED
        BY <1>j, <1>u, <1>f, <1>w, <1>z, <1>k, <1>t, <2>1, <2>2, <2>m, <3>1, <3>2, <3>3 DEF OboInv
    <2> QED
      BY <1>x, <2>2, <2>3, <2>4, <2>5 DEF IInv
  <1>2. CASE md.idx < n /\ md.idx # src
    <2>1. PICK full \in Fulls :
             LET out == Outcome(md.idx, src, flags, full)
             IN  /\ Deliver(out, src, md.idx, "obo")
                 /\ IF Sent(out)
                    THEN /\ md' = Count(md, out)
                         /\ cpc' = "ret" /\ ret' = "0"
                    ELSE /\ md' = [Count(md, out) EXCEPT !.idx = @ + 1]
                         /\ UNCHANGED <<cpc, ret>>
                 /\ UNCHANGED <<dones, report>>
      BY <1>2, <1>f DEF CallerNext, IsCaller
    <2> DEFINE out == Outcome(md.idx, src, flags, full)
    <2>2. /\ Deliver(out, src, md.idx, "obo") /\ UNCHANGED <<dones, report>>
          /\ out = "queued" => IsRunning(state[md.idx])
          /\ \/ Sent(out) /\ md' = Count(md, out) /\ cpc' = "ret" /\ ret' = "0"
             \/ /\ ~Sent(out) /\ md' = [Count(md, out) EXCEPT !.idx = @ + 1]
                /\ cpc' = cpc /\ ret' = ret
      BY <2>1, OutcomeFacts
    <2> HIDE DEF out
    <2>m. /\ md' \in MdType /\ md'.mem = "heap" /\ md'.tpt = src
          /\ Sent(out) => /\ md'.send = md.send + 1 /\ md'.err = md.err /\ md'.idx = md.idx
                          /\ md'.send + md'.err = Others(md.idx) + 1 + SelfN
          /\ ~Sent(out) => /\ md'.send = md.send /\ md'.err = md.err + 1 /\ md'.idx = md.idx + 1
                           /\ md'.send + md'.err = Others(md.idx + 1) + SelfN
          /\ md'.send + md'.err \in 0 .. n
          /\ md.idx \in Threads
      BY <1>2, <1>j, <1>u, <1>w, <2>2, AttemptFacts
    <2>3. /\ queue' \in [Threads -> Seq(Kinds)] /\ job' \in [Actors -> Jobs] /\ TokInv' /\ ShutInv'
          /\ Waiting' = (IF Sent(out) THEN {md.idx} ELSE {}) /\ ~DoneOut'
          /\ Stages' = {} /\ (~Sent(out) => job'[src] = None)
      <3>0. Main = "obo"
        BY <1>j DEF Main
      <3>1. Deliver(out, src, md.idx, Main) /\ md.idx \notin Waiting
        BY <2>2, <3>0, <1>w
      <3>2. /\ queue' \in [Threads -> Seq(Kinds)] /\ job' \in [Actors -> Jobs]
            /\ TokInv' /\ ShutInv'
            /\ Waiting' = IF Sent(out) /\ Main = Main THEN Waiting \cup {md.idx} ELSE Waiting
            /\ DoneOut' <=> (DoneOut \/ (Sent(out) /\ Main = "done"))
            /\ Stages' = Stages \ {src}
            /\ out # "direct" => job'[src] = None
        BY <1>t, <1>u, <1>w, <1>f, <1>q, <2>2, <2>m, <3>1, SendStep
      <3> QED
        BY <3>2, <1>w, <1>f, <1>q DEF Sent
    <2>4. TypeOK'
      BY <1>t, <1>u, <2>2, <2>3, <2>m DEF TypeOK, MdType
    <2>5. OnceInv' /\ StartInv' /\ AtOnceInv'
      BY <1>2, <1>u, <1>w, <1>f, <1>k, <2>2, <2>3, <2>m DEF OnceInv, StartInv, AtOnceInv, IInv
    <2>6. CASE Sent(out)
      <3>1. /\ cpc' = "ret" /\ Waiting' = {md.idx} /\ md'.idx = md.idx
            /\ Tries' = Others(md.idx) + 1 + SelfN /\ Tries' \in 0 .. n
            /\ md'.send = Cardinality(Called) + 1
        BY <2>6, <2>2, <2>3, <2>m, <1>k, <1>z
      <3>2. /\ md.idx \in 0 .. n + 1 /\ md.idx < n
            /\ src \in Called => SelfDirect
        BY <1>f, <1>2, <1>t
      <3>3. \A u \in Threads : u # src' /\ u >= md'.idx => u \notin Called'
        BY <1>w, <1>u, <1>k
      <3>4. OboInv'
        <4>0. PICK t \in Threads : t = md.idx
          BY <2>m
        <4>1. /\ t # src' /\ t < n' /\ md'.idx = t /\ Tries' = Others(t)' + 1 + SelfN'
              /\ Waiting' = {t} /\ md'.idx \in 0 .. n' + 1 /\ Tries' \in 0 .. n'
              /\ md'.send = Cardinality(Called') + 1
          BY <1>2, <1>u, <1>k, <3>1, <3>2, <4>0
        <4>2. /\ mode' = "obo" /\ cpc' = "ret" /\ md'.tpt = src' /\ ci' = 0 /\ md'.mem = "heap"
              /\ dones' = 0 /\ Stages' = {} /\ ~DoneOut'
              /\ src' \in Called' => SelfDirect' \/ md'.idx = n' + 1
          BY <1>j, <1>u, <1>f, <1>k, <2>2, <2>3, <2>m, <3>1, <3>2
        <4> QED
          BY <4>1, <4>2, <3>3, MessageTurn
      <3> QED
        BY <1>x, <2>3, <2>4, <2>5, <3>4 DEF IInv
    <2>7. CASE ~Sent(out)
      <3>1. /\ cpc' = "next" /\ Waiting' = {} /\ md'.idx = md.idx + 1 /\ md'.idx <= n
            /\ Tries' = Others(md'.idx) + SelfN /\ Tries' \in 0 .. n
            /\ md'.send = Cardinality(Called) /\ md'.idx \in 0 .. n + 1
        BY <2>7, <2>2, <2>3, <2>m, <1>k, <1>z, <1>u, <1>2, <1>t
      <3>3. src \in Called => SelfDirect
        BY <1>f, <1>2, <1>t
      <3>2. OboInv'
        BY <1>2, <1>j, <1>u, <1>f, <1>w, <1>k, <1>t, <2>2, <2>3, <2>m, <3>1, <3>3 DEF OboInv, NoTurn
      <3> QED
        BY <1>x, <2>3, <2>4, <2>5, <3>2 DEF IInv
    <2> QED
      BY <2>6, <2>7
  <1>3. CASE ~(md.idx < n)
    <2>0. md.idx = n
      BY <1>3, <1>w, <1>t
    <2>1. /\ cpc' = "ret" /\ UNCHANGED <<md, queue, job>> /\ ret' \in {"0", "ESPIPE"}
          /\ \/ /\ SelfDirect /\ dones' = 1
                /\ report' = [send |-> md.send, err |-> md.err]
             \/ ~SelfDirect /\ UNCHANGED <<dones, report>>
      BY <1>3, <1>f DEF CallerNext
    <2>2. /\ TokInv' /\ ShutInv' /\ Waiting' = Waiting /\ (DoneOut' <=> DoneOut)
          /\ Decs' = Decs /\ Lasts' = Lasts /\ Stages' = Stages
      BY <1>t, <1>u, <2>1, StillStep
    <2>3. TypeOK'
      <3>1. report' \in [send : Nat, err : Nat] /\ dones' \in Nat
        BY <1>t, <2>1 DEF TypeOK
      <3> QED
        BY <1>t, <1>u, <2>1, <3>1 DEF TypeOK
    <2>4. OnceInv' /\ StartInv' /\ AtOnceInv'
      BY <1>u, <1>w, <1>f, <1>k, <2>1, <2>2 DEF OnceInv, StartInv, AtOnceInv, IInv
    <2>5. OboInv'
      <3>1. Tries' = Tries /\ NoTurn'
        BY <1>k, <1>w, <2>1, <2>2 DEF Tries, NoTurn
      <3>2. SelfDirect => Tries = Targets
        <4>1. SelfDirect => Targets = n /\ SelfN = 1
          BY <1>o, <1>t DEF Targets, SelfDirect
        <4> QED
          BY <4>1, <1>w, <1>o, <1>t, <2>0
      <3>3. src \in Called => SelfDirect
        BY <1>f, <2>0, <1>t
      <3> QED
        BY <1>j, <1>u, <1>f, <1>w, <1>z, <1>k, <1>t, <2>0, <2>1, <2>2, <3>1, <3>2, <3>3 DEF OboInv
    <2> QED
      BY <1>x, <2>2, <2>3, <2>4, <2>5 DEF IInv
  <1> QED
    BY <1>1, <1>2, <1>3

\* What a step that leaves the turn inside the operation cannot disturb.
LEMMA OboFrame ==
    ASSUME IInv, mode = "obo", Waiting # {} \/ Stages # {},
           UNCHANGED <<n, mode, flags, src, back, state, batch, cpc, ci, shut, dones, report, ret>>,
           queue' \in [Threads -> Seq(Kinds)], job' \in [Actors -> Jobs],
           calls' \in [Threads -> Nat], md' \in MdType, md'.mem = "heap"
    PROVE  TypeOK' /\ StartInv' /\ AtOnceInv' /\ CastInv' /\ SyncInv' /\ DoneInv' /\ AopInv'
  <1>1. TypeOK'
    BY DEF IInv, TypeOK, MdType
  <1>2. cpc = "ret" /\ n > 1 /\ src < n /\ src \in Threads /\ src # Ext
    <2>1. cpc = "ret" /\ n > 1 /\ src < n /\ src \in Threads
      BY TurnFacts
    <2> QED
      BY <2>1, Sorts DEF IInv
  <1>3. StartInv' /\ AtOnceInv'
    BY <1>2 DEF StartInv, AtOnceInv
  <1>4. CastInv' /\ SyncInv' /\ DoneInv' /\ AopInv'
    BY DEF CastInv, SyncInv, DoneInv, AopInv
  <1> QED
    BY <1>1, <1>3, <1>4

LEMMA OneByOneProxyInv ==
    ASSUME IInv, NEW a \in Actors, OneByOneProxy(a)
    PROVE  IInv'
  <1>t. /\ TypeOK /\ TokInv /\ ShutInv /\ md \in MdType /\ n \in Nat /\ n <= ThreadsMax
        /\ ThreadsMax \in Nat /\ src \in Nat /\ md.idx \in Nat /\ Threads = 0 .. ThreadsMax - 1
        /\ md.send \in Nat /\ md.err \in Nat /\ queue \in [Threads -> Seq(Kinds)]
    BY DataSorts, Sorts, PlaceTypes DEF IInv
  <1> DEFINE x == [job[a] EXCEPT !.pc = "next"]
  <1>u. /\ job[a].k = "obo" /\ job[a].pc = "run" /\ Calls1(a) /\ job' = [job EXCEPT ![a] = x]
        /\ md' = [md EXCEPT !.idx = md.idx + 1]
        /\ UNCHANGED <<n, mode, flags, src, back, state, queue, batch, cpc, ci, shut,
                       dones, report, ret>>
    BY DEF OneByOneProxy, opVars
  <1>j. mode = "obo" /\ ~Past(a) /\ Main = "obo" /\ "obo" \in Kinds
        /\ job[a] \in Jobs /\ job[a].t \in Threads
    BY <1>u, JobFacts DEF Kinds, Past
  <1>x. x \in Jobs /\ x.pc = "next" /\ x.k = "obo" /\ x.t = job[a].t
    BY <1>u, <1>j DEF Jobs
  <1>p. PICK t \in Threads : t = job[a].t
    BY <1>j
  <1>y. md'.tpt = md.tpt
    BY <1>u, <1>t DEF MdType
  <1>1. /\ job' \in [Actors -> Jobs] /\ TokInv' /\ ShutInv' /\ job'[a] = x
        /\ Stages' = Stages \cup {a}
        /\ (DoneOut' <=> DoneOut) /\ t \in Waiting /\ Waiting' = Waiting \ {t}
    <2> HIDE DEF x
    <2> QED
      BY <1>t, <1>u, <1>j, <1>x, <1>y, <1>p, CallStep
  <1>2. /\ calls' \in [Threads -> Nat] /\ \A u \in Threads : calls'[u] <= 1
        /\ Called' = Called \cup {t}
        /\ Cardinality(Called') = Cardinality(Called) + 1 /\ Cardinality(Called) \in Nat
        /\ (Waiting \ {t}) \cap Called' = {}
    <2>1. calls' = [calls EXCEPT ![t] = @ + 1]
      BY <1>u, <1>p DEF Calls1
    <2> QED
      BY <2>1, <1>1, CalledStep
  <1>f. /\ src \in Threads /\ src < n /\ md.tpt = src /\ ci = 0
        /\ md.mem = "heap" /\ dones = 0 /\ ~DoneOut /\ cpc = "ret"
        /\ md.idx \in 0 .. n + 1 /\ Tries \in 0 .. n
        /\ \A u \in Threads : u # src /\ u >= md.idx => u \notin Called
        /\ src \in Called => SelfDirect \/ md.idx = n + 1
        /\ md.send = Cardinality(Called) + 1
    BY <1>1, <1>j, TurnFacts
  <1>w. /\ Waiting = {t}
        /\ \/ t # src /\ t < n /\ md.idx = t /\ Tries = Others(t) + 1 + SelfN
           \/ t = src /\ md.idx = n /\ SelfLast /\ Tries = n
    BY <1>1, <1>j, TriesFacts
  <1>s. Stages = {}
    BY <1>1, <1>j, TurnFacts
  <1>3. Waiting' = {} /\ Stages' = {a} /\ ~DoneOut'
    BY <1>1, <1>w, <1>s, <1>f
  <1>m. /\ md' \in MdType /\ md'.mem = "heap" /\ md'.send = md.send /\ md'.err = md.err
        /\ md'.tpt = src /\ md'.idx = md.idx + 1 /\ md'.idx \in 0 .. n + 1
    <2>1. md.idx + 1 \in 0 .. ThreadsMax + 1 /\ md.idx + 1 \in 0 .. n + 1
      BY <1>w, <1>t
    <2> QED
      BY <1>u, <1>t, <1>f, <2>1 DEF MdType
  <1>k. /\ SelfDirect' <=> SelfDirect
        /\ SelfN' = SelfN /\ (SelfLast' <=> SelfLast)
        /\ Others(md.idx)' = Others(md.idx + 1) /\ Tries' = Tries
    BY <1>u, <1>m, OboConst DEF Tries, Others
  <1>4. TypeOK' /\ StartInv' /\ AtOnceInv' /\ CastInv' /\ SyncInv' /\ DoneInv' /\ AopInv'
    BY <1>u, <1>j, <1>t, <1>1, <1>2, <1>m, OboFrame
  <1>5. OnceInv'
    BY <1>2, <1>3 DEF OnceInv
  <1>6. OboInv'
    <2>1. /\ mode' = "obo" /\ cpc' = "ret" /\ md'.tpt = src' /\ ci' = 0 /\ md'.mem = "heap"
          /\ dones' = 0 /\ md'.idx \in 0 .. n' + 1 /\ Tries' \in 0 .. n'
          /\ md'.send = Cardinality(Called') /\ md'.send \in Nat
      BY <1>u, <1>j, <1>f, <1>m, <1>k, <1>2, <1>t
    <2>2. CASE t # src /\ t < n /\ md.idx = t /\ Tries = Others(t) + 1 + SelfN
      <3>1. \A u \in Threads : u # src' /\ u >= md'.idx => u \notin Called'
        <4> SUFFICES ASSUME NEW u \in Threads, u # src, u >= md.idx + 1
                     PROVE  u \notin Called'
          BY <1>u, <1>m
        <4>1. u >= md.idx /\ u # t
          BY <2>2, <1>t
        <4> QED
          BY <4>1, <1>f, <1>2
      <3>2. src' \in Called' => SelfDirect' \/ md'.idx = n' + 1
        <4>1. md.idx # n + 1 /\ src # t
          BY <2>2, <1>t
        <4> QED
          BY <4>1, <1>f, <1>2, <1>u, <1>k
      <3>3. Others(t + 1) = Others(t) + 1 /\ Others(t) \in Nat /\ SelfN \in 0 .. 1 /\ t \in Nat
        BY <2>2, <1>t, <1>f, OthersFacts
      <3>4. Tries' = Others(md.idx)' + SelfN' /\ md'.idx <= n'
        BY <2>2, <3>3, <1>k, <1>m, <1>u, <1>t
      <3>5. job'[a].t # src' /\ job'[a].pc # "fin" /\ job'[a].pc # "self"
        BY <1>1, <1>x, <1>p, <1>u, <2>2
      <3> QED
        BY <2>1, <3>1, <3>2, <3>4, <3>5, <1>3, WorkerTurn
    <2>3. CASE t = src /\ md.idx = n /\ SelfLast /\ Tries = n
      <3>1. \A u \in Threads : u # src' /\ u >= md'.idx => u \notin Called'
        <4> SUFFICES ASSUME NEW u \in Threads, u # src, u >= md.idx + 1
                     PROVE  u \notin Called'
          BY <1>u, <1>m
        <4>1. u >= md.idx /\ u # t
          BY <2>3, <1>t
        <4> QED
          BY <4>1, <1>f, <1>2
      <3>2. md'.idx = n' + 1 /\ SelfLast' /\ Tries' = n'
        BY <2>3, <1>m, <1>u, <1>k
      <3>3. job'[a].t = src'
        BY <1>1, <1>x, <1>p, <1>u, <2>3
      <3> QED
        BY <2>1, <3>1, <3>2, <3>3, <1>3, WorkerTurn
    <2> QED
      BY <1>w, <2>2, <2>3
  <1> QED
    BY <1>1, <1>4, <1>5, <1>6 DEF IInv

LEMMA OboSorts ==
    ASSUME IInv
    PROVE  /\ TypeOK /\ TokInv /\ ShutInv /\ md \in MdType /\ n \in Nat /\ n <= ThreadsMax
           /\ ThreadsMax \in Nat /\ src \in Nat /\ md.idx \in Nat /\ Threads = 0 .. ThreadsMax - 1
           /\ md.send \in Nat /\ md.err \in Nat /\ queue \in [Threads -> Seq(Kinds)]
           /\ calls \in [Threads -> Nat] /\ job \in [Actors -> Jobs] /\ Main # "done"
  <1>1. TypeOK /\ TokInv /\ ShutInv
    BY DEF IInv
  <1>2. calls \in [Threads -> Nat]
    BY <1>1 DEF TypeOK
  <1> QED
    BY <1>1, <1>2, DataSorts, Sorts, PlaceTypes

\* Worker a has the turn.
LEMMA StageFacts ==
    ASSUME IInv, NEW a \in Actors, job[a].k = "obo", job[a].pc \in {"next", "self", "fin"}
    PROVE  /\ mode = "obo" /\ Past(a) /\ Main = "obo" /\ job[a] \in Jobs /\ job[a].t \in Threads
           /\ a \in Stages /\ Stages = {a} /\ Waiting = {} /\ ~DoneOut
           /\ src \in Threads /\ src < n /\ md.tpt = src /\ ci = 0
           /\ md.mem = "heap" /\ dones = 0 /\ cpc = "ret"
           /\ md.idx \in 0 .. n + 1 /\ Tries \in 0 .. n
           /\ \A u \in Threads : u # src /\ u >= md.idx => u \notin Called
           /\ src \in Called => SelfDirect \/ md.idx = n + 1
           /\ md.send = Cardinality(Called)
           /\ \/ /\ job[a].t # src /\ job[a].pc # "fin"
                 /\ md.idx <= n /\ Tries = Others(md.idx) + SelfN
                 /\ job[a].pc = "self" => md.idx = n
              \/ job[a].t = src /\ md.idx = n + 1 /\ SelfLast /\ Tries = n
              \/ job[a].pc = "fin" /\ Tries = Targets
  <1>1. mode = "obo" /\ Main = "obo" /\ job[a] \in Jobs /\ job[a].t \in Threads
    BY JobFacts
  <1>2. a \in Stages /\ Past(a)
    BY DEF Stages, At, Past
  <1>3. /\ src \in Threads /\ src < n /\ md.tpt = src /\ ci = 0 /\ Waiting = {} /\ ~DoneOut
        /\ md.mem = "heap" /\ dones = 0 /\ cpc = "ret"
        /\ md.idx \in 0 .. n + 1 /\ Tries \in 0 .. n
        /\ \A u \in Threads : u # src /\ u >= md.idx => u \notin Called
        /\ src \in Called => SelfDirect \/ md.idx = n + 1
        /\ md.send = Cardinality(Called) + (IF Waiting = {} THEN 0 ELSE 1)
        /\ Cardinality(Called) \in Nat
    BY <1>1, <1>2, TurnFacts
  <1>4. md.send = Cardinality(Called)
    BY <1>3
  <1>5. /\ Stages = {a}
        /\ \/ /\ job[a].t # src /\ job[a].pc # "fin"
              /\ md.idx <= n /\ Tries = Others(md.idx) + SelfN
              /\ job[a].pc = "self" => md.idx = n
           \/ job[a].t = src /\ md.idx = n + 1 /\ SelfLast /\ Tries = n
           \/ job[a].pc = "fin" /\ Tries = Targets
    BY <1>1, <1>2, TriesFacts
  <1> QED
    BY <1>1, <1>2, <1>3, <1>4, <1>5

LEMMA OneByOneNextInv ==
    ASSUME IInv, NEW a \in Actors, OneByOneNext(a)
    PROVE  IInv'
  <1>t. /\ TypeOK /\ TokInv /\ ShutInv /\ md \in MdType /\ n \in Nat /\ n <= ThreadsMax
        /\ ThreadsMax \in Nat /\ src \in Nat /\ md.idx \in Nat /\ Threads = 0 .. ThreadsMax - 1
        /\ md.send \in Nat /\ md.err \in Nat /\ queue \in [Threads -> Seq(Kinds)]
        /\ calls \in [Threads -> Nat] /\ job \in [Actors -> Jobs] /\ Main # "done"
    BY OboSorts
  <1>u. /\ job[a].k = "obo" /\ job[a].pc = "next"
        /\ UNCHANGED <<n, mode, flags, src, back, state, batch, cpc, ci, shut,
                       calls, dones, report, ret>>
    BY DEF OneByOneNext, opVars, histVars
  <1>f. /\ mode = "obo" /\ Past(a) /\ Main = "obo" /\ job[a] \in Jobs /\ job[a].t \in Threads
        /\ a \in Stages /\ Stages = {a} /\ Waiting = {} /\ ~DoneOut
        /\ src \in Threads /\ src < n /\ md.tpt = src /\ ci = 0
        /\ md.mem = "heap" /\ dones = 0 /\ cpc = "ret"
        /\ md.idx \in 0 .. n + 1 /\ Tries \in 0 .. n
        /\ \A u \in Threads : u # src /\ u >= md.idx => u \notin Called
        /\ src \in Called => SelfDirect \/ md.idx = n + 1
        /\ md.send = Cardinality(Called)
        /\ \/ job[a].t # src /\ md.idx <= n /\ Tries = Others(md.idx) + SelfN
           \/ job[a].t = src /\ md.idx = n + 1 /\ SelfLast /\ Tries = n
    BY <1>u, StageFacts
  <1>k. /\ SelfDirect' <=> SelfDirect
        /\ SelfN' = SelfN /\ (SelfLast' <=> SelfLast) /\ Called' = Called
        /\ (\A i : Others(i)' = Others(i)) /\ Tries' = md'.send + md'.err
    BY <1>u, OboConst DEF Called, Tries
  <1>1. CASE md.idx >= n
    <2> DEFINE x == [job[a] EXCEPT !.pc = "self"]
    <2>1. job' = [job EXCEPT ![a] = x] /\ md' = md /\ queue' = queue
      BY <1>1 DEF OneByOneNext
    <2>x. x \in Jobs /\ x.pc = "self" /\ x.k = "obo" /\ x.t = job[a].t
      BY <1>u, <1>f DEF Jobs
    <2>2. /\ job' \in [Actors -> Jobs] /\ job'[a] = x /\ TokInv' /\ ShutInv'
          /\ Waiting' = {} /\ ~DoneOut' /\ Stages' = {a}
      <3> HIDE DEF x
      <3>1. /\ job' \in [Actors -> Jobs] /\ job'[a] = x /\ TokInv' /\ ShutInv'
            /\ Waiting' = Waiting /\ (DoneOut' <=> DoneOut)
            /\ Stages' = IF x.pc \in {"next", "self", "fin"} THEN Stages \cup {a}
                         ELSE Stages \ {a}
        BY <1>t, <1>u, <1>f, <2>1, <2>x, MoveStep
      <3> QED
        BY <3>1, <2>x, <1>f
    <2>3. TypeOK' /\ StartInv' /\ AtOnceInv' /\ CastInv' /\ SyncInv' /\ DoneInv' /\ AopInv'
      BY <1>t, <1>u, <1>f, <2>1, <2>2, OboFrame
    <2>4. OnceInv'
      BY <1>u, <1>k, <2>2 DEF OnceInv, IInv
    <2>5. OboInv'
      <3>1. /\ mode' = "obo" /\ cpc' = "ret" /\ md'.tpt = src' /\ ci' = 0 /\ md'.mem = "heap"
            /\ dones' = 0 /\ md'.idx \in 0 .. n' + 1 /\ Tries' \in 0 .. n'
            /\ md'.send = Cardinality(Called') /\ md'.send \in Nat
            /\ \A u \in Threads : u # src' /\ u >= md'.idx => u \notin Called'
            /\ src' \in Called' => SelfDirect' \/ md'.idx = n' + 1
        BY <1>u, <1>f, <1>k, <1>t, <2>1 DEF Tries
      <3>2. Others(md.idx)' = Others(md.idx) /\ Tries' = Tries
        BY <1>u, <1>k, <2>1 DEF Others, Tries
      <3>3. \/ /\ job'[a].t # src' /\ job'[a].pc # "fin"
               /\ md'.idx <= n' /\ Tries' = Others(md.idx)' + SelfN' /\ md'.idx = n'
            \/ job'[a].t = src' /\ md'.idx = n' + 1 /\ SelfLast' /\ Tries' = n'
        <4>1. md.idx <= n => md.idx = n
          BY <1>1, <1>t
        <4> QED
          BY <4>1, <3>2, <2>1, <2>2, <2>x, <1>f, <1>u, <1>k
      <3> QED
        BY <3>1, <3>3, <2>2, WorkerTurn
    <2> QED
      BY <2>2, <2>3, <2>4, <2>5 DEF IInv
  <1>s. ASSUME md.idx < n
        PROVE  /\ job[a].t # src /\ Tries = Others(md.idx) + SelfN /\ md.idx + 1 \in 0 .. n + 1
               /\ md.idx + 1 <= n /\ md.idx # n + 1 /\ md.idx + 1 \in 0 .. ThreadsMax + 1
               /\ md.idx \in Threads
    <2>1. md.idx # n + 1 /\ md.idx + 1 <= n
      BY <1>s, <1>t
    <2>2. job[a].t # src /\ Tries = Others(md.idx) + SelfN
      BY <2>1, <1>f
    <2>i. /\ n \in Nat /\ n <= ThreadsMax /\ ThreadsMax \in Nat /\ md.idx \in Nat
          /\ Threads = 0 .. ThreadsMax - 1
      BY <1>t
    <2>3. md.idx + 1 \in 0 .. n + 1 /\ md.idx + 1 \in 0 .. ThreadsMax + 1
      BY <2>1, <2>i
    <2>4. md.idx \in Threads
      BY <2>1, <2>i
    <2> QED
      BY <2>1, <2>2, <2>3, <2>4
  <1>2. CASE md.idx < n /\ md.idx = src
    <2>1. md' = [md EXCEPT !.idx = md.idx + 1] /\ job' = job /\ queue' = queue
      BY <1>2, <1>f, <1>t DEF OneByOneNext, IsCaller
    <2>m. /\ md' \in MdType /\ md'.mem = "heap" /\ md'.send = md.send /\ md'.err = md.err
          /\ md'.tpt = src /\ md'.idx = md.idx + 1
      BY <2>1, <1>2, <1>s, <1>t, <1>f DEF MdType
    <2>2. /\ TokInv' /\ ShutInv' /\ Waiting' = {} /\ ~DoneOut' /\ Stages' = {a}
      BY <1>t, <1>u, <1>f, <2>1, <2>m, StillStep
    <2>3. TypeOK' /\ StartInv' /\ AtOnceInv' /\ CastInv' /\ SyncInv' /\ DoneInv' /\ AopInv'
      BY <1>t, <1>u, <1>f, <2>1, <2>2, <2>m, OboFrame
    <2>4. OnceInv'
      BY <1>u, <1>k, <2>2 DEF OnceInv, IInv
    <2>5. OboInv'
      <3>1. Others(md.idx)' = Others(md.idx + 1) /\ Tries' = Tries
        BY <1>u, <1>k, <2>m DEF Others, Tries
      <3>2. Others(md.idx + 1) = Others(md.idx)
        BY <1>2, <1>t, <1>f, OthersFacts
      <3>3. \A u \in Threads : u # src' /\ u >= md'.idx => u \notin Called'
        <4> SUFFICES ASSUME NEW u \in Threads, u # src, u >= md.idx + 1
                     PROVE  u \notin Called
          BY <1>u, <1>k, <2>m
        <4>1. u >= md.idx
          BY <1>t
        <4> QED
          BY <4>1, <1>f
      <3>4. /\ mode' = "obo" /\ cpc' = "ret" /\ md'.tpt = src' /\ ci' = 0 /\ md'.mem = "heap"
            /\ dones' = 0 /\ md'.idx \in 0 .. n' + 1 /\ Tries' \in 0 .. n'
            /\ md'.send = Cardinality(Called') /\ md'.send \in Nat
            /\ src' \in Called' => SelfDirect' \/ md'.idx = n' + 1
        BY <1>u, <1>f, <1>k, <1>t, <1>2, <1>s, <2>m, <3>1
      <3>5. /\ job'[a].t # src' /\ job'[a].pc # "fin" /\ job'[a].pc # "self"
            /\ md'.idx <= n' /\ Tries' = Others(md.idx)' + SelfN'
        BY <1>2, <1>s, <1>u, <1>k, <2>1, <2>m, <3>1, <3>2
      <3> QED
        BY <3>3, <3>4, <3>5, <2>2, WorkerTurn
    <2> QED
      BY <2>2, <2>3, <2>4, <2>5 DEF IInv
  <1>3. CASE md.idx < n /\ md.idx # src
    <2>0. ~(md.idx >= n)
      BY <1>3, <1>t
    <2>1. PICK full \in Fulls :
             LET out == Outcome(md.idx, job[a].t, flags, full)
             IN  IF Sent(out)
                 THEN md' = Count(md, out) /\ Deliver(out, a, md.idx, "obo")
                 ELSE /\ md' = [Count(md, out) EXCEPT !.idx = @ + 1]
                      /\ UNCHANGED <<job, queue>>
      BY <2>0, <1>3, <1>f DEF OneByOneNext, IsCaller
    <2> DEFINE out == Outcome(md.idx, job[a].t, flags, full)
    <2>2. /\ out = "queued" => IsRunning(state[md.idx])
          /\ \/ Sent(out) /\ md' = Count(md, out) /\ Deliver(out, a, md.idx, "obo")
             \/ /\ ~Sent(out) /\ md' = [Count(md, out) EXCEPT !.idx = @ + 1]
                /\ job' = job /\ queue' = queue
      BY <2>1, OutcomeFacts
    <2> HIDE DEF out
    <2>m. /\ md' \in MdType /\ md'.mem = "heap" /\ md'.tpt = src
          /\ Sent(out) => /\ md'.send = md.send + 1 /\ md'.err = md.err /\ md'.idx = md.idx
                          /\ md'.send + md'.err = Others(md.idx) + 1 + SelfN
          /\ ~Sent(out) => /\ md'.send = md.send /\ md'.err = md.err + 1 /\ md'.idx = md.idx + 1
                           /\ md'.send + md'.err = Others(md.idx + 1) + SelfN
          /\ md'.send + md'.err \in 0 .. n
      BY <1>3, <1>s, <1>f, <2>2, AttemptFacts
    <2>3. CASE Sent(out)
      <3>1. /\ queue' \in [Threads -> Seq(Kinds)] /\ job' \in [Actors -> Jobs] /\ TokInv' /\ ShutInv'
            /\ Waiting' = {md.idx} /\ ~DoneOut' /\ Stages' = {}
        <4>1. Deliver(out, a, md.idx, Main) /\ md.idx \notin Waiting /\ md.idx \in Threads
          BY <2>2, <2>3, <1>f, <1>s, <1>3
        <4>2. /\ queue' \in [Threads -> Seq(Kinds)] /\ job' \in [Actors -> Jobs]
              /\ TokInv' /\ ShutInv'
              /\ Waiting' = IF Sent(out) /\ Main = Main THEN Waiting \cup {md.idx} ELSE Waiting
              /\ DoneOut' <=> (DoneOut \/ (Sent(out) /\ Main = "done"))
              /\ Stages' = Stages \ {a}
          BY <1>t, <1>u, <1>f, <2>2, <2>m, <4>1, SendStep
        <4> QED
          BY <4>2, <2>3, <1>f, <1>t
      <3>2. TypeOK' /\ StartInv' /\ AtOnceInv' /\ CastInv' /\ SyncInv' /\ DoneInv' /\ AopInv'
        BY <1>t, <1>u, <1>f, <2>m, <3>1, OboFrame
      <3>p. PICK t \in Threads : t = md.idx
        BY <1>3, <1>s
      <3>3. OnceInv'
        <4>1. t \notin Called'
          BY <1>3, <1>f, <1>k, <1>t, <3>p
        <4> QED
          BY <4>1, <1>u, <3>1, <3>p DEF OnceInv, IInv
      <3>4. OboInv'
        <4>1. /\ mode' = "obo" /\ cpc' = "ret" /\ md'.tpt = src' /\ ci' = 0 /\ md'.mem = "heap"
              /\ dones' = 0 /\ md'.idx \in 0 .. n' + 1 /\ Tries' \in 0 .. n'
              /\ md'.send = Cardinality(Called') + 1
              /\ src' \in Called' => SelfDirect' \/ md'.idx = n' + 1
              /\ \A u \in Threads : u # src' /\ u >= md'.idx => u \notin Called'
          BY <1>u, <1>f, <1>k, <1>3, <1>s, <2>m, <2>3
        <4>2. /\ t # src' /\ t < n' /\ md'.idx = t /\ Tries' = Others(t)' + 1 + SelfN'
              /\ Waiting' = {t}
          BY <1>3, <1>u, <1>k, <2>m, <2>3, <3>p, <3>1
        <4> QED
          BY <4>1, <4>2, <3>1, MessageTurn
      <3> QED
        BY <3>1, <3>2, <3>3, <3>4 DEF IInv
    <2>4. CASE ~Sent(out)
      <3>1. job' = job /\ queue' = queue
        BY <2>2, <2>4
      <3>2. /\ TokInv' /\ ShutInv' /\ Waiting' = {} /\ ~DoneOut' /\ Stages' = {a}
        BY <1>t, <1>u, <1>f, <3>1, <2>m, StillStep
      <3>3. TypeOK' /\ StartInv' /\ AtOnceInv' /\ CastInv' /\ SyncInv' /\ DoneInv' /\ AopInv'
        BY <1>t, <1>u, <1>f, <2>m, <3>1, <3>2, OboFrame
      <3>4. OnceInv'
        BY <1>u, <1>k, <3>2 DEF OnceInv, IInv
      <3>5. OboInv'
        <4>1. Others(md.idx)' = Others(md.idx + 1)
          BY <1>u, <2>m, <2>4 DEF Others
        <4>2. \A u \in Threads : u # src' /\ u >= md'.idx => u \notin Called'
          <5> SUFFICES ASSUME NEW u \in Threads, u # src, u >= md.idx + 1
                       PROVE  u \notin Called
            BY <1>u, <1>k, <2>m, <2>4
          <5>1. u >= md.idx
            BY <1>t
          <5> QED
            BY <5>1, <1>f
        <4>3. /\ mode' = "obo" /\ cpc' = "ret" /\ md'.tpt = src' /\ ci' = 0 /\ md'.mem = "heap"
              /\ dones' = 0 /\ md'.idx \in 0 .. n' + 1 /\ Tries' \in 0 .. n'
              /\ md'.send = Cardinality(Called') /\ md'.send \in Nat
              /\ src' \in Called' => SelfDirect' \/ md'.idx = n' + 1
          BY <1>u, <1>f, <1>k, <1>t, <1>3, <1>s, <2>m, <2>4
        <4>4. /\ job'[a].t # src' /\ job'[a].pc # "fin" /\ job'[a].pc # "self"
              /\ md'.idx <= n' /\ Tries' = Others(md.idx)' + SelfN'
          BY <1>3, <1>s, <1>u, <1>k, <2>m, <2>4, <3>1, <4>1
        <4> QED
          BY <4>2, <4>3, <4>4, <3>2, WorkerTurn
      <3> QED
        BY <3>2, <3>3, <3>4, <3>5 DEF IInv
    <2> QED
      BY <2>3, <2>4
  <1> QED
    BY <1>1, <1>2, <1>3, <1>t

\* All threads but the caller have been tried, and it too when it is a target.
LEMMA AllTried ==
    ASSUME IInv, src \in Threads, src < n,
           ~(SelfLast /\ Tries = n - 1)
    PROVE  /\ Tries = n - 1 + SelfN => Tries = Targets
           /\ SelfLast /\ Tries = n => Tries = Targets
           /\ SelfLast => SelfN = 0
  <1>t. n \in Nat
    BY OboSorts
  <1>1. SKIP # SELF_DIRECT
    BY DEF SKIP, SELF_DIRECT
  <1>2. CASE SKIP \in flags
    <2>1. Targets = n - 1 /\ SelfN = 0 /\ ~SelfLast
      BY <1>2, <1>t DEF Targets, SelfN, SelfDirect, SelfLast
    <2> QED
      BY <2>1, <1>t
  <1>3. CASE SKIP \notin flags /\ SELF_DIRECT \in flags
    <2>1. Targets = n /\ SelfN = 1 /\ ~SelfLast
      BY <1>3, <1>t DEF Targets, SelfN, SelfDirect, SelfLast
    <2> QED
      BY <2>1, <1>t
  <1>4. CASE SKIP \notin flags /\ SELF_DIRECT \notin flags
    <2>1. Targets = n /\ SelfN = 0 /\ SelfLast
      BY <1>4, <1>t DEF Targets, SelfN, SelfDirect, SelfLast
    <2> QED
      BY <2>1, <1>t
  <1> QED
    BY <1>2, <1>3, <1>4

LEMMA OneByOneSelfInv ==
    ASSUME IInv, NEW a \in Actors, OneByOneSelf(a)
    PROVE  IInv'
  <1>t. /\ TypeOK /\ TokInv /\ ShutInv /\ md \in MdType /\ n \in Nat /\ n <= ThreadsMax
        /\ ThreadsMax \in Nat /\ src \in Nat /\ md.idx \in Nat /\ Threads = 0 .. ThreadsMax - 1
        /\ md.send \in Nat /\ md.err \in Nat /\ queue \in [Threads -> Seq(Kinds)]
        /\ calls \in [Threads -> Nat] /\ job \in [Actors -> Jobs] /\ Main # "done"
    BY OboSorts
  <1>u. /\ job[a].k = "obo" /\ job[a].pc = "self"
        /\ UNCHANGED <<n, mode, flags, src, back, state, batch, cpc, ci, shut,
                       calls, dones, report, ret>>
    BY DEF OneByOneSelf, opVars, histVars
  <1>f. /\ mode = "obo" /\ Past(a) /\ Main = "obo" /\ job[a] \in Jobs /\ job[a].t \in Threads
        /\ a \in Stages /\ Stages = {a} /\ Waiting = {} /\ ~DoneOut
        /\ src \in Threads /\ src < n /\ md.tpt = src /\ ci = 0
        /\ md.mem = "heap" /\ dones = 0 /\ cpc = "ret"
        /\ md.idx \in 0 .. n + 1 /\ Tries \in 0 .. n
        /\ \A u \in Threads : u # src /\ u >= md.idx => u \notin Called
        /\ src \in Called => SelfDirect \/ md.idx = n + 1
        /\ md.send = Cardinality(Called)
        /\ \/ job[a].t # src /\ Tries = Others(md.idx) + SelfN /\ md.idx = n
           \/ job[a].t = src /\ md.idx = n + 1 /\ SelfLast /\ Tries = n
    BY <1>u, StageFacts
  <1>o. /\ Others(n) = n - 1 /\ SelfN \in 0 .. 1
        /\ \/ job[a].t # src /\ Tries = n - 1 + SelfN /\ md.idx = n
           \/ job[a].t = src /\ md.idx = n + 1 /\ SelfLast /\ Tries = n
    BY <1>t, <1>f, OthersFacts
  <1>k. /\ SelfDirect' <=> SelfDirect
        /\ SelfN' = SelfN /\ (SelfLast' <=> SelfLast) /\ Called' = Called
        /\ Targets' = Targets /\ Tries' = md'.send + md'.err
    BY <1>u, OboConst DEF Called, Tries
  <1> DEFINE x == [job[a] EXCEPT !.pc = "fin"]
  <1>x. x \in Jobs /\ x.pc = "fin" /\ x.k = "obo" /\ x.t = job[a].t
    BY <1>u, <1>f DEF Jobs
  <1>1. ASSUME job' = [job EXCEPT ![a] = x], queue' = queue, md' \in MdType, md'.mem = "heap",
               md'.tpt = src, md'.idx \in 0 .. n + 1, md'.send = md.send,
               md'.send + md'.err = Targets, md'.send + md'.err \in 0 .. n,
               md'.idx = md.idx
        PROVE  IInv'
    <2>1. /\ job' \in [Actors -> Jobs] /\ job'[a] = x /\ TokInv' /\ ShutInv'
          /\ Waiting' = {} /\ ~DoneOut' /\ Stages' = {a}
      <3> HIDE DEF x
      <3>1. /\ job' \in [Actors -> Jobs] /\ job'[a] = x /\ TokInv' /\ ShutInv'
            /\ Waiting' = Waiting /\ (DoneOut' <=> DoneOut)
            /\ Stages' = IF x.pc \in {"next", "self", "fin"} THEN Stages \cup {a}
                         ELSE Stages \ {a}
        BY <1>t, <1>u, <1>f, <1>1, <1>x, MoveStep
      <3> QED
        BY <3>1, <1>x, <1>f
    <2>2. TypeOK' /\ StartInv' /\ AtOnceInv' /\ CastInv' /\ SyncInv' /\ DoneInv' /\ AopInv'
      BY <1>t, <1>u, <1>f, <1>1, <2>1, OboFrame
    <2>3. OnceInv'
      BY <1>u, <1>k, <2>1 DEF OnceInv, IInv
    <2>4. OboInv'
      <3>1. /\ mode' = "obo" /\ cpc' = "ret" /\ md'.tpt = src' /\ ci' = 0 /\ md'.mem = "heap"
            /\ dones' = 0 /\ md'.idx \in 0 .. n' + 1 /\ Tries' \in 0 .. n'
            /\ md'.send = Cardinality(Called') /\ md'.send \in Nat
            /\ src' \in Called' => SelfDirect' \/ md'.idx = n' + 1
            /\ \A u \in Threads : u # src' /\ u >= md'.idx => u \notin Called'
        BY <1>u, <1>f, <1>k, <1>t, <1>1
      <3>2. job'[a].pc = "fin" /\ Tries' = Targets'
        BY <1>1, <1>k, <1>x, <2>1
      <3> QED
        BY <3>1, <3>2, <2>1, WorkerTurn
    <2> QED
      BY <2>1, <2>2, <2>3, <2>4 DEF IInv
  <1>2. CASE SelfLast /\ md.tpt # job[a].t
    <2>1. PICK full \in Fulls :
             LET out == Outcome(md.tpt, job[a].t, flags, full)
             IN  /\ md' = [Count(md, out) EXCEPT !.idx = n]
                 /\ IF Sent(out)
                    THEN Deliver(out, a, md.tpt, "obo")
                    ELSE job' = [job EXCEPT ![a].pc = "fin"] /\ queue' = queue
      BY <1>2 DEF OneByOneSelf, SelfLast
    <2> DEFINE out == Outcome(md.tpt, job[a].t, flags, full)
    <2>2. /\ out = "queued" => IsRunning(state[md.tpt])
          /\ md' = [Count(md, out) EXCEPT !.idx = n]
          /\ \/ Sent(out) /\ Deliver(out, a, md.tpt, "obo")
             \/ ~Sent(out) /\ job' = [job EXCEPT ![a] = x] /\ queue' = queue
      BY <2>1, OutcomeFacts
    <2> HIDE DEF out, x
    <2>3. /\ job[a].t # src /\ Tries = n - 1 /\ md.idx = n /\ SelfN = 0 /\ ~SelfDirect
          /\ Targets = n /\ md.send + md.err = n - 1
      <3>1. ~SelfDirect /\ SelfN = 0 /\ Targets = n
        BY <1>2, <1>t DEF SelfDirect, SelfN, SelfLast, Targets
      <3> QED
        BY <3>1, <1>2, <1>f, <1>o, <1>t DEF Tries
    <2>4. /\ src \notin Called
      BY <2>3, <1>f, <1>t
    <2>i. /\ n \in Nat /\ ThreadsMax \in Nat /\ n <= ThreadsMax /\ md.send \in Nat /\ md.err \in Nat
          /\ md.send + md.err = n - 1
      BY <2>3, <1>t
    <2>5. /\ md.send + 1 \in 0 .. ThreadsMax + 1 /\ md.err + 1 \in 0 .. ThreadsMax + 1
          /\ n \in 0 .. ThreadsMax + 1 /\ n \in 0 .. n + 1
      BY <2>i
    <2>6. CASE Sent(out)
      <3>1. Count(md, out) = [md EXCEPT !.send = md.send + 1]
        BY <2>6 DEF Count
      <3>m. /\ md' \in MdType /\ md'.mem = "heap" /\ md'.tpt = src /\ md'.idx = n
            /\ md'.send = md.send + 1 /\ md'.err = md.err
        BY <3>1, <2>2, <2>5, <1>t, <1>f DEF MdType
      <3>2. md'.send + md'.err = n
        BY <3>m, <2>i
      <3>3. /\ queue' \in [Threads -> Seq(Kinds)] /\ job' \in [Actors -> Jobs] /\ TokInv' /\ ShutInv'
            /\ Waiting' = {src} /\ ~DoneOut' /\ Stages' = {}
        <4>1. Deliver(out, a, src, Main) /\ src \notin Waiting
              /\ (out = "queued" => IsRunning(state[src]))
          BY <2>2, <2>6, <1>f
        <4>2. /\ queue' \in [Threads -> Seq(Kinds)] /\ job' \in [Actors -> Jobs]
              /\ TokInv' /\ ShutInv'
              /\ Waiting' = IF Sent(out) /\ Main = Main THEN Waiting \cup {src} ELSE Waiting
              /\ DoneOut' <=> (DoneOut \/ (Sent(out) /\ Main = "done"))
              /\ Stages' = Stages \ {a}
          BY <1>t, <1>u, <1>f, <3>m, <4>1, SendStep
        <4> QED
          BY <4>2, <2>6, <1>f, <1>t
      <3>4. TypeOK' /\ StartInv' /\ AtOnceInv' /\ CastInv' /\ SyncInv' /\ DoneInv' /\ AopInv'
        BY <1>t, <1>u, <1>f, <3>m, <3>3, OboFrame
      <3>5. OnceInv'
        BY <2>4, <1>u, <1>k, <3>3 DEF OnceInv, IInv
      <3>p. PICK t \in Threads : t = src
        BY <1>f
      <3>6. OboInv'
        <4>1. /\ mode' = "obo" /\ cpc' = "ret" /\ md'.tpt = src' /\ ci' = 0 /\ md'.mem = "heap"
              /\ dones' = 0 /\ md'.idx \in 0 .. n' + 1 /\ Tries' \in 0 .. n'
              /\ md'.send = Cardinality(Called') + 1
              /\ src' \in Called' => SelfDirect' \/ md'.idx = n' + 1
              /\ \A u \in Threads : u # src' /\ u >= md'.idx => u \notin Called'
          <5>1. /\ Tries' = n /\ n \in 0 .. n
            BY <1>k, <3>2, <2>i
          <5>2. md'.send = Cardinality(Called') + 1
            BY <1>f, <1>k, <3>m
          <5>3. \A u \in Threads : u # src' /\ u >= md'.idx => u \notin Called'
            BY <1>u, <1>f, <1>k, <2>3, <3>m
          <5> QED
            BY <1>u, <1>f, <1>k, <2>4, <2>5, <3>m, <5>1, <5>2, <5>3
        <4>2. /\ t = src' /\ md'.idx = n' /\ SelfLast' /\ Tries' = n' /\ Waiting' = {t}
          BY <1>2, <1>u, <1>k, <3>m, <3>2, <3>3, <3>p
        <4> QED
          BY <4>1, <4>2, <3>3, MessageTurn
      <3> QED
        BY <3>3, <3>4, <3>5, <3>6 DEF IInv
    <2>7. CASE ~Sent(out)
      <3>1. Count(md, out) = [md EXCEPT !.err = md.err + 1]
        BY <2>7 DEF Count
      <3>m. /\ md' \in MdType /\ md'.mem = "heap" /\ md'.tpt = src /\ md'.idx = n
            /\ md'.send = md.send /\ md'.err = md.err + 1
        BY <3>1, <2>2, <2>5, <1>t, <1>f DEF MdType
      <3>2. md'.send + md'.err = n /\ n \in 0 .. n
        BY <3>m, <2>i
      <3> QED
        BY <1>1, <2>2, <2>3, <2>5, <2>7, <3>m, <3>2
    <2> QED
      BY <2>6, <2>7
  <1>3. CASE ~(SelfLast /\ md.tpt # job[a].t)
    <2>1. job' = [job EXCEPT ![a] = x] /\ md' = md /\ queue' = queue
      BY <1>3 DEF OneByOneSelf, SelfLast
    <2> HIDE DEF x
    <2>2. Tries = Targets
      <3>1. CASE job[a].t # src
        <4>1. ~SelfLast
          BY <3>1, <1>3, <1>f
        <4> QED
          BY <4>1, <3>1, <1>o, <1>f, AllTried
      <3>2. CASE job[a].t = src
        <4>1. Tries # n - 1
          BY <3>2, <1>o, <1>t, <1>f
        <4> QED
          BY <4>1, <3>2, <1>o, <1>f, AllTried
      <3> QED
        BY <3>1, <3>2
    <2> QED
      BY <1>1, <2>1, <2>2, <1>t, <1>f DEF Tries
  <1> QED
    BY <1>2, <1>3

LEMMA OneByOneFinInv ==
    ASSUME IInv, NEW a \in Actors, OneByOneFin(a)
    PROVE  IInv'
  <1>t. /\ TypeOK /\ TokInv /\ ShutInv /\ md \in MdType /\ n \in Nat /\ n <= ThreadsMax
        /\ ThreadsMax \in Nat /\ src \in Nat /\ md.idx \in Nat /\ Threads = 0 .. ThreadsMax - 1
        /\ md.send \in Nat /\ md.err \in Nat /\ queue \in [Threads -> Seq(Kinds)]
        /\ calls \in [Threads -> Nat] /\ job \in [Actors -> Jobs] /\ Main # "done"
    BY OboSorts
  <1>u. /\ job[a].k = "obo" /\ job[a].pc = "fin"
        /\ UNCHANGED <<n, mode, flags, src, back, state, batch, cpc, ci, md, shut,
                       calls, dones, report, ret>>
    BY DEF OneByOneFin, opVars, histVars
  <1>f. /\ mode = "obo" /\ Past(a) /\ Main = "obo"
        /\ a \in Stages /\ Stages = {a} /\ Waiting = {} /\ ~DoneOut
        /\ src \in Threads /\ src < n /\ md.tpt = src /\ ci = 0
        /\ md.mem = "heap" /\ dones = 0 /\ cpc = "ret"
        /\ md.idx \in 0 .. n + 1 /\ Tries \in 0 .. n
        /\ \A u \in Threads : u # src /\ u >= md.idx => u \notin Called
        /\ src \in Called => SelfDirect \/ md.idx = n + 1
        /\ md.send = Cardinality(Called)
        /\ \/ job[a].t = src /\ md.idx = n + 1 /\ SelfLast /\ Tries = n
           \/ Tries = Targets
    BY <1>u, StageFacts
  <1>g. Tries = Targets
    <2>1. CASE SelfLast /\ Tries = n
      <3>1. Tries # n - 1
        BY <2>1, <1>t
      <3> QED
        BY <2>1, <3>1, <1>f, AllTried
    <2> QED
      BY <2>1, <1>f
  <1>k. /\ SelfDirect' <=> SelfDirect
        /\ SelfN' = SelfN /\ (SelfLast' <=> SelfLast) /\ Called' = Called
        /\ Targets' = Targets /\ Tries' = Tries
    BY <1>u, OboConst DEF Called, Tries
  <1>1. PICK full \in Fulls : SendDone(a, job[a].t, full)
    BY DEF OneByOneFin
  <1> DEFINE out == Outcome(md.tpt, job[a].t, {FAIL_DIRECT, SELF_DIRECT}, full)
  <1>2. /\ Deliver(out, a, md.tpt, "done")
        /\ out = "queued" => IsRunning(state[md.tpt])
        /\ ~Sent(out) => shut > 0
    BY <1>1, <1>t, <1>f, OutcomeFacts, SendDoneFacts DEF SendDone
  <1> HIDE DEF out
  <1>3. /\ queue' \in [Threads -> Seq(Kinds)] /\ job' \in [Actors -> Jobs]
        /\ TokInv' /\ ShutInv' /\ Waiting' = {} /\ Stages' = {} /\ (DoneOut' <=> Sent(out))
    <2>1. /\ queue' \in [Threads -> Seq(Kinds)] /\ job' \in [Actors -> Jobs]
          /\ TokInv' /\ ShutInv'
          /\ Waiting' = IF Sent(out) /\ "done" = Main THEN Waiting \cup {md.tpt} ELSE Waiting
          /\ DoneOut' <=> (DoneOut \/ (Sent(out) /\ "done" = "done"))
          /\ Stages' = Stages \ {a}
      BY <1>t, <1>u, <1>f, <1>2, SendStep
    <2> QED
      BY <2>1, <1>f
  <1>4. TypeOK' /\ StartInv' /\ AtOnceInv' /\ CastInv' /\ SyncInv' /\ DoneInv' /\ AopInv'
    BY <1>t, <1>u, <1>f, <1>3, OboFrame
  <1>5. OnceInv'
    BY <1>u, <1>k, <1>3 DEF OnceInv, IInv
  <1>6. OboInv'
    <2>1. md.send = Cardinality(Called') + (IF Waiting' = {} THEN 0 ELSE 1)
      BY <1>3, <1>f, <1>k, <1>t
    <2>2. shut > 0 \/ DoneOut'
      BY <1>2, <1>3
    <2>3. ~(cpc = "next") /\ dones # 1 /\ md.mem # "gone"
      BY <1>f
    <2> QED
      BY <1>u, <1>f, <1>g, <1>k, <1>3, <2>1, <2>2, <2>3 DEF OboInv, NoTurn
  <1> QED
    BY <1>3, <1>4, <1>5, <1>6 DEF IInv

-----------------------------------------------------------------------------
(* The invariant, and what follows from it.                                *)

LEMMA InitInv ==
    ASSUME Init
    PROVE  IInv
  <1>1. /\ ThreadsMax \in Nat \ {0} /\ Modes \subseteq AllModes /\ Sources \subseteq Actors
        /\ Threads = 0 .. ThreadsMax - 1 /\ Actors = 0 .. ThreadsMax /\ Ext = ThreadsMax
        /\ 0 \in Threads
    BY TpMsgAssumption DEF Threads, Actors, Ext
  <1>2. /\ n \in 1 .. ThreadsMax /\ mode \in Modes /\ src \in Sources /\ (src < n \/ src = Ext)
        /\ cpc = "start" /\ ci = 0 /\ shut = 0 /\ dones = 0 /\ ret = "none"
        /\ queue = [t \in Threads |-> <<>>] /\ batch = [t \in Threads |-> <<>>]
        /\ job = [a \in Actors |-> None] /\ calls = [t \in Threads |-> 0]
        /\ report = [send |-> 0, err |-> 0]
        /\ md = [mem |-> "none", active |-> 0, idx |-> 0, send |-> 0, err |-> 0,
                 tpt |-> src, done |-> FALSE]
    BY DEF Init
  <1>3. \A t \in Threads : state[t] \in {RUNNING, STOP} /\ (t = src /\ t < n => state[t] = RUNNING)
    BY DEF Init
  <1>4. TypeOK
    <2>1. None \in Jobs
      BY <1>1 DEF None, Jobs
    <2>2. /\ queue \in [Threads -> Seq(Kinds)] /\ batch \in [Threads -> Seq(Kinds)]
          /\ job \in [Actors -> Jobs] /\ calls \in [Threads -> Nat]
      BY <1>2, <2>1
    <2>3. flags \subseteq BFlags /\ back \subseteq BFlags
      BY DEF Init, BFlags
    <2>4. state \in [Threads -> ThreadStates]
      BY DEF Init, ThreadStates
    <2>5. md \in MdType
      BY <1>1, <1>2 DEF MdType
    <2> QED
      BY <1>1, <1>2, <2>2, <2>3, <2>4, <2>5 DEF TypeOK, MdType
  <1>5. /\ \A k \in Kinds, t \in Threads : ~Out(k, t) /\ Uniq(k, t)
        /\ \A a \in Actors : job[a] = None /\ job[a].pc = "run"
    <2>1. /\ \A t \in Threads : queue[t] = <<>> /\ batch[t] = <<>>
          /\ \A a \in Actors : job[a] = None
      BY <1>2
    <2>2. None.k = "none" /\ None.pc = "run" /\ "none" \notin Kinds
      BY DEF None, Kinds
    <2>3. \A k \in Kinds : ~Holds(<<>>, k) /\ Single(<<>>, k)
      BY SeqFacts
    <2>4. \A a \in Actors, k \in Kinds, t \in Threads : ~Runs(a, k, t)
      BY <2>1, <2>2 DEF Runs
    <2> QED
      BY <2>1, <2>2, <2>3, <2>4 DEF Out, Uniq
  <1>6. NothingOut /\ Called = {}
    <2>1. Main \in Kinds /\ "done" \in Kinds
      BY <1>4, PlaceTypes DEF Kinds
    <2>2. Waiting = {} /\ ~DoneOut
      BY <1>5, <2>1 DEF Waiting, DoneOut
    <2>3. Decs = {} /\ Lasts = {} /\ Stages = {}
      BY <1>5 DEF Decs, Lasts, Stages, At
    <2>4. Called = {}
      BY <1>2 DEF Called
    <2> QED
      BY <2>2, <2>3, <2>4 DEF NothingOut
  <1>7. TokInv
    BY <1>5 DEF TokInv, Past, Kinds
  <1>8. OnceInv /\ StartInv
    <2>1. \A t \in Threads : calls[t] <= 1
      BY <1>2
    <2>2. src \in Actors /\ (src \in Threads => src < n)
      BY <1>1, <1>2
    <2>3. job[src] = None
      BY <2>2, <1>2
    <2> QED
      BY <1>2, <1>6, <2>1, <2>2, <2>3 DEF OnceInv, StartInv
  <1>9. AtOnceInv /\ CastInv /\ SyncInv /\ DoneInv /\ OboInv /\ AopInv
    <2>1. md.mem = "none" /\ md.tpt = src /\ md.done = FALSE /\ Waiting = {} /\ ~DoneOut
      BY <1>2, <1>6 DEF NothingOut
    <2> QED
      BY <1>2, <1>6, <2>1 DEF AtOnceInv, CastInv, SyncInv, DoneInv, OboInv, AopInv
  <1>10. ShutInv
    <2>1. \A t \in Threads : queue[t] = <<>> /\ batch[t] = <<>> /\ ~Out("shut", t)
      BY <1>2, <1>5 DEF Kinds
    <2>2. src \in Threads => state[src] = RUNNING
      BY <1>1, <1>2, <1>3
    <2> QED
      BY <1>3, <2>1, <2>2 DEF ShutInv
  <1> QED
    BY <1>4, <1>7, <1>8, <1>9, <1>10 DEF IInv

\* The invariant of an operation and the loops around it: every message has its
\* place, and the counters agree with the messages, the proxies and the calls.
THEOREM Inductive == Spec => []IInv
  <1>1. Init => IInv
    BY InitInv
  <1>2. IInv /\ [Next]_vars => IInv'
    <2> SUFFICES ASSUME IInv, [Next]_vars
                 PROVE  IInv'
      OBVIOUS
    <2>1. CASE Caller
      BY <2>1, BsendSingleInv, CbsendSingleInv, CbsendRefusedInv, BsendStartInv, CbsendStartInv,
         BroadcastSendInv, BsendEndsInv, CbsendEndInv, CallerNextInv, AsyncOpInv, AsyncOpAgainInv
         DEF Caller
    <2>2. ASSUME NEW a \in Actors, Callback(a)
          PROVE  IInv'
      BY <2>2, RunCallbackInv, AsyncOpCallbackInv, SyncProxyInv, SyncDecInv, SyncLastInv,
         OneByOneProxyInv, OneByOneNextInv, OneByOneSelfInv, OneByOneFinInv, DoneProxyInv
         DEF Callback
    <2>3. CASE Shutdown \/ (\E t \in Threads : Loop(t)) \/ UNCHANGED vars
      BY <2>3, TransportInv
    <2> QED
      BY <2>1, <2>2, <2>3 DEF Next, Finished
  <1> QED
    BY <1>1, <1>2, PTL DEF Spec

\* Without a message, a done_cb or a proxy under way nothing refers to the data.
LEMMA NoReference ==
    ASSUME IInv, Waiting = {}, ~DoneOut, Decs = {}, Lasts = {}, Stages = {}
    PROVE  ~Refers
  <1> DEFINE Proxies == {"sync", "obo", "done", "aop"}
  <1>1. Proxies \subseteq Kinds \ {"shut", "none"}
    BY DEF Kinds
  <1>2. \A k \in Proxies, t \in Threads : ~Out(k, t)
    <2>1. \A k \in Proxies, t \in Threads : Out(k, t) => k \in {Main, "done"}
      BY <1>1 DEF IInv, TokInv
    <2> QED
      BY <2>1 DEF Waiting, DoneOut
  <1>3. \A a \in Actors : job[a].k \notin Proxies
    <2> SUFFICES ASSUME NEW a \in Actors, job[a].k \in Proxies
                 PROVE  FALSE
      OBVIOUS
    <2>1. CASE Past(a)
      BY <2>1 DEF IInv, TokInv, At, Decs, Lasts, Stages
    <2>2. CASE ~Past(a)
      <3>1. job[a].k \in Kinds /\ job[a].t \in Threads
        BY <1>1, JobFacts
      <3>2. Out(job[a].k, job[a].t)
        BY <2>2, <3>1, JobFacts
      <3> QED
        BY <3>1, <3>2, <1>2
    <2> QED
      BY <2>1, <2>2
  <1>4. \A t \in Threads, k \in Proxies : ~Holds(queue[t], k) /\ ~Holds(batch[t], k)
    BY <1>2 DEF Out
  <1> QED
    BY <1>3, <1>4 DEF Refers, Holds

\* A proxy past its callback belongs to the mode of the operation.
LEMMA PastOfMode ==
    ASSUME IInv
    PROVE  /\ mode \notin {"sync", "cb"} => Decs = {} /\ Lasts = {}
           /\ mode # "obo" => Stages = {}
           /\ mode \notin {"cb", "obo"} => ~DoneOut
  <1>1. \A a \in Actors : /\ job[a].pc \in {"dec", "last"} => mode \in {"sync", "cb"}
                          /\ job[a].pc \in {"next", "self", "fin"} => mode = "obo"
    BY DEF IInv, TokInv, Past, At
  <1>2. DoneOut => mode \in {"cb", "obo"}
    BY DEF IInv, TokInv, DoneOut
  <1> QED
    BY <1>1, <1>2 DEF Decs, Lasts, Stages, At

\* A broadcast with a count of zero is over.
LEMMA CountIsZero ==
    ASSUME IInv, mode \in {"sync", "cb"}, md.mem # "none", md.active = 0
    PROVE  /\ Waiting = {} /\ Decs = {} /\ Left = 0 /\ Failed = 0
           /\ md.send = Cardinality(Called) /\ md.send + md.err = InitActive
  <1>t. /\ TypeOK /\ n \in Nat /\ src \in Nat /\ ci \in Nat /\ md.err \in Nat /\ md.send \in Nat
    BY DataSorts, Sorts DEF IInv
  <1>1. /\ md.active = Cardinality(Waiting) + Cardinality(Decs) + Left + Failed
        /\ md.send = Cardinality(Waiting) + Cardinality(Called)
        /\ md.send + md.err + Left = InitActive /\ ci \in 0 .. n
    BY DEF IInv, CastInv
  <1>2. /\ IsFiniteSet(Waiting) /\ IsFiniteSet(Decs) /\ Cardinality(Waiting) \in Nat
        /\ Cardinality(Decs) \in Nat /\ Cardinality(Called) \in Nat
    BY <1>t, Sizes
  <1>3. Left \in Nat /\ Failed \in Nat
    BY <1>t, <1>1 DEF Left, Failed
  <1>4. Cardinality(Waiting) = 0 /\ Cardinality(Decs) = 0 /\ Left = 0 /\ Failed = 0
    <2>1. PICK w \in Nat, d \in Nat, l \in Nat, f \in Nat :
             w = Cardinality(Waiting) /\ d = Cardinality(Decs) /\ l = Left /\ f = Failed
      BY <1>2, <1>3, Zenon
    <2>2. w + d + l + f = 0
      BY <1>1, <2>1, Zenon
    <2>3. w = 0 /\ d = 0 /\ l = 0 /\ f = 0
      BY <2>2
    <2> QED
      BY <2>1, <2>3, Zenon
  <1>5. Waiting = {} /\ Decs = {}
    BY <1>2, <1>4, FS_EmptySet
  <1>6. md.send = Cardinality(Called) /\ md.send + md.err = InitActive
    BY <1>1, <1>2, <1>4, <1>t
  <1> QED
    BY <1>4, <1>5, <1>6

\* tpt_msg_cbsend() and tpt_msg_async_op_cb_free(): the message data is freed
\* when no message, proxy or turn of the send loop refers to it, and an
\* asynchronous operation has one owner at a time, in pools of any size, for
\* all flags, whichever threads are down, whatever the pipes do and whenever
\* tp_shutdown() runs.
THEOREM DataIsKept == Spec => []DataOutlivesUse
  <1>1. IInv => DataOutlivesUse
    <2> SUFFICES ASSUME IInv
                 PROVE  DataOutlivesUse
      OBVIOUS
    <2>t. TypeOK /\ n \in Nat /\ src \in Nat /\ ci \in Nat /\ md.err \in Nat /\ md.active \in Nat
      BY DataSorts, Sorts DEF IInv
    <2>p. /\ mode \notin {"sync", "cb"} => Decs = {} /\ Lasts = {}
          /\ mode # "obo" => Stages = {}
          /\ mode \notin {"cb", "obo"} => ~DoneOut
      BY PastOfMode
    <2>1. ASSUME mode = "cb", md.mem = "gone"
          PROVE  /\ ~Refers
                 /\ cpc \in {"loop", "end"} =>
                       /\ md.err = 0
                       /\ \A i \in ci .. n - 1 : i = src /\ SKIP \in flags
      <3>1. ~(md.active > 0) /\ Lasts = {} /\ ~DoneOut
        BY <2>1 DEF IInv, DoneInv
      <3>2. Waiting = {} /\ Decs = {} /\ Left = 0 /\ Failed = 0
        BY <2>1, <2>t, <3>1, CountIsZero
      <3>3. ~Refers
        BY <2>1, <2>p, <3>1, <3>2, NoReference
      <3>4. cpc \in {"loop", "end"} => md.err = 0
        BY <3>2 DEF Failed
      <3>5. \A i \in ci .. n - 1 : i = src /\ SKIP \in flags
        <4>1. ci \in 0 .. n
          BY <2>1 DEF IInv, CastInv
        <4> QED
          BY <2>t, <3>2, <4>1 DEF Left
      <3> QED
        BY <3>3, <3>4, <3>5
    <2>2. ASSUME mode = "obo", md.mem = "gone"
          PROVE  ~Refers /\ cpc \notin {"loop", "end"}
      <3>1. dones = 1 /\ cpc \notin {"loop", "end"}
        BY <2>2 DEF IInv, OboInv
      <3>2. NoTurn
        BY <2>2, <3>1 DEF IInv, OboInv
      <3> QED
        BY <2>2, <2>p, <3>1, <3>2, NoReference DEF NoTurn
    <2>3. ASSUME mode = "aop"
          PROVE  /\ md.mem = "gone" => ~Refers /\ cpc \notin {"loop", "end"}
                 /\ AsyncOpOwnership
      <3>1. Waiting = {} => ~Refers
        BY <2>3, <2>p, NoReference
      <3>2. /\ cpc \in {"start", "again", "ret"} /\ Waiting \subseteq {md.tpt}
            /\ Called \subseteq {md.tpt}
            /\ cpc = "again" => md.mem = "heap"
            /\ cpc = "ret" => /\ ret # "0" => Waiting = {} /\ Called = {} /\ md.mem = "heap"
                              /\ ret = "0" => /\ md.mem = "gone" <=> Called = {md.tpt}
                                              /\ md.mem = "heap" <=> Waiting = {md.tpt}
        BY <2>3 DEF IInv, AopInv
      <3>3. cpc = "start" => md.mem = "none"
        BY DEF IInv, StartInv
      <3>4. md.mem = "gone" => Waiting = {}
        BY <3>2, <3>3
      <3>5. Calls = Cardinality(Called)
        BY DEF Calls, Called
      <3>6. Cardinality({}) = 0 /\ Cardinality({md.tpt}) = 1
        BY FS_EmptySet, FS_Singleton
      <3>7. Called = {} \/ Called = {md.tpt}
        BY <3>2
      <3> QED
        BY <3>1, <3>2, <3>4, <3>5, <3>6, <3>7 DEF AsyncOpOwnership
    <2>4. mode # "aop" => AsyncOpOwnership
      BY DEF AsyncOpOwnership
    <2> QED
      BY <2>1, <2>2, <2>3, <2>4 DEF DataOutlivesUse
  <1> QED
    BY <1>1, Inductive, PTL

\* No thread runs msg_cb twice, done_cb runs once at most and is given the number
\* of threads that ran msg_cb and the number of failed sends, which add up to
\* the threads of the pool; with TP_BMSG_F_SYNC all messages that were sent have
\* been processed at the return.
THEOREM ReportIsRight == Spec => []DoneReport
  <1>1. IInv => DoneReport
    <2> SUFFICES ASSUME IInv
                 PROVE  DoneReport
      OBVIOUS
    <2>t. /\ TypeOK /\ mode \in AllModes /\ dones \in Nat /\ md.active \in Nat /\ md.send \in Nat
          /\ md.err \in Nat /\ Cardinality(Called) \in Nat
          /\ cpc = "start" => dones = 0
      BY DataSorts, Sorts, Sizes DEF IInv, StartInv
    <2>c. Calls = Cardinality(Called)
      BY DEF Calls, Called
    <2>1. SyncReturn
      <3> SUFFICES ASSUME mode = "sync", n > 1 \/ src = Ext, cpc = "ret"
                   PROVE  Cardinality(Called) = md.send
        BY <2>c DEF SyncReturn
      <3>1. md.mem # "none"
        <4>1. n \in Nat
          BY <2>t, Sorts
        <4> QED
          BY <4>1 DEF IInv, AtOnceInv
      <3>2. md.active = 0
        BY <3>1 DEF IInv, SyncInv
      <3> QED
        BY <3>1, <3>2, CountIsZero
    <2>2. \A t \in Threads : calls[t] <= 1
      BY DEF IInv, OnceInv
    <2>3. CASE mode \in {"bsend", "sync", "aop"}
      <3>1. dones = 0
        BY <2>3 DEF IInv, SyncInv, AopInv
      <3> QED
        BY <3>1, <2>t, <2>1, <2>2 DEF DoneReport
    <2>4. CASE mode \in {"cb", "obo"} /\ md.mem = "none"
      <3>1. cpc \in {"start", "ret"}
        BY <2>4 DEF IInv, CastInv, OboInv
      <3>2. CASE cpc = "start"
        BY <3>2, <2>t, <2>1, <2>2 DEF DoneReport
      <3>3. CASE cpc = "ret"
        <4>1. /\ dones \in 0 .. 1
              /\ dones = 1 => /\ report.send = Cardinality(Called)
                              /\ report.send + report.err = Targets
          BY <2>4, <3>3 DEF IInv, AtOnceInv
        <4> QED
          BY <4>1, <2>t, <2>c, <2>1, <2>2 DEF DoneReport
      <3> QED
        BY <3>1, <3>2, <3>3
    <2>5. CASE mode = "cb" /\ md.mem # "none"
      <3>1. /\ dones \in 0 .. 1 /\ (dones = 1 => md.mem = "gone")
            /\ dones = 1 => report = [send |-> md.send, err |-> md.err]
            /\ md.active > 0 => md.mem = "heap"
        BY <2>5 DEF IInv, DoneInv
      <3>2. dones = 1 => md.active = 0
        BY <3>1, <2>t
      <3>3. InitActive = Targets
        <4>1. src # Ext /\ n \in Nat
          BY <2>5, <2>t, Sorts DEF IInv, AtOnceInv
        <4> QED
          BY <4>1 DEF InitActive, Targets
      <3>4. dones = 1 => md.send = Cardinality(Called) /\ md.send + md.err = Targets
        BY <2>5, <3>2, <3>3, CountIsZero
      <3> QED
        BY <3>1, <3>4, <2>t, <2>c, <2>1, <2>2 DEF DoneReport
    <2>6. CASE mode = "obo" /\ md.mem # "none"
      <3>1. /\ dones \in 0 .. 1
            /\ md.send = Cardinality(Called) + (IF Waiting = {} THEN 0 ELSE 1)
            /\ dones = 1 => /\ Waiting = {} /\ Tries = Targets
                            /\ report = [send |-> md.send, err |-> md.err]
        BY <2>6 DEF IInv, OboInv, NoTurn
      <3>2. dones = 1 => md.send = Cardinality(Called) /\ md.send + md.err = Targets
        BY <3>1, <2>t DEF Tries
      <3> QED
        BY <3>1, <3>2, <2>t, <2>c, <2>1, <2>2 DEF DoneReport
    <2> QED
      BY <2>t, <2>3, <2>4, <2>5, <2>6 DEF AllModes
  <1> QED
    BY <1>1, Inductive, PTL

\* When all is quiet and the pool has not been shut down, the message data of a
\* tpt_msg_cbsend() has been freed, whichever sends failed; one by one, if
\* another thread than the caller was reached.
THEOREM NothingLeaks == Spec => []NoLeak
  <1>1. IInv => NoLeak
    <2> SUFFICES ASSUME IInv, Quiet, shut = 0, md.mem = "heap",
                        \/ mode = "cb"
                        \/ mode = "obo" /\ \E t \in Threads \ {src} : calls[t] > 0
                 PROVE  FALSE
      BY DEF NoLeak
    <2>t. TypeOK /\ n \in Nat /\ src \in Nat /\ cpc = "ret" /\ Main \in Kinds /\ "done" \in Kinds
          /\ None.k = "none" /\ None.pc = "run" /\ "none" \notin Kinds
      BY Sorts, PlaceTypes DEF IInv, Quiet, Kinds
    <2>1. \A t \in Threads : queue[t] = <<>> /\ batch[t] = <<>>
      BY DEF Quiet, IInv, ShutInv
    <2>2. \A a \in Actors : job[a] = None
      BY DEF Quiet
    <2>3. \A k \in Kinds, t \in Threads : ~Out(k, t)
      <3>1. \A k \in Kinds, t \in Threads, a \in Actors : ~Runs(a, k, t)
        BY <2>2, <2>t DEF Runs
      <3>2. \A k \in Kinds : ~Holds(<<>>, k)
        BY SeqFacts
      <3> QED
        BY <3>1, <3>2, <2>1 DEF Out
    <2>4. Waiting = {} /\ ~DoneOut
      BY <2>3, <2>t DEF Waiting, DoneOut
    <2>5. Decs = {} /\ Lasts = {} /\ Stages = {}
      BY <2>2, <2>t DEF Decs, Lasts, Stages, At
    <2>6. CASE mode = "cb"
      <3>1. /\ md.active = Cardinality(Waiting) + Cardinality(Decs) + Left + Failed /\ ci = n
        BY <2>6, <2>t DEF IInv, CastInv
      <3>2. Cardinality({}) = 0
        BY FS_EmptySet
      <3>3. Left = 0 /\ Failed = 0
        <4>1. ~(n <= src /\ src < n) /\ n - n - 0 = 0
          BY <2>t
        <4> QED
          BY <3>1, <4>1, <2>t DEF Left, Failed
      <3>4. md.active = 0
        BY <3>1, <3>2, <3>3, <2>4, <2>5
      <3>5. shut > 0
        BY <3>4, <2>4, <2>5, <2>6 DEF IInv, DoneInv
      <3> QED
        BY <3>5
    <2>7. CASE mode = "obo" /\ \E t \in Threads \ {src} : calls[t] > 0
      <3>1. shut > 0 \/ \A t \in Threads : t # src => t \notin Called
        BY <2>7, <2>t, <2>4, <2>5 DEF IInv, OboInv, NoTurn
      <3> QED
        BY <3>1, <2>7 DEF Called
    <2> QED
      BY <2>6, <2>7
  <1> QED
    BY <1>1, Inductive, PTL
====
