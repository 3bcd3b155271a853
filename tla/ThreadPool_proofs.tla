-------------------------- MODULE ThreadPool_proofs --------------------------
(***************************************************************************)
(* Proofs about ThreadPool for every number of threads, every capacity of  *)
(* the pipes, every number of messages and every set of callers.           *)
(***************************************************************************)
EXTENDS ThreadPool, SequenceTheorems, TLAPS

-----------------------------------------------------------------------------
(* The inductive invariant.                                                *)

\* Loop indices of the main thread stay inside the array of threads, and a
\* handler never runs on an empty batch.
IndexInv ==
    /\ mpc \in {"init_threads", "threads_create", "spawn", "join"} => mi \in Threads
    /\ \A t \in Threads :
          wpc[t] \in {"process", "process_full"} => batch[t] # <<>>

\* No thread exists before tp_threads_create() comes to its slot.
SpawnInv ==
    /\ mpc \in {"tp_create", "init_threads", "created"} =>
          \A t \in Threads : wpc[t] = "none"
    /\ mpc \in {"threads_create", "spawn"} =>
          \A t \in Threads : t >= mi => wpc[t] = "none"
    /\ mpc = "spawn" => state[mi] = STARTING

\* What the state of a thread says of where it is.
StateInv ==
    \A t \in Threads :
        /\ state[t] = STOP => Left(t)
        /\ wpc[t] \in {"hook", "loop", "read", "process", "process_full",
                       "on_stop", "clear"} => state[t] \in {RUNNING, STOPPING}

\* The threads tp_shutdown_wait() has passed.
WaitInv ==
    /\ mpc \in {"wait", "join"} => \A t \in Threads : t < mi => Left(t)
    /\ mpc \in {"uninit", "done"} => \A t \in Threads : Left(t)

IInv == TypeOK /\ IndexInv /\ SpawnInv /\ StateInv /\ WaitInv

-----------------------------------------------------------------------------
\* What SubSeq, used to split a pipe into the batch read and the rest, yields.
LEMMA SubSeqType ==
    ASSUME NEW S, NEW s \in Seq(S), NEW n \in 0 .. Len(s)
    PROVE  /\ SubSeq(s, 1, n) \in Seq(S)
           /\ SubSeq(s, n + 1, Len(s)) \in Seq(S)
           /\ n # 0 => SubSeq(s, 1, n) # <<>>
  <1>1. Len(s) \in Nat
    BY LenProperties
  <1>2. n \in Nat /\ n <= Len(s)
    BY <1>1
  <1>3. SubSeq(s, 1, n) \in Seq(S) /\ Len(SubSeq(s, 1, n)) = n
    BY <1>1, <1>2, SubSeqProperties
  <1>4. SubSeq(s, n + 1, Len(s)) \in Seq(S)
    BY <1>1, <1>2, SubSeqProperties
  <1> QED
    BY <1>2, <1>3, <1>4

\* What is left of a batch after its first message.
LEMMA TailNotEmpty ==
    ASSUME NEW S, NEW s \in Seq(S), Len(s) > 1
    PROVE  Tail(s) # <<>>
  <1>1. Len(s) \in Nat /\ s # <<>>
    BY LenProperties
  <1>2. Len(Tail(s)) = Len(s) - 1
    BY <1>1, HeadTailProperties
  <1>3. Len(Tail(s)) # 0
    BY <1>1, <1>2
  <1>4. Len(<<>>) = 0
    OBVIOUS
  <1> QED
    BY <1>3, <1>4

\* The number of messages one read() returns.
LEMMA ReadCount ==
    ASSUME TypeOK, NEW t \in Threads, ThreadRead(t)
    PROVE  \E n \in 0 .. Len(pipe[t]) :
             /\ batch' = [batch EXCEPT ![t] = SubSeq(pipe[t], 1, n)]
             /\ pipe' = [pipe EXCEPT ![t] = SubSeq(pipe[t], n + 1, Len(pipe[t]))]
             /\ n = 0 => wpc' = [wpc EXCEPT ![t] = "loop"]
  <1> DEFINE n == IF Len(pipe[t]) < ReadMax THEN Len(pipe[t]) ELSE ReadMax
  <1>1. Len(pipe[t]) \in Nat
    BY LenProperties DEF TypeOK
  <1>2. n \in 0 .. Len(pipe[t])
    BY <1>1, ThreadPoolAssumption
  <1>3. /\ batch' = [batch EXCEPT ![t] = SubSeq(pipe[t], 1, n)]
        /\ pipe' = [pipe EXCEPT ![t] = SubSeq(pipe[t], n + 1, Len(pipe[t]))]
    BY DEF ThreadRead
  <1>4. ASSUME n = 0 PROVE wpc' = [wpc EXCEPT ![t] = "loop"]
    <2>1. wpc' = [wpc EXCEPT ![t] = CASE n = 0 -> "loop"
                                      [] n = ReadMax -> "process_full"
                                      [] OTHER -> "process"]
      BY DEF ThreadRead
    <2>2. n # ReadMax
      BY <1>4, ThreadPoolAssumption
    <2> HIDE DEF n
    <2> QED
      BY <2>1, <2>2, <1>4
  <1> HIDE DEF n
  <1> QED
    BY <1>2, <1>3, <1>4

\* The initial state satisfies the invariant.
LEMMA InitIInv == Init => IInv
  <1> SUFFICES ASSUME Init PROVE IInv
    OBVIOUS
  <1> USE DEF Init
  <1>1. TypeOK
    <2>1. 0 \in Slots /\ 0 \in Threads
      BY ThreadPoolAssumption DEF Slots, Threads
    <2>2. pipe \in [Threads -> Seq(Works \cup {Shut})]
          /\ batch \in [Threads -> Seq(Works \cup {Shut})]
      OBVIOUS
    <2> QED
      BY <2>1, <2>2 DEF TypeOK, MainPcs, Ops, WorkerPcs, ShutdownPcs, WorkStates,
         ThreadStates, STOP, Idle
  <1>2. IndexInv /\ SpawnInv /\ StateInv /\ WaitInv
    BY DEF IndexInv, SpawnInv, StateInv, WaitInv, Left
  <1> QED
    BY <1>1, <1>2 DEF IInv

-----------------------------------------------------------------------------
\* Which indices are slots, threads and actors.
LEMMA SlotFacts ==
    /\ Threads \subseteq Slots /\ Threads \subseteq Actors
    /\ 0 \in Threads /\ 0 \in Slots /\ Pvt \in Slots /\ Pvt \notin Threads
    /\ Main \in Actors /\ Sig \in Actors
  BY ThreadPoolAssumption DEF Threads, Slots, Actors, Pvt

\* Arithmetic of the loops over the threads.
LEMMA IndexFacts ==
    /\ \A t \in Threads : t \in Nat /\ t + 1 \in Slots
    /\ \A i \in Slots : i \in Nat /\ (i \notin Threads => \A t \in Threads : t < i)
    /\ \A i, t \in Threads : /\ t >= i + 1 => t >= i /\ t # i
                             /\ t < i + 1 => t < i \/ t = i
    /\ \A t \in Threads : t >= t /\ ~(t < 0)
  BY ThreadPoolAssumption DEF Threads, Slots

\* An update of a function with a value of its range keeps its type.
LEMMA ExceptType ==
    ASSUME NEW S, NEW T, NEW f \in [S -> T], NEW x, NEW v \in T
    PROVE  [f EXCEPT ![x] = v] \in [S -> T]
  OBVIOUS

\* Counting a call of a hook.
LEMMA CountType ==
    ASSUME NEW S, NEW f \in [S -> Nat], NEW x \in S
    PROVE  [f EXCEPT ![x] = @ + 1] \in [S -> Nat]
  OBVIOUS

-----------------------------------------------------------------------------
\* A step of the pool, taken apart for the invariants about where threads are:
\* a step of the main thread, of a pool thread, of tp_shutdown() on the virtual
\* thread, or one that leaves program counters, states and batches alone.
LEMMA NextCases ==
    ASSUME [Next]_vars
    PROVE  \/ CreatePvt \/ CreateThreads \/ ThreadsCreate
           \/ ThreadsCreateMark \/ ThreadsCreateSpawn
           \/ CallShutdown \/ ReturnFromShutdown \/ CallWait
           \/ WaitOne \/ Join \/ WaitReturn \/ DestroyFree
           \/ \E a \in Actors : ShutdownSet(a)
           \/ \E t \in Threads : WorkerStep(t)
           \/ UNCHANGED <<mpc, mi, wpc, state, batch>>
  <1> USE DEF poolVars, mainVars, msgVars
  <1>1. CASE Application
    BY <1>1 DEF Application, Signal, PoolShutdown, SendWork
  <1>2. ASSUME NEW a \in Actors, ShutdownStep(a)
        PROVE  ShutdownSet(a) \/ UNCHANGED <<mpc, mi, wpc, state, batch>>
    BY <1>2 DEF ShutdownStep, ShutdownTest, ShutdownSend
  <1>3. CASE UNCHANGED vars
    BY <1>3 DEF vars
  <1> QED
    BY <1>1, <1>2, <1>3 DEF Next, MainStep, Finished

\* A call of tp_shutdown() puts a legal activation on the stack.
LEMMA CalledType ==
    ASSUME NEW f \in [Actors -> [pc: ShutdownPcs, i: Slots]], NEW a \in Actors
    PROVE  [f EXCEPT ![a] = [pc |-> "test", i |-> 0]]
              \in [Actors -> [pc: ShutdownPcs, i: Slots]]
  BY SlotFacts DEF ShutdownPcs

\* A step of tp_shutdown() on the stack of an actor writes a legal activation.
LEMMA ShutdownType ==
    ASSUME TypeOK, NEW a \in Actors, ShutdownStep(a)
    PROVE  TypeOK'
  <1> USE SlotFacts DEF TypeOK, ShutdownPcs, Idle, poolVars, mainVars, msgVars, hookVars
  <1>1. CASE ShutdownTest(a)
    BY <1>1 DEF ShutdownTest
  <1>2. CASE ShutdownSet(a)
    <2>1. state' \in [Slots -> ThreadStates]
      BY <1>2 DEF ShutdownSet, ThreadStates
    <2>3. stops' \in [Slots -> Nat]
      BY <1>2, CountType DEF ShutdownSet
    <2>4. shutdown' \in Nat
      BY <1>2 DEF ShutdownSet
    <2>2. sd' \in [Actors -> [pc: ShutdownPcs, i: Slots]]
      BY <1>2 DEF ShutdownSet
    <2> QED
      BY <1>2, <2>1, <2>2, <2>3, <2>4 DEF ShutdownSet
  <1>3. CASE ShutdownSend(a)
    <2>1. sd[a] \in [pc: ShutdownPcs, i: Slots]
      OBVIOUS
    <2>2. pipe' \in [Threads -> Seq(Works \cup {Shut})]
      <3>1. \A t \in Threads : Append(pipe[t], Shut) \in Seq(Works \cup {Shut})
        BY AppendProperties
      <3>2. pipe' = pipe \/ \E t \in Threads :
                pipe' = [pipe EXCEPT ![t] = Append(pipe[t], Shut)]
        BY <1>3 DEF ShutdownSend
      <3> QED
        BY <3>1, <3>2, ExceptType
    <2>3. sd' \in [Actors -> [pc: ShutdownPcs, i: Slots]]
      <3>1. CASE sd[a].i \in Threads
        <4>1. sd' = [sd EXCEPT ![a].i = sd[a].i + 1]
          BY <1>3, <3>1 DEF ShutdownSend
        <4>2. [sd[a] EXCEPT !.i = sd[a].i + 1] \in [pc: ShutdownPcs, i: Slots]
          BY <2>1, <3>1, IndexFacts
        <4> QED
          BY <4>1, <4>2
      <3>2. CASE sd[a].i \notin Threads
        <4>1. sd' = [sd EXCEPT ![a] = Idle]
          BY <1>3, <3>2 DEF ShutdownSend
        <4> QED
          BY <4>1, ExceptType
      <3> QED
        BY <3>1, <3>2
    <2> QED
      BY <1>3, <2>2, <2>3 DEF ShutdownSend
  <1> QED
    BY <1>1, <1>2, <1>3 DEF ShutdownStep

\* A step of a pool thread keeps the types.
LEMMA WorkerType ==
    ASSUME TypeOK, IndexInv, NEW t \in Threads, WorkerStep(t)
    PROVE  TypeOK'
  <1> DEFINE Msgs == Works \cup {Shut}
  <1> USE SlotFacts DEF TypeOK, poolVars, mainVars, msgVars, hookVars, WorkerPcs
  <1>1. CASE ThreadStart(t)
    <2>1. starts' \in [Slots -> Nat]
      BY <1>1, CountType DEF ThreadStart
    <2> QED
      BY <1>1, <2>1 DEF ThreadStart, ThreadStates
  <1>2. CASE ThreadEnterLoop(t)
    BY <1>2 DEF ThreadEnterLoop
  <1>3. CASE ThreadWake(t)
    BY <1>3 DEF ThreadWake
  <1>4. CASE ThreadRead(t)
    <2>1. PICK n \in 0 .. Len(pipe[t]) :
             /\ batch' = [batch EXCEPT ![t] = SubSeq(pipe[t], 1, n)]
             /\ pipe' = [pipe EXCEPT ![t] = SubSeq(pipe[t], n + 1, Len(pipe[t]))]
      BY <1>4, ReadCount
    <2>2. SubSeq(pipe[t], 1, n) \in Seq(Msgs)
          /\ SubSeq(pipe[t], n + 1, Len(pipe[t])) \in Seq(Msgs)
      BY SubSeqType
    <2>3. batch' \in [Threads -> Seq(Msgs)] /\ pipe' \in [Threads -> Seq(Msgs)]
      BY <2>1, <2>2
    <2>4. wpc' \in [Threads -> WorkerPcs]
      BY <1>4 DEF ThreadRead
    <2> QED
      BY <1>4, <2>3, <2>4 DEF ThreadRead
  <1>5. CASE ThreadProcess(t)
    <2>1. batch[t] \in Seq(Msgs) /\ batch[t] # <<>>
      BY <1>5 DEF ThreadProcess, IndexInv
    <2>2. batch' \in [Threads -> Seq(Msgs)]
      <3>1. Tail(batch[t]) \in Seq(Msgs)
        BY <2>1
      <3>2. batch' = [batch EXCEPT ![t] = Tail(batch[t])]
        BY <1>5 DEF ThreadProcess
      <3> QED
        BY <3>1, <3>2, ExceptType
    <2>3. state' \in [Slots -> ThreadStates]
      BY <1>5 DEF ThreadProcess, ThreadStates
    <2>4. work' \in [Works -> WorkStates]
      BY <1>5 DEF ThreadProcess, WorkStates
    <2>5. wpc' \in [Threads -> WorkerPcs]
      BY <1>5 DEF ThreadProcess
    <2> QED
      BY <1>5, <2>2, <2>3, <2>4, <2>5 DEF ThreadProcess
  <1>6. CASE ThreadOnStop(t)
    <2>1. stops' \in [Slots -> Nat]
      BY <1>6, CountType DEF ThreadOnStop
    <2> QED
      BY <1>6, <2>1 DEF ThreadOnStop
  <1>7. CASE ThreadClear(t)
    BY <1>7 DEF ThreadClear, ThreadStates
  <1>8. CASE ThreadExit(t)
    BY <1>8 DEF ThreadExit
  <1> QED
    BY <1>1, <1>2, <1>3, <1>4, <1>5, <1>6, <1>7, <1>8 DEF WorkerStep

\* A step of the main thread inside a function of the pool keeps the types.
LEMMA MainType ==
    ASSUME TypeOK, IndexInv, MainStep
    PROVE  TypeOK'
  <1> USE SlotFacts DEF TypeOK, IndexInv, poolVars, mainVars, msgVars, hookVars
  <1>1. CASE CreatePvt
    <2>1. state' \in [Slots -> ThreadStates]
      BY <1>1 DEF CreatePvt, ThreadStates
    <2>4. starts' \in [Slots -> Nat]
      <3>1. starts' = starts \/ starts' = [starts EXCEPT ![Pvt] = @ + 1]
        BY <1>1 DEF CreatePvt
      <3>2. [starts EXCEPT ![Pvt] = @ + 1] \in [Slots -> Nat]
        BY CountType
      <3> QED
        BY <3>1, <3>2
    <2>2. sd' \in [Actors -> [pc: ShutdownPcs, i: Slots]]
      <3>1. sd' = sd \/ sd' = [sd EXCEPT ![Main] = [pc |-> "test", i |-> 0]]
        BY <1>1 DEF CreatePvt
      <3>2. [sd EXCEPT ![Main] = [pc |-> "test", i |-> 0]]
               \in [Actors -> [pc: ShutdownPcs, i: Slots]]
        BY CalledType
      <3> QED
        BY <3>1, <3>2
    <2>3. mpc' \in MainPcs /\ mop' \in Ops /\ mi' \in Slots
      BY <1>1 DEF CreatePvt, MainPcs, Ops
    <2> QED
      BY <1>1, <2>1, <2>2, <2>3, <2>4 DEF CreatePvt
  <1>2. CASE CreateThreads
    <2>1. sd' \in [Actors -> [pc: ShutdownPcs, i: Slots]]
      <3>1. sd' = sd \/ sd' = [sd EXCEPT ![Main] = [pc |-> "test", i |-> 0]]
        BY <1>2 DEF CreateThreads
      <3>2. [sd EXCEPT ![Main] = [pc |-> "test", i |-> 0]]
               \in [Actors -> [pc: ShutdownPcs, i: Slots]]
        BY CalledType
      <3> QED
        BY <3>1, <3>2
    <2>2. mpc' \in MainPcs /\ mop' \in Ops /\ mi' \in Slots
      BY <1>2, IndexFacts DEF CreateThreads, MainPcs, Ops
    <2> QED
      BY <1>2, <2>1, <2>2 DEF CreateThreads
  <1>3. CASE ThreadsCreateMark
    BY <1>3 DEF ThreadsCreateMark, MainPcs, ThreadStates
  <1>4. CASE ThreadsCreateSpawn
    <2>1. state' \in [Slots -> ThreadStates]
      BY <1>4 DEF ThreadsCreateSpawn, ThreadStates
    <2>2. mpc' \in MainPcs /\ mi' \in Slots
      BY <1>4, IndexFacts DEF ThreadsCreateSpawn, MainPcs
    <2>3. pt' \in [Threads -> {"none", "joinable", "detached"}]
          /\ wpc' \in [Threads -> WorkerPcs]
      BY <1>4 DEF ThreadsCreateSpawn, WorkerPcs
    <2> QED
      BY <1>4, <2>1, <2>2, <2>3 DEF ThreadsCreateSpawn
  <1>5. CASE ReturnFromShutdown
    BY <1>5 DEF ReturnFromShutdown, MainPcs, Ops
  <1>6. CASE WaitOne
    <2>1. pt' \in [Threads -> {"none", "joinable", "detached"}]
      <3>1. pt' = pt \/ pt' = [pt EXCEPT ![mi] = IF pt[mi] = "joinable"
                                                THEN "detached" ELSE pt[mi]]
        BY <1>6 DEF WaitOne
      <3> QED
        BY <1>6, <3>1 DEF WaitOne
    <2>2. mi' \in Slots /\ mpc' \in MainPcs
      <3>1. mi \in Threads /\ mi + 1 \in Slots
        BY <1>6, IndexFacts DEF WaitOne
      <3> QED
        BY <1>6, <3>1 DEF WaitOne, MainPcs
    <2> QED
      BY <1>6, <2>1, <2>2 DEF WaitOne
  <1>7. CASE Join
    BY <1>7, IndexFacts DEF Join, MainPcs
  <1>8. CASE WaitReturn
    BY <1>8 DEF WaitReturn, MainPcs, Ops
  <1>9. CASE DestroyFree
    <2>1. pipe' \in [Threads -> Seq(Works \cup {Shut})]
      BY <1>9 DEF DestroyFree
    <2>2. state' \in [Slots -> ThreadStates]
      BY <1>9 DEF DestroyFree, ThreadStates
    <2> QED
      BY <1>9, <2>1, <2>2 DEF DestroyFree, MainPcs, Ops
  <1> QED
    BY <1>1, <1>2, <1>3, <1>4, <1>5, <1>6, <1>7, <1>8, <1>9 DEF MainStep

\* A call of the application keeps the types.
LEMMA ApplicationType ==
    ASSUME TypeOK, Application
    PROVE  TypeOK'
  <1> USE SlotFacts DEF TypeOK, poolVars, mainVars, msgVars, hookVars
  <1>1. CASE ThreadsCreate
    BY <1>1 DEF ThreadsCreate, MainPcs
  <1>2. CASE CallShutdown
    BY <1>2 DEF CallShutdown, MainPcs, Ops, ShutdownPcs
  <1>3. CASE CallWait
    BY <1>3 DEF CallWait, MainPcs, Ops
  <1>4. CASE Signal
    BY <1>4 DEF Signal, ShutdownPcs
  <1>5. ASSUME NEW t \in Threads, PoolShutdown(t)
        PROVE  TypeOK'
    BY <1>5 DEF PoolShutdown, ShutdownPcs
  <1>6. ASSUME NEW src \in Threads \cup {Main}, NEW dst \in Threads,
               NEW m \in Works, NEW flags \in SUBSET MsgFlags,
               SendWork(src, dst, m, flags)
        PROVE  TypeOK'
    <2>1. pipe' \in [Threads -> Seq(Works \cup {Shut})]
      <3>1. Append(pipe[dst], m) \in Seq(Works \cup {Shut})
        BY AppendProperties
      <3>2. pipe' = pipe \/ pipe' = [pipe EXCEPT ![dst] = Append(pipe[dst], m)]
        BY <1>6 DEF SendWork
      <3> QED
        BY <3>1, <3>2, ExceptType
    <2>2. work' \in [Works -> WorkStates] /\ early' \subseteq Works
      BY <1>6 DEF SendWork, WorkStates
    <2> QED
      BY <1>6, <2>1, <2>2 DEF SendWork
  <1> QED
    BY <1>1, <1>2, <1>3, <1>4, <1>5, <1>6 DEF Application

\* Every step keeps the types.
LEMMA TypeStep ==
    ASSUME TypeOK, IndexInv, [Next]_vars
    PROVE  TypeOK'
  <1>1. CASE Application
    BY <1>1, ApplicationType
  <1>2. CASE MainStep
    BY <1>2, MainType
  <1>3. ASSUME NEW a \in Actors, ShutdownStep(a) PROVE TypeOK'
    BY <1>3, ShutdownType
  <1>4. ASSUME NEW t \in Threads, WorkerStep(t) PROVE TypeOK'
    BY <1>4, WorkerType
  <1>5. CASE UNCHANGED vars
    BY <1>5 DEF vars, TypeOK
  <1> QED
    BY <1>1, <1>2, <1>3, <1>4, <1>5 DEF Next, Finished

\* Every step keeps the indices in range and the order of creation.
LEMMA SpawnStep ==
    ASSUME IInv, [Next]_vars
    PROVE  IndexInv' /\ SpawnInv'
  <1> USE SlotFacts DEF IInv, TypeOK, IndexInv, SpawnInv,
         STOP, STOPPING, STARTING, RUNNING, poolVars, mainVars, msgVars, hookVars
  <1>1. CASE CreatePvt
    BY <1>1, IndexFacts DEF CreatePvt
  <1>2. CASE CreateThreads
    BY <1>2, IndexFacts DEF CreateThreads
  <1>3. CASE ThreadsCreate
    BY <1>3, IndexFacts DEF ThreadsCreate
  <1>4. CASE ThreadsCreateMark
    BY <1>4, IndexFacts DEF ThreadsCreateMark
  <1>5. CASE ThreadsCreateSpawn
    <2>1. wpc' \in [Threads -> WorkerPcs] /\ (wpc' = wpc \/ wpc' = [wpc EXCEPT ![mi] = "born"])
      BY <1>5 DEF ThreadsCreateSpawn, WorkerPcs
    <2>2. mi \in Threads
      BY <1>5 DEF ThreadsCreateSpawn
    <2>3. \A t \in Threads : t >= mi => wpc[t] = "none"
      BY <1>5 DEF ThreadsCreateSpawn
    <2>4. \/ mpc' = "threads_create" /\ mi' = mi + 1 /\ mi' \in Threads
          \/ mpc' = "up"
      BY <1>5 DEF ThreadsCreateSpawn
    <2>5. \A t \in Threads : t >= mi + 1 => wpc'[t] = "none"
      BY <2>1, <2>2, <2>3, IndexFacts
    <2>6. batch' = batch /\ \A t \in Threads : wpc'[t] # wpc[t] => wpc'[t] = "born"
      BY <1>5, <2>1 DEF ThreadsCreateSpawn
    <2>7. IndexInv'
      BY <2>4, <2>6
    <2>8. SpawnInv'
      BY <2>4, <2>5
    <2> QED
      BY <2>7, <2>8
  <1>6. CASE CallShutdown
    BY <1>6, IndexFacts DEF CallShutdown
  <1>7. CASE ReturnFromShutdown
    BY <1>7, IndexFacts DEF ReturnFromShutdown
  <1>8. CASE CallWait
    BY <1>8, IndexFacts DEF CallWait
  <1>9. CASE WaitOne
    BY <1>9, IndexFacts DEF WaitOne
  <1>10. CASE Join
    BY <1>10, IndexFacts DEF Join
  <1>11. CASE WaitReturn
    BY <1>11, IndexFacts DEF WaitReturn
  <1>12. CASE DestroyFree
    BY <1>12, IndexFacts DEF DestroyFree
  <1>13. ASSUME NEW a \in Actors, ShutdownSet(a) PROVE IndexInv' /\ SpawnInv'
    BY <1>13 DEF ShutdownSet
  <1>14. ASSUME NEW t \in Threads, WorkerStep(t) PROVE IndexInv' /\ SpawnInv'
    <2>1. CASE ThreadStart(t)
      <3>1. mpc = "spawn" => mi # t
        BY <2>1, IndexFacts DEF ThreadStart
      <3> QED
        BY <2>1, <3>1 DEF ThreadStart
    <2>2. CASE ThreadEnterLoop(t)
      BY <2>2 DEF ThreadEnterLoop
    <2>3. CASE ThreadWake(t)
      BY <2>3 DEF ThreadWake
    <2>4. CASE ThreadRead(t)
      <3>1. PICK n \in 0 .. Len(pipe[t]) :
               /\ batch' = [batch EXCEPT ![t] = SubSeq(pipe[t], 1, n)]
               /\ n = 0 => wpc' = [wpc EXCEPT ![t] = "loop"]
        BY <2>4, ReadCount
      <3>2. n # 0 => SubSeq(pipe[t], 1, n) # <<>>
        BY SubSeqType
      <3>3. wpc' = [wpc EXCEPT ![t] = wpc'[t]] /\ wpc'[t] # "none"
            /\ UNCHANGED <<mpc, mi, state>>
        BY <2>4 DEF ThreadRead
      <3>4. IndexInv'
        <4>1. \A x \in Threads : x # t => wpc'[x] = wpc[x] /\ batch'[x] = batch[x]
          BY <3>1, <3>3
        <4>2. wpc'[t] \in {"process", "process_full"} => n # 0
          BY <3>1
        <4>3. wpc'[t] \in {"process", "process_full"} => batch'[t] # <<>>
          BY <3>1, <3>2, <4>2
        <4> QED
          BY <3>3, <4>1, <4>3
      <3>5. SpawnInv'
        BY <2>4, <3>3 DEF ThreadRead
      <3> QED
        BY <3>4, <3>5
    <2>5. CASE ThreadProcess(t)
      <3>1. Len(batch[t]) > 1 => Tail(batch[t]) # <<>>
        BY TailNotEmpty
      <3>2. batch' = [batch EXCEPT ![t] = Tail(batch[t])] /\ UNCHANGED <<mpc, mi>>
        BY <2>5 DEF ThreadProcess
      <3>3. wpc' = [wpc EXCEPT ![t] = wpc'[t]] /\ wpc'[t] # "none"
            /\ (wpc'[t] \in {"process", "process_full"} => Len(batch[t]) > 1)
        BY <2>5 DEF ThreadProcess
      <3>4. mpc = "spawn" => mi # t
        BY <2>5, IndexFacts DEF ThreadProcess
      <3>5. mpc = "spawn" => state'[mi] = state[mi]
        BY <2>5, <3>4 DEF ThreadProcess
      <3>6. IndexInv'
        BY <3>1, <3>2, <3>3
      <3>7. SpawnInv'
        BY <2>5, <3>2, <3>3, <3>5 DEF ThreadProcess
      <3> QED
        BY <3>6, <3>7
    <2>6. CASE ThreadOnStop(t)
      BY <2>6 DEF ThreadOnStop
    <2>7. CASE ThreadClear(t)
      <3>1. mpc = "spawn" => mi # t
        BY <2>7, IndexFacts DEF ThreadClear
      <3> QED
        BY <2>7, <3>1 DEF ThreadClear
    <2>8. CASE ThreadExit(t)
      BY <2>8 DEF ThreadExit
    <2> QED
      BY <1>14, <2>1, <2>2, <2>3, <2>4, <2>5, <2>6, <2>7, <2>8 DEF WorkerStep
  <1>15. CASE UNCHANGED <<mpc, mi, wpc, state, batch>>
    BY <1>15
  <1> QED
    BY NextCases, <1>1, <1>2, <1>3, <1>4, <1>5, <1>6, <1>7, <1>8, <1>9, <1>10, <1>11,
       <1>12, <1>13, <1>14, <1>15

\* Every step keeps the meaning of the states and what the wait has seen.
LEMMA StateStep ==
    ASSUME IInv, [Next]_vars
    PROVE  StateInv' /\ WaitInv'
  <1> USE SlotFacts DEF IInv, TypeOK, IndexInv, SpawnInv, StateInv, WaitInv, Left,
         STOP, STOPPING, STARTING, RUNNING, poolVars, mainVars, msgVars, hookVars
  <1>1. CASE CreatePvt
    BY <1>1, IndexFacts DEF CreatePvt
  <1>2. CASE CreateThreads
    BY <1>2, IndexFacts DEF CreateThreads
  <1>3. CASE ThreadsCreate
    BY <1>3, IndexFacts DEF ThreadsCreate
  <1>4. CASE ThreadsCreateMark
    <2>1. mi \in Threads /\ wpc[mi] = "none"
      BY <1>4, IndexFacts DEF ThreadsCreateMark
    <2> QED
      BY <1>4, <2>1 DEF ThreadsCreateMark
  <1>5. CASE ThreadsCreateSpawn
    <2>1. mi \in Threads /\ wpc[mi] = "none" /\ state[mi] = STARTING
      BY <1>5, IndexFacts DEF ThreadsCreateSpawn
    <2>2. StateInv'
      BY <1>5, <2>1, ZenonT(60) DEF ThreadsCreateSpawn
    <2>3. WaitInv'
      BY <1>5 DEF ThreadsCreateSpawn
    <2> QED
      BY <2>2, <2>3
  <1>6. CASE CallShutdown
    BY <1>6, IndexFacts DEF CallShutdown
  <1>7. CASE ReturnFromShutdown
    <2>1. \A t \in Threads : ~(t < 0)
      BY IndexFacts
    <2> QED
      BY <1>7, <2>1 DEF ReturnFromShutdown
  <1>8. CASE CallWait
    BY <1>8, IndexFacts DEF CallWait
  <1>9. CASE WaitOne
    <2>1. \A t \in Threads : t < mi + 1 => t < mi \/ t = mi
      BY <1>9, IndexFacts DEF WaitOne
    <2>2. state[mi] = STOP => Left(mi)
      BY <1>9 DEF WaitOne
    <2>3. \/ mpc' = "wait" /\ mi' = mi + 1 /\ state[mi] = STOP
          \/ mpc' = "join" /\ mi' = mi
      BY <1>9 DEF WaitOne
    <2> QED
      BY <1>9, <2>1, <2>2, <2>3 DEF WaitOne
  <1>10. CASE Join
    <2>1. \A t \in Threads : t < mi + 1 => t < mi \/ t = mi
      BY <1>10, IndexFacts DEF Join
    <2> QED
      BY <1>10, <2>1 DEF Join
  <1>11. CASE WaitReturn
    BY <1>11, IndexFacts DEF WaitReturn
  <1>12. CASE DestroyFree
    BY <1>12, IndexFacts DEF DestroyFree
  <1>13. ASSUME NEW a \in Actors, ShutdownSet(a) PROVE StateInv' /\ WaitInv'
    BY <1>13 DEF ShutdownSet
  <1>14. ASSUME NEW t \in Threads, WorkerStep(t) PROVE StateInv' /\ WaitInv'
    <2>1. CASE ThreadStart(t)
      BY <2>1 DEF ThreadStart
    <2>2. CASE ThreadEnterLoop(t)
      BY <2>2 DEF ThreadEnterLoop
    <2>3. CASE ThreadWake(t)
      BY <2>3 DEF ThreadWake
    <2>4. CASE ThreadRead(t)
      BY <2>4 DEF ThreadRead
    <2>5. CASE ThreadProcess(t)
      BY <2>5 DEF ThreadProcess
    <2>6. CASE ThreadOnStop(t)
      BY <2>6 DEF ThreadOnStop
    <2>7. CASE ThreadClear(t)
      BY <2>7 DEF ThreadClear
    <2>8. CASE ThreadExit(t)
      BY <2>8 DEF ThreadExit
    <2> QED
      BY <1>14, <2>1, <2>2, <2>3, <2>4, <2>5, <2>6, <2>7, <2>8 DEF WorkerStep
  <1>15. CASE UNCHANGED <<mpc, mi, wpc, state, batch>>
    BY <1>15
  <1> QED
    BY NextCases, <1>1, <1>2, <1>3, <1>4, <1>5, <1>6, <1>7, <1>8, <1>9, <1>10, <1>11,
       <1>12, <1>13, <1>14, <1>15

-----------------------------------------------------------------------------
\* The invariant holds in every reachable state.
THEOREM Inductive == Spec => []IInv
  <1>1. IInv /\ [Next]_vars => IInv'
    BY TypeStep, SpawnStep, StateStep DEF IInv
  <1> QED
    BY InitIInv, <1>1, PTL DEF Spec

\* Type correctness of the pool.
THEOREM TypeCorrect == Spec => []TypeOK
  <1>1. IInv => TypeOK
    BY DEF IInv
  <1> QED
    BY Inductive, <1>1, PTL

\* No pool thread runs a hook, a callback or its loop once tp_destroy() has
\* waited, for any number of threads, callers of tp_shutdown() and failures.
THEOREM WaitIsSafe == Spec => []NoCallbackAfterWait
  <1>1. IInv => NoCallbackAfterWait
    BY DEF IInv, WaitInv, NoCallbackAfterWait
  <1> QED
    BY Inductive, <1>1, PTL

-----------------------------------------------------------------------------
(* The hooks and the order of messages: a second invariant on top of IInv. *)

\* The hooks follow the program counter: tpt_on_start() has been called once
\* between the birth of a thread and its end, tpt_on_stop() once after it.
HooksInv ==
    \A t \in Threads :
        /\ wpc[t] \in {"none", "born"} => starts[t] = 0 /\ stops[t] = 0
        /\ wpc[t] \in {"hook", "loop", "read", "process", "process_full", "on_stop"}
              => starts[t] = 1 /\ stops[t] = 0
        /\ wpc[t] \in {"clear", "last", "gone"} => starts[t] = 1 /\ stops[t] = 1

\* Past its loop.
Ended(t) == wpc[t] \in {"on_stop", "clear", "last", "gone"}

\* The message whose callback stops the thread is in s.
HasShut(s) == \E i \in 1 .. Len(s) : s[i] = Shut

\* Nothing that was accepted before the shutdown waits in the pipe of t.
Served(t) == \A i \in 1 .. Len(pipe[t]) : pipe[t][i] \notin early

\* Nobody stops before tp_shutdown() has set its flag.
FlagInv ==
    /\ \A m \in early : work[m] # "new"
    /\ \A a \in Actors : sd[a].pc = "send" => shutdown # 0
    /\ \A t \in Threads :
          HasShut(pipe[t]) \/ HasShut(batch[t]) \/ state[t] = STOPPING \/ Ended(t)
             => shutdown # 0

\* The request to stop does not overtake: behind it in the pipe, and once it
\* has been read, there is no early message.
OrderInv ==
    \A t \in Threads :
        /\ \A i, j \in 1 .. Len(pipe[t]) :
              i < j /\ pipe[t][i] = Shut => pipe[t][j] \notin early
        /\ HasShut(batch[t]) \/ state[t] = STOPPING \/ Ended(t) => Served(t)

-----------------------------------------------------------------------------
\* Where the messages of a pipe are after n of them have been read.
LEMMA SplitElems ==
    ASSUME NEW S, NEW s \in Seq(S), NEW n \in 0 .. Len(s)
    PROVE  /\ Len(SubSeq(s, 1, n)) = n
           /\ \A i \in 1 .. n : SubSeq(s, 1, n)[i] = s[i]
           /\ Len(SubSeq(s, n + 1, Len(s))) = Len(s) - n
           /\ \A i \in 1 .. Len(s) - n : SubSeq(s, n + 1, Len(s))[i] = s[n + i]
  <1>1. Len(s) \in Nat /\ n \in Nat /\ n <= Len(s)
    BY LenProperties
  <1>2. /\ Len(SubSeq(s, 1, n)) = n
        /\ \A i \in 1 .. n : SubSeq(s, 1, n)[i] = s[i]
    BY <1>1, SubSeqProperties
  <1>3. /\ Len(SubSeq(s, n + 1, Len(s))) = Len(s) - n
        /\ \A i \in 1 .. Len(s) - n : SubSeq(s, n + 1, Len(s))[i] = s[n + i]
    BY <1>1, SubSeqProperties
  <1> QED
    BY <1>2, <1>3

\* Where the messages of a batch are after the first one.
LEMMA TailElems ==
    ASSUME NEW S, NEW s \in Seq(S), s # <<>>
    PROVE  /\ Len(s) \in Nat \ {0} /\ Head(s) = s[1] /\ Head(s) \in S
           /\ Len(Tail(s)) = Len(s) - 1
           /\ \A i \in 1 .. Len(s) - 1 : Tail(s)[i] = s[i + 1]
  <1>1. Len(s) \in Nat /\ Len(s) # 0
    BY LenProperties, EmptySeq
  <1>2. Head(s) = s[1]
    OBVIOUS
  <1>3. s[1] \in S
    BY <1>1, ElementOfSeq
  <1>4. /\ Len(Tail(s)) = Len(s) - 1
        /\ \A i \in 1 .. Len(s) - 1 : Tail(s)[i] = s[i + 1]
    BY <1>1, HeadTailProperties
  <1> QED
    BY <1>1, <1>2, <1>3, <1>4

\* Every step keeps the hooks in step with the program counters.
LEMMA HooksStep ==
    ASSUME IInv, HooksInv, [Next]_vars
    PROVE  HooksInv'
  <1> USE DEF HooksInv, poolVars, mainVars, msgVars, hookVars
  <1>f. /\ wpc \in [Threads -> WorkerPcs] /\ Threads \subseteq Slots
        /\ starts \in [Slots -> Nat] /\ stops \in [Slots -> Nat]
        /\ Pvt \in Slots \ Threads
    BY SlotFacts DEF IInv, TypeOK
  <1>1. CASE UNCHANGED <<wpc, starts, stops>>
    BY <1>1
  <1>2. CASE Application
    <2>1. UNCHANGED <<wpc, starts, stops>>
      BY <1>2 DEF Application, ThreadsCreate, CallShutdown, CallWait, Signal,
         PoolShutdown, SendWork
    <2> QED
      BY <1>1, <2>1
  <1>3. CASE MainStep
    <2>1. CASE CreatePvt
      <3>1. \A t \in Threads : starts'[t] = starts[t]
        BY <1>f, <2>1 DEF CreatePvt
      <3> QED
        BY <1>f, <2>1, <3>1 DEF CreatePvt
    <2>2. CASE ThreadsCreateSpawn
      <3>1. mi \in Threads /\ wpc[mi] = "none"
        BY <2>2, IndexFacts DEF ThreadsCreateSpawn, IInv, IndexInv, SpawnInv
      <3> QED
        BY <1>f, <2>2, <3>1 DEF ThreadsCreateSpawn
    <2> QED
      BY <1>1, <1>3, <2>1, <2>2 DEF MainStep, CreateThreads, ThreadsCreateMark,
         ReturnFromShutdown, WaitOne, Join, WaitReturn, DestroyFree
  <1>4. ASSUME NEW a \in Actors, ShutdownStep(a) PROVE HooksInv'
    <2>1. CASE ShutdownSet(a)
      <3>1. \A t \in Threads : stops'[t] = stops[t]
        BY <1>f, <2>1 DEF ShutdownSet
      <3> QED
        BY <1>f, <2>1, <3>1 DEF ShutdownSet
    <2> QED
      BY <1>1, <1>4, <2>1 DEF ShutdownStep, ShutdownTest, ShutdownSend
  <1>5. ASSUME NEW t \in Threads, WorkerStep(t) PROVE HooksInv'
    <2>1. CASE ThreadStart(t)
      <3>1. /\ wpc[t] = "born" /\ wpc'[t] = "hook" /\ starts'[t] = starts[t] + 1
            /\ \A x \in Threads : x # t => wpc'[x] = wpc[x] /\ starts'[x] = starts[x]
            /\ stops' = stops
        BY <1>f, <2>1 DEF ThreadStart
      <3> QED
        BY <3>1
    <2>2. CASE ThreadEnterLoop(t)
      BY <1>f, <2>2 DEF ThreadEnterLoop
    <2>3. CASE ThreadWake(t)
      BY <1>f, <2>3 DEF ThreadWake
    <2>4. CASE ThreadRead(t)
      <3>1. wpc'[t] \in {"loop", "process_full", "process"}
            /\ \A x \in Threads : x # t => wpc'[x] = wpc[x]
        BY <1>f, <2>4 DEF ThreadRead
      <3> QED
        BY <1>f, <2>4, <3>1 DEF ThreadRead
    <2>5. CASE ThreadProcess(t)
      <3>1. wpc'[t] \in {"loop", "read", "process_full", "process"}
            /\ \A x \in Threads : x # t => wpc'[x] = wpc[x]
        BY <1>f, <2>5 DEF ThreadProcess
      <3> QED
        BY <1>f, <2>5, <3>1 DEF ThreadProcess
    <2>6. CASE ThreadOnStop(t)
      <3>1. /\ wpc[t] = "on_stop" /\ wpc'[t] = "clear" /\ stops'[t] = stops[t] + 1
            /\ \A x \in Threads : x # t => wpc'[x] = wpc[x] /\ stops'[x] = stops[x]
            /\ starts' = starts
        BY <1>f, <2>6 DEF ThreadOnStop
      <3> QED
        BY <3>1
    <2>7. CASE ThreadClear(t)
      BY <1>f, <2>7 DEF ThreadClear
    <2>8. CASE ThreadExit(t)
      BY <1>f, <2>8 DEF ThreadExit
    <2> QED
      BY <1>5, <2>1, <2>2, <2>3, <2>4, <2>5, <2>6, <2>7, <2>8 DEF WorkerStep
  <1>6. CASE UNCHANGED vars
    BY <1>1, <1>6 DEF vars
  <1> QED
    BY <1>2, <1>3, <1>4, <1>5, <1>6 DEF Next, Finished

\* A message is written to the pipe of thread dst: it is behind the others.
LEMMA PutBehind ==
    ASSUME TypeOK, NEW dst \in Threads, NEW m \in Works \cup {Shut},
           pipe' = [pipe EXCEPT ![dst] = Append(pipe[dst], m)]
    PROVE  \A t \in Threads :
             /\ Len(pipe[t]) \in Nat
             /\ \A j \in 1 .. Len(pipe'[t]) :
                   \/ j \in 1 .. Len(pipe[t]) /\ pipe'[t][j] = pipe[t][j]
                   \/ t = dst /\ j = Len(pipe[t]) + 1 /\ pipe'[t][j] = m
  <1> DEFINE Msgs == Works \cup {Shut}
  <1>1. ASSUME NEW t \in Threads PROVE pipe[t] \in Seq(Msgs) /\ Len(pipe[t]) \in Nat
    BY LenProperties DEF TypeOK
  <1>2. /\ pipe'[dst] = Append(pipe[dst], m)
        /\ \A t \in Threads : t # dst => pipe'[t] = pipe[t]
    BY DEF TypeOK
  <1>3. /\ Len(Append(pipe[dst], m)) = Len(pipe[dst]) + 1
        /\ \A i \in 1 .. Len(pipe[dst]) : Append(pipe[dst], m)[i] = pipe[dst][i]
        /\ Append(pipe[dst], m)[Len(pipe[dst]) + 1] = m
    BY <1>1, AppendProperties
  <1> QED
    BY <1>1, <1>2, <1>3

\* The request to stop is in the pipe or in the batch of nobody, nobody stops,
\* while the flag is clear.
LEMMA BeforeShutdown ==
    ASSUME FlagInv, shutdown = 0, NEW t \in Threads
    PROVE  ~HasShut(pipe[t]) /\ ~HasShut(batch[t]) /\ state[t] # STOPPING /\ ~Ended(t)
  BY DEF FlagInv

\* Every step keeps the order of the messages and of the shutdown.
LEMMA MessagesStep ==
    ASSUME IInv, FlagInv, OrderInv, [Next]_vars
    PROVE  FlagInv' /\ OrderInv'
  <1> USE DEF poolVars, mainVars, msgVars, hookVars
  <1>t. TypeOK
    BY DEF IInv
  <1>f. /\ state \in [Slots -> ThreadStates] /\ wpc \in [Threads -> WorkerPcs]
        /\ pipe \in [Threads -> Seq(Works \cup {Shut})]
        /\ batch \in [Threads -> Seq(Works \cup {Shut})]
        /\ sd \in [Actors -> [pc: ShutdownPcs, i: Slots]]
        /\ work \in [Works -> WorkStates] /\ early \subseteq Works /\ shutdown \in Nat
        /\ Threads \subseteq Slots /\ Pvt \in Slots \ Threads
        /\ Main \in Actors /\ Sig \in Actors /\ Threads \subseteq Actors
    BY <1>t, SlotFacts DEF TypeOK
  <1>1. ASSUME UNCHANGED <<pipe, batch, work, early, shutdown>>,
               \A a \in Actors : sd'[a].pc = "send" => sd[a].pc = "send",
               \A t \in Threads : /\ state'[t] = STOPPING => state[t] = STOPPING
                                  /\ Ended(t)' => Ended(t) \/ state[t] = STOPPING
        PROVE  FlagInv' /\ OrderInv'
    <2>1. FlagInv'
      BY <1>1 DEF FlagInv, HasShut
    <2>2. OrderInv'
      BY <1>1 DEF OrderInv, HasShut, Served
    <2> QED
      BY <2>1, <2>2
  <1>2. CASE Application
    <2>1. CASE ThreadsCreate
      BY <1>1, <1>f, <2>1 DEF ThreadsCreate, Ended
    <2>2. CASE CallShutdown
      BY <1>1, <1>f, <2>2 DEF CallShutdown, Ended
    <2>3. CASE CallWait
      BY <1>1, <1>f, <2>3 DEF CallWait, Ended
    <2>4. CASE Signal
      BY <1>1, <1>f, <2>4 DEF Signal, Ended
    <2>5. ASSUME NEW t \in Threads, PoolShutdown(t) PROVE FlagInv' /\ OrderInv'
      BY <1>1, <1>f, <2>5 DEF PoolShutdown, Ended
    <2>6. ASSUME NEW src \in Threads \cup {Main}, NEW dst \in Threads,
                 NEW m \in Works, NEW flags \in SUBSET MsgFlags,
                 SendWork(src, dst, m, flags)
          PROVE  FlagInv' /\ OrderInv'
      <3>1. UNCHANGED <<batch, shutdown, state, wpc, sd>>
        BY <1>f, <2>6 DEF SendWork
      <3>2. work[m] = "new" /\ m \notin early /\ m # Shut
        BY <1>f, <2>6 DEF SendWork, FlagInv, Works, Shut
      <3>3. \A x \in Works : work'[x] = work[x] \/ (x = m /\ work'[x] # "new")
        <4>1. PICK v \in {"done", "queued", "refused"} : work' = [work EXCEPT ![m] = v]
          BY <2>6 DEF SendWork
        <4>2. DOMAIN work = Works
          BY <1>f
        <4> QED
          BY <4>1, <4>2
      <3>4. \/ pipe' = pipe /\ early' = early
            \/ /\ pipe' = [pipe EXCEPT ![dst] = Append(pipe[dst], m)]
               /\ early' = IF shutdown = 0 THEN early \cup {m} ELSE early
        BY <1>f, <2>6 DEF SendWork
      <3>5. \A x \in early' : work'[x] # "new"
        BY <1>f, <2>6, <3>3, <3>4 DEF SendWork, FlagInv
      <3>6. CASE pipe' = pipe /\ early' = early
        BY <3>1, <3>5, <3>6 DEF FlagInv, OrderInv, HasShut, Served, Ended
      <3>7. CASE /\ pipe' = [pipe EXCEPT ![dst] = Append(pipe[dst], m)]
                 /\ early' = IF shutdown = 0 THEN early \cup {m} ELSE early
        <4>1. \A t \in Threads :
                /\ Len(pipe[t]) \in Nat
                /\ \A j \in 1 .. Len(pipe'[t]) :
                      \/ j \in 1 .. Len(pipe[t]) /\ pipe'[t][j] = pipe[t][j]
                      \/ t = dst /\ j = Len(pipe[t]) + 1 /\ pipe'[t][j] = m
          BY <1>t, <3>7, PutBehind
        <4>2. \A t \in Threads : HasShut(pipe'[t]) => HasShut(pipe[t])
          BY <4>1, <3>2 DEF HasShut
        <4>3. FlagInv'
          BY <3>1, <3>5, <4>2 DEF FlagInv, Ended
        <4>4. CASE shutdown = 0
          <5>1. \A t \in Threads : /\ ~HasShut(pipe'[t]) /\ ~HasShut(batch[t])
                                   /\ state[t] # STOPPING /\ ~Ended(t)
            BY <4>2, <4>4, BeforeShutdown
          <5>2. OrderInv'
            BY <3>1, <5>1 DEF OrderInv, HasShut, Ended
          <5> QED
            BY <4>3, <5>2
        <4>5. CASE shutdown # 0
          <5>1. early' = early
            BY <3>7, <4>5
          <5>2. \A t \in Threads : \A i, j \in 1 .. Len(pipe'[t]) :
                   i < j /\ pipe'[t][i] = Shut => pipe'[t][j] \notin early
            BY <3>2, <4>1 DEF OrderInv
          <5>3. \A t \in Threads : Served(t) => Served(t)'
            BY <3>2, <4>1, <5>1 DEF Served
          <5>4. OrderInv'
            BY <3>1, <5>1, <5>2, <5>3 DEF OrderInv, HasShut, Ended
          <5> QED
            BY <4>3, <5>4
        <4> QED
          BY <4>4, <4>5
      <3> QED
        BY <3>4, <3>6, <3>7
    <2> QED
      BY <1>2, <2>1, <2>2, <2>3, <2>4, <2>5, <2>6 DEF Application
  <1>3. CASE MainStep
    <2>1. CASE CreatePvt
      <3>1. \A t \in Threads : state'[t] = state[t]
        BY <1>f, <2>1 DEF CreatePvt
      <3>2. UNCHANGED <<pipe, batch, work, early, shutdown, wpc>>
        BY <1>f, <2>1 DEF CreatePvt
      <3>3. \A a \in Actors : sd'[a].pc = "send" => sd[a].pc = "send"
        BY <1>f, <2>1 DEF CreatePvt
      <3> QED
        BY <1>1, <3>1, <3>2, <3>3 DEF Ended
    <2>2. CASE CreateThreads
      <3>1. UNCHANGED <<pipe, batch, work, early, shutdown, wpc, state>>
        BY <1>f, <2>2 DEF CreateThreads
      <3>2. \A a \in Actors : sd'[a].pc = "send" => sd[a].pc = "send"
        <4>1. sd' = sd \/ sd' = [sd EXCEPT ![Main] = [pc |-> "test", i |-> 0]]
          BY <2>2 DEF CreateThreads
        <4>2. DOMAIN sd = Actors
          BY <1>f
        <4> QED
          BY <4>1, <4>2
      <3> QED
        BY <1>1, <3>1, <3>2 DEF Ended
    <2>3. CASE ThreadsCreateMark
      BY <1>1, <1>f, <2>3 DEF ThreadsCreateMark, Ended, STARTING, STOPPING
    <2>4. CASE ThreadsCreateSpawn
      BY <1>1, <1>f, <2>4 DEF ThreadsCreateSpawn, Ended, STOP, STOPPING
    <2>5. CASE ReturnFromShutdown
      BY <1>1, <1>f, <2>5 DEF ReturnFromShutdown, Ended
    <2>6. CASE WaitOne
      BY <1>1, <1>f, <2>6 DEF WaitOne, Ended
    <2>7. CASE Join
      BY <1>1, <1>f, <2>7 DEF Join, Ended
    <2>8. CASE WaitReturn
      BY <1>1, <1>f, <2>8 DEF WaitReturn, Ended
    <2>9. CASE DestroyFree
      <3>1. \A t \in Threads : /\ pipe'[t] = <<>> /\ state'[t] # STOPPING
                               /\ 1 .. Len(pipe'[t]) = {}
        BY <1>f, <2>9 DEF DestroyFree, STOP, STOPPING
      <3>2. UNCHANGED <<wpc, batch, work, early, shutdown, sd>>
        BY <1>f, <2>9 DEF DestroyFree
      <3> QED
        BY <3>1, <3>2 DEF FlagInv, OrderInv, HasShut, Served, Ended
    <2> QED
      BY <1>3, <2>1, <2>2, <2>3, <2>4, <2>5, <2>6, <2>7, <2>8, <2>9 DEF MainStep
  <1>4. ASSUME NEW a \in Actors, ShutdownStep(a) PROVE FlagInv' /\ OrderInv'
    <2>1. CASE ShutdownTest(a)
      BY <1>1, <1>f, <2>1 DEF ShutdownTest, Ended, Idle
    <2>2. CASE ShutdownSet(a)
      <3>1. shutdown' # 0 /\ \A t \in Threads : state'[t] = state[t]
        BY <1>f, <2>2 DEF ShutdownSet
      <3>2. UNCHANGED <<wpc, pipe, batch, work, early>>
        BY <1>f, <2>2 DEF ShutdownSet
      <3> QED
        BY <3>1, <3>2 DEF FlagInv, OrderInv, HasShut, Served, Ended
    <2>3. CASE ShutdownSend(a)
      <3>1. UNCHANGED <<wpc, batch, work, early, shutdown, state>> /\ shutdown # 0
            /\ \A x \in Actors : sd'[x].pc = "send" => sd[x].pc = "send"
        BY <1>f, <2>3 DEF ShutdownSend, FlagInv, Idle
      <3>2. \/ pipe' = pipe
            \/ \E dst \in Threads : pipe' = [pipe EXCEPT ![dst] = Append(pipe[dst], Shut)]
        BY <1>f, <2>3 DEF ShutdownSend
      <3>3. CASE pipe' = pipe
        BY <1>1, <3>1, <3>3 DEF Ended
      <3>4. ASSUME NEW dst \in Threads,
                   pipe' = [pipe EXCEPT ![dst] = Append(pipe[dst], Shut)]
            PROVE  FlagInv' /\ OrderInv'
        <4>1. \A t \in Threads :
                /\ Len(pipe[t]) \in Nat
                /\ \A j \in 1 .. Len(pipe'[t]) :
                      \/ j \in 1 .. Len(pipe[t]) /\ pipe'[t][j] = pipe[t][j]
                      \/ t = dst /\ j = Len(pipe[t]) + 1 /\ pipe'[t][j] = Shut
          BY <1>t, <3>4, PutBehind
        <4>2. Shut \notin early
          BY <1>f DEF Works, Shut
        <4>3. \A t \in Threads : \A i, j \in 1 .. Len(pipe'[t]) :
                 i < j /\ pipe'[t][i] = Shut => pipe'[t][j] \notin early
          BY <4>1, <4>2 DEF OrderInv
        <4>4. \A t \in Threads : Served(t) => Served(t)'
          BY <3>1, <4>1, <4>2 DEF Served
        <4>5. OrderInv'
          BY <3>1, <4>3, <4>4 DEF OrderInv, HasShut, Ended
        <4>6. FlagInv'
          BY <3>1 DEF FlagInv
        <4> QED
          BY <4>5, <4>6
      <3> QED
        BY <3>2, <3>3, <3>4
    <2> QED
      BY <1>4, <2>1, <2>2, <2>3 DEF ShutdownStep
  <1>5. ASSUME NEW t \in Threads, WorkerStep(t) PROVE FlagInv' /\ OrderInv'
    <2>1. CASE ThreadStart(t)
      BY <1>1, <1>f, <2>1 DEF ThreadStart, Ended, RUNNING, STOPPING
    <2>2. CASE ThreadEnterLoop(t)
      BY <1>1, <1>f, <2>2 DEF ThreadEnterLoop, Ended
    <2>3. CASE ThreadWake(t)
      <3>1. state[t] # RUNNING => state[t] = STOPPING
        BY <1>f, <2>3 DEF ThreadWake, StateInv, IInv
      <3> QED
        BY <1>1, <1>f, <2>3, <3>1 DEF ThreadWake, Ended
    <2>4. CASE ThreadRead(t)
      <3>1. PICK n \in 0 .. Len(pipe[t]) :
               /\ batch' = [batch EXCEPT ![t] = SubSeq(pipe[t], 1, n)]
               /\ pipe' = [pipe EXCEPT ![t] = SubSeq(pipe[t], n + 1, Len(pipe[t]))]
        BY <1>t, <2>4, ReadCount
      <3>2. pipe[t] \in Seq(Works \cup {Shut}) /\ Len(pipe[t]) \in Nat /\ n \in Nat
        BY <1>f, LenProperties
      <3>3. /\ Len(batch'[t]) = n
            /\ \A i \in 1 .. n : batch'[t][i] = pipe[t][i]
            /\ Len(pipe'[t]) = Len(pipe[t]) - n
            /\ \A i \in 1 .. Len(pipe[t]) - n : pipe'[t][i] = pipe[t][n + i]
        BY <1>f, <3>1, <3>2, SplitElems
      <3>4. /\ UNCHANGED <<state, shutdown, work, early, sd>>
            /\ \A x \in Threads : /\ Ended(x)' <=> Ended(x)
                                  /\ x # t => pipe'[x] = pipe[x] /\ batch'[x] = batch[x]
        BY <1>f, <2>4, <3>1 DEF ThreadRead, Ended
      <3>a. \A i \in 1 .. Len(batch'[t]) :
               i \in 1 .. Len(pipe[t]) /\ batch'[t][i] = pipe[t][i]
        BY <3>2, <3>3
      <3>b. \A i \in 1 .. Len(pipe'[t]) :
               n + i \in 1 .. Len(pipe[t]) /\ pipe'[t][i] = pipe[t][n + i]
        BY <3>2, <3>3
      <3>5. HasShut(pipe'[t]) \/ HasShut(batch'[t]) => HasShut(pipe[t])
        BY <3>a, <3>b DEF HasShut
      <3>6. FlagInv'
        BY <3>4, <3>5 DEF FlagInv
      <3>7. Served(t) => Served(t)'
        BY <3>2, <3>3, <3>4 DEF Served
      <3>8. HasShut(batch'[t]) => Served(t)'
        <4> SUFFICES ASSUME NEW i \in 1 .. Len(batch'[t]), batch'[t][i] = Shut,
                            NEW j \in 1 .. Len(pipe'[t])
                     PROVE  pipe'[t][j] \notin early'
          BY DEF HasShut, Served
        <4>1. i < n + j
          BY <3>2, <3>3
        <4> QED
          BY <3>4, <3>a, <3>b, <4>1 DEF OrderInv
      <3>9. \A i, j \in 1 .. Len(pipe'[t]) :
               i < j /\ pipe'[t][i] = Shut => pipe'[t][j] \notin early
        <4> SUFFICES ASSUME NEW i \in 1 .. Len(pipe'[t]), NEW j \in 1 .. Len(pipe'[t]),
                            i < j, pipe'[t][i] = Shut
                     PROVE  pipe'[t][j] \notin early
          OBVIOUS
        <4>1. n + i < n + j
          BY <3>2, <3>3
        <4> QED
          BY <3>b, <4>1 DEF OrderInv
      <3>10. OrderInv'
        BY <3>4, <3>7, <3>8, <3>9 DEF OrderInv, Served, HasShut
      <3> QED
        BY <3>6, <3>10
    <2>5. CASE ThreadProcess(t)
      <3>1. batch[t] \in Seq(Works \cup {Shut}) /\ batch[t] # <<>>
        BY <1>f, <2>5 DEF ThreadProcess, IndexInv, IInv
      <3>2. /\ Len(batch[t]) \in Nat \ {0} /\ Head(batch[t]) = batch[t][1]
            /\ Len(Tail(batch[t])) = Len(batch[t]) - 1
            /\ \A i \in 1 .. Len(batch[t]) - 1 : Tail(batch[t])[i] = batch[t][i + 1]
        BY <3>1, TailElems
      <3>3. /\ UNCHANGED <<pipe, shutdown, early, sd>>
            /\ batch' = [batch EXCEPT ![t] = Tail(batch[t])]
            /\ \A x \in Works : work'[x] = work[x] \/ work'[x] = "done"
        BY <1>f, <2>5 DEF ThreadProcess
      <3>4. \A x \in Threads : Ended(x)' => Ended(x)
        BY <1>f, <2>5 DEF ThreadProcess, Ended
      <3>5. \A x \in Threads : HasShut(batch'[x]) => HasShut(batch[x])
        BY <3>2, <3>3 DEF HasShut
      <3>6. \A x \in Threads :
               state'[x] = STOPPING => state[x] = STOPPING \/ HasShut(batch[x])
        BY <1>f, <2>5, <3>2 DEF ThreadProcess, HasShut
      <3>7. FlagInv'
        BY <1>f, <3>3, <3>4, <3>5, <3>6 DEF FlagInv
      <3>8. OrderInv'
        BY <3>3, <3>4, <3>5, <3>6 DEF OrderInv, Served
      <3> QED
        BY <3>7, <3>8
    <2>6. CASE ThreadOnStop(t)
      BY <1>1, <1>f, <2>6 DEF ThreadOnStop, Ended
    <2>7. CASE ThreadClear(t)
      BY <1>1, <1>f, <2>7 DEF ThreadClear, Ended, STOP, STOPPING
    <2>8. CASE ThreadExit(t)
      BY <1>1, <1>f, <2>8 DEF ThreadExit, Ended
    <2> QED
      BY <1>5, <2>1, <2>2, <2>3, <2>4, <2>5, <2>6, <2>7, <2>8 DEF WorkerStep
  <1>6. CASE UNCHANGED vars
    BY <1>1, <1>6 DEF vars, Ended
  <1> QED
    BY <1>2, <1>3, <1>4, <1>5, <1>6 DEF Next, Finished

\* The second invariant holds in every reachable state.
THEOREM Ordered == Spec => [](HooksInv /\ FlagInv /\ OrderInv)
  <1> DEFINE MInv == HooksInv /\ FlagInv /\ OrderInv
  <1>1. Init => MInv
    <2> SUFFICES ASSUME Init PROVE MInv
      OBVIOUS
    <2>1. \A t \in Threads : /\ pipe[t] = <<>> /\ batch[t] = <<>>
                             /\ 1 .. Len(pipe[t]) = {} /\ 1 .. Len(batch[t]) = {}
                             /\ wpc[t] = "none" /\ starts[t] = 0 /\ stops[t] = 0
                             /\ state[t] # STOPPING
      BY SlotFacts DEF Init, STOP, STOPPING
    <2>2. early = {} /\ \A a \in Actors : sd[a].pc = "idle"
      BY DEF Init, Idle
    <2> QED
      BY <2>1, <2>2 DEF HooksInv, FlagInv, OrderInv, HasShut, Served, Ended
  <1>2. IInv /\ MInv /\ [Next]_vars => MInv'
    BY HooksStep, MessagesStep
  <1> QED
    BY Inductive, <1>1, <1>2, PTL DEF Spec

\* Every message accepted before tp_shutdown() has been taken from the pipe
\* when its thread runs its on_stop hook.
THEOREM EarlyWorkIsProcessed == Spec => []EarlyWorkProcessed
  <1>1. OrderInv => EarlyWorkProcessed
    BY DEF OrderInv, EarlyWorkProcessed, Ended, Served
  <1> QED
    BY Ordered, <1>1, PTL

\* tpt_on_start() and tpt_on_stop() run once for every thread, in this order.
THEOREM HooksArePaired == Spec => []ThreadHooksPaired
  <1>1. IInv /\ HooksInv => ThreadHooksPaired
    <2> SUFFICES ASSUME IInv, HooksInv, NEW t \in Threads
                 PROVE  /\ stops[t] <= starts[t] /\ starts[t] <= 1
                        /\ wpc[t] \in {"clear", "last", "gone"} => stops[t] = 1
                        /\ wpc[t] \in {"none", "born"} => starts[t] = 0
      BY DEF ThreadHooksPaired
    <2>1. wpc[t] \in WorkerPcs
      BY DEF IInv, TypeOK
    <2>2. \/ starts[t] = 0 /\ stops[t] = 0
          \/ starts[t] = 1 /\ stops[t] = 0
          \/ starts[t] = 1 /\ stops[t] = 1
      BY <2>1 DEF WorkerPcs, HooksInv
    <2>3. stops[t] <= starts[t] /\ starts[t] <= 1
      BY <2>2
    <2> QED
      BY <2>3 DEF HooksInv
  <1> QED
    BY Inductive, Ordered, <1>1, PTL
=============================================================================
