-------------------------- MODULE DnsResolv_proofs --------------------------
(***************************************************************************)
(* The resolver for any number of names, requests, slots, servers and      *)
(* retries, whatever the servers know and whichever calls fail.            *)
(***************************************************************************)
EXTENDS DnsResolv, FiniteSetTheorems, SequenceTheorems, NaturalsInduction,
        WellFoundedInduction, TLAPS

-----------------------------------------------------------------------------
(* The stack of the running handler has at most a search on top (lk), the  *)
(* notification of a chain below it (nt), and at the bottom the scan of an *)
(* answer or the end of a task (fn).                                       *)

NoItem == [op |-> "none"]

Records == [of : SUBSET Names, bad : BOOLEAN]
LookItems == [op : {"lookup"}, r : Requests, x : Names, n : 0 .. Cycles, send : BOOLEAN,
              rr : Records]
NotifyItems == [op : {"notify"}, x : Names, q : Seq(Requests)]
ScanItems == [op : {"scan"}, r : Requests, rr : Records, again : BOOLEAN]
DoneItems == [op : {"done"}, r : Requests, res : Results]
FollowItems == [op : {"follow"}, r : Requests, x : Names, rr : Records]

StackType(lk, nt, fn) ==
    /\ lk \in LookItems \cup {NoItem}
    /\ nt \in NotifyItems \cup {NoItem}
    /\ fn \in ScanItems \cup DoneItems \cup FollowItems \cup {NoItem}
    /\ nt.op = "notify" => fn.op \in {"done", "follow"}
    /\ lk.op = "lookup" => IF nt.op = "notify" THEN lk.send ELSE fn.op = "none"

StackIs(stack, lk, nt, fn) ==
    \/ lk.op = "none" /\ nt.op = "none" /\ fn.op = "none" /\ stack = <<>>
    \/ lk.op # "none" /\ nt.op = "none" /\ fn.op = "none" /\ stack = <<lk>>
    \/ lk.op = "none" /\ nt.op = "none" /\ fn.op # "none" /\ stack = <<fn>>
    \/ lk.op = "none" /\ nt.op # "none" /\ fn.op # "none" /\ stack = <<nt, fn>>
    \/ lk.op # "none" /\ nt.op # "none" /\ fn.op # "none" /\ stack = <<lk, nt, fn>>

-----------------------------------------------------------------------------
(* The invariant.                                                          *)

In(r, q) == \E k \in DOMAIN q : q[k] = r
Distinct(q) == \A j, k \in DOMAIN q : q[j] = q[k] => j = k

Pend(nt) == IF nt.op = "notify" THEN nt.q ELSE <<>>
Ends(fn, r) == fn.op \in {"done", "follow"} /\ fn.r = r
Looks(lk, r) == lk.op = "lookup" /\ lk.r = r
Runs(fn, r) == fn.op # "none" /\ fn.r = r

\* r is in the queue of entry x or in the chain that is being notified of it.
WaitsFor(r, x, nt) == InQueue(r, x) \/ (In(r, Pend(nt)) /\ nt.x = x)
Waits(r, nt) == \E x \in Names : WaitsFor(r, x, nt)

\* Every task has its slot, every slot its task; slot 0 is never used.
SlotInv == /\ \A r \in Requests : tsk[r] # Null => slot[tsk[r].id] = r
           /\ \A s \in Slots : slot[s] # Null => tsk[slot[s]] # Null /\ tsk[slot[s]].id = s
           /\ slot[0] = Null

\* The callback is there as long as the request is open.
CallInv(r) == /\ req[r].st # "twice"
              /\ tsk[r] # Null => req[r].st = IF tsk[r].cb THEN "open" ELSE "cancelled"

\* A task with a name updates its entry, unless it is about to end.
OwnInv(r, fn) ==
    tsk[r] # Null /\ tsk[r].name # Null =>
        /\ cache[tsk[r].name] # Null /\ ~tsk[r].queued /\ tsk[r].loops < Cycles
        /\ IF Ends(fn, r) THEN ~cache[tsk[r].name].upd /\ cache[tsk[r].name].fresh
           ELSE cache[tsk[r].name].upd

\* A task waits, or its timer runs, or the handler is at it.
PlaceInv(r, lk, nt, fn) ==
    /\ Waits(r, nt) => req[r].st # "idle"
    /\ tsk[r] # Null =>
          /\ tsk[r].queued <=> Waits(r, nt)
          /\ tsk[r].armed => tsk[r].name # Null /\ tsk[r].srv < Servers
          /\ tsk[r].loops <= Cycles
          /\ ~tsk[r].queued /\ tsk[r].cb => tsk[r].armed \/ Looks(lk, r) \/ Runs(fn, r)

\* What the handler finds.
HandlerInv(r, lk, nt, fn) ==
    /\ Looks(lk, r) =>
          /\ ~Waits(r, nt)
          /\ IF tsk[r] = Null THEN req[r].st = "open" /\ lk.send /\ nt.op = "none"
             ELSE tsk[r].name = Null
    /\ Runs(fn, r) =>
          /\ tsk[r] # Null /\ ~tsk[r].armed
          /\ fn.op # "done" => tsk[r].name # Null
          /\ fn.op = "scan" /\ fn.rr.bad => tsk[r].srv < Servers
          /\ nt.op = "notify" => tsk[r].name = nt.x

\* z is what a caller who asked for x may be given.
Right(x, z) == /\ z \in Names => z \in Chain(x) /\ world[z] = "addr"
               /\ z = "garbage" => \E y \in Chain(x) : world[y] \in Names

\* Whatever is asked, waited or looked for is what the request leads to.
PathInv(r, lk, nt, fn) ==
    /\ IF req[r].st = "idle" THEN req[r].res = NoResult ELSE req[r].name \in Names
    /\ tsk[r] # Null /\ tsk[r].name # Null => tsk[r].name \in Chain(req[r].name)
    /\ \A x \in Names : WaitsFor(r, x, nt) => x \in Chain(req[r].name)
    /\ Looks(lk, r) => lk.x \in Chain(req[r].name)
    /\ Runs(fn, r) /\ fn.op = "follow" => fn.x \in Chain(req[r].name)
    /\ Runs(fn, r) /\ fn.op = "done" => Right(req[r].name, fn.res.of)
    /\ Right(req[r].name, req[r].res.of)

ReqInv(r, lk, nt, fn) ==
    /\ CallInv(r) /\ OwnInv(r, fn) /\ PlaceInv(r, lk, nt, fn)
    /\ HandlerInv(r, lk, nt, fn) /\ PathInv(r, lk, nt, fn)

SoleOwner == \A r, s \in Requests :
    tsk[r] # Null /\ tsk[r].name # Null /\ tsk[s] # Null /\ tsk[s].name = tsk[r].name => r = s

CacheInv == \A x \in Names : cache[x] # Null =>
    /\ cache[x].cname => cache[x].data.of = world[x] /\ world[x] \in Names
    /\ cache[x].data.k = "addrs" => cache[x].data.of = x /\ world[x] = "addr"
    /\ cache[x].data.k \in {"alias", "mixed"} => world[x] \in Names
    /\ ~cache[x].upd => cache[x].queue = <<>>
    /\ Distinct(cache[x].queue)

\* Nobody waits twice.
WaitInv(nt) ==
    /\ Distinct(Pend(nt))
    /\ \A r \in Requests, x \in Names : InQueue(r, x) =>
          ~In(r, Pend(nt)) /\ \A y \in Names \ {x} : ~InQueue(r, y)

Inv(lk, nt, fn) ==
    /\ StackType(lk, nt, fn) /\ StackIs(todo, lk, nt, fn)
    /\ TypeOK /\ SlotInv /\ SoleOwner /\ CacheInv /\ WaitInv(nt)
    /\ \A r \in Requests : ReqInv(r, lk, nt, fn)

IInv == \E lk, nt, fn : Inv(lk, nt, fn)

-----------------------------------------------------------------------------
(* The stack.                                                              *)

\* What the running handler finds on top of its stack.
LEMMA TopIs ==
    ASSUME NEW lk, NEW nt, NEW fn, StackType(lk, nt, fn), StackIs(todo, lk, nt, fn)
    PROVE  /\ Top("lookup") => /\ lk \in LookItems /\ Head(todo) = lk
                               /\ StackIs(Tail(todo), NoItem, nt, fn)
           /\ Top("notify") => /\ lk = NoItem /\ nt \in NotifyItems /\ Head(todo) = nt
                               /\ Tail(todo) = <<fn>> /\ fn \in DoneItems \cup FollowItems
           /\ Top("done") => /\ lk = NoItem /\ nt = NoItem /\ fn \in DoneItems
                             /\ Head(todo) = fn /\ Tail(todo) = <<>>
           /\ Top("scan") => /\ lk = NoItem /\ nt = NoItem /\ fn \in ScanItems
                             /\ Head(todo) = fn /\ Tail(todo) = <<>>
           /\ Top("follow") => /\ lk = NoItem /\ nt = NoItem /\ fn \in FollowItems
                               /\ Head(todo) = fn /\ Tail(todo) = <<>>
           /\ todo = <<>> => lk = NoItem /\ nt = NoItem /\ fn = NoItem
<1> USE DEF StackType, NoItem, LookItems, NotifyItems, ScanItems, DoneItems, FollowItems, Top
<1>1. CASE lk.op = "none" /\ nt.op = "none" /\ fn.op = "none" /\ todo = <<>>
    BY <1>1
<1>2. CASE lk.op # "none" /\ nt.op = "none" /\ fn.op = "none" /\ todo = <<lk>>
    <2>1. Head(todo) = lk /\ Tail(todo) = <<>>
        BY <1>2
    <2> QED BY <1>2, <2>1 DEF StackIs
<1>3. CASE lk.op = "none" /\ nt.op = "none" /\ fn.op # "none" /\ todo = <<fn>>
    <2>1. Head(todo) = fn /\ Tail(todo) = <<>>
        BY <1>3
    <2> QED BY <1>3, <2>1
<1>4. CASE lk.op = "none" /\ nt.op # "none" /\ fn.op # "none" /\ todo = <<nt, fn>>
    <2>1. Head(todo) = nt /\ Tail(todo) = <<fn>>
        BY <1>4
    <2> QED BY <1>4, <2>1
<1>5. CASE lk.op # "none" /\ nt.op # "none" /\ fn.op # "none" /\ todo = <<lk, nt, fn>>
    <2>1. Head(todo) = lk /\ Tail(todo) = <<nt, fn>>
        BY <1>5
    <2> QED BY <1>5, <2>1 DEF StackIs
<1> QED BY <1>1, <1>2, <1>3, <1>4, <1>5 DEF StackIs

\* What a handler leaves on its stack.
LEMMA PushIs ==
    ASSUME NEW a, NEW b, NEW c
    PROVE  /\ <<>> \o <<>> = <<>>
           /\ <<a>> \o <<>> = <<a>>
           /\ <<a, b>> \o <<>> = <<a, b>>
           /\ <<>> \o <<a>> = <<a>>
           /\ <<a, b>> \o <<c>> = <<a, b, c>>
           /\ <<>> \o <<b, c>> = <<b, c>>
<1> DEFINE S == {a, b, c}
<1>1. <<>> \in Seq(S) /\ <<a>> \in Seq(S) /\ <<c>> \in Seq(S)
    OBVIOUS
<1>2. <<a, b>> \in Seq(S) /\ <<b, c>> \in Seq(S)
    OBVIOUS
<1>3. <<>> \o <<>> = <<>> /\ <<a>> \o <<>> = <<a>> /\ <<>> \o <<a>> = <<a>>
    OBVIOUS
<1>4. <<a, b>> \o <<>> = <<a, b>> /\ <<>> \o <<b, c>> = <<b, c>>
    BY <1>1, <1>2, ConcatEmptySeq
<1>5. <<a, b>> \o <<c>> = <<a, b, c>>
    <2> DEFINE s == <<a, b>> \o <<c>>
               t == <<a, b, c>>
    <2>1. s \in Seq(S) /\ t \in Seq(S) /\ Len(s) = 3 /\ Len(t) = 3
        BY <1>1, <1>2
    <2>2. s[1] = a /\ s[2] = b /\ s[3] = c /\ t[1] = a /\ t[2] = b /\ t[3] = c
        OBVIOUS
    <2>3. \A k \in 1 .. Len(s) : s[k] = t[k]
        BY <2>1, <2>2
    <2> HIDE DEF s, t, S
    <2>4. s = t
        BY <2>1, <2>3, SeqEqual
    <2> QED BY <2>4 DEF s, t
<1> QED BY <1>3, <1>4, <1>5

LEMMA PushOnTwo ==
    ASSUME NEW a, NEW b, NEW c
    PROVE  <<a>> \o <<b, c>> = <<a, b, c>>
<1> DEFINE S == {a, b, c}
           s == <<a>> \o <<b, c>>
           t == <<a, b, c>>
<1>1. s \in Seq(S) /\ t \in Seq(S) /\ Len(s) = 3 /\ Len(t) = 3
    OBVIOUS
<1>2. s[1] = a /\ s[2] = b /\ s[3] = c /\ t[1] = a /\ t[2] = b /\ t[3] = c
    OBVIOUS
<1>3. \A k \in 1 .. Len(s) : s[k] = t[k]
    BY <1>1, <1>2
<1> HIDE DEF s, t, S
<1>4. s = t
    BY <1>1, <1>3, SeqEqual
<1> QED BY <1>4 DEF s, t

\* A search that is over, or that goes on with another one.
LEMMA PushLookup ==
    ASSUME NEW lk, NEW nt, NEW fn, StackType(lk, nt, fn), StackIs(todo, lk, nt, fn),
           Top("lookup")
    PROVE  /\ Push(<<>>) => StackIs(todo', NoItem, nt, fn)
           /\ \A m : m.op = "lookup" /\ Push(<<m>>) => StackIs(todo', m, nt, fn)
           /\ \A m : m.op = "scan" /\ ~lk.send /\ Push(<<m>>) =>
                         nt = NoItem /\ fn = NoItem /\ StackIs(todo', NoItem, NoItem, m)
<1>1. lk \in LookItems /\ Head(todo) = lk /\ StackIs(Tail(todo), NoItem, nt, fn)
    BY TopIs
<1>2. \/ nt = NoItem /\ fn = NoItem /\ Tail(todo) = <<>>
      \/ nt.op # "none" /\ fn.op # "none" /\ lk.send /\ Tail(todo) = <<nt, fn>>
    BY <1>1 DEF StackIs, StackType, NoItem, LookItems, NotifyItems, ScanItems, DoneItems,
                FollowItems
<1>3. CASE nt = NoItem /\ fn = NoItem /\ Tail(todo) = <<>>
    BY <1>3, PushIs DEF Push, StackIs, NoItem
<1>4. CASE nt.op # "none" /\ fn.op # "none" /\ lk.send /\ Tail(todo) = <<nt, fn>>
    <2>1. Push(<<>>) => todo' = <<nt, fn>>
        BY <1>4, PushIs DEF Push
    <2>2. ASSUME NEW m, Push(<<m>>) PROVE todo' = <<m, nt, fn>>
        <3>1. <<m>> \o <<nt, fn>> = <<m, nt, fn>>
            BY PushOnTwo
        <3> QED BY <1>4, <2>2, <3>1 DEF Push
    <2> QED BY <1>4, <2>1, <2>2 DEF StackIs, NoItem
<1> QED BY <1>2, <1>3, <1>4

-----------------------------------------------------------------------------
(* Slots.                                                                  *)

\* The search goes round the slots.
LEMMA OrderIs ==
    ASSUME NEW N \in Nat, N >= 2, NEW i \in 0 .. N - 1, NEW k \in 0 .. N - 1
    PROVE  (i + k) % N = IF i + k < N THEN i + k ELSE i + k - N
    OBVIOUS

\* A set of numbers has a least one.
LEMMA FirstNat ==
    ASSUME NEW T, T \subseteq Nat, T # {}
    PROVE  \E k \in T : \A j \in T : k <= j
<1> DEFINE Less == {ss \in Nat \X Nat : ss[1] < ss[2]}
<1>1. OpToRel(<, Nat) = Less
    BY DEF OpToRel
<1>2. IsWellFoundedOn(Less, Nat)
    BY Zenon, <1>1, NatLessThanWellFounded
<1> HIDE DEF Less
<1>3. PICK k \in T : \A j \in T : <<j, k>> \notin Less
    BY Zenon, <1>2, WFMin
<1>4. ASSUME NEW j \in T PROVE k <= j
    <2>1. <<j, k>> \in Nat \X Nat /\ <<j, k>>[1] = j /\ <<j, k>>[2] = k
        OBVIOUS
    <2>2. ~(j < k)
        BY Zenon, <1>3, <2>1 DEF Less
    <2> QED BY <2>2
<1> QED BY <1>4

\* The search of dns_rslvr_task_alloc() finds a free slot, never slot 0, and finds
\* none only where all the others are taken.
LEMMA FreeSlotIs ==
    ASSUME TypeOK, slot[0] = Null
    PROVE  /\ FreeSlot # Null => FreeSlot \in Slots \ {0} /\ slot[FreeSlot] = Null
           /\ FreeSlot = Null => \A s \in Slots \ {0} : slot[s] # Null
<1> DEFINE N == SlotCount
           hit == {k \in 0 .. N - 2 : Order(k) # 0 /\ slot[Order(k)] = Null}
           first == CHOOSE k \in hit : \A j \in hit : k <= j
<1>1. N \in Nat /\ N >= 2 /\ index \in 0 .. N - 1 /\ Slots = 0 .. N - 1 /\ 0 \in Slots
    BY DnsResolvAssumption DEF TypeOK, SlotCount, Slots
<1>2. \A k \in 0 .. N - 1 : Order(k) = IF index + k < N THEN index + k ELSE index + k - N
    BY <1>1, OrderIs DEF Order
<1>3. \A k \in 0 .. N - 1 : Order(k) \in Slots
    BY <1>1, <1>2
<1>4. \A s \in Slots : \E k \in 0 .. N - 1 : Order(k) = s
    <2> TAKE s \in Slots
    <2>1. CASE s >= index
        <3>1. s - index \in 0 .. N - 1 /\ Order(s - index) = s
            BY <1>1, <1>2, <2>1
        <3> QED BY <3>1
    <2>2. CASE s < index
        <3>1. s - index + N \in 0 .. N - 1 /\ Order(s - index + N) = s
            BY <1>1, <1>2, <2>2
        <3> QED BY <3>1
    <2> QED BY <1>1, <2>1, <2>2
<1>5. Cardinality(1 .. N - 1) = N - 1 /\ IsFiniteSet(1 .. N - 1)
    BY <1>1, FS_Interval
<1>6. Busy \subseteq 1 .. N - 1
    BY <1>1 DEF Busy
<1>7. Null \notin 0 .. N - 1
    BY <1>1, DnsResolvAssumption
<1>8. FreeSlot = IF Cardinality(Busy) = N - 1 THEN Null
                 ELSE IF hit # {} THEN Order(first)
                 ELSE IF slot[Order(N - 1)] = Null THEN Order(N - 1)
                 ELSE Null
    BY DEF FreeSlot
<1> HIDE DEF N
<1>9. CASE Cardinality(Busy) = N - 1
    <2>1. Busy = 1 .. N - 1
        BY <1>5, <1>6, <1>9, FS_Subset
    <2> QED BY <1>1, <1>8, <1>9, <2>1 DEF Busy
<1>10. CASE Cardinality(Busy) # N - 1 /\ hit # {}
    <2>1. hit \subseteq Nat
        OBVIOUS
    <2>0. \E k \in hit : \A j \in hit : k <= j
        BY <1>10, <2>1, FirstNat
    <2>2. first \in hit
        BY <2>0
    <2>3. first \in 0 .. N - 1 /\ Order(first) # 0 /\ slot[Order(first)] = Null
        BY <1>1, <2>2
    <2>4. Order(first) \in Slots
        BY <1>3, <2>3
    <2>5. FreeSlot = Order(first)
        BY <1>8, <1>10
    <2> HIDE DEF first
    <2> QED BY <1>1, <1>7, <2>3, <2>4, <2>5
<1>11. CASE Cardinality(Busy) # N - 1 /\ hit = {}
    <2>1. \A k \in 0 .. N - 2 : Order(k) # 0 => slot[Order(k)] # Null
        BY <1>11
    <2>2. Order(N - 1) \in Slots
        BY <1>1, <1>3
    <2>3. CASE slot[Order(N - 1)] # Null
        <3>1. ASSUME NEW s \in Slots \ {0} PROVE slot[s] # Null
            <4>1. PICK k \in 0 .. N - 1 : Order(k) = s
                BY <1>4
            <4> QED BY <1>1, <2>1, <2>3, <4>1
        <3> QED BY <1>8, <1>11, <2>3, <3>1
    <2>4. CASE slot[Order(N - 1)] = Null
        <3>1. Order(N - 1) # 0
            <4> SUFFICES ASSUME Order(N - 1) = 0 PROVE FALSE
                OBVIOUS
            <4>1. ASSUME NEW s \in 1 .. N - 1 PROVE slot[s] # Null
                <5>1. PICK k \in 0 .. N - 1 : Order(k) = s
                    BY <1>1, <1>4
                <5>2. k # N - 1
                    BY <5>1
                <5> QED BY <1>1, <2>1, <5>1, <5>2
            <4>2. Busy = 1 .. N - 1
                BY <1>1, <1>6, <4>1 DEF Busy
            <4> QED BY <1>5, <1>11, <4>2
        <3> QED BY <1>7, <1>1, <1>8, <1>11, <2>2, <2>4, <3>1
    <2> QED BY <2>3, <2>4
<1> QED BY <1>9, <1>10, <1>11

\* NULL is no task, no entry and no request; a task is not the end of a name.
LEMMA NullIs ==
    ASSUME TypeOK
    PROVE  /\ Null \notin Task /\ Null \notin Entry /\ Null \notin Requests /\ Null \notin Names
           /\ SlotCount \in Nat /\ SlotCount >= 2 /\ Servers \in Nat \ {0} /\ Retries \in Nat
           /\ world \in [Names -> Names \cup {"addr", "none"}] /\ fails \in BOOLEAN
           /\ Requests \subseteq Nat /\ Cycles \in Nat
           /\ "addr" \notin Names /\ "none" \notin Names /\ "garbage" \notin Names
<1>1. /\ SlotCount \in Nat /\ SlotCount >= 2 /\ Servers \in Nat \ {0} /\ Retries \in Nat
      /\ world \in [Names -> Names \cup {"addr", "none"}] /\ fails \in BOOLEAN
      /\ Cycles \in Nat /\ RequestMax \in Nat
    BY DnsResolvAssumption DEF TypeOK, SlotCount, Servers, Retries, world, fails
<1>2. Requests \subseteq Nat /\ Null \notin Requests /\ Null \notin Names
    BY <1>1, DnsResolvAssumption DEF Requests
<1>3. "addr" \notin Names /\ "none" \notin Names /\ "garbage" \notin Names
    BY DnsResolvAssumption
<1>4. Slots \subseteq Nat /\ 0 .. Retries \subseteq Nat /\ 0 .. Servers \subseteq Nat
      /\ 0 .. Cycles + 1 \subseteq Nat
    BY <1>1 DEF Slots
<1>5. Task \subseteq [id : Nat, cb : BOOLEAN, name : Names \cup {Null}, queued : BOOLEAN,
                      tries : Nat, srv : Nat, loops : Nat, armed : BOOLEAN]
    BY <1>4 DEF Task
<1>6. Null \notin Task /\ Null \notin Entry
    BY <1>5, NullAssumption
<1> QED BY <1>1, <1>2, <1>3, <1>6

\* A task that goes on keeps its slot.
LEMMA SlotKept ==
    ASSUME TypeOK, SlotInv, NEW r \in Requests, tsk[r] # Null, prm' = prm, slot' = slot,
           tsk' \in [Requests -> Task \cup {Null}], tsk'[r] # Null, tsk'[r].id = tsk[r].id,
           \A s \in Requests \ {r} : tsk'[s] = tsk[s]
    PROVE  SlotInv'
<1>1. Slots' = Slots /\ Slots \subseteq Nat /\ 0 \in Slots
    BY NullIs DEF Slots, SlotCount
<1>2. slot \in [Slots -> Requests \cup {Null}]
    BY DEF TypeOK
<1> QED BY <1>1, <1>2 DEF SlotInv

\* A task that is freed gives its slot back.
LEMMA SlotFreed ==
    ASSUME TypeOK, SlotInv, NEW r \in Requests, prm' = prm, Free(r)
    PROVE  /\ SlotInv' /\ slot' \in [Slots -> Requests \cup {Null}]
           /\ tsk' \in [Requests -> Task \cup {Null}] /\ tsk'[r] = Null
           /\ \A s \in Requests \ {r} : tsk'[s] = tsk[s]
<1>1. Slots' = Slots /\ Slots \subseteq Nat /\ 0 \in Slots /\ Null \notin Requests
    BY NullIs DEF Slots, SlotCount
<1>2. slot \in [Slots -> Requests \cup {Null}] /\ tsk \in [Requests -> Task \cup {Null}]
    BY DEF TypeOK
<1>3. /\ tsk' \in [Requests -> Task \cup {Null}] /\ tsk'[r] = Null
      /\ \A s \in Requests \ {r} : tsk'[s] = tsk[s]
    BY <1>2 DEF Free
<1>4. /\ slot' \in [Slots -> Requests \cup {Null}]
      /\ \A s \in Slots : slot'[s] = IF slot[s] = r THEN Null ELSE slot[s]
    BY <1>2 DEF Free
<1>5. \A q \in Requests : tsk'[q] # Null => slot'[tsk'[q].id] = q
    <2> SUFFICES ASSUME NEW q \in Requests, tsk'[q] # Null PROVE slot'[tsk'[q].id] = q
        OBVIOUS
    <2>1. q # r /\ tsk'[q] = tsk[q] /\ slot[tsk[q].id] = q
        BY <1>3 DEF SlotInv
    <2>2. tsk[q].id \in Slots
        BY <1>2, <1>3, <2>1 DEF Task
    <2> QED BY <1>4, <2>1, <2>2
<1>6. \A s \in Slots : slot'[s] # Null => tsk'[slot'[s]] # Null /\ tsk'[slot'[s]].id = s
    <2> SUFFICES ASSUME NEW s \in Slots, slot'[s] # Null
                 PROVE  tsk'[slot'[s]] # Null /\ tsk'[slot'[s]].id = s
        OBVIOUS
    <2>1. slot'[s] = slot[s] /\ slot[s] \in Requests \ {r}
        BY <1>2, <1>4
    <2> QED BY <1>3, <2>1 DEF SlotInv
<1>7. slot'[0] = Null
    BY <1>1, <1>4 DEF SlotInv
<1> QED BY <1>1, <1>3, <1>4, <1>5, <1>6, <1>7 DEF SlotInv

\* A task goes on in its slot or takes a free one.
LEMMA SlotTaken ==
    ASSUME TypeOK, SlotInv, NEW r \in Requests, prm' = prm, NEW t \in Task,
           \/ tsk[r] # Null /\ t.id = tsk[r].id
           \/ tsk[r] = Null /\ FreeSlot # Null /\ t.id = FreeSlot,
           Taken(r, t)
    PROVE  /\ SlotInv' /\ slot' \in [Slots -> Requests \cup {Null}] /\ index' \in Slots
           /\ tsk' \in [Requests -> Task \cup {Null}] /\ tsk'[r] = t
           /\ \A s \in Requests \ {r} : tsk'[s] = tsk[s]
<1>1. /\ Slots' = Slots /\ Slots \subseteq Nat /\ 0 \in Slots /\ Null \notin Requests
      /\ Null \notin Task
    BY NullIs DEF Slots, SlotCount
<1>2. /\ slot \in [Slots -> Requests \cup {Null}] /\ tsk \in [Requests -> Task \cup {Null}]
      /\ index \in Slots
    BY DEF TypeOK
<1>3. /\ tsk' \in [Requests -> Task \cup {Null}] /\ tsk'[r] = t
      /\ \A s \in Requests \ {r} : tsk'[s] = tsk[s]
    BY <1>2 DEF Taken
<1>4. t.id \in Slots
    BY DEF Task
<1>5. t.id # 0 /\ (slot[t.id] = r \/ slot[t.id] = Null)
    <2>1. CASE tsk[r] # Null /\ t.id = tsk[r].id
        <3>1. slot[t.id] = r
            BY <2>1 DEF SlotInv
        <3> QED BY <1>1, <3>1 DEF SlotInv
    <2>2. CASE tsk[r] = Null /\ FreeSlot # Null /\ t.id = FreeSlot
        <3>1. FreeSlot \in Slots \ {0} /\ slot[FreeSlot] = Null
            BY <2>2, FreeSlotIs DEF SlotInv
        <3> QED BY <2>2, <3>1
    <2> QED BY <2>1, <2>2
<1>6. /\ slot' \in [Slots -> Requests \cup {Null}] /\ index' \in Slots
      /\ slot'[t.id] = r /\ \A s \in Slots \ {t.id} : slot'[s] = slot[s]
    BY <1>2, <1>4 DEF Taken
<1>7. \A q \in Requests : tsk'[q] # Null => slot'[tsk'[q].id] = q
    <2> SUFFICES ASSUME NEW q \in Requests, tsk'[q] # Null PROVE slot'[tsk'[q].id] = q
        OBVIOUS
    <2>1. CASE q = r
        BY <1>3, <1>6, <2>1
    <2>2. CASE q # r
        <3>1. tsk'[q] = tsk[q] /\ slot[tsk[q].id] = q
            BY <1>3, <2>2 DEF SlotInv
        <3>2. tsk[q].id \in Slots
            BY <1>2, <1>3, <3>1 DEF Task
        <3>3. tsk[q].id # t.id
            BY <1>1, <1>5, <2>2, <3>1
        <3> QED BY <1>6, <3>1, <3>2, <3>3
    <2> QED BY <2>1, <2>2
<1>8. \A s \in Slots : slot'[s] # Null => tsk'[slot'[s]] # Null /\ tsk'[slot'[s]].id = s
    <2> SUFFICES ASSUME NEW s \in Slots, slot'[s] # Null
                 PROVE  tsk'[slot'[s]] # Null /\ tsk'[slot'[s]].id = s
        OBVIOUS
    <2>1. CASE s = t.id
        BY <1>1, <1>3, <1>6, <2>1
    <2>2. CASE s # t.id
        <3>1. slot'[s] = slot[s] /\ slot[s] \in Requests
            BY <1>2, <1>6, <2>2
        <3>2. tsk[slot[s]] # Null /\ tsk[slot[s]].id = s
            BY <3>1 DEF SlotInv
        <3>3. slot[s] # r
            BY <1>5, <2>2, <3>1, <3>2 DEF SlotInv
        <3> QED BY <1>3, <3>1, <3>2, <3>3
    <2> QED BY <2>1, <2>2
<1>9. slot'[0] = Null
    BY <1>1, <1>5, <1>6 DEF SlotInv
<1> QED BY <1>1, <1>3, <1>6, <1>7, <1>8, <1>9 DEF SlotInv

-----------------------------------------------------------------------------
(* Aliases.                                                                *)

\* A name leads to itself, and to the alias of what it leads to.
LEMMA ChainIs ==
    ASSUME NEW x \in Names
    PROVE  /\ x \in Chain(x) /\ Chain(x) \subseteq Names
           /\ \A y \in Chain(x) : world[y] \in Names => world[y] \in Chain(x)
<1>1. x \in Chain(x) /\ Chain(x) \subseteq Names
    BY DEF Chain
<1>2. ASSUME NEW y \in Chain(x), world[y] \in Names PROVE world[y] \in Chain(x)
    <2>1. ASSUME NEW S \in SUBSET Names, x \in S /\ Closed(S) PROVE world[y] \in S
        <3>1. y \in S
            BY <2>1 DEF Chain
        <3> QED BY <1>2, <2>1, <3>1 DEF Closed
    <2> QED BY <1>2, <2>1 DEF Chain
<1> QED BY <1>1, <1>2

\* A name that has no alias leads to itself only.
LEMMA EndChain ==
    ASSUME NEW y \in Names, world[y] \notin Names
    PROVE  Chain(y) = {y}
<1>1. {y} \in SUBSET Names /\ Closed({y})
    BY DEF Closed
<1> QED BY <1>1 DEF Chain

\* Aliases have at most one end: the answer of a request is determined by the name
\* that was asked for.
LEMMA OneEnd ==
    ASSUME NEW x \in Names, NEW y \in Last(x), NEW z \in Last(x)
    PROVE  y = z
<1> DEFINE S == {u \in Names : y \in Chain(u)}
<1>1. /\ y \in Chain(x) /\ z \in Chain(x) /\ y \in Names /\ z \in Names
      /\ world[y] \notin Names /\ world[z] \notin Names
    BY ChainIs DEF Last
<1>2. x \in S /\ S \in SUBSET Names
    BY <1>1
<1>3. Closed(S)
    <2> SUFFICES ASSUME NEW u \in S, world[u] \in Names PROVE y \in Chain(world[u])
        BY DEF Closed
    <2>1. ASSUME NEW T \in SUBSET Names, world[u] \in T, Closed(T) PROVE y \in T
        <3>1. T \cup {u} \in SUBSET Names /\ u \in T \cup {u} /\ Closed(T \cup {u})
            BY <2>1 DEF Closed
        <3>2. y \in T \cup {u}
            BY <3>1 DEF Chain
        <3>3. y # u
            BY <1>1
        <3> QED BY <3>2, <3>3
    <2> QED BY <1>1, <2>1 DEF Chain
<1>4. z \in S
    BY <1>1, <1>2, <1>3 DEF Chain
<1>5. y \in Chain(z)
    BY <1>4
<1> QED BY <1>1, <1>5, EndChain

\* The servers do not change.
LEMMA SameWorld ==
    ASSUME prm' = prm, NEW x, NEW z
    PROVE  /\ world' = world /\ Servers' = Servers /\ Retries' = Retries /\ Slots' = Slots
           /\ Task' = Task /\ Chain(x)' = Chain(x) /\ (Right(x, z)' <=> Right(x, z))
<1>1. world' = world /\ Servers' = Servers /\ Retries' = Retries /\ Slots' = Slots
    BY DEF world, Servers, Retries, Slots, SlotCount
<1>2. Task' = Task
    BY <1>1 DEF Task
<1>3. Chain(x)' = Chain(x)
    BY <1>1 DEF Chain, Closed
<1> QED BY <1>1, <1>2, <1>3 DEF Right

-----------------------------------------------------------------------------
(* One request acts.                                                       *)

\* What a step of r leaves as it is for the other requests.
Apart(r, nt, fn, nt2, fn2) ==
    \A s \in Requests \ {r} :
        /\ tsk'[s] = tsk[s] /\ req'[s] = req[s]
        /\ \A x \in Names : WaitsFor(s, x, nt2)' <=> WaitsFor(s, x, nt)
        /\ \/ fn2 = fn /\ (nt2.op = "notify" => nt.op = "notify" /\ nt2.x = nt.x)
           \/ ~Runs(fn, s) /\ ~Runs(fn2, s)
        /\ tsk[s] # Null /\ tsk[s].name # Null =>
              /\ cache'[tsk[s].name] # Null
              /\ cache'[tsk[s].name].upd = cache[tsk[s].name].upd
              /\ cache[tsk[s].name].upd \/ cache'[tsk[s].name].fresh = cache[tsk[s].name].fresh
              /\ tsk'[r] # Null => tsk'[r].name # tsk[s].name

\* A step of one request keeps what holds of all.
LEMMA OneStep ==
    ASSUME NEW lk, NEW nt, NEW fn, NEW lk2, NEW nt2, NEW fn2, NEW r \in Requests,
           Inv(lk, nt, fn), prm' = prm,
           StackType(lk2, nt2, fn2), StackIs(todo', lk2, nt2, fn2),
           TypeOK', SlotInv', CacheInv', WaitInv(nt2)', ReqInv(r, lk2, nt2, fn2)',
           Apart(r, nt, fn, nt2, fn2),
           \A s \in Requests \ {r} : ~Looks(lk, s) /\ ~Looks(lk2, s)
    PROVE  Inv(lk2, nt2, fn2)'
<1>1. StackType(lk2, nt2, fn2)'
    BY DEF StackType, LookItems, NotifyItems, ScanItems, DoneItems, FollowItems, NoItem
<1>2. StackIs(todo, lk2, nt2, fn2)'
    BY DEF StackIs
<1>3. SoleOwner'
    <2> SUFFICES ASSUME NEW p \in Requests, NEW q \in Requests,
                        tsk'[p] # Null, tsk'[p].name # Null, tsk'[q] # Null,
                        tsk'[q].name = tsk'[p].name
                 PROVE  p = q
        BY DEF SoleOwner
    <2>1. CASE p # r /\ q # r
        BY <2>1 DEF Apart, Inv, SoleOwner
    <2>2. CASE p # r /\ q = r
        BY <2>2 DEF Apart
    <2>3. CASE p = r /\ q # r
        BY <2>3 DEF Apart
    <2> QED BY <2>1, <2>2, <2>3
<1>4. ASSUME NEW s \in Requests, s # r PROVE ReqInv(s, lk2, nt2, fn2)'
    <2>1. /\ tsk'[s] = tsk[s] /\ req'[s] = req[s]
          /\ \A x \in Names : WaitsFor(s, x, nt2)' <=> WaitsFor(s, x, nt)
          /\ \/ fn2 = fn /\ (nt2.op = "notify" => nt.op = "notify" /\ nt2.x = nt.x)
             \/ ~Runs(fn, s) /\ ~Runs(fn2, s)
          /\ tsk[s] # Null /\ tsk[s].name # Null =>
                /\ cache'[tsk[s].name] # Null
                /\ cache'[tsk[s].name].upd = cache[tsk[s].name].upd
                /\ cache[tsk[s].name].upd
                   \/ cache'[tsk[s].name].fresh = cache[tsk[s].name].fresh
        BY <1>4 DEF Apart
    <2>2. ~Looks(lk, s) /\ ~Looks(lk2, s)
        BY <1>4
    <2>3. CallInv(s) /\ OwnInv(s, fn) /\ PlaceInv(s, lk, nt, fn) /\ HandlerInv(s, lk, nt, fn)
          /\ PathInv(s, lk, nt, fn)
        BY DEF Inv, ReqInv
    <2>4. (Ends(fn2, s) <=> Ends(fn, s)) /\ (Runs(fn2, s) <=> Runs(fn, s))
        BY <2>1 DEF Ends, Runs
    <2>5. Waits(s, nt2)' <=> Waits(s, nt)
        BY <2>1 DEF Waits
    <2>6. Servers' = Servers
        BY DEF Servers
    <2>7. CallInv(s)'
        BY <2>1, <2>3 DEF CallInv
    <2>8. OwnInv(s, fn2)'
        <3> SUFFICES ASSUME tsk'[s] # Null, tsk'[s].name # Null
                     PROVE  /\ cache'[tsk'[s].name] # Null /\ ~tsk'[s].queued
                            /\ tsk'[s].loops < Cycles
                            /\ IF Ends(fn2, s)
                               THEN ~cache'[tsk'[s].name].upd /\ cache'[tsk'[s].name].fresh
                               ELSE cache'[tsk'[s].name].upd
            BY DEF OwnInv, Ends
        <3> QED BY <2>1, <2>3, <2>4 DEF OwnInv
    <2>9. PlaceInv(s, lk2, nt2, fn2)'
        <3>1. Waits(s, nt2)' => req'[s].st # "idle"
            BY <2>1, <2>3, <2>5 DEF PlaceInv
        <3>2. ASSUME tsk'[s] # Null
              PROVE  /\ tsk'[s].queued <=> Waits(s, nt2)'
                     /\ tsk'[s].armed => tsk'[s].name # Null /\ tsk'[s].srv < Servers'
                     /\ tsk'[s].loops <= Cycles
                     /\ ~tsk'[s].queued /\ tsk'[s].cb => tsk'[s].armed \/ Runs(fn2, s)
            BY <2>1, <2>2, <2>3, <2>4, <2>5, <2>6, <3>2 DEF PlaceInv
        <3> QED BY <3>1, <3>2 DEF PlaceInv, Runs, Looks
    <2>10. HandlerInv(s, lk2, nt2, fn2)'
        <3>1. ASSUME Runs(fn2, s)
              PROVE  /\ tsk'[s] # Null /\ ~tsk'[s].armed
                     /\ fn2.op # "done" => tsk'[s].name # Null
                     /\ fn2.op = "scan" /\ fn2.rr.bad => tsk'[s].srv < Servers'
                     /\ nt2.op = "notify" => tsk'[s].name = nt2.x
            BY <2>1, <2>3, <2>6, <3>1 DEF HandlerInv
        <3> QED BY <2>2, <3>1 DEF HandlerInv, Looks, Runs
    <2>11. PathInv(s, lk2, nt2, fn2)'
        <3>1. /\ IF req'[s].st = "idle" THEN req'[s].res = NoResult ELSE req'[s].name \in Names
              /\ tsk'[s] # Null /\ tsk'[s].name # Null => tsk'[s].name \in Chain(req[s].name)'
              /\ Right(req[s].name, req[s].res.of)'
            <4>1. PICK n, z, y : n = req[s].name /\ z = req[s].res.of /\ y = tsk[s].name
                OBVIOUS
            <4>2. Chain(n)' = Chain(n) /\ (Right(n, z)' <=> Right(n, z))
                BY SameWorld
            <4>3. req[s].name' = n /\ req[s].res.of' = z
                BY <2>1, <4>1
            <4>4. Right(n, z)
                BY <2>3, <4>1 DEF PathInv
            <4>5. Right(n, z)'
                BY <4>2, <4>4
            <4>6. Right(req[s].name, req[s].res.of)'
                BY <4>3, <4>5 DEF Right
            <4>7. Chain(req[s].name)' = Chain(n)
                BY <4>2, <4>3 DEF Chain
            <4> QED BY <2>1, <2>3, <4>1, <4>6, <4>7 DEF PathInv
        <3>2. \A x \in Names : WaitsFor(s, x, nt2)' => x \in Chain(req[s].name)'
            <4>1. PICK n : n = req[s].name
                OBVIOUS
            <4>2. Chain(n)' = Chain(n)
                BY SameWorld
            <4>3. req[s].name' = n
                BY <2>1, <4>1
            <4>4. Chain(req[s].name)' = Chain(n)
                BY <4>2, <4>3 DEF Chain
            <4> QED BY <2>1, <2>3, <4>1, <4>4 DEF PathInv
        <3>3. ASSUME Runs(fn2, s)
              PROVE  /\ fn2.op = "follow" => fn2.x \in Chain(req[s].name)'
                     /\ fn2.op = "done" => Right(req[s].name, fn2.res.of)'
            <4>1. fn2 = fn /\ Runs(fn, s)
                BY <2>1, <3>3
            <4>2. PICK n, z : n = req[s].name /\ z = fn.res.of
                OBVIOUS
            <4>3. Chain(n)' = Chain(n) /\ (Right(n, z)' <=> Right(n, z))
                BY SameWorld
            <4>4. req[s].name' = n
                BY <2>1, <4>2
            <4>5. fn.op = "done" => Right(n, z)
                BY <2>3, <4>1, <4>2 DEF PathInv
            <4>6. fn2.op = "done" => Right(req[s].name, fn2.res.of)'
                BY <4>1, <4>2, <4>3, <4>4, <4>5 DEF Right
            <4>7. Chain(req[s].name)' = Chain(n)
                BY <4>3, <4>4 DEF Chain
            <4> QED BY <2>3, <4>1, <4>2, <4>6, <4>7 DEF PathInv
        <3> QED BY <2>2, <3>1, <3>2, <3>3 DEF PathInv, Looks, Runs
    <2> QED BY <2>7, <2>8, <2>9, <2>10, <2>11 DEF ReqInv
<1>5. \A s \in Requests : ReqInv(s, lk2, nt2, fn2)'
    BY <1>4
<1> QED BY <1>1, <1>2, <1>3, <1>5 DEF Inv

-----------------------------------------------------------------------------
(* The pieces of a step.                                                   *)

ReqType == [name : Names \cup {Null}, res : Results,
            st : {"idle", "open", "done", "cancelled", "twice"}]

\* The types of a step.
LEMMA TypeNext ==
    ASSUME TypeOK, prm' = prm,
           cache' \in [Names -> Entry \cup {Null}], tsk' \in [Requests -> Task \cup {Null}],
           slot' \in [Slots -> Requests \cup {Null}], index' \in Slots,
           sent' \subseteq [id : Slots, srv : 0 .. Servers - 1, name : Names],
           req' \in [Requests -> ReqType], up' \in {"up", "down", "crash"}
    PROVE  TypeOK'
<1>1. Servers' = Servers /\ Slots' = Slots /\ Task' = Task
    BY SameWorld
<1> QED BY <1>1 DEF TypeOK, ReqType

\* What a request leads to is fixed with its name.
LEMMA ChainNext ==
    ASSUME NEW r, NEW n, prm' = prm, req'[r].name = n
    PROVE  /\ Chain(req[r].name)' = Chain(n)
           /\ \A z : Right(req[r].name, z)' <=> Right(n, z)
<1>1. Chain(n)' = Chain(n) /\ world' = world
    BY SameWorld
<1>2. req[r].name' = n
    OBVIOUS
<1>3. Chain(req[r].name)' = Chain(n)
    BY <1>1, <1>2 DEF Chain
<1> QED BY <1>1, <1>3 DEF Right

\* Nobody leaves or enters a queue.
LEMMA SameWaits ==
    ASSUME NEW nt, WaitInv(nt),
           \A s \in Requests, y \in Names : InQueue(s, y)' <=> InQueue(s, y)
    PROVE  /\ WaitInv(nt)'
           /\ \A s \in Requests, y \in Names : WaitsFor(s, y, nt)' <=> WaitsFor(s, y, nt)
           /\ \A s \in Requests : Waits(s, nt)' <=> Waits(s, nt)
<1>1. \A s \in Requests : In(s, Pend(nt))' <=> In(s, Pend(nt))
    BY DEF In, Pend
<1>2. Distinct(Pend(nt))' <=> Distinct(Pend(nt))
    BY DEF Distinct, Pend
<1>3. WaitInv(nt)'
    BY <1>1, <1>2 DEF WaitInv
<1>4. \A s \in Requests, y \in Names : WaitsFor(s, y, nt)' <=> WaitsFor(s, y, nt)
    BY <1>1 DEF WaitsFor
<1>5. \A s \in Requests : Waits(s, nt)' <=> Waits(s, nt)
    BY <1>4 DEF Waits
<1> QED BY <1>3, <1>4, <1>5

\* An entry is made, marked or goes out of date.
LEMMA EntryChanged ==
    ASSUME TypeOK, CacheInv, prm' = prm, NEW x \in Names, NEW e \in Entry,
           cache' = [cache EXCEPT ![x] = e],
           \/ cache[x] = Null /\ e.queue = <<>> /\ ~e.cname /\ e.data = NoData
           \/ /\ cache[x] # Null /\ e.queue = cache[x].queue /\ e.cname = cache[x].cname
              /\ e.data = cache[x].data /\ (cache[x].upd => e.upd)
    PROVE  /\ cache' \in [Names -> Entry \cup {Null}] /\ CacheInv'
           /\ \A s \in Requests, y \in Names : InQueue(s, y)' <=> InQueue(s, y)
           /\ cache'[x] = e /\ \A y \in Names \ {x} : cache'[y] = cache[y]
<1>1. cache \in [Names -> Entry \cup {Null}] /\ Null \notin Entry
    BY NullIs DEF TypeOK
<1>2. /\ cache' \in [Names -> Entry \cup {Null}]
      /\ cache'[x] = e /\ e # Null /\ \A y \in Names \ {x} : cache'[y] = cache[y]
    BY <1>1
<1>3. world' = world
    BY SameWorld
<1>4. CacheInv'
    <2> SUFFICES ASSUME NEW y \in Names, cache'[y] # Null
                 PROVE  /\ cache'[y].cname => cache'[y].data.of = world[y] /\ world[y] \in Names
                        /\ cache'[y].data.k = "addrs" => cache'[y].data.of = y /\ world[y] = "addr"
                        /\ cache'[y].data.k \in {"alias", "mixed"} => world[y] \in Names
                        /\ ~cache'[y].upd => cache'[y].queue = <<>>
                        /\ Distinct(cache'[y].queue)
        BY <1>3 DEF CacheInv, Distinct
    <2>1. CASE y # x
        BY <1>2, <2>1 DEF CacheInv
    <2>2. CASE y = x /\ cache[x] = Null
        BY <1>2, <2>2 DEF NoData, Distinct
    <2>3. CASE y = x /\ cache[x] # Null
        BY <1>2, <2>3 DEF CacheInv
    <2> QED BY <2>1, <2>2, <2>3
<1>5. ASSUME NEW s \in Requests, NEW y \in Names PROVE InQueue(s, y)' <=> InQueue(s, y)
    <2>1. CASE y # x
        BY <1>2, <2>1 DEF InQueue
    <2>2. CASE y = x /\ cache[x] = Null
        BY <1>2, <2>2 DEF InQueue
    <2>3. CASE y = x /\ cache[x] # Null
        BY <1>2, <2>3 DEF InQueue
    <2> QED BY <2>1, <2>2, <2>3
<1> QED BY <1>2, <1>4, <1>5

\* The cache stays as it is.
LEMMA SameCache ==
    ASSUME CacheInv, prm' = prm, cache' = cache
    PROVE  /\ CacheInv'
           /\ \A s \in Requests, y \in Names : InQueue(s, y)' <=> InQueue(s, y)
<1>1. world' = world
    BY SameWorld
<1> QED BY <1>1 DEF CacheInv, Distinct, InQueue

\* The state a search finds.
LEMMA LookFinds ==
    ASSUME NEW lk, NEW nt, NEW fn, Inv(lk, nt, fn), Top("lookup")
    PROVE  /\ lk \in LookItems /\ Head(todo) = lk /\ lk.r \in Requests /\ lk.x \in Names
           /\ lk.n \in 0 .. Cycles /\ lk.send \in BOOLEAN
           /\ ~Waits(lk.r, nt) /\ ~Runs(fn, lk.r) /\ Looks(lk, lk.r)
           /\ tsk[lk.r] = Null => req[lk.r].st = "open" /\ lk.send /\ nt = NoItem
           /\ tsk[lk.r] # Null => /\ tsk[lk.r] \in Task /\ tsk[lk.r].name = Null
                                  /\ ~tsk[lk.r].queued /\ ~tsk[lk.r].armed
                                  /\ req[lk.r].st = IF tsk[lk.r].cb THEN "open" ELSE "cancelled"
           /\ req[lk.r].name \in Names /\ lk.x \in Chain(req[lk.r].name)
           /\ Right(req[lk.r].name, req[lk.r].res.of)
           /\ \A s \in Requests \ {lk.r} : ~Looks(lk, s)
           /\ nt.op = "notify" \/ (nt = NoItem /\ fn = NoItem)
           /\ nt.op = "notify" => lk.send
<1>1. lk \in LookItems /\ Head(todo) = lk /\ StackType(lk, nt, fn)
    BY TopIs DEF Inv
<1>2. /\ lk.r \in Requests /\ lk.x \in Names /\ lk.n \in 0 .. Cycles /\ lk.send \in BOOLEAN
      /\ lk.op = "lookup"
    BY <1>1 DEF LookItems
<1>3. Looks(lk, lk.r) /\ \A s \in Requests \ {lk.r} : ~Looks(lk, s)
    BY <1>2 DEF Looks
<1>4. ReqInv(lk.r, lk, nt, fn)
    BY <1>2 DEF Inv
<1>5. /\ nt.op = "notify" \/ (nt = NoItem /\ fn = NoItem)
      /\ nt.op = "notify" => lk.send /\ nt.x \in Names
      /\ nt.op = "none" => nt = NoItem
    BY <1>1, <1>2 DEF StackType, NotifyItems, NoItem, ScanItems, DoneItems, FollowItems
<1>6. /\ ~Waits(lk.r, nt)
      /\ IF tsk[lk.r] = Null THEN req[lk.r].st = "open" /\ lk.send /\ nt.op = "none"
         ELSE tsk[lk.r].name = Null
    BY <1>3, <1>4 DEF ReqInv, HandlerInv
<1>7. ~Runs(fn, lk.r)
    <2>1. Null \notin Names
        BY DnsResolvAssumption
    <2>2. CASE nt.op = "notify"
        BY <1>4, <1>5, <1>6, <2>1, <2>2 DEF ReqInv, HandlerInv
    <2>3. CASE fn = NoItem
        BY <2>3 DEF NoItem, Runs
    <2> QED BY <1>5, <2>2, <2>3
<1>8. tsk[lk.r] # Null => /\ tsk[lk.r] \in Task
                          /\ ~tsk[lk.r].queued /\ ~tsk[lk.r].armed
                          /\ req[lk.r].st = IF tsk[lk.r].cb THEN "open" ELSE "cancelled"
    <2>1. tsk[lk.r] # Null => tsk[lk.r] \in Task
        BY <1>2 DEF Inv, TypeOK
    <2>2. tsk[lk.r] # Null => ~tsk[lk.r].queued /\ ~tsk[lk.r].armed
        BY <1>4, <1>6, <2>1 DEF ReqInv, PlaceInv, Task
    <2>3. tsk[lk.r] # Null => req[lk.r].st = IF tsk[lk.r].cb THEN "open" ELSE "cancelled"
        BY <1>4 DEF ReqInv, CallInv
    <2> QED BY <2>1, <2>2, <2>3
<1>9. req[lk.r].st # "idle"
    BY <1>6, <1>8
<1>10. /\ req[lk.r].name \in Names /\ lk.x \in Chain(req[lk.r].name)
       /\ Right(req[lk.r].name, req[lk.r].res.of)
    BY <1>3, <1>4, <1>9 DEF ReqInv, PathInv
<1> QED BY <1>1, <1>2, <1>3, <1>5, <1>6, <1>7, <1>8, <1>10

-----------------------------------------------------------------------------
(* Searches.                                                               *)

\* What a search does to an entry leaves those of the other tasks alone.
KeepsOwned(r) ==
    \A s \in Requests \ {r} :
        tsk[s] # Null /\ tsk[s].name # Null =>
            /\ cache'[tsk[s].name] # Null
            /\ cache'[tsk[s].name].upd = cache[tsk[s].name].upd
            /\ cache[tsk[s].name].upd \/ cache'[tsk[s].name].fresh = cache[tsk[s].name].fresh

\* The task is freed, with or without its callback.
LEMMA LookupEnds ==
    ASSUME NEW lk, NEW nt, NEW fn, Inv(lk, nt, fn), Top("lookup"), prm' = prm,
           tsk[lk.r] # Null => tsk[lk.r].cb,
           Free(lk.r), Push(<<>>), index' \in Slots, sent' = sent, up' = up,
           cache' \in [Names -> Entry \cup {Null}], CacheInv', KeepsOwned(lk.r),
           \A s \in Requests, y \in Names : InQueue(s, y)' <=> InQueue(s, y),
           \/ req' = req
           \/ \E res \in Results : Call(lk.r, res) /\ Right(req[lk.r].name, res.of)
    PROVE  Inv(NoItem, nt, fn)'
<1> DEFINE r == lk.r
<1>1. /\ lk \in LookItems /\ Head(todo) = lk /\ r \in Requests
      /\ ~Waits(r, nt) /\ ~Runs(fn, r) /\ req[r].st = "open"
      /\ req[r].name \in Names /\ Right(req[r].name, req[r].res.of)
      /\ \A s \in Requests \ {r} : ~Looks(lk, s)
    BY LookFinds
<1>2. /\ TypeOK /\ SlotInv /\ WaitInv(nt) /\ StackType(lk, nt, fn)
      /\ StackIs(todo, lk, nt, fn)
    BY DEF Inv
<1> HIDE DEF r
<1>3. /\ SlotInv' /\ slot' \in [Slots -> Requests \cup {Null}]
      /\ tsk' \in [Requests -> Task \cup {Null}] /\ tsk'[r] = Null
      /\ \A s \in Requests \ {r} : tsk'[s] = tsk[s]
    BY <1>1, <1>2, SlotFreed DEF r
<1>4. req \in [Requests -> ReqType]
    BY <1>2 DEF TypeOK, ReqType
<1>5. /\ req' \in [Requests -> ReqType] /\ \A s \in Requests \ {r} : req'[s] = req[s]
      /\ req'[r].st \in {"open", "done"} /\ req'[r].name = req[r].name
      /\ Right(req[r].name, req'[r].res.of)
    <2>1. CASE req' = req
        BY <1>1, <1>4, <2>1
    <2>2. CASE \E res \in Results : Call(lk.r, res) /\ Right(req[lk.r].name, res.of)
        <3>1. PICK res \in Results : Call(lk.r, res) /\ Right(req[lk.r].name, res.of)
            BY <2>2
        <3>2. /\ req' \in [Requests -> ReqType] /\ \A s \in Requests \ {r} : req'[s] = req[s]
              /\ req'[r].st = "done" /\ req'[r].name = req[r].name /\ req'[r].res = res
            BY <1>1, <1>4, <3>1 DEF Call, r, ReqType
        <3> QED BY <3>1, <3>2 DEF r
    <2> QED BY <2>1, <2>2
<1>6. TypeOK'
    BY <1>2, <1>3, <1>5, TypeNext DEF TypeOK
<1>7. StackType(NoItem, nt, fn) /\ StackIs(todo', NoItem, nt, fn)
    BY <1>2, PushLookup DEF StackType, NoItem
<1>8. /\ WaitInv(nt)'
      /\ \A s \in Requests, y \in Names : WaitsFor(s, y, nt)' <=> WaitsFor(s, y, nt)
      /\ \A s \in Requests : Waits(s, nt)' <=> Waits(s, nt)
    BY <1>2, SameWaits
<1>9. ReqInv(r, NoItem, nt, fn)'
    <2>1. CallInv(r)' /\ OwnInv(r, fn)'
        BY <1>3, <1>5 DEF CallInv, OwnInv
    <2>2. PlaceInv(r, NoItem, nt, fn)' /\ HandlerInv(r, NoItem, nt, fn)'
        BY <1>1, <1>3, <1>8 DEF PlaceInv, HandlerInv, Looks, NoItem, Runs
    <2>3. PathInv(r, NoItem, nt, fn)'
        <3>1. PICK n : n = req[r].name
            OBVIOUS
        <3>2. \A z : Right(req[r].name, z)' <=> Right(n, z)
            BY <1>5, <3>1, ChainNext
        <3>3. Right(req[r].name, req[r].res.of)'
            <4>1. PICK z : z = req'[r].res.of
                OBVIOUS
            <4>2. Right(req[r].name, z)'
                BY <1>5, <3>1, <3>2, <4>1
            <4> QED BY <4>1, <4>2
        <3>4. \A x \in Names : ~WaitsFor(r, x, nt)'
            BY <1>1, <1>8 DEF Waits
        <3> QED BY <1>1, <1>3, <1>5, <3>3, <3>4 DEF PathInv, Looks, NoItem, Runs
    <2> QED BY <2>1, <2>2, <2>3 DEF ReqInv
<1>10. Apart(r, nt, fn, nt, fn)
    BY <1>3, <1>5, <1>8 DEF Apart, KeepsOwned, r
<1>11. \A s \in Requests \ {r} : ~Looks(lk, s) /\ ~Looks(NoItem, s)
    BY <1>1 DEF Looks, NoItem
<1> QED BY <1>1, <1>2, <1>3, <1>6, <1>7, <1>8, <1>9, <1>10, <1>11, OneStep

\* The task a search goes on with.
LEMMA TaskForIs ==
    ASSUME NEW lk, NEW nt, NEW fn, Inv(lk, nt, fn), Top("lookup"),
           tsk[lk.r] # Null => tsk[lk.r].cb, NEW t \in TaskFor(lk.r)
    PROVE  /\ t \in Task /\ t.cb /\ t.name = Null /\ ~t.queued /\ ~t.armed
           /\ \/ tsk[lk.r] # Null /\ t.id = tsk[lk.r].id
              \/ tsk[lk.r] = Null /\ FreeSlot # Null /\ t.id = FreeSlot
<1>1. CASE tsk[lk.r] # Null
    <2>1. t = tsk[lk.r]
        BY <1>1 DEF TaskFor
    <2> QED BY <1>1, <2>1, LookFinds
<1>2. CASE tsk[lk.r] = Null
    <2>1. FreeSlot # Null /\ t = NewTask(FreeSlot)
        BY <1>2 DEF TaskFor
    <2>2. FreeSlot \in Slots
        BY <2>1, FreeSlotIs DEF Inv, SlotInv
    <2>3. 0 \in 0 .. Retries /\ 0 \in 0 .. Servers /\ 0 \in 0 .. Cycles + 1
        BY NullIs DEF Inv
    <2> QED BY <1>2, <2>1, <2>2, <2>3 DEF NewTask, Task
<1> QED BY <1>1, <1>2

\* The task updates the entry: its query is sent or the answer is gone on with.
LEMMA LookupOwns ==
    ASSUME NEW lk, NEW nt, NEW fn, NEW fn2, NEW t \in Task,
           Inv(lk, nt, fn), Top("lookup"), prm' = prm,
           tsk[lk.r] # Null => tsk[lk.r].cb, lk.n < Cycles,
           t.cb, t.name = lk.x, ~t.queued, t.srv = 0, t.loops = lk.n,
           \/ tsk[lk.r] # Null /\ t.id = tsk[lk.r].id
           \/ tsk[lk.r] = Null /\ FreeSlot # Null /\ t.id = FreeSlot,
           Taken(lk.r, t), req' = req, up' = up,
           sent' \subseteq [id : Slots, srv : 0 .. Servers - 1, name : Names],
           cache' \in [Names -> Entry \cup {Null}], CacheInv', KeepsOwned(lk.r),
           cache'[lk.x] # Null, cache'[lk.x].upd,
           \A s \in Requests \ {lk.r} : tsk[s] # Null => tsk[s].name # lk.x,
           \A s \in Requests, y \in Names : InQueue(s, y)' <=> InQueue(s, y),
           StackIs(todo', NoItem, nt, fn2),
           \/ t.armed /\ fn2 = fn
           \/ /\ ~t.armed /\ nt = NoItem /\ fn = NoItem
              /\ fn2 \in ScanItems /\ fn2.r = lk.r
    PROVE  Inv(NoItem, nt, fn2)'
<1> DEFINE r == lk.r
<1>1. /\ lk \in LookItems /\ r \in Requests /\ lk.x \in Names
      /\ ~Waits(r, nt) /\ ~Runs(fn, r) /\ req[r].st = "open"
      /\ req[r].name \in Names /\ Right(req[r].name, req[r].res.of)
      /\ lk.x \in Chain(req[r].name) /\ lk.n \in 0 .. Cycles
      /\ \A s \in Requests \ {r} : ~Looks(lk, s)
    BY LookFinds
<1>2. /\ TypeOK /\ SlotInv /\ WaitInv(nt) /\ StackType(lk, nt, fn)
      /\ StackIs(todo, lk, nt, fn)
    BY DEF Inv
<1> HIDE DEF r
<1>3. /\ SlotInv' /\ slot' \in [Slots -> Requests \cup {Null}] /\ index' \in Slots
      /\ tsk' \in [Requests -> Task \cup {Null}] /\ tsk'[r] = t
      /\ \A s \in Requests \ {r} : tsk'[s] = tsk[s]
    BY <1>1, <1>2, SlotTaken DEF r
<1>4. /\ Null \notin Names /\ Servers \in Nat \ {0} /\ Servers' = Servers /\ Null \notin Task
      /\ Cycles \in Nat
    BY <1>2, NullIs, SameWorld
<1>5. TypeOK'
    BY <1>2, <1>3, TypeNext DEF TypeOK, ReqType
<1>6. StackType(NoItem, nt, fn2)
    BY <1>2 DEF StackType, NoItem
<1>7. /\ WaitInv(nt)'
      /\ \A s \in Requests, y \in Names : WaitsFor(s, y, nt)' <=> WaitsFor(s, y, nt)
      /\ \A s \in Requests : Waits(s, nt)' <=> Waits(s, nt)
    BY <1>2, SameWaits
<1>8. /\ Runs(fn2, r) <=> ~t.armed
      /\ Runs(fn2, r) => fn2.op = "scan" /\ nt.op # "notify"
      /\ ~Ends(fn2, r)
      /\ \A s \in Requests \ {r} : fn2 = fn \/ (~Runs(fn, s) /\ ~Runs(fn2, s))
    <2>1. CASE t.armed /\ fn2 = fn
        BY <1>1, <2>1 DEF Runs, Ends
    <2>2. CASE /\ ~t.armed /\ nt = NoItem /\ fn = NoItem
               /\ fn2 \in ScanItems /\ fn2.r = lk.r
        BY <1>1, <2>2 DEF Runs, Ends, ScanItems, NoItem, r
    <2> QED BY <2>1, <2>2
<1>9. ReqInv(r, NoItem, nt, fn2)'
    <2>1. CallInv(r)'
        BY <1>1, <1>3, <1>4 DEF CallInv
    <2>2. OwnInv(r, fn2)'
        BY <1>1, <1>3, <1>4, <1>8 DEF OwnInv, Ends
    <2>3. PlaceInv(r, NoItem, nt, fn2)'
        <3>1. ~Waits(r, nt)'
            BY <1>1, <1>7
        <3>2. t.loops <= Cycles /\ t.srv < Servers
            BY <1>1, <1>4
        <3> QED BY <1>1, <1>3, <1>4, <1>8, <3>1, <3>2 DEF PlaceInv, Runs
    <2>4. HandlerInv(r, NoItem, nt, fn2)'
        <3>1. t.srv < Servers
            BY <1>4
        <3> QED BY <1>1, <1>3, <1>4, <1>8, <3>1 DEF HandlerInv, Runs, Looks, NoItem
    <2>5. PathInv(r, NoItem, nt, fn2)'
        <3>1. PICK n, z : n = req[r].name /\ z = req[r].res.of
            OBVIOUS
        <3>2. /\ Chain(req[r].name)' = Chain(n)
              /\ \A u : Right(req[r].name, u)' <=> Right(n, u)
            BY <3>1, ChainNext
        <3>3. Right(req[r].name, z)'
            BY <1>1, <3>1, <3>2
        <3>4. Right(req[r].name, req[r].res.of)'
            BY <3>1, <3>3
        <3>5. \A x \in Names : ~WaitsFor(r, x, nt)'
            BY <1>1, <1>7 DEF Waits
        <3>6. tsk'[r].name \in Chain(req[r].name)'
            BY <1>1, <1>3, <3>1, <3>2
        <3> QED BY <1>1, <1>3, <1>8, <3>4, <3>5, <3>6 DEF PathInv, Looks, NoItem, Runs
    <2> QED BY <2>1, <2>2, <2>3, <2>4, <2>5 DEF ReqInv
<1>10. Apart(r, nt, fn, nt, fn2)
    BY <1>3, <1>7, <1>8 DEF Apart, KeepsOwned, r
<1>11. \A s \in Requests \ {r} : ~Looks(lk, s) /\ ~Looks(NoItem, s)
    BY <1>1 DEF Looks, NoItem
<1> QED BY <1>1, <1>2, <1>3, <1>5, <1>6, <1>7, <1>9, <1>10, <1>11, OneStep

\* A task that enters a queue was in none.
LEMMA QueueGrows ==
    ASSUME NEW q \in Seq(Requests), NEW r \in Requests
    PROVE  /\ <<r>> \o q \in Seq(Requests)
           /\ \A s : In(s, <<r>> \o q) <=> s = r \/ In(s, q)
           /\ Distinct(q) /\ ~In(r, q) => Distinct(<<r>> \o q)
<1> DEFINE p == <<r>> \o q
<1>1. p \in Seq(Requests) /\ Len(p) = Len(q) + 1 /\ Len(q) \in Nat
    OBVIOUS
<1>2. p[1] = r /\ \A k \in 1 .. Len(q) : p[k + 1] = q[k]
    OBVIOUS
<1>3. DOMAIN p = 1 .. Len(q) + 1 /\ DOMAIN q = 1 .. Len(q)
    BY <1>1
<1> HIDE DEF p
<1>4. \A k \in DOMAIN p : p[k] = IF k = 1 THEN r ELSE q[k - 1]
    BY <1>1, <1>2, <1>3
<1>5. ASSUME NEW s PROVE In(s, p) <=> s = r \/ In(s, q)
    <2>1. ASSUME In(s, p) PROVE s = r \/ In(s, q)
        <3>1. PICK k \in DOMAIN p : p[k] = s
            BY <2>1 DEF In
        <3>2. k # 1 => k - 1 \in DOMAIN q
            BY <1>1, <1>3
        <3> QED BY <1>4, <3>1, <3>2 DEF In
    <2>2. ASSUME s = r PROVE In(s, p)
        BY <1>1, <1>2, <1>3, <2>2 DEF In
    <2>3. ASSUME In(s, q) PROVE In(s, p)
        <3>1. PICK k \in DOMAIN q : q[k] = s
            BY <2>3 DEF In
        <3>2. k + 1 \in DOMAIN p /\ p[k + 1] = s
            BY <1>1, <1>2, <1>3, <3>1
        <3> QED BY <3>2 DEF In
    <2> QED BY <2>1, <2>2, <2>3
<1>6. ASSUME Distinct(q), ~In(r, q) PROVE Distinct(p)
    <2> SUFFICES ASSUME NEW j \in DOMAIN p, NEW k \in DOMAIN p, p[j] = p[k] PROVE j = k
        BY DEF Distinct
    <2>1. j # 1 => j - 1 \in DOMAIN q
        BY <1>1, <1>3
    <2>2. k # 1 => k - 1 \in DOMAIN q
        BY <1>1, <1>3
    <2>3. j \in Nat /\ k \in Nat
        BY <1>1, <1>3
    <2>4. CASE j = 1 \/ k = 1
        BY <1>4, <1>6, <2>1, <2>2, <2>4 DEF In
    <2>5. CASE j # 1 /\ k # 1
        <3>1. j - 1 = k - 1
            BY <1>4, <1>6, <2>1, <2>2, <2>5 DEF Distinct
        <3> QED BY <2>3, <3>1
    <2> QED BY <2>4, <2>5
<1> QED BY <1>1, <1>5, <1>6 DEF p

\* A task enters the queue of an entry that is being updated.
LEMMA EntryQueued ==
    ASSUME NEW nt, TypeOK, CacheInv, WaitInv(nt), prm' = prm, NEW x \in Names, cache[x] # Null,
           cache[x].upd, NEW r \in Requests, ~Waits(r, nt), nt.op = "notify" => nt.x \in Names,
           cache' = [cache EXCEPT ![x].queue = <<r>> \o @]
    PROVE  /\ cache' \in [Names -> Entry \cup {Null}] /\ CacheInv' /\ WaitInv(nt)'
           /\ \A s \in Requests, y \in Names :
                 WaitsFor(s, y, nt)' <=> WaitsFor(s, y, nt) \/ (s = r /\ y = x)
           /\ \A y \in Names : /\ (cache'[y] = Null) = (cache[y] = Null)
                               /\ cache[y] # Null => /\ cache'[y].upd = cache[y].upd
                                                     /\ cache'[y].fresh = cache[y].fresh
<1>1. cache \in [Names -> Entry \cup {Null}] /\ Null \notin Entry
    BY NullIs DEF TypeOK
<1>2. PICK q : q = cache[x].queue
    OBVIOUS
<1>3. cache[x] \in Entry /\ q \in Seq(Requests)
    BY <1>1, <1>2 DEF Entry
<1>4. PICK p : p = <<r>> \o q
    OBVIOUS
<1>5. /\ p \in Seq(Requests)
      /\ \A s : In(s, p) <=> s = r \/ In(s, q)
      /\ Distinct(q) /\ ~In(r, q) => Distinct(p)
    BY <1>3, <1>4, QueueGrows
<1>6. PICK e : e = [cache[x] EXCEPT !.queue = p]
    OBVIOUS
<1>7. /\ e \in Entry /\ e # Null /\ e.queue = p /\ e.upd = cache[x].upd
      /\ e.fresh = cache[x].fresh /\ e.cname = cache[x].cname /\ e.data = cache[x].data
    BY <1>1, <1>3, <1>5, <1>6 DEF Entry
<1>8. cache' = [cache EXCEPT ![x] = e]
    BY <1>1, <1>2, <1>4, <1>6
<1>9. /\ cache' \in [Names -> Entry \cup {Null}] /\ cache'[x] = e
      /\ \A y \in Names \ {x} : cache'[y] = cache[y]
    BY <1>1, <1>7, <1>8
<1>10. ~In(r, q)
    BY <1>2 DEF Waits, WaitsFor, InQueue, In
<1>11. CacheInv'
    <2>1. world' = world
        BY SameWorld
    <2> SUFFICES ASSUME NEW y \in Names, cache'[y] # Null
                 PROVE  /\ cache'[y].cname => cache'[y].data.of = world[y] /\ world[y] \in Names
                        /\ cache'[y].data.k = "addrs" => cache'[y].data.of = y /\ world[y] = "addr"
                        /\ cache'[y].data.k \in {"alias", "mixed"} => world[y] \in Names
                        /\ ~cache'[y].upd => cache'[y].queue = <<>>
                        /\ Distinct(cache'[y].queue)
        BY <2>1 DEF CacheInv, Distinct
    <2>2. CASE y # x
        BY <1>9, <2>2 DEF CacheInv
    <2>3. CASE y = x
        <3>1. Distinct(p)
            BY <1>2, <1>5, <1>10 DEF CacheInv
        <3>2. cache'[y] = e
            BY <1>9, <2>3
        <3>3. /\ e.cname => e.data.of = world[x] /\ world[x] \in Names
              /\ e.data.k = "addrs" => e.data.of = x /\ world[x] = "addr"
              /\ e.data.k \in {"alias", "mixed"} => world[x] \in Names
            BY <1>7 DEF CacheInv
        <3>4. e.upd /\ Distinct(e.queue)
            BY <1>7, <3>1
        <3> QED BY <2>3, <3>2, <3>3, <3>4
    <2> QED BY <2>2, <2>3
<1>12. \A s \in Requests, y \in Names : InQueue(s, y)' <=> InQueue(s, y) \/ (s = r /\ y = x)
    <2> TAKE s \in Requests, y \in Names
    <2>1. CASE y # x
        BY <1>9, <2>1 DEF InQueue
    <2>2. CASE y = x
        <3>1. InQueue(s, x) <=> In(s, q)
            BY <1>2 DEF InQueue, In
        <3>2. InQueue(s, x)' <=> In(s, p)
            BY <1>7, <1>9 DEF InQueue, In
        <3> QED BY <1>5, <2>2, <3>1, <3>2
    <2> QED BY <2>1, <2>2
<1>13. \A s \in Requests : In(s, Pend(nt))' <=> In(s, Pend(nt))
    BY DEF In, Pend
<1>14. \A s \in Requests, y \in Names :
          WaitsFor(s, y, nt)' <=> WaitsFor(s, y, nt) \/ (s = r /\ y = x)
    BY <1>12, <1>13 DEF WaitsFor
<1>15. ~In(r, Pend(nt)) /\ \A y \in Names : ~InQueue(r, y)
    BY DEF Waits, WaitsFor, Pend, In
<1>16. WaitInv(nt)'
    <2>1. Distinct(Pend(nt))'
        BY DEF WaitInv, Distinct, Pend
    <2> QED BY <1>12, <1>13, <1>15, <2>1 DEF WaitInv
<1> QED BY <1>7, <1>9, <1>11, <1>14, <1>16

\* The task waits for the one that updates the entry.
LEMMA LookupQueues ==
    ASSUME NEW lk, NEW nt, NEW fn, NEW t \in Task,
           Inv(lk, nt, fn), Top("lookup"), prm' = prm,
           tsk[lk.r] # Null => tsk[lk.r].cb, cache[lk.x] # Null, cache[lk.x].upd,
           t.cb, t.name = Null, t.queued, ~t.armed, t.loops = lk.n,
           \/ tsk[lk.r] # Null /\ t.id = tsk[lk.r].id
           \/ tsk[lk.r] = Null /\ FreeSlot # Null /\ t.id = FreeSlot,
           Taken(lk.r, t), Push(<<>>), UNCHANGED <<sent, req, up>>,
           cache' = [cache EXCEPT ![lk.x].queue = <<lk.r>> \o @]
    PROVE  Inv(NoItem, nt, fn)'
<1> DEFINE r == lk.r
<1>1. /\ lk \in LookItems /\ r \in Requests /\ lk.x \in Names
      /\ ~Waits(r, nt) /\ ~Runs(fn, r) /\ req[r].st = "open"
      /\ req[r].name \in Names /\ Right(req[r].name, req[r].res.of)
      /\ lk.x \in Chain(req[r].name) /\ lk.n \in 0 .. Cycles
      /\ \A s \in Requests \ {r} : ~Looks(lk, s)
    BY LookFinds
<1>2. /\ TypeOK /\ SlotInv /\ CacheInv /\ WaitInv(nt) /\ StackType(lk, nt, fn)
      /\ StackIs(todo, lk, nt, fn) /\ \A s \in Requests : OwnInv(s, fn)
    BY DEF Inv, ReqInv
<1> HIDE DEF r
<1>3. /\ SlotInv' /\ slot' \in [Slots -> Requests \cup {Null}] /\ index' \in Slots
      /\ tsk' \in [Requests -> Task \cup {Null}] /\ tsk'[r] = t
      /\ \A s \in Requests \ {r} : tsk'[s] = tsk[s]
    BY <1>1, <1>2, SlotTaken DEF r
<1>4. /\ Null \notin Names /\ Servers \in Nat \ {0} /\ Servers' = Servers /\ Null \notin Task
      /\ Cycles \in Nat
    BY <1>2, NullIs, SameWorld
<1>5. nt.op = "notify" => nt.x \in Names
    BY <1>2 DEF StackType, NotifyItems, NoItem
<1>6. /\ cache' \in [Names -> Entry \cup {Null}] /\ CacheInv' /\ WaitInv(nt)'
      /\ \A s \in Requests, y \in Names :
            WaitsFor(s, y, nt)' <=> WaitsFor(s, y, nt) \/ (s = r /\ y = lk.x)
      /\ \A y \in Names : /\ (cache'[y] = Null) = (cache[y] = Null)
                          /\ cache[y] # Null => /\ cache'[y].upd = cache[y].upd
                                                /\ cache'[y].fresh = cache[y].fresh
    BY <1>1, <1>2, <1>5, EntryQueued DEF r
<1>7. TypeOK'
    BY <1>2, <1>3, <1>6, TypeNext DEF TypeOK, ReqType
<1>8. StackType(NoItem, nt, fn) /\ StackIs(todo', NoItem, nt, fn)
    BY <1>2, PushLookup DEF StackType, NoItem
<1>9. ReqInv(r, NoItem, nt, fn)'
    <2>1. CallInv(r)' /\ OwnInv(r, fn)'
        BY <1>1, <1>3, <1>4 DEF CallInv, OwnInv
    <2>2. PlaceInv(r, NoItem, nt, fn)'
        <3>1. Waits(r, nt)'
            BY <1>1, <1>6 DEF Waits
        <3>2. t.loops <= Cycles
            BY <1>1, <1>4
        <3> QED BY <1>1, <1>3, <1>4, <3>1, <3>2 DEF PlaceInv
    <2>3. HandlerInv(r, NoItem, nt, fn)'
        BY <1>1, <1>3, <1>4 DEF HandlerInv, Runs, Looks, NoItem
    <2>4. PathInv(r, NoItem, nt, fn)'
        <3>1. PICK n, z : n = req[r].name /\ z = req[r].res.of
            OBVIOUS
        <3>2. /\ Chain(req[r].name)' = Chain(n)
              /\ \A u : Right(req[r].name, u)' <=> Right(n, u)
            BY <3>1, ChainNext
        <3>3. Right(req[r].name, z)'
            BY <1>1, <3>1, <3>2
        <3>4. Right(req[r].name, req[r].res.of)'
            BY <3>1, <3>3
        <3>5. \A x \in Names : WaitsFor(r, x, nt)' => x = lk.x
            BY <1>1, <1>6 DEF Waits
        <3>6. \A x \in Names : WaitsFor(r, x, nt)' => x \in Chain(req[r].name)'
            BY <1>1, <3>1, <3>2, <3>5
        <3> QED BY <1>1, <1>3, <3>4, <3>6 DEF PathInv, Looks, NoItem, Runs
    <2> QED BY <2>1, <2>2, <2>3, <2>4 DEF ReqInv
<1>10. Apart(r, nt, fn, nt, fn)
    <2> SUFFICES ASSUME NEW s \in Requests \ {r}
                 PROVE  /\ tsk'[s] = tsk[s] /\ req'[s] = req[s]
                        /\ \A x \in Names : WaitsFor(s, x, nt)' <=> WaitsFor(s, x, nt)
                        /\ tsk[s] # Null /\ tsk[s].name # Null =>
                              /\ cache'[tsk[s].name] # Null
                              /\ cache'[tsk[s].name].upd = cache[tsk[s].name].upd
                              /\ cache'[tsk[s].name].fresh = cache[tsk[s].name].fresh
                              /\ tsk'[r] # Null => tsk'[r].name # tsk[s].name
        BY DEF Apart
    <2>1. tsk[s] # Null /\ tsk[s].name # Null => tsk[s].name \in Names /\ cache[tsk[s].name] # Null
        BY <1>2 DEF OwnInv, TypeOK, Task
    <2> QED BY <1>3, <1>6, <2>1
<1>11. \A s \in Requests \ {r} : ~Looks(lk, s) /\ ~Looks(NoItem, s)
    BY <1>1 DEF Looks, NoItem
<1> QED BY <1>1, <1>2, <1>3, <1>6, <1>7, <1>8, <1>9, <1>10, <1>11, OneStep

\* Nothing but the search changes: it is given up, or goes on with an alias.
LEMMA LookupMoves ==
    ASSUME NEW lk, NEW nt, NEW fn, NEW lk2, Inv(lk, nt, fn), Top("lookup"), prm' = prm,
           UNCHANGED <<cache, tsk, slot, index, sent, req, up>>,
           StackType(lk2, nt, fn), StackIs(todo', lk2, nt, fn),
           \/ lk2 = NoItem /\ tsk[lk.r] # Null /\ ~tsk[lk.r].cb
           \/ /\ lk2 \in LookItems /\ lk2.r = lk.r /\ lk2.send = lk.send
              /\ lk2.x \in Chain(req[lk.r].name)
    PROVE  Inv(lk2, nt, fn)'
<1> DEFINE r == lk.r
<1>1. /\ lk \in LookItems /\ r \in Requests /\ ~Waits(r, nt) /\ ~Runs(fn, r)
      /\ \A s \in Requests \ {r} : ~Looks(lk, s)
      /\ tsk[r] = Null => req[r].st = "open" /\ lk.send /\ nt = NoItem
      /\ tsk[r] # Null => tsk[r] \in Task /\ tsk[r].name = Null
    BY LookFinds
<1>2. /\ TypeOK /\ SlotInv /\ CacheInv /\ WaitInv(nt) /\ StackType(lk, nt, fn)
      /\ StackIs(todo, lk, nt, fn) /\ \A s \in Requests : ReqInv(s, lk, nt, fn)
    BY DEF Inv
<1> HIDE DEF r
<1>3. TypeOK'
    BY <1>2, TypeNext DEF TypeOK, ReqType
<1>4. CacheInv' /\ \A s \in Requests, y \in Names : InQueue(s, y)' <=> InQueue(s, y)
    BY <1>2, SameCache
<1>5. SlotInv'
    BY <1>2, SameWorld DEF SlotInv
<1>6. /\ WaitInv(nt)'
      /\ \A s \in Requests, y \in Names : WaitsFor(s, y, nt)' <=> WaitsFor(s, y, nt)
      /\ \A s \in Requests : Waits(s, nt)' <=> Waits(s, nt)
    BY <1>2, <1>4, SameWaits
<1>7. /\ lk2.op = "none" => lk2 = NoItem
      /\ Looks(lk2, r) => lk2 # NoItem /\ lk2.send = lk.send
      /\ lk2 # NoItem => Looks(lk2, r)
      /\ \A s \in Requests \ {r} : ~Looks(lk, s) /\ ~Looks(lk2, s)
    BY <1>1 DEF Looks, NoItem, LookItems, r
<1>8. ReqInv(r, lk2, nt, fn)'
    <2>1. /\ CallInv(r) /\ OwnInv(r, fn) /\ PlaceInv(r, lk, nt, fn) /\ HandlerInv(r, lk, nt, fn)
          /\ PathInv(r, lk, nt, fn) /\ Servers' = Servers
        BY <1>1, <1>2, SameWorld DEF ReqInv
    <2>2. CallInv(r)' /\ OwnInv(r, fn)'
        BY <2>1 DEF CallInv, OwnInv, Ends
    <2>3. PlaceInv(r, lk2, nt, fn)'
        <3>1. tsk[r] # Null /\ tsk[r].cb => Looks(lk2, r)
            BY DEF r, Looks, LookItems
        <3>2. Waits(r, nt)' <=> Waits(r, nt)
            BY <1>1, <1>6
        <3>3. ASSUME tsk'[r] # Null
              PROVE  /\ tsk'[r].queued <=> Waits(r, nt)'
                     /\ tsk'[r].armed => tsk'[r].name # Null /\ tsk'[r].srv < Servers'
                     /\ tsk'[r].loops <= Cycles
                     /\ ~tsk'[r].queued /\ tsk'[r].cb => Looks(lk2, r)
            BY <2>1, <3>1, <3>2, <3>3 DEF PlaceInv
        <3>4. ~Waits(r, nt)'
            BY <1>1, <3>2
        <3> QED BY <3>3, <3>4 DEF PlaceInv, Looks, Runs
    <2>4. HandlerInv(r, lk2, nt, fn)'
        BY <1>1, <1>6, <1>7 DEF HandlerInv, Looks, Runs, NoItem
    <2>5. PathInv(r, lk2, nt, fn)'
        <3>1. PICK n, z : n = req[r].name /\ z = req[r].res.of
            OBVIOUS
        <3>2. /\ Chain(req[r].name)' = Chain(n)
              /\ \A u : Right(req[r].name, u)' <=> Right(n, u)
            BY <3>1, ChainNext
        <3>3. Right(req[r].name, z)'
            BY <2>1, <3>1, <3>2 DEF PathInv
        <3>4. Right(req[r].name, req[r].res.of)'
            BY <3>1, <3>3
        <3>5. \A x \in Names : ~WaitsFor(r, x, nt)'
            BY <1>1, <1>6 DEF Waits
        <3>6. Looks(lk2, r) => lk2.x \in Chain(req[r].name)'
            BY <1>7, <3>1, <3>2 DEF r
        <3>7. tsk'[r] # Null => tsk'[r].name = Null
            BY <1>1
        <3>8. IF req'[r].st = "idle" THEN req'[r].res = NoResult ELSE req'[r].name \in Names
            BY <2>1 DEF PathInv
        <3> QED BY <1>1, <3>4, <3>5, <3>6, <3>7, <3>8 DEF PathInv, Runs, Looks
    <2> QED BY <2>2, <2>3, <2>4, <2>5 DEF ReqInv
<1>9. Apart(r, nt, fn, nt, fn)
    <2> SUFFICES ASSUME NEW s \in Requests \ {r}, tsk[s] # Null, tsk[s].name # Null
                 PROVE  cache[tsk[s].name] # Null /\ (tsk[r] # Null => tsk[r].name # tsk[s].name)
        BY <1>6 DEF Apart
    <2> QED BY <1>1, <1>2 DEF ReqInv, OwnInv
<1> QED BY <1>1, <1>3, <1>4, <1>5, <1>6, <1>7, <1>8, <1>9, OneStep

\* err_out of dns_resolv_hostaddr_int().
LEMMA FailKeeps ==
    ASSUME NEW lk, NEW nt, NEW fn, Inv(lk, nt, fn), Top("lookup"), prm' = prm,
           tsk[lk.r] # Null => tsk[lk.r].cb, Fail(lk), index' \in Slots,
           cache' \in [Names -> Entry \cup {Null}], CacheInv', KeepsOwned(lk.r),
           \A s \in Requests, y \in Names : InQueue(s, y)' <=> InQueue(s, y)
    PROVE  IInv'
<1>1. NoResult \in Results /\ Right(req[lk.r].name, NoResult.of)
    BY DnsResolvAssumption DEF NoResult, Results, Right
<1>2. \/ req' = req
      \/ \E res \in Results : Call(lk.r, res) /\ Right(req[lk.r].name, res.of)
    BY <1>1 DEF Fail
<1>3. Free(lk.r) /\ Push(<<>>) /\ sent' = sent /\ up' = up
    BY DEF Fail
<1>4. Inv(NoItem, nt, fn)'
    BY <1>2, <1>3, LookupEnds
<1> QED BY <1>4 DEF IInv

\* dns_rslvr_task_alloc() fails.
LEMMA RefusedKeeps ==
    ASSUME NEW lk, NEW nt, NEW fn, Inv(lk, nt, fn), Top("lookup"), prm' = prm, Refused(lk),
           cache' \in [Names -> Entry \cup {Null}], CacheInv', KeepsOwned(lk.r),
           \A s \in Requests, y \in Names : InQueue(s, y)' <=> InQueue(s, y)
    PROVE  IInv'
<1>1. TypeOK /\ slot[0] = Null
    BY DEF Inv, SlotInv
<1>2. index \in Slots /\ (FreeSlot # Null => FreeSlot \in Slots)
    BY <1>1, FreeSlotIs DEF TypeOK
<1>3. index' \in Slots
    BY <1>2 DEF Refused
<1>4. Fail(lk) /\ tsk[lk.r] = Null
    BY DEF Refused
<1> QED BY <1>3, <1>4, FailKeeps

\* task_alloc of dns_resolv_hostaddr_int().
LEMMA OwnKeeps ==
    ASSUME NEW lk, NEW nt, NEW fn, Inv(lk, nt, fn), Top("lookup"), prm' = prm,
           tsk[lk.r] # Null => tsk[lk.r].cb, lk.n < Cycles, Own(lk),
           cache' \in [Names -> Entry \cup {Null}], CacheInv', KeepsOwned(lk.r),
           cache'[lk.x] # Null, cache'[lk.x].upd,
           \A s \in Requests \ {lk.r} : tsk[s] # Null => tsk[s].name # lk.x,
           \A s \in Requests, y \in Names : InQueue(s, y)' <=> InQueue(s, y)
    PROVE  IInv'
<1>1. /\ lk \in LookItems /\ lk.r \in Requests /\ lk.x \in Names /\ lk.n \in 0 .. Cycles
      /\ nt.op = "notify" => lk.send
      /\ nt.op = "notify" \/ (nt = NoItem /\ fn = NoItem)
    BY LookFinds
<1>2. /\ TypeOK /\ StackType(lk, nt, fn) /\ StackIs(todo, lk, nt, fn)
      /\ sent \subseteq [id : Slots, srv : 0 .. Servers - 1, name : Names] /\ index \in Slots
      /\ Servers \in Nat \ {0} /\ Retries \in Nat /\ Cycles \in Nat
    BY NullIs DEF Inv, TypeOK
<1>3. CASE Refused(lk)
    BY <1>3, RefusedKeeps
<1>4. ASSUME NEW t \in TaskFor(lk.r),
             LET o == [t EXCEPT !.name = lk.x, !.tries = 0, !.srv = 0, !.loops = lk.n]
             IN \/ /\ ~lk.send
                   /\ Taken(lk.r, o)
                   /\ Push(<<Scan(lk.r, lk.rr, TRUE)>>)
                   /\ UNCHANGED <<sent, req, up>>
                \/ /\ lk.send /\ CanSend(o)
                   /\ Taken(lk.r, Armed(o))
                   /\ sent' = sent \cup {Query(o)}
                   /\ Push(<<>>)
                   /\ UNCHANGED <<req, up>>
                \/ /\ lk.send /\ SendFails(o)
                   /\ Fail(lk)
                   /\ index' = IF tsk[lk.r] = Null THEN t.id ELSE index
      PROVE  IInv'
    <2>1. /\ t \in Task /\ t.cb /\ t.name = Null /\ ~t.queued /\ ~t.armed
          /\ \/ tsk[lk.r] # Null /\ t.id = tsk[lk.r].id
             \/ tsk[lk.r] = Null /\ FreeSlot # Null /\ t.id = FreeSlot
        BY TaskForIs
    <2>2. PICK o : o = [t EXCEPT !.name = lk.x, !.tries = 0, !.srv = 0, !.loops = lk.n]
        OBVIOUS
    <2>3. PICK a : a = Armed(o)
        OBVIOUS
    <2>4. /\ o \in Task /\ o.cb /\ o.name = lk.x /\ ~o.queued /\ ~o.armed /\ o.id = t.id
          /\ o.srv = 0 /\ o.loops = lk.n
        <3>1. 0 \in 0 .. Retries /\ 0 \in 0 .. Servers /\ lk.n \in 0 .. Cycles + 1
            BY <1>1, <1>2
        <3> QED BY <1>1, <2>1, <2>2, <3>1 DEF Task
    <2>5. /\ a \in Task /\ a.cb /\ a.name = lk.x /\ ~a.queued /\ a.armed /\ a.id = t.id
          /\ a.srv = 0 /\ a.loops = lk.n
        BY <2>3, <2>4 DEF Task, Armed
    <2>6. CASE /\ ~lk.send /\ Taken(lk.r, o)
               /\ Push(<<Scan(lk.r, lk.rr, TRUE)>>) /\ UNCHANGED <<sent, req, up>>
        <3>1. PICK fn2 : fn2 = Scan(lk.r, lk.rr, TRUE)
            OBVIOUS
        <3>2. fn2 \in ScanItems /\ fn2.op = "scan" /\ fn2.r = lk.r
            BY <1>1, <3>1 DEF Scan, ScanItems, LookItems
        <3>0. Push(<<fn2>>)
            BY <2>6, <3>1
        <3>3. nt = NoItem /\ fn = NoItem /\ StackIs(todo', NoItem, NoItem, fn2)
            BY Zenon, <1>2, <2>6, <3>0, <3>2, PushLookup
        <3>4. Inv(NoItem, nt, fn2)'
            BY <1>2, <2>1, <2>4, <2>6, <3>2, <3>3, LookupOwns
        <3> QED BY <3>4 DEF IInv
    <2>7. CASE /\ lk.send /\ CanSend(o) /\ Taken(lk.r, a) /\ sent' = sent \cup {Query(o)}
               /\ Push(<<>>) /\ UNCHANGED <<req, up>>
        <3>1. Query(o) \in [id : Slots, srv : 0 .. Servers - 1, name : Names]
            BY <1>1, <1>2, <2>4 DEF Query, Task
        <3>2. sent' \subseteq [id : Slots, srv : 0 .. Servers - 1, name : Names]
            BY <1>2, <2>7, <3>1
        <3>3. StackIs(todo', NoItem, nt, fn)
            BY <1>2, <2>7, PushLookup
        <3>4. Inv(NoItem, nt, fn)'
            BY <2>1, <2>5, <2>7, <3>2, <3>3, LookupOwns
        <3> QED BY <3>4 DEF IInv
    <2>8. CASE Fail(lk) /\ index' = IF tsk[lk.r] = Null THEN t.id ELSE index
        <3>1. index' \in Slots
            BY <1>2, <2>1, <2>8 DEF Task
        <3> QED BY <2>8, <3>1, FailKeeps
    <2> QED BY <1>4, <2>2, <2>3, <2>6, <2>7, <2>8
<1> QED BY <1>3, <1>4 DEF Own

\* An entry that was not there, or that nobody updates, belongs to no other task.
LEMMA NobodyOwns ==
    ASSUME NEW lk, NEW nt, NEW fn, Inv(lk, nt, fn), NEW x \in Names,
           cache[x] = Null \/ (~cache[x].upd /\ ~cache[x].fresh)
    PROVE  /\ \A s \in Requests : tsk[s] # Null => tsk[s].name # x
           /\ \A s \in Requests : tsk[s] # Null /\ tsk[s].name # Null =>
                                     tsk[s].name \in Names /\ cache[tsk[s].name] # Null
<1>1. \A s \in Requests : OwnInv(s, fn) /\ (tsk[s] # Null => tsk[s] \in Task)
    BY DEF Inv, ReqInv, TypeOK
<1>2. Null \notin Names
    BY DnsResolvAssumption
<1>3. ASSUME NEW s \in Requests, tsk[s] # Null, tsk[s].name # Null
      PROVE  tsk[s].name \in Names /\ cache[tsk[s].name] # Null /\ tsk[s].name # x
    BY <1>1, <1>3 DEF OwnInv, Task
<1> QED BY <1>2, <1>3

\* dns_resolv_hostaddr_int() keeps the invariant.
LEMMA LookupKeeps ==
    ASSUME NEW lk, NEW nt, NEW fn, Inv(lk, nt, fn),
           LookupCancelled \/ LookupLoop \/ LookupMiss \/ LookupHit
    PROVE  IInv'
<1>1. Top("lookup") /\ prm' = prm
    BY DEF LookupCancelled, LookupLoop, LookupMiss, LookupHit, Looking
<1>2. /\ lk \in LookItems /\ Head(todo) = lk /\ lk.r \in Requests /\ lk.x \in Names
      /\ lk.n \in 0 .. Cycles /\ lk.send \in BOOLEAN
      /\ req[lk.r].name \in Names /\ lk.x \in Chain(req[lk.r].name)
      /\ nt.op = "notify" \/ (nt = NoItem /\ fn = NoItem)
      /\ nt.op = "notify" => lk.send
    BY <1>1, LookFinds
<1>3. /\ TypeOK /\ CacheInv /\ StackType(lk, nt, fn) /\ StackIs(todo, lk, nt, fn)
      /\ cache \in [Names -> Entry \cup {Null}] /\ index \in Slots /\ Cycles \in Nat
      /\ Null \notin Entry
      /\ \A s \in Requests : OwnInv(s, fn) /\ (tsk[s] # Null => tsk[s] \in Task)
    BY NullIs DEF Inv, TypeOK, ReqInv
<1>4. CASE LookupCancelled
    <2>1. tsk[lk.r] # Null /\ ~tsk[lk.r].cb /\ UNCHANGED <<cache, tsk, slot, index, sent, req, up>>
        BY <1>2, <1>4 DEF LookupCancelled
    <2>2. StackType(NoItem, nt, fn) /\ StackIs(todo', NoItem, nt, fn)
        BY <1>1, <1>3, <1>4, PushLookup DEF StackType, NoItem, LookupCancelled
    <2>3. Inv(NoItem, nt, fn)'
        BY <1>1, <2>1, <2>2, LookupMoves
    <2> QED BY <2>3 DEF IInv
<1>5. ASSUME cache' = cache
      PROVE  /\ cache' \in [Names -> Entry \cup {Null}] /\ CacheInv' /\ KeepsOwned(lk.r)
             /\ \A s \in Requests, y \in Names : InQueue(s, y)' <=> InQueue(s, y)
    <2>1. KeepsOwned(lk.r)
        BY <1>3, <1>5 DEF KeepsOwned, OwnInv
    <2> QED BY <1>1, <1>3, <1>5, <2>1, SameCache
<1>6. CASE LookupLoop
    <2>1. (tsk[lk.r] # Null => tsk[lk.r].cb) /\ Fail(lk) /\ cache' = cache /\ index' = index
        BY <1>2, <1>6 DEF LookupLoop, Looking
    <2> QED BY <1>1, <1>3, <1>5, <2>1, FailKeeps
<1>7. ASSUME tsk[lk.r] # Null => tsk[lk.r].cb, lk.n < Cycles, Own(lk), NEW e \in Entry,
             cache' = [cache EXCEPT ![lk.x] = e], e.upd,
             \/ cache[lk.x] = Null /\ e.queue = <<>> /\ ~e.cname /\ e.data = NoData
             \/ /\ cache[lk.x] # Null /\ ~cache[lk.x].upd /\ ~cache[lk.x].fresh
                /\ e.queue = cache[lk.x].queue /\ e.cname = cache[lk.x].cname
                /\ e.data = cache[lk.x].data
      PROVE  IInv'
    <2>1. /\ cache' \in [Names -> Entry \cup {Null}] /\ CacheInv'
          /\ \A s \in Requests, y \in Names : InQueue(s, y)' <=> InQueue(s, y)
          /\ cache'[lk.x] = e /\ \A y \in Names \ {lk.x} : cache'[y] = cache[y]
        BY <1>1, <1>2, <1>3, <1>7, EntryChanged
    <2>2. /\ \A s \in Requests : tsk[s] # Null => tsk[s].name # lk.x
          /\ \A s \in Requests : tsk[s] # Null /\ tsk[s].name # Null =>
                                    tsk[s].name \in Names /\ cache[tsk[s].name] # Null
        BY <1>2, <1>7, NobodyOwns
    <2>3. KeepsOwned(lk.r)
        BY <2>1, <2>2 DEF KeepsOwned
    <2>4. cache'[lk.x] # Null /\ cache'[lk.x].upd
        BY <1>3, <1>7, <2>1
    <2> QED BY <1>1, <1>7, <2>1, <2>2, <2>3, <2>4, OwnKeeps
<1>8. CASE LookupMiss
    <2>1. /\ tsk[lk.r] # Null => tsk[lk.r].cb
          /\ lk.n < Cycles /\ cache[lk.x] = Null
          /\ \/ Fail(lk) /\ UNCHANGED <<cache, index>>
             \/ Own(lk) /\ cache' = [cache EXCEPT ![lk.x] = NewEntry]
        BY <1>2, <1>8 DEF LookupMiss, Looking
    <2>2. CASE Fail(lk) /\ UNCHANGED <<cache, index>>
        BY <1>1, <1>3, <1>5, <2>1, <2>2, FailKeeps
    <2>3. CASE Own(lk) /\ cache' = [cache EXCEPT ![lk.x] = NewEntry]
        <3>1. /\ NewEntry \in Entry /\ NewEntry.upd /\ NewEntry.queue = <<>>
              /\ ~NewEntry.cname /\ NewEntry.data = NoData
            BY DEF NewEntry, Entry, Data
        <3> QED BY <1>7, <2>1, <2>3, <3>1
    <2> QED BY <2>1, <2>2, <2>3
<1>9. CASE LookupHit
    <2>1. /\ tsk[lk.r] # Null => tsk[lk.r].cb
          /\ lk.n < Cycles /\ cache[lk.x] # Null
        BY <1>2, <1>9 DEF LookupHit, Looking
    <2>2. PICK e : e = cache[lk.x]
        OBVIOUS
    <2>3. e \in Entry
        BY <1>2, <1>3, <2>1, <2>2
    <2>4. \/ e.upd /\ Enqueue(lk)
          \/ /\ ~e.upd /\ ~e.fresh
             /\ Own(lk) /\ cache' = [cache EXCEPT ![lk.x] = Marked(e)]
          \/ /\ ~e.upd /\ e.fresh /\ e.cname
             /\ Push(<<[lk EXCEPT !.x = e.data.of, !.n = @ + 1]>>)
             /\ UNCHANGED <<cache, tsk, slot, index, sent, req, up>>
          \/ /\ ~e.upd /\ e.fresh /\ ~e.cname
             /\ Call(lk.r, Cached(e)) /\ Release(lk.r) /\ Push(<<>>)
             /\ UNCHANGED <<cache, index, sent, up>>
        BY <1>2, <1>9, <2>2 DEF LookupHit
    <2>5. CASE e.upd /\ Enqueue(lk)
        <3>1. CASE Refused(lk) /\ cache' = cache
            BY <1>1, <1>5, <3>1, RefusedKeeps
        <3>2. CASE /\ \E t \in TaskFor(lk.r) :
                        Taken(lk.r, [t EXCEPT !.name = Null, !.queued = TRUE, !.tries = 0,
                                              !.srv = 0, !.loops = lk.n])
                   /\ cache' = [cache EXCEPT ![lk.x].queue = <<lk.r>> \o @]
                   /\ Push(<<>>) /\ UNCHANGED <<sent, req, up>>
            <4>1. PICK t \in TaskFor(lk.r) :
                        Taken(lk.r, [t EXCEPT !.name = Null, !.queued = TRUE, !.tries = 0,
                                              !.srv = 0, !.loops = lk.n])
                BY <3>2
            <4>2. PICK o : o = [t EXCEPT !.name = Null, !.queued = TRUE, !.tries = 0,
                                         !.srv = 0, !.loops = lk.n]
                OBVIOUS
            <4>3. /\ t \in Task /\ t.cb /\ ~t.armed
                  /\ \/ tsk[lk.r] # Null /\ t.id = tsk[lk.r].id
                     \/ tsk[lk.r] = Null /\ FreeSlot # Null /\ t.id = FreeSlot
                BY <1>1, <2>1, TaskForIs
            <4>4. 0 \in 0 .. Retries /\ 0 \in 0 .. Servers /\ lk.n \in 0 .. Cycles + 1
                BY <1>2, <1>3, NullIs
            <4>5. /\ o \in Task /\ o.cb /\ o.name = Null /\ o.queued /\ ~o.armed
                  /\ o.loops = lk.n /\ o.id = t.id
                BY <4>2, <4>3, <4>4 DEF Task
            <4>6. Taken(lk.r, o)
                BY <4>1, <4>2
            <4>7. Inv(NoItem, nt, fn)'
                BY <1>1, <2>1, <2>2, <2>5, <3>2, <4>3, <4>5, <4>6, LookupQueues
            <4> QED BY <4>7 DEF IInv
        <3> QED BY <2>5, <3>1, <3>2 DEF Enqueue
    <2>6. CASE ~e.upd /\ ~e.fresh /\ Own(lk) /\ cache' = [cache EXCEPT ![lk.x] = Marked(e)]
        <3>1. /\ Marked(e) \in Entry /\ Marked(e).upd /\ Marked(e).queue = e.queue
              /\ Marked(e).cname = e.cname /\ Marked(e).data = e.data
            BY <2>3 DEF Marked, Entry
        <3> QED BY <1>7, <2>1, <2>2, <2>6, <3>1
    <2>7. CASE /\ ~e.upd /\ e.fresh /\ e.cname
               /\ Push(<<[lk EXCEPT !.x = e.data.of, !.n = @ + 1]>>)
               /\ UNCHANGED <<cache, tsk, slot, index, sent, req, up>>
        <3>1. PICK lk2 : lk2 = [lk EXCEPT !.x = e.data.of, !.n = @ + 1]
            OBVIOUS
        <3>2. e.data.of = world[lk.x] /\ world[lk.x] \in Names
            BY <1>2, <1>3, <2>1, <2>2, <2>7 DEF CacheInv
        <3>3. world[lk.x] \in Chain(req[lk.r].name)
            BY <1>2, <3>2, ChainIs
        <3>4. lk.n + 1 \in 0 .. Cycles
            BY <1>2, <1>3, <2>1
        <3>5. /\ lk2 \in LookItems /\ lk2.op = "lookup" /\ lk2.r = lk.r /\ lk2.send = lk.send
              /\ lk2.x = world[lk.x]
            BY <1>2, <3>1, <3>2, <3>4 DEF LookItems
        <3>6. Push(<<lk2>>)
            BY <2>7, <3>1
        <3>7. StackIs(todo', lk2, nt, fn)
            BY Zenon, <1>1, <1>3, <3>5, <3>6, PushLookup
        <3>8. StackType(lk2, nt, fn)
            BY <1>2, <1>3, <3>5 DEF StackType, LookItems
        <3>9. Inv(lk2, nt, fn)'
            BY <1>1, <2>7, <3>3, <3>5, <3>7, <3>8, LookupMoves
        <3> QED BY <3>9 DEF IInv
    <2>8. CASE /\ ~e.upd /\ e.fresh /\ ~e.cname
               /\ Call(lk.r, Cached(e)) /\ Release(lk.r) /\ Push(<<>>)
               /\ UNCHANGED <<cache, index, sent, up>>
        <3>1. PICK res : res = Cached(e)
            OBVIOUS
        <3>2. /\ e.data \in Data
              /\ e.data.k = "addrs" => e.data.of = lk.x /\ world[lk.x] = "addr"
              /\ e.data.k \in {"alias", "mixed"} => world[lk.x] \in Names
            BY <1>2, <1>3, <2>1, <2>2, <2>3 DEF CacheInv, Entry
        <3>3. res \in Results /\ Right(req[lk.r].name, res.of)
            <4>1. CASE e.data = NoData
                BY <3>1, <4>1, DnsResolvAssumption DEF Cached, NoData, Results, Right
            <4>2. CASE e.data.k \in {"alias", "mixed"}
                <5>1. lk.x \in Chain(req[lk.r].name) /\ world[lk.x] \in Names
                    BY <1>2, <3>2, <4>2
                <5>2. res = [err |-> FALSE, of |-> "garbage"]
                    BY <3>1, <4>2 DEF Cached
                <5> QED BY <5>1, <5>2, DnsResolvAssumption DEF Results, Right
            <4>3. CASE e.data.k = "addrs"
                BY <1>2, <3>1, <3>2, <4>3, DnsResolvAssumption DEF Cached, Results, Right
            <4> QED BY <3>2, <4>1, <4>2, <4>3 DEF Data
        <3>4. Free(lk.r) /\ Call(lk.r, res)
            BY <2>8, <3>1 DEF Release
        <3>5. Inv(NoItem, nt, fn)'
            BY <1>1, <1>3, <1>5, <2>1, <2>8, <3>3, <3>4, LookupEnds
        <3> QED BY <3>5 DEF IInv
    <2> QED BY <2>4, <2>5, <2>6, <2>7, <2>8
<1> QED BY <1>4, <1>6, <1>8, <1>9

-----------------------------------------------------------------------------
(* Tasks that go on.                                                       *)

\* A handler of task r, from its start or from the scan of an answer to its end or
\* to the next callback.
LEMMA TaskSteps ==
    ASSUME NEW fn, NEW lk2, NEW nt2, NEW fn2, NEW r \in Requests, NEW t \in Task,
           Inv(NoItem, NoItem, fn), fn = NoItem \/ fn.r = r, tsk[r] # Null, prm' = prm,
           tsk' = [tsk EXCEPT ![r] = t], UNCHANGED <<slot, index, up>>,
           sent' \subseteq [id : Slots, srv : 0 .. Servers - 1, name : Names],
           req' \in [Requests -> ReqType], \A s \in Requests \ {r} : req'[s] = req[s],
           req'[r].name = req[r].name, req'[r].res = req[r].res,
           req'[r].st = IF t.cb THEN "open" ELSE "cancelled",
           cache' \in [Names -> Entry \cup {Null}], CacheInv', WaitInv(nt2)', KeepsOwned(r),
           \A s \in Requests, y \in Names : WaitsFor(s, y, nt2)' <=> WaitsFor(s, y, NoItem),
           StackType(lk2, nt2, fn2), StackIs(todo', lk2, nt2, fn2),
           lk2 = NoItem \/ lk2.r = r, fn2 = NoItem \/ fn2.r = r,
           t.id = tsk[r].id, t.name \in {tsk[r].name, Null}, t.queued = tsk[r].queued,
           t.name # Null => /\ cache'[t.name] # Null /\ ~t.queued /\ t.loops < Cycles
                            /\ IF Ends(fn2, r) THEN ~cache'[t.name].upd /\ cache'[t.name].fresh
                               ELSE cache'[t.name].upd,
           t.armed => t.name # Null /\ t.srv < Servers, t.loops <= Cycles,
           ~t.queued /\ t.cb => t.armed \/ Looks(lk2, r) \/ Runs(fn2, r),
           Looks(lk2, r) => ~t.queued /\ t.name = Null /\ lk2.x \in Chain(req[r].name),
           Runs(fn2, r) => /\ ~t.armed
                           /\ fn2.op # "done" => t.name # Null
                           /\ fn2.op = "scan" /\ fn2.rr.bad => t.srv < Servers
                           /\ nt2.op = "notify" => t.name = nt2.x
                           /\ fn2.op = "follow" => fn2.x \in Chain(req[r].name)
                           /\ fn2.op = "done" => Right(req[r].name, fn2.res.of)
    PROVE  Inv(lk2, nt2, fn2)'
<1>1. /\ TypeOK /\ SlotInv /\ SoleOwner /\ ReqInv(r, NoItem, NoItem, fn)
      /\ tsk \in [Requests -> Task \cup {Null}] /\ tsk[r] \in Task /\ Null \notin Task
      /\ Null \notin Names
    BY NullIs DEF Inv, TypeOK
<1>2. /\ tsk' \in [Requests -> Task \cup {Null}] /\ tsk'[r] = t /\ t # Null
      /\ \A s \in Requests \ {r} : tsk'[s] = tsk[s]
    BY <1>1
<1>3. SlotInv'
    BY <1>1, <1>2, SlotKept
<1>4. TypeOK'
    BY <1>1, <1>2, TypeNext DEF TypeOK
<1>5. /\ CallInv(r) /\ PlaceInv(r, NoItem, NoItem, fn) /\ PathInv(r, NoItem, NoItem, fn)
      /\ Servers' = Servers
    BY <1>1, SameWorld DEF ReqInv
<1>6. /\ Waits(r, nt2)' <=> Waits(r, NoItem)
      /\ tsk[r].queued <=> Waits(r, NoItem)
    BY <1>5 DEF Waits, PlaceInv
<1>7. req'[r].st # "idle" /\ req'[r].st # "twice" /\ req[r].st # "idle"
    BY <1>5 DEF CallInv
<1>8. ReqInv(r, lk2, nt2, fn2)'
    <2>1. CallInv(r)'
        BY <1>2, <1>7 DEF CallInv
    <2>2. OwnInv(r, fn2)'
        BY <1>2 DEF OwnInv, Ends
    <2>3. PlaceInv(r, lk2, nt2, fn2)'
        <3>1. tsk'[r].queued <=> Waits(r, nt2)'
            BY <1>2, <1>6
        <3> QED BY <1>2, <1>5, <1>7, <3>1 DEF PlaceInv, Looks, Runs
    <2>4. HandlerInv(r, lk2, nt2, fn2)'
        <3>1. Looks(lk2, r) => ~Waits(r, nt2)' /\ tsk'[r].name = Null
            BY <1>2, <1>6
        <3>2. Runs(fn2, r) => /\ ~tsk'[r].armed
                              /\ fn2.op # "done" => tsk'[r].name # Null
                              /\ fn2.op = "scan" /\ fn2.rr.bad => tsk'[r].srv < Servers'
                              /\ nt2.op = "notify" => tsk'[r].name = nt2.x
            BY <1>2, <1>5
        <3> QED BY <1>2, <3>1, <3>2 DEF HandlerInv, Looks, Runs
    <2>5. PathInv(r, lk2, nt2, fn2)'
        <3>1. PICK n, z : n = req[r].name /\ z = req[r].res.of
            OBVIOUS
        <3>2. /\ Chain(req[r].name)' = Chain(n)
              /\ \A u : Right(req[r].name, u)' <=> Right(n, u)
            BY <3>1, ChainNext
        <3>3. Right(req[r].name, z)'
            BY <1>5, <3>1, <3>2 DEF PathInv
        <3>4. Right(req[r].name, req[r].res.of)'
            BY <3>1, <3>3
        <3>5. \A x \in Names : WaitsFor(r, x, nt2)' => x \in Chain(req[r].name)'
            BY <1>5, <3>1, <3>2 DEF PathInv
        <3>6. Looks(lk2, r) => lk2.x \in Chain(req[r].name)'
            BY <3>1, <3>2
        <3>7. tsk'[r].name # Null => tsk'[r].name \in Chain(req[r].name)'
            BY <1>2, <1>5, <3>1, <3>2 DEF PathInv
        <3>8. Runs(fn2, r) => /\ fn2.op = "follow" => fn2.x \in Chain(req[r].name)'
                              /\ fn2.op = "done" => Right(req[r].name, fn2.res.of)'
            BY <3>1, <3>2
        <3>9. req'[r].name \in Names
            BY <1>5, <1>7 DEF PathInv
        <3> QED BY <1>7, <3>4, <3>5, <3>6, <3>7, <3>8, <3>9 DEF PathInv, Runs, Looks
    <2> QED BY <2>1, <2>2, <2>3, <2>4, <2>5 DEF ReqInv
<1>9. Apart(r, NoItem, fn, nt2, fn2)
    <2> SUFFICES ASSUME NEW s \in Requests \ {r}
                 PROVE  /\ ~Runs(fn, s) /\ ~Runs(fn2, s)
                        /\ tsk[s] # Null /\ tsk[s].name # Null => tsk'[r].name # tsk[s].name
        BY <1>2 DEF Apart, KeepsOwned
    <2>1. ~Runs(fn, s) /\ ~Runs(fn2, s)
        BY DEF Runs, NoItem
    <2>2. tsk[s] # Null /\ tsk[s].name # Null => tsk'[r].name # tsk[s].name
        BY <1>1, <1>2 DEF SoleOwner
    <2> QED BY <2>1, <2>2
<1>10. \A s \in Requests \ {r} : ~Looks(NoItem, s) /\ ~Looks(lk2, s)
    BY DEF Looks, NoItem
<1> QED BY <1>3, <1>4, <1>8, <1>9, <1>10, OneStep

\* The same requests wait for the same names.
SameWaiters(nt, nt2) ==
    \A s \in Requests, y \in Names : WaitsFor(s, y, nt2)' <=> WaitsFor(s, y, nt)

\* Entry x is up to date and those who waited for it are in nt2.
Settled(x, nt2) ==
    /\ cache' \in [Names -> Entry \cup {Null}] /\ CacheInv' /\ WaitInv(nt2)'
    /\ nt2 \in NotifyItems /\ nt2.x = x /\ SameWaiters(NoItem, nt2)
    /\ cache'[x] # Null /\ ~cache'[x].upd /\ cache'[x].fresh
    /\ \A y \in Names : x # y => cache'[y] = cache[y]

\* dns_rslvr_cache_entry_data_add(): those who waited for the entry are notified.
LEMMA EntryUpdated ==
    ASSUME NEW x \in Names, NEW d \in Data, NEW nt2, NEW e,
           TypeOK, CacheInv, WaitInv(NoItem), prm' = prm, cache[x] # Null,
           d.k \in {"none", "addrs", "alias"}, d.k = "alias" => d.of = world[x],
           d.k = "addrs" => d.of = x /\ world[x] = "addr",
           nt2 = Notify(x, cache[x].queue), e = Updated(cache[x], d),
           cache' = [cache EXCEPT ![x] = e]
    PROVE  Settled(x, nt2)
<1>1. cache \in [Names -> Entry \cup {Null}] /\ Null \notin Entry
    BY NullIs DEF TypeOK
<1>2. PICK q, m : q = cache[x].queue /\ m = Merged(cache[x], d)
    OBVIOUS
<1>3. cache[x] \in Entry /\ q \in Seq(Requests) /\ cache[x].data \in Data
    BY <1>1, <1>2 DEF Entry
<1>4. /\ m \in Data
      /\ d.k = "alias" => m = d
      /\ m.k = "addrs" => m.of = x /\ world[x] = "addr"
      /\ m.k \in {"alias", "mixed"} => world[x] \in Names
    <2>1. /\ cache[x].data.k = "addrs" => cache[x].data.of = x /\ world[x] = "addr"
          /\ cache[x].data.k \in {"alias", "mixed"} => world[x] \in Names
        BY DEF CacheInv
    <2>2. CASE d = NoData
        BY <1>2, <1>3, <2>1, <2>2 DEF Merged, NoData
    <2>3. CASE d # NoData /\ d.k = "addrs" /\ ~cache[x].cname /\ cache[x].data.k \in {"alias", "mixed"}
        <3>1. m = [d EXCEPT !.k = "mixed"] /\ d \in [k : {"addrs", "alias", "mixed"}, of : Names]
            BY <1>2, <2>3 DEF Merged, Data
        <3> QED BY <2>1, <2>3, <3>1 DEF Data
    <2>4. CASE d # NoData /\ ~(d.k = "addrs" /\ ~cache[x].cname /\ cache[x].data.k \in {"alias", "mixed"})
        <3>1. m = d
            BY <1>2, <2>4 DEF Merged
        <3>2. d.k = "alias" => d.of \in Names
            BY DEF Data, NoData
        <3> QED BY <3>1, <3>2
    <2> QED BY <2>2, <2>3, <2>4
<1>5. /\ e \in Entry /\ e.data = m /\ e.cname = (d.k = "alias") /\ e.fresh /\ ~e.upd
      /\ e.queue = <<>> /\ e # Null
    <2>1. PICK c \in BOOLEAN : c = (d.k = "alias")
        OBVIOUS
    <2>2. e = [cache[x] EXCEPT !.data = m, !.cname = c, !.fresh = TRUE, !.queue = <<>>,
                               !.upd = FALSE]
        BY <1>2, <2>1 DEF Updated
    <2>3. <<>> \in Seq(Requests)
        OBVIOUS
    <2>4. /\ e \in Entry /\ e.data = m /\ e.cname = c /\ e.fresh /\ ~e.upd
          /\ e.queue = <<>>
        BY <1>3, <1>4, <2>2, <2>3 DEF Entry
    <2> QED BY <1>1, <2>1, <2>4
<1>6. /\ cache' \in [Names -> Entry \cup {Null}] /\ cache'[x] = e
      /\ \A y \in Names \ {x} : cache'[y] = cache[y]
    BY <1>1, <1>2, <1>5
<1>7. CacheInv'
    <2>1. world' = world
        BY SameWorld
    <2> SUFFICES ASSUME NEW y \in Names, cache'[y] # Null
                 PROVE  /\ cache'[y].cname => cache'[y].data.of = world[y] /\ world[y] \in Names
                        /\ cache'[y].data.k = "addrs" => cache'[y].data.of = y /\ world[y] = "addr"
                        /\ cache'[y].data.k \in {"alias", "mixed"} => world[y] \in Names
                        /\ ~cache'[y].upd => cache'[y].queue = <<>>
                        /\ Distinct(cache'[y].queue)
        BY <2>1 DEF CacheInv, Distinct
    <2>2. CASE y # x
        BY <1>6, <2>2 DEF CacheInv
    <2>3. CASE y = x
        <3>1. d.k = "alias" => d.of \in Names
            BY DEF Data, NoData
        <3>2. Distinct(<<>>)
            BY DEF Distinct
        <3> QED BY <1>4, <1>5, <1>6, <2>3, <3>1, <3>2
    <2> QED BY <2>2, <2>3
<1>8. nt2 \in NotifyItems /\ nt2.x = x /\ nt2.q = q /\ nt2.op = "notify" /\ Pend(nt2) = q
    BY <1>2, <1>3 DEF Notify, NotifyItems, Pend
<1>9. Pend(NoItem) = <<>> /\ \A s \in Requests : ~In(s, <<>>)
    BY DEF Pend, NoItem, In
<1>10. \A s \in Requests : InQueue(s, x) <=> In(s, q)
    BY <1>2 DEF InQueue, In
<1>11. \A s \in Requests, y \in Names : InQueue(s, y)' <=> y # x /\ InQueue(s, y)
    <2> TAKE s \in Requests, y \in Names
    <2>1. CASE y # x
        BY <1>6, <2>1 DEF InQueue
    <2>2. CASE y = x
        BY <1>5, <1>6, <2>2 DEF InQueue
    <2> QED BY <2>1, <2>2
<1>12. \A s \in Requests : In(s, Pend(nt2))' <=> In(s, q)
    BY <1>8 DEF In, Pend
<1>13. \A s \in Requests, y \in Names : WaitsFor(s, y, nt2)' <=> WaitsFor(s, y, NoItem)
    <2> TAKE s \in Requests, y \in Names
    <2>1. WaitsFor(s, y, NoItem) <=> InQueue(s, y)
        BY <1>9 DEF WaitsFor
    <2>2. WaitsFor(s, y, nt2)' <=> (y # x /\ InQueue(s, y)) \/ (In(s, q) /\ x = y)
        BY <1>8, <1>11, <1>12 DEF WaitsFor
    <2> QED BY <1>10, <2>1, <2>2
<1>14. WaitInv(nt2)'
    <2>1. Distinct(q)
        BY <1>2 DEF CacheInv
    <2>2. Distinct(Pend(nt2))'
        BY <1>8, <2>1 DEF Distinct, Pend
    <2>3. \A s \in Requests, y \in Names : InQueue(s, y) => \A z \in Names \ {y} : ~InQueue(s, z)
        BY DEF WaitInv
    <2> QED BY <1>10, <1>11, <1>12, <2>2, <2>3 DEF WaitInv
<1> QED BY <1>5, <1>6, <1>7, <1>8, <1>13, <1>14
        DEF Settled, SameWaiters

\* The task a handler is for.
LEMMA TaskFinds ==
    ASSUME NEW fn, NEW r \in Requests, Inv(NoItem, NoItem, fn), tsk[r] # Null
    PROVE  /\ tsk[r] \in Task /\ tsk[r].loops <= Cycles
           /\ tsk[r].name # Null =>
                 /\ tsk[r].name \in Names /\ cache[tsk[r].name] # Null /\ ~tsk[r].queued
                 /\ tsk[r].loops < Cycles /\ tsk[r].name \in Chain(req[r].name)
                 /\ ~Ends(fn, r) => cache[tsk[r].name].upd
           /\ req[r].st = IF tsk[r].cb THEN "open" ELSE "cancelled"
           /\ tsk[r].armed => tsk[r].name # Null /\ tsk[r].srv < Servers
           /\ req \in [Requests -> ReqType] /\ req[r].name \in Names
           /\ sent \subseteq [id : Slots, srv : 0 .. Servers - 1, name : Names]
           /\ \A s \in Requests : Waits(s, NoItem) => req[s].st # "idle"
<1>1. /\ tsk[r] \in Task /\ ReqInv(r, NoItem, NoItem, fn) /\ req \in [Requests -> ReqType]
      /\ sent \subseteq [id : Slots, srv : 0 .. Servers - 1, name : Names]
    BY DEF Inv, TypeOK, ReqType
<1>2. tsk[r].name # Null => /\ tsk[r].name \in Names /\ cache[tsk[r].name] # Null
                            /\ ~tsk[r].queued /\ tsk[r].loops < Cycles
                            /\ tsk[r].name \in Chain(req[r].name)
                            /\ ~Ends(fn, r) => cache[tsk[r].name].upd
    BY <1>1 DEF ReqInv, OwnInv, PathInv, Task
<1>3. req[r].st = IF tsk[r].cb THEN "open" ELSE "cancelled"
    BY <1>1 DEF ReqInv, CallInv
<1>4. tsk[r].loops <= Cycles /\ (tsk[r].armed => tsk[r].name # Null /\ tsk[r].srv < Servers)
    BY <1>1 DEF ReqInv, PlaceInv
<1>5. req[r].name \in Names
    BY <1>1, <1>3 DEF ReqInv, PathInv
<1>6. \A s \in Requests : Waits(s, NoItem) => req[s].st # "idle"
    BY DEF Inv, ReqInv, PlaceInv
<1> QED BY <1>1, <1>2, <1>3, <1>4, <1>5, <1>6

\* A change of the entry of r is none of the entries of the others.
LEMMA OwnEntry ==
    ASSUME NEW fn, NEW r \in Requests, Inv(NoItem, NoItem, fn), tsk[r] # Null,
           \A y \in Names : tsk[r].name # y => cache'[y] = cache[y]
    PROVE  KeepsOwned(r)
<1> SUFFICES ASSUME NEW s \in Requests \ {r}, tsk[s] # Null, tsk[s].name # Null
             PROVE  cache'[tsk[s].name] = cache[tsk[s].name] /\ cache[tsk[s].name] # Null
    BY DEF KeepsOwned
<1>1. tsk[s].name \in Names /\ cache[tsk[s].name] # Null
    BY TaskFinds
<1>2. tsk[s].name # tsk[r].name
    BY DEF Inv, SoleOwner
<1> QED BY <1>1, <1>2

\* dns_resolver_task_done().
LEMMA FinishKeeps ==
    ASSUME NEW fn, NEW r \in Requests, NEW t \in Task, NEW res \in Results, NEW d \in Data,
           Inv(NoItem, NoItem, fn), fn = NoItem \/ (fn \in ScanItems /\ fn.r = r),
           tsk[r] # Null, prm' = prm, Finish(r, t, res, d),
           UNCHANGED <<slot, index, sent, req, up>>,
           t.id = tsk[r].id, t.cb = tsk[r].cb, t.name = tsk[r].name,
           t.queued = tsk[r].queued, t.loops = tsk[r].loops, ~t.armed,
           Right(req[r].name, res.of), d.k \in {"none", "addrs", "alias"},
           d.k = "alias" => d.of = world[t.name],
           d.k = "addrs" => d.of = t.name /\ world[t.name] = "addr"
    PROVE  IInv'
<1>1. /\ tsk[r] \in Task /\ tsk[r].loops <= Cycles
      /\ tsk[r].name # Null => /\ tsk[r].name \in Names /\ cache[tsk[r].name] # Null
                               /\ ~tsk[r].queued /\ tsk[r].loops < Cycles
      /\ req[r].st = IF tsk[r].cb THEN "open" ELSE "cancelled"
      /\ req \in [Requests -> ReqType]
      /\ sent \subseteq [id : Slots, srv : 0 .. Servers - 1, name : Names]
    BY TaskFinds
<1>2. /\ TypeOK /\ CacheInv /\ WaitInv(NoItem) /\ cache \in [Names -> Entry \cup {Null}]
    BY DEF Inv, TypeOK
<1>3. fn = NoItem \/ fn.r = r
    OBVIOUS
<1>4. PICK fn2 : fn2 = Done(r, res)
    OBVIOUS
<1>5. /\ fn2 \in DoneItems /\ fn2.r = r /\ fn2.op = "done" /\ fn2.res = res
      /\ Runs(fn2, r) /\ Ends(fn2, r)
    BY <1>4 DEF Done, DoneItems, Runs, Ends
<1>6. ~Looks(NoItem, r) /\ NoItem.op = "none"
    BY DEF Looks, NoItem
<1>7. tsk' = [tsk EXCEPT ![r] = t]
    BY DEF Finish
<1>8. CASE t.name = Null
    <2>1. cache' = cache /\ todo' = <<fn2>>
        BY <1>4, <1>8 DEF Finish
    <2>2. CacheInv' /\ \A s \in Requests, y \in Names : InQueue(s, y)' <=> InQueue(s, y)
        BY <1>2, <2>1, SameCache
    <2>3. /\ WaitInv(NoItem)'
          /\ \A s \in Requests, y \in Names : WaitsFor(s, y, NoItem)' <=> WaitsFor(s, y, NoItem)
        BY <1>2, <2>2, SameWaits
    <2>4. StackType(NoItem, NoItem, fn2) /\ StackIs(todo', NoItem, NoItem, fn2)
        BY <1>5, <2>1 DEF StackType, StackIs, NoItem
    <2>5. KeepsOwned(r)
        BY <2>1, OwnEntry
    <2>6. Inv(NoItem, NoItem, fn2)'
        BY <1>1, <1>2, <1>3, <1>5, <1>6, <1>7, <1>8, <2>1, <2>2, <2>3, <2>4, <2>5, TaskSteps
    <2> QED BY <2>6 DEF IInv
<1>9. CASE t.name # Null
    <2>1. PICK x \in Names : x = t.name
        BY <1>1, <1>9
    <2>2. PICK nt2 : nt2 = Notify(x, cache[x].queue)
        OBVIOUS
    <2>0. PICK e : e = Updated(cache[x], d)
        OBVIOUS
    <2>3. cache' = [cache EXCEPT ![x] = e] /\ todo' = <<nt2, fn2>>
        BY <1>4, <1>9, <2>0, <2>1, <2>2 DEF Finish
    <2>4. /\ cache[x] # Null /\ (d.k = "alias" => d.of = world[x])
          /\ d.k = "addrs" => d.of = x /\ world[x] = "addr"
        BY <1>1, <1>9, <2>1
    <2>10. Settled(x, nt2)
        BY Zenon, <1>2, <2>0, <2>2, <2>3, <2>4, EntryUpdated
    <2>5. /\ cache' \in [Names -> Entry \cup {Null}] /\ CacheInv' /\ WaitInv(nt2)'
          /\ nt2 \in NotifyItems /\ nt2.x = x /\ SameWaiters(NoItem, nt2)
          /\ cache'[x] # Null /\ ~cache'[x].upd /\ cache'[x].fresh
          /\ \A y \in Names : x # y => cache'[y] = cache[y]
        BY <2>10 DEF Settled
    <2>6. StackType(NoItem, nt2, fn2) /\ StackIs(todo', NoItem, nt2, fn2)
        BY <1>5, <2>3, <2>5 DEF StackType, StackIs, NoItem, NotifyItems
    <2>7. KeepsOwned(r)
        BY <2>1, <2>5, OwnEntry
    <2>8. /\ Runs(fn2, r) => /\ ~t.armed
                             /\ fn2.op # "done" => t.name # Null
                             /\ fn2.op = "scan" /\ fn2.rr.bad => t.srv < Servers
                             /\ nt2.op = "notify" => t.name = nt2.x
                             /\ fn2.op = "follow" => fn2.x \in Chain(req[r].name)
                             /\ fn2.op = "done" => Right(req[r].name, fn2.res.of)
          /\ t.name # Null =>
                /\ cache'[t.name] # Null /\ ~t.queued /\ t.loops < Cycles
                /\ IF Ends(fn2, r) THEN ~cache'[t.name].upd /\ cache'[t.name].fresh
                   ELSE cache'[t.name].upd
        BY <1>1, <1>5, <2>1, <2>5
    <2>9. Inv(NoItem, nt2, fn2)'
        <3>1. /\ req' \in [Requests -> ReqType] /\ \A s \in Requests \ {r} : req'[s] = req[s]
              /\ req'[r].name = req[r].name /\ req'[r].res = req[r].res
              /\ req'[r].st = IF t.cb THEN "open" ELSE "cancelled"
              /\ sent' \subseteq [id : Slots, srv : 0 .. Servers - 1, name : Names]
              /\ t.name \in {tsk[r].name, Null} /\ t.loops <= Cycles
            BY <1>1
        <3>2. \A s \in Requests, y \in Names : WaitsFor(s, y, nt2)' <=> WaitsFor(s, y, NoItem)
            BY <2>5 DEF SameWaiters
        <3>3. /\ t.armed => t.name # Null /\ t.srv < Servers
              /\ ~t.queued /\ t.cb => t.armed \/ Looks(NoItem, r) \/ Runs(fn2, r)
              /\ Looks(NoItem, r) => ~t.queued /\ t.name = Null /\ NoItem.x \in Chain(req[r].name)
            BY <1>5, <1>6
        <3> QED BY ZenonT(60), <1>3, <1>5, <1>7, <2>5, <2>6, <2>7, <2>8, <3>1, <3>2, <3>3, TaskSteps
    <2> QED BY <2>9 DEF IInv
<1> QED BY <1>8, <1>9

\* A query is sent, to the same server or to another one.
LEMMA SentKeeps ==
    ASSUME NEW fn, NEW r \in Requests, NEW t \in Task, NEW a,
           Inv(NoItem, NoItem, fn), fn = NoItem \/ (fn \in ScanItems /\ fn.r = r),
           tsk[r] # Null, prm' = prm, a = Armed(t), tsk' = [tsk EXCEPT ![r] = a],
           sent' = sent \cup {Query(t)}, todo' = <<>>,
           UNCHANGED <<cache, slot, index, req, up>>,
           t.id = tsk[r].id, t.cb = tsk[r].cb, t.name = tsk[r].name, t.name # Null,
           t.queued = tsk[r].queued, t.loops = tsk[r].loops, t.srv < Servers
    PROVE  IInv'
<1>1. /\ tsk[r] \in Task /\ tsk[r].loops <= Cycles
      /\ tsk[r].name # Null => /\ tsk[r].name \in Names /\ cache[tsk[r].name] # Null
                               /\ ~tsk[r].queued /\ tsk[r].loops < Cycles
                               /\ ~Ends(fn, r) => cache[tsk[r].name].upd
      /\ req[r].st = IF tsk[r].cb THEN "open" ELSE "cancelled"
      /\ req \in [Requests -> ReqType]
      /\ sent \subseteq [id : Slots, srv : 0 .. Servers - 1, name : Names]
    BY TaskFinds
<1>2. /\ TypeOK /\ CacheInv /\ WaitInv(NoItem) /\ cache \in [Names -> Entry \cup {Null}]
      /\ Servers \in Nat \ {0}
    BY NullIs DEF Inv, TypeOK
<1>3. (fn = NoItem \/ fn.r = r) /\ ~Ends(fn, r)
    BY DEF Ends, NoItem, ScanItems
<1>4. ~Looks(NoItem, r) /\ NoItem.op = "none" /\ ~Runs(NoItem, r) /\ ~Ends(NoItem, r)
    BY DEF Looks, NoItem, Runs, Ends
<1>5. /\ a \in Task /\ a.id = t.id /\ a.cb = t.cb /\ a.name = t.name /\ a.queued = t.queued
      /\ a.loops = t.loops /\ a.srv = t.srv /\ a.armed
    BY DEF Armed, Task
<1>6. t.srv \in 0 .. Servers - 1
    BY <1>2 DEF Task
<1>7. Query(t) \in [id : Slots, srv : 0 .. Servers - 1, name : Names]
    BY <1>1, <1>6 DEF Query, Task
<1>8. sent' \subseteq [id : Slots, srv : 0 .. Servers - 1, name : Names]
    BY <1>1, <1>7
<1>9. CacheInv' /\ \A s \in Requests, y \in Names : InQueue(s, y)' <=> InQueue(s, y)
    BY <1>2, SameCache
<1>10. /\ WaitInv(NoItem)'
       /\ \A s \in Requests, y \in Names : WaitsFor(s, y, NoItem)' <=> WaitsFor(s, y, NoItem)
    BY <1>2, <1>9, SameWaits
<1>11. StackType(NoItem, NoItem, NoItem) /\ StackIs(todo', NoItem, NoItem, NoItem)
    BY DEF StackType, StackIs, NoItem
<1>12. KeepsOwned(r)
    BY OwnEntry
<1>13. Inv(NoItem, NoItem, NoItem)'
    <2>1. /\ req' \in [Requests -> ReqType] /\ \A s \in Requests \ {r} : req'[s] = req[s]
          /\ req'[r].name = req[r].name /\ req'[r].res = req[r].res
          /\ req'[r].st = IF a.cb THEN "open" ELSE "cancelled"
          /\ a.id = tsk[r].id /\ a.name \in {tsk[r].name, Null} /\ a.queued = tsk[r].queued
          /\ a.loops <= Cycles /\ cache' \in [Names -> Entry \cup {Null}]
        BY <1>1, <1>2, <1>5
    <2>2. /\ a.name # Null =>
                /\ cache'[a.name] # Null /\ ~a.queued /\ a.loops < Cycles
                /\ IF Ends(NoItem, r) THEN ~cache'[a.name].upd /\ cache'[a.name].fresh
                   ELSE cache'[a.name].upd
          /\ a.armed => a.name # Null /\ a.srv < Servers
          /\ ~a.queued /\ a.cb => a.armed \/ Looks(NoItem, r) \/ Runs(NoItem, r)
        BY <1>1, <1>3, <1>4, <1>5
    <2> QED BY ZenonT(60), <1>3, <1>4, <1>5, <1>8, <1>9, <1>10, <1>11, <1>12, <2>1, <2>2, TaskSteps
<1> QED BY <1>13 DEF IInv

\* The records of an answer.
LEMMA ScanKeeps ==
    ASSUME NEW lk, NEW nt, NEW fn, Inv(lk, nt, fn), ScanStep
    PROVE  IInv'
<1>1. Top("scan") /\ StackType(lk, nt, fn) /\ StackIs(todo, lk, nt, fn)
    BY DEF ScanStep, Inv
<1>2. lk = NoItem /\ nt = NoItem /\ fn \in ScanItems /\ Head(todo) = fn /\ Tail(todo) = <<>>
    BY <1>1, TopIs
<1>3. PICK r \in Requests : r = fn.r
    BY <1>2 DEF ScanItems
<1>4. fn.op = "scan" /\ fn.rr.bad \in BOOLEAN /\ fn.again \in BOOLEAN /\ fn.rr \in Records
      /\ Runs(fn, r) /\ ~Ends(fn, r)
    BY <1>2, <1>3 DEF ScanItems, Records, Runs, Ends
<1>5. Inv(NoItem, NoItem, fn)
    BY <1>2
<1>6. tsk[r] # Null /\ ~tsk[r].armed /\ tsk[r].name # Null /\ (fn.rr.bad => tsk[r].srv < Servers)
    BY <1>4, <1>5 DEF Inv, ReqInv, HandlerInv
<1>7. /\ tsk[r] \in Task /\ tsk[r].loops <= Cycles
      /\ tsk[r].name \in Names /\ cache[tsk[r].name] # Null /\ ~tsk[r].queued
      /\ tsk[r].loops < Cycles /\ tsk[r].name \in Chain(req[r].name)
      /\ req[r].st = IF tsk[r].cb THEN "open" ELSE "cancelled"
      /\ req \in [Requests -> ReqType] /\ req[r].name \in Names
      /\ sent \subseteq [id : Slots, srv : 0 .. Servers - 1, name : Names]
    BY <1>5, <1>6, TaskFinds
<1>8. PICK t : t = tsk[r]
    OBVIOUS
<1>9. PICK n : n = IF fn.rr.bad THEN [t EXCEPT !.srv = @ + 1] ELSE t
    OBVIOUS
<1>10. PICK hit : hit = Match(fn.rr.of, t.name)
    OBVIOUS
<1>11. hit \subseteq {t.name}
    BY <1>10 DEF Match
<1>12. UNCHANGED <<prm, slot, index, req, up>>
    BY DEF ScanStep
<1>13. /\ NoData \in Data /\ NoResult \in Results /\ [err |-> FALSE, of |-> Null] \in Results
       /\ Right(req[r].name, NoResult.of) /\ Right(req[r].name, Null) /\ NoData.k = "none"
    BY DnsResolvAssumption DEF NoData, Data, NoResult, Results, Right
<1>14. /\ t \in Task /\ t.id = tsk[r].id /\ t.cb = tsk[r].cb /\ t.name = tsk[r].name
       /\ t.queued = tsk[r].queued /\ t.loops = tsk[r].loops /\ ~t.armed /\ t.name # Null
    BY <1>6, <1>7, <1>8
<1>15. /\ n \in Task /\ n.id = tsk[r].id /\ n.cb = tsk[r].cb /\ n.name = tsk[r].name
       /\ n.queued = tsk[r].queued /\ n.loops = tsk[r].loops /\ ~n.armed /\ n.name # Null
    <2>1. Servers \in Nat \ {0}
        BY <1>5, NullIs DEF Inv
    <2>2. CASE fn.rr.bad
        <3>1. t.srv + 1 \in 0 .. Servers
            BY <1>6, <1>8, <1>14, <2>1, <2>2 DEF Task
        <3> QED BY <1>9, <1>14, <2>2, <3>1 DEF Task
    <2>3. CASE ~fn.rr.bad
        BY <1>9, <1>14, <2>3
    <2> QED BY <2>2, <2>3
<1>16. \/ \E z \in hit : /\ world[z] = "addr"
                         /\ Finish(r, t, [err |-> fn.rr.bad, of |-> z], [k |-> "addrs", of |-> z])
                         /\ sent' = sent
       \/ Finish(r, t, NoResult, NoData) /\ sent' = sent
       \/ /\ t.name \in hit /\ world[t.name] \in Names \ {t.name}
          /\ cache' = [cache EXCEPT ![t.name] =
                         Updated(@, [k |-> "alias", of |-> world[t.name]])]
          /\ Push(<<Notify(t.name, cache[t.name].queue), Follow(r, world[t.name], fn.rr)>>)
          /\ UNCHANGED <<tsk, sent>>
       \/ /\ CanSend(n) /\ tsk' = [tsk EXCEPT ![r] = Armed(n)]
          /\ sent' = sent \cup {Query(n)} /\ Push(<<>>) /\ cache' = cache
       \/ Finish(r, n, NoResult, NoData) /\ sent' = sent
       \/ Finish(r, t, [err |-> FALSE, of |-> Null], NoData) /\ sent' = sent
    BY <1>2, <1>3, <1>8, <1>9, <1>10 DEF ScanStep
<1>17. CASE \E z \in hit : /\ world[z] = "addr"
                           /\ Finish(r, t, [err |-> fn.rr.bad, of |-> z], [k |-> "addrs", of |-> z])
                           /\ sent' = sent
    <2>1. PICK z \in hit : /\ world[z] = "addr"
                           /\ Finish(r, t, [err |-> fn.rr.bad, of |-> z], [k |-> "addrs", of |-> z])
                           /\ sent' = sent
        BY <1>17
    <2>2. z = t.name
        BY <1>11
    <2>3. PICK res, d : res = [err |-> fn.rr.bad, of |-> z] /\ d = [k |-> "addrs", of |-> z]
        OBVIOUS
    <2>4. /\ res \in Results /\ d \in Data /\ Right(req[r].name, res.of)
          /\ d.k = "addrs" /\ d.of = t.name /\ world[t.name] = "addr"
        BY <1>4, <1>7, <1>14, <2>1, <2>2, <2>3, DnsResolvAssumption DEF Results, Data, Right
    <2>5. Finish(r, t, res, d)
        BY <2>1, <2>3
    <2> QED BY <1>2, <1>3, <1>5, <1>6, <1>12, <1>14, <2>1, <2>4, <2>5, FinishKeeps
<1>18. CASE Finish(r, t, NoResult, NoData) /\ sent' = sent
    BY <1>2, <1>3, <1>5, <1>6, <1>12, <1>13, <1>14, <1>18, FinishKeeps
<1>19. CASE Finish(r, n, NoResult, NoData) /\ sent' = sent
    BY <1>2, <1>3, <1>5, <1>6, <1>12, <1>13, <1>15, <1>19, FinishKeeps
<1>20. CASE Finish(r, t, [err |-> FALSE, of |-> Null], NoData) /\ sent' = sent
    <2>1. PICK res : res = [err |-> FALSE, of |-> Null]
        OBVIOUS
    <2>2. res \in Results /\ Right(req[r].name, res.of) /\ Finish(r, t, res, NoData)
        BY <1>13, <1>20, <2>1
    <2> QED BY <1>2, <1>3, <1>5, <1>6, <1>12, <1>13, <1>14, <1>20, <2>2, FinishKeeps
<1>21. CASE /\ CanSend(n) /\ tsk' = [tsk EXCEPT ![r] = Armed(n)]
            /\ sent' = sent \cup {Query(n)} /\ Push(<<>>) /\ cache' = cache
    <2>1. todo' = <<>>
        BY <1>2, <1>21, PushIs DEF Push
    <2>2. n.srv < Servers
        BY <1>21 DEF CanSend
    <2>3. PICK a : a = Armed(n)
        OBVIOUS
    <2> QED BY <1>2, <1>3, <1>5, <1>6, <1>12, <1>15, <1>21, <2>1, <2>2, <2>3, SentKeeps
<1>22. CASE /\ t.name \in hit /\ world[t.name] \in Names \ {t.name}
            /\ cache' = [cache EXCEPT ![t.name] =
                           Updated(@, [k |-> "alias", of |-> world[t.name]])]
            /\ Push(<<Notify(t.name, cache[t.name].queue), Follow(r, world[t.name], fn.rr)>>)
            /\ UNCHANGED <<tsk, sent>>
    <2>1. PICK x \in Names : x = t.name
        BY <1>7, <1>14
    <2>2. PICK y \in Names : y = world[x]
        BY <1>22, <2>1
    <2>3. PICK d, nt2, fn2, e :
              /\ d = [k |-> "alias", of |-> y] /\ nt2 = Notify(x, cache[x].queue)
              /\ fn2 = Follow(r, y, fn.rr) /\ e = Updated(cache[x], d)
        OBVIOUS
    <2>4. cache' = [cache EXCEPT ![x] = e]
        BY <1>22, <2>1, <2>2, <2>3
    <2>5. todo' = <<nt2, fn2>>
        <3>1. Push(<<nt2, fn2>>)
            BY <1>22, <2>1, <2>2, <2>3
        <3>2. <<nt2, fn2>> \o <<>> = <<nt2, fn2>>
            BY PushIs
        <3> QED BY <1>2, <3>1, <3>2 DEF Push
    <2>6. /\ d \in Data /\ d.k = "alias" /\ d.k \in {"none", "addrs", "alias"} /\ d.of = world[x]
          /\ cache[x] # Null
        BY <1>7, <1>14, <2>1, <2>2, <2>3 DEF Data
    <2>7. TypeOK /\ CacheInv /\ WaitInv(NoItem) /\ prm' = prm
        BY <1>5, <1>12 DEF Inv
    <2>8. d.k = "addrs" => d.of = x /\ world[x] = "addr"
        BY <2>6
    <2>9. Settled(x, nt2)
        BY Zenon, <2>3, <2>4, <2>6, <2>7, <2>8, EntryUpdated
    <2>10. /\ cache' \in [Names -> Entry \cup {Null}] /\ CacheInv' /\ WaitInv(nt2)'
           /\ nt2 \in NotifyItems /\ nt2.x = x /\ SameWaiters(NoItem, nt2)
           /\ cache'[x] # Null /\ ~cache'[x].upd /\ cache'[x].fresh
           /\ \A z \in Names : x # z => cache'[z] = cache[z]
        BY <2>9 DEF Settled
    <2>11. /\ fn2 \in FollowItems /\ fn2.op = "follow" /\ fn2.r = r /\ fn2.x = y
           /\ Runs(fn2, r) /\ Ends(fn2, r)
        BY <1>4, <2>3 DEF Follow, FollowItems, Runs, Ends
    <2>12. StackType(NoItem, nt2, fn2) /\ StackIs(todo', NoItem, nt2, fn2)
        BY <2>5, <2>10, <2>11 DEF StackType, StackIs, NoItem, NotifyItems
    <2>13. KeepsOwned(r)
        BY <1>5, <1>6, <1>14, <2>1, <2>10, OwnEntry
    <2>14. y \in Chain(req[r].name)
        BY <1>7, <1>14, <2>1, <2>2, ChainIs
    <2>15. tsk \in [Requests -> Task \cup {Null}]
        BY <2>7 DEF TypeOK
    <2>16. tsk' = [tsk EXCEPT ![r] = t]
        BY <1>8, <1>22, <2>15
    <2>17. /\ Runs(fn2, r) => /\ ~t.armed
                              /\ fn2.op # "done" => t.name # Null
                              /\ fn2.op = "scan" /\ fn2.rr.bad => t.srv < Servers
                              /\ nt2.op = "notify" => t.name = nt2.x
                              /\ fn2.op = "follow" => fn2.x \in Chain(req[r].name)
                              /\ fn2.op = "done" => Right(req[r].name, fn2.res.of)
           /\ t.name # Null =>
                 /\ cache'[t.name] # Null /\ ~t.queued /\ t.loops < Cycles
                 /\ IF Ends(fn2, r) THEN ~cache'[t.name].upd /\ cache'[t.name].fresh
                    ELSE cache'[t.name].upd
        BY <1>7, <1>14, <2>1, <2>10, <2>11, <2>14
    <2>18. /\ t.armed => t.name # Null /\ t.srv < Servers
           /\ t.loops <= Cycles /\ ~Looks(NoItem, r) /\ t.name \in {tsk[r].name, Null}
           /\ req'[r].st = IF t.cb THEN "open" ELSE "cancelled"
           /\ sent' \subseteq [id : Slots, srv : 0 .. Servers - 1, name : Names]
           /\ req' \in [Requests -> ReqType] /\ \A s \in Requests \ {r} : req'[s] = req[s]
           /\ req'[r].name = req[r].name /\ req'[r].res = req[r].res
        BY <1>7, <1>12, <1>14, <1>22 DEF Looks, NoItem
    <2>19. \A s \in Requests, z \in Names : WaitsFor(s, z, nt2)' <=> WaitsFor(s, z, NoItem)
        BY <2>10 DEF SameWaiters
    <2>20. Inv(NoItem, nt2, fn2)'
        BY ZenonT(60), <1>3, <1>5, <1>6, <1>12, <1>14, <2>10, <2>11, <2>12, <2>13, <2>16, <2>17,
           <2>18, <2>19, TaskSteps
    <2> QED BY <2>20 DEF IInv
<1> QED BY <1>16, <1>17, <1>18, <1>19, <1>20, <1>21, <1>22

\* The alias of an answer is looked for.
LEMMA FollowKeeps ==
    ASSUME NEW lk, NEW nt, NEW fn, Inv(lk, nt, fn), FollowStep
    PROVE  IInv'
<1>1. Top("follow") /\ StackType(lk, nt, fn) /\ StackIs(todo, lk, nt, fn)
    BY DEF FollowStep, Inv
<1>2. lk = NoItem /\ nt = NoItem /\ fn \in FollowItems /\ Head(todo) = fn /\ Tail(todo) = <<>>
    BY <1>1, TopIs
<1>3. PICK r \in Requests : r = fn.r
    BY <1>2 DEF FollowItems
<1>4. fn.op = "follow" /\ fn.x \in Names /\ fn.rr \in Records /\ Runs(fn, r)
    BY <1>2, <1>3 DEF FollowItems, Runs
<1>5. Inv(NoItem, NoItem, fn)
    BY <1>2
<1>6. tsk[r] # Null /\ ~tsk[r].armed /\ tsk[r].name # Null /\ fn.x \in Chain(req[r].name)
    BY <1>4, <1>5 DEF Inv, ReqInv, HandlerInv, PathInv
<1>7. /\ tsk[r] \in Task /\ tsk[r].loops <= Cycles /\ ~tsk[r].queued /\ tsk[r].loops < Cycles
      /\ req[r].st = IF tsk[r].cb THEN "open" ELSE "cancelled"
      /\ req \in [Requests -> ReqType]
      /\ sent \subseteq [id : Slots, srv : 0 .. Servers - 1, name : Names]
    BY <1>5, <1>6, TaskFinds
<1>8. /\ TypeOK /\ CacheInv /\ WaitInv(NoItem) /\ cache \in [Names -> Entry \cup {Null}]
      /\ Cycles \in Nat /\ tsk \in [Requests -> Task \cup {Null}]
    BY <1>5, NullIs DEF Inv, TypeOK
<1>9. /\ tsk' = [tsk EXCEPT ![r].name = Null, ![r].loops = @ + 1]
      /\ Push(<<Lookup(r, fn.x, tsk[r].loops + 1, FALSE, fn.rr)>>)
      /\ UNCHANGED <<prm, cache, slot, index, sent, req, up>>
    BY <1>2, <1>3 DEF FollowStep
<1>10. PICK l : l = tsk[r].loops + 1
    OBVIOUS
<1>11. l \in 0 .. Cycles
    BY <1>7, <1>8, <1>10 DEF Task
<1>12. PICK t : t = [tsk[r] EXCEPT !.name = Null, !.loops = l]
    OBVIOUS
<1>13. /\ t \in Task /\ t.id = tsk[r].id /\ t.cb = tsk[r].cb /\ t.name = Null
       /\ ~t.queued /\ t.queued = tsk[r].queued /\ t.loops = l /\ ~t.armed
    <2>1. l \in 0 .. Cycles + 1
        BY <1>8, <1>11
    <2> QED BY <1>6, <1>7, <1>12, <2>1 DEF Task
<1>14. tsk' = [tsk EXCEPT ![r] = t]
    BY <1>7, <1>8, <1>9, <1>10, <1>12 DEF Task
<1>15. PICK lk2 : lk2 = Lookup(r, fn.x, l, FALSE, fn.rr)
    OBVIOUS
<1>16. /\ lk2 \in LookItems /\ lk2.r = r /\ lk2.op = "lookup" /\ lk2.x = fn.x /\ Looks(lk2, r)
    BY <1>4, <1>11, <1>15 DEF Lookup, LookItems, Looks
<1>17. todo' = <<lk2>>
    <2>1. Push(<<lk2>>)
        BY <1>9, <1>10, <1>15
    <2>2. <<lk2>> \o <<>> = <<lk2>>
        BY PushIs
    <2> QED BY <1>2, <2>1, <2>2 DEF Push
<1>18. StackType(lk2, NoItem, NoItem) /\ StackIs(todo', lk2, NoItem, NoItem)
    BY <1>16, <1>17 DEF StackType, StackIs, NoItem
<1>19. CacheInv' /\ \A s \in Requests, y \in Names : InQueue(s, y)' <=> InQueue(s, y)
    BY <1>8, <1>9, SameCache
<1>20. /\ WaitInv(NoItem)'
       /\ \A s \in Requests, y \in Names : WaitsFor(s, y, NoItem)' <=> WaitsFor(s, y, NoItem)
    BY <1>8, <1>19, SameWaits
<1>21. KeepsOwned(r)
    BY <1>5, <1>6, <1>9, OwnEntry
<1>22. ~Runs(NoItem, r) /\ l <= Cycles
    BY <1>8, <1>11 DEF Runs, NoItem
<1>23. Inv(lk2, NoItem, NoItem)'
    BY <1>3, <1>5, <1>6, <1>7, <1>8, <1>9, <1>13, <1>14, <1>16, <1>18, <1>19, <1>20, <1>21, <1>22,
       TaskSteps
<1> QED BY <1>23 DEF IInv

\* The end of dns_resolver_task_done(): the callback is made and the task freed.
LEMMA DoneKeeps ==
    ASSUME NEW lk, NEW nt, NEW fn, Inv(lk, nt, fn), DoneStep
    PROVE  IInv'
<1>1. Top("done") /\ StackType(lk, nt, fn) /\ StackIs(todo, lk, nt, fn)
    BY DEF DoneStep, Inv
<1>2. lk = NoItem /\ nt = NoItem /\ fn \in DoneItems /\ Head(todo) = fn /\ Tail(todo) = <<>>
    BY <1>1, TopIs
<1>3. PICK r \in Requests : r = fn.r
    BY <1>2 DEF DoneItems
<1>4. PICK res \in Results : res = fn.res
    BY <1>2 DEF DoneItems
<1>5. fn.op = "done" /\ Runs(fn, r)
    BY <1>2, <1>3 DEF DoneItems, Runs
<1>6. Inv(NoItem, NoItem, fn)
    BY <1>2
<1>7. /\ ReqInv(r, NoItem, NoItem, fn) /\ TypeOK /\ SlotInv /\ CacheInv /\ WaitInv(NoItem)
      /\ tsk[r] # Null
    BY <1>5, <1>6 DEF Inv, ReqInv, HandlerInv
<1>8. Right(req[r].name, res.of) /\ Right(req[r].name, req[r].res.of)
    BY <1>4, <1>5, <1>7 DEF ReqInv, PathInv
<1>9. /\ req[r].st = IF tsk[r].cb THEN "open" ELSE "cancelled"
      /\ req \in [Requests -> ReqType] /\ req[r].name \in Names
    BY <1>6, <1>7, TaskFinds
<1>10. /\ IF tsk[r].cb THEN Call(r, res) ELSE req' = req
       /\ Free(r) /\ Push(<<>>) /\ UNCHANGED <<prm, cache, index, sent, up>>
    BY <1>2, <1>3, <1>4 DEF DoneStep
<1>11. /\ SlotInv' /\ slot' \in [Slots -> Requests \cup {Null}]
       /\ tsk' \in [Requests -> Task \cup {Null}] /\ tsk'[r] = Null
       /\ \A s \in Requests \ {r} : tsk'[s] = tsk[s]
    BY <1>7, <1>10, SlotFreed
<1>12. /\ req' \in [Requests -> ReqType] /\ \A s \in Requests \ {r} : req'[s] = req[s]
       /\ req'[r].st \in {"done", "cancelled"} /\ req'[r].name = req[r].name
       /\ Right(req[r].name, req'[r].res.of)
    <2>1. CASE tsk[r].cb
        <3>1. /\ req' \in [Requests -> ReqType] /\ \A s \in Requests \ {r} : req'[s] = req[s]
              /\ req'[r].st = "done" /\ req'[r].name = req[r].name /\ req'[r].res = res
            BY <1>9, <1>10, <2>1 DEF Call, ReqType
        <3> QED BY <1>8, <3>1
    <2>2. CASE ~tsk[r].cb
        BY <1>8, <1>9, <1>10, <2>2
    <2> QED BY <2>1, <2>2
<1>13. TypeOK'
    BY <1>7, <1>10, <1>11, <1>12, TypeNext DEF TypeOK
<1>14. todo' = <<>>
    BY <1>2, <1>10, PushIs DEF Push
<1>15. StackType(NoItem, NoItem, NoItem) /\ StackIs(todo', NoItem, NoItem, NoItem)
    BY <1>14 DEF StackType, StackIs, NoItem
<1>16. CacheInv' /\ \A s \in Requests, y \in Names : InQueue(s, y)' <=> InQueue(s, y)
    BY <1>7, <1>10, SameCache
<1>17. /\ WaitInv(NoItem)'
       /\ \A s \in Requests, y \in Names : WaitsFor(s, y, NoItem)' <=> WaitsFor(s, y, NoItem)
       /\ \A s \in Requests : Waits(s, NoItem)' <=> Waits(s, NoItem)
    BY <1>7, <1>16, SameWaits
<1>18. ReqInv(r, NoItem, NoItem, NoItem)'
    <2>1. CallInv(r)' /\ OwnInv(r, NoItem)'
        BY <1>11, <1>12 DEF CallInv, OwnInv
    <2>2. PlaceInv(r, NoItem, NoItem, NoItem)' /\ HandlerInv(r, NoItem, NoItem, NoItem)'
        BY <1>11, <1>12 DEF PlaceInv, HandlerInv, Looks, NoItem, Runs
    <2>3. PathInv(r, NoItem, NoItem, NoItem)'
        <3>1. PICK n : n = req[r].name
            OBVIOUS
        <3>2. /\ Chain(req[r].name)' = Chain(n)
              /\ \A z : Right(req[r].name, z)' <=> Right(n, z)
            BY <1>10, <1>12, <3>1, ChainNext
        <3>3. Right(req[r].name, req[r].res.of)'
            <4>1. PICK z : z = req'[r].res.of
                OBVIOUS
            <4>2. Right(req[r].name, z)'
                BY <1>12, <3>1, <3>2, <4>1
            <4> QED BY <4>1, <4>2
        <3>4. \A x \in Names : WaitsFor(r, x, NoItem)' => x \in Chain(req[r].name)'
            BY <1>7, <1>17, <3>1, <3>2 DEF ReqInv, PathInv
        <3> QED BY <1>9, <1>11, <1>12, <3>3, <3>4 DEF PathInv, Looks, NoItem, Runs
    <2> QED BY <2>1, <2>2, <2>3 DEF ReqInv
<1>19. KeepsOwned(r)
    BY <1>6, <1>7, <1>10, OwnEntry
<1>20. Apart(r, NoItem, fn, NoItem, NoItem)
    <2>1. \A s \in Requests \ {r} : ~Runs(fn, s) /\ ~Runs(NoItem, s)
        BY <1>3 DEF Runs, NoItem
    <2> QED BY <1>11, <1>12, <1>17, <1>19, <2>1 DEF Apart, KeepsOwned
<1>21. \A s \in Requests \ {r} : ~Looks(NoItem, s)
    BY DEF Looks, NoItem
<1>22. Inv(NoItem, NoItem, NoItem)'
    BY <1>6, <1>10, <1>11, <1>13, <1>15, <1>16, <1>17, <1>18, <1>20, <1>21, OneStep
<1> QED BY <1>22 DEF IInv

\* The head of a chain that waits.
LEMMA QueueShrinks ==
    ASSUME NEW q \in Seq(Requests), q # <<>>
    PROVE  /\ Head(q) \in Requests /\ Tail(q) \in Seq(Requests)
           /\ \A s : In(s, q) <=> s = Head(q) \/ In(s, Tail(q))
           /\ Distinct(q) => Distinct(Tail(q)) /\ ~In(Head(q), Tail(q))
<1>1. /\ Head(q) \in Requests /\ Tail(q) \in Seq(Requests) /\ q = <<Head(q)>> \o Tail(q)
    BY HeadTailProperties
<1>2. PICK h \in Requests, p \in Seq(Requests) : h = Head(q) /\ p = Tail(q) /\ q = <<h>> \o p
    BY <1>1
<1>3. \A s : In(s, q) <=> s = h \/ In(s, p)
    <2>1. \A s : In(s, <<h>> \o p) <=> s = h \/ In(s, p)
        BY QueueGrows
    <2> QED BY <1>2, <2>1
<1>4. /\ Len(q) = Len(p) + 1 /\ Len(p) \in Nat /\ q[1] = h
      /\ \A k \in 1 .. Len(p) : q[k + 1] = p[k]
    BY <1>2
<1>5. DOMAIN q = 1 .. Len(p) + 1 /\ DOMAIN p = 1 .. Len(p)
    BY <1>4
<1>6. ASSUME Distinct(q) PROVE Distinct(p) /\ ~In(h, p)
    <2>1. ASSUME NEW j \in DOMAIN p, NEW k \in DOMAIN p, p[j] = p[k] PROVE j = k
        <3>1. j + 1 \in DOMAIN q /\ k + 1 \in DOMAIN q /\ q[j + 1] = q[k + 1]
            BY <1>4, <1>5, <2>1
        <3>2. j + 1 = k + 1
            BY <1>6, <3>1 DEF Distinct
        <3> QED BY <1>4, <1>5, <3>2
    <2>2. ASSUME NEW k \in DOMAIN p, p[k] = h PROVE FALSE
        <3>1. 1 \in DOMAIN q /\ k + 1 \in DOMAIN q /\ q[k + 1] = q[1]
            BY <1>4, <1>5, <2>2
        <3>2. k + 1 = 1
            BY <1>6, <3>1 DEF Distinct
        <3> QED BY <1>4, <1>5, <3>2
    <2> QED BY <2>1, <2>2 DEF Distinct, In
<1> QED BY <1>1, <1>2, <1>3, <1>6

\* A step of no request.
LEMMA NobodyActs ==
    ASSUME NEW lk, NEW nt, NEW fn, Inv(lk, nt, fn),
           UNCHANGED <<prm, tsk, slot, index, sent, req, todo>>, up' \in {"up", "down", "crash"},
           cache' \in [Names -> Entry \cup {Null}], CacheInv',
           \A s \in Requests, y \in Names : InQueue(s, y)' <=> InQueue(s, y),
           \A s \in Requests : tsk[s] # Null /\ tsk[s].name # Null =>
               /\ cache'[tsk[s].name] # Null
               /\ cache'[tsk[s].name].upd = cache[tsk[s].name].upd
               /\ cache[tsk[s].name].upd
                  \/ cache'[tsk[s].name].fresh = cache[tsk[s].name].fresh
    PROVE  IInv'
<1>1. /\ world' = world /\ Servers' = Servers /\ Slots' = Slots
    BY SameWorld
<1>2. /\ TypeOK /\ SlotInv /\ SoleOwner /\ CacheInv /\ WaitInv(nt) /\ StackType(lk, nt, fn)
      /\ StackIs(todo, lk, nt, fn) /\ \A r \in Requests : ReqInv(r, lk, nt, fn)
    BY DEF Inv
<1>3. TypeOK'
    BY <1>2, TypeNext DEF TypeOK, ReqType
<1>4. SlotInv' /\ SoleOwner'
    BY <1>1, <1>2 DEF SlotInv, SoleOwner
<1>6. /\ WaitInv(nt)'
      /\ \A s \in Requests, y \in Names : WaitsFor(s, y, nt)' <=> WaitsFor(s, y, nt)
      /\ \A s \in Requests : Waits(s, nt)' <=> Waits(s, nt)
    BY <1>2, SameWaits
<1>7. StackType(lk, nt, fn)' /\ StackIs(todo, lk, nt, fn)'
    BY <1>2 DEF StackType, StackIs, LookItems, NotifyItems, ScanItems, DoneItems, FollowItems,
                NoItem
<1>8. ASSUME NEW r \in Requests PROVE ReqInv(r, lk, nt, fn)'
    <2>1. /\ CallInv(r) /\ OwnInv(r, fn) /\ PlaceInv(r, lk, nt, fn) /\ HandlerInv(r, lk, nt, fn)
          /\ PathInv(r, lk, nt, fn) /\ (Waits(r, nt)' <=> Waits(r, nt))
          /\ \A y \in Names : WaitsFor(r, y, nt)' <=> WaitsFor(r, y, nt)
        BY <1>2, <1>6 DEF ReqInv
    <2>2. CallInv(r)'
        BY <2>1 DEF CallInv
    <2>7. OwnInv(r, fn)'
        <3> SUFFICES ASSUME tsk[r] # Null, tsk[r].name # Null
                     PROVE  /\ cache'[tsk[r].name] # Null /\ ~tsk[r].queued
                            /\ tsk[r].loops < Cycles
                            /\ IF Ends(fn, r)
                               THEN ~cache'[tsk[r].name].upd /\ cache'[tsk[r].name].fresh
                               ELSE cache'[tsk[r].name].upd
            BY DEF OwnInv, Ends
        <3> QED BY <2>1 DEF OwnInv
    <2>3. PlaceInv(r, lk, nt, fn)'
        BY <1>1, <2>1 DEF PlaceInv, Looks, Runs
    <2>4. HandlerInv(r, lk, nt, fn)'
        BY <1>1, <2>1 DEF HandlerInv, Looks, Runs
    <2>5. PathInv(r, lk, nt, fn)'
        <3>1. PICK n : n = req[r].name
            OBVIOUS
        <3>2. /\ Chain(req[r].name)' = Chain(n)
              /\ \A z : Right(req[r].name, z)' <=> Right(n, z)
            BY <3>1, ChainNext
        <3>3. Right(req[r].name, req[r].res.of)'
            <4>1. PICK z : z = req[r].res.of
                OBVIOUS
            <4>2. Right(req[r].name, z)'
                BY <2>1, <3>1, <3>2, <4>1 DEF PathInv
            <4> QED BY <4>1, <4>2
        <3>4. Runs(fn, r) /\ fn.op = "done" => Right(req[r].name, fn.res.of)'
            BY <2>1, <3>1, <3>2 DEF PathInv
        <3>5. \A x \in Names : WaitsFor(r, x, nt)' => x \in Chain(req[r].name)'
            BY <2>1, <3>1, <3>2 DEF PathInv
        <3>6. /\ tsk'[r] # Null /\ tsk'[r].name # Null => tsk'[r].name \in Chain(req[r].name)'
              /\ Looks(lk, r) => lk.x \in Chain(req[r].name)'
              /\ Runs(fn, r) /\ fn.op = "follow" => fn.x \in Chain(req[r].name)'
              /\ IF req'[r].st = "idle" THEN req'[r].res = NoResult ELSE req'[r].name \in Names
            BY <2>1, <3>1, <3>2 DEF PathInv
        <3> QED BY <3>3, <3>4, <3>5, <3>6 DEF PathInv, Looks, Runs
    <2> QED BY <2>2, <2>3, <2>4, <2>5, <2>7 DEF ReqInv
<1>9. Inv(lk, nt, fn)'
    BY <1>3, <1>4, <1>6, <1>7, <1>8 DEF Inv
<1> QED BY <1>9 DEF IInv

\* A crash, and a step of something else.
LEMMA OnlyUp ==
    ASSUME NEW lk, NEW nt, NEW fn, Inv(lk, nt, fn),
           UNCHANGED <<prm, cache, tsk, slot, index, sent, req, todo>>,
           up' \in {"up", "down", "crash"}
    PROVE  IInv'
<1>1. CacheInv /\ cache \in [Names -> Entry \cup {Null}] /\ \A s \in Requests : OwnInv(s, fn)
    BY DEF Inv, TypeOK, ReqInv
<1>2. CacheInv' /\ \A s \in Requests, y \in Names : InQueue(s, y)' <=> InQueue(s, y)
    BY <1>1, SameCache
<1>3. \A s \in Requests : tsk[s] # Null /\ tsk[s].name # Null => cache[tsk[s].name] # Null
    BY <1>1 DEF OwnInv
<1> QED BY <1>1, <1>2, <1>3, NobodyActs

\* dns_rslvr_task_notify_chain() keeps the invariant.
LEMMA NotifyKeeps ==
    ASSUME NEW lk, NEW nt, NEW fn, Inv(lk, nt, fn), NotifyStep
    PROVE  IInv'
<1>1. Top("notify") /\ StackType(lk, nt, fn) /\ StackIs(todo, lk, nt, fn)
    BY DEF NotifyStep, Inv
<1>2. /\ lk = NoItem /\ nt \in NotifyItems /\ Head(todo) = nt /\ Tail(todo) = <<fn>>
      /\ fn \in DoneItems \cup FollowItems
    BY <1>1, TopIs
<1>3. PICK q \in Seq(Requests), x \in Names : q = nt.q /\ x = nt.x
    BY <1>2 DEF NotifyItems
<1>4. nt.op = "notify" /\ Pend(nt) = q /\ Inv(NoItem, nt, fn)
    BY <1>2, <1>3 DEF NotifyItems, Pend
<1>5. /\ TypeOK /\ SlotInv /\ CacheInv /\ WaitInv(nt) /\ SoleOwner
      /\ cache \in [Names -> Entry \cup {Null}] /\ tsk \in [Requests -> Task \cup {Null}]
      /\ \A s \in Requests : ReqInv(s, NoItem, nt, fn)
    BY <1>4 DEF Inv, TypeOK
<1>6. UNCHANGED <<prm, cache, slot, index, sent, req>>
    BY DEF NotifyStep
<1>7. CacheInv' /\ \A s \in Requests, y \in Names : InQueue(s, y)' <=> InQueue(s, y)
    BY <1>5, <1>6, SameCache
<1>8. /\ Null \notin Names /\ Null \notin Task /\ Servers' = Servers /\ Slots' = Slots
      /\ Cycles \in Nat
    BY <1>5, <1>6, NullIs, SameWorld
<1>9. \A s \in Requests : tsk[s] # Null /\ tsk[s].name # Null => cache[tsk[s].name] # Null
    BY <1>5 DEF ReqInv, OwnInv
<1>10. CASE q = <<>>
    <2>1. Push(<<>>) /\ UNCHANGED <<tsk, up>>
        BY <1>2, <1>3, <1>10 DEF NotifyStep
    <2>2. todo' = <<fn>>
        BY <1>2, <2>1, PushIs DEF Push
    <2>3. StackType(NoItem, NoItem, fn) /\ StackIs(todo', NoItem, NoItem, fn)
        BY <1>2, <2>2 DEF StackType, StackIs, NoItem, DoneItems, FollowItems
    <2>4. PICK r \in Requests : r = fn.r
        BY <1>2 DEF DoneItems, FollowItems
    <2>5. Pend(NoItem) = <<>> /\ \A s \in Requests : ~In(s, <<>>)
        BY DEF Pend, NoItem, In
    <2>6. WaitInv(NoItem) /\ \A s \in Requests, y \in Names :
              WaitsFor(s, y, NoItem) <=> WaitsFor(s, y, nt)
        BY <1>4, <1>5, <1>10, <2>5 DEF WaitInv, WaitsFor
    <2>7. \A s \in Requests : Waits(s, NoItem) <=> Waits(s, nt)
        BY <2>6 DEF Waits
    <2>8. /\ WaitInv(NoItem)'
          /\ \A s \in Requests, y \in Names : WaitsFor(s, y, NoItem)' <=> WaitsFor(s, y, NoItem)
          /\ \A s \in Requests : Waits(s, NoItem)' <=> Waits(s, NoItem)
        BY <1>7, <2>6, SameWaits
    <2>9. TypeOK'
        BY <1>5, <1>6, <2>1, TypeNext DEF TypeOK, ReqType
    <2>10. SlotInv'
        BY <1>5, <1>6, <1>8, <2>1 DEF SlotInv
    <2>11. ReqInv(r, NoItem, NoItem, fn)'
        <3>1. /\ CallInv(r) /\ OwnInv(r, fn) /\ PlaceInv(r, NoItem, nt, fn)
              /\ HandlerInv(r, NoItem, nt, fn)
              /\ PathInv(r, NoItem, nt, fn) /\ (Waits(r, NoItem)' <=> Waits(r, nt))
              /\ \A y \in Names : WaitsFor(r, y, NoItem)' <=> WaitsFor(r, y, nt)
            BY <1>5, <2>6, <2>7, <2>8 DEF ReqInv
        <3>2. CallInv(r)' /\ OwnInv(r, fn)'
            BY <1>6, <2>1, <3>1 DEF CallInv, OwnInv, Ends
        <3>3. PlaceInv(r, NoItem, NoItem, fn)'
            BY <1>6, <1>8, <2>1, <3>1 DEF PlaceInv, Looks, Runs
        <3>4. HandlerInv(r, NoItem, NoItem, fn)'
            BY <1>6, <1>8, <2>1, <3>1 DEF HandlerInv, Looks, Runs, NoItem
        <3>5. PathInv(r, NoItem, NoItem, fn)'
            <4>1. PICK n : n = req[r].name
                OBVIOUS
            <4>2. /\ Chain(req[r].name)' = Chain(n)
                  /\ \A z : Right(req[r].name, z)' <=> Right(n, z)
                BY <1>6, <4>1, ChainNext
            <4>3. Right(req[r].name, req[r].res.of)'
                <5>1. PICK z : z = req[r].res.of
                    OBVIOUS
                <5>2. Right(req[r].name, z)'
                    BY <3>1, <4>1, <4>2, <5>1 DEF PathInv
                <5> QED BY <1>6, <5>1, <5>2
            <4>4. Runs(fn, r) /\ fn.op = "done" => Right(req[r].name, fn.res.of)'
                BY <3>1, <4>1, <4>2 DEF PathInv
            <4>5. \A y \in Names : WaitsFor(r, y, NoItem)' => y \in Chain(req[r].name)'
                BY <3>1, <4>1, <4>2 DEF PathInv
            <4>6. /\ tsk'[r] # Null /\ tsk'[r].name # Null =>
                        tsk'[r].name \in Chain(req[r].name)'
                  /\ Runs(fn, r) /\ fn.op = "follow" => fn.x \in Chain(req[r].name)'
                  /\ IF req'[r].st = "idle" THEN req'[r].res = NoResult
                     ELSE req'[r].name \in Names
                BY <1>6, <2>1, <3>1, <4>1, <4>2 DEF PathInv
            <4> QED BY <4>3, <4>4, <4>5, <4>6 DEF PathInv, Looks, Runs, NoItem
        <3> QED BY <3>2, <3>3, <3>4, <3>5 DEF ReqInv
    <2>12. Apart(r, nt, fn, NoItem, fn)
        <3> SUFFICES ASSUME NEW s \in Requests \ {r}
                     PROVE  /\ \A y \in Names : WaitsFor(s, y, NoItem)' <=> WaitsFor(s, y, nt)
                            /\ tsk[s] # Null /\ tsk[s].name # Null =>
                                  /\ cache[tsk[s].name] # Null
                                  /\ tsk[r] # Null => tsk[r].name # tsk[s].name
            BY <1>6, <2>1 DEF Apart, NoItem
        <3>1. \A y \in Names : WaitsFor(s, y, NoItem)' <=> WaitsFor(s, y, nt)
            BY <2>6, <2>8
        <3>2. tsk[s] # Null /\ tsk[s].name # Null =>
                  cache[tsk[s].name] # Null /\ (tsk[r] # Null => tsk[r].name # tsk[s].name)
            BY <1>5, <1>9 DEF SoleOwner
        <3> QED BY <3>1, <3>2
    <2>13. \A s \in Requests \ {r} : ~Looks(NoItem, s)
        BY DEF Looks, NoItem
    <2>14. Inv(NoItem, NoItem, fn)'
        BY <1>4, <1>6, <1>7, <2>3, <2>8, <2>9, <2>10, <2>11, <2>12, <2>13, OneStep
    <2> QED BY <2>14 DEF IInv
<1>11. CASE q # <<>> /\ tsk[Head(q)] = Null
    <2>1. up' = "crash" /\ UNCHANGED <<todo, tsk>>
        BY <1>2, <1>3, <1>11 DEF NotifyStep
    <2> QED BY <1>6, <2>1, OnlyUp
<1>12. CASE q # <<>> /\ tsk[Head(q)] # Null
    <2>1. PICK h \in Requests, p \in Seq(Requests) :
              /\ h = Head(q) /\ p = Tail(q)
              /\ \A s : In(s, q) <=> s = h \/ In(s, p)
              /\ Distinct(q) => Distinct(p) /\ ~In(h, p)
        BY <1>12, QueueShrinks
    <2>2. PICK l, lk2, nt2 : /\ l = tsk[h].loops /\ lk2 = Lookup(h, x, l, TRUE, NoRecords)
                             /\ nt2 = Notify(x, p)
        OBVIOUS
    <2>3. /\ tsk' = [tsk EXCEPT ![h].queued = FALSE] /\ Push(<<lk2, nt2>>) /\ up' = up
        BY <1>2, <1>3, <1>12, <2>1, <2>2 DEF NotifyStep, Rest
    <2>4. WaitsFor(h, x, nt) /\ Waits(h, nt)
        BY <1>3, <1>4, <2>1 DEF WaitsFor, Waits
    <2>5. tsk[h] \in Task /\ tsk[h] # Null
        BY <1>5, <1>12, <2>1
    <2>6. /\ tsk[h].queued /\ tsk[h].name = Null /\ ~tsk[h].armed /\ tsk[h].loops <= Cycles
          /\ ~Runs(fn, h)
        <3>1. ReqInv(h, NoItem, nt, fn)
            BY <1>5
        <3>2. tsk[h].queued /\ tsk[h].loops <= Cycles
            BY <2>4, <2>5, <3>1 DEF ReqInv, PlaceInv
        <3>3. tsk[h].name = Null
            BY <2>5, <3>1, <3>2 DEF ReqInv, OwnInv
        <3>4. ~tsk[h].armed
            BY <2>5, <3>1, <3>3 DEF ReqInv, PlaceInv, Task
        <3>5. ~Runs(fn, h)
            BY <1>3, <1>4, <1>8, <3>1, <3>3 DEF ReqInv, HandlerInv
        <3> QED BY <3>2, <3>3, <3>4, <3>5
    <2>7. PICK t : t = [tsk[h] EXCEPT !.queued = FALSE]
        OBVIOUS
    <2>8. /\ t \in Task /\ t # Null /\ ~t.queued /\ t.id = tsk[h].id /\ t.cb = tsk[h].cb
          /\ t.name = Null /\ ~t.armed /\ t.loops <= Cycles
        BY <1>8, <2>5, <2>6, <2>7 DEF Task
    <2>9. /\ tsk' \in [Requests -> Task \cup {Null}] /\ tsk'[h] = t
          /\ \A s \in Requests \ {h} : tsk'[s] = tsk[s]
        BY <1>5, <2>3, <2>7, <2>8
    <2>10. SlotInv'
        BY <1>5, <1>6, <2>5, <2>8, <2>9, SlotKept
    <2>11. TypeOK'
        BY <1>5, <1>6, <2>3, <2>9, TypeNext DEF TypeOK, ReqType
    <2>12. todo' = <<lk2, nt2, fn>>
        <3>1. <<lk2, nt2>> \o <<fn>> = <<lk2, nt2, fn>>
            BY PushIs
        <3> QED BY <1>2, <2>3, <3>1 DEF Push
    <2>13. l \in 0 .. Cycles
        BY <1>8, <2>2, <2>5, <2>6 DEF Task
    <2>14. /\ lk2 \in LookItems /\ lk2.op = "lookup" /\ lk2.r = h /\ lk2.x = x /\ lk2.send
           /\ nt2 \in NotifyItems /\ nt2.op = "notify" /\ nt2.x = x /\ Pend(nt2) = p
           /\ Looks(lk2, h) /\ \A s \in Requests \ {h} : ~Looks(lk2, s) /\ ~Looks(NoItem, s)
        BY <2>2, <2>13 DEF Lookup, LookItems, Records, NoRecords, Notify, NotifyItems, Pend, Looks, NoItem
    <2>15. StackType(lk2, nt2, fn) /\ StackIs(todo', lk2, nt2, fn)
        BY <1>2, <2>12, <2>14 DEF StackType, StackIs, DoneItems, FollowItems
    <2>16. Distinct(q) /\ Distinct(p) /\ ~In(h, p) /\ \A y \in Names : ~InQueue(h, y)
        BY <1>4, <1>5, <2>1 DEF WaitInv
    <2>17. \A s \in Requests : In(s, Pend(nt2))' <=> In(s, p)
        BY <2>14 DEF In, Pend
    <2>18. WaitInv(nt2)'
        <3>1. Distinct(Pend(nt2))'
            BY <2>14, <2>16 DEF Distinct, Pend
        <3> QED BY <1>4, <1>5, <1>7, <2>1, <2>17, <3>1 DEF WaitInv
    <2>19. ~Waits(h, nt2)' /\ \A y \in Names : ~WaitsFor(h, y, nt2)'
        BY <1>7, <2>16, <2>17 DEF Waits, WaitsFor
    <2>20. \A s \in Requests \ {h}, y \in Names : WaitsFor(s, y, nt2)' <=> WaitsFor(s, y, nt)
        BY <1>3, <1>4, <1>7, <2>1, <2>14, <2>17 DEF WaitsFor
    <2>21. ReqInv(h, lk2, nt2, fn)'
        <3>1. CallInv(h) /\ PathInv(h, NoItem, nt, fn)
            BY <1>5 DEF ReqInv
        <3>2. CallInv(h)' /\ OwnInv(h, fn)'
            BY <1>6, <2>5, <2>8, <2>9, <3>1 DEF CallInv, OwnInv
        <3>3. PlaceInv(h, lk2, nt2, fn)'
            BY <2>8, <2>9, <2>14, <2>19 DEF PlaceInv, Looks
        <3>4. HandlerInv(h, lk2, nt2, fn)'
            BY <2>6, <2>8, <2>9, <2>19 DEF HandlerInv, Looks, Runs
        <3>5. PathInv(h, lk2, nt2, fn)'
            <4>1. PICK n, z : n = req[h].name /\ z = req[h].res.of
                OBVIOUS
            <4>2. /\ Chain(req[h].name)' = Chain(n)
                  /\ \A u : Right(req[h].name, u)' <=> Right(n, u)
                BY <1>6, <4>1, ChainNext
            <4>3. Right(req[h].name, z)'
                BY <3>1, <4>1, <4>2 DEF PathInv
            <4>4. Right(req[h].name, req[h].res.of)'
                BY <1>6, <4>1, <4>3
            <4>5. lk2.x \in Chain(req[h].name)'
                BY <2>4, <2>14, <3>1, <4>1, <4>2 DEF PathInv
            <4>6. IF req'[h].st = "idle" THEN req'[h].res = NoResult ELSE req'[h].name \in Names
                BY <1>6, <3>1 DEF PathInv
            <4> QED BY <2>6, <2>8, <2>9, <2>19, <4>4, <4>5, <4>6 DEF PathInv, Runs, Looks
        <3> QED BY <3>2, <3>3, <3>4, <3>5 DEF ReqInv
    <2>22. Apart(h, nt, fn, nt2, fn)
        <3> SUFFICES ASSUME NEW s \in Requests \ {h}
                     PROVE  /\ tsk'[s] = tsk[s]
                            /\ \A y \in Names : WaitsFor(s, y, nt2)' <=> WaitsFor(s, y, nt)
                            /\ nt.op = "notify" /\ nt2.x = nt.x
                            /\ tsk[s] # Null /\ tsk[s].name # Null =>
                                  /\ cache[tsk[s].name] # Null
                                  /\ tsk'[h] # Null => tsk'[h].name # tsk[s].name
            BY <1>6 DEF Apart
        <3> QED BY <1>3, <1>4, <1>9, <2>8, <2>9, <2>14, <2>20
    <2>23. Inv(lk2, nt2, fn)'
        BY <1>4, <1>6, <1>7, <2>10, <2>11, <2>14, <2>15, <2>18, <2>21, <2>22, OneStep
    <2> QED BY <2>23 DEF IInv
<1> QED BY <1>10, <1>11, <1>12

-----------------------------------------------------------------------------
(* Calls and events.                                                       *)

\* Nothing is on the stack between handlers.
LEMMA IdleFinds ==
    ASSUME NEW lk, NEW nt, NEW fn, Inv(lk, nt, fn), Idle
    PROVE  /\ Inv(NoItem, NoItem, NoItem)
           /\ \A s \in Requests : ~Runs(NoItem, s) /\ ~Looks(NoItem, s) /\ ~Ends(NoItem, s)
           /\ StackType(NoItem, NoItem, NoItem)
           /\ todo' = todo => StackIs(todo', NoItem, NoItem, NoItem)
<1>1. todo = <<>> /\ StackType(lk, nt, fn) /\ StackIs(todo, lk, nt, fn)
    BY DEF Idle, Inv
<1>2. lk = NoItem /\ nt = NoItem /\ fn = NoItem
    BY <1>1, TopIs
<1>3. \A s \in Requests : ~Runs(NoItem, s) /\ ~Looks(NoItem, s) /\ ~Ends(NoItem, s)
    BY DEF Runs, Looks, Ends, NoItem
<1>4. StackType(NoItem, NoItem, NoItem) /\ (todo' = todo => StackIs(todo', NoItem, NoItem, NoItem))
    BY <1>1 DEF StackType, StackIs, NoItem
<1> QED BY <1>2, <1>3, <1>4

\* dns_resolv_hostaddr() keeps the invariant.
LEMMA AskKeeps ==
    ASSUME NEW lk, NEW nt, NEW fn, Inv(lk, nt, fn), NEW r \in Requests, NEW x \in Names, Ask(r, x)
    PROVE  IInv'
<1>1. /\ Inv(NoItem, NoItem, NoItem)
      /\ \A s \in Requests : ~Runs(NoItem, s) /\ ~Looks(NoItem, s) /\ ~Ends(NoItem, s)
    BY IdleFinds DEF Ask
<1>2. /\ TypeOK /\ SlotInv /\ CacheInv /\ WaitInv(NoItem) /\ req \in [Requests -> ReqType]
      /\ \A s \in Requests : ReqInv(s, NoItem, NoItem, NoItem)
    BY <1>1 DEF Inv, TypeOK, ReqType
<1>3. /\ req[r].st = "idle" /\ req' = [req EXCEPT ![r].st = "open", ![r].name = x]
      /\ UNCHANGED <<prm, cache, tsk, slot, index, sent, up>>
    BY DEF Ask
<1>4. tsk[r] = Null /\ ~Waits(r, NoItem) /\ req[r].res = NoResult
    BY <1>2, <1>3 DEF ReqInv, CallInv, PlaceInv, PathInv
<1>5. /\ req' \in [Requests -> ReqType] /\ \A s \in Requests \ {r} : req'[s] = req[s]
      /\ req'[r].st = "open" /\ req'[r].name = x /\ req'[r].res = NoResult
    BY <1>2, <1>3, <1>4 DEF ReqType
<1>6. TypeOK'
    BY <1>2, <1>3, <1>5, TypeNext DEF TypeOK
<1>7. /\ SlotInv' /\ Cycles \in Nat
    BY <1>2, <1>3, SameWorld, NullIs DEF SlotInv
<1>8. CacheInv' /\ \A s \in Requests, y \in Names : InQueue(s, y)' <=> InQueue(s, y)
    BY <1>2, <1>3, SameCache
<1>9. /\ WaitInv(NoItem)'
      /\ \A s \in Requests, y \in Names : WaitsFor(s, y, NoItem)' <=> WaitsFor(s, y, NoItem)
      /\ \A s \in Requests : Waits(s, NoItem)' <=> Waits(s, NoItem)
    BY <1>2, <1>8, SameWaits
<1>10. PICK lk2 : lk2 = Lookup(r, x, 0, TRUE, NoRecords)
    OBVIOUS
<1>11. /\ lk2 \in LookItems /\ lk2.op = "lookup" /\ lk2.r = r /\ lk2.x = x /\ lk2.send
       /\ \A s \in Requests \ {r} : ~Looks(lk2, s)
    BY <1>7, <1>10 DEF Lookup, LookItems, Looks, Records, NoRecords
<1>12. todo' = <<lk2>>
    BY <1>10 DEF Ask
<1>13. StackType(lk2, NoItem, NoItem) /\ StackIs(todo', lk2, NoItem, NoItem)
    BY <1>11, <1>12 DEF StackType, StackIs, NoItem
<1>14. ReqInv(r, lk2, NoItem, NoItem)'
    <2>1. CallInv(r)' /\ OwnInv(r, NoItem)'
        BY <1>3, <1>4, <1>5 DEF CallInv, OwnInv
    <2>2. PlaceInv(r, lk2, NoItem, NoItem)'
        BY <1>3, <1>4, <1>9 DEF PlaceInv
    <2>3. HandlerInv(r, lk2, NoItem, NoItem)'
        BY <1>3, <1>4, <1>5, <1>9, <1>11 DEF HandlerInv, Looks, Runs, NoItem
    <2>4. PathInv(r, lk2, NoItem, NoItem)'
        <3>1. /\ Chain(req[r].name)' = Chain(x)
              /\ \A z : Right(req[r].name, z)' <=> Right(x, z)
            BY <1>3, <1>5, ChainNext
        <3>2. Right(req[r].name, req[r].res.of)'
            BY <1>5, DnsResolvAssumption DEF Right, NoResult
        <3>3. x \in Chain(x)
            BY ChainIs
        <3>4. \A y \in Names : ~WaitsFor(r, y, NoItem)'
            BY <1>4, <1>9 DEF Waits
        <3>5. lk2.x \in Chain(req[r].name)'
            BY <1>11, <3>1, <3>3
        <3> QED BY <1>3, <1>4, <1>5, <3>2, <3>4, <3>5 DEF PathInv, Runs, Looks, NoItem
    <2> QED BY <2>1, <2>2, <2>3, <2>4 DEF ReqInv
<1>15. Apart(r, NoItem, NoItem, NoItem, NoItem)
    <2> SUFFICES ASSUME NEW s \in Requests \ {r}, tsk[s] # Null, tsk[s].name # Null
                 PROVE  cache[tsk[s].name] # Null
        BY <1>3, <1>4, <1>5, <1>9 DEF Apart, NoItem
    <2> QED BY <1>2 DEF ReqInv, OwnInv
<1>16. Inv(lk2, NoItem, NoItem)'
    BY <1>1, <1>3, <1>6, <1>7, <1>8, <1>9, <1>11, <1>13, <1>14, <1>15, OneStep
<1> QED BY <1>16 DEF IInv

\* dns_resolv_cancel() keeps the invariant.
LEMMA CancelKeeps ==
    ASSUME NEW lk, NEW nt, NEW fn, Inv(lk, nt, fn), NEW r \in Requests, Cancel(r)
    PROVE  IInv'
<1>1. /\ Inv(NoItem, NoItem, NoItem)
      /\ \A s \in Requests : ~Runs(NoItem, s) /\ ~Looks(NoItem, s) /\ ~Ends(NoItem, s)
      /\ StackType(NoItem, NoItem, NoItem) /\ StackIs(todo', NoItem, NoItem, NoItem)
    BY IdleFinds DEF Cancel
<1>2. /\ TypeOK /\ CacheInv /\ WaitInv(NoItem) /\ cache \in [Names -> Entry \cup {Null}]
      /\ tsk \in [Requests -> Task \cup {Null}]
    BY <1>1 DEF Inv, TypeOK
<1>3. /\ tsk[r] # Null /\ tsk' = [tsk EXCEPT ![r].cb = FALSE]
      /\ req' = [req EXCEPT ![r].st = "cancelled"]
      /\ UNCHANGED <<prm, cache, slot, index, sent, up>>
    BY DEF Cancel
<1>4. /\ tsk[r] \in Task /\ tsk[r].loops <= Cycles
      /\ tsk[r].name # Null => /\ tsk[r].name \in Names /\ cache[tsk[r].name] # Null
                               /\ ~tsk[r].queued /\ tsk[r].loops < Cycles
                               /\ cache[tsk[r].name].upd
      /\ tsk[r].armed => tsk[r].name # Null /\ tsk[r].srv < Servers
      /\ req \in [Requests -> ReqType]
      /\ sent \subseteq [id : Slots, srv : 0 .. Servers - 1, name : Names]
    BY <1>1, <1>3, TaskFinds
<1>5. PICK t : t = [tsk[r] EXCEPT !.cb = FALSE]
    OBVIOUS
<1>6. /\ t \in Task /\ ~t.cb /\ t.id = tsk[r].id /\ t.name = tsk[r].name
      /\ t.queued = tsk[r].queued /\ t.armed = tsk[r].armed /\ t.loops = tsk[r].loops
      /\ t.srv = tsk[r].srv /\ tsk' = [tsk EXCEPT ![r] = t]
    BY <1>2, <1>3, <1>4, <1>5 DEF Task
<1>7. /\ req' \in [Requests -> ReqType] /\ \A s \in Requests \ {r} : req'[s] = req[s]
      /\ req'[r].name = req[r].name /\ req'[r].res = req[r].res
      /\ req'[r].st = "cancelled"
    BY <1>3, <1>4 DEF ReqType
<1>8. CacheInv' /\ \A s \in Requests, y \in Names : InQueue(s, y)' <=> InQueue(s, y)
    BY <1>2, <1>3, SameCache
<1>9. /\ WaitInv(NoItem)'
      /\ \A s \in Requests, y \in Names : WaitsFor(s, y, NoItem)' <=> WaitsFor(s, y, NoItem)
    BY <1>2, <1>8, SameWaits
<1>10. KeepsOwned(r)
    BY <1>1, <1>3, OwnEntry
<1>11. /\ t.name # Null =>
             /\ cache'[t.name] # Null /\ ~t.queued /\ t.loops < Cycles
             /\ IF Ends(NoItem, r) THEN ~cache'[t.name].upd /\ cache'[t.name].fresh
                ELSE cache'[t.name].upd
       /\ t.armed => t.name # Null /\ t.srv < Servers
       /\ t.loops <= Cycles /\ t.name \in {tsk[r].name, Null}
       /\ req'[r].st = IF t.cb THEN "open" ELSE "cancelled"
       /\ ~t.queued /\ t.cb => t.armed \/ Looks(NoItem, r) \/ Runs(NoItem, r)
       /\ ~Looks(NoItem, r) /\ ~Runs(NoItem, r)
       /\ sent' \subseteq [id : Slots, srv : 0 .. Servers - 1, name : Names]
       /\ cache' \in [Names -> Entry \cup {Null}]
    BY <1>1, <1>2, <1>3, <1>4, <1>6, <1>7
<1>12. Inv(NoItem, NoItem, NoItem)'
    BY ZenonT(60), <1>1, <1>3, <1>6, <1>7, <1>8, <1>9, <1>10, <1>11, TaskSteps
<1> QED BY <1>12 DEF IInv

\* dns_resolver_task_timeout_cb() keeps the invariant.
LEMMA TimeoutKeeps ==
    ASSUME NEW lk, NEW nt, NEW fn, Inv(lk, nt, fn), NEW r \in Requests, Timeout(r)
    PROVE  IInv'
<1>1. Inv(NoItem, NoItem, NoItem) /\ todo = <<>>
    BY IdleFinds DEF Timeout, Idle
<1>2. /\ TypeOK /\ Servers \in Nat \ {0} /\ Retries \in Nat
    BY <1>1, NullIs DEF Inv
<1>3. tsk[r] # Null /\ tsk[r].armed /\ UNCHANGED <<prm, slot, index, req, up>>
    BY DEF Timeout
<1>4. tsk[r] \in Task /\ tsk[r].name # Null
    BY <1>1, <1>3, TaskFinds
<1>5. PICK t : t = [tsk[r] EXCEPT !.armed = FALSE]
    OBVIOUS
<1>6. /\ t \in Task /\ t.id = tsk[r].id /\ t.cb = tsk[r].cb /\ t.name = tsk[r].name
      /\ t.queued = tsk[r].queued /\ t.loops = tsk[r].loops /\ ~t.armed /\ t.name # Null
    BY <1>4, <1>5 DEF Task
<1>7. \/ \E n \in NextSend(t) : /\ tsk' = [tsk EXCEPT ![r] = Armed(n)]
                                /\ sent' = sent \cup {Query(n)} /\ UNCHANGED <<cache, todo>>
      \/ Finish(r, t, NoResult, NoData) /\ sent' = sent
    BY <1>5 DEF Timeout
<1>8. CASE \E n \in NextSend(t) : /\ tsk' = [tsk EXCEPT ![r] = Armed(n)]
                                  /\ sent' = sent \cup {Query(n)} /\ UNCHANGED <<cache, todo>>
    <2>1. PICK n \in NextSend(t) : /\ tsk' = [tsk EXCEPT ![r] = Armed(n)]
                                   /\ sent' = sent \cup {Query(n)} /\ UNCHANGED <<cache, todo>>
        BY <1>8
    <2>2. /\ n \in Task /\ n.id = t.id /\ n.cb = t.cb /\ n.name = t.name
          /\ n.queued = t.queued /\ n.loops = t.loops /\ n.srv < Servers
        <3>1. t.tries \in 0 .. Retries /\ t.srv \in 0 .. Servers /\ t.srv < Servers
            <4>1. tsk[r].srv < Servers
                BY <1>1, <1>3, TaskFinds
            <4> QED BY <1>4, <1>5, <1>6, <4>1 DEF Task
        <3>2. CASE t.tries + 1 <= Retries /\ n = [t EXCEPT !.tries = @ + 1]
            <4>1. t.tries + 1 \in 0 .. Retries
                BY <1>2, <3>1, <3>2
            <4> QED BY <1>6, <3>1, <3>2, <4>1 DEF Task
        <3>3. CASE t.srv + 1 < Servers /\ n = [t EXCEPT !.tries = 0, !.srv = @ + 1]
            <4>1. 0 \in 0 .. Retries /\ t.srv + 1 \in 0 .. Servers
                BY <1>2, <3>1, <3>3
            <4> QED BY <1>6, <3>3, <4>1 DEF Task
        <3>4. CASE \E k \in t.srv + 2 .. Servers - 1 : n = [t EXCEPT !.tries = 0, !.srv = k]
            <4>1. PICK k \in t.srv + 2 .. Servers - 1 : n = [t EXCEPT !.tries = 0, !.srv = k]
                BY <3>4
            <4>2. 0 \in 0 .. Retries /\ k \in 0 .. Servers /\ k < Servers
                BY <1>2, <3>1
            <4> QED BY <1>6, <4>1, <4>2 DEF Task
        <3>5. \/ t.tries + 1 <= Retries /\ n = [t EXCEPT !.tries = @ + 1]
              \/ t.srv + 1 < Servers /\ n = [t EXCEPT !.tries = 0, !.srv = @ + 1]
              \/ \E k \in t.srv + 2 .. Servers - 1 : n = [t EXCEPT !.tries = 0, !.srv = k]
            <4>1. \/ n \in (IF t.tries + 1 <= Retries THEN {[t EXCEPT !.tries = @ + 1]} ELSE {})
                  \/ n \in (IF t.srv + 1 < Servers /\ (t.tries + 1 > Retries \/ fails)
                            THEN {[t EXCEPT !.tries = 0, !.srv = @ + 1]} ELSE {})
                  \/ n \in {[t EXCEPT !.tries = 0, !.srv = k] :
                                k \in {k \in t.srv + 2 .. Servers - 1 : fails}}
                BY Zenon DEF NextSend
            <4> QED BY Zenon, <4>1
        <3> QED BY <3>2, <3>3, <3>4, <3>5
    <2>3. PICK a : a = Armed(n)
        OBVIOUS
    <2>4. /\ n.id = tsk[r].id /\ n.cb = tsk[r].cb /\ n.name = tsk[r].name /\ n.name # Null
          /\ n.queued = tsk[r].queued /\ n.loops = tsk[r].loops /\ todo' = <<>>
        BY <1>1, <1>6, <2>1, <2>2
    <2> QED BY <1>1, <1>3, <2>1, <2>2, <2>3, <2>4, SentKeeps
<1>9. CASE Finish(r, t, NoResult, NoData) /\ sent' = sent
    <2>1. /\ NoData \in Data /\ NoResult \in Results /\ Right(req[r].name, NoResult.of)
          /\ NoData.k = "none"
        BY DnsResolvAssumption DEF NoData, Data, NoResult, Results, Right
    <2> QED BY <1>1, <1>3, <1>6, <1>9, <2>1, FinishKeeps
<1> QED BY <1>7, <1>8, <1>9

\* The task that takes an answer.
LEMMA TakerFinds ==
    ASSUME NEW lk, NEW nt, NEW fn, Inv(lk, nt, fn), NEW q \in sent, NEW r \in Requests, Taker(q, r)
    PROVE  /\ Inv(NoItem, NoItem, NoItem) /\ todo = <<>>
           /\ tsk[r] # Null /\ tsk[r] \in Task /\ tsk[r].srv < Servers /\ q.name \in Names
<1>1. Inv(NoItem, NoItem, NoItem) /\ todo = <<>>
    BY IdleFinds DEF Taker, Idle
<1>2. /\ TypeOK /\ SlotInv /\ Servers \in Nat \ {0}
      /\ sent \subseteq [id : Slots, srv : 0 .. Servers - 1, name : Names]
    BY <1>1, NullIs DEF Inv, TypeOK
<1>3. q.id \in Slots /\ q.srv \in 0 .. Servers - 1 /\ q.name \in Names
    BY <1>2
<1>4. slot[q.id] = r /\ r # Null /\ tsk[r].srv = q.srv
    BY DEF Taker
<1>5. tsk[r] # Null
    BY <1>2, <1>3, <1>4 DEF SlotInv
<1>6. tsk[r] \in Task
    BY <1>2, <1>5 DEF TypeOK
<1> QED BY <1>1, <1>2, <1>3, <1>4, <1>5, <1>6

\* An error, and a name that does not exist.
LEMMA RecvFailKeeps ==
    ASSUME NEW lk, NEW nt, NEW fn, Inv(lk, nt, fn), NEW q \in sent, NEW r \in Requests,
           RecvError(q, r) \/ RecvNoName(q, r)
    PROVE  IInv'
<1>1. /\ Inv(NoItem, NoItem, NoItem) /\ todo = <<>>
      /\ tsk[r] # Null /\ tsk[r] \in Task /\ tsk[r].srv < Servers
    BY TakerFinds DEF RecvError, RecvNoName
<1>2. TypeOK /\ Servers \in Nat \ {0}
    BY <1>1, NullIs DEF Inv
<1>3. /\ NoData \in Data /\ NoResult \in Results /\ Right(req[r].name, NoResult.of)
      /\ NoData.k = "none"
    BY DnsResolvAssumption DEF NoData, Data, NoResult, Results, Right
<1>4. CASE RecvNoName(q, r)
    <2>1. PICK t : t = [tsk[r] EXCEPT !.armed = FALSE]
        OBVIOUS
    <2>2. /\ t \in Task /\ t.id = tsk[r].id /\ t.cb = tsk[r].cb /\ t.name = tsk[r].name
          /\ t.queued = tsk[r].queued /\ t.loops = tsk[r].loops /\ ~t.armed
        BY <1>1, <2>1 DEF Task
    <2>3. Finish(r, t, NoResult, NoData) /\ UNCHANGED <<prm, slot, index, sent, req, up>>
        BY <1>4, <2>1 DEF RecvNoName
    <2> QED BY <1>1, <1>3, <2>2, <2>3, FinishKeeps
<1>5. CASE RecvError(q, r)
    <2>1. PICK s : s = tsk[r].srv + 1
        OBVIOUS
    <2>2. s \in 0 .. Servers
        BY <1>1, <1>2, <2>1 DEF Task
    <2>3. PICK t : t = [tsk[r] EXCEPT !.armed = FALSE, !.srv = s]
        OBVIOUS
    <2>4. /\ t \in Task /\ t.id = tsk[r].id /\ t.cb = tsk[r].cb /\ t.name = tsk[r].name
          /\ t.queued = tsk[r].queued /\ t.loops = tsk[r].loops /\ ~t.armed
        BY <1>1, <2>2, <2>3 DEF Task
    <2>5. t = [tsk[r] EXCEPT !.armed = FALSE, !.srv = @ + 1]
        BY <1>1, <2>1, <2>3 DEF Task
    <2>6. /\ \/ /\ CanSend(t) /\ t.name # Null
                /\ tsk' = [tsk EXCEPT ![r] = Armed(t)]
                /\ sent' = sent \cup {Query(t)}
                /\ UNCHANGED <<cache, todo, up>>
             \/ up' = "crash" /\ UNCHANGED <<tsk, sent, cache, todo>>
             \/ Finish(r, t, NoResult, NoData) /\ UNCHANGED <<sent, up>>
          /\ UNCHANGED <<prm, slot, index, req>>
        BY <1>5, <2>5 DEF RecvError
    <2>7. CASE /\ CanSend(t) /\ t.name # Null
               /\ tsk' = [tsk EXCEPT ![r] = Armed(t)]
               /\ sent' = sent \cup {Query(t)}
               /\ UNCHANGED <<cache, todo, up>>
        <3>1. PICK a : a = Armed(t)
            OBVIOUS
        <3>2. t.srv < Servers
            BY <2>7 DEF CanSend
        <3> QED BY <1>1, <2>4, <2>6, <2>7, <3>1, <3>2, SentKeeps
    <2>8. CASE up' = "crash" /\ UNCHANGED <<tsk, sent, cache, todo>>
        BY <2>6, <2>8, OnlyUp
    <2>9. CASE Finish(r, t, NoResult, NoData) /\ UNCHANGED <<sent, up>>
        BY <1>1, <1>3, <2>4, <2>6, <2>9, FinishKeeps
    <2> QED BY <2>6, <2>7, <2>8, <2>9
<1> QED BY <1>4, <1>5

\* The records of an answer are about to be scanned.
LEMMA RecvRecordsKeeps ==
    ASSUME NEW lk, NEW nt, NEW fn, Inv(lk, nt, fn), NEW q \in sent, NEW r \in Requests,
           RecvRecords(q, r)
    PROVE  IInv'
<1>1. /\ Inv(NoItem, NoItem, NoItem) /\ todo = <<>>
      /\ tsk[r] # Null /\ tsk[r] \in Task /\ tsk[r].srv < Servers /\ q.name \in Names
    BY TakerFinds DEF RecvRecords
<1>2. /\ UNCHANGED <<prm, cache, slot, index, sent, req>>
      /\ IF tsk[r].name = Null
         THEN up' = "crash" /\ UNCHANGED <<tsk, todo>>
         ELSE /\ tsk' = [tsk EXCEPT ![r].armed = FALSE]
              /\ \E z \in {{}, {q.name}, Chain(q.name)}, bad \in BOOLEAN :
                    todo' = <<Scan(r, [of |-> z, bad |-> bad], FALSE)>>
              /\ up' = up
    BY DEF RecvRecords
<1>3. CASE tsk[r].name = Null
    BY <1>2, <1>3, OnlyUp
<1>4. CASE tsk[r].name # Null
    <2>1. /\ TypeOK /\ CacheInv /\ WaitInv(NoItem) /\ cache \in [Names -> Entry \cup {Null}]
          /\ tsk \in [Requests -> Task \cup {Null}]
        BY <1>1 DEF Inv, TypeOK
    <2>2. /\ tsk[r].name \in Names /\ cache[tsk[r].name] # Null /\ ~tsk[r].queued
          /\ tsk[r].loops < Cycles /\ tsk[r].loops <= Cycles /\ cache[tsk[r].name].upd
          /\ req[r].st = IF tsk[r].cb THEN "open" ELSE "cancelled"
          /\ req \in [Requests -> ReqType]
          /\ sent \subseteq [id : Slots, srv : 0 .. Servers - 1, name : Names]
        <3>1. ~Ends(NoItem, r)
            BY DEF Ends, NoItem
        <3> QED BY <1>1, <1>4, <3>1, TaskFinds
    <2>3. PICK rr \in Records : todo' = <<Scan(r, rr, FALSE)>>
        <3>1. PICK z \in {{}, {q.name}, Chain(q.name)}, bad \in BOOLEAN :
                  todo' = <<Scan(r, [of |-> z, bad |-> bad], FALSE)>>
            BY <1>2, <1>4
        <3>2. z \in SUBSET Names
            BY <1>1, <3>1, ChainIs
        <3>3. [of |-> z, bad |-> bad] \in Records
            BY <3>2 DEF Records
        <3> QED BY <3>1, <3>3
    <2>4. PICK fn2 : fn2 = Scan(r, rr, FALSE)
        OBVIOUS
    <2>5. /\ fn2 \in ScanItems /\ fn2.op = "scan" /\ fn2.r = r
          /\ ~Ends(fn2, r) /\ Runs(fn2, r) /\ todo' = <<fn2>>
        BY <2>3, <2>4 DEF Scan, ScanItems, Ends, Runs
    <2>6. StackType(NoItem, NoItem, fn2) /\ StackIs(todo', NoItem, NoItem, fn2)
        BY <2>5 DEF StackType, StackIs, NoItem
    <2>7. PICK t : t = [tsk[r] EXCEPT !.armed = FALSE]
        OBVIOUS
    <2>8. /\ t \in Task /\ t.cb = tsk[r].cb /\ t.id = tsk[r].id /\ t.name = tsk[r].name
          /\ t.queued = tsk[r].queued /\ ~t.armed /\ t.loops = tsk[r].loops
          /\ t.srv = tsk[r].srv /\ tsk' = [tsk EXCEPT ![r] = t]
        BY <1>1, <1>2, <1>4, <2>1, <2>7 DEF Task
    <2>9. CacheInv' /\ \A s \in Requests, y \in Names : InQueue(s, y)' <=> InQueue(s, y)
        BY <1>2, <2>1, SameCache
    <2>10. /\ WaitInv(NoItem)'
           /\ \A s \in Requests, y \in Names : WaitsFor(s, y, NoItem)' <=> WaitsFor(s, y, NoItem)
        BY <2>1, <2>9, SameWaits
    <2>11. KeepsOwned(r)
        BY <1>1, <1>2, OwnEntry
    <2>12. /\ t.name # Null =>
                 /\ cache'[t.name] # Null /\ ~t.queued /\ t.loops < Cycles
                 /\ IF Ends(fn2, r) THEN ~cache'[t.name].upd /\ cache'[t.name].fresh
                    ELSE cache'[t.name].upd
           /\ t.armed => t.name # Null /\ t.srv < Servers
           /\ t.loops <= Cycles /\ t.name \in {tsk[r].name, Null}
           /\ req'[r].st = IF t.cb THEN "open" ELSE "cancelled"
           /\ ~t.queued /\ t.cb => t.armed \/ Looks(NoItem, r) \/ Runs(fn2, r)
           /\ ~Looks(NoItem, r)
           /\ Runs(fn2, r) => /\ ~t.armed
                              /\ fn2.op # "done" => t.name # Null
                              /\ fn2.op = "scan" /\ fn2.rr.bad => t.srv < Servers
                              /\ NoItem.op = "notify" => t.name = NoItem.x
                              /\ fn2.op = "follow" => fn2.x \in Chain(req[r].name)
                              /\ fn2.op = "done" => Right(req[r].name, fn2.res.of)
           /\ sent' \subseteq [id : Slots, srv : 0 .. Servers - 1, name : Names]
           /\ cache' \in [Names -> Entry \cup {Null}]
        <3>1. ~Looks(NoItem, r) /\ NoItem.op = "none"
            BY DEF Looks, NoItem
        <3> QED BY <1>1, <1>2, <1>4, <2>1, <2>2, <2>5, <2>8, <3>1
    <2>13. /\ req' \in [Requests -> ReqType] /\ \A s \in Requests \ {r} : req'[s] = req[s]
           /\ req'[r].name = req[r].name /\ req'[r].res = req[r].res
           /\ UNCHANGED <<slot, index, up>> /\ prm' = prm
        BY <1>2, <1>4, <2>2
    <2>14. Inv(NoItem, NoItem, fn2)'
        BY ZenonT(60), <1>1, <2>5, <2>6, <2>8, <2>9, <2>10, <2>11, <2>12, <2>13, TaskSteps
    <2> QED BY <2>14 DEF IInv
<1> QED BY <1>3, <1>4

\* valid_untill passes.
LEMMA ExpireKeeps ==
    ASSUME NEW lk, NEW nt, NEW fn, Inv(lk, nt, fn), NEW x \in Names, Expire(x)
    PROVE  IInv'
<1>1. /\ Inv(NoItem, NoItem, NoItem)
      /\ \A s \in Requests : ~Ends(NoItem, s)
    BY IdleFinds DEF Expire
<1>2. /\ TypeOK /\ CacheInv /\ cache \in [Names -> Entry \cup {Null}]
      /\ up \in {"up", "down", "crash"}
    BY <1>1 DEF Inv, TypeOK
<1>3. /\ cache[x] # Null /\ cache' = [cache EXCEPT ![x].fresh = FALSE]
      /\ UNCHANGED <<prm, tsk, slot, index, sent, req, todo, up>>
    BY DEF Expire
<1>4. PICK e : e = [cache[x] EXCEPT !.fresh = FALSE]
    OBVIOUS
<1>5. cache[x] \in Entry
    BY <1>2, <1>3
<1>6. /\ e \in Entry /\ e.upd = cache[x].upd /\ e.cname = cache[x].cname
      /\ e.data = cache[x].data /\ e.queue = cache[x].queue
      /\ cache' = [cache EXCEPT ![x] = e]
    BY <1>2, <1>3, <1>4, <1>5 DEF Entry
<1>7. /\ cache' \in [Names -> Entry \cup {Null}] /\ CacheInv'
      /\ \A s \in Requests, y \in Names : InQueue(s, y)' <=> InQueue(s, y)
      /\ cache'[x] = e /\ \A y \in Names \ {x} : cache'[y] = cache[y]
    <2>1. /\ cache[x] # Null /\ e.queue = cache[x].queue /\ e.cname = cache[x].cname
          /\ e.data = cache[x].data /\ (cache[x].upd => e.upd)
        BY <1>3, <1>6
    <2> QED BY Zenon, <1>2, <1>3, <1>6, <2>1, EntryChanged
<1>8. ASSUME NEW s \in Requests, tsk[s] # Null, tsk[s].name # Null
      PROVE  /\ cache'[tsk[s].name] # Null
             /\ cache'[tsk[s].name].upd = cache[tsk[s].name].upd
             /\ cache[tsk[s].name].upd
    <2>1. tsk[s].name \in Names /\ cache[tsk[s].name] # Null /\ cache[tsk[s].name].upd
        BY <1>1, <1>8, TaskFinds
    <2>2. e # Null
        BY <1>2, <1>6, NullIs
    <2> QED BY <1>6, <1>7, <2>1, <2>2
<1> QED BY <1>1, <1>2, <1>3, <1>7, <1>8, NobodyActs

\* dns_resolver_destroy().
LEMMA DestroyKeeps ==
    ASSUME NEW lk, NEW nt, NEW fn, Inv(lk, nt, fn), Destroy
    PROVE  IInv'
<1>1. /\ Inv(NoItem, NoItem, NoItem) /\ StackType(NoItem, NoItem, NoItem)
      /\ \A s \in Requests : ~Runs(NoItem, s) /\ ~Looks(NoItem, s) /\ ~Ends(NoItem, s)
    BY IdleFinds DEF Destroy
<1>2. /\ TypeOK /\ index \in Slots /\ req \in [Requests -> ReqType]
      /\ \A s \in Requests : ReqInv(s, NoItem, NoItem, NoItem)
      /\ SlotCount \in Nat /\ SlotCount >= 2
    BY <1>1, NullIs DEF Inv, TypeOK, ReqType
<1>3. /\ tsk' = [r \in Requests |-> Null] /\ slot' = [s \in Slots |-> Null]
      /\ cache' = [x \in Names |-> Null] /\ sent' = {}
      /\ UNCHANGED <<prm, index, req, todo>> /\ up' \in {"up", "down", "crash"}
    BY DEF Destroy
<1>4. StackIs(todo', NoItem, NoItem, NoItem)
    BY <1>3, IdleFinds DEF Destroy
<1>5. /\ tsk' \in [Requests -> Task \cup {Null}] /\ \A s \in Requests : tsk'[s] = Null
      /\ slot' \in [Slots -> Requests \cup {Null}] /\ \A s \in Slots : slot'[s] = Null
      /\ cache' \in [Names -> Entry \cup {Null}] /\ \A x \in Names : cache'[x] = Null
    BY <1>3
<1>6. TypeOK'
    BY <1>2, <1>3, <1>5, TypeNext
<1>7. Slots' = Slots /\ 0 \in Slots
    BY <1>2, <1>3, SameWorld DEF Slots
<1>8. SlotInv' /\ SoleOwner' /\ CacheInv'
    BY <1>5, <1>7 DEF SlotInv, SoleOwner, CacheInv
<1>9. \A s \in Requests, y \in Names : ~InQueue(s, y)'
    BY <1>5 DEF InQueue
<1>10. Pend(NoItem) = <<>> /\ \A s \in Requests : ~In(s, <<>>)
    BY DEF Pend, NoItem, In
<1>11. Distinct(<<>>)
    BY DEF Distinct
<1>12. /\ WaitInv(NoItem)' /\ \A s \in Requests, y \in Names : ~WaitsFor(s, y, NoItem)'
       /\ \A s \in Requests : ~Waits(s, NoItem)'
    BY <1>9, <1>10, <1>11 DEF WaitInv, WaitsFor, Waits, Pend, In, Distinct, NoItem
<1>13. ASSUME NEW r \in Requests
       PROVE  ReqInv(r, NoItem, NoItem, NoItem)'
    <2>1. CallInv(r) /\ PathInv(r, NoItem, NoItem, NoItem)
        BY <1>2 DEF ReqInv
    <2>2. CallInv(r)' /\ OwnInv(r, NoItem)'
        BY <1>3, <1>5, <2>1 DEF CallInv, OwnInv
    <2>3. PlaceInv(r, NoItem, NoItem, NoItem)'
        BY <1>5, <1>12 DEF PlaceInv
    <2>4. HandlerInv(r, NoItem, NoItem, NoItem)'
        BY DEF HandlerInv, Looks, Runs, NoItem
    <2>5. PathInv(r, NoItem, NoItem, NoItem)'
        <3>1. PICK n, z : n = req[r].name /\ z = req[r].res.of
            OBVIOUS
        <3>2. \A u : Right(req[r].name, u)' <=> Right(n, u)
            BY <1>3, <3>1, ChainNext
        <3>3. Right(req[r].name, z)'
            BY <2>1, <3>1, <3>2 DEF PathInv
        <3>4. Right(req[r].name, req[r].res.of)'
            BY <1>3, <3>1, <3>3
        <3>5. IF req'[r].st = "idle" THEN req'[r].res = NoResult ELSE req'[r].name \in Names
            BY <1>3, <2>1 DEF PathInv
        <3> QED BY <1>5, <1>12, <3>4, <3>5 DEF PathInv, Runs, Looks, NoItem
    <2> QED BY <2>2, <2>3, <2>4, <2>5 DEF ReqInv
<1>14. Inv(NoItem, NoItem, NoItem)'
    BY <1>1, <1>4, <1>6, <1>8, <1>12, <1>13 DEF Inv, StackType
<1> QED BY <1>14 DEF IInv

-----------------------------------------------------------------------------
(* The invariant holds always, and what it shows.                          *)

\* A resolver that was just made.
LEMMA InitHolds ==
    ASSUME Init
    PROVE  IInv
<1>1. /\ prm \in Params /\ cache = [x \in Names |-> Null] /\ tsk = [r \in Requests |-> Null]
      /\ slot = [s \in Slots |-> Null] /\ index = 0 /\ sent = {} /\ todo = <<>> /\ up = "up"
      /\ req = [r \in Requests |-> [name |-> Null, st |-> "idle", res |-> NoResult]]
    BY DEF Init
<1>2. SlotCount \in Nat /\ SlotCount >= 2
    BY <1>1, DnsResolvAssumption DEF SlotCount
<1>3. 0 \in Slots
    BY <1>2 DEF Slots
<1>4. /\ \A s \in Requests : tsk[s] = Null /\ req[s].st = "idle" /\ req[s].res = NoResult
      /\ \A s \in Slots : slot[s] = Null
      /\ \A x \in Names : cache[x] = Null
    BY <1>1
<1>5. TypeOK
    BY <1>1, <1>3 DEF TypeOK, NoResult, Results
<1>6. SlotInv /\ SoleOwner /\ CacheInv
    BY <1>3, <1>4 DEF SlotInv, SoleOwner, CacheInv
<1>7. StackType(NoItem, NoItem, NoItem) /\ StackIs(todo, NoItem, NoItem, NoItem)
    BY <1>1 DEF StackType, StackIs, NoItem
<1>8. /\ WaitInv(NoItem) /\ \A s \in Requests, y \in Names : ~WaitsFor(s, y, NoItem)
      /\ \A s \in Requests : ~Waits(s, NoItem)
    BY <1>4 DEF WaitInv, WaitsFor, Waits, InQueue, Pend, In, Distinct, NoItem
<1>9. ASSUME NEW r \in Requests
      PROVE  ReqInv(r, NoItem, NoItem, NoItem)
    <2>1. CallInv(r) /\ OwnInv(r, NoItem) /\ PlaceInv(r, NoItem, NoItem, NoItem)
        BY <1>4, <1>8 DEF CallInv, OwnInv, PlaceInv
    <2>2. HandlerInv(r, NoItem, NoItem, NoItem)
        BY DEF HandlerInv, Looks, Runs, NoItem
    <2>3. Right(req[r].name, req[r].res.of)
        BY <1>4, DnsResolvAssumption DEF Right, NoResult
    <2>4. PathInv(r, NoItem, NoItem, NoItem)
        BY <1>4, <1>8, <2>3 DEF PathInv, Runs, Looks, NoItem
    <2> QED BY <2>1, <2>2, <2>4 DEF ReqInv
<1>10. Inv(NoItem, NoItem, NoItem)
    BY <1>5, <1>6, <1>7, <1>8, <1>9 DEF Inv
<1> QED BY <1>10 DEF IInv

\* Every step keeps the invariant.
LEMMA NextKeeps ==
    ASSUME IInv, [Next]_vars
    PROVE  IInv'
<1>1. PICK lk, nt, fn : Inv(lk, nt, fn)
    BY DEF IInv
<1>2. CASE UNCHANGED vars
    <2>1. up' \in {"up", "down", "crash"}
        BY <1>1, <1>2 DEF vars, Inv, TypeOK
    <2> QED BY <1>1, <1>2, <2>1, OnlyUp DEF vars
<1>3. CASE Handler
    BY <1>1, <1>3, LookupKeeps, NotifyKeeps, DoneKeeps, ScanKeeps, FollowKeeps DEF Handler
<1>4. CASE \E r \in Requests, x \in Names : Ask(r, x)
    BY <1>1, <1>4, AskKeeps
<1>5. CASE \E r \in Requests : Cancel(r) \/ Timeout(r)
    BY <1>1, <1>5, CancelKeeps, TimeoutKeeps
<1>6. CASE \E q \in sent, r \in Requests :
               RecvError(q, r) \/ RecvNoName(q, r) \/ RecvRecords(q, r)
    BY <1>1, <1>6, RecvFailKeeps, RecvRecordsKeeps
<1>7. CASE \E x \in Names : Expire(x)
    BY <1>1, <1>7, ExpireKeeps
<1>8. CASE Destroy
    BY <1>1, <1>8, DestroyKeeps
<1> QED BY <1>2, <1>3, <1>4, <1>5, <1>6, <1>7, <1>8 DEF Next

\* A callback is made once.
LEMMA CalledHolds ==
    ASSUME IInv
    PROVE  CalledOnce
<1>1. PICK lk, nt, fn : Inv(lk, nt, fn)
    BY DEF IInv
<1>2. /\ TypeOK /\ SoleOwner /\ CacheInv /\ WaitInv(nt) /\ StackType(lk, nt, fn)
      /\ StackIs(todo, lk, nt, fn) /\ tsk \in [Requests -> Task \cup {Null}]
      /\ \A r \in Requests : ReqInv(r, lk, nt, fn)
    BY <1>1 DEF Inv, TypeOK
<1>3. Null \notin Names
    BY <1>2, NullIs
<1>4. \A r \in Requests : req[r].st # "twice"
    BY <1>2 DEF ReqInv, CallInv
<1>5. OneOwner
    <2> SUFFICES ASSUME NEW x \in Names
                 PROVE  /\ Cardinality(Owners(x)) <= 1
                        /\ todo = <<>> /\ Owners(x) # {} => cache[x].upd
        BY DEF OneOwner
    <2>1. CASE Owners(x) = {}
        BY <2>1, FS_EmptySet
    <2>2. CASE Owners(x) # {}
        <3>1. PICK r \in Requests : tsk[r] # Null /\ tsk[r].name = x
            BY <2>2 DEF Owners
        <3>2. Owners(x) = {r}
            BY <1>2, <1>3, <3>1 DEF Owners, SoleOwner
        <3>3. Cardinality(Owners(x)) = 1
            BY <3>2, FS_Singleton
        <3>4. todo = <<>> => cache[x].upd
            <4> HAVE todo = <<>>
            <4>1. fn = NoItem
                BY <1>2, TopIs
            <4>2. ~Ends(fn, r)
                BY <4>1 DEF Ends, NoItem
            <4> QED BY <1>2, <1>3, <3>1, <4>2 DEF ReqInv, OwnInv
        <3> QED BY <3>3, <3>4
    <2> QED BY <2>1, <2>2
<1>6. TasksAccounted
    <2> SUFFICES ASSUME Idle, NEW r \in Requests, tsk[r] # Null, tsk[r].cb
                 PROVE  IF tsk[r].queued
                        THEN /\ tsk[r].name = Null /\ ~tsk[r].armed
                             /\ \E x \in Names : /\ InQueue(r, x) /\ cache[x].upd
                                                 /\ \A y \in Names \ {x} : ~InQueue(r, y)
                        ELSE tsk[r].armed /\ tsk[r].name # Null
        BY DEF TasksAccounted
    <2>1. lk = NoItem /\ nt = NoItem /\ fn = NoItem
        BY <1>2, TopIs DEF Idle
    <2>2. OwnInv(r, fn) /\ PlaceInv(r, NoItem, NoItem, NoItem)
        BY <1>2, <2>1 DEF ReqInv
    <2>3. tsk[r] \in Task
        BY <1>2
    <2>4. CASE tsk[r].queued
        <3>1. tsk[r].name = Null
            BY <2>2, <2>4 DEF OwnInv
        <3>2. ~tsk[r].armed
            BY <2>2, <2>3, <3>1 DEF PlaceInv, Task
        <3>3. Waits(r, NoItem)
            BY <2>2, <2>4 DEF PlaceInv
        <3>4. ~In(r, Pend(NoItem))
            BY DEF In, Pend, NoItem
        <3>5. PICK x \in Names : InQueue(r, x)
            BY <3>3, <3>4 DEF Waits, WaitsFor
        <3>6. cache[x] # Null /\ cache[x].queue # <<>>
            BY <3>5 DEF InQueue
        <3>7. cache[x] \in Entry
            BY <1>2, <3>6 DEF TypeOK
        <3>8. cache[x].upd
            BY <1>2, <3>6, <3>7 DEF CacheInv, Entry
        <3>9. \A y \in Names \ {x} : ~InQueue(r, y)
            BY <1>2, <3>5 DEF WaitInv
        <3> QED BY <2>4, <3>1, <3>2, <3>5, <3>8, <3>9
    <2>5. CASE ~tsk[r].queued
        <3>1. tsk[r].armed
            BY <2>2, <2>5 DEF PlaceInv, Looks, Runs, NoItem
        <3> QED BY <2>2, <2>5, <3>1 DEF PlaceInv
    <2> QED BY <2>4, <2>5
<1> QED BY <1>2, <1>4, <1>5, <1>6 DEF CalledOnce

\* The addresses are those of the end of the aliases.
LEMMA RightHolds ==
    ASSUME IInv
    PROVE  RightAnswer
<1>1. PICK lk, nt, fn : Inv(lk, nt, fn)
    BY DEF IInv
<1>2. /\ TypeOK /\ slot[0] = Null /\ \A r \in Requests : PathInv(r, lk, nt, fn)
    BY <1>1 DEF Inv, SlotInv, ReqInv
<1>3. SlotFound
    BY <1>2, FreeSlotIs DEF SlotFound
<1>4. ASSUME NEW r \in Requests, req[r].res.of \in Names
      PROVE  req[r].res.of \in Last(req[r].name) /\ world[req[r].res.of] = "addr"
    <2>1. req[r].res.of \in Chain(req[r].name) /\ world[req[r].res.of] = "addr"
        BY <1>2, <1>4 DEF PathInv, Right
    <2>2. "addr" \notin Names
        BY DnsResolvAssumption
    <2> QED BY <2>1, <2>2 DEF Last
<1>5. ASSUME NEW r \in Requests, req[r].res.of = "garbage"
      PROVE  world[req[r].name] \in Names
    <2>1. PICK y \in Chain(req[r].name) : world[y] \in Names
        BY <1>2, <1>5 DEF PathInv, Right
    <2>2. req[r].name \in Names
        BY <1>2, <1>5, DnsResolvAssumption DEF PathInv, NoResult
    <2> QED BY <2>1, <2>2, EndChain
<1> QED BY <1>3, <1>4, <1>5 DEF RightAnswer

\* dns_resolv.c: whatever answers come, late, twice, with an error or not at all,
\* and whichever calls fail, a callback is made at most once and never after
\* dns_resolv_cancel(); a name is asked for by one task; and between handlers a
\* task with a callback is in exactly one queue or under a timer.
THEOREM CallbackOnce == Spec => []CalledOnce
<1>1. Init => IInv
    BY InitHolds
<1>2. IInv /\ [Next]_vars => IInv'
    BY NextKeeps
<1>3. IInv => CalledOnce
    BY CalledHolds
<1> QED BY <1>1, <1>2, <1>3, PTL DEF Spec

\* dns_resolv.c: the addresses a caller gets are those of the end of the aliases of
\* the name it asked for, of which there is at most one (OneEnd); the bytes of an
\* alias, which an entry that lost DNS_R_CD_F_CNAME gives out as addresses, come
\* only to callers of a name that is an alias; and a request is refused for want
\* of a slot only when every slot is taken.
THEOREM AnswersAreRight == Spec => []RightAnswer
<1>1. Init => IInv
    BY InitHolds
<1>2. IInv /\ [Next]_vars => IInv'
    BY NextKeeps
<1>3. IInv => RightAnswer
    BY RightHolds
<1> QED BY <1>1, <1>2, <1>3, PTL DEF Spec

=============================================================================
