-------------------------- MODULE HashBucket_proofs --------------------------
(***************************************************************************)
(* The locked mode of the hash bucket for any number of threads, keys and  *)
(* zones, and any hash function.                                           *)
(***************************************************************************)
EXTENDS HashBucket, SequenceTheorems, TLAPS

ZoneType == [entry_head : Seq(Keys), count : Int, owner : Threads \cup {Free}, depth : Nat]
ThreadType == [pc : {"idle", "found", "missing", "adding", "removing", "removed"},
               key : Keys, tmp : Int]

TypeInv == /\ zone \in [Zones -> ZoneType] /\ count \in Int
           /\ th \in [Threads -> ThreadType]

\* A thread in the middle of an operation owns the mutex of its zone, once, or
\* twice inside hbucket_entry_remove(); a mutex belongs to such a thread only.
LockInv == /\ \A t \in Threads : ~At(t, "idle") =>
                 /\ zone[Z(t)].owner = t
                 /\ zone[Z(t)].depth = IF At(t, "removing") THEN 2 ELSE 1
           /\ \A z \in Zones : \/ zone[z].owner = Free /\ zone[z].depth = 0
                              \/ \E t \in Threads : /\ zone[z].owner = t /\ ~At(t, "idle")
                                                    /\ Z(t) = z

\* What the search found still holds when it is acted on.
SeenInv == \A t \in Threads : /\ At(t, "found") => Has(Z(t), th[t].key)
                              /\ At(t, "missing") => ~Has(Z(t), th[t].key)

\* A zone whose entries are distinct, its own, and counted.
ZoneGood(z, entries, n) ==
    /\ \A i, j \in 1 .. Len(entries) : entries[i] = entries[j] => i = j
    /\ \A i \in 1 .. Len(entries) : hash(entries[i]) = z
    /\ n = Len(entries)

GoodInv == \A z \in Zones : ZoneGood(z, zone[z].entry_head, zone[z].count)

IInv == TypeInv /\ LockInv /\ SeenInv /\ GoodInv

-----------------------------------------------------------------------------
(* Lists.                                                                  *)

LEMMA Inserting ==
    ASSUME NEW s \in Seq(Keys), NEW k \in Keys, NEW z \in Zones, NEW n \in Int,
           ZoneGood(z, s, n), ~Contains(s, k), hash(k) = z
    PROVE  <<k>> \o s \in Seq(Keys) /\ ZoneGood(z, <<k>> \o s, n + 1)
  <1>1. <<k>> \in Seq(Keys) /\ Len(<<k>>) = 1 /\ <<k>>[1] = k /\ Len(s) \in Nat
    OBVIOUS
  <1> DEFINE r == <<k>> \o s
  <1>2. /\ r \in Seq(Keys) /\ Len(r) = 1 + Len(s)
        /\ \A i \in 1 .. 1 + Len(s) : r[i] = IF i <= 1 THEN <<k>>[i] ELSE s[i - 1]
    <2>1. /\ r \in Seq(Keys) /\ Len(r) = Len(<<k>>) + Len(s)
          /\ \A i \in 1 .. Len(<<k>>) + Len(s) :
                r[i] = IF i <= Len(<<k>>) THEN <<k>>[i] ELSE s[i - Len(<<k>>)]
      BY <1>1, ConcatProperties
    <2> QED
      BY <1>1, <2>1
  <1> HIDE DEF r
  <1>3. r[1] = k /\ \A i \in 2 .. 1 + Len(s) : r[i] = s[i - 1] /\ i - 1 \in 1 .. Len(s)
    BY <1>1, <1>2
  <1>4. \A i, j \in 1 .. Len(r) : r[i] = r[j] => i = j
    <2> SUFFICES ASSUME NEW i \in 1 .. Len(r), NEW j \in 1 .. Len(r), r[i] = r[j]
                 PROVE  i = j
      OBVIOUS
    <2>1. CASE i = 1 /\ j # 1
      <3>1. j \in 2 .. 1 + Len(s)
        BY <1>1, <1>2, <2>1
      <3> QED
        BY <2>1, <3>1, <1>3 DEF Contains
    <2>2. CASE i # 1 /\ j = 1
      <3>1. i \in 2 .. 1 + Len(s)
        BY <1>1, <1>2, <2>2
      <3> QED
        BY <2>2, <3>1, <1>3 DEF Contains
    <2>3. CASE i # 1 /\ j # 1
      <3>1. i \in 2 .. 1 + Len(s) /\ j \in 2 .. 1 + Len(s)
        BY <1>1, <1>2, <2>3
      <3>2. i - 1 = j - 1
        BY <3>1, <1>3 DEF ZoneGood
      <3> QED
        BY <3>1, <3>2
    <2> QED
      BY <2>1, <2>2, <2>3
  <1>5. \A i \in 1 .. Len(r) : hash(r[i]) = z
    <2> SUFFICES ASSUME NEW i \in 1 .. Len(r)
                 PROVE  hash(r[i]) = z
      OBVIOUS
    <2>1. CASE i = 1
      BY <2>1, <1>3
    <2>2. CASE i # 1
      <3>1. i \in 2 .. 1 + Len(s)
        BY <1>1, <1>2, <2>2
      <3> QED
        BY <3>1, <1>3 DEF ZoneGood
    <2> QED
      BY <2>1, <2>2
  <1>6. n + 1 = Len(r)
    BY <1>1, <1>2 DEF ZoneGood
  <1> QED
    BY <1>2, <1>4, <1>5, <1>6 DEF r, ZoneGood

LEMMA Unlinking ==
    ASSUME NEW s \in Seq(Keys), NEW k \in Keys, NEW z \in Zones, NEW n \in Int,
           ZoneGood(z, s, n), Contains(s, k)
    PROVE  Unlinked(s, k) \in Seq(Keys) /\ ZoneGood(z, Unlinked(s, k), n - 1)
  <1>1. Len(s) \in Nat /\ DOMAIN s = 1 .. Len(s) /\ \A i \in 1 .. Len(s) : s[i] \in Keys
    OBVIOUS
  <1>2. PICK p \in 1 .. Len(s) : p = CHOOSE i \in DOMAIN s : s[i] = k
    BY <1>1 DEF Contains
  <1> DEFINE a == SubSeq(s, 1, p - 1)
             b == SubSeq(s, p + 1, Len(s))
             r == a \o b
  <1>3. Unlinked(s, k) = r
    BY <1>2 DEF Unlinked, RemoveAt
  <1>4. /\ a \in Seq(Keys) /\ Len(a) = p - 1
        /\ \A i \in 1 .. p - 1 : a[i] = s[i]
    <2>1. \A i \in 1 .. p - 1 : s[i] \in Keys
      BY <1>1
    <2>2. /\ a \in Seq(Keys) /\ Len(a) = IF 1 <= p - 1 THEN p - 1 - 1 + 1 ELSE 0
          /\ \A i \in 1 .. p - 1 - 1 + 1 : a[i] = s[1 + i - 1]
      BY <1>1, <2>1, SubSeqProperties
    <2>3. p - 1 - 1 + 1 = p - 1 /\ \A i \in 1 .. p - 1 : 1 + i - 1 = i
      BY <1>1
    <2>4. Len(a) = p - 1
      <3>1. CASE p = 1
        BY <3>1, <2>2
      <3>2. CASE p # 1
        <4>1. p \in Int /\ 1 <= p - 1
          BY <3>2, <1>1
        <4> QED
          BY <4>1, <2>2
      <3> QED
        BY <3>1, <3>2
    <2> QED
      BY <2>2, <2>3, <2>4
  <1>5. /\ b \in Seq(Keys) /\ Len(b) = Len(s) - p
        /\ \A i \in 1 .. Len(s) - p : b[i] = s[p + i]
    <2>1. \A i \in p + 1 .. Len(s) : s[i] \in Keys
      BY <1>1
    <2>2. /\ b \in Seq(Keys) /\ Len(b) = IF p + 1 <= Len(s) THEN Len(s) - (p + 1) + 1 ELSE 0
          /\ \A i \in 1 .. Len(s) - (p + 1) + 1 : b[i] = s[p + 1 + i - 1]
      BY <1>1, <2>1, SubSeqProperties
    <2>3. Len(s) - (p + 1) + 1 = Len(s) - p /\ \A i \in 1 .. Len(s) - p : p + 1 + i - 1 = p + i
      BY <1>1
    <2>4. Len(b) = Len(s) - p
      <3>1. p \in Int /\ p <= Len(s) /\ Len(s) \in Int
        BY <1>1
      <3>2. CASE p + 1 <= Len(s)
        BY <3>1, <3>2, <2>2
      <3>3. CASE ~(p + 1 <= Len(s))
        <4>1. Len(s) - p = 0
          BY <3>1, <3>3
        <4> QED
          BY <4>1, <3>3, <2>2
      <3> QED
        BY <3>2, <3>3
    <2> QED
      BY <2>2, <2>3, <2>4
  <1> HIDE DEF a, b
  <1>6. /\ r \in Seq(Keys) /\ Len(r) = Len(s) - 1
        /\ \A i \in 1 .. Len(s) - 1 : r[i] = IF i <= p - 1 THEN a[i] ELSE b[i - (p - 1)]
    <2>1. /\ r \in Seq(Keys) /\ Len(r) = Len(a) + Len(b)
          /\ \A i \in 1 .. Len(a) + Len(b) : r[i] = IF i <= Len(a) THEN a[i] ELSE b[i - Len(a)]
      BY <1>4, <1>5, ConcatProperties
    <2>2. Len(a) + Len(b) = Len(s) - 1
      BY <1>1, <1>4, <1>5
    <2> QED
      BY <2>1, <2>2, <1>4
  <1> HIDE DEF r
  <1>7. \A i \in 1 .. Len(s) - 1 : /\ i < p => r[i] = s[i]
                                   /\ i >= p => r[i] = s[i + 1]
    <2> SUFFICES ASSUME NEW i \in 1 .. Len(s) - 1
                 PROVE  (i < p => r[i] = s[i]) /\ (i >= p => r[i] = s[i + 1])
      OBVIOUS
    <2>1. CASE i < p
      BY <2>1, <1>1, <1>4, <1>6
    <2>2. CASE i >= p
      <3>1. i - (p - 1) \in 1 .. Len(s) - p /\ p + (i - (p - 1)) = i + 1 /\ ~(i <= p - 1)
        BY <2>2, <1>1
      <3> QED
        BY <2>2, <3>1, <1>5, <1>6
    <2> QED
      BY <2>1, <2>2
  <1> DEFINE At0(i) == IF i < p THEN i ELSE i + 1
  <1>8. \A i \in 1 .. Len(s) - 1 : At0(i) \in 1 .. Len(s) /\ r[i] = s[At0(i)]
    BY <1>1, <1>7
  <1>9. \A i, j \in 1 .. Len(r) : r[i] = r[j] => i = j
    <2> SUFFICES ASSUME NEW i \in 1 .. Len(r), NEW j \in 1 .. Len(r), r[i] = r[j]
                 PROVE  i = j
      OBVIOUS
    <2>1. i \in 1 .. Len(s) - 1 /\ j \in 1 .. Len(s) - 1
      BY <1>6
    <2>2. At0(i) = At0(j)
      <3> HIDE DEF At0
      <3> QED
        BY <2>1, <1>8 DEF ZoneGood
    <2> QED
      BY <2>1, <2>2, <1>1
  <1>10. \A i \in 1 .. Len(r) : hash(r[i]) = z
    <2> HIDE DEF At0
    <2> QED
      BY <1>6, <1>8 DEF ZoneGood
  <1>11. n - 1 = Len(r)
    BY <1>1, <1>6 DEF ZoneGood
  <1> QED
    BY <1>3, <1>6, <1>9, <1>10, <1>11 DEF ZoneGood
-----------------------------------------------------------------------------
(* The steps.  The first lemma is the locking alone: what the zone and the *)
(* thread of a step look like before and after, and that no other thread   *)
(* and no other zone is concerned.                                         *)

Sane == /\ \A k \in Keys : hash(k) \in Zones
        /\ Keys # {} /\ Free \notin Threads /\ SIZE_T \in Nat \ {0}

\* A thread that is in the middle of an operation is the only one at its zone.
LEMMA OneAtAZone ==
    ASSUME IInv, Sane, NEW t \in Threads, NEW u \in Threads,
           ~At(t, "idle"), ~At(u, "idle"), Z(t) = Z(u)
    PROVE  t = u
  BY DEF IInv, LockInv

LEMMA Created == Sane /\ Init => IInv
  <1> SUFFICES ASSUME Sane, Init PROVE IInv
    OBVIOUS
  <1>1. <<>> \in Seq(Keys) /\ Len(<<>>) = 0
    OBVIOUS
  <1>2. (CHOOSE k \in Keys : TRUE) \in Keys
    BY DEF Sane
  <1>3. TypeInv
    BY <1>1, <1>2 DEF Init, hbucket_create, TypeInv, ZoneType, ThreadType
  <1>4. LockInv /\ SeenInv
    BY DEF Init, hbucket_create, LockInv, SeenInv, At
  <1>5. GoodInv
    BY <1>1 DEF Init, hbucket_create, GoodInv, ZoneGood
  <1> QED
    BY <1>3, <1>4, <1>5 DEF IInv

\* A step of one thread on one zone, which is unlocked before it or the zone
\* the thread holds, and after it again unlocked or held, its entries in order
\* and what the thread knows about them true: the other threads see no change.
LEMMA OneStep ==
    ASSUME IInv, Sane, NEW t \in Threads, NEW z \in Zones,
           NEW Zn \in ZoneType, NEW Tn \in ThreadType, count' \in Int,
           zone' = [zone EXCEPT ![z] = Zn], th' = [th EXCEPT ![t] = Tn],
           \/ At(t, "idle") /\ zone[z].owner = Free
           \/ ~At(t, "idle") /\ Z(t) = z,
           IF Tn.pc = "idle" THEN Zn.owner = Free /\ Zn.depth = 0
           ELSE /\ hash(Tn.key) = z /\ Zn.owner = t
                /\ Zn.depth = IF Tn.pc = "removing" THEN 2 ELSE 1,
           Tn.pc = "found" => Contains(Zn.entry_head, Tn.key),
           Tn.pc = "missing" => ~Contains(Zn.entry_head, Tn.key),
           ZoneGood(z, Zn.entry_head, Zn.count)
    PROVE  IInv'
  <1>1. TypeInv'
    BY DEF IInv, TypeInv
  <1>2. /\ zone'[z] = Zn /\ th'[t] = Tn
        /\ \A y \in Zones \ {z} : zone'[y] = zone[y]
        /\ \A u \in Threads \ {t} : th'[u] = th[u]
    BY DEF IInv, TypeInv
  <1>3. \A u \in Threads \ {t} : ~At(u, "idle") => Z(u) \in Zones /\ Z(u) # z
    <2> SUFFICES ASSUME NEW u \in Threads \ {t}, ~At(u, "idle")
                 PROVE  Z(u) \in Zones /\ Z(u) # z
      OBVIOUS
    <2>1. Z(u) \in Zones
      BY DEF Z, hbucket_get_zone, Sane, IInv, TypeInv, ThreadType
    <2>2. zone[Z(u)].owner = u
      BY DEF IInv, LockInv
    <2>3. Free # u
      BY DEF Sane
    <2> QED
      BY <2>1, <2>2, <2>3, OneAtAZone
  <1>4. GoodInv'
    <2> SUFFICES ASSUME NEW y \in Zones
                 PROVE  ZoneGood(y, zone'[y].entry_head, zone'[y].count)
      BY DEF GoodInv, ZoneGood
    <2>1. CASE y = z
      BY <2>1, <1>2
    <2>2. CASE y # z
      BY <2>2, <1>2 DEF IInv, GoodInv
    <2> QED
      BY <2>1, <2>2
  <1>5. SeenInv'
    <2> SUFFICES ASSUME NEW u \in Threads
                 PROVE  /\ At(u, "found")' => Has(Z(u), th[u].key)'
                        /\ At(u, "missing")' => ~Has(Z(u), th[u].key)'
      BY DEF SeenInv
    <2>1. CASE u = t
      BY <2>1, <1>2 DEF At, Has, Z, hbucket_get_zone
    <2>2. CASE u # t
      <3>1. th'[u] = th[u]
        BY <2>2, <1>2
      <3>2. ~At(u, "idle") => zone'[Z(u)] = zone[Z(u)]
        BY <2>2, <1>2, <1>3
      <3>3. /\ At(u, "found") => Has(Z(u), th[u].key)
            /\ At(u, "missing") => ~Has(Z(u), th[u].key)
        BY DEF IInv, SeenInv
      <3> QED
        BY <3>1, <3>2, <3>3 DEF At, Has, Z, hbucket_get_zone
    <2> QED
      BY <2>1, <2>2
  <1>6. \A u \in Threads : ~At(u, "idle")' =>
            /\ (zone[Z(u)].owner = u)'
            /\ (zone[Z(u)].depth = IF At(u, "removing") THEN 2 ELSE 1)'
    <2> SUFFICES ASSUME NEW u \in Threads, ~At(u, "idle")'
                 PROVE  /\ (zone[Z(u)].owner = u)'
                        /\ (zone[Z(u)].depth = IF At(u, "removing") THEN 2 ELSE 1)'
      OBVIOUS
    <2>1. CASE u = t
      BY <2>1, <1>2 DEF At, Z, hbucket_get_zone
    <2>2. CASE u # t
      <3>1. th'[u] = th[u] /\ ~At(u, "idle")
        BY <2>2, <1>2 DEF At
      <3>2. zone'[Z(u)] = zone[Z(u)]
        BY <2>2, <3>1, <1>2, <1>3
      <3>3. zone[Z(u)].owner = u /\ zone[Z(u)].depth = IF At(u, "removing") THEN 2 ELSE 1
        BY <3>1 DEF IInv, LockInv
      <3> QED
        BY <3>1, <3>2, <3>3 DEF At, Z, hbucket_get_zone
    <2> QED
      BY <2>1, <2>2
  <1>7. \A y \in Zones : \/ zone'[y].owner = Free /\ zone'[y].depth = 0
                         \/ \E u \in Threads : /\ zone'[y].owner = u /\ ~At(u, "idle")'
                                               /\ Z(u)' = y
    <2> SUFFICES ASSUME NEW y \in Zones
                 PROVE  \/ zone'[y].owner = Free /\ zone'[y].depth = 0
                        \/ \E u \in Threads : /\ zone'[y].owner = u /\ ~At(u, "idle")'
                                              /\ Z(u)' = y
      OBVIOUS
    <2>1. CASE y = z
      BY <2>1, <1>2 DEF At, Z, hbucket_get_zone
    <2>2. CASE y # z /\ zone[y].owner = Free /\ zone[y].depth = 0
      BY <2>2, <1>2
    <2>3. ASSUME y # z, NEW u \in Threads, zone[y].owner = u, ~At(u, "idle"), Z(u) = y
          PROVE  zone'[y].owner = u /\ ~At(u, "idle")' /\ Z(u)' = y
      <3>1. u # t
        BY <2>3
      <3>2. th'[u] = th[u] /\ zone'[y] = zone[y]
        BY <2>3, <3>1, <1>2
      <3> QED
        BY <2>3, <3>2 DEF At, Z, hbucket_get_zone
    <2>4. \/ zone[y].owner = Free /\ zone[y].depth = 0
          \/ \E u \in Threads : zone[y].owner = u /\ ~At(u, "idle") /\ Z(u) = y
      BY DEF IInv, LockInv
    <2> QED
      BY <2>1, <2>2, <2>3, <2>4
  <1> QED
    BY <1>1, <1>4, <1>5, <1>6, <1>7 DEF IInv, LockInv

\* What the zone of a thread in the middle of an operation looks like.
LEMMA Holding ==
    ASSUME IInv, Sane, NEW t \in Threads, ~At(t, "idle")
    PROVE  /\ Z(t) \in Zones /\ hash(th[t].key) = Z(t) /\ th[t].key \in Keys
           /\ th[t] \in ThreadType /\ zone[Z(t)] \in ZoneType /\ zone[Z(t)].owner = t
           /\ zone[Z(t)].depth = IF At(t, "removing") THEN 2 ELSE 1
           /\ ZoneGood(Z(t), zone[Z(t)].entry_head, zone[Z(t)].count)
           /\ At(t, "found") => Contains(zone[Z(t)].entry_head, th[t].key)
           /\ At(t, "missing") => ~Contains(zone[Z(t)].entry_head, th[t].key)
  <1>1. Z(t) \in Zones /\ hash(th[t].key) = Z(t) /\ th[t] \in ThreadType /\ th[t].key \in Keys
    BY DEF Z, hbucket_get_zone, Sane, IInv, TypeInv, ThreadType
  <1>2. zone[Z(t)] \in ZoneType
    BY <1>1 DEF IInv, TypeInv
  <1>3. zone[Z(t)].owner = t /\ zone[Z(t)].depth = IF At(t, "removing") THEN 2 ELSE 1
    BY DEF IInv, LockInv
  <1>4. ZoneGood(Z(t), zone[Z(t)].entry_head, zone[Z(t)].count)
    BY <1>1 DEF IInv, GoodInv
  <1>5. /\ At(t, "found") => Contains(zone[Z(t)].entry_head, th[t].key)
        /\ At(t, "missing") => ~Contains(zone[Z(t)].entry_head, th[t].key)
    BY DEF IInv, SeenInv, Has
  <1> QED
    BY <1>1, <1>2, <1>3, <1>4, <1>5

\* Unlocking a zone that was locked once, or twice.
LEMMA Unlocking ==
    ASSUME IInv, Sane, NEW t \in Threads, ~At(t, "idle"), NEW z \in Zones, z = Z(t)
    PROVE  LET Zn == [zone[z] EXCEPT !.depth = @ - 1, !.owner = IF zone[z].depth = 1 THEN Free ELSE @]
           IN  /\ Unlocked(zone, t, z) = [zone EXCEPT ![z] = Zn] /\ Zn \in ZoneType
               /\ Zn.entry_head = zone[z].entry_head /\ Zn.count = zone[z].count
               /\ IF At(t, "removing") THEN Zn.owner = t /\ Zn.depth = 1
                  ELSE Zn.owner = Free /\ Zn.depth = 0
  <1> DEFINE Zn == [zone[z] EXCEPT !.depth = @ - 1, !.owner = IF zone[z].depth = 1 THEN Free ELSE @]
  <1>1. /\ zone[z] \in ZoneType /\ zone[z].owner = t
        /\ zone[z].depth = IF At(t, "removing") THEN 2 ELSE 1
    BY Holding
  <1>2. Unlocked(zone, t, z) = [zone EXCEPT ![z] = Zn]
    BY DEF Unlocked, IInv, TypeInv
  <1>3. /\ Zn.entry_head = zone[z].entry_head /\ Zn.count = zone[z].count
        /\ Zn.owner = (IF zone[z].depth = 1 THEN Free ELSE t) /\ Zn.depth = zone[z].depth - 1
    BY <1>1 DEF ZoneType
  <1>4. IF At(t, "removing") THEN Zn.owner = t /\ Zn.depth = 1 ELSE Zn.owner = Free /\ Zn.depth = 0
    BY <1>1, <1>3
  <1>5. Zn \in ZoneType
    <2>1. Zn.depth \in Nat /\ Zn.owner \in Threads \cup {Free}
      BY <1>4
    <2> QED
      BY <1>1, <2>1 DEF ZoneType
  <1> QED
    BY <1>2, <1>3, <1>4, <1>5

LEMMA Getting ==
    ASSUME IInv, Sane, NEW t \in Threads, NEW k \in Keys, hbucket_entry_get(t, k)
    PROVE  IInv'
  <1> DEFINE z == hash(k)
             pc == IF Has(z, k) THEN "found" ELSE "missing"
             Zn == [zone[z] EXCEPT !.owner = t, !.depth = @ + 1]
             Tn == [th[t] EXCEPT !.pc = pc, !.key = k]
  <1>1. z \in Zones /\ At(t, "idle") /\ zone[z].owner \in {Free, t}
    BY DEF hbucket_entry_get, hbucket_get_zone, CanLock, Sane
  <1>2. zone[z].owner = Free /\ zone[z].depth = 0
    <2>1. \/ zone[z].owner = Free /\ zone[z].depth = 0
          \/ \E u \in Threads : zone[z].owner = u /\ ~At(u, "idle")
      BY <1>1 DEF IInv, LockInv
    <2> QED
      BY <2>1, <1>1 DEF Sane
  <1>3. zone[z] \in ZoneType /\ th[t] \in ThreadType
    BY <1>1 DEF IInv, TypeInv
  <1>4. /\ Zn \in ZoneType /\ Zn.owner = t /\ Zn.depth = 1
        /\ Zn.entry_head = zone[z].entry_head /\ Zn.count = zone[z].count
    <2>1. zone[z].depth + 1 = 1 /\ 1 \in Nat
      BY <1>2
    <2> QED
      BY <2>1, <1>3 DEF ZoneType
  <1>5. Tn \in ThreadType /\ Tn.pc = pc /\ Tn.key = k
    BY <1>3 DEF ThreadType
  <1>6. /\ zone' = [zone EXCEPT ![z] = Zn] /\ th' = [th EXCEPT ![t] = Tn]
        /\ count' \in Int
    BY DEF hbucket_entry_get, hbucket_get_zone, Locked, IInv, TypeInv
  <1>7. ZoneGood(z, Zn.entry_head, Zn.count)
    BY <1>1, <1>4 DEF IInv, GoodInv
  <1>8. Contains(Zn.entry_head, k) <=> pc = "found"
    BY <1>4 DEF Has
  <1>9. pc \in {"found", "missing"}
    OBVIOUS
  <1> HIDE DEF Zn, Tn, pc
  <1> QED
    BY <1>1, <1>2, <1>4, <1>5, <1>6, <1>7, <1>8, <1>9, OneStep

\* hbucket_zone_unlock() and hbucket_entry_unlock().
LEMMA Leaving ==
    ASSUME IInv, Sane, NEW t \in Threads,
           hbucket_zone_unlock(t) \/ hbucket_entry_unlock(t)
    PROVE  IInv'
  <1> DEFINE Tn == [th[t] EXCEPT !.pc = "idle"]
  <1>1. /\ ~At(t, "idle") /\ ~At(t, "removing")
        /\ zone' = Unlocked(zone, t, Z(t)) /\ th' = [th EXCEPT ![t] = Tn] /\ count' \in Int
    BY DEF hbucket_zone_unlock, hbucket_entry_unlock, At, Goto, IInv, TypeInv
  <1>2. PICK z \in Zones : z = Z(t)
    BY <1>1, Holding
  <1>3. PICK Zn \in ZoneType :
            /\ Unlocked(zone, t, z) = [zone EXCEPT ![z] = Zn]
            /\ Zn.entry_head = zone[z].entry_head /\ Zn.count = zone[z].count
            /\ Zn.owner = Free /\ Zn.depth = 0
    BY <1>1, <1>2, Unlocking
  <1>4. Tn \in ThreadType /\ Tn.pc = "idle"
    BY <1>1, Holding DEF ThreadType
  <1>5. ZoneGood(z, Zn.entry_head, Zn.count)
    BY <1>1, <1>2, <1>3, Holding
  <1> HIDE DEF Tn
  <1> QED
    BY <1>1, <1>2, <1>3, <1>4, <1>5, OneStep

LEMMA Adding ==
    ASSUME IInv, Sane, NEW t \in Threads, hbucket_entry_add(t)
    PROVE  IInv'
  <1>1. At(t, "missing") /\ ~At(t, "idle") /\ ~At(t, "removing")
    BY DEF hbucket_entry_add, At
  <1>2. PICK z \in Zones : z = Z(t)
    BY <1>1, Holding
  <1>3. PICK k \in Keys : k = th[t].key /\ hash(k) = z
    BY <1>1, <1>2, Holding
  <1>4. PICK s \in Seq(Keys), n \in Int : s = zone[z].entry_head /\ n = zone[z].count
    BY <1>1, <1>2, Holding DEF ZoneType
  <1> DEFINE Zn == [zone[z] EXCEPT !.entry_head = <<k>> \o s, !.count = n + 1]
             Tn == [th[t] EXCEPT !.pc = "adding", !.tmp = count]
  <1>5. <<k>> \o s \in Seq(Keys) /\ ZoneGood(z, <<k>> \o s, n + 1)
    BY <1>1, <1>2, <1>3, <1>4, Holding, Inserting
  <1>6. /\ zone[z] \in ZoneType /\ th[t] \in ThreadType /\ zone[z].owner = t
        /\ zone[z].depth = 1 /\ count \in Int
    BY <1>1, <1>2, Holding DEF IInv, TypeInv
  <1>7. /\ zone' = [zone EXCEPT ![z] = Zn] /\ th' = [th EXCEPT ![t] = Tn]
        /\ count' \in Int
    <2>1. zone' = [zone EXCEPT ![z].entry_head = <<k>> \o @, ![z].count = @ + 1]
      BY <1>2, <1>3 DEF hbucket_entry_add
    <2>2. zone' = [zone EXCEPT ![z] = Zn]
      BY <2>1, <1>4, <1>6 DEF IInv, TypeInv, ZoneType
    <2> QED
      BY <2>2, <1>6 DEF hbucket_entry_add
  <1> DEFINE r == <<k>> \o s
  <1>8. /\ Zn \in ZoneType /\ Zn.owner = t /\ Zn.depth = 1
        /\ Zn.entry_head = r /\ Zn.count = n + 1
    <2> r \in Seq(Keys)
      BY <1>5
    <2> HIDE DEF r
    <2> n + 1 \in Int
      OBVIOUS
    <2> QED
      BY <1>6 DEF ZoneType, r
  <1>9. Tn \in ThreadType /\ Tn.pc = "adding" /\ Tn.key = k
    BY <1>3, <1>6 DEF ThreadType
  <1> HIDE DEF Zn, Tn, r
  <1> QED
    BY <1>1, <1>2, <1>3, <1>5, <1>7, <1>8, <1>9, OneStep DEF r

LEMMA Removing ==
    ASSUME IInv, Sane, NEW t \in Threads, hbucket_entry_remove(t)
    PROVE  IInv'
  <1>1. At(t, "found") /\ ~At(t, "idle") /\ ~At(t, "removing")
    BY DEF hbucket_entry_remove, At
  <1>2. PICK z \in Zones : z = Z(t)
    BY <1>1, Holding
  <1>3. PICK k \in Keys : k = th[t].key /\ hash(k) = z
    BY <1>1, <1>2, Holding
  <1>4. PICK s \in Seq(Keys), n \in Int : s = zone[z].entry_head /\ n = zone[z].count
    BY <1>1, <1>2, Holding DEF ZoneType
  <1>5. PICK r \in Seq(Keys) : r = Unlinked(s, k) /\ ZoneGood(z, r, n - 1)
    BY <1>1, <1>2, <1>3, <1>4, Holding, Unlinking
  <1> DEFINE Zn == [zone[z] EXCEPT !.owner = t, !.depth = @ + 1, !.entry_head = r, !.count = n - 1]
             Tn == [th[t] EXCEPT !.pc = "removing", !.tmp = count]
  <1>6. /\ zone[z] \in ZoneType /\ th[t] \in ThreadType
        /\ zone[z].depth = 1 /\ count \in Int
    BY <1>1, <1>2, Holding DEF IInv, TypeInv
  <1>7. /\ zone' = [zone EXCEPT ![z] = Zn] /\ th' = [th EXCEPT ![t] = Tn]
        /\ count' \in Int
    <2> DEFINE L == Locked(zone, t, z)
    <2>1. zone' = [L EXCEPT ![z].entry_head = Unlinked(@, k), ![z].count = @ - 1]
      BY <1>2, <1>3 DEF hbucket_entry_remove
    <2>2. L = [zone EXCEPT ![z] = [zone[z] EXCEPT !.owner = t, !.depth = @ + 1]]
      BY DEF Locked, IInv, TypeInv
    <2>3. L[z].entry_head = s /\ L[z].count = n
      BY <2>2, <1>4, <1>6 DEF IInv, TypeInv, ZoneType
    <2>4. zone' = [L EXCEPT ![z] = [L[z] EXCEPT !.entry_head = r, !.count = n - 1]]
      <3> HIDE DEF L
      <3> QED
        BY <2>1, <2>3, <1>5
    <2>5. zone' = [zone EXCEPT ![z] = Zn]
      BY <2>2, <2>4, <1>6 DEF IInv, TypeInv, ZoneType
    <2> QED
      BY <2>5, <1>6 DEF hbucket_entry_remove
  <1>8. /\ Zn \in ZoneType /\ Zn.owner = t /\ Zn.depth = 2
        /\ Zn.entry_head = r /\ Zn.count = n - 1
    <2>1. zone[z].depth + 1 = 2 /\ 2 \in Nat /\ n - 1 \in Int
      BY <1>6
    <2> QED
      BY <2>1, <1>6 DEF ZoneType
  <1>9. Tn \in ThreadType /\ Tn.pc = "removing" /\ Tn.key = k
    BY <1>3, <1>6 DEF ThreadType
  <1> HIDE DEF Zn, Tn
  <1> QED
    BY <1>1, <1>2, <1>3, <1>5, <1>7, <1>8, <1>9, OneStep

\* The second halves: the counter of the bucket, and the unlock.
LEMMA Counting ==
    ASSUME IInv, Sane, NEW t \in Threads, AddCount(t) \/ RemoveCount(t)
    PROVE  IInv'
  <1> DEFINE pc == IF At(t, "adding") THEN "idle" ELSE "removed"
             Tn == [th[t] EXCEPT !.pc = pc]
  <1>1. ~At(t, "idle") /\ (At(t, "adding") <=> ~At(t, "removing"))
    BY DEF AddCount, RemoveCount, At
  <1>2. /\ zone' = Unlocked(zone, t, Z(t)) /\ th' = [th EXCEPT ![t] = Tn]
    BY <1>1 DEF AddCount, RemoveCount, Goto, At
  <1>3. PICK z \in Zones : z = Z(t) /\ z = hash(th[t].key)
    BY <1>1, Holding
  <1>4. PICK Zn \in ZoneType :
            /\ Unlocked(zone, t, z) = [zone EXCEPT ![z] = Zn]
            /\ Zn.entry_head = zone[z].entry_head /\ Zn.count = zone[z].count
            /\ IF At(t, "removing") THEN Zn.owner = t /\ Zn.depth = 1
               ELSE Zn.owner = Free /\ Zn.depth = 0
    <2> DEFINE Zu == [zone[z] EXCEPT !.depth = @ - 1,
                                     !.owner = IF zone[z].depth = 1 THEN Free ELSE @]
    <2>1. /\ Unlocked(zone, t, z) = [zone EXCEPT ![z] = Zu] /\ Zu \in ZoneType
          /\ Zu.entry_head = zone[z].entry_head /\ Zu.count = zone[z].count
          /\ IF At(t, "removing") THEN Zu.owner = t /\ Zu.depth = 1
             ELSE Zu.owner = Free /\ Zu.depth = 0
      BY <1>1, <1>3, Unlocking
    <2> HIDE DEF Zu
    <2> QED
      BY <2>1
  <1>5. Tn \in ThreadType /\ Tn.pc = pc /\ Tn.key = th[t].key
    BY <1>1, Holding DEF ThreadType
  <1>6. ZoneGood(z, Zn.entry_head, Zn.count)
    BY <1>1, <1>3, <1>4, Holding
  <1>7. count' \in Int
    <2>1. PICK n \in Int : n = th[t].tmp
      BY <1>1, Holding DEF ThreadType
    <2>2. (n + 1) % SIZE_T \in Int /\ (n - 1) % SIZE_T \in Int
      BY DEF Sane
    <2> QED
      BY <2>1, <2>2 DEF AddCount, RemoveCount
  <1>8. (pc = "idle" <=> ~At(t, "removing")) /\ pc \in {"idle", "removed"}
    BY <1>1
  <1> HIDE DEF Tn, pc
  <1>9. IF Tn.pc = "idle" THEN Zn.owner = Free /\ Zn.depth = 0
        ELSE /\ hash(Tn.key) = z /\ Zn.owner = t
             /\ Zn.depth = IF Tn.pc = "removing" THEN 2 ELSE 1
    BY <1>3, <1>4, <1>5, <1>8
  <1>10. Tn.pc # "found" /\ Tn.pc # "missing"
    BY <1>5, <1>8
  <1>11. zone' = [zone EXCEPT ![z] = Zn] /\ th' = [th EXCEPT ![t] = Tn]
    BY <1>2, <1>3, <1>4
  <1>12. ~At(t, "idle") /\ Z(t) = z /\ Tn \in ThreadType
    BY <1>1, <1>3, <1>5
  <1> QED
    BY <1>6, <1>7, <1>9, <1>10, <1>11, <1>12, OneStep

-----------------------------------------------------------------------------

LEMMA GoodIsUnique == IInv => KeysUnique
  <1> SUFFICES ASSUME IInv, NEW z \in Zones
               PROVE  /\ IsInjective(zone[z].entry_head)
                      /\ \A i \in DOMAIN zone[z].entry_head : hash(zone[z].entry_head[i]) = z
                      /\ zone[z].count = Len(zone[z].entry_head)
    BY DEF KeysUnique
  <1>1. /\ zone[z].entry_head \in Seq(Keys)
        /\ ZoneGood(z, zone[z].entry_head, zone[z].count)
    BY DEF IInv, TypeInv, ZoneType, GoodInv
  <1> QED
    BY <1>1 DEF ZoneGood, IsInjective

(* hash_bucket.h: however the threads interleave, a zone of the bucket     *)
(* holds every key once, only the keys that hash to it, and its counter is *)
(* the length of its list; hbucket_entry_get() keeping the zone locked     *)
(* whether it found the key or not is what this rests on.                  *)
THEOREM KeysStayUnique == Spec => []KeysUnique
  <1>1. Sane
    BY BucketAssumption DEF Sane, Free
  <1>2. Init => IInv
    BY <1>1, Created
  <1>3. IInv /\ [Next]_vars => IInv'
    <2> SUFFICES ASSUME IInv, [Next]_vars PROVE IInv'
      OBVIOUS
    <2>1. CASE UNCHANGED vars
      BY <2>1 DEF vars, IInv, TypeInv, LockInv, SeenInv, GoodInv, ZoneGood, At, Z,
                  hbucket_get_zone, Has
    <2>2. ASSUME NEW t \in Threads, ThreadStep(t) PROVE IInv'
      <3>1. ASSUME NEW k \in Keys, hbucket_entry_get(t, k) PROVE IInv'
        BY <1>1, <3>1, Getting
      <3>2. CASE hbucket_zone_unlock(t) \/ hbucket_entry_unlock(t)
        BY <1>1, <3>2, Leaving
      <3>3. CASE hbucket_entry_add(t)
        BY <1>1, <3>3, Adding
      <3>4. CASE AddCount(t) \/ RemoveCount(t)
        BY <1>1, <3>4, Counting
      <3>5. CASE hbucket_entry_remove(t)
        BY <1>1, <3>5, Removing
      <3> QED
        BY <2>2, <3>1, <3>2, <3>3, <3>4, <3>5 DEF ThreadStep
    <2> QED
      BY <2>1, <2>2 DEF Next
  <1> QED
    BY <1>2, <1>3, GoodIsUnique, PTL DEF Spec
=============================================================================
