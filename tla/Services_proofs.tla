--------------------------- MODULE Services_proofs ---------------------------
(***************************************************************************)
(* What the services promise, for every value of their constants: the      *)
(* listening tasks are made all or nothing; no HTTP connection is          *)
(* forgotten and its requests are taken in order; a RADIUS query owns its  *)
(* slot, is reported once and by its own answer; SSDP leaves no ghosts;    *)
(* SAP keeps the sessions it hears.                                        *)
(***************************************************************************)
EXTENDS Services, FiniteSetTheorems, SequenceTheorems, NaturalsInduction, WellFoundedInduction, TLAPS

-----------------------------------------------------------------------------
(* Listening tasks *)
\* Threads before the i-th have a socket and a task, later ones have nothing.
Making ==
    /\ j = 0
    /\ \A t \in 0 .. n - 1 :
          /\ t < i => skt[t] = "open" /\ task[t] = "live"
          /\ t >= i => task[t] = "none"
          /\ t > i => skt[t] = "none"

\* The same while what has been made is taken back, up to the j-th.
Undoing ==
    /\ j <= i
    /\ \A t \in 0 .. n - 1 :
          /\ t < j => skt[t] = "closed" /\ task[t] = "freed"
          /\ j <= t /\ t < i => skt[t] = "open" /\ task[t] = "live"
          /\ t >= i => skt[t] # "open" /\ task[t] = "none"
          /\ skt[t] = "twice" => close /\ t = i

\* The socket of the i-th thread at every place.
Current ==
    /\ pc = "bind" => Making /\ (i < n => skt[i] = "none")
    /\ pc \in {"listen", "task"} => Making /\ i < n /\ skt[i] = "open"
    /\ pc = "close" => /\ Making /\ i < n
                       /\ skt[i] = "open" \/ (close /\ skt[i] = "closed")
    /\ pc = "undo" => Undoing
    /\ pc = "ok" => Making /\ i = n
    /\ pc = "failed" => Undoing /\ j = i

IInv == TypeOK /\ Current

\* The initial states satisfy the invariant.
LEMMA InitIInv == Init => IInv
BY TpAcceptAssumption DEF Init, IInv, TypeOK, Current, Making

\* Every step of tp_task_bind_accept_multi_create() preserves the invariant.
LEMMA NextIInv == IInv /\ [Next]_vars => IInv'
<1> SUFFICES ASSUME IInv, [Next]_vars PROVE IInv'
  OBVIOUS
<1>n. n \in Nat /\ n > 0
  BY TpAcceptAssumption DEF IInv, TypeOK
<1>1. CASE Bind
  <2>1. TypeOK'
    BY <1>1, <1>n DEF IInv, TypeOK, Bind
  <2>2. Current'
    BY <1>1, <1>n DEF IInv, TypeOK, Bind, Current, Making, Undoing
  <2> QED  BY <2>1, <2>2 DEF IInv
<1>2. CASE Listen
  <2>1. TypeOK'
    BY <1>2, <1>n DEF IInv, TypeOK, Listen
  <2>2. Current'
    BY <1>2, <1>n DEF IInv, TypeOK, Listen, Current, Making
  <2> QED  BY <2>1, <2>2 DEF IInv
<1>3. CASE CreateTask
  <2>1. i < n /\ Making /\ skt[i] = "open"
    BY <1>3 DEF IInv, Current, CreateTask
  <2>2. TypeOK'
    BY <1>3, <1>n, <2>1 DEF IInv, TypeOK, CreateTask, Closed
  <2>3. Current'
    BY <1>3, <1>n, <2>1 DEF IInv, TypeOK, CreateTask, Closed, Current, Making
  <2> QED  BY <2>2, <2>3 DEF IInv
<1>4. CASE CloseSocket
  <2>1. TypeOK'
    BY <1>4, <1>n DEF IInv, TypeOK, CloseSocket, Closed, Current
  <2>2. Undoing'
    BY <1>4, <1>n DEF IInv, TypeOK, CloseSocket, Closed, Current, Making, Undoing
  <2>3. Current'
    BY <1>4, <2>2 DEF CloseSocket, Current
  <2> QED  BY <2>1, <2>3 DEF IInv
<1>5. CASE Undo
  <2>1. TypeOK'
    BY <1>5, <1>n DEF IInv, TypeOK, Undo, Closed
  <2>2. Undoing'
    BY <1>5, <1>n DEF IInv, TypeOK, Undo, Closed, Current, Undoing
  <2>3. Current'
    BY <1>5, <2>2 DEF Undo, Current
  <2> QED  BY <2>1, <2>3 DEF IInv
<1>6. CASE Return
  <2>1. TypeOK'
    BY <1>6, <1>n DEF IInv, TypeOK, Return
  <2>2. Current'
    BY <1>6, <1>n DEF IInv, TypeOK, Return, Current, Making, Undoing
  <2> QED  BY <2>1, <2>2 DEF IInv
<1>7. CASE UNCHANGED vars
  BY <1>7 DEF vars, IInv, TypeOK, Current, Making, Undoing
<1> QED
  BY <1>1, <1>2, <1>3, <1>4, <1>5, <1>6, <1>7 DEF Next, Finished

\* The invariant holds in every state of every creation.
THEOREM Inductive == Spec => []IInv
BY InitIInv, NextIInv, PTL DEF Spec

\* Every variable keeps its type, for any number of threads.
THEOREM TypeCorrect == Spec => []TypeOK
<1>1. IInv => TypeOK
  BY DEF IInv
<1> QED  BY <1>1, Inductive, PTL

\* Whichever call fails for whichever thread, tp_task_bind_accept_multi_create()
\* returns with all sockets and tasks made, or with all of them taken back.
THEOREM IsAllOrNothing == Spec => []AllOrNothing
<1>1. IInv => AllOrNothing
  <2> SUFFICES ASSUME IInv PROVE AllOrNothing
    OBVIOUS
  <2>1. n \in Nat /\ i \in Nat /\ j \in Nat
    BY TpAcceptAssumption DEF IInv, TypeOK
  <2> QED
    BY <2>1 DEF IInv, Current, Making, Undoing, AllOrNothing
<1> QED  BY <1>1, Inductive, PTL

\* No socket but that of the task that failed to start is closed twice.
THEOREM IsClosedOnce == Spec => []ClosedOnce
<1>1. IInv => ClosedOnce
  <2> SUFFICES ASSUME IInv PROVE ClosedOnce
    OBVIOUS
  <2>1. n \in Nat /\ i \in 0 .. n /\ j \in 0 .. n
    BY TpAcceptAssumption DEF IInv, TypeOK
  <2>2. pc \in {"bind", "listen", "task", "close", "undo", "ok", "failed"}
    BY DEF IInv, TypeOK
  <2>3. CASE pc \in {"undo", "failed"}
    BY <2>3 DEF IInv, Current, Undoing, ClosedOnce
  <2>4. CASE pc \in {"bind", "listen", "task", "close", "ok"}
    BY <2>1, <2>4 DEF IInv, Current, Making, ClosedOnce
  <2> QED  BY <2>2, <2>3, <2>4
<1> QED  BY <1>1, Inductive, PTL

\* The listening tasks run among the services as they do alone.
LEMMA AcceptRuns == Services => Spec
<1>1. ServicesInit => Init
  BY DEF ServicesInit
<1>2. [ServicesNext]_all => [Next]_vars
  BY DEF ServicesNext, AcceptStep, HttpStep, RadiusStep, SsdpStep, SapStep, all, vars
<1> QED  BY <1>1, <1>2, PTL DEF Services, Spec

-----------------------------------------------------------------------------
(* Numbers *)

\* A set of numbers that is not empty has a least one.
LEMMA LeastOf ==
    ASSUME NEW T, T \subseteq Nat, T # {}
    PROVE  \E least \in T : \A b \in T : least <= b
  <1> DEFINE Less == {ab \in Nat \X Nat : ab[1] < ab[2]}
  <1>1. IsWellFoundedOn(Less, Nat)
    <2>1. OpToRel(<, Nat) = Less
      BY DEF OpToRel
    <2> QED  BY <2>1, NatLessThanWellFounded, Zenon
  <1> HIDE DEF Less
  <1>2. PICK least \in T : \A b \in T : <<b, least>> \notin Less
    BY <1>1, WFMin, Zenon
  <1>3. ASSUME NEW b \in T PROVE least <= b
    <2>1. <<b, least>> \in Nat \X Nat /\ <<b, least>>[1] = b /\ <<b, least>>[2] = least
      OBVIOUS
    <2>2. ~(b < least)
      BY <1>2, <2>1, Zenon DEF Less
    <2> QED  BY <2>2
  <1> QED  BY <1>3

\* A set of numbers that holds the successors of its members up to a bound.
LEMMA Counting ==
    ASSUME NEW len \in Nat, NEW T, 0 \in T,
           \A b \in 1 .. len : b - 1 \in T => b \in T
    PROVE  \A b \in 0 .. len : b \in T
  <1> DEFINE Bad == {b \in 0 .. len : b \notin T}
  <1> SUFFICES ASSUME Bad # {} PROVE FALSE
    OBVIOUS
  <1>0. Bad \subseteq Nat
    OBVIOUS
  <1>1. PICK b \in Bad : \A a \in Bad : b <= a
    <2> HIDE DEF Bad
    <2> QED  BY <1>0, LeastOf
  <1>2. b \in 1 .. len
    BY <1>1
  <1>3. b - 1 \in 0 .. len /\ b - 1 \notin Bad
    BY <1>1, <1>2
  <1>4. b - 1 \in T
    BY <1>3
  <1> QED  BY <1>1, <1>2, <1>4

\* An array without repetitions.
Distinct(seq) == \A a, b \in 1 .. Len(seq) : seq[a] = seq[b] => a = b

\* The removal from an array by its last element takes the element and no other.
LEMMA DropIs ==
    ASSUME NEW S, NEW seq \in Seq(S), Distinct(seq), NEW x \in Ssdp!Range(seq)
    PROVE  /\ Ssdp!Drop(seq, x) \in Seq(S) /\ Distinct(Ssdp!Drop(seq, x))
           /\ Ssdp!Range(Ssdp!Drop(seq, x)) = Ssdp!Range(seq) \ {x}
  <1> DEFINE at == CHOOSE b \in 1 .. Len(seq) : seq[b] = x
             moved == [seq EXCEPT ![at] = seq[Len(seq)]]
             len == Len(seq) - 1
             rest == SubSeq(moved, 1, len)
  <1>1. \E b \in 1 .. Len(seq) : seq[b] = x
    BY DEF Ssdp!Range
  <1>2. at \in 1 .. Len(seq) /\ seq[at] = x
    BY <1>1
  <1>3. Len(seq) \in Nat /\ len \in Nat /\ len + 1 = Len(seq)
    BY <1>2
  <1>4. Ssdp!Drop(seq, x) = rest
    BY DEF Ssdp!Drop
  <1> HIDE DEF at
  <1>5. moved \in Seq(S) /\ Len(moved) = len + 1
    BY <1>2, <1>3
  <1>6. \A b \in 1 .. len + 1 : moved[b] = IF b = at THEN seq[len + 1] ELSE seq[b]
    BY <1>2, <1>3
  <1> HIDE DEF moved
  <1>7. rest \in Seq(S) /\ Len(rest) = len /\ \A b \in 1 .. len : rest[b] = moved[b]
    BY <1>3, <1>5
  <1> HIDE DEF rest, len
  <1>8. Distinct(rest)
    BY <1>2, <1>3, <1>6, <1>7 DEF Distinct
  <1>9. ASSUME NEW y \in Ssdp!Range(seq), y # x PROVE y \in Ssdp!Range(rest)
    <2>1. PICK b \in 1 .. len + 1 : seq[b] = y
      BY <1>3, <1>9 DEF Ssdp!Range
    <2>2. CASE b \in 1 .. len
      BY <1>2, <1>6, <1>7, <1>9, <2>1, <2>2 DEF Ssdp!Range
    <2>3. CASE b = len + 1
      <3>1. at \in 1 .. len
        BY <1>2, <1>3, <1>9, <2>1, <2>3
      <3> QED  BY <1>3, <1>6, <1>7, <2>1, <2>3, <3>1 DEF Ssdp!Range
    <2> QED  BY <1>3, <2>1, <2>2, <2>3
  <1>10. ASSUME NEW y \in Ssdp!Range(rest) PROVE y \in Ssdp!Range(seq) /\ y # x
    <2>1. PICK b \in 1 .. len : rest[b] = y
      BY <1>7, <1>10 DEF Ssdp!Range
    <2> QED  BY <1>2, <1>3, <1>6, <1>7, <2>1 DEF Ssdp!Range, Distinct
  <1> QED  BY <1>4, <1>7, <1>8, <1>9, <1>10

\* An array with one more element.
LEMMA AppendIs ==
    ASSUME NEW S, NEW seq \in Seq(S), Distinct(seq), NEW x \in S, x \notin Ssdp!Range(seq)
    PROVE  /\ Append(seq, x) \in Seq(S) /\ Distinct(Append(seq, x))
           /\ Ssdp!Range(Append(seq, x)) = Ssdp!Range(seq) \cup {x}
  <1>1. Append(seq, x) \in Seq(S) /\ Len(Append(seq, x)) = Len(seq) + 1 /\ Len(seq) \in Nat
    OBVIOUS
  <1>2. \A b \in 1 .. Len(seq) + 1 : Append(seq, x)[b] = IF b = Len(seq) + 1 THEN x ELSE seq[b]
    OBVIOUS
  <1>3. \A b \in 1 .. Len(seq) : seq[b] # x
    BY DEF Ssdp!Range
  <1>4. Distinct(Append(seq, x))
    BY <1>1, <1>2, <1>3 DEF Distinct
  <1>5. Ssdp!Range(Append(seq, x)) = Ssdp!Range(seq) \cup {x}
    BY <1>1, <1>2 DEF Ssdp!Range
  <1> QED  BY <1>1, <1>4, <1>5

-----------------------------------------------------------------------------
(* UPnP SSDP *)

\* A link between a device and an interface.
SsdpLink == [dev : Devs, ifc : Ifs, urls : Urls]

\* The shape of upnp_ssdp_t while it exists.
SsdpShape(s) ==
    s \in [st : {"running", "destroyed"}, proto : Protos, byebye : BOOLEAN,
           root_devs : Seq(Devs), s_ifs : Seq(Ifs),
           dev_ifs : [Devs -> SUBSET Links], if_devs : [Ifs -> SUBSET Links],
           link : [Links -> SsdpLink \cup {<<>>}], services : [Devs -> Nat],
           timers : SUBSET Devs, joined : SUBSET (Ifs \X {"v4", "site", "link"}),
           known : SUBSET (Devs \X Ifs \X {"v4", "site", "link"} \X Int)]

\* The arrays of devices and interfaces hold nothing twice.
SsdpArrays(s) == Distinct(s.root_devs) /\ Distinct(s.s_ifs)

\* A link that exists is in the array of its device and of its interface, both
\* of which exist; the arrays hold no other links.
SsdpLinked(s) ==
    /\ \A d \in Devs : \A l \in s.dev_ifs[d] :
         /\ s.link[l] \in SsdpLink /\ s.link[l] # <<>> /\ s.link[l].dev = d
         /\ l \in s.if_devs[s.link[l].ifc]
    /\ \A f \in Ifs : \A l \in s.if_devs[f] :
         /\ s.link[l] \in SsdpLink /\ s.link[l] # <<>> /\ s.link[l].ifc = f
         /\ l \in s.dev_ifs[s.link[l].dev]
         /\ f \in Ssdp!Range(s.s_ifs) /\ s.link[l].dev \in Ssdp!Range(s.root_devs)

\* The groups of every interface are joined.
SsdpJoined(s) ==
    \A f \in Ssdp!Range(s.s_ifs), g \in Ssdp!AllGroups(s) : <<f, g>> \in s.joined

\* What a listener was told is what the device would say today: its link to the
\* interface, with the URL, and its service are still there.
Said(s, k, l) ==
    /\ l \in s.dev_ifs[k[1]] /\ s.link[l].ifc = k[2]
    /\ Ssdp!Family(k[3]) \in s.proto /\ Ssdp!Family(k[3]) \in s.link[l].urls
    /\ k[3] \in Ssdp!AllGroups(s) /\ k[4] \in Ssdp!NotifyTypes(s, k[1])
SsdpSaid(s) == s.byebye => \A k \in s.known : \E l \in Links : Said(s, k, l)

SsdpGood(s) == SsdpShape(s) /\ SsdpArrays(s) /\ SsdpLinked(s) /\ SsdpJoined(s) /\ SsdpSaid(s)
SsdpInv == ssdp.st = "running" => SsdpGood(ssdp)

\* A link is no empty tuple.
LEMMA LinkIs == ASSUME NEW k \in SsdpLink PROVE k # <<>>
  <1>1. DOMAIN k = {"dev", "ifc", "urls"}
    BY DEF SsdpLink
  <1>2. DOMAIN <<>> = {}
    OBVIOUS
  <1> QED  BY <1>1, <1>2

\* The groups of an interface are groups of the protocols.
LEMMA GroupsAre ==
    ASSUME NEW s
    PROVE  Ssdp!AllGroups(s) \subseteq {"v4", "site", "link"}
  BY DEF Ssdp!AllGroups, Ssdp!Groups

\* What upnp_ssdp_dev_notify_sendto_mc() sends.
LEMMA DatagramsAre ==
    ASSUME NEW s, SsdpShape(s), SsdpLinked(s), NEW d \in Devs
    PROVE  /\ Ssdp!Datagrams(s, d) \subseteq Devs \X Ifs \X {"v4", "site", "link"} \X Int
           /\ \A k \in Ssdp!Datagrams(s, d) : k[1] = d /\ \E l \in Links : Said(s, k, l)
           /\ \A k \in Devs \X Ifs \X {"v4", "site", "link"} \X Int, l \in Links :
                 k[1] = d /\ Said(s, k, l) => k \in Ssdp!Datagrams(s, d)
  <1>1. ASSUME NEW k \in Ssdp!Datagrams(s, d)
        PROVE  /\ k \in Devs \X Ifs \X {"v4", "site", "link"} \X Int
               /\ k[1] = d /\ \E l \in Links : Said(s, k, l)
    <2>1. PICK g \in Ssdp!AllGroups(s) : k \in Ssdp!upnp_ssdp_dev_notify_sendto(s, d, g)
      BY <1>1 DEF Ssdp!Datagrams
    <2>2. PICK l \in s.dev_ifs[d] : k \in Ssdp!upnp_ssdp_send(s, l, g, Ssdp!NotifyTypes(s, d))
      BY <2>1 DEF Ssdp!upnp_ssdp_dev_notify_sendto
    <2>3. /\ Ssdp!Family(g) \in s.proto /\ Ssdp!Family(g) \in s.link[l].urls
          /\ \E nt \in Ssdp!NotifyTypes(s, d) : k = <<s.link[l].dev, s.link[l].ifc, g, nt>>
      BY <2>2 DEF Ssdp!upnp_ssdp_send
    <2>4. PICK nt \in Ssdp!NotifyTypes(s, d) : k = <<s.link[l].dev, s.link[l].ifc, g, nt>>
      BY <2>3
    <2>5. l \in Links /\ s.link[l].dev = d /\ s.link[l].ifc \in Ifs
      BY <2>2 DEF SsdpShape, SsdpLinked, SsdpLink
    <2>6. g \in {"v4", "site", "link"}
      BY <2>1, GroupsAre
    <2>7. nt \in Int
      BY <2>4 DEF Ssdp!NotifyTypes, Ssdp!ROOT, Ssdp!UUID, Ssdp!TYPE
    <2>8. k[1] = d /\ k[2] = s.link[l].ifc /\ k[3] = g /\ k[4] = nt
      BY <2>4, <2>5
    <2>9. Said(s, k, l)
      BY <2>1, <2>2, <2>3, <2>4, <2>8 DEF Said
    <2> QED  BY <2>4, <2>5, <2>6, <2>7, <2>8, <2>9
  <1>2. ASSUME NEW k \in Devs \X Ifs \X {"v4", "site", "link"} \X Int, NEW l \in Links,
               k[1] = d, Said(s, k, l)
        PROVE  k \in Ssdp!Datagrams(s, d)
    <2>1. k = <<k[1], k[2], k[3], k[4]>>
      OBVIOUS
    <2>2. s.link[l].dev = d
      BY <1>2 DEF Said, SsdpLinked
    <2>3. k = <<s.link[l].dev, s.link[l].ifc, k[3], k[4]>>
      BY <1>2, <2>1, <2>2 DEF Said
    <2>4. k \in Ssdp!upnp_ssdp_send(s, l, k[3], Ssdp!NotifyTypes(s, d))
      BY <1>2, <2>3 DEF Said, Ssdp!upnp_ssdp_send
    <2>5. k \in Ssdp!upnp_ssdp_dev_notify_sendto(s, d, k[3])
      BY <1>2, <2>4 DEF Said, Ssdp!upnp_ssdp_dev_notify_sendto
    <2> QED  BY <1>2, <2>5 DEF Said, Ssdp!Datagrams
  <1> QED  BY <1>1, <1>2

\* upnp_ssdp_create(): nothing yet.
LEMMA SsdpInitGood == Ssdp!Init => SsdpInv
  <1> SUFFICES ASSUME Ssdp!Init PROVE SsdpGood(ssdp)
    BY DEF SsdpInv
  <1>1. PICK proto \in Protos, byebye \in BOOLEAN : ssdp = Ssdp!Created(proto, byebye)
    BY DEF Ssdp!Init
  <1>2. SsdpShape(ssdp)
    BY <1>1 DEF Ssdp!Created, SsdpShape
  <1> QED
    BY <1>1, <1>2 DEF Ssdp!Created, SsdpGood, SsdpArrays, Distinct, SsdpLinked, SsdpJoined,
                      SsdpSaid, Ssdp!Range

\* Announcing: what is said is what holds.
LEMMA SsdpSays ==
    ASSUME NEW s, SsdpGood(s), NEW new,
           \A k \in new : /\ k \in Devs \X Ifs \X {"v4", "site", "link"} \X Int
                          /\ \E l \in Links : Said(s, k, l)
    PROVE  SsdpGood([s EXCEPT !.known = s.known \cup new])
  <1> DEFINE t == [s EXCEPT !.known = s.known \cup new]
  <1>1. SsdpShape(t)
    BY DEF SsdpGood, SsdpShape
  <1>2. /\ t.st = s.st /\ t.proto = s.proto /\ t.byebye = s.byebye /\ t.root_devs = s.root_devs
        /\ t.s_ifs = s.s_ifs /\ t.dev_ifs = s.dev_ifs /\ t.if_devs = s.if_devs /\ t.link = s.link
        /\ t.services = s.services /\ t.joined = s.joined /\ t.known = s.known \cup new
    BY DEF SsdpGood, SsdpShape
  <1> HIDE DEF t
  <1>3. \A k, l : Said(s, k, l) => Said(t, k, l)
    BY <1>2 DEF Said, Ssdp!AllGroups, Ssdp!NotifyTypes
  <1>4. SsdpSaid(t)
    BY <1>2, <1>3 DEF SsdpGood, SsdpSaid
  <1>5. SsdpArrays(t) /\ SsdpLinked(t) /\ SsdpJoined(t)
    BY <1>2 DEF SsdpGood, SsdpArrays, SsdpLinked, SsdpJoined, Ssdp!AllGroups
  <1> QED  BY <1>1, <1>4, <1>5 DEF SsdpGood, t

\* upnp_ssdp_dev_add()
LEMMA SsdpDevAdds ==
    ASSUME NEW s, SsdpGood(s), NEW d \in Devs, d \notin Ssdp!Range(s.root_devs)
    PROVE  SsdpGood([s EXCEPT !.root_devs = Append(s.root_devs, d), !.timers = s.timers \cup {d}])
  <1> DEFINE t == [s EXCEPT !.root_devs = Append(s.root_devs, d), !.timers = s.timers \cup {d}]
  <1>1. /\ Append(s.root_devs, d) \in Seq(Devs) /\ Distinct(Append(s.root_devs, d))
        /\ Ssdp!Range(Append(s.root_devs, d)) = Ssdp!Range(s.root_devs) \cup {d}
    <2>1. s.root_devs \in Seq(Devs) /\ Distinct(s.root_devs)
      BY DEF SsdpGood, SsdpShape, SsdpArrays
    <2> QED  BY <2>1, AppendIs
  <1>2. SsdpShape(t)
    BY <1>1 DEF SsdpGood, SsdpShape
  <1>3. /\ t.st = s.st /\ t.proto = s.proto /\ t.byebye = s.byebye
        /\ t.root_devs = Append(s.root_devs, d) /\ t.known = s.known
        /\ t.s_ifs = s.s_ifs /\ t.dev_ifs = s.dev_ifs /\ t.if_devs = s.if_devs /\ t.link = s.link
        /\ t.services = s.services /\ t.joined = s.joined
    BY DEF SsdpGood, SsdpShape
  <1> HIDE DEF t
  <1>4. SsdpArrays(t)
    BY <1>1, <1>3 DEF SsdpGood, SsdpArrays
  <1>5. SsdpLinked(t)
    BY <1>1, <1>3 DEF SsdpGood, SsdpLinked
  <1>6. SsdpJoined(t)
    BY <1>3 DEF SsdpGood, SsdpJoined, Ssdp!AllGroups
  <1>7. SsdpSaid(t)
    <2>1. \A k, l : Said(s, k, l) => Said(t, k, l)
      BY <1>3 DEF Said, Ssdp!AllGroups, Ssdp!NotifyTypes
    <2> QED  BY <1>3, <2>1 DEF SsdpGood, SsdpSaid
  <1> QED  BY <1>2, <1>4, <1>5, <1>6, <1>7 DEF SsdpGood, t

\* upnp_ssdp_svc_add()
LEMMA SsdpSvcAdds ==
    ASSUME NEW s, SsdpGood(s), NEW d \in Devs
    PROVE  SsdpGood([s EXCEPT !.services[d] = s.services[d] + 1])
  <1> DEFINE more == [s.services EXCEPT ![d] = s.services[d] + 1]
             t == [s EXCEPT !.services = more]
  <1>0. s.services \in [Devs -> Nat] /\ more \in [Devs -> Nat]
    BY DEF SsdpGood, SsdpShape
  <1>t. [s EXCEPT !.services[d] = s.services[d] + 1] = t
    BY DEF SsdpGood, SsdpShape
  <1> HIDE DEF more
  <1>1. SsdpShape(t)
    BY <1>0 DEF SsdpGood, SsdpShape
  <1>2. /\ t.st = s.st /\ t.proto = s.proto /\ t.byebye = s.byebye /\ t.root_devs = s.root_devs
        /\ t.s_ifs = s.s_ifs /\ t.dev_ifs = s.dev_ifs /\ t.if_devs = s.if_devs /\ t.link = s.link
        /\ t.joined = s.joined /\ t.known = s.known
        /\ t.services = [s.services EXCEPT ![d] = s.services[d] + 1]
    BY DEF SsdpGood, SsdpShape, more
  <1>3. s.services \in [Devs -> Nat] /\ s.known \subseteq Devs \X Ifs \X {"v4", "site", "link"} \X Int
    BY DEF SsdpGood, SsdpShape
  <1> HIDE DEF t
  <1>4. \A e \in Devs : Ssdp!NotifyTypes(s, e) \subseteq Ssdp!NotifyTypes(t, e)
    BY <1>2, <1>3 DEF Ssdp!NotifyTypes
  <1>5. ASSUME NEW k \in s.known, NEW l \in Links, Said(s, k, l) PROVE Said(t, k, l)
    <2>1. k[1] \in Devs
      BY <1>3
    <2>2. k[4] \in Ssdp!NotifyTypes(t, k[1])
      BY <1>4, <1>5, <2>1 DEF Said
    <2> QED  BY <1>2, <1>5, <2>2 DEF Said, Ssdp!AllGroups
  <1>6. SsdpSaid(t)
    BY <1>2, <1>5 DEF SsdpGood, SsdpSaid
  <1>7. SsdpArrays(t) /\ SsdpLinked(t) /\ SsdpJoined(t)
    BY <1>2 DEF SsdpGood, SsdpArrays, SsdpLinked, SsdpJoined, Ssdp!AllGroups
  <1> QED  BY <1>t, <1>1, <1>6, <1>7 DEF SsdpGood, t

\* upnp_ssdp_if_add(): the interface is new and joins the groups.
LEMMA SsdpJoins ==
    ASSUME NEW s, SsdpGood(s), NEW f \in Ifs, f \notin Ssdp!Range(s.s_ifs)
    PROVE  /\ SsdpGood(Ssdp!Joined(s, f)) /\ f \in Ssdp!Range(Ssdp!Joined(s, f).s_ifs)
           /\ Ssdp!Joined(s, f).link = s.link /\ Ssdp!Joined(s, f).root_devs = s.root_devs
           /\ Ssdp!Joined(s, f).st = s.st
  <1> DEFINE t == Ssdp!Joined(s, f)
  <1>1. /\ Append(s.s_ifs, f) \in Seq(Ifs) /\ Distinct(Append(s.s_ifs, f))
        /\ Ssdp!Range(Append(s.s_ifs, f)) = Ssdp!Range(s.s_ifs) \cup {f}
    <2>1. s.s_ifs \in Seq(Ifs) /\ Distinct(s.s_ifs)
      BY DEF SsdpGood, SsdpShape, SsdpArrays
    <2> QED  BY <2>1, AppendIs
  <1>2. {<<f, g>> : g \in Ssdp!AllGroups(s)} \subseteq Ifs \X {"v4", "site", "link"}
    BY GroupsAre
  <1>3. SsdpShape(t)
    BY <1>1, <1>2 DEF SsdpGood, SsdpShape, Ssdp!Joined
  <1>4. /\ t.st = s.st /\ t.proto = s.proto /\ t.byebye = s.byebye
        /\ t.root_devs = s.root_devs /\ t.known = s.known
        /\ t.s_ifs = Append(s.s_ifs, f) /\ t.dev_ifs = s.dev_ifs /\ t.if_devs = s.if_devs /\ t.link = s.link
        /\ t.services = s.services /\ t.joined = s.joined \cup {<<f, g>> : g \in Ssdp!AllGroups(s)}
    BY DEF SsdpGood, SsdpShape, Ssdp!Joined
  <1> HIDE DEF t
  <1>5. SsdpArrays(t)
    BY <1>1, <1>4 DEF SsdpGood, SsdpArrays
  <1>6. SsdpLinked(t)
    BY <1>1, <1>4 DEF SsdpGood, SsdpLinked
  <1>7. SsdpJoined(t)
    BY <1>1, <1>4 DEF SsdpGood, SsdpJoined, Ssdp!AllGroups
  <1>8. SsdpSaid(t)
    <2>1. \A k, l : Said(s, k, l) => Said(t, k, l)
      BY <1>4 DEF Said, Ssdp!AllGroups, Ssdp!NotifyTypes
    <2> QED  BY <1>4, <2>1 DEF SsdpGood, SsdpSaid
  <1>9. SsdpGood(t) /\ f \in Ssdp!Range(t.s_ifs)
    BY <1>1, <1>3, <1>4, <1>5, <1>6, <1>7, <1>8 DEF SsdpGood
  <1> QED  BY <1>4, <1>9 DEF t

\* upnp_ssdp_dev_if_add(): the link comes into both arrays.
LEMMA SsdpLinks ==
    ASSUME NEW s, SsdpGood(s), NEW f \in Ifs, f \in Ssdp!Range(s.s_ifs),
           NEW d \in Devs, d \in Ssdp!Range(s.root_devs),
           NEW l \in Links, s.link[l] = <<>>, NEW urls \in Urls
    PROVE  SsdpGood([s EXCEPT !.link[l] = [dev |-> d, ifc |-> f, urls |-> urls],
                              !.dev_ifs[d] = @ \cup {l}, !.if_devs[f] = @ \cup {l}])
  <1> DEFINE k == [dev |-> d, ifc |-> f, urls |-> urls]
             t == [s EXCEPT !.link[l] = k, !.dev_ifs[d] = @ \cup {l}, !.if_devs[f] = @ \cup {l}]
  <1>1. k \in SsdpLink /\ k # <<>> /\ k.dev = d /\ k.ifc = f
    BY LinkIs DEF SsdpLink
  <1> HIDE DEF k
  <1>2. SsdpShape(t)
    <2>1. /\ [s.link EXCEPT ![l] = k] \in [Links -> SsdpLink \cup {<<>>}]
          /\ [s.dev_ifs EXCEPT ![d] = @ \cup {l}] \in [Devs -> SUBSET Links]
          /\ [s.if_devs EXCEPT ![f] = @ \cup {l}] \in [Ifs -> SUBSET Links]
      BY <1>1 DEF SsdpGood, SsdpShape
    <2> QED  BY <2>1 DEF SsdpGood, SsdpShape
  <1>3. /\ t.st = s.st /\ t.proto = s.proto /\ t.byebye = s.byebye /\ t.root_devs = s.root_devs
        /\ t.s_ifs = s.s_ifs /\ t.services = s.services /\ t.joined = s.joined /\ t.known = s.known
        /\ t.dev_ifs = [s.dev_ifs EXCEPT ![d] = @ \cup {l}]
        /\ t.if_devs = [s.if_devs EXCEPT ![f] = @ \cup {l}]
        /\ t.link = [s.link EXCEPT ![l] = k]
    BY DEF SsdpGood, SsdpShape
  <1>4. /\ s.dev_ifs \in [Devs -> SUBSET Links] /\ s.if_devs \in [Ifs -> SUBSET Links]
        /\ s.link \in [Links -> SsdpLink \cup {<<>>}]
        /\ s.known \subseteq Devs \X Ifs \X {"v4", "site", "link"} \X Int
    BY DEF SsdpGood, SsdpShape
  <1> HIDE DEF t
  <1>5. /\ \A e \in Devs : l \notin s.dev_ifs[e]
        /\ \A e \in Ifs : l \notin s.if_devs[e]
    BY DEF SsdpGood, SsdpLinked
  <1>6. SsdpArrays(t) /\ SsdpJoined(t)
    BY <1>3 DEF SsdpGood, SsdpArrays, SsdpJoined, Ssdp!AllGroups
  <1>7. SsdpLinked(t)
    <2>1. ASSUME NEW e \in Devs, NEW m \in t.dev_ifs[e]
          PROVE  /\ t.link[m] \in SsdpLink /\ t.link[m] # <<>> /\ t.link[m].dev = e
                 /\ m \in t.if_devs[t.link[m].ifc]
      <3>1. CASE m = l
        BY <1>1, <1>3, <1>4, <1>5, <2>1, <3>1
      <3>2. CASE m # l
        <4>1. m \in s.dev_ifs[e] /\ m \in Links /\ t.link[m] = s.link[m]
          BY <1>3, <1>4, <2>1, <3>2
        <4>2. s.link[m] \in SsdpLink /\ s.link[m] # <<>> /\ s.link[m].dev = e /\ m \in s.if_devs[s.link[m].ifc]
          BY <4>1 DEF SsdpGood, SsdpLinked
        <4>3. s.link[m].ifc \in Ifs
          BY <4>2 DEF SsdpLink
        <4> QED  BY <1>3, <1>4, <4>1, <4>2, <4>3
      <3> QED  BY <3>1, <3>2
    <2>2. ASSUME NEW e \in Ifs, NEW m \in t.if_devs[e]
          PROVE  /\ t.link[m] \in SsdpLink /\ t.link[m] # <<>> /\ t.link[m].ifc = e
                 /\ m \in t.dev_ifs[t.link[m].dev]
                 /\ e \in Ssdp!Range(t.s_ifs) /\ t.link[m].dev \in Ssdp!Range(t.root_devs)
      <3>1. CASE m = l
        BY <1>1, <1>3, <1>4, <1>5, <2>2, <3>1
      <3>2. CASE m # l
        <4>1. m \in s.if_devs[e] /\ m \in Links /\ t.link[m] = s.link[m]
          BY <1>3, <1>4, <2>2, <3>2
        <4>2. /\ s.link[m] \in SsdpLink /\ s.link[m] # <<>> /\ s.link[m].ifc = e /\ m \in s.dev_ifs[s.link[m].dev]
              /\ e \in Ssdp!Range(s.s_ifs) /\ s.link[m].dev \in Ssdp!Range(s.root_devs)
          BY <4>1 DEF SsdpGood, SsdpLinked
        <4>3. s.link[m].dev \in Devs
          BY <4>2 DEF SsdpLink
        <4> QED  BY <1>3, <1>4, <4>1, <4>2, <4>3
      <3> QED  BY <3>1, <3>2
    <2> QED  BY <2>1, <2>2 DEF SsdpLinked
  <1>8. ASSUME NEW h \in s.known, NEW m \in Links, Said(s, h, m) PROVE Said(t, h, m)
    <2>1. h[1] \in Devs
      BY <1>4
    <2>2. m # l /\ m \in t.dev_ifs[h[1]] /\ t.link[m] = s.link[m]
      BY <1>3, <1>4, <1>5, <1>8, <2>1 DEF Said
    <2> QED  BY <1>3, <1>8, <2>2 DEF Said, Ssdp!AllGroups, Ssdp!NotifyTypes
  <1>9. SsdpSaid(t)
    BY <1>3, <1>8 DEF SsdpGood, SsdpSaid
  <1> QED  BY <1>2, <1>6, <1>7, <1>9 DEF SsdpGood, t, k

\* upnp_ssdp_dev_del(): the farewell takes back all that was said of the device.
LEMMA SsdpDeletes ==
    ASSUME NEW s, SsdpGood(s), NEW d \in Devs, d \in Ssdp!Range(s.root_devs)
    PROVE  SsdpGood(Ssdp!DevDeleted(s, d)) /\ Ssdp!DevDeleted(s, d).st = s.st
  <1> DEFINE t == Ssdp!DevDeleted(s, d)
             told == Devs \X Ifs \X {"v4", "site", "link"} \X Int
             quiet == [s EXCEPT !.timers = s.timers \ {d}]
             said == IF s.byebye THEN s.known \ Ssdp!Datagrams(quiet, d) ELSE s.known
             bye == [quiet EXCEPT !.known = said]
  <1>s. SsdpShape(s)
    BY DEF SsdpGood
  <1>1. s.root_devs \in Seq(Devs) /\ Distinct(s.root_devs)
    BY <1>s DEF SsdpGood, SsdpShape, SsdpArrays
  <1>2. /\ Ssdp!Drop(s.root_devs, d) \in Seq(Devs) /\ Distinct(Ssdp!Drop(s.root_devs, d))
        /\ Ssdp!Range(Ssdp!Drop(s.root_devs, d)) = Ssdp!Range(s.root_devs) \ {d}
    BY <1>1, DropIs
  <1>3. /\ quiet.proto = s.proto /\ quiet.dev_ifs = s.dev_ifs /\ quiet.link = s.link
        /\ quiet.services = s.services /\ quiet.known = s.known /\ quiet.byebye = s.byebye
        /\ quiet.root_devs = s.root_devs /\ quiet.s_ifs = s.s_ifs /\ quiet.if_devs = s.if_devs
        /\ quiet.joined = s.joined /\ quiet.st = s.st /\ SsdpShape(quiet)
    BY <1>s DEF SsdpShape
  <1>4. Ssdp!Datagrams(quiet, d) = Ssdp!Datagrams(s, d)
    BY <1>3 DEF Ssdp!Datagrams, Ssdp!upnp_ssdp_dev_notify_sendto, Ssdp!upnp_ssdp_send,
                Ssdp!NotifyTypes, Ssdp!AllGroups
  <1>5. /\ bye.proto = s.proto /\ bye.dev_ifs = s.dev_ifs /\ bye.link = s.link
        /\ bye.services = s.services /\ bye.known = said /\ bye.byebye = s.byebye
        /\ bye.root_devs = s.root_devs /\ bye.s_ifs = s.s_ifs /\ bye.if_devs = s.if_devs
        /\ bye.joined = s.joined /\ bye.st = s.st /\ SsdpShape(bye)
    <2>1. said \subseteq s.known
      OBVIOUS
    <2> HIDE DEF said, quiet
    <2> QED  BY <1>3, <2>1 DEF SsdpShape
  <1>6. t = [bye EXCEPT !.root_devs = Ssdp!Drop(bye.root_devs, d),
                        !.if_devs = Ssdp!OffInterfaces(s, s.dev_ifs[d]),
                        !.link = Ssdp!LinksFreed(s, s.dev_ifs[d]),
                        !.dev_ifs[d] = {}, !.services[d] = 0]
    <2>1. CASE s.byebye
      BY <1>3, <2>1 DEF Ssdp!DevDeleted, Ssdp!upnp_ssdp_dev_notify_sendto_mc
    <2>2. CASE ~s.byebye
      <3>1. bye = quiet
        <4>1. said = quiet.known
          BY <1>3, <2>2
        <4> HIDE DEF said, quiet
        <4> QED  BY <1>3, <4>1 DEF SsdpShape
      <3> HIDE DEF bye
      <3> QED  BY <2>2, <3>1 DEF Ssdp!DevDeleted
    <2> QED  BY <2>1, <2>2
  <1> HIDE DEF bye, quiet
  <1>7. /\ Ssdp!OffInterfaces(s, s.dev_ifs[d]) \in [Ifs -> SUBSET Links]
        /\ Ssdp!LinksFreed(s, s.dev_ifs[d]) \in [Links -> SsdpLink \cup {<<>>}]
    BY <1>s DEF SsdpShape, Ssdp!OffInterfaces, Ssdp!LinksFreed
  <1> DEFINE arr == Ssdp!Drop(s.root_devs, d)
             ifs == Ssdp!OffInterfaces(s, s.dev_ifs[d])
             lnk == Ssdp!LinksFreed(s, s.dev_ifs[d])
             dif == [s.dev_ifs EXCEPT ![d] = {}]
             svc == [s.services EXCEPT ![d] = 0]
  <1>a. dif \in [Devs -> SUBSET Links] /\ svc \in [Devs -> Nat]
    BY <1>s DEF SsdpShape
  <1>b. t = [bye EXCEPT !.root_devs = arr, !.if_devs = ifs, !.link = lnk, !.dev_ifs = dif,
                        !.services = svc]
    BY <1>5, <1>6 DEF SsdpShape
  <1> HIDE DEF arr, ifs, lnk, dif, svc, t
  <1>c. arr \in Seq(Devs) /\ ifs \in [Ifs -> SUBSET Links] /\ lnk \in [Links -> SsdpLink \cup {<<>>}]
    BY <1>2, <1>7 DEF arr, ifs, lnk
  <1>8. SsdpShape(t)
    BY <1>5, <1>a, <1>b, <1>c DEF SsdpShape
  <1>d. /\ t.proto = s.proto /\ t.byebye = s.byebye /\ t.s_ifs = s.s_ifs /\ t.joined = s.joined
        /\ t.st = s.st /\ t.root_devs = arr /\ t.if_devs = ifs /\ t.link = lnk
        /\ t.dev_ifs = dif /\ t.services = svc /\ t.known = said
    BY <1>5, <1>b DEF SsdpShape
  <1>9. /\ t.proto = s.proto /\ t.byebye = s.byebye /\ t.s_ifs = s.s_ifs /\ t.joined = s.joined
        /\ t.st = s.st
        /\ t.root_devs = Ssdp!Drop(s.root_devs, d)
        /\ t.if_devs = Ssdp!OffInterfaces(s, s.dev_ifs[d])
        /\ t.link = Ssdp!LinksFreed(s, s.dev_ifs[d])
        /\ t.dev_ifs = [s.dev_ifs EXCEPT ![d] = {}]
        /\ t.services = [s.services EXCEPT ![d] = 0]
        /\ t.known = said
    BY <1>d DEF arr, ifs, lnk, dif, svc
  <1>10. /\ s.dev_ifs \in [Devs -> SUBSET Links] /\ s.if_devs \in [Ifs -> SUBSET Links]
         /\ s.services \in [Devs -> Nat] /\ s.known \subseteq told
    BY <1>s DEF SsdpShape
  <1>11. SsdpArrays(t) /\ SsdpJoined(t)
    BY <1>2, <1>9 DEF SsdpGood, SsdpArrays, SsdpJoined, Ssdp!AllGroups
  <1>12. ASSUME NEW m \in Links, m \notin s.dev_ifs[d] PROVE t.link[m] = s.link[m]
    BY <1>9, <1>12 DEF Ssdp!LinksFreed
  <1>13. SsdpLinked(t)
    <2>1. ASSUME NEW e \in Devs, NEW m \in t.dev_ifs[e]
          PROVE  /\ t.link[m] \in SsdpLink /\ t.link[m] # <<>> /\ t.link[m].dev = e
                 /\ m \in t.if_devs[t.link[m].ifc]
      <3>1. e # d /\ m \in s.dev_ifs[e] /\ m \in Links
        BY <1>9, <1>10, <2>1
      <3>2. s.link[m] \in SsdpLink /\ s.link[m] # <<>> /\ s.link[m].dev = e /\ m \in s.if_devs[s.link[m].ifc]
        BY <3>1 DEF SsdpGood, SsdpLinked
      <3>3. m \notin s.dev_ifs[d]
        BY <3>1, <3>2 DEF SsdpGood, SsdpLinked
      <3>4. s.link[m].ifc \in Ifs
        BY <3>2 DEF SsdpLink
      <3>5. m \in Ssdp!OffInterfaces(s, s.dev_ifs[d])[s.link[m].ifc]
        BY <3>2, <3>3, <3>4 DEF Ssdp!OffInterfaces
      <3> QED  BY <1>9, <1>12, <3>1, <3>2, <3>3, <3>5
    <2>2. ASSUME NEW e \in Ifs, NEW m \in t.if_devs[e]
          PROVE  /\ t.link[m] \in SsdpLink /\ t.link[m] # <<>> /\ t.link[m].ifc = e
                 /\ m \in t.dev_ifs[t.link[m].dev]
                 /\ e \in Ssdp!Range(t.s_ifs) /\ t.link[m].dev \in Ssdp!Range(t.root_devs)
      <3>1. m \in s.if_devs[e] /\ m \in Links /\ ~(m \in s.dev_ifs[d] /\ s.link[m].ifc = e)
        BY <1>9, <1>10, <2>2 DEF Ssdp!OffInterfaces
      <3>2. /\ s.link[m] \in SsdpLink /\ s.link[m] # <<>> /\ s.link[m].ifc = e /\ m \in s.dev_ifs[s.link[m].dev]
            /\ e \in Ssdp!Range(s.s_ifs) /\ s.link[m].dev \in Ssdp!Range(s.root_devs)
        BY <3>1 DEF SsdpGood, SsdpLinked
      <3>3. m \notin s.dev_ifs[d] /\ s.link[m].dev # d /\ t.link[m] = s.link[m]
        BY <1>12, <3>1, <3>2
      <3>4. s.link[m].dev \in Devs
        BY <3>2 DEF SsdpLink
      <3>5. m \in t.dev_ifs[t.link[m].dev]
        BY <1>9, <1>10, <3>2, <3>3, <3>4
      <3> QED  BY <1>2, <1>9, <3>2, <3>3, <3>5
    <2> QED  BY <2>1, <2>2 DEF SsdpLinked
  <1>14. SsdpSaid(t)
    <2> SUFFICES ASSUME s.byebye, NEW k \in t.known PROVE \E l \in Links : Said(t, k, l)
      BY <1>9 DEF SsdpSaid
    <2>1. k \in s.known /\ k \notin Ssdp!Datagrams(s, d) /\ k \in told
      BY <1>4, <1>9, <1>10
    <2>2. PICK l \in Links : Said(s, k, l)
      BY <2>1 DEF SsdpGood, SsdpSaid
    <2>3. k[1] # d
      BY <1>s, <2>1, <2>2, DatagramsAre DEF SsdpGood
    <2>4. k[1] \in Devs
      BY <2>1
    <2>5. s.link[l].dev = k[1]
      BY <2>2, <2>4 DEF Said, SsdpGood, SsdpLinked
    <2>6. l \notin s.dev_ifs[d]
      BY <2>3, <2>5 DEF SsdpGood, SsdpLinked
    <2>7. t.link[l] = s.link[l] /\ t.dev_ifs[k[1]] = s.dev_ifs[k[1]] /\ t.services[k[1]] = s.services[k[1]]
      BY <1>9, <1>10, <1>12, <2>3, <2>4, <2>6
    <2>8. Said(t, k, l)
      BY <1>9, <2>2, <2>7 DEF Said, Ssdp!AllGroups, Ssdp!NotifyTypes
    <2> QED  BY <2>8
  <1> QED  BY <1>8, <1>9, <1>11, <1>13, <1>14 DEF SsdpGood, t

\* Every step of the announcer keeps the invariant.
LEMMA SsdpNextGood == SsdpInv /\ Ssdp!Next => SsdpInv'
  <1> SUFFICES ASSUME SsdpInv, Ssdp!Next PROVE SsdpInv'
    OBVIOUS
  <1>g. Ssdp!Running => SsdpGood(ssdp)
    BY DEF SsdpInv, Ssdp!Running
  <1>i. SsdpGood(ssdp') => SsdpInv'
    BY DEF SsdpInv, SsdpGood, SsdpShape, SsdpArrays, SsdpLinked, SsdpJoined, SsdpSaid, Said
  <1>1. ASSUME NEW d \in Devs, Ssdp!upnp_ssdp_dev_add(d) PROVE SsdpInv'
    <2>1. Ssdp!Running /\ d \notin Ssdp!Range(ssdp.root_devs)
      BY <1>1 DEF Ssdp!upnp_ssdp_dev_add
    <2>2. ssdp' = [ssdp EXCEPT !.root_devs = Append(ssdp.root_devs, d), !.timers = ssdp.timers \cup {d}]
      BY <1>1 DEF Ssdp!upnp_ssdp_dev_add
    <2> QED  BY <1>g, <1>i, <2>1, <2>2, SsdpDevAdds
  <1>2. ASSUME NEW d \in Devs, Ssdp!upnp_ssdp_dev_del(d) PROVE SsdpInv'
    BY <1>2, <1>g, <1>i, SsdpDeletes DEF Ssdp!upnp_ssdp_dev_del
  <1>3. ASSUME NEW d \in Devs, Ssdp!upnp_ssdp_svc_add(d) PROVE SsdpInv'
    <2>1. Ssdp!Running
      BY <1>3 DEF Ssdp!upnp_ssdp_svc_add
    <2>2. ssdp' = [ssdp EXCEPT !.services[d] = ssdp.services[d] + 1]
      BY <1>3 DEF Ssdp!upnp_ssdp_svc_add
    <2> QED  BY <1>g, <1>i, <2>1, <2>2, SsdpSvcAdds
  <1>4. ASSUME NEW d \in Devs, Ssdp!upnp_ssdp_timer_cb(d) PROVE SsdpInv'
    <2>1. SsdpGood(ssdp)
      BY <1>4, <1>g DEF Ssdp!upnp_ssdp_timer_cb
    <2>2. ssdp' = [ssdp EXCEPT !.known = ssdp.known \cup Ssdp!Datagrams(ssdp, d)]
      BY <1>4 DEF Ssdp!upnp_ssdp_timer_cb, Ssdp!upnp_ssdp_dev_notify_sendto_mc
    <2>3. \A k \in Ssdp!Datagrams(ssdp, d) :
             /\ k \in Devs \X Ifs \X {"v4", "site", "link"} \X Int
             /\ \E l \in Links : Said(ssdp, k, l)
      BY <2>1, DatagramsAre DEF SsdpGood
    <2> QED  BY <1>i, <2>1, <2>2, <2>3, SsdpSays
  <1>5. ASSUME NEW d \in Devs, NEW f \in Ifs, NEW l \in Links, NEW urls \in Urls,
               Ssdp!upnp_ssdp_dev_if_add(d, f, l, urls)
        PROVE  SsdpInv'
    <2> DEFINE s == IF Ssdp!upnp_ssdp_get_if_by_index(ssdp, f) THEN ssdp ELSE Ssdp!Joined(ssdp, f)
    <2>1. /\ SsdpGood(ssdp) /\ d \in Ssdp!Range(ssdp.root_devs) /\ ssdp.link[l] = <<>>
          /\ \/ ssdp' = [s EXCEPT !.link[l] = [dev |-> d, ifc |-> f, urls |-> urls],
                                  !.dev_ifs[d] = @ \cup {l}, !.if_devs[f] = @ \cup {l}]
             \/ ssdp' = s
      BY <1>5, <1>g DEF Ssdp!upnp_ssdp_dev_if_add
    <2>2. /\ SsdpGood(s) /\ f \in Ssdp!Range(s.s_ifs) /\ s.link = ssdp.link
          /\ s.root_devs = ssdp.root_devs
      BY <2>1, SsdpJoins DEF Ssdp!upnp_ssdp_get_if_by_index
    <2> HIDE DEF s
    <2>3. SsdpGood([s EXCEPT !.link[l] = [dev |-> d, ifc |-> f, urls |-> urls],
                             !.dev_ifs[d] = @ \cup {l}, !.if_devs[f] = @ \cup {l}])
      BY <2>1, <2>2, SsdpLinks
    <2> QED  BY <1>i, <2>1, <2>2, <2>3
  <1>6. CASE Ssdp!upnp_ssdp_send_notify
    <2> DEFINE new == UNION {Ssdp!Datagrams(ssdp, d) : d \in Ssdp!Range(ssdp.root_devs)}
    <2>1. SsdpGood(ssdp)
      BY <1>6, <1>g DEF Ssdp!upnp_ssdp_send_notify
    <2>2. ssdp' = [ssdp EXCEPT !.known = ssdp.known \cup new]
      BY <1>6 DEF Ssdp!upnp_ssdp_send_notify
    <2>3. Ssdp!Range(ssdp.root_devs) \subseteq Devs
      BY <2>1 DEF SsdpGood, SsdpShape, Ssdp!Range
    <2>4. \A k \in new : /\ k \in Devs \X Ifs \X {"v4", "site", "link"} \X Int
                         /\ \E l \in Links : Said(ssdp, k, l)
      BY <2>1, <2>3, DatagramsAre DEF SsdpGood
    <2> HIDE DEF new
    <2> QED  BY <1>i, <2>1, <2>2, <2>4, SsdpSays
  <1>7. ASSUME NEW f, NEW p, NEW st, Ssdp!upnp_ssdp_mc_recv_cb(f, p, st) PROVE SsdpInv'
    BY <1>7, <1>g, <1>i DEF Ssdp!upnp_ssdp_mc_recv_cb
  <1>8. CASE Ssdp!upnp_ssdp_destroy
    <2>1. SsdpShape(ssdp)
      BY <1>8, <1>g DEF Ssdp!upnp_ssdp_destroy, SsdpGood
    <2>2. ssdp'.st = "destroyed"
      BY <1>8, <2>1 DEF Ssdp!upnp_ssdp_destroy, SsdpShape
    <2> QED  BY <2>2 DEF SsdpInv
  <1> QED
    BY <1>1, <1>2, <1>3, <1>4, <1>5, <1>6, <1>7, <1>8 DEF Ssdp!Next

\* What the invariant says of the network and of searches.
LEMMA SsdpGoodIs == SsdpInv => Ssdp!NoGhost /\ Ssdp!LinksAgree
  <1> SUFFICES ASSUME SsdpGood(ssdp) PROVE Ssdp!NoGhost /\ Ssdp!LinksAgree
    BY DEF SsdpInv, Ssdp!NoGhost, Ssdp!LinksAgree, Ssdp!Running
  <1>1. Ssdp!LinksAgree
    BY DEF SsdpGood, SsdpLinked, Ssdp!LinksAgree, Ssdp!Live
  <1>2. ASSUME ssdp.byebye, NEW k \in ssdp.known
        PROVE  k[1] \in Ssdp!Range(ssdp.root_devs) /\ <<k[2], k[3]>> \in ssdp.joined
    <2>1. PICK l \in Links : Said(ssdp, k, l)
      BY <1>2 DEF SsdpGood, SsdpSaid
    <2>2. k[1] \in Devs
      BY <1>2 DEF SsdpGood, SsdpShape
    <2>3. ssdp.link[l] \in SsdpLink /\ ssdp.link[l].dev = k[1] /\ l \in ssdp.if_devs[ssdp.link[l].ifc]
      BY <2>1, <2>2 DEF Said, SsdpGood, SsdpLinked
    <2>4. ssdp.link[l].ifc \in Ifs
      BY <2>3 DEF SsdpLink
    <2>5. k[1] \in Ssdp!Range(ssdp.root_devs) /\ k[2] \in Ssdp!Range(ssdp.s_ifs)
      BY <2>1, <2>3, <2>4 DEF Said, SsdpGood, SsdpLinked
    <2> QED  BY <2>1, <2>5 DEF Said, SsdpGood, SsdpJoined
  <1>3. ASSUME NEW f \in Ifs, NEW p \in ssdp.proto, NEW a \in Ssdp!Answers(f, p, <<"all">>)
        PROVE  a[1] \in Ssdp!Range(ssdp.root_devs) /\ a[2] \in Ssdp!NotifyTypes(ssdp, a[1])
    <2>1. PICK l \in ssdp.if_devs[f] :
             \E nt \in Ssdp!Matches(ssdp, l, <<"all">>) : a = <<ssdp.link[l].dev, nt>>
      BY <1>3 DEF Ssdp!Answers
    <2>2. Ssdp!Matches(ssdp, l, <<"all">>) = Ssdp!NotifyTypes(ssdp, ssdp.link[l].dev)
      BY DEF Ssdp!Matches
    <2>3. ssdp.link[l].dev \in Ssdp!Range(ssdp.root_devs)
      BY <2>1 DEF SsdpGood, SsdpLinked
    <2> QED  BY <2>1, <2>2, <2>3
  <1>4. Ssdp!NoGhost
    BY <1>2, <1>3 DEF Ssdp!NoGhost
  <1> QED  BY <1>1, <1>4

(* upnp_ssdp.c: with byebye on, nothing the network was told of a device   *)
(* outlives it, searches are answered only for what exists, and no array   *)
(* holds a link that was freed: for any devices, interfaces, links and     *)
(* services, in whichever order they come and go.                          *)
THEOREM SsdpLeavesNoGhost == Services => []SsdpNoGhost
  <1> DEFINE Inv == part = "ssdp" => SsdpInv
  <1>1. ServicesInit => Inv
    BY SsdpInitGood DEF ServicesInit
  <1>2. Inv /\ [ServicesNext]_all => Inv'
    <2> SUFFICES ASSUME Inv, [ServicesNext]_all PROVE Inv'
      OBVIOUS
    <2>1. CASE SsdpStep
      BY <2>1, SsdpNextGood DEF SsdpStep
    <2>2. CASE UNCHANGED <<part, ssdp>>
      BY <2>2 DEF SsdpInv
    <2> QED
      BY <2>1, <2>2 DEF ServicesNext, AcceptStep, HttpStep, RadiusStep, SapStep, all
  <1>3. Inv => SsdpNoGhost
    BY SsdpGoodIs DEF SsdpNoGhost
  <1> QED  BY <1>1, <1>2, <1>3, PTL DEF Services

-----------------------------------------------------------------------------
(* SAP *)

SapKeys == {Sap!sdp_msg_type_get(p.msg, "o") : p \in Packets}

\* An item of the cache: with what it is filled in is of no account.
SapItem == [id : SapKeys, flags : {0, 1},
            addr : {"none"} \cup {Sap!sdp_msg_type_get(p.msg, "c")[3].text : p \in Packets},
            port : {0} \cup {Sap!sdp_msg_type_get(p.msg, "m")[2].text : p \in Packets},
            media_proto : 0 .. 3,
            name : {<<>>} \cup {Sap!sdp_msg_type_get(p.msg, "s") : p \in Packets},
            valid_untill : Nat]

SapCache == [Buckets -> Seq(SapItem)]

\* The items of a bucket are of different sessions, which hash to it.
SapBucket(b, items) ==
    /\ \A x \in 1 .. Len(items) : hash_fn(items[x].id) = b
    /\ \A x, y \in 1 .. Len(items) : items[x].id = items[y].id => x = y
SapUnique(c) == \A b \in Buckets : SapBucket(b, c[b])

\* The item of a session that was heard of, valid from then on.
SapItemOf(items, o, time) ==
    \E x \in 1 .. Len(items) : items[x].id = o /\ items[x].valid_untill = time + CACHE_TIME
SapHeard(c, time, h) ==
    \A o \in DOMAIN h :
        h[o] + CACHE_TIME + CLEAN_INTERVAL > time => SapItemOf(c[hash_fn(o)], o, h[o])

SapTimes == /\ now \in Nat /\ next_clean_time \in Nat
            /\ DOMAIN heard \subseteq SapKeys /\ heard \in [DOMAIN heard -> Nat]
SapInv == SapTimes /\ dcache \in SapCache /\ SapUnique(dcache) /\ SapHeard(dcache, now, heard)

\* data_cache_item_get(): the item of the key, or there is none.
LEMMA ItemGetIs ==
    ASSUME NEW c \in SapCache, NEW key \in SapKeys
    PROVE  LET items == c[hash_fn(key)]
               x == Sap!data_cache_item_get(c, key)
           IN  \/ x = 0 /\ \A y \in 1 .. Len(items) : items[y].id # key
               \/ x \in 1 .. Len(items) /\ items[x].id = key
  <1> DEFINE items == c[hash_fn(key)]
             found == {y \in 1 .. Len(items) : items[y].id = key}
             x == Sap!data_cache_item_get(c, key)
  <1>1. hash_fn(key) \in Buckets
    BY SapAssumption DEF SapKeys
  <1>2. items \in Seq(SapItem) /\ Len(items) \in Nat
    BY <1>1 DEF SapCache
  <1>3. x = IF found # {} THEN Sap!Min(found) ELSE 0
    BY DEF Sap!data_cache_item_get, Sap!SelectInSeq, Sap!data_cache_get_bucket, Sap!sap_data_cache_cmp_data
  <1>4. ASSUME found # {} PROVE Sap!Min(found) \in found
    <2>0. found \subseteq Nat
      BY <1>2
    <2>1. \E least \in found : \A b \in found : least <= b
      <3> HIDE DEF found
      <3> QED  BY <1>4, <2>0, LeastOf
    <2> QED  BY <2>1 DEF Sap!Min
  <1> QED  BY <1>3, <1>4

\* The walk along a bucket computes what its equation says.
LEMMA CleanedIs ==
    ASSUME NEW items, Len(items) \in Nat
    PROVE  \E upto :
              /\ upto = [k \in 0 .. Len(items) |->
                            IF k = 0 THEN <<>>
                            ELSE IF Sap!Stays(items[k]) THEN Append(upto[k - 1], items[k]) ELSE upto[k - 1]]
              /\ Sap!Cleaned(items) = upto[Len(items)]
  <1> DEFINE Step(u, k) == IF k = 0 THEN <<>>
                           ELSE IF Sap!Stays(items[k]) THEN Append(u[k - 1], items[k]) ELSE u[k - 1]
             T == {m \in Nat : \E u : u = [k \in 0 .. m |-> Step(u, k)]}
  <1>1. 0 \in T
    <2> DEFINE u == [k \in 0 .. 0 |-> <<>>]
    <2>1. u = [k \in 0 .. 0 |-> Step(u, k)]
      OBVIOUS
    <2> QED  BY <2>1
  <1>2. ASSUME NEW m \in 1 .. Len(items), m - 1 \in T PROVE m \in T
    <2>1. PICK v : v = [k \in 0 .. m - 1 |-> Step(v, k)]
      BY <1>2
    <2> DEFINE u == [k \in 0 .. m |-> IF k = m THEN Step(v, m) ELSE v[k]]
    <2>2. \A k \in 0 .. m - 1 : u[k] = v[k]
      BY <1>2
    <2>3. \A k \in 0 .. m : u[k] = Step(u, k)
      <3> SUFFICES ASSUME NEW k \in 0 .. m PROVE u[k] = Step(u, k)
        OBVIOUS
      <3>1. CASE k = m
        BY <1>2, <2>2, <3>1
      <3>2. CASE k # m
        <4>1. k \in 0 .. m - 1
          BY <1>2, <3>2
        <4>2. v[k] = Step(v, k)
          BY <2>1, <4>1
        <4> QED  BY <1>2, <2>2, <4>1, <4>2
      <3> QED  BY <3>1, <3>2
    <2>4. u = [k \in 0 .. m |-> Step(u, k)]
      BY <2>3
    <2>5. \E w : w = [k \in 0 .. m |-> Step(w, k)]
      <3> HIDE DEF Step, u
      <3> QED  BY <2>4, Zenon
    <2>6. m \in Nat
      BY <1>2
    <2> QED  BY <2>5, <2>6
  <1>3. Len(items) \in T
    <2>1. \A b \in 1 .. Len(items) : b - 1 \in T => b \in T
      <3> HIDE DEF T
      <3> QED  BY <1>2
    <2>2. Len(items) \in 0 .. Len(items)
      OBVIOUS
    <2> HIDE DEF T
    <2> QED  BY <1>1, <2>1, <2>2, Counting, Zenon
  <1>4. \E u : u = [k \in 0 .. Len(items) |-> Step(u, k)]
    BY <1>3
  <1> DEFINE upto == CHOOSE u : u = [k \in 0 .. Len(items) |-> Step(u, k)]
  <1>5. upto = [k \in 0 .. Len(items) |-> Step(upto, k)]
    BY <1>4
  <1>6. Sap!Cleaned(items) = upto[Len(items)]
    BY DEF Sap!Cleaned
  <1> QED  BY <1>5, <1>6

\* Cleaning a bucket keeps the items that stay, and they only.
LEMMA CleanedKeeps ==
    ASSUME NEW b, NEW items \in Seq(SapItem), SapBucket(b, items)
    PROVE  /\ Sap!Cleaned(items) \in Seq(SapItem) /\ SapBucket(b, Sap!Cleaned(items))
           /\ \A x \in 1 .. Len(items) : Sap!Stays(items[x]) =>
                 \E y \in 1 .. Len(Sap!Cleaned(items)) : Sap!Cleaned(items)[y] = items[x]
  <1>1. Len(items) \in Nat
    OBVIOUS
  <1>2. PICK upto :
           /\ upto = [k \in 0 .. Len(items) |->
                         IF k = 0 THEN <<>>
                         ELSE IF Sap!Stays(items[k]) THEN Append(upto[k - 1], items[k]) ELSE upto[k - 1]]
           /\ Sap!Cleaned(items) = upto[Len(items)]
    BY <1>1, CleanedIs
  <1>3. /\ upto[0] = <<>>
        /\ \A k \in 1 .. Len(items) :
              upto[k] = IF Sap!Stays(items[k]) THEN Append(upto[k - 1], items[k]) ELSE upto[k - 1]
    <2>1. 0 \in 0 .. Len(items)
      BY <1>1
    <2>2. upto[0] = <<>>
      BY <1>2, <2>1
    <2>3. ASSUME NEW k \in 1 .. Len(items)
          PROVE  upto[k] = IF Sap!Stays(items[k]) THEN Append(upto[k - 1], items[k]) ELSE upto[k - 1]
      <3>1. k \in 0 .. Len(items) /\ k # 0
        BY <1>1
      <3> QED  BY <1>2, <3>1
    <2> QED  BY <2>2, <2>3
  <1> DEFINE From(k) == \A y \in 1 .. Len(upto[k]) : \E x \in 1 .. k : upto[k][y] = items[x]
             All(k) == \A x \in 1 .. k : Sap!Stays(items[x]) =>
                          \E y \in 1 .. Len(upto[k]) : upto[k][y] = items[x]
             Good(k) == upto[k] \in Seq(SapItem) /\ SapBucket(b, upto[k]) /\ From(k) /\ All(k)
             T == {k \in 0 .. Len(items) : Good(k)}
  <1>4. 0 \in T
    <2>1. upto[0] = <<>> /\ Len(<<>>) = 0 /\ <<>> \in Seq(SapItem)
      BY <1>3
    <2>2. Good(0)
      BY <2>1 DEF SapBucket
    <2>3. 0 \in 0 .. Len(items)
      BY <1>1
    <2> HIDE DEF Good
    <2> QED  BY <2>2, <2>3
  <1>5. ASSUME NEW k \in 1 .. Len(items), k - 1 \in T PROVE k \in T
    <2> DEFINE old == upto[k - 1]
    <2>1. old \in Seq(SapItem) /\ SapBucket(b, old) /\ From(k - 1) /\ All(k - 1)
      BY <1>5
    <2>2. items[k] \in SapItem /\ hash_fn(items[k].id) = b
      BY <1>5 DEF SapBucket
    <2>3. \A y \in 1 .. Len(old) : old[y].id # items[k].id
      <3> SUFFICES ASSUME NEW y \in 1 .. Len(old), old[y].id = items[k].id PROVE FALSE
        OBVIOUS
      <3>1. PICK x \in 1 .. k - 1 : old[y] = items[x]
        BY <2>1
      <3> QED  BY <1>5, <3>1 DEF SapBucket
    <2>4. CASE Sap!Stays(items[k])
      <3>1. upto[k] = Append(old, items[k])
        BY <1>3, <2>4
      <3>2. /\ upto[k] \in Seq(SapItem) /\ Len(upto[k]) = Len(old) + 1 /\ Len(old) \in Nat
            /\ \A y \in 1 .. Len(old) + 1 : upto[k][y] = IF y = Len(old) + 1 THEN items[k] ELSE old[y]
        BY <2>1, <2>2, <3>1
      <3> HIDE DEF old
      <3>3. SapBucket(b, upto[k])
        <4>1. \A y \in 1 .. Len(old) : hash_fn(old[y].id) = b
          BY <2>1 DEF SapBucket
        <4>2. \A y, z \in 1 .. Len(old) : old[y].id = old[z].id => y = z
          BY <2>1 DEF SapBucket
        <4>3. ASSUME NEW y \in 1 .. Len(upto[k]) PROVE hash_fn(upto[k][y].id) = b
          <5>1. CASE y = Len(old) + 1
            BY <2>2, <3>2, <5>1
          <5>2. CASE y # Len(old) + 1
            <6>1. y \in 1 .. Len(old) /\ upto[k][y] = old[y]
              BY <3>2, <5>2
            <6> QED  BY <4>1, <6>1
          <5> QED  BY <5>1, <5>2
        <4>4. ASSUME NEW y \in 1 .. Len(upto[k]), NEW z \in 1 .. Len(upto[k]),
                     upto[k][y].id = upto[k][z].id
              PROVE  y = z
          <5>1. CASE y = Len(old) + 1 /\ z = Len(old) + 1
            BY <5>1
          <5>2. CASE y = Len(old) + 1 /\ z # Len(old) + 1
            <6>1. z \in 1 .. Len(old) /\ upto[k][z] = old[z] /\ upto[k][y] = items[k]
              BY <3>2, <5>2
            <6> QED  BY <2>3, <4>4, <6>1
          <5>3. CASE y # Len(old) + 1 /\ z = Len(old) + 1
            <6>1. y \in 1 .. Len(old) /\ upto[k][y] = old[y] /\ upto[k][z] = items[k]
              BY <3>2, <5>3
            <6> QED  BY <2>3, <4>4, <6>1
          <5>4. CASE y # Len(old) + 1 /\ z # Len(old) + 1
            <6>1. /\ y \in 1 .. Len(old) /\ upto[k][y] = old[y]
                  /\ z \in 1 .. Len(old) /\ upto[k][z] = old[z]
              BY <3>2, <5>4
            <6> QED  BY <4>2, <4>4, <6>1
          <5> QED  BY <5>1, <5>2, <5>3, <5>4
        <4> QED  BY <4>3, <4>4 DEF SapBucket
      <3>4. From(k)
        <4> SUFFICES ASSUME NEW y \in 1 .. Len(upto[k])
                     PROVE  \E x \in 1 .. k : upto[k][y] = items[x]
          OBVIOUS
        <4>1. CASE y = Len(old) + 1
          <5>1. upto[k][y] = items[k] /\ k \in 1 .. k
            BY <1>5, <3>2, <4>1
          <5> QED  BY <5>1
        <4>2. CASE y # Len(old) + 1
          <5>1. y \in 1 .. Len(old) /\ upto[k][y] = old[y]
            BY <3>2, <4>2
          <5>2. PICK x \in 1 .. k - 1 : old[y] = items[x]
            BY <2>1, <5>1 DEF old
          <5> QED  BY <1>5, <5>1, <5>2
        <4> QED  BY <4>1, <4>2
      <3>5. All(k)
        <4> SUFFICES ASSUME NEW x \in 1 .. k, Sap!Stays(items[x])
                     PROVE  \E y \in 1 .. Len(upto[k]) : upto[k][y] = items[x]
          OBVIOUS
        <4>1. CASE x = k
          BY <3>2, <4>1
        <4>2. CASE x # k
          <5>1. x \in 1 .. k - 1
            BY <1>5, <4>2
          <5>2. PICK y \in 1 .. Len(old) : old[y] = items[x]
            BY <2>1, <5>1 DEF old
          <5> QED  BY <3>2, <5>2
        <4> QED  BY <4>1, <4>2
      <3>6. k \in 0 .. Len(items)
        BY <1>5
      <3> HIDE DEF From, All
      <3> QED  BY <3>2, <3>3, <3>4, <3>5, <3>6
    <2>5. CASE ~Sap!Stays(items[k])
      <3>1. upto[k] = old
        BY <1>3, <2>5
      <3>2. From(k)
        BY <1>5, <2>1, <3>1
      <3>3. All(k)
        <4> SUFFICES ASSUME NEW x \in 1 .. k, Sap!Stays(items[x])
                     PROVE  \E y \in 1 .. Len(upto[k]) : upto[k][y] = items[x]
          OBVIOUS
        <4>1. x \in 1 .. k - 1
          BY <1>5, <2>5
        <4> QED  BY <2>1, <3>1, <4>1
      <3>4. upto[k] \in Seq(SapItem) /\ SapBucket(b, upto[k])
        BY <2>1, <3>1
      <3>5. k \in 0 .. Len(items)
        BY <1>5
      <3> HIDE DEF From, All
      <3> QED  BY <3>2, <3>3, <3>4, <3>5
    <2> QED  BY <2>4, <2>5
  <1>6. Good(Len(items))
    <2>1. \A k \in 1 .. Len(items) : k - 1 \in T => k \in T
      <3> HIDE DEF T
      <3> QED  BY <1>5
    <2>2. Len(items) \in T
      <3>1. Len(items) \in 0 .. Len(items)
        BY <1>1
      <3> HIDE DEF T
      <3> QED  BY <1>1, <1>4, <2>1, <3>1, Counting, Zenon
    <2> QED  BY <2>2
  <1> QED  BY <1>2, <1>6

\* data_cache_clean(): sessions that are not long outdated stay.
LEMMA CleanKeeps ==
    ASSUME NEW c \in SapCache, SapUnique(c), SapTimes, NEW h,
           DOMAIN h \subseteq SapKeys, h \in [DOMAIN h -> Nat], SapHeard(c, now, h)
    PROVE  /\ Sap!data_cache_clean(c)[1] \in SapCache /\ Sap!data_cache_clean(c)[2] \in Nat
           /\ SapUnique(Sap!data_cache_clean(c)[1]) /\ SapHeard(Sap!data_cache_clean(c)[1], now, h)
  <1>1. CASE now < next_clean_time
    BY <1>1 DEF Sap!data_cache_clean, SapTimes
  <1>2. CASE ~(now < next_clean_time)
    <2> DEFINE d == [b \in Buckets |-> Sap!Cleaned(c[b])]
    <2>1. Sap!data_cache_clean(c) = <<d, now + CLEAN_INTERVAL>>
      BY <1>2 DEF Sap!data_cache_clean
    <2>2. ASSUME NEW b \in Buckets
          PROVE  /\ d[b] \in Seq(SapItem) /\ SapBucket(b, d[b])
                 /\ \A x \in 1 .. Len(c[b]) : Sap!Stays(c[b][x]) =>
                       \E y \in 1 .. Len(d[b]) : d[b][y] = c[b][x]
      <3>1. c[b] \in Seq(SapItem) /\ SapBucket(b, c[b])
        BY DEF SapCache, SapUnique
      <3> QED  BY <3>1, CleanedKeeps
    <2>3. d \in SapCache /\ SapUnique(d)
      BY <2>2 DEF SapCache, SapUnique
    <2>4. ASSUME NEW o \in DOMAIN h, h[o] + CACHE_TIME + CLEAN_INTERVAL > now
          PROVE  SapItemOf(d[hash_fn(o)], o, h[o])
      <3>1. hash_fn(o) \in Buckets
        BY SapAssumption DEF SapKeys
      <3>2. PICK x \in 1 .. Len(c[hash_fn(o)]) :
               /\ c[hash_fn(o)][x].id = o
               /\ c[hash_fn(o)][x].valid_untill = h[o] + CACHE_TIME
        BY <2>4 DEF SapHeard, SapItemOf
      <3>3. Sap!Stays(c[hash_fn(o)][x])
        <4>1. CACHE_TIME \in Nat /\ CLEAN_INTERVAL \in Nat /\ h[o] \in Nat /\ now \in Nat
          BY SapAssumption DEF SapTimes
        <4> QED  BY <2>4, <3>2, <4>1 DEF Sap!Stays
      <3>4. PICK y \in 1 .. Len(d[hash_fn(o)]) : d[hash_fn(o)][y] = c[hash_fn(o)][x]
        BY <2>2, <3>1, <3>3
      <3> QED  BY <3>2, <3>4 DEF SapItemOf
    <2>5. now + CLEAN_INTERVAL \in Nat
      BY SapAssumption DEF SapTimes
    <2> HIDE DEF d
    <2>6. SapHeard(d, now, h)
      BY <2>4 DEF SapHeard
    <2> QED  BY <2>1, <2>3, <2>5, <2>6
  <1> QED  BY <1>1, <1>2

\* data_cache_item_add(): the key has an item, and the others are as before.
LEMMA ItemAdds ==
    ASSUME NEW c \in SapCache, SapUnique(c), NEW key \in SapKeys, NEW time, NEW h,
           DOMAIN h \subseteq SapKeys, SapHeard(c, time, h)
    PROVE  LET d == Sap!data_cache_item_add(c, key)
               x == Sap!data_cache_item_get(d, key)
           IN  /\ d \in SapCache /\ SapUnique(d) /\ SapHeard(d, time, h)
               /\ x \in 1 .. Len(d[hash_fn(key)]) /\ d[hash_fn(key)][x].id = key
  <1> DEFINE d == Sap!data_cache_item_add(c, key)
             b == hash_fn(key)
             x == Sap!data_cache_item_get(d, key)
             item == Sap!sdp_lite_alloc(key)
             items == <<item>> \o c[b]
  <1>1. b \in Buckets
    BY SapAssumption DEF SapKeys
  <1>2. CASE Sap!data_cache_item_get(c, key) # 0
    <2>1. d = c
      BY <1>2 DEF Sap!data_cache_item_add
    <2> QED  BY <1>2, <2>1, ItemGetIs
  <1>3. CASE Sap!data_cache_item_get(c, key) = 0
    <2>1. d = [c EXCEPT ![b] = items]
      BY <1>3 DEF Sap!data_cache_item_add, Sap!data_cache_get_bucket
    <2>2. \A y \in 1 .. Len(c[b]) : c[b][y].id # key
      BY <1>3, ItemGetIs
    <2>3. item \in SapItem /\ item.id = key
      BY DEF Sap!sdp_lite_alloc, SapItem
    <2> HIDE DEF item, x, d
    <2>4. c[b] \in Seq(SapItem) /\ Len(c[b]) \in Nat
      BY <1>1 DEF SapCache
    <2>5. /\ items \in Seq(SapItem) /\ Len(items) = Len(c[b]) + 1
          /\ \A y \in 1 .. Len(c[b]) + 1 : items[y] = IF y = 1 THEN item ELSE c[b][y - 1]
      BY <2>3, <2>4
    <2>6. SapBucket(b, c[b])
      BY <1>1 DEF SapUnique
    <2> HIDE DEF items
    <2>7. SapBucket(b, items)
      <3>a. \A y \in 1 .. Len(c[b]) : hash_fn(c[b][y].id) = b
        BY <2>6 DEF SapBucket
      <3>b. \A y, z \in 1 .. Len(c[b]) : c[b][y].id = c[b][z].id => y = z
        BY <2>6 DEF SapBucket
      <3>1. ASSUME NEW y \in 1 .. Len(items) PROVE hash_fn(items[y].id) = b
        <4>1. CASE y = 1
          BY <2>3, <2>5, <4>1
        <4>2. CASE y # 1
          <5>1. y - 1 \in 1 .. Len(c[b]) /\ items[y] = c[b][y - 1]
            BY <2>4, <2>5, <4>2
          <5> QED  BY <3>a, <5>1
        <4> QED  BY <4>1, <4>2
      <3>2. ASSUME NEW y \in 1 .. Len(items), NEW z \in 1 .. Len(items), items[y].id = items[z].id
            PROVE  y = z
        <4>1. /\ y = 1 \/ (y - 1 \in 1 .. Len(c[b]) /\ items[y] = c[b][y - 1])
              /\ z = 1 \/ (z - 1 \in 1 .. Len(c[b]) /\ items[z] = c[b][z - 1])
          BY <2>4, <2>5
        <4>2. items[1] = item
          BY <2>4, <2>5
        <4>3. y \in Int /\ z \in Int
          OBVIOUS
        <4>4. CASE y = 1 \/ z = 1
          BY <2>2, <2>3, <3>2, <4>1, <4>2, <4>4
        <4>5. CASE y # 1 /\ z # 1
          <5>1. y - 1 = z - 1
            BY <3>2, <3>b, <4>1, <4>5
          <5> QED  BY <4>3, <5>1
        <4> QED  BY <4>4, <4>5
      <3> QED  BY <3>1, <3>2 DEF SapBucket
    <2>8. d \in SapCache /\ SapUnique(d) /\ d[b] = items
      BY <1>1, <2>1, <2>5, <2>7 DEF SapCache, SapUnique
    <2>9. SapHeard(d, time, h)
      <3> SUFFICES ASSUME NEW o \in DOMAIN h, h[o] + CACHE_TIME + CLEAN_INTERVAL > time
                   PROVE  SapItemOf(d[hash_fn(o)], o, h[o])
        BY DEF SapHeard
      <3>1. SapItemOf(c[hash_fn(o)], o, h[o])
        BY DEF SapHeard
      <3>2. CASE hash_fn(o) # b
        BY <1>1, <2>1, <3>1, <3>2 DEF SapCache
      <3>3. CASE hash_fn(o) = b
        <4>1. PICK y \in 1 .. Len(c[b]) : c[b][y].id = o /\ c[b][y].valid_untill = h[o] + CACHE_TIME
          BY <3>1, <3>3 DEF SapItemOf
        <4>2. y + 1 \in 1 .. Len(items) /\ items[y + 1] = c[b][y]
          BY <2>4, <2>5, <4>1
        <4> QED  BY <2>8, <3>3, <4>1, <4>2 DEF SapItemOf
      <3> QED  BY <3>2, <3>3
    <2>10. x \in 1 .. Len(items) /\ items[x].id = key
      <3>1. \/ x = 0 /\ \A y \in 1 .. Len(items) : items[y].id # key
            \/ x \in 1 .. Len(items) /\ items[x].id = key
        BY <2>8, ItemGetIs DEF x
      <3>2. 1 \in 1 .. Len(items) /\ items[1].id = key
        BY <2>3, <2>4, <2>5
      <3> QED  BY <3>1, <3>2
    <2> QED  BY <2>8, <2>9, <2>10 DEF x, d
  <1> QED  BY <1>2, <1>3

\* The item of the key is filled in anew and is valid from now on.
LEMMA ItemFresh ==
    ASSUME NEW c \in SapCache, SapUnique(c), SapTimes, NEW key \in SapKeys,
           SapHeard(c, now, heard),
           NEW x \in 1 .. Len(c[hash_fn(key)]), c[hash_fn(key)][x].id = key,
           NEW item \in SapItem, item.id = key, item.valid_untill = now + CACHE_TIME,
           NEW d, d = [c EXCEPT ![hash_fn(key)] = [c[hash_fn(key)] EXCEPT ![x] = item]],
           NEW h, h = [o \in DOMAIN heard \cup {key} |-> IF o = key THEN now ELSE heard[o]]
    PROVE  d \in SapCache /\ SapUnique(d) /\ SapHeard(d, now, h)
  <1> DEFINE b == hash_fn(key)
             items == [c[b] EXCEPT ![x] = item]
  <1>1. b \in Buckets
    BY SapAssumption DEF SapKeys
  <1>2. c[b] \in Seq(SapItem) /\ SapBucket(b, c[b])
    BY <1>1 DEF SapCache, SapUnique
  <1>3. /\ items \in Seq(SapItem) /\ Len(items) = Len(c[b])
        /\ \A y \in 1 .. Len(c[b]) : items[y] = IF y = x THEN item ELSE c[b][y]
    BY <1>2
  <1> HIDE DEF items
  <1>4. \A y \in 1 .. Len(c[b]) : items[y].id = c[b][y].id
    BY <1>3
  <1>5. SapBucket(b, items)
    BY <1>2, <1>3, <1>4 DEF SapBucket
  <1>6. d \in SapCache /\ SapUnique(d) /\ d[b] = items
    BY <1>1, <1>3, <1>5 DEF SapCache, SapUnique, items
  <1>7. ASSUME NEW o \in DOMAIN h, h[o] + CACHE_TIME + CLEAN_INTERVAL > now
        PROVE  SapItemOf(d[hash_fn(o)], o, h[o])
    <2>1. CASE o = key
      <3>1. h[o] = now
        BY <2>1
      <3> QED  BY <1>3, <1>6, <2>1, <3>1 DEF SapItemOf
    <2>2. CASE o # key
      <3>1. o \in DOMAIN heard /\ h[o] = heard[o]
        BY <1>7, <2>2
      <3>2. SapItemOf(c[hash_fn(o)], o, h[o])
        BY <1>7, <3>1 DEF SapHeard
      <3>3. CASE hash_fn(o) # b
        BY <3>2, <3>3 DEF SapCache
      <3>4. CASE hash_fn(o) = b
        <4>1. PICK y \in 1 .. Len(c[b]) : c[b][y].id = o /\ c[b][y].valid_untill = h[o] + CACHE_TIME
          BY <3>2, <3>4 DEF SapItemOf
        <4>2. y # x
          BY <2>2, <4>1
        <4>3. items[y] = c[b][y] /\ y \in 1 .. Len(items)
          BY <1>3, <4>1, <4>2
        <4> QED  BY <1>6, <3>4, <4>1, <4>3 DEF SapItemOf
      <3> QED  BY <3>3, <3>4
    <2> QED  BY <2>1, <2>2
  <1> QED  BY <1>6, <1>7 DEF SapHeard

\* sap_receiver_recv_cb() with a packet it does not refuse.
LEMMA SapReceives ==
    ASSUME SapInv, NEW p \in Packets, Sap!sap_receiver_recv_cb(p)
    PROVE  SapInv'
  <1> DEFINE msg   == Sap!sap_packet_get_payload(p)
             media == Sap!sdp_msg_type_get(msg, "m")
             key   == Sap!sdp_msg_type_get(msg, "o")
             conn  == Sap!sdp_msg_type_get(msg, "c")
             name  == Sap!sdp_msg_type_get(msg, "s")
             b     == hash_fn(key)
             added == Sap!data_cache_item_add(dcache, key)
             x     == Sap!data_cache_item_get(added, key)
             fresh == [added EXCEPT ![b][x].valid_untill = now + CACHE_TIME]
             full  == [fresh EXCEPT ![b][x] = [@ EXCEPT !.addr = conn[3].text, !.port = media[2].text,
                                                !.media_proto = Sap!MediaProto(media[3].text),
                                                !.name = name, !.flags = 1]]
             clean == Sap!data_cache_clean(full)
             h     == [o \in DOMAIN heard \cup {key} |-> IF o = key THEN now ELSE heard[o]]
  <1>1. /\ \/ dcache' = fresh /\ next_clean_time' = next_clean_time
           \/ dcache' = clean[1] /\ next_clean_time' = clean[2]
        /\ heard' = h /\ now' = now
    BY DEF Sap!sap_receiver_recv_cb, Sap!data_cache_get_bucket
  <1>2. key \in SapKeys
    BY DEF SapKeys, Sap!sap_packet_get_payload
  <1>3. /\ conn[3].text \in {Sap!sdp_msg_type_get(q.msg, "c")[3].text : q \in Packets}
        /\ media[2].text \in {Sap!sdp_msg_type_get(q.msg, "m")[2].text : q \in Packets}
        /\ name \in {Sap!sdp_msg_type_get(q.msg, "s") : q \in Packets}
    BY DEF Sap!sap_packet_get_payload
  <1>4. Sap!MediaProto(media[3].text) \in 0 .. 3
    BY DEF Sap!MediaProto
  <1> DEFINE addr == conn[3].text
             port == media[2].text
             proto == Sap!MediaProto(media[3].text)
  <1>5. SapTimes /\ dcache \in SapCache /\ SapUnique(dcache) /\ SapHeard(dcache, now, heard)
    BY DEF SapInv
  <1>6. /\ added \in SapCache /\ SapUnique(added) /\ SapHeard(added, now, heard)
        /\ x \in 1 .. Len(added[b]) /\ added[b][x].id = key
    <2> HIDE DEF key
    <2>1. DOMAIN heard \subseteq SapKeys
      BY <1>5 DEF SapTimes
    <2> QED  BY <1>2, <1>5, <2>1, ItemAdds
  <1> DEFINE old == added[b][x]
             item1 == [old EXCEPT !.valid_untill = now + CACHE_TIME]
             item2 == [item1 EXCEPT !.addr = addr, !.port = port, !.media_proto = proto,
                                    !.name = name, !.flags = 1]
  <1>b. b \in Buckets
    BY <1>2, SapAssumption DEF SapKeys
  <1> HIDE DEF added, x, key, conn, media, name, addr, port, proto, b
  <1>7. added[b] \in Seq(SapItem) /\ old \in SapItem
    BY <1>6, <1>b DEF SapCache
  <1>8. now \in Nat /\ now + CACHE_TIME \in Nat
    BY <1>5, SapAssumption DEF SapTimes
  <1>9. item1 \in SapItem /\ item1.id = key /\ item1.valid_untill = now + CACHE_TIME
    BY <1>6, <1>7, <1>8 DEF SapItem
  <1>10. fresh = [added EXCEPT ![b] = [added[b] EXCEPT ![x] = item1]]
    OBVIOUS
  <1> HIDE DEF fresh, item1
  <1>11. item2 \in SapItem /\ item2.id = key /\ item2.valid_untill = now + CACHE_TIME
    BY <1>3, <1>4, <1>9 DEF SapItem, addr, port, proto
  <1>12. fresh[b] = [added[b] EXCEPT ![x] = item1] /\ fresh[b][x] = item1 /\ fresh \in SapCache
    <2>1. [added[b] EXCEPT ![x] = item1] \in Seq(SapItem)
      BY <1>6, <1>7, <1>9
    <2>2. [added[b] EXCEPT ![x] = item1][x] = item1
      BY <1>6, <1>7
    <2> QED  BY <1>6, <1>b, <1>10, <2>1, <2>2 DEF SapCache
  <1>13. full = [fresh EXCEPT ![b] = [fresh[b] EXCEPT ![x] = item2]]
    BY <1>12 DEF addr, port, proto
  <1> HIDE DEF full, item2
  <1>14. full = [added EXCEPT ![b] = [added[b] EXCEPT ![x] = item2]]
    <2>1. [fresh[b] EXCEPT ![x] = item2] = [added[b] EXCEPT ![x] = item2]
      BY <1>6, <1>7, <1>12
    <2> QED  BY <1>6, <1>b, <1>10, <1>13, <2>1 DEF SapCache
  <1>15. fresh \in SapCache /\ SapUnique(fresh) /\ SapHeard(fresh, now, h)
    BY <1>2, <1>5, <1>6, <1>9, <1>10, ItemFresh DEF b
  <1>16. full \in SapCache /\ SapUnique(full) /\ SapHeard(full, now, h)
    BY <1>2, <1>5, <1>6, <1>11, <1>14, ItemFresh DEF b
  <1>17. DOMAIN h \subseteq SapKeys /\ h \in [DOMAIN h -> Nat]
    BY <1>2, <1>5 DEF SapTimes
  <1> HIDE DEF h
  <1>18. /\ clean[1] \in SapCache /\ clean[2] \in Nat
         /\ SapUnique(clean[1]) /\ SapHeard(clean[1], now, h)
    BY <1>5, <1>16, <1>17, CleanKeeps
  <1> HIDE DEF clean
  <1>19. SapTimes'
    BY <1>1, <1>5, <1>17, <1>18 DEF SapTimes
  <1>20. dcache' \in SapCache /\ SapUnique(dcache') /\ SapHeard(dcache', now', heard')
    BY <1>1, <1>15, <1>18
  <1> QED  BY <1>19, <1>20 DEF SapInv, SapUnique, SapHeard

\* Every step of the receiver keeps the invariant.
LEMMA SapNextGood == SapInv /\ Sap!Next => SapInv'
  <1> SUFFICES ASSUME SapInv, Sap!Next PROVE SapInv'
    OBVIOUS
  <1>1. CASE Sap!Tick
    <2>1. /\ now' = now + 1 /\ dcache' = dcache /\ next_clean_time' = next_clean_time /\ heard' = heard
      BY <1>1 DEF Sap!Tick
    <2>2. SapTimes'
      BY <2>1 DEF SapInv, SapTimes
    <2>3. SapHeard(dcache, now + 1, heard)
      BY SapAssumption DEF SapInv, SapTimes, SapHeard
    <2> QED  BY <2>1, <2>2, <2>3 DEF SapInv, SapUnique, SapHeard
  <1> QED  BY <1>1, SapReceives DEF Sap!Next

\* The invariant says that sessions are kept.
LEMMA SapGoodIs == SapInv => Sap!SessionsKept
  <1> SUFFICES ASSUME SapInv PROVE Sap!SessionsKept
    OBVIOUS
  <1>1. ASSUME NEW o \in DOMAIN heard, heard[o] + CACHE_TIME + CLEAN_INTERVAL > now
        PROVE  Sap!data_cache_item_get(dcache, o) # 0
    <2>1. o \in SapKeys
      BY DEF SapInv, SapTimes
    <2>2. \E x \in 1 .. Len(dcache[hash_fn(o)]) : dcache[hash_fn(o)][x].id = o
      BY <1>1 DEF SapInv, SapHeard, SapItemOf
    <2>3. Len(dcache[hash_fn(o)]) \in Nat
      BY <2>1, SapAssumption DEF SapInv, SapCache, SapKeys
    <2>4. LET items == dcache[hash_fn(o)]
              x == Sap!data_cache_item_get(dcache, o)
          IN  \/ x = 0 /\ \A y \in 1 .. Len(items) : items[y].id # o
              \/ x \in 1 .. Len(items) /\ items[x].id = o
      BY <2>1, ItemGetIs DEF SapInv
    <2> QED  BY <2>2, <2>3, <2>4
  <1>2. ASSUME NEW b \in Buckets, NEW x \in DOMAIN dcache[b], NEW y \in DOMAIN dcache[b]
        PROVE  /\ hash_fn(dcache[b][x].id) = b
               /\ dcache[b][x].id = dcache[b][y].id => x = y
    <2>1. DOMAIN dcache[b] = 1 .. Len(dcache[b])
      BY DEF SapInv, SapCache
    <2> QED  BY <1>2, <2>1 DEF SapInv, SapUnique, SapBucket
  <1> QED  BY <1>1, <1>2 DEF Sap!SessionsKept

(* sap_rcvr.c, data_cache.c: the cache holds one item per session and      *)
(* drops none before it has been silent for the cache time and the clean   *)
(* interval: for any announcements, times and number of buckets, whichever *)
(* announcement starts the cleaning.                                       *)
THEOREM SapKeepsSessions == Services => []SapSessionsKept
  <1> DEFINE Inv == part = "sap" => SapInv
  <1>1. ServicesInit => Inv
    <2> SUFFICES ASSUME Sap!Init PROVE SapInv
      BY DEF ServicesInit
    <2>1. SapTimes
      BY SapAssumption DEF Sap!Init, SapTimes
    <2>2. dcache \in SapCache
      BY DEF Sap!Init, Sap!data_cache_create, SapCache
    <2>3. SapUnique(dcache)
      BY DEF Sap!Init, Sap!data_cache_create, SapUnique, SapBucket
    <2>4. SapHeard(dcache, now, heard)
      BY DEF Sap!Init, SapHeard
    <2> QED  BY <2>1, <2>2, <2>3, <2>4 DEF SapInv
  <1>2. Inv /\ [ServicesNext]_all => Inv'
    <2> SUFFICES ASSUME Inv, [ServicesNext]_all PROVE Inv'
      OBVIOUS
    <2>1. CASE SapStep
      BY <2>1, SapNextGood DEF SapStep
    <2>2. CASE UNCHANGED <<part, dcache, next_clean_time, now, heard>>
      BY <2>2 DEF SapInv, SapTimes, SapUnique, SapHeard
    <2> QED
      BY <2>1, <2>2 DEF ServicesNext, AcceptStep, HttpStep, RadiusStep, SsdpStep, all, SapVars
  <1>3. Inv => SapSessionsKept
    BY SapGoodIs DEF SapSessionsKept
  <1> QED  BY <1>1, <1>2, <1>3, PTL DEF Services

-----------------------------------------------------------------------------
(* HTTP *)

ConnFields == {"st", "arm", "timer", "every", "data", "size", "off", "tr", "gen", "req", "resp",
               "buf", "half", "next", "held", "bnd", "seen", "out"}
IsOut(out) == \E S : out \in Seq(S)
IsConn(c) == DOMAIN c = ConnFields /\ IsOut(c.out)

\* A connection that has answered and holds the headers of the next request; one
\* somebody will come back to; and what a handler may return for a connection
\* whose task was in state a: with CONTINUE its caller goes on with it.
Left(c) == c.out # <<>> /\ Http!HasHeaders(c)
Cared(c) ==
    (c.st = "open" /\ c.held = "no") => (c.arm # "no" \/ c.timer \/ (~srv.rcv /\ Left(c)))
Cares(r, a) == /\ IsConn(r[1])
               /\ IF r[2] = "CONTINUE" THEN r[1].arm = a \/ Left(r[1]) ELSE Cared(r[1])
Alike(c, d) == d.arm = c.arm /\ d.data = c.data /\ d.out = c.out

\* A response more is a response.
LEMMA OutIs ==
    ASSUME NEW out, IsOut(out), NEW a
    PROVE  IsOut(Append(out, a)) /\ Append(out, a) # <<>>
  <1>1. PICK S : out \in Seq(S)
    BY DEF IsOut
  <1>2. out \in Seq(S \cup {a})
    BY <1>1
  <1>3. Append(out, a) \in Seq(S \cup {a}) /\ Len(Append(out, a)) = Len(out) + 1 /\ Len(out) \in Nat
    BY <1>2
  <1>4. Append(out, a) # <<>>
    BY <1>3
  <1>5. IsOut(Append(out, a))
    BY <1>3, Zenon DEF IsOut
  <1> QED  BY <1>4, <1>5

\* Two connections that agree on buffer and responses agree on what is left.
LEMMA AlikeLeft ==
    ASSUME NEW c, NEW d, c.data = d.data, c.out = d.out, Left(c)
    PROVE  Left(d)
  BY DEF Left, Http!HasHeaders, Http!Used

\* A connection before it is accepted has all its fields.
LEMMA NoCliIs == IsConn(Http!NoCli) /\ Http!NoCli.st = "none"
  <1>1. DOMAIN Http!NoCli = ConnFields /\ Http!NoCli.out = <<>> /\ Http!NoCli.st = "none"
    BY DEF Http!NoCli, ConnFields
  <1>2. IsOut(<<>>)
    <2>1. <<>> \in Seq({})
      OBVIOUS
    <2> QED  BY <2>1 DEF IsOut
  <1> QED  BY <1>1, <1>2 DEF IsConn

\* So has one that was freed, or lost.
LEMMA FreedIs ==
    ASSUME NEW c, IsConn(c)
    PROVE  /\ IsConn(Http!http_srv_cli_free(c)) /\ Http!http_srv_cli_free(c).st = "freed"
           /\ IsConn(Http!Undefined(c)) /\ Http!Undefined(c).st = "undefined"
  BY NoCliIs DEF Http!http_srv_cli_free, Http!Undefined, IsConn, ConnFields

\* Starting and stopping the task, and setting up a read.
LEMMA StartIs ==
    ASSUME NEW c, IsConn(c), NEW ev \in {"read", "write"}
    PROVE  /\ IsConn(Http!Start(c, ev)) /\ Cared(Http!Start(c, ev))
           /\ IsConn(Http!Continue(c)) /\ (c.arm # "no" \/ Left(c) => Cared(Http!Continue(c)))
           /\ IsConn(Http!Stop(c)) /\ IsConn(Http!AllFree(c)) /\ Alike(c, Http!AllFree(c))
           /\ \A on : IsConn(Http!EveryRead(c, on)) /\ Alike(c, Http!EveryRead(c, on))
  <1>1. IsConn(Http!Start(c, ev)) /\ Cared(Http!Start(c, ev))
    BY DEF Http!Start, IsConn, ConnFields, Cared
  <1>2. IsConn(Http!Continue(c)) /\ Alike(c, Http!Continue(c)) /\ Http!Continue(c).timer = srv.rcv
    BY DEF Http!Continue, IsConn, ConnFields, Alike
  <1>3. c.arm # "no" \/ Left(c) => Cared(Http!Continue(c))
    <2>1. Left(c) => Left(Http!Continue(c))
      BY <1>2, AlikeLeft DEF Alike
    <2> QED  BY <1>2, <2>1 DEF Cared, Alike
  <1>4. IsConn(Http!Stop(c)) /\ IsConn(Http!AllFree(c)) /\ Alike(c, Http!AllFree(c))
    BY DEF Http!Stop, Http!AllFree, IsConn, ConnFields, Alike
  <1>5. \A on : IsConn(Http!EveryRead(c, on)) /\ Alike(c, Http!EveryRead(c, on))
    BY DEF Http!EveryRead, IsConn, ConnFields, Alike
  <1> QED  BY <1>1, <1>2, <1>3, <1>4, <1>5

\* tp_task_restart() leaves a connection that reads, or none.
LEMMA RestartedCares ==
    ASSUME NEW c, IsConn(c), NEW d \in Http!Restarted(c)
    PROVE  IsConn(d) /\ Cared(d)
  <1>1. d = Http!Start(Http!EveryRead(Http!AllFree(c), TRUE), "read") \/ d = Http!http_srv_cli_free(c)
    BY DEF Http!Restarted
  <1>2. CASE d = Http!http_srv_cli_free(c)
    BY <1>2, FreedIs DEF Cared
  <1>3. CASE d = Http!Start(Http!EveryRead(Http!AllFree(c), TRUE), "read")
    <2>1. IsConn(Http!AllFree(c))
      BY StartIs
    <2>2. IsConn(Http!EveryRead(Http!AllFree(c), TRUE))
      BY <2>1, StartIs
    <2> QED  BY <1>3, <2>2, StartIs
  <1> QED  BY <1>1, <1>2, <1>3

\* http_srv_cli_next_req() keeps the fields.
LEMMA NextReqIs ==
    ASSUME NEW c, IsConn(c)
    PROVE  /\ IsConn(Http!http_srv_cli_next_req(c))
           /\ Http!http_srv_cli_next_req(c).st = "open" => Http!http_srv_cli_next_req(c).out = c.out
  BY FreedIs DEF Http!http_srv_cli_next_req, IsConn, ConnFields

\* http_srv_snd(): a response written in part leaves a task that writes.
LEMMA SndIs ==
    ASSUME NEW c, IsConn(c), NEW status, NEW r \in Http!http_srv_snd(c, status)
    PROVE  /\ IsConn(r[1]) /\ (r[2] = "progress" => Cared(r[1]))
           /\ r[2] = "sent" => r[1].out # <<>>
  <1> DEFINE q == [c EXCEPT !.resp.close = @ \/ c.half]
             inRcv == q.buf = "rcv" /\ ~q.resp.close
             p == IF q.resp.page /\ inRcv THEN [q EXCEPT !.data = Append(@, Http!PAGE)] ELSE q
             answer == [k |-> c.req.k, status |-> status, close |-> q.resp.close]
             sent == [p EXCEPT !.out = Append(@, answer)]
             moved == IF ~inRcv THEN sent
                      ELSE IF 1 > p.off THEN [sent EXCEPT !.data = <<Http!PAGE, Http!PAGE>>, !.off = 0]
                      ELSE [sent EXCEPT !.off = @ - 1, !.data[p.off] = Http!PAGE]
  <1>1. IsConn(q)
    BY DEF IsConn
  <1> HIDE DEF q
  <1>2. IsConn(p)
    BY <1>1 DEF IsConn
  <1> HIDE DEF p
  <1>3. IsConn(sent) /\ sent.out # <<>>
    <2>1. DOMAIN sent = ConnFields /\ sent.out = Append(p.out, answer) /\ IsOut(p.out)
      BY <1>2 DEF IsConn, ConnFields
    <2> QED  BY <2>1, OutIs DEF IsConn
  <1> HIDE DEF sent
  <1>4. IsConn(moved)
    BY <1>3 DEF IsConn
  <1> HIDE DEF moved, answer
  <1>5. \/ r = <<q, "error">> \/ r = <<sent, "sent">> \/ r = <<p, "error">>
        \/ \E m \in {sent, moved} : r = <<Http!Start(m, "write"), "progress">>
    BY DEF Http!http_srv_snd, moved, sent, p, q, answer
  <1>6. ASSUME NEW m \in {sent, moved}, r = <<Http!Start(m, "write"), "progress">>
        PROVE  IsConn(r[1]) /\ Cared(r[1]) /\ r[2] # "sent"
    <2>1. IsConn(m)
      BY <1>3, <1>4
    <2>2. IsConn(Http!Start(m, "write")) /\ Cared(Http!Start(m, "write"))
      BY <2>1, StartIs
    <2> QED  BY <1>6, <2>2
  <1>7. CASE r = <<q, "error">> \/ r = <<sent, "sent">> \/ r = <<p, "error">>
    BY <1>1, <1>2, <1>3, <1>7
  <1> QED  BY <1>5, <1>6, <1>7

\* http_srv_send_responce() leaves a connection that writes, is freed, is gone on
\* with by the caller, or reads.
LEMMA ResponceCares ==
    ASSUME NEW c, IsConn(c), NEW status, NEW a, NEW r \in Http!http_srv_send_responce(c, status)
    PROVE  Cares(r, a)
  <1> DEFINE After(s) ==
               LET q == Http!http_srv_cli_next_req(s[1])
               IN  IF s[2] = "progress" THEN {<<s[1], "NONE">>}
                   ELSE IF Http!MustClose(s[1]) \/ s[2] = "error" THEN {<<Http!http_srv_cli_free(s[1]), "NONE">>}
                   ELSE IF q.st # "open" THEN {<<q, "NONE">>}
                   ELSE IF Http!HasHeaders(q) THEN {<<q, "CONTINUE">>}
                   ELSE {<<m, "NONE">> : m \in Http!Restarted(q)}
  <1>1. PICK s \in Http!http_srv_snd(c, status) : r \in After(s)
    BY DEF Http!http_srv_send_responce
  <1>2. /\ IsConn(s[1]) /\ (s[2] = "progress" => Cared(s[1]))
        /\ s[2] \in {"progress", "error", "sent"} /\ (s[2] = "sent" => s[1].out # <<>>)
    <2>1. s[2] \in {"progress", "error", "sent"}
      BY <1>1 DEF Http!http_srv_snd
    <2> QED  BY <1>1, <2>1, SndIs
  <1> DEFINE q == Http!http_srv_cli_next_req(s[1])
  <1>3. IsConn(q) /\ (q.st = "open" => q.out = s[1].out)
    BY <1>2, NextReqIs
  <1>4. \/ s[2] = "progress" /\ r = <<s[1], "NONE">>
        \/ r = <<Http!http_srv_cli_free(s[1]), "NONE">>
        \/ q.st # "open" /\ r = <<q, "NONE">>
        \/ s[2] \notin {"progress", "error"} /\ q.st = "open" /\ Http!HasHeaders(q) /\ r = <<q, "CONTINUE">>
        \/ \E m \in Http!Restarted(q) : r = <<m, "NONE">>
    <2> HIDE DEF q
    <2> QED  BY <1>1 DEF q
  <1> HIDE DEF q, After
  <1>5. CASE s[2] = "progress" /\ r = <<s[1], "NONE">>
    BY <1>2, <1>5 DEF Cares
  <1>6. CASE r = <<Http!http_srv_cli_free(s[1]), "NONE">>
    BY <1>2, <1>6, FreedIs DEF Cares, Cared
  <1>7. CASE q.st # "open" /\ r = <<q, "NONE">>
    BY <1>3, <1>7 DEF Cares, Cared
  <1>8. CASE /\ s[2] \notin {"progress", "error"} /\ q.st = "open" /\ Http!HasHeaders(q)
             /\ r = <<q, "CONTINUE">>
    BY <1>2, <1>3, <1>8 DEF Cares, Left
  <1>9. ASSUME NEW m \in Http!Restarted(q), r = <<m, "NONE">> PROVE Cares(r, a)
    <2>1. IsConn(m) /\ Cared(m)
      BY <1>3, RestartedCares
    <2> QED  BY <1>9, <2>1 DEF Cares
  <1> QED  BY <1>4, <1>5, <1>6, <1>7, <1>8, <1>9

\* Reading on, with a larger buffer if need be, or dropping the client.
LEMMA ContinueCares ==
    ASSUME NEW c, IsConn(c), NEW a, c.arm = a \/ Left(c), NEW r \in Http!ContinueRecv(c)
    PROVE  Cares(r, a)
  <1>1. \/ r = <<c, "CONTINUE">> \/ r = <<Http!http_srv_cli_free(c), "NONE">>
        \/ \E q \in Http!io_buf_realloc(c, c.tr + Http!Used(c)) : r = <<q, "CONTINUE">>
    BY DEF Http!ContinueRecv
  <1>2. CASE r = <<c, "CONTINUE">>
    BY <1>2 DEF Cares
  <1>3. CASE r = <<Http!http_srv_cli_free(c), "NONE">>
    BY <1>3, FreedIs DEF Cares, Cared
  <1>4. ASSUME NEW q \in Http!io_buf_realloc(c, c.tr + Http!Used(c)), r = <<q, "CONTINUE">>
        PROVE  Cares(r, a)
    <2>1. IsConn(q) /\ Alike(c, q)
      BY DEF Http!io_buf_realloc, IsConn, ConnFields, Alike
    <2>2. q.arm = a \/ Left(q)
      BY <2>1, AlikeLeft DEF Alike
    <2> QED  BY <1>4, <2>1, <2>2 DEF Cares
  <1> QED  BY <1>1, <1>2, <1>3, <1>4

\* An error response.
LEMMA ErrorCares ==
    ASSUME NEW c, IsConn(c), NEW status, NEW shut, NEW a, NEW r \in Http!WithError(c, status, shut)
    PROVE  Cares(r, a)
  <1> DEFINE s == IF shut THEN Http!Stop(c) ELSE c
             t == [s EXCEPT !.resp.page = TRUE, !.resp.close = @ \/ shut]
  <1>1. IsConn(s)
    BY StartIs
  <1>2. IsConn(t)
    <2> HIDE DEF s
    <2> QED  BY <1>1 DEF IsConn, ConnFields
  <1>3. r \in Http!http_srv_send_responce(t, status)
    BY DEF Http!WithError
  <1> HIDE DEF t
  <1> QED  BY <1>2, <1>3, ResponceCares

\* The user's callback destroys, keeps or answers.
LEMMA OnReqCares ==
    ASSUME NEW c, IsConn(c), NEW a, NEW r \in Http!OnReqRcv(c)
    PROVE  Cares(r, a)
  <1> DEFINE end == c.req.data + c.req.size
             nul == IF end < Http!Used(c)
                    THEN [c EXCEPT !.next = c.data[end + 1], !.data[end + 1] = Http!NUL] ELSE c
             called == [nul EXCEPT !.buf = "own", !.seen = Append(@, Http!Seen(c)),
                                   !.resp.close = @ \/ c.half \/ c.req.close]
             lost == [c EXCEPT !.seen = Append(@, Http!Seen(c))]
             kept == [called EXCEPT !.held = "req"]
  <1>1. IsConn(nul)
    BY DEF IsConn, ConnFields
  <1> HIDE DEF nul
  <1>2. IsConn(called)
    BY <1>1 DEF IsConn, ConnFields
  <1>3. \/ r = <<Http!Undefined(lost), "NONE">>
        \/ r = <<Http!http_srv_cli_free(called), "NONE">>
        \/ r = <<kept, "NONE">>
        \/ \E cl \in BOOLEAN :
              r \in Http!http_srv_send_responce([called EXCEPT !.resp.close = @ \/ cl], 200)
    BY DEF Http!OnReqRcv, nul
  <1> HIDE DEF called
  <1>4. IsConn(kept) /\ kept.held = "req"
    BY <1>2 DEF IsConn, ConnFields
  <1>4a. IsConn(lost)
    BY DEF IsConn, ConnFields
  <1> HIDE DEF kept, lost
  <1>5. CASE r = <<Http!Undefined(lost), "NONE">>
    BY <1>4a, <1>5, FreedIs DEF Cares, Cared
  <1>6. CASE r = <<Http!http_srv_cli_free(called), "NONE">>
    BY <1>2, <1>6, FreedIs DEF Cares, Cared
  <1>7. CASE r = <<kept, "NONE">>
    BY <1>4, <1>7 DEF Cares, Cared
  <1>8. ASSUME NEW cl \in BOOLEAN,
               r \in Http!http_srv_send_responce([called EXCEPT !.resp.close = @ \/ cl], 200)
        PROVE  Cares(r, a)
    <2>1. IsConn([called EXCEPT !.resp.close = @ \/ cl])
      BY <1>2 DEF IsConn, ConnFields
    <2> QED  BY <1>8, <2>1, ResponceCares
  <1> QED  BY <1>3, <1>5, <1>6, <1>7, <1>8

\* A request that is complete.
LEMMA ReceivedCares ==
    ASSUME NEW c, IsConn(c), NEW a, NEW r \in Http!ReqReceived(c)
    PROVE  Cares(r, a)
  <1> DEFINE s == Http!Stop(c)
             t == [s EXCEPT !.req.close = Http!Reqs[c.req.k].close]
  <1>1. IsConn(t)
    <2>1. IsConn(s)
      BY StartIs
    <2> HIDE DEF s
    <2> QED  BY <2>1 DEF IsConn, ConnFields
  <1>2. \/ r \in Http!WithError(t, 400, FALSE) \/ r \in Http!WithError(t, 403, FALSE)
        \/ r \in Http!OnReqRcv(t) \/ r \in Http!NotCalled(t)
    BY DEF Http!ReqReceived
  <1> HIDE DEF t
  <1>3. CASE r \in Http!NotCalled(t)
    <2>1. r \in Http!WithError(t, 404, TRUE) \/ r \in Http!WithError(t, 500, TRUE)
      BY <1>3 DEF Http!NotCalled
    <2> QED  BY <1>1, <2>1, ErrorCares
  <1> QED  BY <1>1, <1>2, <1>3, ErrorCares, OnReqCares

\* Headers that are complete.
LEMMA HdrCares ==
    ASSUME NEW c, IsConn(c), NEW a, c.arm = a \/ Left(c), NEW action, NEW r \in Http!HdrFound(c, action)
    PROVE  Cares(r, a)
  <1> DEFINE e == CHOOSE x \in 1..Http!Used(c) :
                     Http!IsEnd(c.data[x]) /\ \A y \in 1..(x - 1) : ~Http!IsEnd(c.data[y])
             k == c.data[e][1]
             q == Http!Reqs[k]
             s == [c EXCEPT !.req = [Http!NoReq EXCEPT !.set = TRUE, !.k = k, !.data = e, !.gen = c.gen]]
             b == [s EXCEPT !.req.size = q.len]
             more == [Http!EveryRead(b, FALSE) EXCEPT !.tr = q.len - (Http!Used(c) - e)]
  <1>1. IsConn(s) /\ Alike(c, s)
    BY DEF IsConn, ConnFields, Alike
  <1>2. \/ \E status, shut : r \in Http!WithError(s, status, shut) \/ r \in Http!WithError(b, status, shut)
        \/ r \in Http!ReqReceived(s) \/ r \in Http!ReqReceived(b)
        \/ r \in Http!ContinueRecv(more)
    BY DEF Http!HdrFound
  <1> HIDE DEF s
  <1>3. IsConn(b) /\ Alike(c, b)
    BY <1>1 DEF IsConn, ConnFields, Alike
  <1> HIDE DEF b
  <1>4. IsConn(more) /\ Alike(c, more)
    <2>1. IsConn(Http!EveryRead(b, FALSE)) /\ Alike(b, Http!EveryRead(b, FALSE))
      BY <1>3, StartIs
    <2> QED  BY <1>3, <2>1 DEF IsConn, ConnFields, Alike
  <1> HIDE DEF more
  <1>5. more.arm = a \/ Left(more)
    BY <1>4, AlikeLeft DEF Alike
  <1> QED  BY <1>1, <1>2, <1>3, <1>4, <1>5, ErrorCares, ReceivedCares, ContinueCares

\* Taking requests from the buffer one after the other computes what its equation
\* says.
LEMMA PipelinedIs ==
    ASSUME NEW results, Len(Http!Reqs) \in Nat
    PROVE  \E after :
              /\ after = [m \in 0 .. Len(Http!Reqs) |->
                             IF m = 0 THEN results ELSE Http!NextTaken(after[m - 1])]
              /\ Http!Pipelined(results) = after[Len(Http!Reqs)]
  <1> DEFINE Step(u, k) == IF k = 0 THEN results ELSE Http!NextTaken(u[k - 1])
             len == Len(Http!Reqs)
             T == {m \in Nat : \E u : u = [k \in 0 .. m |-> Step(u, k)]}
  <1>1. 0 \in T
    <2> DEFINE u == [k \in 0 .. 0 |-> results]
    <2>1. u = [k \in 0 .. 0 |-> Step(u, k)]
      OBVIOUS
    <2> QED  BY <2>1
  <1>2. ASSUME NEW m \in 1 .. len, m - 1 \in T PROVE m \in T
    <2>1. PICK v : v = [k \in 0 .. m - 1 |-> Step(v, k)]
      BY <1>2
    <2> DEFINE u == [k \in 0 .. m |-> IF k = m THEN Step(v, m) ELSE v[k]]
    <2>2. \A k \in 0 .. m - 1 : u[k] = v[k]
      BY <1>2
    <2>3. \A k \in 0 .. m : u[k] = Step(u, k)
      <3> SUFFICES ASSUME NEW k \in 0 .. m PROVE u[k] = Step(u, k)
        OBVIOUS
      <3>1. CASE k = m
        BY <1>2, <2>2, <3>1
      <3>2. CASE k # m
        <4>1. k \in 0 .. m - 1
          BY <1>2, <3>2
        <4>2. v[k] = Step(v, k)
          BY <2>1, <4>1
        <4> QED  BY <1>2, <2>2, <4>1, <4>2
      <3> QED  BY <3>1, <3>2
    <2>4. u = [k \in 0 .. m |-> Step(u, k)]
      BY <2>3
    <2>5. \E w : w = [k \in 0 .. m |-> Step(w, k)]
      <3> HIDE DEF Step, u
      <3> QED  BY <2>4, Zenon
    <2>6. m \in Nat
      BY <1>2
    <2> QED  BY <2>5, <2>6
  <1>3. len \in T
    <2>1. \A b \in 1 .. len : b - 1 \in T => b \in T
      <3> HIDE DEF T
      <3> QED  BY <1>2
    <2>2. len \in 0 .. len /\ len \in Nat
      OBVIOUS
    <2> HIDE DEF T
    <2> QED  BY <1>1, <2>1, <2>2, Counting, Zenon
  <1>4. \E u : u = [k \in 0 .. len |-> Step(u, k)]
    BY <1>3
  <1> DEFINE after == CHOOSE u : u = [k \in 0 .. len |-> Step(u, k)]
  <1>5. after = [k \in 0 .. len |-> Step(after, k)]
    BY <1>4
  <1>6. Http!Pipelined(results) = after[len]
    BY DEF Http!Pipelined
  <1> QED  BY <1>5, <1>6

\* One more request taken from the buffer.
LEMMA NextTakenCares ==
    ASSUME NEW results, NEW a, \A r \in results : Cares(r, a)
    PROVE  \A r \in Http!NextTaken(results) : Cares(r, a)
  <1> SUFFICES ASSUME NEW r \in Http!NextTaken(results) PROVE Cares(r, a)
    OBVIOUS
  <1>1. r \in results \/ \E s \in results : s[2] = "CONTINUE" /\ r \in Http!HdrFound(s[1], "CONTINUE")
    BY DEF Http!NextTaken, Http!HasNext
  <1>2. ASSUME NEW s \in results, s[2] = "CONTINUE", r \in Http!HdrFound(s[1], "CONTINUE")
        PROVE  Cares(r, a)
    <2>1. IsConn(s[1]) /\ (s[1].arm = a \/ Left(s[1]))
      BY <1>2 DEF Cares
    <2> QED  BY <1>2, <2>1, HdrCares
  <1> QED  BY <1>1, <1>2

\* All requests taken from the buffer.
LEMMA PipelinedCares ==
    ASSUME NEW results, NEW a, Len(Http!Reqs) \in Nat, \A r \in results : Cares(r, a)
    PROVE  \A r \in Http!Pipelined(results) : Cares(r, a)
  <1> DEFINE len == Len(Http!Reqs)
  <1>1. PICK after :
          /\ after = [m \in 0 .. len |-> IF m = 0 THEN results ELSE Http!NextTaken(after[m - 1])]
          /\ Http!Pipelined(results) = after[len]
    BY PipelinedIs
  <1> DEFINE T == {m \in 0 .. len : \A r \in after[m] : Cares(r, a)}
  <1>2. 0 \in T
    BY <1>1
  <1>3. ASSUME NEW m \in 1 .. len, m - 1 \in T PROVE m \in T
    <2>1. after[m] = Http!NextTaken(after[m - 1])
      BY <1>1
    <2> QED  BY <1>3, <2>1, NextTakenCares
  <1>4. len \in T
    <2>1. \A b \in 1 .. len : b - 1 \in T => b \in T
      <3> HIDE DEF T
      <3> QED  BY <1>3
    <2>2. len \in 0 .. len /\ len \in Nat
      OBVIOUS
    <2> HIDE DEF T
    <2> QED  BY <1>2, <2>1, <2>2, Counting, Zenon
  <1> QED  BY <1>1, <1>4

\* http_srv_recv_done_cb().
LEMMA RecvDoneCares ==
    ASSUME NEW c, IsConn(c), NEW eof, NEW cells, Len(Http!Reqs) \in Nat,
           NEW r \in Http!http_srv_recv_done_cb(c, eof, cells)
    PROVE  Cares(r, c.arm)
  <1> DEFINE h == [c EXCEPT !.half = @ \/ eof = "sys"]
             a == c.arm
  <1>1. IsConn(h) /\ h.arm = a
    BY DEF IsConn, ConnFields
  <1>2. \/ r = <<Http!http_srv_cli_free(c), "NONE">>
        \/ r = <<Http!http_srv_cli_free(h), "NONE">>
        \/ r \in Http!ContinueRecv(h)
        \/ r \in Http!ContinueRecv(Http!AllFree(h))
        \/ r \in Http!Pipelined(Http!ReqReceived(Http!EveryRead(h, TRUE)))
        \/ \E action : r \in Http!Pipelined(Http!HdrFound(h, action))
    BY DEF Http!http_srv_recv_done_cb
  <1> HIDE DEF h, a
  <1> SUFFICES Cares(r, a)
    BY DEF a
  <1>3. CASE r = <<Http!http_srv_cli_free(c), "NONE">> \/ r = <<Http!http_srv_cli_free(h), "NONE">>
    BY <1>1, <1>3, FreedIs DEF Cares, Cared
  <1>4. CASE r \in Http!ContinueRecv(h) \/ r \in Http!ContinueRecv(Http!AllFree(h))
    <2>1. IsConn(Http!AllFree(h)) /\ Http!AllFree(h).arm = a
      BY <1>1, StartIs DEF Alike
    <2> QED  BY <1>1, <1>4, <2>1, ContinueCares
  <1>5. CASE r \in Http!Pipelined(Http!ReqReceived(Http!EveryRead(h, TRUE)))
    <2>1. IsConn(Http!EveryRead(h, TRUE))
      BY <1>1, StartIs
    <2>2. \A s \in Http!ReqReceived(Http!EveryRead(h, TRUE)) : Cares(s, a)
      BY <2>1, ReceivedCares
    <2> QED  BY <1>5, <2>2, PipelinedCares
  <1>6. ASSUME NEW action, r \in Http!Pipelined(Http!HdrFound(h, action)) PROVE Cares(r, a)
    <2>1. \A s \in Http!HdrFound(h, action) : Cares(s, a)
      BY <1>1, HdrCares
    <2> QED  BY <1>6, <2>1, PipelinedCares
  <1> QED  BY <1>2, <1>3, <1>4, <1>5, <1>6

\* A read event.
LEMMA HandledCares ==
    ASSUME NEW c, IsConn(c), NEW direct, Len(Http!Reqs) \in Nat, NEW r \in Http!Handled(c, direct)
    PROVE  Cares(r, c.arm)
  <1> DEFINE cells == Http!RecvSize(c)
             f == Http!Filled(c, cells)
  <1>1. IsConn(f) /\ f.arm = c.arm
    BY DEF Http!Filled, IsConn, ConnFields
  <1>2. r = <<f, "CONTINUE">> \/ \E eof : r \in Http!http_srv_recv_done_cb(f, eof, cells)
    BY DEF Http!Handled
  <1> HIDE DEF f, cells
  <1>3. CASE r = <<f, "CONTINUE">>
    BY <1>1, <1>3 DEF Cares
  <1>4. ASSUME NEW eof, r \in Http!http_srv_recv_done_cb(f, eof, cells) PROVE Cares(r, c.arm)
    <2>1. Cares(r, f.arm)
      BY <1>1, <1>4, RecvDoneCares
    <2> QED  BY <1>1, <2>1
  <1> QED  BY <1>2, <1>3, <1>4

\* A task that reads first.
LEMMA StartExCares ==
    ASSUME NEW c, IsConn(c), NEW first, Len(Http!Reqs) \in Nat, NEW q \in Http!StartEx(c, first)
    PROVE  IsConn(q) /\ Cared(q)
  <1>1. \/ q = Http!http_srv_cli_free(c)
        \/ q = Http!Start(c, "read")
        \/ \E r \in Http!Handled(c, TRUE) :
              q = IF r[2] = "CONTINUE" THEN Http!Start(r[1], "read") ELSE r[1]
    BY DEF Http!StartEx
  <1>2. CASE q = Http!Start(c, "read") \/ q = Http!http_srv_cli_free(c)
    BY <1>2, StartIs, FreedIs DEF Cared
  <1>3. ASSUME NEW r \in Http!Handled(c, TRUE),
               q = IF r[2] = "CONTINUE" THEN Http!Start(r[1], "read") ELSE r[1]
        PROVE  IsConn(q) /\ Cared(q)
    <2>1. IsConn(r[1]) /\ (r[2] # "CONTINUE" => Cared(r[1]))
      BY HandledCares DEF Cares
    <2>2. IsConn(Http!Start(r[1], "read")) /\ Cared(Http!Start(r[1], "read"))
      BY <2>1, StartIs
    <2> QED  BY <1>3, <2>1, <2>2
  <1> QED  BY <1>1, <1>2, <1>3

\* http_srv_resume_next_request().
LEMMA ResumeNextCares ==
    ASSUME NEW c, IsConn(c), Len(Http!Reqs) \in Nat, NEW q \in Http!http_srv_resume_next_request(c)
    PROVE  IsConn(q) /\ Cared(q)
  <1> DEFINE u == [c EXCEPT !.held = "no"]
             s == Http!http_srv_cli_next_req(u)
             t == Http!EveryRead(Http!AllFree(s), TRUE)
  <1>1. IsConn(u)
    BY DEF IsConn, ConnFields
  <1>2. (s.st # "open" /\ q = s) \/ \E first : q \in Http!StartEx(t, first)
    BY DEF Http!http_srv_resume_next_request
  <1> HIDE DEF u
  <1>3. IsConn(s)
    BY <1>1, NextReqIs
  <1> HIDE DEF s
  <1>4. IsConn(t)
    <2>1. IsConn(Http!AllFree(s))
      BY <1>3, StartIs
    <2> QED  BY <2>1, StartIs
  <1> HIDE DEF t
  <1>5. CASE s.st # "open" /\ q = s
    BY <1>3, <1>5 DEF Cared
  <1> QED  BY <1>2, <1>4, <1>5, StartExCares

\* http_srv_resume_responce().
LEMMA ResumeResponceCares ==
    ASSUME NEW c, IsConn(c), Len(Http!Reqs) \in Nat, NEW q \in Http!http_srv_resume_responce(c)
    PROVE  IsConn(q) /\ Cared(q)
  <1> DEFINE u == [c EXCEPT !.held = "no"]
             first == Http!http_srv_send_responce(u, 200)
  <1>1. IsConn(u)
    BY DEF IsConn, ConnFields
  <1>2. \/ \E r \in first : r[2] = "NONE" /\ q = r[1]
        \/ \E r \in first : \E s \in Http!http_srv_recv_done_cb(r[1], "no", Http!Used(r[1])) :
              (s[2] = "NONE" /\ q = s[1]) \/ q \in Http!Restarted(s[1])
    BY DEF Http!http_srv_resume_responce
  <1> HIDE DEF u
  <1>3. \A r \in first : Cares(r, "no")
    BY <1>1, ResponceCares
  <1> HIDE DEF first
  <1>4. ASSUME NEW r \in first, r[2] = "NONE", q = r[1] PROVE IsConn(q) /\ Cared(q)
    <2>1. Cares(r, "no")
      BY <1>3
    <2> QED  BY <1>4, <2>1 DEF Cares
  <1>5. ASSUME NEW r \in first, NEW s \in Http!http_srv_recv_done_cb(r[1], "no", Http!Used(r[1])),
               (s[2] = "NONE" /\ q = s[1]) \/ q \in Http!Restarted(s[1])
        PROVE  IsConn(q) /\ Cared(q)
    <2>1. IsConn(r[1])
      BY <1>3 DEF Cares
    <2>2. Cares(s, r[1].arm)
      BY <2>1, RecvDoneCares
    <2>3. CASE s[2] = "NONE" /\ q = s[1]
      BY <2>2, <2>3 DEF Cares
    <2>4. CASE q \in Http!Restarted(s[1])
      <3>1. IsConn(s[1])
        BY <2>2 DEF Cares
      <3> QED  BY <2>4, <3>1, RestartedCares
    <2> QED  BY <1>5, <2>3, <2>4
  <1> QED  BY <1>2, <1>4, <1>5

HttpInv ==
    /\ IsConn(cli) /\ Cared(cli)
    /\ DOMAIN net = {"reqs", "sent", "got", "fin"} /\ Len(net.reqs) \in Nat
    /\ DOMAIN srv = {"alive", "bnd", "listening", "rcv", "snd"}

\* Every step of the server leaves a connection somebody cares for.
LEMMA HttpNextGood == HttpInv /\ Http!Next => HttpInv'
  <1> SUFFICES ASSUME HttpInv, Http!Next PROVE HttpInv'
    OBVIOUS
  <1>0. IsConn(cli) /\ Len(Http!Reqs) \in Nat
    BY DEF HttpInv, Http!Reqs
  <1>1. DOMAIN net' = {"reqs", "sent", "got", "fin"} /\ net'.reqs = net.reqs
    <2>1. UNCHANGED net \/ \E x : net' = [net EXCEPT !.got = x] \/ net' = [net EXCEPT !.sent = x]
                                  \/ net' = [net EXCEPT !.fin = x]
      <3>1. CASE Http!ReadEvent
        BY <3>1 DEF Http!ReadEvent, Http!Took
      <3>2. CASE Http!http_srv_snd_done_cb
        BY <3>2 DEF Http!http_srv_snd_done_cb, Http!Took
      <3>3. CASE Http!UserResumes
        BY <3>3 DEF Http!UserResumes, Http!Took
      <3>4. CASE Http!ClientSends \/ Http!ClientShutsDown
        BY <3>4 DEF Http!ClientSends, Http!ClientShutsDown
      <3> QED
        BY <3>1, <3>2, <3>3, <3>4
        DEF Http!Next, Http!http_srv_bind_add, Http!http_srv_bind_shutdown, Http!http_srv_bind_remove,
            Http!http_srv_new_conn_cb, Http!http_srv_destroy, Http!ReadFails
    <2> QED  BY <2>1 DEF HttpInv
  <1>1a. DOMAIN srv' = {"alive", "bnd", "listening", "rcv", "snd"} /\ srv'.rcv = srv.rcv
    <2>1. \/ UNCHANGED srv
          \/ \E a, b, l : \/ srv' = [srv EXCEPT !.bnd = b, !.listening = l]
                         \/ srv' = [srv EXCEPT !.listening = l]
                         \/ srv' = [srv EXCEPT !.alive = a, !.bnd = b, !.listening = l]
      <3>1. ASSUME NEW b \in Binds, Http!http_srv_bind_add(b)
            PROVE  \E x, l : srv' = [srv EXCEPT !.bnd = x, !.listening = l]
        BY <3>1 DEF Http!http_srv_bind_add
      <3>2. ASSUME NEW b \in Binds, Http!http_srv_bind_shutdown(b)
            PROVE  \E l : srv' = [srv EXCEPT !.listening = l]
        BY <3>2 DEF Http!http_srv_bind_shutdown
      <3>3. ASSUME NEW b \in Binds, Http!http_srv_bind_remove(b)
            PROVE  \E x, l : srv' = [srv EXCEPT !.bnd = x, !.listening = l]
        BY <3>3 DEF Http!http_srv_bind_remove
      <3>4. ASSUME NEW b \in Binds, Http!http_srv_new_conn_cb(b) PROVE UNCHANGED srv
        BY <3>4 DEF Http!http_srv_new_conn_cb
      <3>5. CASE Http!http_srv_destroy
        BY <3>5 DEF Http!http_srv_destroy
      <3>6. CASE Http!ReadEvent \/ Http!ReadFails \/ Http!http_srv_snd_done_cb \/ Http!UserResumes
        BY <3>6 DEF Http!ReadEvent, Http!ReadFails, Http!http_srv_snd_done_cb, Http!UserResumes
      <3>7. CASE Http!ClientSends \/ Http!ClientShutsDown
        BY <3>7 DEF Http!ClientSends, Http!ClientShutsDown
      <3> QED  BY <3>1, <3>2, <3>3, <3>4, <3>5, <3>6, <3>7 DEF Http!Next
    <2> QED  BY <2>1 DEF HttpInv
  <1>2. IsConn(cli') /\ Cared(cli')
    <2>1. ASSUME NEW b \in Binds, Http!http_srv_new_conn_cb(b) PROVE IsConn(cli') /\ Cared(cli')
      <3> DEFINE gone == [Http!NoCli EXCEPT !.st = "freed", !.bnd = b]
                 new == [Http!NoCli EXCEPT !.st = "open", !.bnd = b]
      <3>1. IsConn(gone) /\ gone.st = "freed" /\ IsConn(new)
        BY NoCliIs DEF IsConn, ConnFields
      <3>2. cli' = gone \/ cli' \in Http!StartEx(Http!AllFree(new), TRUE)
        BY <2>1 DEF Http!http_srv_new_conn_cb
      <3> HIDE DEF gone, new
      <3>3. IsConn(Http!AllFree(new))
        BY <3>1, StartIs
      <3>4. CASE cli' = gone
        BY <3>1, <3>4 DEF Cared
      <3> QED  BY <1>0, <3>2, <3>3, <3>4, StartExCares
    <2>2. CASE Http!ReadEvent
      <3>1. PICK r : /\ \/ \E eof : r \in Http!http_srv_recv_done_cb(cli, eof, 0)
                        \/ r \in Http!Handled(cli, FALSE)
                     /\ cli' = IF r[2] = "CONTINUE" THEN Http!Continue(r[1]) ELSE r[1]
        BY <2>2 DEF Http!ReadEvent
      <3>2. Cares(r, cli.arm) /\ cli.arm = "read"
        BY <1>0, <2>2, <3>1, RecvDoneCares, HandledCares DEF Http!ReadEvent
      <3>3. CASE r[2] = "CONTINUE"
        <4>1. IsConn(r[1]) /\ (r[1].arm # "no" \/ Left(r[1]))
          BY <3>2, <3>3 DEF Cares
        <4> QED  BY <3>1, <3>3, <4>1, StartIs
      <3>4. CASE r[2] # "CONTINUE"
        BY <3>1, <3>2, <3>4 DEF Cares
      <3> QED  BY <3>3, <3>4
    <2>3. CASE Http!ReadFails
      BY <1>0, <2>3, FreedIs DEF Http!ReadFails, Cared
    <2>4. CASE Http!http_srv_snd_done_cb
      <3> DEFINE c == [cli EXCEPT !.half = @ \/ net.fin, !.off = Http!Used(cli), !.tr = 0]
                 s == Http!Stop(c)
                 kept == [s EXCEPT !.held = "resp"]
      <3>1. \/ cli' = Http!http_srv_cli_free(c) \/ cli' = kept
            \/ cli' \in Http!http_srv_resume_next_request(s)
        BY <2>4 DEF Http!http_srv_snd_done_cb
      <3>2. IsConn(c)
        BY <1>0 DEF IsConn, ConnFields
      <3> HIDE DEF c
      <3>3. IsConn(s)
        BY <3>2, StartIs
      <3> HIDE DEF s
      <3>4. IsConn(kept) /\ kept.held = "resp"
        BY <3>3 DEF IsConn, ConnFields
      <3> HIDE DEF kept
      <3>5. CASE cli' = Http!http_srv_cli_free(c)
        BY <3>2, <3>5, FreedIs DEF Cared
      <3>6. CASE cli' = kept
        BY <3>4, <3>6 DEF Cared
      <3> QED  BY <1>0, <3>1, <3>3, <3>5, <3>6, ResumeNextCares
    <2>5. CASE Http!UserResumes
      <3>1. \/ \E cl \in BOOLEAN :
                  cli' \in Http!http_srv_resume_responce([cli EXCEPT !.resp.close = @ \/ cl])
            \/ cli' \in Http!http_srv_resume_next_request(cli)
            \/ cli' = Http!http_srv_cli_free(cli)
        BY <2>5 DEF Http!UserResumes
      <3>2. ASSUME NEW cl \in BOOLEAN,
                   cli' \in Http!http_srv_resume_responce([cli EXCEPT !.resp.close = @ \/ cl])
            PROVE  IsConn(cli') /\ Cared(cli')
        <4>1. IsConn([cli EXCEPT !.resp.close = @ \/ cl])
          BY <1>0 DEF IsConn, ConnFields
        <4> QED  BY <1>0, <3>2, <4>1, ResumeResponceCares
      <3>3. CASE cli' = Http!http_srv_cli_free(cli)
        BY <1>0, <3>3, FreedIs DEF Cared
      <3> QED  BY <1>0, <3>1, <3>2, <3>3, ResumeNextCares
    <2>6. CASE UNCHANGED cli
      BY <2>6 DEF HttpInv
    <2> QED
      BY <2>1, <2>2, <2>3, <2>4, <2>5, <2>6
      DEF Http!Next, Http!http_srv_bind_add, Http!http_srv_bind_shutdown, Http!http_srv_bind_remove,
          Http!http_srv_destroy, Http!ClientSends, Http!ClientShutsDown
  <1> QED  BY <1>1, <1>1a, <1>2 DEF HttpInv, IsConn, Cared

(* http_server.c: a connection the user does not hold always has a task    *)
(* that waits for its socket or a timer that runs, whatever the client     *)
(* sends, however it is cut into reads, whichever callback keeps, answers  *)
(* or destroys it, with one exception: rcv_timeout is 0 and the connection *)
(* has answered a request and holds the headers of the next one.           *)
THEOREM HttpIsAttended == Services => []HttpAttended
  <1> DEFINE Inv == part = "http" => HttpInv
  <1>1. ServicesInit => Inv
    <2> SUFFICES ASSUME Http!Init PROVE HttpInv
      BY DEF ServicesInit
    <2>1. PICK reqs \in Clients : net = [reqs |-> reqs, sent |-> 0, got |-> 0, fin |-> FALSE]
      BY DEF Http!Init
    <2>2. Len(reqs) \in Nat
      BY HttpAssumption
    <2>3. IsConn(cli) /\ Cared(cli)
      BY NoCliIs DEF Http!Init, Cared
    <2>4. DOMAIN srv = {"alive", "bnd", "listening", "rcv", "snd"}
      BY DEF Http!Init
    <2> QED  BY <2>1, <2>2, <2>3, <2>4 DEF HttpInv
  <1>2. Inv /\ [ServicesNext]_all => Inv'
    <2> SUFFICES ASSUME Inv, [ServicesNext]_all PROVE Inv'
      OBVIOUS
    <2>1. CASE HttpStep
      BY <2>1, HttpNextGood DEF HttpStep
    <2>2. CASE UNCHANGED <<part, srv, cli, net>>
      BY <2>2 DEF HttpInv, IsConn, Cared
    <2> QED
      BY <2>1, <2>2 DEF ServicesNext, AcceptStep, SapStep, RadiusStep, SsdpStep, all, HttpVars
  <1>3. Inv => HttpAttended
    BY DEF HttpAttended, Http!Attended, Http!Forgotten, HttpInv, Cared, Left
  <1> QED  BY <1>1, <1>2, <1>3, PTL DEF Services

-----------------------------------------------------------------------------
(* RADIUS *)

RadiusFields == {"srv", "srv_count", "sock", "skts", "q", "rep", "sent", "wild"}
QueryFields == {"st", "any", "id", "skt", "idx", "count", "time", "duration", "cb", "signed", "tried"}
ServerSet == [enabled : BOOLEAN, addr : Addrs \cup {"none"}, family : Radius!Families, init : Nat,
              max : Nat, duration : Nat, tries : Nat]

IsSocket(k) ==
    /\ DOMAIN k = {"fam", "st", "tmr", "ktmr", "count", "index"}
    /\ k.fam \in Radius!Families /\ k.st \in {"none", "live", "freed"} /\ k.count \in Int /\ k.index \in Int
    /\ k.tmr \in [Ids -> Queries \cup {NoQuery}] /\ k.ktmr \in [Ids -> {"none", "set", "off"}]
IsList(l) == DOMAIN l = {"skt", "queries"} /\ l.skt \in Seq(Sockets \cup {NoSkt}) /\ l.queries \in Int
Reasons == {"ok", "ETIMEDOUT", "error"}

IsQuery(q) ==
    /\ DOMAIN q = QueryFields
    /\ q.idx \in Nat \ {0} /\ q.count \in Nat /\ q.skt \in Sockets \cup {NoSkt}
    /\ q.signed \in BOOLEAN /\ q.cb \in BOOLEAN

\* What the fields of the client hold.
Shape(c) ==
    /\ DOMAIN c = RadiusFields
    /\ c.srv \in Seq(ServerSet) /\ c.srv_count \in 0 .. Len(c.srv)
    /\ DOMAIN c.sock = Sockets /\ \A t \in Sockets : IsSocket(c.sock[t])
    /\ DOMAIN c.skts = Radius!Families /\ \A f \in Radius!Families : IsList(c.skts[f])
    /\ DOMAIN c.q = Queries /\ \A y \in Queries : IsQuery(c.q[y])
    /\ c.rep \in [Queries -> Seq(Reasons)]

\* A slot of a living socket names a query that names this slot, and a query
\* that names a slot is named by it.
Slots(c) ==
    \A t \in Sockets, z \in Ids : c.sock[t].st = "live" /\ c.sock[t].tmr[z] # NoQuery =>
        LET y == c.sock[t].tmr[z]
        IN  y \in Queries /\ c.q[y].st = "active" /\ c.q[y].skt = t /\ c.q[y].id = z
Named(c) ==
    \A y \in Queries : c.q[y].skt # NoSkt =>
        LET q == c.q[y]
        IN  /\ q.st = "active" /\ q.skt \in Sockets /\ q.id \in Ids
            /\ c.sock[q.skt].st = "live" /\ c.sock[q.skt].tmr[q.id] = y

\* The timers of slots that nobody uses are not in the kernel.
Quiet(c) ==
    \A t \in Sockets, z \in Ids : c.sock[t].st # "live" \/ c.sock[t].tmr[z] = NoQuery =>
        c.sock[t].ktmr[z] = "none"

\* The counters count the slots in use: of a socket, of a family.
InUse(k) == {z \in Ids : k.tmr[z] # NoQuery}
Busy(c, f) == {tz \in Sockets \X Ids : /\ c.sock[tz[1]].st = "live" /\ c.sock[tz[1]].fam = f
                                       /\ c.sock[tz[1]].tmr[tz[2]] # NoQuery}
Counts(c) == \A t \in Sockets : c.sock[t].st = "live" => c.sock[t].count = Cardinality(InUse(c.sock[t]))
Totals(c) == \A f \in Radius!Families : c.skts[f].queries = Cardinality(Busy(c, f))

\* The lists hold the living sockets, each once, and no more than allowed.
Lists(c) ==
    \A f \in Radius!Families :
        LET list == c.skts[f].skt
        IN  /\ list \in Seq(Sockets) /\ Len(list) <= limits.max
            /\ \A a \in 1 .. Len(list) : c.sock[list[a]].st = "live" /\ c.sock[list[a]].fam = f
            /\ \A a, b \in 1 .. Len(list) : list[a] = list[b] => a = b
Listed(c) ==
    \A t \in Sockets : c.sock[t].st = "live" =>
        \E a \in 1 .. Len(c.skts[c.sock[t].fam].skt) : c.skts[c.sock[t].fam].skt[a] = t
NoSurplus(c) == limits.min = limits.max => \A t \in Sockets : c.sock[t].st # "freed"

\* What is reported, and for which queries packets are on their way.
Reports(c) ==
    \A y \in Queries :
        /\ Len(c.rep[y]) <= 1
        /\ c.rep[y] # <<>> => c.q[y].st = "freed" /\ c.q[y].cb
        /\ c.rep[y] = <<"ok">> => c.q[y].tried # {}
Sent(c) ==
    \A p \in c.sent : /\ DOMAIN p = {"s", "id", "q", "addr"} /\ p.q \in Queries /\ p.addr \in c.q[p.q].tried
                      /\ c.q[p.q].st = "freed" \/ (c.q[p.q].st = "active" /\ c.q[p.q].signed)

Base(c) ==
    /\ Shape(c) /\ Slots(c) /\ Named(c) /\ Quiet(c) /\ Counts(c) /\ Totals(c)
    /\ Lists(c) /\ Listed(c) /\ NoSurplus(c) /\ Reports(c) /\ Sent(c)

\* An active query between two steps of the thread: its packets went out from
\* its slot, the timer of which runs, and it has tries left.
Placed(c, y) ==
    \A p \in c.sent : p.q = y /\ c.q[y].st = "active" => p.s = c.q[y].skt /\ p.id = c.q[y].id
Armed(c, y) ==
    c.q[y].st = "active" =>
        LET q == c.q[y]
        IN  /\ q.skt # NoSkt /\ q.signed
            /\ c.sock[q.skt].ktmr[q.id] = IF q.time = 0 THEN "off" ELSE "set"
            /\ q.idx \in 1 .. Len(c.srv)
            /\ c.srv[q.idx].tries # 0 => q.count < c.srv[q.idx].tries
            /\ c.srv[q.idx].addr \in q.tried \cup {"none"}
\* While a handler works on query x the others rest.
Sound(c, x) ==
    /\ Base(c) /\ c.q[x].st = "active" /\ c.q[x].id \in Ids
    /\ \A y \in Queries \ {x} : Placed(c, y) /\ Armed(c, y)
AtRest(c) == Base(c) /\ \A y \in Queries : Placed(c, y) /\ Armed(c, y)

\* The messages are the queued queries, each once, and the destroy after them.
Mail(c) ==
    /\ msgs \in Seq(Queries \cup {"destroy"})
    /\ \A a \in 1 .. Len(msgs) : msgs[a] # "destroy" => c.q[msgs[a]].st = "queued" /\ c.q[msgs[a]].id \in Ids
    /\ \A a, b \in 1 .. Len(msgs) : msgs[a] = msgs[b] => a = b
    /\ \A a \in 1 .. Len(msgs) : msgs[a] = "destroy" => life = "destroying" /\ a = Len(msgs)
Limits ==
    /\ limits.min \in Nat /\ limits.max \in Nat /\ limits.min <= limits.max
    /\ 2 * limits.max <= Cardinality(Sockets)

RadiusInv ==
    /\ Limits /\ Shape(client) /\ Reports(client) /\ life \in {"live", "destroying", "destroyed"}
    /\ client.wild = "none" /\ life # "destroyed" => AtRest(client) /\ Mail(client)
    /\ life = "destroyed" => msgs = <<>>
    /\ limits.min = limits.max => client.wild # "surplus"
    /\ life = "live" => client.wild # "timer"

\* What the query leaves when it gives its slot back.
SlotLeft(c, s, id) == [c.sock[s] EXCEPT !.tmr[id] = NoQuery, !.ktmr[id] = "none", !.count = @ - 1]
LinkOff(c, x, s, id, f) ==
    [c EXCEPT !.q[x].skt = NoSkt, !.sock[s] = SlotLeft(c, s, id), !.skts[f].queries = @ - 1]

LeftSlot(k, w, id) ==
    /\ IsSocket(w) /\ w.fam = k.fam /\ w.st = k.st /\ w.count = k.count - 1
    /\ \A z \in Ids : w.tmr[z] = IF z = id THEN NoQuery ELSE k.tmr[z]
    /\ \A z \in Ids : w.ktmr[z] = IF z = id THEN "none" ELSE k.ktmr[z]

\* A slot is left: what changes of the socket.
LEMMA SlotLeftIs ==
    ASSUME NEW c, Shape(c), NEW s \in Sockets, NEW id \in Ids
    PROVE  LeftSlot(c.sock[s], SlotLeft(c, s, id), id) /\ IsSocket(SlotLeft(c, s, id))
  <1> DEFINE k == c.sock[s]
             w == [k EXCEPT !.tmr[id] = NoQuery, !.ktmr[id] = "none", !.count = @ - 1]
  <1>1. IsSocket(k)
    BY DEF Shape
  <1> HIDE DEF k
  <1>2. DOMAIN k = {"fam", "st", "tmr", "ktmr", "count", "index"} /\ id \in DOMAIN k.tmr /\ id \in DOMAIN k.ktmr
    BY <1>1 DEF IsSocket
  <1>3. /\ w.fam = k.fam /\ w.st = k.st /\ w.count = k.count - 1 /\ w.index = k.index
        /\ DOMAIN w = {"fam", "st", "tmr", "ktmr", "count", "index"}
    BY <1>2
  <1>4. w.tmr = [k.tmr EXCEPT ![id] = NoQuery]
    BY <1>2
  <1>5. w.ktmr = [k.ktmr EXCEPT ![id] = "none"]
    BY <1>2
  <1>6. w = SlotLeft(c, s, id)
    BY DEF SlotLeft, k
  <1> HIDE DEF w
  <1>7. w.tmr \in [Ids -> Queries \cup {NoQuery}] /\ w.ktmr \in [Ids -> {"none", "set", "off"}]
    BY <1>1, <1>4, <1>5 DEF IsSocket
  <1>8. IsSocket(w)
    BY <1>1, <1>3, <1>7 DEF IsSocket
  <1>9. LeftSlot(k, w, id)
    BY <1>1, <1>3, <1>4, <1>5, <1>8 DEF LeftSlot, IsSocket
  <1> QED  BY <1>6, <1>8, <1>9 DEF k

\* The fields of d are those of c but for the link of query x.
LinkedOff(c, d, x, s, id, f) ==
    /\ DOMAIN d = RadiusFields
    /\ d.srv = c.srv /\ d.srv_count = c.srv_count /\ d.rep = c.rep /\ d.sent = c.sent /\ d.wild = c.wild
    /\ d.q = [c.q EXCEPT ![x] = [c.q[x] EXCEPT !.skt = NoSkt]]
    /\ d.sock = [c.sock EXCEPT ![s] = SlotLeft(c, s, id)]
    /\ d.skts = [c.skts EXCEPT ![f] = [c.skts[f] EXCEPT !.queries = c.skts[f].queries - 1]]

\* A query leaves its slot: what changes of the client.
LEMMA LinkOffIs ==
    ASSUME NEW c, Shape(c), NEW x \in Queries, NEW s \in Sockets, NEW id \in Ids, NEW f \in Radius!Families
    PROVE  LinkedOff(c, LinkOff(c, x, s, id, f), x, s, id, f) /\ Shape(LinkOff(c, x, s, id, f))
  <1> DEFINE w == SlotLeft(c, s, id)
             l == [c.skts[f] EXCEPT !.queries = c.skts[f].queries - 1]
             q == [c.q[x] EXCEPT !.skt = NoSkt]
             d == LinkOff(c, x, s, id, f)
  <1>1. DOMAIN c = RadiusFields /\ s \in DOMAIN c.sock /\ f \in DOMAIN c.skts /\ x \in DOMAIN c.q
    BY DEF Shape
  <1>2. d = [c EXCEPT !.q[x].skt = NoSkt, !.sock[s] = w, !.skts[f].queries = @ - 1]
    BY DEF LinkOff
  <1>3. IsSocket(w) /\ IsList(l) /\ IsQuery(q)
    <2>1. IsSocket(w)
      BY SlotLeftIs
    <2>2. IsList(c.skts[f]) /\ IsQuery(c.q[x])
      BY DEF Shape
    <2>3. IsList(l)
      BY <2>2 DEF IsList
    <2>4. IsQuery(q)
      BY <2>2 DEF IsQuery, QueryFields
    <2> QED  BY <2>1, <2>3, <2>4
  <1> HIDE DEF w, d
  <1>4. /\ DOMAIN d = RadiusFields
        /\ d.srv = c.srv /\ d.srv_count = c.srv_count /\ d.rep = c.rep /\ d.sent = c.sent /\ d.wild = c.wild
        /\ d.q = [c.q EXCEPT ![x] = q] /\ d.sock = [c.sock EXCEPT ![s] = w] /\ d.skts = [c.skts EXCEPT ![f] = l]
    BY <1>1, <1>2 DEF RadiusFields
  <1> HIDE DEF l, q
  <1>5. Shape(d)
    BY <1>3, <1>4 DEF Shape
  <1> QED  BY <1>4, <1>5 DEF w, l, q, d, LinkedOff

\* There are finitely many slots.
LEMMA SlotsFinite ==
    ASSUME NEW c
    PROVE  /\ \A k : IsFiniteSet(InUse(k))
           /\ \A f : IsFiniteSet(Busy(c, f))
  <1>1. ASSUME NEW k PROVE IsFiniteSet(InUse(k))
    <2>1. InUse(k) \in SUBSET Ids
      BY DEF InUse
    <2> QED  BY <2>1, RadiusAssumption, FS_Subset
  <1>2. ASSUME NEW f PROVE IsFiniteSet(Busy(c, f))
    <2>1. IsFiniteSet(Sockets \X Ids)
      BY RadiusAssumption, FS_Product
    <2>2. Busy(c, f) \in SUBSET (Sockets \X Ids)
      BY DEF Busy
    <2> QED  BY <2>1, <2>2, FS_Subset
  <1> QED  BY <1>1, <1>2

\* Query x sits in slot id of socket s.
At(c, x, s, id, f) ==
    /\ c.q[x].skt = s /\ c.q[x].id = id /\ c.q[x].st = "active"
    /\ c.sock[s].st = "live" /\ c.sock[s].fam = f /\ c.sock[s].tmr[id] = x

\* The slot of a query that has one.
LEMMA SlotOf ==
    ASSUME NEW c, Shape(c), Named(c), NEW x \in Queries, c.q[x].skt # NoSkt
    PROVE  \E s \in Sockets, id \in Ids, f \in Radius!Families :
              c.q[x].skt = s /\ c.q[x].id = id /\ c.sock[s].fam = f /\ At(c, x, s, id, f)
  BY DEF Shape, Named, IsSocket, At

\* A query that leaves its slot disturbs nothing else.
LEMMA LinkOffBase ==
    ASSUME NEW c, Base(c), NEW x \in Queries, NEW s \in Sockets, NEW id \in Ids, NEW f \in Radius!Families,
           At(c, x, s, id, f), NEW d, LinkedOff(c, d, x, s, id, f), Shape(d)
    PROVE  Base(d)
  <1> DEFINE w == SlotLeft(c, s, id)
  <1>1. /\ c.sock[s].st = "live" /\ c.sock[s].tmr[id] = x /\ c.q[x].st = "active"
        /\ c.q[x].skt = s /\ c.q[x].id = id /\ c.sock[s].fam = f
    BY DEF At
  <1>0. Shape(c) /\ x # NoQuery
    BY RadiusAssumption DEF Base
  <1>2. /\ d.rep = c.rep /\ d.sent = c.sent
        /\ d.q = [c.q EXCEPT ![x] = [c.q[x] EXCEPT !.skt = NoSkt]]
        /\ d.sock = [c.sock EXCEPT ![s] = w]
        /\ d.skts = [c.skts EXCEPT ![f] = [c.skts[f] EXCEPT !.queries = c.skts[f].queries - 1]]
    BY DEF LinkedOff
  <1>3a. LeftSlot(c.sock[s], w, id)
    BY <1>0, SlotLeftIs
  <1> HIDE DEF w
  <1>3. w.fam = f /\ w.st = "live" /\ w.count = c.sock[s].count - 1
    BY <1>1, <1>3a DEF LeftSlot
  <1>4. /\ d.q[x].skt = NoSkt /\ d.q[x].st = "active" /\ d.q[x].id = id
        /\ d.q[x].cb = c.q[x].cb /\ d.q[x].tried = c.q[x].tried /\ d.q[x].signed = c.q[x].signed
        /\ \A y \in Queries : y # x => d.q[y] = c.q[y]
    BY <1>0, <1>1, <1>2 DEF Shape, IsQuery, QueryFields
  <1>5. d.sock[s] = w /\ \A t \in Sockets : t # s => d.sock[t] = c.sock[t]
    BY <1>0, <1>1, <1>2 DEF Shape
  <1>6. /\ \A z \in Ids : w.tmr[z] = IF z = id THEN NoQuery ELSE c.sock[s].tmr[z]
        /\ \A z \in Ids : w.ktmr[z] = IF z = id THEN "none" ELSE c.sock[s].ktmr[z]
    BY <1>3a DEF LeftSlot
  <1>7. /\ d.skts[f].queries = c.skts[f].queries - 1
        /\ \A g \in Radius!Families : d.skts[g].skt = c.skts[g].skt
        /\ \A g \in Radius!Families : g # f => d.skts[g] = c.skts[g]
    BY <1>0, <1>1, <1>2 DEF Shape, IsList
  <1>8. Slots(d)
    <2> SUFFICES ASSUME NEW t \in Sockets, NEW z \in Ids, d.sock[t].st = "live", d.sock[t].tmr[z] # NoQuery
                 PROVE  LET y == d.sock[t].tmr[z]
                        IN  y \in Queries /\ d.q[y].st = "active" /\ d.q[y].skt = t /\ d.q[y].id = z
      BY DEF Slots
    <2>1. c.sock[t].st = "live" /\ c.sock[t].tmr[z] = d.sock[t].tmr[z] /\ (t = s => z # id)
      <3>1. CASE t = s
        BY <1>1, <1>3, <1>5, <1>6, <3>1
      <3>2. CASE t # s
        BY <1>5, <3>2
      <3> QED  BY <3>1, <3>2
    <2>2. LET y == c.sock[t].tmr[z]
          IN  y \in Queries /\ c.q[y].st = "active" /\ c.q[y].skt = t /\ c.q[y].id = z
      BY <2>1 DEF Base, Slots
    <2>3. c.sock[t].tmr[z] # x
      BY <1>1, <2>1, <2>2
    <2> QED  BY <1>4, <2>1, <2>2, <2>3
  <1>9. Named(d)
    <2> SUFFICES ASSUME NEW y \in Queries, d.q[y].skt # NoSkt
                 PROVE  LET q == d.q[y]
                        IN  /\ q.st = "active" /\ q.skt \in Sockets /\ q.id \in Ids
                            /\ d.sock[q.skt].st = "live" /\ d.sock[q.skt].tmr[q.id] = y
      BY DEF Named
    <2>1. y # x /\ d.q[y] = c.q[y]
      BY <1>4
    <2>2. /\ c.q[y].st = "active" /\ c.q[y].skt \in Sockets /\ c.q[y].id \in Ids
          /\ c.sock[c.q[y].skt].st = "live" /\ c.sock[c.q[y].skt].tmr[c.q[y].id] = y
      BY <2>1 DEF Base, Named
    <2>3. ~(c.q[y].skt = s /\ c.q[y].id = id)
      BY <1>1, <2>1, <2>2
    <2>4. CASE c.q[y].skt = s
      <3>1. w.tmr[c.q[y].id] = y
        BY <1>6, <2>2, <2>3, <2>4
      <3>2. d.sock[c.q[y].skt] = w
        BY <1>5, <2>4
      <3> QED  BY <1>3, <2>1, <2>2, <3>1, <3>2
    <2>5. CASE c.q[y].skt # s
      BY <1>5, <2>1, <2>2, <2>5
    <2> QED  BY <2>4, <2>5
  <1>10. Quiet(d)
    <2> SUFFICES ASSUME NEW t \in Sockets, NEW z \in Ids, d.sock[t].st # "live" \/ d.sock[t].tmr[z] = NoQuery
                 PROVE  d.sock[t].ktmr[z] = "none"
      BY DEF Quiet
    <2>1. CASE t = s
      <3>1. z # id => c.sock[s].tmr[z] = NoQuery
        BY <1>3, <1>5, <1>6, <2>1
      <3>2. z # id => c.sock[s].ktmr[z] = "none"
        BY <1>1, <3>1 DEF Quiet, Base
      <3> QED  BY <1>5, <1>6, <2>1, <3>2
    <2>2. CASE t # s
      BY <1>5, <2>2 DEF Quiet, Base
    <2> QED  BY <2>1, <2>2
  <1>11. Counts(d)
    <2> SUFFICES ASSUME NEW t \in Sockets, d.sock[t].st = "live"
                 PROVE  d.sock[t].count = Cardinality(InUse(d.sock[t]))
      BY DEF Counts
    <2>1. CASE t # s
      BY <1>5, <2>1 DEF Base, Counts
    <2>2. CASE t = s
      <3>1. InUse(w) = InUse(c.sock[s]) \ {id} /\ id \in InUse(c.sock[s])
        BY <1>0, <1>1, <1>6 DEF InUse
      <3>2. Cardinality(InUse(w)) = Cardinality(InUse(c.sock[s])) - 1
        <4>1. IsFiniteSet(InUse(c.sock[s]))
          BY SlotsFinite
        <4> QED  BY <3>1, <4>1, FS_RemoveElement
      <3>3. c.sock[s].count = Cardinality(InUse(c.sock[s]))
        BY <1>1 DEF Base, Counts
      <3> QED  BY <1>3, <1>5, <2>2, <3>2, <3>3
    <2> QED  BY <2>1, <2>2
  <1>12. Totals(d)
    <2> SUFFICES ASSUME NEW g \in Radius!Families PROVE d.skts[g].queries = Cardinality(Busy(d, g))
      BY DEF Totals
    <2>0. c.skts[g].queries = Cardinality(Busy(c, g))
      BY DEF Base, Totals
    <2>1. CASE g # f
      <3>1. Busy(d, g) = Busy(c, g)
        <4>1. \A t \in Sockets : d.sock[t].fam = g => d.sock[t] = c.sock[t]
          BY <1>3, <1>5, <2>1
        <4>2. \A t \in Sockets : c.sock[t].fam = g => d.sock[t] = c.sock[t]
          BY <1>1, <1>5, <2>1
        <4> QED  BY <4>1, <4>2 DEF Busy
      <3> QED  BY <1>7, <2>0, <2>1, <3>1
    <2>2. CASE g = f
      <3>1. ASSUME NEW t \in Sockets, NEW z \in Ids
            PROVE  <<t, z>> \in Busy(d, f) <=> <<t, z>> \in Busy(c, f) \ {<<s, id>>}
        <4>1. CASE t = s
          BY <1>1, <1>3, <1>5, <1>6, <4>1 DEF Busy
        <4>2. CASE t # s
          BY <1>5, <4>2 DEF Busy
        <4> QED  BY <4>1, <4>2
      <3>2. Busy(d, f) = Busy(c, f) \ {<<s, id>>}
        <4>1. Busy(d, f) \subseteq Sockets \X Ids /\ Busy(c, f) \subseteq Sockets \X Ids
          BY DEF Busy
        <4> QED  BY <3>1, <4>1
      <3>3. <<s, id>> \in Busy(c, f)
        BY <1>0, <1>1 DEF Busy
      <3>4. Cardinality(Busy(d, f)) = Cardinality(Busy(c, f)) - 1
        <4>1. IsFiniteSet(Busy(c, f))
          BY SlotsFinite
        <4> QED  BY <3>2, <3>3, <4>1, FS_RemoveElement
      <3> QED  BY <1>7, <2>0, <2>2, <3>4
    <2> QED  BY <2>1, <2>2
  <1>13. Lists(d)
    <2>1. \A t \in Sockets : d.sock[t].st = c.sock[t].st /\ d.sock[t].fam = c.sock[t].fam
      <3>1. d.sock[s].st = c.sock[s].st /\ d.sock[s].fam = c.sock[s].fam
        BY <1>1, <1>3, <1>5
      <3> QED  BY <1>5, <3>1
    <2> SUFFICES ASSUME NEW g \in Radius!Families
                 PROVE  LET list == d.skts[g].skt
                        IN  /\ list \in Seq(Sockets) /\ Len(list) <= limits.max
                            /\ \A a \in 1 .. Len(list) : d.sock[list[a]].st = "live" /\ d.sock[list[a]].fam = g
                            /\ \A a, b \in 1 .. Len(list) : list[a] = list[b] => a = b
      BY DEF Lists
    <2> DEFINE list == c.skts[g].skt
    <2>2. /\ list \in Seq(Sockets) /\ Len(list) <= limits.max
          /\ \A a \in 1 .. Len(list) : c.sock[list[a]].st = "live" /\ c.sock[list[a]].fam = g
          /\ \A a, b \in 1 .. Len(list) : list[a] = list[b] => a = b
      BY DEF Base, Lists
    <2>3. d.skts[g].skt = list
      BY <1>7
    <2> HIDE DEF list
    <2>4. \A a \in 1 .. Len(list) : list[a] \in Sockets
      BY <2>2
    <2>5. \A a \in 1 .. Len(list) : d.sock[list[a]].st = "live" /\ d.sock[list[a]].fam = g
      BY <2>1, <2>2, <2>4
    <2> QED  BY <2>2, <2>3, <2>5
  <1>14. Listed(d)
    <2>1. \A t \in Sockets : d.sock[t].st = c.sock[t].st /\ d.sock[t].fam = c.sock[t].fam
      <3>1. d.sock[s].st = c.sock[s].st /\ d.sock[s].fam = c.sock[s].fam
        BY <1>1, <1>3, <1>5
      <3> QED  BY <1>5, <3>1
    <2>2. \A t \in Sockets : c.sock[t].fam \in Radius!Families
      BY <1>0 DEF Shape, IsSocket
    <2> SUFFICES ASSUME NEW t \in Sockets, d.sock[t].st = "live"
                 PROVE  \E a \in 1 .. Len(d.skts[d.sock[t].fam].skt) : d.skts[d.sock[t].fam].skt[a] = t
      BY DEF Listed
    <2>3. \E a \in 1 .. Len(c.skts[c.sock[t].fam].skt) : c.skts[c.sock[t].fam].skt[a] = t
      BY <2>1 DEF Base, Listed
    <2>4. d.sock[t].fam = c.sock[t].fam /\ d.skts[c.sock[t].fam].skt = c.skts[c.sock[t].fam].skt
      BY <1>7, <2>1, <2>2
    <2> QED  BY <2>3, <2>4
  <1>15. NoSurplus(d)
    BY <1>3, <1>5 DEF NoSurplus, Base
  <1>16. Reports(d)
    <2>1. \A y \in Queries : /\ d.q[y].cb = c.q[y].cb /\ d.q[y].tried = c.q[y].tried
                             /\ d.q[y].st = c.q[y].st
      BY <1>1, <1>4
    <2>2. Reports(c)
      BY DEF Base
    <2>3. d.rep = c.rep
      BY <1>2
    <2> QED  BY <2>1, <2>2, <2>3 DEF Reports
  <1>17. Sent(d)
    <2>1. \A y \in Queries : /\ d.q[y].signed = c.q[y].signed /\ d.q[y].tried = c.q[y].tried
                             /\ d.q[y].st = c.q[y].st
      BY <1>1, <1>4
    <2>2. Sent(c)
      BY DEF Base
    <2>3. d.sent = c.sent
      BY <1>2
    <2> QED  BY <2>1, <2>2, <2>3 DEF Sent
  <1> QED  BY <1>8, <1>9, <1>10, <1>11, <1>12, <1>13, <1>14, <1>15, <1>16, <1>17 DEF Base

\* The place of the socket is cleared and the last place is gone.
LEMMA OffListIs ==
    ASSUME NEW list \in Seq(Sockets \cup {NoSkt}), NEW s, \E a \in DOMAIN list : list[a] = s
    PROVE  LET off == Radius!OffList(list, s)
           IN  /\ off \in Seq(Sockets \cup {NoSkt}) /\ Len(off) = Len(list) - 1
               /\ \E at \in 1 .. Len(list) : /\ list[at] = s
                     /\ \A a \in 1 .. Len(list) - 1 : off[a] = IF a = at THEN NoSkt ELSE list[a]
  <1> DEFINE at == CHOOSE k \in DOMAIN list : list[k] = s
             holed == [list EXCEPT ![at] = NoSkt]
  <1>1. at \in 1 .. Len(list) /\ list[at] = s
    OBVIOUS
  <1>2. Radius!OffList(list, s) = SubSeq(holed, 1, Len(list) - 1)
    BY DEF Radius!OffList
  <1> HIDE DEF at
  <1>3. holed \in Seq(Sockets \cup {NoSkt}) /\ Len(holed) = Len(list)
    BY <1>1
  <1>4. \A a \in 1 .. Len(list) : holed[a] = IF a = at THEN NoSkt ELSE list[a]
    BY <1>1
  <1> HIDE DEF holed
  <1>5. /\ SubSeq(holed, 1, Len(list) - 1) \in Seq(Sockets \cup {NoSkt})
        /\ Len(SubSeq(holed, 1, Len(list) - 1)) = Len(list) - 1
        /\ \A a \in 1 .. Len(list) - 1 : SubSeq(holed, 1, Len(list) - 1)[a] = holed[a]
    BY <1>1, <1>3
  <1> QED  BY <1>1, <1>2, <1>4, <1>5

\* What is left of a query that is reported.
LEMMA FreedQueryIs ==
    ASSUME NEW q, IsQuery(q)
    PROVE  LET e == Radius!Freed(q)
           IN  IsQuery(e) /\ e.st = "freed" /\ e.skt = NoSkt /\ e.cb = q.cb /\ e.tried = q.tried
  BY DEF Radius!Freed, Radius!NewQuery, IsQuery, QueryFields

\* What a callback is told.
LEMMA ReasonIs ==
    ASSUME NEW err
    PROVE  Radius!Reason(err) \in Reasons /\ (err # "ok" => Radius!Reason(err) # "ok")
  <1>1. CASE err = "ok"
    BY <1>1 DEF Radius!Reason, Reasons
  <1>2. CASE err = "ETIMEDOUT"
    BY <1>2 DEF Radius!Reason, Reasons
  <1>3. CASE err # "ok" /\ err # "ETIMEDOUT"
    <2>1. Radius!Reason(err) = "error"
      BY <1>3 DEF Radius!Reason, Reasons
    <2> QED  BY <2>1 DEF Reasons
  <1> QED  BY <1>1, <1>2, <1>3

Owned(c, s) == {c.sock[s].tmr[z] : z \in Ids} \ {NoQuery}

\* The fields of e are those of c but for socket s and the queries it served.
SocketOff(c, e, s) ==
    LET f == c.sock[s].fam
    IN  /\ DOMAIN e = RadiusFields
        /\ e.srv = c.srv /\ e.srv_count = c.srv_count /\ e.wild = c.wild
        /\ e.sock = [c.sock EXCEPT ![s] = [c.sock[s] EXCEPT !.st = "freed"]]
        /\ e.sent = {p \in c.sent : p.s # s}
        /\ \A g \in Radius!Families : g # f => e.skts[g] = c.skts[g]
        /\ (\E a \in DOMAIN c.skts[f].skt : c.skts[f].skt[a] = s) =>
              /\ e.skts[f].skt = Radius!OffList(c.skts[f].skt, s)
              /\ e.skts[f].queries = c.skts[f].queries - c.sock[s].count
        /\ \A y \in Queries : /\ y \in Owned(c, s) => e.q[y] = Radius!Freed(c.q[y])
                              /\ y \in Owned(c, s) /\ c.q[y].cb => e.rep[y] = Append(c.rep[y], "error")
                              /\ y \notin Owned(c, s) => e.q[y] = c.q[y]
                              /\ y \notin Owned(c, s) \/ ~c.q[y].cb => e.rep[y] = c.rep[y]

\* radius_client_socket_free(): what changes of the client.
LEMMA SocketFreeIs ==
    ASSUME NEW c, Shape(c), NEW s \in Sockets
    PROVE  /\ SocketOff(c, Radius!radius_client_socket_free(c, s), s)
           /\ Shape(Radius!radius_client_socket_free(c, s))
  <1> DEFINE f == c.sock[s].fam
             owned == Owned(c, s)
             listed == \E a \in DOMAIN c.skts[f].skt : c.skts[f].skt[a] = s
             l == IF listed THEN [skt |-> Radius!OffList(c.skts[f].skt, s),
                                  queries |-> c.skts[f].queries - c.sock[s].count] ELSE c.skts[f]
             qs == [x \in Queries |-> IF x \in owned THEN Radius!Freed(c.q[x]) ELSE c.q[x]]
             reps == [x \in Queries |-> IF x \in owned /\ c.q[x].cb
                                        THEN Append(c.rep[x], Radius!Reason("EINTR")) ELSE c.rep[x]]
             k == [c.sock[s] EXCEPT !.st = "freed"]
             ps == {p \in c.sent : p.s # s}
             e == Radius!radius_client_socket_free(c, s)
  <1>1. DOMAIN c = RadiusFields /\ s \in DOMAIN c.sock /\ f \in DOMAIN c.skts /\ f \in Radius!Families
    BY DEF Shape, IsSocket
  <1>2. e = [c EXCEPT !.sock[s].st = "freed", !.skts[f] = l, !.sent = ps, !.q = qs, !.rep = reps]
    BY DEF Radius!radius_client_socket_free, Owned
  <1>3. IsList(l)
    <2>0. IsList(c.skts[f]) /\ c.sock[s].count \in Int
      BY <1>1 DEF Shape, IsSocket
    <2>1. CASE listed
      <3>1. Radius!OffList(c.skts[f].skt, s) \in Seq(Sockets \cup {NoSkt})
        BY <2>0, <2>1, OffListIs DEF IsList
      <3>2. l = [skt |-> Radius!OffList(c.skts[f].skt, s), queries |-> c.skts[f].queries - c.sock[s].count]
        BY <2>1
      <3>3. c.skts[f].queries - c.sock[s].count \in Int
        BY <2>0 DEF IsList
      <3> HIDE DEF l
      <3> QED  BY <3>1, <3>2, <3>3 DEF IsList
    <2>2. CASE ~listed
      BY <2>0, <2>2
    <2> QED  BY <2>1, <2>2
  <1>4. IsSocket(k)
    BY DEF Shape, IsSocket
  <1>5. \A y \in Queries : IsQuery(qs[y])
    BY FreedQueryIs DEF Shape
  <1>6. reps \in [Queries -> Seq(Reasons)]
    <2>1. Radius!Reason("EINTR") \in Reasons /\ \A x \in Queries : c.rep[x] \in Seq(Reasons)
      BY ReasonIs DEF Shape
    <2>2. \A x \in Queries : Append(c.rep[x], Radius!Reason("EINTR")) \in Seq(Reasons)
      BY <2>1
    <2> QED  BY <2>1, <2>2
  <1>7. /\ DOMAIN qs = Queries
        /\ \A y \in Queries : /\ y \in owned => qs[y] = Radius!Freed(c.q[y])
                              /\ y \notin owned => qs[y] = c.q[y]
    OBVIOUS
  <1>8. \A y \in Queries : /\ y \in owned /\ c.q[y].cb => reps[y] = Append(c.rep[y], "error")
                           /\ y \notin owned \/ ~c.q[y].cb => reps[y] = c.rep[y]
    BY DEF Radius!Reason, Reasons
  <1>9. listed => /\ l.skt = Radius!OffList(c.skts[f].skt, s)
                  /\ l.queries = c.skts[f].queries - c.sock[s].count
    OBVIOUS
  <1> HIDE DEF owned, l, qs, reps, ps, e, f
  <1>10. /\ DOMAIN e = RadiusFields
         /\ e.srv = c.srv /\ e.srv_count = c.srv_count /\ e.wild = c.wild
         /\ e.sock = [c.sock EXCEPT ![s] = k] /\ e.sent = ps /\ e.q = qs /\ e.rep = reps
         /\ e.skts = [c.skts EXCEPT ![f] = l]
    BY <1>1, <1>2 DEF RadiusFields
  <1>11. e.skts[f] = l /\ \A g \in Radius!Families : g # f => e.skts[g] = c.skts[g]
    BY <1>1, <1>10 DEF Shape
  <1>12. SocketOff(c, e, s)
    BY <1>7, <1>8, <1>9, <1>10, <1>11 DEF SocketOff, ps, owned, f
  <1> HIDE DEF k
  <1>13. Shape(e)
    <2>1. DOMAIN e.sock = Sockets /\ \A t \in Sockets : IsSocket(e.sock[t])
      BY <1>4, <1>10 DEF Shape
    <2>2. DOMAIN e.skts = Radius!Families /\ \A g \in Radius!Families : IsList(e.skts[g])
      BY <1>3, <1>10, <1>11 DEF Shape
    <2>3. DOMAIN e.q = Queries /\ \A y \in Queries : IsQuery(e.q[y])
      BY <1>5, <1>7, <1>10
    <2> QED  BY <1>6, <1>10, <2>1, <2>2, <2>3 DEF Shape
  <1> QED  BY <1>12, <1>13 DEF e

\* Freeing a living socket ends the queries it serves, which had not ended yet.
LEMMA SocketFreeLinks ==
    ASSUME NEW c, Shape(c), Slots(c), Named(c), Reports(c), NEW s \in Sockets, c.sock[s].st = "live",
           NEW e, SocketOff(c, e, s), Shape(e)
    PROVE  Slots(e) /\ Named(e) /\ Reports(e)
  <1>1. /\ e.sock[s] = [c.sock[s] EXCEPT !.st = "freed"]
        /\ \A t \in Sockets : t # s => e.sock[t] = c.sock[t]
    BY DEF SocketOff, Shape
  <1>2. e.sock[s].st = "freed" /\ e.sock[s].tmr = c.sock[s].tmr
    <2>1. IsSocket(c.sock[s])
      BY DEF Shape
    <2> QED  BY <1>1, <2>1 DEF IsSocket
  <1>3. \A y \in Queries : y \in Owned(c, s) => c.q[y].skt = s /\ c.q[y].st = "active" /\ IsQuery(c.q[y])
    BY DEF Owned, Slots, Shape
  <1>4. \A y \in Queries : y \in Owned(c, s) => e.q[y].st = "freed" /\ e.q[y].skt = NoSkt
                                               /\ e.q[y].cb = c.q[y].cb
    <2> SUFFICES ASSUME NEW y \in Queries, y \in Owned(c, s)
                 PROVE  e.q[y].st = "freed" /\ e.q[y].skt = NoSkt /\ e.q[y].cb = c.q[y].cb
      OBVIOUS
    <2>1. e.q[y] = Radius!Freed(c.q[y])
      BY DEF SocketOff
    <2> QED  BY <1>3, <2>1, FreedQueryIs
  <1>5. \A y \in Queries : y \notin Owned(c, s) => e.q[y] = c.q[y]
    BY DEF SocketOff
  <1>6. Slots(e)
    <2> SUFFICES ASSUME NEW t \in Sockets, NEW z \in Ids, e.sock[t].st = "live", e.sock[t].tmr[z] # NoQuery
                 PROVE  LET y == e.sock[t].tmr[z]
                        IN  y \in Queries /\ e.q[y].st = "active" /\ e.q[y].skt = t /\ e.q[y].id = z
      BY DEF Slots
    <2>1. t # s /\ e.sock[t] = c.sock[t]
      BY <1>1, <1>2
    <2>2. LET y == c.sock[t].tmr[z]
          IN  y \in Queries /\ c.q[y].st = "active" /\ c.q[y].skt = t /\ c.q[y].id = z
      BY <2>1 DEF Slots
    <2>3. c.sock[t].tmr[z] \notin Owned(c, s)
      BY <1>3, <2>1, <2>2
    <2> QED  BY <1>5, <2>1, <2>2, <2>3
  <1>7. Named(e)
    <2> SUFFICES ASSUME NEW y \in Queries, e.q[y].skt # NoSkt
                 PROVE  LET q == e.q[y]
                        IN  /\ q.st = "active" /\ q.skt \in Sockets /\ q.id \in Ids
                            /\ e.sock[q.skt].st = "live" /\ e.sock[q.skt].tmr[q.id] = y
      BY DEF Named
    <2>1. y \notin Owned(c, s) /\ e.q[y] = c.q[y]
      BY <1>4, <1>5
    <2>2. /\ c.q[y].st = "active" /\ c.q[y].skt \in Sockets /\ c.q[y].id \in Ids
          /\ c.sock[c.q[y].skt].st = "live" /\ c.sock[c.q[y].skt].tmr[c.q[y].id] = y
      BY <2>1 DEF Named
    <2>3. c.q[y].skt # s
      BY <2>1, <2>2, RadiusAssumption DEF Owned
    <2> QED  BY <1>1, <2>1, <2>2, <2>3
  <1>8. Reports(e)
    <2> SUFFICES ASSUME NEW y \in Queries
                 PROVE  /\ Len(e.rep[y]) <= 1
                        /\ e.rep[y] # <<>> => e.q[y].st = "freed" /\ e.q[y].cb
                        /\ e.rep[y] = <<"ok">> => e.q[y].tried # {}
      BY DEF Reports
    <2>1. /\ Len(c.rep[y]) <= 1
          /\ c.rep[y] # <<>> => c.q[y].st = "freed" /\ c.q[y].cb
          /\ c.rep[y] = <<"ok">> => c.q[y].tried # {}
      BY DEF Reports
    <2>2. CASE y \notin Owned(c, s)
      <3>1. e.rep[y] = c.rep[y]
        BY <2>2 DEF SocketOff
      <3> QED  BY <1>5, <2>1, <2>2, <3>1
    <2>3. CASE y \in Owned(c, s)
      <3>1. c.rep[y] = <<>>
        BY <1>3, <2>1, <2>3
      <3>2. CASE c.q[y].cb
        <4>1. e.rep[y] = Append(c.rep[y], "error")
          BY <2>3, <3>2 DEF SocketOff
        <4>2. e.rep[y] = <<"error">>
          BY <3>1, <4>1
        <4> QED  BY <1>4, <2>3, <3>2, <4>2
      <3>3. CASE ~c.q[y].cb
        <4>1. e.rep[y] = c.rep[y]
          BY <3>3 DEF SocketOff
        <4>2. e.rep[y] = <<>>
          BY <3>1, <4>1
        <4> QED  BY <4>2
      <3> QED  BY <3>2, <3>3
    <2> QED  BY <2>2, <2>3
  <1> QED  BY <1>6, <1>7, <1>8

\* A socket without queries goes from the end of its list; nobody notices.
LEMMA SparedKeeps ==
    ASSUME NEW c, Base(c), Limits, NEW s \in Sockets, c.sock[s].st = "live", c.sock[s].count = 0,
           NEW f \in Radius!Families, c.sock[s].fam = f,
           Len(c.skts[f].skt) > limits.min, c.skts[f].skt[Len(c.skts[f].skt)] = s,
           NEW e, SocketOff(c, e, s), Shape(e)
    PROVE  /\ Base(e)
           /\ \A y \in Queries : /\ e.q[y] = c.q[y]
                                 /\ Placed(c, y) => Placed(e, y)
                                 /\ Armed(c, y) => Armed(e, y)
  <1> DEFINE list == c.skts[f].skt
  <1>0. /\ Shape(c) /\ Slots(c) /\ Named(c) /\ Quiet(c) /\ Counts(c) /\ Totals(c)
        /\ Lists(c) /\ Listed(c) /\ NoSurplus(c) /\ Reports(c) /\ Sent(c)
    BY DEF Base
  <1>1. /\ e.sock[s] = [c.sock[s] EXCEPT !.st = "freed"]
        /\ \A t \in Sockets : t # s => e.sock[t] = c.sock[t]
    BY <1>0 DEF SocketOff, Shape
  <1>2. e.sock[s].st = "freed" /\ e.sock[s].tmr = c.sock[s].tmr /\ e.sock[s].ktmr = c.sock[s].ktmr
    <2>1. IsSocket(c.sock[s])
      BY <1>0 DEF Shape
    <2> QED  BY <1>1, <2>1 DEF IsSocket
  <1>3. \A z \in Ids : c.sock[s].tmr[z] = NoQuery
    <2>1. Cardinality(InUse(c.sock[s])) = 0
      BY <1>0 DEF Counts
    <2>2. InUse(c.sock[s]) = {}
      BY <2>1, SlotsFinite, FS_EmptySet
    <2> QED  BY <2>2 DEF InUse
  <1>4. Owned(c, s) = {}
    BY <1>3 DEF Owned
  <1>5. \A y \in Queries : e.q[y] = c.q[y] /\ e.rep[y] = c.rep[y]
    BY <1>4 DEF SocketOff
  <1>6. /\ list \in Seq(Sockets) /\ Len(list) <= limits.max
        /\ \A a \in 1 .. Len(list) : c.sock[list[a]].st = "live" /\ c.sock[list[a]].fam = f
        /\ \A a, b \in 1 .. Len(list) : list[a] = list[b] => a = b
    BY <1>0 DEF Lists
  <1>7. Len(list) \in Nat /\ Len(list) > limits.min /\ limits.min \in Nat /\ list[Len(list)] = s
        /\ list \in Seq(Sockets \cup {NoSkt})
    BY <1>6 DEF Limits
  <1>g. \A g \in Radius!Families : g # f => e.skts[g] = c.skts[g]
    BY DEF SocketOff
  <1> HIDE DEF list
  <1>8. /\ e.skts[f].skt = Radius!OffList(list, s)
        /\ e.skts[f].queries = c.skts[f].queries
    <2>1. \E a \in DOMAIN list : list[a] = s
      BY <1>6, <1>7
    <2>2. /\ e.skts[f].skt = Radius!OffList(list, s)
          /\ e.skts[f].queries = c.skts[f].queries - c.sock[s].count
      BY <2>1 DEF SocketOff, list
    <2>3. c.skts[f].queries \in Int
      BY <1>0 DEF Shape, IsList
    <2> QED  BY <2>2, <2>3
  <1>9. LET off == e.skts[f].skt
        IN  /\ Len(off) = Len(list) - 1 /\ off \in Seq(Sockets)
            /\ \A a \in 1 .. Len(list) - 1 : off[a] = list[a]
    <2> DEFINE off == e.skts[f].skt
    <2>1. \E a \in DOMAIN list : list[a] = s
      BY <1>6, <1>7
    <2>2. /\ off \in Seq(Sockets \cup {NoSkt}) /\ Len(off) = Len(list) - 1
          /\ \E at \in 1 .. Len(list) : /\ list[at] = s
                /\ \A a \in 1 .. Len(list) - 1 : off[a] = IF a = at THEN NoSkt ELSE list[a]
      BY <1>7, <1>8, <2>1, OffListIs
    <2> HIDE DEF off
    <2>3. \A a \in 1 .. Len(list) - 1 : off[a] = list[a] /\ list[a] \in Sockets
      BY <1>6, <1>7, <2>2
    <2>4. off \in Seq(Sockets)
      BY <1>7, <2>2, <2>3
    <2> QED  BY <2>2, <2>3, <2>4 DEF off
  <1>10. Slots(e) /\ Named(e) /\ Reports(e)
    BY <1>0, SocketFreeLinks
  <1>11. Quiet(e)
    <2> SUFFICES ASSUME NEW t \in Sockets, NEW z \in Ids, e.sock[t].st # "live" \/ e.sock[t].tmr[z] = NoQuery
                 PROVE  e.sock[t].ktmr[z] = "none"
      BY DEF Quiet
    <2>1. CASE t = s
      BY <1>0, <1>2, <1>3, <2>1 DEF Quiet
    <2>2. CASE t # s
      BY <1>0, <1>1, <2>2 DEF Quiet
    <2> QED  BY <2>1, <2>2
  <1>12. Counts(e)
    <2> SUFFICES ASSUME NEW t \in Sockets, e.sock[t].st = "live"
                 PROVE  e.sock[t].count = Cardinality(InUse(e.sock[t]))
      BY DEF Counts
    <2>1. t # s /\ e.sock[t] = c.sock[t]
      BY <1>1, <1>2
    <2> QED  BY <1>0, <2>1 DEF Counts
  <1>13. Totals(e)
    <2> SUFFICES ASSUME NEW g \in Radius!Families PROVE e.skts[g].queries = Cardinality(Busy(e, g))
      BY DEF Totals
    <2>1. ASSUME NEW t \in Sockets, NEW z \in Ids
          PROVE  <<t, z>> \in Busy(e, g) <=> <<t, z>> \in Busy(c, g)
      <3>1. CASE t = s
        BY <1>2, <1>3, <3>1 DEF Busy
      <3>2. CASE t # s
        BY <1>1, <3>2 DEF Busy
      <3> QED  BY <3>1, <3>2
    <2>2. Busy(e, g) = Busy(c, g)
      <3>1. Busy(e, g) \subseteq Sockets \X Ids /\ Busy(c, g) \subseteq Sockets \X Ids
        BY DEF Busy
      <3>2. \A tz \in Sockets \X Ids : tz \in Busy(e, g) <=> tz \in Busy(c, g)
        BY <2>1
      <3> QED  BY <3>1, <3>2
    <2>3. e.skts[g].queries = c.skts[g].queries
      BY <1>8, <1>g
    <2> QED  BY <1>0, <2>2, <2>3 DEF Totals
  <1>14. Lists(e)
    <2> SUFFICES ASSUME NEW g \in Radius!Families
                 PROVE  LET l == e.skts[g].skt
                        IN  /\ l \in Seq(Sockets) /\ Len(l) <= limits.max
                            /\ \A a \in 1 .. Len(l) : e.sock[l[a]].st = "live" /\ e.sock[l[a]].fam = g
                            /\ \A a, b \in 1 .. Len(l) : l[a] = l[b] => a = b
      BY DEF Lists
    <2>1. CASE g = f
      <3> DEFINE off == e.skts[f].skt
      <3>1. /\ Len(off) = Len(list) - 1 /\ off \in Seq(Sockets)
            /\ \A a \in 1 .. Len(list) - 1 : off[a] = list[a]
        BY <1>9
      <3> HIDE DEF off
      <3>2. Len(off) <= limits.max
        BY <1>6, <1>7, <3>1 DEF Limits
      <3>3. ASSUME NEW a \in 1 .. Len(off) PROVE e.sock[off[a]].st = "live" /\ e.sock[off[a]].fam = f
        <4>1. a \in 1 .. Len(list) /\ off[a] = list[a] /\ a # Len(list) /\ Len(list) \in 1 .. Len(list)
          BY <1>7, <3>1, <3>3
        <4>2. list[a] # s /\ list[a] \in Sockets
          BY <1>6, <1>7, <4>1
        <4>3. e.sock[list[a]] = c.sock[list[a]]
          BY <1>1, <4>2
        <4> QED  BY <1>6, <4>1, <4>3
      <3>4. \A a, b \in 1 .. Len(off) : off[a] = off[b] => a = b
        BY <1>6, <1>7, <3>1
      <3> QED  BY <2>1, <3>1, <3>2, <3>3, <3>4 DEF off
    <2>2. CASE g # f
      <3> DEFINE l == c.skts[g].skt
      <3>1. /\ l \in Seq(Sockets) /\ Len(l) <= limits.max
            /\ \A a \in 1 .. Len(l) : c.sock[l[a]].st = "live" /\ c.sock[l[a]].fam = g
            /\ \A a, b \in 1 .. Len(l) : l[a] = l[b] => a = b
        BY <1>0 DEF Lists
      <3>2. e.skts[g].skt = l
        BY <1>g, <2>2
      <3> HIDE DEF l
      <3>3. ASSUME NEW a \in 1 .. Len(l) PROVE e.sock[l[a]] = c.sock[l[a]]
        <4>1. l[a] \in Sockets /\ l[a] # s
          BY <2>2, <3>1, <3>3
        <4> QED  BY <1>1, <4>1
      <3> QED  BY <3>1, <3>2, <3>3
    <2> QED  BY <2>1, <2>2
  <1>15. Listed(e)
    <2> SUFFICES ASSUME NEW t \in Sockets, e.sock[t].st = "live"
                 PROVE  \E a \in 1 .. Len(e.skts[e.sock[t].fam].skt) : e.skts[e.sock[t].fam].skt[a] = t
      BY DEF Listed
    <2>1. t # s /\ e.sock[t] = c.sock[t]
      BY <1>1, <1>2
    <2> DEFINE g == c.sock[t].fam
    <2>2. g \in Radius!Families
      BY <1>0 DEF Shape, IsSocket
    <2>3. PICK a \in 1 .. Len(c.skts[g].skt) : c.skts[g].skt[a] = t
      BY <1>0, <2>1 DEF Listed
    <2>4. CASE g = f
      <3>1. a \in 1 .. Len(list) /\ list[a] = t /\ a # Len(list)
        BY <1>7, <2>1, <2>3, <2>4 DEF list
      <3>2. a \in 1 .. Len(e.skts[f].skt) /\ e.skts[f].skt[a] = t
        BY <1>7, <1>9, <3>1
      <3> QED  BY <2>1, <2>4, <3>2
    <2>5. CASE g # f
      BY <1>g, <2>1, <2>2, <2>3, <2>5
    <2> QED  BY <2>4, <2>5
  <1>16. NoSurplus(e)
    <2>1. limits.min # limits.max
      BY <1>6, <1>7 DEF Limits
    <2> QED  BY <2>1 DEF NoSurplus
  <1>17. e.sent \subseteq c.sent /\ e.srv = c.srv
    BY DEF SocketOff
  <1>18. Sent(e)
    BY <1>0, <1>5, <1>17 DEF Sent
  <1>19. Base(e)
    BY <1>10, <1>11, <1>12, <1>13, <1>14, <1>15, <1>16, <1>18 DEF Base
  <1>20. ASSUME NEW y \in Queries, Placed(c, y) PROVE Placed(e, y)
    BY <1>5, <1>17, <1>20 DEF Placed
  <1>21. ASSUME NEW y \in Queries, Armed(c, y) PROVE Armed(e, y)
    <2> SUFFICES ASSUME e.q[y].st = "active"
                 PROVE  LET q == e.q[y]
                        IN  /\ q.skt # NoSkt /\ q.signed
                            /\ e.sock[q.skt].ktmr[q.id] = IF q.time = 0 THEN "off" ELSE "set"
                            /\ q.idx \in 1 .. Len(e.srv)
                            /\ e.srv[q.idx].tries # 0 => q.count < e.srv[q.idx].tries
                            /\ e.srv[q.idx].addr \in q.tried \cup {"none"}
      BY DEF Armed
    <2>1. /\ c.q[y].skt # NoSkt /\ c.q[y].signed
          /\ c.sock[c.q[y].skt].ktmr[c.q[y].id] = IF c.q[y].time = 0 THEN "off" ELSE "set"
          /\ c.q[y].idx \in 1 .. Len(c.srv)
          /\ c.srv[c.q[y].idx].tries # 0 => c.q[y].count < c.srv[c.q[y].idx].tries
          /\ c.srv[c.q[y].idx].addr \in c.q[y].tried \cup {"none"}
      BY <1>5, <1>21 DEF Armed
    <2>2. /\ c.q[y].skt \in Sockets /\ c.q[y].id \in Ids /\ c.sock[c.q[y].skt].tmr[c.q[y].id] = y
      BY <1>0, <2>1 DEF Named
    <2>3. c.q[y].skt # s
      BY <1>3, <2>2, RadiusAssumption
    <2>4. e.sock[c.q[y].skt] = c.sock[c.q[y].skt] /\ e.q[y] = c.q[y]
      BY <1>1, <1>5, <2>2, <2>3
    <2> QED  BY <1>17, <2>1, <2>4
  <1> QED  BY <1>5, <1>19, <1>20, <1>21

\* The servers are the same.
SameServers(c, d) == d.srv = c.srv /\ d.srv_count = c.srv_count /\ d.wild = c.wild

\* The queries are the same but for the socket.
SameQuery(q, p) ==
    /\ p.st = q.st /\ p.any = q.any /\ p.id = q.id /\ p.idx = q.idx /\ p.count = q.count /\ p.time = q.time
    /\ p.cb = q.cb /\ p.signed = q.signed /\ p.tried = q.tried

\* A query that leaves its slot disturbs no other query.
LEMMA LinkOffOthers ==
    ASSUME NEW c, Base(c), NEW x \in Queries, NEW s \in Sockets, NEW id \in Ids, NEW f \in Radius!Families,
           At(c, x, s, id, f), NEW d, LinkedOff(c, d, x, s, id, f), NEW y \in Queries, y # x,
           Placed(c, y), Armed(c, y)
    PROVE  Placed(d, y) /\ Armed(d, y)
  <1> DEFINE w == SlotLeft(c, s, id)
  <1>0. Shape(c) /\ Named(c)
    BY DEF Base
  <1>1. d.sent = c.sent /\ d.srv = c.srv /\ d.q[y] = c.q[y]
    BY <1>0 DEF LinkedOff, Shape
  <1>2. Placed(d, y)
    BY <1>1 DEF Placed
  <1>3. Armed(d, y)
    <2> SUFFICES ASSUME d.q[y].st = "active"
                 PROVE  LET q == d.q[y]
                        IN  /\ q.skt # NoSkt /\ q.signed
                            /\ d.sock[q.skt].ktmr[q.id] = IF q.time = 0 THEN "off" ELSE "set"
                            /\ q.idx \in 1 .. Len(d.srv)
                            /\ d.srv[q.idx].tries # 0 => q.count < d.srv[q.idx].tries
                            /\ d.srv[q.idx].addr \in q.tried \cup {"none"}
      BY DEF Armed
    <2>1. /\ c.q[y].skt # NoSkt /\ c.q[y].signed
          /\ c.sock[c.q[y].skt].ktmr[c.q[y].id] = IF c.q[y].time = 0 THEN "off" ELSE "set"
          /\ c.q[y].idx \in 1 .. Len(c.srv)
          /\ c.srv[c.q[y].idx].tries # 0 => c.q[y].count < c.srv[c.q[y].idx].tries
          /\ c.srv[c.q[y].idx].addr \in c.q[y].tried \cup {"none"}
      BY <1>1 DEF Armed
    <2>2. /\ c.q[y].skt \in Sockets /\ c.q[y].id \in Ids /\ c.sock[c.q[y].skt].tmr[c.q[y].id] = y
      BY <1>0, <2>1 DEF Named
    <2>3. ~(c.q[y].skt = s /\ c.q[y].id = id)
      BY <2>2 DEF At
    <2>4. d.sock[s] = w /\ \A t \in Sockets : t # s => d.sock[t] = c.sock[t]
      BY <1>0 DEF LinkedOff, Shape
    <2>5. LeftSlot(c.sock[s], w, id)
      BY <1>0, SlotLeftIs
    <2>6. \A z \in Ids : z # id => w.ktmr[z] = c.sock[s].ktmr[z]
      BY <2>5 DEF LeftSlot
    <2> HIDE DEF w
    <2>7. d.sock[c.q[y].skt].ktmr[c.q[y].id] = c.sock[c.q[y].skt].ktmr[c.q[y].id]
      <3>1. CASE c.q[y].skt = s
        BY <2>2, <2>3, <2>4, <2>6, <3>1
      <3>2. CASE c.q[y].skt # s
        BY <2>2, <2>4, <3>2
      <3> QED  BY <3>1, <3>2
    <2> QED  BY <1>1, <2>1, <2>7
  <1> QED  BY <1>2, <1>3

\* Without a slot of its own the query is still sound, and so are the others.
LEMMA UnlinkKeeps ==
    ASSUME NEW c, NEW x \in Queries, Sound(c, x), Limits
    PROVE  LET d == Radius!radius_client_query_unlink_skt(c, x)
           IN  /\ Sound(d, x) /\ SameServers(c, d)
               /\ SameQuery(c.q[x], d.q[x]) /\ d.q[x].skt = NoSkt
               /\ \A y \in Queries : y # x => d.q[y] = c.q[y]
               /\ \A y \in Queries : d.rep[y] = c.rep[y]
  <1> DEFINE d == Radius!radius_client_query_unlink_skt(c, x)
  <1>0. Base(c) /\ Shape(c) /\ Named(c) /\ IsQuery(c.q[x]) /\ c.q[x].st = "active" /\ c.q[x].id \in Ids
    BY DEF Sound, Base, Shape
  <1>1. CASE c.q[x].skt = NoSkt
    <2>1. d = c
      BY <1>1 DEF Radius!radius_client_query_unlink_skt
    <2>2. SameQuery(c.q[x], c.q[x])
      BY DEF SameQuery
    <2> HIDE DEF d
    <2>3. Sound(d, x) /\ SameServers(c, d)
      BY <2>1 DEF SameServers
    <2> QED  BY <1>1, <2>1, <2>2, <2>3 DEF d
  <1>2. CASE c.q[x].skt # NoSkt
    <2>1. PICK s \in Sockets, id \in Ids, f \in Radius!Families :
             c.q[x].skt = s /\ c.q[x].id = id /\ c.sock[s].fam = f /\ At(c, x, s, id, f)
      BY <1>0, <1>2, SlotOf
    <2> DEFINE u == LinkOff(c, x, s, id, f)
    <2>2. d = Radius!Spared(u, s, f)
      BY <1>2, <2>1 DEF Radius!radius_client_query_unlink_skt, LinkOff, SlotLeft
    <2>3. LinkedOff(c, u, x, s, id, f) /\ Shape(u)
      BY <1>0, LinkOffIs
    <2> HIDE DEF u, d
    <2>4. Base(u)
      BY <1>0, <2>1, <2>3, LinkOffBase
    <2>5. /\ u.q[x] = [c.q[x] EXCEPT !.skt = NoSkt] /\ u.rep = c.rep
          /\ \A y \in Queries : y # x => u.q[y] = c.q[y]
          /\ SameServers(c, u)
      BY <1>0, <2>3 DEF LinkedOff, Shape, SameServers
    <2>6. u.q[x].skt = NoSkt /\ u.q[x].st = "active" /\ SameQuery(c.q[x], u.q[x])
      BY <1>0, <2>5 DEF IsQuery, QueryFields, SameQuery
    <2>7. \A y \in Queries \ {x} : Placed(u, y) /\ Armed(u, y)
      BY <1>0, <2>1, <2>3, LinkOffOthers DEF Sound
    <2>8. CASE d = u
      <3>1. Sound(u, x)
        BY <1>0, <2>4, <2>6, <2>7 DEF Sound, SameQuery
      <3> QED  BY <2>5, <2>6, <2>8, <3>1 DEF d
    <2>9. CASE /\ u.sock[s].count = 0 /\ Len(u.skts[f].skt) > limits.min
               /\ u.skts[f].skt[Len(u.skts[f].skt)] = s
               /\ d = Radius!radius_client_socket_free(u, s)
      <3>1. SocketOff(u, d, s) /\ Shape(d)
        BY <2>3, <2>9, SocketFreeIs
      <3>2. u.sock[s].st = "live" /\ u.sock[s].fam = f
        <4>1. u.sock[s] = SlotLeft(c, s, id)
          BY <1>0, <2>3 DEF LinkedOff, Shape
        <4>2. LeftSlot(c.sock[s], u.sock[s], id)
          BY <1>0, <4>1, SlotLeftIs
        <4> QED  BY <2>1, <4>2 DEF At, LeftSlot
      <3>3. /\ Base(d)
            /\ \A y \in Queries : /\ d.q[y] = u.q[y]
                                  /\ Placed(u, y) => Placed(d, y)
                                  /\ Armed(u, y) => Armed(d, y)
        BY <2>4, <2>9, <3>1, <3>2, SparedKeeps
      <3>4. Sound(d, x)
        BY <1>0, <2>6, <2>7, <3>3 DEF Sound, SameQuery
      <3>5. SameServers(c, d)
        BY <2>5, <3>1 DEF SocketOff, SameServers
      <3>6. \A y \in Queries : d.rep[y] = u.rep[y]
        <4>1. Cardinality(InUse(u.sock[s])) = 0
          BY <2>4, <2>9, <3>2 DEF Base, Counts
        <4>2. InUse(u.sock[s]) = {}
          BY <4>1, SlotsFinite, FS_EmptySet
        <4>3. Owned(u, s) = {}
          BY <4>2 DEF InUse, Owned
        <4> QED  BY <3>1, <4>3 DEF SocketOff
      <3> QED  BY <2>5, <2>6, <3>3, <3>4, <3>5, <3>6 DEF d
    <2> QED  BY <2>2, <2>8, <2>9 DEF Radius!Spared
  <1> QED  BY <1>1, <1>2

\* The sockets are the same but for the timers, and so is the slot of every query that has one.
SameSlots(c, d) ==
    /\ \A t \in Sockets : /\ d.sock[t].fam = c.sock[t].fam /\ d.sock[t].st = c.sock[t].st
                          /\ d.sock[t].tmr = c.sock[t].tmr /\ d.sock[t].count = c.sock[t].count
    /\ d.skts = c.skts
    /\ \A y \in Queries : c.q[y].skt # NoSkt \/ d.q[y].skt # NoSkt =>
          d.q[y].skt = c.q[y].skt /\ d.q[y].st = c.q[y].st /\ d.q[y].id = c.q[y].id

\* Timers, reports and queries without a slot may change.
LEMMA FrameKeeps ==
    ASSUME NEW c, NEW d, Base(c), Shape(d), SameSlots(c, d), Quiet(d), Reports(d), Sent(d)
    PROVE  Base(d)
  <1>0. /\ Shape(c) /\ Slots(c) /\ Named(c) /\ Counts(c) /\ Totals(c)
        /\ Lists(c) /\ Listed(c) /\ NoSurplus(c)
    BY DEF Base
  <1>1. /\ \A t \in Sockets : /\ d.sock[t].fam = c.sock[t].fam /\ d.sock[t].st = c.sock[t].st
                              /\ d.sock[t].tmr = c.sock[t].tmr /\ d.sock[t].count = c.sock[t].count
        /\ d.skts = c.skts
    BY DEF SameSlots
  <1>2. \A y \in Queries : c.q[y].skt # NoSkt \/ d.q[y].skt # NoSkt =>
          d.q[y].skt = c.q[y].skt /\ d.q[y].st = c.q[y].st /\ d.q[y].id = c.q[y].id
    BY DEF SameSlots
  <1>3. Slots(d)
    <2> SUFFICES ASSUME NEW t \in Sockets, NEW z \in Ids, d.sock[t].st = "live", d.sock[t].tmr[z] # NoQuery
                 PROVE  LET y == d.sock[t].tmr[z]
                        IN  y \in Queries /\ d.q[y].st = "active" /\ d.q[y].skt = t /\ d.q[y].id = z
      BY DEF Slots
    <2>1. LET y == c.sock[t].tmr[z]
          IN  y \in Queries /\ c.q[y].st = "active" /\ c.q[y].skt = t /\ c.q[y].id = z
      BY <1>0, <1>1 DEF Slots
    <2>2. t # NoSkt
      BY RadiusAssumption
    <2> QED  BY <1>1, <1>2, <2>1, <2>2
  <1>4. Named(d)
    <2> SUFFICES ASSUME NEW y \in Queries, d.q[y].skt # NoSkt
                 PROVE  LET q == d.q[y]
                        IN  /\ q.st = "active" /\ q.skt \in Sockets /\ q.id \in Ids
                            /\ d.sock[q.skt].st = "live" /\ d.sock[q.skt].tmr[q.id] = y
      BY DEF Named
    <2>1. d.q[y].skt = c.q[y].skt /\ d.q[y].st = c.q[y].st /\ d.q[y].id = c.q[y].id
      BY <1>2
    <2>2. /\ c.q[y].st = "active" /\ c.q[y].skt \in Sockets /\ c.q[y].id \in Ids
          /\ c.sock[c.q[y].skt].st = "live" /\ c.sock[c.q[y].skt].tmr[c.q[y].id] = y
      BY <1>0, <2>1 DEF Named
    <2> QED  BY <1>1, <2>1, <2>2
  <1>5. \A f : Busy(d, f) = Busy(c, f)
    <2> SUFFICES ASSUME NEW f PROVE Busy(d, f) = Busy(c, f)
      OBVIOUS
    <2>1. \A t \in Sockets, z \in Ids : <<t, z>> \in Busy(d, f) <=> <<t, z>> \in Busy(c, f)
      BY <1>1 DEF Busy
    <2>2. Busy(d, f) \subseteq Sockets \X Ids /\ Busy(c, f) \subseteq Sockets \X Ids
      BY DEF Busy
    <2> QED  BY <2>1, <2>2
  <1>6. Counts(d)
    <2>1. \A t \in Sockets : InUse(d.sock[t]) = InUse(c.sock[t])
      BY <1>1 DEF InUse
    <2> QED  BY <1>0, <1>1, <2>1 DEF Counts
  <1>7. NoSurplus(d)
    BY <1>0, <1>1 DEF NoSurplus
  <1>8. Listed(d)
    <2> SUFFICES ASSUME NEW t \in Sockets, d.sock[t].st = "live"
                 PROVE  \E a \in 1 .. Len(c.skts[c.sock[t].fam].skt) : c.skts[c.sock[t].fam].skt[a] = t
      BY <1>1 DEF Listed
    <2> QED  BY <1>0, <1>1 DEF Listed
  <1>9. Totals(d)
    BY <1>0, <1>1, <1>5 DEF Totals
  <1>10. Lists(d)
    <2> SUFFICES ASSUME NEW g \in Radius!Families
                 PROVE  LET list == c.skts[g].skt
                        IN  /\ list \in Seq(Sockets) /\ Len(list) <= limits.max
                            /\ \A a \in 1 .. Len(list) : d.sock[list[a]].st = "live" /\ d.sock[list[a]].fam = g
                            /\ \A a, b \in 1 .. Len(list) : list[a] = list[b] => a = b
      BY <1>1 DEF Lists
    <2> DEFINE list == c.skts[g].skt
    <2>1. /\ list \in Seq(Sockets) /\ Len(list) <= limits.max
          /\ \A a \in 1 .. Len(list) : c.sock[list[a]].st = "live" /\ c.sock[list[a]].fam = g
          /\ \A a, b \in 1 .. Len(list) : list[a] = list[b] => a = b
      BY <1>0 DEF Lists
    <2> HIDE DEF list
    <2>2. \A a \in 1 .. Len(list) : list[a] \in Sockets
      BY <2>1
    <2>3. \A a \in 1 .. Len(list) : d.sock[list[a]].st = "live" /\ d.sock[list[a]].fam = g
      BY <1>1, <2>1, <2>2
    <2> QED  BY <2>1, <2>3 DEF list
  <1> QED  BY <1>3, <1>4, <1>6, <1>7, <1>8, <1>9, <1>10 DEF Base

\* A query that was not touched, nor its timer and its packets, rests as before.
LEMMA RestKeeps ==
    ASSUME NEW c, NEW d, NEW y \in Queries, Placed(c, y), Armed(c, y), d.q[y] = c.q[y], d.srv = c.srv,
           \A p \in d.sent : p.q = y => p \in c.sent,
           c.q[y].skt # NoSkt => d.sock[c.q[y].skt].ktmr[c.q[y].id] = c.sock[c.q[y].skt].ktmr[c.q[y].id]
    PROVE  Placed(d, y) /\ Armed(d, y)
  BY DEF Placed, Armed

\* The report of a query changes nothing but the query and what is reported.
ReportedAs(c, d, x, err) ==
    /\ DOMAIN d = RadiusFields
    /\ d.srv = c.srv /\ d.srv_count = c.srv_count /\ d.wild = c.wild
    /\ d.sock = c.sock /\ d.skts = c.skts /\ d.sent = c.sent
    /\ d.q[x] = Radius!Freed(c.q[x]) /\ \A y \in Queries : y # x => d.q[y] = c.q[y]
    /\ c.q[x].cb => d.rep[x] = Append(c.rep[x], Radius!Reason(err))
    /\ ~c.q[x].cb => d.rep[x] = c.rep[x]
    /\ \A y \in Queries : y # x => d.rep[y] = c.rep[y]

\* What radius_client_query_done() changes behind the unlinking.
LEMMA ReportIs ==
    ASSUME NEW c, Shape(c), NEW x \in Queries, NEW err
    PROVE  ReportedAs(c, Radius!Report(c, x, err), x, err) /\ Shape(Radius!Report(c, x, err))
  <1> DEFINE d == Radius!Report(c, x, err)
             q == Radius!Freed(c.q[x])
             r == IF c.q[x].cb THEN Append(c.rep[x], Radius!Reason(err)) ELSE c.rep[x]
  <1>1. DOMAIN c = RadiusFields /\ x \in DOMAIN c.q /\ x \in DOMAIN c.rep
    BY DEF Shape
  <1>2. d = [c EXCEPT !.q[x] = q, !.rep[x] = r]
    BY DEF Radius!Report
  <1>3. IsQuery(q)
    BY FreedQueryIs DEF Shape
  <1>4. r \in Seq(Reasons)
    BY ReasonIs DEF Shape
  <1>5. (c.q[x].cb => r = Append(c.rep[x], Radius!Reason(err))) /\ (~c.q[x].cb => r = c.rep[x])
    OBVIOUS
  <1> HIDE DEF q, r, d
  <1>6. /\ DOMAIN d = RadiusFields
        /\ d.srv = c.srv /\ d.srv_count = c.srv_count /\ d.wild = c.wild
        /\ d.sock = c.sock /\ d.skts = c.skts /\ d.sent = c.sent
        /\ d.q = [c.q EXCEPT ![x] = q] /\ d.rep = [c.rep EXCEPT ![x] = r]
    BY <1>1, <1>2 DEF RadiusFields
  <1>7. Shape(d)
    BY <1>3, <1>4, <1>6 DEF Shape
  <1>8. /\ d.q[x] = q /\ \A y \in Queries : y # x => d.q[y] = c.q[y]
        /\ d.rep[x] = r /\ \A y \in Queries : y # x => d.rep[y] = c.rep[y]
    BY <1>1, <1>6 DEF Shape
  <1>9. ReportedAs(c, d, x, err)
    BY <1>5, <1>6, <1>8 DEF ReportedAs, q
  <1> QED  BY <1>7, <1>9 DEF d

\* A query that is reported leaves everybody at rest.
LEMMA ReportRests ==
    ASSUME NEW c, NEW x \in Queries, Sound(c, x), c.q[x].skt = NoSkt, NEW err,
           err # "ok" \/ c.q[x].tried # {},
           NEW d, ReportedAs(c, d, x, err), Shape(d)
    PROVE  AtRest(d)
  <1>0. Base(c) /\ Shape(c) /\ Reports(c) /\ Sent(c) /\ IsQuery(c.q[x]) /\ c.q[x].st = "active"
    BY DEF Sound, Base, Shape
  <1>1. /\ d.srv = c.srv /\ d.sock = c.sock /\ d.skts = c.skts /\ d.sent = c.sent
        /\ d.q[x] = Radius!Freed(c.q[x]) /\ \A y \in Queries : y # x => d.q[y] = c.q[y] /\ d.rep[y] = c.rep[y]
        /\ c.q[x].cb => d.rep[x] = Append(c.rep[x], Radius!Reason(err))
        /\ ~c.q[x].cb => d.rep[x] = c.rep[x]
    BY DEF ReportedAs
  <1>2. d.q[x].st = "freed" /\ d.q[x].skt = NoSkt /\ d.q[x].cb = c.q[x].cb /\ d.q[x].tried = c.q[x].tried
    BY <1>0, <1>1, FreedQueryIs
  <1>3. SameSlots(c, d) /\ Quiet(d)
    BY <1>0, <1>1, <1>2 DEF SameSlots, Base, Quiet
  <1>4. Reports(d)
    <2> SUFFICES ASSUME NEW y \in Queries
                 PROVE  /\ Len(d.rep[y]) <= 1
                        /\ d.rep[y] # <<>> => d.q[y].st = "freed" /\ d.q[y].cb
                        /\ d.rep[y] = <<"ok">> => d.q[y].tried # {}
      BY DEF Reports
    <2>1. /\ Len(c.rep[y]) <= 1
          /\ c.rep[y] # <<>> => c.q[y].st = "freed" /\ c.q[y].cb
          /\ c.rep[y] = <<"ok">> => c.q[y].tried # {}
      BY <1>0 DEF Reports
    <2>2. CASE y # x
      BY <1>1, <2>1, <2>2
    <2>3. CASE y = x
      <3>1. c.rep[x] = <<>>
        BY <1>0, <2>1, <2>3
      <3>2. CASE c.q[x].cb
        <4> DEFINE r == Radius!Reason(err)
        <4>1. d.rep[x] = Append(<<>>, r)
          BY <1>1, <3>1, <3>2
        <4>2. err # "ok" => r # "ok"
          BY ReasonIs
        <4> HIDE DEF r
        <4>3. d.rep[x] = <<r>> /\ Len(<<r>>) = 1 /\ <<r>>[1] = r
          BY <4>1
        <4>4. d.rep[x] = <<"ok">> => d.q[x].tried # {}
          BY <1>2, <4>2, <4>3
        <4>5. Len(d.rep[x]) <= 1
          BY <4>3
        <4>6. d.q[x].st = "freed" /\ d.q[x].cb
          BY <1>2, <3>2, Zenon
        <4> QED  BY <2>3, <4>4, <4>5, <4>6, Zenon
      <3>3. CASE ~c.q[x].cb
        <4>1. d.rep[x] = <<>>
          BY <1>1, <3>1, <3>3
        <4> QED  BY <2>3, <4>1
      <3> QED  BY <3>2, <3>3
    <2> QED  BY <2>2, <2>3
  <1>5. Sent(d)
    <2>1. \A y \in Queries : d.q[y].tried = c.q[y].tried
      BY <1>1, <1>2
    <2> QED  BY <1>0, <1>1, <1>2, <2>1 DEF Sent
  <1>6. Base(d)
    BY <1>0, <1>3, <1>4, <1>5, FrameKeeps
  <1>7. ASSUME NEW y \in Queries PROVE Placed(d, y) /\ Armed(d, y)
    <2>1. CASE y = x
      BY <1>2, <2>1 DEF Placed, Armed
    <2>2. CASE y # x
      <3>1. Placed(c, y) /\ Armed(c, y)
        BY <2>2 DEF Sound
      <3> QED  BY <1>1, <2>2, <3>1, RestKeeps
    <2> QED  BY <2>1, <2>2
  <1> QED  BY <1>6, <1>7 DEF AtRest

\* radius_client_query_done(): the query is gone, the others rest.
LEMMA DoneRests ==
    ASSUME NEW c, NEW x \in Queries, Sound(c, x), Limits, NEW err, err # "ok" \/ c.q[x].tried # {}
    PROVE  LET d == Radius!radius_client_query_done(c, x, err)
           IN  /\ AtRest(d) /\ SameServers(c, d) /\ d.q[x].st = "freed"
               /\ \A y \in Queries : y # x => d.q[y] = c.q[y] /\ d.rep[y] = c.rep[y]
  <1> DEFINE u == Radius!radius_client_query_unlink_skt(c, x)
             d == Radius!Report(u, x, err)
  <1>1. d = Radius!radius_client_query_done(c, x, err)
    BY DEF Radius!radius_client_query_done
  <1>2. /\ Sound(u, x) /\ SameServers(c, u)
        /\ SameQuery(c.q[x], u.q[x]) /\ u.q[x].skt = NoSkt
        /\ \A y \in Queries : y # x => u.q[y] = c.q[y]
        /\ \A y \in Queries : u.rep[y] = c.rep[y]
    BY UnlinkKeeps
  <1> HIDE DEF u
  <1>3. Shape(u) /\ IsQuery(u.q[x])
    BY <1>2 DEF Sound, Base, Shape
  <1>4. ReportedAs(u, d, x, err) /\ Shape(d)
    BY <1>3, ReportIs
  <1> HIDE DEF d
  <1>5. err # "ok" \/ u.q[x].tried # {}
    BY <1>2 DEF SameQuery
  <1>6. AtRest(d)
    BY <1>2, <1>4, <1>5, ReportRests
  <1>7. SameServers(c, d) /\ \A y \in Queries : y # x => d.q[y] = c.q[y] /\ d.rep[y] = c.rep[y]
    BY <1>2, <1>4 DEF ReportedAs, SameServers
  <1>8. d.q[x].st = "freed"
    BY <1>3, <1>4, FreedQueryIs DEF ReportedAs
  <1> QED  BY <1>1, <1>6, <1>7, <1>8

\* What the query makes of the slot it takes; v is its timer.
SlotHeld(c, x, s, id, v) ==
    [c.sock[s] EXCEPT !.index = IF c.q[x].any THEN id + 1 ELSE @, !.tmr[id] = x, !.count = @ + 1, !.ktmr[id] = v]
HeldSlot(k, w, x, id, v) ==
    /\ IsSocket(w) /\ w.fam = k.fam /\ w.st = k.st /\ w.count = k.count + 1
    /\ \A z \in Ids : w.tmr[z] = IF z = id THEN x ELSE k.tmr[z]
    /\ \A z \in Ids : w.ktmr[z] = IF z = id THEN v ELSE k.ktmr[z]

\* A slot is taken: what changes of the socket.
LEMMA SlotHeldIs ==
    ASSUME NEW c, Shape(c), NEW x \in Queries, NEW s \in Sockets, NEW id \in Ids, NEW v \in {"none", "set"}
    PROVE  HeldSlot(c.sock[s], SlotHeld(c, x, s, id, v), x, id, v) /\ IsSocket(SlotHeld(c, x, s, id, v))
  <1> DEFINE k == c.sock[s]
             b == IF c.q[x].any THEN id + 1 ELSE k.index
             w == [k EXCEPT !.index = b, !.tmr[id] = x, !.count = @ + 1, !.ktmr[id] = v]
  <1>1. IsSocket(k)
    BY DEF Shape
  <1>0. w = SlotHeld(c, x, s, id, v)
    BY DEF SlotHeld
  <1> HIDE DEF k
  <1>b. b \in Int
    <2>1. id + 1 \in Int /\ k.index \in Int
      BY <1>1, RadiusAssumption DEF IsSocket
    <2> QED  BY <2>1
  <1> HIDE DEF b
  <1>2. DOMAIN k = {"fam", "st", "tmr", "ktmr", "count", "index"} /\ id \in DOMAIN k.tmr /\ id \in DOMAIN k.ktmr
    BY <1>1 DEF IsSocket
  <1>3. /\ w.fam = k.fam /\ w.st = k.st /\ w.count = k.count + 1 /\ w.index = b
        /\ DOMAIN w = {"fam", "st", "tmr", "ktmr", "count", "index"}
    BY <1>2
  <1>4. w.tmr = [k.tmr EXCEPT ![id] = x]
    BY <1>2
  <1>5. w.ktmr = [k.ktmr EXCEPT ![id] = v]
    BY <1>2
  <1> HIDE DEF w
  <1>7. w.tmr \in [Ids -> Queries \cup {NoQuery}] /\ w.ktmr \in [Ids -> {"none", "set", "off"}]
    BY <1>1, <1>4, <1>5 DEF IsSocket
  <1>8. IsSocket(w)
    BY <1>1, <1>b, <1>3, <1>7 DEF IsSocket
  <1>9. HeldSlot(k, w, x, id, v)
    BY <1>1, <1>3, <1>4, <1>5, <1>8 DEF HeldSlot, IsSocket
  <1> QED  BY <1>0, <1>8, <1>9 DEF k

\* The fields of d are those of c but for the link of query x.
LinkOn(c, x, s, id, f, v) ==
    [c EXCEPT !.q[x].id = id, !.q[x].skt = s, !.sock[s] = SlotHeld(c, x, s, id, v), !.skts[f].queries = @ + 1]
LinkedOn(c, d, x, s, id, f, v) ==
    /\ DOMAIN d = RadiusFields
    /\ d.srv = c.srv /\ d.srv_count = c.srv_count /\ d.rep = c.rep /\ d.sent = c.sent /\ d.wild = c.wild
    /\ d.q = [c.q EXCEPT ![x] = [c.q[x] EXCEPT !.id = id, !.skt = s]]
    /\ d.sock = [c.sock EXCEPT ![s] = SlotHeld(c, x, s, id, v)]
    /\ d.skts = [c.skts EXCEPT ![f] = [c.skts[f] EXCEPT !.queries = c.skts[f].queries + 1]]

\* A query takes a slot: what changes of the client.
LEMMA LinkOnIs ==
    ASSUME NEW c, Shape(c), NEW x \in Queries, NEW s \in Sockets, NEW id \in Ids, NEW f \in Radius!Families,
           NEW v \in {"none", "set"}
    PROVE  LinkedOn(c, LinkOn(c, x, s, id, f, v), x, s, id, f, v) /\ Shape(LinkOn(c, x, s, id, f, v))
  <1> DEFINE w == SlotHeld(c, x, s, id, v)
             l == [c.skts[f] EXCEPT !.queries = c.skts[f].queries + 1]
             q == [c.q[x] EXCEPT !.id = id, !.skt = s]
             d == LinkOn(c, x, s, id, f, v)
  <1>1. DOMAIN c = RadiusFields /\ s \in DOMAIN c.sock /\ f \in DOMAIN c.skts /\ x \in DOMAIN c.q
    BY DEF Shape
  <1>2. d = [c EXCEPT !.q[x].id = id, !.q[x].skt = s, !.sock[s] = w, !.skts[f].queries = @ + 1]
    BY DEF LinkOn
  <1>3. IsSocket(w) /\ IsList(l) /\ IsQuery(q)
    <2>1. IsSocket(w)
      BY SlotHeldIs
    <2>2. IsList(c.skts[f]) /\ IsQuery(c.q[x])
      BY DEF Shape
    <2>3. IsList(l)
      BY <2>2 DEF IsList
    <2>4. IsQuery(q)
      BY <2>2 DEF IsQuery, QueryFields
    <2> QED  BY <2>1, <2>3, <2>4
  <1> HIDE DEF w, d
  <1>4. /\ DOMAIN d = RadiusFields
        /\ d.srv = c.srv /\ d.srv_count = c.srv_count /\ d.rep = c.rep /\ d.sent = c.sent /\ d.wild = c.wild
        /\ d.q = [c.q EXCEPT ![x] = q] /\ d.sock = [c.sock EXCEPT ![s] = w] /\ d.skts = [c.skts EXCEPT ![f] = l]
    BY <1>1, <1>2 DEF RadiusFields
  <1> HIDE DEF l, q
  <1>5. Shape(d)
    BY <1>3, <1>4 DEF Shape
  <1> QED  BY <1>4, <1>5 DEF w, l, q, d, LinkedOn

\* A query without a slot takes a free one.
LEMMA LinkOnKeeps ==
    ASSUME NEW c, NEW x \in Queries, Sound(c, x), c.q[x].skt = NoSkt,
           NEW s \in Sockets, NEW id \in Ids, NEW f \in Radius!Families, NEW v \in {"none", "set"},
           c.sock[s].st = "live", c.sock[s].fam = f, c.sock[s].tmr[id] = NoQuery,
           NEW d, LinkedOn(c, d, x, s, id, f, v), Shape(d)
    PROVE  /\ Sound(d, x) /\ SameServers(c, d) /\ d.q[x].skt = s /\ d.q[x].id = id
           /\ d.q[x].signed = c.q[x].signed /\ d.q[x].idx = c.q[x].idx
           /\ \A y \in Queries : (y # x => d.q[y] = c.q[y]) /\ d.rep[y] = c.rep[y]
  <1> DEFINE w == SlotHeld(c, x, s, id, v)
  <1>0. /\ Base(c) /\ Shape(c) /\ IsQuery(c.q[x]) /\ c.q[x].st = "active" /\ x # NoQuery
        /\ Slots(c) /\ Named(c) /\ Quiet(c) /\ Counts(c) /\ Totals(c)
        /\ Lists(c) /\ Listed(c) /\ NoSurplus(c) /\ Reports(c) /\ Sent(c)
    BY RadiusAssumption DEF Base, Sound, Shape
  <1>2. /\ d.rep = c.rep /\ d.sent = c.sent /\ d.srv = c.srv
        /\ d.q = [c.q EXCEPT ![x] = [c.q[x] EXCEPT !.id = id, !.skt = s]]
        /\ d.sock = [c.sock EXCEPT ![s] = w]
        /\ d.skts = [c.skts EXCEPT ![f] = [c.skts[f] EXCEPT !.queries = c.skts[f].queries + 1]]
    BY DEF LinkedOn
  <1>3a. HeldSlot(c.sock[s], w, x, id, v)
    BY <1>0, SlotHeldIs
  <1> HIDE DEF w
  <1>3. w.fam = f /\ w.st = "live" /\ w.count = c.sock[s].count + 1
    BY <1>3a DEF HeldSlot
  <1>4. /\ d.q[x].skt = s /\ d.q[x].st = "active" /\ d.q[x].id = id /\ d.q[x].idx = c.q[x].idx
        /\ d.q[x].cb = c.q[x].cb /\ d.q[x].tried = c.q[x].tried /\ d.q[x].signed = c.q[x].signed
        /\ \A y \in Queries : y # x => d.q[y] = c.q[y]
    BY <1>0, <1>2 DEF Shape, IsQuery, QueryFields
  <1>5. d.sock[s] = w /\ \A t \in Sockets : t # s => d.sock[t] = c.sock[t]
    BY <1>0, <1>2 DEF Shape
  <1>6. /\ \A z \in Ids : w.tmr[z] = IF z = id THEN x ELSE c.sock[s].tmr[z]
        /\ \A z \in Ids : w.ktmr[z] = IF z = id THEN v ELSE c.sock[s].ktmr[z]
    BY <1>3a DEF HeldSlot
  <1>7. /\ d.skts[f].queries = c.skts[f].queries + 1
        /\ \A g \in Radius!Families : d.skts[g].skt = c.skts[g].skt
        /\ \A g \in Radius!Families : g # f => d.skts[g] = c.skts[g]
    BY <1>0, <1>2 DEF Shape, IsList
  <1>8. Slots(d)
    <2> SUFFICES ASSUME NEW t \in Sockets, NEW z \in Ids, d.sock[t].st = "live", d.sock[t].tmr[z] # NoQuery
                 PROVE  LET y == d.sock[t].tmr[z]
                        IN  y \in Queries /\ d.q[y].st = "active" /\ d.q[y].skt = t /\ d.q[y].id = z
      BY DEF Slots
    <2>1. CASE t = s /\ z = id
      BY <1>4, <1>5, <1>6, <2>1
    <2>2. CASE ~(t = s /\ z = id)
      <3>1. c.sock[t].st = "live" /\ c.sock[t].tmr[z] = d.sock[t].tmr[z]
        <4>1. CASE t = s
          BY <1>5, <1>6, <2>2, <4>1
        <4>2. CASE t # s
          BY <1>5, <4>2
        <4> QED  BY <4>1, <4>2
      <3>2. LET y == c.sock[t].tmr[z]
            IN  y \in Queries /\ c.q[y].st = "active" /\ c.q[y].skt = t /\ c.q[y].id = z
        BY <1>0, <3>1 DEF Slots
      <3>3. c.sock[t].tmr[z] # x
        BY <3>2, RadiusAssumption
      <3> QED  BY <1>4, <3>1, <3>2, <3>3
    <2> QED  BY <2>1, <2>2
  <1>9. Named(d)
    <2> SUFFICES ASSUME NEW y \in Queries, d.q[y].skt # NoSkt
                 PROVE  LET q == d.q[y]
                        IN  /\ q.st = "active" /\ q.skt \in Sockets /\ q.id \in Ids
                            /\ d.sock[q.skt].st = "live" /\ d.sock[q.skt].tmr[q.id] = y
      BY DEF Named
    <2>0. CASE y = x
      BY <1>3, <1>4, <1>5, <1>6, <2>0
    <2>1. CASE y # x
      <3>1. d.q[y] = c.q[y]
        BY <1>4, <2>1
      <3>2. /\ c.q[y].st = "active" /\ c.q[y].skt \in Sockets /\ c.q[y].id \in Ids
            /\ c.sock[c.q[y].skt].st = "live" /\ c.sock[c.q[y].skt].tmr[c.q[y].id] = y
        BY <1>0, <3>1 DEF Named
      <3>3. ~(c.q[y].skt = s /\ c.q[y].id = id)
        BY <3>2, RadiusAssumption
      <3>4. CASE c.q[y].skt = s
        <4>1. w.tmr[c.q[y].id] = y
          BY <1>6, <3>2, <3>3, <3>4
        <4>2. d.sock[c.q[y].skt] = w
          BY <1>5, <3>4
        <4> QED  BY <1>3, <3>1, <3>2, <4>1, <4>2
      <3>5. CASE c.q[y].skt # s
        BY <1>5, <3>1, <3>2, <3>5
      <3> QED  BY <3>4, <3>5
    <2> QED  BY <2>0, <2>1
  <1>10. Quiet(d)
    <2> SUFFICES ASSUME NEW t \in Sockets, NEW z \in Ids, d.sock[t].st # "live" \/ d.sock[t].tmr[z] = NoQuery
                 PROVE  d.sock[t].ktmr[z] = "none"
      BY DEF Quiet
    <2>1. CASE t = s
      <3>1. z # id /\ c.sock[s].tmr[z] = NoQuery
        BY <1>0, <1>3, <1>5, <1>6, <2>1
      <3>2. c.sock[s].ktmr[z] = "none"
        BY <1>0, <3>1 DEF Quiet
      <3> QED  BY <1>5, <1>6, <2>1, <3>1, <3>2
    <2>2. CASE t # s
      BY <1>0, <1>5, <2>2 DEF Quiet
    <2> QED  BY <2>1, <2>2
  <1>11. Counts(d)
    <2> SUFFICES ASSUME NEW t \in Sockets, d.sock[t].st = "live"
                 PROVE  d.sock[t].count = Cardinality(InUse(d.sock[t]))
      BY DEF Counts
    <2>1. CASE t # s
      BY <1>0, <1>5, <2>1 DEF Counts
    <2>2. CASE t = s
      <3>1. InUse(w) = InUse(c.sock[s]) \cup {id} /\ id \notin InUse(c.sock[s])
        BY <1>0, <1>6 DEF InUse
      <3>2. Cardinality(InUse(w)) = Cardinality(InUse(c.sock[s])) + 1
        BY <3>1, SlotsFinite, FS_AddElement
      <3>3. c.sock[s].count = Cardinality(InUse(c.sock[s]))
        BY <1>0 DEF Counts
      <3> QED  BY <1>3, <1>5, <2>2, <3>2, <3>3
    <2> QED  BY <2>1, <2>2
  <1>12. Totals(d)
    <2> SUFFICES ASSUME NEW g \in Radius!Families PROVE d.skts[g].queries = Cardinality(Busy(d, g))
      BY DEF Totals
    <2>0. c.skts[g].queries = Cardinality(Busy(c, g))
      BY <1>0 DEF Totals
    <2>1. CASE g # f
      <3>1. Busy(d, g) = Busy(c, g)
        <4>1. \A t \in Sockets : d.sock[t].fam = g => d.sock[t] = c.sock[t]
          BY <1>3, <1>5, <2>1
        <4>2. \A t \in Sockets : c.sock[t].fam = g => d.sock[t] = c.sock[t]
          BY <1>5, <2>1
        <4> QED  BY <4>1, <4>2 DEF Busy
      <3> QED  BY <1>7, <2>0, <2>1, <3>1
    <2>2. CASE g = f
      <3>1. ASSUME NEW t \in Sockets, NEW z \in Ids
            PROVE  <<t, z>> \in Busy(d, f) <=> <<t, z>> \in Busy(c, f) \cup {<<s, id>>}
        <4>1. CASE t = s
          BY <1>0, <1>3, <1>5, <1>6, <4>1 DEF Busy
        <4>2. CASE t # s
          BY <1>5, <4>2 DEF Busy
        <4> QED  BY <4>1, <4>2
      <3>2. Busy(d, f) = Busy(c, f) \cup {<<s, id>>}
        <4>1. Busy(d, f) \subseteq Sockets \X Ids /\ Busy(c, f) \subseteq Sockets \X Ids
          BY DEF Busy
        <4> QED  BY <3>1, <4>1
      <3>3. <<s, id>> \notin Busy(c, f)
        BY DEF Busy
      <3>4. Cardinality(Busy(d, f)) = Cardinality(Busy(c, f)) + 1
        BY <3>2, <3>3, SlotsFinite, FS_AddElement
      <3> QED  BY <1>7, <2>0, <2>2, <3>4
    <2> QED  BY <2>1, <2>2
  <1>13a. \A t \in Sockets : d.sock[t].st = c.sock[t].st /\ d.sock[t].fam = c.sock[t].fam
    <2>1. d.sock[s].st = c.sock[s].st /\ d.sock[s].fam = c.sock[s].fam
      BY <1>3, <1>5
    <2> QED  BY <1>5, <2>1
  <1>13. Lists(d)
    <2> SUFFICES ASSUME NEW g \in Radius!Families
                 PROVE  LET list == d.skts[g].skt
                        IN  /\ list \in Seq(Sockets) /\ Len(list) <= limits.max
                            /\ \A a \in 1 .. Len(list) : d.sock[list[a]].st = "live" /\ d.sock[list[a]].fam = g
                            /\ \A a, b \in 1 .. Len(list) : list[a] = list[b] => a = b
      BY DEF Lists
    <2> DEFINE list == c.skts[g].skt
    <2>2. /\ list \in Seq(Sockets) /\ Len(list) <= limits.max
          /\ \A a \in 1 .. Len(list) : c.sock[list[a]].st = "live" /\ c.sock[list[a]].fam = g
          /\ \A a, b \in 1 .. Len(list) : list[a] = list[b] => a = b
      BY <1>0 DEF Lists
    <2>3. d.skts[g].skt = list
      BY <1>7
    <2> HIDE DEF list
    <2>4. \A a \in 1 .. Len(list) : list[a] \in Sockets
      BY <2>2
    <2>5. \A a \in 1 .. Len(list) : d.sock[list[a]].st = "live" /\ d.sock[list[a]].fam = g
      BY <1>13a, <2>2, <2>4
    <2> QED  BY <2>2, <2>3, <2>5
  <1>14. Listed(d)
    <2>2. \A t \in Sockets : c.sock[t].fam \in Radius!Families
      BY <1>0 DEF Shape, IsSocket
    <2> SUFFICES ASSUME NEW t \in Sockets, d.sock[t].st = "live"
                 PROVE  \E a \in 1 .. Len(d.skts[d.sock[t].fam].skt) : d.skts[d.sock[t].fam].skt[a] = t
      BY DEF Listed
    <2>3. \E a \in 1 .. Len(c.skts[c.sock[t].fam].skt) : c.skts[c.sock[t].fam].skt[a] = t
      BY <1>0, <1>13a DEF Listed
    <2>4. d.sock[t].fam = c.sock[t].fam /\ d.skts[c.sock[t].fam].skt = c.skts[c.sock[t].fam].skt
      BY <1>7, <1>13a, <2>2
    <2> QED  BY <2>3, <2>4
  <1>15. NoSurplus(d)
    BY <1>0, <1>13a DEF NoSurplus
  <1>16. Reports(d)
    <2>1. \A y \in Queries : /\ d.q[y].cb = c.q[y].cb /\ d.q[y].tried = c.q[y].tried
                             /\ d.q[y].st = c.q[y].st
      BY <1>0, <1>4
    <2> QED  BY <1>0, <1>2, <2>1 DEF Reports
  <1>17. Sent(d)
    <2>1. \A y \in Queries : /\ d.q[y].signed = c.q[y].signed /\ d.q[y].tried = c.q[y].tried
                             /\ d.q[y].st = c.q[y].st
      BY <1>0, <1>4
    <2> QED  BY <1>0, <1>2, <2>1 DEF Sent
  <1>18. Base(d)
    BY <1>8, <1>9, <1>10, <1>11, <1>12, <1>13, <1>14, <1>15, <1>16, <1>17 DEF Base
  <1>19. ASSUME NEW y \in Queries, y # x PROVE Placed(d, y) /\ Armed(d, y)
    <2>1. Placed(c, y) /\ Armed(c, y)
      BY <1>19 DEF Sound
    <2>2. d.q[y] = c.q[y]
      BY <1>4, <1>19
    <2>3. c.q[y].skt # NoSkt => d.sock[c.q[y].skt].ktmr[c.q[y].id] = c.sock[c.q[y].skt].ktmr[c.q[y].id]
      <3> SUFFICES ASSUME c.q[y].skt # NoSkt
                   PROVE  d.sock[c.q[y].skt].ktmr[c.q[y].id] = c.sock[c.q[y].skt].ktmr[c.q[y].id]
        OBVIOUS
      <3>1. /\ c.q[y].skt \in Sockets /\ c.q[y].id \in Ids
            /\ c.sock[c.q[y].skt].tmr[c.q[y].id] = y
        BY <1>0 DEF Named
      <3>2. ~(c.q[y].skt = s /\ c.q[y].id = id)
        BY <3>1, RadiusAssumption
      <3>3. CASE c.q[y].skt = s
        BY <1>5, <1>6, <3>1, <3>2, <3>3
      <3>4. CASE c.q[y].skt # s
        BY <1>5, <3>1, <3>4
      <3> QED  BY <3>3, <3>4
    <2> QED  BY <1>2, <2>1, <2>2, <2>3, RestKeeps
  <1>20. Sound(d, x)
    BY <1>4, <1>18, <1>19 DEF Sound
  <1>21. SameServers(c, d)
    BY DEF LinkedOn, SameServers
  <1> QED  BY <1>2, <1>4, <1>20, <1>21

\* The least of a set of numbers is one of them.
LEMMA MinIs ==
    ASSUME NEW S, S \subseteq Nat, S # {}
    PROVE  Radius!Min(S) \in S
  <1>1. \E a \in S : \A b \in S : a <= b
    BY LeastOf
  <1> QED  BY <1>1 DEF Radius!Min

\* The id a query is given is free in the socket.
LEMMA NextIdIs ==
    ASSUME NEW k, NEW x, NEW q, Radius!FreeIds(k, x, q) # {}
    PROVE  Radius!NextId(k, x, q) \in Ids /\ k.tmr[Radius!NextId(k, x, q)] = NoQuery
  <1> DEFINE free == Radius!FreeIds(k, x, q)
             behind == {b \in free : b >= k.index}
  <1>1. free \subseteq Ids /\ free \subseteq Nat /\ \A b \in free : k.tmr[b] = NoQuery
    BY RadiusAssumption DEF Radius!FreeIds
  <1>2. Radius!NextId(k, x, q) = IF q[x].any /\ behind # {} THEN Radius!Min(behind) ELSE Radius!Min(free)
    BY DEF Radius!NextId
  <1>3. behind \subseteq free
    OBVIOUS
  <1> HIDE DEF free, behind
  <1>4. Radius!Min(free) \in free
    BY <1>1, MinIs DEF free
  <1>5. behind # {} => Radius!Min(behind) \in free
    BY <1>1, <1>3, MinIs
  <1>6. Radius!NextId(k, x, q) \in free
    BY <1>2, <1>4, <1>5
  <1> QED  BY <1>1, <1>6

\* A step of a handler that works on query x leaves the servers and the other
\* queries alone.
Apart(c, d, x) ==
    /\ d.srv = c.srv /\ d.srv_count = c.srv_count /\ d.wild \in {c.wild, "create"}
    /\ \A y \in Queries : y # x => d.q[y] = c.q[y]

\* Two steps that leave the others alone.
LEMMA ApartApart ==
    ASSUME NEW c, NEW d, NEW e, NEW x, Apart(c, d, x), Apart(d, e, x)
    PROVE  Apart(c, e, x)
  BY DEF Apart

\* Nothing changes but what query x notes for itself.
Touched(c, d, x) ==
    /\ DOMAIN d = RadiusFields /\ Apart(c, d, x)
    /\ d.sock = c.sock /\ d.skts = c.skts /\ d.rep = c.rep /\ d.sent = c.sent
    /\ DOMAIN d.q = Queries /\ IsQuery(d.q[x])
    /\ d.q[x].st = c.q[x].st /\ d.q[x].skt = c.q[x].skt /\ d.q[x].id = c.q[x].id
    /\ d.q[x].cb = c.q[x].cb /\ d.q[x].tried = c.q[x].tried
    /\ c.q[x].signed => d.q[x].signed

\* Notes of the query do not disturb.
LEMMA TouchKeeps ==
    ASSUME NEW c, NEW d, NEW x \in Queries, Sound(c, x), Touched(c, d, x)
    PROVE  Sound(d, x)
  <1>0. /\ Base(c) /\ Shape(c) /\ Quiet(c) /\ Reports(c) /\ Sent(c) /\ c.q[x].st = "active" /\ c.q[x].id \in Ids
        /\ \A y \in Queries : y # x => Placed(c, y) /\ Armed(c, y)
    BY DEF Sound, Base
  <1>1. /\ DOMAIN d = RadiusFields /\ d.srv = c.srv /\ d.srv_count = c.srv_count
        /\ d.sock = c.sock /\ d.skts = c.skts /\ d.rep = c.rep /\ d.sent = c.sent
        /\ DOMAIN d.q = Queries /\ IsQuery(d.q[x])
        /\ \A y \in Queries : y # x => d.q[y] = c.q[y]
    BY DEF Touched, Apart
  <1>2. /\ d.q[x].st = c.q[x].st /\ d.q[x].skt = c.q[x].skt /\ d.q[x].id = c.q[x].id
        /\ d.q[x].cb = c.q[x].cb /\ d.q[x].tried = c.q[x].tried
    BY DEF Touched
  <1>3. Shape(d)
    <2>1. \A y \in Queries : IsQuery(d.q[y])
      BY <1>0, <1>1 DEF Shape
    <2> QED  BY <1>0, <1>1, <2>1 DEF Shape
  <1>4. SameSlots(c, d) /\ Quiet(d)
    BY <1>0, <1>1, <1>2 DEF SameSlots, Quiet
  <1>5. Reports(d)
    <2>1. \A y \in Queries : d.q[y].st = c.q[y].st /\ d.q[y].cb = c.q[y].cb /\ d.q[y].tried = c.q[y].tried
      BY <1>1, <1>2
    <2> QED  BY <1>0, <1>1, <2>1 DEF Reports
  <1>6. Sent(d)
    <2>1. \A y \in Queries : /\ d.q[y].st = c.q[y].st /\ d.q[y].tried = c.q[y].tried
                             /\ c.q[y].signed => d.q[y].signed
      BY <1>1, <1>2 DEF Touched
    <2> QED  BY <1>0, <1>1, <2>1 DEF Sent
  <1>7. Base(d)
    BY <1>0, <1>3, <1>4, <1>5, <1>6, FrameKeeps
  <1>8. \A y \in Queries : y # x => Placed(d, y) /\ Armed(d, y)
    BY <1>0, <1>1, RestKeeps
  <1> QED  BY <1>0, <1>2, <1>7, <1>8 DEF Sound

\* A new record for query x.
Put(c, x, q) == [c EXCEPT !.q[x] = q]
SamePlace(q, p) ==
    /\ p.st = q.st /\ p.skt = q.skt /\ p.id = q.id /\ p.cb = q.cb /\ p.tried = q.tried
    /\ q.signed => p.signed

\* A new record that leaves the query at its place.
LEMMA PutTouches ==
    ASSUME NEW c, Shape(c), NEW x \in Queries, NEW q, IsQuery(q), SamePlace(c.q[x], q)
    PROVE  Touched(c, Put(c, x, q), x) /\ Put(c, x, q).q[x] = q
  <1> DEFINE d == Put(c, x, q)
  <1>1. DOMAIN c = RadiusFields /\ x \in DOMAIN c.q /\ DOMAIN c.q = Queries
    BY DEF Shape
  <1>2. /\ DOMAIN d = RadiusFields /\ d.srv = c.srv /\ d.srv_count = c.srv_count /\ d.wild = c.wild
        /\ d.sock = c.sock /\ d.skts = c.skts /\ d.rep = c.rep /\ d.sent = c.sent
        /\ d.q = [c.q EXCEPT ![x] = q]
    BY <1>1 DEF Put, RadiusFields
  <1> HIDE DEF d
  <1>3. DOMAIN d.q = Queries /\ d.q[x] = q /\ \A y \in Queries : y # x => d.q[y] = c.q[y]
    BY <1>1, <1>2
  <1>4. Apart(c, d, x)
    BY <1>2, <1>3 DEF Apart
  <1>5. Touched(c, d, x)
    BY <1>2, <1>3, <1>4 DEF Touched, SamePlace
  <1> QED  BY <1>3, <1>5 DEF d

\* The numbers from 1 to len.
LEMMA UpTo ==
    ASSUME NEW len \in Nat
    PROVE  IsFiniteSet(1 .. len) /\ Cardinality(1 .. len) = len
  <1>1. IsFiniteSet(1 .. len) /\ Cardinality(1 .. len) = IF 1 > len THEN 0 ELSE len - 1 + 1
    BY FS_Interval
  <1> QED  BY <1>1

\* No more names are in use than the lists are long.
LEMMA NameLeft ==
    ASSUME NEW c, Base(c), Limits, NEW f \in Radius!Families, Len(c.skts[f].skt) < limits.max
    PROVE  Radius!Unused(c) # {}
  <1> DEFINE l4 == c.skts["v4"].skt
             l6 == c.skts["v6"].skt
             r4 == {l4[a] : a \in 1 .. Len(l4)}
             r6 == {l6[a] : a \in 1 .. Len(l6)}
  <1>0. Shape(c) /\ Quiet(c) /\ Lists(c) /\ Listed(c)
    BY DEF Base
  <1>f. Radius!Families = {"v4", "v6"}
    BY DEF Radius!Families
  <1>1. l4 \in Seq(Sockets) /\ Len(l4) <= limits.max /\ l6 \in Seq(Sockets) /\ Len(l6) <= limits.max
    BY <1>0, <1>f DEF Lists
  <1>2. Len(l4) < limits.max \/ Len(l6) < limits.max
    BY <1>f
  <1>3. \A t \in Sockets : c.sock[t].st = "live" => t \in r4 \cup r6
    <2> SUFFICES ASSUME NEW t \in Sockets, c.sock[t].st = "live" PROVE t \in r4 \cup r6
      OBVIOUS
    <2>1. PICK a \in 1 .. Len(c.skts[c.sock[t].fam].skt) : c.skts[c.sock[t].fam].skt[a] = t
      BY <1>0 DEF Listed
    <2>2. c.sock[t].fam \in {"v4", "v6"}
      BY <1>0, <1>f DEF Shape, IsSocket
    <2>3. CASE c.sock[t].fam = "v4"
      BY <2>1, <2>3
    <2>4. CASE c.sock[t].fam = "v6"
      BY <2>1, <2>4
    <2> QED  BY <2>2, <2>3, <2>4
  <1> HIDE DEF l4, l6
  <1>4. IsFiniteSet(r4) /\ Cardinality(r4) <= Len(l4) /\ Cardinality(r4) \in Nat
    <2>0. Len(l4) \in Nat
      BY <1>1
    <2>1. IsFiniteSet(1 .. Len(l4)) /\ Cardinality(1 .. Len(l4)) = Len(l4)
      BY <2>0, UpTo
    <2>2. l4 \in Surjection(1 .. Len(l4), r4)
      BY <1>1 DEF Surjection
    <2> HIDE DEF r4
    <2> QED  BY <2>1, <2>2, FS_Surjection, FS_CardinalityType
  <1>5. IsFiniteSet(r6) /\ Cardinality(r6) <= Len(l6) /\ Cardinality(r6) \in Nat
    <2>0. Len(l6) \in Nat
      BY <1>1
    <2>1. IsFiniteSet(1 .. Len(l6)) /\ Cardinality(1 .. Len(l6)) = Len(l6)
      BY <2>0, UpTo
    <2>2. l6 \in Surjection(1 .. Len(l6), r6)
      BY <1>1 DEF Surjection
    <2> HIDE DEF r6
    <2> QED  BY <2>1, <2>2, FS_Surjection, FS_CardinalityType
  <1> HIDE DEF r4, r6
  <1>6. /\ IsFiniteSet(r4 \cup r6)
        /\ Cardinality(r4 \cup r6) = Cardinality(r4) + Cardinality(r6) - Cardinality(r4 \cap r6)
    BY <1>4, <1>5, FS_Union
  <1>7. Cardinality(r4 \cap r6) \in Nat
    <2>1. IsFiniteSet(r4 \cap r6)
      BY <1>4, FS_Intersection
    <2> QED  BY <2>1, FS_CardinalityType
  <1>8. Cardinality(r4 \cup r6) < 2 * limits.max
    <2>1. Len(l4) \in Nat /\ Len(l6) \in Nat /\ limits.max \in Nat
      BY <1>1 DEF Limits
    <2> QED  BY <1>1, <1>2, <1>4, <1>5, <1>6, <1>7, <2>1
  <1>9. ~(Sockets \subseteq r4 \cup r6)
    <2> SUFFICES ASSUME Sockets \subseteq r4 \cup r6 PROVE FALSE
      OBVIOUS
    <2>1. Cardinality(Sockets) <= Cardinality(r4 \cup r6)
      BY <1>6, FS_Subset
    <2>2. Cardinality(Sockets) \in Nat /\ Cardinality(r4 \cup r6) \in Nat /\ limits.max \in Nat
          /\ 2 * limits.max <= Cardinality(Sockets)
      BY <1>6, RadiusAssumption, FS_CardinalityType DEF Limits
    <2> QED  BY <1>8, <2>1, <2>2
  <1>10. PICK t \in Sockets : c.sock[t].st # "live"
    BY <1>3, <1>9
  <1>11. \A z \in Ids : c.sock[t].ktmr[z] = "none"
    BY <1>0, <1>10 DEF Quiet
  <1> QED  BY <1>10, <1>11 DEF Radius!Unused

NewSocket(f) == [Radius!NoSlots EXCEPT !.st = "live", !.fam = f]

\* A new socket has free slots and no timers.
LEMMA NewSocketIs ==
    ASSUME NEW f \in Radius!Families
    PROVE  LET w == NewSocket(f)
           IN  /\ IsSocket(w) /\ w.st = "live" /\ w.fam = f /\ w.count = 0
               /\ \A z \in Ids : w.tmr[z] = NoQuery /\ w.ktmr[z] = "none"
  BY DEF NewSocket, Radius!NoSlots, IsSocket

\* The fields of d are those of c but for the new socket s.
SocketOn(c, s, f) == [c EXCEPT !.sock[s] = NewSocket(f), !.skts[f].skt = Append(@, s)]
Opened(c, d, s, f) ==
    /\ DOMAIN d = RadiusFields
    /\ d.srv = c.srv /\ d.srv_count = c.srv_count /\ d.rep = c.rep /\ d.sent = c.sent /\ d.wild = c.wild
    /\ d.q = c.q /\ d.sock = [c.sock EXCEPT ![s] = NewSocket(f)]
    /\ \A g \in Radius!Families : g # f => d.skts[g] = c.skts[g]
    /\ d.skts[f].skt = Append(c.skts[f].skt, s) /\ d.skts[f].queries = c.skts[f].queries

\* A new socket: what changes of the client.
LEMMA SocketOnIs ==
    ASSUME NEW c, Shape(c), NEW s \in Sockets, NEW f \in Radius!Families
    PROVE  Opened(c, SocketOn(c, s, f), s, f) /\ Shape(SocketOn(c, s, f))
  <1> DEFINE w == NewSocket(f)
             l == [c.skts[f] EXCEPT !.skt = Append(c.skts[f].skt, s)]
             d == SocketOn(c, s, f)
  <1>1. DOMAIN c = RadiusFields /\ s \in DOMAIN c.sock /\ f \in DOMAIN c.skts
    BY DEF Shape
  <1>2. d = [c EXCEPT !.sock[s] = w, !.skts[f].skt = Append(@, s)]
    BY DEF SocketOn
  <1>3. IsSocket(w)
    BY NewSocketIs
  <1>4. IsList(l) /\ l.skt = Append(c.skts[f].skt, s) /\ l.queries = c.skts[f].queries
    <2>1. IsList(c.skts[f])
      BY DEF Shape
    <2> QED  BY <2>1 DEF IsList
  <1> HIDE DEF w, d
  <1>5. /\ DOMAIN d = RadiusFields
        /\ d.srv = c.srv /\ d.srv_count = c.srv_count /\ d.rep = c.rep /\ d.sent = c.sent /\ d.wild = c.wild
        /\ d.q = c.q /\ d.sock = [c.sock EXCEPT ![s] = w] /\ d.skts = [c.skts EXCEPT ![f] = l]
    BY <1>1, <1>2 DEF RadiusFields
  <1> HIDE DEF l
  <1>6. d.skts[f] = l /\ \A g \in Radius!Families : g # f => d.skts[g] = c.skts[g]
    BY <1>1, <1>5 DEF Shape
  <1>7. Shape(d)
    BY <1>3, <1>4, <1>5 DEF Shape
  <1>8. Opened(c, d, s, f)
    BY <1>4, <1>5, <1>6 DEF Opened, w
  <1> QED  BY <1>7, <1>8 DEF d

\* A new socket is the last of its list and has nothing but free slots.
LEMMA OpenKeeps ==
    ASSUME NEW c, NEW x \in Queries, Sound(c, x), Limits, NEW s \in Sockets, c.sock[s].st # "live",
           NEW f \in Radius!Families, Len(c.skts[f].skt) < limits.max,
           NEW d, Opened(c, d, s, f), Shape(d)
    PROVE  /\ Sound(d, x) /\ d.q = c.q /\ SameServers(c, d)
           /\ d.skts[f].skt[Len(d.skts[f].skt)] = s /\ d.sock[s].st = "live" /\ d.sock[s].fam = f
           /\ \A z \in Ids : d.sock[s].tmr[z] = NoQuery
  <1> DEFINE w == NewSocket(f)
             list == c.skts[f].skt
             longer == d.skts[f].skt
  <1>0. /\ Base(c) /\ Shape(c) /\ Slots(c) /\ Named(c) /\ Quiet(c) /\ Counts(c) /\ Totals(c)
        /\ Lists(c) /\ Listed(c) /\ NoSurplus(c) /\ Reports(c) /\ Sent(c)
        /\ c.q[x].st = "active" /\ c.q[x].id \in Ids
        /\ \A y \in Queries : y # x => Placed(c, y) /\ Armed(c, y)
    BY DEF Base, Sound
  <1>1. /\ d.rep = c.rep /\ d.sent = c.sent /\ d.srv = c.srv /\ d.srv_count = c.srv_count /\ d.wild = c.wild
        /\ d.q = c.q /\ d.sock = [c.sock EXCEPT ![s] = w]
        /\ \A g \in Radius!Families : g # f => d.skts[g] = c.skts[g]
        /\ longer = Append(list, s) /\ d.skts[f].queries = c.skts[f].queries
    BY DEF Opened
  <1>2. /\ w.st = "live" /\ w.fam = f /\ w.count = 0
        /\ \A z \in Ids : w.tmr[z] = NoQuery /\ w.ktmr[z] = "none"
    BY NewSocketIs
  <1> HIDE DEF w
  <1>3. d.sock[s] = w /\ \A t \in Sockets : t # s => d.sock[t] = c.sock[t]
    BY <1>0, <1>1 DEF Shape
  <1>4. /\ list \in Seq(Sockets) /\ Len(list) < limits.max
        /\ \A a \in 1 .. Len(list) : c.sock[list[a]].st = "live" /\ c.sock[list[a]].fam = f
        /\ \A a, b \in 1 .. Len(list) : list[a] = list[b] => a = b
    BY <1>0 DEF Lists
  <1> HIDE DEF list, longer
  <1>5. /\ longer \in Seq(Sockets) /\ Len(longer) = Len(list) + 1 /\ longer[Len(longer)] = s
        /\ \A a \in 1 .. Len(list) : longer[a] = list[a]
        /\ Len(list) \in Nat
    BY <1>1, <1>4
  <1>6. \A a \in 1 .. Len(list) : list[a] # s /\ list[a] \in Sockets
    BY <1>4
  <1>7. Slots(d)
    <2> SUFFICES ASSUME NEW t \in Sockets, NEW z \in Ids, d.sock[t].st = "live", d.sock[t].tmr[z] # NoQuery
                 PROVE  LET y == d.sock[t].tmr[z]
                        IN  y \in Queries /\ d.q[y].st = "active" /\ d.q[y].skt = t /\ d.q[y].id = z
      BY DEF Slots
    <2>1. t # s
      BY <1>2, <1>3
    <2> QED  BY <1>0, <1>1, <1>3, <2>1 DEF Slots
  <1>8. Named(d)
    <2> SUFFICES ASSUME NEW y \in Queries, c.q[y].skt # NoSkt
                 PROVE  LET q == c.q[y]
                        IN  /\ q.st = "active" /\ q.skt \in Sockets /\ q.id \in Ids
                            /\ d.sock[q.skt].st = "live" /\ d.sock[q.skt].tmr[q.id] = y
      BY <1>1 DEF Named
    <2>1. /\ c.q[y].st = "active" /\ c.q[y].skt \in Sockets /\ c.q[y].id \in Ids
          /\ c.sock[c.q[y].skt].st = "live" /\ c.sock[c.q[y].skt].tmr[c.q[y].id] = y
      BY <1>0 DEF Named
    <2> QED  BY <1>3, <2>1
  <1>9. Quiet(d)
    <2> SUFFICES ASSUME NEW t \in Sockets, NEW z \in Ids, d.sock[t].st # "live" \/ d.sock[t].tmr[z] = NoQuery
                 PROVE  d.sock[t].ktmr[z] = "none"
      BY DEF Quiet
    <2>1. CASE t = s
      BY <1>2, <1>3, <2>1
    <2>2. CASE t # s
      BY <1>0, <1>3, <2>2 DEF Quiet
    <2> QED  BY <2>1, <2>2
  <1>10. Counts(d)
    <2>1. Cardinality(InUse(w)) = 0
      <3>1. InUse(w) = {}
        BY <1>2 DEF InUse
      <3> QED  BY <3>1, FS_EmptySet
    <2> QED  BY <1>0, <1>2, <1>3, <2>1 DEF Counts
  <1>11. Totals(d)
    <2> SUFFICES ASSUME NEW g \in Radius!Families PROVE d.skts[g].queries = Cardinality(Busy(d, g))
      BY DEF Totals
    <2>1. ASSUME NEW t \in Sockets, NEW z \in Ids
          PROVE  <<t, z>> \in Busy(d, g) <=> <<t, z>> \in Busy(c, g)
      <3>1. CASE t = s
        BY <1>2, <1>3, <3>1 DEF Busy
      <3>2. CASE t # s
        BY <1>3, <3>2 DEF Busy
      <3> QED  BY <3>1, <3>2
    <2>2. Busy(d, g) = Busy(c, g)
      <3>1. Busy(d, g) \subseteq Sockets \X Ids /\ Busy(c, g) \subseteq Sockets \X Ids
        BY DEF Busy
      <3>2. \A tz \in Sockets \X Ids : tz \in Busy(d, g) <=> tz \in Busy(c, g)
        BY <2>1
      <3> QED  BY <3>1, <3>2
    <2>3. d.skts[g].queries = c.skts[g].queries
      BY <1>1
    <2> QED  BY <1>0, <2>2, <2>3 DEF Totals
  <1>12. Lists(d)
    <2> SUFFICES ASSUME NEW g \in Radius!Families
                 PROVE  LET l == d.skts[g].skt
                        IN  /\ l \in Seq(Sockets) /\ Len(l) <= limits.max
                            /\ \A a \in 1 .. Len(l) : d.sock[l[a]].st = "live" /\ d.sock[l[a]].fam = g
                            /\ \A a, b \in 1 .. Len(l) : l[a] = l[b] => a = b
      BY DEF Lists
    <2>1. CASE g = f
      <3>1. Len(longer) <= limits.max
        BY <1>4, <1>5 DEF Limits
      <3>2. ASSUME NEW a \in 1 .. Len(longer) PROVE d.sock[longer[a]].st = "live" /\ d.sock[longer[a]].fam = f
        <4>1. CASE a = Len(longer)
          BY <1>2, <1>3, <1>5, <4>1
        <4>2. CASE a # Len(longer)
          <5>1. a \in 1 .. Len(list) /\ longer[a] = list[a]
            BY <1>5, <3>2, <4>2
          <5>2. d.sock[list[a]] = c.sock[list[a]]
            BY <1>3, <1>6, <5>1
          <5> QED  BY <1>4, <5>1, <5>2
        <4> QED  BY <4>1, <4>2
      <3>3. \A a, b \in 1 .. Len(longer) : longer[a] = longer[b] => a = b
        BY <1>4, <1>5, <1>6
      <3> QED  BY <1>5, <2>1, <3>1, <3>2, <3>3 DEF longer
    <2>2. CASE g # f
      <3> DEFINE l == c.skts[g].skt
      <3>1. /\ l \in Seq(Sockets) /\ Len(l) <= limits.max
            /\ \A a \in 1 .. Len(l) : c.sock[l[a]].st = "live" /\ c.sock[l[a]].fam = g
            /\ \A a, b \in 1 .. Len(l) : l[a] = l[b] => a = b
        BY <1>0 DEF Lists
      <3>2. d.skts[g].skt = l
        BY <1>1, <2>2
      <3> HIDE DEF l
      <3>3. ASSUME NEW a \in 1 .. Len(l) PROVE d.sock[l[a]] = c.sock[l[a]]
        <4>1. l[a] \in Sockets /\ l[a] # s
          BY <3>1, <3>3
        <4> QED  BY <1>3, <4>1
      <3> QED  BY <3>1, <3>2, <3>3
    <2> QED  BY <2>1, <2>2
  <1>13. Listed(d)
    <2> SUFFICES ASSUME NEW t \in Sockets, d.sock[t].st = "live"
                 PROVE  \E a \in 1 .. Len(d.skts[d.sock[t].fam].skt) : d.skts[d.sock[t].fam].skt[a] = t
      BY DEF Listed
    <2>0. CASE t = s
      <3>1. d.sock[t].fam = f
        BY <1>2, <1>3, <2>0
      <3>2. Len(longer) \in 1 .. Len(longer) /\ longer[Len(longer)] = t
        BY <1>5, <2>0
      <3> QED  BY <3>1, <3>2 DEF longer
    <2>1. CASE t # s
      <3> DEFINE g == c.sock[t].fam
      <3>1. d.sock[t] = c.sock[t]
        BY <1>3, <2>1
      <3>2. g \in Radius!Families
        BY <1>0 DEF Shape, IsSocket
      <3>3. PICK a \in 1 .. Len(c.skts[g].skt) : c.skts[g].skt[a] = t
        BY <1>0, <3>1 DEF Listed
      <3>4. CASE g = f
        <4>1. a \in 1 .. Len(list) /\ list[a] = t
          BY <3>3, <3>4 DEF list
        <4>2. a \in 1 .. Len(longer) /\ longer[a] = t
          BY <1>5, <4>1
        <4> QED  BY <3>1, <3>4, <4>2 DEF longer
      <3>5. CASE g # f
        <4>1. d.skts[g] = c.skts[g]
          BY <1>1, <3>2, <3>5
        <4> HIDE DEF g
        <4>2. d.sock[t].fam = g
          BY <3>1 DEF g
        <4>3. a \in 1 .. Len(d.skts[g].skt) /\ d.skts[g].skt[a] = t
          BY <3>3, <4>1
        <4> QED  BY <4>2, <4>3
      <3> QED  BY <3>4, <3>5
    <2> QED  BY <2>0, <2>1
  <1>14. NoSurplus(d)
    BY <1>0, <1>2, <1>3 DEF NoSurplus
  <1>15. Reports(d) /\ Sent(d)
    BY <1>0, <1>1 DEF Reports, Sent
  <1>16. Base(d)
    BY <1>7, <1>8, <1>9, <1>10, <1>11, <1>12, <1>13, <1>14, <1>15 DEF Base
  <1>17. ASSUME NEW y \in Queries, y # x PROVE Placed(d, y) /\ Armed(d, y)
    <2>1. c.q[y].skt # NoSkt => d.sock[c.q[y].skt].ktmr[c.q[y].id] = c.sock[c.q[y].skt].ktmr[c.q[y].id]
      BY <1>0, <1>3 DEF Named
    <2> QED  BY <1>0, <1>1, <1>17, <2>1, RestKeeps
  <1>18. Sound(d, x)
    BY <1>0, <1>1, <1>16, <1>17 DEF Sound
  <1> QED  BY <1>1, <1>2, <1>3, <1>5, <1>18 DEF SameServers, longer

\* The outcome of looking for a slot.
SlotResult(c, r, x) ==
    /\ Sound(r.c, x) /\ Apart(c, r.c, x)
    /\ r.c.q[x].signed = c.q[x].signed /\ r.c.q[x].idx = c.q[x].idx
    /\ r.err = "ok" => r.c.q[x].skt # NoSkt

\* A free slot of a living socket can be taken.
LEMMA SlotTakenIs ==
    ASSUME NEW c, NEW x \in Queries, Sound(c, x), c.q[x].skt = NoSkt,
           NEW s \in Sockets, NEW id \in Ids, NEW f \in Radius!Families, NEW o,
           c.sock[s].st = "live", c.sock[s].fam = f, c.sock[s].tmr[id] = NoQuery
    PROVE  SlotResult(c, Radius!SlotTaken(c, x, f, s, id, o), x)
  <1> DEFINE v == IF o.call = "add" THEN "none" ELSE "set"
             d == LinkOn(c, x, s, id, f, v)
             r == Radius!SlotTaken(c, x, f, s, id, o)
  <1>1. v \in {"none", "set"}
    OBVIOUS
  <1>2. r.c = d
    BY DEF Radius!SlotTaken, LinkOn, SlotHeld
  <1> HIDE DEF v
  <1>3. LinkedOn(c, d, x, s, id, f, v) /\ Shape(d)
    BY <1>1, LinkOnIs DEF Sound, Base
  <1> HIDE DEF d, r
  <1>4. /\ Sound(d, x) /\ SameServers(c, d) /\ d.q[x].skt = s /\ d.q[x].id = id
        /\ d.q[x].signed = c.q[x].signed /\ d.q[x].idx = c.q[x].idx
        /\ \A y \in Queries : (y # x => d.q[y] = c.q[y]) /\ d.rep[y] = c.rep[y]
    BY <1>1, <1>3, LinkOnKeeps
  <1>5. Apart(c, d, x) /\ s # NoSkt
    BY <1>4, RadiusAssumption DEF Apart, SameServers
  <1>6. SlotResult(c, r, x)
    BY <1>2, <1>4, <1>5 DEF SlotResult
  <1> QED  BY <1>6 DEF r

\* A socket is wild when it could not be made; everything else is as it was.
LEMMA WildTouches ==
    ASSUME NEW c, Shape(c), NEW x \in Queries
    PROVE  Touched(c, [c EXCEPT !.wild = "create"], x) /\ [c EXCEPT !.wild = "create"].q = c.q
  <1> DEFINE d == [c EXCEPT !.wild = "create"]
  <1>1. DOMAIN c = RadiusFields /\ DOMAIN c.q = Queries /\ IsQuery(c.q[x])
    BY DEF Shape
  <1>2. /\ DOMAIN d = RadiusFields /\ d.srv = c.srv /\ d.srv_count = c.srv_count /\ d.wild = "create"
        /\ d.sock = c.sock /\ d.skts = c.skts /\ d.rep = c.rep /\ d.sent = c.sent /\ d.q = c.q
    BY <1>1 DEF RadiusFields
  <1> HIDE DEF d
  <1>3. Touched(c, d, x)
    BY <1>1, <1>2 DEF Touched, Apart
  <1> QED  BY <1>2, <1>3 DEF d

\* The last socket of the list is new and has room.
Roomy(c, f) ==
    LET s == c.skts[f].skt[Len(c.skts[f].skt)]
    IN  s \in Sockets /\ c.sock[s].st = "live" /\ c.sock[s].fam = f /\ \A z \in Ids : c.sock[s].tmr[z] = NoQuery
AllocResult(c, r, x, f) ==
    Sound(r.c, x) /\ Apart(c, r.c, x) /\ r.c.q = c.q /\ (r.err = "ok" => Roomy(r.c, f))

\* radius_client_socket_alloc(): a socket with room, or an error.
LEMMA AllocIs ==
    ASSUME NEW c, NEW x \in Queries, Sound(c, x), Limits, NEW f \in Radius!Families,
           Len(c.skts[f].skt) < limits.max, NEW outcome
    PROVE  AllocResult(c, Radius!radius_client_socket_alloc(c, f, outcome), x, f)
  <1> DEFINE r == Radius!radius_client_socket_alloc(c, f, outcome)
             s == CHOOSE t \in Radius!Unused(c) : TRUE
             d == SocketOn(c, s, f)
  <1>0. Base(c) /\ Shape(c)
    BY DEF Sound, Base
  <1>1. s \in Sockets /\ c.sock[s].st # "live"
    BY <1>0, NameLeft DEF Radius!Unused
  <1>2. Apart(c, c, x)
    BY DEF Apart
  <1>3. CASE outcome = "memory"
    <2>1. r.c = c /\ r.err = "ENOMEM"
      BY <1>3 DEF Radius!radius_client_socket_alloc
    <2> HIDE DEF r
    <2> QED  BY <1>2, <2>1 DEF AllocResult, r
  <1>4. CASE outcome = "create"
    <2> DEFINE e == [c EXCEPT !.wild = "create"]
    <2>1. r.c = e /\ r.err = "EMFILE"
      BY <1>4 DEF Radius!radius_client_socket_alloc
    <2>2. Touched(c, e, x) /\ e.q = c.q
      BY <1>0, WildTouches
    <2> HIDE DEF e, r
    <2>3. Sound(e, x) /\ Apart(c, e, x)
      BY <2>2, TouchKeeps DEF Touched
    <2> QED  BY <2>1, <2>2, <2>3 DEF AllocResult, r
  <1>5. CASE outcome = "task"
    <2>1. r.c = c /\ r.err = "ENOMEM"
      BY <1>5 DEF Radius!radius_client_socket_alloc
    <2> HIDE DEF r
    <2> QED  BY <1>2, <2>1 DEF AllocResult, r
  <1>6. CASE outcome \notin {"memory", "create", "task"}
    <2>1. r.c = d
      BY <1>6 DEF Radius!radius_client_socket_alloc, SocketOn, NewSocket
    <2> HIDE DEF s, r
    <2>2. Opened(c, d, s, f) /\ Shape(d)
      BY <1>0, <1>1, SocketOnIs
    <2> HIDE DEF d
    <2>3. /\ Sound(d, x) /\ d.q = c.q /\ SameServers(c, d)
          /\ d.skts[f].skt[Len(d.skts[f].skt)] = s /\ d.sock[s].st = "live" /\ d.sock[s].fam = f
          /\ \A z \in Ids : d.sock[s].tmr[z] = NoQuery
      BY <1>1, <2>2, OpenKeeps
    <2>4. Roomy(d, f)
      BY <1>1, <2>3 DEF Roomy
    <2>5. Apart(c, d, x)
      BY <2>3 DEF Apart, SameServers
    <2> QED  BY <2>1, <2>3, <2>4, <2>5 DEF AllocResult, r
  <1> QED  BY <1>3, <1>4, <1>5, <1>6

\* A slot of the new socket.
LEMMA NewSlotIs ==
    ASSUME NEW c, NEW x \in Queries, Sound(c, x), c.q[x].skt = NoSkt, NEW f \in Radius!Families, NEW o,
           NEW r, AllocResult(c, r, x, f)
    PROVE  SlotResult(c, Radius!NewSlot(r, x, f, o), x)
  <1>0. Sound(r.c, x) /\ Apart(c, r.c, x) /\ r.c.q = c.q /\ (r.err = "ok" => Roomy(r.c, f))
    BY DEF AllocResult
  <1>1. CASE r.err # "ok"
    <2>1. Radius!NewSlot(r, x, f, o) = r
      BY <1>1 DEF Radius!NewSlot
    <2> QED  BY <1>0, <1>1, <2>1 DEF SlotResult
  <1>2. CASE r.err = "ok"
    <2> DEFINE d == r.c
               s == d.skts[f].skt[Len(d.skts[f].skt)]
               id == Radius!NextId(d.sock[s], x, d.q)
               w == Radius!SlotTaken(d, x, f, s, id, o)
    <2>1. Radius!NewSlot(r, x, f, o) = w
      BY <1>2 DEF Radius!NewSlot
    <2>2. Sound(d, x) /\ Apart(c, d, x) /\ d.q = c.q
      BY <1>0
    <2> HIDE DEF d
    <2>3. s \in Sockets /\ d.sock[s].st = "live" /\ d.sock[s].fam = f /\ \A z \in Ids : d.sock[s].tmr[z] = NoQuery
      BY <1>0, <1>2 DEF Roomy, d
    <2> HIDE DEF s
    <2>4. d.q[x].id \in Ids
      BY <2>2 DEF Sound
    <2>5. Radius!FreeIds(d.sock[s], x, d.q) # {}
      BY <2>3, <2>4 DEF Radius!FreeIds
    <2>6. id \in Ids /\ d.sock[s].tmr[id] = NoQuery
      BY <2>5, NextIdIs
    <2> HIDE DEF id
    <2>7. SlotResult(d, w, x)
      BY <2>2, <2>3, <2>6, SlotTakenIs
    <2> HIDE DEF w
    <2>8. Apart(c, w.c, x)
      BY <2>2, <2>7, ApartApart DEF SlotResult
    <2>9. SlotResult(c, w, x)
      BY <2>2, <2>7, <2>8 DEF SlotResult
    <2> QED  BY <2>1, <2>9
  <1> QED  BY <1>1, <1>2

\* radius_client_send_new(), first half: a slot of the first socket with room, or of a new one.
LEMMA SlotIs ==
    ASSUME NEW c, NEW x \in Queries, Sound(c, x), Limits, c.q[x].skt = NoSkt, NEW f \in Radius!Families, NEW o
    PROVE  SlotResult(c, Radius!Slot(c, x, f, o), x)
  <1> DEFINE list == c.skts[f].skt
             roomy == {b \in DOMAIN list : Radius!FreeIds(c.sock[list[b]], x, c.q) # {}}
             s == list[Radius!Min(roomy)]
             id == Radius!NextId(c.sock[s], x, c.q)
             r == Radius!radius_client_socket_alloc(c, f, o.call)
  <1>0. Lists(c)
    BY DEF Sound, Base
  <1>1. /\ list \in Seq(Sockets) /\ Len(list) <= limits.max
        /\ \A a \in 1 .. Len(list) : c.sock[list[a]].st = "live" /\ c.sock[list[a]].fam = f
    BY <1>0 DEF Lists
  <1>2. CASE roomy # {}
    <2>1. Radius!Slot(c, x, f, o) = Radius!SlotTaken(c, x, f, s, id, o)
      BY <1>2 DEF Radius!Slot
    <2>2. roomy \subseteq Nat /\ roomy \subseteq 1 .. Len(list)
      BY <1>1
    <2>3. Radius!Min(roomy) \in roomy
      <3> HIDE DEF roomy
      <3> QED  BY <1>2, <2>2, MinIs
    <2>4. s \in Sockets /\ c.sock[s].st = "live" /\ c.sock[s].fam = f
      <3> DEFINE at == Radius!Min(roomy)
      <3>1. at \in 1 .. Len(list)
        BY <2>2, <2>3
      <3>2. s = list[at]
        OBVIOUS
      <3> HIDE DEF list, at, s
      <3> QED  BY <1>1, <3>1, <3>2
    <2>5. Radius!FreeIds(c.sock[s], x, c.q) # {}
      BY <2>3
    <2> HIDE DEF s
    <2>6. id \in Ids /\ c.sock[s].tmr[id] = NoQuery
      BY <2>5, NextIdIs
    <2> HIDE DEF id
    <2>7. SlotResult(c, Radius!SlotTaken(c, x, f, s, id, o), x)
      BY <2>4, <2>6, SlotTakenIs
    <2> QED  BY <2>1, <2>7
  <1>3. CASE roomy = {} /\ Len(list) >= limits.max
    <2>1. Radius!Slot(c, x, f, o) = [c |-> c, err |-> "EAGAIN"]
      BY <1>3 DEF Radius!Slot
    <2>2. Apart(c, c, x)
      BY DEF Apart
    <2> QED  BY <2>1, <2>2 DEF SlotResult
  <1>4. CASE roomy = {} /\ ~(Len(list) >= limits.max)
    <2>1. Radius!Slot(c, x, f, o) = Radius!NewSlot(r, x, f, o)
      BY <1>4 DEF Radius!Slot
    <2>2. Len(list) < limits.max
      BY <1>1, <1>4 DEF Limits
    <2>3. AllocResult(c, r, x, f)
      BY <2>2, AllocIs
    <2> HIDE DEF r
    <2>4. SlotResult(c, Radius!NewSlot(r, x, f, o), x)
      BY <2>3, NewSlotIs
    <2> QED  BY <2>1, <2>4
  <1> QED  BY <1>2, <1>3, <1>4

\* Query x sets the timer of its slot to v and sends the packets in new to the servers in more.
TimerTo(c, s, id, v) == [c EXCEPT !.sock[s].ktmr[id] = v]
PacketTo(x, s, id, a) == [s |-> s, id |-> id, q |-> x, addr |-> a]
PacketOut(c, x, s, id, a) == [c EXCEPT !.sent = @ \cup {PacketTo(x, s, id, a)}, !.q[x].tried = @ \cup {a}]
Sending(c, d, x, s, id, v, new, more) ==
    /\ DOMAIN d = RadiusFields /\ Apart(c, d, x) /\ d.skts = c.skts /\ d.rep = c.rep
    /\ DOMAIN d.sock = Sockets /\ IsSocket(d.sock[s])
    /\ d.sock[s].fam = c.sock[s].fam /\ d.sock[s].st = c.sock[s].st
    /\ d.sock[s].tmr = c.sock[s].tmr /\ d.sock[s].count = c.sock[s].count
    /\ \A z \in Ids : d.sock[s].ktmr[z] = IF z = id THEN v ELSE c.sock[s].ktmr[z]
    /\ \A t \in Sockets : t # s => d.sock[t] = c.sock[t]
    /\ d.sent = c.sent \cup new
    /\ DOMAIN d.q = Queries /\ SameQuery([c.q[x] EXCEPT !.tried = d.q[x].tried], d.q[x]) /\ IsQuery(d.q[x])
    /\ d.q[x].skt = c.q[x].skt /\ d.q[x].tried = c.q[x].tried \cup more

\* Setting the timer of a slot.
LEMMA TimerToIs ==
    ASSUME NEW c, Shape(c), NEW x \in Queries, NEW s \in Sockets, NEW id \in Ids, NEW v \in {"none", "set", "off"}
    PROVE  LET d == TimerTo(c, s, id, v)
           IN  Sending(c, d, x, s, id, v, {}, {}) /\ d.q = c.q /\ d.sent = c.sent /\ d.wild = c.wild
  <1> DEFINE d == TimerTo(c, s, id, v)
             k == c.sock[s]
             w == [k EXCEPT !.ktmr = [k.ktmr EXCEPT ![id] = v]]
  <1>1. DOMAIN c = RadiusFields /\ s \in DOMAIN c.sock /\ DOMAIN c.sock = Sockets /\ IsSocket(k) /\ IsQuery(c.q[x])
        /\ DOMAIN c.q = Queries
    BY DEF Shape
  <1>2. d = [c EXCEPT !.sock = [c.sock EXCEPT ![s] = w]]
    BY DEF TimerTo
  <1> HIDE DEF k, d
  <1>3. DOMAIN k = {"fam", "st", "tmr", "ktmr", "count", "index"} /\ k.ktmr \in [Ids -> {"none", "set", "off"}]
    BY <1>1 DEF IsSocket
  <1>4. /\ w.fam = k.fam /\ w.st = k.st /\ w.count = k.count /\ w.index = k.index /\ w.tmr = k.tmr
        /\ DOMAIN w = {"fam", "st", "tmr", "ktmr", "count", "index"} /\ w.ktmr = [k.ktmr EXCEPT ![id] = v]
    BY <1>3
  <1> HIDE DEF w
  <1>5. \A z \in Ids : w.ktmr[z] = IF z = id THEN v ELSE k.ktmr[z]
    BY <1>3, <1>4
  <1>6. IsSocket(w)
    <2>1. w.ktmr \in [Ids -> {"none", "set", "off"}]
      BY <1>3, <1>4
    <2> QED  BY <1>1, <1>4, <2>1 DEF IsSocket
  <1>7. /\ DOMAIN d = RadiusFields /\ d.srv = c.srv /\ d.srv_count = c.srv_count /\ d.wild = c.wild
        /\ d.skts = c.skts /\ d.rep = c.rep /\ d.sent = c.sent /\ d.q = c.q
        /\ d.sock = [c.sock EXCEPT ![s] = w]
    BY <1>1, <1>2 DEF RadiusFields
  <1>8. DOMAIN d.sock = Sockets /\ d.sock[s] = w /\ \A t \in Sockets : t # s => d.sock[t] = c.sock[t]
    BY <1>1, <1>7
  <1>9. Apart(c, d, x)
    BY <1>7 DEF Apart
  <1>10. SameQuery([c.q[x] EXCEPT !.tried = d.q[x].tried], d.q[x])
    BY <1>1, <1>7 DEF SameQuery, IsQuery, QueryFields
  <1>11. d.sent = c.sent \cup {} /\ d.q[x].tried = c.q[x].tried \cup {}
    BY <1>7
  <1>12. Sending(c, d, x, s, id, v, {}, {})
    BY <1>1, <1>4, <1>5, <1>6, <1>7, <1>8, <1>9, <1>10, <1>11 DEF Sending, k
  <1> QED  BY <1>7, <1>12 DEF d

\* Sending a packet behind it.
LEMMA PacketToIs ==
    ASSUME NEW c, Shape(c), NEW x \in Queries, NEW s \in Sockets, NEW id \in Ids, NEW v, NEW a,
           NEW u, Sending(c, u, x, s, id, v, {}, {}), u.q = c.q, u.sent = c.sent, u.wild = c.wild
    PROVE  LET d == PacketOut(u, x, s, id, a)
           IN  Sending(c, d, x, s, id, v, {PacketTo(x, s, id, a)}, {a}) /\ d.q[x].time = c.q[x].time
  <1> DEFINE p == PacketTo(x, s, id, a)
             q == [c.q[x] EXCEPT !.tried = c.q[x].tried \cup {a}]
             d == PacketOut(u, x, s, id, a)
  <1>1. DOMAIN u = RadiusFields /\ DOMAIN c.q = Queries /\ IsQuery(c.q[x])
    BY DEF Shape, Sending
  <1>2a. d = [u EXCEPT !.sent = @ \cup {p}, !.q[x].tried = @ \cup {a}]
    BY DEF PacketOut
  <1> HIDE DEF p, d
  <1>2. /\ DOMAIN d = RadiusFields /\ d.srv = u.srv /\ d.srv_count = u.srv_count /\ d.wild = u.wild
        /\ d.skts = u.skts /\ d.rep = u.rep /\ d.sock = u.sock
        /\ d.sent = c.sent \cup {p} /\ d.q = [c.q EXCEPT ![x] = q]
    BY <1>1, <1>2a DEF RadiusFields
  <1>3. IsQuery(q) /\ q.skt = c.q[x].skt /\ q.tried = c.q[x].tried \cup {a} /\ q.time = c.q[x].time
        /\ SameQuery([c.q[x] EXCEPT !.tried = q.tried], q)
    BY <1>1 DEF IsQuery, QueryFields, SameQuery
  <1> HIDE DEF q
  <1>4. DOMAIN d.q = Queries /\ d.q[x] = q /\ \A y \in Queries : y # x => d.q[y] = c.q[y]
    BY <1>1, <1>2
  <1>5. Apart(c, d, x)
    BY <1>2, <1>4 DEF Apart, Sending
  <1>6. /\ u.skts = c.skts /\ u.rep = c.rep
        /\ DOMAIN u.sock = Sockets /\ IsSocket(u.sock[s])
        /\ u.sock[s].fam = c.sock[s].fam /\ u.sock[s].st = c.sock[s].st
        /\ u.sock[s].tmr = c.sock[s].tmr /\ u.sock[s].count = c.sock[s].count
        /\ \A z \in Ids : u.sock[s].ktmr[z] = IF z = id THEN v ELSE c.sock[s].ktmr[z]
        /\ \A t \in Sockets : t # s => u.sock[t] = c.sock[t]
    BY DEF Sending
  <1>7. Sending(c, d, x, s, id, v, {p}, {a})
    BY <1>2, <1>3, <1>4, <1>5, <1>6 DEF Sending
  <1> QED  BY <1>3, <1>4, <1>7 DEF p, d

\* Sending disturbs no other query; the packets go out from the slot of the query.
LEMMA SendingKeeps ==
    ASSUME NEW c, NEW x \in Queries, Sound(c, x), NEW s \in Sockets, NEW id \in Ids, NEW f, At(c, x, s, id, f),
           NEW v, NEW new, NEW more, NEW d, Sending(c, d, x, s, id, v, new, more),
           \A p \in new : /\ DOMAIN p = {"s", "id", "q", "addr"} /\ p.s = s /\ p.id = id /\ p.q = x
                          /\ p.addr \in more /\ c.q[x].signed
    PROVE  /\ Sound(d, x) /\ d.sock[s].ktmr[id] = v
           /\ Placed(c, x) => Placed(d, x)
  <1>0. /\ Base(c) /\ Shape(c) /\ Named(c) /\ Quiet(c) /\ Reports(c) /\ Sent(c) /\ c.q[x].st = "active"
        /\ c.q[x].id \in Ids /\ IsQuery(c.q[x])
        /\ \A y \in Queries : y # x => Placed(c, y) /\ Armed(c, y)
    BY DEF Sound, Base, Shape
  <1>1. c.q[x].skt = s /\ c.q[x].id = id /\ c.sock[s].st = "live" /\ c.sock[s].tmr[id] = x
    BY DEF At
  <1>2. /\ DOMAIN d = RadiusFields /\ d.skts = c.skts /\ d.rep = c.rep
        /\ DOMAIN d.sock = Sockets /\ IsSocket(d.sock[s])
        /\ d.sock[s].fam = c.sock[s].fam /\ d.sock[s].st = c.sock[s].st
        /\ d.sock[s].tmr = c.sock[s].tmr /\ d.sock[s].count = c.sock[s].count
        /\ \A z \in Ids : d.sock[s].ktmr[z] = IF z = id THEN v ELSE c.sock[s].ktmr[z]
        /\ \A t \in Sockets : t # s => d.sock[t] = c.sock[t]
        /\ d.sent = c.sent \cup new
        /\ DOMAIN d.q = Queries /\ IsQuery(d.q[x])
        /\ d.q[x].skt = c.q[x].skt /\ d.q[x].tried = c.q[x].tried \cup more
    BY DEF Sending
  <1>3. /\ d.srv = c.srv /\ d.srv_count = c.srv_count /\ \A y \in Queries : y # x => d.q[y] = c.q[y]
    BY DEF Sending, Apart
  <1>4. /\ d.q[x].st = c.q[x].st /\ d.q[x].id = c.q[x].id /\ d.q[x].cb = c.q[x].cb
        /\ d.q[x].signed = c.q[x].signed
    <2> DEFINE q == [c.q[x] EXCEPT !.tried = d.q[x].tried]
    <2>1. SameQuery(q, d.q[x])
      BY DEF Sending
    <2>2. q.st = c.q[x].st /\ q.id = c.q[x].id /\ q.cb = c.q[x].cb /\ q.signed = c.q[x].signed
      BY <1>0 DEF IsQuery, QueryFields
    <2> HIDE DEF q
    <2> QED  BY <2>1, <2>2 DEF SameQuery
  <1>5. Shape(d)
    <2>1. \A t \in Sockets : IsSocket(d.sock[t])
      BY <1>0, <1>2 DEF Shape
    <2>2. \A y \in Queries : IsQuery(d.q[y])
      BY <1>0, <1>2, <1>3 DEF Shape
    <2> QED  BY <1>0, <1>2, <1>3, <2>1, <2>2 DEF Shape
  <1>6. SameSlots(c, d)
    <2>1. \A t \in Sockets : /\ d.sock[t].fam = c.sock[t].fam /\ d.sock[t].st = c.sock[t].st
                             /\ d.sock[t].tmr = c.sock[t].tmr /\ d.sock[t].count = c.sock[t].count
      BY <1>2
    <2>2. \A y \in Queries : d.q[y].skt = c.q[y].skt /\ d.q[y].st = c.q[y].st /\ d.q[y].id = c.q[y].id
      BY <1>2, <1>3, <1>4
    <2> QED  BY <1>2, <2>1, <2>2 DEF SameSlots
  <1>7. Quiet(d)
    <2> SUFFICES ASSUME NEW t \in Sockets, NEW z \in Ids, d.sock[t].st # "live" \/ d.sock[t].tmr[z] = NoQuery
                 PROVE  d.sock[t].ktmr[z] = "none"
      BY DEF Quiet
    <2>1. CASE t = s
      <3>1. z # id /\ c.sock[s].tmr[z] = NoQuery
        BY <1>1, <1>2, <2>1, RadiusAssumption
      <3>2. c.sock[s].ktmr[z] = "none"
        BY <1>0, <3>1 DEF Quiet
      <3> QED  BY <1>2, <2>1, <3>1, <3>2
    <2>2. CASE t # s
      BY <1>0, <1>2, <2>2 DEF Quiet
    <2> QED  BY <2>1, <2>2
  <1>8. Reports(d)
    <2>1. \A y \in Queries : /\ d.q[y].st = c.q[y].st /\ d.q[y].cb = c.q[y].cb
                             /\ c.q[y].tried # {} => d.q[y].tried # {}
      BY <1>2, <1>3, <1>4
    <2> QED  BY <1>0, <1>2, <2>1 DEF Reports
  <1>9. Sent(d)
    <2> SUFFICES ASSUME NEW p \in d.sent
                 PROVE  /\ DOMAIN p = {"s", "id", "q", "addr"} /\ p.q \in Queries /\ p.addr \in d.q[p.q].tried
                        /\ d.q[p.q].st = "freed" \/ (d.q[p.q].st = "active" /\ d.q[p.q].signed)
      BY DEF Sent
    <2>1. CASE p \in new
      <3>1. p.q = x /\ c.q[x].signed /\ p.addr \in more /\ DOMAIN p = {"s", "id", "q", "addr"}
        BY <2>1
      <3> QED  BY <1>0, <1>2, <1>4, <3>1
    <2>2. CASE p \in c.sent
      <3>1. /\ DOMAIN p = {"s", "id", "q", "addr"} /\ p.q \in Queries /\ p.addr \in c.q[p.q].tried
            /\ c.q[p.q].st = "freed" \/ (c.q[p.q].st = "active" /\ c.q[p.q].signed)
        BY <1>0, <2>2 DEF Sent
      <3>2. CASE p.q = x
        BY <1>2, <1>4, <3>1, <3>2
      <3>3. CASE p.q # x
        BY <1>3, <3>1, <3>3
      <3> QED  BY <3>2, <3>3
    <2> QED  BY <1>2, <2>1, <2>2
  <1>10. Base(d)
    BY <1>0, <1>5, <1>6, <1>7, <1>8, <1>9, FrameKeeps
  <1>11. ASSUME NEW y \in Queries, y # x PROVE Placed(d, y) /\ Armed(d, y)
    <2>1. \A p \in d.sent : p.q = y => p \in c.sent
      BY <1>2, <1>11
    <2>2. c.q[y].skt # NoSkt => d.sock[c.q[y].skt].ktmr[c.q[y].id] = c.sock[c.q[y].skt].ktmr[c.q[y].id]
      <3> SUFFICES ASSUME c.q[y].skt # NoSkt
                   PROVE  d.sock[c.q[y].skt].ktmr[c.q[y].id] = c.sock[c.q[y].skt].ktmr[c.q[y].id]
        OBVIOUS
      <3>1. /\ c.q[y].skt \in Sockets /\ c.q[y].id \in Ids
            /\ c.sock[c.q[y].skt].tmr[c.q[y].id] = y
        BY <1>0 DEF Named
      <3>2. ~(c.q[y].skt = s /\ c.q[y].id = id)
        BY <1>1, <1>11, <3>1
      <3>3. CASE c.q[y].skt = s
        BY <1>2, <3>1, <3>2, <3>3
      <3>4. CASE c.q[y].skt # s
        BY <1>2, <3>1, <3>4
      <3> QED  BY <3>3, <3>4
    <2> QED  BY <1>0, <1>3, <1>11, <2>1, <2>2, RestKeeps
  <1>12. Sound(d, x)
    BY <1>0, <1>4, <1>10, <1>11 DEF Sound
  <1>13. Placed(c, x) => Placed(d, x)
    <2> SUFFICES ASSUME Placed(c, x), NEW p \in d.sent, p.q = x
                 PROVE  p.s = d.q[x].skt /\ p.id = d.q[x].id
      BY DEF Placed
    <2>1. CASE p \in new
      BY <1>1, <1>2, <1>4, <2>1
    <2>2. CASE p \in c.sent
      BY <1>0, <1>2, <1>4, <2>2 DEF Placed
    <2> QED  BY <1>2, <2>1, <2>2
  <1> QED  BY <1>2, <1>12, <1>13

\* The outcome of a try to send: after a good one the query waits properly.
Result(c, r, x) ==
    /\ Sound(r.c, x) /\ Apart(c, r.c, x)
    /\ r.err = "ok" => Placed(r.c, x) /\ Armed(r.c, x)

\* Query x may wait: its server is there and it has tries left.
MayWait(c, x) ==
    LET q == c.q[x]
    IN  /\ q.skt # NoSkt /\ q.signed /\ q.idx \in 1 .. Len(c.srv)
        /\ c.srv[q.idx].tries # 0 => q.count < c.srv[q.idx].tries

\* radius_client_send(): the query waits with its timer, or an error.
LEMMA SendIs ==
    ASSUME NEW c, NEW x \in Queries, Sound(c, x), Placed(c, x), MayWait(c, x), NEW outcome
    PROVE  Result(c, Radius!radius_client_send(c, x, outcome), x)
  <1> DEFINE r == Radius!radius_client_send(c, x, outcome)
             a == c.srv[c.q[x].idx].addr
  <1>0. Shape(c) /\ Named(c) /\ IsQuery(c.q[x]) /\ c.q[x].st = "active"
    BY DEF Sound, Base, Shape
  <1>1. /\ c.q[x].skt # NoSkt /\ c.q[x].signed /\ c.q[x].idx \in 1 .. Len(c.srv)
        /\ c.srv[c.q[x].idx].tries # 0 => c.q[x].count < c.srv[c.q[x].idx].tries
    BY DEF MayWait
  <1>2. PICK s \in Sockets, id \in Ids, f \in Radius!Families :
           c.q[x].skt = s /\ c.q[x].id = id /\ c.sock[s].fam = f /\ At(c, x, s, id, f)
    BY <1>0, <1>1, SlotOf
  <1>3. ASSUME NEW v \in {"none", "off"}, r.c = TimerTo(c, s, id, v), r.err # "ok"
        PROVE  Result(c, r, x)
    <2> DEFINE d == TimerTo(c, s, id, v)
    <2>1. Sending(c, d, x, s, id, v, {}, {})
      BY <1>0, TimerToIs
    <2> HIDE DEF d
    <2>2. Sound(d, x)
      BY <1>2, <2>1, SendingKeeps
    <2>3. Apart(c, d, x)
      BY <2>1 DEF Sending
    <2> HIDE DEF r
    <2> QED  BY <1>3, <2>2, <2>3 DEF Result, d
  <1>4. CASE outcome = "timer"
    <2>1. r.c = TimerTo(c, s, id, "none") /\ r.err = "EINVAL"
      BY <1>2, <1>4 DEF Radius!radius_client_send, TimerTo
    <2> HIDE DEF r
    <2> QED  BY <1>3, <2>1 DEF r
  <1>5. CASE outcome # "timer" /\ (outcome = "send" \/ a = "none")
    <2>1. r.c = TimerTo(c, s, id, "off") /\ r.err = "ECONNREFUSED"
      BY <1>2, <1>5 DEF Radius!radius_client_send, TimerTo
    <2> HIDE DEF r
    <2> QED  BY <1>3, <2>1 DEF r
  <1>6. CASE outcome # "timer" /\ ~(outcome = "send" \/ a = "none")
    <2> DEFINE v == IF c.q[x].time = 0 THEN "off" ELSE "set"
               u == TimerTo(c, s, id, v)
               d == PacketOut(u, x, s, id, a)
    <2>1. r.c = d
      BY <1>2, <1>6 DEF Radius!radius_client_send, TimerTo, PacketTo, PacketOut
    <2> HIDE DEF r, a
    <2>2. v \in {"none", "set", "off"}
      OBVIOUS
    <2>3. Sending(c, u, x, s, id, v, {}, {}) /\ u.q = c.q /\ u.sent = c.sent /\ u.wild = c.wild
      <3> HIDE DEF v
      <3> QED  BY <1>0, <2>2, TimerToIs
    <2>4. v = IF c.q[x].time = 0 THEN "off" ELSE "set"
      OBVIOUS
    <2> HIDE DEF v, u
    <2>5. Sending(c, d, x, s, id, v, {PacketTo(x, s, id, a)}, {a}) /\ d.q[x].time = c.q[x].time
      BY <1>0, <2>3, PacketToIs
    <2> HIDE DEF d
    <2>6. \A p \in {PacketTo(x, s, id, a)} :
             /\ DOMAIN p = {"s", "id", "q", "addr"} /\ p.s = s /\ p.id = id /\ p.q = x
             /\ p.addr \in {a} /\ c.q[x].signed
      BY <1>1 DEF PacketTo
    <2>7. Sound(d, x) /\ d.sock[s].ktmr[id] = v /\ Placed(d, x)
      BY <1>2, <2>5, <2>6, SendingKeeps
    <2>8. Apart(c, d, x) /\ d.q[x].skt = s
      BY <1>2, <2>5 DEF Sending
    <2>9. d.q[x].id = id /\ d.q[x].signed /\ d.q[x].idx = c.q[x].idx /\ d.q[x].count = c.q[x].count
      <3> DEFINE q == [c.q[x] EXCEPT !.tried = d.q[x].tried]
      <3>1. SameQuery(q, d.q[x])
        BY <2>5 DEF Sending
      <3>2. q.id = id /\ q.signed = c.q[x].signed /\ q.idx = c.q[x].idx /\ q.count = c.q[x].count
        BY <1>0, <1>2 DEF IsQuery, QueryFields
      <3> HIDE DEF q
      <3>3. d.q[x].signed = c.q[x].signed
        BY <3>1, <3>2 DEF SameQuery
      <3>4. d.q[x].signed
        BY <1>1, <3>3, Zenon
      <3> QED  BY <3>1, <3>2, <3>4 DEF SameQuery
    <2>10. Armed(d, x)
      <3>1. d.srv = c.srv
        BY <2>8 DEF Apart
      <3>2. d.q[x].skt # NoSkt
        BY <1>1, <1>2, <2>8
      <3>3. d.sock[d.q[x].skt].ktmr[d.q[x].id] = IF d.q[x].time = 0 THEN "off" ELSE "set"
        BY <2>4, <2>5, <2>7, <2>8, <2>9
      <3>4. d.srv[d.q[x].idx].addr \in d.q[x].tried
        BY <2>5, <2>9, <3>1 DEF Sending, a
      <3> QED  BY <1>1, <2>9, <3>1, <3>2, <3>3, <3>4 DEF Armed
    <2> QED  BY <2>1, <2>7, <2>8, <2>10 DEF Result, r
  <1> QED  BY <1>4, <1>5, <1>6

\* radius_client_send_new(), second half: a packet is signed once.
LEMMA SignedSentIs ==
    ASSUME NEW c, NEW x \in Queries, NEW r, SlotResult(c, r, x), NEW o, c.q[x].idx \in 1 .. Len(c.srv)
    PROVE  Result(c, Radius!SignedSent(r, x, o), x)
  <1> DEFINE d == r.c
             w == Radius!SignedSent(r, x, o)
  <1>1. /\ Sound(d, x) /\ Apart(c, d, x) /\ d.q[x].signed = c.q[x].signed /\ d.q[x].idx = c.q[x].idx
        /\ r.err = "ok" => d.q[x].skt # NoSkt
    BY DEF SlotResult
  <1>2. Shape(d) /\ Sent(d) /\ IsQuery(d.q[x]) /\ d.q[x].st = "active" /\ d.srv = c.srv
    BY <1>1 DEF Sound, Base, Shape, Apart
  <1>3. ASSUME w.c = d, w.err # "ok" PROVE Result(c, w, x)
    <2> HIDE DEF d, w
    <2> QED  BY <1>1, <1>3 DEF Result
  <1>4. CASE r.err # "ok"
    <2>1. w = r
      BY <1>4 DEF Radius!SignedSent
    <2> HIDE DEF w
    <2> QED  BY <1>3, <1>4, <2>1 DEF w
  <1>5. CASE r.err = "ok" /\ d.q[x].signed
    <2>1. w = [c |-> d, err |-> "EEXIST"]
      BY <1>5 DEF Radius!SignedSent
    <2>2. w.c = d /\ w.err # "ok"
      BY <2>1
    <2> HIDE DEF w
    <2> QED  BY <1>3, <2>2 DEF w
  <1>6. CASE r.err = "ok" /\ ~d.q[x].signed /\ o.call = "sign"
    <2>1. w = [c |-> d, err |-> "EOVERFLOW"]
      BY <1>6 DEF Radius!SignedSent
    <2>2. w.c = d /\ w.err # "ok"
      BY <2>1
    <2> HIDE DEF w
    <2> QED  BY <1>3, <2>2 DEF w
  <1>7. CASE r.err = "ok" /\ ~d.q[x].signed /\ o.call # "sign"
    <2> DEFINE q == [d.q[x] EXCEPT !.signed = TRUE, !.time = o.time, !.count = 0, !.duration = 0]
               e == Put(d, x, q)
    <2>1. w = Radius!radius_client_send(e, x, o.call)
      BY <1>7, ZenonT(40) DEF Radius!SignedSent, Put
    <2>2. IsQuery(q) /\ SamePlace(d.q[x], q) /\ q.signed /\ q.count = 0 /\ q.idx = d.q[x].idx
          /\ q.skt = d.q[x].skt
      BY <1>2 DEF IsQuery, QueryFields, SamePlace
    <2> HIDE DEF q
    <2>3. Touched(d, e, x) /\ e.q[x] = q
      BY <1>2, <2>2, PutTouches
    <2> HIDE DEF e, d, w
    <2>4. Sound(e, x) /\ Apart(d, e, x) /\ e.sent = d.sent /\ e.srv = d.srv
      BY <1>1, <2>3, TouchKeeps DEF Touched, Apart
    <2>5. Placed(e, x)
      <3>1. \A p \in d.sent : p.q # x
        BY <1>2, <1>7 DEF Sent
      <3> QED  BY <2>4, <3>1 DEF Placed
    <2>6. MayWait(e, x)
      <3>1. e.q[x].idx \in 1 .. Len(e.srv)
        BY <1>1, <1>2, <2>2, <2>3, <2>4
      <3>2. e.srv[e.q[x].idx].tries \in Nat
        <4>1. e.srv \in Seq(ServerSet)
          BY <2>4 DEF Sound, Base, Shape
        <4>2. e.srv[e.q[x].idx] \in ServerSet
          BY <3>1, <4>1
        <4> QED  BY <4>2 DEF ServerSet
      <3>3. e.srv[e.q[x].idx].tries # 0 => e.q[x].count < e.srv[e.q[x].idx].tries
        BY <2>2, <2>3, <3>2
      <3>4. e.q[x].skt # NoSkt /\ e.q[x].signed
        BY <1>1, <1>7, <2>2, <2>3
      <3> QED  BY <3>1, <3>3, <3>4 DEF MayWait
    <2>7. Result(e, w, x)
      BY <2>1, <2>4, <2>5, <2>6, SendIs
    <2>8. Apart(c, w.c, x)
      <3>1. Apart(c, e, x)
        BY <1>1, <2>4, ApartApart
      <3>2. Apart(e, w.c, x)
        BY <2>7 DEF Result
      <3> QED  BY <3>1, <3>2, ApartApart
    <2>9. Result(c, w, x)
      BY <2>7, <2>8 DEF Result
    <2> QED  BY <2>9 DEF w
  <1> QED  BY <1>4, <1>5, <1>6, <1>7

\* radius_client_send_new() with the server chosen.
LEMMA ToServerIs ==
    ASSUME NEW c, NEW x \in Queries, Sound(c, x), Limits, NEW f \in Radius!Families, NEW o,
           c.q[x].idx \in 1 .. Len(c.srv)
    PROVE  Result(c, Radius!ToServer(c, x, f, o), x)
  <1>1. CASE c.q[x].skt # NoSkt /\ c.sock[c.q[x].skt].fam = f
    <2> DEFINE r == [c |-> c, err |-> "ok"]
    <2>1. Radius!ToServer(c, x, f, o) = Radius!SignedSent(r, x, o)
      BY <1>1 DEF Radius!ToServer
    <2>2. SlotResult(c, r, x)
      BY <1>1 DEF SlotResult, Apart
    <2> HIDE DEF r
    <2>3. Result(c, Radius!SignedSent(r, x, o), x)
      BY <2>2, SignedSentIs
    <2> QED  BY <2>1, <2>3
  <1>2. CASE ~(c.q[x].skt # NoSkt /\ c.sock[c.q[x].skt].fam = f)
    <2> DEFINE u == Radius!radius_client_query_unlink_skt(c, x)
               r == Radius!Slot(u, x, f, o)
    <2>1. Radius!ToServer(c, x, f, o) = Radius!SignedSent(r, x, o)
      BY <1>2 DEF Radius!ToServer
    <2>2. /\ Sound(u, x) /\ SameServers(c, u)
          /\ SameQuery(c.q[x], u.q[x]) /\ u.q[x].skt = NoSkt
          /\ \A y \in Queries : y # x => u.q[y] = c.q[y]
      BY UnlinkKeeps
    <2> HIDE DEF u
    <2>3. SlotResult(u, r, x)
      BY <2>2, SlotIs
    <2> HIDE DEF r
    <2>4. Apart(c, u, x) /\ u.q[x].signed = c.q[x].signed /\ u.q[x].idx = c.q[x].idx
      BY <2>2 DEF Apart, SameServers, SameQuery
    <2>5. SlotResult(c, r, x)
      <3>1. Apart(c, r.c, x)
        BY <2>3, <2>4, ApartApart DEF SlotResult
      <3> QED  BY <2>3, <2>4, <3>1 DEF SlotResult
    <2>6. Result(c, Radius!SignedSent(r, x, o), x)
      BY <2>5, SignedSentIs
    <2> QED  BY <2>1, <2>6
  <1> QED  BY <1>1, <1>2

\* radius_client_send_new(): whatever the system calls do.
LEMMA SendNewIs ==
    ASSUME NEW c, NEW x \in Queries, Sound(c, x), Limits, NEW o
    PROVE  Result(c, Radius!radius_client_send_new(c, x, o), x)
  <1> DEFINE enabled == {b \in c.q[x].idx .. c.srv_count : c.srv[b].enabled}
             idx == Radius!Min(enabled)
             r == Radius!radius_client_send_new(c, x, o)
  <1>0. /\ Shape(c) /\ IsQuery(c.q[x]) /\ c.srv \in Seq(ServerSet) /\ c.srv_count \in 0 .. Len(c.srv)
        /\ c.q[x].idx \in Nat \ {0}
    BY DEF Sound, Base, Shape, IsQuery
  <1>1. CASE c.srv_count = 0
    <2>1. r.c = c /\ r.err = "EDESTADDRREQ"
      BY <1>1 DEF Radius!radius_client_send_new
    <2>2. Apart(c, c, x)
      BY DEF Apart
    <2> HIDE DEF r
    <2> QED  BY <2>1, <2>2 DEF Result, r
  <1>2. CASE c.srv_count # 0 /\ enabled = {}
    <2> DEFINE m == Radius!Max({c.q[x].idx, c.srv_count + 1})
               q == [c.q[x] EXCEPT !.idx = m]
               d == Put(c, x, q)
    <2>1. r.c = d /\ r.err = "ECONNREFUSED"
      BY <1>2 DEF Radius!radius_client_send_new, Put
    <2>2. m \in Nat \ {0}
      <3> DEFINE a == c.q[x].idx
                 b == c.srv_count + 1
      <3>1. a \in Nat \ {0} /\ b \in Nat \ {0}
        BY <1>0
      <3> HIDE DEF a, b
      <3>2. \E k \in {a, b} : \A h \in {a, b} : k >= h
        BY <3>1
      <3>3. Radius!Max({a, b}) \in {a, b}
        BY <3>2 DEF Radius!Max
      <3> QED  BY <3>1, <3>3 DEF a, b
    <2> HIDE DEF m
    <2>3. IsQuery(q) /\ SamePlace(c.q[x], q)
      BY <1>0, <2>2 DEF IsQuery, QueryFields, SamePlace
    <2> HIDE DEF q, r
    <2>4. Touched(c, d, x)
      BY <1>0, <2>3, PutTouches
    <2> HIDE DEF d
    <2>5. Sound(d, x) /\ Apart(c, d, x)
      BY <2>4, TouchKeeps DEF Touched
    <2> QED  BY <2>1, <2>5 DEF Result, r
  <1>3. CASE c.srv_count # 0 /\ enabled # {}
    <2> DEFINE q == [c.q[x] EXCEPT !.idx = idx]
               d == Put(c, x, q)
               f == c.srv[idx].family
    <2>1. r = Radius!ToServer(d, x, f, o)
      BY <1>3 DEF Radius!radius_client_send_new, Put
    <2>2. enabled \subseteq Nat /\ enabled \subseteq 1 .. Len(c.srv)
      BY <1>0
    <2>3. idx \in 1 .. Len(c.srv)
      <3>1. Radius!Min(enabled) \in enabled
        <4> HIDE DEF enabled
        <4> QED  BY <1>3, <2>2, MinIs
      <3> QED  BY <2>2, <3>1
    <2> HIDE DEF enabled, idx, r
    <2>4. f \in Radius!Families
      <3>1. c.srv[idx] \in ServerSet
        BY <1>0, <2>3
      <3> QED  BY <3>1 DEF ServerSet
    <2>5. IsQuery(q) /\ SamePlace(c.q[x], q) /\ q.idx = idx
      BY <1>0, <2>3 DEF IsQuery, QueryFields, SamePlace
    <2> HIDE DEF q, f
    <2>6. Touched(c, d, x) /\ d.q[x] = q
      BY <1>0, <2>5, PutTouches
    <2> HIDE DEF d
    <2>7. Sound(d, x) /\ Apart(c, d, x) /\ d.srv = c.srv
      BY <2>6, TouchKeeps DEF Touched, Apart
    <2>8. Result(d, Radius!ToServer(d, x, f, o), x)
      BY <2>3, <2>4, <2>5, <2>6, <2>7, ToServerIs
    <2>9. Result(c, r, x)
      <3>1. Apart(c, r.c, x)
        BY <2>1, <2>7, <2>8, ApartApart DEF Result
      <3> QED  BY <2>1, <2>8, <3>1 DEF Result
    <2> QED  BY <2>9 DEF r
  <1> QED  BY <1>1, <1>2, <1>3

\* One more server is tried.
LEMMA NextTriedIs ==
    ASSUME NEW c, NEW x \in Queries, Limits, NEW r, Result(c, r, x), NEW o
    PROVE  Result(c, Radius!NextTried(r, x, o), x)
  <1> DEFINE stop == r.err = "ok" \/ r.c.q[x].idx + 1 > r.c.srv_count \/ r.c.wild # "none"
  <1>1. CASE stop
    BY <1>1 DEF Radius!NextTried
  <1>2. CASE ~stop
    <2> DEFINE d == r.c
               q == [d.q[x] EXCEPT !.idx = d.q[x].idx + 1]
               e == Put(d, x, q)
               w == Radius!radius_client_send_new(e, x, o)
    <2>1. Radius!NextTried(r, x, o) = w
      BY <1>2 DEF Radius!NextTried, Put
    <2>2. Sound(d, x) /\ Apart(c, d, x)
      BY DEF Result
    <2>3. Shape(d) /\ IsQuery(d.q[x])
      BY <2>2 DEF Sound, Base, Shape
    <2> HIDE DEF d
    <2>4. IsQuery(q) /\ SamePlace(d.q[x], q)
      BY <2>3 DEF IsQuery, QueryFields, SamePlace
    <2> HIDE DEF q
    <2>5. Touched(d, e, x)
      BY <2>3, <2>4, PutTouches
    <2> HIDE DEF e
    <2>6. Sound(e, x) /\ Apart(d, e, x)
      BY <2>2, <2>5, TouchKeeps DEF Touched
    <2>7. Result(e, w, x)
      BY <2>6, SendNewIs
    <2> HIDE DEF w
    <2>8. Apart(c, w.c, x)
      <3>1. Apart(c, e, x)
        BY <2>2, <2>6, ApartApart
      <3>2. Apart(e, w.c, x)
        BY <2>7 DEF Result
      <3> QED  BY <3>1, <3>2, ApartApart
    <2>9. Result(c, w, x)
      BY <2>7, <2>8 DEF Result
    <2> QED  BY <2>1, <2>9
  <1> QED  BY <1>1, <1>2

\* The loop over the servers has a result for every number of tries.
Tries(after, r, x, o, len) ==
    /\ after = [m \in 0 .. len |-> IF m = 0 THEN r ELSE Radius!NextTried(after[m - 1], x, o)]
    /\ Radius!TryNext(r, x, o) = after[len]

\* The loop over the servers computes what its equation says.
LEMMA TriesExist ==
    ASSUME NEW r, NEW x, NEW o, NEW len \in Nat, len = r.c.srv_count
    PROVE  \E after : Tries(after, r, x, o, len)
  <1> DEFINE Step(u, k) == IF k = 0 THEN r ELSE Radius!NextTried(u[k - 1], x, o)
             T == {m \in Nat : \E u : u = [k \in 0 .. m |-> Step(u, k)]}
  <1>1. 0 \in T
    <2> DEFINE u == [k \in 0 .. 0 |-> r]
    <2>1. u = [k \in 0 .. 0 |-> Step(u, k)]
      OBVIOUS
    <2> QED  BY <2>1
  <1>2. ASSUME NEW m \in 1 .. len, m - 1 \in T PROVE m \in T
    <2>1. PICK v : v = [k \in 0 .. m - 1 |-> Step(v, k)]
      BY <1>2
    <2> DEFINE u == [k \in 0 .. m |-> IF k = m THEN Step(v, m) ELSE v[k]]
    <2>2. \A k \in 0 .. m - 1 : u[k] = v[k]
      BY <1>2
    <2>3. \A k \in 0 .. m : u[k] = Step(u, k)
      <3> SUFFICES ASSUME NEW k \in 0 .. m PROVE u[k] = Step(u, k)
        OBVIOUS
      <3>1. CASE k = m
        BY <1>2, <2>2, <3>1
      <3>2. CASE k # m
        <4>1. k \in 0 .. m - 1
          BY <1>2, <3>2
        <4>2. v[k] = Step(v, k)
          BY <2>1, <4>1
        <4> QED  BY <1>2, <2>2, <4>1, <4>2
      <3> QED  BY <3>1, <3>2
    <2>4. u = [k \in 0 .. m |-> Step(u, k)]
      BY <2>3
    <2>5. \E w : w = [k \in 0 .. m |-> Step(w, k)]
      <3> HIDE DEF Step, u
      <3> QED  BY <2>4, Zenon
    <2>6. m \in Nat
      BY <1>2
    <2> QED  BY <2>5, <2>6
  <1>3. len \in T
    <2>1. \A b \in 1 .. len : b - 1 \in T => b \in T
      <3> HIDE DEF T
      <3> QED  BY <1>2
    <2>2. len \in 0 .. len
      OBVIOUS
    <2> HIDE DEF T
    <2> QED  BY <1>1, <2>1, <2>2, Counting, Zenon
  <1>4. \E u : u = [k \in 0 .. len |-> Step(u, k)]
    BY <1>3
  <1> DEFINE after == CHOOSE u : u = [k \in 0 .. len |-> Step(u, k)]
  <1>5. after = [k \in 0 .. len |-> Step(after, k)]
    BY <1>4
  <1>6. Radius!TryNext(r, x, o) = after[len]
    BY DEF Radius!TryNext
  <1>7. Tries(after, r, x, o, len)
    BY <1>5, <1>6 DEF Tries
  <1> QED  BY <1>7

\* All servers are tried.
LEMMA TryNextIs ==
    ASSUME NEW c, NEW x \in Queries, Limits, NEW r, Result(c, r, x), NEW o
    PROVE  Result(c, Radius!TryNext(r, x, o), x)
  <1> DEFINE len == r.c.srv_count
  <1>1. len \in Nat
    BY DEF Result, Sound, Base, Shape
  <1>1a. len = r.c.srv_count
    OBVIOUS
  <1> HIDE DEF len
  <1>2a. PICK after : Tries(after, r, x, o, len)
    BY <1>1, <1>1a, TriesExist
  <1>2. /\ after = [m \in 0 .. len |-> IF m = 0 THEN r ELSE Radius!NextTried(after[m - 1], x, o)]
        /\ Radius!TryNext(r, x, o) = after[len]
    BY <1>2a DEF Tries
  <1> DEFINE T == {m \in 0 .. len : Result(c, after[m], x)}
  <1>3. 0 \in T
    BY <1>1, <1>2
  <1>4. ASSUME NEW b \in 1 .. len, b - 1 \in T PROVE b \in T
    <2>1. after[b] = Radius!NextTried(after[b - 1], x, o)
      BY <1>1, <1>2
    <2>2. Result(c, after[b - 1], x) /\ b \in 0 .. len
      BY <1>1, <1>4
    <2>3. Result(c, after[b], x)
      BY <2>1, <2>2, NextTriedIs
    <2> QED  BY <2>2, <2>3
  <1>5. len \in T
    <2>1. \A b \in 1 .. len : b - 1 \in T => b \in T
      <3> HIDE DEF T
      <3> QED  BY <1>4
    <2>2. len \in 0 .. len
      BY <1>1
    <2> HIDE DEF T
    <2> QED  BY <1>1, <1>3, <2>1, <2>2, Counting, Zenon
  <1> QED  BY <1>2, <1>5

\* What a handler makes of the outcome: everybody rests, or memory is lost.
LEMMA SettledIs ==
    ASSUME NEW c, NEW x \in Queries, Limits, NEW r, Result(c, r, x), c.wild = "none"
    PROVE  LET d == Radius!Settled(r, x)
           IN  /\ Base(d) /\ (d.wild = "none" => AtRest(d)) /\ d.wild \in {"none", "create"}
               /\ \A y \in Queries : y # x => d.q[y] = c.q[y]
  <1> DEFINE d == Radius!Settled(r, x)
  <1>1. Sound(r.c, x) /\ Apart(c, r.c, x) /\ (r.err = "ok" => Placed(r.c, x) /\ Armed(r.c, x))
    BY DEF Result
  <1>2. Base(r.c) /\ \A y \in Queries : y # x => Placed(r.c, y) /\ Armed(r.c, y)
    BY <1>1 DEF Sound
  <1>3. r.c.wild \in {"none", "create"} /\ \A y \in Queries : y # x => r.c.q[y] = c.q[y]
    BY <1>1 DEF Apart
  <1>4. CASE r.err = "ok" \/ r.c.wild # "none"
    <2>1. d = r.c
      BY <1>4 DEF Radius!Settled
    <2>2. r.c.wild = "none" => AtRest(r.c)
      BY <1>1, <1>2, <1>4 DEF AtRest
    <2> HIDE DEF d
    <2> QED  BY <1>2, <1>3, <2>1, <2>2 DEF d
  <1>5. CASE ~(r.err = "ok" \/ r.c.wild # "none")
    <2> DEFINE e == Radius!radius_client_query_done(r.c, x, r.err)
    <2>1. d = e
      BY <1>5 DEF Radius!Settled
    <2>2. /\ AtRest(e) /\ SameServers(r.c, e)
          /\ \A y \in Queries : y # x => e.q[y] = r.c.q[y]
      BY <1>1, <1>5, DoneRests
    <2> HIDE DEF d, e
    <2>3. Base(e) /\ e.wild = r.c.wild
      BY <2>2 DEF AtRest, SameServers
    <2> QED  BY <1>3, <2>1, <2>2, <2>3 DEF d
  <1> QED  BY <1>4, <1>5

\* What stays true while the client is taken down: no query is reported twice
\* and no slot of a living socket holds a query that is gone.
Sane(c) == Shape(c) /\ Slots(c) /\ Named(c) /\ Reports(c)
Fresh(c, f) ==
    LET list == c.skts[f].skt
    IN  /\ list \in Seq(Sockets)
        /\ \A a \in 1 .. Len(list) : c.sock[list[a]].st = "live" /\ c.sock[list[a]].fam = f
        /\ \A a, b \in 1 .. Len(list) : list[a] = list[b] => a = b

\* After m turns of the loop the places behind m are as they were.
Midway(c, d, f, m) ==
    /\ Sane(d) /\ d.wild = c.wild
    /\ Len(d.skts[f].skt) <= Len(c.skts[f].skt)
    /\ \A a \in m + 1 .. Len(d.skts[f].skt) : d.skts[f].skt[a] = c.skts[f].skt[a]
    /\ \A a \in m + 1 .. Len(c.skts[f].skt) :
          d.sock[c.skts[f].skt[a]].st = "live" /\ d.sock[c.skts[f].skt[a]].fam = f
    /\ \A g \in Radius!Families : g # f => d.skts[g] = c.skts[g]
    /\ \A t \in Sockets : c.sock[t].fam # f => d.sock[t] = c.sock[t]

\* One turn of the loop that frees the sockets.
LEMMA FreeTurn ==
    ASSUME NEW c, NEW f \in Radius!Families, Fresh(c, f), NEW m \in 1 .. Len(c.skts[f].skt),
           NEW d, Midway(c, d, f, m - 1)
    PROVE  Midway(c, Radius!NextFreed(d, f, m), f, m)
  <1> DEFINE whole == c.skts[f].skt
             list == d.skts[f].skt
             e == Radius!NextFreed(d, f, m)
  <1>0. /\ Sane(d) /\ Shape(d) /\ d.wild = c.wild /\ Len(list) <= Len(whole)
        /\ \A a \in m - 1 + 1 .. Len(list) : list[a] = whole[a]
        /\ \A a \in m - 1 + 1 .. Len(whole) : d.sock[whole[a]].st = "live" /\ d.sock[whole[a]].fam = f
        /\ \A g \in Radius!Families : g # f => d.skts[g] = c.skts[g]
        /\ \A t \in Sockets : c.sock[t].fam # f => d.sock[t] = c.sock[t]
    BY DEF Midway, Sane
  <1>1. /\ whole \in Seq(Sockets)
        /\ \A a \in 1 .. Len(whole) : c.sock[whole[a]].st = "live" /\ c.sock[whole[a]].fam = f
        /\ \A a, b \in 1 .. Len(whole) : whole[a] = whole[b] => a = b
    BY DEF Fresh
  <1>2. list \in Seq(Sockets \cup {NoSkt})
    BY <1>0 DEF Shape, IsList
  <1>3. m \in 1 .. Len(whole) /\ m \in Nat /\ Len(whole) \in Nat /\ Len(list) \in Nat
    <2>1. Len(whole) \in Nat /\ m \in 1 .. Len(whole)
      BY <1>1
    <2>2. Len(list) \in Nat
      BY <1>2
    <2>3. m \in Nat
      BY <2>1
    <2> QED  BY <2>1, <2>2, <2>3
  <1>4. CASE m > Len(list)
    <2>1. e = d
      BY <1>4 DEF Radius!NextFreed
    <2> HIDE DEF e, whole, list
    <2>2. /\ \A a \in m + 1 .. Len(list) : list[a] = whole[a]
          /\ \A a \in m + 1 .. Len(whole) : d.sock[whole[a]].st = "live" /\ d.sock[whole[a]].fam = f
      BY <1>0, <1>3
    <2>3. Midway(c, d, f, m)
      BY <1>0, <2>2 DEF Midway, whole, list
    <2> QED  BY <2>1, <2>3 DEF e
  <1>5. CASE ~(m > Len(list))
    <2> DEFINE s == list[m]
    <2>1. e = Radius!radius_client_socket_free(d, s)
      BY <1>5 DEF Radius!NextFreed
    <2> HIDE DEF e, whole, list
    <2>2. m \in 1 .. Len(list)
      BY <1>3, <1>5
    <2>3. s = whole[m] /\ s \in Sockets /\ d.sock[s].st = "live" /\ d.sock[s].fam = f /\ c.sock[s].fam = f
      <3>1. m \in m - 1 + 1 .. Len(list) /\ m \in m - 1 + 1 .. Len(whole)
        BY <1>3, <2>2
      <3>2. s = whole[m]
        BY <1>0, <3>1
      <3> QED  BY <1>0, <1>1, <1>3, <3>1, <3>2
    <2>4. \E a \in DOMAIN list : list[a] = s
      BY <1>2, <2>2
    <2> HIDE DEF s
    <2>5. SocketOff(d, e, s) /\ Shape(e)
      BY <1>0, <2>1, <2>3, SocketFreeIs
    <2>6. Slots(e) /\ Named(e) /\ Reports(e)
      BY <1>0, <2>3, <2>5, SocketFreeLinks DEF Sane
    <2>7. Sane(e) /\ e.wild = c.wild
      BY <1>0, <2>5, <2>6 DEF Sane, SocketOff
    <2>8. /\ e.skts[f].skt = Radius!OffList(list, s)
          /\ \A g \in Radius!Families : g # f => e.skts[g] = d.skts[g]
      BY <2>3, <2>4, <2>5 DEF SocketOff, list
    <2> DEFINE off == e.skts[f].skt
    <2>9. /\ Len(off) = Len(list) - 1
          /\ \E at \in 1 .. Len(list) : /\ list[at] = s
                /\ \A a \in 1 .. Len(list) - 1 : off[a] = IF a = at THEN NoSkt ELSE list[a]
      BY <1>2, <2>4, <2>8, OffListIs
    <2> HIDE DEF off
    <2>10. PICK at \in 1 .. Len(list) :
              list[at] = s /\ \A a \in 1 .. Len(list) - 1 : off[a] = IF a = at THEN NoSkt ELSE list[a]
      BY <2>9
    <2>11. ASSUME NEW a \in m + 1 .. Len(off) PROVE off[a] = whole[a]
      <3>1. a \in 1 .. Len(list) - 1 /\ a \in m - 1 + 1 .. Len(list) /\ a \in 1 .. Len(whole) /\ a # m
        BY <1>0, <1>3, <2>9, <2>11
      <3>2. list[a] = whole[a]
        BY <1>0, <3>1
      <3>3. whole[a] # whole[m]
        BY <1>1, <1>3, <3>1
      <3>4. a # at
        BY <2>3, <2>10, <3>2, <3>3
      <3> QED  BY <2>10, <3>1, <3>2, <3>4
    <2>12. Len(off) <= Len(whole)
      BY <1>0, <1>3, <2>9
    <2>13. \A t \in Sockets : t # s => e.sock[t] = d.sock[t]
      BY <1>0, <2>5 DEF SocketOff, Shape
    <2>14. ASSUME NEW a \in m + 1 .. Len(whole)
           PROVE  e.sock[whole[a]].st = "live" /\ e.sock[whole[a]].fam = f
      <3>1. a \in m - 1 + 1 .. Len(whole) /\ a \in 1 .. Len(whole) /\ a # m
        BY <1>3, <2>14
      <3>2. whole[a] \in Sockets /\ whole[a] # s
        BY <1>1, <1>3, <2>3, <3>1
      <3>3. e.sock[whole[a]] = d.sock[whole[a]]
        BY <2>13, <3>2
      <3> QED  BY <1>0, <3>1, <3>3
    <2>15. \A t \in Sockets : c.sock[t].fam # f => e.sock[t] = c.sock[t]
      BY <1>0, <2>3, <2>13
    <2>16. \A g \in Radius!Families : g # f => e.skts[g] = c.skts[g]
      BY <1>0, <2>8
    <2>17. Midway(c, e, f, m)
      BY <2>7, <2>11, <2>12, <2>14, <2>15, <2>16 DEF Midway, off, whole
    <2> QED  BY <2>17 DEF e
  <1> QED  BY <1>4, <1>5

Frees(after, c, f, len) ==
    /\ after = [m \in 0 .. len |-> IF m = 0 THEN c ELSE Radius!NextFreed(after[m - 1], f, m)]
    /\ Radius!SocketsFreed(c, f) = after[len]

\* The loop that frees the sockets computes what its equation says.
LEMMA FreesExist ==
    ASSUME NEW c, NEW f, NEW len \in Nat, len = Len(c.skts[f].skt)
    PROVE  \E after : Frees(after, c, f, len)
  <1> DEFINE Step(u, k) == IF k = 0 THEN c ELSE Radius!NextFreed(u[k - 1], f, k)
             T == {m \in Nat : \E u : u = [k \in 0 .. m |-> Step(u, k)]}
  <1>1. 0 \in T
    <2> DEFINE u == [k \in 0 .. 0 |-> c]
    <2>1. u = [k \in 0 .. 0 |-> Step(u, k)]
      OBVIOUS
    <2> QED  BY <2>1
  <1>2. ASSUME NEW m \in 1 .. len, m - 1 \in T PROVE m \in T
    <2>1. PICK v : v = [k \in 0 .. m - 1 |-> Step(v, k)]
      BY <1>2
    <2> DEFINE u == [k \in 0 .. m |-> IF k = m THEN Step(v, m) ELSE v[k]]
    <2>2. \A k \in 0 .. m - 1 : u[k] = v[k]
      BY <1>2
    <2>3. \A k \in 0 .. m : u[k] = Step(u, k)
      <3> SUFFICES ASSUME NEW k \in 0 .. m PROVE u[k] = Step(u, k)
        OBVIOUS
      <3>1. CASE k = m
        BY <1>2, <2>2, <3>1
      <3>2. CASE k # m
        <4>1. k \in 0 .. m - 1
          BY <1>2, <3>2
        <4>2. v[k] = Step(v, k)
          BY <2>1, <4>1
        <4> QED  BY <1>2, <2>2, <4>1, <4>2
      <3> QED  BY <3>1, <3>2
    <2>4. u = [k \in 0 .. m |-> Step(u, k)]
      BY <2>3
    <2>5. \E w : w = [k \in 0 .. m |-> Step(w, k)]
      <3> HIDE DEF Step, u
      <3> QED  BY <2>4, Zenon
    <2>6. m \in Nat
      BY <1>2
    <2> QED  BY <2>5, <2>6
  <1>3. len \in T
    <2>1. \A b \in 1 .. len : b - 1 \in T => b \in T
      <3> HIDE DEF T
      <3> QED  BY <1>2
    <2>2. len \in 0 .. len
      OBVIOUS
    <2> HIDE DEF T
    <2> QED  BY <1>1, <2>1, <2>2, Counting, Zenon
  <1>4. \E u : u = [k \in 0 .. len |-> Step(u, k)]
    BY <1>3
  <1> DEFINE after == CHOOSE u : u = [k \in 0 .. len |-> Step(u, k)]
  <1>5. after = [k \in 0 .. len |-> Step(after, k)]
    BY <1>4
  <1>6. Radius!SocketsFreed(c, f) = after[len]
    BY DEF Radius!SocketsFreed
  <1>7. Frees(after, c, f, len)
    BY <1>5, <1>6 DEF Frees
  <1> QED  BY <1>7

\* Freeing the sockets of one family leaves those of the other alone.
LEMMA FreedSane ==
    ASSUME NEW c, NEW f \in Radius!Families, Sane(c), Fresh(c, f)
    PROVE  LET e == Radius!SocketsFreed(c, f)
           IN  /\ Sane(e) /\ e.wild = c.wild
               /\ \A g \in Radius!Families : g # f /\ Fresh(c, g) => Fresh(e, g)
  <1> DEFINE len == Len(c.skts[f].skt)
             e == Radius!SocketsFreed(c, f)
  <1>1. len \in Nat
    BY DEF Fresh
  <1>1a. len = Len(c.skts[f].skt)
    OBVIOUS
  <1>0. \A a \in 1 .. len : c.sock[c.skts[f].skt[a]].st = "live" /\ c.sock[c.skts[f].skt[a]].fam = f
    BY DEF Fresh
  <1> HIDE DEF len
  <1>2a. PICK after : Frees(after, c, f, len)
    BY <1>1, <1>1a, FreesExist
  <1>2. /\ after = [m \in 0 .. len |-> IF m = 0 THEN c ELSE Radius!NextFreed(after[m - 1], f, m)]
        /\ e = after[len]
    BY <1>2a DEF Frees
  <1> HIDE DEF e
  <1> DEFINE T == {m \in 0 .. len : Midway(c, after[m], f, m)}
  <1>3. 0 \in T
    <2>1. after[0] = c /\ 0 \in 0 .. len
      BY <1>1, <1>2
    <2>2. \A a \in 0 + 1 .. len : a \in 1 .. len
      OBVIOUS
    <2>3. Midway(c, c, f, 0)
      BY <1>0, <1>1, <1>1a, <2>2 DEF Midway
    <2> QED  BY <2>1, <2>3
  <1>4. ASSUME NEW b \in 1 .. len, b - 1 \in T PROVE b \in T
    <2>1. after[b] = Radius!NextFreed(after[b - 1], f, b)
      BY <1>1, <1>2
    <2>2. Midway(c, after[b - 1], f, b - 1) /\ b \in 0 .. len /\ b \in 1 .. Len(c.skts[f].skt)
      BY <1>1, <1>1a, <1>4
    <2>3. Midway(c, after[b], f, b)
      BY <2>1, <2>2, FreeTurn
    <2> QED  BY <2>2, <2>3
  <1>5. len \in T
    <2>1. \A b \in 1 .. len : b - 1 \in T => b \in T
      <3> HIDE DEF T
      <3> QED  BY <1>4
    <2>2. len \in 0 .. len
      BY <1>1
    <2> HIDE DEF T
    <2> QED  BY <1>1, <1>3, <2>1, <2>2, Counting, Zenon
  <1>6. Midway(c, e, f, len)
    BY <1>2, <1>5
  <1>7. /\ Sane(e) /\ e.wild = c.wild
        /\ \A g \in Radius!Families : g # f => e.skts[g] = c.skts[g]
        /\ \A t \in Sockets : c.sock[t].fam # f => e.sock[t] = c.sock[t]
    BY <1>6 DEF Midway
  <1>8. ASSUME NEW g \in Radius!Families, g # f, Fresh(c, g) PROVE Fresh(e, g)
    <2> DEFINE list == c.skts[g].skt
    <2>1. /\ list \in Seq(Sockets)
          /\ \A a \in 1 .. Len(list) : c.sock[list[a]].st = "live" /\ c.sock[list[a]].fam = g
          /\ \A a, b \in 1 .. Len(list) : list[a] = list[b] => a = b
      BY <1>8 DEF Fresh
    <2>2. e.skts[g].skt = list
      BY <1>7, <1>8
    <2> HIDE DEF list
    <2>3. \A a \in 1 .. Len(list) : e.sock[list[a]] = c.sock[list[a]]
      BY <1>7, <1>8, <2>1
    <2> QED  BY <2>1, <2>2, <2>3 DEF Fresh
  <1> QED  BY <1>7, <1>8 DEF e

\* What the next state of the client is, it is at rest if that is.
LEMMA RestCarries ==
    ASSUME NEW d, AtRest(d), client' = d, limits' = limits
    PROVE  AtRest(client)'
  BY DEF AtRest, Base, Lists, NoSurplus

\* A query the thread has not met yet has no slot, no packets and no report.
LEMMA PutIdle ==
    ASSUME NEW c, AtRest(c), NEW x \in Queries, c.q[x].st \in {"idle", "queued"},
           NEW q, IsQuery(q), q.skt = NoSkt
    PROVE  LET d == Put(c, x, q)
           IN  /\ Base(d) /\ d.q[x] = q /\ d.srv = c.srv /\ d.srv_count = c.srv_count /\ d.wild = c.wild
               /\ \A p \in d.sent : p.q # x
               /\ \A y \in Queries : y # x => d.q[y] = c.q[y] /\ Placed(d, y) /\ Armed(d, y)
  <1> DEFINE d == Put(c, x, q)
  <1>0. /\ Base(c) /\ Shape(c) /\ Named(c) /\ Quiet(c) /\ Reports(c) /\ Sent(c)
        /\ \A y \in Queries : Placed(c, y) /\ Armed(c, y)
    BY DEF AtRest, Base
  <1>1. DOMAIN c = RadiusFields /\ x \in DOMAIN c.q /\ DOMAIN c.q = Queries
    BY <1>0 DEF Shape
  <1>2. /\ DOMAIN d = RadiusFields /\ d.srv = c.srv /\ d.srv_count = c.srv_count /\ d.wild = c.wild
        /\ d.sock = c.sock /\ d.skts = c.skts /\ d.rep = c.rep /\ d.sent = c.sent
        /\ d.q = [c.q EXCEPT ![x] = q]
    BY <1>1 DEF Put, RadiusFields
  <1> HIDE DEF d
  <1>3. DOMAIN d.q = Queries /\ d.q[x] = q /\ \A y \in Queries : y # x => d.q[y] = c.q[y]
    BY <1>1, <1>2
  <1>4. Shape(d)
    <2>1. \A y \in Queries : IsQuery(d.q[y])
      BY <1>0, <1>3 DEF Shape
    <2> QED  BY <1>0, <1>2, <1>3, <2>1 DEF Shape
  <1>5. c.q[x].skt = NoSkt /\ c.rep[x] = <<>> /\ \A p \in c.sent : p.q # x
    BY <1>0 DEF Named, Reports, Sent
  <1>6. SameSlots(c, d) /\ Quiet(d)
    BY <1>0, <1>2, <1>3, <1>5 DEF SameSlots, Quiet
  <1>7. Reports(d)
    <2> SUFFICES ASSUME NEW y \in Queries
                 PROVE  /\ Len(d.rep[y]) <= 1
                        /\ d.rep[y] # <<>> => d.q[y].st = "freed" /\ d.q[y].cb
                        /\ d.rep[y] = <<"ok">> => d.q[y].tried # {}
      BY DEF Reports
    <2>1. CASE y = x
      <3>1. d.rep[y] = <<>>
        BY <1>2, <1>5, <2>1
      <3> QED  BY <3>1
    <2>2. CASE y # x
      <3>1. d.q[y] = c.q[y] /\ d.rep[y] = c.rep[y]
        BY <1>2, <1>3, <2>2
      <3> QED  BY <1>0, <3>1 DEF Reports
    <2> QED  BY <2>1, <2>2
  <1>8. Sent(d)
    <2>1. \A p \in c.sent : p.q \in Queries
      BY <1>0 DEF Sent
    <2>2. \A p \in c.sent : d.q[p.q] = c.q[p.q]
      BY <1>3, <1>5, <2>1
    <2> QED  BY <1>0, <1>2, <2>2 DEF Sent
  <1>9. Base(d)
    BY <1>0, <1>4, <1>6, <1>7, <1>8, FrameKeeps
  <1>10. \A y \in Queries : y # x => Placed(d, y) /\ Armed(d, y)
    BY <1>0, <1>2, <1>3, RestKeeps
  <1> QED  BY <1>2, <1>3, <1>5, <1>9, <1>10 DEF d

\* The caller takes the callback back.
LEMMA PutCancelled ==
    ASSUME NEW c, NEW x \in Queries, c.q[x].st # "freed", NEW q, Shape(c), Reports(c),
           q = [c.q[x] EXCEPT !.cb = FALSE]
    PROVE  LET d == Put(c, x, q)
           IN  /\ Shape(d) /\ Reports(d) /\ (AtRest(c) => AtRest(d)) /\ d.wild = c.wild
               /\ \A y \in Queries : d.q[y].st = c.q[y].st /\ d.q[y].id = c.q[y].id
  <1> DEFINE d == Put(c, x, q)
  <1>1. DOMAIN c = RadiusFields /\ x \in DOMAIN c.q /\ DOMAIN c.q = Queries /\ IsQuery(c.q[x])
    BY DEF Shape
  <1>2. /\ DOMAIN d = RadiusFields /\ d.srv = c.srv /\ d.srv_count = c.srv_count /\ d.wild = c.wild
        /\ d.sock = c.sock /\ d.skts = c.skts /\ d.rep = c.rep /\ d.sent = c.sent
        /\ d.q = [c.q EXCEPT ![x] = q]
    BY <1>1 DEF Put, RadiusFields
  <1>3a. IsQuery(q) /\ q.st = c.q[x].st /\ q.skt = c.q[x].skt /\ q.id = c.q[x].id /\ q.signed = c.q[x].signed
         /\ q.time = c.q[x].time /\ q.idx = c.q[x].idx /\ q.count = c.q[x].count /\ q.tried = c.q[x].tried
    BY <1>1 DEF IsQuery, QueryFields
  <1> HIDE DEF d
  <1>3. DOMAIN d.q = Queries /\ d.q[x] = q /\ \A y \in Queries : y # x => d.q[y] = c.q[y]
    BY <1>1, <1>2
  <1>4. Shape(d)
    <2>1. \A y \in Queries : IsQuery(d.q[y])
      BY <1>3, <1>3a DEF Shape
    <2> QED  BY <1>2, <1>3, <2>1 DEF Shape
  <1>5. c.rep[x] = <<>>
    BY DEF Reports
  <1>6. \A y \in Queries : /\ d.q[y].st = c.q[y].st /\ d.q[y].skt = c.q[y].skt /\ d.q[y].id = c.q[y].id
                           /\ d.q[y].signed = c.q[y].signed /\ d.q[y].time = c.q[y].time
                           /\ d.q[y].idx = c.q[y].idx /\ d.q[y].count = c.q[y].count
                           /\ d.q[y].tried = c.q[y].tried
    BY <1>3, <1>3a
  <1>7. Reports(d)
    <2> SUFFICES ASSUME NEW y \in Queries
                 PROVE  /\ Len(d.rep[y]) <= 1
                        /\ d.rep[y] # <<>> => d.q[y].st = "freed" /\ d.q[y].cb
                        /\ d.rep[y] = <<"ok">> => d.q[y].tried # {}
      BY DEF Reports
    <2>1. CASE y = x
      <3>1. d.rep[y] = <<>>
        BY <1>2, <1>5, <2>1
      <3> QED  BY <3>1
    <2>2. CASE y # x
      <3>1. d.q[y] = c.q[y] /\ d.rep[y] = c.rep[y]
        BY <1>2, <1>3, <2>2
      <3> QED  BY <3>1 DEF Reports
    <2> QED  BY <2>1, <2>2
  <1>8. ASSUME AtRest(c) PROVE AtRest(d)
    <2>0. Base(c) /\ Quiet(c) /\ Sent(c) /\ \A y \in Queries : Placed(c, y) /\ Armed(c, y)
      BY <1>8 DEF AtRest, Base
    <2>1. SameSlots(c, d) /\ Quiet(d)
      BY <1>2, <1>6, <2>0 DEF SameSlots, Quiet
    <2>2. Sent(d)
      BY <1>2, <1>6, <2>0 DEF Sent
    <2>3. Base(d)
      BY <1>4, <1>7, <2>0, <2>1, <2>2, FrameKeeps
    <2>4. \A y \in Queries : Placed(d, y)
      BY <1>2, <1>6, <2>0 DEF Placed
    <2>5. ASSUME NEW y \in Queries PROVE Armed(d, y)
      <3>1. Armed(c, y) /\ d.srv = c.srv /\ d.sock = c.sock
        BY <1>2, <2>0
      <3>2. /\ d.q[y].st = c.q[y].st /\ d.q[y].skt = c.q[y].skt /\ d.q[y].id = c.q[y].id
            /\ d.q[y].signed = c.q[y].signed /\ d.q[y].time = c.q[y].time
            /\ d.q[y].idx = c.q[y].idx /\ d.q[y].count = c.q[y].count /\ d.q[y].tried = c.q[y].tried
        BY <1>6
      <3> QED  BY <3>1, <3>2 DEF Armed
    <2> QED  BY <2>3, <2>4, <2>5 DEF AtRest
  <1> QED  BY <1>2, <1>4, <1>6, <1>7, <1>8 DEF d

\* Other servers: those in use are there, allow no fewer tries and have the same address or none.
NewServers(c, d) ==
    /\ DOMAIN d = RadiusFields
    /\ d.sock = c.sock /\ d.skts = c.skts /\ d.rep = c.rep /\ d.sent = c.sent /\ d.q = c.q
    /\ d.srv \in Seq(ServerSet) /\ d.srv_count \in 0 .. Len(d.srv) /\ Len(c.srv) <= Len(d.srv)
    /\ \A b \in 1 .. Len(c.srv) : /\ d.srv[b].tries = 0 \/ d.srv[b].tries = c.srv[b].tries
                                  /\ d.srv[b].addr = "none" \/ d.srv[b].addr = c.srv[b].addr

\* Adding and removing servers disturbs no query.
LEMMA ServersKeep ==
    ASSUME NEW c, AtRest(c), NEW d, NewServers(c, d)
    PROVE  AtRest(d)
  <1>0. /\ Base(c) /\ Shape(c) /\ Quiet(c) /\ Reports(c) /\ Sent(c)
        /\ \A y \in Queries : Placed(c, y) /\ Armed(c, y)
    BY DEF AtRest, Base
  <1>1. /\ DOMAIN d = RadiusFields
        /\ d.sock = c.sock /\ d.skts = c.skts /\ d.rep = c.rep /\ d.sent = c.sent /\ d.q = c.q
        /\ d.srv \in Seq(ServerSet) /\ d.srv_count \in 0 .. Len(d.srv) /\ Len(c.srv) <= Len(d.srv)
    BY DEF NewServers
  <1>2. Shape(d)
    BY <1>0, <1>1 DEF Shape
  <1>3. SameSlots(c, d) /\ Quiet(d) /\ Reports(d) /\ Sent(d)
    BY <1>0, <1>1 DEF SameSlots, Quiet, Reports, Sent
  <1>4. Base(d)
    BY <1>0, <1>2, <1>3, FrameKeeps
  <1>5. \A y \in Queries : Placed(d, y)
    BY <1>0, <1>1 DEF Placed
  <1>6. ASSUME NEW y \in Queries PROVE Armed(d, y)
    <2> SUFFICES ASSUME c.q[y].st = "active"
                 PROVE  LET q == c.q[y]
                        IN  /\ q.skt # NoSkt /\ q.signed
                            /\ c.sock[q.skt].ktmr[q.id] = IF q.time = 0 THEN "off" ELSE "set"
                            /\ q.idx \in 1 .. Len(d.srv)
                            /\ d.srv[q.idx].tries # 0 => q.count < d.srv[q.idx].tries
                            /\ d.srv[q.idx].addr \in q.tried \cup {"none"}
      BY <1>1 DEF Armed
    <2>1. /\ c.q[y].skt # NoSkt /\ c.q[y].signed
          /\ c.sock[c.q[y].skt].ktmr[c.q[y].id] = IF c.q[y].time = 0 THEN "off" ELSE "set"
          /\ c.q[y].idx \in 1 .. Len(c.srv)
          /\ c.srv[c.q[y].idx].tries # 0 => c.q[y].count < c.srv[c.q[y].idx].tries
          /\ c.srv[c.q[y].idx].addr \in c.q[y].tried \cup {"none"}
      BY <1>0 DEF Armed
    <2>2. c.q[y].idx \in 1 .. Len(d.srv)
      <3>1. Len(c.srv) \in Nat /\ Len(d.srv) \in Nat
        BY <1>0, <1>1 DEF Shape
      <3> QED  BY <1>1, <2>1, <3>1
    <2>3. d.srv[c.q[y].idx].tries # 0 => c.q[y].count < d.srv[c.q[y].idx].tries
      BY <2>1 DEF NewServers
    <2>4. d.srv[c.q[y].idx].addr \in c.q[y].tried \cup {"none"}
      BY <2>1 DEF NewServers
    <2> QED  BY <2>1, <2>2, <2>3, <2>4
  <1> QED  BY <1>4, <1>5, <1>6 DEF AtRest

\* Memory is lost.
LEMMA WildShape ==
    ASSUME NEW c, Shape(c), Reports(c), NEW w
    PROVE  LET d == [c EXCEPT !.wild = w]
           IN  Shape(d) /\ Reports(d) /\ d.wild = w /\ d.rep = c.rep
  <1> DEFINE d == [c EXCEPT !.wild = w]
  <1>1. DOMAIN c = RadiusFields
    BY DEF Shape
  <1>2. /\ DOMAIN d = RadiusFields /\ d.srv = c.srv /\ d.srv_count = c.srv_count /\ d.wild = w
        /\ d.sock = c.sock /\ d.skts = c.skts /\ d.rep = c.rep /\ d.sent = c.sent /\ d.q = c.q
    BY <1>1 DEF RadiusFields
  <1> HIDE DEF d
  <1>3. Shape(d) /\ Reports(d)
    BY <1>2 DEF Shape, Reports
  <1> QED  BY <1>2, <1>3 DEF d

\* The queued queries stay where they are in the queue.
LEMMA MailKeeps ==
    ASSUME Mail(client), NEW d, client' = d, msgs' = msgs, life' = life,
           \A y \in Queries : client.q[y].st = "queued" => d.q[y].st = "queued" /\ d.q[y].id = client.q[y].id
    PROVE  Mail(client)'
  <1>1. \A a \in 1 .. Len(msgs) : msgs[a] # "destroy" => d.q[msgs[a]].st = "queued" /\ d.q[msgs[a]].id \in Ids
    <2> SUFFICES ASSUME NEW a \in 1 .. Len(msgs), msgs[a] # "destroy"
                 PROVE  d.q[msgs[a]].st = "queued" /\ d.q[msgs[a]].id \in Ids
      OBVIOUS
    <2>1. msgs[a] \in Queries /\ client.q[msgs[a]].st = "queued" /\ client.q[msgs[a]].id \in Ids
      BY DEF Mail
    <2> QED  BY <2>1
  <1> QED  BY <1>1 DEF Mail

\* radius_client_query(): a query is put into the queue, or given up.
LEMMA QueryKeeps ==
    ASSUME RadiusInv, NEW x \in Queries, NEW any, NEW id \in Ids, NEW ok \in BOOLEAN,
           Radius!radius_client_query(x, any, id, ok)
    PROVE  RadiusInv'
  <1>0. /\ life = "live" /\ client.wild = "none" /\ client.q[x].st = "idle" /\ limits' = limits /\ life' = life
        /\ AtRest(client) /\ Mail(client) /\ Limits
    BY DEF RadiusInv, Radius!radius_client_query
  <1>1. Shape(client) /\ IsQuery(client.q[x]) /\ client.q[x].skt = NoSkt
    <2>1. Shape(client) /\ Named(client)
      BY <1>0 DEF AtRest, Base
    <2> QED  BY <1>0, <2>1 DEF Shape, Named
  <1>2. ASSUME NEW q, IsQuery(q), q.skt = NoSkt, q.st \in {"queued", "freed"}, client' = Put(client, x, q)
        PROVE  /\ AtRest(client)' /\ Shape(client)' /\ Reports(client)' /\ client'.wild = "none"
               /\ client'.q[x] = q /\ \A y \in Queries : y # x => client'.q[y] = client.q[y]
    <2> DEFINE d == Put(client, x, q)
    <2>1. /\ Base(d) /\ d.q[x] = q /\ d.wild = client.wild /\ \A p \in d.sent : p.q # x
          /\ \A y \in Queries : y # x => d.q[y] = client.q[y] /\ Placed(d, y) /\ Armed(d, y)
      BY <1>0, <1>2, PutIdle
    <2> HIDE DEF d
    <2>2. AtRest(d)
      <3>1. Placed(d, x) /\ Armed(d, x)
        BY <1>2, <2>1 DEF Placed, Armed
      <3> QED  BY <2>1, <3>1 DEF AtRest
    <2>3. client' = d
      BY <1>2 DEF d
    <2>4. AtRest(client)'
      BY <1>0, <2>2, <2>3, RestCarries
    <2>5. Shape(d) /\ Reports(d)
      BY <2>1 DEF Base
    <2> QED  BY <1>0, <2>1, <2>3, <2>4, <2>5
  <1>3. CASE ok
    <2> DEFINE q == [client.q[x] EXCEPT !.st = "queued", !.any = any, !.id = id]
    <2>0. /\ client' = [client EXCEPT !.q[x].st = "queued", !.q[x].any = any, !.q[x].id = id]
          /\ msgs' = Append(msgs, x)
      BY <1>3 DEF Radius!radius_client_query
    <2>1. client' = Put(client, x, q) /\ msgs' = Append(msgs, x)
      BY <2>0 DEF Put
    <2>2. IsQuery(q) /\ q.skt = NoSkt /\ q.st = "queued" /\ q.id = id
      BY <1>1 DEF IsQuery, QueryFields
    <2> HIDE DEF q
    <2>3. /\ AtRest(client)' /\ Shape(client)' /\ Reports(client)' /\ client'.wild = "none"
          /\ client'.q[x] = q /\ \A y \in Queries : y # x => client'.q[y] = client.q[y]
      BY <1>2, <2>1, <2>2
    <2>4. Mail(client)'
      <3>1. /\ msgs \in Seq(Queries \cup {"destroy"})
            /\ \A a \in 1 .. Len(msgs) : msgs[a] \in Queries /\ client.q[msgs[a]].st = "queued"
                                         /\ client.q[msgs[a]].id \in Ids
            /\ \A a, b \in 1 .. Len(msgs) : msgs[a] = msgs[b] => a = b
        BY <1>0 DEF Mail
      <3>2. /\ msgs' \in Seq(Queries \cup {"destroy"}) /\ Len(msgs') = Len(msgs) + 1 /\ msgs'[Len(msgs')] = x
            /\ \A a \in 1 .. Len(msgs) : msgs'[a] = msgs[a] /\ msgs[a] # x
            /\ Len(msgs) \in Nat
        BY <1>0, <2>1, <3>1
      <3>3. \A a \in 1 .. Len(msgs') : msgs'[a] \in Queries
        BY <3>1, <3>2
      <3>4. \A a \in 1 .. Len(msgs') : client'.q[msgs'[a]].st = "queued" /\ client'.q[msgs'[a]].id \in Ids
        <4> SUFFICES ASSUME NEW a \in 1 .. Len(msgs')
                     PROVE  client'.q[msgs'[a]].st = "queued" /\ client'.q[msgs'[a]].id \in Ids
          OBVIOUS
        <4>1. CASE a = Len(msgs')
          BY <2>2, <2>3, <3>2, <4>1
        <4>2. CASE a # Len(msgs')
          <5>1. a \in 1 .. Len(msgs)
            BY <3>2, <4>2
          <5> QED  BY <2>3, <3>1, <3>2, <5>1
        <4> QED  BY <4>1, <4>2
      <3>5. \A a, b \in 1 .. Len(msgs') : msgs'[a] = msgs'[b] => a = b
        BY <3>1, <3>2
      <3> QED  BY <3>2, <3>3, <3>4, <3>5, RadiusAssumption DEF Mail
    <2> QED  BY <1>0, <2>3, <2>4 DEF RadiusInv, Limits
  <1>4. CASE ~ok
    <2> DEFINE q == [client.q[x] EXCEPT !.st = "freed"]
    <2>1. client' = Put(client, x, q) /\ msgs' = msgs
      BY <1>4 DEF Radius!radius_client_query, Put
    <2>2. IsQuery(q) /\ q.skt = NoSkt /\ q.st = "freed"
      BY <1>1 DEF IsQuery, QueryFields
    <2> HIDE DEF q
    <2>3. /\ AtRest(client)' /\ Shape(client)' /\ Reports(client)' /\ client'.wild = "none"
          /\ \A y \in Queries : y # x => client'.q[y] = client.q[y]
      BY <1>2, <2>1, <2>2
    <2>4. Mail(client)'
      BY <1>0, <2>1, <2>3, MailKeeps
    <2> QED  BY <1>0, <2>3, <2>4 DEF RadiusInv, Limits
  <1> QED  BY <1>3, <1>4

\* radius_client_query_cancel().
LEMMA CancelKeeps ==
    ASSUME RadiusInv, NEW x \in Queries, Radius!radius_client_query_cancel(x)
    PROVE  RadiusInv'
  <1> DEFINE q == [client.q[x] EXCEPT !.cb = FALSE]
             d == Put(client, x, q)
  <1>0. /\ client.wild = "none" /\ client.q[x].st # "freed" /\ limits' = limits /\ life' = life /\ msgs' = msgs
        /\ client' = d
    BY DEF Radius!radius_client_query_cancel, Put
  <1>1. Shape(client) /\ Reports(client)
    BY DEF RadiusInv
  <1>2. q = [client.q[x] EXCEPT !.cb = FALSE]
    OBVIOUS
  <1> HIDE DEF q
  <1>3. /\ Shape(d) /\ Reports(d) /\ (AtRest(client) => AtRest(d)) /\ d.wild = client.wild
        /\ \A y \in Queries : d.q[y].st = client.q[y].st /\ d.q[y].id = client.q[y].id
    BY <1>0, <1>1, <1>2, PutCancelled
  <1> HIDE DEF d
  <1>4. life # "destroyed" => AtRest(client)' /\ Mail(client)'
    <2> SUFFICES ASSUME life # "destroyed" PROVE AtRest(client)' /\ Mail(client)'
      OBVIOUS
    <2>1. AtRest(client) /\ Mail(client)
      BY <1>0 DEF RadiusInv
    <2>2. AtRest(client)'
      BY <1>0, <1>3, <2>1, RestCarries
    <2>3. Mail(client)'
      BY <1>0, <1>3, <2>1, MailKeeps
    <2> QED  BY <2>2, <2>3
  <1> QED  BY <1>0, <1>3, <1>4 DEF RadiusInv, Limits

\* radius_client_server_add().
LEMMA ServerAddKeeps ==
    ASSUME RadiusInv, Radius!radius_client_server_add
    PROVE  RadiusInv'
  <1> DEFINE c == client
             new == [Servers[Len(c.srv) + 1] EXCEPT !.enabled = TRUE]
             d == [c EXCEPT !.srv = Append(c.srv, new), !.srv_count = c.srv_count + 1]
  <1>0. /\ life = "live" /\ c.wild = "none" /\ Len(c.srv) < Len(Servers) /\ c.srv_count = Len(c.srv)
        /\ client' = d /\ msgs' = msgs /\ limits' = limits /\ life' = life
        /\ AtRest(c) /\ Mail(c) /\ Shape(c) /\ Limits
    BY DEF Radius!radius_client_server_add, RadiusInv
  <1>1. new \in ServerSet
    <2>1. c.srv \in Seq(ServerSet) /\ Len(c.srv) + 1 \in 1 .. Len(Servers)
      <3>1. Len(Servers) \in Nat
        BY RadiusAssumption
      <3>2. c.srv \in Seq(ServerSet) /\ Len(c.srv) \in Nat
        BY <1>0 DEF Shape
      <3> QED  BY <1>0, <3>1, <3>2
    <2> DEFINE k == Len(c.srv) + 1
               old == Servers[k]
    <2>k. k \in 1 .. Len(Servers)
      BY <2>1
    <2> HIDE DEF k
    <2> DEFINE Given == [enabled : BOOLEAN, addr : Addrs, family : Radius!Families, init : Nat, max : Nat,
                         duration : Nat, tries : Nat]
    <2>s. Servers \in Seq(Given)
      BY RadiusAssumption
    <2> HIDE DEF Given
    <2>2. old \in Given
      BY <2>k, <2>s
    <2> HIDE DEF old
    <2> QED  BY <2>2 DEF ServerSet, Given, old, k
  <1> HIDE DEF new, c
  <1>2. /\ DOMAIN d = RadiusFields
        /\ d.sock = c.sock /\ d.skts = c.skts /\ d.rep = c.rep /\ d.sent = c.sent /\ d.q = c.q
        /\ d.srv = Append(c.srv, new) /\ d.srv_count = c.srv_count + 1 /\ d.wild = c.wild
    <2>1. DOMAIN c = RadiusFields
      BY <1>0 DEF Shape
    <2> QED  BY <2>1 DEF RadiusFields
  <1> HIDE DEF d
  <1>3. NewServers(c, d)
    <2>1. c.srv \in Seq(ServerSet)
      BY <1>0 DEF Shape
    <2>2. d.srv \in Seq(ServerSet) /\ Len(d.srv) = Len(c.srv) + 1 /\ Len(c.srv) \in Nat
          /\ \A b \in 1 .. Len(c.srv) : d.srv[b] = c.srv[b]
      BY <1>1, <1>2, <2>1
    <2> QED  BY <1>0, <1>2, <2>2 DEF NewServers
  <1>4. AtRest(d)
    BY <1>0, <1>3, ServersKeep
  <1>5. AtRest(client)'
    BY <1>0, <1>4, RestCarries
  <1>6. Shape(d) /\ Reports(d)
    BY <1>4 DEF AtRest, Base
  <1>7. Mail(client)'
    BY <1>0, <1>2, MailKeeps DEF c
  <1> QED  BY <1>0, <1>2, <1>5, <1>6, <1>7 DEF RadiusInv, Limits

\* radius_client_server_remove_by_addr(): blanking an entry allows no fewer tries.
LEMMA ServerRemoveKeeps ==
    ASSUME RadiusInv, NEW addr, Radius!radius_client_server_remove_by_addr(addr)
    PROVE  RadiusInv'
  <1> DEFINE c == client
             others == {b \in 1 .. c.srv_count : c.srv[b].addr # addr}
             at == Radius!Min(others)
             len == c.srv_count - 1
             on == IF at <= len THEN c.srv[at + 1].enabled ELSE c.srv[at].enabled
             moved == [c EXCEPT !.srv[at].enabled = on, !.srv_count = len]
  <1>0. /\ life = "live" /\ c.wild = "none" /\ others # {}
        /\ client' = IF len = 0 THEN [moved EXCEPT !.wild = "srv"] ELSE [moved EXCEPT !.srv[len] = Radius!Blank]
        /\ msgs' = msgs /\ limits' = limits /\ life' = life
        /\ AtRest(c) /\ Mail(c) /\ Shape(c) /\ Reports(c) /\ Limits
    BY DEF Radius!radius_client_server_remove_by_addr, RadiusInv
  <1>1. c.srv \in Seq(ServerSet) /\ c.srv_count \in 0 .. Len(c.srv) /\ DOMAIN c = RadiusFields
    BY <1>0 DEF Shape
  <1>2. at \in 1 .. c.srv_count
    <2>1. others \subseteq Nat /\ others \subseteq 1 .. c.srv_count
      BY <1>1
    <2>2. Radius!Min(others) \in others
      <3> HIDE DEF others
      <3> QED  BY <1>0, <2>1, MinIs
    <2> QED  BY <2>1, <2>2
  <1>3. on \in BOOLEAN
    <2>1. \A b \in 1 .. Len(c.srv) : c.srv[b].enabled \in BOOLEAN
      <3>1. \A b \in 1 .. Len(c.srv) : c.srv[b] \in ServerSet
        BY <1>1
      <3> QED  BY <3>1 DEF ServerSet
    <2>2. Len(c.srv) \in Nat /\ at \in 1 .. Len(c.srv) /\ (at <= len => at + 1 \in 1 .. Len(c.srv))
      BY <1>1, <1>2
    <2> HIDE DEF at, len, c
    <2> QED  BY <2>1, <2>2
  <1>4. len \in Nat /\ len < Len(c.srv) /\ at \in 1 .. Len(c.srv) /\ len = c.srv_count - 1 /\ Len(c.srv) \in Nat
    BY <1>1, <1>2
  <1>c. client = c
    OBVIOUS
  <1> HIDE DEF on, at, len, others, c
  <1>5. /\ DOMAIN moved = RadiusFields
        /\ moved.sock = c.sock /\ moved.skts = c.skts /\ moved.rep = c.rep /\ moved.sent = c.sent /\ moved.q = c.q
        /\ moved.srv = [c.srv EXCEPT ![at] = [c.srv[at] EXCEPT !.enabled = on]]
        /\ moved.srv_count = len /\ moved.wild = c.wild
    BY <1>1 DEF RadiusFields
  <1> HIDE DEF moved
  <1>6. /\ moved.srv \in Seq(ServerSet) /\ Len(moved.srv) = Len(c.srv)
        /\ \A b \in 1 .. Len(c.srv) : moved.srv[b].tries = c.srv[b].tries /\ moved.srv[b].addr = c.srv[b].addr
    <2> DEFINE s == [c.srv[at] EXCEPT !.enabled = on]
    <2>1. c.srv[at] \in ServerSet
      BY <1>1, <1>4
    <2>2. s \in ServerSet /\ s.tries = c.srv[at].tries /\ s.addr = c.srv[at].addr
      BY <1>3, <2>1 DEF ServerSet
    <2> HIDE DEF s
    <2>3. moved.srv = [c.srv EXCEPT ![at] = s]
      BY <1>5 DEF s
    <2> QED  BY <1>1, <1>4, <2>2, <2>3
  <1>7. CASE len = 0
    <2> DEFINE d == [moved EXCEPT !.wild = "srv"]
    <2>1. NewServers(c, moved)
      BY <1>4, <1>5, <1>6 DEF NewServers
    <2>2. Shape(moved) /\ Reports(moved)
      BY <1>0, <2>1, ServersKeep DEF AtRest, Base
    <2>3. Shape(d) /\ Reports(d) /\ d.wild = "srv"
      BY <2>2, WildShape
    <2>4. client' = d
      BY <1>0, <1>7
    <2> HIDE DEF d
    <2> QED  BY <1>0, <1>c, <2>3, <2>4 DEF RadiusInv, Limits
  <1>8. CASE len # 0
    <2> DEFINE d == [moved EXCEPT !.srv[len] = Radius!Blank]
    <2>1. client' = d
      BY <1>0, <1>8
    <2>2. /\ DOMAIN d = RadiusFields
          /\ d.sock = c.sock /\ d.skts = c.skts /\ d.rep = c.rep /\ d.sent = c.sent /\ d.q = c.q
          /\ d.srv = [moved.srv EXCEPT ![len] = Radius!Blank]
          /\ d.srv_count = len /\ d.wild = c.wild
      BY <1>5 DEF RadiusFields
    <2> HIDE DEF d
    <2>3. Radius!Blank \in ServerSet /\ Radius!Blank.tries = 0 /\ Radius!Blank.addr = "none"
      BY DEF Radius!Blank, ServerSet, Radius!Families
    <2>4. /\ d.srv \in Seq(ServerSet) /\ Len(d.srv) = Len(c.srv)
          /\ \A b \in 1 .. Len(c.srv) : /\ d.srv[b].tries = 0 \/ d.srv[b].tries = c.srv[b].tries
                                        /\ d.srv[b].addr = "none" \/ d.srv[b].addr = c.srv[b].addr
      <3> DEFINE blank == Radius!Blank
      <3>1. blank \in ServerSet /\ blank.tries = 0 /\ blank.addr = "none" /\ d.srv = [moved.srv EXCEPT ![len] = blank]
        BY <2>2, <2>3
      <3> HIDE DEF blank
      <3>2a. Len(moved.srv) = Len(c.srv)
        BY <1>6
      <3>2. len \in 1 .. Len(moved.srv)
        <4> DEFINE size == Len(c.srv)
        <4>1. len \in Nat /\ len < size /\ size \in Nat /\ Len(moved.srv) = size
          BY <1>4, <3>2a
        <4> HIDE DEF size
        <4>2. len \in 1 .. size
          BY <1>8, <4>1
        <4> QED  BY <4>1, <4>2
      <3>3. d.srv \in Seq(ServerSet) /\ Len(d.srv) = Len(c.srv)
            /\ \A b \in 1 .. Len(c.srv) : d.srv[b] = IF b = len THEN blank ELSE moved.srv[b]
        BY <1>6, <3>1, <3>2
      <3> QED  BY <1>6, <3>1, <3>3
    <2>5. NewServers(c, d)
      BY <1>4, <2>2, <2>4 DEF NewServers
    <2>6. AtRest(d)
      BY <1>0, <2>5, ServersKeep
    <2>7. AtRest(client)'
      BY <1>0, <2>1, <2>6, RestCarries DEF d
    <2>8. Shape(d) /\ Reports(d)
      BY <2>6 DEF AtRest, Base
    <2>9. Mail(client)'
      BY <1>0, <1>c, <2>1, <2>2, MailKeeps DEF d
    <2> QED  BY <1>0, <1>c, <2>1, <2>2, <2>7, <2>8, <2>9 DEF RadiusInv, Limits, d
  <1> QED  BY <1>7, <1>8

\* radius_client_destroy(): the message is the last one.
LEMMA DestroyKeeps ==
    ASSUME RadiusInv, Radius!radius_client_destroy
    PROVE  RadiusInv'
  <1>0. /\ life = "live" /\ client.wild = "none" /\ limits' = limits /\ life' = "destroying"
        /\ client' = client /\ msgs' = Append(msgs, "destroy")
        /\ AtRest(client) /\ Mail(client) /\ Limits /\ Shape(client) /\ Reports(client)
    BY DEF RadiusInv, Radius!radius_client_destroy
  <1>1. /\ msgs \in Seq(Queries \cup {"destroy"})
        /\ \A a \in 1 .. Len(msgs) : /\ msgs[a] \in Queries /\ msgs[a] # "destroy"
                                     /\ client.q[msgs[a]].st = "queued" /\ client.q[msgs[a]].id \in Ids
        /\ \A a, b \in 1 .. Len(msgs) : msgs[a] = msgs[b] => a = b
    BY <1>0 DEF Mail
  <1>2. /\ msgs' \in Seq(Queries \cup {"destroy"}) /\ Len(msgs') = Len(msgs) + 1 /\ msgs'[Len(msgs')] = "destroy"
        /\ \A a \in 1 .. Len(msgs) : msgs'[a] = msgs[a]
        /\ Len(msgs) \in Nat
    BY <1>0, <1>1
  <1>3. \A a \in 1 .. Len(msgs') : a # Len(msgs') => a \in 1 .. Len(msgs)
    BY <1>2
  <1>4. \A a \in 1 .. Len(msgs') : msgs'[a] # "destroy" => client.q[msgs'[a]].st = "queued" /\ client.q[msgs'[a]].id \in Ids
    BY <1>1, <1>2, <1>3
  <1>5. \A a, b \in 1 .. Len(msgs') : msgs'[a] = msgs'[b] => a = b
    BY <1>1, <1>2, <1>3
  <1>6. \A a \in 1 .. Len(msgs') : msgs'[a] = "destroy" => a = Len(msgs')
    BY <1>1, <1>2, <1>3
  <1>7. Mail(client)'
    BY <1>0, <1>2, <1>4, <1>5, <1>6 DEF Mail
  <1>8. AtRest(client)'
    BY <1>0, RestCarries
  <1> QED  BY <1>0, <1>7, <1>8 DEF RadiusInv, Limits

\* The queue of the thread without its first message.
LEMMA MailTaken ==
    ASSUME Mail(client), msgs # <<>>, msgs' = Tail(msgs), life' = life, NEW d, client' = d,
           \A y \in Queries : y # Head(msgs) => d.q[y] = client.q[y]
    PROVE  Mail(client)'
  <1> DEFINE len == Len(msgs) - 1
  <1>1. /\ msgs \in Seq(Queries \cup {"destroy"}) /\ Len(msgs) \in Nat /\ Head(msgs) = msgs[1]
        /\ msgs' \in Seq(Queries \cup {"destroy"}) /\ Len(msgs') = len /\ 1 \in 1 .. Len(msgs)
    BY DEF Mail
  <1>2. ASSUME NEW a \in 1 .. len PROVE a \in Nat /\ a + 1 \in 1 .. Len(msgs) /\ a + 1 # 1 /\ msgs'[a] = msgs[a + 1]
    <2>1. Len(msgs) \in Nat /\ len = Len(msgs) - 1
      BY <1>1
    <2>2. a \in Nat /\ a + 1 \in 1 .. Len(msgs) /\ a + 1 # 1
      BY <2>1
    <2>3. msgs'[a] = msgs[a + 1]
      BY <1>1, <1>2
    <2> QED  BY <2>2, <2>3
  <1> HIDE DEF len
  <1>3. ASSUME NEW a \in 1 .. len, msgs'[a] # "destroy"
        PROVE  d.q[msgs'[a]].st = "queued" /\ d.q[msgs'[a]].id \in Ids
    <2>1. msgs'[a] = msgs[a + 1] /\ a + 1 \in 1 .. Len(msgs) /\ a + 1 # 1
      BY <1>2
    <2>2. msgs[a + 1] # msgs[1]
      BY <1>1, <2>1, Zenon DEF Mail
    <2>3. msgs[a + 1] \in Queries
      BY <1>1, <1>3, <2>1
    <2>4. d.q[msgs[a + 1]] = client.q[msgs[a + 1]]
      BY <1>1, <2>2, <2>3
    <2>5. client.q[msgs[a + 1]].st = "queued" /\ client.q[msgs[a + 1]].id \in Ids
      BY <1>3, <2>1 DEF Mail
    <2> QED  BY <2>1, <2>4, <2>5
  <1>4. ASSUME NEW a \in 1 .. len, NEW b \in 1 .. len, msgs'[a] = msgs'[b] PROVE a = b
    <2>1. a \in Nat /\ b \in Nat
      BY <1>2
    <2>2. msgs[a + 1] = msgs[b + 1] /\ a + 1 \in 1 .. Len(msgs) /\ b + 1 \in 1 .. Len(msgs)
      BY <1>2, <1>4, Zenon
    <2>3. a + 1 = b + 1
      BY <2>2, Zenon DEF Mail
    <2> QED  BY <2>1, <2>3
  <1>5. ASSUME NEW a \in 1 .. len, msgs'[a] = "destroy" PROVE life = "destroying" /\ a = len
    <2>1. msgs[a + 1] = "destroy" /\ a + 1 \in 1 .. Len(msgs) /\ a \in Nat
      BY <1>2, <1>5, Zenon
    <2>2. life = "destroying" /\ a + 1 = Len(msgs)
      BY <2>1, Zenon DEF Mail
    <2>3. a = len
      <3>1. len = Len(msgs) - 1 /\ Len(msgs) \in Nat
        BY <1>1 DEF len
      <3>2. a + 1 = Len(msgs)
        BY <2>2
      <3>3. a \in Nat
        BY <2>1
      <3> QED  BY <3>1, <3>2, <3>3
    <2> QED  BY <2>2, <2>3
  <1> QED  BY <1>1, <1>3, <1>4, <1>5 DEF Mail

\* radius_client_query_tpt_msg_cb(): a query in the queue becomes active with a slot of its own, or is reported.
LEMMA MessageKeeps ==
    ASSUME RadiusInv, NEW o, Radius!radius_client_query_tpt_msg_cb(o)
    PROVE  RadiusInv'
  <1> DEFINE x == Head(msgs)
             q == [client.q[x] EXCEPT !.st = "active"]
             c == Put(client, x, q)
             r == Radius!radius_client_send_new(c, x, o)
             d == Radius!Settled(r, x)
  <1>0. /\ client.wild = "none" /\ msgs # <<>> /\ x # "destroy"
        /\ client' = d /\ msgs' = Tail(msgs) /\ limits' = limits /\ life' = life
    BY DEF Radius!radius_client_query_tpt_msg_cb, Put
  <1>1. AtRest(client) /\ Mail(client) /\ Limits /\ life # "destroyed" /\ life \in {"live", "destroying"}
    BY <1>0 DEF RadiusInv
  <1>2. x \in Queries /\ client.q[x].st = "queued" /\ client.q[x].id \in Ids
    <2>1. msgs \in Seq(Queries \cup {"destroy"}) /\ x = msgs[1] /\ 1 \in 1 .. Len(msgs)
      BY <1>0, <1>1 DEF Mail
    <2> HIDE DEF x
    <2> QED  BY <1>0, <1>1, <2>1 DEF Mail
  <1>x. Head(msgs) = x
    OBVIOUS
  <1> HIDE DEF x
  <1>3. IsQuery(client.q[x]) /\ client.q[x].skt = NoSkt
    <2>1. Shape(client) /\ Named(client)
      BY <1>1 DEF AtRest, Base
    <2> QED  BY <1>2, <2>1 DEF Shape, Named
  <1>4. IsQuery(q) /\ q.skt = NoSkt /\ q.st = "active" /\ q.id \in Ids
    BY <1>2, <1>3 DEF IsQuery, QueryFields
  <1> HIDE DEF q
  <1>5. /\ Base(c) /\ c.q[x] = q /\ c.wild = "none"
        /\ \A y \in Queries : y # x => c.q[y] = client.q[y] /\ Placed(c, y) /\ Armed(c, y)
    BY <1>0, <1>1, <1>2, <1>4, PutIdle
  <1> HIDE DEF c
  <1>6. Sound(c, x)
    BY <1>4, <1>5 DEF Sound
  <1>7. Result(c, r, x)
    BY <1>1, <1>2, <1>6, SendNewIs
  <1> HIDE DEF r
  <1>8. /\ Base(d) /\ (d.wild = "none" => AtRest(d)) /\ d.wild \in {"none", "create"}
        /\ \A y \in Queries : y # x => d.q[y] = c.q[y]
    BY <1>1, <1>2, <1>5, <1>7, SettledIs
  <1> HIDE DEF d
  <1>9. Shape(d) /\ Reports(d)
    BY <1>8 DEF Base
  <1>10. Mail(client)'
    <2>1. \A y \in Queries : y # Head(msgs) => d.q[y] = client.q[y]
      BY <1>5, <1>8, <1>x
    <2> QED  BY <1>0, <1>1, <2>1, MailTaken
  <1>11. client'.wild = "none" => AtRest(client)'
    BY <1>0, <1>8, RestCarries
  <1> QED  BY <1>0, <1>1, <1>8, <1>9, <1>10, <1>11 DEF RadiusInv, Limits

\* radius_client_destroy_tpt_msg_cb(): the last message; what the freed sockets held is reported once.
LEMMA TakenDownKeeps ==
    ASSUME RadiusInv, Radius!radius_client_destroy_tpt_msg_cb
    PROVE  RadiusInv'
  <1> DEFINE e == Radius!SocketsFreed(client, "v4")
             d == Radius!SocketsFreed(e, "v6")
  <1>0. /\ client.wild = "none" /\ msgs # <<>> /\ Head(msgs) = "destroy" /\ client' = d
        /\ msgs' = Tail(msgs) /\ life' = "destroyed" /\ limits' = limits
    BY DEF Radius!radius_client_destroy_tpt_msg_cb
  <1>1. Limits /\ (life # "destroyed" => AtRest(client) /\ Mail(client)) /\ (life = "destroyed" => msgs = <<>>)
    BY <1>0 DEF RadiusInv
  <1>2. AtRest(client) /\ Mail(client)
    BY <1>0, <1>1
  <1>3. msgs' = <<>>
    <2>1. msgs \in Seq(Queries \cup {"destroy"}) /\ Head(msgs) = msgs[1] /\ 1 \in 1 .. Len(msgs)
      BY <1>0, <1>2 DEF Mail
    <2>2. Len(msgs) = 1
      BY <1>0, <1>2, <2>1 DEF Mail
    <2> QED  BY <1>0, <2>1, <2>2
  <1>4. /\ "v4" \in Radius!Families /\ "v6" \in Radius!Families
        /\ Sane(client) /\ Fresh(client, "v4") /\ Fresh(client, "v6")
    BY <1>2 DEF AtRest, Base, Sane, Lists, Fresh, Radius!Families
  <1>5. Sane(e) /\ e.wild = client.wild /\ Fresh(e, "v6")
    BY <1>4, FreedSane
  <1> HIDE DEF e
  <1>6. Sane(d) /\ d.wild = e.wild
    BY <1>4, <1>5, FreedSane
  <1> HIDE DEF d
  <1>7. Shape(d) /\ Reports(d) /\ d.wild = "none"
    BY <1>0, <1>5, <1>6 DEF Sane
  <1> QED  BY <1>0, <1>1, <1>3, <1>7 DEF RadiusInv, Limits

\* radius_client_recv_cb(): the packet passes every check.
Answer(s, p) ==
    LET y == client.sock[s].tmr[p.id]
        server == client.srv[client.q[y].idx]
    IN  p.checked /\ y # NoQuery /\ Radius!FromServer(p, server) /\ Radius!MadeFor(p, y, server)

\* A packet sent for query y from its slot to the server that p comes from.
Request(y, s, p) == \E r \in client.sent : r.q = y /\ r.s = s /\ r.id = p.id /\ r.addr = p.from

\* Such a packet comes from a server the query of the slot was sent to; a reply names the query.
LEMMA AnswerIs ==
    ASSUME AtRest(client), NEW s \in Sockets, NEW p \in Radius!Arrivals(client, s), client.sock[s].st = "live",
           Answer(s, p)
    PROVE  LET y == client.sock[s].tmr[p.id]
           IN  /\ y \in Queries /\ Sound(client, y) /\ client.q[y].tried # {}
               /\ client.q[y].skt = s /\ client.q[y].id = p.id /\ p.from \in client.q[y].tried
               /\ p.code = "reply" => p.req.q = y /\ Request(y, s, p)
  <1> DEFINE y == client.sock[s].tmr[p.id]
             server == client.srv[client.q[y].idx]
             req == [q |-> y, addr |-> server.addr]
  <1>0. y # NoQuery /\ p.from = server.addr /\ (p.code = "reply" => p.req = req)
    BY DEF Answer, Radius!FromServer, Radius!MadeFor
  <1>1. p.id \in Ids /\ p.from \in Addrs
    BY DEF Radius!Arrivals
  <1>a. p.code = "reply" => \E r \in client.sent : p.req = [q |-> r.q, addr |-> r.addr]
    BY DEF Radius!Arrivals
  <1>2. Base(client) /\ Slots(client) /\ Sent(client) /\ \A z \in Queries : Placed(client, z) /\ Armed(client, z)
    BY DEF AtRest, Base
  <1>3. y \in Queries /\ client.q[y].st = "active" /\ client.q[y].skt = s /\ client.q[y].id = p.id
    BY <1>0, <1>1, <1>2 DEF Slots
  <1>r. req.q = y /\ req.addr = server.addr
    OBVIOUS
  <1>4. p.from \in client.q[y].tried
    <2>1. server.addr \in client.q[y].tried \cup {"none"}
      BY <1>2, <1>3 DEF Armed
    <2> QED  BY <1>0, <1>1, <2>1, RadiusAssumption
  <1> HIDE DEF y, server, req
  <1>5. ASSUME p.code = "reply" PROVE p.req.q = y /\ Request(y, s, p)
    <2>1. PICK r \in client.sent : p.req = [q |-> r.q, addr |-> r.addr]
      BY <1>a, <1>5
    <2>2. p.req.q = r.q /\ p.req.addr = r.addr
      BY <2>1
    <2>3. r.q = y /\ r.addr = p.from /\ p.req.q = y
      BY <1>0, <1>r, <1>5, <2>2
    <2>4. r.s = s /\ r.id = p.id
      BY <1>2, <1>3, <2>3 DEF Placed
    <2> QED  BY <2>3, <2>4 DEF Request
  <1>6. Sound(client, y)
    BY <1>1, <1>2, <1>3 DEF Sound
  <1> QED  BY <1>3, <1>4, <1>5, <1>6 DEF y

\* What a packet changes: nothing, or its query is reported, and the socket may go with it.
Received(d, s, p) ==
    IF ~Answer(s, p) THEN d = client
    ELSE LET e == Radius!radius_client_query_done(client, client.sock[s].tmr[p.id], "ok")
         IN  d = IF e.sock[s].st = "freed" THEN [e EXCEPT !.wild = "surplus"] ELSE e

\* What radius_client_recv_cb() leaves behind.
LEMMA ReceivedIs ==
    ASSUME NEW s, NEW p, life # "destroyed", Radius!radius_client_recv_cb(s, p)
    PROVE  Received(client', s, p)
  BY DEF Radius!radius_client_recv_cb, Received, Answer

\* radius_client_recv_cb(): at most the query of the slot is reported.
LEMMA ReceiveKeeps ==
    ASSUME RadiusInv, NEW s \in Sockets, NEW p \in Radius!Arrivals(client, s), Radius!radius_client_recv_cb(s, p)
    PROVE  RadiusInv'
  <1>0. /\ client.wild = "none" /\ client.sock[s].st = "live" /\ msgs' = msgs /\ limits' = limits /\ life' = life
    BY DEF Radius!radius_client_recv_cb
  <1>1. Limits /\ Shape(client) /\ Reports(client)
    BY DEF RadiusInv
  <1>2. CASE life = "destroyed"
    <2> DEFINE d == [client EXCEPT !.wild = "recv"]
    <2>1. client' = d
      BY <1>2 DEF Radius!radius_client_recv_cb
    <2>2. Shape(d) /\ Reports(d) /\ d.wild = "recv"
      BY <1>1, WildShape
    <2> HIDE DEF d
    <2> QED  BY <1>0, <1>2, <2>1, <2>2 DEF RadiusInv, Limits
  <1>3. CASE life # "destroyed"
    <2>0. AtRest(client) /\ Mail(client) /\ Received(client', s, p)
      BY <1>0, <1>3, ReceivedIs DEF RadiusInv
    <2>1. CASE ~Answer(s, p)
      <3>1. client' = client
        BY <2>0, <2>1 DEF Received
      <3>2. AtRest(client)'
        BY <1>0, <2>0, <3>1, RestCarries
      <3>3. Mail(client)'
        BY <1>0, <2>0, <3>1, MailKeeps
      <3> QED  BY <1>0, <3>1, <3>2, <3>3 DEF RadiusInv, Limits
    <2>2. CASE Answer(s, p)
      <3> DEFINE x == client.sock[s].tmr[p.id]
                 e == Radius!radius_client_query_done(client, x, "ok")
                 d == IF e.sock[s].st = "freed" THEN [e EXCEPT !.wild = "surplus"] ELSE e
      <3>1. x \in Queries /\ Sound(client, x) /\ client.q[x].tried # {}
        BY <1>0, <2>0, <2>2, AnswerIs
      <3>2. client' = d
        BY <2>0, <2>2 DEF Received
      <3> HIDE DEF x
      <3>3. /\ AtRest(e) /\ SameServers(client, e)
            /\ \A y \in Queries : y # x => e.q[y] = client.q[y]
        BY <1>1, <3>1, DoneRests
      <3> HIDE DEF e
      <3>4. Base(e) /\ Shape(e) /\ Reports(e) /\ NoSurplus(e) /\ e.wild = "none"
        BY <1>0, <3>3 DEF AtRest, Base, SameServers
      <3>5. CASE e.sock[s].st = "freed"
        <4> DEFINE w == [e EXCEPT !.wild = "surplus"]
        <4>1. Shape(w) /\ Reports(w) /\ w.wild = "surplus"
          BY <3>4, WildShape
        <4>2. limits.min # limits.max
          BY <3>4, <3>5 DEF NoSurplus
        <4>3. client' = w
          BY <3>2, <3>5
        <4> HIDE DEF w
        <4> QED  BY <1>0, <1>3, <4>1, <4>2, <4>3 DEF RadiusInv, Limits
      <3>6. CASE e.sock[s].st # "freed"
        <4>1. client' = e
          BY <3>2, <3>6
        <4>2. AtRest(client)'
          BY <1>0, <3>3, <4>1, RestCarries
        <4>3. Mail(client)'
          <5>1. client.q[x].st = "active"
            BY <3>1 DEF Sound
          <5>2. \A y \in Queries : client.q[y].st = "queued" => e.q[y].st = "queued" /\ e.q[y].id = client.q[y].id
            BY <3>3, <5>1
          <5> QED  BY <1>0, <2>0, <4>1, <5>2, MailKeeps
        <4> QED  BY <1>0, <3>4, <4>1, <4>2, <4>3 DEF RadiusInv, Limits
      <3> QED  BY <3>5, <3>6
    <2> QED  BY <2>1, <2>2
  <1> QED  BY <1>2, <1>3

\* radius_client_query_timeout_cb(): the try is counted, then the query is sent again unless its tries are over.
Counted(q, duration) == [q EXCEPT !.count = @ + 1, !.duration = duration]
Timed(q, time) == [q EXCEPT !.time = time]
TimedOut(c, s, id, x, duration) == Put(TimerTo(c, s, id, "off"), x, Counted(c.q[x], duration))
Expired(d, s, id, outcome, o) ==
    LET y == client.sock[s].tmr[id]
    IN  \E duration, time : \E over \in BOOLEAN :
           /\ over \/ LET tries == client.srv[client.q[y].idx].tries
                      IN  tries = 0 \/ ~(client.q[y].count + 1 >= tries)
           /\ LET c == TimedOut(client, s, id, y, duration)
              IN  \/ d = Radius!Settled(Radius!Retried(c, y, time, over, outcome, o), y)
                  \/ d = [client EXCEPT !.wild = "surplus"] /\ Radius!TimerFreed(c, y, s)

\* What radius_client_query_timeout_cb() leaves behind.
LEMMA ExpiredIs ==
    ASSUME NEW s \in Sockets, NEW id \in Ids, NEW t, NEW outcome, NEW o, life # "destroyed",
           client.sock[s].st # "freed", Radius!radius_client_query_timeout_cb(s, id, t, outcome, o), Shape(client),
           client.sock[s].tmr[id] \in Queries
    PROVE  Expired(client', s, id, outcome, o)
  <1> DEFINE x == client.sock[s].tmr[id]
             q == client.q[x]
             server == client.srv[q.idx]
             duration == q.duration + q.time
             cut == server.duration # 0 /\ duration + t >= server.duration
             time == IF cut THEN server.duration - duration ELSE t
             over == \/ server.tries # 0 /\ q.count + 1 >= server.tries
                     \/ server.duration # 0 /\ duration >= server.duration
                     \/ cut /\ time < server.init
             c == [client EXCEPT !.sock[s].ktmr[id] = "off", !.q[x].count = @ + 1, !.q[x].duration = duration]
  <1>1. \/ client' = Radius!Settled(Radius!Retried(c, x, time, over, outcome, o), x)
        \/ client' = [client EXCEPT !.wild = "surplus"] /\ Radius!TimerFreed(c, x, s)
    BY DEF Radius!radius_client_query_timeout_cb
  <1>2. c = TimedOut(client, s, id, x, duration)
    BY ZenonT(40) DEF TimedOut, Put, TimerTo, Counted
  <1>3. over \/ server.tries = 0 \/ ~(q.count + 1 >= server.tries)
    OBVIOUS
  <1>4. over \in BOOLEAN
    OBVIOUS
  <1> HIDE DEF c, over, time, duration
  <1> QED  BY <1>1, <1>2, <1>3, <1>4, Zenon DEF Expired

\* The timer of the slot is off and the try is counted.
LEMMA TimedOutIs ==
    ASSUME NEW c, AtRest(c), NEW s \in Sockets, NEW id \in Ids, NEW x \in Queries, NEW f, At(c, x, s, id, f),
           NEW duration
    PROVE  LET d == TimedOut(c, s, id, x, duration)
           IN  /\ Sound(d, x) /\ Placed(d, x) /\ Apart(c, d, x) /\ d.wild = c.wild
               /\ d.q[x] = Counted(c.q[x], duration)
  <1> DEFINE u == TimerTo(c, s, id, "off")
             q == Counted(c.q[x], duration)
             d == TimedOut(c, s, id, x, duration)
  <1>0. Shape(c) /\ Sound(c, x) /\ Placed(c, x) /\ IsQuery(c.q[x])
    BY DEF AtRest, Base, Sound, Shape, At
  <1>1. Sending(c, u, x, s, id, "off", {}, {}) /\ u.q = c.q /\ u.wild = c.wild
    BY <1>0, TimerToIs
  <1>2. Sound(u, x) /\ Placed(u, x)
    <2> HIDE DEF u
    <2> QED  BY <1>0, <1>1, SendingKeeps
  <1>3. Apart(c, u, x)
    <2> HIDE DEF u
    <2> QED  BY <1>1 DEF Sending
  <1>4. IsQuery(q) /\ SamePlace(c.q[x], q)
    BY <1>0 DEF IsQuery, QueryFields, SamePlace, Counted
  <1>d. d = Put(u, x, q)
    BY DEF TimedOut
  <1> HIDE DEF u, q, d
  <1>5. Touched(u, d, x) /\ d.q[x] = q
    <2>1. Shape(u) /\ SamePlace(u.q[x], q)
      BY <1>1, <1>2, <1>4 DEF Sound, Base
    <2> QED  BY <1>4, <1>d, <2>1, PutTouches
  <1>6. Sound(d, x) /\ Placed(d, x)
    <2>1. Sound(d, x)
      BY <1>2, <1>5, TouchKeeps
    <2>2. Placed(d, x)
      BY <1>2, <1>5 DEF Touched, Placed
    <2> QED  BY <2>1, <2>2
  <1>7. Apart(c, d, x)
    BY <1>3, <1>5, ApartApart DEF Touched
  <1>8. d.wild = c.wild
    <2>1. d.wild = Put(u, x, q).wild
      BY <1>d
    <2>2. DOMAIN u = RadiusFields
      BY <1>2 DEF Sound, Base, Shape
    <2>3. Put(u, x, q).wild = u.wild
      BY <2>2 DEF Put, RadiusFields
    <2> QED  BY <1>1, <2>1, <2>3
  <1> QED  BY <1>5, <1>6, <1>7, <1>8 DEF d, q

\* The query is sent again, to this server or the next, or its tries are over.
LEMMA RetriedIs ==
    ASSUME NEW c, NEW x \in Queries, Sound(c, x), Placed(c, x), Limits, NEW time, NEW over \in BOOLEAN,
           over \/ MayWait(c, x), NEW outcome, NEW o
    PROVE  Result(c, Radius!Retried(c, x, time, over, outcome, o), x)
  <1>1. CASE over
    <2> DEFINE r == [c |-> c, err |-> "ETIMEDOUT"]
    <2>1. Radius!Retried(c, x, time, over, outcome, o) = r
      BY <1>1 DEF Radius!Retried
    <2>2. r.c = c /\ r.err = "ETIMEDOUT"
      OBVIOUS
    <2> HIDE DEF r
    <2>3. Apart(c, c, x)
      BY DEF Apart
    <2>4. Result(c, r, x)
      BY <2>2, <2>3 DEF Result
    <2> QED  BY <2>1, <2>4
  <1>2. CASE ~over
    <2> DEFINE q == Timed(c.q[x], time)
               d == Put(c, x, q)
               r == Radius!radius_client_send(d, x, outcome)
               e == Radius!TryNext(r, x, o)
    <2>0. Shape(c) /\ IsQuery(c.q[x]) /\ MayWait(c, x)
      BY <1>2 DEF Sound, Base, Shape
    <2>1. /\ IsQuery(q) /\ SamePlace(c.q[x], q) /\ q.skt = c.q[x].skt /\ q.signed = c.q[x].signed
          /\ q.idx = c.q[x].idx /\ q.count = c.q[x].count
      BY <2>0 DEF IsQuery, QueryFields, SamePlace, Timed
    <2>2. d = [c EXCEPT !.q[x].time = time]
      BY DEF Put, Timed
    <2>3. Radius!Retried(c, x, time, over, outcome, o) = e
      BY <1>2, <2>2 DEF Radius!Retried
    <2> HIDE DEF q
    <2>4. Touched(c, d, x) /\ d.q[x] = q
      BY <2>0, <2>1, PutTouches
    <2> HIDE DEF d
    <2>5. Sound(d, x)
      BY <2>4, TouchKeeps
    <2>6. Placed(d, x) /\ Apart(c, d, x) /\ d.srv = c.srv
      BY <2>4 DEF Touched, Placed, Apart
    <2>7. MayWait(d, x)
      BY <2>0, <2>1, <2>4, <2>6 DEF MayWait
    <2>8. Result(d, r, x)
      BY <2>5, <2>6, <2>7, SendIs
    <2> HIDE DEF r
    <2>9. Result(d, e, x)
      BY <2>8, TryNextIs
    <2> HIDE DEF e
    <2>10. Result(c, e, x)
      <3>1. Apart(c, e.c, x)
        BY <2>6, <2>9, ApartApart DEF Result
      <3> QED  BY <2>9, <3>1 DEF Result
    <2> QED  BY <2>3, <2>10
  <1> QED  BY <1>1, <1>2

\* radius_client_query_timeout_cb().
LEMMA TimeoutKeeps ==
    ASSUME RadiusInv, NEW s \in Sockets, NEW id \in Ids, NEW t, NEW outcome, NEW o,
           Radius!radius_client_query_timeout_cb(s, id, t, outcome, o)
    PROVE  RadiusInv'
  <1>0. client.wild = "none" /\ client.sock[s].ktmr[id] = "set" /\ msgs' = msgs /\ limits' = limits /\ life' = life
    BY DEF Radius!radius_client_query_timeout_cb
  <1>1. Limits /\ Shape(client) /\ Reports(client)
    BY DEF RadiusInv
  <1>2. CASE life = "destroyed"
    <2> DEFINE d == [client EXCEPT !.wild = "timer"]
    <2>1. client' = d
      BY <1>2 DEF Radius!radius_client_query_timeout_cb
    <2>2. Shape(d) /\ Reports(d) /\ d.wild = "timer"
      BY <1>1, WildShape
    <2> HIDE DEF d
    <2> QED  BY <1>0, <1>2, <2>1, <2>2 DEF RadiusInv, Limits
  <1>3. CASE life # "destroyed"
    <2> DEFINE x == client.sock[s].tmr[id]
    <2>0. AtRest(client) /\ Mail(client)
      BY <1>0, <1>3 DEF RadiusInv
    <2>1. /\ Slots(client) /\ Quiet(client) /\ \A y \in Queries : Armed(client, y)
      BY <2>0 DEF AtRest, Base
    <2>2. client.sock[s].st = "live" /\ x # NoQuery
      BY <1>0, <2>1 DEF Quiet
    <2>3. x \in Queries /\ client.q[x].st = "active" /\ client.q[x].skt = s /\ client.q[x].id = id
      BY <2>1, <2>2 DEF Slots
    <2>4. Expired(client', s, id, outcome, o)
      BY <1>1, <1>3, <2>2, <2>3, ExpiredIs
    <2>x. client.sock[s].tmr[id] = x
      OBVIOUS
    <2> HIDE DEF x
    <2> DEFINE f == client.sock[s].fam
    <2>5. At(client, x, s, id, f)
      BY <2>2, <2>3, <2>x DEF At
    <2> HIDE DEF f
    <2> DEFINE tries == client.srv[client.q[x].idx].tries
    <2>6. PICK duration, time : \E over \in BOOLEAN :
              /\ over \/ tries = 0 \/ ~(client.q[x].count + 1 >= tries)
              /\ LET c == TimedOut(client, s, id, x, duration)
                 IN  \/ client' = Radius!Settled(Radius!Retried(c, x, time, over, outcome, o), x)
                     \/ client' = [client EXCEPT !.wild = "surplus"] /\ Radius!TimerFreed(c, x, s)
      BY <2>4, <2>x DEF Expired
    <2>7. PICK over \in BOOLEAN :
              /\ over \/ tries = 0 \/ ~(client.q[x].count + 1 >= tries)
              /\ LET c == TimedOut(client, s, id, x, duration)
                 IN  \/ client' = Radius!Settled(Radius!Retried(c, x, time, over, outcome, o), x)
                     \/ client' = [client EXCEPT !.wild = "surplus"] /\ Radius!TimerFreed(c, x, s)
      BY <2>6
    <2> DEFINE c == TimedOut(client, s, id, x, duration)
               r == Radius!Retried(c, x, time, over, outcome, o)
               d == Radius!Settled(r, x)
    <2>8. client' = d \/ (client' = [client EXCEPT !.wild = "surplus"] /\ Radius!TimerFreed(c, x, s))
      BY <2>7
    <2>9. /\ Sound(c, x) /\ Placed(c, x) /\ Apart(client, c, x) /\ c.wild = "none"
          /\ c.q[x] = Counted(client.q[x], duration)
      BY <1>0, <2>0, <2>3, <2>5, TimedOutIs
    <2> HIDE DEF c
    <2>10. over \/ MayWait(c, x)
      <3>1. /\ client.q[x].skt # NoSkt /\ client.q[x].signed /\ client.q[x].idx \in 1 .. Len(client.srv)
        BY <2>1, <2>3 DEF Armed
      <3>2. IsQuery(client.q[x]) /\ client.srv \in Seq(ServerSet)
        BY <1>1, <2>3 DEF Shape
      <3>3. tries \in Nat
        <4>1. client.srv[client.q[x].idx] \in ServerSet
          BY <3>1, <3>2
        <4> QED  BY <4>1 DEF ServerSet
      <3>4. /\ c.q[x].skt = client.q[x].skt /\ c.q[x].signed = client.q[x].signed /\ c.q[x].idx = client.q[x].idx
            /\ c.q[x].count = client.q[x].count + 1 /\ client.q[x].count \in Nat
        BY <2>9, <3>2 DEF Counted, IsQuery, QueryFields
      <3>5. c.srv = client.srv
        BY <2>9 DEF Apart
      <3>6. over \/ tries = 0 \/ c.q[x].count < tries
        <4> HIDE DEF tries
        <4> QED  BY <2>7, <3>3, <3>4
      <3> QED  BY <3>1, <3>4, <3>5, <3>6 DEF MayWait
    <2>11. Result(c, r, x)
      BY <1>1, <2>3, <2>9, <2>10, RetriedIs
    <2> HIDE DEF r
    <2>12. /\ Base(d) /\ (d.wild = "none" => AtRest(d)) /\ d.wild \in {"none", "create"}
           /\ \A y \in Queries : y # x => d.q[y] = c.q[y]
      BY <1>1, <2>3, <2>9, <2>11, SettledIs
    <2> HIDE DEF d
    <2>13. Shape(d) /\ Reports(d)
      BY <2>12 DEF Base
    <2>14. \A y \in Queries : client.q[y].st = "queued" => d.q[y].st = "queued" /\ d.q[y].id = client.q[y].id
      BY <2>3, <2>9, <2>12 DEF Apart
    <2>15. CASE client' = d
      <3>1. Mail(client)'
        BY <1>0, <2>0, <2>14, <2>15, MailKeeps
      <3>2. client'.wild = "none" => AtRest(client)'
        BY <1>0, <2>12, <2>15, RestCarries
      <3> QED  BY <1>0, <2>12, <2>13, <2>15, <3>1, <3>2 DEF RadiusInv, Limits
    <2>16. CASE client' = [client EXCEPT !.wild = "surplus"] /\ Radius!TimerFreed(c, x, s)
      <3> DEFINE w == [client EXCEPT !.wild = "surplus"]
      <3>1. Shape(w) /\ Reports(w) /\ w.wild = "surplus"
        BY <1>1, WildShape
      <3>2. client' = w
        BY <2>16
      <3> HIDE DEF w
      <3>3. limits.min # limits.max
        <4> DEFINE g == c.sock[s].fam
        <4>1. Len(c.skts[g].skt) > limits.min
          BY <2>16 DEF Radius!TimerFreed
        <4>2. Lists(c) /\ g \in Radius!Families
          BY <2>9 DEF Sound, Base, Shape, IsSocket
        <4> HIDE DEF g
        <4>3. Len(c.skts[g].skt) <= limits.max /\ c.skts[g].skt \in Seq(Sockets)
          BY <4>2 DEF Lists
        <4>4. Len(c.skts[g].skt) \in Nat
          BY <4>3
        <4> QED  BY <1>1, <4>1, <4>3, <4>4 DEF Limits
      <3> QED  BY <1>0, <1>3, <3>1, <3>2, <3>3 DEF RadiusInv, Limits
    <2> QED  BY <2>8, <2>15, <2>16
  <1> QED  BY <1>2, <1>3

\* A new client satisfies the invariant.
LEMMA RadiusInitInv == Radius!Init => RadiusInv
  <1> SUFFICES ASSUME Radius!Init PROVE RadiusInv
    OBVIOUS
  <1>1. Limits
    <2>1. PICK l \in SktLimits : limits = Radius!Created(l[1], l[2])
      BY DEF Radius!Init
    <2>2. l[1] \in Nat /\ l[2] \in Nat /\ 2 * Radius!Created(l[1], l[2]).max <= Cardinality(Sockets)
      BY RadiusAssumption
    <2>3. 2 * limits.max <= Cardinality(Sockets)
      BY <2>1, <2>2
    <2>4. limits.min \in Nat /\ limits.max \in Nat /\ limits.min <= limits.max
      BY <2>1, <2>2 DEF Radius!Created
    <2> QED  BY <2>3, <2>4 DEF Limits
  <1> DEFINE c == client
             none == Radius!NoSlots
             new == Radius!NewQuery
  <1>2. /\ DOMAIN c = RadiusFields /\ c.srv = <<>> /\ c.srv_count = 0
        /\ c.sock = [t \in Sockets |-> none]
        /\ c.skts = [f \in Radius!Families |-> [skt |-> <<>>, queries |-> 0]]
        /\ c.q = [y \in Queries |-> new] /\ c.rep = [y \in Queries |-> <<>>]
        /\ c.sent = {} /\ c.wild = "none" /\ msgs = <<>> /\ life = "live"
    BY DEF Radius!Init, RadiusFields
  <1>3. IsSocket(none) /\ none.st = "none" /\ none.count = 0 /\ \A z \in Ids : none.ktmr[z] = "none"
    BY DEF Radius!NoSlots, IsSocket, Radius!Families
  <1>4. IsQuery(new) /\ new.st = "idle" /\ new.skt = NoSkt
    BY DEF Radius!NewQuery, IsQuery, QueryFields
  <1> HIDE DEF c, none, new
  <1>5. /\ \A t \in Sockets : c.sock[t] = none
        /\ \A y \in Queries : c.q[y] = new /\ c.rep[y] = <<>>
        /\ \A f \in Radius!Families : c.skts[f].skt = <<>> /\ c.skts[f].queries = 0 /\ DOMAIN c.skts[f] = {"skt", "queries"}
    BY <1>2
  <1>6. Shape(c)
    <2>0. <<>> \in Seq(Sockets \cup {NoSkt}) /\ 0 \in Int
      OBVIOUS
    <2>1. \A f \in Radius!Families : IsList(c.skts[f])
      BY <1>5, <2>0, Zenon DEF IsList
    <2>2. c.rep \in [Queries -> Seq(Reasons)]
      BY <1>2
    <2>3. c.srv \in Seq(ServerSet) /\ c.srv_count \in 0 .. Len(c.srv)
      BY <1>2
    <2> QED  BY <1>2, <1>3, <1>4, <1>5, <2>1, <2>2, <2>3 DEF Shape
  <1>7. Slots(c) /\ Named(c) /\ Quiet(c) /\ Counts(c) /\ Listed(c) /\ NoSurplus(c) /\ Reports(c) /\ Sent(c)
    <2>1. Slots(c) /\ Quiet(c) /\ Counts(c) /\ Listed(c) /\ NoSurplus(c)
      BY <1>3, <1>5 DEF Slots, Quiet, Counts, Listed, NoSurplus
    <2>2. Named(c)
      BY <1>4, <1>5 DEF Named
    <2>3. Reports(c)
      <3>1. <<>> # <<"ok">> /\ Len(<<>>) <= 1
        OBVIOUS
      <3> QED  BY <1>5, <3>1 DEF Reports
    <2>4. Sent(c)
      BY <1>2 DEF Sent
    <2> QED  BY <2>1, <2>2, <2>3, <2>4
  <1>8. Lists(c)
    <2>1. \A f \in Radius!Families : c.skts[f].skt = <<>>
      BY <1>5
    <2>2. limits.max \in Nat
      BY <1>1 DEF Limits
    <2> SUFFICES ASSUME NEW f \in Radius!Families
                 PROVE  LET list == c.skts[f].skt
                        IN  /\ list \in Seq(Sockets) /\ Len(list) <= limits.max
                            /\ \A a \in 1 .. Len(list) : c.sock[list[a]].st = "live" /\ c.sock[list[a]].fam = f
                            /\ \A a, b \in 1 .. Len(list) : list[a] = list[b] => a = b
      BY DEF Lists
    <2> DEFINE list == c.skts[f].skt
    <2>l. list = <<>>
      BY <2>1
    <2> HIDE DEF list
    <2>3. list \in Seq(Sockets) /\ Len(list) = 0
      BY <2>l
    <2>4. Len(list) <= limits.max /\ \A a \in 1 .. Len(list) : FALSE
      BY <2>2, <2>3
    <2> QED  BY <2>3, <2>4 DEF list
  <1>9. Totals(c)
    <2> SUFFICES ASSUME NEW f \in Radius!Families PROVE c.skts[f].queries = Cardinality(Busy(c, f))
      BY DEF Totals
    <2>1. Busy(c, f) = {}
      BY <1>3, <1>5 DEF Busy
    <2>2. Cardinality({}) = 0
      BY FS_EmptySet
    <2> QED  BY <1>5, <2>1, <2>2
  <1>10. AtRest(c)
    <2>1. Base(c)
      BY <1>6, <1>7, <1>8, <1>9 DEF Base
    <2>2. \A y \in Queries : Placed(c, y) /\ Armed(c, y)
      BY <1>2, <1>4, <1>5 DEF Placed, Armed
    <2> QED  BY <2>1, <2>2 DEF AtRest
  <1>11. Mail(c)
    BY <1>2 DEF Mail
  <1> QED  BY <1>1, <1>2, <1>6, <1>7, <1>10, <1>11 DEF RadiusInv, c

\* Every step of the client preserves it.
LEMMA RadiusNextInv ==
    ASSUME RadiusInv, Radius!Next
    PROVE  RadiusInv'
  <1>1. CASE \E x \in Queries, ok \in BOOLEAN : \E any \in BOOLEAN : \E id \in Ids :
                (any => id = 0) /\ Radius!radius_client_query(x, any, id, ok)
    BY <1>1, QueryKeeps
  <1>2. CASE \E x \in Queries : Radius!radius_client_query_cancel(x)
    BY <1>2, CancelKeeps
  <1>3. CASE Radius!radius_client_server_add
    BY <1>3, ServerAddKeeps
  <1>4. CASE \E a \in Addrs : Radius!radius_client_server_remove_by_addr(a)
    BY <1>4, ServerRemoveKeeps
  <1>5. CASE Radius!radius_client_destroy
    BY <1>5, DestroyKeeps
  <1>6. CASE Radius!QueryMessage
    BY <1>6, MessageKeeps DEF Radius!QueryMessage
  <1>7. CASE Radius!radius_client_destroy_tpt_msg_cb
    BY <1>7, TakenDownKeeps
  <1>8. CASE \E s \in Sockets : Radius!Receive(s)
    BY <1>8, ReceiveKeeps DEF Radius!Receive
  <1>9. CASE \E s \in Sockets, id \in Ids : Radius!Timeout(s, id)
    <2>1. PICK s \in Sockets, id \in Ids : Radius!Timeout(s, id)
      BY <1>9
    <2>2. \E t, outcome, o : Radius!radius_client_query_timeout_cb(s, id, t, outcome, o)
      BY <2>1, Zenon DEF Radius!Timeout
    <2> QED  BY <2>2, TimeoutKeeps
  <1> QED  BY <1>1, <1>2, <1>3, <1>4, <1>5, <1>6, <1>7, <1>8, <1>9 DEF Radius!Next

\* What the client counts with.
LEMMA SameSize == \A S : Radius!Cardinality(S) = Cardinality(S)
  BY DEF Radius!Cardinality, Cardinality

RadiusInductive == part = "radius" => RadiusInv

\* The invariant of the client holds in every state of every behaviour.
LEMMA RadiusAlways == Services => []RadiusInductive
  <1>1. ServicesInit => RadiusInductive
    BY RadiusInitInv DEF ServicesInit, RadiusInductive
  <1>2. RadiusInductive /\ [ServicesNext]_all => RadiusInductive'
    <2> SUFFICES ASSUME RadiusInductive, [ServicesNext]_all PROVE RadiusInductive'
      OBVIOUS
    <2>1. CASE RadiusStep
      BY <2>1, RadiusNextInv DEF RadiusStep, RadiusInductive
    <2>2. CASE UNCHANGED <<part, client, msgs, limits, life>>
      <3>1. AtRest(client) => AtRest(client)'
        BY <2>2, RestCarries
      <3>2. Mail(client) => Mail(client)'
        BY <2>2 DEF Mail
      <3> QED  BY <2>2, <3>1, <3>2 DEF RadiusInductive, RadiusInv, Limits
    <2> QED
      BY <2>1, <2>2 DEF ServicesNext, AcceptStep, HttpStep, SapStep, SsdpStep, all, RadiusVars
  <1> QED  BY <1>1, <1>2, PTL DEF Services

(* radius_client.c: every query is reported at most once and a cancelled   *)
(* one not at all, for any numbers of queries, sockets, ids and servers    *)
(* and any order of answers, timeouts, failing system calls and the        *)
(* destruction of the client.                                              *)
THEOREM RadiusReportsOnce == Services => []RadiusReportedOnce
  <1>1. RadiusInductive => RadiusReportedOnce
    BY DEF RadiusInductive, RadiusInv, Reports, RadiusReportedOnce, Radius!ReportedOnce
  <1> QED  BY <1>1, RadiusAlways, PTL

(* radius_client.c: slots and queries name each other, the counters count  *)
(* the slots in use, a query that waits has tries left and a timer, and    *)
(* without surplus sockets no handler goes on with a freed one: for any    *)
(* numbers of queries, sockets, ids and servers.                           *)
THEOREM RadiusOwnsSlots == Services => []RadiusSlotsOwned
  <1>1. ASSUME RadiusInv, client.wild = "none", life # "destroyed", NEW f \in Radius!Families
        PROVE  client.skts[f].queries = Radius!Cardinality(Radius!UsedOf(f))
    <2>1. Totals(client) /\ Lists(client) /\ Listed(client)
      BY <1>1 DEF RadiusInv, AtRest, Base
    <2> DEFINE list == client.skts[f].skt
    <2>2. /\ list \in Seq(Sockets) /\ DOMAIN list = 1 .. Len(list)
          /\ \A a \in 1 .. Len(list) : client.sock[list[a]].st = "live" /\ client.sock[list[a]].fam = f
      BY <2>1 DEF Lists
    <2>3. \A t \in Sockets : (\E a \in DOMAIN list : list[a] = t) <=> client.sock[t].st = "live" /\ client.sock[t].fam = f
      BY <2>1, <2>2 DEF Listed
    <2> HIDE DEF list
    <2>4. \A tz \in Sockets \X Ids : tz[1] \in Sockets /\ tz[2] \in Ids
      OBVIOUS
    <2>5. Radius!UsedOf(f) = Busy(client, f)
      BY <2>3, <2>4 DEF Radius!UsedOf, Radius!Used, Busy, list
    <2> QED  BY <2>1, <2>5, SameSize DEF Totals
  <1>2. ASSUME RadiusInv, client.wild = "none", life # "destroyed", NEW f \in Radius!Families,
               NEW k \in DOMAIN client.skts[f].skt
        PROVE  LET s == client.skts[f].skt[k]
               IN  /\ client.sock[s].st = "live" /\ client.sock[s].fam = f
                   /\ client.sock[s].count = Radius!Cardinality(Radius!Used(s))
                   /\ \A z \in Radius!Used(s) : LET q == client.q[client.sock[s].tmr[z]] IN
                                                 q.st = "active" /\ q.skt = s /\ q.id = z
    <2> DEFINE s == client.skts[f].skt[k]
    <2>1. Counts(client) /\ Lists(client) /\ Slots(client)
      BY <1>2 DEF RadiusInv, AtRest, Base
    <2>2. s \in Sockets /\ client.sock[s].st = "live" /\ client.sock[s].fam = f
      BY <1>2, <2>1 DEF Lists
    <2> HIDE DEF s
    <2>3. Radius!Used(s) = InUse(client.sock[s])
      BY DEF Radius!Used, InUse
    <2>4. client.sock[s].count = Radius!Cardinality(Radius!Used(s))
      BY <2>1, <2>2, <2>3, SameSize DEF Counts
    <2>5. ASSUME NEW z \in Radius!Used(s)
          PROVE  LET q == client.q[client.sock[s].tmr[z]] IN q.st = "active" /\ q.skt = s /\ q.id = z
      BY <2>1, <2>2 DEF Slots, Radius!Used
    <2> QED  BY <2>2, <2>4, <2>5 DEF s
  <1>3. ASSUME RadiusInv, client.wild = "none", life # "destroyed", NEW y \in Queries, client.q[y].st = "active"
        PROVE  LET q == client.q[y]
               IN  /\ q.skt # NoSkt /\ client.sock[q.skt].tmr[q.id] = y
                   /\ client.sock[q.skt].ktmr[q.id] = IF q.time = 0 THEN "off" ELSE "set"
                   /\ client.srv[q.idx].tries # 0 => q.count < client.srv[q.idx].tries
    <2>1. Named(client) /\ Armed(client, y)
      BY <1>3 DEF RadiusInv, AtRest, Base
    <2> QED  BY <1>3, <2>1 DEF Named, Armed
  <1>4. ASSUME RadiusInv PROVE Radius!SlotsOwned
    <2> SUFFICES ASSUME client.wild = "none", life # "destroyed"
                 PROVE  /\ \A f \in Radius!Families :
                              /\ client.skts[f].queries = Radius!Cardinality(Radius!UsedOf(f))
                              /\ \A k \in DOMAIN client.skts[f].skt :
                                    LET s == client.skts[f].skt[k]
                                    IN  /\ client.sock[s].st = "live" /\ client.sock[s].fam = f
                                        /\ client.sock[s].count = Radius!Cardinality(Radius!Used(s))
                                        /\ \A z \in Radius!Used(s) : LET q == client.q[client.sock[s].tmr[z]] IN
                                                                      q.st = "active" /\ q.skt = s /\ q.id = z
                        /\ \A y \in Queries : client.q[y].st = "active" =>
                              LET q == client.q[y] IN q.skt # NoSkt /\ client.sock[q.skt].tmr[q.id] = y
      BY Zenon DEF Radius!SlotsOwned
    <2>1. \A f \in Radius!Families : client.skts[f].queries = Radius!Cardinality(Radius!UsedOf(f))
      BY <1>1, <1>4
    <2>2. \A f \in Radius!Families : \A k \in DOMAIN client.skts[f].skt :
             LET s == client.skts[f].skt[k]
             IN  /\ client.sock[s].st = "live" /\ client.sock[s].fam = f
                 /\ client.sock[s].count = Radius!Cardinality(Radius!Used(s))
                 /\ \A z \in Radius!Used(s) : LET q == client.q[client.sock[s].tmr[z]] IN
                                               q.st = "active" /\ q.skt = s /\ q.id = z
      BY <1>2, <1>4
    <2>3. \A y \in Queries : client.q[y].st = "active" =>
             LET q == client.q[y] IN q.skt # NoSkt /\ client.sock[q.skt].tmr[q.id] = y
      BY <1>3, <1>4
    <2> QED  BY <2>1, <2>2, <2>3, Zenon
  <1>5. RadiusInv => Radius!TimerArmed
    BY <1>3 DEF Radius!TimerArmed
  <1>6. RadiusInv => Radius!SocketOutlivesHandler
    BY DEF RadiusInv, Radius!SocketOutlivesHandler
  <1>7. RadiusInductive => RadiusSlotsOwned
    BY <1>4, <1>5, <1>6 DEF RadiusInductive, RadiusSlotsOwned
  <1> QED  BY <1>7, RadiusAlways, PTL

(* radius_client_recv_cb(): the packet that ends a query with success      *)
(* arrived in the slot of this query and comes from a server a packet for  *)
(* it went to; one with the code of a reply answers such a packet, sent    *)
(* from the same slot.  Late, repeated or misdirected packets do not       *)
(* change that, nor who used the slot before.  Nothing more holds of a     *)
(* packet with the code of a request: radius_pkt_verify() does not tie it  *)
(* to the query, and the client does not look at the code.                 *)
THEOREM RadiusAnswersRight == Services => RadiusRightAnswer
  <1>1. ASSUME RadiusInv, NEW y \in Queries, client'.rep[y] # client.rep[y],
               NEW s \in Sockets, NEW p \in Radius!Arrivals(client, s), Radius!radius_client_recv_cb(s, p)
        PROVE  /\ client.q[y].skt = s /\ client.q[y].id = p.id /\ p.from \in client.q[y].tried
               /\ p.code = "reply" => p.req.q = y /\ Request(y, s, p)
    <2>0. client.wild = "none" /\ client.sock[s].st = "live"
      BY <1>1 DEF Radius!radius_client_recv_cb
    <2>1. Limits /\ Shape(client) /\ Reports(client)
      BY <1>1 DEF RadiusInv
    <2>2. life # "destroyed"
      <3> SUFFICES ASSUME life = "destroyed" PROVE FALSE
        OBVIOUS
      <3>1. client' = [client EXCEPT !.wild = "recv"]
        BY <1>1 DEF Radius!radius_client_recv_cb
      <3>2. client'.rep = client.rep
        BY <2>1, <3>1, WildShape
      <3> QED  BY <1>1, <3>2
    <2>3. AtRest(client)
      BY <1>1, <2>0, <2>2 DEF RadiusInv
    <2>4. Received(client', s, p)
      BY <1>1, <2>2, ReceivedIs
    <2>5. Answer(s, p)
      BY <1>1, <2>4 DEF Received
    <2> DEFINE x == client.sock[s].tmr[p.id]
               e == Radius!radius_client_query_done(client, x, "ok")
               w == [e EXCEPT !.wild = "surplus"]
    <2>6. /\ x \in Queries /\ Sound(client, x) /\ client.q[x].tried # {}
          /\ client.q[x].skt = s /\ client.q[x].id = p.id /\ p.from \in client.q[x].tried
          /\ p.code = "reply" => p.req.q = x /\ Request(x, s, p)
      BY <2>0, <2>3, <2>5, AnswerIs
    <2>7. client' = w \/ client' = e
      BY <2>4, <2>5 DEF Received
    <2> HIDE DEF x
    <2>8. AtRest(e) /\ \A z \in Queries : z # x => e.rep[z] = client.rep[z]
      BY <2>1, <2>6, DoneRests
    <2> HIDE DEF e
    <2>9. Shape(e) /\ Reports(e)
      BY <2>8 DEF AtRest, Base
    <2>10. w.rep = e.rep
      BY <2>9, WildShape
    <2> HIDE DEF w
    <2>11. y = x
      BY <1>1, <2>7, <2>8, <2>10
    <2> QED  BY <2>6, <2>11
  <1>2. RadiusInv => Radius!AnswersOwn
    BY <1>1 DEF Radius!AnswersOwn, Request
  <1>3. RadiusInductive /\ [ServicesNext]_all => [part = "radius" => Radius!AnswersOwn]_all
    BY <1>2 DEF RadiusInductive
  <1> QED  BY <1>3, RadiusAlways, PTL DEF Services, RadiusRightAnswer
==============================================================================
