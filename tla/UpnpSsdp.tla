------------------------------ MODULE UpnpSsdp ------------------------------
(***************************************************************************)
(* The UPnP SSDP announcer of src/src/proto/upnp_ssdp.c: root devices with *)
(* their services and announce timers, network interfaces with their       *)
(* multicast memberships, and the links between a device and an interface, *)
(* each kept in two arrays; the order of these two is of no account, so    *)
(* they are sets.  Datagrams are abstracted to what they tell a listener:  *)
(* <<device, interface, group, notification type>> is there (alive) or is  *)
(* not (byebye).                                                           *)
(***************************************************************************)
EXTENDS Integers, Sequences, SequencesExt

CONSTANTS Devs,         \* devices the user may add
          Ifs,          \* network interfaces
          Links,        \* identities of upnp_ssdp_dev_if_t objects
          MaxSvc,       \* services per device
          Protos,       \* sets of protocols the settings may switch on
          Urls          \* protocols a device may have a URL for on an interface

VARIABLES ssdp          \* upnp_ssdp_t and everything it points to

vars == ssdp

\* The multicast groups of a protocol, and of all that are switched on.
Groups(f) == IF f = "v4" THEN {"v4"} ELSE {"site", "link"}
Family(g) == IF g = "v4" THEN "v4" ELSE "v6"
AllGroups(s) == UNION {Groups(f) : f \in s.proto}

\* upnp_ssdp_create() with the protocols and the byebye flag of the settings.
Created(proto, byebye) ==
    [st |-> "running", proto |-> proto, byebye |-> byebye,
     root_devs |-> <<>>, s_ifs |-> <<>>,
     dev_ifs |-> [d \in Devs |-> {}], if_devs |-> [i \in Ifs |-> {}],
     link |-> [l \in Links |-> <<>>], services |-> [d \in Devs |-> 0],
     timers |-> {}, joined |-> {}, known |-> {}]

upnp_ssdp_get_if_by_index(s, i) == i \in Range(s.s_ifs)

-----------------------------------------------------------------------------
(* Sending. *)

\* The notification types of a device: root, uuid, device type, its services.
ROOT == -3
UUID == -2
TYPE == -1
NotifyTypes(s, d) == {ROOT, UUID, TYPE} \cup (1..s.services[d])

\* upnp_ssdp_send() through link l to group g: nothing without a URL for the
\* protocol, otherwise the datagrams, one for each of the types nts.
upnp_ssdp_send(s, l, g, nts) ==
    LET k == s.link[l]
    IN  IF Family(g) \notin s.proto \/ Family(g) \notin k.urls THEN {}
        ELSE {<<k.dev, k.ifc, g, nt>> : nt \in nts}

\* upnp_ssdp_dev_notify_sendto(): every interface of the device.
upnp_ssdp_dev_notify_sendto(s, d, g) ==
    UNION {upnp_ssdp_send(s, l, g, NotifyTypes(s, d)) : l \in s.dev_ifs[d]}

\* upnp_ssdp_dev_notify_sendto_mc(): every group, and what listeners then know.
Datagrams(s, d) == UNION {upnp_ssdp_dev_notify_sendto(s, d, g) : g \in AllGroups(s)}
upnp_ssdp_dev_notify_sendto_mc(s, d, action) ==
    [s EXCEPT !.known = IF action = "alive" THEN @ \cup Datagrams(s, d) ELSE @ \ Datagrams(s, d)]

\* upnp_ssdp_iface_notify_ex() for byebye: every device of the interface.
IfaceByebye(s, i, g) ==
    UNION {upnp_ssdp_send(s, l, g, NotifyTypes(s, s.link[l].dev)) : l \in s.if_devs[i]}

(* What a search for target st is answered with through link l: "all",
   "root", <<"uuid", device>>, <<"dev", type, version>>, <<"svc", number>>.  A
   device of type d answers for its version (2) and older ones. *)
Matches(s, l, st) ==
    LET d == s.link[l].dev
    IN  CASE st[1] = "all" -> NotifyTypes(s, d)
          [] st[1] = "root" -> {ROOT}
          [] st[1] = "uuid" -> IF st[2] = d THEN {UUID} ELSE {}
          [] st[1] = "dev" -> IF st[2] = d /\ st[3] <= 2 THEN {TYPE} ELSE {}
          [] st[1] = "svc" -> {st[2]} \cap (1..s.services[d])

-----------------------------------------------------------------------------
(* Adding and removing. *)

\* Swap-with-last removal from an array.
Drop(seq, x) ==
    IF x \notin Range(seq) THEN seq
    ELSE LET i == CHOOSE j \in 1..Len(seq) : seq[j] = x
         IN  SubSeq([seq EXCEPT ![i] = seq[Len(seq)]], 1, Len(seq) - 1)

\* upnp_ssdp_dev_if_del() of the links ls: off the arrays of their interfaces, or
\* of their devices, and freed.  The caller frees the other array itself.
OffInterfaces(s, ls) == [i \in Ifs |-> {l \in s.if_devs[i] : ~(l \in ls /\ s.link[l].ifc = i)}]
OffDevices(s, ls) == [d \in Devs |-> {l \in s.dev_ifs[d] : ~(l \in ls /\ s.link[l].dev = d)}]
LinksFreed(s, ls) == [l \in Links |-> IF l \in ls THEN <<>> ELSE s.link[l]]

\* upnp_ssdp_if_add(): joins all groups, or leaves them again.
Joined(s, i) == [s EXCEPT !.joined = @ \cup {<<i, g>> : g \in AllGroups(s)},
                          !.s_ifs = Append(@, i)]

\* upnp_ssdp_if_del(): the farewell, the groups, the arrays, the links.
upnp_ssdp_if_del(s, i) ==
    LET bye == UNION {IfaceByebye(s, i, g) : g \in AllGroups(s)}
    IN  [s EXCEPT !.known = IF s.byebye THEN @ \ bye ELSE @,
                  !.joined = @ \ {<<i, g>> : g \in AllGroups(s)},
                  !.s_ifs = Drop(@, i),
                  !.dev_ifs = OffDevices(s, s.if_devs[i]),
                  !.link = LinksFreed(s, s.if_devs[i]),
                  !.if_devs[i] = {}]

\* Mutation: the services are freed before the farewell.
DevDeleted_ServicesFirst(s, d) ==
    LET quiet == [s EXCEPT !.timers = @ \ {d}, !.services[d] = 0]
        bye == IF s.byebye THEN upnp_ssdp_dev_notify_sendto_mc(quiet, d, "byebye") ELSE quiet
    IN  [bye EXCEPT !.root_devs = Drop(@, d), !.if_devs = OffInterfaces(s, s.dev_ifs[d]),
                    !.link = LinksFreed(s, s.dev_ifs[d]), !.dev_ifs[d] = {}]

\* upnp_ssdp_dev_del(): the timer, the farewell, the arrays, the links, the services.
DevDeleted(s, d) ==
    LET quiet == [s EXCEPT !.timers = @ \ {d}]
        bye == IF s.byebye THEN upnp_ssdp_dev_notify_sendto_mc(quiet, d, "byebye") ELSE quiet
    IN  [bye EXCEPT !.root_devs = Drop(@, d), !.if_devs = OffInterfaces(s, s.dev_ifs[d]),
                    !.link = LinksFreed(s, s.dev_ifs[d]), !.dev_ifs[d] = {}, !.services[d] = 0]

\* upnp_ssdp_destroy(): both loops count up over an array that shrinks, so the
\* element moved into the freed place is passed over.
Indexes(seq) == [k \in DOMAIN seq |-> k]
DevsDestroyed(s) ==
    FoldLeft(LAMBDA t, k : IF k > Len(t.root_devs) THEN t ELSE DevDeleted(t, t.root_devs[k]),
             s, Indexes(s.root_devs))
IfsDestroyed(s) ==
    FoldLeft(LAMBDA t, k : IF k > Len(t.s_ifs) THEN t ELSE upnp_ssdp_if_del(t, t.s_ifs[k]),
             s, Indexes(s.s_ifs))

-----------------------------------------------------------------------------
(* Actions: the API and the two callbacks. *)

Running == ssdp.st = "running"

upnp_ssdp_dev_add(d) ==
    /\ Running /\ d \notin Range(ssdp.root_devs)
    /\ ssdp' = [ssdp EXCEPT !.root_devs = Append(@, d), !.timers = @ \cup {d}]

upnp_ssdp_dev_del(d) ==
    /\ Running /\ d \in Range(ssdp.root_devs)
    /\ ssdp' = DevDeleted(ssdp, d)

upnp_ssdp_svc_add(d) ==
    /\ Running /\ d \in Range(ssdp.root_devs) /\ ssdp.services[d] < MaxSvc
    /\ ssdp' = [ssdp EXCEPT !.services[d] = @ + 1]

\* upnp_ssdp_dev_if_add(): the interface is added when it is new.  A failed
\* allocation after that leaves the new interface without links.
upnp_ssdp_dev_if_add(d, i, l, urls) ==
    /\ Running /\ d \in Range(ssdp.root_devs)
    /\ ssdp.link[l] = <<>>
    /\ LET s == IF upnp_ssdp_get_if_by_index(ssdp, i) THEN ssdp ELSE Joined(ssdp, i)
       IN  \/ ssdp' = [s EXCEPT !.link[l] = [dev |-> d, ifc |-> i, urls |-> urls],
                                !.dev_ifs[d] = @ \cup {l}, !.if_devs[i] = @ \cup {l}]
           \/ s # ssdp /\ ssdp' = s

\* upnp_ssdp_timer_cb(): the periodic announcement; upnp_ssdp_send_notify()
\* makes the same for every device at once.
upnp_ssdp_timer_cb(d) ==
    /\ Running /\ d \in ssdp.timers
    /\ ssdp' = upnp_ssdp_dev_notify_sendto_mc(ssdp, d, "alive")

upnp_ssdp_send_notify ==
    /\ Running
    /\ ssdp' = [ssdp EXCEPT !.known = @ \cup UNION {Datagrams(ssdp, d) : d \in Range(ssdp.root_devs)}]

\* upnp_ssdp_mc_recv_cb(): an M-SEARCH for st that came in through interface i
\* over protocol f is answered, by unicast, for every matching link of the
\* interface.  The answers change nothing here.
Answers(i, f, st) ==
    UNION {{<<ssdp.link[l].dev, nt>> : nt \in Matches(ssdp, l, st)} :
             l \in {k \in ssdp.if_devs[i] : upnp_ssdp_get_if_by_index(ssdp, i)
                                                  /\ f \in ssdp.proto \cap ssdp.link[k].urls}}

upnp_ssdp_mc_recv_cb(i, f, st) ==
    /\ Running /\ Answers(i, f, st) # {}
    /\ UNCHANGED ssdp

\* Of ssdp_t nothing is left; the listeners know what they were told, and what
\* was passed over stays in memory.
upnp_ssdp_destroy ==
    /\ Running
    /\ LET end == IfsDestroyed(DevsDestroyed(ssdp))
       IN  ssdp' = [ssdp EXCEPT !.st = "destroyed", !.root_devs = end.root_devs, !.s_ifs = end.s_ifs,
                                !.dev_ifs = end.dev_ifs, !.if_devs = end.if_devs, !.link = end.link,
                                !.services = end.services, !.timers = end.timers,
                                !.joined = {}, !.known = end.known]

Targets == {<<"all">>, <<"root">>} \cup ({"uuid"} \X Devs)
           \cup ({"dev"} \X Devs \X (2..3)) \cup ({"svc"} \X (1..MaxSvc))

Init == \E proto \in Protos, byebye \in BOOLEAN : ssdp = Created(proto, byebye)

Next ==
    \/ \E d \in Devs :
         \/ upnp_ssdp_dev_add(d)
         \/ upnp_ssdp_dev_del(d)
         \/ upnp_ssdp_svc_add(d)
         \/ upnp_ssdp_timer_cb(d)
         \/ \E i \in Ifs, l \in Links, urls \in Urls : upnp_ssdp_dev_if_add(d, i, l, urls)
    \/ upnp_ssdp_send_notify
    \/ \E i \in Ifs, f \in {"v4", "v6"}, st \in Targets : upnp_ssdp_mc_recv_cb(i, f, st)
    \/ upnp_ssdp_destroy

Spec == Init /\ [][Next]_vars

-----------------------------------------------------------------------------
(* Properties. *)

\* The two arrays a link is kept in agree and hold no freed link: a link is in
\* the array of its device exactly when it is in the array of its interface, and
\* both ends exist (upnp_ssdp_dev_del(), upnp_ssdp_dev_if_del()).
Live(l) == ssdp.link[l] # <<>>
LinksAgree ==
    Running =>
    /\ \A d \in Devs : \A l \in ssdp.dev_ifs[d] :
         Live(l) /\ ssdp.link[l].dev = d /\ l \in ssdp.if_devs[ssdp.link[l].ifc]
    /\ \A i \in Ifs : \A l \in ssdp.if_devs[i] :
         /\ Live(l) /\ ssdp.link[l].ifc = i /\ l \in ssdp.dev_ifs[ssdp.link[l].dev]
         /\ i \in Range(ssdp.s_ifs) /\ ssdp.link[l].dev \in Range(ssdp.root_devs)

\* With the byebye setting the network knows of a device only while it exists:
\* what was announced on any interface and group, with the services it had then,
\* is taken back when the device goes (upnp_ssdp_dev_del()); and searches are
\* answered only for devices and services that exist.
NoGhost ==
    Running =>
    /\ ssdp.byebye =>
         \A k \in ssdp.known : k[1] \in Range(ssdp.root_devs) /\ <<k[2], k[3]>> \in ssdp.joined
    /\ \A i \in Ifs, f \in ssdp.proto : \A a \in Answers(i, f, <<"all">>) :
         a[1] \in Range(ssdp.root_devs) /\ a[2] \in NotifyTypes(ssdp, a[1])
=============================================================================
