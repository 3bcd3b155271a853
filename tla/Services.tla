------------------------------ MODULE Services ------------------------------
(***************************************************************************)
(* The network services and what they listen with: the listening tasks     *)
(* (TpAccept), the HTTP server, the RADIUS client, the SSDP announcer and  *)
(* the SAP receiver.  The services share no state.  A behaviour runs the   *)
(* one that `part' names from its own initial states, by its own actions;  *)
(* the variables of the others are switched off (TpAccept stays where it   *)
(* begins, with one thread).                                               *)
(***************************************************************************)
EXTENDS TpAccept, Integers, Sequences, FiniteSets

CONSTANTS
    Binds, Clients, INIT_SIZE, MAX_SIZE, HOST_CHECK,                    \* HTTP
    Queries, Sockets, Ids, Servers, Addrs, SktLimits, NoQuery, NoSkt,   \* RADIUS
    Devs, Ifs, Links, MaxSvc, Protos, Urls,                             \* SSDP
    Packets, SAP_MIN_PAYLOAD, SAP_HDR_SIZE, ADDR_SIZES,                 \* SAP
    SDP_MIN_SIZE, MEDIA_MIN_SIZE, ADDR_MIN_SIZE,
    CACHE_TIME, CLEAN_INTERVAL, MaxTime, Buckets, hash_fn(_),
    Off                                                                 \* no state

VARIABLES part,
          srv, cli, net,                            \* HTTP
          client, msgs, limits, life,               \* RADIUS
          ssdp,                                     \* SSDP
          dcache, next_clean_time, now, heard       \* SAP

Http   == INSTANCE HttpServer
Radius == INSTANCE RadiusClient WITH cli <- client
Ssdp   == INSTANCE UpnpSsdp
Sap    == INSTANCE SapRcvr

\* A client sends requests; len is -1 where it says no Content-Length, and no more
\* than the body that follows where it does: a request ends where it says.
ASSUME HttpAssumption ==
    /\ Clients \subseteq Seq([m : STRING, body : Nat, len : Nat \cup {-1}, close : BOOLEAN, host : STRING])
    /\ \A reqs \in Clients : \A k \in 1 .. Len(reqs) : reqs[k].len <= reqs[k].body

\* A socket has a slot per packet id, and there is a name for every socket the
\* settings allow, of either family.
ASSUME RadiusAssumption ==
    /\ IsFiniteSet(Sockets) /\ IsFiniteSet(Ids) /\ Ids \subseteq Nat
    /\ NoQuery \notin Queries /\ "destroy" \notin Queries /\ NoSkt \notin Sockets /\ "none" \notin Addrs
    /\ Servers \in Seq([enabled : BOOLEAN, addr : Addrs, family : Radius!Families, init : Nat, max : Nat,
                        duration : Nat, tries : Nat])
    /\ SktLimits \subseteq Nat \X Nat
    /\ \A l \in SktLimits : 2 * Radius!Created(l[1], l[2]).max <= Cardinality(Sockets)

\* A session is looked up in a bucket that exists; times are counted in seconds.
ASSUME SapAssumption ==
    /\ \A p \in Packets : hash_fn(Sap!sdp_msg_type_get(p.msg, "o")) \in Buckets
    /\ CACHE_TIME \in Nat /\ CLEAN_INTERVAL \in Nat

Parts == {"accept", "http", "radius", "ssdp", "sap"}

-----------------------------------------------------------------------------
HttpVars   == <<srv, cli, net>>
RadiusVars == <<client, msgs, limits, life>>
SapVars    == <<dcache, next_clean_time, now, heard>>
all == <<part, vars, HttpVars, RadiusVars, ssdp, SapVars>>

HttpOff   == srv = Off /\ cli = Off /\ net = Off
RadiusOff == client = Off /\ msgs = Off /\ limits = Off /\ life = Off
SapOff    == dcache = Off /\ next_clean_time = Off /\ now = Off /\ heard = Off

ServicesInit ==
    /\ part \in Parts
    /\ Init /\ (part # "accept" => n = 1 /\ ~close)
    /\ IF part = "http" THEN Http!Init ELSE HttpOff
    /\ IF part = "radius" THEN Radius!Init ELSE RadiusOff
    /\ IF part = "ssdp" THEN Ssdp!Init ELSE ssdp = Off
    /\ IF part = "sap" THEN Sap!Init ELSE SapOff

AcceptStep == part = "accept" /\ Next /\ UNCHANGED <<part, HttpVars, RadiusVars, ssdp, SapVars>>
HttpStep   == part = "http" /\ Http!Next /\ UNCHANGED <<part, vars, RadiusVars, ssdp, SapVars>>
RadiusStep == part = "radius" /\ Radius!Next /\ UNCHANGED <<part, vars, HttpVars, ssdp, SapVars>>
SsdpStep   == part = "ssdp" /\ Ssdp!Next /\ UNCHANGED <<part, vars, HttpVars, RadiusVars, SapVars>>
SapStep    == part = "sap" /\ Sap!Next /\ UNCHANGED <<part, vars, HttpVars, RadiusVars, ssdp>>

ServicesNext == AcceptStep \/ HttpStep \/ RadiusStep \/ SsdpStep \/ SapStep

Services == ServicesInit /\ [][ServicesNext]_all

-----------------------------------------------------------------------------
(* The properties of the parts; those of TpAccept have their own names.    *)

\* HTTP requests are handled and answered one after the other in the order the
\* client sent them, none twice, whatever was pipelined, kept by the user's
\* callback or written in parts (http_srv_recv_done_cb(), http_srv_cli_next_req()).
\* None is passed over, but for one that an error page in the receive buffer was
\* written over (http_srv_snd()), and then the connection closes.  After a response
\* that says "Connection: close" none is taken from the connection any more.
HttpInOrder == part = "http" => Http!InOrder /\ Http!CloseIsFinal

\* An HTTP connection the user does not hold is attended: its task waits for
\* the socket or its timer runs, so that it is used or freed in the end
\* (http_srv_send_responce(), http_srv_snd_done_cb()).  The one exception: with
\* rcv_timeout 0, a connection that has answered a request and has the headers of
\* an incomplete next one in its buffer; it is neither read nor timed any more.
HttpAttended == part = "http" => Http!Attended

\* A RADIUS query in the hands of the thread sits in exactly the slot it names,
\* a slot names a query that still exists, and the counters that decide about
\* freeing a socket count the slots in use (radius_client_query_unlink_skt()).  It
\* has tries left and a running timer, so that it ends without an answer too; and
\* without surplus sockets no handler goes on with a socket it has freed.
RadiusSlotsOwned ==
    part = "radius" => Radius!SlotsOwned /\ Radius!TimerArmed /\ Radius!SocketOutlivesHandler

\* A RADIUS query is reported at most once, not at all after a cancel in time,
\* and with success only if a packet was sent for it, whichever late or repeated
\* answers and timers race (radius_client_query_done()).
RadiusReportedOnce == part = "radius" => Radius!ReportedOnce

\* The packet that ends a RADIUS query with success arrived in this query's slot
\* from a server the query was sent to, and, if its code is that of a reply, it
\* answers a packet sent for this query from the same slot to the same server
\* (radius_client_recv_cb()).  Of a packet with the code of a request the first part
\* is all that can be said: radius_pkt_verify() does not tie it to the query.
RadiusRightAnswer == [][part = "radius" => Radius!AnswersOwn]_all

\* With byebye on, what the network was told of a device on any interface and
\* group is taken back when the device goes, with the services it had, and
\* searches are answered only for devices and services that exist
\* (upnp_ssdp_dev_del(), upnp_ssdp_mc_recv_cb()).  The two arrays that know the
\* link between a device and an interface agree and know no freed one.
SsdpNoGhost == part = "ssdp" => Ssdp!NoGhost /\ Ssdp!LinksAgree

\* A SAP session has one item in the cache and is not dropped before it has been
\* silent for the cache time and the clean interval, whichever announcement
\* starts the cleaning (sap_receiver_recv_cb(), data_cache_clean()).
SapSessionsKept == part = "sap" => Sap!SessionsKept
=============================================================================
