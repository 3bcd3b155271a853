---------------------------- MODULE MCServices -----------------------------
(***************************************************************************)
(* Values, for TLC, of the constants of Services.                          *)
(***************************************************************************)
EXTENDS Services, TLC

-----------------------------------------------------------------------------
(* HTTP: seven clients.  They pipeline, send bodies that fit into the      *)
(* receive buffer, need it grown or are too large, leave out               *)
(* Content-Length, ask for the close, name other hosts, send garbage.      *)
Get     == [m |-> "get", body |-> 0, len |-> -1, close |-> FALSE, host |-> "ok"]
Post(b) == [Get EXCEPT !.m = "post", !.body = b, !.len = b]
HttpClients ==
    { <<Get, Post(2), Get>>,
      <<Post(1), [Get EXCEPT !.host = "mismatch"], [Post(6) EXCEPT !.m = "unknown"]>>,
      <<[Get EXCEPT !.host = "loopback"], Post(1), [Get EXCEPT !.close = TRUE], Get>>,
      <<Post(5), Get>>,
      <<Post(9), Get>>,
      <<Get, [Post(1) EXCEPT !.len = -1]>>,
      <<Post(1), [Get EXCEPT !.m = "bad"], Get>> }

-----------------------------------------------------------------------------
(* RADIUS: two queries, a server of each family with two tries, sockets    *)
(* with two ids, with and without room for a surplus socket.               *)
Server(addr, family) == [enabled |-> TRUE, addr |-> addr, family |-> family,
                         init |-> 1, max |-> 1, duration |-> 2, tries |-> 2]
RadiusServers == <<Server("a1", "v4"), Server("a2", "v6")>>
RadiusLimits == {<<1, 1>>, <<0, 2>>}

-----------------------------------------------------------------------------
(* SSDP: two devices of up to one service, two interfaces, two links.      *)
SsdpProtos == {{"v4"}, {"v6"}}
SsdpUrls == {{"v4", "v6"}}

-----------------------------------------------------------------------------
(* SAP: three sessions announced by good packets, by packets without a     *)
(* usable address or media line, and by ones that are to be refused.       *)
Word(text, size) == [text |-> text, size |-> size, pton |-> "no"]
Addr(text, size, f) == [text |-> text, size |-> size, pton |-> f]
Line(type, words) == [type |-> type, fields |-> words, chars |-> TRUE]
Media(kind, proto) == Line("m", <<Word(kind, 5), Word("5000", 4), Word(proto, 3), Word("33", 2)>>)
NoFormat == Line("m", <<Word("audio", 5), Word("5000", 4), Word("udp", 3)>>)
Conn(family) == Line("c", <<Word("IN", 2), Word(family, 3), Addr("239.1.1.1", 9, "IP4")>>)
Message(o, m, c) == <<Line("v", <<Word("0", 1)>>), Line("o", <<Word(o, 6)>>),
                      Line("s", <<Word("name", 4)>>), c, Line("t", <<Word("0", 1)>>), m>>
Good == Message("o1", Media("video", "udp"), Conn("IP4"))
Packet(msg, v, e) == [size |-> 100, v |-> v, e |-> e, c |-> 0, a |-> 0, auth_len |-> 0,
                      msg_id_hash |-> 7, msg |-> msg]
Announcements ==
    {Packet(Message(o, m, c), 1, 0) : o \in {"o1", "o2"}, m \in {Media("video", "udp"), NoFormat},
                                      c \in {Conn("IP4"), Conn("IP6")}}
    \cup {Packet(Message("o3", Media("audio", "RTP/AVP"), Conn("IP4")), 1, 0),
          Packet(Message("o3", Media("text", "udp"), Conn("IP4")), 1, 0),
          Packet([Good EXCEPT ![2].fields = <<Word("", 0)>>], 1, 0),
          Packet(Good, 2, 0), Packet(Good, 1, 1), Packet(Tail(Good), 1, 0),
          Packet(Good \o <<Line("o", <<Word("x", 3)>>)>>, 1, 0)}
SapHash(key) == IF key[1].text = "o1" THEN 0 ELSE 1
SapAddrSizes == [a \in {0, 1} |-> IF a = 0 THEN 4 ELSE 16]

Symmetry == Permutations(Queries)
=============================================================================
