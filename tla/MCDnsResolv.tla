---------------------------- MODULE MCDnsResolv ----------------------------
(* Instances of DnsResolv for TLC. *)
EXTENDS DnsResolv

World(a, b) == [x \in {"a", "b"} |-> IF x = "a" THEN a ELSE b]

\* Two requests with two servers, two where calls fail, and three, so that a
\* queue has two tasks, for the same name; aliases without end.
Many ==
    [world : {World("b", "addr")}, slots : {3}, servers : {2}, retries : {1},
     fails : {FALSE}, requests : {2}, asked : {{"a", "b"}}]
    \cup
    [world : {World("b", "addr"), World("addr", "addr"), World("b", "none")},
     slots : {3}, servers : {2}, retries : {0},
     fails : {TRUE}, requests : {2}, asked : {{"a", "b"}}]
    \cup
    [world : {World("b", "addr")}, slots : {4}, servers : {1}, retries : {0},
     fails : {FALSE}, requests : {3}, asked : {{"a"}}]
    \cup
    [world : {World("b", "a"), World("a", "addr")}, slots : {2}, servers : {1}, retries : {0},
     fails : {FALSE}, requests : {2}, asked : {{"a", "b"}}]
=============================================================================
