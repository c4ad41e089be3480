---------------------------- MODULE MCNetlinkDump ----------------------------
(* Tables large enough for a dump of several passes, with a change between *)
(* any two of them.                                                        *)
EXTENDS NetlinkDump

Rec(i, c) == [id |-> i, class |-> c]

MCRecords == {Rec(1, "link"), Rec(2, "link"), Rec(3, "link"), Rec(4, "link"),
              Rec(5, "ipv4"), Rec(6, "ipv6"), Rec(7, "ipv4"), Rec(8, "ipv6"),
              Rec(9, "tcp4"), Rec(10, "udp4"), Rec(11, "tcp6"), Rec(12, "udp6")}
=============================================================================
