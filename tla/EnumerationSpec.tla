-------------------------- MODULE EnumerationSpec --------------------------
(***************************************************************************)
(* What wifi::interfaces and ethtool::devices promise, without a socket:   *)
(* once the required steps are done, every query of every interface is     *)
(* made exactly once. A query that fails costs only its own fields: they   *)
(* are never there unless the kernel answered it, and while the socket     *)
(* works they are there whenever it did. Only before the first query can   *)
(* the call fail.                                                          *)
(***************************************************************************)
CONSTANTS Indexes,   \* interface indexes
          Loopback   \* the interfaces with the loopback flag

VARIABLES tool,      \* "wifi" or "ethtool"
          stage,     \* "required" until the required steps are done, then
                     \* "queries"; at last "ok" or "error"
          devices,   \* the interfaces that are returned
          pending,   \* the queries still to be made or answered
          heard,     \* the queries the kernel answered usefully
          filled,    \* the queries whose fields have a value
          reliable   \* whether every call of the socket has succeeded

vars == <<tool, stage, devices, pending, heard, filled, reliable>>

QueriesFor == [wifi |-> {"scan", "station", "power"},
               ethtool |-> {"linkinfo", "linkmodes", "features", "eee", "stats"}]

(* The queries of the interfaces s.                                        *)
QueriesAbout(s) == [command : QueriesFor[tool], index : s]
-----------------------------------------------------------------------------
Init == /\ tool \in {"wifi", "ethtool"}
        /\ stage = "required"
        /\ devices = {}
        /\ pending = {}
        /\ heard = {}
        /\ filled = {}
        /\ reliable = TRUE

(* The last of the required steps succeeds.                                *)
Enumerate ==
  /\ stage = "required"
  /\ stage' = "queries"
  /\ devices' \in SUBSET (Indexes \ Loopback)
  /\ pending' = QueriesAbout(devices')
  /\ UNCHANGED <<tool, heard, filled, reliable>>

(* A required step fails.                                                  *)
Fail == /\ stage = "required"
        /\ stage' = "error"
        /\ UNCHANGED <<tool, devices, pending, heard, filled, reliable>>

(* The kernel answers a query, after a failure perhaps one that was given  *)
(* up.                                                                     *)
Hear(q) == /\ stage = "queries"
           /\ reliable => q \in pending
           /\ heard' = heard \union {q}
           /\ UNCHANGED <<tool, stage, devices, pending, filled, reliable>>

(* A query is over: its fields are filled or stay empty.                   *)
Settle(q) ==
  /\ stage = "queries"
  /\ q \in pending
  /\ pending' = pending \ {q}
  /\ filled' \in {filled, filled \union {q}}
  /\ q \in filled' => q \in heard
  /\ reliable => (q \in heard => q \in filled')
  /\ UNCHANGED <<tool, stage, devices, heard, reliable>>

(* A call of the socket fails.                                             *)
Break == /\ reliable' = FALSE
         /\ UNCHANGED <<tool, stage, devices, pending, heard, filled>>

Return == /\ stage = "queries"
          /\ pending = {}
          /\ stage' = "ok"
          /\ UNCHANGED <<tool, devices, pending, heard, filled, reliable>>

Next == \/ Enumerate
        \/ Fail
        \/ \E q \in QueriesAbout(devices) : Hear(q) \/ Settle(q)
        \/ Break
        \/ Return

Spec == Init /\ [][Next]_vars
=============================================================================
