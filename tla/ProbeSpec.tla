------------------------------ MODULE ProbeSpec ------------------------------
(***************************************************************************)
(* What `networkrs probe HOST [PORTS]` promises, without threads: every    *)
(* selected port is tried exactly once, at most MaxConcurrentProbes        *)
(* attempts are open at a time, nothing is reported before every attempt   *)
(* has ended, the report is ascending, and the exit status tells whether   *)
(* any attempt reached the host, shown or hidden by --filter.              *)
(***************************************************************************)
EXTENDS Naturals, Sequences, FiniteSets, Functions

CONSTANT MaxConcurrentProbes  \* MAX_CONCURRENT_PROBES

VARIABLES wanted,    \* the selected ports, {} until the arguments are accepted
          inflight,  \* ports whose connection attempt is open
          probed,    \* the results of the ended attempts
          shown,     \* the results the user sees, by position
          exit       \* "running", then the exit status

vars == <<wanted, inflight, probed, shown, exit>>

Status == {"connected", "refused", "failed"}

PortsOf(results) == {r.port : r \in results}

(* A refused connection still proves that the host answered.               *)
IsReachable(r) == r.status # "failed"

StrictlyAscending(s) == \A i, j \in DOMAIN s : i < j => s[i].port < s[j].port

-----------------------------------------------------------------------------
Init == /\ wanted = {}
        /\ inflight = {}
        /\ probed = {}
        /\ shown = <<>>
        /\ exit = "running"

(* The arguments are accepted.                                             *)
Accept == /\ exit = "running"
          /\ wanted = {}
          /\ wanted' \in SUBSET Nat
          /\ wanted' # {}
          /\ UNCHANGED <<inflight, probed, shown, exit>>

(* Bad arguments or an unusable destination: no attempt was ever made.     *)
Reject == /\ exit = "running"
          /\ inflight = {}
          /\ probed = {}
          /\ exit' = "error"
          /\ UNCHANGED <<wanted, inflight, probed, shown>>

Start(p) == /\ exit = "running"
            /\ p \in wanted \ (inflight \union PortsOf(probed))
            /\ Cardinality(inflight) < MaxConcurrentProbes
            /\ inflight' = inflight \union {p}
            /\ UNCHANGED <<wanted, probed, shown, exit>>

Finish(p, status) ==
  /\ exit = "running"
  /\ p \in inflight
  /\ inflight' = inflight \ {p}
  /\ probed' = probed \union {[port |-> p, status |-> status]}
  /\ UNCHANGED <<wanted, shown, exit>>

Matching(filter) == {r \in probed : filter \in {"none", r.status}}

Report(filter) ==
  /\ exit = "running"
  /\ wanted # {}
  /\ PortsOf(probed) = wanted
  /\ inflight = {}
  /\ StrictlyAscending(shown')
  /\ Range(shown') = Matching(filter)
  /\ exit' = IF \E r \in probed : IsReachable(r) THEN "success" ELSE "unreachable"
  /\ UNCHANGED <<wanted, inflight, probed>>

(* The command dies, for want of a thread, with no attempt left open.      *)
Die == /\ exit = "running"
       /\ wanted # {}
       /\ inflight = {}
       /\ exit' = "panic"
       /\ UNCHANGED <<wanted, inflight, probed, shown>>

Next == \/ Accept
        \/ Reject
        \/ Die
        \/ \E p \in wanted : Start(p)
        \/ \E p \in inflight, status \in Status : Finish(p, status)
        \/ \E filter \in Status \union {"none"} : Report(filter)

Spec == Init /\ [][Next]_vars
=============================================================================
