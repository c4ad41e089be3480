-------------------------------- MODULE Probe --------------------------------
(***************************************************************************)
(* The `probe` command (main.rs): parse_probe_arguments and                *)
(* parse_probe_ports, resolve_probe_destination, the pool of scoped        *)
(* threads in tcp_probe_ports, and the report with its exit status.        *)
(*                                                                         *)
(* One step of a thread is one operation other threads can observe: the    *)
(* fetch_add that claims an index (with the bounds check and the start of  *)
(* the connection it decides), the end of the connection attempt, and the  *)
(* push under the results mutex.                                           *)
(***************************************************************************)
EXTENDS Naturals, Sequences, FiniteSets, Functions

CONSTANTS PortArguments,       \* the PORTS arguments to try: sequences of ranges
          Addresses,           \* IP addresses
          Destinations,        \* the address lists name resolution may return
          DefaultPort,         \* 443, used when PORTS is absent
          MaxProbePorts,       \* MAX_PROBE_PORTS
          MaxConcurrentProbes  \* MAX_CONCURRENT_PROBES

PortRange == [first : Nat, last : Nat]

(* A port token parse_probe_port rejects (0, not a number, above 65535) is *)
(* the number 0; a single port is a range of one; <<>> means no PORTS.     *)
ASSUME ProbeAssumption ==
  /\ PortArguments \subseteq Seq(PortRange)
  /\ Destinations \subseteq Seq(Addresses)
  /\ DefaultPort \in Nat \ {0}
  /\ MaxProbePorts \in Nat \ {0}
  /\ MaxConcurrentProbes \in Nat \ {0}

VARIABLES
  main,         \* where the main thread is
  argument,     \* the PORTS argument
  filter,       \* the --filter value, or "none"
  ports,        \* ProbeArguments::ports
  candidates,   \* destinations whose route was not yet looked up
  next,         \* the AtomicUsize that hands out indices
  threads,      \* the scoped threads, in spawn order
  scope,        \* thread::scope: "open", or "panicking" for want of a thread
  results,      \* the Vec behind the mutex, in push order
  report,       \* what tcp_probe_ports returns
  shown,        \* the results printed: report at the positions let through
  exit          \* "running", then the process exit status: "success" is 0,
                \* "unreachable" is 1, "error" is 2, "panic" is 101

vars == <<main, argument, filter, scope, ports, candidates, next, threads,
          results, report, shown, exit>>

Status == {"connected", "refused", "failed"}
Result == [port : Nat, status : Status]

(* A thread's locals: index is meaningful while connecting, result while   *)
(* it waits to push.                                                       *)
NoResult == [port |-> 0, status |-> "failed"]
Thread == [at : {"claim", "connect", "push", "exited"},
           index : Nat, result : Result]
NewThread == [at |-> "claim", index |-> 0, result |-> NoResult]

Reachable(r) == r.status # "failed"
-----------------------------------------------------------------------------
(* parse_probe_ports: a BTreeSet of every range, listed in ascending       *)
(* order. Every early return of the loop is an error, so the outcome does  *)
(* not depend on where the loop stops.                                     *)
SelectedPorts(arg) ==
  IF arg = <<>> THEN {DefaultPort}
  ELSE UNION {arg[i].first .. arg[i].last : i \in DOMAIN arg}

ValidArgument(arg) ==
  /\ \A i \in DOMAIN arg : arg[i].first > 0 /\ arg[i].first <= arg[i].last
  /\ Cardinality(SelectedPorts(arg)) <= MaxProbePorts

AscendingList(s, S) ==
  /\ Range(s) = S
  /\ \A i, j \in DOMAIN s : i < j => s[i] < s[j]

Init ==
  /\ main = "arguments"
  /\ argument \in PortArguments
  /\ filter \in Status \union {"none"}
  /\ ports = <<>>
  /\ candidates = <<>>
  /\ next = 0
  /\ threads = <<>>
  /\ scope = "open"
  /\ results = <<>>
  /\ report = <<>>
  /\ shown = <<>>
  /\ exit = "running"

Fail == /\ main' = "exit"
        /\ exit' = "error"
        /\ UNCHANGED <<argument, filter, scope, ports, candidates, next,
                       threads, results, report, shown>>

RejectArguments == /\ main = "arguments"
                   /\ ~ValidArgument(argument)
                   /\ Fail

AcceptArguments ==
  /\ main = "arguments"
  /\ ValidArgument(argument)
  /\ LET S == SelectedPorts(argument)
     IN  \E n \in 1..MaxProbePorts : \E list \in [1..n -> S] :
            /\ AscendingList(list, S)
            /\ ports' = list
  /\ main' = "resolve"
  /\ UNCHANGED <<argument, filter, scope, candidates, next, threads,
                 results, report, shown, exit>>

(* resolve_probe_destination: NSS fails or names no address ...            *)
ResolveFails == main = "resolve" /\ Fail

(* ... or lists some, whose routes are then looked up in order.            *)
Resolve == /\ main = "resolve"
           /\ \E list \in Destinations : candidates' = list
           /\ main' = "route"
           /\ UNCHANGED <<argument, filter, scope, ports, next, threads,
                          results, report, shown, exit>>

RouteFound == /\ main = "route"
              /\ candidates # <<>>
              /\ main' = "probe"
              /\ candidates' = <<>>
              /\ UNCHANGED <<argument, filter, scope, ports, next, threads,
                             results, report, shown, exit>>

RouteFails == /\ main = "route"
              /\ candidates # <<>>
              /\ candidates' = Tail(candidates)
              /\ UNCHANGED <<main, argument, filter, scope, ports, next,
                             threads, results, report, shown, exit>>

NoRoutableAddress == main = "route" /\ candidates = <<>> /\ Fail
-----------------------------------------------------------------------------
(* tcp_probe_ports with one port: the main thread connects itself.         *)
BeginSingle == /\ main = "probe"
               /\ Len(ports) = 1
               /\ main' = "single"
               /\ UNCHANGED <<argument, filter, scope, ports, candidates,
                              next, threads, results, report, shown, exit>>

EndSingle == /\ main = "single"
             /\ \E s \in Status :
                  report' = <<[port |-> ports[1], status |-> s]>>
             /\ main' = "report"
             /\ UNCHANGED <<argument, filter, scope, ports, candidates,
                            next, threads, results, shown, exit>>

(* One thread per port, without the cap.                                   *)
UncappedTarget == Len(ports)

(* ports.len().min(MAX_CONCURRENT_PROBES)                                  *)
PoolTarget == IF Len(ports) < MaxConcurrentProbes
              THEN Len(ports) ELSE MaxConcurrentProbes

(* The main thread spawns one more thread; earlier ones already run.       *)
Spawn == /\ main = "probe"
         /\ Len(ports) # 1
         /\ scope = "open"
         /\ Len(threads) < PoolTarget
         /\ threads' = Append(threads, NewThread)
         /\ UNCHANGED <<main, argument, filter, scope, ports, candidates,
                        next, results, report, shown, exit>>

(* scope.spawn panics when the system creates no thread ...                *)
SpawnFails == /\ main = "probe"
              /\ Len(ports) # 1
              /\ scope = "open"
              /\ Len(threads) < PoolTarget
              /\ scope' = "panicking"
              /\ UNCHANGED <<main, argument, filter, ports, candidates, next,
                             threads, results, report, shown, exit>>

(* ... and thread::scope passes the panic on, which ends the process, when *)
(* the threads that were created have returned.                            *)
Panic == /\ main = "probe"
         /\ scope = "panicking"
         /\ \A t \in DOMAIN threads : threads[t].at = "exited"
         /\ main' = "exit"
         /\ exit' = "panic"
         /\ UNCHANGED <<argument, filter, scope, ports, candidates, next,
                        threads, results, report, shown>>

(* Claim without fetch_add's atomicity: the counter is read, not advanced. *)
ClaimWithoutAdd(t) ==
  /\ threads[t].at = "claim"
  /\ threads' = [threads EXCEPT ![t] =
                   IF next < Len(ports)
                   THEN [@ EXCEPT !.at = "connect", !.index = next]
                   ELSE [@ EXCEPT !.at = "exited"]]
  /\ next' \in {next, next + 1}
  /\ UNCHANGED <<main, argument, filter, scope, ports, candidates, results,
                 report, shown, exit>>

(* Claim that goes round again instead of leaving the loop.                *)
ClaimWithoutBreak(t) ==
  /\ threads[t].at = "claim"
  /\ threads' = [threads EXCEPT ![t] =
                   IF next < Len(ports)
                   THEN [@ EXCEPT !.at = "connect", !.index = next]
                   ELSE @]
  /\ next' = next + 1
  /\ UNCHANGED <<main, argument, filter, scope, ports, candidates, results,
                 report, shown, exit>>

(* The same loop with a counter that stops at the end of the list.         *)
ClaimSpins(t) == next < Len(ports) /\ ClaimWithoutBreak(t)

(* let index = next.fetch_add(1); let Some(&port) = ports.get(index).      *)
Claim(t) ==
  /\ threads[t].at = "claim"
  /\ threads' = [threads EXCEPT ![t] =
                   IF next < Len(ports)
                   THEN [@ EXCEPT !.at = "connect", !.index = next]
                   ELSE [@ EXCEPT !.at = "exited"]]
  /\ next' = next + 1
  /\ UNCHANGED <<main, argument, filter, scope, ports, candidates, results,
                 report, shown, exit>>

(* tcp_probe returns: connected, refused, or failed (timeout included).    *)
Connect(t) ==
  /\ threads[t].at = "connect"
  /\ \E s \in Status :
       threads' = [threads EXCEPT ![t] =
                     [@ EXCEPT !.at = "push",
                               !.result =
                                 [port |-> ports[threads[t].index + 1],
                                  status |-> s]]]
  /\ UNCHANGED <<main, argument, filter, scope, ports, candidates, next,
                 results, report, shown, exit>>

(* results.lock().push(result), then round the loop.                       *)
Push(t) ==
  /\ threads[t].at = "push"
  /\ results' = Append(results, threads[t].result)
  /\ threads' = [threads EXCEPT ![t] = NewThread]
  /\ UNCHANGED <<main, argument, filter, scope, ports, candidates, next,
                 report, shown, exit>>

PoolSpawned == Len(threads) = PoolTarget

(* The rearrangements of r in which the ports ascend.                      *)
SortsOf(r) ==
  {s \in {[i \in DOMAIN r |-> r[p[i]]] : p \in Bijection(DOMAIN r, DOMAIN r)} :
     \A i, j \in DOMAIN s : i < j => s[i].port <= s[j].port}

(* A pool that is not joined before the results are taken.                 *)
TakeWithoutJoin == PoolSpawned

(* thread::scope returns when every spawned thread has returned.           *)
AllJoined == PoolSpawned /\ \A t \in DOMAIN threads : threads[t].at = "exited"

(* The end of the scope, into_inner and the sort.                          *)
Join == /\ main = "probe"
        /\ Len(ports) # 1
        /\ AllJoined
        /\ report' \in SortsOf(results)
        /\ main' = "report"
        /\ UNCHANGED <<argument, filter, scope, ports, candidates, next,
                       threads, results, shown, exit>>

(* probe and probe_json: the filter hides results, the status ignores it.  *)
Report ==
  /\ main = "report"
  /\ shown' = [i \in {i \in DOMAIN report : filter \in {"none", report[i].status}}
                |-> report[i]]
  /\ exit' = IF \E i \in DOMAIN report : Reachable(report[i]) 
             THEN "success" ELSE "unreachable"
  /\ main' = "exit"
  /\ UNCHANGED <<argument, filter, scope, ports, candidates, next, threads,
                 results, report>>
-----------------------------------------------------------------------------
MainStep == \/ RejectArguments \/ AcceptArguments
            \/ ResolveFails \/ Resolve
            \/ RouteFound \/ RouteFails \/ NoRoutableAddress
            \/ BeginSingle \/ EndSingle
            \/ Spawn \/ SpawnFails \/ Panic \/ Join \/ Report

ThreadStep(t) == Claim(t) \/ Connect(t) \/ Push(t)

Done == main = "exit" /\ UNCHANGED vars

Next == \/ MainStep
        \/ \E t \in DOMAIN threads : ThreadStep(t)
        \/ Done

Spec == Init /\ [][Next]_vars

(* The main thread and every spawned thread keep being scheduled, name     *)
(* resolution and route lookup return, and connect_timeout always returns. *)
Fairness == /\ WF_vars(MainStep)
            /\ \A t \in 1..MaxConcurrentProbes : 
                  WF_vars(t \in DOMAIN threads /\ ThreadStep(t))

FairSpec == Spec /\ Fairness
-----------------------------------------------------------------------------
(* Every variable keeps its type, and the shared counter overshoots the    *)
(* port list by at most one claim per thread, so fetch_add never wraps.    *)
TypeOK ==
  /\ main \in {"arguments", "resolve", "route", "probe", "single", "report",
              "exit"}
  /\ argument \in PortArguments
  /\ filter \in Status \union {"none"}
  /\ ports \in Seq(Nat)
  /\ candidates \in Seq(Addresses)
  /\ next \in 0..(Len(ports) + Len(threads))
  /\ threads \in Seq(Thread)
  /\ results \in Seq(Result)
  /\ report \in Seq(Result)
  /\ scope \in {"open", "panicking"}
  /\ exit \in {"running", "success", "unreachable", "error", "panic"}

Holding(t) == threads[t].at \in {"connect", "push"}

(* Every claimed index is accounted for: a thread holds it, or its result  *)
(* is in the vector, never both, never two threads and never twice. So no  *)
(* claim is lost between fetch_add and push and none is made twice.        *)
ClaimsAccounted ==
  /\ \A t \in DOMAIN threads : Holding(t) =>
       threads[t].index < next /\ threads[t].index < Len(ports)
  /\ \A t, u \in DOMAIN threads :
       Holding(t) /\ Holding(u) /\ threads[t].index = threads[u].index => t = u
  /\ \A i, j \in DOMAIN results : results[i].port = results[j].port => i = j
  /\ \A k \in DOMAIN ports :
       (\E i \in DOMAIN results : results[i].port = ports[k])
         <=> /\ k <= next
             /\ \A t \in DOMAIN threads : Holding(t) => threads[t].index + 1 # k

(* What tcp_probe_ports returns: one result for each selected port and no  *)
(* other, in ascending order, however the threads interleaved.             *)
ReportComplete ==
  main = "report" \/ exit \in {"success", "unreachable"} =>
    /\ {report[i].port : i \in DOMAIN report} = SelectedPorts(argument)
    /\ \A i, j \in DOMAIN report : i < j => report[i].port < report[j].port

(* The threads implement the abstract probe: an attempt is in flight while *)
(* its thread waits in tcp_probe, and its result counts from the moment    *)
(* tcp_probe returns, pushed or not.                                       *)
InFlight == {ports[threads[t].index + 1] :
               t \in {u \in DOMAIN threads : threads[u].at = "connect"}}
            \union (IF main = "single" THEN {ports[1]} ELSE {})

Probed == Range(results) \union Range(report)
          \union {threads[t].result :
                    t \in {u \in DOMAIN threads : threads[u].at = "push"}}

Abstract == INSTANCE ProbeSpec
              WITH wanted <- Range(ports), inflight <- InFlight,
                   probed <- Probed

(* Every port is probed exactly once, never more than MaxConcurrentProbes  *)
(* at a time, nothing is reported early, and the exit status reflects all  *)
(* attempts and not only the displayed ones.                               *)
ImplementsProbeSpec == Abstract!Spec

(* The command ends: no port list, filter or interleaving leaves the main  *)
(* thread waiting for a thread that never returns.                         *)
Termination == <>(main = "exit")
=============================================================================
