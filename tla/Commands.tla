------------------------------ MODULE Commands ------------------------------
(***************************************************************************)
(* The command line: run and run_json of main.rs. One command is           *)
(* dispatched per process, runs to its end, and the way it ended becomes   *)
(* the exit status. The commands whose own logic is small enough to share  *)
(* one state space are composed here: scan with the reverse lookups that   *)
(* end it, traffic, check, sockets, the bit sets of hardware, and the      *)
(* overview that is printed without a command. A command that was not      *)
(* dispatched keeps its initial state.                                     *)
(***************************************************************************)
EXTENDS Naturals, Sequences, FiniteSets

CONSTANTS Dispatched,  \* bound: the commands that may be given
          Width, MaxTargets, Hosts, Tables, Retries, Exclusions,
          MaxWorkers, MaxAddresses,
          Links, PlainFiles, Lifetimes, MaxRate, MaxTraffic, MaxChurn,
          Interfaces, RouteTables, ServerLists, MaxFlaps,
          Pids, Programs, Catalog, Orphans, MaxTurnover,
          Bits, ByteBits

(* Bytes have bits; MAX_WORKERS is 8 and a list of addresses has a length. *)
ASSUME BitsetAssumption == Bits \in Nat /\ ByteBits \in Nat \ {0}
ASSUME ResolverAssumption == MaxWorkers \in Nat \ {0} /\ MaxAddresses \in Nat

(* Names are ordered, and no counter of the kernel reaches its maximum.    *)
ASSUME TrafficAssumption ==
  /\ Links \subseteq Nat /\ PlainFiles \subseteq Nat /\ Lifetimes \subseteq Nat
  /\ MaxTraffic \in Nat /\ MaxRate \in Nat /\ MaxTraffic <= MaxRate
  /\ \A count \in Lifetimes : count + MaxTraffic <= MaxRate

(* Process identifiers start at 1; a process that holds a socket keeps its *)
(* inode, which only a socket without a process may have lost.             *)
ASSUME SocketsAssumption ==
  /\ Pids \subseteq Nat \ {0}
  /\ \A s \in Catalog : s.protocol \in {"tcp", "udp"} /\ s.family \in {4, 6}
  /\ Orphans \subseteq Catalog
  /\ \A program \in Programs :
       \/ program.holds = [inode |-> 0]
       \/ program.holds \in Catalog /\ program.holds.inode # 0

VARIABLES
  command,   \* the command dispatched
  json,      \* --json
  sections,  \* the sections of the overview still to come
  status,    \* the exit status, or Running
  host, scanAt, selection, options, networks, before, passes, probes,
  neighbors, changed, rows, filter, known,
  total, caller, worker, answers, joined, names,
  counter, packets, churn, moved, unsteady, taken, trafficAt, chosen, watch, paths,
  first, second, elapsed, sample, honest,
  link, resolved, flaps, linkSeen, gateSeen, checkAt, active, route, state,
  items, servers, reached, round, at, air, queue, echoes, outcome, duplicates,
  prompt, strays, unread,
  process, turnover, steady, socketsAt, reading, table, partial, view, sockets,
  missing, cursor, comm, denied, processes, diagnostics, available, shared,
  bitsetAt, wanted, form, reference, decoded

Scan == INSTANCE Scan
Resolver == INSTANCE Resolver
Traffic == INSTANCE Traffic
Check == INSTANCE Check
Sockets == INSTANCE Sockets
Bitset == INSTANCE Bitset

(* What the command line may name, or nothing for the overview.            *)
Composed == {"scan", "traffic", "check", "sockets", "bitset"}
ASSUME DispatchAssumption == Dispatched \subseteq Composed \union {"all", "unknown"}

(* A machine has a list of interfaces, of which a configured one has an    *)
(* address and a netmask, --retries is at least 1, and the kernel has one  *)
(* neighbor for each interface and address, and no more than can be looked *)
(* up.                                                                     *)
ASSUME ScanAssumption ==
  /\ Width \in Nat
  /\ Hosts # {}
  /\ \A h \in Hosts :
       /\ Len(h.interfaces) \in Nat
       /\ DOMAIN h.interfaces = 1 .. Len(h.interfaces)
       /\ \A i \in DOMAIN h.interfaces :
            h.interfaces[i].configured =>
              /\ h.interfaces[i].address \in Scan!Address
              /\ h.interfaces[i].prefix \in 0 .. Width
  /\ Retries \subseteq Nat \ {0}
  /\ \A snapshot \in Tables :
       /\ IsFiniteSet(snapshot) /\ Cardinality(snapshot) <= MaxAddresses
       /\ \A e \in snapshot :
            /\ e = [index |-> e.index, address |-> e.address, link |-> e.link]
            /\ e.index \in Nat /\ e.address \in Scan!Address
            /\ \A d \in snapshot :
                 d.index = e.index /\ d.address = e.address => d = e

own == <<command, json, sections, status>>
scanVars == <<host, scanAt, selection, options, networks, before, passes, probes,
              neighbors, changed, rows, filter, known>>
namesVars == <<total, caller, worker, answers, joined, names>>
trafficVars == <<counter, packets, churn, moved, unsteady, taken, trafficAt, chosen,
                 watch, paths, first, second, elapsed, sample, honest>>
checkVars == <<link, resolved, flaps, linkSeen, gateSeen, checkAt, active, route,
               state, items, servers, reached, round, at, air, queue, echoes,
               outcome, duplicates, prompt, strays, unread>>
socketsVars == <<process, turnover, steady, socketsAt, reading, table, partial,
                 view, sockets, missing, cursor, comm, denied, processes,
                 diagnostics, available, shared>>
bitsetVars == <<bitsetAt, wanted, form, reference, decoded>>
vars == <<own, scanVars, namesVars, trafficVars, checkVars, socketsVars, bitsetVars>>

(* No exit status is as large.                                             *)
Running == 256
-----------------------------------------------------------------------------
Init ==
  /\ command = "none"
  /\ json = FALSE
  /\ sections = <<>>
  /\ status = Running
  /\ Scan!Idle /\ Resolver!Idle /\ Traffic!Idle /\ Check!Idle /\ Sockets!Idle
  /\ Bitset!Idle

Unchanged == UNCHANGED <<scanVars, namesVars, trafficVars, checkVars, socketsVars,
                         bitsetVars>>

(* What the overview reads, in order; its text stops after the neighbors   *)
(* with what needs no dump.                                                *)
Overview == IF json' THEN <<"interfaces", "addresses", "routes", "rules", "neighbors">>
            ELSE <<"interfaces", "routes", "neighbors">>

(* The other commands make the same observations for text and for JSON.    *)
Dispatch ==
  /\ command = "none"
  /\ command' \in Dispatched
  /\ json' \in (IF command' = "all" THEN BOOLEAN ELSE {FALSE})
  /\ sections' = IF command' = "all" THEN Overview ELSE <<>>
  /\ UNCHANGED status
  /\ Unchanged

(* The text of the overview says that neighbors are unavailable and goes   *)
(* on; JSON has no place for that.                                         *)
Required(section) == json \/ section # "neighbors"

Section ==
  /\ command = "all"
  /\ status = Running
  /\ sections # <<>>
  /\ sections' = Tail(sections)
  /\ \/ UNCHANGED status
     \/ Required(Head(sections)) /\ status' = 2
  /\ UNCHANGED <<command, json>>
  /\ Unchanged

Scans ==
  /\ command = "scan"
  /\ status = Running
  /\ Scan!Next
  /\ UNCHANGED <<own, namesVars, trafficVars, checkVars, socketsVars,
                 bitsetVars>>

(* The neighbors that scan reports are looked up, unless --no-resolve.     *)
Resolves ==
  /\ command = "scan"
  /\ status = Running
  /\ scanAt = "ok"
  /\ Resolver!Next
  /\ caller = "idle" => total' = Cardinality(rows)
  /\ UNCHANGED <<own, scanVars, trafficVars, checkVars, socketsVars,
                 bitsetVars>>

Samples ==
  /\ command = "traffic"
  /\ status = Running
  /\ Traffic!Next
  /\ UNCHANGED <<own, scanVars, namesVars, checkVars, socketsVars,
                 bitsetVars>>

Checks ==
  /\ command = "check"
  /\ status = Running
  /\ Check!Next
  /\ UNCHANGED <<own, scanVars, namesVars, trafficVars, socketsVars,
                 bitsetVars>>

Lists ==
  /\ command = "sockets"
  /\ status = Running
  /\ Sockets!Next
  /\ UNCHANGED <<own, scanVars, namesVars, trafficVars, checkVars,
                 bitsetVars>>

Decodes ==
  /\ command = "bitset"
  /\ status = Running
  /\ Bitset!Next
  /\ UNCHANGED <<own, scanVars, namesVars, trafficVars, checkVars,
                 socketsVars>>

(* How the command dispatched ended, if it has.                            *)
Outcome ==
  CASE command = "scan"    -> IF scanAt # "ok" THEN scanAt
                              ELSE IF caller = "idle" THEN "ok" ELSE caller
    [] command = "traffic" -> trafficAt
    [] command = "check"   -> checkAt
    [] command = "sockets" -> socketsAt
    [] command = "bitset"  -> bitsetAt
    [] command = "all"     -> IF sections = <<>> THEN "ok" ELSE "sections"
    [] command = "unknown" -> "error"
    [] OTHER -> "idle"

(* An error is status 2, a panic of the main thread is 101.                *)
Status(ending) ==
  CASE ending \in {"ok", "returned", "decoded", "healthy"} -> {0}
    [] ending = "unhealthy" -> {1}
    [] ending = "error" -> {2}
    [] ending = "panic" -> {101}
    [] OTHER -> {}

Exit ==
  /\ status = Running
  /\ status' \in Status(Outcome)
  /\ UNCHANGED <<command, json, sections>>
  /\ Unchanged

(* Where a command prints before it ends: the overview as it goes, scan    *)
(* the networks, traffic each sample, check what it read, and then each    *)
(* measurement.                                                            *)
Printing ==
  CASE command = "all"     -> ~json
    [] command = "scan"    -> scanAt = "before"
    [] command = "traffic" -> trafficAt = "rate"
    [] command = "check"   -> \/ checkAt \in {"servers", "verdict"}
                              \/ /\ checkAt = "echo"
                                 /\ (at = "send" /\ round = 0) \/ at = "returned"
    [] OTHER -> FALSE

(* println! panics if the output has been closed, and so does eprintln!.   *)
PrintFails ==
  /\ status = Running
  /\ Printing \/ Status(Outcome) # {}
  /\ status' = 101
  /\ UNCHANGED <<command, json, sections>>
  /\ Unchanged

Exited == status # Running /\ UNCHANGED vars

Next == Dispatch \/ Section \/ Scans \/ Resolves \/ Samples \/ Checks \/ Lists
          \/ Decodes \/ PrintFails \/ Exit \/ Exited

Spec == Init /\ [][Next]_vars
-----------------------------------------------------------------------------
(* Every variable keeps its type, and so do those of the components.       *)
TypeOK ==
  /\ command \in Dispatched \union {"none"}
  /\ status \in {Running, 0, 1, 2, 101}
  /\ Scan!TypeOK /\ Resolver!TypeOK /\ Traffic!TypeOK /\ Check!TypeOK
  /\ Sockets!TypeOK /\ Bitset!TypeOK

(* scanner::scan sends one datagram per pass to exactly the targets.       *)
TargetsExact == Scan!TargetsExact

(* scan reports the neighbors of its networks, new ones told from known.   *)
ReportExact == Scan!ReportExact

(* reverse_names looks up every address; a panic costs one chunk.          *)
NamesComplete == Resolver!NamesComplete

(* traffic::sample reports no more than moved between its two readings,    *)
(* unless a name was taken by an interface with counts.                    *)
RatesHonest == Traffic!RatesHonest

(* The verdict of check rests on what was the case while it looked.        *)
VerdictJustified == Check!VerdictJustified

(* sockets lists what stayed open with no other's process or diagnostics.  *)
SteadyListed == Sockets!SteadyListed

(* bitset_names_with_reference decodes every encoding with a name for each *)
(* bit to the bits set.                                                    *)
BitsetExact == Bitset!BitsetExact

(* However a command ends, by its result, an error or a panic of its own   *)
(* or in println!, no lookup thread of its is left running. A scan that    *)
(* succeeds with lookups has looked up exactly the neighbors it reports.   *)
ThreadsJoined ==
  status # Running =>
    /\ Resolver!Running = {}
    /\ status = 0 /\ caller # "idle" =>
         /\ scanAt = "ok"
         /\ caller = "returned" /\ total = Cardinality(rows)

(* Looking up the names of a finished scan's neighbors cannot make the     *)
(* command fail.                                                           *)
LookupsBestEffort == scanAt = "ok" => caller # "panic"
=============================================================================
