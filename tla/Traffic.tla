------------------------------- MODULE Traffic -------------------------------
(***************************************************************************)
(* The `traffic` command: print_traffic and traffic_json of main.rs over   *)
(* traffic::sample. A sample lists the interfaces, reads the counters of   *)
(* one after the other, sleeps, reads them again and reports the           *)
(* differences as rates; with --watch it starts over.                      *)
(*                                                                         *)
(* Meanwhile the kernel counts, and removes, creates and renames           *)
(* interfaces. A new interface starts at zero; one that is renamed, or     *)
(* comes from another network namespace, brings its counts, under a name   *)
(* another one may have had.                                               *)
(* /sys/class/net may also hold entries that are no interface, such as     *)
(* bonding_masters. One counter stands for the eight of an interface.      *)
(***************************************************************************)
EXTENDS Naturals, FiniteSets

CONSTANTS Links,       \* interface names, numbered in their order
          PlainFiles,  \* entries of /sys/class/net that are no interface
          Lifetimes,   \* what an interface may have counted before
          MaxRate,     \* u64::MAX
          MaxTraffic,  \* packets in a behaviour
          MaxChurn     \* interfaces that go, come or are renamed

VARIABLES
  counter,    \* the kernel's counters of the interfaces there are
  packets,    \* how many packets there were
  churn,      \* how many interfaces went, came or were renamed
  moved,      \* history: packets under a name since its first reading
  unsteady,   \* history: names with another interface, or none, at some
              \* moment since the sample began
  taken,      \* history: those that an interface with counts took
  trafficAt,  \* where the command is, or how it ended
  chosen,     \* the interface selected, if any
  watch,      \* --watch
  paths,      \* the entries to sample
  first,      \* the first readings
  second,     \* the second readings
  elapsed,    \* the time measured between the two
  sample,     \* the rates last reported
  honest      \* history: what had moved when each second reading was made

vars == <<counter, packets, churn, moved, unsteady, taken, trafficAt, chosen,
          watch, paths, first, second, elapsed, sample, honest>>

Present == DOMAIN counter
Everything == 0
kernel == <<counter, packets, churn, moved, unsteady, taken>>
command == <<trafficAt, chosen, watch, paths, first, second, elapsed, sample,
             honest>>
Sampling == trafficAt \in {"list", "first", "sleep", "second", "rate"}
Empty == [n \in {} |-> 0]

(* f with f[n] = v.                                                        *)
With(f, n, v) == [m \in DOMAIN f \union {n} |-> IF m = n THEN v ELSE f[m]]

(* The next entry to read, in the order of their names.                    *)
NextOf(left) == CHOOSE n \in left : \A m \in left : n <= m
-----------------------------------------------------------------------------
(* The kernel.                                                             *)

Count ==
  /\ Sampling
  /\ packets < MaxTraffic
  /\ packets' = packets + 1
  /\ \E n \in Present :
       /\ counter' = [counter EXCEPT ![n] = @ + 1]
       /\ moved' = [moved EXCEPT ![n] = @ + 1]
  /\ UNCHANGED <<churn, unsteady, taken, command>>

Without(n) == [m \in Present \ {n} |-> counter[m]]

(* An interface goes, or is moved to another network namespace.            *)
Remove(n) == /\ n \in Present
             /\ counter' = Without(n)
             /\ unsteady' = unsteady \union {n}
             /\ UNCHANGED taken

Create(n) == /\ n \notin Present
             /\ counter' = With(counter, n, 0)
             /\ unsteady' = unsteady \union {n}
             /\ UNCHANGED taken

(* An interface comes from another network namespace.                      *)
MoveIn(n) == /\ n \notin Present
             /\ \E count \in Lifetimes : counter' = With(counter, n, count)
             /\ unsteady' = unsteady \union {n}
             /\ taken' = taken \union {n}

Rename(m, n) == /\ m \in Present
                /\ n \notin Present
                /\ counter' = With(Without(m), n, counter[m])
                /\ unsteady' = unsteady \union {m, n}
                /\ taken' = taken \union {n}

Churn ==
  /\ Sampling
  /\ churn < MaxChurn
  /\ churn' = churn + 1
  /\ \E n \in Links : \/ Remove(n) \/ Create(n) \/ MoveIn(n)
                       \/ \E m \in Links : Rename(m, n)
  /\ UNCHANGED <<packets, moved, command>>
-----------------------------------------------------------------------------
(* The command.                                                            *)

Idle ==
  /\ counter = Empty
  /\ packets = 0
  /\ churn = 0
  /\ moved = [n \in Links |-> 0]
  /\ unsteady = {}
  /\ taken = {}
  /\ trafficAt = "idle"
  /\ chosen = Everything
  /\ watch = FALSE
  /\ paths = {}
  /\ first = Empty
  /\ second = Empty
  /\ elapsed = 0
  /\ sample = Empty
  /\ honest = Empty

(* parse_traffic_arguments                                                 *)
Start ==
  /\ trafficAt = "idle"
  /\ \E present \in SUBSET Links : counter' \in [present -> Lifetimes]
  /\ chosen' \in Links \union {Everything}
  /\ watch' \in BOOLEAN
  /\ trafficAt' = "list"
  /\ UNCHANGED <<packets, churn, moved, unsteady, taken, paths, first, second,
                 elapsed, sample, honest>>

(* Bad arguments, or standard output that cannot be flushed.               *)
Fail ==
  /\ trafficAt \in {"idle", "rate"}
  /\ trafficAt' = "error"
  /\ UNCHANGED <<kernel, chosen, watch, paths, first, second, elapsed, sample,
                 honest>>

(* interface_paths: an error if the selected interface is not there, or if *)
(* nothing is. A host has its plain files or not.                          *)
List ==
  /\ trafficAt = "list"
  /\ \E files \in {{}, PlainFiles} :
       LET found == IF chosen = Everything THEN Present \union files
                    ELSE {chosen} \intersect Present
       IN  /\ paths' = found
           /\ trafficAt' = IF found = {} THEN "error" ELSE "first"
  /\ unsteady' = {}
  /\ taken' = {}
  /\ first' = Empty
  /\ second' = Empty
  /\ honest' = Empty
  /\ moved' = [n \in Links |-> 0]
  /\ UNCHANGED <<counter, packets, churn, chosen, watch, elapsed, sample>>

(* read_all and read_counter, one entry per step. Reading fails if the     *)
(* entry is gone or is no interface.                                       *)
ReadFirst ==
  /\ trafficAt = "first"
  /\ IF DOMAIN first = paths
     THEN trafficAt' = "sleep" /\ UNCHANGED <<first, moved>>
     ELSE LET n == NextOf(paths \ DOMAIN first)
          IN  IF n \in Present
              THEN /\ first' = With(first, n, counter[n])
                   /\ moved' = [moved EXCEPT ![n] = 0]
                   /\ UNCHANGED trafficAt
              ELSE trafficAt' = "error" /\ UNCHANGED <<first, moved>>
  /\ UNCHANGED <<counter, packets, churn, unsteady, taken, chosen, watch, paths,
                 second, elapsed, sample, honest>>

(* A clock that did not move is possible for the code, if not for a sleep. *)
Sleep ==
  /\ trafficAt = "sleep"
  /\ elapsed' \in 0 .. 2
  /\ trafficAt' = "second"
  /\ UNCHANGED <<kernel, chosen, watch, paths, first, second, sample, honest>>

ReadSecond ==
  /\ trafficAt = "second"
  /\ IF DOMAIN second = paths
     THEN trafficAt' = "rate" /\ UNCHANGED <<second, honest>>
     ELSE LET n == NextOf(paths \ DOMAIN second)
          IN  IF n \in Present
              THEN /\ second' = With(second, n, counter[n])
                   /\ honest' = With(honest, n, moved[n])
                   /\ UNCHANGED trafficAt
              ELSE trafficAt' = "error" /\ UNCHANGED <<second, honest>>
  /\ UNCHANGED <<kernel, chosen, watch, paths, first, elapsed, sample>>

(* after - before in u64, wrapping.                                        *)
WrappingDelta(n) == IF second[n] >= first[n] THEN second[n] - first[n]
                    ELSE MaxRate + 1 + second[n] - first[n]

(* after.saturating_sub(before)                                            *)
Delta(n) == IF second[n] >= first[n] THEN second[n] - first[n] ELSE 0

(* per_second, with the unit of time as the second.                        *)
PerSecond(delta) ==
  IF elapsed = 0 THEN 0
  ELSE IF delta \div elapsed > MaxRate THEN MaxRate ELSE delta \div elapsed

(* The output, and another sample with --watch.                            *)
Rate ==
  /\ trafficAt = "rate"
  /\ sample' = [n \in paths |-> PerSecond(Delta(n))]
  /\ trafficAt' = IF watch THEN "list" ELSE "ok"
  /\ UNCHANGED <<kernel, chosen, watch, paths, first, second, elapsed, honest>>

Command == Start \/ List \/ ReadFirst \/ Sleep \/ ReadSecond \/ Rate
Next == Command \/ Fail \/ Count \/ Churn
Ended == trafficAt \in {"ok", "error"}
Spec == Idle /\ [][Next]_vars
-----------------------------------------------------------------------------
(* Every variable keeps its type, and only interfaces have readings.       *)
TypeOK ==
  /\ DOMAIN counter \subseteq Links
  /\ trafficAt \in {"idle", "list", "first", "sleep", "second", "rate", "ok",
                    "error"}
  /\ paths \subseteq Links \union PlainFiles
  /\ DOMAIN first \subseteq Links /\ DOMAIN second \subseteq DOMAIN first
  /\ \A n \in DOMAIN sample : sample[n] \in 0 .. MaxRate

Reported == trafficAt = "ok" \/ (trafficAt = "list" /\ paths # {})

(* A report has a rate for each entry listed. Unless an interface took its *)
(* name with counts of its own, the rate never exceeds the traffic under   *)
(* that name between the two readings, also if a new interface replaced    *)
(* the one first read; if it was there all along, the rate is that traffic,*)
(* rounded down.                                                           *)
RatesHonest ==
  Reported =>
    /\ DOMAIN sample = paths
    /\ \A n \in paths :
         /\ n \notin taken => sample[n] * elapsed <= honest[n]
         /\ n \notin unsteady /\ elapsed > 0 =>
              sample[n] = honest[n] \div elapsed

(* No rate exceeds everything that moved on the machine.                   *)
NoPhantomTraffic == Reported => \A n \in paths : sample[n] * elapsed <= packets
=============================================================================
