----------------------------- MODULE Probe_proofs -----------------------------
(***************************************************************************)
(* Proofs about the probe command for every port list, every set of        *)
(* destinations and every pool size.                                       *)
(***************************************************************************)
EXTENDS Probe, FiniteSetTheorems, SequenceTheorems, TLAPS

(* The port list is what parse_probe_ports makes of the argument.          *)
PortsParsed ==
  /\ ports # <<>> => AscendingList(ports, SelectedPorts(argument))
  /\ main = "arguments" => ports = <<>>
  /\ main \in {"resolve", "route", "probe", "single", "report"} => ports # <<>>
  /\ exit \in {"success", "unreachable"} => ports # <<>>

(* Which variables are still untouched in which phase.                     *)
PhaseOK ==
  /\ exit = "running" <=> main # "exit"
  /\ main \in {"arguments", "resolve", "route", "single"} \/ exit = "error"
       => threads = <<>> /\ results = <<>> /\ report = <<>> /\ next = 0
  /\ Len(ports) = 1 => threads = <<>> /\ results = <<>> /\ next = 0
  /\ main = "single" => Len(ports) = 1
  /\ main = "probe" => report = <<>>
  /\ main \in {"arguments", "resolve", "route", "probe", "single", "report"}
       => shown = <<>>

(* The threads of the pool.                                                *)
PoolOK ==
  /\ threads # <<>> => Len(threads) <= PoolTarget
  /\ main # "probe" => \A t \in DOMAIN threads : threads[t].at = "exited"
  /\ \A t \in DOMAIN threads :
       /\ threads[t].at = "push" =>
            threads[t].result.port = ports[threads[t].index + 1]
       /\ threads[t].at = "exited" => next > Len(ports)
  /\ \A i \in DOMAIN results : \E k \in DOMAIN ports : results[i].port = ports[k]

(* The report holds what the pool collected.                               *)
ReportOK ==
  main = "report" \/ exit \in {"success", "unreachable"} =>
    /\ Range(results) \subseteq Range(report)
    /\ {report[i].port : i \in DOMAIN report} = Range(ports)
    /\ \A i, j \in DOMAIN report : i < j => report[i].port < report[j].port

(* Only the claim that sends a thread home overshoots the port list.       *)
Exited == {t \in DOMAIN threads : threads[t].at = "exited"}
OvershootOK == next <= Len(ports) + Cardinality(Exited)

IInv == /\ TypeOK /\ PortsParsed /\ PhaseOK /\ PoolOK
        /\ ClaimsAccounted /\ ReportOK /\ OvershootOK

(* The port list a valid argument selects has no duplicates and is not     *)
(* empty.                                                                  *)
LEMMA SelectedNonEmpty ==
  ASSUME NEW arg \in PortArguments, ValidArgument(arg)
  PROVE  SelectedPorts(arg) # {} /\ SelectedPorts(arg) \subseteq Nat
<1>1. arg \in Seq(PortRange)
  BY ProbeAssumption
<1>2. CASE arg = <<>>
  BY <1>2, ProbeAssumption DEF SelectedPorts
<1>3. CASE arg # <<>>
  <2>1. 1 \in DOMAIN arg
    BY <1>1, <1>3
  <2>2. arg[1].first \in arg[1].first .. arg[1].last
    <3>1. arg[1] \in PortRange
      BY <1>1, <2>1
    <3>2. arg[1].first <= arg[1].last
      BY <2>1 DEF ValidArgument
    <3> QED BY <3>1, <3>2 DEF PortRange
  <2>3. SelectedPorts(arg) = UNION {arg[i].first .. arg[i].last : i \in DOMAIN arg}
    BY <1>3 DEF SelectedPorts
  <2>4. arg[1].first \in SelectedPorts(arg)
    BY <2>1, <2>2, <2>3
  <2>5. \A i \in DOMAIN arg : arg[i].first .. arg[i].last \subseteq Nat
    <3>1. \A i \in DOMAIN arg : arg[i] \in PortRange
      BY <1>1
    <3> QED BY <3>1 DEF PortRange
  <2> QED BY <2>3, <2>4, <2>5
<1> QED BY <1>2, <1>3

(* Distinct positions of an ascending list hold distinct ports.            *)
LEMMA PortsDistinct ==
  ASSUME IInv, NEW j \in DOMAIN ports, NEW k \in DOMAIN ports,
         ports[j] = ports[k]
  PROVE  j = k
<1>1. ports # <<>> /\ ports \in Seq(Nat)
  BY DEF IInv, TypeOK
<1>2. \A a, b \in DOMAIN ports : a < b => ports[a] < ports[b]
  BY <1>1 DEF IInv, PortsParsed, AscendingList
<1>3. j \in Nat /\ k \in Nat /\ ports[j] \in Nat /\ ports[k] \in Nat
  BY <1>1
<1> QED BY <1>2, <1>3

(* The initial state satisfies the inductive invariant.                    *)
LEMMA InitIInv == Init => IInv
<1> SUFFICES ASSUME Init PROVE IInv
  OBVIOUS
<1> USE DEF Init
<1>1. TypeOK
  BY DEF TypeOK
<1>2. PortsParsed /\ PhaseOK
  BY DEF PortsParsed, PhaseOK
<1>3. PoolOK /\ ClaimsAccounted /\ ReportOK
  BY DEF PoolOK, ClaimsAccounted, ReportOK
<1>4. OvershootOK
  <2>1. Exited = {}
    BY DEF Exited
  <2> QED BY <2>1, FS_EmptySet DEF OvershootOK
<1> QED BY <1>1, <1>2, <1>3, <1>4 DEF IInv

(* Elements of the sequences have their types.                             *)
LEMMA ElementTypes ==
  ASSUME TypeOK
  PROVE  /\ DOMAIN ports = 1..Len(ports) /\ Len(ports) \in Nat
         /\ DOMAIN threads = 1..Len(threads) /\ Len(threads) \in Nat
         /\ DOMAIN results = 1..Len(results) /\ Len(results) \in Nat
         /\ DOMAIN report = 1..Len(report) /\ Len(report) \in Nat
         /\ \A k \in DOMAIN ports : ports[k] \in Nat
         /\ \A t \in DOMAIN threads : threads[t] \in Thread
         /\ \A i \in DOMAIN results : results[i] \in Result
         /\ \A i \in DOMAIN report : report[i] \in Result
         /\ next \in Nat
         /\ PoolTarget \in Nat
BY ProbeAssumption DEF TypeOK, PoolTarget

(* Fields of a thread and of a result.                                     *)
LEMMA FieldTypes ==
  /\ \A t \in Thread : /\ t.at \in {"claim", "connect", "push", "exited"}
                       /\ t.index \in Nat
                       /\ t.result \in Result
  /\ \A r \in Result : r.port \in Nat /\ r.status \in Status
  /\ NewThread \in Thread
  /\ NewThread.at = "claim"
BY DEF Thread, Result, NewThread, NoResult, Status

(* Steps of the main thread that touch neither threads nor results.        *)
LEMMA PrologueStep ==
  ASSUME IInv,
         RejectArguments \/ AcceptArguments \/ ResolveFails \/ Resolve
           \/ RouteFound \/ RouteFails \/ NoRoutableAddress \/ BeginSingle
  PROVE  IInv'
<1> USE DEF IInv
<1>1. CASE RejectArguments \/ ResolveFails \/ NoRoutableAddress
  <2> USE <1>1 DEF RejectArguments, ResolveFails, NoRoutableAddress, Fail
  <2>1. TypeOK'
    BY DEF TypeOK
  <2>2. PortsParsed' /\ PhaseOK'
    BY DEF PortsParsed, PhaseOK
  <2>3. PoolOK' /\ ClaimsAccounted' /\ ReportOK'
    BY DEF PoolOK, ClaimsAccounted, ReportOK, PhaseOK, PoolTarget, Holding
  <2>4. OvershootOK'
    BY DEF OvershootOK, Exited
  <2> QED BY <2>1, <2>2, <2>3, <2>4
<1>2. CASE AcceptArguments
  <2> USE <1>2 DEF AcceptArguments
  <2>1. SelectedPorts(argument) # {} /\ SelectedPorts(argument) \subseteq Nat
    BY SelectedNonEmpty DEF TypeOK
  <2>2. ports' \in Seq(Nat) /\ AscendingList(ports', SelectedPorts(argument))
    <3>1. PICK n \in 1..MaxProbePorts :
             \E list \in [1..n -> SelectedPorts(argument)] :
               AscendingList(list, SelectedPorts(argument)) /\ ports' = list
      OBVIOUS
    <3>2. n \in Nat
      BY ProbeAssumption
    <3> QED BY <2>1, <3>1, <3>2
  <2>3. ports' # <<>>
    BY <2>1, <2>2 DEF AscendingList, Range
  <2>4. main = "arguments" /\ main' = "resolve" /\ threads = <<>> /\ results = <<>>
        /\ report = <<>> /\ next = 0 /\ exit = "running"
        /\ UNCHANGED <<argument, filter, scope, candidates, next, threads, results,
                       report, shown, exit>>
    BY DEF PhaseOK
  <2> HIDE <1>2 DEF AcceptArguments
  <2>5. TypeOK'
    BY <2>2, <2>4 DEF TypeOK
  <2>6. PortsParsed' /\ PhaseOK'
    BY <2>2, <2>3, <2>4 DEF PortsParsed, PhaseOK
  <2>8. OvershootOK'
    <3>1. Exited' = {}
      BY <2>4 DEF Exited
    <3> QED BY <2>2, <2>4, <3>1, FS_EmptySet DEF OvershootOK
  <2>7. PoolOK' /\ ClaimsAccounted' /\ ReportOK'
    <3>1. \A k \in DOMAIN ports' : ~(k <= 0)
      BY <2>2
    <3> QED BY <2>4, <3>1 DEF PoolOK, ClaimsAccounted, ReportOK, PoolTarget, Holding
  <2> QED BY <2>5, <2>6, <2>7, <2>8
<1>3. CASE Resolve \/ RouteFound \/ RouteFails \/ BeginSingle
  <2> USE DEF Resolve, RouteFound, RouteFails, BeginSingle
  <2>1. TypeOK'
    <3>1. candidates \in Seq(Addresses) /\ Destinations \subseteq Seq(Addresses)
      BY ProbeAssumption DEF TypeOK
    <3>2. candidates' \in Seq(Addresses)
      <4>1. CASE Resolve
        BY <4>1, <3>1
      <4>2. CASE RouteFails
        BY <4>2, <3>1, HeadTailProperties
      <4>3. CASE RouteFound
        BY <4>3, EmptySeq
      <4>4. CASE BeginSingle
        BY <4>4, <3>1
      <4> QED BY <1>3, <4>1, <4>2, <4>3, <4>4
    <3> QED BY <1>3, <3>2 DEF TypeOK
  <2>2. PortsParsed' /\ PhaseOK'
    BY <1>3 DEF PortsParsed, PhaseOK
  <2>3. PoolOK' /\ ClaimsAccounted' /\ ReportOK'
    BY <1>3 DEF PoolOK, ClaimsAccounted, ReportOK, PhaseOK, PoolTarget, Holding
  <2>4. OvershootOK'
    BY <1>3 DEF OvershootOK, Exited
  <2> QED BY <2>1, <2>2, <2>3, <2>4
<1> QED BY <1>1, <1>2, <1>3

(* Overwriting one thread's locals.                                        *)
LEMMA ThreadUpdate ==
  ASSUME TypeOK, NEW t \in DOMAIN threads, NEW new \in Thread,
         threads' = [threads EXCEPT ![t] = new]
  PROVE  /\ threads' \in Seq(Thread)
         /\ Len(threads') = Len(threads)
         /\ DOMAIN threads' = DOMAIN threads
         /\ threads'[t] = new
         /\ \A u \in DOMAIN threads : u # t => threads'[u] = threads[u]
         /\ threads' # <<>>
BY DEF TypeOK

(* A thread that has not exited runs inside the scope, with the report     *)
(* still empty and more than one port.                                     *)
LEMMA RunningThread ==
  ASSUME IInv, NEW t \in DOMAIN threads, threads[t].at # "exited"
  PROVE  /\ main = "probe" /\ exit = "running" /\ report = <<>>
         /\ ports # <<>> /\ Len(ports) # 1 /\ Len(threads) <= PoolTarget
<1>1. threads # <<>>
  BY ElementTypes DEF IInv
<1> QED BY <1>1 DEF IInv, PoolOK, PhaseOK, PortsParsed

(* Appending to a vector.                                                  *)
LEMMA AppendFacts ==
  ASSUME NEW S, NEW seq \in Seq(S), NEW e \in S
  PROVE  /\ Append(seq, e) \in Seq(S)
         /\ Len(Append(seq, e)) = Len(seq) + 1
         /\ DOMAIN Append(seq, e) = 1..(Len(seq) + 1)
         /\ Append(seq, e)[Len(seq) + 1] = e
         /\ \A i \in DOMAIN seq : i \in DOMAIN Append(seq, e) /\ Append(seq, e)[i] = seq[i]
         /\ \A i \in DOMAIN Append(seq, e) : i \in DOMAIN seq \/ i = Len(seq) + 1
         /\ Append(seq, e) # <<>>
  BY AppendProperties

(* There are at most as many exited threads as threads.                    *)
LEMMA ExitedBound ==
  ASSUME NEW ts \in Seq(Thread)
  PROVE  LET E == {t \in DOMAIN ts : ts[t].at = "exited"}
         IN  IsFiniteSet(E) /\ Cardinality(E) \in Nat /\ Cardinality(E) <= Len(ts)
<1> DEFINE E == {t \in DOMAIN ts : ts[t].at = "exited"}
<1>1. DOMAIN ts = 1..Len(ts) /\ Len(ts) \in Nat
  OBVIOUS
<1>2. IsFiniteSet(1..Len(ts)) /\ Cardinality(1..Len(ts)) = Len(ts)
  BY <1>1, FS_Interval
<1>3. E \subseteq 1..Len(ts)
  BY <1>1
<1> QED BY <1>2, <1>3, FS_Subset, FS_CardinalityType

(* Spawning a thread.                                                      *)
LEMMA SpawnStep == ASSUME IInv, Spawn PROVE IInv'
<1> USE DEF IInv, Spawn
<1>1. /\ threads' \in Seq(Thread)
      /\ Len(threads') = Len(threads) + 1
      /\ DOMAIN threads' = 1..(Len(threads) + 1)
      /\ threads'[Len(threads) + 1] = NewThread
      /\ \A u \in DOMAIN threads : threads'[u] = threads[u]
      /\ threads' # <<>>
  <2>1. threads \in Seq(Thread) /\ NewThread \in Thread
    BY FieldTypes DEF TypeOK
  <2> QED BY <2>1, AppendFacts
<1>2. \A u \in DOMAIN threads' : u \in DOMAIN threads \/ threads'[u] = NewThread
  BY <1>1, ElementTypes
<1>3. /\ \A u \in DOMAIN threads' : Holding(u)' => u \in DOMAIN threads /\ Holding(u)
      /\ \A u \in DOMAIN threads : Holding(u)' <=> Holding(u)
      /\ DOMAIN threads \subseteq DOMAIN threads'
  BY <1>1, <1>2, FieldTypes, ElementTypes DEF Holding
<1>4. TypeOK'
  BY <1>1, ElementTypes DEF TypeOK
<1>5. PortsParsed' /\ PhaseOK'
  BY <1>1, ElementTypes DEF PortsParsed, PhaseOK
<1>6. PoolOK'
  <2>1. Len(threads') <= PoolTarget'
    BY <1>1, ElementTypes DEF PoolTarget
  <2>2. ASSUME NEW u \in DOMAIN threads'
        PROVE  /\ threads'[u].at = "push" =>
                    threads'[u].result.port = ports[threads'[u].index + 1]
               /\ threads'[u].at = "exited" => next > Len(ports)
    BY <1>1, <1>2, FieldTypes DEF PoolOK
  <2> QED BY <2>1, <2>2 DEF PoolOK
<1>7. ClaimsAccounted'
  BY <1>1, <1>3 DEF ClaimsAccounted
<1>8. ReportOK'
  BY DEF ReportOK
<1>9. OvershootOK'
  <2>1. Exited' = Exited
    BY <1>1, <1>2, <1>3, FieldTypes DEF Exited
  <2> QED BY <2>1 DEF OvershootOK
<1> QED BY <1>4, <1>5, <1>6, <1>7, <1>8, <1>9

(* No thread is created, or the panic ends the command: the threads and    *)
(* what they collected stay as they are.                                   *)
LEMMA RefusalStep == ASSUME IInv, SpawnFails \/ Panic PROVE IInv'
<1> USE DEF IInv
<1>1. UNCHANGED <<argument, filter, ports, candidates, next, threads, results,
                  report, shown>>
  BY DEF SpawnFails, Panic
<1>2. \/ SpawnFails /\ UNCHANGED <<main, exit>> /\ scope' = "panicking"
      \/ /\ Panic /\ main = "probe" /\ main' = "exit" /\ exit' = "panic"
         /\ scope' = scope
         /\ \A t \in DOMAIN threads : threads[t].at = "exited"
  BY DEF SpawnFails, Panic
<1>3. TypeOK'
  BY <1>1, <1>2 DEF TypeOK
<1>4. PortsParsed' /\ PhaseOK'
  BY <1>1, <1>2 DEF PortsParsed, PhaseOK
<1>5. PoolOK'
  BY <1>1, <1>2 DEF PoolOK, PoolTarget
<1>6. ClaimsAccounted' /\ ReportOK'
  BY <1>1, <1>2 DEF ClaimsAccounted, ReportOK, Holding
<1>7. OvershootOK'
  BY <1>1 DEF OvershootOK, Exited
<1> QED BY <1>3, <1>4, <1>5, <1>6, <1>7

(* A thread claims an index, or leaves.                                    *)
LEMMA ClaimStep == ASSUME IInv, NEW t \in DOMAIN threads, Claim(t) PROVE IInv'
<1> USE DEF IInv
<1>1. /\ threads[t].at = "claim" /\ next' = next + 1
      /\ UNCHANGED <<main, argument, filter, scope, ports, candidates, results, report,
                     shown, exit>>
  BY DEF Claim
<1>2. threads[t] \in Thread
  BY ElementTypes
<1>3. /\ main = "probe" /\ exit = "running" /\ report = <<>>
      /\ ports # <<>> /\ Len(ports) # 1 /\ Len(threads) <= PoolTarget
  BY <1>1, RunningThread
<1>4. PICK new \in Thread :
        /\ threads' = [threads EXCEPT ![t] = new]
        /\ next < Len(ports) => new.at = "connect" /\ new.index = next
        /\ ~(next < Len(ports)) => new.at = "exited"
  <2>1. CASE next < Len(ports)
    <3> DEFINE n == [threads[t] EXCEPT !.at = "connect", !.index = next]
    <3>1. n \in Thread /\ n.at = "connect" /\ n.index = next
      BY <1>2, ElementTypes DEF Thread
    <3>2. threads' = [threads EXCEPT ![t] = n]
      BY <2>1 DEF Claim
    <3> QED BY <2>1, <3>1, <3>2
  <2>2. CASE ~(next < Len(ports))
    <3> DEFINE n == [threads[t] EXCEPT !.at = "exited"]
    <3>1. n \in Thread /\ n.at = "exited"
      BY <1>2 DEF Thread
    <3>2. threads' = [threads EXCEPT ![t] = n]
      BY <2>2 DEF Claim
    <3> QED BY <2>2, <3>1, <3>2
  <2> QED BY <2>1, <2>2
<1>5. /\ threads' \in Seq(Thread) /\ Len(threads') = Len(threads)
      /\ DOMAIN threads' = DOMAIN threads /\ threads'[t] = new
      /\ \A u \in DOMAIN threads : u # t => threads'[u] = threads[u]
      /\ threads' # <<>>
  BY <1>4, ThreadUpdate
<1>6. /\ ~Holding(t)
      /\ Holding(t)' <=> next < Len(ports)
      /\ next < Len(ports) => threads'[t].index = next
      /\ \A u \in DOMAIN threads : u # t =>
           (Holding(u)' <=> Holding(u)) /\ threads'[u] = threads[u]
  BY <1>1, <1>4, <1>5 DEF Holding
<1>7. OvershootOK'
  <2>1. IsFiniteSet(Exited) /\ Cardinality(Exited) \in Nat
    BY ExitedBound DEF TypeOK, Exited
  <2>2. CASE next < Len(ports)
    <3>1. Exited' = Exited
      BY <1>1, <1>4, <1>5, <2>2 DEF Exited
    <3> QED BY <1>1, <2>1, <2>2, <3>1, ElementTypes DEF OvershootOK
  <2>3. CASE ~(next < Len(ports))
    <3>1. Exited' = Exited \union {t} /\ t \notin Exited
      BY <1>1, <1>4, <1>5, <2>3 DEF Exited
    <3>2. Cardinality(Exited') = Cardinality(Exited) + 1
      BY <2>1, <3>1, FS_AddElement
    <3> QED BY <1>1, <2>1, <3>2, ElementTypes DEF OvershootOK
  <2> QED BY <2>2, <2>3
<1>8. TypeOK'
  <2>1. Cardinality(Exited') \in Nat /\ Cardinality(Exited') <= Len(threads')
    BY <1>5, ExitedBound DEF Exited
  <2>2. next + 1 <= Len(ports) + Len(threads)
    BY <1>1, <1>5, <1>7, <2>1, ElementTypes DEF OvershootOK
  <2> QED BY <1>1, <1>5, <2>2, ElementTypes DEF TypeOK
<1>9. PortsParsed' /\ PhaseOK'
  BY <1>1, <1>3, <1>5 DEF PortsParsed, PhaseOK
<1>10. PoolOK'
  <2>1. Len(threads') <= PoolTarget'
    BY <1>1, <1>3, <1>5 DEF PoolTarget
  <2>2. ASSUME NEW u \in DOMAIN threads'
        PROVE  /\ threads'[u].at = "push" =>
                    threads'[u].result.port = ports[threads'[u].index + 1]
               /\ threads'[u].at = "exited" => next' > Len(ports)
    BY <1>1, <1>4, <1>5, ElementTypes DEF PoolOK
  <2> QED BY <1>1, <1>3, <2>1, <2>2 DEF PoolOK
<1>11. ClaimsAccounted'
  <2>1. \A u \in DOMAIN threads' : Holding(u)' =>
           threads'[u].index < next' /\ threads'[u].index < Len(ports')
    BY <1>1, <1>2, <1>5, <1>6, ElementTypes, FieldTypes, SMTT(30) DEF ClaimsAccounted
  <2>2. \A u, v \in DOMAIN threads' :
           Holding(u)' /\ Holding(v)' /\ threads'[u].index = threads'[v].index => u = v
    BY <1>1, <1>5, <1>6, ElementTypes DEF ClaimsAccounted
  <2>3. ASSUME NEW k \in DOMAIN ports
        PROVE  (\E i \in DOMAIN results : results[i].port = ports[k])
                 <=> /\ k <= next'
                     /\ \A u \in DOMAIN threads' : Holding(u)' => threads'[u].index + 1 # k
    <3>1. /\ k \in Nat /\ next \in Nat /\ Len(ports) \in Nat /\ k <= Len(ports)
          /\ \A u \in DOMAIN threads : threads[u].index \in Nat
      BY ElementTypes, FieldTypes
    <3>2. (\E i \in DOMAIN results : results[i].port = ports[k])
            <=> k <= next /\ \A u \in DOMAIN threads : Holding(u) => threads[u].index + 1 # k
      BY DEF ClaimsAccounted
    <3>3. CASE k = next + 1
      <4>1. Holding(t)' /\ threads'[t].index + 1 = k
        BY <3>1, <3>3, <1>6
      <4> QED BY <3>1, <3>2, <3>3, <4>1, <1>5
    <3>4. CASE k # next + 1
      <4>1. k <= next' <=> k <= next
        BY <1>1, <3>1, <3>4
      <4>2. \A u \in DOMAIN threads :
              (Holding(u)' => threads'[u].index + 1 # k)
                <=> (Holding(u) => threads[u].index + 1 # k)
        BY <1>6, <3>1, <3>4
      <4> QED BY <3>2, <4>1, <4>2, <1>5
    <3> QED BY <3>3, <3>4
  <2> QED BY <1>1, <2>1, <2>2, <2>3 DEF ClaimsAccounted
<1>12. ReportOK'
  BY <1>1, <1>3 DEF ReportOK
<1> QED BY <1>7, <1>8, <1>9, <1>10, <1>11, <1>12

(* What a thread's connection attempt changes.                             *)
LEMMA ConnectEffect ==
  ASSUME IInv, NEW t \in DOMAIN threads, Connect(t)
  PROVE  \E status \in Status :
           LET r == [port |-> ports[threads[t].index + 1], status |-> status]
           IN  /\ r \in Result
               /\ threads[t].index + 1 \in DOMAIN ports
               /\ threads' \in Seq(Thread) /\ Len(threads') = Len(threads)
               /\ DOMAIN threads' = DOMAIN threads /\ threads' # <<>>
               /\ threads'[t].at = "push" /\ threads'[t].result = r
               /\ threads'[t].index = threads[t].index
               /\ \A u \in DOMAIN threads : u # t => threads'[u] = threads[u]
<1>1. PICK status \in Status :
        threads' = [threads EXCEPT ![t] =
                      [threads[t] EXCEPT !.at = "push",
                         !.result = [port |-> ports[threads[t].index + 1],
                                     status |-> status]]]
  BY DEF Connect
<1> DEFINE r == [port |-> ports[threads[t].index + 1], status |-> status]
           n == [threads[t] EXCEPT !.at = "push", !.result = r]
<1>2. threads[t] \in Thread /\ threads[t].index \in Nat
  BY ElementTypes, FieldTypes DEF IInv
<1>3. threads[t].index + 1 \in DOMAIN ports
  <2>1. threads[t].index < Len(ports)
    BY DEF IInv, ClaimsAccounted, Holding, Connect
  <2> QED BY <1>2, <2>1, ElementTypes DEF IInv
<1>4. r \in Result
  BY <1>3, ElementTypes DEF IInv, Result
<1>5. n \in Thread /\ n.at = "push" /\ n.result = r /\ n.index = threads[t].index
  BY <1>2, <1>4 DEF Thread
<1>6. /\ threads' \in Seq(Thread) /\ Len(threads') = Len(threads)
      /\ DOMAIN threads' = DOMAIN threads /\ threads' # <<>> /\ threads'[t] = n
      /\ \A u \in DOMAIN threads : u # t => threads'[u] = threads[u]
  BY <1>1, <1>5, ThreadUpdate DEF IInv
<1> QED BY <1>3, <1>4, <1>5, <1>6

(* A connection attempt ends.                                              *)
LEMMA ConnectStep == ASSUME IInv, NEW t \in DOMAIN threads, Connect(t) PROVE IInv'
<1> USE DEF IInv
<1>1. /\ threads[t].at = "connect"
      /\ UNCHANGED <<main, argument, filter, scope, ports, candidates, next, results,
                     report, shown, exit>>
  BY DEF Connect
<1>2. /\ main = "probe" /\ exit = "running" /\ report = <<>>
      /\ ports # <<>> /\ Len(ports) # 1 /\ Len(threads) <= PoolTarget
  BY <1>1, RunningThread
<1>3. /\ threads' \in Seq(Thread) /\ Len(threads') = Len(threads)
      /\ DOMAIN threads' = DOMAIN threads /\ threads' # <<>>
      /\ threads'[t].at = "push"
      /\ threads'[t].result.port = ports[threads[t].index + 1]
      /\ threads'[t].index = threads[t].index
      /\ \A u \in DOMAIN threads : u # t => threads'[u] = threads[u]
  <2>1. PICK status \in Status :
           LET r == [port |-> ports[threads[t].index + 1], status |-> status]
           IN  /\ threads' \in Seq(Thread) /\ Len(threads') = Len(threads)
               /\ DOMAIN threads' = DOMAIN threads /\ threads' # <<>>
               /\ threads'[t].at = "push" /\ threads'[t].result = r
               /\ threads'[t].index = threads[t].index
               /\ \A u \in DOMAIN threads : u # t => threads'[u] = threads[u]
    BY ConnectEffect
  <2> QED BY <2>1
<1>4. \A u \in DOMAIN threads : (Holding(u)' <=> Holding(u))
                                /\ threads'[u].index = threads[u].index
  BY <1>1, <1>3 DEF Holding
<1>5. TypeOK'
  BY <1>1, <1>3 DEF TypeOK
<1>6. PortsParsed' /\ PhaseOK'
  BY <1>1, <1>2, <1>3 DEF PortsParsed, PhaseOK
<1>7. PoolOK'
  <2>1. Len(threads') <= PoolTarget'
    BY <1>1, <1>2, <1>3 DEF PoolTarget
  <2>2. ASSUME NEW u \in DOMAIN threads'
        PROVE  /\ threads'[u].at = "push" =>
                    threads'[u].result.port = ports[threads'[u].index + 1]
               /\ threads'[u].at = "exited" => next > Len(ports)
    BY <1>3 DEF PoolOK
  <2> QED BY <1>1, <1>2, <2>1, <2>2 DEF PoolOK
<1>8. ClaimsAccounted'
  <2>1. /\ \A u \in DOMAIN threads' : Holding(u)' =>
             threads'[u].index < next /\ threads'[u].index < Len(ports)
        /\ \A u, v \in DOMAIN threads' :
             Holding(u)' /\ Holding(v)' /\ threads'[u].index = threads'[v].index => u = v
    BY <1>3, <1>4 DEF ClaimsAccounted
  <2>2. \A k \in DOMAIN ports :
          (\E i \in DOMAIN results : results[i].port = ports[k])
            <=> /\ k <= next
                /\ \A u \in DOMAIN threads' : Holding(u)' => threads'[u].index + 1 # k
    BY <1>3, <1>4 DEF ClaimsAccounted
  <2>3. \A i, j \in DOMAIN results : results[i].port = results[j].port => i = j
    BY DEF ClaimsAccounted
  <2> QED BY <1>1, <2>1, <2>2, <2>3 DEF ClaimsAccounted
<1>9. ReportOK'
  BY <1>1, <1>2 DEF ReportOK
<1>10. OvershootOK'
  <2>1. Exited' = Exited
    BY <1>1, <1>3 DEF Exited
  <2> QED BY <1>1, <2>1 DEF OvershootOK
<1> QED BY <1>5, <1>6, <1>7, <1>8, <1>9, <1>10

(* A thread pushes its result and goes round the loop.                     *)
LEMMA PushStep == ASSUME IInv, NEW t \in DOMAIN threads, Push(t) PROVE IInv'
<1> USE DEF IInv
<1>1. /\ threads[t].at = "push" /\ results' = Append(results, threads[t].result)
      /\ threads' = [threads EXCEPT ![t] = NewThread]
      /\ UNCHANGED <<main, argument, filter, scope, ports, candidates, next, report,
                     shown, exit>>
  BY DEF Push
<1>2. /\ main = "probe" /\ exit = "running" /\ report = <<>>
      /\ ports # <<>> /\ Len(ports) # 1 /\ Len(threads) <= PoolTarget
  BY <1>1, RunningThread
<1>3. /\ threads' \in Seq(Thread) /\ Len(threads') = Len(threads)
      /\ DOMAIN threads' = DOMAIN threads /\ threads' # <<>>
      /\ threads'[t].at = "claim"
      /\ \A u \in DOMAIN threads : u # t => threads'[u] = threads[u]
  BY <1>1, ThreadUpdate, FieldTypes
<1> DEFINE r == threads[t].result
           p == threads[t].index + 1
<1>4. /\ r \in Result /\ results \in Seq(Result)
      /\ p \in DOMAIN ports /\ p <= next /\ r.port = ports[p]
  <2>1. threads[t].index \in Nat /\ r \in Result
    BY ElementTypes, FieldTypes
  <2>2. threads[t].index < Len(ports) /\ threads[t].index < next
    BY <1>1 DEF ClaimsAccounted, Holding
  <2>3. r.port = ports[p]
    BY <1>1 DEF PoolOK
  <2> QED BY <2>1, <2>2, <2>3, ElementTypes, SMTT(30) DEF TypeOK
<1>5. /\ results' \in Seq(Result) /\ DOMAIN results' = 1..(Len(results) + 1)
      /\ results'[Len(results) + 1] = r
      /\ \A i \in DOMAIN results : i \in DOMAIN results' /\ results'[i] = results[i]
      /\ \A i \in DOMAIN results' : i \in DOMAIN results \/ i = Len(results) + 1
  BY <1>1, <1>4, AppendFacts
<1>6. Holding(t) /\ ~Holding(t)'
      /\ \A u \in DOMAIN threads : u # t =>
           (Holding(u)' <=> Holding(u)) /\ threads'[u] = threads[u]
  BY <1>1, <1>3 DEF Holding
<1>7. ~ \E i \in DOMAIN results : results[i].port = ports[p]
  BY <1>4, <1>6 DEF ClaimsAccounted
<1>8. TypeOK'
  BY <1>1, <1>3, <1>5 DEF TypeOK
<1>9. PortsParsed' /\ PhaseOK'
  BY <1>1, <1>2, <1>3 DEF PortsParsed, PhaseOK
<1>10. PoolOK'
  <2>1. Len(threads') <= PoolTarget'
    BY <1>1, <1>2, <1>3 DEF PoolTarget
  <2>2. ASSUME NEW u \in DOMAIN threads'
        PROVE  /\ threads'[u].at = "push" =>
                    threads'[u].result.port = ports[threads'[u].index + 1]
               /\ threads'[u].at = "exited" => next > Len(ports)
    BY <1>3 DEF PoolOK
  <2>3. \A i \in DOMAIN results' : \E k \in DOMAIN ports : results'[i].port = ports[k]
    BY <1>4, <1>5 DEF PoolOK
  <2> QED BY <1>1, <1>2, <2>1, <2>2, <2>3 DEF PoolOK
<1>11. ClaimsAccounted'
  <2>1. /\ \A u \in DOMAIN threads' : Holding(u)' =>
             threads'[u].index < next' /\ threads'[u].index < Len(ports')
        /\ \A u, v \in DOMAIN threads' :
             Holding(u)' /\ Holding(v)' /\ threads'[u].index = threads'[v].index => u = v
    BY <1>1, <1>3, <1>6 DEF ClaimsAccounted
  <2>2. \A i, j \in DOMAIN results' : results'[i].port = results'[j].port => i = j
    BY <1>4, <1>5, <1>7 DEF ClaimsAccounted
  <2>3. ASSUME NEW k \in DOMAIN ports
        PROVE  (\E i \in DOMAIN results' : results'[i].port = ports[k])
                 <=> /\ k <= next
                     /\ \A u \in DOMAIN threads' : Holding(u)' => threads'[u].index + 1 # k
    <3>1. (\E i \in DOMAIN results : results[i].port = ports[k])
            <=> k <= next /\ \A u \in DOMAIN threads : Holding(u) => threads[u].index + 1 # k
      BY DEF ClaimsAccounted
    <3>2. CASE k = p
      <4>1. \E i \in DOMAIN results' : results'[i].port = ports[k]
        <5>1. Len(results) + 1 \in DOMAIN results'
          BY <1>5, ElementTypes
        <5> QED BY <5>1, <3>2, <1>4, <1>5
      <4>2. \A u \in DOMAIN threads : u # t /\ Holding(u) => threads[u].index # threads[t].index
        BY <1>6 DEF ClaimsAccounted
      <4>3. \A u \in DOMAIN threads : threads[u].index \in Nat
        BY ElementTypes, FieldTypes
      <4>4. \A u \in DOMAIN threads' : Holding(u)' => threads'[u].index + 1 # k
        BY <3>2, <4>2, <4>3, <1>3, <1>6
      <4> QED BY <3>2, <4>1, <4>4, <1>4
    <3>3. CASE k # p
      <4>1. ports[k] # ports[p]
        BY <3>3, <1>4, PortsDistinct
      <4>2. (\E i \in DOMAIN results' : results'[i].port = ports[k])
              <=> (\E i \in DOMAIN results : results[i].port = ports[k])
        BY <4>1, <1>4, <1>5
      <4>3. \A u \in DOMAIN threads :
              (Holding(u)' => threads'[u].index + 1 # k)
                <=> (Holding(u) => threads[u].index + 1 # k)
        BY <1>6, <3>3
      <4> QED BY <3>1, <4>2, <4>3, <1>3
    <3> QED BY <3>2, <3>3
  <2> QED BY <1>1, <2>1, <2>2, <2>3 DEF ClaimsAccounted
<1>12. ReportOK'
  BY <1>1, <1>2 DEF ReportOK
<1>13. OvershootOK'
  <2>1. Exited' = Exited
    BY <1>1, <1>3 DEF Exited
  <2> QED BY <1>1, <2>1 DEF OvershootOK
<1> QED BY <1>8, <1>9, <1>10, <1>11, <1>12, <1>13

(* The single-port path.                                                   *)
LEMMA EndSingleStep == ASSUME IInv, EndSingle PROVE IInv'
<1> USE DEF IInv
<1>1. /\ main = "single" /\ main' = "report"
      /\ UNCHANGED <<argument, filter, scope, ports, candidates, next, threads, results,
                     shown, exit>>
      /\ Len(ports) = 1 /\ threads = <<>> /\ results = <<>> /\ exit = "running"
      /\ next = 0
  BY DEF EndSingle, PhaseOK
<1>2. PICK r \in Result : r.port = ports[1] /\ report' = <<r>>
  <2>1. ports[1] \in Nat
    BY <1>1, ElementTypes
  <2> QED BY <2>1 DEF EndSingle, Result
<1>3. DOMAIN ports = {1} /\ Range(ports) = {ports[1]}
  BY <1>1, ElementTypes DEF Range
<1>4. report' \in Seq(Result) /\ DOMAIN report' = {1} /\ report'[1] = r
  BY <1>2
<1>5. TypeOK'
  BY <1>1, <1>4 DEF TypeOK
<1>6. PortsParsed' /\ PhaseOK'
  BY <1>1 DEF PortsParsed, PhaseOK
<1>7. PoolOK' /\ ClaimsAccounted'
  BY <1>1, ElementTypes DEF PoolOK, ClaimsAccounted, Holding
<1>8. ReportOK'
  <2>1. Range(results) = {}
    BY <1>1 DEF Range
  <2> QED BY <1>1, <1>2, <1>3, <1>4, <2>1 DEF ReportOK
<1>9. OvershootOK'
  BY <1>1 DEF OvershootOK, Exited
<1> QED BY <1>5, <1>6, <1>7, <1>8, <1>9

(* When the scope ends, every port has its result and nothing is in flight.*)
LEMMA JoinedComplete ==
  ASSUME IInv, main = "probe", Len(ports) # 1, AllJoined
  PROVE  /\ \A k \in DOMAIN ports : \E i \in DOMAIN results : results[i].port = ports[k]
         /\ \A t \in DOMAIN threads : threads[t].at = "exited"
<1> USE DEF IInv
<1>1. \A t \in DOMAIN threads : threads[t].at = "exited"
  BY DEF AllJoined
<1>2. next > Len(ports)
  <2>1. Len(ports) > 0
    BY ElementTypes DEF PortsParsed, TypeOK
  <2>2. 1 \in DOMAIN threads
    BY <2>1, ElementTypes, ProbeAssumption DEF AllJoined, PoolSpawned, PoolTarget
  <2> QED BY <1>1, <2>2 DEF PoolOK
<1>3. ASSUME NEW k \in DOMAIN ports
      PROVE  \E i \in DOMAIN results : results[i].port = ports[k]
  <2>1. k <= next
    BY <1>2, ElementTypes
  <2>2. \A t \in DOMAIN threads : ~Holding(t)
    BY <1>1 DEF Holding
  <2> QED BY <2>1, <2>2 DEF ClaimsAccounted
<1> QED BY <1>1, <1>3

(* The scope ends and the results are sorted.                              *)
LEMMA JoinStep == ASSUME IInv, Join PROVE IInv' /\ Range(report') = Range(results)
<1> USE DEF IInv
<1>1. /\ main = "probe" /\ main' = "report" /\ Len(ports) # 1 /\ AllJoined
      /\ UNCHANGED <<argument, filter, scope, ports, candidates, next, threads, results,
                     shown, exit>>
  BY DEF Join
<1>2. /\ \A k \in DOMAIN ports : \E i \in DOMAIN results : results[i].port = ports[k]
      /\ \A t \in DOMAIN threads : threads[t].at = "exited"
  BY <1>1, JoinedComplete
<1>3. PICK p \in Bijection(DOMAIN results, DOMAIN results) :
         report' = [i \in DOMAIN results |-> results[p[i]]]
  BY DEF Join, SortsOf
<1>4. \A i, j \in DOMAIN report' : i < j => report'[i].port <= report'[j].port
  BY DEF Join, SortsOf
<1>5. /\ p \in [DOMAIN results -> DOMAIN results]
      /\ \A i, j \in DOMAIN results : p[i] = p[j] => i = j
      /\ \A j \in DOMAIN results : \E i \in DOMAIN results : p[i] = j
  BY DEF Bijection, Injection, Surjection, IsInjective
<1>6. /\ report' \in Seq(Result) /\ DOMAIN report' = DOMAIN results
      /\ \A i \in DOMAIN results : report'[i] = results[p[i]]
  <2>1. DOMAIN results = 1..Len(results) /\ Len(results) \in Nat
        /\ \A i \in DOMAIN results : results[i] \in Result
    BY ElementTypes
  <2>2. \A i \in 1..Len(results) : results[p[i]] \in Result
    BY <1>5, <2>1
  <2> QED BY <1>3, <2>1, <2>2
<1>7. Range(report') = Range(results)
  BY <1>5, <1>6 DEF Range
<1>8. TypeOK'
  BY <1>1, <1>6 DEF TypeOK
<1>9. PortsParsed' /\ PhaseOK'
  BY <1>1 DEF PortsParsed, PhaseOK
<1>10. PoolOK'
  BY <1>1, <1>2 DEF PoolOK, PoolTarget
<1>11. ClaimsAccounted'
  BY <1>1 DEF ClaimsAccounted, Holding
<1>12. ReportOK'
  <2>1. {report'[i].port : i \in DOMAIN report'} = Range(ports)
    <3>1. \A i \in DOMAIN report' : report'[i].port \in Range(ports)
      BY <1>5, <1>6 DEF PoolOK, Range
    <3>2. \A k \in DOMAIN ports : \E i \in DOMAIN report' : report'[i].port = ports[k]
      BY <1>2, <1>5, <1>6
    <3> QED BY <3>1, <3>2 DEF Range
  <2>2. \A i, j \in DOMAIN report' : i < j => report'[i].port < report'[j].port
    <3> SUFFICES ASSUME NEW i \in DOMAIN report', NEW j \in DOMAIN report', i < j
                 PROVE  report'[i].port < report'[j].port
      OBVIOUS
    <3>1. report'[i].port <= report'[j].port
      BY <1>4
    <3>2. i # j
      BY <1>6, ElementTypes
    <3>3. report'[i].port # report'[j].port
      <4>1. p[i] \in DOMAIN results /\ p[j] \in DOMAIN results /\ p[i] # p[j]
        BY <1>5, <1>6, <3>2
      <4>2. \A a, b \in DOMAIN results : results[a].port = results[b].port => a = b
        BY DEF ClaimsAccounted
      <4>3. report'[i] = results[p[i]] /\ report'[j] = results[p[j]]
        BY <1>6
      <4> QED BY <4>1, <4>2, <4>3
    <3>4. report'[i].port \in Nat /\ report'[j].port \in Nat
      BY <1>5, <1>6, ElementTypes, FieldTypes
    <3> QED BY <3>1, <3>3, <3>4
  <2> QED BY <1>1, <1>7, <2>1, <2>2 DEF ReportOK
<1>13. OvershootOK'
  BY <1>1 DEF OvershootOK, Exited
<1> QED BY <1>7, <1>8, <1>9, <1>10, <1>11, <1>12, <1>13

(* The report is printed and the exit status set.                          *)
LEMMA ReportStep == ASSUME IInv, Report PROVE IInv'
<1> USE DEF IInv
<1>1. /\ main = "report" /\ main' = "exit" /\ exit' \in {"success", "unreachable"}
      /\ UNCHANGED <<argument, filter, scope, ports, candidates, next, threads, results,
                     report>>
  BY DEF Report
<1>2. TypeOK' /\ PortsParsed' /\ PhaseOK'
  BY <1>1 DEF TypeOK, PortsParsed, PhaseOK
<1>3. PoolOK' /\ ClaimsAccounted' /\ ReportOK' 
  BY <1>1 DEF PoolOK, PoolTarget, ClaimsAccounted, Holding, ReportOK
<1>4. OvershootOK'
  BY <1>1 DEF OvershootOK, Exited
<1> QED BY <1>2, <1>3, <1>4

(* Every step of the command preserves the inductive invariant.            *)
LEMMA NextIInv == IInv /\ [Next]_vars => IInv'
<1> SUFFICES ASSUME IInv, [Next]_vars PROVE IInv'
  OBVIOUS
<1>1. CASE MainStep
  BY <1>1, PrologueStep, SpawnStep, RefusalStep, EndSingleStep, JoinStep, ReportStep
     DEF MainStep
<1>2. ASSUME NEW t \in DOMAIN threads, ThreadStep(t) PROVE IInv'
  BY <1>2, ClaimStep, ConnectStep, PushStep DEF ThreadStep
<1>3. CASE UNCHANGED vars
  BY <1>3, SMTT(30) DEF vars, IInv, TypeOK, PortsParsed, PhaseOK, PoolOK, PoolTarget,
              ClaimsAccounted, Holding, ReportOK, OvershootOK, Exited
<1> QED BY <1>1, <1>2, <1>3 DEF Next, Done

(* Every state the command reaches satisfies the inductive invariant.      *)
THEOREM Invariance == Spec => []IInv
BY InitIInv, NextIInv, PTL DEF Spec

(* Every variable keeps its type and next never overshoots by more than    *)
(* one claim per thread.                                                   *)
THEOREM TypeCorrect == Spec => []TypeOK
<1>1. IInv => TypeOK
  BY DEF IInv
<1> QED BY <1>1, Invariance, PTL

(* No claim is lost and none is made twice, for any number of threads.     *)
THEOREM ClaimsAreAccounted == Spec => []ClaimsAccounted
<1>1. IInv => ClaimsAccounted
  BY DEF IInv
<1> QED BY <1>1, Invariance, PTL

(* tcp_probe_ports returns one result per selected port, in order.         *)
THEOREM ReportIsComplete == Spec => []ReportComplete
<1>1. IInv => ReportComplete
  BY DEF IInv, ReportOK, ReportComplete, PortsParsed, AscendingList
<1> QED BY <1>1, Invariance, PTL
-----------------------------------------------------------------------------
(* The refinement: each step of the threads is a step of ProbeSpec or      *)
(* leaves its variables alone.                                             *)

(* The first n positive numbers.                                           *)
LEMMA CardinalityUpTo ==
  ASSUME NEW n \in Nat
  PROVE  IsFiniteSet(1..n) /\ Cardinality(1..n) = n
BY FS_Interval

(* A set without one of its elements has one element less, and a subset of *)
(* it at most as many.                                                     *)
LEMMA SmallerSubset ==
  ASSUME NEW S, IsFiniteSet(S), NEW x \in S, NEW T, T \subseteq S \ {x}
  PROVE  IsFiniteSet(T) /\ Cardinality(T) \in Nat /\ Cardinality(T) <= Cardinality(S) - 1
<1>1. IsFiniteSet(S \ {x}) /\ Cardinality(S \ {x}) = Cardinality(S) - 1
  BY FS_RemoveElement
<1>2. IsFiniteSet(T) /\ Cardinality(T) <= Cardinality(S \ {x})
  BY <1>1, FS_Subset
<1>3. Cardinality(T) \in Nat
  BY <1>2, FS_CardinalityType
<1> QED BY <1>1, <1>2, <1>3

(* Indices in flight: fewer than the pool's size while one thread claims.  *)
LEMMA InFlightBound ==
  ASSUME IInv, NEW t \in DOMAIN threads, threads[t].at = "claim"
  PROVE  Cardinality(InFlight) < MaxConcurrentProbes
<1> DEFINE Busy == {u \in DOMAIN threads : threads[u].at = "connect"}
           D == 1..Len(threads)
           portOf == [u \in Busy |-> ports[threads[u].index + 1]]
<1>1. DOMAIN threads = D /\ Len(threads) \in Nat
  BY ElementTypes DEF IInv
<1>2. main = "probe" /\ Len(threads) <= MaxConcurrentProbes
  BY RunningThread, ElementTypes, ProbeAssumption DEF IInv, PoolTarget
<1>3. IsFiniteSet(D) /\ Cardinality(D) = Len(threads)
  BY <1>1, CardinalityUpTo
<1>4. t \in D
  BY <1>1
<1>5. Busy \subseteq D \ {t}
  <2>1. t \notin Busy
    OBVIOUS
  <2> QED BY <1>1, <2>1
<1>6. IsFiniteSet(Busy) /\ Cardinality(Busy) <= Len(threads) - 1 /\ Cardinality(Busy) \in Nat
  <2> HIDE DEF Busy, D
  <2> QED BY <1>3, <1>4, <1>5, SmallerSubset
<1>7. InFlight = {portOf[u] : u \in Busy}
  BY <1>2 DEF InFlight
<1>8. portOf \in Surjection(Busy, InFlight)
  BY <1>7 DEF Surjection
<1>9. IsFiniteSet(InFlight) /\ Cardinality(InFlight) <= Cardinality(Busy)
  BY <1>6, <1>8, FS_Surjection
<1>10. Cardinality(InFlight) \in Nat
  BY <1>9, FS_CardinalityType
<1> QED BY <1>1, <1>2, <1>6, <1>9, <1>10, ProbeAssumption

(* The instance's Cardinality is Cardinality.                              *)
LEMMA AbstractCardinality == \A S : Abstract!Cardinality(S) = Cardinality(S)
BY DEF Abstract!Cardinality, Cardinality

(* Before the first attempt nothing is in flight and nothing is probed.    *)
LEMMA QuietIsEmpty ==
  /\ threads = <<>> /\ main # "single" => InFlight = {}
  /\ threads = <<>> /\ results = <<>> /\ report = <<>> => Probed = {}
BY DEF InFlight, Probed, Range

LEMMA QuietIsEmptyNext ==
  /\ threads' = <<>> /\ main' # "single" => InFlight' = {}
  /\ threads' = <<>> /\ results' = <<>> /\ report' = <<>> => Probed' = {}
BY DEF InFlight, Probed, Range

(* The main thread's steps before the pool.                                *)
LEMMA PrologueRefines ==
  ASSUME IInv, IInv',
         RejectArguments \/ AcceptArguments \/ ResolveFails \/ Resolve
           \/ RouteFound \/ RouteFails \/ NoRoutableAddress \/ BeginSingle
           \/ EndSingle
  PROVE  [Abstract!Next]_(Abstract!vars)
<1> USE DEF IInv
<1>1. CASE RejectArguments \/ ResolveFails \/ NoRoutableAddress
  <2>1. InFlight = {} /\ Probed = {} /\ InFlight' = {} /\ Probed' = {} /\ exit = "running"
    BY <1>1, QuietIsEmpty, QuietIsEmptyNext
       DEF RejectArguments, ResolveFails, NoRoutableAddress, Fail, PhaseOK
  <2>2. Abstract!Reject
    BY <1>1, <2>1 DEF RejectArguments, ResolveFails, NoRoutableAddress, Fail, Abstract!Reject
  <2> QED BY <2>2 DEF Abstract!Next
<1>2. CASE AcceptArguments
  <2>1. InFlight = {} /\ Probed = {} /\ InFlight' = {} /\ Probed' = {} /\ exit = "running"
    BY <1>2, QuietIsEmpty, QuietIsEmptyNext DEF AcceptArguments, PhaseOK
  <2>2. Range(ports) = {}
    BY <1>2 DEF AcceptArguments, PortsParsed, Range
  <2>3. Range(ports)' # {} /\ Range(ports)' \subseteq Nat
    <3>1. ports' # <<>> /\ ports' \in Seq(Nat)
      BY <1>2 DEF AcceptArguments, PortsParsed, TypeOK
    <3>2. 1 \in DOMAIN ports' /\ \A k \in DOMAIN ports' : ports'[k] \in Nat
      BY <3>1
    <3> QED BY <3>2 DEF Range
  <2>4. UNCHANGED <<shown, exit>>
    BY <1>2 DEF AcceptArguments
  <2>5. Abstract!Accept
    BY <2>1, <2>2, <2>3, <2>4 DEF Abstract!Accept
  <2> QED BY <2>5 DEF Abstract!Next
<1>3. CASE Resolve \/ RouteFound \/ RouteFails
  <2>1. InFlight' = InFlight /\ Probed' = Probed /\ UNCHANGED <<ports, shown, exit>>
    BY <1>3 DEF Resolve, RouteFound, RouteFails, InFlight, Probed
  <2> QED BY <2>1 DEF Abstract!vars
<1>4. CASE BeginSingle
  <2>1. /\ main = "probe" /\ main' = "single" /\ Len(ports) = 1 /\ exit = "running"
        /\ threads = <<>> /\ results = <<>> /\ report = <<>>
        /\ UNCHANGED <<ports, threads, results, report, shown, exit>>
    BY <1>4 DEF BeginSingle, PhaseOK
  <2>2. InFlight = {} /\ Probed = {} /\ Probed' = {}
    BY <2>1, QuietIsEmpty, QuietIsEmptyNext
  <2>3. InFlight' = {ports[1]}
    BY <2>1 DEF InFlight
  <2>4. ports[1] \in Range(ports)
    BY <2>1, ElementTypes DEF Range
  <2>5. Abstract!Cardinality(InFlight) < MaxConcurrentProbes
    BY <2>2, FS_EmptySet, AbstractCardinality, ProbeAssumption
  <2>6. Abstract!Start(ports[1])
    BY <2>1, <2>2, <2>3, <2>4, <2>5 DEF Abstract!Start, Abstract!PortsOf
  <2> QED BY <2>4, <2>6 DEF Abstract!Next
<1>5. CASE EndSingle
  <2>1. /\ main = "single" /\ main' = "report" /\ exit = "running"
        /\ threads = <<>> /\ results = <<>> /\ report = <<>>
        /\ UNCHANGED <<ports, threads, results, shown, exit>>
    BY <1>5 DEF EndSingle, PhaseOK
  <2>2. PICK s \in Status : report' = <<[port |-> ports[1], status |-> s]>>
    BY <1>5 DEF EndSingle
  <2>3. InFlight = {ports[1]} /\ InFlight' = {}
    BY <2>1 DEF InFlight
  <2>4. Probed = {} /\ Probed' = {[port |-> ports[1], status |-> s]}
    BY <2>1, <2>2 DEF Probed, Range
  <2>5. Abstract!Finish(ports[1], s)
    BY <2>1, <2>3, <2>4 DEF Abstract!Finish
  <2>6. ports[1] \in InFlight /\ s \in Abstract!Status
    BY <2>3 DEF Status, Abstract!Status
  <2> QED BY <2>5, <2>6 DEF Abstract!Next
<1> QED BY <1>1, <1>2, <1>3, <1>4, <1>5

(* Inside the pool, the in-flight ports are those of connecting threads.   *)
LEMMA PoolInFlight ==
  /\ main = "probe" => InFlight = {ports[threads[u].index + 1] :
                         u \in {v \in DOMAIN threads : threads[v].at = "connect"}}
  /\ main' = "probe" => InFlight' = {ports'[threads'[u].index + 1] :
                         u \in {v \in DOMAIN threads' : threads'[v].at = "connect"}}
BY DEF InFlight

(* Threads that go on connecting keep their ports in flight.               *)
LEMMA SameInFlight ==
  ASSUME main = "probe", main' = "probe", ports' = ports,
         \A u \in DOMAIN threads : threads[u].at = "connect" =>
            u \in DOMAIN threads' /\ threads'[u] = threads[u],
         \A u \in DOMAIN threads' : threads'[u].at = "connect" =>
            u \in DOMAIN threads /\ threads[u].at = "connect"
  PROVE  InFlight' = InFlight
<1>1. ASSUME NEW x \in InFlight PROVE x \in InFlight'
  <2>1. PICK u \in DOMAIN threads :
          threads[u].at = "connect" /\ x = ports[threads[u].index + 1]
    BY <1>1, PoolInFlight
  <2>2. /\ u \in DOMAIN threads' /\ threads'[u].at = "connect"
        /\ x = ports'[threads'[u].index + 1]
    BY <2>1
  <2> QED BY <2>2, PoolInFlight
<1>2. ASSUME NEW x \in InFlight' PROVE x \in InFlight
  <2>1. PICK u \in DOMAIN threads' :
          threads'[u].at = "connect" /\ x = ports'[threads'[u].index + 1]
    BY <1>2, PoolInFlight
  <2>2. /\ u \in DOMAIN threads /\ threads[u].at = "connect"
        /\ x = ports[threads[u].index + 1]
    BY <2>1
  <2> QED BY <2>2, PoolInFlight
<1> QED BY <1>1, <1>2

(* Spawning changes nothing the user could see.                            *)
LEMMA SpawnRefines == ASSUME IInv, Spawn PROVE UNCHANGED Abstract!vars
<1> USE DEF IInv
<1>1. /\ main = "probe" /\ main' = "probe"
      /\ UNCHANGED <<ports, results, report, shown, exit>>
  BY DEF Spawn
<1>2. /\ DOMAIN threads' = 1..(Len(threads) + 1)
      /\ threads'[Len(threads) + 1] = NewThread
      /\ \A u \in DOMAIN threads : u \in DOMAIN threads' /\ threads'[u] = threads[u]
      /\ \A u \in DOMAIN threads' : u \in DOMAIN threads \/ u = Len(threads) + 1
  <2>1. threads \in Seq(Thread) /\ NewThread \in Thread
    BY FieldTypes DEF TypeOK
  <2> QED BY <2>1, AppendFacts DEF Spawn
<1>3. InFlight' = InFlight
  BY <1>1, <1>2, FieldTypes, SameInFlight
<1>4. Probed' = Probed
  BY <1>1, <1>2, FieldTypes DEF Probed
<1> QED BY <1>1, <1>3, <1>4 DEF Abstract!vars

(* The failure to create a thread shows nothing yet.                       *)
LEMMA SpawnFailsRefines == ASSUME SpawnFails PROVE UNCHANGED Abstract!vars
BY DEF SpawnFails, Abstract!vars, InFlight, Probed

(* The panic ends the command with no attempt open.                        *)
LEMMA PanicRefines == ASSUME IInv, Panic PROVE Abstract!Next
<1>1. /\ main = "probe" /\ main' = "exit" /\ exit' = "panic"
      /\ UNCHANGED <<ports, threads, results, report, shown>>
      /\ \A t \in DOMAIN threads : threads[t].at = "exited"
  BY DEF Panic
<1>2. exit = "running" /\ ports # <<>> /\ ports \in Seq(Nat)
  BY <1>1 DEF IInv, PhaseOK, PortsParsed, TypeOK
<1>3. Range(ports) # {}
  <2>1. 1 \in DOMAIN ports
    BY <1>2
  <2> QED BY <2>1 DEF Range
<1>4. InFlight = {} /\ InFlight' = {}
  BY <1>1 DEF InFlight
<1>5. Probed' = Probed
  BY <1>1 DEF Probed
<1>6. Abstract!Die
  BY <1>1, <1>2, <1>3, <1>4, <1>5 DEF Abstract!Die
<1> QED BY <1>6 DEF Abstract!Next

(* Claiming an index starts that port's attempt, or changes nothing.       *)
LEMMA ClaimRefines ==
  ASSUME IInv, NEW t \in DOMAIN threads, Claim(t)
  PROVE  [Abstract!Next]_(Abstract!vars)
<1> USE DEF IInv
<1>1. /\ threads[t].at = "claim"
      /\ UNCHANGED <<main, ports, results, report, shown, exit>>
      /\ main = "probe" /\ exit = "running" /\ report = <<>>
  BY RunningThread DEF Claim
<1>2. threads[t] \in Thread
  BY ElementTypes
<1>3. CASE next < Len(ports)
  <2> DEFINE n == [threads[t] EXCEPT !.at = "connect", !.index = next]
             p == ports[next + 1]
  <2>1. n \in Thread /\ n.at = "connect" /\ n.index = next
    BY <1>2, ElementTypes DEF Thread
  <2>2. threads' = [threads EXCEPT ![t] = n]
    BY <1>3 DEF Claim
  <2>3. /\ DOMAIN threads' = DOMAIN threads /\ threads'[t].at = "connect"
        /\ threads'[t].index = next
        /\ \A u \in DOMAIN threads : u # t => threads'[u] = threads[u]
    BY <2>1, <2>2, ThreadUpdate
  <2>4. next + 1 \in DOMAIN ports /\ p \in Range(ports)
    BY <1>3, ElementTypes DEF Range
  <2>5. InFlight' = InFlight \union {p}
    BY <1>1, <2>3, PoolInFlight
  <2>6. Probed' = Probed
    BY <1>1, <2>3 DEF Probed
  <2>7. p \notin InFlight
    <3> SUFFICES ASSUME NEW u \in DOMAIN threads, threads[u].at = "connect",
                        ports[threads[u].index + 1] = p
                 PROVE  FALSE
      BY <1>1, PoolInFlight
    <3>1. threads[u].index \in Nat /\ threads[u].index < next /\ threads[u].index < Len(ports)
      BY ElementTypes, FieldTypes DEF ClaimsAccounted, Holding
    <3>2. threads[u].index + 1 \in DOMAIN ports
      BY <3>1, ElementTypes
    <3>3. threads[u].index + 1 = next + 1
      BY <2>4, <3>2, PortsDistinct
    <3> QED BY <3>1, <3>3, ElementTypes
  <2>8. p \notin Abstract!PortsOf(Probed)
    <3>1. \A i \in DOMAIN results : results[i].port # p
      <4>1. ~(next + 1 <= next)
        BY ElementTypes
      <4> QED BY <2>4, <4>1 DEF ClaimsAccounted
    <3>2. ASSUME NEW u \in DOMAIN threads, threads[u].at = "push",
                 threads[u].result.port = p
          PROVE  FALSE
      <4>1. threads[u].index \in Nat /\ threads[u].index < next /\ threads[u].index < Len(ports)
        BY <3>2, ElementTypes, FieldTypes DEF ClaimsAccounted, Holding
      <4>2. threads[u].index + 1 \in DOMAIN ports /\ ports[threads[u].index + 1] = p
        BY <3>2, <4>1, ElementTypes, SMTT(30) DEF PoolOK
      <4>3. threads[u].index + 1 = next + 1
        BY <2>4, <4>2, PortsDistinct
      <4> QED BY <4>1, <4>3, ElementTypes
    <3>3. Range(report) = {}
      BY <1>1 DEF Range
    <3> QED BY <3>1, <3>2, <3>3 DEF Abstract!PortsOf, Probed, Range
  <2>9. Abstract!Cardinality(InFlight) < MaxConcurrentProbes
    BY <1>1, InFlightBound, AbstractCardinality
  <2>10. Abstract!Start(p)
    BY <1>1, <2>4, <2>5, <2>6, <2>7, <2>8, <2>9 DEF Abstract!Start
  <2> QED BY <2>4, <2>10 DEF Abstract!Next
<1>4. CASE ~(next < Len(ports))
  <2> DEFINE n == [threads[t] EXCEPT !.at = "exited"]
  <2>1. n \in Thread /\ n.at = "exited"
    BY <1>2 DEF Thread
  <2>2. threads' = [threads EXCEPT ![t] = n]
    BY <1>4 DEF Claim
  <2>3. /\ DOMAIN threads' = DOMAIN threads /\ threads'[t].at = "exited"
        /\ \A u \in DOMAIN threads : u # t => threads'[u] = threads[u]
    BY <2>1, <2>2, ThreadUpdate
  <2>4. InFlight' = InFlight
    BY <1>1, <2>3, SameInFlight
  <2>5. Probed' = Probed
    BY <1>1, <2>3 DEF Probed
  <2> QED BY <1>1, <2>4, <2>5 DEF Abstract!vars
<1> QED BY <1>3, <1>4

(* The end of a connection attempt is the end of that port's attempt.      *)
LEMMA ConnectRefines ==
  ASSUME IInv, NEW t \in DOMAIN threads, Connect(t)
  PROVE  [Abstract!Next]_(Abstract!vars)
<1> USE DEF IInv
<1>1. /\ threads[t].at = "connect"
      /\ UNCHANGED <<main, ports, results, report, shown, exit>>
      /\ main = "probe" /\ exit = "running"
  BY RunningThread DEF Connect
<1> DEFINE p == ports[threads[t].index + 1]
<1>2. PICK status \in Status :
        /\ threads[t].index + 1 \in DOMAIN ports
        /\ DOMAIN threads' = DOMAIN threads
        /\ threads'[t].at = "push"
        /\ threads'[t].result = [port |-> p, status |-> status]
        /\ \A u \in DOMAIN threads : u # t => threads'[u] = threads[u]
  BY ConnectEffect
<1>3. p \in InFlight
  BY <1>1, PoolInFlight
<1>4. \A u \in DOMAIN threads : u # t /\ threads[u].at = "connect" =>
         ports[threads[u].index + 1] # p
  <2> SUFFICES ASSUME NEW u \in DOMAIN threads, u # t, threads[u].at = "connect",
                      ports[threads[u].index + 1] = p
               PROVE  FALSE
    OBVIOUS
  <2>1. /\ threads[u].index \in Nat /\ threads[u].index < Len(ports)
        /\ threads[t].index \in Nat
    BY ElementTypes, FieldTypes DEF ClaimsAccounted, Holding
  <2>2. threads[u].index + 1 \in DOMAIN ports
    BY <2>1, ElementTypes, SMTT(30)
  <2>3. threads[u].index + 1 = threads[t].index + 1
    BY <1>2, <2>2, PortsDistinct
  <2>4. threads[u].index = threads[t].index
    BY <2>1, <2>3
  <2> QED BY <1>1, <2>4 DEF ClaimsAccounted, Holding
<1>5. InFlight' = InFlight \ {p}
  <2>1. {v \in DOMAIN threads' : threads'[v].at = "connect"}
          = {v \in DOMAIN threads : threads[v].at = "connect"} \ {t}
    BY <1>1, <1>2
  <2>2. \A v \in DOMAIN threads : v # t => threads'[v] = threads[v]
    BY <1>2
  <2> QED BY <1>1, <1>4, <2>1, <2>2, PoolInFlight
<1>6. Probed' = Probed \union {[port |-> p, status |-> status]}
  <2>1. {v \in DOMAIN threads' : threads'[v].at = "push"}
          = {v \in DOMAIN threads : threads[v].at = "push"} \union {t}
    BY <1>1, <1>2
  <2> QED BY <1>1, <1>2, <2>1 DEF Probed
<1>7. Abstract!Finish(p, status)
  BY <1>1, <1>3, <1>5, <1>6 DEF Abstract!Finish
<1> QED BY <1>3, <1>7 DEF Abstract!Next, Status, Abstract!Status

(* Moving a result into the vector changes nothing the user could see.     *)
LEMMA PushRefines ==
  ASSUME IInv, NEW t \in DOMAIN threads, Push(t)
  PROVE  UNCHANGED Abstract!vars
<1> USE DEF IInv
<1>1. /\ threads[t].at = "push" /\ results' = Append(results, threads[t].result)
      /\ threads' = [threads EXCEPT ![t] = NewThread]
      /\ UNCHANGED <<main, ports, report, shown, exit>> /\ main = "probe"
  BY RunningThread DEF Push
<1>2. /\ DOMAIN threads' = DOMAIN threads /\ threads'[t].at = "claim"
      /\ \A u \in DOMAIN threads : u # t => threads'[u] = threads[u]
  BY <1>1, ThreadUpdate, FieldTypes
<1>3. InFlight' = InFlight
  BY <1>1, <1>2, SameInFlight
<1>4. Probed' = Probed
  <2>1. threads[t].result \in Result /\ results \in Seq(Result)
    BY ElementTypes, FieldTypes DEF TypeOK
  <2>2. Range(results') = Range(results) \union {threads[t].result}
    <3>1. /\ DOMAIN results' = 1..(Len(results) + 1)
          /\ results'[Len(results) + 1] = threads[t].result
          /\ \A i \in DOMAIN results : i \in DOMAIN results' /\ results'[i] = results[i]
          /\ \A i \in DOMAIN results' : i \in DOMAIN results \/ i = Len(results) + 1
      BY <1>1, <2>1, AppendFacts
    <3>2. Len(results) + 1 \in DOMAIN results'
      BY <3>1, ElementTypes
    <3> QED BY <3>1, <3>2 DEF Range
  <2>3. {v \in DOMAIN threads : threads[v].at = "push"}
          = {v \in DOMAIN threads' : threads'[v].at = "push"} \union {t}
    BY <1>1, <1>2
  <2>4. \A v \in DOMAIN threads' : threads'[v].at = "push" => threads'[v] = threads[v]
    BY <1>1, <1>2
  <2> QED BY <1>1, <2>2, <2>3, <2>4 DEF Probed
<1> QED BY <1>1, <1>3, <1>4 DEF Abstract!vars

(* The end of the scope and the sort change nothing the user could see.    *)
LEMMA JoinRefines == ASSUME IInv, Join PROVE UNCHANGED Abstract!vars
<1>1. /\ main = "probe" /\ main' = "report" /\ Len(ports) # 1 /\ AllJoined
      /\ UNCHANGED <<ports, threads, results, shown, exit>>
  BY DEF Join
<1>2. \A t \in DOMAIN threads : threads[t].at = "exited"
  BY <1>1, JoinedComplete
<1>3. report = <<>> /\ Range(report') = Range(results)
  BY <1>1, JoinStep DEF IInv, PhaseOK
<1>4. InFlight = {} /\ InFlight' = {}
  BY <1>1, <1>2 DEF InFlight
<1>5. Probed = Range(results) /\ Probed' = Range(results)
  <2>1. {u \in DOMAIN threads : threads[u].at = "push"} = {}
    BY <1>2
  <2>2. Range(report) = {}
    BY <1>3 DEF Range
  <2> QED BY <1>1, <1>3, <2>1, <2>2 DEF Probed
<1> QED BY <1>1, <1>4, <1>5 DEF Abstract!vars

(* In the last phase the report is all there is.                           *)
LEMMA ReportedIsProbed ==
  ASSUME IInv, main = "report"
  PROVE  /\ InFlight = {} /\ Probed = Range(report)
         /\ \A t \in DOMAIN threads : threads[t].at = "exited"
<1>1. \A t \in DOMAIN threads : threads[t].at = "exited"
  BY DEF IInv, PoolOK
<1>2. Range(results) \subseteq Range(report)
  BY DEF IInv, ReportOK
<1>3. {u \in DOMAIN threads : threads[u].at = "push"} = {}
  BY <1>1
<1>4. {u \in DOMAIN threads : threads[u].at = "connect"} = {}
  BY <1>1
<1> QED BY <1>1, <1>2, <1>3, <1>4 DEF InFlight, Probed

(* Printing the report is the abstract report.                             *)
LEMMA ReportRefines == ASSUME IInv, Report PROVE Abstract!Next
<1>1. /\ main = "report" /\ main' = "exit"
      /\ UNCHANGED <<ports, threads, results, report>>
  BY DEF Report
<1> DEFINE Visible == {i \in DOMAIN report : filter \in {"none", report[i].status}}
<1>2. shown' = [i \in Visible |-> report[i]]
  BY DEF Report
<1>3. InFlight = {} /\ Probed = Range(report)
  BY <1>1, ReportedIsProbed
<1>4. InFlight' = {} /\ Probed' = Probed
  <2>1. \A t \in DOMAIN threads : threads[t].at = "exited"
    BY <1>1, ReportedIsProbed
  <2> QED BY <1>1, <2>1 DEF InFlight, Probed
<1>5. Range(ports) # {} /\ Abstract!PortsOf(Probed) = Range(ports)
  <2>1. ports # <<>> /\ ports \in Seq(Nat)
    BY <1>1 DEF IInv, PortsParsed, TypeOK
  <2>2. Range(ports) # {}
    <3>1. 1 \in DOMAIN ports
      BY <2>1
    <3> QED BY <3>1 DEF Range
  <2>3. {report[i].port : i \in DOMAIN report} = Range(ports)
    BY <1>1 DEF IInv, ReportOK
  <2>4. Abstract!PortsOf(Range(report)) = {report[i].port : i \in DOMAIN report}
    BY DEF Abstract!PortsOf, Range
  <2> QED BY <1>3, <2>2, <2>3, <2>4
<1>6. Abstract!StrictlyAscending(shown')
  <2>1. \A i, j \in DOMAIN report : i < j => report[i].port < report[j].port
    BY <1>1 DEF IInv, ReportOK
  <2> QED BY <1>2, <2>1 DEF Abstract!StrictlyAscending
<1>7. Abstract!Range(shown') = Abstract!Matching(filter)
  <2>1. Abstract!Range(shown') = {report[i] : i \in Visible}
    BY <1>2 DEF Abstract!Range
  <2>2. Abstract!Matching(filter) = {r \in Range(report) : filter \in {"none", r.status}}
    BY <1>3 DEF Abstract!Matching
  <2> QED BY <2>1, <2>2 DEF Range
<1>8. exit = "running"
      /\ exit' = IF \E r \in Probed : Abstract!IsReachable(r)
                 THEN "success" ELSE "unreachable"
  <2>1. (\E i \in DOMAIN report : Reachable(report[i]))
          <=> \E r \in Range(report) : Abstract!IsReachable(r)
    BY DEF Reachable, Abstract!IsReachable, Range
  <2>2. exit = "running"
    BY <1>1 DEF IInv, PhaseOK
  <2> QED BY <1>3, <2>1, <2>2 DEF Report
<1>9. Abstract!Report(filter)
  BY <1>1, <1>3, <1>4, <1>5, <1>6, <1>7, <1>8 DEF Abstract!Report
<1>10. filter \in Abstract!Status \union {"none"}
  BY DEF IInv, TypeOK, Status, Abstract!Status
<1> QED BY <1>9, <1>10 DEF Abstract!Next

(* The command starts where the abstract probe starts.                     *)
LEMMA InitRefines == Init => Abstract!Init
<1> SUFFICES ASSUME Init PROVE Abstract!Init
  OBVIOUS
<1>1. InFlight = {} /\ Probed = {} /\ Range(ports) = {}
  BY QuietIsEmpty DEF Init, Range
<1> QED BY <1>1 DEF Init, Abstract!Init

(* Every step of the command is a step of the abstract probe or a stutter. *)
LEMMA NextRefines ==
  ASSUME IInv, IInv', [Next]_vars
  PROVE  [Abstract!Next]_(Abstract!vars)
<1>1. CASE MainStep
  <2>1. CASE Spawn
    BY <2>1, SpawnRefines
  <2>2. CASE Join
    BY <2>2, JoinRefines
  <2>3. CASE Report
    BY <2>3, ReportRefines
  <2>4. CASE SpawnFails
    BY <2>4, SpawnFailsRefines
  <2>5. CASE Panic
    BY <2>5, PanicRefines
  <2> QED BY <1>1, <2>1, <2>2, <2>3, <2>4, <2>5, PrologueRefines DEF MainStep
<1>2. ASSUME NEW t \in DOMAIN threads, ThreadStep(t)
      PROVE  [Abstract!Next]_(Abstract!vars)
  <2>1. CASE Claim(t)
    BY <2>1, ClaimRefines
  <2>2. CASE Connect(t)
    BY <2>2, ConnectRefines
  <2>3. CASE Push(t)
    BY <2>3, PushRefines
  <2> QED BY <1>2, <2>1, <2>2, <2>3 DEF ThreadStep
<1>3. CASE UNCHANGED vars
  BY <1>3 DEF vars, Abstract!vars, InFlight, Probed
<1> QED BY <1>1, <1>2, <1>3 DEF Next, Done

(* tcp_probe_ports with its threads, counter and mutex, and the report and *)
(* exit status built on it, implement the abstract probe: for every port   *)
(* list and pool size, no interleaving probes a port twice, opens more     *)
(* than MaxConcurrentProbes connections or reports too early.              *)
THEOREM Refinement == Spec => ImplementsProbeSpec
BY Invariance, InitRefines, NextRefines, PTL
   DEF Spec, ImplementsProbeSpec, Abstract!Spec
=============================================================================
