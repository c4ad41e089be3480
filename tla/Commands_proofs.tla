--------------------------- MODULE Commands_proofs ---------------------------
(***************************************************************************)
(* The theorems about the command line. A step of Commands is one of the   *)
(* command's own or of the component that was dispatched, and leaves the   *)
(* other components alone; so what each component keeps (see               *)
(* Components_proofs), the composition keeps.                              *)
(***************************************************************************)
EXTENDS Components_proofs

(* A step is a step of at most one component.                              *)
LEMMA Frames ==
  ASSUME [Next]_vars
  PROVE  /\ Scan!Next \/ UNCHANGED scanVars
         /\ Resolver!Next \/ UNCHANGED namesVars
         /\ Traffic!Next \/ UNCHANGED trafficVars
         /\ Check!Next \/ UNCHANGED checkVars
         /\ Sockets!Next \/ UNCHANGED socketsVars
         /\ Bitset!Next \/ UNCHANGED bitsetVars
<1> USE DEF Unchanged
<1>1. CASE Dispatch
  BY <1>1, Zenon DEF Dispatch
<1>2. CASE Section
  BY <1>2, Zenon DEF Section
<1>3. CASE Exit
  BY <1>3, Zenon DEF Exit
<1>4. CASE UNCHANGED vars
  BY <1>4, Zenon DEF vars
<1>5. CASE Exited
  BY <1>5, Zenon DEF Exited, vars
<1>6. CASE Scans
  BY <1>6, Zenon DEF Scans
<1>7. CASE Resolves
  BY <1>7, Zenon DEF Resolves
<1>8. CASE Samples
  BY <1>8, Zenon DEF Samples
<1>9. CASE Checks
  BY <1>9, Zenon DEF Checks
<1>10. CASE Lists
  BY <1>10, Zenon DEF Lists
<1>11. CASE Decodes
  BY <1>11, Zenon DEF Decodes
<1>12. CASE PrintFails
  BY <1>12, Zenon DEF PrintFails
<1> QED
  BY <1>1, <1>2, <1>3, <1>4, <1>5, <1>6, <1>7, <1>8, <1>9, <1>10, <1>11, <1>12, Zenon
     DEF Next
-----------------------------------------------------------------------------
LEMMA BitsetInvariance == Spec => []BitsetInv
<1>1. Init => BitsetInv
  BY BitsetInit, Zenon DEF Init
<1>2. BitsetInv /\ [Next]_vars => BitsetInv'
  <2>1. BitsetInv /\ UNCHANGED bitsetVars => BitsetInv'
    BY Zenon DEF bitsetVars, BitsetInv, Bitset!TypeOK, Bitset!BitsetExact, Bitset!Meant
  <2> QED BY <2>1, Frames, BitsetNext, Zenon
<1> QED BY <1>1, <1>2, PTL DEF Spec

(* bitset_names_with_reference decodes a mask, with or without names, a    *)
(* bitmap and a list with names to the names of the bits set, however many *)
(* bits there are. Of a list without names it says nothing.                *)
THEOREM BitsetsDecodeExactly == Spec => []BitsetExact
<1>1. BitsetInv => BitsetExact
  BY Zenon DEF BitsetInv, BitsetExact
<1> QED BY <1>1, BitsetInvariance, PTL

LEMMA NamesInvariance == Spec => []NamesInv
<1>1. Init => NamesInv
  BY NamesInit, Zenon DEF Init
<1>2. NamesInv /\ [Next]_vars => NamesInv'
  BY NamesStutter, Frames, NamesNext, Zenon
<1> QED BY <1>1, <1>2, PTL DEF Spec

(* reverse_names never has more threads than the limit, and returns with   *)
(* every address looked up, except for the chunks of threads that          *)
(* panicked.                                                               *)
THEOREM NamesAreComplete == Spec => []NamesComplete
<1>1. NamesInv => NamesComplete
  BY NamesFollow, Zenon DEF NamesComplete
<1> QED BY <1>1, NamesInvariance, PTL

LEMMA TrafficInvariance == Spec => []TrafficInv
<1>1. Init => TrafficInv
  BY TrafficInit, Zenon DEF Init
<1>2. TrafficInv /\ [Next]_vars => TrafficInv'
  BY TrafficStutter, Frames, TrafficNext, Zenon
<1> QED BY <1>1, <1>2, PTL DEF Spec

(* traffic::sample reports no more than moved under a name between its two *)
(* readings, whatever the size of the counters and whichever interfaces    *)
(* come, go or are renamed meanwhile, unless one took the name with counts *)
(* of its own.                                                             *)
THEOREM RatesAreHonest == Spec => []RatesHonest
<1>1. TrafficInv => RatesHonest
  BY TrafficFollow, Zenon DEF RatesHonest
<1> QED BY <1>1, TrafficInvariance, PTL

LEMMA ScanInvariance == Spec => []ScanInv
<1>1. Init => ScanInv
  BY ScanInit, Zenon DEF Init
<1>2. ScanInv /\ [Next]_vars => ScanInv'
  BY ScanStutter, Frames, ScanNext, Zenon
<1> QED BY <1>1, <1>2, PTL DEF Spec

(* scan reports only neighbors of its networks, and tells new ones from    *)
(* known ones by the snapshot before the probes, for every table of        *)
(* neighbors and every selection.                                          *)
THEOREM ReportsAreExact == Spec => []ReportExact
<1>1. ScanInv => ReportExact
  BY ScanFollow, Zenon DEF ReportExact
<1> QED BY <1>1, ScanInvariance, PTL

LEMMA SentInvariance == Spec => []SentOK
<1>1. Init => SentOK
  BY SentInit, Zenon DEF Init
<1>2. ScanInv /\ SentOK /\ [Next]_vars => SentOK'
  BY SentStutter, Frames, SentNext, Zenon
<1> QED BY <1>1, <1>2, ScanInvariance, PTL DEF Spec

(* scanner::scan sends each address that is a host by its bits, except the *)
(* source and the excluded ones, one datagram per pass and nothing to any  *)
(* other, and the total its limit is applied to is the number of hosts: for*)
(* addresses of any width, every list of networks and every prefix length. *)
THEOREM TargetsAreExact == Spec => []TargetsExact
<1>1. ScanInv /\ SentOK => TargetsExact
  BY SentFollow, Zenon DEF TargetsExact
<1> QED BY <1>1, ScanInvariance, SentInvariance, PTL

LEMMA SocketsInvariance == Spec => []SocketsInv
<1>1. Init => SocketsInv
  BY SocketsInit, Zenon DEF Init
<1>2. SocketsInv /\ [Next]_vars => SocketsInv'
  BY SocketsStutter, Frames, SocketsNext, Zenon
<1> QED BY <1>1, <1>2, PTL DEF Spec

(* However many processes end and start and dumps break off while the      *)
(* tables, the processes and the diagnostics are read one after the other: *)
(* a process that was there throughout is named for its own socket only, a *)
(* row of that socket names it, and the row is there if the table did not  *)
(* change while it was read; it has no other socket's diagnostics, and its *)
(* own if the dump was complete.                                           *)
THEOREM SteadyAreListed == Spec => []SteadyListed
<1>1. SocketsInv => SteadyListed
  BY SocketsFollow, Zenon DEF SteadyListed
<1> QED BY <1>1, SocketsInvariance, PTL

LEMMA CheckInvariance == Spec => []CheckInv
<1>1. Init => CheckInv
  BY CheckInit, Zenon DEF Init
<1>2. CheckInv /\ [Next]_vars => CheckInv'
  BY CheckStutter, Frames, CheckNext, Zenon
<1> QED BY <1>1, <1>2, PTL DEF Spec

(* check calls a machine healthy, or not, only for what was the case while *)
(* it looked: whenever the link or the neighbor table change between its   *)
(* reads, and whatever becomes of the echo requests.                       *)
THEOREM VerdictsAreJustified == Spec => []VerdictJustified
<1>1. CheckInv => VerdictJustified
  BY CheckFollow, Zenon DEF VerdictJustified
<1> QED BY <1>1, CheckInvariance, PTL
-----------------------------------------------------------------------------
LEMMA UnwoundInvariance == Spec => []UnwoundOK
<1>1. Init => UnwoundOK
  BY UnwoundInit, Zenon DEF Init
<1>2. NamesInv /\ UnwoundOK /\ [Next]_vars => UnwoundOK'
  BY UnwoundStutter, Frames, UnwoundNext, Zenon
<1> QED BY <1>1, <1>2, NamesInvariance, PTL DEF Spec

(* The exit status.                                                        *)

(* Lookups are of a finished scan, whose rows do not change any more, and  *)
(* the process ends only before them or when they have ended.              *)
EndedOK ==
  /\ command \in Dispatched \union {"none"}
  /\ status \in {Running, 0, 1, 2, 101}
  /\ caller # "idle" => /\ command = "scan" /\ scanAt = "ok"
                        /\ total = Cardinality(rows)
  /\ status # Running => Resolver!Running = {}
  /\ status = 0 => caller \in {"idle", "returned"}

(* No lookup thread runs before the call, after it or after a panic.       *)
LEMMA NoneRuns ==
  ASSUME NamesInv, UnwoundOK, caller \in {"idle", "returned", "panic"}
  PROVE  Resolver!Running = {}
<1>1. CASE caller = "idle"
  <2>1. Resolver!Born = {}
    BY <1>1 DEF NamesInv
  <2> QED BY <2>1 DEF Resolver!Born, Resolver!Running
<1>2. CASE caller = "returned"
  BY <1>2, NamesFollow DEF Resolver!NamesComplete
<1>3. CASE caller = "panic"
  BY <1>3 DEF UnwoundOK
<1> QED BY <1>1, <1>2, <1>3

(* A finished scan does not move, and the number of lookups is fixed.      *)
LEMMA LookupsFixed ==
  /\ scanAt = "ok" => ~Scan!Next
  /\ caller # "idle" /\ Resolver!Next => caller' # "idle" /\ total' = total
<1>1. scanAt = "ok" => ~Scan!Next
  BY DEF Scan!Next, Scan!Start, Scan!Refuse, Scan!Select, Scan!Before, Scan!Pass, Scan!After
<1>2. caller # "idle" /\ Resolver!Next => caller' # "idle" /\ total' = total
  BY DEF Resolver!Next, Resolver!Caller, Resolver!Thread, Resolver!Failure, Resolver!Call,
         Resolver!Spawn, Resolver!SpawnFails, Resolver!Unwound, Resolver!Join,
         Resolver!Return, Resolver!Lookup, Resolver!Finish, Resolver!Panic
<1> QED BY <1>1, <1>2

(* While neither the command line nor scan moves, nor its lookups.         *)
LEMMA EndedStays ==
  ASSUME EndedOK, UNCHANGED <<own, scanVars, namesVars>>
  PROVE  EndedOK'
<1>1. UNCHANGED <<command, status, caller, scanAt, total, rows, worker>>
  BY DEF own, scanVars, namesVars
<1>2. Resolver!Running' = Resolver!Running
  BY <1>1 DEF Resolver!Running
<1> QED BY <1>1, <1>2 DEF EndedOK

LEMMA DispatchEnds == EndedOK /\ Dispatch => EndedOK'
<1> SUFFICES ASSUME EndedOK, Dispatch PROVE EndedOK'
  OBVIOUS
<1>1. /\ command = "none" /\ command' \in Dispatched
      /\ UNCHANGED <<status, caller, scanAt, total, rows, worker>>
  BY DEF Dispatch, Unchanged, scanVars, namesVars
<1>2. Resolver!Running' = Resolver!Running
  BY <1>1 DEF Resolver!Running
<1> QED BY <1>1, <1>2 DEF EndedOK

(* Where a process may end: no thread of lookups is running there.         *)
LEMMA Endings ==
  ASSUME NamesInv, UnwoundOK, EndedOK,
         \/ command = "all"
         \/ Printing
         \/ Status(Outcome) # {}
  PROVE  /\ Resolver!Running = {}
         /\ 0 \in Status(Outcome) => caller \in {"idle", "returned"}
<1>1. caller \in {"idle", "spawning", "joining", "unwinding", "returned", "panic"}
  BY DEF NamesInv, Resolver!TypeOK
<1>2. CASE caller = "idle"
  BY <1>2, NoneRuns
<1>3. CASE caller # "idle"
  <2>1. command = "scan" /\ scanAt = "ok"
    BY <1>3 DEF EndedOK
  <2>2. Outcome = caller
    BY <1>3, <2>1 DEF Outcome
  <2>3. ~Printing
    BY <2>1 DEF Printing
  <2>4. Status(Outcome) # {}
    BY <2>1, <2>3
  <2>5. caller \in {"returned", "panic"} /\ (0 \in Status(Outcome) => caller = "returned")
    BY <1>1, <1>3, <2>2, <2>4 DEF Status
  <2> QED BY <2>5, NoneRuns
<1> QED BY <1>2, <1>3

LEMMA StatusEnds ==
  ASSUME NamesInv, UnwoundOK, EndedOK, Section \/ Exit \/ PrintFails
  PROVE  EndedOK'
<1>1. UNCHANGED <<command, caller, scanAt, total, rows, worker>>
  BY DEF Section, Exit, PrintFails, Unchanged, scanVars, namesVars
<1>2. Resolver!Running' = Resolver!Running
  BY <1>1 DEF Resolver!Running
<1>3. \/ command = "all" \/ Printing \/ Status(Outcome) # {}
  BY DEF Section, Exit, PrintFails
<1>4. /\ status' \in {Running, 0, 1, 2, 101}
      /\ status' = 0 => 0 \in Status(Outcome)
  <2>1. CASE Section
    BY <2>1 DEF Section, EndedOK, Running
  <2>2. CASE Exit
    BY <2>2 DEF Exit, Status
  <2>3. CASE PrintFails
    BY <2>3 DEF PrintFails
  <2> QED BY <2>1, <2>2, <2>3
<1> QED BY <1>1, <1>2, <1>3, <1>4, Endings DEF EndedOK

LEMMA ScansEnd == EndedOK /\ (Scans \/ Resolves) /\ NamesInv => EndedOK'
<1> SUFFICES ASSUME EndedOK, Scans \/ Resolves, NamesInv PROVE EndedOK'
  OBVIOUS
<1>1. status = Running /\ command = "scan" /\ UNCHANGED <<command, status>>
  BY DEF Scans, Resolves, own
<1>2. CASE Scans
  <2>1. Scan!Next /\ UNCHANGED <<caller, total>>
    BY <1>2 DEF Scans, namesVars
  <2>2. caller = "idle"
    BY <2>1, LookupsFixed DEF EndedOK
  <2> QED BY <1>1, <2>1, <2>2 DEF EndedOK, Running
<1>3. CASE Resolves
  <2>1. /\ scanAt = "ok" /\ Resolver!Next /\ UNCHANGED <<scanAt, rows>>
        /\ caller = "idle" => total' = Cardinality(rows)
    BY <1>3 DEF Resolves, scanVars
  <2>2. total' = Cardinality(rows')
    BY <2>1, LookupsFixed DEF EndedOK
  <2> QED BY <1>1, <2>1, <2>2 DEF EndedOK, Running
<1> QED BY <1>2, <1>3

LEMMA EndedInvariance == Spec => []EndedOK
<1>1. Init => EndedOK
  BY DEF Init, EndedOK, Resolver!Idle, Running
<1>2. NamesInv /\ UnwoundOK /\ EndedOK /\ [Next]_vars => EndedOK'
  <2> SUFFICES ASSUME NamesInv, UnwoundOK, EndedOK, [Next]_vars PROVE EndedOK'
    OBVIOUS
  <2>1. CASE UNCHANGED <<own, scanVars, namesVars>>
    BY <2>1, EndedStays
  <2>2. CASE ~UNCHANGED <<own, scanVars, namesVars>>
    <3>1. Dispatch \/ Section \/ Exit \/ PrintFails \/ Scans \/ Resolves
      BY <2>2, Zenon DEF Next, Exited, vars, Samples, Checks, Lists, Decodes
    <3> QED BY <3>1, DispatchEnds, StatusEnds, ScansEnd
  <2> QED BY <2>1, <2>2
<1> QED BY <1>1, <1>2, NamesInvariance, UnwoundInvariance, PTL DEF Spec

(* However the process ends, also by a panic of scope.spawn or of println!,*)
(* no lookup thread of it is running; and if a scan with lookups succeeds, *)
(* these are exactly those of the neighbors it reports, and have returned. *)
THEOREM ThreadsAreJoined == Spec => []ThreadsJoined
<1>1. NamesInv /\ EndedOK => ThreadsJoined
  BY Zenon DEF EndedOK, ThreadsJoined
<1> QED BY <1>1, NamesInvariance, EndedInvariance, PTL

(* The variables of every command keep their types.                        *)
THEOREM TypeCorrect == Spec => []TypeOK
<1>1. /\ ScanInv /\ NamesInv /\ TrafficInv /\ CheckInv /\ SocketsInv /\ BitsetInv
      /\ EndedOK
      => TypeOK
  BY ScanFollow, TrafficFollow, CheckFollow, SocketsFollow, Zenon
     DEF TypeOK, NamesInv, BitsetInv, EndedOK
<1> QED BY <1>1, ScanInvariance, NamesInvariance, TrafficInvariance, CheckInvariance,
           SocketsInvariance, BitsetInvariance, EndedInvariance, PTL
=============================================================================
