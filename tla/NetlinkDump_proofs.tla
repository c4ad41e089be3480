-------------------------- MODULE NetlinkDump_proofs --------------------------
(***************************************************************************)
(* Proofs about the dump operations for every finite set of records, any   *)
(* size of a pass, any buffer and any number of table changes.             *)
(***************************************************************************)
EXTENDS NetlinkDump, Selection_proofs, SequenceTheorems

Finishes(d) == Ends(d[Len(d)])

(* A datagram has records, of which the last message may be an end, and    *)
(* only the last datagram has one: the kernel's dump is over then.         *)
QueueOK ==
  \A k \in DOMAIN queue :
    /\ Len(queue[k]) >= 1
    /\ \A j \in DOMAIN queue[k] : j < Len(queue[k]) => ~Ends(queue[k][j])
    /\ Finishes(queue[k]) => k = Len(queue) /\ kernel.state = "idle"

(* Only a client that receives has something in its socket.                *)
PhaseOK ==
  /\ client # "receive" => queue = <<>> /\ kernel.state = "idle" /\ values = <<>>
  /\ client # "returned" => result.state = "pending"

(* What the kernel ends a dump with.                                       *)
EndOK(m) ==
  /\ m.kind = "error" =>
       m.errno \in faults /\ (m.errno = "unavailable" => families = "unavailable")
  /\ m.kind = "done" => m.errno = "none" \/ (m.errno = "other" /\ "other" \in faults)

FinalOK == \A k \in DOMAIN queue : EndOK(queue[k][Len(queue[k])])

(* A failure of an rtnetlink dump is returned or waits in the socket.      *)
FaultOK ==
  operation # "sockets" /\ "other" \in faults =>
    \/ client = "returned" /\ result.state = "error"
    \/ client = "receive" /\ \E k \in DOMAIN queue :
         Finishes(queue[k]) /\ Outcome(queue[k][Len(queue[k])]) = "other"

IInv == TypeOK /\ QueueOK /\ PhaseOK /\ FinalOK /\ FaultOK
-----------------------------------------------------------------------------
(* How many messages of a datagram are records.                            *)
Count(d) == IF Finishes(d) THEN Len(d) - 1 ELSE Len(d)

(* Datagram d has the records of the list from a + 1 to b.                 *)
Advances(d, a, b, list) ==
  /\ b = a + Count(d) /\ b <= Len(list)
  /\ \A j \in 1 .. Count(d) : d[j].record = list[a + j]

(* The records vs that were parsed and those in the queue q are the first  *)
(* e of the list, in their order: off[k] of them come before datagram k.   *)
Aligned(q, vs, list, e) ==
  /\ Len(vs) <= Len(list) /\ \A i \in DOMAIN vs : vs[i] = list[i]
  /\ \E off \in [1 .. Len(q) + 1 -> Nat] :
       /\ off[1] = Len(vs) /\ off[Len(q) + 1] = e
       /\ \A k \in DOMAIN q : Advances(q[k], off[k], off[k + 1], list)

Steady == ~disturbed /\ "other" \notin faults

(* The listings of this dump since the call.                               *)
Listings == {Numbered(Covered(t, Dumping)) : t \in snapshots}

(* While nothing disturbs it, the client gets the listing of one table.    *)
StreamOK ==
  Steady /\ client = "receive" =>
    /\ kernel.state = "dumping" =>
         /\ kernel.position <= Len(Listing(Dumping))
         /\ Aligned(queue, values, Listing(Dumping), kernel.position)
         /\ kernel.position = 0 => queue = <<>> /\ values = <<>>
    /\ \A k \in DOMAIN queue : queue[k][Len(queue[k])].kind = "done" =>
         \E whole \in Listings : Aligned(queue, values, whole, Len(whole))

(* The tables since the call; one without IPv6 never has such records.     *)
TableOK ==
  /\ table \in snapshots /\ snapshots \subseteq SUBSET Records
  /\ families = "unavailable" =>
       \A t \in snapshots : \A r \in t : r.class \notin IPv6Classes

Once(list) == \A i, j \in DOMAIN list : list[i] = list[j] => i = j

(* The list has the classes C, each as it was in one table of S.           *)
Gathers(list, C, S) ==
  /\ Once(list)
  /\ \A i \in DOMAIN list : list[i].class \in C
  /\ \A c \in C : \E t \in S : Content(Range(list), c) = Content(t, c)

(* The classes of the blocks before block b, and of the dumps of block b   *)
(* before dump d.                                                          *)
Behind(op, b) == UNION {Range(Plan(op)[i]) : i \in 1 .. b - 1}
Begun(op, b, d) == {Plan(op)[b][i] : i \in 1 .. d - 1}

(* The dumps that are over gathered their classes.                         *)
AccumulatedOK ==
  Steady /\ client # "returned" =>
    /\ Gathers(finished, Behind(operation, step[1]), snapshots)
    /\ Gathers(block, Begun(operation, step[1], step[2]), snapshots)

EInv == IInv /\ StreamOK /\ TableOK /\ AccumulatedOK /\ UndisturbedIsExact
-----------------------------------------------------------------------------
(* Every key is an unambiguous place: equal records stay in their order.   *)
LEMMA SortedFacts ==
  ASSUME NEW list \in Seq(Records)
  PROVE  /\ Sorted(list) \in Seq(Records) /\ Len(Sorted(list)) = Len(list)
         /\ \A k \in DOMAIN list : \E i \in DOMAIN list :
              Place(list, i) = k /\ Sorted(list)[k] = list[i]
         /\ \A i \in DOMAIN list : /\ Place(list, i) \in DOMAIN list
                                   /\ Sorted(list)[Place(list, i)] = list[i]
         /\ \A i, j \in DOMAIN list :
              list[i].id < list[j].id => Place(list, i) < Place(list, j)
<1> DEFINE D == DOMAIN list
           before(i, j) == list[i].id < list[j].id \/ (list[i].id = list[j].id /\ i <= j)
           R == {e \in D \X D : before(e[1], e[2])}
<1>1. Len(list) \in Nat /\ D = 1 .. Len(list)
  OBVIOUS
<1>2. IsFiniteSet(D) /\ Cardinality(D) = Len(list)
  <2>n. PICK n \in Nat : n = Len(list)
    BY <1>1
  <2>1. IsFiniteSet(1 .. n) /\ Cardinality(1 .. n) = IF 1 > n THEN 0 ELSE n - 1 + 1
    BY FS_Interval
  <2>2. Cardinality(1 .. n) = n
    BY <2>1
  <2> QED BY <1>1, <2>n, <2>1, <2>2, Zenon
<1>3. \A i \in D : i \in Int /\ list[i].id \in Nat
  BY <1>1, DumpAssumption
<1>4. \A i, j \in D : <<i, j>> \in R <=> before(i, j)
  <2> HIDE DEF before
  <2> QED OBVIOUS
<1> HIDE DEF R
<1>5. \A i, j \in D : <<i, j>> \in R \/ <<j, i>> \in R
  <2> SUFFICES ASSUME NEW i \in D, NEW j \in D PROVE before(i, j) \/ before(j, i)
    BY <1>4
  <2>1. i \in Int /\ j \in Int /\ list[i].id \in Nat /\ list[j].id \in Nat
    BY <1>3
  <2> QED BY <2>1
<1>6. \A i, j \in D : <<i, j>> \in R /\ <<j, i>> \in R => i = j
  BY <1>3, <1>4
<1>7. \A i, j, k \in D : <<i, j>> \in R /\ <<j, k>> \in R => <<i, k>> \in R
  BY <1>3, <1>4, SMTT(30)
<1>8. \A i \in D : Place(list, i) = PlaceIn(D, R, i)
  <2> SUFFICES ASSUME NEW i \in D PROVE Place(list, i) = PlaceIn(D, R, i)
    OBVIOUS
  <2>1. {j \in D : before(j, i)} = {j \in D : <<j, i>> \in R}
    BY <1>4
  <2> QED BY <2>1, Zenon DEF Place, PlaceIn
<1> HIDE DEF D, before
<1>9. /\ \A i \in D : Place(list, i) \in 1 .. Cardinality(D)
      /\ \A i, j \in D : <<i, j>> \in R /\ i # j => Place(list, i) < Place(list, j)
      /\ \A n \in 1 .. Cardinality(D) : \E i \in D : Place(list, i) = n
  <2>1. /\ \A i \in D : PlaceIn(D, R, i) \in 1 .. Cardinality(D)
        /\ \A i, j \in D : <<i, j>> \in R /\ i # j => PlaceIn(D, R, i) < PlaceIn(D, R, j)
        /\ \A n \in 1 .. Cardinality(D) : \E i \in D : PlaceIn(D, R, i) = n
    <3>1. IsFiniteSet(D)
      BY <1>2
    <3> QED BY <1>5, <1>6, <1>7, <3>1, OrderPlaces, Zenon
  <2> QED BY <1>8, <2>1, Zenon
<1>10. \A i, j \in D : Place(list, i) = Place(list, j) => i = j
  <2> SUFFICES ASSUME NEW i \in D, NEW j \in D, i # j,
                      Place(list, i) = Place(list, j)
               PROVE  FALSE
    OBVIOUS
  <2>1. Place(list, i) < Place(list, j) \/ Place(list, j) < Place(list, i)
    BY <1>5, <1>9, Zenon
  <2>2. Place(list, i) \in Int /\ Place(list, j) \in Int
    BY <1>9
  <2> QED BY <2>1, <2>2
<1>11. \A k \in D : /\ (CHOOSE i \in D : Place(list, i) = k) \in D
                    /\ Place(list, CHOOSE i \in D : Place(list, i) = k) = k
  <2> SUFFICES ASSUME NEW k \in D
               PROVE  \E i \in D : Place(list, i) = k
    BY Zenon
  <2> QED BY <1>1, <1>2, <1>9
<1>12. Sorted(list) = [k \in D |-> list[CHOOSE i \in D : Place(list, i) = k]]
  BY DEF Sorted, D
<1>13. /\ \A k \in D : \E i \in D : Place(list, i) = k /\ Sorted(list)[k] = list[i]
       /\ \A k \in D : Sorted(list)[k] \in Records
  <2> SUFFICES ASSUME NEW k \in D
               PROVE  /\ \E i \in D : Place(list, i) = k /\ Sorted(list)[k] = list[i]
                      /\ Sorted(list)[k] \in Records
    OBVIOUS
  <2>c. PICK c : c = CHOOSE i \in D : Place(list, i) = k
    OBVIOUS
  <2>1. c \in D /\ Place(list, c) = k
    BY <1>11, <2>c, Zenon
  <2>2. Sorted(list)[k] = list[c]
    BY <1>12, <2>c
  <2>3. list[c] \in Records
    BY <2>1 DEF D
  <2> QED BY <2>1, <2>2, <2>3
<1>14. DOMAIN Sorted(list) = D
  BY <1>12
<1>15. Sorted(list) \in Seq(Records) /\ Len(Sorted(list)) = Len(list)
  <2>s. PICK s : s = Sorted(list)
    OBVIOUS
  <2>n. PICK n \in Nat : n = Len(list)
    BY <1>1
  <2>1. s = [k \in 1 .. n |-> s[k]] /\ \A k \in 1 .. n : s[k] \in Records
    <3>1. s = [k \in D |-> s[k]]
      BY <1>12, <2>s
    <3> QED BY <1>1, <1>13, <2>s, <2>n, <3>1
  <2>2. s \in [1 .. n -> Records]
    BY <2>1
  <2>3. s \in Seq(Records) /\ Len(s) = n
    BY <2>2
  <2> QED BY <2>s, <2>n, <2>3
<1>16. \A i \in D : Place(list, i) \in D /\ Sorted(list)[Place(list, i)] = list[i]
  <2> SUFFICES ASSUME NEW i \in D
               PROVE  Place(list, i) \in D /\ Sorted(list)[Place(list, i)] = list[i]
    OBVIOUS
  <2>1. Place(list, i) \in D
    BY <1>1, <1>2, <1>9
  <2>2. PICK j \in D : Place(list, j) = Place(list, i) /\ Sorted(list)[Place(list, i)] = list[j]
    BY <1>13, <2>1
  <2> QED BY <1>10, <2>1, <2>2
<1>17. \A i, j \in D : list[i].id < list[j].id => Place(list, i) < Place(list, j)
  <2> SUFFICES ASSUME NEW i \in D, NEW j \in D, list[i].id < list[j].id
               PROVE  Place(list, i) < Place(list, j)
    OBVIOUS
  <2>1. <<i, j>> \in R
    BY <1>4 DEF before
  <2>2. i # j
    BY <1>3
  <2> QED BY <1>9, <2>1, <2>2
<1> QED BY <1>13, <1>15, <1>16, <1>17 DEF D

(* A listing has each record of its set once, in the order of the ids.     *)
LEMMA NumberedFacts ==
  ASSUME NEW S \in SUBSET Records
  PROVE  /\ Numbered(S) \in Seq(Records) /\ Len(Numbered(S)) = Cardinality(S)
         /\ \A k \in DOMAIN Numbered(S) : Numbered(S)[k] \in S
         /\ \A r \in S : \E k \in DOMAIN Numbered(S) : Numbered(S)[k] = r
         /\ \A k, l \in DOMAIN Numbered(S) :
              k < l => Numbered(S)[k].id < Numbered(S)[l].id
<1> DEFINE R == {e \in S \X S : e[1].id <= e[2].id}
           at(r) == Cardinality({q \in S : q.id <= r.id})
           which(k) == CHOOSE r \in S : at(r) = k
<1>1. IsFiniteSet(S) /\ Cardinality(S) \in Nat
  BY DumpAssumption, FS_Subset, FS_CardinalityType
<1>2. /\ \A r \in S : r \in Records /\ r.id \in Nat
      /\ \A r, q \in S : r.id = q.id => r = q
  BY DumpAssumption
<1>3. \A r, q \in S : <<r, q>> \in R <=> r.id <= q.id
  OBVIOUS
<1> HIDE DEF R
<1>4. \A r, q \in S : <<r, q>> \in R \/ <<q, r>> \in R
  <2> SUFFICES ASSUME NEW r \in S, NEW q \in S PROVE r.id <= q.id \/ q.id <= r.id
    BY <1>3
  <2> QED BY <1>2
<1>5. \A r, q \in S : <<r, q>> \in R /\ <<q, r>> \in R => r = q
  BY <1>2, <1>3
<1>6. \A r, q, t \in S : <<r, q>> \in R /\ <<q, t>> \in R => <<r, t>> \in R
  BY <1>2, <1>3
<1>7. \A r \in S : at(r) = PlaceIn(S, R, r)
  <2> SUFFICES ASSUME NEW r \in S PROVE at(r) = PlaceIn(S, R, r)
    OBVIOUS
  <2>1. {q \in S : q.id <= r.id} = {q \in S : <<q, r>> \in R}
    BY <1>3
  <2> QED BY <2>1, Zenon DEF PlaceIn
<1>8. Numbered(S) = [k \in 1 .. Cardinality(S) |-> which(k)]
  BY DEF Numbered
<1> HIDE DEF at
<1>9. /\ \A r \in S : at(r) \in 1 .. Cardinality(S)
      /\ \A r, q \in S : <<r, q>> \in R /\ r # q => at(r) < at(q)
      /\ \A n \in 1 .. Cardinality(S) : \E r \in S : at(r) = n
  <2>1. /\ \A r \in S : PlaceIn(S, R, r) \in 1 .. Cardinality(S)
        /\ \A r, q \in S : <<r, q>> \in R /\ r # q => PlaceIn(S, R, r) < PlaceIn(S, R, q)
        /\ \A n \in 1 .. Cardinality(S) : \E r \in S : PlaceIn(S, R, r) = n
    <3>1. IsFiniteSet(S)
      BY <1>1
    <3> QED BY <1>4, <1>5, <1>6, <3>1, OrderPlaces, Zenon
  <2> QED BY <1>7, <2>1, Zenon
<1>10. \A k \in 1 .. Cardinality(S) : which(k) \in S /\ at(which(k)) = k
  <2> SUFFICES ASSUME NEW k \in 1 .. Cardinality(S) PROVE \E r \in S : at(r) = k
    BY Zenon
  <2> QED BY <1>9
<1> HIDE DEF which
<1>11. ASSUME NEW r \in S, NEW q \in S, at(r) < at(q) \/ at(r) = at(q)
       PROVE  /\ at(r) < at(q) => r.id < q.id
              /\ at(r) = at(q) => r = q
  <2>1. at(r) \in Int /\ at(q) \in Int
    BY <1>9
  <2>2. r = q \/ at(r) < at(q) \/ at(q) < at(r)
    BY <1>4, <1>9, Zenon
  <2>3. <<q, r>> \in R => q = r \/ at(q) < at(r)
    BY <1>9, Zenon
  <2>4. r.id < q.id \/ <<q, r>> \in R
    BY <1>2, <1>3
  <2> QED BY <1>11, <2>1, <2>2, <2>3, <2>4
<1> DEFINE n == Cardinality(S)
<1>12. n \in Nat /\ \A k \in 1 .. n : which(k) \in Records
  BY <1>1, <1>2, <1>10
<1>s. PICK s : s = Numbered(S)
  OBVIOUS
<1>13. s = [k \in 1 .. n |-> which(k)]
  BY <1>8, <1>s
<1> HIDE DEF n
<1>14. s \in Seq(Records) /\ Len(s) = n /\ DOMAIN s = 1 .. n /\ \A k \in 1 .. n : s[k] = which(k)
  BY <1>12, <1>13
<1>15. \A k \in DOMAIN s : s[k] \in S
  BY <1>10, <1>14 DEF n
<1>16. \A r \in S : \E k \in DOMAIN s : s[k] = r
  <2> SUFFICES ASSUME NEW r \in S PROVE \E k \in 1 .. n : which(k) = r
    BY <1>14
  <2>1. at(r) \in 1 .. n /\ at(which(at(r))) = at(r) /\ which(at(r)) \in S
    BY <1>9, <1>10 DEF n
  <2>2. which(at(r)) = r
    BY <1>11, <2>1
  <2> QED BY <2>1, <2>2
<1>17. \A k, l \in DOMAIN s : k < l => s[k].id < s[l].id
  <2> SUFFICES ASSUME NEW k \in 1 .. n, NEW l \in 1 .. n, k < l
               PROVE  which(k).id < which(l).id
    BY <1>14
  <2>1. /\ which(k) \in S /\ at(which(k)) = k
        /\ which(l) \in S /\ at(which(l)) = l
    BY <1>10 DEF n
  <2> QED BY <1>11, <2>1
<1> QED BY <1>s, <1>14, <1>15, <1>16, <1>17 DEF n

-----------------------------------------------------------------------------
(* The plan of an operation: one block or two, each of at least one dump,  *)
(* no class twice. The second block, if any, is the one of IPv6, and only  *)
(* the dumps of routes are of the classes of routes.                       *)
LEMMA PlanFacts ==
  ASSUME NEW op \in {"links", "routes", "sockets"}
  PROVE  /\ Len(Plan(op)) \in {1, 2} /\ DOMAIN Plan(op) = 1 .. Len(Plan(op))
         /\ \A b \in DOMAIN Plan(op) : /\ Len(Plan(op)[b]) \in {1, 2}
                                       /\ DOMAIN Plan(op)[b] = 1 .. Len(Plan(op)[b])
         /\ \A b, c \in DOMAIN Plan(op) :
              \A d \in DOMAIN Plan(op)[b], e \in DOMAIN Plan(op)[c] :
                Plan(op)[b][d] = Plan(op)[c][e] => b = c /\ d = e
         /\ \A b \in DOMAIN Plan(op) : \A d \in DOMAIN Plan(op)[b] :
              /\ b = 2 <=> Plan(op)[b][d] \in IPv6Classes
              /\ IF op = "routes" THEN Plan(op)[b][d] \in RouteClasses
                 ELSE Plan(op)[b][d] \notin RouteClasses
         /\ \A c \in ClassesOf(op) : \E b \in DOMAIN Plan(op) :
              \E d \in DOMAIN Plan(op)[b] : c = Plan(op)[b][d]
<1>1. CASE op = "links"
  <2>1. Plan(op) = <<<<"link">>>>
    BY <1>1 DEF Plan
  <2> QED BY <1>1, <2>1 DEF ClassesOf, Range, IPv6Classes, RouteClasses
<1>2. CASE op = "routes"
  <2>1. Plan(op) = <<<<"ipv4">>, <<"ipv6">>>>
    BY <1>2 DEF Plan
  <2> QED BY <1>2, <2>1 DEF ClassesOf, Range, IPv6Classes, RouteClasses
<1>3. CASE op = "sockets"
  <2>1. Plan(op) = <<<<"tcp4", "udp4">>, <<"tcp6", "udp6">>>>
    BY <1>3 DEF Plan
  <2> QED BY <1>3, <2>1 DEF ClassesOf, Range, IPv6Classes, RouteClasses
<1> QED BY <1>1, <1>2, <1>3

(* The kernel's messages are messages.                                     *)
LEMMA MessageTypes ==
  /\ \A r \in Records, x \in BOOLEAN :
       /\ Listed(r, x) \in Message /\ Listed(r, x).kind = "record"
       /\ Listed(r, x).record = r
  /\ \A e \in Errno, x \in BOOLEAN :
       /\ Done(e, x) \in Message /\ Done(e, x).kind = "done" /\ Done(e, x).errno = e
  /\ \A e \in Errno \ {"none"} : [kind |-> "error", errno |-> e] \in Message
<1>1. \A r \in Records, x \in BOOLEAN : Listed(r, x) \in Message
  BY Zenon DEF Listed, Message
<1>2. \A e \in Errno, x \in BOOLEAN : Done(e, x) \in Message
  BY Zenon DEF Done, Message
<1>3. \A e \in Errno \ {"none"} : [kind |-> "error", errno |-> e] \in Message
  BY Zenon DEF Message
<1>4. \A r, x : Listed(r, x).kind = "record" /\ Listed(r, x).record = r
  BY DEF Listed
<1>5. \A e, x : Done(e, x).kind = "done" /\ Done(e, x).errno = e
  BY DEF Done
<1> QED BY <1>1, <1>2, <1>3, <1>4, <1>5, Zenon

(* A message has an errno unless it is a record.                           *)
LEMMA MessageFields ==
  ASSUME NEW m \in Message
  PROVE  /\ m.kind \in {"record", "done", "error"}
         /\ m.kind = "record" => m.record \in Records
         /\ m.kind = "done" => m.errno \in Errno
         /\ m.kind = "error" => m.errno \in Errno \ {"none"}
BY DEF Message

(* The listing of a class.                                                 *)
LEMMA ListingFacts ==
  ASSUME TypeOK
  PROVE  \A c : /\ Covered(table, c) \in SUBSET Records
                /\ Listing(c) \in Seq(Records)
<1> SUFFICES ASSUME NEW c
             PROVE  Covered(table, c) \in SUBSET Records /\ Listing(c) \in Seq(Records)
  OBVIOUS
<1>1. Covered(table, c) \in SUBSET Records
  BY DEF Covered, TypeOK
<1> QED BY <1>1, NumberedFacts DEF Listing

Moved(k, p) == [k EXCEPT !.position = p, !.changed = FALSE]

(* One pass of the kernel sends nd: the n records of the list that follow  *)
(* its position, alone or with the end of the dump.                        *)
Passes(nd, n, list) ==
  /\ queue' = Append(queue, nd)
  /\ \A j \in 1 .. n : /\ nd[j].kind = "record"
                       /\ nd[j].record = list[kernel.position + j]
  /\ \/ /\ n >= 1 /\ Len(nd) = n /\ kernel.position + n <= Len(list)
        /\ kernel' = Moved(kernel, kernel.position + n)
     \/ /\ Len(nd) = n + 1 /\ kernel' = IdleKernel
        /\ nd[n + 1].kind = "done" /\ nd[n + 1].errno = "none"
        /\ kernel.position <= Len(list) => kernel.position + n = Len(list)

(* That is what a pass does.                                               *)
LEMMA PassFacts ==
  ASSUME TypeOK, KernelPass, NEW list, list = Listing(Dumping)
  PROVE  \E nd \in Seq(Message), n \in Nat : Passes(nd, n, list)
<1>k. kernel \in [state : {"idle", "dumping"}, position : Nat, changed : BOOLEAN]
  BY Zenon DEF TypeOK
<1>p. PICK p : p = kernel.position
  OBVIOUS
<1> DEFINE last == IF p + PassSize < Len(list) THEN p + PassSize ELSE Len(list)
           chunk == SubSeq(list, p + 1, last)
           records == [i \in DOMAIN chunk |-> Listed(chunk[i], kernel.changed /\ i = 1)]
           n == IF p <= last THEN last - p ELSE 0
<1>1. list \in Seq(Records) /\ Len(list) \in Nat /\ DOMAIN list = 1 .. Len(list)
  BY ListingFacts
<1>2. p \in Nat
  BY <1>k, <1>p
<1>3. last \in Nat /\ last <= Len(list) /\ n \in Nat /\ (p + n <= Len(list) \/ n = 0)
  BY <1>1, <1>2, DumpAssumption
<1>4. chunk \in Seq(Records) /\ DOMAIN chunk = 1 .. n /\ \A j \in 1 .. n : chunk[j] = list[p + j]
  <2>m. PICK m \in Int : m = p + 1
    BY <1>2
  <2>l. PICK l \in Int : l = last
    BY <1>3
  <2>c. PICK c : c = SubSeq(list, m, l)
    OBVIOUS
  <2>0. m >= 1 /\ l <= Len(list)
    BY <1>2, <1>3, <2>m, <2>l
  <2>1. \A i \in m .. l : list[i] \in Records
    <3> HIDE DEF last, chunk, n
    <3> QED BY <1>1, <2>0
  <2>2. /\ SubSeq(list, m, l) \in Seq(Records)
        /\ Len(SubSeq(list, m, l)) = IF m <= l THEN l - m + 1 ELSE 0
        /\ \A i \in 1 .. l - m + 1 : SubSeq(list, m, l)[i] = list[m + i - 1]
    BY <2>1, SubSeqProperties
  <2>3. /\ c \in Seq(Records) /\ Len(c) = IF m <= l THEN l - m + 1 ELSE 0
        /\ \A i \in 1 .. l - m + 1 : c[i] = list[m + i - 1]
    BY <2>2, <2>c
  <2>4. c = chunk /\ n = IF p <= l THEN l - p ELSE 0
    BY <2>c, <2>m, <2>l
  <2> HIDE DEF chunk, n, last
  <2>5. Len(c) = n /\ \A i \in 1 .. n : c[i] = list[p + i]
    <3>1. Len(c) = n /\ (n = 0 \/ n = l - m + 1)
      BY <1>2, <2>m, <2>3, <2>4
    <3>2. \A i \in 1 .. n : c[i] = list[m + i - 1]
      BY <1>3, <2>3, <3>1
    <3>3. \A i \in 1 .. n : m + i - 1 = p + i
      BY <1>2, <1>3, <2>m
    <3> QED BY <3>1, <3>2, <3>3
  <2>6. DOMAIN c = 1 .. Len(c)
    BY <2>3
  <2> QED BY <2>3, <2>4, <2>5, <2>6
<1>5. n = 0 <=> chunk = <<>>
  <2> HIDE DEF chunk, n
  <2>c. PICK c : c = chunk
    OBVIOUS
  <2>0. c \in Seq(Records)
    BY <1>4, <2>c
  <2>1. Len(c) \in Nat /\ DOMAIN c = 1 .. Len(c) /\ (Len(c) = 0 <=> c = <<>>)
    BY <2>0
  <2> QED BY <1>3, <1>4, <2>c, <2>1
<1>6. /\ records \in Seq(Message) /\ Len(records) = n /\ DOMAIN records = 1 .. n
      /\ \A j \in 1 .. n : records[j].kind = "record" /\ records[j].record = list[p + j]
  <2> HIDE DEF n, chunk
  <2>c. PICK c : c = chunk
    OBVIOUS
  <2>0. c \in Seq(Records) /\ DOMAIN c = 1 .. n
    BY <1>4, <2>c
  <2>1. \A j \in 1 .. n : chunk[j] \in Records
    <3>1. c \in Seq(Records)
      BY <2>0
    <3>2. \A j \in DOMAIN c : c[j] \in Records
      BY <3>1
    <3> QED BY <2>0, <2>c, <3>2, Zenon
  <2>2. \A j \in 1 .. n : (kernel.changed /\ j = 1) \in BOOLEAN
    OBVIOUS
  <2>3. \A j \in 1 .. n : /\ Listed(chunk[j], kernel.changed /\ j = 1) \in Message
                          /\ Listed(chunk[j], kernel.changed /\ j = 1).kind = "record"
                          /\ Listed(chunk[j], kernel.changed /\ j = 1).record = chunk[j]
    BY <2>1, <2>2, MessageTypes, Zenon
  <2> DEFINE e(j) == Listed(chunk[j], kernel.changed /\ j = 1)
  <2>4. records = [j \in 1 .. n |-> e(j)]
    BY <1>4
  <2>5. \A j \in 1 .. n : e(j) \in Message /\ e(j).kind = "record" /\ e(j).record = list[p + j]
    BY <1>4, <2>3
  <2> HIDE DEF e, records
  <2>6. records \in Seq(Message) /\ DOMAIN records = 1 .. n /\ Len(records) = n
    BY <1>3, <2>4, <2>5
  <2>7. \A j \in 1 .. n : records[j] = e(j)
    BY <2>4
  <2> QED BY <2>5, <2>6, <2>7
<1>7. \/ /\ chunk # <<>>
         /\ queue' = Append(queue, records)
         /\ kernel' = Moved(kernel, last)
      \/ /\ last = Len(list)
         /\ queue' = Append(queue, Append(records,
                          Done("none", kernel.changed /\ chunk = <<>>)))
         /\ kernel' = IdleKernel
  BY <1>p, Zenon DEF KernelPass, Moved
<1>8. last = p + n \/ n = 0
  BY <1>2, <1>3
<1>9. p <= Len(list) /\ last = Len(list) => p + n = Len(list)
  <2>1. n = IF p <= last THEN last - p ELSE 0
    OBVIOUS
  <2> HIDE DEF last, n
  <2> QED BY <1>1, <1>2, <1>3, <2>1
<1> HIDE DEF last, chunk, records, n
<1>10. CASE /\ chunk # <<>> /\ queue' = Append(queue, records)
            /\ kernel' = Moved(kernel, last)
  <2>1. n >= 1
    BY <1>3, <1>5, <1>10
  <2>2. last = p + n /\ p + n <= Len(list)
    BY <1>3, <1>8, <2>1
  <2>3. Passes(records, n, list)
    BY <1>3, <1>6, <1>10, <1>p, <2>1, <2>2 DEF Passes
  <2> QED BY <1>3, <1>6, <2>3
<1>11. CASE /\ last = Len(list) /\ kernel' = IdleKernel
            /\ queue' = Append(queue, Append(records,
                          Done("none", kernel.changed /\ chunk = <<>>)))
  <2>x. PICK x \in BOOLEAN : x = (kernel.changed /\ chunk = <<>>)
    BY Zenon
  <2>m. PICK m : m = Done("none", x)
    OBVIOUS
  <2>1. m \in Message /\ m.kind = "done" /\ m.errno = "none"
    BY <2>m, MessageTypes, Zenon DEF Errno
  <2>d. PICK nd : nd = Append(records, m)
    OBVIOUS
  <2>2. /\ nd \in Seq(Message) /\ Len(nd) = n + 1 /\ nd[n + 1] = m
        /\ \A j \in 1 .. n : nd[j] = records[j]
    BY <1>6, <2>1, <2>d, AppendFacts
  <2>3. queue' = Append(queue, nd)
    BY <1>11, <2>x, <2>m, <2>d, Zenon
  <2>4. Passes(nd, n, list)
    BY <1>3, <1>6, <1>9, <1>11, <1>p, <2>1, <2>2, <2>3 DEF Passes
  <2> QED BY <1>3, <2>2, <2>4
<1> QED BY <1>7, <1>10, <1>11, Zenon

KernelType == [state : {"idle", "dumping"}, position : Nat, changed : BOOLEAN]

(* The fields of a dump in the kernel, whatever the values of a flag.      *)
LEMMA KernelUpdates ==
  ASSUME NEW S, NEW B, NEW k \in [state : S, position : Nat, changed : B],
         NEW x \in B, NEW s \in S, NEW p \in Nat
  PROVE  /\ [k EXCEPT !.changed = x] \in [state : S, position : Nat, changed : B]
         /\ [k EXCEPT !.changed = x].state = k.state
         /\ [k EXCEPT !.changed = x].position = k.position
         /\ [k EXCEPT !.state = s] \in [state : S, position : Nat, changed : B]
         /\ [k EXCEPT !.state = s].state = s
         /\ [k EXCEPT !.state = s].position = k.position
         /\ [k EXCEPT !.position = p] \in [state : S, position : Nat, changed : B]
         /\ [k EXCEPT !.position = p].state = k.state
         /\ [k EXCEPT !.position = p].position = p
OBVIOUS

(* The changes of the dump in the kernel keep its type.                    *)
LEMMA KernelFacts ==
  /\ IdleKernel \in KernelType /\ IdleKernel.state = "idle" /\ IdleKernel.position = 0
  /\ LET begun == [IdleKernel EXCEPT !.state = "dumping"]
     IN  begun \in KernelType /\ begun.state = "dumping" /\ begun.position = 0
  /\ \A k \in KernelType, x \in BOOLEAN :
       /\ [k EXCEPT !.changed = x] \in KernelType
       /\ [k EXCEPT !.changed = x].state = k.state
       /\ [k EXCEPT !.changed = x].position = k.position
  /\ \A k \in KernelType, p \in Nat :
       Moved(k, p) \in KernelType /\ Moved(k, p).state = k.state /\ Moved(k, p).position = p
<1>1. IdleKernel \in KernelType /\ IdleKernel.state = "idle" /\ IdleKernel.position = 0
  <2>1. IdleKernel \in KernelType
    BY Zenon DEF IdleKernel, KernelType
  <2> QED BY <2>1 DEF IdleKernel
<1>2. \A k \in KernelType, x \in BOOLEAN :
       /\ [k EXCEPT !.changed = x] \in KernelType
       /\ [k EXCEPT !.changed = x].state = k.state
       /\ [k EXCEPT !.changed = x].position = k.position
  BY KernelUpdates, Zenon DEF KernelType
<1>3. LET begun == [IdleKernel EXCEPT !.state = "dumping"]
      IN  begun \in KernelType /\ begun.state = "dumping" /\ begun.position = 0
  BY <1>1, KernelUpdates, Zenon DEF KernelType
<1>4. \A k \in KernelType, p \in Nat :
       Moved(k, p) \in KernelType /\ Moved(k, p).state = k.state /\ Moved(k, p).position = p
  <2> SUFFICES ASSUME NEW k \in KernelType, NEW p \in Nat
               PROVE  Moved(k, p) \in KernelType /\ Moved(k, p).state = k.state
                        /\ Moved(k, p).position = p
    OBVIOUS
  <2>k. PICK l : l = [k EXCEPT !.position = p]
    OBVIOUS
  <2>1. l \in KernelType /\ l.state = k.state /\ l.position = p
    BY <2>k, KernelUpdates, Zenon DEF KernelType
  <2>2. Moved(k, p) = [l EXCEPT !.changed = FALSE]
    BY <2>k, Zenon DEF Moved
  <2> QED BY <1>2, <2>1, <2>2, Zenon
<1> QED BY <1>1, <1>2, <1>3, <1>4, Zenon

(* The records of a datagram are its messages but an end.                  *)
LEMMA RecordsFacts ==
  ASSUME NEW d \in Seq(Message), Len(d) >= 1,
         \A j \in DOMAIN d : j < Len(d) => ~Ends(d[j])
  PROVE  /\ RecordsOf(d) \in Seq(Records)
         /\ Len(RecordsOf(d)) = Count(d) /\ Count(d) \in Nat
         /\ \A j \in 1 .. Count(d) : j \in DOMAIN d /\ RecordsOf(d)[j] = d[j].record
         /\ EndOf(d) = IF Finishes(d) THEN {Len(d)} ELSE {}
<1> DEFINE n == Count(d)
           at == {i \in DOMAIN d : ~Ends(d[i])}
<1>1. Len(d) \in Nat /\ DOMAIN d = 1 .. Len(d)
  OBVIOUS
<1>2. n \in Nat /\ n <= Len(d) /\ at = 1 .. n
  BY <1>1 DEF Count, Finishes
<1>3. EndOf(d) = IF Finishes(d) THEN {Len(d)} ELSE {}
  BY <1>1 DEF EndOf, Finishes
<1> HIDE DEF n
<1>4. Len(Pick(d, 1 .. n)) = n /\ \A k \in 1 .. n : Pick(d, 1 .. n)[k] = d[k]
  BY <1>2, PickPrefix
<1>p. PICK p : p = Pick(d, at)
  OBVIOUS
<1>5. p \in Seq(Message) /\ DOMAIN p = 1 .. Len(p)
  BY <1>p, PickElements
<1>6. Len(p) = n /\ \A k \in 1 .. n : p[k] = d[k]
  BY <1>2, <1>4, <1>p, Zenon
<1>7. \A k \in 1 .. n : k \in DOMAIN d /\ d[k].record \in Records
  <2> SUFFICES ASSUME NEW k \in 1 .. n PROVE k \in DOMAIN d /\ d[k].record \in Records
    OBVIOUS
  <2>1. k \in at
    BY <1>2
  <2>2. d[k] \in Message /\ d[k].kind = "record"
    BY <2>1 DEF Ends
  <2> QED BY <2>1, <2>2, MessageFields
<1>8. RecordsOf(d) = [i \in 1 .. n |-> p[i].record]
  BY <1>5, <1>6, <1>p DEF RecordsOf
<1> HIDE DEF at
<1>r. PICK r : r = RecordsOf(d)
  OBVIOUS
<1>9. r = [i \in 1 .. n |-> d[i].record]
  BY <1>6, <1>8, <1>r
<1>10. r \in Seq(Records) /\ Len(r) = n /\ \A j \in 1 .. n : r[j] = d[j].record
  BY <1>2, <1>7, <1>9
<1> QED BY <1>2, <1>3, <1>7, <1>10, <1>r DEF n

(* What retain keeps is of the class of the dump.                          *)
LEMMA RetainedFacts ==
  ASSUME NEW list \in Seq(Records)
  PROVE  Retained(list) \in Seq(Records)
<1>1. CASE operation = "routes"
  <2>1. {i \in DOMAIN list : list[i].class = Dumping} \in SUBSET DOMAIN list
    OBVIOUS
  <2> QED BY <1>1, <2>1, PickElements DEF Retained
<1>2. CASE operation # "routes"
  BY <1>2 DEF Retained
<1> QED BY <1>1, <1>2

(* The plan of the operation, and where the client stands in it.           *)
LEMMA StepFacts ==
  ASSUME TypeOK
  PROVE  /\ operation \in {"links", "routes", "sockets"}
         /\ Len(Plan(operation)) \in {1, 2} /\ step[1] \in 1 .. Len(Plan(operation))
         /\ Len(Plan(operation)[step[1]]) \in {1, 2}
         /\ step[2] \in 1 .. Len(Plan(operation)[step[1]])
<1>1. operation \in {"links", "routes", "sockets"}
  BY DumpAssumption DEF TypeOK
<1>2. step[1] \in DOMAIN Plan(operation) /\ step[2] \in DOMAIN Plan(operation)[step[1]]
  BY DEF TypeOK
<1> QED BY <1>1, <1>2, PlanFacts

(* Init satisfies the invariant.                                           *)
LEMMA InitOK == Init => IInv
<1> SUFFICES ASSUME Init PROVE IInv
  OBVIOUS
<1>1. operation \in {"links", "routes", "sockets"}
  BY DumpAssumption DEF Init
<1>2. TypeOK
  <2>1. 1 \in DOMAIN Plan(operation) /\ 1 \in DOMAIN Plan(operation)[1]
    BY <1>1, PlanFacts
  <2>2. kernel \in KernelType
    BY KernelFacts, Zenon DEF Init
  <2>3. step[1] = 1 /\ step[2] = 1
    BY DEF Init
  <2>4. queue \in Seq(Seq(Message)) /\ Len(queue) <= MaxQueued
    BY DumpAssumption DEF Init
  <2>5. result.state \in {"pending", "ok", "error"} /\ result.values \in Seq(Records)
    BY DEF Init, Pending
  <2>6. table \subseteq Records
    BY DEF Init
  <2>7. values \in Seq(Records) /\ block \in Seq(Records) /\ finished \in Seq(Records)
    BY DEF Init
  <2>8. /\ operation \in Operations /\ families \in {"both", "unavailable", "fallback"}
        /\ client \in {"request", "receive", "returned"} /\ faults \subseteq Errno \ {"none"}
    BY DEF Init
  <2> QED BY <2>1, <2>2, <2>3, <2>4, <2>5, <2>6, <2>7, <2>8, Zenon DEF TypeOK, KernelType
<1>3. QueueOK /\ FinalOK
  BY DEF Init, QueueOK, FinalOK
<1>4. PhaseOK /\ FaultOK
  BY KernelFacts DEF Init, PhaseOK, FaultOK, Pending
<1> QED BY <1>2, <1>3, <1>4 DEF IInv

(* A change of the table leaves the socket and the client alone.           *)
LEMMA ChangeOK ==
  ASSUME IInv, Change
  PROVE  /\ IInv' /\ kernel'.state = kernel.state /\ kernel'.position = kernel.position
         /\ table' \subseteq Records
<1> USE DEF IInv
<1>1. PICK x \in BOOLEAN : kernel' = [kernel EXCEPT !.changed = x]
  <2>1. (kernel.changed \/ (kernel.state = "dumping" /\ kernel.position > 0)) \in BOOLEAN
    BY Zenon
  <2> QED BY <2>1, Zenon DEF Change
<1>2. kernel \in KernelType
  BY Zenon DEF TypeOK, KernelType
<1>3. kernel' \in KernelType /\ kernel'.state = kernel.state /\ kernel'.position = kernel.position
  BY <1>1, <1>2, KernelFacts, Zenon
<1>4. table' \subseteq Records
  BY DEF Change, TypeOK
<1>5. UNCHANGED <<operation, families, queue, client, step, values, block,
                 finished, result, faults>>
  BY Zenon DEF Change
<1>6. TypeOK'
  BY <1>3, <1>4, <1>5, Zenon DEF TypeOK, KernelType
<1>7. QueueOK' /\ PhaseOK' /\ FinalOK' /\ FaultOK'
  BY <1>3, <1>5, Zenon DEF QueueOK, PhaseOK, FinalOK, FaultOK, EndOK, Outcome
<1> QED BY <1>3, <1>4, <1>6, <1>7

(* A datagram joins the queue, and if it ends the dump the kernel is done. *)
LEMMA SendOK ==
  ASSUME IInv, kernel.state = "dumping", Len(queue) < MaxQueued,
         NEW nd \in Seq(Message), queue' = Append(queue, nd), Len(nd) >= 1,
         \A j \in DOMAIN nd : j < Len(nd) => ~Ends(nd[j]),
         Finishes(nd) => kernel'.state = "idle", EndOK(nd[Len(nd)])',
         kernel' \in KernelType, faults \subseteq faults',
         faults' \subseteq Errno \ {"none"},
         "other" \in faults' => "other" \in faults
           \/ (Finishes(nd) /\ (operation # "sockets" => Outcome(nd[Len(nd)]) = "other")),
         UNCHANGED <<operation, families, table, client, step, values, block,
                     finished, result>>
  PROVE  IInv'
<1> USE DEF IInv
<1>Q. PICK Q : Q = queue'
  OBVIOUS
<1>1. queue \in Seq(Seq(Message)) /\ Len(queue) \in Nat
  BY DEF TypeOK
<1>2. /\ Q \in Seq(Seq(Message)) /\ Len(Q) = Len(queue) + 1
      /\ Len(queue) + 1 \in DOMAIN Q /\ Q[Len(queue) + 1] = nd
      /\ \A k \in DOMAIN queue : k \in DOMAIN Q /\ Q[k] = queue[k]
      /\ \A k \in DOMAIN Q : k = Len(queue) + 1 \/ k \in DOMAIN queue
  <2>1. Q = Append(queue, nd)
    BY <1>Q
  <2>T. PICK T : T = Seq(Message)
    OBVIOUS
  <2>2. queue \in Seq(T) /\ nd \in T
    BY <1>1, <2>T
  <2>3. /\ Q \in Seq(T) /\ Len(Q) = Len(queue) + 1
        /\ Len(queue) + 1 \in DOMAIN Q /\ Q[Len(queue) + 1] = nd
        /\ \A k \in DOMAIN queue : k \in DOMAIN Q /\ Q[k] = queue[k]
        /\ \A k \in DOMAIN Q : k = Len(queue) + 1 \/ k \in DOMAIN queue
    BY <2>1, <2>2, AppendFacts
  <2> QED BY <2>T, <2>3
<1>3. \A k \in DOMAIN queue : ~Finishes(queue[k])
  BY DEF QueueOK
<1>4. client = "receive"
  BY DEF PhaseOK, TypeOK
<1>5. TypeOK'
  <2>1. queue' \in Seq(Seq(Message)) /\ (Len(queue) <= MaxQueued)'
    BY <1>1, <1>2, <1>Q, DumpAssumption
  <2> QED BY <2>1, Zenon DEF TypeOK, KernelType
<1>6. QueueOK'
  <2> SUFFICES ASSUME NEW k \in DOMAIN Q
               PROVE  /\ Len(Q[k]) >= 1
                      /\ \A j \in DOMAIN Q[k] : j < Len(Q[k]) => ~Ends(Q[k][j])
                      /\ Finishes(Q[k]) => k = Len(Q) /\ kernel'.state = "idle"
    BY <1>Q, Zenon DEF QueueOK, Finishes, Ends
  <2>1. CASE k = Len(queue) + 1
    BY <1>2, <2>1
  <2>2. CASE k \in DOMAIN queue
    BY <1>2, <1>3, <2>2 DEF QueueOK
  <2> QED BY <1>2, <2>1, <2>2
<1>7. PhaseOK'
  BY <1>4 DEF PhaseOK
<1>8. FinalOK'
  <2> SUFFICES ASSUME NEW k \in DOMAIN Q PROVE EndOK(Q[k][Len(Q[k])])'
    BY <1>Q, Zenon DEF FinalOK, EndOK
  <2>1. CASE k = Len(queue) + 1
    BY <1>2, <2>1, Zenon DEF EndOK
  <2>2. CASE k \in DOMAIN queue
    <3>1. EndOK(queue[k][Len(queue[k])]) /\ Q[k] = queue[k]
      BY <1>2, <2>2 DEF FinalOK
    <3>2. EndOK(Q[k][Len(Q[k])])
      BY <3>1, Zenon
    <3> QED BY <3>2 DEF EndOK
  <2> QED BY <1>2, <2>1, <2>2
<1>9. FaultOK'
  <2> SUFFICES ASSUME operation # "sockets", "other" \in faults'
               PROVE  \E k \in DOMAIN Q : Finishes(Q[k]) /\ Outcome(Q[k][Len(Q[k])]) = "other"
    BY <1>4, <1>Q, Zenon DEF FaultOK, Finishes, Ends, Outcome
  <2>1. CASE "other" \in faults
    BY <1>3, <1>4, <2>1 DEF FaultOK
  <2>2. CASE "other" \notin faults
    <3>1. Finishes(nd) /\ Outcome(nd[Len(nd)]) = "other"
      BY <2>2
    <3> QED BY <1>2, <3>1
  <2> QED BY <2>1, <2>2
<1> QED BY <1>5, <1>6, <1>7, <1>8, <1>9

(* The kernel sends the next records, or the end with them.                *)
LEMMA PassOK ==
  ASSUME IInv, KernelPass
  PROVE  IInv'
<1>1. TypeOK /\ kernel \in KernelType /\ kernel.state = "dumping" /\ Len(queue) < MaxQueued
  BY Zenon DEF IInv, TypeOK, KernelType, KernelPass
<1>p. kernel.position \in Nat
  <2>1. kernel \in [state : {"idle", "dumping"}, position : Nat, changed : BOOLEAN]
    BY Zenon DEF IInv, TypeOK
  <2> QED BY <2>1
<1>2. PICK nd \in Seq(Message), n \in Nat :
        /\ queue' = Append(queue, nd)
        /\ \A j \in 1 .. n : nd[j].kind = "record"
        /\ \/ /\ n >= 1 /\ Len(nd) = n
              /\ kernel' = Moved(kernel, kernel.position + n)
           \/ /\ Len(nd) = n + 1 /\ kernel' = IdleKernel
              /\ nd[n + 1].kind = "done" /\ nd[n + 1].errno = "none"
  <2>l. PICK list : list = Listing(Dumping)
    OBVIOUS
  <2>1. \E nd \in Seq(Message), n \in Nat : Passes(nd, n, list)
    BY <1>1, <2>l, PassFacts
  <2> QED BY <2>1, Zenon DEF Passes
<1>3. /\ Len(nd) >= 1 /\ \A j \in DOMAIN nd : j < Len(nd) => ~Ends(nd[j])
      /\ Finishes(nd) => kernel' = IdleKernel
  <2>1. DOMAIN nd = 1 .. Len(nd) /\ Len(nd) \in Nat
    OBVIOUS
  <2>2. \A j \in 1 .. n : ~Ends(nd[j])
    BY <1>2 DEF Ends
  <2>3. CASE n >= 1 /\ Len(nd) = n
    <3>1. \A j \in DOMAIN nd : ~Ends(nd[j])
      BY <2>1, <2>2, <2>3
    <3>2. Len(nd) \in DOMAIN nd
      BY <2>1, <2>3
    <3>3. ~Finishes(nd)
      BY <3>1, <3>2, Zenon DEF Finishes
    <3> QED BY <2>3, <3>1, <3>3
  <2>4. CASE Len(nd) = n + 1 /\ kernel' = IdleKernel
    <3>1. \A j \in DOMAIN nd : j < Len(nd) => j \in 1 .. n
      BY <2>1, <2>4
    <3> QED BY <2>2, <2>4, <3>1
  <2>5. (n >= 1 /\ Len(nd) = n) \/ (Len(nd) = n + 1 /\ kernel' = IdleKernel)
    BY <1>2, Zenon
  <2> QED BY <2>3, <2>4, <2>5, Zenon
<1>4. EndOK(nd[Len(nd)])'
  <2>1. nd[Len(nd)].kind = "record" \/ (nd[Len(nd)].kind = "done" /\ nd[Len(nd)].errno = "none")
    BY <1>2
  <2> QED BY <2>1 DEF EndOK
<1>5. kernel' \in KernelType /\ (kernel' = IdleKernel => kernel'.state = "idle")
  <2>1. kernel.position + n \in Nat
    BY <1>2, <1>p
  <2> QED BY <1>1, <1>2, <2>1, KernelFacts, Zenon
<1>6. UNCHANGED <<operation, families, table, client, step, values, block,
                  finished, result, faults>>
  BY Zenon DEF KernelPass
<1>7. faults \subseteq Errno \ {"none"}
  BY <1>1 DEF TypeOK
<1>8. queue' = Append(queue, nd)
  BY <1>2
<1> QED BY <1>1, <1>3, <1>4, <1>5, <1>6, <1>7, <1>8, SendOK, Zenon

(* The kernel gives up, and says so.                                       *)
LEMMA FailsOK ==
  ASSUME IInv, KernelFails
  PROVE  IInv'
<1>n. PICK nd : nd = <<Done("other", FALSE)>>
  OBVIOUS
<1>m. PICK m : m = Done("other", FALSE)
  OBVIOUS
<1>1. m \in Message /\ m.kind = "done" /\ m.errno = "other" /\ ~m.interrupted
  <2>1. m \in Message /\ m.kind = "done" /\ m.errno = "other"
    BY <1>m, MessageTypes, Zenon DEF Errno
  <2>2. ~m.interrupted
    BY <1>m DEF Done
  <2> QED BY <2>1, <2>2, Zenon
<1>2. nd \in Seq(Message) /\ Len(nd) = 1 /\ nd[1] = m /\ DOMAIN nd = {1}
  <2>1. nd = <<m>>
    BY <1>n, <1>m
  <2> QED BY <1>1, <2>1
<1>3. Ends(m) /\ (operation # "sockets" => Outcome(m) = "other")
  BY <1>1 DEF Ends, Outcome
<1>4. /\ kernel.state = "dumping" /\ Len(queue) < MaxQueued
      /\ queue' = Append(queue, nd) /\ kernel' = IdleKernel
      /\ faults' = faults \union {"other"}
  BY <1>n, Zenon DEF KernelFails
<1>5. kernel' \in KernelType /\ kernel'.state = "idle"
  BY <1>4, KernelFacts, Zenon
<1>6. EndOK(nd[Len(nd)])'
  BY <1>1, <1>2, <1>4 DEF EndOK
<1>7. UNCHANGED <<operation, families, table, client, step, values, block,
                  finished, result>>
  BY Zenon DEF KernelFails
<1>8. faults \subseteq faults' /\ faults' \subseteq Errno \ {"none"}
  BY <1>4 DEF IInv, TypeOK, Errno
<1>9. /\ Len(nd) >= 1 /\ \A j \in DOMAIN nd : j < Len(nd) => ~Ends(nd[j])
      /\ Finishes(nd) /\ (operation # "sockets" => Outcome(nd[Len(nd)]) = "other")
  BY <1>2, <1>3 DEF Finishes
<1> QED BY <1>2, <1>4, <1>5, <1>6, <1>7, <1>8, <1>9, SendOK, Zenon

(* The request is sent: the kernel starts, or the refusal waits.           *)
LEMMA RequestOK ==
  ASSUME IInv, Request
  PROVE  IInv'
<1>1. /\ client = "request" /\ client' = "receive" /\ queue = <<>> /\ values = <<>>
      /\ kernel.state = "idle" /\ result.state = "pending"
      /\ operation # "sockets" => "other" \notin faults
  BY DEF Request, IInv, PhaseOK, FaultOK
<1>2. UNCHANGED <<operation, families, table, step, values, block, finished,
                  result, snapshots, changes, disturbed>>
  BY Zenon DEF Request
<1>3. CASE /\ kernel' = [IdleKernel EXCEPT !.state = "dumping"]
           /\ UNCHANGED <<queue, faults>>
  <2>1. kernel' \in KernelType
    BY <1>3, KernelFacts, Zenon
  <2>2. queue' = <<>> /\ faults' = faults
    BY <1>1, <1>3
  <2>3. TypeOK'
    <3>1. queue' = queue
      BY <1>3
    <3> QED BY <1>1, <1>2, <2>1, <2>2, <3>1, Zenon DEF TypeOK, KernelType, IInv
  <2>4. QueueOK' /\ FinalOK'
    BY <2>2 DEF QueueOK, FinalOK
  <2>5. PhaseOK' /\ FaultOK'
    BY <1>1, <1>2, <2>2, Zenon DEF PhaseOK, FaultOK
  <2> QED BY <2>3, <2>4, <2>5 DEF IInv
<1>4. ASSUME NEW refusal \in Errno \ {"none"},
             refusal = "unavailable" => families = "unavailable",
             queue' = <<<<[kind |-> "error", errno |-> refusal]>>>>,
             faults' = faults \union {refusal}, UNCHANGED kernel
      PROVE  IInv'
  <2>m. PICK m : m = [kind |-> "error", errno |-> refusal]
    OBVIOUS
  <2>d. PICK d : d = <<m>>
    OBVIOUS
  <2>1. m \in Message /\ m.kind = "error" /\ m.errno = refusal
    <3>1. m \in Message
      BY <2>m, MessageTypes, Zenon
    <3> QED BY <2>m, <3>1
  <2>2. d \in Seq(Message) /\ Len(d) = 1 /\ d[1] = m /\ DOMAIN d = {1}
    BY <2>d, <2>1
  <2>3. queue' = <<d>>
    BY <1>4, <2>m, <2>d, Zenon
  <2>Q. PICK Q : Q = queue'
    OBVIOUS
  <2>4. Q \in Seq(Seq(Message)) /\ Len(Q) = 1 /\ Q[1] = d /\ DOMAIN Q = {1}
    <3>T. PICK T : T = Seq(Message)
      OBVIOUS
    <3>1. d \in T /\ Q = <<d>>
      BY <2>2, <2>3, <2>Q, <3>T
    <3>2. Q \in Seq(T) /\ Len(Q) = 1 /\ Q[1] = d /\ DOMAIN Q = {1}
      BY <3>1
    <3> QED BY <3>T, <3>2
  <2>5. TypeOK'
    <3>0. Len(Q) <= MaxQueued
      BY <2>4, DumpAssumption
    <3>1. queue' \in Seq(Seq(Message)) /\ (Len(queue) <= MaxQueued)'
      BY <2>4, <2>Q, <3>0, Zenon
    <3>2. faults' \subseteq Errno \ {"none"}
      BY <1>4 DEF IInv, TypeOK
    <3> QED BY <1>1, <1>2, <1>4, <3>1, <3>2, Zenon DEF IInv, TypeOK
  <2>6. QueueOK'
    <3>1. \A k \in DOMAIN Q : /\ Len(Q[k]) >= 1
                              /\ \A j \in DOMAIN Q[k] : j < Len(Q[k]) => ~Ends(Q[k][j])
                              /\ Finishes(Q[k]) => k = Len(Q) /\ kernel'.state = "idle"
      <4>1. kernel'.state = "idle"
        BY <1>1, <1>4
      <4>2. Len(d) >= 1 /\ \A j \in DOMAIN d : ~(j < Len(d))
        BY <2>2
      <4>3. \A k \in DOMAIN Q : Q[k] = d /\ k = Len(Q)
        BY <2>4
      <4> QED BY <4>1, <4>2, <4>3, Zenon
    <3> QED BY <2>Q, <3>1, Zenon DEF QueueOK, Finishes, Ends
  <2>7. PhaseOK'
    BY <1>1, <1>2 DEF PhaseOK
  <2>8. FinalOK'
    <3>1. \A k \in DOMAIN Q : EndOK(Q[k][Len(Q[k])])'
      BY <1>2, <1>4, <2>1, <2>2, <2>4 DEF EndOK
    <3> QED BY <2>Q, <3>1, Zenon DEF FinalOK, EndOK
  <2>9. FaultOK'
    <3> SUFFICES ASSUME operation # "sockets", "other" \in faults'
                 PROVE  \E k \in DOMAIN Q : Finishes(Q[k]) /\ Outcome(Q[k][Len(Q[k])]) = "other"
      BY <1>1, <1>2, <2>Q, Zenon DEF FaultOK, Finishes, Ends, Outcome
    <3>1. refusal = "other"
      BY <1>1, <1>4 DEF Errno
    <3> QED BY <2>1, <2>2, <2>4, <3>1 DEF Finishes, Ends, Outcome
  <2> QED BY <2>5, <2>6, <2>7, <2>8, <2>9 DEF IInv
<1> DEFINE lacking == families = "unavailable" /\ Dumping \in IPv6Classes
           refusal == IF lacking THEN "unavailable" ELSE "other"
<1>5. /\ refusal \in Errno \ {"none"}
      /\ refusal = "unavailable" => families = "unavailable"
  BY DEF Errno
<1>6. \/ /\ kernel' = [IdleKernel EXCEPT !.state = "dumping"]
         /\ UNCHANGED <<queue, faults>>
      \/ /\ queue' = <<<<[kind |-> "error", errno |-> refusal]>>>>
         /\ faults' = faults \union {refusal}
         /\ UNCHANGED kernel
  BY Zenon DEF Request
<1> HIDE DEF refusal
<1> QED BY <1>3, <1>4, <1>5, <1>6, Zenon

(* The socket is closed: the client makes the next request or returns.     *)
LEMMA ClosedOK ==
  ASSUME IInv, CloseSocket, TypeOK', client' # "receive",
         client' # "returned" => result'.state = "pending",
         UNCHANGED <<operation, families>>,
         operation # "sockets" /\ "other" \in faults'
           => client' = "returned" /\ result'.state = "error"
  PROVE  IInv'
<1>1. queue' = <<>> /\ kernel' = IdleKernel /\ values' = <<>>
  BY DEF CloseSocket
<1>2. kernel'.state = "idle"
  BY <1>1, KernelFacts
<1>3. QueueOK' /\ FinalOK'
  BY <1>1 DEF QueueOK, FinalOK
<1>4. PhaseOK' /\ FaultOK'
  BY <1>1, <1>2, Zenon DEF PhaseOK, FaultOK
<1> QED BY <1>3, <1>4 DEF IInv

(* A dump that fails ends the call, or the listing of IPv6.                *)
LEMMA DumpFailsOK ==
  ASSUME IInv, client # "returned", NEW errno \in Errno \ {"none"}, DumpFails(errno),
         UNCHANGED <<operation, families, table>>, faults' \subseteq Errno \ {"none"},
         errno = "unavailable" /\ operation # "sockets" => "other" \notin faults'
  PROVE  IInv'
<1>1. /\ client' = "returned" /\ CloseSocket /\ UNCHANGED <<step, block, finished>>
      /\ result' = IF Tolerated(errno) THEN Returned(Sorted(finished)) ELSE Failed
  BY Zenon DEF DumpFails, Return
<1>2. Sorted(finished) \in Seq(Records)
  BY SortedFacts DEF IInv, TypeOK
<1>3. /\ result'.state \in {"ok", "error"} /\ result'.values \in Seq(Records)
      /\ result'.state = "ok" => errno = "unavailable"
  BY <1>1, <1>2 DEF Returned, Failed, Tolerated
<1>4. queue' = <<>> /\ kernel' \in KernelType /\ values' = <<>>
  BY <1>1, KernelFacts, Zenon DEF CloseSocket
<1>5. TypeOK'
  <2>1. queue' \in Seq(Seq(Message)) /\ values' \in Seq(Records)
    BY <1>4
  <2>2. Len(queue') <= MaxQueued
    BY <1>4, DumpAssumption
  <2>3. result'.state \in {"pending", "ok", "error"}
    BY <1>3
  <2> QED BY <1>1, <1>3, <1>4, <2>1, <2>2, <2>3, Zenon DEF IInv, TypeOK, KernelType
<1>6. operation # "sockets" /\ "other" \in faults' => result'.state = "error"
  BY <1>3
<1> QED BY <1>1, <1>5, <1>6, ClosedOK, Zenon

(* A dump that succeeds adds its records, and the plan goes on.            *)
LEMMA DumpReturnsOK ==
  ASSUME IInv, client # "returned", NEW list \in Seq(Records), DumpReturns(list),
         UNCHANGED <<operation, families, table, faults>>,
         operation # "sockets" => "other" \notin faults
  PROVE  IInv'
<1> DEFINE plan == Plan(operation)
           records == block \o Retained(list)
<1>1. Retained(list) \in Seq(Records) /\ block \in Seq(Records) /\ finished \in Seq(Records)
  BY RetainedFacts DEF IInv, TypeOK
<1>2. records \in Seq(Records) /\ Sorted(records) \in Seq(Records)
  <2>1. records \in Seq(Records)
    BY <1>1
  <2> HIDE DEF records
  <2> QED BY <2>1, SortedFacts
<1>3. CloseSocket
  BY Zenon DEF DumpReturns
<1>4. queue' = <<>> /\ kernel' \in KernelType /\ values' = <<>>
  BY <1>3, KernelFacts, Zenon DEF CloseSocket
<1>5. ASSUME client' \in {"request", "returned"}, block' \in Seq(Records),
             finished' \in Seq(Records),
             step'[1] \in DOMAIN plan, step'[2] \in DOMAIN plan[step'[1]],
             result'.state \in {"pending", "ok"}, result'.values \in Seq(Records),
             client' # "returned" => result'.state = "pending"
      PROVE  IInv'
  <2>1. queue' \in Seq(Seq(Message)) /\ values' \in Seq(Records)
    BY <1>4
  <2>2. Len(queue') <= MaxQueued
    BY <1>4, DumpAssumption
  <2>3. result'.state \in {"pending", "ok", "error"} /\ client' \in {"request", "receive", "returned"}
    BY <1>5
  <2>4. TypeOK'
    BY <1>4, <1>5, <2>1, <2>2, <2>3, Zenon DEF IInv, TypeOK, KernelType
  <2> HIDE DEF plan
  <2>5. client' # "receive"
    BY <1>5
  <2> QED BY <1>3, <1>5, <2>4, <2>5, ClosedOK, Zenon
<1>6. result.state = "pending" /\ result.values \in Seq(Records)
  BY DEF IInv, PhaseOK, TypeOK
<1>7. /\ step[1] \in 1 .. Len(plan) /\ Len(plan) \in {1, 2}
      /\ step[2] \in 1 .. Len(plan[step[1]]) /\ Len(plan[step[1]]) \in {1, 2}
      /\ DOMAIN plan = 1 .. Len(plan)
      /\ \A b \in DOMAIN plan : DOMAIN plan[b] = 1 .. Len(plan[b]) /\ Len(plan[b]) \in {1, 2}
  <2>1. operation \in {"links", "routes", "sockets"}
    BY StepFacts DEF IInv
  <2> QED BY <2>1, StepFacts, PlanFacts DEF IInv
<1>8. CASE /\ step[2] < Len(plan[step[1]])
           /\ Continue(<<step[1], step[2] + 1>>)
           /\ block' = records
           /\ UNCHANGED finished
  <2> HIDE DEF records, plan
  <2>1. step'[1] = step[1] /\ step'[2] = step[2] + 1 /\ client' = "request" /\ result' = result
    BY <1>8 DEF Continue
  <2>2. step'[1] \in DOMAIN plan /\ step'[2] \in DOMAIN plan[step'[1]]
    BY <1>7, <1>8, <2>1
  <2> QED BY <1>1, <1>2, <1>5, <1>6, <1>8, <2>1, <2>2
<1>9. CASE /\ step[2] = Len(plan[step[1]])
           /\ block' = <<>>
           /\ finished' = finished \o Sorted(records)
           /\ IF LastBlock THEN Return(Returned(Sorted(finished')))
              ELSE Continue(<<step[1] + 1, 1>>)
  <2>1. finished' \in Seq(Records) /\ block' \in Seq(Records)
    <3>s. PICK s : s = Sorted(records)
      OBVIOUS
    <3>1. s \in Seq(Records) /\ finished' = finished \o s
      BY <1>2, <1>9, <3>s
    <3> QED BY <1>1, <1>9, <3>1
  <2>2. Sorted(finished') \in Seq(Records)
    BY <2>1, SortedFacts
  <2>3. CASE LastBlock
    <3>1. client' = "returned" /\ result' = Returned(Sorted(finished')) /\ step' = step
      BY <1>9, <2>3 DEF Return
    <3>2. result'.state = "ok" /\ result'.values \in Seq(Records)
      BY <2>2, <3>1 DEF Returned
    <3> HIDE DEF plan
    <3> QED BY <1>5, <1>7, <2>1, <3>1, <3>2
  <2>4. CASE ~LastBlock
    <3>1. client' = "request" /\ result' = result /\ step'[1] = step[1] + 1 /\ step'[2] = 1
      BY <1>9, <2>4 DEF Continue
    <3>2. step'[1] \in DOMAIN plan /\ step'[2] \in DOMAIN plan[step'[1]]
      BY <1>7, <2>4, <3>1 DEF LastBlock
    <3> HIDE DEF plan
    <3> QED BY <1>5, <1>6, <2>1, <3>1, <3>2
  <2> QED BY <2>3, <2>4
<1> QED BY <1>8, <1>9 DEF DumpReturns

(* The datagram that recv returns.                                         *)
LEMMA HeadFacts ==
  ASSUME IInv, queue # <<>>, NEW d, d = Head(queue)
  PROVE  /\ 1 \in DOMAIN queue /\ d = queue[1] /\ d \in Seq(Message)
         /\ Len(d) >= 1 /\ \A j \in DOMAIN d : j < Len(d) => ~Ends(d[j])
         /\ RecordsOf(d) \in Seq(Records) /\ values \o RecordsOf(d) \in Seq(Records)
         /\ EndOf(d) = IF Finishes(d) THEN {Len(d)} ELSE {}
         /\ Finishes(d) => Len(queue) = 1 /\ kernel.state = "idle"
         /\ EndOK(d[Len(d)]) /\ d[Len(d)] \in Message
         /\ Len(queue) \in Nat /\ DOMAIN queue = 1 .. Len(queue)
<1>1. queue \in Seq(Seq(Message)) /\ values \in Seq(Records)
  BY DEF IInv, TypeOK
<1>2. 1 \in DOMAIN queue /\ d = queue[1] /\ d \in Seq(Message)
  <2>T. PICK T : T = Seq(Message)
    OBVIOUS
  <2>1. queue \in Seq(T)
    BY <1>1, <2>T
  <2>2. 1 \in DOMAIN queue /\ d = queue[1] /\ d \in T
    BY <2>1
  <2> QED BY <2>T, <2>2
<1>3. /\ Len(d) >= 1 /\ \A j \in DOMAIN d : j < Len(d) => ~Ends(d[j])
      /\ Finishes(d) => Len(queue) = 1 /\ kernel.state = "idle"
  BY <1>2 DEF IInv, QueueOK
<1>4. EndOK(d[Len(d)])
  BY <1>2 DEF IInv, FinalOK
<1>5. RecordsOf(d) \in Seq(Records) /\ EndOf(d) = IF Finishes(d) THEN {Len(d)} ELSE {}
  BY <1>2, <1>3, RecordsFacts
<1>6. d[Len(d)] \in Message
  BY <1>2, <1>3
<1>7. values \o RecordsOf(d) \in Seq(Records)
  <2>r. PICK r : r = RecordsOf(d)
    OBVIOUS
  <2>1. values \o r \in Seq(Records)
    BY <1>1, <1>5, <2>r
  <2> QED BY <2>r, <2>1
<1>8. Len(queue) \in Nat /\ DOMAIN queue = 1 .. Len(queue)
  BY <1>1
<1> QED BY <1>2, <1>3, <1>4, <1>5, <1>6, <1>7, <1>8

(* The errno of an end, and that a failure which waits is this one.        *)
LEMMA OutcomeFacts ==
  ASSUME IInv, client = "receive", queue # <<>>, NEW d, d = Head(queue), Finishes(d)
  PROVE  /\ Outcome(d[Len(d)]) \in Errno
         /\ operation # "sockets" /\ "other" \in faults => Outcome(d[Len(d)]) = "other"
         /\ Outcome(d[Len(d)]) = "unavailable" => families = "unavailable"
         /\ Outcome(d[Len(d)]) = "none" => d[Len(d)].kind = "done"
<1>1. /\ 1 \in DOMAIN queue /\ d = queue[1] /\ Len(queue) = 1 /\ DOMAIN queue = 1 .. Len(queue)
      /\ d[Len(d)] \in Message /\ EndOK(d[Len(d)])
  BY HeadFacts
<1>2. operation # "sockets" /\ "other" \in faults => Outcome(d[Len(d)]) = "other"
  <2> SUFFICES ASSUME operation # "sockets", "other" \in faults
               PROVE  Outcome(d[Len(d)]) = "other"
    OBVIOUS
  <2>1. PICK k \in DOMAIN queue : Outcome(queue[k][Len(queue[k])]) = "other"
    BY DEF IInv, FaultOK
  <2>2. k = 1
    BY <1>1
  <2> QED BY <1>1, <2>1, <2>2
<1>m. PICK m : m = d[Len(d)]
  OBVIOUS
<1>3. /\ m.kind \in {"done", "error"}
      /\ m.kind = "done" => m.errno \in Errno
      /\ m.kind = "error" => m.errno \in Errno \ {"none"}
  BY <1>1, <1>m, MessageFields DEF Finishes, Ends
<1>4. EndOK(m)
  BY <1>1, <1>m
<1>5. Outcome(m) = m.errno \/ (m.kind # "error" /\ Outcome(m) \in {"none", "other"})
  BY DEF Outcome
<1>6. m.kind = "error" => Outcome(m) = m.errno
  BY DEF Outcome
<1>7. Outcome(m) \in Errno
  BY <1>3, <1>5 DEF Errno
<1>8. Outcome(m) = "unavailable" => families = "unavailable"
  BY <1>3, <1>4, <1>5, <1>6 DEF EndOK
<1>9. Outcome(m) = "none" => m.kind = "done"
  BY <1>3, <1>6
<1> QED BY <1>2, <1>7, <1>8, <1>9, <1>m

(* A datagram without an end leaves the queue.                             *)
LEMMA TakeOK ==
  ASSUME IInv, client = "receive", queue # <<>>, NEW d, d = Head(queue), ~Finishes(d),
         values' = values \o RecordsOf(d), queue' = Tail(queue),
         UNCHANGED <<operation, families, table, kernel, client, step, block, finished,
                     result, faults>>
  PROVE  IInv'
<1>1. /\ 1 \in DOMAIN queue /\ d = queue[1] /\ values' \in Seq(Records)
      /\ Len(queue) \in Nat /\ DOMAIN queue = 1 .. Len(queue)
  BY HeadFacts
<1>Q. PICK Q : Q = queue'
  OBVIOUS
<1>2. /\ Q \in Seq(Seq(Message)) /\ Len(Q) = Len(queue) - 1
      /\ \A k \in DOMAIN Q : k + 1 \in DOMAIN queue /\ Q[k] = queue[k + 1]
      /\ \A k \in DOMAIN queue : k = 1 \/ (k - 1 \in DOMAIN Q /\ Q[k - 1] = queue[k])
  <2>T. PICK T : T = Seq(Message)
    OBVIOUS
  <2>1. queue \in Seq(T) /\ Q = Tail(queue)
    BY <1>Q, <2>T DEF IInv, TypeOK
  <2>2. /\ Q \in Seq(T) /\ Len(Q) = Len(queue) - 1
        /\ \A k \in DOMAIN Q : k + 1 \in DOMAIN queue /\ Q[k] = queue[k + 1]
        /\ \A k \in DOMAIN queue : k = 1 \/ (k - 1 \in DOMAIN Q /\ Q[k - 1] = queue[k])
    BY <2>1, TailFacts
  <2> QED BY <2>T, <2>2
<1>3. TypeOK'
  <2>1. Len(Q) <= MaxQueued
    BY <1>1, <1>2, DumpAssumption DEF IInv, TypeOK
  <2>2. queue' \in Seq(Seq(Message)) /\ (Len(queue) <= MaxQueued)'
    BY <1>2, <1>Q, <2>1, Zenon
  <2> QED BY <1>1, <2>2, Zenon DEF IInv, TypeOK
<1>4. QueueOK'
  <2> SUFFICES ASSUME NEW k \in DOMAIN Q
               PROVE  /\ Len(Q[k]) >= 1
                      /\ \A j \in DOMAIN Q[k] : j < Len(Q[k]) => ~Ends(Q[k][j])
                      /\ Finishes(Q[k]) => k = Len(Q) /\ kernel.state = "idle"
    BY <1>Q, Zenon DEF QueueOK, Finishes, Ends
  <2>1. k + 1 \in DOMAIN queue /\ Q[k] = queue[k + 1]
    BY <1>2
  <2>2. /\ Len(Q[k]) >= 1
        /\ \A j \in DOMAIN Q[k] : j < Len(Q[k]) => ~Ends(Q[k][j])
        /\ Finishes(Q[k]) => k + 1 = Len(queue) /\ kernel.state = "idle"
    BY <2>1, Zenon DEF IInv, QueueOK
  <2>3. k \in Int
    BY <1>2
  <2> QED BY <1>1, <1>2, <2>2, <2>3
<1>5. FinalOK'
  <2>1. \A k \in DOMAIN Q : EndOK(Q[k][Len(Q[k])])
    BY <1>2, Zenon DEF IInv, FinalOK
  <2> QED BY <1>Q, <2>1, Zenon DEF FinalOK, EndOK
<1>6. PhaseOK'
  BY DEF IInv, PhaseOK
<1>7. FaultOK'
  <2> SUFFICES ASSUME operation # "sockets", "other" \in faults
               PROVE  \E k \in DOMAIN Q : Finishes(Q[k]) /\ Outcome(Q[k][Len(Q[k])]) = "other"
    BY <1>Q, Zenon DEF FaultOK, Finishes, Ends, Outcome
  <2>1. PICK k \in DOMAIN queue : Finishes(queue[k]) /\ Outcome(queue[k][Len(queue[k])]) = "other"
    BY DEF IInv, FaultOK
  <2>2. k # 1
    BY <1>1, <2>1
  <2> QED BY <1>2, <2>1, <2>2, Zenon
<1> QED BY <1>3, <1>4, <1>5, <1>6, <1>7 DEF IInv

(* A datagram is taken, and with its end the dump is over.                 *)
LEMMA ReceiveOK ==
  ASSUME IInv, Receive
  PROVE  IInv'
<1>d. PICK d : d = Head(queue)
  OBVIOUS
<1>1. client = "receive" /\ queue # <<>>
  BY Zenon DEF Receive
<1>2. UNCHANGED <<operation, families, table, faults>>
  BY Zenon DEF Receive
<1>3. CASE Finishes(d)
  <2>e. PICK errno : errno = Outcome(d[Len(d)])
    OBVIOUS
  <2>l. PICK list : list = values \o RecordsOf(d)
    OBVIOUS
  <2>1. EndOf(d) = {Len(d)} /\ list \in Seq(Records)
    BY <1>1, <1>3, <1>d, <2>l, HeadFacts
  <2>3. errno \in Errno /\ (operation # "sockets" /\ "other" \in faults => errno = "other")
    BY <1>1, <1>3, <1>d, <2>e, OutcomeFacts
  <2>4. IF errno = "none" THEN DumpReturns(list) ELSE DumpFails(errno)
    BY <1>d, <2>e, <2>l, <2>1, Zenon DEF Receive
  <2>5. CASE errno = "none"
    BY <1>1, <1>2, <2>1, <2>3, <2>4, <2>5, DumpReturnsOK
  <2>6. CASE errno # "none"
    <3>1. errno \in Errno \ {"none"} /\ faults' \subseteq Errno \ {"none"}
      BY <1>2, <2>3, <2>6 DEF IInv, TypeOK
    <3>2. errno = "unavailable" /\ operation # "sockets" => "other" \notin faults'
      BY <1>2, <2>3
    <3> QED BY <1>1, <1>2, <2>4, <2>6, <3>1, <3>2, DumpFailsOK
  <2> QED BY <2>5, <2>6
<1>4. CASE ~Finishes(d)
  <2>1. EndOf(d) = {}
    BY <1>1, <1>4, <1>d, HeadFacts
  <2>2. /\ values' = values \o RecordsOf(d) /\ queue' = Tail(queue)
        /\ UNCHANGED <<kernel, client, step, block, finished, result>>
    BY <1>d, <2>1, Zenon DEF Receive
  <2> QED BY <1>1, <1>2, <1>4, <1>d, <2>2, TakeOK
<1> QED BY <1>3, <1>4

(* The socket fails before or after the request was sent.                  *)
LEMMA SocketFailsOK ==
  ASSUME IInv, RequestFails \/ ReceiveFails
  PROVE  IInv'
<1>1. /\ client # "returned" /\ DumpFails("other") /\ faults' = faults \union {"other"}
      /\ UNCHANGED <<operation, families, table>>
  BY Zenon DEF RequestFails, ReceiveFails
<1>2. faults' \subseteq Errno \ {"none"} /\ "other" \in Errno \ {"none"}
  BY <1>1 DEF IInv, TypeOK, Errno
<1> QED BY <1>1, <1>2, DumpFailsOK

(* Nothing changes: the invariant stays.                                   *)
LEMMA StutterOK ==
  ASSUME IInv, UNCHANGED vars
  PROVE  IInv'
BY Zenon DEF vars, IInv, TypeOK, QueueOK, PhaseOK, FinalOK, FaultOK, EndOK, Finishes,
   Ends, Outcome

(* Every step keeps the invariant.                                         *)
LEMMA Inductive ==
  ASSUME IInv, [Next]_vars
  PROVE  IInv'
<1>1. CASE Change
  BY <1>1, ChangeOK
<1>2. CASE Kernel
  BY <1>2, PassOK, FailsOK DEF Kernel
<1>3. CASE Client
  BY <1>3, RequestOK, SocketFailsOK, ReceiveOK DEF Client
<1>4. CASE Stopped \/ UNCHANGED vars
  BY <1>4, StutterOK DEF Stopped
<1> QED BY <1>1, <1>2, <1>3, <1>4, Zenon DEF Next

(* The invariant holds in every state.                                     *)
THEOREM Invariance == Spec => []IInv
<1>1. Init => IInv
  BY InitOK
<1>2. IInv /\ [Next]_vars => IInv'
  BY Inductive
<1> QED BY <1>1, <1>2, PTL DEF Spec

(* The variables keep their types and the client never leaves its plan:    *)
(* neither a short table nor a refused dump indexes past a block.          *)
THEOREM TypeCorrect == Spec => []TypeOK
<1>1. IInv => TypeOK
  BY DEF IInv
<1> QED BY <1>1, Invariance, PTL

(* A successful call of links, ip_routes or their kin met no failure of    *)
(* the socket or the kernel in any of its dumps, whatever the kernel sent  *)
(* ahead and whenever the tables changed.                                  *)
THEOREM FaultsReturned == Spec => []FaultsSurface
<1>1. IInv => FaultsSurface
  BY DEF IInv, FaultOK, FaultsSurface, PhaseOK
<1> QED BY <1>1, Invariance, PTL

-----------------------------------------------------------------------------
(* What the client gathers.                                                *)

(* The classes of a plan, dump by dump.                                    *)
LEMMA ClassFacts ==
  ASSUME NEW op \in {"links", "routes", "sockets"}, NEW b \in DOMAIN Plan(op),
         NEW d \in DOMAIN Plan(op)[b]
  PROVE  /\ Behind(op, 1) = {} /\ Begun(op, b, 1) = {}
         /\ Plan(op)[b][d] \notin Begun(op, b, d)
         /\ (Begun(op, b, d) \union {Plan(op)[b][d]}) \intersect Behind(op, b) = {}
         /\ d < Len(Plan(op)[b]) =>
              Begun(op, b, d + 1) = Begun(op, b, d) \union {Plan(op)[b][d]}
         /\ d = Len(Plan(op)[b]) /\ b < Len(Plan(op)) =>
              Behind(op, b + 1) = Behind(op, b) \union (Begun(op, b, d) \union {Plan(op)[b][d]})
         /\ d = Len(Plan(op)[b]) /\ b = Len(Plan(op)) =>
              ClassesOf(op) = Behind(op, b) \union (Begun(op, b, d) \union {Plan(op)[b][d]})
         /\ b = 2 => \A c \in ClassesOf(op) : c \in Behind(op, b) \/ c \in IPv6Classes
         /\ b = 2 => \A c \in Behind(op, b) : c \notin IPv6Classes
<1>0. \A x : Behind(x, 1) = {} /\ \A y : Begun(x, y, 1) = {}
  BY DEF Behind, Begun
<1>1. CASE op = "links"
  <2>1. Plan(op) = <<<<"link">>>>
    BY <1>1 DEF Plan
  <2>2. b = 1 /\ d = 1
    BY <2>1
  <2>3. ClassesOf(op) = {"link"}
    BY <2>1 DEF ClassesOf, Range
  <2> QED BY <1>0, <2>1, <2>2, <2>3
<1>2. CASE op = "routes"
  <2>1. Plan(op) = <<<<"ipv4">>, <<"ipv6">>>>
    BY <1>2 DEF Plan
  <2>2. b \in {1, 2} /\ d = 1
    BY <2>1
  <2>3. ClassesOf(op) = {"ipv4", "ipv6"}
    BY <2>1 DEF ClassesOf, Range
  <2>4. Behind(op, 2) = {"ipv4"}
    BY <2>1 DEF Behind, Range
  <2> QED BY <1>0, <2>1, <2>2, <2>3, <2>4 DEF IPv6Classes
<1>3. CASE op = "sockets"
  <2>1. Plan(op) = <<<<"tcp4", "udp4">>, <<"tcp6", "udp6">>>>
    BY <1>3 DEF Plan
  <2>2. b \in {1, 2} /\ d \in {1, 2}
    BY <2>1
  <2>3. ClassesOf(op) = {"tcp4", "udp4", "tcp6", "udp6"}
    BY <2>1 DEF ClassesOf, Range
  <2>4. Behind(op, 2) = {"tcp4", "udp4"}
    BY <2>1 DEF Behind, Range
  <2>5. Begun(op, 1, 2) = {"tcp4"} /\ Begun(op, 2, 2) = {"tcp6"}
    BY <2>1 DEF Begun
  <2>6. CASE b = 1 /\ d = 1
    BY <1>0, <2>1, <2>3, <2>5, <2>6
  <2>7. CASE b = 1 /\ d = 2
    BY <1>0, <2>1, <2>3, <2>4, <2>5, <2>7
  <2>8. CASE b = 2 /\ d = 1
    BY <1>0, <2>1, <2>3, <2>4, <2>5, <2>8 DEF IPv6Classes
  <2>9. CASE b = 2 /\ d = 2
    BY <1>0, <2>1, <2>3, <2>4, <2>5, <2>9 DEF IPv6Classes
  <2> QED BY <2>2, <2>6, <2>7, <2>8, <2>9
<1> QED BY <1>1, <1>2, <1>3

(* Nothing is gathered at first.                                           *)
LEMMA GathersNone ==
  ASSUME NEW S
  PROVE  Gathers(<<>>, {}, S)
BY DEF Gathers, Once

(* What was gathered remains so as the tables since the call grow.         *)
LEMMA GathersMore ==
  ASSUME NEW list, NEW C, NEW S, NEW R, S \subseteq R, Gathers(list, C, S)
  PROVE  Gathers(list, C, R)
BY DEF Gathers

(* Two lists of different classes gather both.                             *)
LEMMA GathersBoth ==
  ASSUME NEW a \in Seq(Records), NEW b \in Seq(Records), NEW u, Joins(u, a, b),
         NEW C, NEW D, C \intersect D = {}, NEW S,
         Gathers(a, C, S), Gathers(b, D, S)
  PROVE  u \in Seq(Records) /\ Gathers(u, C \union D, S)
<1>2. /\ u \in Seq(Records) /\ Len(a) \in Nat /\ Len(b) \in Nat
      /\ \A j \in DOMAIN a : j \in DOMAIN u /\ u[j] = a[j]
      /\ \A j \in DOMAIN b : Len(a) + j \in DOMAIN u /\ u[Len(a) + j] = b[j]
      /\ \A j \in DOMAIN u :
           j \in DOMAIN a \/ \E i \in DOMAIN b : j = Len(a) + i /\ u[j] = b[i]
  BY ConcatFacts
<1>3. /\ Once(a) /\ \A i \in DOMAIN a : a[i].class \in C
      /\ \A c \in C : \E t \in S : Content(Range(a), c) = Content(t, c)
      /\ Once(b) /\ \A i \in DOMAIN b : b[i].class \in D
      /\ \A c \in D : \E t \in S : Content(Range(b), c) = Content(t, c)
  BY DEF Gathers
<1>4. Once(u)
  <2> SUFFICES ASSUME NEW i \in DOMAIN u, NEW j \in DOMAIN u, u[i] = u[j] PROVE i = j
    BY DEF Once
  <2>1. CASE i \in DOMAIN a /\ j \in DOMAIN a
    BY <1>2, <1>3, <2>1 DEF Once
  <2>2. CASE i \notin DOMAIN a /\ j \notin DOMAIN a
    <3>1. PICK k \in DOMAIN b : i = Len(a) + k /\ u[i] = b[k]
      BY <1>2, <2>2
    <3>2. PICK l \in DOMAIN b : j = Len(a) + l /\ u[j] = b[l]
      BY <1>2, <2>2
    <3>3. k = l
      BY <1>3, <3>1, <3>2 DEF Once
    <3> QED BY <3>1, <3>2, <3>3
  <2>3. ASSUME NEW k \in DOMAIN u, NEW l \in DOMAIN u, k \in DOMAIN a, l \notin DOMAIN a
        PROVE  u[k] # u[l]
    <3>1. u[k].class \in C
      BY <1>2, <1>3, <2>3
    <3>2. u[l].class \in D
      BY <1>2, <1>3, <2>3
    <3> QED BY <3>1, <3>2
  <2> QED BY <2>1, <2>2, <2>3
<1>5. \A i \in DOMAIN u : u[i].class \in C \union D
  BY <1>2, <1>3
<1>6. Range(u) = Range(a) \union Range(b)
  <2>1. \A r \in Range(u) : r \in Range(a) \/ r \in Range(b)
    BY <1>2 DEF Range
  <2>2. \A r \in Range(a) : r \in Range(u)
    BY <1>2 DEF Range
  <2>3. \A r \in Range(b) : r \in Range(u)
    <3> SUFFICES ASSUME NEW j \in DOMAIN b PROVE \E k \in DOMAIN u : u[k] = b[j]
      BY DEF Range
    <3> QED BY <1>2
  <2> QED BY <2>1, <2>2, <2>3
<1>7. /\ \A c \in C : Content(Range(u), c) = Content(Range(a), c)
      /\ \A c \in D : Content(Range(u), c) = Content(Range(b), c)
  <2>1. (\A r \in Range(a) : r.class \in C) /\ (\A r \in Range(b) : r.class \in D)
    BY <1>3 DEF Range
  <2> QED BY <1>6, <2>1 DEF Content
<1>8. \A c \in C \union D : \E t \in S : Content(Range(u), c) = Content(t, c)
  BY <1>3, <1>7
<1> QED BY <1>2, <1>4, <1>5, <1>8 DEF Gathers

(* Sorting keeps what was gathered, in the order of the ids.               *)
LEMMA GathersSorted ==
  ASSUME NEW list \in Seq(Records), NEW C, NEW S, Gathers(list, C, S)
  PROVE  /\ Gathers(Sorted(list), C, S)
         /\ \A i, j \in DOMAIN Sorted(list) :
              i < j => Sorted(list)[i].id < Sorted(list)[j].id
<1>s. PICK s : s = Sorted(list)
  OBVIOUS
<1>1. /\ s \in Seq(Records) /\ Len(s) = Len(list)
      /\ \A k \in DOMAIN list : \E i \in DOMAIN list : Place(list, i) = k /\ s[k] = list[i]
      /\ \A i \in DOMAIN list : Place(list, i) \in DOMAIN list /\ s[Place(list, i)] = list[i]
      /\ \A i, j \in DOMAIN list :
           list[i].id < list[j].id => Place(list, i) < Place(list, j)
  BY <1>s, SortedFacts
<1>2. DOMAIN s = DOMAIN list /\ DOMAIN list \subseteq Nat
  <2>1. DOMAIN s = 1 .. Len(s) /\ DOMAIN list = 1 .. Len(list)
    BY <1>1
  <2> QED BY <1>1, <2>1
<1>3. /\ Once(list) /\ \A i \in DOMAIN list : list[i].class \in C
      /\ \A c \in C : \E t \in S : Content(Range(list), c) = Content(t, c)
  BY DEF Gathers
<1>4. ASSUME NEW i \in DOMAIN s, NEW j \in DOMAIN s, i < j
      PROVE  s[i].id < s[j].id
  <2>1. PICK k \in DOMAIN list : Place(list, k) = i /\ s[i] = list[k]
    BY <1>1, <1>2
  <2>2. PICK l \in DOMAIN list : Place(list, l) = j /\ s[j] = list[l]
    BY <1>1, <1>2
  <2>3. list[k] \in Records /\ list[l] \in Records
    OBVIOUS
  <2>4. list[k].id \in Nat /\ list[l].id \in Nat /\ (list[k].id = list[l].id => list[k] = list[l])
    BY <2>3, DumpAssumption
  <2>5. list[k] # list[l]
    BY <1>2, <1>3, <1>4, <2>1, <2>2 DEF Once
  <2>6. ~(list[l].id < list[k].id)
    BY <1>1, <1>2, <1>4, <2>1, <2>2
  <2> QED BY <2>1, <2>2, <2>4, <2>5, <2>6
<1>5. Once(s)
  <2> SUFFICES ASSUME NEW i \in DOMAIN s, NEW j \in DOMAIN s, s[i] = s[j] PROVE i = j
    BY DEF Once
  <2>1. i \in Nat /\ j \in Nat
    BY <1>2
  <2>2. s[i].id \in Nat
    BY <1>1, DumpAssumption
  <2>3. ~(i < j)
    BY <1>4, <2>2
  <2>4. ~(j < i)
    BY <1>4, <2>2
  <2> QED BY <2>1, <2>3, <2>4
<1>6. \A i \in DOMAIN s : s[i].class \in C
  BY <1>1, <1>2, <1>3
<1>7. Range(s) = Range(list)
  <2>1. \A r \in Range(s) : r \in Range(list)
    BY <1>1, <1>2 DEF Range
  <2>2. \A r \in Range(list) : r \in Range(s)
    BY <1>1, <1>2 DEF Range
  <2> QED BY <2>1, <2>2
<1>8. Gathers(s, C, S)
  BY <1>3, <1>5, <1>6, <1>7 DEF Gathers
<1> QED BY <1>s, <1>4, <1>8

(* A whole listing of one table gathers the class of the dump: an answer   *)
(* with all families is cut down to it.                                    *)
LEMMA GathersDump ==
  ASSUME TypeOK, TableOK, NEW t \in snapshots,
         NEW list, list = Numbered(Covered(t, Dumping))
  PROVE  list \in Seq(Records) /\ Gathers(Retained(list), {Dumping}, snapshots)
<1>c. PICK c : c = Dumping
  OBVIOUS
<1>S. PICK S : S = Covered(t, c)
  OBVIOUS
<1>1. /\ c = "ipv6" => operation = "routes"
      /\ operation = "routes" => c \in RouteClasses
  <2>1. operation \in {"links", "routes", "sockets"}
    BY StepFacts
  <2>2. step[1] \in DOMAIN Plan(operation) /\ step[2] \in DOMAIN Plan(operation)[step[1]]
    BY DEF TypeOK
  <2>3. IF operation = "routes" THEN c \in RouteClasses ELSE c \notin RouteClasses
    BY <1>c, <2>1, <2>2, PlanFacts DEF Dumping
  <2> QED BY <2>3 DEF RouteClasses
<1>2. t \subseteq Records /\ S \subseteq t /\ Content(t, c) \subseteq S
  BY <1>1, <1>S DEF TableOK, Covered, Content
<1>3. operation # "routes" => S = Content(t, c)
  BY <1>1, <1>S DEF Covered, Content
<1>4. /\ list \in Seq(Records) /\ \A k \in DOMAIN list : list[k] \in S
      /\ \A r \in S : \E k \in DOMAIN list : list[k] = r
      /\ \A k, l \in DOMAIN list : k < l => list[k].id < list[l].id
  <2>1. S \in SUBSET Records /\ list = Numbered(S)
    BY <1>2, <1>c, <1>S
  <2> QED BY <2>1, NumberedFacts
<1>5. Once(list)
  <2> SUFFICES ASSUME NEW i \in DOMAIN list, NEW j \in DOMAIN list, list[i] = list[j]
               PROVE  i = j
    BY DEF Once
  <2>1. list[i].id \in Nat
    BY <1>4, DumpAssumption
  <2>2. i \in Nat /\ j \in Nat
    BY <1>4
  <2>3. ~(i < j)
    BY <1>4, <2>1
  <2>4. ~(j < i)
    BY <1>4, <2>1
  <2> QED BY <2>2, <2>3, <2>4
<1>6. ASSUME NEW p, Once(p), \A i \in DOMAIN p : p[i].class = c /\ p[i] \in S,
             \A r \in Content(t, c) : \E i \in DOMAIN p : p[i] = r
      PROVE  Gathers(p, {c}, snapshots)
  <2>1. \A r \in Range(p) : r \in S /\ r.class = c
    BY <1>6 DEF Range
  <2>2. \A r \in Content(t, c) : r \in Range(p)
    BY <1>6 DEF Range
  <2>3. Content(Range(p), c) = Content(t, c)
    BY <1>2, <2>1, <2>2 DEF Content
  <2> QED BY <1>6, <2>3 DEF Gathers
<1>7. CASE operation = "routes"
  <2>a. PICK at : at = {i \in DOMAIN list : list[i].class = c}
    OBVIOUS
  <2>p. PICK p : p = Pick(list, at)
    OBVIOUS
  <2>1. at \in SUBSET DOMAIN list /\ \A i \in at : list[i].class = c
    BY <2>a
  <2>2. /\ \A k \in DOMAIN p : \E i \in at : p[k] = list[i]
        /\ \A i \in at : \E k \in DOMAIN p : p[k] = list[i]
    BY <1>4, <2>1, <2>p, PickElements
  <2>3. PICK f \in [DOMAIN p -> at] : /\ \A k \in DOMAIN p : p[k] = list[f[k]]
                                      /\ \A k, l \in DOMAIN p : f[k] = f[l] => k = l
    BY <1>4, <2>1, <2>p, PickPositions
  <2>4. Once(p)
    BY <1>5, <2>1, <2>3 DEF Once
  <2>5. \A i \in DOMAIN p : p[i].class = c /\ p[i] \in S
    <3>1. \A k \in DOMAIN list : list[k] \in S
      BY <1>4
    <3> QED BY <2>1, <2>2, <3>1
  <2>6. \A r \in Content(t, c) : \E i \in DOMAIN p : p[i] = r
    <3> SUFFICES ASSUME NEW r \in Content(t, c) PROVE \E i \in DOMAIN p : p[i] = r
      OBVIOUS
    <3>1. PICK k \in DOMAIN list : list[k] = r
      BY <1>2, <1>4
    <3>2. k \in at
      BY <2>a, <3>1 DEF Content
    <3> QED BY <2>2, <3>1, <3>2
  <2>7. Retained(list) = p
    BY <1>7, <1>c, <2>a, <2>p DEF Retained
  <2> QED BY <1>4, <1>6, <1>c, <2>4, <2>5, <2>6, <2>7
<1>8. CASE operation # "routes"
  <2>1. Retained(list) = list
    BY <1>8 DEF Retained
  <2>2. \A i \in DOMAIN list : list[i].class = c /\ list[i] \in S
    BY <1>3, <1>4, <1>8 DEF Content
  <2>3. \A r \in Content(t, c) : \E i \in DOMAIN list : list[i] = r
    BY <1>3, <1>4, <1>8
  <2> QED BY <1>4, <1>5, <1>6, <1>c, <2>1, <2>2, <2>3
<1> QED BY <1>7, <1>8
-----------------------------------------------------------------------------
(* An empty socket before the first record.                                *)
LEMMA AlignedNone ==
  ASSUME NEW list \in Seq(Records)
  PROVE  Aligned(<<>>, <<>>, list, 0)
<1>o. PICK off : off = [k \in 1 .. 1 |-> 0]
  OBVIOUS
<1>1. off \in [1 .. 1 -> Nat] /\ off[1] = 0
  BY <1>o
<1>2. Len(<<>>) = 0 /\ DOMAIN <<>> = {} /\ 0 + 1 = 1 /\ 0 <= Len(list)
  OBVIOUS
<1>3. \E f \in [1 .. Len(<<>>) + 1 -> Nat] : /\ f[1] = Len(<<>>) /\ f[Len(<<>>) + 1] = 0
  BY <1>1, <1>2
<1> QED BY <1>2, <1>3 DEF Aligned

(* A datagram that goes on where the queue ends keeps it aligned.          *)
LEMMA AlignedAppend ==
  ASSUME NEW T, NEW q \in Seq(T), NEW nd \in T, NEW vs, NEW list, NEW e, NEW f \in Nat,
         Aligned(q, vs, list, e), Advances(nd, e, f, list), NEW t, t = Append(q, nd)
  PROVE  Aligned(t, vs, list, f)
<1>1. PICK off \in [1 .. Len(q) + 1 -> Nat] :
        /\ off[1] = Len(vs) /\ off[Len(q) + 1] = e
        /\ \A k \in DOMAIN q : Advances(q[k], off[k], off[k + 1], list)
  BY DEF Aligned
<1>m. PICK m : m = Len(q) + 1
  OBVIOUS
<1>2. /\ Len(t) = m /\ m \in DOMAIN t /\ t[m] = nd /\ m \in Nat /\ m >= 1
      /\ \A k \in DOMAIN t : k = m \/ (k \in DOMAIN q /\ t[k] = q[k])
      /\ \A k \in DOMAIN q : k \in 1 .. m /\ k + 1 \in 1 .. m
  <2>1. /\ Len(t) = Len(q) + 1 /\ Len(q) + 1 \in DOMAIN t /\ t[Len(q) + 1] = nd
        /\ \A k \in DOMAIN q : t[k] = q[k]
        /\ \A k \in DOMAIN t : k = Len(q) + 1 \/ k \in DOMAIN q
    BY AppendFacts
  <2>2. \A k \in DOMAIN q : k \in 1 .. m /\ k + 1 \in 1 .. m
    BY <1>m
  <2>3. m \in Nat /\ m >= 1
    BY <1>m
  <2> QED BY <1>m, <2>1, <2>2, <2>3
<1>g. PICK g : g = [k \in 1 .. m + 1 |-> IF k = m + 1 THEN f ELSE off[k]]
  OBVIOUS
<1>3. off \in [1 .. m -> Nat] /\ off[1] = Len(vs) /\ off[m] = e
  BY <1>1, <1>m
<1>4. /\ g \in [1 .. m + 1 -> Nat] /\ g[m + 1] = f
      /\ \A k \in 1 .. m : g[k] = off[k]
  <2>1. \A k \in 1 .. m : k # m + 1 /\ k \in 1 .. m + 1
    BY <1>2
  <2>2. m + 1 \in 1 .. m + 1
    BY <1>2
  <2> QED BY <1>2, <1>3, <1>g, <2>1, <2>2
<1>5. \A k \in DOMAIN t : Advances(t[k], g[k], g[k + 1], list)
  <2> SUFFICES ASSUME NEW k \in DOMAIN t
               PROVE  Advances(t[k], g[k], g[k + 1], list)
    OBVIOUS
  <2>1. CASE k = m
    <3>1. g[k] = e /\ g[k + 1] = f /\ t[k] = nd
      BY <1>2, <1>3, <1>4, <2>1
    <3> QED BY <3>1
  <2>2. CASE k \in DOMAIN q /\ t[k] = q[k]
    <3>1. g[k] = off[k] /\ g[k + 1] = off[k + 1]
      BY <1>2, <1>4, <2>2
    <3> QED BY <1>1, <2>2, <3>1
  <2> QED BY <1>2, <2>1, <2>2
<1>6. g[1] = Len(vs)
  BY <1>2, <1>3, <1>4
<1>7. Len(vs) <= Len(list) /\ \A i \in DOMAIN vs : vs[i] = list[i]
  BY DEF Aligned
<1>8. \E o \in [1 .. Len(t) + 1 -> Nat] :
        /\ o[1] = Len(vs) /\ o[Len(t) + 1] = f
        /\ \A k \in DOMAIN t : Advances(t[k], o[k], o[k + 1], list)
  BY <1>2, <1>4, <1>5, <1>6
<1> QED BY <1>7, <1>8 DEF Aligned

(* The records c of datagram d.                                            *)
Takes(c, d) ==
  /\ c \in Seq(Records) /\ Len(c) = Count(d)
  /\ \A j \in 1 .. Count(d) : c[j] = d[j].record

(* The records of the first datagram move to those that were parsed.       *)
LEMMA AlignedTail ==
  ASSUME NEW T, NEW q \in Seq(T), q # <<>>, NEW vs \in Seq(Records), NEW list, NEW e,
         Aligned(q, vs, list, e), NEW t, t = Tail(q),
         NEW c, Takes(c, q[1]), NEW vs2, Joins(vs2, vs, c)
  PROVE  Aligned(t, vs2, list, e)
<1>1. PICK off \in [1 .. Len(q) + 1 -> Nat] :
        /\ off[1] = Len(vs) /\ off[Len(q) + 1] = e
        /\ \A k \in DOMAIN q : Advances(q[k], off[k], off[k + 1], list)
  BY DEF Aligned
<1>2. /\ t \in Seq(T) /\ Len(q) \in Nat /\ Len(q) >= 1 /\ Len(t) = Len(q) - 1
      /\ \A k \in DOMAIN t : k + 1 \in DOMAIN q /\ t[k] = q[k + 1]
  BY TailFacts
<1>3. /\ vs2 \in Seq(Records) /\ Len(vs) \in Nat /\ Len(c) \in Nat
      /\ Len(vs2) = Len(vs) + Len(c)
      /\ \A j \in DOMAIN vs : vs2[j] = vs[j]
      /\ \A j \in DOMAIN vs2 :
           j \in DOMAIN vs \/ \E i \in DOMAIN c : j = Len(vs) + i /\ vs2[j] = c[i]
  <2>1. c \in Seq(Records)
    BY DEF Takes
  <2> QED BY <2>1, ConcatFacts
<1>4. Advances(q[1], Len(vs), off[2], list)
  <2>1. 1 \in DOMAIN q /\ 1 + 1 = 2
    BY <1>2
  <2> QED BY <1>1, <2>1
<1>5. /\ off[2] = Len(vs2) /\ Len(vs2) <= Len(list)
      /\ \A i \in DOMAIN c : c[i] = list[Len(vs) + i]
  <2>1. /\ off[2] = Len(vs) + Count(q[1]) /\ off[2] <= Len(list)
        /\ \A j \in 1 .. Count(q[1]) : q[1][j].record = list[Len(vs) + j]
    BY <1>4 DEF Advances
  <2>2. /\ DOMAIN c = 1 .. Count(q[1]) /\ Len(c) = Count(q[1])
        /\ \A j \in 1 .. Count(q[1]) : c[j] = q[1][j].record
    BY DEF Takes
  <2> QED BY <1>3, <2>1, <2>2
<1>6. \A j \in DOMAIN vs2 : vs2[j] = list[j]
  <2>1. \A j \in DOMAIN vs : vs[j] = list[j]
    BY DEF Aligned
  <2> QED BY <1>3, <1>5, <2>1
<1>m. PICK m : m = Len(q)
  OBVIOUS
<1>g. PICK g : g = [k \in 1 .. m |-> off[k + 1]]
  OBVIOUS
<1>7. /\ m \in Nat /\ m >= 1 /\ Len(t) = m - 1 /\ off \in [1 .. m + 1 -> Nat]
      /\ off[m + 1] = e
  BY <1>1, <1>2, <1>m
<1>8. g \in [1 .. m -> Nat] /\ \A k \in 1 .. m : g[k] = off[k + 1]
  BY <1>7, <1>g
<1>9. g[1] = Len(vs2) /\ g[m] = e
  <2>1. 1 \in 1 .. m /\ m \in 1 .. m /\ 1 + 1 = 2
    BY <1>7
  <2>2. g[1] = off[1 + 1] /\ g[m] = off[m + 1]
    BY <1>8, <2>1
  <2> QED BY <1>5, <1>7, <2>1, <2>2
<1>10. \A k \in DOMAIN t : Advances(t[k], g[k], g[k + 1], list)
  <2> SUFFICES ASSUME NEW k \in DOMAIN t
               PROVE  Advances(t[k], g[k], g[k + 1], list)
    OBVIOUS
  <2>0. DOMAIN t = 1 .. Len(t)
    BY <1>2
  <2>1. k \in 1 .. m /\ k + 1 \in 1 .. m
    BY <1>7, <2>0
  <2>2. g[k] = off[k + 1] /\ g[k + 1] = off[(k + 1) + 1]
    BY <1>8, <2>1
  <2>3. Advances(q[k + 1], off[k + 1], off[(k + 1) + 1], list)
    BY <1>1, <1>2
  <2> QED BY <1>2, <2>2, <2>3
<1>11. Len(t) + 1 = m
  BY <1>7
<1>12. \E o \in [1 .. Len(t) + 1 -> Nat] :
        /\ o[1] = Len(vs2) /\ o[Len(t) + 1] = e
        /\ \A k \in DOMAIN t : Advances(t[k], o[k], o[k + 1], list)
  BY <1>8, <1>9, <1>10, <1>11
<1> QED BY <1>5, <1>6, <1>12 DEF Aligned

(* With an empty queue the whole list was parsed.                          *)
LEMMA AlignedWhole ==
  ASSUME NEW vs \in Seq(Records), NEW list \in Seq(Records),
         Aligned(<<>>, vs, list, Len(list))
  PROVE  vs = list
<1>1. Len(<<>>) = 0 /\ 0 + 1 = 1
  OBVIOUS
<1>2. Len(vs) = Len(list) /\ \A i \in DOMAIN vs : vs[i] = list[i]
  BY <1>1 DEF Aligned
<1> QED BY <1>2
-----------------------------------------------------------------------------
(* A call that did not return has no result to be wrong.                   *)
LEMMA PendingExact ==
  ASSUME IInv, client # "returned"
  PROVE  UndisturbedIsExact
BY DEF IInv, PhaseOK, UndisturbedIsExact

(* Init satisfies the strengthened invariant.                              *)
LEMMA InitExact == Init => EInv
<1> SUFFICES ASSUME Init PROVE EInv
  OBVIOUS
<1>1. IInv
  BY InitOK
<1>2. StreamOK
  BY DEF Init, StreamOK
<1>3. TableOK
  BY DEF Init, TableOK
<1>4. UndisturbedIsExact
  BY <1>1, PendingExact DEF Init
<1>5. AccumulatedOK
  <2>1. step[1] = 1 /\ step[2] = 1 /\ finished = <<>> /\ block = <<>>
    BY DEF Init
  <2>2. Behind(operation, 1) = {} /\ Begun(operation, 1, 1) = {}
    BY DEF Behind, Begun
  <2> QED BY <2>1, <2>2, GathersNone DEF AccumulatedOK
<1> QED BY <1>1, <1>2, <1>3, <1>4, <1>5 DEF EInv

(* The dump that is going on stays the same one.                           *)
LEMMA SameDump ==
  ASSUME UNCHANGED <<operation, families, step>>
  PROVE  /\ Dumping' = Dumping
         /\ table' = table => Listing(Dumping)' = Listing(Dumping)
         /\ snapshots \subseteq snapshots' => Listings \subseteq Listings'
<1>1. Dumping' = Dumping
  BY DEF Dumping
<1>2. snapshots \subseteq snapshots' => Listings \subseteq Listings'
  <2>1. Listings' = {Numbered(Covered(t, Dumping)) : t \in snapshots'}
    BY <1>1 DEF Listings, Covered
  <2> QED BY <2>1 DEF Listings
<1>3. table' = table => Listing(Dumping)' = Listing(Dumping)
  <2>1. \A c : Covered(table, c)' = Covered(table', c)
    BY DEF Covered
  <2> QED BY <1>1, <2>1 DEF Listing
<1> QED BY <1>1, <1>2, <1>3

(* What the earlier dumps gathered, while this one goes on.                *)
LEMMA SameGathered ==
  ASSUME AccumulatedOK, UNCHANGED <<operation, step, block, finished>>,
         snapshots \subseteq snapshots', Steady' => Steady, client # "returned"
  PROVE  AccumulatedOK'
<1> SUFFICES ASSUME Steady'
             PROVE  /\ Gathers(finished, Behind(operation, step[1]), snapshots')
                    /\ Gathers(block, Begun(operation, step[1], step[2]), snapshots')
  BY DEF AccumulatedOK, Behind, Begun
<1>1. /\ Gathers(finished, Behind(operation, step[1]), snapshots)
      /\ Gathers(block, Begun(operation, step[1], step[2]), snapshots)
  BY DEF AccumulatedOK
<1> QED BY <1>1, GathersMore

(* The tables since the call, while the table stays.                       *)
LEMMA SameTable ==
  ASSUME TableOK, UNCHANGED <<families, table, snapshots>>
  PROVE  TableOK'
BY DEF TableOK

(* A change that does not disturb the listing comes before its first pass  *)
(* or after its last.                                                      *)
LEMMA ChangeExact ==
  ASSUME EInv, Change
  PROVE  EInv'
<1>0. IInv /\ StreamOK /\ TableOK /\ AccumulatedOK
  BY DEF EInv
<1>1. /\ IInv' /\ kernel'.state = kernel.state /\ kernel'.position = kernel.position
      /\ table' \subseteq Records
  BY <1>0, ChangeOK
<1>2. /\ UNCHANGED <<operation, families, queue, client, step, values, block,
                     finished, result, faults>>
      /\ client # "returned" /\ snapshots' = snapshots \union {table'}
  BY Zenon DEF Change
<1>3. Steady' => Steady /\ ~(kernel.state = "dumping" /\ kernel.position > 0)
  BY Zenon DEF Change, Steady
<1>4. kernel.position \in Nat
  <2>1. kernel \in [state : {"idle", "dumping"}, position : Nat, changed : BOOLEAN]
    BY <1>0, Zenon DEF IInv, TypeOK
  <2> QED BY <2>1
<1>5. StreamOK'
  <2> SUFFICES ASSUME Steady', client = "receive"
               PROVE  /\ kernel'.state = "dumping" =>
                           /\ kernel'.position <= Len(Listing(Dumping)')
                           /\ Aligned(queue, values, Listing(Dumping)', kernel'.position)
                           /\ kernel'.position = 0 => queue = <<>> /\ values = <<>>
                      /\ \A k \in DOMAIN queue : queue[k][Len(queue[k])].kind = "done" =>
                           \E whole \in Listings' : Aligned(queue, values, whole, Len(whole))
    BY <1>2 DEF StreamOK
  <2>1. ASSUME kernel'.state = "dumping"
        PROVE  /\ kernel'.position <= Len(Listing(Dumping)')
               /\ Aligned(queue, values, Listing(Dumping)', kernel'.position)
               /\ kernel'.position = 0 => queue = <<>> /\ values = <<>>
    <3>1. kernel.position = 0 /\ queue = <<>> /\ values = <<>>
      BY <1>0, <1>1, <1>3, <1>4, <2>1 DEF StreamOK
    <3>S. PICK S : S = Covered(table, Dumping)'
      OBVIOUS
    <3>2. S \in SUBSET Records
      BY <1>1, <3>S DEF Covered
    <3>3. Listing(Dumping)' = Numbered(S)
      BY <3>S DEF Listing
    <3>4. Numbered(S) \in Seq(Records)
      BY <3>2, NumberedFacts
    <3>5. Aligned(<<>>, <<>>, Numbered(S), 0) /\ 0 <= Len(Numbered(S))
      BY <3>4, AlignedNone
    <3> QED BY <1>1, <3>1, <3>3, <3>5
  <2>2. ASSUME NEW k \in DOMAIN queue, queue[k][Len(queue[k])].kind = "done"
        PROVE  \E whole \in Listings' : Aligned(queue, values, whole, Len(whole))
    <3>1. PICK whole \in Listings : Aligned(queue, values, whole, Len(whole))
      BY <1>0, <1>3, <2>2 DEF StreamOK
    <3>2. Listings \subseteq Listings'
      BY <1>2, SameDump
    <3> QED BY <3>1, <3>2
  <2> QED BY <2>1, <2>2
<1>6. TableOK'
  <2>1. table' \in snapshots' /\ snapshots' \subseteq SUBSET Records
    BY <1>0, <1>1, <1>2 DEF TableOK
  <2>2. ASSUME families = "unavailable"
        PROVE  \A t \in snapshots' : \A r \in t : r.class \notin IPv6Classes
    <3>1. \A t \in snapshots : \A r \in t : r.class \notin IPv6Classes
      BY <1>0, <2>2 DEF TableOK
    <3>2. PICK r \in Records : /\ r.class \notin IPv6Classes
                               /\ table' = IF r \in table THEN table \ {r} ELSE table \union {r}
      BY <2>2 DEF Change
    <3>3. \A q \in table' : q.class \notin IPv6Classes
      BY <1>0, <3>1, <3>2 DEF TableOK
    <3> QED BY <1>2, <3>1, <3>3
  <2> QED BY <1>2, <2>1, <2>2 DEF TableOK
<1>7. AccumulatedOK'
  <2>1. snapshots \subseteq snapshots'
    BY <1>2
  <2> QED BY <1>0, <1>2, <1>3, <2>1, SameGathered
<1>8. UndisturbedIsExact'
  BY <1>1, <1>2 DEF IInv, PhaseOK, UndisturbedIsExact
<1> QED BY <1>1, <1>5, <1>6, <1>7, <1>8 DEF EInv

(* A pass goes on where the last one stopped, and the last one completes   *)
(* the listing of the table.                                               *)
LEMMA PassExact ==
  ASSUME EInv, KernelPass
  PROVE  EInv'
<1>0. IInv /\ StreamOK /\ TableOK /\ AccumulatedOK /\ TypeOK
  BY DEF EInv, IInv
<1>1. IInv'
  BY <1>0, PassOK
<1>2. /\ UNCHANGED <<operation, families, table, client, step, values, block,
                     finished, result, snapshots, disturbed, faults>>
      /\ kernel.state = "dumping"
  BY Zenon DEF KernelPass
<1>3. client = "receive" /\ \A k \in DOMAIN queue : ~Finishes(queue[k])
  BY <1>0, <1>2 DEF IInv, PhaseOK, QueueOK
<1>4. kernel \in KernelType /\ kernel.position \in Nat
  <2>1. kernel \in KernelType
    BY <1>0, Zenon DEF TypeOK, KernelType
  <2> QED BY <2>1 DEF KernelType
<1>5. Steady' <=> Steady
  BY <1>2 DEF Steady
<1>6. StreamOK'
  <2>l. PICK list : list = Listing(Dumping)
    OBVIOUS
  <2>1. list \in Seq(Records)
    BY <1>0, <2>l, ListingFacts
  <2>2. Listing(Dumping)' = list /\ Listings \subseteq Listings' /\ list \in Listings
    <3>1. list \in Listings
      BY <1>0, <2>l DEF Listings, Listing, TableOK
    <3> QED BY <1>2, <2>l, <3>1, SameDump
  <2> SUFFICES ASSUME Steady
               PROVE  /\ kernel'.state = "dumping" =>
                           /\ kernel'.position <= Len(list)
                           /\ Aligned(queue', values, list, kernel'.position)
                           /\ kernel'.position = 0 => queue' = <<>> /\ values = <<>>
                      /\ \A k \in DOMAIN queue' : queue'[k][Len(queue'[k])].kind = "done" =>
                           \E whole \in Listings' : Aligned(queue', values, whole, Len(whole))
    BY <1>2, <1>5, <2>2 DEF StreamOK
  <2>p. PICK p : p = kernel.position
    OBVIOUS
  <2>3. p \in Nat /\ p <= Len(list) /\ Aligned(queue, values, list, p)
    BY <1>0, <1>2, <1>3, <1>4, <2>l, <2>p DEF StreamOK
  <2>4. PICK nd \in Seq(Message), n \in Nat : Passes(nd, n, list)
    BY <1>0, <2>l, PassFacts
  <2>5. /\ queue' = Append(queue, nd)
        /\ \A j \in 1 .. n : nd[j].kind = "record" /\ nd[j].record = list[p + j]
        /\ \/ /\ n >= 1 /\ Len(nd) = n /\ p + n <= Len(list)
              /\ kernel' = Moved(kernel, p + n)
           \/ /\ Len(nd) = n + 1 /\ kernel' = IdleKernel
              /\ nd[n + 1].kind = "done"
              /\ p <= Len(list) => p + n = Len(list)
    BY <2>4, <2>p, Zenon DEF Passes
  <2>Q. PICK Q : Q = Append(queue, nd)
    OBVIOUS
  <2>6. Advances(nd, p, p + n, list) /\ p + n \in Nat
    <3>1. CASE n >= 1 /\ Len(nd) = n /\ p + n <= Len(list)
      <4>1. Count(nd) = n
        BY <2>5, <3>1 DEF Count, Finishes, Ends
      <4> QED BY <2>3, <2>5, <3>1, <4>1 DEF Advances
    <3>2. CASE Len(nd) = n + 1 /\ nd[n + 1].kind = "done" /\ p + n = Len(list)
      <4>1. Count(nd) = n
        BY <3>2 DEF Count, Finishes, Ends
      <4> QED BY <2>1, <2>3, <2>5, <3>2, <4>1 DEF Advances
    <3> QED BY <2>3, <2>5, <3>1, <3>2
  <2>7. /\ Aligned(Q, values, list, p + n)
        /\ \A k \in DOMAIN Q : Q[k] = nd \/ \E l \in DOMAIN queue : Q[k] = queue[l]
    <3>T. PICK T : T = Seq(Message)
      OBVIOUS
    <3>1. queue \in Seq(T) /\ nd \in T
      BY <1>0, <3>T DEF TypeOK
    <3>2. Aligned(Q, values, list, p + n)
      BY <2>3, <2>6, <2>Q, <3>1, AlignedAppend
    <3>3. /\ Q[Len(queue) + 1] = nd
          /\ \A k \in DOMAIN queue : Q[k] = queue[k]
          /\ \A k \in DOMAIN Q : k = Len(queue) + 1 \/ k \in DOMAIN queue
      BY <2>Q, <3>1, AppendFacts
    <3> QED BY <3>2, <3>3
  <2>8. CASE n >= 1 /\ Len(nd) = n /\ p + n <= Len(list) /\ kernel' = Moved(kernel, p + n)
    <3>1. kernel'.position = p + n /\ p + n # 0
      <4>1. Moved(kernel, p + n).position = p + n
        BY <1>4, <2>6, KernelFacts, Zenon
      <4> QED BY <2>3, <2>8, <4>1
    <3>2. \A k \in DOMAIN Q : Q[k][Len(Q[k])].kind # "done"
      <4>1. nd[Len(nd)].kind # "done"
        BY <2>5, <2>8
      <4>2. \A l \in DOMAIN queue : queue[l][Len(queue[l])].kind # "done"
        BY <1>3 DEF Finishes, Ends
      <4> QED BY <2>7, <4>1, <4>2
    <3> QED BY <2>5, <2>7, <2>8, <2>Q, <3>1, <3>2
  <2>9. CASE Len(nd) = n + 1 /\ kernel' = IdleKernel /\ p + n = Len(list)
    <3>1. kernel'.state # "dumping"
      BY <2>9, KernelFacts
    <3>2. Aligned(Q, values, list, Len(list)) /\ list \in Listings'
      BY <2>2, <2>7, <2>9
    <3> QED BY <2>5, <2>Q, <3>1, <3>2
  <2> QED BY <2>3, <2>5, <2>8, <2>9
<1>7. TableOK'
  BY <1>0, <1>2, SameTable
<1>8. AccumulatedOK'
  BY <1>0, <1>2, <1>3, <1>5, SameGathered
<1>9. UndisturbedIsExact'
  BY <1>1, <1>2, <1>3 DEF IInv, PhaseOK, UndisturbedIsExact
<1> QED BY <1>1, <1>6, <1>7, <1>8, <1>9 DEF EInv

(* After a failure that the kernel or the socket reports nothing is        *)
(* promised.                                                               *)
LEMMA FaultExact ==
  ASSUME EInv, IInv', "other" \in faults', UNCHANGED <<families, table, snapshots>>
  PROVE  EInv'
<1>1. ~Steady'
  BY DEF Steady
<1>2. TableOK'
  BY SameTable DEF EInv
<1> QED BY <1>1, <1>2 DEF EInv, StreamOK, AccumulatedOK, UndisturbedIsExact

(* A dump starts with an empty socket.                                     *)
LEMMA RequestExact ==
  ASSUME EInv, Request
  PROVE  EInv'
<1>0. IInv /\ StreamOK /\ TableOK /\ AccumulatedOK /\ TypeOK
  BY DEF EInv, IInv
<1>1. IInv'
  BY <1>0, RequestOK
<1>2. /\ UNCHANGED <<operation, families, table, step, values, block, finished,
                     result, snapshots, disturbed>>
      /\ client = "request" /\ client' = "receive"
  BY Zenon DEF Request
<1>3. queue = <<>> /\ values = <<>> /\ kernel.state = "idle"
  BY <1>0, <1>2 DEF IInv, PhaseOK
<1> DEFINE lacking == families = "unavailable" /\ Dumping \in IPv6Classes
           refusal == IF lacking THEN "unavailable" ELSE "other"
<1>4. \/ /\ kernel' = [IdleKernel EXCEPT !.state = "dumping"]
         /\ UNCHANGED <<queue, faults>>
      \/ /\ queue' = <<<<[kind |-> "error", errno |-> refusal]>>>>
         /\ faults' = faults \union {refusal}
         /\ UNCHANGED kernel
  BY Zenon DEF Request
<1> HIDE DEF refusal
<1>5. Steady' => Steady
  BY <1>2, <1>4 DEF Steady
<1>6. StreamOK'
  <2>1. CASE /\ kernel' = [IdleKernel EXCEPT !.state = "dumping"]
             /\ UNCHANGED <<queue, faults>>
    <3>1. kernel'.position = 0 /\ queue' = <<>> /\ values' = <<>>
      BY <1>2, <1>3, <2>1, KernelFacts, Zenon
    <3>l. PICK list : list = Listing(Dumping)
      OBVIOUS
    <3>2. list \in Seq(Records) /\ Listing(Dumping)' = list
      BY <1>0, <1>2, <3>l, ListingFacts, SameDump
    <3>3. Aligned(<<>>, <<>>, list, 0) /\ 0 <= Len(list)
      BY <3>2, AlignedNone
    <3> QED BY <3>1, <3>2, <3>3 DEF StreamOK
  <2>2. CASE /\ queue' = <<<<[kind |-> "error", errno |-> refusal]>>>>
             /\ UNCHANGED kernel
    <3>m. PICK m : m = [kind |-> "error", errno |-> refusal]
      OBVIOUS
    <3>1. m.kind = "error" /\ queue' = <<<<m>>>> /\ kernel'.state = "idle"
      BY <1>3, <2>2, <3>m
    <3>2. \A k \in DOMAIN queue' : queue'[k][Len(queue'[k])].kind # "done"
      BY <3>1
    <3> QED BY <3>1, <3>2 DEF StreamOK
  <2> QED BY <1>4, <2>1, <2>2, Zenon
<1>7. TableOK'
  BY <1>0, <1>2, SameTable
<1>8. AccumulatedOK'
  BY <1>0, <1>2, <1>5, SameGathered
<1>9. UndisturbedIsExact'
  BY <1>1, <1>2 DEF IInv, PhaseOK, UndisturbedIsExact
<1> QED BY <1>1, <1>6, <1>7, <1>8, <1>9 DEF EInv

(* Parsing the first datagram keeps the client on the listing.             *)
LEMMA TakenAligned ==
  ASSUME IInv, queue # <<>>, NEW d, d = Head(queue), NEW list, NEW e,
         Aligned(queue, values, list, e)
  PROVE  Aligned(Tail(queue), values \o RecordsOf(d), list, e)
<1>T. PICK T : T = Seq(Message)
  OBVIOUS
<1>1. queue \in Seq(T) /\ values \in Seq(Records)
  BY <1>T DEF IInv, TypeOK
<1>2. /\ d = queue[1] /\ d \in Seq(Message) /\ Len(d) >= 1
      /\ \A j \in DOMAIN d : j < Len(d) => ~Ends(d[j])
  BY HeadFacts
<1>3. Takes(RecordsOf(d), queue[1])
  <2>1. /\ RecordsOf(d) \in Seq(Records) /\ Len(RecordsOf(d)) = Count(d)
        /\ \A j \in 1 .. Count(d) : RecordsOf(d)[j] = d[j].record
    BY <1>2, RecordsFacts
  <2> QED BY <1>2, <2>1, Zenon DEF Takes
<1>4. Joins(values \o RecordsOf(d), values, RecordsOf(d))
  BY DEF Joins
<1>t. PICK t : t = Tail(queue)
  OBVIOUS
<1> QED BY <1>1, <1>3, <1>4, <1>t, AlignedTail

(* A datagram without an end leaves the dump going on.                     *)
LEMMA TakeExact ==
  ASSUME EInv, IInv', client = "receive", queue # <<>>, NEW d, d = Head(queue), ~Finishes(d),
         values' = values \o RecordsOf(d), queue' = Tail(queue),
         UNCHANGED <<operation, families, table, kernel, client, step, block, finished,
                     result, snapshots, disturbed, faults>>
  PROVE  EInv'
<1>0. IInv /\ StreamOK /\ TableOK /\ AccumulatedOK
  BY DEF EInv
<1>1. Steady' <=> Steady
  BY DEF Steady
<1>2. Listing(Dumping)' = Listing(Dumping) /\ Listings \subseteq Listings'
  BY SameDump
<1>3. /\ queue \in Seq(Seq(Message)) /\ \A k \in DOMAIN queue' :
           k + 1 \in DOMAIN queue /\ queue'[k] = queue[k + 1]
  <2>T. PICK T : T = Seq(Message)
    OBVIOUS
  <2>1. queue \in Seq(T)
    BY <1>0, <2>T DEF IInv, TypeOK
  <2>Q. PICK Q : Q = Tail(queue)
    OBVIOUS
  <2>2. \A k \in DOMAIN Q : k + 1 \in DOMAIN queue /\ Q[k] = queue[k + 1]
    BY <2>1, <2>Q, TailFacts
  <2> QED BY <2>T, <2>Q, <2>1, <2>2
<1>4. StreamOK'
  <2>l. PICK list : list = Listing(Dumping)
    OBVIOUS
  <2> SUFFICES ASSUME Steady
               PROVE  /\ kernel.state = "dumping" =>
                           /\ kernel.position <= Len(list)
                           /\ Aligned(queue', values', list, kernel.position)
                           /\ kernel.position # 0
                      /\ \A k \in DOMAIN queue' : queue'[k][Len(queue'[k])].kind = "done" =>
                           \E whole \in Listings' : Aligned(queue', values', whole, Len(whole))
    BY <1>1, <1>2, <2>l DEF StreamOK
  <2>1. ASSUME kernel.state = "dumping"
        PROVE  /\ kernel.position <= Len(list) /\ kernel.position # 0
               /\ Aligned(queue', values', list, kernel.position)
    <3>1. /\ kernel.position <= Len(list) /\ kernel.position # 0
          /\ Aligned(queue, values, list, kernel.position)
      BY <1>0, <2>1, <2>l DEF StreamOK
    <3>2. Aligned(Tail(queue), values \o RecordsOf(d), list, kernel.position)
      BY <1>0, <3>1, TakenAligned
    <3> QED BY <3>1, <3>2
  <2>2. ASSUME NEW k \in DOMAIN queue', queue'[k][Len(queue'[k])].kind = "done"
        PROVE  \E whole \in Listings' : Aligned(queue', values', whole, Len(whole))
    <3>1. k + 1 \in DOMAIN queue /\ queue[k + 1][Len(queue[k + 1])].kind = "done"
      BY <1>3, <2>2
    <3>2. PICK whole \in Listings : Aligned(queue, values, whole, Len(whole))
      BY <1>0, <3>1 DEF StreamOK
    <3>3. Aligned(Tail(queue), values \o RecordsOf(d), whole, Len(whole))
      BY <1>0, <3>2, TakenAligned
    <3> QED BY <1>2, <3>3
  <2> QED BY <2>1, <2>2
<1>5. TableOK'
  BY <1>0, SameTable
<1>6. AccumulatedOK'
  BY <1>0, <1>1, SameGathered
<1>7. UndisturbedIsExact'
  BY DEF IInv, PhaseOK, UndisturbedIsExact
<1> QED BY <1>4, <1>5, <1>6, <1>7 DEF EInv

(* The end of a dump that nothing disturbed: the whole listing is there.   *)
LEMMA WholeDump ==
  ASSUME EInv, Steady, client = "receive", queue # <<>>, NEW d, d = Head(queue),
         Finishes(d), Outcome(d[Len(d)]) = "none"
  PROVE  Gathers(Retained(values \o RecordsOf(d)), {Dumping}, snapshots)
<1>0. IInv /\ StreamOK /\ TableOK /\ TypeOK
  BY DEF EInv, IInv
<1>1. /\ 1 \in DOMAIN queue /\ d = queue[1] /\ Len(queue) = 1
      /\ values \o RecordsOf(d) \in Seq(Records)
  BY <1>0, HeadFacts
<1>2. d[Len(d)].kind = "done"
  BY <1>0, OutcomeFacts
<1>3. PICK whole \in Listings : Aligned(queue, values, whole, Len(whole))
  BY <1>0, <1>1, <1>2 DEF StreamOK
<1>4. Aligned(Tail(queue), values \o RecordsOf(d), whole, Len(whole))
  BY <1>0, <1>3, TakenAligned
<1>5. Tail(queue) = <<>>
  <2>T. PICK T : T = Seq(Message)
    OBVIOUS
  <2>1. queue \in Seq(T)
    BY <1>0, <2>T DEF TypeOK
  <2>t. PICK t : t = Tail(queue)
    OBVIOUS
  <2>2. t \in Seq(T) /\ Len(t) = Len(queue) - 1
    BY <2>1, <2>t, TailFacts
  <2>3. t = <<>>
    BY <1>1, <2>2
  <2> QED BY <2>t, <2>3
<1>6. PICK t \in snapshots : whole = Numbered(Covered(t, Dumping))
  BY <1>3 DEF Listings
<1>7. whole \in Seq(Records) /\ Gathers(Retained(whole), {Dumping}, snapshots)
  BY <1>0, <1>6, GathersDump
<1>8. values \o RecordsOf(d) = whole
  <2>1. Aligned(<<>>, values \o RecordsOf(d), whole, Len(whole))
    BY <1>4, <1>5
  <2>l. PICK l : l = values \o RecordsOf(d)
    OBVIOUS
  <2>2. l = whole
    BY <1>1, <1>7, <2>1, <2>l, AlignedWhole
  <2> QED BY <2>2, <2>l
<1> QED BY <1>7, <1>8

(* A result that gathered every class is exact.                            *)
LEMMA ReturnedExact ==
  ASSUME NEW list \in Seq(Records), Gathers(list, ClassesOf(operation), snapshots),
         UNCHANGED <<operation, snapshots>>, result' = Returned(Sorted(list))
  PROVE  UndisturbedIsExact'
<1>1. result'.values = Sorted(list)
  BY DEF Returned
<1>2. /\ \A c \in ClassesOf(operation) : \E t \in snapshots :
           Content(Range(Sorted(list)), c) = Content(t, c)
      /\ \A i, j \in DOMAIN Sorted(list) :
           i < j => Sorted(list)[i].id < Sorted(list)[j].id
  <2>1. /\ Gathers(Sorted(list), ClassesOf(operation), snapshots)
        /\ \A i, j \in DOMAIN Sorted(list) :
             i < j => Sorted(list)[i].id < Sorted(list)[j].id
    BY GathersSorted
  <2> QED BY <2>1 DEF Gathers
<1>3. /\ \A c \in ClassesOf(operation) : \E t \in snapshots' :
           Content(Range(result'.values), c) = Content(t, c)
      /\ \A i, j \in DOMAIN result'.values :
           i < j => result'.values[i].id < result'.values[j].id
  BY <1>1, <1>2
<1> QED BY <1>3 DEF UndisturbedIsExact

(* A dump that succeeds adds its class to what was gathered, and the last  *)
(* one completes the answer.                                               *)
LEMMA DumpReturnsExact ==
  ASSUME EInv, IInv', client # "returned", NEW list \in Seq(Records), DumpReturns(list),
         UNCHANGED <<operation, families, table, snapshots, disturbed, faults>>,
         Steady => Gathers(Retained(list), {Dumping}, snapshots)
  PROVE  EInv'
<1>0. IInv /\ StreamOK /\ TableOK /\ AccumulatedOK /\ TypeOK
  BY DEF EInv, IInv
<1>1. Steady' <=> Steady
  BY DEF Steady
<1>2. TableOK'
  BY <1>0, SameTable
<1>3. client' # "receive"
  BY Zenon DEF DumpReturns, Continue, Return
<1>4. StreamOK'
  BY <1>3 DEF StreamOK
<1>5. CASE ~Steady
  BY <1>1, <1>2, <1>4, <1>5 DEF EInv, AccumulatedOK, UndisturbedIsExact, Steady
<1>6. CASE Steady
  <2>p. PICK plan : plan = Plan(operation)
    OBVIOUS
  <2>b. PICK b : b = step[1]
    OBVIOUS
  <2>d. PICK d : d = step[2]
    OBVIOUS
  <2>R. PICK R : R = Retained(list)
    OBVIOUS
  <2>r. PICK records : records = block \o R
    OBVIOUS
  <2>C. PICK C : C = Begun(operation, b, d) \union {Dumping}
    OBVIOUS
  <2>B. PICK B : B = Behind(operation, b)
    OBVIOUS
  <2>1. /\ finished \in Seq(Records) /\ block \in Seq(Records) /\ R \in Seq(Records)
    BY <1>0, <2>R, RetainedFacts DEF TypeOK
  <2>2. /\ Gathers(finished, B, snapshots)
        /\ Gathers(block, Begun(operation, b, d), snapshots)
        /\ Gathers(R, {Dumping}, snapshots)
    BY <1>0, <1>6, <2>b, <2>d, <2>R, <2>B DEF AccumulatedOK
  <2>3. /\ Dumping \notin Begun(operation, b, d) /\ C \intersect B = {}
        /\ d < Len(plan[b]) => Begun(operation, b, d + 1) = C
        /\ d = Len(plan[b]) /\ b < Len(plan) => Behind(operation, b + 1) = B \union C
        /\ d = Len(plan[b]) /\ b = Len(plan) => ClassesOf(operation) = B \union C
        /\ b \in 1 .. Len(plan) /\ Len(plan) \in {1, 2}
    <3>1. operation \in {"links", "routes", "sockets"} /\ b \in 1 .. Len(plan) /\ Len(plan) \in {1, 2}
      BY <1>0, <2>p, <2>b, StepFacts
    <3>2. b \in DOMAIN Plan(operation) /\ d \in DOMAIN Plan(operation)[b]
      BY <1>0, <2>b, <2>d DEF TypeOK
    <3>3. Dumping = plan[b][d]
      BY <2>p, <2>b, <2>d DEF Dumping
    <3>4. C = Begun(operation, b, d) \union {Plan(operation)[b][d]}
      BY <2>p, <2>C, <3>3
    <3> QED BY <2>p, <2>B, <3>1, <3>2, <3>3, <3>4, ClassFacts
  <2>4. records \in Seq(Records) /\ Gathers(records, C, snapshots)
    <3>D. PICK D : D = Begun(operation, b, d)
      OBVIOUS
    <3>E. PICK E : E = {Dumping}
      OBVIOUS
    <3>1. D \intersect E = {} /\ C = D \union E
      BY <2>3, <2>C, <3>D, <3>E
    <3>2. Joins(records, block, R)
      BY <2>r DEF Joins
    <3>3. Gathers(block, D, snapshots) /\ Gathers(R, E, snapshots)
      BY <2>2, <3>D, <3>E
    <3> QED BY <2>1, <3>1, <3>2, <3>3, GathersBoth
  <2>5. CASE /\ d < Len(plan[b]) /\ block' = records
             /\ Continue(<<b, d + 1>>) /\ UNCHANGED finished
    <3>1. client' = "request" /\ step'[1] = b /\ step'[2] = d + 1
      BY <2>5 DEF Continue
    <3>2. AccumulatedOK'
      BY <2>2, <2>3, <2>4, <2>5, <2>B, <3>1 DEF AccumulatedOK
    <3>3. UndisturbedIsExact'
      BY <3>1 DEF IInv, PhaseOK, UndisturbedIsExact
    <3> QED BY <1>2, <1>4, <3>2, <3>3 DEF EInv
  <2>6. CASE /\ d = Len(plan[b]) /\ block' = <<>>
             /\ finished' = finished \o Sorted(records)
             /\ IF LastBlock THEN Return(Returned(Sorted(finished')))
                ELSE Continue(<<b + 1, 1>>)
    <3>1. Sorted(records) \in Seq(Records) /\ Gathers(Sorted(records), C, snapshots)
      BY <2>4, GathersSorted, SortedFacts
    <3>2. finished' \in Seq(Records) /\ Gathers(finished', B \union C, snapshots)
      <4>1. Joins(finished', finished, Sorted(records))
        BY <2>6 DEF Joins
      <4>2. B \intersect C = {}
        BY <2>3
      <4> QED BY <2>1, <2>2, <3>1, <4>1, <4>2, GathersBoth
    <3>3. CASE LastBlock
      <4>1. client' = "returned" /\ result' = Returned(Sorted(finished'))
        BY <2>6, <3>3 DEF Return
      <4>2. ClassesOf(operation) = B \union C
        BY <2>3, <2>6, <2>p, <2>b, <3>3 DEF LastBlock
      <4>3. UndisturbedIsExact'
        BY <3>2, <4>1, <4>2, ReturnedExact
      <4>4. AccumulatedOK'
        BY <4>1 DEF AccumulatedOK
      <4> QED BY <1>2, <1>4, <4>3, <4>4 DEF EInv
    <3>4. CASE ~LastBlock
      <4>1. client' = "request" /\ step'[1] = b + 1 /\ step'[2] = 1
        BY <2>6, <3>4 DEF Continue
      <4>2. Behind(operation, b + 1) = B \union C
        BY <2>3, <2>6, <2>p, <2>b, <3>4 DEF LastBlock
      <4>3. Begun(operation, b + 1, 1) = {}
        BY DEF Begun
      <4>4. AccumulatedOK'
        BY <2>6, <3>2, <4>1, <4>2, <4>3, GathersNone DEF AccumulatedOK
      <4>5. UndisturbedIsExact'
        BY <4>1 DEF IInv, PhaseOK, UndisturbedIsExact
      <4> QED BY <1>2, <1>4, <4>4, <4>5 DEF EInv
    <3> QED BY <3>3, <3>4
  <2>7. \/ /\ d < Len(plan[b]) /\ block' = records
           /\ Continue(<<b, d + 1>>) /\ UNCHANGED finished
        \/ /\ d = Len(plan[b]) /\ block' = <<>>
           /\ finished' = finished \o Sorted(records)
           /\ IF LastBlock THEN Return(Returned(Sorted(finished')))
              ELSE Continue(<<b + 1, 1>>)
    BY <2>p, <2>b, <2>d, <2>R, <2>r, Zenon DEF DumpReturns
  <2> QED BY <2>5, <2>6, <2>7, Zenon
<1> QED BY <1>5, <1>6

(* A kernel without IPv6 has no record of its classes to miss.             *)
LEMMA UnavailableExact ==
  ASSUME EInv, IInv', client # "returned", families = "unavailable",
         DumpFails("unavailable"),
         UNCHANGED <<operation, families, table, snapshots, disturbed, faults>>
  PROVE  EInv'
<1>0. IInv /\ StreamOK /\ TableOK /\ AccumulatedOK /\ TypeOK
  BY DEF EInv, IInv
<1>1. /\ client' = "returned"
      /\ result' = IF step[1] = 2 THEN Returned(Sorted(finished)) ELSE Failed
  BY DEF DumpFails, Return, Tolerated
<1>2. Steady' <=> Steady
  BY DEF Steady
<1>3. StreamOK' /\ AccumulatedOK'
  BY <1>1 DEF StreamOK, AccumulatedOK
<1>4. TableOK'
  BY <1>0, SameTable
<1>5. UndisturbedIsExact'
  <2>1. CASE step[1] = 2 /\ Steady
    <3>1. finished \in Seq(Records) /\ Gathers(finished, Behind(operation, 2), snapshots)
      BY <1>0, <2>1 DEF AccumulatedOK, TypeOK
    <3>2. /\ operation \in {"links", "routes", "sockets"} /\ 2 \in DOMAIN Plan(operation)
          /\ 1 \in DOMAIN Plan(operation)[2]
      <4>1. /\ operation \in {"links", "routes", "sockets"} /\ step[1] \in DOMAIN Plan(operation)
        BY <1>0, StepFacts DEF TypeOK
      <4> QED BY <2>1, <4>1, PlanFacts
    <3>3. /\ \A c \in ClassesOf(operation) : c \in Behind(operation, 2) \/ c \in IPv6Classes
          /\ \A c \in Behind(operation, 2) : c \notin IPv6Classes
      BY <3>2, ClassFacts
    <3>4. ASSUME NEW c \in ClassesOf(operation)
          PROVE  \E t \in snapshots : Content(Range(finished), c) = Content(t, c)
      <4>1. CASE c \in Behind(operation, 2)
        BY <3>1, <4>1 DEF Gathers
      <4>2. CASE c \in IPv6Classes
        <5>1. table \in snapshots /\ \A r \in table : r.class \notin IPv6Classes
          BY <1>0 DEF TableOK
        <5>2. Content(table, c) = {}
          BY <4>2, <5>1 DEF Content
        <5>3. \A r \in Range(finished) : r.class \notin IPv6Classes
          BY <3>1, <3>3 DEF Gathers, Range
        <5>4. Content(Range(finished), c) = {}
          BY <4>2, <5>3 DEF Content
        <5> QED BY <5>1, <5>2, <5>4
      <4> QED BY <3>3, <4>1, <4>2
    <3>5. Gathers(finished, Behind(operation, 2) \union ClassesOf(operation), snapshots)
      BY <3>1, <3>4 DEF Gathers
    <3>s. PICK s : s = Sorted(finished)
      OBVIOUS
    <3>6. /\ Gathers(s, Behind(operation, 2) \union ClassesOf(operation), snapshots)
          /\ \A i, j \in DOMAIN s : i < j => s[i].id < s[j].id
      BY <3>1, <3>5, <3>s, GathersSorted
    <3>7. result'.values = s
      BY <1>1, <2>1, <3>s DEF Returned
    <3>8. \A c \in ClassesOf(operation) : \E t \in snapshots' :
             Content(Range(result'.values), c) = Content(t, c)
      BY <3>6, <3>7 DEF Gathers
    <3> QED BY <3>6, <3>7, <3>8 DEF UndisturbedIsExact
  <2>2. CASE step[1] # 2
    BY <1>1, <2>2 DEF UndisturbedIsExact, Failed
  <2>3. CASE ~Steady
    BY <1>2, <2>3 DEF UndisturbedIsExact, Steady
  <2> QED BY <2>1, <2>2, <2>3
<1> QED BY <1>3, <1>4, <1>5 DEF EInv

(* A datagram is parsed; its end completes the dump or fails it.           *)
LEMMA ReceiveExact ==
  ASSUME EInv, Receive
  PROVE  EInv'
<1>0. IInv /\ IInv'
  BY ReceiveOK DEF EInv
<1>d. PICK d : d = Head(queue)
  OBVIOUS
<1>1. client = "receive" /\ queue # <<>>
  BY Zenon DEF Receive
<1>2. UNCHANGED <<operation, families, table, snapshots, changes, disturbed, faults>>
  BY Zenon DEF Receive
<1>3. CASE Finishes(d)
  <2>e. PICK errno : errno = Outcome(d[Len(d)])
    OBVIOUS
  <2>l. PICK list : list = values \o RecordsOf(d)
    OBVIOUS
  <2>1. EndOf(d) = {Len(d)} /\ list \in Seq(Records) /\ EndOK(d[Len(d)])
    BY <1>0, <1>1, <1>3, <1>d, <2>l, HeadFacts
  <2>2. errno \in Errno /\ (errno = "unavailable" => families = "unavailable")
    BY <1>0, <1>1, <1>3, <1>d, <2>e, OutcomeFacts
  <2>3. IF errno = "none" THEN DumpReturns(list) ELSE DumpFails(errno)
    BY <1>d, <2>e, <2>l, <2>1, Zenon DEF Receive
  <2>4. CASE errno = "none"
    <3>1. Steady => Gathers(Retained(list), {Dumping}, snapshots)
      BY <1>1, <1>3, <1>d, <2>e, <2>l, <2>4, WholeDump
    <3> QED BY <1>0, <1>1, <1>2, <2>1, <2>3, <2>4, <3>1, DumpReturnsExact
  <2>5. CASE errno = "unavailable"
    BY <1>0, <1>1, <1>2, <2>2, <2>3, <2>5, UnavailableExact
  <2>6. CASE errno = "other"
    <3>1. result' = Failed /\ client' = "returned"
      BY <2>3, <2>6 DEF DumpFails, Return, Tolerated
    <3>2. TableOK'
      BY <1>2, SameTable DEF EInv
    <3>3. UndisturbedIsExact'
      BY <3>1 DEF UndisturbedIsExact, Failed
    <3> QED BY <1>0, <3>1, <3>2, <3>3 DEF EInv, StreamOK, AccumulatedOK
  <2> QED BY <2>2, <2>4, <2>5, <2>6 DEF Errno
<1>4. CASE ~Finishes(d)
  <2>1. EndOf(d) = {}
    BY <1>0, <1>1, <1>4, <1>d, HeadFacts
  <2>2. /\ values' = values \o RecordsOf(d) /\ queue' = Tail(queue)
        /\ UNCHANGED <<kernel, client, step, block, finished, result>>
    BY <1>d, <2>1, Zenon DEF Receive
  <2> QED BY <1>0, <1>1, <1>2, <1>4, <1>d, <2>2, TakeExact
<1> QED BY <1>3, <1>4

(* Nothing changes: the strengthened invariant stays.                      *)
LEMMA StutterExact ==
  ASSUME EInv, UNCHANGED vars
  PROVE  EInv'
<1>1. IInv'
  BY StutterOK DEF EInv
<1>2. UNCHANGED <<operation, families, table, kernel, queue, client, step, values, block,
                  finished, result, snapshots, disturbed, faults>>
  BY DEF vars
<1>3. Steady' <=> Steady
  BY <1>2 DEF Steady
<1>4. StreamOK'
  <2>1. Listing(Dumping)' = Listing(Dumping) /\ Listings \subseteq Listings'
    BY <1>2, SameDump
  <2> QED BY <1>2, <1>3, <2>1 DEF EInv, StreamOK
<1>5. TableOK'
  BY <1>2, SameTable DEF EInv
<1>6. AccumulatedOK'
  BY <1>2, <1>3 DEF EInv, AccumulatedOK, Behind, Begun
<1>7. UndisturbedIsExact'
  BY <1>2 DEF EInv, UndisturbedIsExact
<1> QED BY <1>1, <1>4, <1>5, <1>6, <1>7 DEF EInv

(* Every step keeps the strengthened invariant.                            *)
LEMMA InductiveExact ==
  ASSUME EInv, [Next]_vars
  PROVE  EInv'
<1>1. CASE Change
  BY <1>1, ChangeExact
<1>2. CASE KernelPass
  BY <1>2, PassExact
<1>3. CASE KernelFails \/ RequestFails \/ ReceiveFails
  <2>1. IInv'
    BY <1>3, FailsOK, SocketFailsOK DEF EInv
  <2>2. "other" \in faults' /\ UNCHANGED <<families, table, snapshots>>
    BY <1>3 DEF KernelFails, RequestFails, ReceiveFails
  <2> QED BY <2>1, <2>2, FaultExact
<1>4. CASE Request
  BY <1>4, RequestExact
<1>5. CASE Receive
  BY <1>5, ReceiveExact
<1>6. CASE Stopped \/ UNCHANGED vars
  BY <1>6, StutterExact DEF Stopped
<1> QED BY <1>1, <1>2, <1>3, <1>4, <1>5, <1>6, Zenon DEF Next, Kernel, Client

(* A successful call that nothing disturbed has every class of records as  *)
(* it stood at one instant, each record once and in order: the passes of   *)
(* the kernel, the datagrams, the blocks of the plan and an answer with    *)
(* all families add up whatever their sizes.                               *)
THEOREM Exactness == Spec => []UndisturbedIsExact
<1>1. Init => EInv
  BY InitExact
<1>2. EInv /\ [Next]_vars => EInv'
  BY InductiveExact
<1>3. EInv => UndisturbedIsExact
  BY DEF EInv
<1> QED BY <1>1, <1>2, <1>3, PTL DEF Spec
=============================================================================
