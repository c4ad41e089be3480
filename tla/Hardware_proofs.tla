--------------------------- MODULE Hardware_proofs ---------------------------
(***************************************************************************)
(* Proofs about the generic-netlink client under the requests of wifi and  *)
(* ethtool, for every finite set of interfaces and any number of socket    *)
(* faults.                                                                 *)
(***************************************************************************)
EXTENDS Hardware, Selection_proofs, SequenceTheorems

Call == [state : {"idle", "waiting", "ok", "error"}, request : Request,
         dump : BOOLEAN, messages : Seq(Message)]
Dump == [running : BOOLEAN, sequence : Nat, request : Request, items : Seq(Item)]
Enumeration == [sequence : Nat, items : Seq(Item), failed : BOOLEAN]

(* The type invariant, with the fields that TypeOK leaves out.             *)
TransportTypes ==
  /\ sequence \in Nat /\ faults \in 0 .. MaxFaults
  /\ call \in Call /\ dump \in Dump /\ listing \in Enumeration
  /\ queue \in Seq(Seq(Message))

ProgramTypes ==
  /\ agenda \in Seq(Request)
  /\ devices \subseteq Indexes
  /\ found \subseteq [field : Request, from : Request]
  /\ outcome \in {"running", "ok", "error"}

Waiting == call.state = "waiting"

(* An entry of the list of interfaces that can be used has an index.       *)
ItemFits(r, item) == r.command = "interface" /\ item.useful => item.id \in Indexes

(* The messages of one datagram answer one request: some answers, the last *)
(* of which may be followed by NLMSG_DONE, or one error. Only the current  *)
(* request has the current number.                                         *)
DatagramOK(d) ==
  /\ Len(d) >= 1
  /\ \A j \in DOMAIN d : /\ d[j].sequence = d[1].sequence
                         /\ d[j].request = d[1].request
                         /\ ItemFits(d[j].request, d[j].item)
  /\ \A j \in DOMAIN d : j < Len(d) => d[j].kind = "answer"
  /\ d[Len(d)].kind = "error" => Len(d) = 1
  /\ d[1].sequence >= 1 /\ d[1].sequence <= sequence
  /\ d[1].sequence = sequence => d[1].request = call.request

(* The messages of nd answer request r, which has number n.                *)
Answering(nd, n, r) ==
  /\ nd \in Seq(Message) /\ Len(nd) >= 1
  /\ \A j \in DOMAIN nd : /\ nd[j].sequence = n /\ nd[j].request = r
                          /\ ItemFits(r, nd[j].item)
  /\ \A j \in DOMAIN nd : j < Len(nd) => nd[j].kind = "answer"
  /\ nd[Len(nd)].kind = "error" => Len(nd) = 1

QueueOK == \A k \in DOMAIN queue : DatagramOK(queue[k])

IsOwn(d) == d[1].sequence = sequence
EndKind(d) == d[Len(d)].kind
OwnDump == dump.running /\ dump.sequence = sequence

(* The kernel's dump always has a datagram in the queue, so the client's   *)
(* next recv drives it on.                                                 *)
DumpOK ==
  dump.running =>
    /\ queue # <<>>
    /\ dump.sequence >= 1 /\ dump.sequence <= sequence
    /\ dump.sequence = sequence =>
         dump.request = call.request /\ (Waiting => call.dump)
    /\ \A j \in DOMAIN dump.items : ItemFits(dump.request, dump.items[j])

(* A waiting client will see the end of its request: it is in the queue,   *)
(* or the kernel's dump will still send it.                                *)
WaitOK ==
  Waiting =>
    /\ queue # <<>>
    /\ call.dump => \/ OwnDump
                    \/ \E k \in DOMAIN queue :
                         IsOwn(queue[k]) /\ EndKind(queue[k]) # "answer"

(* The messages collected so far answer the current request.               *)
CollectedOK ==
  \A j \in DOMAIN call.messages :
    /\ call.messages[j].request = call.request
    /\ ItemFits(call.request, call.messages[j].item)

(* The program is at the request that is being made.                       *)
AtRequest == call.state # "idle" => /\ Running /\ agenda # <<>>
                                    /\ Head(agenda) = call.request

(* Nothing came of the socket before its first request.                    *)
FreshOK == sequence = 0 => call.state = "idle" /\ found = {} /\ answered = {}

(* Before the required steps are done only they were taken.                *)
Enumerating ==
  \A k \in DOMAIN agenda : Required(agenda[k]) =>
    /\ found = {}
    /\ \A r \in answered : Required(r)
    /\ dump.running => Required(dump.request)
    /\ \A j \in 1 .. k : Required(agenda[j])

(* What was answered is noted.                                             *)
NotedOK ==
  \A k \in DOMAIN queue : \A j \in DOMAIN queue[k] :
    queue[k][j].kind = "answer" /\ queue[k][j].item.useful
      => queue[k][j].request \in answered

(* Only a required step ends the call.                                     *)
CulpritOK == outcome = "error" => sequence = 0 \/ Required(culprit)

AgendaOK == AtRequest /\ FreshOK /\ Enumerating /\ NotedOK /\ CulpritOK

TransportOK == TransportTypes /\ QueueOK /\ DumpOK /\ WaitOK /\ CollectedOK
IInv == TransportOK /\ ProgramTypes /\ AgendaOK /\ AnswersBelong
-----------------------------------------------------------------------------
(* How many messages of a datagram are answers.                            *)
Answers(d) == IF EndKind(d) = "answer" THEN Len(d) ELSE Len(d) - 1

(* How datagram d leads from a to b entries of items, if request n listed  *)
(* them. A dump that is whole ends with the last of them.                  *)
Advances(d, a, b, items, n, whole) ==
  \/ /\ d[1].sequence = n
     /\ b = a + Answers(d) /\ b <= Len(items)
     /\ \A j \in 1 .. Answers(d) : d[j].item = items[a + j]
     /\ whole /\ EndKind(d) = "done" => b = Len(items)
  \/ d[1].sequence # n /\ b = a

(* The messages ms collected and the own answers in the queue q are the    *)
(* first e entries of items, in their order: off[k] of them come before    *)
(* datagram k.                                                             *)
Aligned(q, ms, items, n, e, whole) ==
  /\ Len(ms) <= Len(items)
  /\ \A j \in DOMAIN ms : ms[j].item = items[j]
  /\ \E off \in [1 .. Len(q) + 1 -> Nat] :
       /\ off[1] = Len(ms) /\ off[Len(q) + 1] = e
       /\ \A k \in DOMAIN q : Advances(q[k], off[k], off[k + 1], items, n, whole)

(* ... and the kernel will send the others.                                *)
Remaining(d, items, e) ==
  /\ e + Len(d.items) = Len(items)
  /\ \A j \in DOMAIN d.items : d.items[j] = items[e + j]

StreamOK ==
  /\ listing.sequence <= sequence
  /\ dump.running => listing.sequence = dump.sequence
  /\ \A k \in DOMAIN queue :
       IsOwn(queue[k]) /\ EndKind(queue[k]) = "done" => listing.sequence = sequence
  /\ Waiting /\ call.dump /\ listing.sequence = sequence =>
       \E e \in Nat : /\ Aligned(queue, call.messages, listing.items, sequence, e,
                                ~listing.failed)
                      /\ OwnDump => Remaining(dump, listing.items, e)

SInv == IInv /\ StreamOK /\ DumpsComplete
-----------------------------------------------------------------------------
(* A useful answer to the current request was sent.                        *)
UsefulIn(d) == \E j \in DOMAIN d : d[j].kind = "answer" /\ d[j].item.useful
UsefulSent == \/ \E j \in DOMAIN call.messages : call.messages[j].item.useful
              \/ \E k \in DOMAIN queue : UsefulIn(queue[k])

(* While the socket works, nothing is left behind in it.                   *)
CleanOK ==
  faults = 0 =>
    /\ ~Waiting => queue = <<>> /\ ~dump.running
    /\ Waiting => Len(queue) = 1 /\ IsOwn(queue[1])
    /\ dump.running => OwnDump /\ EndKind(queue[1]) = "answer"
    /\ Waiting /\ EndKind(queue[1]) = "error" => call.messages = <<>>
    /\ call.state \in {"error", "idle"} => call.messages = <<>>

(* ... what was answered is found, or about to be ...                      *)
AnsweredOK ==
  faults = 0 =>
    \A r : ~Required(r) =>
      (r \in answered <=>
         \/ \E f \in found : f.field = r
         \/ call.state \in {"waiting", "ok"} /\ UsefulSent /\ r = call.request)

(* ... and of the required steps only the radios fill a field.             *)
FoundOK == \A f \in found : Required(f.field) => f.field.command = "wiphy"

LInv == IInv /\ CleanOK /\ AnsweredOK /\ FoundOK
-----------------------------------------------------------------------------
(* A finite set as a sequence has elements of the set.                     *)
LEMMA SetToSeqType ==
  ASSUME NEW S, IsFiniteSet(S)
  PROVE  SetToSeq(S) \in Seq(S)
<1> DEFINE c == Cardinality(S)
<1>1. c \in Nat /\ ExistsBijection(1 .. c, S)
  BY FS_CardinalityType
<1>2. PICK f \in [1 .. c -> S] : IsInjective(f)
  BY <1>1 DEF ExistsBijection, Bijection, Injection, Surjection, IsInjective
<1>3. SetToSeq(S) \in [1 .. c -> S]
  BY <1>2 DEF SetToSeq
<1> HIDE DEF c
<1> QED BY <1>1, <1>3

(* The queries are requests, none of them a required one.                  *)
LEMMA QueriesType ==
  ASSUME NEW t \in {"wifi", "ethtool"}, NEW list \in Seq(Indexes)
  PROVE  /\ Queries(t, list) \in Seq(Request)
         /\ \A k \in DOMAIN Queries(t, list) : ~Required(Queries(t, list)[k])
<1> DEFINE each == Len(QueriesOf(t))
           C == {"scan", "station", "power", "linkinfo", "linkmodes",
                 "features", "eee", "stats"}
<1>1. each \in {3, 5} /\ \A j \in 1 .. each : QueriesOf(t)[j] \in C
  BY DEF QueriesOf, WifiQueries, EthtoolQueries
<1>2. C \subseteq Commands
  BY HardwareAssumption
<1> DEFINE n == each * Len(list)
<1>3. n \in Nat
  BY <1>1
<1>4. ASSUME NEW k \in 1 .. n
      PROVE  /\ ((k - 1) % each) + 1 \in 1 .. each
             /\ ((k - 1) \div each) + 1 \in 1 .. Len(list)
  <2>1. CASE each = 3
    BY <2>1
  <2>2. CASE each = 5
    BY <2>2
  <2> QED BY <1>1, <2>1, <2>2
<1> DEFINE q(k) == Ask(QueriesOf(t)[((k - 1) % each) + 1],
                       list[((k - 1) \div each) + 1])
<1>5. Queries(t, list) = [k \in 1 .. n |-> q(k)]
  BY DEF Queries
<1>6. \A k \in 1 .. n : q(k) \in Request /\ q(k).command \in C
  BY <1>1, <1>2, <1>4 DEF Ask, Request
<1> HIDE DEF q, n
<1>7. Queries(t, list) \in Seq(Request) /\ DOMAIN Queries(t, list) = 1 .. n
  BY <1>3, <1>5, <1>6
<1>8. \A k \in 1 .. n : Queries(t, list)[k].command \in C
  BY <1>5, <1>6
<1> QED BY <1>7, <1>8 DEF Required

(* The items the kernel lists have their type, and a useful entry of the   *)
(* list of interfaces has the index of one.                                *)
LEMMA ListsType ==
  ASSUME NEW r \in Request, NEW list \in Lists(r)
  PROVE  /\ list \in Seq(Item)
         /\ \A j \in DOMAIN list : ItemFits(r, list[j])
<1>0. /\ \A i \in Nat : Useful(i) \in Item /\ Useless(i) \in Item
      /\ \A i \in Nat : ~Useless(i).useful /\ Useful(i).id = i
  BY DEF Useful, Useless, Item
<1>1. CASE r.command = "interface"
  <2>1. PICK s \in SUBSET (Indexes \ Loopback) :
          list \in {Interfaces(s), Append(Interfaces(s), Useless(0))}
    <3>1. Lists(r) = UNION {{Interfaces(s), Append(Interfaces(s), Useless(0))} :
                              s \in SUBSET (Indexes \ Loopback)}
      BY <1>1 DEF Lists
    <3> QED BY <3>1
  <2> DEFINE U == {Useful(i) : i \in s}
             head == Interfaces(s)
             u == Useless(0)
  <2>2. s \subseteq Nat /\ s \subseteq Indexes
    BY HardwareAssumption, GenericNetlinkAssumption
  <2>3. IsFiniteSet(U)
    <3>1. IsFiniteSet(s)
      BY <2>2, HardwareAssumption, FS_Subset
    <3>2. [i \in s |-> Useful(i)] \in Surjection(s, U)
      BY DEF Surjection
    <3> QED BY <3>1, <3>2, FS_Surjection
  <2>4. head \in Seq(U)
    BY <2>3, SetToSeqType DEF Interfaces
  <2>5. \A x \in U : x \in Item /\ x.id \in Indexes
    BY <1>0, <2>2
  <2>6. u \in Item /\ ~u.useful
    BY <1>0
  <2>7. list = head \/ list = Append(head, u)
    BY <2>1
  <2> HIDE DEF head, U, u
  <2>8. head \in Seq(Item) /\ \A j \in DOMAIN head : head[j].id \in Indexes
    BY <2>4, <2>5
  <2>9. list \in Seq(Item)
    BY <2>6, <2>7, <2>8
  <2>10. \A j \in DOMAIN list : list[j].id \in Indexes \/ ~list[j].useful
    BY <2>6, <2>7, <2>8
  <2> QED BY <2>9, <2>10 DEF ItemFits
<1>2. CASE r.command # "interface"
  <2>1. list \in {<<>>, <<Useless(1)>>, <<Useful(1)>>, <<Useless(1), Useful(2)>>}
    BY <1>2 DEF Lists
  <2>2. list \in Seq(Item)
    <3> DEFINE a == Useless(1)
               b == Useful(1)
               c == Useful(2)
    <3>1. a \in Item /\ b \in Item /\ c \in Item
      BY <1>0
    <3> HIDE DEF a, b, c
    <3>2. list \in {<<>>, <<a>>, <<b>>, <<a, c>>}
      BY <2>1 DEF a, b, c
    <3>3. <<>> \in Seq(Item) /\ <<a>> \in Seq(Item) /\ <<b>> \in Seq(Item)
      BY <3>1
    <3>4. <<a, c>> \in Seq(Item)
      BY <3>1
    <3> QED BY <3>2, <3>3, <3>4, Zenon
  <2> QED BY <1>2, <2>2 DEF ItemFits
<1> QED BY <1>1, <1>2

(* The initial requests are requests.                                      *)
LEMMA AskType ==
  /\ \A c \in {"connect", "wiphy", "interface"} :
       Ask(c, 0) \in Request /\ Ask(c, 0).command = c
  /\ \A i \in Indexes : Ask("wiphy", i) \in Request
                         /\ Ask("wiphy", i).command = "wiphy"
  /\ NoRequest \in Request /\ NoRequest = Ask("connect", 0)
BY HardwareAssumption DEF Ask, NoRequest, Request

(* Fields of the transport's records.                                      *)
LEMMA Fields ==
  /\ \A m \in Message : /\ m.sequence \in Nat /\ m.request \in Request
                         /\ m.item \in Item
                         /\ m.kind \in {"answer", "error", "done"}
  /\ \A d \in Dump : /\ d.sequence \in Nat /\ d.request \in Request
                      /\ d.items \in Seq(Item)
  /\ \A c \in Call : /\ c.request \in Request /\ c.messages \in Seq(Message)
                      /\ c.state \in {"idle", "waiting", "ok", "error"}
  /\ \A l \in Enumeration : l.sequence \in Nat /\ l.items \in Seq(Item)
BY DEF Message, Dump, Call, Enumeration

(* What Reply makes.                                                       *)
LEMMA ReplyType ==
  ASSUME NEW n \in Nat, NEW r \in Request, NEW kind \in {"answer", "error", "done"},
         NEW item \in Item
  PROVE  /\ Reply(n, r, kind, item) \in Message
         /\ Reply(n, r, kind, item).sequence = n
         /\ Reply(n, r, kind, item).request = r
         /\ Reply(n, r, kind, item).kind = kind
         /\ Reply(n, r, kind, item).item = item
BY DEF Reply, Message

(* The item of a message that has none.                                    *)
LEMMA NoItemType == NoItem \in Item /\ ~NoItem.useful
BY DEF NoItem, Item

(* The dump that is not running.                                           *)
LEMMA NoDumpType == NoDump \in Dump /\ ~NoDump.running
<1>1. ~NoDump.running
  BY DEF NoDump
<1>2. [command |-> "connect", index |-> 0] \in Request
  BY AskType DEF Ask
<1> QED BY <1>1, <1>2 DEF NoDump, Dump

(* A listing the kernel broke off.                                         *)
Broken(l) == [l EXCEPT !.failed = TRUE]

(* What a dump broken off by the kernel leaves of its listing.             *)
LEMMA BrokenType ==
  ASSUME NEW l \in Enumeration
  PROVE  /\ Broken(l) \in Enumeration
         /\ Broken(l).failed
         /\ Broken(l).sequence = l.sequence /\ Broken(l).items = l.items
<1>1. Broken(l) \in Enumeration
  BY DEF Broken, Enumeration
<1>2. Broken(l).failed
  BY Zenon DEF Broken, Enumeration
<1>3. Broken(l).sequence = l.sequence /\ Broken(l).items = l.items
  BY DEF Broken, Enumeration
<1> QED BY <1>1, <1>2, <1>3

(* A dump that has sent n of its entries.                                  *)
Rest(d, n) == [d EXCEPT !.items = SubSeq(@, n + 1, Len(d.items))]

(* What is left of a dump after n of its items were sent.                  *)
LEMMA RestType ==
  ASSUME NEW d \in Dump, NEW n \in 0 .. Len(d.items)
  PROVE  /\ Rest(d, n) \in Dump
         /\ Rest(d, n).running = d.running
         /\ Rest(d, n).sequence = d.sequence /\ Rest(d, n).request = d.request
         /\ Rest(d, n).items = SubSeq(d.items, n + 1, Len(d.items))
         /\ Len(Rest(d, n).items) = Len(d.items) - n
         /\ \A j \in DOMAIN Rest(d, n).items :
              n + j \in DOMAIN d.items /\ Rest(d, n).items[j] = d.items[n + j]
<1> DEFINE s == SubSeq(d.items, n + 1, Len(d.items))
<1>1. d.items \in Seq(Item)
  BY Fields
<1>2. /\ s \in Seq(Item) /\ Len(s) = Len(d.items) - n
      /\ \A j \in DOMAIN s : n + j \in DOMAIN d.items /\ s[j] = d.items[n + j]
  <2>1. Len(d.items) \in Nat
    BY <1>1
  <2>2. s \in Seq(Item)
    BY <1>1, <2>1
  <2>3. Len(s) = Len(d.items) - n
    BY <1>1, <2>1
  <2>4. \A j \in 1 .. Len(d.items) - n : s[j] = d.items[n + j]
    BY <1>1, <2>1
  <2> DEFINE m == Len(d.items)
  <2>5. m \in Nat /\ n \in 0 .. m /\ DOMAIN d.items = 1 .. m /\ Len(s) = m - n
    BY <1>1, <2>1, <2>3
  <2>6. DOMAIN s = 1 .. Len(s)
    BY <2>2
  <2>7. \A j \in 1 .. m - n : s[j] = d.items[n + j]
    BY <2>4
  <2> HIDE DEF s, m
  <2>8. \A j \in DOMAIN s : n + j \in DOMAIN d.items /\ s[j] = d.items[n + j]
    BY <2>5, <2>6, <2>7
  <2> QED BY <2>2, <2>5, <2>8 DEF m
<1> HIDE DEF s
<1>3. Rest(d, n) = [d EXCEPT !.items = s]
  BY DEF Rest, s
<1>4. /\ Rest(d, n) \in Dump
      /\ Rest(d, n).sequence = d.sequence /\ Rest(d, n).request = d.request
      /\ Rest(d, n).items = s
  BY <1>2, <1>3 DEF Dump
<1>5. Rest(d, n).running = d.running
  BY <1>3, Zenon DEF Dump
<1> QED BY <1>2, <1>4, <1>5 DEF s

(* One pass of the dump d puts one datagram nd after what was queued: some *)
(* entries of the dump in order, and NLMSG_DONE when the dump is over.     *)
Sends(nd, d, l) ==
  /\ nd \in Seq(Message) /\ Len(nd) >= 1
  /\ \A j \in DOMAIN nd : nd[j].sequence = d.sequence /\ nd[j].request = d.request
  /\ \A j \in DOMAIN nd : j < Len(nd) => nd[j].kind = "answer"
  /\ Answers(nd) <= Len(d.items)
  /\ \A j \in 1 .. Answers(nd) : nd[j].item = d.items[j]
  /\ \/ /\ EndKind(nd) = "answer"
        /\ dump' = Rest(d, Answers(nd))
        /\ listing' = l
     \/ /\ EndKind(nd) = "done" /\ nd[Len(nd)].item = NoItem
        /\ dump' = NoDump
        /\ \/ listing' = l /\ Answers(nd) = Len(d.items)
           \/ listing' = Broken(l)

(* A pass of the kernel's dump puts one datagram at the end of the queue.  *)
LEMMA PassSends ==
  ASSUME NEW d \in Dump, NEW l, NEW queued, Pass(d, l, queued)
  PROVE  \E nd : Sends(nd, d, l) /\ queue' = Append(queued, nd)
<1> DEFINE answers(k) == [i \in 1 .. k |->
                            Reply(d.sequence, d.request, "answer", d.items[i])]
           done == Reply(d.sequence, d.request, "done", NoItem)
           all == Len(d.items)
<1>1. d.sequence \in Nat /\ d.request \in Request /\ d.items \in Seq(Item)
  BY Fields
<1>2. all \in Nat
  BY <1>1
<1>3. ASSUME NEW k \in 0 .. all
      PROVE  /\ answers(k) \in Seq(Message) /\ Len(answers(k)) = k
             /\ DOMAIN answers(k) = 1 .. k
             /\ \A j \in 1 .. k : /\ answers(k)[j] \in Message
                                  /\ answers(k)[j].sequence = d.sequence
                                  /\ answers(k)[j].request = d.request
                                  /\ answers(k)[j].kind = "answer"
                                  /\ answers(k)[j].item = d.items[j]
  <2> DEFINE a(i) == Reply(d.sequence, d.request, "answer", d.items[i])
  <2>1. \A i \in 1 .. k : /\ a(i) \in Message /\ a(i).sequence = d.sequence
                          /\ a(i).request = d.request /\ a(i).kind = "answer"
                          /\ a(i).item = d.items[i]
    BY <1>1, ReplyType
  <2>2. answers(k) = [i \in 1 .. k |-> a(i)]
    OBVIOUS
  <2>3. k \in Nat
    BY <1>2
  <2> HIDE DEF a, answers
  <2> QED BY <2>1, <2>2, <2>3
<1>4. /\ done \in Message /\ done.sequence = d.sequence
      /\ done.request = d.request /\ done.kind = "done" /\ done.item = NoItem
  BY <1>1, ReplyType, NoItemType
<1>5. \/ \E k \in 1 .. all :
           /\ queue' = Append(queued, answers(k))
           /\ dump' = Rest(d, k)
           /\ listing' = l
      \/ /\ queue' = Append(queued, Append(answers(all), done))
         /\ dump' = NoDump
         /\ listing' = l
      \/ /\ queue' = Append(queued, <<done>>)
         /\ dump' = NoDump
         /\ listing' = Broken(l)
  BY DEF Pass, Broken, Rest
<1> HIDE DEF answers, done
<1>6. CASE \E k \in 1 .. all :
             /\ queue' = Append(queued, answers(k))
             /\ dump' = Rest(d, k)
             /\ listing' = l
  <2>1. PICK k \in 1 .. all :
          /\ queue' = Append(queued, answers(k))
          /\ dump' = Rest(d, k)
          /\ listing' = l
    BY <1>6
  <2> DEFINE nd == answers(k)
  <2>2. /\ nd \in Seq(Message) /\ Len(nd) = k /\ k >= 1 /\ DOMAIN nd = 1 .. k
        /\ \A j \in 1 .. k : /\ nd[j].sequence = d.sequence
                             /\ nd[j].request = d.request
                             /\ nd[j].kind = "answer"
                             /\ nd[j].item = d.items[j]
    BY <1>2, <1>3
  <2> HIDE DEF nd
  <2>3. EndKind(nd) = "answer" /\ Answers(nd) = k
    BY <2>2 DEF EndKind, Answers
  <2>4. Sends(nd, d, l)
    BY <1>2, <2>1, <2>2, <2>3 DEF Sends
  <2> QED BY <2>1, <2>4 DEF nd
<1>7. CASE /\ queue' = Append(queued, Append(answers(all), done))
           /\ dump' = NoDump
           /\ listing' = l
  <2> DEFINE a == answers(all)
             nd == Append(a, done)
  <2>1. /\ a \in Seq(Message) /\ Len(a) = all
        /\ \A j \in 1 .. all : /\ a[j].sequence = d.sequence
                               /\ a[j].request = d.request
                               /\ a[j].kind = "answer"
                               /\ a[j].item = d.items[j]
    BY <1>2, <1>3
  <2> HIDE DEF a
  <2>2. /\ nd \in Seq(Message) /\ Len(nd) = all + 1 /\ nd[all + 1] = done
        /\ DOMAIN nd = 1 .. all + 1
        /\ \A j \in 1 .. all : nd[j] = a[j]
    BY <1>2, <1>4, <2>1
  <2> HIDE DEF nd
  <2>3. EndKind(nd) = "done" /\ Answers(nd) = all
    BY <1>2, <1>4, <2>2 DEF EndKind, Answers
  <2>4. \A j \in DOMAIN nd : j = all + 1 \/ j \in 1 .. all
    BY <1>2, <2>2
  <2>5. Sends(nd, d, l)
    <3>1. \A j \in DOMAIN nd : nd[j].sequence = d.sequence /\ nd[j].request = d.request
      BY <1>4, <2>1, <2>2, <2>4
    <3>2. \A j \in DOMAIN nd : j < Len(nd) => nd[j].kind = "answer"
      BY <1>2, <2>1, <2>2, <2>4
    <3>3. \A j \in 1 .. Answers(nd) : nd[j].item = d.items[j]
      BY <2>1, <2>2, <2>3
    <3>4. nd[Len(nd)].item = NoItem
      BY <1>4, <2>2
    <3>5. Len(nd) >= 1 /\ Answers(nd) <= Len(d.items)
      BY <1>2, <2>2, <2>3
    <3> HIDE DEF all
    <3> QED BY <1>7, <2>2, <2>3, <3>1, <3>2, <3>3, <3>4, <3>5 DEF Sends, all
  <2> QED BY <1>7, <2>5 DEF nd, a
<1>8. CASE /\ queue' = Append(queued, <<done>>)
           /\ dump' = NoDump
           /\ listing' = Broken(l)
  <2> DEFINE nd == <<done>>
  <2>1. nd \in Seq(Message) /\ Len(nd) = 1 /\ DOMAIN nd = {1} /\ nd[1] = done
    BY <1>4
  <2> HIDE DEF nd
  <2>2. EndKind(nd) = "done" /\ Answers(nd) = 0
    BY <1>4, <2>1 DEF EndKind, Answers
  <2>3. Sends(nd, d, l)
    BY <1>2, <1>4, <1>8, <2>1, <2>2 DEF Sends
  <2> QED BY <1>8, <2>3 DEF nd
<1> QED
  <2> HIDE DEF all, Sends
  <2> QED BY <1>5, <1>6, <1>7, <1>8

(* A pass answers the request of its dump.                                 *)
LEMMA SendsAnswering ==
  ASSUME NEW d \in Dump, NEW l, NEW nd, Sends(nd, d, l),
         \A j \in DOMAIN d.items : ItemFits(d.request, d.items[j])
  PROVE  /\ Answering(nd, d.sequence, d.request)
         /\ EndKind(nd) # "error" /\ Answers(nd) \in 0 .. Len(d.items)
<1>1. d.items \in Seq(Item) /\ nd \in Seq(Message) /\ Len(nd) >= 1
  BY Fields DEF Sends
<1>2. /\ \/ Answers(nd) = Len(nd)
         \/ Answers(nd) = Len(nd) - 1 /\ nd[Len(nd)].item = NoItem
      /\ EndKind(nd) # "error"
  <2>1. \/ EndKind(nd) = "answer"
        \/ EndKind(nd) = "done" /\ nd[Len(nd)].item = NoItem
    BY DEF Sends
  <2>2. \/ EndKind(nd) = "answer" /\ Answers(nd) = Len(nd)
        \/ EndKind(nd) # "answer" /\ Answers(nd) = Len(nd) - 1
    BY Zenon DEF Answers
  <2> QED BY <2>1, <2>2
<1>3. Len(nd) \in Nat /\ Len(d.items) \in Nat /\ DOMAIN nd = 1 .. Len(nd)
      /\ DOMAIN d.items = 1 .. Len(d.items) /\ Answers(nd) <= Len(d.items)
  BY <1>1 DEF Sends
<1>4. ItemFits(d.request, NoItem)
  BY NoItemType DEF ItemFits
<1>5. \A j \in DOMAIN nd : ItemFits(d.request, nd[j].item)
  <2> SUFFICES ASSUME NEW j \in DOMAIN nd PROVE ItemFits(d.request, nd[j].item)
    OBVIOUS
  <2>1. CASE j <= Answers(nd)
    <3>1. nd[j].item = d.items[j]
      BY <1>2, <1>3, <2>1 DEF Sends
    <3>2. j \in DOMAIN d.items
      BY <1>2, <1>3, <2>1
    <3> QED BY <3>1, <3>2
  <2>2. CASE ~(j <= Answers(nd))
    <3>1. nd[j].item = NoItem
      BY <1>2, <1>3, <2>2
    <3> QED BY <1>4, <3>1
  <2> QED BY <2>1, <2>2
<1>6. nd[Len(nd)].kind # "error"
  BY <1>2 DEF EndKind
<1>7. Answers(nd) \in 0 .. Len(d.items)
  BY <1>1, <1>2, <1>3
<1>8. /\ \A j \in DOMAIN nd : nd[j].sequence = d.sequence /\ nd[j].request = d.request
      /\ \A j \in DOMAIN nd : j < Len(nd) => nd[j].kind = "answer"
  BY DEF Sends
<1> QED BY <1>1, <1>2, <1>5, <1>6, <1>7, <1>8 DEF Answering

(* What a request put in the socket: the datagram nd.                      *)
Served(nd, r, isDump) ==
  /\ queue' = Append(queue, nd)
  /\ Answering(nd, sequence + 1, r)
  /\ \/ EndKind(nd) = "error" /\ UNCHANGED <<dump, listing>>
     \/ ~isDump /\ EndKind(nd) = "answer" /\ UNCHANGED <<dump, listing>>
     \/ /\ isDump /\ ~dump.running
        /\ \E d \in Dump, l \in Enumeration :
             /\ Sends(nd, d, l)
             /\ d.running /\ d.sequence = sequence + 1 /\ d.request = r
             /\ \A j \in DOMAIN d.items : ItemFits(r, d.items[j])
             /\ l.sequence = sequence + 1 /\ l.items = d.items

(* A datagram of one message answers its request.                          *)
LEMMA SingleAnswering ==
  ASSUME NEW n \in Nat, NEW r \in Request, NEW kind \in {"answer", "error"},
         NEW item \in Item, ItemFits(r, item)
  PROVE  /\ Answering(<<Reply(n, r, kind, item)>>, n, r)
         /\ EndKind(<<Reply(n, r, kind, item)>>) = kind
<1> DEFINE m == Reply(n, r, kind, item)
           nd == <<m>>
<1>1. m \in Message /\ m.sequence = n /\ m.request = r /\ m.kind = kind /\ m.item = item
  BY ReplyType
<1> HIDE DEF m
<1>2. nd \in Seq(Message) /\ Len(nd) = 1 /\ DOMAIN nd = {1} /\ nd[1] = m
  BY <1>1
<1> HIDE DEF nd
<1>3. Answering(nd, n, r) /\ EndKind(nd) = kind
  BY <1>1, <1>2 DEF Answering, EndKind
<1> QED BY <1>3 DEF nd, m

(* sendto: the kernel's answer is one datagram, and perhaps a dump.        *)
LEMMA SendServes ==
  ASSUME NEW r \in Request, NEW isDump \in BOOLEAN, sequence \in Nat,
         Serve(sequence + 1, r, isDump, Lists(r))
  PROVE  \E nd : Served(nd, r, isDump)
<1> DEFINE Single(m) == queue' = Append(queue, <<m>>) /\ UNCHANGED <<dump, listing>>
           n == sequence + 1
           D(list) == [running |-> TRUE, sequence |-> n, request |-> r, items |-> list]
           L(list) == [sequence |-> n, items |-> list, failed |-> FALSE]
<1>1. n \in Nat
  OBVIOUS
<1>2. \/ Single(Reply(n, r, "error", NoItem))
      \/ ~isDump /\ \E list \in Lists(r) :
                      list # <<>> /\ Single(Reply(n, r, "answer", list[1]))
      \/ isDump /\ ~dump.running /\ \E list \in Lists(r) : Pass(D(list), L(list), queue)
  BY DEF Serve
<1>3. CASE Single(Reply(n, r, "error", NoItem))
  <2>1. ItemFits(r, NoItem) /\ NoItem \in Item
    BY NoItemType DEF ItemFits
  <2> DEFINE nd == <<Reply(n, r, "error", NoItem)>>
  <2>2. Answering(nd, n, r) /\ EndKind(nd) = "error"
    BY <1>1, <2>1, SingleAnswering
  <2>3. queue' = Append(queue, nd) /\ UNCHANGED <<dump, listing>>
    BY <1>3
  <2> HIDE DEF nd
  <2>4. Served(nd, r, isDump)
    BY <2>2, <2>3 DEF Served
  <2> QED BY <2>4
<1>4. CASE ~isDump /\ \E list \in Lists(r) :
              list # <<>> /\ Single(Reply(n, r, "answer", list[1]))
  <2>1. PICK list \in Lists(r) : list # <<>> /\ Single(Reply(n, r, "answer", list[1]))
    BY <1>4
  <2>2. list \in Seq(Item) /\ \A j \in DOMAIN list : ItemFits(r, list[j])
    BY ListsType
  <2> PICK item : item = list[1]
    OBVIOUS
  <2>3. item \in Item /\ ItemFits(r, item)
    BY <2>1, <2>2
  <2> DEFINE nd == <<Reply(n, r, "answer", item)>>
  <2>4. Answering(nd, n, r) /\ EndKind(nd) = "answer"
    BY <1>1, <2>3, SingleAnswering
  <2>5. queue' = Append(queue, nd) /\ UNCHANGED <<dump, listing>>
    BY <2>1
  <2> HIDE DEF nd
  <2>6. Served(nd, r, isDump)
    BY <1>4, <2>4, <2>5 DEF Served
  <2> QED BY <2>6
<1>5. CASE isDump /\ ~dump.running /\ \E list \in Lists(r) : Pass(D(list), L(list), queue)
  <2>1. PICK list \in Lists(r) : Pass(D(list), L(list), queue)
    BY <1>5
  <2>2. list \in Seq(Item) /\ \A j \in DOMAIN list : ItemFits(r, list[j])
    BY ListsType
  <2> PICK d : d = D(list)
    OBVIOUS
  <2> PICK l : l = L(list)
    OBVIOUS
  <2>3. d \in Dump /\ d.sequence = n /\ d.request = r /\ d.items = list
    BY <1>1, <2>2 DEF Dump
  <2>4. d.running
    BY Zenon
  <2>5. l \in Enumeration /\ l.sequence = n /\ l.items = list
    BY <1>1, <2>2 DEF Enumeration
  <2>6. PICK nd : Sends(nd, d, l) /\ queue' = Append(queue, nd)
    BY <2>1, <2>3, PassSends
  <2>7. Answering(nd, d.sequence, d.request)
    BY <2>2, <2>3, <2>6, SendsAnswering
  <2>8. Served(nd, r, isDump)
    BY <1>5, <2>2, <2>3, <2>4, <2>5, <2>6, <2>7 DEF Served
  <2> QED BY <2>8
<1> QED BY <1>2, <1>3, <1>4, <1>5

(* A datagram that answers the current request is its own.                 *)
LEMMA AnsweringOK ==
  ASSUME NEW nd, NEW n \in Nat, NEW r, Answering(nd, n, r), n >= 1, n <= sequence,
         n = sequence => r = call.request
  PROVE  DatagramOK(nd)
<1>1. 1 \in DOMAIN nd
  BY DEF Answering
<1>2. nd[1].sequence = n /\ nd[1].request = r
  BY <1>1 DEF Answering
<1> QED BY <1>2 DEF Answering, DatagramOK

(* The part of a datagram a waiting request collects.                      *)
Collected(d) ==
  Pick(Own(d), {i \in DOMAIN Own(d) : Own(d)[i].kind = "answer"})

(* The client keeps all messages of a datagram or none: header.sequence is *)
(* the same in all of them.                                                *)
LEMMA OwnDatagram ==
  ASSUME NEW d \in Seq(Message), DatagramOK(d)
  PROVE  /\ IsOwn(d) => Own(d) = d
         /\ ~IsOwn(d) => Own(d) = <<>>
<1>1. Len(d) \in Nat /\ DOMAIN d = 1 .. Len(d) /\ Len(d) >= 1
      /\ \A j \in DOMAIN d : d[j].sequence = d[1].sequence
  BY DEF DatagramOK
<1> DEFINE at == {i \in DOMAIN d : d[i].sequence = sequence}
           p == Pick(d, 1 .. Len(d))
<1>2. ASSUME IsOwn(d) PROVE Own(d) = d
  <2>1. at = 1 .. Len(d)
    BY <1>1, <1>2 DEF IsOwn
  <2>2. Len(p) = Len(d) /\ \A k \in 1 .. Len(d) : p[k] = d[k]
    BY <1>1, PickPrefix
  <2>3. p \in Seq(Message)
    BY <1>1, PickElements
  <2> HIDE DEF p
  <2>4. p = d
    BY <1>1, <2>2, <2>3
  <2> QED BY <2>1, <2>4 DEF Own, p
<1>3. ASSUME ~IsOwn(d) PROVE Own(d) = <<>>
  <2>1. at = {}
    BY <1>1, <1>3 DEF IsOwn
  <2> QED BY <2>1, PickNothing DEF Own
<1> QED BY <1>2, <1>3

(* The answers of a datagram are its first messages, and its last one      *)
(* tells how it ends.                                                      *)
LEMMA AnswersCount ==
  ASSUME NEW d \in Seq(Message), DatagramOK(d)
  PROVE  /\ Answers(d) \in 0 .. Len(d) /\ Len(d) \in Nat
         /\ {i \in DOMAIN d : d[i].kind = "answer"} = 1 .. Answers(d)
         /\ EndKind(d) \in {"answer", "error", "done"}
         /\ Has(d, "error") <=> EndKind(d) = "error"
         /\ Has(d, "done") <=> EndKind(d) = "done"
<1>1. /\ Len(d) \in Nat /\ DOMAIN d = 1 .. Len(d) /\ Len(d) >= 1
      /\ \A j \in DOMAIN d : j < Len(d) => d[j].kind = "answer"
  BY DEF DatagramOK
<1>2. d[Len(d)].kind \in {"answer", "error", "done"}
  BY <1>1, Fields
<1>3. \/ EndKind(d) = "answer" /\ Answers(d) = Len(d)
      \/ EndKind(d) # "answer" /\ Answers(d) = Len(d) - 1
  BY Zenon DEF Answers
<1>4. Answers(d) \in 0 .. Len(d)
  BY <1>1, <1>3
<1>5. {i \in DOMAIN d : d[i].kind = "answer"} = 1 .. Answers(d)
  <2>1. CASE EndKind(d) = "answer" /\ Answers(d) = Len(d)
    BY <1>1, <2>1 DEF EndKind
  <2>2. CASE EndKind(d) # "answer" /\ Answers(d) = Len(d) - 1
    BY <1>1, <2>2 DEF EndKind
  <2> QED BY <1>3, <2>1, <2>2
<1>6. /\ Has(d, "error") <=> EndKind(d) = "error"
      /\ Has(d, "done") <=> EndKind(d) = "done"
  BY <1>1 DEF Has, EndKind
<1> QED BY <1>1, <1>2, <1>4, <1>5, <1>6 DEF EndKind

(* What receive collects from a datagram: its answers if it is for this    *)
(* request, otherwise nothing.                                             *)
LEMMA CollectedAnswers ==
  ASSUME NEW d \in Seq(Message), DatagramOK(d)
  PROVE  /\ Collected(d) \in Seq(Message)
         /\ IsOwn(d) => /\ Len(Collected(d)) = Answers(d)
                        /\ \A j \in 1 .. Answers(d) : Collected(d)[j] = d[j]
         /\ ~IsOwn(d) => Collected(d) = <<>>
<1>1. ASSUME IsOwn(d)
      PROVE  /\ Collected(d) \in Seq(Message)
             /\ Len(Collected(d)) = Answers(d)
             /\ \A j \in 1 .. Answers(d) : Collected(d)[j] = d[j]
  <2>1. Own(d) = d
    BY <1>1, OwnDatagram
  <2>2. Collected(d) = Pick(d, 1 .. Answers(d))
    BY <2>1, AnswersCount DEF Collected
  <2>3. Answers(d) \in Nat /\ Answers(d) <= Len(d)
        /\ 1 .. Answers(d) \in SUBSET DOMAIN d
    BY AnswersCount
  <2>4. Collected(d) \in Seq(Message)
    BY <2>2, <2>3, PickElements
  <2> DEFINE m == Answers(d)
  <2>5. /\ Len(Pick(d, 1 .. m)) = m
        /\ \A k \in 1 .. m : Pick(d, 1 .. m)[k] = d[k]
    <3> HIDE DEF m
    <3> QED BY <2>3, PickPrefix DEF m
  <2> QED BY <2>2, <2>4, <2>5
<1>2. ASSUME ~IsOwn(d) PROVE Collected(d) = <<>>
  <2>1. Own(d) = <<>>
    BY <1>2, OwnDatagram
  <2>2. {i \in DOMAIN Own(d) : Own(d)[i].kind = "answer"} = {}
    BY <2>1
  <2>3. Collected(d) = Pick(Own(d), {})
    BY <2>2, Zenon DEF Collected
  <2> QED BY <2>3, PickNothing
<1>3. <<>> \in Seq(Message)
  OBVIOUS
<1>4. IsOwn(d) \in BOOLEAN
  BY DEF IsOwn
<1> QED BY <1>1, <1>2, <1>3, <1>4

(* What recv does to the call: the messages of its own datagrams, up to    *)
(* the error or the end.                                                   *)
LEMMA ReceiveCall ==
  ASSUME TransportOK, Receive, NEW h, h = Head(queue)
  PROVE  /\ h \in Seq(Message) /\ DatagramOK(h)
         /\ call' \in Call /\ call'.request = call.request
         /\ call'.dump = call.dump
         /\ \/ /\ IsOwn(h) /\ EndKind(h) = "error"
               /\ call'.state = "error" /\ call'.messages = call.messages
            \/ /\ ~(IsOwn(h) /\ EndKind(h) = "error")
               /\ call'.messages = call.messages \o Collected(h)
               /\ \/ /\ (IsOwn(h) /\ EndKind(h) = "done") \/ ~call.dump
                     /\ call'.state = "ok"
                  \/ /\ ~(IsOwn(h) /\ EndKind(h) = "done") /\ call.dump
                     /\ call'.state = "waiting"
<1>1. queue \in Seq(Seq(Message)) /\ queue # <<>> /\ call \in Call
  BY DEF TransportOK, TransportTypes, Receive
<1>2. 1 \in DOMAIN queue /\ queue[1] = Head(queue)
  BY <1>1
<1>3. h \in Seq(Message) /\ DatagramOK(h)
  BY <1>1, <1>2 DEF TransportOK, QueueOK
<1>4. Has(Own(h), "error") <=> (IsOwn(h) /\ EndKind(h) = "error")
  BY <1>3, OwnDatagram, AnswersCount DEF Has
<1>5. Complete(h) <=> ((IsOwn(h) /\ EndKind(h) = "done") \/ ~call.dump)
  <2>1. HasDone(h) <=> (IsOwn(h) /\ EndKind(h) = "done")
    BY <1>3, OwnDatagram, AnswersCount DEF Has, HasDone
  <2> QED BY <2>1 DEF Complete
<1>6. call' = IF Has(Own(h), "error") THEN [call EXCEPT !.state = "error"]
              ELSE [call EXCEPT !.messages = @ \o Collected(h),
                                !.state = IF Complete(h) THEN "ok" ELSE "waiting"]
  BY DEF Receive, Collected
<1>7. Collected(h) \in Seq(Message) /\ call.messages \in Seq(Message)
  BY <1>1, <1>3, CollectedAnswers, Fields
<1> PICK ms : ms = call.messages \o Collected(h)
  OBVIOUS
<1>8. ms \in Seq(Message)
  BY <1>7
<1>9. CASE Has(Own(h), "error")
  <2>1. call' = [call EXCEPT !.state = "error"]
    BY <1>6, <1>9, Zenon
  <2>2. /\ call' \in Call /\ call'.request = call.request
        /\ call'.state = "error" /\ call'.messages = call.messages
    BY <1>1, <2>1 DEF Call
  <2>3. call'.dump = call.dump
    BY <1>1, <2>1, Zenon DEF Call
  <2> QED BY <1>3, <1>4, <1>9, <2>2, <2>3
<1>10. CASE ~Has(Own(h), "error")
  <2> PICK st : st = IF Complete(h) THEN "ok" ELSE "waiting"
    OBVIOUS
  <2>0. /\ Complete(h) => st = "ok"
        /\ ~Complete(h) => st = "waiting"
    BY Zenon
  <2>1. call' = [call EXCEPT !.messages = ms, !.state = st]
    BY <1>6, <1>10, Zenon
  <2>2. st \in {"ok", "waiting"}
    BY <2>0, Zenon
  <2>3. /\ call' \in Call /\ call'.request = call.request
        /\ call'.state = st /\ call'.messages = ms
    BY <1>1, <1>8, <2>1, <2>2 DEF Call
  <2>4. call'.dump = call.dump
    BY <1>1, <2>1, Zenon DEF Call
  <2>5. Complete(h) \in BOOLEAN /\ call.dump \in BOOLEAN
    BY <1>1 DEF Complete, HasDone, Has, Call
  <2> QED BY <1>3, <1>4, <1>5, <1>10, <2>0, <2>3, <2>4, <2>5
<1> QED BY <1>9, <1>10

(* recv takes a datagram, and a running dump puts another one behind the   *)
(* rest.                                                                   *)
LEMMA ReceiveQueue ==
  ASSUME TransportOK, Receive
  PROVE  \/ /\ ~dump.running
            /\ queue' = Tail(queue) /\ UNCHANGED <<dump, listing>>
         \/ /\ dump.running
            /\ \E nd : /\ Sends(nd, dump, listing)
                      /\ Answering(nd, dump.sequence, dump.request)
                      /\ queue' = Append(Tail(queue), nd)
<1>1. CASE dump.running
  <2>1. Pass(dump, listing, Tail(queue))
    BY <1>1 DEF Receive, Advance
  <2>2. dump \in Dump
    BY DEF TransportOK, TransportTypes
  <2>3. PICK nd : Sends(nd, dump, listing) /\ queue' = Append(Tail(queue), nd)
    BY <2>1, <2>2, PassSends
  <2>4. \A j \in DOMAIN dump.items : ItemFits(dump.request, dump.items[j])
    BY <1>1 DEF TransportOK, DumpOK
  <2>5. Answering(nd, dump.sequence, dump.request)
    BY <2>2, <2>3, <2>4, SendsAnswering
  <2> QED BY <1>1, <2>3, <2>5
<1>2. CASE ~dump.running
  BY <1>2 DEF Receive, Advance
<1> QED BY <1>1, <1>2
-----------------------------------------------------------------------------
(* The transport's invariant is preserved by each of its steps.            *)

(* The fields of a request that was just made.                             *)
LEMMA CallType ==
  ASSUME NEW st \in {"idle", "waiting", "ok", "error"}, NEW r \in Request,
         NEW b \in BOOLEAN, NEW c,
         c = [state |-> st, request |-> r, dump |-> b, messages |-> <<>>]
  PROVE  /\ c \in Call /\ c.state = st /\ c.request = r /\ c.dump = b
         /\ c.messages = <<>>
<1>1. c.dump = b
  BY Zenon
<1>2. c.state = st /\ c.request = r /\ c.messages = <<>>
  BY Zenon
<1>3. <<>> \in Seq(Message)
  OBVIOUS
<1>4. c \in Call
  BY <1>3, Zenon DEF Call
<1> QED BY <1>1, <1>2, <1>4

(* Datagrams of earlier requests stay what they are, and are not its own.  *)
LEMMA EarlierDatagram ==
  ASSUME NEW d \in Seq(Message), DatagramOK(d), sequence \in Nat,
         sequence' = sequence + 1
  PROVE  DatagramOK(d)' /\ ~IsOwn(d)'
<1>1. 1 \in DOMAIN d /\ d[1].sequence \in Nat /\ d[1].sequence <= sequence
  BY Fields DEF DatagramOK
<1>2. d[1].sequence <= sequence' /\ d[1].sequence # sequence'
  BY <1>1
<1> QED BY <1>2 DEF DatagramOK, IsOwn

(* A datagram stays as it should be while the request does.                *)
LEMMA SameDatagram ==
  ASSUME NEW d, DatagramOK(d), sequence' = sequence, call'.request = call.request
  PROVE  DatagramOK(d)' /\ (IsOwn(d)' <=> IsOwn(d))
BY DEF DatagramOK, IsOwn

(* Sending a request preserves the invariant of the transport.             *)
LEMMA SendOK ==
  ASSUME TransportOK, NEW r \in Request, NEW isDump \in BOOLEAN,
         Send(r, isDump, Lists(r))
  PROVE  TransportOK'
<1>1. /\ sequence \in Nat /\ faults \in 0 .. MaxFaults /\ queue \in Seq(Seq(Message))
      /\ dump \in Dump /\ listing \in Enumeration
  BY DEF TransportOK, TransportTypes
<1>2. /\ sequence' = sequence + 1 /\ UNCHANGED faults
      /\ call' = [state |-> "waiting", request |-> r, dump |-> isDump, messages |-> <<>>]
      /\ Serve(sequence + 1, r, isDump, Lists(r))
  BY DEF Send
<1>3. /\ call' \in Call /\ call'.state = "waiting" /\ call'.request = r
      /\ call'.dump = isDump /\ call'.messages = <<>>
  BY <1>2, CallType
<1>4. PICK nd : Served(nd, r, isDump)
  BY <1>1, <1>2, SendServes
<1>5. Answering(nd, sequence + 1, r) /\ queue' = Append(queue, nd)
  BY <1>4 DEF Served
<1>6. nd \in Seq(Message)
  BY <1>5 DEF Answering
<1>7. /\ queue' \in Seq(Seq(Message)) /\ queue' # <<>>
      /\ Len(queue) + 1 \in DOMAIN queue' /\ queue'[Len(queue) + 1] = nd
      /\ \A k \in DOMAIN queue : queue'[k] = queue[k]
      /\ \A k \in DOMAIN queue' : k = Len(queue) + 1 \/ k \in DOMAIN queue
  <2> PICK T : T = Seq(Message)
    OBVIOUS
  <2>1. queue \in Seq(T) /\ nd \in T /\ queue' = Append(queue, nd)
    BY <1>1, <1>5, <1>6
  <2> QED BY <2>1, AppendFacts
<1>8. DatagramOK(nd)' /\ IsOwn(nd)'
  <2>1. \A n : n = sequence' => Answering(nd, n, r)
    BY <1>2, <1>5
  <2>2. nd[1].sequence = sequence' /\ nd[1].request = r
    BY <1>2, <1>5 DEF Answering
  <2>3. sequence' \in Nat /\ sequence' >= 1
    BY <1>1, <1>2
  <2> QED BY <1>2, <1>3, <1>5, <2>2, <2>3 DEF DatagramOK, Answering, IsOwn
<1>9. QueueOK'
  <2>1. \A k \in DOMAIN queue : queue[k] \in Seq(Message) /\ DatagramOK(queue[k])
    BY <1>1 DEF TransportOK, QueueOK
  <2> SUFFICES ASSUME NEW k \in DOMAIN queue' PROVE DatagramOK(queue[k])'
    BY DEF QueueOK
  <2> PICK d : d = queue'[k]
    OBVIOUS
  <2>2. DatagramOK(d)'
    <3>1. CASE k = Len(queue) + 1
      BY <1>7, <1>8, <3>1
    <3>2. CASE k \in DOMAIN queue
      <4>1. d = queue[k] /\ d \in Seq(Message) /\ DatagramOK(d)
        BY <1>7, <2>1, <3>2
      <4> QED BY <1>1, <1>2, <4>1, EarlierDatagram
    <3> QED BY <1>7, <3>1, <3>2
  <2> QED BY <2>2 DEF DatagramOK
<1>10. /\ dump' \in Dump /\ listing' \in Enumeration
       /\ DumpOK'
       /\ isDump => \/ EndKind(nd) # "answer"
                    \/ dump'.running /\ dump'.sequence = sequence + 1
  <2>1. CASE UNCHANGED <<dump, listing>> /\ (isDump => EndKind(nd) # "answer")
    <3>1. dump'.running => /\ dump'.sequence >= 1 /\ dump'.sequence <= sequence
                           /\ \A j \in DOMAIN dump'.items :
                                ItemFits(dump'.request, dump'.items[j])
      BY <2>1 DEF TransportOK, DumpOK
    <3>2. dump.sequence \in Nat
      BY <1>1, Fields
    <3>3. DumpOK'
      BY <1>1, <1>2, <1>7, <2>1, <3>1, <3>2 DEF DumpOK
    <3> QED BY <1>1, <2>1, <3>3
  <2>2. CASE isDump /\ ~dump.running
             /\ \E d \in Dump, l \in Enumeration :
                  /\ Sends(nd, d, l)
                  /\ d.running /\ d.sequence = sequence + 1 /\ d.request = r
                  /\ \A j \in DOMAIN d.items : ItemFits(r, d.items[j])
                  /\ l.sequence = sequence + 1 /\ l.items = d.items
    <3>1. PICK d \in Dump, l \in Enumeration :
            /\ Sends(nd, d, l)
            /\ d.running /\ d.sequence = sequence + 1 /\ d.request = r
            /\ \A j \in DOMAIN d.items : ItemFits(r, d.items[j])
      BY <2>2
    <3>2. Answers(nd) \in 0 .. Len(d.items) /\ EndKind(nd) # "error"
      BY <3>1, SendsAnswering
    <3>3. listing' = l \/ listing' = Broken(l)
      BY <3>1 DEF Sends
    <3>4. listing' \in Enumeration
      BY <3>3, BrokenType
    <3>5. \/ EndKind(nd) = "answer" /\ dump' = Rest(d, Answers(nd))
          \/ EndKind(nd) = "done" /\ dump' = NoDump
      BY <3>1 DEF Sends
    <3>6. CASE EndKind(nd) = "answer" /\ dump' = Rest(d, Answers(nd))
      <4>1. /\ dump' \in Dump /\ dump'.running /\ dump'.sequence = sequence + 1
            /\ dump'.request = r
            /\ \A j \in DOMAIN dump'.items : ItemFits(r, dump'.items[j])
        BY <3>1, <3>2, <3>6, RestType
      <4>2. DumpOK'
        BY <1>1, <1>2, <1>3, <1>7, <2>2, <4>1 DEF DumpOK
      <4> QED BY <3>4, <4>1, <4>2
    <3>7. CASE EndKind(nd) = "done" /\ dump' = NoDump
      BY <3>4, <3>7, NoDumpType DEF DumpOK
    <3> QED BY <3>5, <3>6, <3>7
  <2>3. \/ UNCHANGED <<dump, listing>> /\ (isDump => EndKind(nd) # "answer")
        \/ /\ isDump /\ ~dump.running
           /\ \E d \in Dump, l \in Enumeration :
                /\ Sends(nd, d, l)
                /\ d.running /\ d.sequence = sequence + 1 /\ d.request = r
                /\ \A j \in DOMAIN d.items : ItemFits(r, d.items[j])
                /\ l.sequence = sequence + 1 /\ l.items = d.items
    BY <1>4 DEF Served
  <2> QED BY <2>1, <2>2, <2>3
<1>11. WaitOK'
  <2> PICK last : last = Len(queue) + 1
    OBVIOUS
  <2>1. last \in DOMAIN queue' /\ queue'[last] = nd
    BY <1>7
  <2>2. CASE EndKind(nd) # "answer"
    <3>1. IsOwn(queue[last])' /\ EndKind(queue[last])' # "answer"
      BY <1>8, <2>1, <2>2 DEF IsOwn, EndKind
    <3> QED BY <1>7, <2>1, <3>1 DEF WaitOK
  <2>3. CASE ~isDump
    BY <1>3, <1>7, <2>3 DEF WaitOK
  <2>4. CASE dump'.running /\ dump'.sequence = sequence + 1
    BY <1>2, <1>7, <2>4 DEF WaitOK, OwnDump
  <2> QED BY <1>10, <2>2, <2>3, <2>4
<1>12. CollectedOK'
  BY <1>3 DEF CollectedOK
<1>13. TransportTypes'
  BY <1>1, <1>2, <1>3, <1>7, <1>10 DEF TransportTypes
<1> QED BY <1>9, <1>10, <1>11, <1>12, <1>13 DEF TransportOK

(* A request that cannot be sent preserves the invariant of the transport. *)
LEMMA SendFailsOK ==
  ASSUME TransportOK, NEW r \in Request, NEW isDump \in BOOLEAN, SendFails(r, isDump)
  PROVE  TransportOK'
<1>1. /\ sequence \in Nat /\ faults \in 0 .. MaxFaults /\ queue \in Seq(Seq(Message))
      /\ dump \in Dump /\ listing \in Enumeration
  BY DEF TransportOK, TransportTypes
<1>2. /\ sequence' = sequence + 1 /\ faults < MaxFaults /\ faults' = faults + 1
      /\ call' = [state |-> "error", request |-> r, dump |-> isDump, messages |-> <<>>]
      /\ UNCHANGED <<queue, dump, listing>>
  BY DEF SendFails
<1>3. /\ call' \in Call /\ call'.state = "error" /\ call'.request = r
      /\ call'.messages = <<>>
  BY <1>2, CallType
<1>4. QueueOK'
  <2> SUFFICES ASSUME NEW k \in DOMAIN queue PROVE DatagramOK(queue[k])'
    BY <1>2 DEF QueueOK
  <2> PICK d : d = queue[k]
    OBVIOUS
  <2>1. d \in Seq(Message) /\ DatagramOK(d)
    BY <1>1 DEF TransportOK, QueueOK
  <2>2. DatagramOK(d)' /\ d = queue'[k]
    BY <1>1, <1>2, <2>1, EarlierDatagram
  <2> QED BY <2>2 DEF DatagramOK
<1>5. DumpOK'
  <2>1. dump.sequence \in Nat
    BY <1>1, Fields
  <2>2. dump.running => /\ queue # <<>>
                        /\ dump.sequence >= 1 /\ dump.sequence <= sequence
                        /\ \A j \in DOMAIN dump.items :
                             ItemFits(dump.request, dump.items[j])
    BY DEF TransportOK, DumpOK
  <2>3. dump.sequence <= sequence => dump.sequence <= sequence' /\ dump.sequence # sequence'
    BY <1>1, <1>2, <2>1
  <2> QED BY <1>2, <2>2, <2>3 DEF DumpOK
<1>6. WaitOK' /\ CollectedOK'
  BY <1>3 DEF WaitOK, CollectedOK, Waiting
<1>7. TransportTypes'
  <2>1. faults' \in 0 .. MaxFaults
    BY <1>1, <1>2, GenericNetlinkAssumption
  <2> QED BY <1>1, <1>2, <1>3, <2>1 DEF TransportTypes
<1> QED BY <1>4, <1>5, <1>6, <1>7 DEF TransportOK

(* The call ends, or gives its result back; the socket stays as it is.     *)
LEMMA SettledOK ==
  ASSUME TransportOK, UNCHANGED <<sequence, queue, dump, listing>>,
         faults' \in 0 .. MaxFaults, call' \in Call,
         call'.request = call.request, call'.state # "waiting",
         call'.messages = call.messages \/ call'.messages = <<>>
  PROVE  TransportOK'
<1>1. QueueOK'
  <2> SUFFICES ASSUME NEW k \in DOMAIN queue PROVE DatagramOK(queue[k])'
    BY DEF QueueOK
  <2> PICK d : d = queue[k]
    OBVIOUS
  <2>1. DatagramOK(d)' /\ d = queue'[k]
    BY SameDatagram DEF TransportOK, QueueOK
  <2> QED BY <2>1 DEF DatagramOK
<1>2. DumpOK'
  BY DEF TransportOK, DumpOK, Waiting
<1>3. WaitOK' /\ CollectedOK'
  BY DEF TransportOK, WaitOK, CollectedOK, Waiting
<1>4. TransportTypes'
  BY DEF TransportOK, TransportTypes
<1> QED BY <1>1, <1>2, <1>3, <1>4 DEF TransportOK

(* A failing recv preserves the invariant of the transport.                *)
LEMMA ReceiveFailsOK ==
  ASSUME TransportOK, ReceiveFails
  PROVE  /\ TransportOK'
         /\ call'.state = "error" /\ call'.request = call.request
         /\ call'.messages = call.messages
<1>1. call \in Call /\ faults \in 0 .. MaxFaults
  BY DEF TransportOK, TransportTypes
<1>2. /\ call' = [call EXCEPT !.state = "error"]
      /\ faults < MaxFaults /\ faults' = faults + 1
      /\ UNCHANGED <<sequence, queue, dump, listing>>
  BY DEF ReceiveFails
<1>3. /\ call' \in Call /\ call'.request = call.request
      /\ call'.state = "error" /\ call'.messages = call.messages
  BY <1>1, <1>2 DEF Call
<1>4. faults' \in 0 .. MaxFaults
  BY <1>1, <1>2, GenericNetlinkAssumption
<1> QED BY <1>2, <1>3, <1>4, SettledOK

(* Taking a reply preserves the invariant of the transport.                *)
LEMMA IdleOK ==
  ASSUME TransportOK, call' = Idle(call.request),
         UNCHANGED <<sequence, queue, dump, faults, listing>>
  PROVE  /\ TransportOK'
         /\ call'.state = "idle" /\ call'.messages = <<>>
<1>1. call \in Call /\ faults \in 0 .. MaxFaults
  BY DEF TransportOK, TransportTypes
<1>2. call.request \in Request
  BY <1>1, Fields
<1>3. /\ call' \in Call /\ call'.request = call.request
      /\ call'.state = "idle" /\ call'.messages = <<>>
  BY <1>2, CallType DEF Idle
<1> QED BY <1>1, <1>3, SettledOK

(* recv takes the first datagram; a running dump puts nd at the end.       *)
LEMMA ReceiveOK ==
  ASSUME TransportOK, Receive
  PROVE  TransportOK'
<1>1. /\ sequence \in Nat /\ faults \in 0 .. MaxFaults /\ queue \in Seq(Seq(Message))
      /\ dump \in Dump /\ listing \in Enumeration /\ call \in Call
  BY DEF TransportOK, TransportTypes
<1>2. Waiting /\ queue # <<>> /\ UNCHANGED <<sequence, faults>>
  BY DEF Receive, Waiting
<1>h. PICK h : h = Head(queue)
  OBVIOUS
<1>T. PICK T : T = Seq(Message)
  OBVIOUS
<1>r. PICK rest : rest = Tail(queue)
  OBVIOUS
<1>3. /\ rest \in Seq(T) /\ Len(queue) \in Nat /\ Len(rest) = Len(queue) - 1
      /\ \A k \in DOMAIN rest : k + 1 \in DOMAIN queue /\ rest[k] = queue[k + 1]
      /\ \A k \in DOMAIN queue : k = 1 \/ (k - 1 \in DOMAIN rest /\ rest[k - 1] = queue[k])
  BY <1>1, <1>2, <1>T, <1>r, TailFacts
<1>4. /\ h \in Seq(Message) /\ DatagramOK(h)
      /\ call' \in Call /\ call'.request = call.request /\ call'.dump = call.dump
  BY <1>h, ReceiveCall
<1>5. h = queue[1]
  BY <1>1, <1>2, <1>h
<1>6. \A k \in DOMAIN queue : queue[k] \in T /\ DatagramOK(queue[k])
  BY <1>1, <1>T DEF TransportOK, QueueOK
<1>7. \A d : DatagramOK(d) => DatagramOK(d)' /\ (IsOwn(d)' <=> IsOwn(d))
  BY <1>2, <1>4, SameDatagram
<1>8. \A k \in DOMAIN rest : DatagramOK(rest[k])
  BY <1>3, <1>6
<1>9. CollectedOK'
  <2>1. CASE call'.messages = call.messages
    BY <1>4, <2>1 DEF TransportOK, CollectedOK
  <2>2. CASE call'.messages = call.messages \o Collected(h)
    <3>o. PICK old : old = call.messages
      OBVIOUS
    <3>n. PICK new : new = Collected(h)
      OBVIOUS
    <3>1. old \in Seq(Message) /\ new \in Seq(Message)
      BY <1>1, <1>4, <3>o, <3>n, Fields, CollectedAnswers
    <3>2. \A i \in DOMAIN new : new[i].request = call.request
                               /\ ItemFits(call.request, new[i].item)
      <4>1. CASE IsOwn(h)
        <5>1. \A j \in DOMAIN h : h[j].request = call.request
                                 /\ ItemFits(call.request, h[j].item)
          BY <1>4, <4>1 DEF DatagramOK, IsOwn
        <5>2. /\ Len(new) = Answers(h) /\ Answers(h) \in 0 .. Len(h)
              /\ \A i \in 1 .. Answers(h) : new[i] = h[i]
          BY <1>4, <3>n, <4>1, CollectedAnswers, AnswersCount
        <5>3. \A i \in DOMAIN new : i \in DOMAIN h /\ new[i] = h[i]
          BY <1>4, <3>1, <5>2
        <5> QED BY <5>1, <5>3
      <4>2. CASE ~IsOwn(h)
        BY <1>4, <3>n, <4>2, CollectedAnswers
      <4> QED BY <4>1, <4>2
    <3>3. \A j \in DOMAIN call'.messages :
            \/ j \in DOMAIN old /\ call'.messages[j] = old[j]
            \/ \E i \in DOMAIN new : call'.messages[j] = new[i]
      <4>t. PICK t : t = old \o new
        OBVIOUS
      <4>1. /\ \A j \in DOMAIN old : t[j] = old[j]
            /\ \A j \in DOMAIN t :
                 \/ j \in DOMAIN old
                 \/ \E i \in DOMAIN new : j = Len(old) + i /\ t[j] = new[i]
        <5>1. Joins(t, old, new)
          BY <4>t DEF Joins
        <5> QED BY <3>1, <5>1, ConcatFacts
      <4>2. call'.messages = t
        BY <2>2, <3>o, <3>n, <4>t
      <4> QED BY <4>1, <4>2
    <3>4. \A j \in DOMAIN old : old[j].request = call.request
                               /\ ItemFits(call.request, old[j].item)
      BY <3>o DEF TransportOK, CollectedOK
    <3> QED BY <1>4, <3>2, <3>3, <3>4 DEF CollectedOK
  <2> QED BY <1>h, <2>1, <2>2, ReceiveCall
(* A datagram that ends the request is not the first one, if it goes on.   *)
<1>10. ASSUME Waiting', ~OwnDump
       PROVE  \E k \in DOMAIN rest : IsOwn(rest[k]) /\ EndKind(rest[k]) # "answer"
  <2>1. call.dump /\ ~(IsOwn(h) /\ EndKind(h) = "done") /\ ~(IsOwn(h) /\ EndKind(h) = "error")
    BY <1>h, <1>10, ReceiveCall DEF Waiting
  <2>2. PICK k \in DOMAIN queue : IsOwn(queue[k]) /\ EndKind(queue[k]) # "answer"
    BY <1>2, <1>10, <2>1 DEF TransportOK, WaitOK
  <2>3. EndKind(h) \in {"answer", "error", "done"}
    BY <1>4, AnswersCount
  <2>4. k # 1
    BY <1>5, <2>1, <2>2, <2>3
  <2>5. k - 1 \in DOMAIN rest /\ rest[k - 1] = queue[k]
    BY <1>3, <2>4
  <2> QED BY <2>2, <2>5
<1>11. CASE ~dump.running
  <2>1. queue' = rest /\ UNCHANGED <<dump, listing>>
    BY <1>r, <1>11, ReceiveQueue
  <2>2. QueueOK'
    <3> SUFFICES ASSUME NEW k \in DOMAIN rest PROVE DatagramOK(queue[k])'
      BY <2>1 DEF QueueOK
    <3> PICK d : d = rest[k]
      OBVIOUS
    <3>1. DatagramOK(d)' /\ d = queue'[k]
      BY <1>7, <1>8, <2>1
    <3> QED BY <3>1 DEF DatagramOK
  <2>3. DumpOK'
    BY <1>11, <2>1 DEF DumpOK
  <2>4. WaitOK'
    <3> SUFFICES ASSUME Waiting'
                 PROVE  queue' # <<>> /\ \E k \in DOMAIN queue' :
                          IsOwn(queue[k])' /\ EndKind(queue[k])' # "answer"
      BY DEF WaitOK
    <3>1. PICK k \in DOMAIN rest : IsOwn(rest[k]) /\ EndKind(rest[k]) # "answer"
      BY <1>10, <1>11 DEF OwnDump
    <3>2. k \in DOMAIN queue' /\ queue'[k] = rest[k]
      BY <2>1
    <3>3. IsOwn(queue[k])' /\ EndKind(queue[k])' # "answer"
      BY <1>2, <3>1, <3>2 DEF IsOwn, EndKind
    <3>4. queue' # <<>>
      BY <2>1, <3>2
    <3> QED BY <3>2, <3>3, <3>4
  <2>5. TransportTypes'
    BY <1>1, <1>2, <1>3, <1>4, <1>T, <2>1 DEF TransportTypes
  <2> QED BY <1>9, <2>2, <2>3, <2>4, <2>5 DEF TransportOK
<1>12. CASE dump.running
  <2>1. PICK nd : /\ Sends(nd, dump, listing)
                  /\ Answering(nd, dump.sequence, dump.request)
                  /\ queue' = Append(rest, nd)
    BY <1>r, <1>12, ReceiveQueue
  <2>2. nd \in T
    BY <1>T, <2>1 DEF Answering
  <2>l. PICK last : last = Len(rest) + 1
    OBVIOUS
  <2>3. /\ queue' \in Seq(T) /\ queue' # <<>>
        /\ last \in DOMAIN queue' /\ queue'[last] = nd
        /\ \A k \in DOMAIN rest : k \in DOMAIN queue' /\ queue'[k] = rest[k]
        /\ \A k \in DOMAIN queue' : k = last \/ k \in DOMAIN rest
    <3>1. /\ queue' \in Seq(T) /\ queue' # <<>>
          /\ Len(rest) + 1 \in DOMAIN queue' /\ queue'[Len(rest) + 1] = nd
          /\ \A k \in DOMAIN rest : k \in DOMAIN queue' /\ queue'[k] = rest[k]
          /\ \A k \in DOMAIN queue' : k = Len(rest) + 1 \/ k \in DOMAIN rest
      <4>q. PICK q : q = Append(rest, nd)
        OBVIOUS
      <4>1. /\ q \in Seq(T) /\ q # <<>>
            /\ Len(rest) + 1 \in DOMAIN q /\ q[Len(rest) + 1] = nd
            /\ \A k \in DOMAIN rest : k \in DOMAIN q /\ q[k] = rest[k]
            /\ \A k \in DOMAIN q : k = Len(rest) + 1 \/ k \in DOMAIN rest
        BY <1>3, <2>2, <4>q, AppendFacts
      <4>2. queue' = q
        BY <2>1, <4>q
      <4> QED BY <4>1, <4>2
    <3> QED BY <2>l, <3>1
  <2>4. /\ dump.sequence >= 1 /\ dump.sequence <= sequence
        /\ dump.sequence = sequence => dump.request = call.request /\ call.dump
        /\ \A j \in DOMAIN dump.items : ItemFits(dump.request, dump.items[j])
    BY <1>2, <1>12 DEF TransportOK, DumpOK
  <2>5. dump.sequence \in Nat
    BY <1>1, Fields
  <2>6. DatagramOK(nd)
    <3> PICK n, r : n = dump.sequence /\ r = dump.request
      OBVIOUS
    <3>1. Answering(nd, n, r) /\ n \in Nat /\ n >= 1 /\ n <= sequence
          /\ (n = sequence => r = call.request)
      BY <2>1, <2>4, <2>5
    <3> QED BY <3>1, AnsweringOK
  <2>7. QueueOK'
    <3> SUFFICES ASSUME NEW k \in DOMAIN queue' PROVE DatagramOK(queue[k])'
      BY DEF QueueOK
    <3> PICK d : d = queue'[k]
      OBVIOUS
    <3>1. DatagramOK(d)'
      BY <1>7, <1>8, <2>3, <2>6
    <3> QED BY <3>1 DEF DatagramOK
  <2>8. Answers(nd) \in 0 .. Len(dump.items)
    BY <1>1, <2>1, <2>4, SendsAnswering
  <2>9. listing' \in Enumeration
    BY <1>1, <2>1, BrokenType DEF Sends
  <2>10. \/ EndKind(nd) = "answer" /\ dump' = Rest(dump, Answers(nd))
         \/ EndKind(nd) = "done" /\ dump' = NoDump
    BY <2>1 DEF Sends
  <2>11. /\ dump' \in Dump
         /\ dump'.running => /\ dump'.sequence = dump.sequence
                             /\ dump'.request = dump.request
                             /\ \A j \in DOMAIN dump'.items :
                                  ItemFits(dump.request, dump'.items[j])
         /\ dump'.running \/ EndKind(nd) = "done"
    <3>1. CASE EndKind(nd) = "answer" /\ dump' = Rest(dump, Answers(nd))
      BY <1>1, <1>12, <2>4, <2>8, <3>1, RestType
    <3>2. CASE EndKind(nd) = "done" /\ dump' = NoDump
      BY <3>2, NoDumpType
    <3> QED BY <2>10, <3>1, <3>2
  <2>12. DumpOK'
    BY <1>2, <1>4, <2>3, <2>4, <2>11 DEF DumpOK, Waiting
  <2>13. WaitOK'
    <3>1. CASE ~OwnDump
      <4> SUFFICES ASSUME Waiting'
                   PROVE  \E k \in DOMAIN queue' :
                            IsOwn(queue[k])' /\ EndKind(queue[k])' # "answer"
        BY <2>3 DEF WaitOK
      <4>1. PICK k \in DOMAIN rest : IsOwn(rest[k]) /\ EndKind(rest[k]) # "answer"
        BY <1>10, <3>1
      <4>2. k \in DOMAIN queue' /\ queue'[k] = rest[k]
        BY <2>3
      <4>3. IsOwn(queue[k])' /\ EndKind(queue[k])' # "answer"
        BY <1>2, <4>1, <4>2 DEF IsOwn, EndKind
      <4> QED BY <4>2, <4>3
    <3>2. CASE OwnDump /\ dump'.running
      <4>1. OwnDump'
        BY <1>2, <2>11, <3>2 DEF OwnDump
      <4> QED BY <2>3, <4>1 DEF WaitOK
    <3>3. CASE OwnDump /\ EndKind(nd) = "done"
      <4>1. IsOwn(nd)
        BY <2>1, <3>3 DEF Answering, IsOwn, OwnDump
      <4>2. IsOwn(queue[last])' /\ EndKind(queue[last])' # "answer"
        BY <1>2, <2>3, <3>3, <4>1 DEF IsOwn, EndKind
      <4> QED BY <2>3, <4>2 DEF WaitOK
    <3> QED BY <2>11, <3>1, <3>2, <3>3
  <2>14. TransportTypes'
    BY <1>1, <1>2, <1>4, <1>T, <2>3, <2>9, <2>11 DEF TransportTypes
  <2> QED BY <1>9, <2>7, <2>12, <2>13, <2>14 DEF TransportOK
<1> QED BY <1>11, <1>12
-----------------------------------------------------------------------------
(* The program's part of the invariant.                                    *)

(* Which of its cases a successful reply is.                               *)
LEMMA ApplyCases ==
  ASSUME NEW r \in Request, NEW ms, Apply(r, ms)
  PROVE  \/ r.command = "connect" /\ Fail
         \/ /\ r.command = "connect" /\ agenda' = Tail(agenda)
            /\ UNCHANGED <<wiphys, devices, found, outcome, culprit>>
         \/ /\ r.command = "wiphy" /\ agenda' = Tail(agenda)
            /\ UNCHANGED <<devices, found, outcome, culprit>>
         \/ /\ r.command = "interface"
            /\ \E list : /\ list = [i \in DOMAIN Parsed(ms) |-> Parsed(ms)[i].item.id]
                        /\ devices' = Range(list)
                        /\ agenda' = Queries("wifi", list)
                        /\ \/ found' = {[field |-> Ask("wiphy", i),
                                         from |-> Ask("wiphy", 0)] : i \in Range(list)}
                           \/ found' = {}
            /\ UNCHANGED <<outcome, culprit>>
         \/ /\ ~Required(r) /\ Fill(r, ms) /\ agenda' = Tail(agenda)
            /\ UNCHANGED <<devices, outcome, culprit>>
<1>1. CASE r.command = "connect"
  <2>1. IF Usable(ms) = {} THEN Fail
        ELSE /\ agenda' = Tail(agenda)
             /\ UNCHANGED <<wiphys, devices, found, outcome, culprit>>
    BY <1>1 DEF Apply
  <2> QED BY <1>1, <2>1
<1>2. CASE r.command = "wiphy"
  <2>1. /\ agenda' = Tail(agenda)
        /\ UNCHANGED <<devices, found, outcome, culprit>>
    BY <1>2 DEF Apply
  <2> QED BY <1>2, <2>1
<1>3. CASE r.command = "interface"
  <2>0. PICK list : list = [i \in DOMAIN Parsed(ms) |-> Parsed(ms)[i].item.id]
    OBVIOUS
  <2>1. /\ devices' = Range(list)
        /\ agenda' = Queries("wifi", list)
        /\ found' = IF wiphys
                    THEN {[field |-> Ask("wiphy", i),
                           from |-> Ask("wiphy", 0)] : i \in Range(list)}
                    ELSE {}
        /\ UNCHANGED <<outcome, culprit>>
    BY <1>3, <2>0, Zenon DEF Apply
  <2>2. \/ found' = {[field |-> Ask("wiphy", i),
                     from |-> Ask("wiphy", 0)] : i \in Range(list)}
        \/ found' = {}
    BY <2>1, Zenon
  <2> QED BY <1>3, <2>0, <2>1, <2>2, Zenon
<1>4. CASE r.command \notin {"connect", "wiphy", "interface"}
  <2>1. /\ Fill(r, ms) /\ agenda' = Tail(agenda)
        /\ UNCHANGED <<devices, outcome, culprit>>
    BY <1>4 DEF Apply
  <2>2. ~Required(r)
    BY <1>4 DEF Required
  <2> QED BY <2>1, <2>2
<1> QED BY <1>1, <1>2, <1>3, <1>4

(* The enumeration starts in the invariant.                                *)
LEMMA InitOK == Init => IInv
<1> SUFFICES ASSUME Init PROVE IInv
  OBVIOUS
<1>1. /\ sequence = 0 /\ queue = <<>> /\ dump = NoDump /\ faults = 0
      /\ listing = NoListing
      /\ call = Idle(Ask("connect", 0))
  BY DEF Init, TransportInit, Ask
<1>2. call \in Call /\ call.state = "idle" /\ call.messages = <<>>
  <2>1. Ask("connect", 0) \in Request
    BY AskType
  <2> QED BY <1>1, <2>1, CallType DEF Idle
<1>3. listing \in Enumeration
  BY <1>1 DEF NoListing, Enumeration
<1>4. TransportTypes
  BY <1>1, <1>2, <1>3, NoDumpType, GenericNetlinkAssumption DEF TransportTypes
<1>5. TransportOK
  BY <1>1, <1>2, <1>4, NoDumpType
     DEF TransportOK, QueueOK, DumpOK, WaitOK, CollectedOK, Waiting
<1>6. /\ agenda \in Seq(Request)
      /\ \A k \in DOMAIN agenda : Required(agenda[k])
  <2>a. PICK a, b, c : /\ a = Ask("connect", 0) /\ b = Ask("wiphy", 0)
                       /\ c = Ask("interface", 0)
    OBVIOUS
  <2>1. agenda = <<>> \/ agenda = <<a, b, c>>
    BY <2>a DEF Init
  <2>2. /\ a \in Request /\ b \in Request /\ c \in Request
        /\ Required(a) /\ Required(b) /\ Required(c)
    BY <2>a, AskType DEF Required
  <2>3. CASE agenda = <<>>
    BY <2>3
  <2>4. CASE agenda = <<a, b, c>>
    BY <2>2, <2>4
  <2> QED BY <2>1, <2>3, <2>4
<1>7. ProgramTypes /\ AnswersBelong
  BY <1>6 DEF Init, ProgramTypes, AnswersBelong
<1>8. Enumerating
  <2>1. found = {} /\ answered = {} /\ ~dump.running
    BY <1>1, NoDumpType DEF Init
  <2>2. \A k \in DOMAIN agenda : \A j \in 1 .. k : j \in DOMAIN agenda
    BY <1>6
  <2> QED BY <1>6, <2>1, <2>2 DEF Enumerating
<1>9. AgendaOK
  BY <1>1, <1>2, <1>8 DEF Init, AgendaOK, AtRequest, FreshOK, NotedOK, CulpritOK
<1> QED BY <1>5, <1>7, <1>9 DEF IInv

(* What NoteAnswers adds was in the socket.                                *)
LEMMA Noting ==
  ASSUME NoteAnswers
  PROVE  /\ NotedOK'
         /\ \A x \in answered' :
              \/ x \in answered
              \/ \E k \in DOMAIN queue' : \E j \in DOMAIN queue'[k] :
                   /\ queue'[k][j].kind = "answer" /\ queue'[k][j].item.useful
                   /\ x = queue'[k][j].request
         /\ answered \subseteq answered'
<1> DEFINE sent == UNION {Range(queue'[i]) : i \in DOMAIN queue'}
           new == {m.request : m \in {s \in sent : s.kind = "answer" /\ s.item.useful}}
<1>1. answered' = answered \union new
  BY DEF NoteAnswers
<1>2. \A m : m \in sent <=> \E k \in DOMAIN queue' : \E j \in DOMAIN queue'[k] :
                              m = queue'[k][j]
  BY DEF Range
<1> HIDE DEF sent
<1>3. NotedOK'
  BY <1>1, <1>2 DEF NotedOK
<1>4. \A x \in new : \E m \in sent : m.kind = "answer" /\ m.item.useful /\ x = m.request
  OBVIOUS
<1> HIDE DEF new
<1> QED BY <1>1, <1>2, <1>3, <1>4

(* The kernel's dump after a request is the one it had, or this request's. *)
LEMMA ServedDump ==
  ASSUME NEW r, NEW isDump \in BOOLEAN, NEW nd, Served(nd, r, isDump)
  PROVE  dump'.running => dump' = dump \/ dump'.request = r
<1>1. CASE UNCHANGED <<dump, listing>>
  BY <1>1
<1>2. CASE \E d \in Dump, l \in Enumeration :
             /\ Sends(nd, d, l)
             /\ d.running /\ d.sequence = sequence + 1 /\ d.request = r
             /\ \A j \in DOMAIN d.items : ItemFits(r, d.items[j])
             /\ l.sequence = sequence + 1 /\ l.items = d.items
  <2>1. PICK d \in Dump, l \in Enumeration :
             /\ Sends(nd, d, l) /\ d.request = r
             /\ \A j \in DOMAIN d.items : ItemFits(r, d.items[j])
    BY <1>2
  <2>2. Answers(nd) \in 0 .. Len(d.items)
    BY <2>1, SendsAnswering
  <2>3. dump' = Rest(d, Answers(nd)) \/ dump' = NoDump
    BY <2>1 DEF Sends
  <2> QED BY <2>1, <2>2, <2>3, RestType, NoDumpType
<1> QED BY <1>1, <1>2 DEF Served

(* A request is answered at once or later.                                 *)
LEMMA NextRequestNews ==
  ASSUME IInv, NextRequest, NEW r, r = Head(agenda)
  PROVE  /\ r \in Request /\ IsDump(r) \in BOOLEAN /\ Send(r, IsDump(r), Lists(r))
         /\ \E nd : Served(nd, r, IsDump(r))
         /\ \A x \in answered' : x \in answered \/ x = r
         /\ dump'.running => dump' = dump \/ dump'.request = r
<1>d. PICK isDump : isDump = IsDump(r)
  OBVIOUS
<1>1. /\ agenda # <<>> /\ agenda \in Seq(Request) /\ queue \in Seq(Seq(Message))
      /\ NoteAnswers /\ sequence \in Nat
  BY DEF NextRequest, IInv, ProgramTypes, TransportOK, TransportTypes
<1>2. r \in Request
  BY <1>1
<1>3. isDump \in BOOLEAN /\ Send(r, isDump, Lists(r))
  <2>1. IsDump(r) \in BOOLEAN
    BY DEF IsDump
  <2> QED BY <1>d, <2>1 DEF NextRequest
<1>4. PICK nd : Served(nd, r, isDump)
  <2>1. Serve(sequence + 1, r, isDump, Lists(r))
    BY <1>3 DEF Send
  <2> QED BY <1>1, <1>2, <1>3, <2>1, SendServes
<1>5. Answering(nd, sequence + 1, r) /\ queue' = Append(queue, nd)
  BY <1>4 DEF Served
<1>6. \A x \in answered' : x \in answered \/ x = r
  <2>T. PICK T : T = Seq(Message)
    OBVIOUS
  <2>1. nd \in T /\ \A j \in DOMAIN nd : nd[j].request = r
    BY <1>5, <2>T DEF Answering
  <2>2. queue \in Seq(T)
    BY <1>1, <2>T
  <2>3. \A k \in DOMAIN queue' : queue'[k] = nd \/ (k \in DOMAIN queue /\ queue'[k] = queue[k])
    BY <1>5, <2>1, <2>2, AppendFacts
  <2> SUFFICES ASSUME NEW x \in answered', x \notin answered PROVE x = r
    OBVIOUS
  <2>4. PICK k \in DOMAIN queue' : \E j \in DOMAIN queue'[k] :
             /\ queue'[k][j].kind = "answer" /\ queue'[k][j].item.useful
             /\ x = queue'[k][j].request
    BY <1>1, Noting
  <2> QED BY <2>1, <2>3, <2>4 DEF IInv, AgendaOK, NotedOK
<1>7. dump'.running => dump' = dump \/ dump'.request = r
  BY <1>3, <1>4, ServedDump
<1> QED BY <1>d, <1>2, <1>3, <1>4, <1>6, <1>7

(* Making the next request of the agenda preserves the invariant.          *)
LEMMA NextRequestOK ==
  ASSUME IInv, NextRequest
  PROVE  IInv'
<1>r. PICK r : r = Head(agenda)
  OBVIOUS
<1>d. PICK isDump : isDump = IsDump(r)
  OBVIOUS
<1>1. /\ Running /\ call.state = "idle" /\ agenda # <<>> /\ agenda \in Seq(Request)
      /\ UNCHANGED <<tool, agenda, wiphys, devices, found, outcome, culprit>>
      /\ NoteAnswers /\ TransportOK /\ queue \in Seq(Seq(Message))
  BY DEF NextRequest, program, IInv, ProgramTypes, TransportOK, TransportTypes
<1>2. r \in Request /\ r = agenda[1] /\ 1 \in DOMAIN agenda
  BY <1>r, <1>1
<1>3. isDump \in BOOLEAN /\ Send(r, isDump, Lists(r))
  <2>1. IsDump(r) \in BOOLEAN
    BY DEF IsDump
  <2> QED BY <1>r, <1>d, <2>1 DEF NextRequest
<1>4. TransportOK'
  BY <1>1, <1>2, <1>3, SendOK
<1>5. /\ sequence \in Nat /\ sequence' = sequence + 1
      /\ call' = [state |-> "waiting", request |-> r, dump |-> isDump, messages |-> <<>>]
      /\ Serve(sequence + 1, r, isDump, Lists(r))
  BY <1>3 DEF Send, IInv, TransportOK, TransportTypes
<1>6. call'.request = r
  BY <1>2, <1>3, <1>5, CallType
<1>9. ProgramTypes' /\ AnswersBelong'
  BY <1>1 DEF IInv, ProgramTypes, AnswersBelong
<1>10. AtRequest' /\ FreshOK'
  BY <1>r, <1>1, <1>5, <1>6 DEF AtRequest, FreshOK, Running
<1>11. /\ \A x \in answered' : x \in answered \/ x = r
       /\ dump'.running => dump' = dump \/ dump'.request = r
  BY <1>r, NextRequestNews
<1>12. Enumerating'
  <2> SUFFICES ASSUME NEW k \in DOMAIN agenda, Required(agenda[k])
               PROVE  /\ found = {}
                      /\ \A x \in answered' : Required(x)
                      /\ dump'.running => Required(dump'.request)
                      /\ \A j \in 1 .. k : Required(agenda[j])
    BY <1>1 DEF Enumerating
  <2>1. /\ found = {}
        /\ \A x \in answered : Required(x)
        /\ dump.running => Required(dump.request)
        /\ \A j \in 1 .. k : Required(agenda[j])
    BY DEF IInv, AgendaOK, Enumerating
  <2>2. Required(r)
    BY <1>1, <1>2, <2>1
  <2> QED BY <1>11, <2>1, <2>2
<1>13. CulpritOK'
  BY <1>1 DEF CulpritOK, Running
<1>14. NotedOK'
  BY <1>1, Noting
<1> QED BY <1>4, <1>9, <1>10, <1>12, <1>13, <1>14 DEF IInv, AgendaOK

(* A request that cannot be sent preserves the invariant.                  *)
LEMMA RequestFailsOK ==
  ASSUME IInv, RequestFails
  PROVE  IInv'
<1>r. PICK r : r = Head(agenda)
  OBVIOUS
<1>d. PICK isDump : isDump = IsDump(r)
  OBVIOUS
<1>1. /\ Running /\ call.state = "idle" /\ agenda # <<>> /\ agenda \in Seq(Request)
      /\ UNCHANGED <<tool, agenda, wiphys, devices, found, outcome, culprit, answered>>
      /\ TransportOK
  BY DEF RequestFails, program, IInv, ProgramTypes
<1>2. r \in Request
  BY <1>r, <1>1
<1>3. isDump \in BOOLEAN /\ SendFails(r, isDump)
  <2>1. IsDump(r) \in BOOLEAN
    BY DEF IsDump
  <2> QED BY <1>r, <1>d, <2>1 DEF RequestFails
<1>4. TransportOK'
  BY <1>1, <1>2, <1>3, SendFailsOK
<1>5. /\ call' = [state |-> "error", request |-> r, dump |-> isDump, messages |-> <<>>]
      /\ UNCHANGED <<queue, dump>>
  BY <1>3 DEF SendFails
<1>6. call'.request = r
  BY <1>2, <1>3, <1>5, CallType
<1>7. ProgramTypes' /\ AnswersBelong'
  BY <1>1 DEF IInv, ProgramTypes, AnswersBelong
<1>8. AtRequest' /\ FreshOK'
  <2>1. sequence \in Nat /\ sequence' = sequence + 1
    BY <1>1, <1>3 DEF SendFails, TransportOK, TransportTypes
  <2> QED BY <1>r, <1>1, <1>6, <2>1 DEF AtRequest, FreshOK, Running
<1>9. Enumerating' /\ NotedOK'
  BY <1>1, <1>5 DEF IInv, AgendaOK, Enumerating, NotedOK
<1>10. CulpritOK'
  BY <1>1 DEF CulpritOK, Running
<1> QED BY <1>4, <1>7, <1>8, <1>9, <1>10 DEF IInv, AgendaOK

(* What is answered to a recv is answered by the kernel's dump.            *)
LEMMA TakeDatagramNews ==
  ASSUME IInv, TakeDatagram
  PROVE  /\ \A x \in answered' : x \in answered \/ (dump.running /\ x = dump.request)
         /\ dump'.running => dump.running /\ dump'.request = dump.request
<1>1. /\ Receive /\ NoteAnswers /\ TransportOK
      /\ queue \in Seq(Seq(Message)) /\ queue # <<>>
  BY DEF TakeDatagram, Receive, IInv, TransportOK, TransportTypes
<1>7. \A x \in answered' : x \in answered \/ (dump.running /\ x = dump.request)
  <2>T. PICK T : T = Seq(Message)
    OBVIOUS
  <2>r. PICK rest : rest = Tail(queue)
    OBVIOUS
  <2>1. /\ rest \in Seq(T)
        /\ \A k \in DOMAIN rest : k + 1 \in DOMAIN queue /\ rest[k] = queue[k + 1]
    BY <1>1, <2>T, <2>r, TailFacts
  <2> SUFFICES ASSUME NEW x \in answered', x \notin answered
               PROVE  dump.running /\ x = dump.request
    OBVIOUS
  <2>2. PICK k \in DOMAIN queue' : \E j \in DOMAIN queue'[k] :
             /\ queue'[k][j].kind = "answer" /\ queue'[k][j].item.useful
             /\ x = queue'[k][j].request
    BY <1>1, Noting
  <2>3. ~(k \in DOMAIN rest /\ queue'[k] = rest[k])
    <3> SUFFICES ASSUME k \in DOMAIN rest, queue'[k] = rest[k] PROVE FALSE
      OBVIOUS
    <3>1. k + 1 \in DOMAIN queue /\ queue'[k] = queue[k + 1]
      BY <2>1
    <3> QED BY <2>2, <3>1 DEF IInv, AgendaOK, NotedOK
  <2>4. CASE ~dump.running
    <3>1. queue' = rest
      BY <1>1, <2>r, <2>4, ReceiveQueue
    <3> QED BY <2>3, <3>1
  <2>5. CASE dump.running
    <3>1. PICK nd : Answering(nd, dump.sequence, dump.request) /\ queue' = Append(rest, nd)
      BY <1>1, <2>r, <2>5, ReceiveQueue
    <3>2. nd \in T /\ \A j \in DOMAIN nd : nd[j].request = dump.request
      BY <2>T, <3>1 DEF Answering
    <3>q. PICK q : q = Append(rest, nd)
      OBVIOUS
    <3>3. \A i \in DOMAIN q : q[i] = nd \/ (i \in DOMAIN rest /\ q[i] = rest[i])
      BY <2>1, <3>2, <3>q, AppendFacts
    <3>4. queue' = q
      BY <3>1, <3>q
    <3>5. queue'[k] = nd
      BY <2>3, <3>3, <3>4
    <3> QED BY <2>2, <2>5, <3>2, <3>5
  <2> QED BY <2>4, <2>5
<1>8. dump'.running => dump.running /\ dump'.request = dump.request
  <2>1. CASE ~dump.running
    BY <1>1, <2>1, ReceiveQueue
  <2>2. CASE dump.running
    <3>1. PICK nd : Sends(nd, dump, listing)
      BY <1>1, <2>2, ReceiveQueue
    <3>2. dump \in Dump /\ \A j \in DOMAIN dump.items : ItemFits(dump.request, dump.items[j])
      BY <1>1, <2>2 DEF TransportOK, TransportTypes, DumpOK
    <3>3. Answers(nd) \in 0 .. Len(dump.items)
      BY <3>1, <3>2, SendsAnswering
    <3>4. dump' = Rest(dump, Answers(nd)) \/ dump' = NoDump
      BY <3>1 DEF Sends
    <3> QED BY <2>2, <3>2, <3>3, <3>4, RestType, NoDumpType
  <2> QED BY <2>1, <2>2
<1> QED BY <1>7, <1>8

(* Receiving a datagram preserves the invariant.                           *)
LEMMA TakeDatagramOK ==
  ASSUME IInv, TakeDatagram
  PROVE  IInv'
<1>1. /\ UNCHANGED <<tool, agenda, wiphys, devices, found, outcome, culprit>>
      /\ Receive /\ NoteAnswers /\ TransportOK /\ UNCHANGED sequence
      /\ queue \in Seq(Seq(Message)) /\ queue # <<>> /\ call.state = "waiting"
  BY DEF TakeDatagram, Receive, program, IInv, TransportOK, TransportTypes
<1>2. TransportOK'
  BY <1>1, ReceiveOK
<1>3. call'.request = call.request
  BY <1>1, ReceiveCall
<1>4. ProgramTypes' /\ AnswersBelong'
  BY <1>1 DEF IInv, ProgramTypes, AnswersBelong
<1>5. AtRequest' /\ FreshOK' /\ Running
  BY <1>1, <1>3 DEF IInv, AgendaOK, AtRequest, FreshOK, Running
<1>6. CulpritOK' /\ NotedOK'
  BY <1>1, <1>5, Noting DEF CulpritOK, Running
<1>7. /\ \A x \in answered' : x \in answered \/ (dump.running /\ x = dump.request)
      /\ dump'.running => dump.running /\ dump'.request = dump.request
  BY TakeDatagramNews
<1>9. Enumerating'
  BY <1>1, <1>7 DEF IInv, AgendaOK, Enumerating
<1> QED BY <1>2, <1>4, <1>5, <1>6, <1>9 DEF IInv, AgendaOK

(* A failing recv preserves the invariant.                                 *)
LEMMA LoseDatagramOK ==
  ASSUME IInv, LoseDatagram
  PROVE  IInv'
<1>1. /\ UNCHANGED <<tool, agenda, wiphys, devices, found, outcome, culprit, answered>>
      /\ ReceiveFails /\ TransportOK /\ UNCHANGED <<sequence, queue, dump>>
      /\ call.state = "waiting"
  BY DEF LoseDatagram, ReceiveFails, program, IInv
<1>2. TransportOK' /\ call'.request = call.request
  BY <1>1, ReceiveFailsOK
<1>3. ProgramTypes' /\ AnswersBelong'
  BY <1>1 DEF IInv, ProgramTypes, AnswersBelong
<1>4. AtRequest' /\ FreshOK' /\ CulpritOK'
  BY <1>1, <1>2 DEF IInv, AgendaOK, AtRequest, FreshOK, CulpritOK, Running
<1>5. Enumerating' /\ NotedOK'
  BY <1>1 DEF IInv, AgendaOK, Enumerating, NotedOK
<1> QED BY <1>2, <1>3, <1>4, <1>5 DEF IInv, AgendaOK

(* Only the rest of the agenda is left to do.                              *)
LEMMA TailEnumerating ==
  ASSUME agenda \in Seq(Request), agenda # <<>>, Enumerating,
         agenda' = Tail(agenda), UNCHANGED <<answered, dump>>,
         found' = found \/ ~Required(Head(agenda))
  PROVE  agenda' \in Seq(Request) /\ Enumerating'
<1>t. PICK t : t = Tail(agenda)
  OBVIOUS
<1>1. /\ t \in Seq(Request) /\ Len(agenda) \in Nat
      /\ \A k \in DOMAIN t : k + 1 \in DOMAIN agenda /\ t[k] = agenda[k + 1]
  BY <1>t, TailFacts
<1>2. agenda' = t
  BY <1>t
<1>3. Head(agenda) = agenda[1] /\ DOMAIN t = 1 .. Len(t) /\ Len(t) \in Nat
  BY <1>1
<1>4. Enumerating'
  <2> SUFFICES ASSUME NEW k \in DOMAIN t, Required(t[k])
               PROVE  /\ found' = {}
                      /\ \A r \in answered : Required(r)
                      /\ dump.running => Required(dump.request)
                      /\ \A j \in 1 .. k : Required(t[j])
    BY <1>2 DEF Enumerating
  <2>1. k + 1 \in DOMAIN agenda /\ t[k] = agenda[k + 1]
    BY <1>1
  <2>2. /\ found = {}
        /\ \A r \in answered : Required(r)
        /\ dump.running => Required(dump.request)
        /\ \A j \in 1 .. k + 1 : Required(agenda[j])
    BY <2>1 DEF Enumerating
  <2>3. k \in Nat
    BY <1>3
  <2>4. Required(Head(agenda))
    BY <1>3, <2>2, <2>3
  <2>5. \A j \in 1 .. k : j \in DOMAIN t /\ j + 1 \in 1 .. k + 1
    BY <1>3, <2>3
  <2>6. \A j \in 1 .. k : t[j] = agenda[j + 1]
    BY <1>1, <2>5
  <2> QED BY <2>2, <2>4, <2>5, <2>6
<1> QED BY <1>1, <1>2, <1>4

(* The interfaces parsed from the messages have an index.                  *)
LEMMA ParsedIndexes ==
  ASSUME NEW ms \in Seq(Message), NEW list,
         list = [i \in DOMAIN Parsed(ms) |-> Parsed(ms)[i].item.id],
         \A j \in DOMAIN ms : ms[j].item.useful => ms[j].item.id \in Indexes
  PROVE  list \in Seq(Indexes) /\ Range(list) \subseteq Indexes
<1>p. PICK p : p = Parsed(ms)
  OBVIOUS
<1>1. Usable(ms) \in SUBSET DOMAIN ms
  BY DEF Usable
<1>2. /\ p \in Seq(Message) /\ DOMAIN p = 1 .. Len(p)
      /\ \A k \in DOMAIN p : \E q \in Usable(ms) : p[k] = ms[q]
  BY <1>p, <1>1, PickElements DEF Parsed
<1>3. \A k \in DOMAIN p : p[k].item.id \in Indexes
  BY <1>2 DEF Usable
<1>4. list = [i \in DOMAIN p |-> p[i].item.id]
  BY <1>p
<1>5. Len(p) \in Nat
  BY <1>2
<1>6. list \in Seq(Indexes)
  BY <1>2, <1>3, <1>4, <1>5
<1> QED BY <1>6 DEF Range

(* A query is answered from a message of its own.                          *)
LEMMA FillOK ==
  ASSUME NEW r \in Request, NEW ms \in Seq(Message), Fill(r, ms),
         \A j \in DOMAIN ms : ms[j].request = r,
         found \subseteq [field : Request, from : Request], AnswersBelong
  PROVE  /\ found' \subseteq [field : Request, from : Request]
         /\ AnswersBelong'
         /\ Usable(ms) = {} => found' = found
         /\ Usable(ms) # {} => found' = found \union {[field |-> r, from |-> r]}
<1>1. Usable(ms) = {} => found' = found
  BY Zenon DEF Fill
<1>2. ASSUME Usable(ms) # {} PROVE found' = found \union {[field |-> r, from |-> r]}
  <2> DEFINE i == FirstOf(Usable(ms))
  <2>1. found' = found \union {[field |-> r, from |-> ms[i].request]}
    BY <1>2, Zenon DEF Fill
  <2>2. i \in Usable(ms)
    <3>1. Usable(ms) \subseteq Nat
      BY DEF Usable
    <3>2. \E m \in Usable(ms) : \A j \in Usable(ms) : m <= j
      BY <1>2, <3>1, LeastNat
    <3> QED BY <3>2 DEF FirstOf
  <2>3. ms[i].request = r
    BY <2>2 DEF Usable
  <2> QED BY <2>1, <2>3
<1>3. CASE Usable(ms) = {}
  BY <1>1, <1>2, <1>3 DEF AnswersBelong
<1>4. CASE Usable(ms) # {}
  <2>f. PICK f : f = [field |-> r, from |-> r]
    OBVIOUS
  <2>1. found' = found \union {f} /\ f \in [field : Request, from : Request]
        /\ f.from = f.field
    BY <1>2, <1>4, <2>f
  <2> QED BY <1>1, <1>2, <1>4, <2>1 DEF AnswersBelong
<1> QED BY <1>3, <1>4

(* The only fields an enumeration fills are the names of the radios.       *)
LEMMA RadioNames ==
  ASSUME NEW list, Range(list) \subseteq Indexes,
         \/ found' = {[field |-> Ask("wiphy", i),
                       from |-> Ask("wiphy", 0)] : i \in Range(list)}
         \/ found' = {}
  PROVE  \A f \in found' : /\ f \in [field : Request, from : Request]
                           /\ f.field.command = "wiphy" /\ f.from = Ask("wiphy", 0)
<1>1. CASE found' = {}
  BY <1>1
<1>2. CASE found' = {[field |-> Ask("wiphy", i),
                      from |-> Ask("wiphy", 0)] : i \in Range(list)}
  <2> SUFFICES ASSUME NEW i \in Range(list), NEW f,
                      f = [field |-> Ask("wiphy", i), from |-> Ask("wiphy", 0)]
               PROVE  /\ f \in [field : Request, from : Request]
                      /\ f.field.command = "wiphy" /\ f.from = Ask("wiphy", 0)
    BY <1>2
  <2>1. /\ Ask("wiphy", i) \in Request /\ Ask("wiphy", i).command = "wiphy"
        /\ Ask("wiphy", 0) \in Request
    BY AskType
  <2> QED BY <2>1
<1> QED BY <1>1, <1>2

(* What wifi.rs and ethtool.rs do with a reply preserves the invariant.    *)
LEMMA TakeReplyOK ==
  ASSUME IInv, TakeReply
  PROVE  IInv'
<1>r. PICK r : r = call.request
  OBVIOUS
<1>m. PICK ms : ms = call.messages
  OBVIOUS
<1>1. /\ call.state \in {"ok", "error"} /\ call' = Idle(call.request)
      /\ UNCHANGED <<sequence, queue, dump, faults, listing, tool, answered>>
      /\ TransportOK /\ call \in Call
  BY DEF TakeReply, IInv, TransportOK, TransportTypes
<1>2. TransportOK' /\ call'.state = "idle"
  BY <1>1, IdleOK
<1>3. /\ Running /\ agenda # <<>> /\ Head(agenda) = r
      /\ agenda \in Seq(Request)
  BY <1>r, <1>1 DEF IInv, AgendaOK, AtRequest, ProgramTypes
<1>4. /\ r \in Request /\ ms \in Seq(Message)
      /\ \A j \in DOMAIN ms : ms[j].request = r /\ ItemFits(r, ms[j].item)
  BY <1>r, <1>m, <1>1, Fields DEF TransportOK, CollectedOK
<1>5. AtRequest' /\ FreshOK' /\ NotedOK'
  BY <1>1, <1>2 DEF AtRequest, FreshOK, NotedOK, IInv, AgendaOK
<1>6. CASE Fail /\ Required(r)
  <2>1. /\ outcome' = "error" /\ culprit' = r /\ agenda' = <<>>
        /\ UNCHANGED <<wiphys, devices, found>>
    BY <1>r, <1>6 DEF Fail
  <2>2. ProgramTypes' /\ AnswersBelong'
    BY <2>1 DEF IInv, ProgramTypes, AnswersBelong
  <2>3. Enumerating' /\ CulpritOK'
    BY <1>6, <2>1 DEF Enumerating, CulpritOK
  <2> QED BY <1>2, <1>5, <2>2, <2>3 DEF IInv, AgendaOK
<1>7. CASE agenda' = Tail(agenda) /\ UNCHANGED <<devices, found, outcome, culprit>>
  <2>1. agenda' \in Seq(Request) /\ Enumerating'
    BY <1>1, <1>3, <1>7, TailEnumerating DEF IInv, AgendaOK
  <2>2. ProgramTypes' /\ AnswersBelong'
    BY <1>7, <2>1 DEF IInv, ProgramTypes, AnswersBelong
  <2>3. CulpritOK'
    BY <1>1, <1>7 DEF IInv, AgendaOK, CulpritOK
  <2> QED BY <1>2, <1>5, <2>1, <2>2, <2>3 DEF IInv, AgendaOK
<1>8. CASE Apply(r, ms) /\ r.command = "interface"
           /\ \E list : /\ list = [i \in DOMAIN Parsed(ms) |-> Parsed(ms)[i].item.id]
                       /\ devices' = Range(list)
                       /\ agenda' = Queries("wifi", list)
                       /\ \/ found' = {[field |-> Ask("wiphy", i),
                                        from |-> Ask("wiphy", 0)] : i \in Range(list)}
                          \/ found' = {}
           /\ UNCHANGED <<outcome, culprit>>
  <2>1. PICK list : /\ list = [i \in DOMAIN Parsed(ms) |-> Parsed(ms)[i].item.id]
                    /\ devices' = Range(list)
                    /\ agenda' = Queries("wifi", list)
                    /\ \/ found' = {[field |-> Ask("wiphy", i),
                                     from |-> Ask("wiphy", 0)] : i \in Range(list)}
                       \/ found' = {}
    BY <1>8
  <2>2. \A j \in DOMAIN ms : ms[j].item.useful => ms[j].item.id \in Indexes
    BY <1>4, <1>8 DEF ItemFits
  <2>3. list \in Seq(Indexes) /\ Range(list) \subseteq Indexes
    BY <1>4, <2>1, <2>2, ParsedIndexes
  <2>4. /\ agenda' \in Seq(Request)
        /\ \A k \in DOMAIN agenda' : ~Required(agenda'[k])
    BY <2>1, <2>3, QueriesType
  <2>5. \A f \in found' : /\ f \in [field : Request, from : Request]
                          /\ f.field.command = "wiphy" /\ f.from = Ask("wiphy", 0)
    BY <2>1, <2>3, RadioNames
  <2>6. ProgramTypes' /\ AnswersBelong'
    BY <1>8, <2>1, <2>3, <2>4, <2>5 DEF IInv, ProgramTypes, AnswersBelong
  <2>7. Enumerating'
    BY <2>4 DEF Enumerating
  <2>8. CulpritOK'
    BY <1>1, <1>8 DEF IInv, AgendaOK, CulpritOK
  <2> QED BY <1>2, <1>5, <2>6, <2>7, <2>8 DEF IInv, AgendaOK
<1>9. CASE /\ ~Required(r) /\ Fill(r, ms) /\ agenda' = Tail(agenda)
           /\ UNCHANGED <<devices, outcome, culprit>>
  <2>1. agenda' \in Seq(Request) /\ Enumerating'
    BY <1>1, <1>3, <1>9, TailEnumerating DEF IInv, AgendaOK
  <2>2. found' \subseteq [field : Request, from : Request] /\ AnswersBelong'
    BY <1>4, <1>9, FillOK DEF IInv, ProgramTypes
  <2>3. ProgramTypes'
    BY <1>9, <2>1, <2>2 DEF IInv, ProgramTypes
  <2>4. CulpritOK'
    BY <1>1, <1>9 DEF IInv, AgendaOK, CulpritOK
  <2> QED BY <1>2, <1>5, <2>1, <2>2, <2>3, <2>4 DEF IInv, AgendaOK
<1>10. CASE call.state = "ok"
  <2>1. Apply(r, ms)
    BY <1>r, <1>m, <1>10 DEF TakeReply
  <2>2. r.command = "connect" => Required(r)
    BY DEF Required
  <2> QED BY <1>4, <1>6, <1>7, <1>8, <1>9, <2>1, <2>2, ApplyCases
<1>11. CASE call.state = "error"
  <2>1. \/ Required(r) /\ Fail
        \/ Skip
    BY <1>r, <1>11 DEF TakeReply
  <2> QED BY <1>6, <1>7, <2>1 DEF Skip
<1> QED BY <1>1, <1>10, <1>11

(* Listing the links, with which ethtool begins, preserves the invariant.  *)
LEMMA ListLinksOK ==
  ASSUME IInv, ListLinks
  PROVE  IInv'
<1>1. /\ Running /\ agenda = <<>> /\ sequence = 0
      /\ UNCHANGED <<transport, tool, wiphys, found, answered, culprit>>
  BY DEF ListLinks
<1>2. call.state = "idle" /\ UNCHANGED <<sequence, call, queue, dump, faults, listing>>
  BY <1>1 DEF IInv, AgendaOK, AtRequest, transport
<1>3. TransportOK'
  BY <1>2 DEF IInv, TransportOK, TransportTypes, QueueOK, DatagramOK, DumpOK, WaitOK,
              CollectedOK, Waiting, OwnDump, IsOwn, EndKind
<1>4. AnswersBelong' /\ AtRequest' /\ FreshOK' /\ NotedOK'
  BY <1>1, <1>2 DEF IInv, AgendaOK, AnswersBelong, AtRequest, FreshOK, NotedOK
<1>5. CASE outcome' = "error" /\ UNCHANGED <<devices, agenda>>
  <2>1. ProgramTypes' /\ CulpritOK' /\ Enumerating'
    BY <1>1, <1>2, <1>5 DEF IInv, AgendaOK, ProgramTypes, CulpritOK, Enumerating
  <2> QED BY <1>3, <1>4, <2>1 DEF IInv, AgendaOK
<1>6. CASE \E s \in SUBSET Indexes :
             /\ devices' = s \ Loopback
             /\ agenda' = <<Ask("connect", 0)>>
                            \o Queries("ethtool", SetToSeq(devices'))
             /\ UNCHANGED outcome
  <2>d. PICK ds : ds = devices'
    OBVIOUS
  <2>1. /\ ds \subseteq Indexes
        /\ agenda' = <<Ask("connect", 0)>> \o Queries("ethtool", SetToSeq(ds))
        /\ UNCHANGED outcome
    BY <1>6, <2>d
  <2>2. IsFiniteSet(ds)
    BY <2>1, HardwareAssumption, FS_Subset
  <2>l. PICK list : list = SetToSeq(ds)
    OBVIOUS
  <2>3. list \in Seq(ds)
    BY <2>2, <2>l, SetToSeqType
  <2>4. list \in Seq(Indexes)
    BY <2>1, <2>3
  <2>q. PICK q : q = Queries("ethtool", list)
    OBVIOUS
  <2>5. q \in Seq(Request) /\ \A k \in DOMAIN q : ~Required(q[k])
    BY <2>4, <2>q, QueriesType
  <2>c. PICK c : c = Ask("connect", 0)
    OBVIOUS
  <2>6. c \in Request /\ c.command = "connect"
    BY <2>c, AskType
  <2>h. PICK head : head = <<c>>
    OBVIOUS
  <2>7. head \in Seq(Request) /\ \A k \in DOMAIN head : head[k] = c
    BY <2>6, <2>h
  <2>8. Joins(agenda', head, q)
    BY <2>1, <2>l, <2>q, <2>c, <2>h DEF Joins
  <2>9. /\ agenda' \in Seq(Request)
        /\ \A k \in DOMAIN agenda' : \/ (k \in DOMAIN head /\ agenda'[k] = head[k])
                                     \/ \E i \in DOMAIN q : agenda'[k] = q[i]
    BY <2>5, <2>7, <2>8, ConcatFacts
  <2>10. \A k \in DOMAIN agenda' : Required(agenda'[k]) => k = 1
    <3>1. DOMAIN head = {1}
      BY <2>h
    <3> QED BY <2>5, <2>9, <3>1
  <2>11. Enumerating'
    <3>1. found = {} /\ answered = {}
      BY <1>1 DEF IInv, AgendaOK, FreshOK
    <3>2. ~dump.running
      BY <1>1, Fields DEF IInv, TransportOK, TransportTypes, DumpOK
    <3> QED BY <1>1, <1>2, <2>10, <3>1, <3>2 DEF Enumerating
  <2>12. ProgramTypes' /\ CulpritOK'
    BY <1>1, <2>1, <2>d, <2>9 DEF IInv, ProgramTypes, CulpritOK, Running
  <2> QED BY <1>3, <1>4, <2>11, <2>12 DEF IInv, AgendaOK
<1> QED BY <1>5, <1>6 DEF ListLinks

(* A step that leaves the socket and the program's progress as they are.   *)
LEMMA IdleStepOK ==
  ASSUME IInv, UNCHANGED <<transport, tool, agenda, wiphys, devices, found,
                           answered, culprit>>,
         \/ outcome' = outcome
         \/ outcome' = "ok" /\ call.state = "idle"
  PROVE  IInv'
<1>1. UNCHANGED <<sequence, call, queue, dump, faults, listing>>
  BY DEF transport
<1>2. TransportOK'
  BY <1>1 DEF IInv, TransportOK, TransportTypes, QueueOK, DatagramOK, DumpOK, WaitOK,
              CollectedOK, Waiting, OwnDump, IsOwn, EndKind
<1>3. ProgramTypes' /\ AnswersBelong'
  BY DEF IInv, ProgramTypes, AnswersBelong
<1>4. AgendaOK'
  BY <1>1 DEF IInv, AgendaOK, AtRequest, FreshOK, Enumerating, NotedOK, CulpritOK,
              Running
<1> QED BY <1>2, <1>3, <1>4 DEF IInv

(* Every step preserves the inductive invariant.                           *)
LEMMA StepOK == IInv /\ [Next]_vars => IInv'
<1> SUFFICES ASSUME IInv, [Next]_vars PROVE IInv'
  OBVIOUS
<1>1. CASE UNCHANGED vars
  <2>1. UNCHANGED <<transport, tool, agenda, wiphys, devices, found, answered, culprit,
                    outcome>>
    BY <1>1 DEF vars, program
  <2> QED BY <2>1, IdleStepOK
<1>2. CASE Return
  BY <1>2, IdleStepOK DEF Return
<1>3. CASE Stopped
  BY <1>1, <1>3 DEF Stopped
<1> QED BY <1>1, <1>2, <1>3, ListLinksOK, NextRequestOK, RequestFailsOK, TakeDatagramOK,
           LoseDatagramOK, TakeReplyOK DEF Next

(* The inductive invariant holds of every state of the client, its socket  *)
(* and the enumeration.                                                    *)
THEOREM Invariance == Spec => []IInv
BY InitOK, StepOK, PTL DEF Spec

(* Every variable keeps its type.                                          *)
THEOREM TypeCorrect == Spec => []TypeOK
<1>1. IInv => TypeOK
  BY Fields DEF IInv, TransportOK, TransportTypes, ProgramTypes, TypeOK
<1> QED BY <1>1, Invariance, PTL

(* A client blocked in recv, which has no timeout, always has a datagram   *)
(* to receive, whatever earlier requests left in the socket.               *)
THEOREM NoStall == Spec => []NeverStuck
<1>1. IInv => NeverStuck
  BY DEF IInv, TransportOK, WaitOK, Waiting, NeverStuck
<1> QED BY <1>1, Invariance, PTL

(* Every field was filled from the answer to its own query.                *)
THEOREM FieldsBelong == Spec => []AnswersBelong
<1>1. IInv => AnswersBelong
  BY DEF IInv
<1> QED BY <1>1, Invariance, PTL
-----------------------------------------------------------------------------
(* A dump is returned complete.                                            *)

(* Nothing of request n is in the queue.                                   *)
LEMMA AlignedNone ==
  ASSUME NEW T, NEW q \in Seq(T), NEW items, Len(items) \in Nat, NEW n, NEW w,
         \A k \in DOMAIN q : q[k][1].sequence # n
  PROVE  Aligned(q, <<>>, items, n, 0, w)
<1>m. PICK m : m = Len(q) + 1
  OBVIOUS
<1>o. PICK off : off = [k \in 1 .. m |-> 0]
  OBVIOUS
<1>1. m \in Nat /\ m >= 1 /\ \A k \in DOMAIN q : k \in 1 .. m /\ k + 1 \in 1 .. m
  BY <1>m
<1>2. off \in [1 .. m -> Nat] /\ \A k \in 1 .. m : off[k] = 0
  BY <1>o
<1>3. \A k \in DOMAIN q : Advances(q[k], off[k], off[k + 1], items, n, w)
  BY <1>1, <1>2 DEF Advances
<1>4. off[1] = 0 /\ off[m] = 0
  BY <1>1, <1>2
<1>5. Len(<<>>) = 0 /\ DOMAIN <<>> = {}
  OBVIOUS
<1>6. \E f \in [1 .. m -> Nat] :
        /\ f[1] = Len(<<>>) /\ f[m] = 0
        /\ \A k \in DOMAIN q : Advances(q[k], f[k], f[k + 1], items, n, w)
  BY <1>2, <1>3, <1>4, <1>5
<1> QED BY <1>m, <1>5, <1>6 DEF Aligned

(* A datagram that goes on where the queue ends keeps it aligned with the  *)
(* listing.                                                                *)
LEMMA AlignedAppend ==
  ASSUME NEW T, NEW q \in Seq(T), NEW nd \in T, NEW ms, NEW items, NEW n,
         NEW w, NEW e, NEW f \in Nat, Aligned(q, ms, items, n, e, w),
         Advances(nd, e, f, items, n, w), NEW t, t = Append(q, nd)
  PROVE  Aligned(t, ms, items, n, f, w)
<1>1. PICK off \in [1 .. Len(q) + 1 -> Nat] :
        /\ off[1] = Len(ms) /\ off[Len(q) + 1] = e
        /\ \A k \in DOMAIN q : Advances(q[k], off[k], off[k + 1], items, n, w)
  BY DEF Aligned
<1>m. PICK m : m = Len(q) + 1
  OBVIOUS
<1>2. /\ Len(t) = m /\ m \in DOMAIN t /\ t[m] = nd /\ m \in Nat /\ m >= 1
      /\ \A k \in DOMAIN t : k = m \/ (k \in DOMAIN q /\ t[k] = q[k])
      /\ \A k \in DOMAIN q : k \in 1 .. m /\ k + 1 \in 1 .. m
  <2>1. /\ Len(t) = Len(q) + 1 /\ Len(q) + 1 \in DOMAIN t /\ t[Len(q) + 1] = nd
        /\ \A k \in DOMAIN q : t[k] = q[k]
        /\ \A k \in DOMAIN t : k = Len(q) + 1 \/ k \in DOMAIN q
    BY AppendFacts
  <2>2. \A k \in DOMAIN q : k \in 1 .. m /\ k + 1 \in 1 .. m
    BY <1>m
  <2>3. m \in Nat /\ m >= 1
    BY <1>m
  <2> QED BY <1>m, <2>1, <2>2, <2>3
<1>g. PICK g : g = [k \in 1 .. m + 1 |-> IF k = m + 1 THEN f ELSE off[k]]
  OBVIOUS
<1>3. off \in [1 .. m -> Nat] /\ off[1] = Len(ms) /\ off[m] = e
  BY <1>1, <1>m
<1>4. /\ g \in [1 .. m + 1 -> Nat] /\ g[m + 1] = f
      /\ \A k \in 1 .. m : g[k] = off[k]
  <2>1. \A k \in 1 .. m : k # m + 1 /\ k \in 1 .. m + 1
    BY <1>2
  <2>2. m + 1 \in 1 .. m + 1
    BY <1>2
  <2> QED BY <1>2, <1>3, <1>g, <2>1, <2>2
<1>5. \A k \in DOMAIN t : Advances(t[k], g[k], g[k + 1], items, n, w)
  <2> SUFFICES ASSUME NEW k \in DOMAIN t
               PROVE  Advances(t[k], g[k], g[k + 1], items, n, w)
    OBVIOUS
  <2>1. CASE k = m
    <3>1. g[k] = e /\ g[k + 1] = f /\ t[k] = nd
      BY <1>2, <1>3, <1>4, <2>1
    <3> QED BY <3>1
  <2>2. CASE k \in DOMAIN q /\ t[k] = q[k]
    <3>1. g[k] = off[k] /\ g[k + 1] = off[k + 1]
      BY <1>2, <1>4, <2>2
    <3> QED BY <1>1, <2>2, <3>1
  <2> QED BY <1>2, <2>1, <2>2
<1>6. g[1] = Len(ms)
  BY <1>2, <1>3, <1>4
<1>7. Len(ms) <= Len(items) /\ \A j \in DOMAIN ms : ms[j].item = items[j]
  BY DEF Aligned
<1>8. \E o \in [1 .. Len(t) + 1 -> Nat] :
        /\ o[1] = Len(ms) /\ o[Len(t) + 1] = f
        /\ \A k \in DOMAIN t : Advances(t[k], o[k], o[k + 1], items, n, w)
  BY <1>2, <1>4, <1>5, <1>6
<1> QED BY <1>7, <1>8 DEF Aligned

(* Request n collects the messages c of datagram h.                        *)
Collects(c, h, n) ==
  /\ c \in Seq(Message)
  /\ h[1].sequence = n => /\ Len(c) = Answers(h)
                          /\ \A j \in 1 .. Answers(h) : c[j] = h[j]
  /\ h[1].sequence # n => c = <<>>

Splits(q, h, t) == q # <<>> /\ h = q[1] /\ t = Tail(q)

(* What a request collects of the first datagram moves to its messages.    *)
LEMMA AlignedTail ==
  ASSUME NEW q \in Seq(Seq(Message)), NEW ms \in Seq(Message),
         NEW items, NEW n, NEW w, NEW e, Aligned(q, ms, items, n, e, w),
         NEW c, NEW h, Collects(c, h, n), NEW t, Splits(q, h, t),
         NEW ms2, Joins(ms2, ms, c)
  PROVE  /\ Aligned(t, ms2, items, n, e, w)
         /\ w /\ h[1].sequence = n /\ EndKind(h) = "done" => Len(ms2) = Len(items)
<1>0. /\ q # <<>> /\ h = q[1] /\ t = Tail(q) /\ c \in Seq(Message)
      /\ h[1].sequence = n => /\ Len(c) = Answers(h)
                              /\ \A j \in 1 .. Answers(h) : c[j] = h[j]
      /\ h[1].sequence # n => c = <<>>
  BY DEF Splits, Collects
<1>1. PICK off \in [1 .. Len(q) + 1 -> Nat] :
        /\ off[1] = Len(ms) /\ off[Len(q) + 1] = e
        /\ \A k \in DOMAIN q : Advances(q[k], off[k], off[k + 1], items, n, w)
  BY DEF Aligned
<1>2. /\ t \in Seq(Seq(Message)) /\ Len(q) \in Nat /\ Len(q) >= 1 /\ Len(t) = Len(q) - 1
      /\ \A k \in DOMAIN t : k + 1 \in DOMAIN q /\ t[k] = q[k + 1]
  <2>T. PICK T : T = Seq(Message)
    OBVIOUS
  <2>1. q \in Seq(T)
    BY <2>T
  <2>2. /\ t \in Seq(T) /\ Len(q) \in Nat /\ Len(q) >= 1 /\ Len(t) = Len(q) - 1
        /\ \A k \in DOMAIN t : k + 1 \in DOMAIN q /\ t[k] = q[k + 1]
    BY <1>0, <2>1, TailFacts
  <2> QED BY <2>2, <2>T
<1>3. /\ ms2 \in Seq(Message) /\ Len(ms) \in Nat /\ Len(c) \in Nat
      /\ Len(ms2) = Len(ms) + Len(c)
      /\ \A j \in DOMAIN ms : ms2[j] = ms[j]
      /\ \A j \in DOMAIN ms2 :
           j \in DOMAIN ms \/ \E i \in DOMAIN c : j = Len(ms) + i /\ ms2[j] = c[i]
  BY <1>0, ConcatFacts
<1>4. Advances(h, Len(ms), off[2], items, n, w)
  <2>1. 1 \in DOMAIN q /\ 1 + 1 = 2
    BY <1>2
  <2> QED BY <1>0, <1>1, <2>1
<1>5. /\ off[2] = Len(ms2) /\ Len(ms2) <= Len(items)
      /\ \A i \in DOMAIN c : c[i].item = items[Len(ms) + i]
      /\ w /\ h[1].sequence = n /\ EndKind(h) = "done" => Len(ms2) = Len(items)
  <2>1. CASE h[1].sequence = n
    <3>1. /\ off[2] = Len(ms) + Answers(h) /\ off[2] <= Len(items)
          /\ \A j \in 1 .. Answers(h) : h[j].item = items[Len(ms) + j]
          /\ w /\ EndKind(h) = "done" => off[2] = Len(items)
      BY <1>4, <2>1 DEF Advances
    <3>2. /\ Len(c) = Answers(h) /\ DOMAIN c = 1 .. Answers(h)
          /\ \A j \in 1 .. Answers(h) : c[j] = h[j]
      BY <1>0, <2>1
    <3> QED BY <1>3, <3>1, <3>2
  <2>2. CASE h[1].sequence # n
    <3>1. off[2] = Len(ms)
      BY <1>4, <2>2 DEF Advances
    <3>2. c = <<>> /\ Len(c) = 0 /\ DOMAIN c = {}
      BY <1>0, <2>2
    <3>3. Len(ms) <= Len(items)
      BY DEF Aligned
    <3> QED BY <1>3, <2>2, <3>1, <3>2, <3>3
  <2> QED BY <2>1, <2>2
<1>6. \A j \in DOMAIN ms2 : ms2[j].item = items[j]
  <2>1. \A j \in DOMAIN ms : ms[j].item = items[j]
    BY DEF Aligned
  <2> QED BY <1>3, <1>5, <2>1
<1>m. PICK m : m = Len(q)
  OBVIOUS
<1>g. PICK g : g = [k \in 1 .. m |-> off[k + 1]]
  OBVIOUS
<1>7. /\ m \in Nat /\ m >= 1 /\ Len(t) = m - 1 /\ off \in [1 .. m + 1 -> Nat]
      /\ off[m + 1] = e
  BY <1>1, <1>2, <1>m
<1>8. g \in [1 .. m -> Nat] /\ \A k \in 1 .. m : g[k] = off[k + 1]
  BY <1>7, <1>g
<1>9. g[1] = Len(ms2) /\ g[m] = e
  <2>1. 1 \in 1 .. m /\ m \in 1 .. m /\ 1 + 1 = 2
    BY <1>7
  <2>2. g[1] = off[1 + 1] /\ g[m] = off[m + 1]
    BY <1>8, <2>1
  <2> QED BY <1>5, <1>7, <2>1, <2>2
<1>10. \A k \in DOMAIN t : Advances(t[k], g[k], g[k + 1], items, n, w)
  <2> SUFFICES ASSUME NEW k \in DOMAIN t
               PROVE  Advances(t[k], g[k], g[k + 1], items, n, w)
    OBVIOUS
  <2>0. DOMAIN t = 1 .. Len(t)
    BY <1>2
  <2>1. k \in 1 .. m /\ k + 1 \in 1 .. m
    BY <1>7, <2>0, SMTT(30)
  <2>2. g[k] = off[k + 1] /\ g[k + 1] = off[(k + 1) + 1]
    BY <1>8, <2>1
  <2>3. Advances(q[k + 1], off[k + 1], off[(k + 1) + 1], items, n, w)
    BY <1>1, <1>2
  <2> QED BY <1>2, <2>2, <2>3
<1>11. Len(t) + 1 = m
  BY <1>7
<1>12. \E o \in [1 .. Len(t) + 1 -> Nat] :
        /\ o[1] = Len(ms2) /\ o[Len(t) + 1] = e
        /\ \A k \in DOMAIN t : Advances(t[k], o[k], o[k + 1], items, n, w)
  BY <1>8, <1>9, <1>10, <1>11
<1> QED BY <1>5, <1>6, <1>12 DEF Aligned

(* The end of a dump matters only if it is whole.                          *)
LEMMA AlignedBroken ==
  ASSUME NEW q, NEW ms, NEW items, NEW n, NEW e, NEW w, Aligned(q, ms, items, n, e, w),
         NEW v, v => w
  PROVE  Aligned(q, ms, items, n, e, v)
<1>1. PICK off \in [1 .. Len(q) + 1 -> Nat] :
        /\ off[1] = Len(ms) /\ off[Len(q) + 1] = e
        /\ \A k \in DOMAIN q : Advances(q[k], off[k], off[k + 1], items, n, w)
  BY DEF Aligned
<1>2. \A k \in DOMAIN q : Advances(q[k], off[k], off[k + 1], items, n, v)
  BY <1>1 DEF Advances
<1>3. Len(ms) <= Len(items) /\ \A j \in DOMAIN ms : ms[j].item = items[j]
  BY DEF Aligned
<1> QED BY <1>1, <1>2, <1>3 DEF Aligned

(* A pass of the dump continues the listing where it was.                  *)
LEMMA SendsAdvances ==
  ASSUME NEW d \in Dump, NEW l \in Enumeration, NEW nd, Sends(nd, d, l),
         NEW w, w <=> ~listing'.failed, NEW items, NEW e \in Nat, Remaining(d, items, e),
         \A j \in DOMAIN d.items : ItemFits(d.request, d.items[j])
  PROVE  /\ listing'.items = l.items /\ Answers(nd) \in Nat
         /\ Advances(nd, e, e + Answers(nd), items, d.sequence, w)
         /\ dump'.running => Remaining(dump', items, e + Answers(nd))
<1>n. PICK n : n = Answers(nd)
  OBVIOUS
<1>m. PICK m : m = Len(d.items)
  OBVIOUS
<1>1. n \in 0 .. m /\ m \in Nat /\ DOMAIN d.items = 1 .. m
  <2>1. d.items \in Seq(Item)
    BY Fields
  <2>2. Answers(nd) \in 0 .. Len(d.items)
    BY SendsAnswering
  <2> QED BY <1>n, <1>m, <2>1, <2>2
<1>2. n \in Nat
  BY <1>1
<1>3. /\ e + m = Len(items)
      /\ \A j \in 1 .. m : d.items[j] = items[e + j]
  BY <1>1, <1>m DEF Remaining
<1>4. nd[1].sequence = d.sequence
  <2>1. 1 \in DOMAIN nd
    BY DEF Sends
  <2> QED BY <2>1 DEF Sends
<1>5. \A j \in 1 .. n : nd[j].item = items[e + j]
  <2>1. \A j \in 1 .. n : nd[j].item = d.items[j]
    BY <1>n DEF Sends
  <2> QED BY <1>1, <1>3, <2>1
<1>6. listing' = Broken(l) => listing'.failed /\ listing'.items = l.items
  BY BrokenType
<1>7. /\ \/ EndKind(nd) = "answer" /\ dump' = Rest(d, n)
         \/ EndKind(nd) = "done" /\ dump' = NoDump /\ (w => n = m)
      /\ listing'.items = l.items
  <2>1. \/ EndKind(nd) = "answer" /\ dump' = Rest(d, n) /\ listing' = l
        \/ EndKind(nd) = "done" /\ dump' = NoDump /\ listing' = l /\ n = m
        \/ EndKind(nd) = "done" /\ dump' = NoDump /\ listing' = Broken(l)
    BY <1>n, <1>m, Zenon DEF Sends
  <2>2. CASE EndKind(nd) = "answer" /\ dump' = Rest(d, n) /\ listing' = l
    BY <2>2
  <2>3. CASE EndKind(nd) = "done" /\ dump' = NoDump /\ listing' = l /\ n = m
    BY <2>3
  <2>4. CASE EndKind(nd) = "done" /\ dump' = NoDump /\ listing' = Broken(l)
    BY <1>6, <2>4
  <2> QED BY <2>1, <2>2, <2>3, <2>4
<1>8. /\ w /\ EndKind(nd) = "done" => e + n = Len(items)
      /\ e + n <= Len(items)
  BY <1>1, <1>3, <1>7
<1>9. Advances(nd, e, e + n, items, d.sequence, w)
  BY <1>n, <1>4, <1>5, <1>8 DEF Advances
<1>10. ASSUME dump'.running PROVE Remaining(dump', items, e + n)
  <2>1. dump' = Rest(d, n)
    BY <1>7, <1>10, NoDumpType
  <2>r. PICK r : r = Rest(d, n)
    OBVIOUS
  <2>2. /\ r \in Dump /\ Len(r.items) = m - n
        /\ \A j \in DOMAIN r.items :
             n + j \in DOMAIN d.items /\ r.items[j] = d.items[n + j]
    BY <1>1, <1>m, <2>r, RestType
  <2>3. (e + n) + Len(r.items) = Len(items)
    <3>1. (e + n) + (m - n) = e + m
      BY <1>1
    <3> QED BY <1>3, <2>2, <3>1
  <2>4. DOMAIN r.items = 1 .. Len(r.items)
    BY <2>2, Fields
  <2>5. \A j \in DOMAIN r.items : r.items[j] = items[(e + n) + j]
    <3> SUFFICES ASSUME NEW j \in DOMAIN r.items
                 PROVE  r.items[j] = items[(e + n) + j]
      OBVIOUS
    <3>1. n + j \in 1 .. m /\ e + (n + j) = (e + n) + j
      BY <1>1, <2>2, <2>4
    <3>2. d.items[n + j] = items[e + (n + j)]
      BY <1>3, <3>1
    <3> QED BY <2>2, <3>1, <3>2
  <2>6. Remaining(r, items, e + n)
    BY <2>3, <2>5 DEF Remaining
  <2> QED BY <2>1, <2>6, <2>r
<1> QED BY <1>n, <1>2, <1>7, <1>9, <1>10

(* A request begins a stream of its own: whatever was left behind in the   *)
(* socket has another number.                                              *)
LEMMA StreamSend ==
  ASSUME TransportOK, StreamOK, NEW r \in Request, NEW isDump \in BOOLEAN,
         Send(r, isDump, Lists(r))
  PROVE  StreamOK' /\ call'.state = "waiting"
<1>1. /\ sequence \in Nat /\ queue \in Seq(Seq(Message))
      /\ dump \in Dump /\ listing \in Enumeration /\ sequence' = sequence + 1
      /\ call' = [state |-> "waiting", request |-> r, dump |-> isDump, messages |-> <<>>]
      /\ Serve(sequence + 1, r, isDump, Lists(r))
  BY DEF TransportOK, TransportTypes, Send
<1>2. call'.state = "waiting" /\ call'.dump = isDump /\ call'.messages = <<>>
  BY <1>1, CallType
<1>3. PICK nd : Served(nd, r, isDump)
  BY <1>1, SendServes
<1>T. PICK T : T = Seq(Message)
  OBVIOUS
<1>q. PICK q : q = queue
  OBVIOUS
<1>4. Answering(nd, sequence + 1, r) /\ queue' = Append(q, nd)
  BY <1>3, <1>q DEF Served
<1>5. nd \in T /\ q \in Seq(T)
  BY <1>1, <1>4, <1>q, <1>T DEF Answering
<1>6. \A k \in DOMAIN queue' : queue'[k] = nd \/ (k \in DOMAIN q /\ queue'[k] = q[k])
  BY <1>4, <1>5, AppendFacts
<1>7. \A k \in DOMAIN q : q[k][1].sequence # sequence'
  <2> SUFFICES ASSUME NEW k \in DOMAIN q PROVE q[k][1].sequence # sequence'
    OBVIOUS
  <2>d. PICK d : d = q[k]
    OBVIOUS
  <2>1. d \in Seq(Message) /\ DatagramOK(d)
    BY <1>5, <1>q, <1>T, <2>d DEF TransportOK, QueueOK
  <2>2. ~IsOwn(d)'
    BY <1>1, <2>1, EarlierDatagram
  <2> QED BY <2>2, <2>d DEF IsOwn
<1>8. listing.sequence \in Nat /\ listing.sequence <= sequence
      /\ (dump.running => listing.sequence = dump.sequence)
  BY <1>1, Fields DEF StreamOK
<1>9. CASE UNCHANGED <<dump, listing>> /\ EndKind(nd) # "done"
  <2>1. listing'.sequence <= sequence' /\ listing'.sequence # sequence'
    BY <1>1, <1>8, <1>9
  <2>2. dump'.running => listing'.sequence = dump'.sequence
    BY <1>8, <1>9
  <2>3. \A k \in DOMAIN queue' :
          ~(queue'[k][1].sequence = sequence' /\ EndKind(queue'[k]) = "done")
    BY <1>6, <1>7, <1>9
  <2> QED BY <1>2, <2>1, <2>2, <2>3 DEF StreamOK, IsOwn
<1>10. CASE \E d \in Dump, l \in Enumeration :
             /\ Sends(nd, d, l)
             /\ d.running /\ d.sequence = sequence + 1 /\ d.request = r
             /\ \A j \in DOMAIN d.items : ItemFits(r, d.items[j])
             /\ l.sequence = sequence + 1 /\ l.items = d.items
  <2>1. PICK d \in Dump, l \in Enumeration :
             /\ Sends(nd, d, l)
             /\ d.running /\ d.sequence = sequence + 1 /\ d.request = r
             /\ \A j \in DOMAIN d.items : ItemFits(r, d.items[j])
             /\ l.sequence = sequence + 1 /\ l.items = d.items
    BY <1>10
  <2>2. Answers(nd) \in 0 .. Len(d.items)
    BY <2>1, SendsAnswering
  <2>3. listing'.sequence = sequence'
    <3>1. listing' = l \/ listing' = Broken(l)
      BY <2>1 DEF Sends
    <3> QED BY <1>1, <2>1, <3>1, BrokenType
  <2>4. dump'.running => dump'.sequence = sequence'
    <3>1. dump' = Rest(d, Answers(nd)) \/ dump' = NoDump
      BY <2>1 DEF Sends
    <3> QED BY <1>1, <2>1, <2>2, <3>1, RestType, NoDumpType
  <2>5. \E e \in Nat : /\ Aligned(queue', call'.messages, listing'.items, sequence', e,
                                 ~listing'.failed)
                       /\ dump'.running => Remaining(dump', listing'.items, e)
    <3>i. PICK items : items = d.items
      OBVIOUS
    <3>n. PICK n : n = sequence'
      OBVIOUS
    <3>w. PICK w : w = ~listing'.failed
      OBVIOUS
    <3>1. items \in Seq(Item) /\ Len(items) \in Nat
      BY <3>i, Fields
    <3>2. Remaining(d, items, 0)
      BY <3>i, <3>1 DEF Remaining
    <3>3. /\ listing'.items = l.items /\ Answers(nd) \in Nat
          /\ Advances(nd, 0, 0 + Answers(nd), items, d.sequence, w)
          /\ dump'.running => Remaining(dump', items, 0 + Answers(nd))
      BY <2>1, <3>2, <3>w, SendsAdvances
    <3>e. PICK e : e = 0 + Answers(nd)
      OBVIOUS
    <3>4. /\ e \in Nat /\ Advances(nd, 0, e, items, n, w)
          /\ dump'.running => Remaining(dump', items, e)
      BY <1>1, <2>1, <3>3, <3>e, <3>n
    <3>5. Aligned(q, <<>>, items, n, 0, w)
      BY <1>5, <1>7, <3>1, <3>n, AlignedNone
    <3>6. Aligned(queue', <<>>, items, n, e, w)
      BY <1>4, <1>5, <3>4, <3>5, AlignedAppend
    <3>7. listing'.items = items
      BY <2>1, <3>3, <3>i
    <3> QED BY <1>2, <3>n, <3>w, <3>4, <3>6, <3>7
  <2>6. listing'.sequence <= sequence'
    BY <1>1, <2>3
  <2> QED BY <1>1, <1>2, <2>3, <2>4, <2>5, <2>6 DEF StreamOK, OwnDump
<1> QED BY <1>2, <1>3, <1>9, <1>10 DEF Served

(* A sequence that agrees with another as far as it goes.                  *)
LEMMA PrefixFact ==
  ASSUME NEW T, NEW s \in Seq(T), NEW u \in Seq(T), Len(s) <= Len(u),
         \A j \in DOMAIN s : s[j] = u[j]
  PROVE  IsPrefix(s, u) /\ (Len(s) = Len(u) => s = u)
<1>1. SubSeq(s, 1, Len(s)) = SubSeq(u, 1, Len(s))
  OBVIOUS
<1> QED BY <1>1 DEF IsPrefix

(* A datagram moves from the queue to the messages collected, and the      *)
(* kernel's next pass to the end of the queue.                             *)
LEMMA StreamReceive ==
  ASSUME TransportOK, StreamOK, Receive
  PROVE  StreamOK' /\ DumpsComplete'
<1>1. /\ sequence \in Nat /\ queue \in Seq(Seq(Message)) /\ queue # <<>>
      /\ dump \in Dump /\ listing \in Enumeration /\ call \in Call
      /\ UNCHANGED sequence /\ Waiting
  BY DEF TransportOK, TransportTypes, Receive, Waiting
<1>n. PICK n : n = sequence
  OBVIOUS
<1>q. PICK q : q = queue
  OBVIOUS
<1>h. PICK h : h = Head(queue)
  OBVIOUS
<1>T. PICK T : T = Seq(Message)
  OBVIOUS
<1>r. PICK rest : rest = Tail(queue)
  OBVIOUS
<1>m. PICK ms : ms = call.messages
  OBVIOUS
<1>i. PICK items : items = listing.items
  OBVIOUS
<1>2. /\ h \in Seq(Message) /\ DatagramOK(h) /\ h = q[1] /\ 1 \in DOMAIN q
  BY <1>1, <1>q, <1>h, ReceiveCall
<1>3. /\ rest \in Seq(T) /\ q \in Seq(T) /\ q # <<>> /\ rest = Tail(q)
      /\ Len(q) \in Nat /\ Len(rest) = Len(q) - 1
      /\ \A k \in DOMAIN rest : k + 1 \in DOMAIN q /\ rest[k] = q[k + 1]
  BY <1>1, <1>q, <1>r, <1>T, TailFacts
<1>4. ms \in Seq(Message) /\ items \in Seq(Item)
  BY <1>1, <1>m, <1>i, Fields
<1>5. /\ listing.sequence \in Nat /\ listing.sequence <= n
      /\ dump.running => listing.sequence = dump.sequence
      /\ \A k \in DOMAIN q :
           q[k][1].sequence = n /\ EndKind(q[k]) = "done" => listing.sequence = n
  BY <1>1, <1>n, <1>q, Fields DEF StreamOK, IsOwn
<1>w. PICK w : w = ~listing'.failed
  OBVIOUS
<1>6. listing.sequence = n /\ call.dump =>
        \E e \in Nat : /\ Aligned(q, ms, items, n, e, ~listing.failed)
                       /\ OwnDump => Remaining(dump, items, e)
  BY <1>1, <1>n, <1>q, <1>m, <1>i DEF StreamOK
(* What the kernel adds: nothing, or one pass of its dump.                 *)
<1>7. \/ ~dump.running /\ queue' = rest /\ UNCHANGED <<dump, listing>>
      \/ /\ dump.running
         /\ \E nd : /\ Sends(nd, dump, listing)
                   /\ Answering(nd, dump.sequence, dump.request)
                   /\ queue' = Append(rest, nd)
  BY <1>r, ReceiveQueue
<1>8. dump.running => \A j \in DOMAIN dump.items : ItemFits(dump.request, dump.items[j])
  BY DEF TransportOK, DumpOK
<1>9. /\ listing'.sequence = listing.sequence /\ listing'.items = items
      /\ ~listing'.failed => ~listing.failed
  <2>1. CASE UNCHANGED listing
    BY <1>i, <2>1
  <2>2. CASE \E nd : Sends(nd, dump, listing)
    <3>1. listing' = listing \/ listing' = Broken(listing)
      BY <2>2 DEF Sends
    <3> QED BY <1>1, <1>i, <3>1, BrokenType
  <2> QED BY <1>7, <2>1, <2>2
<1>10. dump'.running => dump.running /\ dump'.sequence = dump.sequence
  <2>1. CASE UNCHANGED dump
    BY <2>1
  <2>2. CASE dump.running /\ \E nd : Sends(nd, dump, listing)
    <3>1. PICK nd : Sends(nd, dump, listing)
      BY <2>2
    <3>2. Answers(nd) \in 0 .. Len(dump.items)
      BY <1>1, <1>8, <2>2, <3>1, SendsAnswering
    <3>3. dump' = Rest(dump, Answers(nd)) \/ dump' = NoDump
      BY <3>1 DEF Sends
    <3> QED BY <1>1, <2>2, <3>2, <3>3, RestType, NoDumpType
  <2> QED BY <1>7, <2>1, <2>2
<1>11. \A k \in DOMAIN queue' :
         queue'[k][1].sequence = n /\ EndKind(queue'[k]) = "done" => listing.sequence = n
  <2>1. \A k \in DOMAIN rest :
          rest[k][1].sequence = n /\ EndKind(rest[k]) = "done" => listing.sequence = n
    BY <1>3, <1>5
  <2>2. CASE queue' = rest
    BY <2>1, <2>2
  <2>3. CASE dump.running /\ \E nd : /\ Answering(nd, dump.sequence, dump.request)
                                     /\ queue' = Append(rest, nd)
    <3>1. PICK nd : /\ Answering(nd, dump.sequence, dump.request)
                    /\ queue' = Append(rest, nd)
      BY <2>3
    <3>2. nd \in T /\ nd[1].sequence = dump.sequence
      BY <1>T, <3>1 DEF Answering
    <3>t. PICK t : t = Append(rest, nd)
      OBVIOUS
    <3>3. \A k \in DOMAIN t : t[k] = nd \/ (k \in DOMAIN rest /\ t[k] = rest[k])
      BY <1>3, <3>2, <3>t, AppendFacts
    <3>4. queue' = t
      BY <3>1, <3>t
    <3> QED BY <1>5, <2>1, <2>3, <3>2, <3>3, <3>4
  <2> QED BY <1>7, <2>2, <2>3
<1>k. listing.sequence = n /\ call.dump =>
        \E e \in Nat : /\ Aligned(q, ms, items, n, e, w)
                       /\ OwnDump => Remaining(dump, items, e)
  BY <1>6, <1>9, <1>w, AlignedBroken
(* The own messages of the first datagram are collected.                   *)
<1>c. PICK c : c = Collected(h)
  OBVIOUS
<1>12. Collects(c, h, n) /\ c \in Seq(Message)
  BY <1>2, <1>c, <1>n, CollectedAnswers DEF IsOwn, Collects
<1>13. ASSUME NEW e \in Nat, Aligned(q, ms, items, n, e, w), NEW ms2, Joins(ms2, ms, c)
       PROVE  /\ Aligned(rest, ms2, items, n, e, w)
              /\ w /\ h[1].sequence = n /\ EndKind(h) = "done" => Len(ms2) = Len(items)
  <2>1. q \in Seq(Seq(Message))
    BY <1>3, <1>T
  <2>2. Splits(q, h, rest)
    BY <1>2, <1>3 DEF Splits
  <2> QED BY <1>4, <1>12, <1>13, <2>1, <2>2, AlignedTail
<1>14. call'.state # "error" => Joins(call'.messages, ms, c)
  BY <1>h, <1>m, <1>c, ReceiveCall DEF Joins
<1>15. /\ call'.state = "ok" /\ call'.dump => h[1].sequence = n /\ EndKind(h) = "done"
       /\ call'.state = "waiting" => call'.dump
       /\ call'.dump = call.dump
  <2>1. call.dump \in BOOLEAN /\ call'.dump = call.dump
    BY <1>1, <1>h, ReceiveCall DEF Call
  <2>2. IsOwn(h) <=> h[1].sequence = n
    BY <1>n DEF IsOwn
  <2>3. \/ call'.state = "error"
        \/ /\ IsOwn(h) /\ EndKind(h) = "done"
           /\ call'.state = "ok"
        \/ ~call.dump /\ call'.state = "ok"
        \/ call.dump /\ call'.state = "waiting"
    BY <1>h, ReceiveCall
  <2> QED BY <2>1, <2>2, <2>3
<1>16. StreamOK'
  <2>1. ASSUME call'.state = "waiting", listing'.sequence = n
        PROVE  \E e \in Nat :
                 /\ Aligned(queue', call'.messages, items, n, e, w)
                 /\ dump'.running => Remaining(dump', items, e)
    <3>p. PICK ms2 : ms2 = call'.messages
      OBVIOUS
    <3>1. Joins(ms2, ms, c)
      BY <1>14, <2>1, <3>p
    <3>2. PICK e \in Nat : /\ Aligned(q, ms, items, n, e, w)
                           /\ OwnDump => Remaining(dump, items, e)
      BY <1>9, <1>k, <1>15, <2>1
    <3>3. Aligned(rest, ms2, items, n, e, w)
      BY <1>13, <3>1, <3>2
    <3>4. CASE ~dump.running /\ queue' = rest /\ UNCHANGED <<dump, listing>>
      BY <3>3, <3>4, <3>p
    <3>5. CASE /\ dump.running
               /\ \E nd : /\ Sends(nd, dump, listing)
                         /\ Answering(nd, dump.sequence, dump.request)
                         /\ queue' = Append(rest, nd)
      <4>1. PICK nd : /\ Sends(nd, dump, listing)
                      /\ Answering(nd, dump.sequence, dump.request)
                      /\ queue' = Append(rest, nd)
        BY <3>5
      <4>2. dump.sequence = n /\ Remaining(dump, items, e)
        BY <1>5, <1>9, <1>n, <2>1, <3>2, <3>5 DEF OwnDump
      <4>3. /\ Answers(nd) \in Nat
            /\ Advances(nd, e, e + Answers(nd), items, dump.sequence, w)
            /\ dump'.running => Remaining(dump', items, e + Answers(nd))
        BY <1>1, <1>8, <1>w, <3>5, <4>1, <4>2, SendsAdvances
      <4>f. PICK f : f = e + Answers(nd)
        OBVIOUS
      <4>4. f \in Nat /\ Advances(nd, e, f, items, n, w) /\ (dump'.running => Remaining(dump', items, f))
        BY <4>2, <4>3, <4>f
      <4>5. nd \in T
        BY <1>T, <4>1 DEF Answering
      <4>t. PICK t : t = Append(rest, nd)
        OBVIOUS
      <4>6. Aligned(t, ms2, items, n, f, w)
        BY <1>3, <3>3, <4>4, <4>5, <4>t, AlignedAppend
      <4>7. queue' = t
        BY <4>1, <4>t
      <4> QED BY <3>p, <4>4, <4>6, <4>7
    <3> QED BY <1>7, <3>4, <3>5
  <2>2. dump'.running => listing'.sequence = dump'.sequence
    BY <1>5, <1>9, <1>10
  <2>3. listing'.sequence <= sequence' /\ sequence' = n
    BY <1>1, <1>5, <1>9, <1>n
  <2> QED BY <1>9, <1>11, <1>w, <2>1, <2>2, <2>3 DEF StreamOK, IsOwn, OwnDump, Waiting
<1>17. DumpsComplete'
  <2> SUFFICES ASSUME call'.state = "ok", call'.dump,
                      NEW s, s = [j \in DOMAIN call'.messages |-> call'.messages[j].item]
               PROVE  /\ listing'.sequence = sequence'
                      /\ IsPrefix(s, items)
                      /\ ~listing'.failed => s = items
    BY <1>9 DEF DumpsComplete
  <2>1. h[1].sequence = n /\ EndKind(h) = "done"
    BY <1>15
  <2>2. listing.sequence = n
    BY <1>2, <1>5, <2>1
  <2>3. listing'.sequence = sequence'
    BY <1>1, <1>9, <1>n, <2>2
  <2>p. PICK ms2 : ms2 = call'.messages
    OBVIOUS
  <2>4. Joins(ms2, ms, c)
    BY <1>14, <2>p
  <2>5. PICK e \in Nat : Aligned(q, ms, items, n, e, w)
    BY <1>k, <1>15, <2>2
  <2>6. Aligned(rest, ms2, items, n, e, w) /\ (w => Len(ms2) = Len(items))
    BY <1>13, <2>1, <2>4, <2>5
  <2>7. Len(ms2) <= Len(items) /\ \A j \in DOMAIN ms2 : ms2[j].item = items[j]
    BY <2>6 DEF Aligned
  <2>8. ms2 \in Seq(Message)
    BY <1>4, <1>12, <2>4, ConcatFacts
  <2>9. s \in Seq(Item) /\ Len(s) = Len(ms2) /\ \A j \in DOMAIN s : s[j] = items[j]
    <3>1. Len(ms2) \in Nat /\ DOMAIN ms2 = 1 .. Len(ms2)
          /\ \A j \in DOMAIN ms2 : ms2[j].item \in Item
      BY <2>8, Fields
    <3>2. s = [j \in 1 .. Len(ms2) |-> ms2[j].item]
      BY <2>p, <3>1
    <3> QED BY <2>7, <3>1, <3>2
  <2>10. IsPrefix(s, items) /\ (Len(s) = Len(items) => s = items)
    BY <1>4, <2>7, <2>9, PrefixFact
  <2> QED BY <1>w, <2>3, <2>6, <2>9, <2>10
<1> QED BY <1>16, <1>17

(* Nothing else disturbs a listing.                                        *)
LEMMA StreamKept ==
  ASSUME StreamOK, DumpsComplete, UNCHANGED <<sequence, queue, dump, listing>>,
         call' = call \/ call'.state \in {"idle", "error"}
  PROVE  StreamOK' /\ DumpsComplete'
<1>1. CASE call' = call
  BY <1>1 DEF StreamOK, DumpsComplete, IsOwn, OwnDump, Waiting, Aligned, Remaining
<1>2. CASE call'.state \in {"idle", "error"}
  <2>1. ~Waiting' /\ DumpsComplete'
    BY <1>2 DEF Waiting, DumpsComplete
  <2> QED BY <2>1 DEF StreamOK, IsOwn
<1> QED BY <1>1, <1>2

(* A request that was not sent owns nothing in the socket.                 *)
LEMMA StreamSendFails ==
  ASSUME TransportOK, StreamOK, NEW r \in Request, NEW isDump \in BOOLEAN,
         SendFails(r, isDump)
  PROVE  StreamOK' /\ DumpsComplete'
<1>1. /\ sequence \in Nat /\ queue \in Seq(Seq(Message)) /\ listing \in Enumeration
      /\ sequence' = sequence + 1 /\ UNCHANGED <<queue, dump, listing>>
      /\ call' = [state |-> "error", request |-> r, dump |-> isDump, messages |-> <<>>]
  BY DEF TransportOK, TransportTypes, SendFails
<1>2. call'.state = "error"
  BY <1>1, CallType
<1>3. \A k \in DOMAIN queue : queue[k][1].sequence # sequence'
  <2> SUFFICES ASSUME NEW k \in DOMAIN queue PROVE queue[k][1].sequence # sequence'
    OBVIOUS
  <2>d. PICK d : d = queue[k]
    OBVIOUS
  <2>1. d \in Seq(Message) /\ DatagramOK(d)
    BY <1>1, <2>d DEF TransportOK, QueueOK
  <2>2. ~IsOwn(d)'
    BY <1>1, <2>1, EarlierDatagram
  <2> QED BY <2>2, <2>d DEF IsOwn
<1>4. listing.sequence \in Nat
  BY <1>1, Fields
<1>5. listing'.sequence <= sequence'
  BY <1>1, <1>4 DEF StreamOK
<1> QED BY <1>1, <1>2, <1>3, <1>5 DEF StreamOK, DumpsComplete, IsOwn, Waiting

(* Every step preserves the alignment of the stream with the listing.      *)
LEMMA StreamStep == SInv /\ [Next]_vars => SInv'
<1> SUFFICES ASSUME SInv, [Next]_vars PROVE SInv'
  OBVIOUS
<1>1. IInv' /\ TransportOK /\ agenda \in Seq(Request) /\ StreamOK /\ DumpsComplete
      /\ call \in Call
  BY StepOK DEF SInv, IInv, ProgramTypes, TransportOK, TransportTypes
<1>2. CASE UNCHANGED transport
  BY <1>1, <1>2, StreamKept DEF SInv, transport
<1>3. CASE NextRequest
  <2>r. PICK r : r = Head(agenda)
    OBVIOUS
  <2>1. r \in Request
    BY <1>1, <1>3, <2>r DEF NextRequest
  <2>2. IsDump(r) \in BOOLEAN
    BY DEF IsDump
  <2>3. Send(r, IsDump(r), Lists(r))
    BY <1>3, <2>r DEF NextRequest
  <2>4. StreamOK' /\ call'.state = "waiting"
    BY <1>1, <2>1, <2>2, <2>3, StreamSend
  <2> QED BY <1>1, <2>4 DEF SInv, DumpsComplete
<1>4. CASE RequestFails
  <2>r. PICK r : r = Head(agenda)
    OBVIOUS
  <2>1. r \in Request
    BY <1>1, <1>4, <2>r DEF RequestFails
  <2>2. IsDump(r) \in BOOLEAN
    BY DEF IsDump
  <2>3. SendFails(r, IsDump(r))
    BY <1>4, <2>r DEF RequestFails
  <2> QED BY <1>1, <2>1, <2>2, <2>3, StreamSendFails DEF SInv
<1>5. CASE TakeDatagram
  BY <1>1, <1>5, StreamReceive DEF TakeDatagram, SInv
<1>6. CASE LoseDatagram
  <2>1. call'.state = "error" /\ UNCHANGED <<sequence, queue, dump, listing>>
    BY <1>1, <1>6, ReceiveFailsOK DEF LoseDatagram, ReceiveFails
  <2> QED BY <1>1, <2>1, StreamKept DEF SInv
<1>7. CASE TakeReply
  <2>1. /\ call' = Idle(call.request) /\ UNCHANGED <<sequence, queue, dump, faults, listing>>
    BY <1>7 DEF TakeReply
  <2>2. call'.state = "idle"
    BY <1>1, <2>1, IdleOK
  <2> QED BY <1>1, <2>1, <2>2, StreamKept DEF SInv
<1>8. CASE ListLinks \/ Return \/ Stopped \/ UNCHANGED vars
  BY <1>2, <1>8 DEF ListLinks, Return, Stopped, vars
<1> QED BY <1>3, <1>4, <1>5, <1>6, <1>7, <1>8 DEF Next

(* Before the first request there is no stream.                            *)
LEMMA StreamInit == Init => SInv
<1> SUFFICES ASSUME Init PROVE StreamOK /\ DumpsComplete
  BY InitOK DEF SInv
<1>1. /\ sequence = 0 /\ queue = <<>> /\ dump = NoDump
      /\ listing = NoListing /\ call = Idle(Ask("connect", 0))
  BY DEF Init, TransportInit, Ask
<1>2. call.state = "idle" /\ ~dump.running /\ listing.sequence = 0
  BY <1>1, NoDumpType DEF Idle, NoListing
<1> QED BY <1>1, <1>2 DEF StreamOK, DumpsComplete, Waiting

(* A dump that succeeds returns what the kernel listed for this very       *)
(* request, in its order: all of it, or its beginning if the kernel itself *)
(* broke the dump off.                                                     *)
THEOREM DumpsWhole == Spec => []DumpsComplete
<1>1. SInv => DumpsComplete
  BY DEF SInv
<1> QED BY <1>1, StreamInit, StreamStep, PTL DEF Spec
-----------------------------------------------------------------------------
(* A rejected query costs only its own fields.                             *)

(* What is answered after a step.                                          *)
LEMMA NotingExact ==
  ASSUME NoteAnswers, NEW x
  PROVE  x \in answered' <=>
           \/ x \in answered
           \/ \E k \in DOMAIN queue' : \E j \in DOMAIN queue'[k] :
                /\ queue'[k][j].kind = "answer" /\ queue'[k][j].item.useful
                /\ x = queue'[k][j].request
BY Noting DEF NotedOK

(* One datagram nd for request r is in the socket.                         *)
LEMMA NotingOne ==
  ASSUME NoteAnswers, NEW nd, NEW n, NEW r, Answering(nd, n, r), queue' = <<nd>>, NEW x
  PROVE  /\ x \in answered' <=> x \in answered \/ (UsefulIn(nd) /\ x = r)
         /\ (\E k \in DOMAIN queue' : UsefulIn(queue'[k])) <=> UsefulIn(nd)
<1>1. DOMAIN queue' = {1} /\ queue'[1] = nd
  OBVIOUS
<1>2. \A j \in DOMAIN nd : nd[j].request = r
  BY DEF Answering
<1>3. (\E k \in DOMAIN queue' : \E j \in DOMAIN queue'[k] :
          /\ queue'[k][j].kind = "answer" /\ queue'[k][j].item.useful
          /\ x = queue'[k][j].request)
        <=> (UsefulIn(nd) /\ x = r)
  BY <1>1, <1>2 DEF UsefulIn
<1> QED BY <1>1, <1>3, NotingExact

(* An empty socket answers nothing.                                        *)
LEMMA NotingNone ==
  ASSUME NoteAnswers, queue' = <<>>
  PROVE  answered' = answered /\ ~\E k \in DOMAIN queue' : UsefulIn(queue'[k])
<1>1. DOMAIN queue' = {}
  OBVIOUS
<1>2. \A x : x \in answered' <=> x \in answered
  BY <1>1, NotingExact
<1> QED BY <1>1, <1>2

(* While the socket works a request finds it empty and puts one datagram   *)
(* there.                                                                  *)
LEMMA CleanSend ==
  ASSUME TransportOK, CleanOK, faults = 0, NEW r \in Request, NEW isDump \in BOOLEAN,
         call.state = "idle", Send(r, isDump, Lists(r))
  PROVE  /\ CleanOK'
         /\ \E nd : Answering(nd, sequence + 1, r) /\ queue' = <<nd>>
         /\ call'.state = "waiting" /\ call'.messages = <<>> /\ call'.request = r
<1>1. /\ sequence \in Nat /\ sequence' = sequence + 1 /\ UNCHANGED faults
      /\ call' = [state |-> "waiting", request |-> r, dump |-> isDump, messages |-> <<>>]
      /\ Serve(sequence + 1, r, isDump, Lists(r))
  BY DEF TransportOK, TransportTypes, Send
<1>2. queue = <<>> /\ ~dump.running
  BY DEF CleanOK, Waiting
<1>3. call'.state = "waiting" /\ call'.messages = <<>> /\ call'.request = r
  BY <1>1, CallType
<1>4. PICK nd : Served(nd, r, isDump)
  BY <1>1, SendServes
<1>5. Answering(nd, sequence + 1, r) /\ queue' = <<nd>>
  <2>1. Answering(nd, sequence + 1, r) /\ queue' = Append(queue, nd)
    BY <1>4 DEF Served
  <2> QED BY <1>2, <2>1
<1>6. /\ Len(queue') = 1 /\ queue'[1] = nd /\ nd[1].sequence = sequence'
  <2>1. nd[1].sequence = sequence + 1
    BY <1>5 DEF Answering
  <2>2. Len(queue') = 1 /\ queue'[1] = nd
    BY <1>5
  <2> QED BY <1>1, <2>1, <2>2
<1>7. dump'.running => dump'.sequence = sequence' /\ EndKind(nd) = "answer"
  <2>1. CASE UNCHANGED <<dump, listing>>
    BY <1>2, <2>1
  <2>2. CASE \E d \in Dump, l \in Enumeration :
               /\ Sends(nd, d, l)
               /\ d.running /\ d.sequence = sequence + 1 /\ d.request = r
               /\ \A j \in DOMAIN d.items : ItemFits(r, d.items[j])
               /\ l.sequence = sequence + 1 /\ l.items = d.items
    <3>1. PICK d \in Dump, l \in Enumeration :
               /\ Sends(nd, d, l)
               /\ d.running /\ d.sequence = sequence + 1 /\ d.request = r
               /\ \A j \in DOMAIN d.items : ItemFits(r, d.items[j])
      BY <2>2
    <3>2. Answers(nd) \in 0 .. Len(d.items)
      BY <3>1, SendsAnswering
    <3>3. \/ EndKind(nd) = "answer" /\ dump' = Rest(d, Answers(nd))
          \/ dump' = NoDump
      BY <3>1 DEF Sends
    <3> QED BY <1>1, <3>1, <3>2, <3>3, RestType, NoDumpType
  <2> QED BY <1>4, <2>1, <2>2 DEF Served
<1>8. CleanOK'
  BY <1>3, <1>6, <1>7 DEF CleanOK, Waiting, IsOwn, OwnDump, EndKind
<1> QED BY <1>3, <1>5, <1>8

(* ... and recv takes it away; only an own dump that goes on puts another  *)
(* one there.                                                              *)
LEMMA CleanReceive ==
  ASSUME TransportOK, CleanOK, faults = 0, Receive, NEW h, h = Head(queue)
  PROVE  /\ CleanOK' /\ IsOwn(h)
         /\ \/ /\ queue' = <<>> /\ EndKind(h) = "error" /\ call'.state = "error"
               /\ call.messages = <<>>
            \/ /\ queue' = <<>> /\ EndKind(h) # "error" /\ call'.state = "ok"
            \/ /\ EndKind(h) # "error" /\ call'.state = "waiting"
               /\ \E nd : Answering(nd, sequence, call.request) /\ queue' = <<nd>>
<1>1. /\ UNCHANGED <<sequence, faults>> /\ Waiting /\ queue \in Seq(Seq(Message))
      /\ dump \in Dump /\ call \in Call
  BY DEF TransportOK, TransportTypes, Receive, Waiting
<1>2. /\ Len(queue) = 1 /\ IsOwn(h) /\ h = queue[1] /\ Tail(queue) = <<>>
      /\ dump.running => OwnDump /\ EndKind(h) = "answer"
      /\ EndKind(h) = "error" => call.messages = <<>>
  <2>1. Len(queue) = 1 /\ h = queue[1]
    BY <1>1 DEF CleanOK
  <2>2. Tail(queue) = <<>>
    <3>q. PICK q : q = queue
      OBVIOUS
    <3>T. PICK T : T = Seq(Message)
      OBVIOUS
    <3>t. PICK t : t = Tail(q)
      OBVIOUS
    <3>1. Len(q) = 1
      BY <2>1, <3>q
    <3>2. q \in Seq(T) /\ q # <<>>
      BY <1>1, <3>q, <3>T DEF Receive
    <3>3. t \in Seq(T) /\ Len(t) = Len(q) - 1
      BY <3>2, <3>t, TailFacts
    <3>4. t = <<>>
      BY <3>1, <3>3
    <3> QED BY <3>4, <3>q, <3>t
  <2> QED BY <1>1, <2>1, <2>2 DEF CleanOK
<1>3. call.dump \in BOOLEAN /\ EndKind(h) \in {"answer", "error", "done"}
  BY <1>1, AnswersCount, ReceiveCall DEF Call
<1>4. ASSUME ~dump.running
      PROVE  queue' = <<>> /\ ~dump'.running
  BY <1>2, <1>4, ReceiveQueue
<1>5. CASE EndKind(h) = "error"
  <2>1. call'.state = "error" /\ call'.messages = call.messages
    BY <1>2, <1>5, ReceiveCall
  <2>2. queue' = <<>> /\ ~dump'.running
    BY <1>2, <1>4, <1>5
  <2>3. CleanOK'
    BY <1>2, <1>5, <2>1, <2>2 DEF CleanOK, Waiting
  <2> QED BY <1>2, <1>5, <2>1, <2>2, <2>3
<1>6. CASE EndKind(h) = "done" \/ (EndKind(h) = "answer" /\ ~call.dump)
  <2>1. call'.state = "ok"
    BY <1>2, <1>6, ReceiveCall
  <2>2. ~dump.running
    BY <1>1, <1>2, <1>6 DEF TransportOK, DumpOK, OwnDump
  <2>3. queue' = <<>> /\ ~dump'.running
    BY <1>4, <2>2
  <2>4. CleanOK'
    BY <2>1, <2>3 DEF CleanOK, Waiting
  <2> QED BY <1>2, <1>6, <2>1, <2>3, <2>4
<1>7. CASE EndKind(h) = "answer" /\ call.dump
  <2>1. call'.state = "waiting"
    BY <1>2, <1>7, ReceiveCall
  <2>2. dump.running /\ dump.sequence = sequence
    <3>1. \A k \in DOMAIN queue : EndKind(queue[k]) = "answer"
      BY <1>1, <1>2, <1>7
    <3> QED BY <1>1, <1>7, <3>1 DEF TransportOK, WaitOK, OwnDump
  <2>3. PICK nd : /\ Sends(nd, dump, listing)
                  /\ Answering(nd, dump.sequence, dump.request)
                  /\ queue' = Append(Tail(queue), nd)
    BY <2>2, ReceiveQueue
  <2>4. queue' = <<nd>>
    <3>1. queue' = Append(<<>>, nd)
      BY <1>2, <2>3, Zenon
    <3>2. Append(<<>>, nd) = <<nd>>
      OBVIOUS
    <3> QED BY <3>1, <3>2, Zenon
  <2>5. /\ dump.request = call.request
        /\ \A j \in DOMAIN dump.items : ItemFits(dump.request, dump.items[j])
    BY <2>2 DEF TransportOK, DumpOK
  <2>6. Answering(nd, sequence, call.request)
    BY <2>2, <2>3, <2>5
  <2>7. Answers(nd) \in 0 .. Len(dump.items) /\ EndKind(nd) # "error"
    BY <1>1, <2>3, <2>5, SendsAnswering
  <2>8. dump'.running => dump'.sequence = sequence /\ EndKind(nd) = "answer"
    <3>1. \/ EndKind(nd) = "answer" /\ dump' = Rest(dump, Answers(nd))
          \/ dump' = NoDump
      BY <2>3 DEF Sends
    <3> QED BY <1>1, <2>2, <2>7, <3>1, RestType, NoDumpType
  <2>9. Len(queue') = 1 /\ queue'[1] = nd
    BY <2>4
  <2>10. nd[1].sequence = sequence
    BY <2>6 DEF Answering
  <2>11. CleanOK'
    BY <1>1, <2>1, <2>7, <2>8, <2>9, <2>10 DEF CleanOK, Waiting, IsOwn, OwnDump, EndKind
  <2> QED BY <1>2, <1>7, <2>1, <2>4, <2>6, <2>11
<1> QED BY <1>3, <1>5, <1>6, <1>7

(* A request keeps what was answered and what was found in step.           *)
LEMMA NextRequestAnswered ==
  ASSUME LInv, NextRequest
  PROVE  LInv'
<1>r. PICK r : r = Head(agenda)
  OBVIOUS
<1>1. /\ IInv /\ IInv' /\ TransportOK /\ CleanOK /\ AnsweredOK /\ NoteAnswers
      /\ call.state = "idle" /\ UNCHANGED <<found, faults>>
  BY NextRequestOK DEF LInv, IInv, NextRequest, program, Send
<1>2. FoundOK'
  BY <1>1 DEF LInv, FoundOK
<1>3. CASE faults # 0
  BY <1>1, <1>2, <1>3 DEF LInv, CleanOK, AnsweredOK
<1>4. CASE faults = 0
  <2>1. r \in Request
    BY <1>r DEF LInv, IInv, ProgramTypes, NextRequest
  <2>2. IsDump(r) \in BOOLEAN
    BY DEF IsDump
  <2>3. Send(r, IsDump(r), Lists(r))
    BY <1>r DEF NextRequest
  <2>4. /\ CleanOK'
        /\ \E nd : Answering(nd, sequence + 1, r) /\ queue' = <<nd>>
        /\ call'.state = "waiting" /\ call'.messages = <<>> /\ call'.request = r
    BY <1>1, <1>4, <2>1, <2>2, <2>3, CleanSend
  <2>5. PICK nd : Answering(nd, sequence + 1, r) /\ queue' = <<nd>>
    BY <2>4
  <2>n. PICK n : n = sequence + 1
    OBVIOUS
  <2>6. Answering(nd, n, r)
    BY <2>5, <2>n
  <2>7. \A x : x \in answered' <=> x \in answered \/ (UsefulIn(nd) /\ x = r)
    BY <1>1, <2>5, <2>6, NotingOne
  <2>8. (\E k \in DOMAIN queue' : UsefulIn(queue'[k])) <=> UsefulIn(nd)
    BY <1>1, <2>5, <2>6, NotingOne
  <2>9. UsefulSent' <=> UsefulIn(nd)
    BY <2>4, <2>8 DEF UsefulSent
  <2>10. AnsweredOK'
    <3> SUFFICES ASSUME NEW x, ~Required(x)
                 PROVE  x \in answered' <=> \/ \E f \in found : f.field = x
                                            \/ UsefulIn(nd) /\ x = r
      BY <1>1, <2>4, <2>9 DEF AnsweredOK
    <3>1. x \in answered <=> \E f \in found : f.field = x
      BY <1>1, <1>4 DEF AnsweredOK
    <3> QED BY <2>7, <3>1
  <2> QED BY <1>1, <1>2, <2>4, <2>10 DEF LInv
<1> QED BY <1>3, <1>4

(* The messages of an own datagram that are collected are its answers.     *)
LEMMA UsefulCollected ==
  ASSUME NEW h \in Seq(Message), DatagramOK(h), IsOwn(h), EndKind(h) # "error",
         NEW ms \in Seq(Message), NEW ms2, Joins(ms2, ms, Collected(h))
  PROVE  (\E j \in DOMAIN ms2 : ms2[j].item.useful) <=>
           \/ \E j \in DOMAIN ms : ms[j].item.useful
           \/ UsefulIn(h)
<1>c. PICK c : c = Collected(h)
  OBVIOUS
<1>1. /\ c \in Seq(Message) /\ DOMAIN c = 1 .. Answers(h)
      /\ \A j \in 1 .. Answers(h) : c[j] = h[j]
  BY <1>c, CollectedAnswers
<1>2. {i \in DOMAIN h : h[i].kind = "answer"} = 1 .. Answers(h)
  BY AnswersCount
<1>3. UsefulIn(h) <=> \E j \in DOMAIN c : c[j].item.useful
  BY <1>1, <1>2 DEF UsefulIn
<1>4. Joins(ms2, ms, c)
  BY <1>c
<1>5. /\ \A j \in DOMAIN ms : j \in DOMAIN ms2 /\ ms2[j] = ms[j]
      /\ \A j \in DOMAIN c : Len(ms) + j \in DOMAIN ms2 /\ ms2[Len(ms) + j] = c[j]
      /\ \A j \in DOMAIN ms2 :
           j \in DOMAIN ms \/ \E i \in DOMAIN c : j = Len(ms) + i /\ ms2[j] = c[i]
  <2>T. PICK T : T = Message
    OBVIOUS
  <2>1. ms \in Seq(T) /\ c \in Seq(T)
    BY <1>1, <2>T
  <2> QED BY <1>4, <2>1, ConcatFacts
<1>6. ASSUME NEW j \in DOMAIN ms2, ms2[j].item.useful
      PROVE  (\E i \in DOMAIN ms : ms[i].item.useful) \/ UsefulIn(h)
  BY <1>3, <1>5, <1>6, Zenon
<1>7. ASSUME NEW j \in DOMAIN ms, ms[j].item.useful
      PROVE  \E i \in DOMAIN ms2 : ms2[i].item.useful
  BY <1>5, <1>7, Zenon
<1>8. ASSUME NEW j \in DOMAIN c, c[j].item.useful
      PROVE  \E i \in DOMAIN ms2 : ms2[i].item.useful
  BY <1>5, <1>8, Zenon
<1> QED BY <1>3, <1>6, <1>7, <1>8, Zenon

(* ... and so does a datagram: useful answers move from the queue to the   *)
(* messages ...                                                            *)
LEMMA TakeDatagramAnswered ==
  ASSUME LInv, TakeDatagram
  PROVE  LInv'
<1>1. /\ IInv /\ IInv' /\ TransportOK /\ CleanOK /\ AnsweredOK /\ NoteAnswers /\ Receive
      /\ UNCHANGED <<found, faults>> /\ call.state = "waiting" /\ call \in Call
      /\ queue \in Seq(Seq(Message))
  BY TakeDatagramOK DEF LInv, IInv, TransportOK, TransportTypes, TakeDatagram, program,
                        Receive
<1>2. FoundOK'
  BY <1>1 DEF LInv, FoundOK
<1>3. CASE faults # 0
  BY <1>1, <1>2, <1>3 DEF LInv, CleanOK, AnsweredOK
<1>4. CASE faults = 0
  <2>h. PICK h : h = Head(queue)
    OBVIOUS
  <2>r. PICK r : r = call.request
    OBVIOUS
  <2>m. PICK ms : ms = call.messages
    OBVIOUS
  <2>p. PICK ms2 : ms2 = call'.messages
    OBVIOUS
  <2>1. /\ CleanOK' /\ IsOwn(h)
        /\ \/ /\ queue' = <<>> /\ EndKind(h) = "error" /\ call'.state = "error"
              /\ call.messages = <<>>
           \/ /\ queue' = <<>> /\ EndKind(h) # "error" /\ call'.state = "ok"
           \/ /\ EndKind(h) # "error" /\ call'.state = "waiting"
              /\ \E nd : Answering(nd, sequence, call.request) /\ queue' = <<nd>>
    BY <1>1, <1>4, <2>h, CleanReceive
  <2>2. /\ h \in Seq(Message) /\ DatagramOK(h) /\ call'.request = r
        /\ EndKind(h) # "error" => Joins(ms2, ms, Collected(h))
    BY <1>1, <2>h, <2>r, <2>m, <2>p, ReceiveCall DEF Joins
  <2>3. ms \in Seq(Message)
    BY <1>1, <2>m, Fields
  <2>4. DOMAIN queue = {1} /\ queue[1] = h
    <3>1. Len(queue) = 1
      BY <1>1, <1>4 DEF CleanOK, Waiting
    <3> QED BY <1>1, <2>h, <3>1
  <2>5. UsefulSent <=> (\E j \in DOMAIN ms : ms[j].item.useful) \/ UsefulIn(h)
    <3>1. (\E k \in DOMAIN queue : UsefulIn(queue[k])) <=> UsefulIn(h)
      BY <2>4, Zenon
    <3> QED BY <2>m, <3>1, Zenon DEF UsefulSent
  <2>6. \A x : ~Required(x) =>
          (x \in answered <=> (\E f \in found : f.field = x) \/ (UsefulSent /\ x = r))
    <3>1. call.state \in {"waiting", "ok"}
      BY <1>1
    <3> QED BY <1>1, <1>4, <2>r, <3>1, Zenon DEF AnsweredOK
  <2>7. CASE queue' = <<>> /\ EndKind(h) = "error" /\ call'.state = "error"
             /\ call.messages = <<>>
    <3>1. ~UsefulIn(h)
      <4>1. Has(h, "error") /\ {i \in DOMAIN h : h[i].kind = "answer"} = 1 .. Answers(h)
        BY <2>2, <2>7, AnswersCount
      <4>2. Len(h) = 1 /\ Answers(h) = 0
        BY <2>2, <2>7 DEF DatagramOK, EndKind, Answers
      <4> QED BY <4>1, <4>2 DEF UsefulIn
    <3>2. ~UsefulSent
      BY <2>5, <2>7, <2>m, <3>1
    <3>3. answered' = answered
      BY <1>1, <2>7, NotingNone
    <3>4. AnsweredOK'
      BY <1>1, <2>6, <2>7, <3>2, <3>3 DEF AnsweredOK
    <3> QED BY <1>1, <1>2, <2>1, <3>4 DEF LInv
  <2>8. ASSUME EndKind(h) # "error"
        PROVE  (\E j \in DOMAIN ms2 : ms2[j].item.useful) <=> UsefulSent
    BY <2>1, <2>2, <2>3, <2>5, <2>8, UsefulCollected
  <2>9. CASE queue' = <<>> /\ EndKind(h) # "error" /\ call'.state = "ok"
    <3>1. answered' = answered /\ ~\E k \in DOMAIN queue' : UsefulIn(queue'[k])
      BY <1>1, <2>9, NotingNone
    <3>2. UsefulSent' <=> UsefulSent
      BY <2>8, <2>9, <2>p, <3>1 DEF UsefulSent
    <3>3. AnsweredOK'
      BY <1>1, <2>2, <2>6, <2>9, <3>1, <3>2 DEF AnsweredOK
    <3> QED BY <1>1, <1>2, <2>1, <3>3 DEF LInv
  <2>10. CASE /\ EndKind(h) # "error" /\ call'.state = "waiting"
              /\ \E nd : Answering(nd, sequence, call.request) /\ queue' = <<nd>>
    <3>n. PICK n : n = sequence
      OBVIOUS
    <3>1. PICK nd : Answering(nd, n, r) /\ queue' = <<nd>>
      BY <2>10, <2>r, <3>n
    <3>2. \A x : x \in answered' <=> x \in answered \/ (UsefulIn(nd) /\ x = r)
      BY <1>1, <3>1, NotingOne
    <3>3. (\E k \in DOMAIN queue' : UsefulIn(queue'[k])) <=> UsefulIn(nd)
      BY <1>1, <3>1, NotingOne
    <3>4. UsefulSent' <=> UsefulSent \/ UsefulIn(nd)
      BY <2>8, <2>10, <2>p, <3>3 DEF UsefulSent
    <3>5. AnsweredOK'
      <4> SUFFICES ASSUME NEW x, ~Required(x)
                   PROVE  x \in answered' <=>
                            \/ \E f \in found : f.field = x
                            \/ (UsefulSent \/ UsefulIn(nd)) /\ x = r
        BY <1>1, <2>2, <2>10, <3>4 DEF AnsweredOK
      <4>1. x \in answered <=> (\E f \in found : f.field = x) \/ (UsefulSent /\ x = r)
        BY <2>6, Zenon
      <4>2. x \in answered' <=> x \in answered \/ (UsefulIn(nd) /\ x = r)
        BY <3>2
      <4> QED BY <4>1, <4>2
    <3> QED BY <1>1, <1>2, <2>1, <3>5 DEF LInv
  <2> QED BY <2>1, <2>7, <2>9, <2>10
<1> QED BY <1>3, <1>4

(* ... and a reply: useful messages become a field.                        *)
LEMMA TakeReplyAnswered ==
  ASSUME LInv, TakeReply
  PROVE  LInv'
<1>r. PICK r : r = call.request
  OBVIOUS
<1>m. PICK ms : ms = call.messages
  OBVIOUS
<1>1. /\ call.state \in {"ok", "error"} /\ call' = Idle(call.request)
      /\ UNCHANGED <<sequence, queue, dump, faults, answered>>
      /\ IInv /\ IInv' /\ TransportOK /\ call \in Call
      /\ CleanOK /\ AnsweredOK /\ FoundOK
  BY TakeReplyOK DEF TakeReply, LInv, IInv, TransportOK, TransportTypes
<1>2. call'.state = "idle" /\ call'.messages = <<>>
  BY <1>1 DEF Idle
<1>3. r \in Request /\ ms \in Seq(Message)
      /\ \A j \in DOMAIN ms : ms[j].request = r /\ ItemFits(r, ms[j].item)
  BY <1>r, <1>m, <1>1, Fields DEF TransportOK, CollectedOK
<1>4. CleanOK'
  BY <1>1, <1>2 DEF CleanOK, Waiting
<1>5. ASSUME faults = 0, NEW x, ~Required(x)
      PROVE  x \in answered <=> \/ \E f \in found : f.field = x
                                \/ call.state = "ok" /\ Usable(ms) # {} /\ x = r
  <2>1. queue = <<>>
    BY <1>1, <1>5 DEF CleanOK, Waiting
  <2>2. UsefulSent <=> \E j \in DOMAIN ms : ms[j].item.useful
    <3>1. DOMAIN queue = {}
      BY <2>1
    <3> QED BY <1>m, <3>1, Zenon DEF UsefulSent
  <2>3. UsefulSent <=> Usable(ms) # {}
    BY <2>2, Zenon DEF Usable
  <2>4. call.state \in {"waiting", "ok"} <=> call.state = "ok"
    BY <1>1
  <2>5. x \in answered <=> (\E f \in found : f.field = x) \/
             (call.state \in {"waiting", "ok"} /\ UsefulSent /\ x = r)
    BY <1>r, <1>1, <1>5, Zenon DEF AnsweredOK
  <2> QED BY <2>3, <2>4, <2>5, Zenon
<1>6. SUFFICES /\ FoundOK'
               /\ faults = 0 => \A x : ~Required(x) =>
                    (x \in answered <=> \E f \in found' : f.field = x)
  BY <1>1, <1>2, <1>4 DEF LInv, AnsweredOK
<1>7. CASE found' = found /\ (Required(r) \/ call.state = "error")
  <2>1. FoundOK'
    BY <1>1, <1>7 DEF FoundOK
  <2>2. ASSUME faults = 0, NEW x, ~Required(x)
        PROVE  x \in answered <=> \E f \in found : f.field = x
    BY <1>5, <1>7, <2>2
  <2> QED BY <1>7, <2>1, <2>2
<1>8. CASE r.command = "interface"
           /\ \E list : /\ list = [i \in DOMAIN Parsed(ms) |-> Parsed(ms)[i].item.id]
                       /\ \/ found' = {[field |-> Ask("wiphy", i),
                                        from |-> Ask("wiphy", 0)] : i \in Range(list)}
                          \/ found' = {}
  <2>1. PICK list : /\ list = [i \in DOMAIN Parsed(ms) |-> Parsed(ms)[i].item.id]
                    /\ \/ found' = {[field |-> Ask("wiphy", i),
                                     from |-> Ask("wiphy", 0)] : i \in Range(list)}
                       \/ found' = {}
    BY <1>8
  <2>2. \A j \in DOMAIN ms : ms[j].item.useful => ms[j].item.id \in Indexes
    BY <1>3, <1>8 DEF ItemFits
  <2>3. Range(list) \subseteq Indexes
    BY <1>3, <2>1, <2>2, ParsedIndexes
  <2>4. \A f \in found' : f.field.command = "wiphy"
    BY <2>1, <2>3, RadioNames
  <2>5. agenda[1] = r /\ 1 \in DOMAIN agenda
    BY <1>r, <1>1 DEF IInv, AgendaOK, AtRequest, ProgramTypes
  <2>6. \A x \in answered : Required(x)
    <3>1. Required(r)
      BY <1>8 DEF Required
    <3> QED BY <1>1, <2>5, <3>1 DEF IInv, AgendaOK, Enumerating
  <2>7. \A x : x.command = "wiphy" => Required(x)
    BY DEF Required
  <2> QED BY <2>4, <2>6, <2>7 DEF FoundOK
<1>9. CASE ~Required(r) /\ Fill(r, ms) /\ call.state = "ok"
  <2>1. /\ Usable(ms) = {} => found' = found
        /\ Usable(ms) # {} => found' = found \union {[field |-> r, from |-> r]}
    BY <1>1, <1>3, <1>9, FillOK DEF IInv, ProgramTypes
  <2>2. [field |-> r, from |-> r].field = r
    OBVIOUS
  <2>3. FoundOK'
    BY <1>1, <1>9, <2>1, <2>2, Zenon DEF FoundOK
  <2>4. ASSUME faults = 0, NEW x, ~Required(x)
        PROVE  x \in answered <=> \E f \in found' : f.field = x
    <3>1. x \in answered <=> (\E f \in found : f.field = x) \/ (Usable(ms) # {} /\ x = r)
      BY <1>5, <1>9, <2>4
    <3>2. CASE Usable(ms) = {}
      BY <2>1, <3>1, <3>2
    <3>3. CASE Usable(ms) # {}
      <4>1. \A f : f \in found' <=> f \in found \/ f = [field |-> r, from |-> r]
        BY <2>1, <3>3
      <4> QED BY <2>2, <3>1, <3>3, <4>1, Zenon
    <3> QED BY <3>2, <3>3
  <2> QED BY <2>3, <2>4
<1>10. CASE call.state = "ok"
  <2>1. Apply(r, ms)
    BY <1>r, <1>m, <1>10 DEF TakeReply
  <2>2. r.command \in {"connect", "wiphy"} => Required(r)
    BY DEF Required
  <2>3. Fail => found' = found
    BY DEF Fail
  <2> QED BY <1>3, <1>7, <1>8, <1>9, <1>10, <2>1, <2>2, <2>3, ApplyCases
<1>11. CASE call.state = "error"
  <2>1. found' = found
    BY <1>11 DEF TakeReply, Fail, Skip
  <2> QED BY <1>7, <1>11, <2>1
<1> QED BY <1>1, <1>10, <1>11

(* Every step keeps them in step.                                          *)
LEMMA AnsweredStep == LInv /\ [Next]_vars => LInv'
<1> SUFFICES ASSUME LInv, [Next]_vars PROVE LInv'
  OBVIOUS
<1>1. IInv' /\ IInv /\ faults \in Nat /\ CleanOK /\ AnsweredOK /\ FoundOK
  BY StepOK DEF LInv, IInv, TransportOK, TransportTypes
<1>2. CASE UNCHANGED <<transport, found, answered>>
  BY <1>1, <1>2 DEF LInv, transport, CleanOK, AnsweredOK, FoundOK, Waiting, IsOwn,
                    OwnDump, UsefulSent
<1>3. CASE RequestFails \/ LoseDatagram
  <2>1. faults' # 0 /\ UNCHANGED found
    BY <1>1, <1>3 DEF RequestFails, SendFails, LoseDatagram, ReceiveFails, program
  <2> QED BY <1>1, <2>1 DEF LInv, CleanOK, AnsweredOK, FoundOK
<1>4. CASE NextRequest
  BY <1>4, NextRequestAnswered
<1>5. CASE TakeDatagram
  BY <1>5, TakeDatagramAnswered
<1>6. CASE TakeReply
  BY <1>6, TakeReplyAnswered
<1>7. CASE ListLinks \/ Return \/ Stopped \/ UNCHANGED vars
  BY <1>2, <1>7 DEF ListLinks, Return, Stopped, vars, program
<1> QED BY <1>3, <1>4, <1>5, <1>6, <1>7 DEF Next

(* Before the first request nothing was answered.                          *)
LEMMA AnsweredInit == Init => LInv
<1> SUFFICES ASSUME Init PROVE CleanOK /\ AnsweredOK /\ FoundOK
  BY InitOK DEF LInv
<1>1. /\ queue = <<>> /\ dump = NoDump /\ call = Idle(Ask("connect", 0))
      /\ found = {} /\ answered = {}
  BY DEF Init, TransportInit, Ask
<1>2. call.state = "idle" /\ call.messages = <<>> /\ ~dump.running
  BY <1>1, NoDumpType DEF Idle
<1> QED BY <1>1, <1>2 DEF CleanOK, AnsweredOK, FoundOK, Waiting

(* While the socket works, a query the kernel rejects costs only its own   *)
(* fields: when the call succeeds a field is present exactly if its query  *)
(* was answered usefully, and only a required step fails the call.         *)
THEOREM RejectionsLocal == Spec => []RejectionsStayLocal
<1>1. LInv => RejectionsStayLocal
  <2> SUFFICES ASSUME LInv, faults = 0
               PROVE  /\ outcome = "ok" =>
                           {f.field : f \in {g \in found : g.field.command # "wiphy"}}
                             = {r \in answered : ~Required(r)}
                      /\ outcome = "error" /\ sequence > 0 => Required(culprit)
    BY DEF RejectionsStayLocal
  <2>1. ASSUME outcome = "ok"
        PROVE  {f.field : f \in {g \in found : g.field.command # "wiphy"}}
                 = {r \in answered : ~Required(r)}
    <3>1. call.state = "idle"
      BY <2>1 DEF LInv, IInv, AgendaOK, AtRequest, Running
    <3>2. \A r : ~Required(r) => (r \in answered <=> \E f \in found : f.field = r)
      BY <3>1 DEF LInv, AnsweredOK
    <3>3. \A f \in found : Required(f.field) <=> f.field.command = "wiphy"
      BY DEF LInv, FoundOK, Required
    <3> QED BY <3>2, <3>3, Zenon
  <2>2. outcome = "error" /\ sequence > 0 => Required(culprit)
    BY DEF LInv, IInv, AgendaOK, CulpritOK, TransportOK, TransportTypes
  <2> QED BY <2>1, <2>2
<1> QED BY <1>1, AnsweredInit, AnsweredStep, PTL DEF Spec
-----------------------------------------------------------------------------
(* The enumeration does what it would without a socket.                    *)

(* The entries of a sequence differ.                                       *)
Differ(s) == \A j, k \in DOMAIN s : s[j] = s[k] => j = k

(* The queries that this enumeration makes.                                *)
Asks == [command : Range(QueriesOf(tool)), index : devices]

DevicesOK == tool \in {"wifi", "ethtool"} /\ devices \subseteq Indexes \ Loopback

(* What is left to do: each request once, the queries about the devices    *)
(* among them, and until the required steps are done all that follows.     *)
PlanOK ==
  /\ Differ(agenda)
  /\ \A k \in DOMAIN agenda : ~Required(agenda[k]) => agenda[k] \in Asks
  /\ tool = "ethtool" => \A k \in DOMAIN agenda : agenda[k].command # "interface"
  /\ agenda # <<>> /\ sequence = 0 => Required(agenda[1])
  /\ agenda # <<>> /\ Required(agenda[1]) =>
       \/ tool = "wifi" /\ \E k \in DOMAIN agenda : agenda[k].command = "interface"
       \/ /\ tool = "ethtool"
          /\ \A k \in DOMAIN agenda : k > 1 => ~Required(agenda[k])
          /\ \A q \in Asks : \E k \in DOMAIN agenda : agenda[k] = q

(* ... also by the kernel, if it still answers a query given up.           *)
AbandonedOK == dump.running => Required(dump.request) \/ dump.request \in Asks

(* The kernel lists each interface once, and wireless ones only.           *)
EachOnce(items) ==
  /\ \A j \in DOMAIN items : items[j].useful => items[j].id \in Indexes \ Loopback
  /\ \A j, k \in DOMAIN items :
       items[j].useful /\ items[k].useful /\ items[j].id = items[k].id => j = k

ListedOK ==
  /\ call.state # "idle" => call.dump = IsDump(call.request)
  /\ call.request.command = "interface" /\ listing.sequence = sequence =>
       EachOnce(listing.items)

(* What was collected and found was answered.                              *)
HeardOK ==
  /\ \A j \in DOMAIN call.messages :
       call.messages[j].item.useful => call.messages[j].request \in answered
  /\ \A f \in found : ~Required(f.field) => f.field \in answered

RInv == SInv /\ LInv /\ DevicesOK /\ PlanOK /\ AbandonedOK /\ ListedOK /\ HeardOK
-----------------------------------------------------------------------------
(* A finite set as a sequence has each element once.                       *)
LEMMA SetToSeqOnce ==
  ASSUME NEW S, IsFiniteSet(S)
  PROVE  /\ SetToSeq(S) \in Seq(S) /\ Differ(SetToSeq(S))
         /\ Range(SetToSeq(S)) = S
<1> DEFINE c == Cardinality(S)
<1>1. c \in Nat /\ ExistsBijection(1 .. c, S)
  BY FS_CardinalityType
<1>2. PICK f \in [1 .. c -> S] : IsInjective(f)
  BY <1>1 DEF ExistsBijection, Bijection, Injection, Surjection, IsInjective
<1>q. PICK q : q = SetToSeq(S)
  OBVIOUS
<1>3. q \in [1 .. c -> S] /\ IsInjective(q)
  BY <1>2, <1>q DEF SetToSeq
<1>4. IsFiniteSet(1 .. c) /\ Cardinality(1 .. c) = c
  BY <1>1, FS_Interval
<1>5. q \in Surjection(1 .. c, S)
  <2>1. q \in Injection(1 .. c, S)
    BY <1>3 DEF Injection, IsInjective
  <2> QED BY <1>4, <2>1, FS_Injection
<1>6. Range(q) = S
  BY <1>3, <1>5 DEF Surjection, Range
<1>7. Differ(q)
  BY <1>3 DEF Differ, IsInjective
<1> HIDE DEF c
<1>8. q \in Seq(S)
  BY <1>1, <1>3
<1> QED BY <1>q, <1>6, <1>7, <1>8

(* The interfaces the kernel lists.                                        *)
LEMMA ListsOnce ==
  ASSUME NEW r \in Request, r.command = "interface", NEW list \in Lists(r)
  PROVE  EachOnce(list)
<1>1. PICK s \in SUBSET (Indexes \ Loopback) :
        list \in {Interfaces(s), Append(Interfaces(s), Useless(0))}
  BY DEF Lists
<1>U. PICK U : U = {Useful(i) : i \in s}
  OBVIOUS
<1>h. PICK head : head = Interfaces(s)
  OBVIOUS
<1>u. PICK u : u = Useless(0)
  OBVIOUS
<1>2. IsFiniteSet(U)
  <2>1. IsFiniteSet(s)
    BY HardwareAssumption, FS_Subset
  <2>2. [i \in s |-> Useful(i)] \in Surjection(s, U)
    BY <1>U DEF Surjection
  <2> QED BY <2>1, <2>2, FS_Surjection
<1>3. head \in Seq(U) /\ Differ(head)
  BY <1>2, <1>h, <1>U, SetToSeqOnce DEF Interfaces
<1>4. /\ \A x \in U : x.id \in s /\ x = Useful(x.id)
      /\ ~u.useful
  BY <1>U, <1>u DEF Useful, Useless
<1>5. list = head \/ list = Append(head, u)
  BY <1>1, <1>h, <1>u
<1>6. /\ \A j \in DOMAIN head : head[j].id \in s
      /\ \A j, k \in DOMAIN head : head[j].id = head[k].id => j = k
  <2>1. \A j \in DOMAIN head : head[j] \in U
    BY <1>3
  <2> QED BY <1>3, <1>4, <2>1 DEF Differ
<1>7. EachOnce(head)
  BY <1>6 DEF EachOnce
<1>8. CASE list = Append(head, u)
  <2>T. PICK T : T = U \union {u}
    OBVIOUS
  <2>1. head \in Seq(T) /\ u \in T
    BY <1>3, <2>T
  <2>2. \A k \in DOMAIN list : list[k] = u \/ (k \in DOMAIN head /\ list[k] = head[k])
    BY <1>8, <2>1, AppendFacts
  <2> QED BY <1>4, <1>6, <2>2 DEF EachOnce
<1> QED BY <1>5, <1>7, <1>8

(* The interfaces parsed from what was listed.                             *)
LEMMA ParsedOnce ==
  ASSUME NEW ms \in Seq(Message), NEW items, EachOnce(items),
         \A j \in DOMAIN ms : j \in DOMAIN items /\ ms[j].item = items[j],
         NEW list, list = [i \in DOMAIN Parsed(ms) |-> Parsed(ms)[i].item.id]
  PROVE  list \in Seq(Indexes) /\ Range(list) \subseteq Indexes \ Loopback /\ Differ(list)
<1>p. PICK p : p = Parsed(ms)
  OBVIOUS
<1>a. PICK at : at = Usable(ms)
  OBVIOUS
<1>1. at \in SUBSET DOMAIN ms /\ \A j \in at : ms[j].item.useful
  BY <1>a DEF Usable
<1>2. PICK f \in [DOMAIN p -> at] :
        /\ \A k \in DOMAIN p : p[k] = ms[f[k]]
        /\ \A k, l \in DOMAIN p : f[k] = f[l] => k = l
  BY <1>p, <1>a, <1>1, PickPositions DEF Parsed
<1>3. \A k \in DOMAIN p : /\ f[k] \in DOMAIN items /\ items[f[k]].useful
                          /\ p[k].item.id = items[f[k]].id
  BY <1>1, <1>2
<1>4. list = [i \in DOMAIN p |-> p[i].item.id]
  BY <1>p
<1>5. \A k \in DOMAIN p : list[k] \in Indexes \ Loopback
  BY <1>3, <1>4 DEF EachOnce
<1>6. Differ(list)
  BY <1>2, <1>3, <1>4 DEF EachOnce, Differ
<1>7. DOMAIN p = 1 .. Len(p) /\ Len(p) \in Nat
  BY <1>p, <1>a, <1>1, PickElements DEF Parsed
<1>8. list \in Seq(Indexes)
  BY <1>4, <1>5, <1>7
<1> QED BY <1>4, <1>5, <1>6, <1>8 DEF Range

(* The queries are every query about every interface, each once if the     *)
(* interfaces are.                                                         *)
LEMMA QueriesOnce ==
  ASSUME NEW t \in {"wifi", "ethtool"}, NEW list \in Seq(Indexes), Differ(list),
         NEW q, q = Queries(t, list)
  PROVE  Differ(q) /\ Range(q) = [command : Range(QueriesOf(t)), index : Range(list)]
<1>o. PICK of : of = QueriesOf(t)
  OBVIOUS
<1>e. PICK each : each = Len(of)
  OBVIOUS
<1>n. PICK n : n = Len(list)
  OBVIOUS
<1>1. /\ each \in {3, 5} /\ DOMAIN of = 1 .. each /\ Differ(of)
  <2>1. CASE t = "wifi"
    <3>1. of = <<"scan", "station", "power">>
      BY <1>o, <2>1 DEF QueriesOf, WifiQueries
    <3>2. each = 3 /\ DOMAIN of = 1 .. 3
      BY <1>e, <3>1
    <3>3. of[1] = "scan" /\ of[2] = "station" /\ of[3] = "power"
      BY <3>1
    <3>4. \A j \in 1 .. 3 : j \in {1, 2, 3}
      OBVIOUS
    <3> QED BY <3>2, <3>3, <3>4 DEF Differ
  <2>2. CASE t = "ethtool"
    <3>1. of = <<"linkinfo", "linkmodes", "features", "eee", "stats">>
      BY <1>o, <2>2 DEF QueriesOf, EthtoolQueries
    <3>2. each = 5 /\ DOMAIN of = 1 .. 5
      BY <1>e, <3>1
    <3>3. /\ of[1] = "linkinfo" /\ of[2] = "linkmodes" /\ of[3] = "features"
          /\ of[4] = "eee" /\ of[5] = "stats"
      BY <3>1
    <3>4. \A j \in 1 .. 5 : j \in {1, 2, 3, 4, 5}
      OBVIOUS
    <3> QED BY <3>2, <3>3, <3>4 DEF Differ
  <2> QED BY <2>1, <2>2
<1>2. n \in Nat /\ DOMAIN list = 1 .. n
  BY <1>n
<1>m. PICK m : m = each * n
  OBVIOUS
<1>3. m \in Nat
  BY <1>1, <1>2, <1>m
<1>r. PICK row : row = [k \in 1 .. m |-> ((k - 1) \div each) + 1]
  OBVIOUS
<1>c. PICK column : column = [k \in 1 .. m |-> ((k - 1) % each) + 1]
  OBVIOUS
<1>5. \A k \in 1 .. m : /\ row[k] = ((k - 1) \div each) + 1
                        /\ column[k] = ((k - 1) % each) + 1
  BY <1>r, <1>c
<1>6. q = [k \in 1 .. m |-> Ask(of[column[k]], list[row[k]])]
  <2>1. q = [k \in 1 .. m |-> Ask(of[((k - 1) % each) + 1], list[((k - 1) \div each) + 1])]
    BY <1>o, <1>e, <1>n, <1>m DEF Queries
  <2> QED BY <1>5, <2>1, Zenon
<1>7. /\ \A k \in 1 .. m : /\ row[k] \in 1 .. n /\ column[k] \in 1 .. each
                           /\ k = each * (row[k] - 1) + column[k]
      /\ \A i \in 1 .. n : \A j \in 1 .. each :
           \E k \in 1 .. m : column[k] = j /\ row[k] = i
  <2>1. ASSUME NEW k \in 1 .. m
        PROVE  /\ row[k] \in 1 .. n /\ column[k] \in 1 .. each
               /\ k = each * (row[k] - 1) + column[k]
    <3>1. row[k] = ((k - 1) \div each) + 1 /\ column[k] = ((k - 1) % each) + 1
      BY <1>5
    <3>2. CASE each = 3
      <4>1. row[k] = ((k - 1) \div 3) + 1 /\ column[k] = ((k - 1) % 3) + 1 /\ m = 3 * n
        BY <1>m, <3>1, <3>2
      <4> QED BY <1>2, <3>2, <4>1
    <3>3. CASE each = 5
      <4>1. row[k] = ((k - 1) \div 5) + 1 /\ column[k] = ((k - 1) % 5) + 1 /\ m = 5 * n
        BY <1>m, <3>1, <3>3
      <4> QED BY <1>2, <3>3, <4>1
    <3> QED BY <1>1, <3>2, <3>3
  <2>2. ASSUME NEW i \in 1 .. n, NEW j \in 1 .. each
        PROVE  \E k \in 1 .. m : column[k] = j /\ row[k] = i
    <3>1. CASE each = 3
      <4>k. PICK k : k = 3 * (i - 1) + j
        OBVIOUS
      <4>1. m = 3 * n /\ j \in 1 .. 3
        BY <1>m, <3>1
      <4>2. k \in 1 .. m
        BY <1>2, <4>k, <4>1
      <4>3. ((k - 1) \div 3) + 1 = i /\ ((k - 1) % 3) + 1 = j
        BY <1>2, <4>k, <4>1
      <4>4. row[k] = ((k - 1) \div 3) + 1 /\ column[k] = ((k - 1) % 3) + 1
        BY <1>5, <3>1, <4>2
      <4> QED BY <4>2, <4>3, <4>4
    <3>2. CASE each = 5
      <4>k. PICK k : k = 5 * (i - 1) + j
        OBVIOUS
      <4>1. m = 5 * n /\ j \in 1 .. 5
        BY <1>m, <3>2
      <4>2. k \in 1 .. m
        BY <1>2, <4>k, <4>1
      <4>3. ((k - 1) \div 5) + 1 = i /\ ((k - 1) % 5) + 1 = j
        BY <1>2, <4>k, <4>1
      <4>4. row[k] = ((k - 1) \div 5) + 1 /\ column[k] = ((k - 1) % 5) + 1
        BY <1>5, <3>2, <4>2
      <4> QED BY <4>2, <4>3, <4>4
    <3> QED BY <1>1, <3>1, <3>2
  <2> QED BY <2>1, <2>2
<1>8. Differ(q)
  <2> SUFFICES ASSUME NEW k \in 1 .. m, NEW l \in 1 .. m, q[k] = q[l]
               PROVE  k = l
    BY <1>6 DEF Differ
  <2>1. of[column[k]] = of[column[l]] /\ list[row[k]] = list[row[l]]
    BY <1>6 DEF Ask
  <2>2. column[k] = column[l] /\ row[k] = row[l]
    BY <1>1, <1>2, <1>7, <2>1 DEF Differ
  <2> QED BY <1>7, <2>2
<1>9. \A k \in 1 .. m : q[k] \in [command : Range(of), index : Range(list)]
  <2> SUFFICES ASSUME NEW k \in 1 .. m
               PROVE  q[k] \in [command : Range(of), index : Range(list)]
    OBVIOUS
  <2>1. of[column[k]] \in Range(of) /\ list[row[k]] \in Range(list)
    BY <1>1, <1>2, <1>7 DEF Range
  <2> QED BY <1>6, <2>1 DEF Ask
<1>10. ASSUME NEW x \in [command : Range(of), index : Range(list)]
       PROVE  \E k \in 1 .. m : q[k] = x
  <2>1. PICK j \in 1 .. each, i \in 1 .. n : x.command = of[j] /\ x.index = list[i]
    BY <1>1, <1>2 DEF Range
  <2>2. PICK k \in 1 .. m : column[k] = j /\ row[k] = i
    BY <1>7
  <2>3. q[k] = [command |-> x.command, index |-> x.index]
    BY <1>6, <2>1, <2>2 DEF Ask
  <2>4. x = [command |-> x.command, index |-> x.index]
    OBVIOUS
  <2> QED BY <2>3, <2>4
<1>11. DOMAIN q = 1 .. m
  BY <1>6
<1>12. Range(q) = [command : Range(of), index : Range(list)]
  <2>S. PICK S : S = [command : Range(of), index : Range(list)]
    OBVIOUS
  <2>1. \A k \in DOMAIN q : q[k] \in S
    BY <1>9, <1>11, <2>S
  <2>2. \A x \in S : \E k \in DOMAIN q : q[k] = x
    BY <1>10, <1>11, <2>S
  <2>3. Range(q) = S
    BY <2>1, <2>2, Zenon DEF Range
  <2> QED BY <2>3, <2>S
<1> QED BY <1>o, <1>8, <1>12, Zenon
-----------------------------------------------------------------------------
(* What is left of a plan when its first request is done.                  *)
LEMMA TailPlan ==
  ASSUME agenda \in Seq(Request), agenda # <<>>, Enumerating, DevicesOK, PlanOK,
         agenda' = Tail(agenda), UNCHANGED <<tool, devices, sequence>>, sequence # 0,
         Head(agenda).command # "interface"
  PROVE  PlanOK'
<1>t. PICK t : t = Tail(agenda)
  OBVIOUS
<1>1. /\ t \in Seq(Request) /\ agenda' = t /\ 1 \in DOMAIN agenda
      /\ Head(agenda) = agenda[1]
      /\ \A k \in DOMAIN t : /\ k \in Nat /\ k >= 1 /\ k + 1 \in DOMAIN agenda
                             /\ t[k] = agenda[k + 1]
      /\ \A k \in DOMAIN agenda : k = 1 \/ (k - 1 \in DOMAIN t /\ t[k - 1] = agenda[k])
  BY <1>t, TailFacts
<1>2. Asks' = Asks
  BY DEF Asks
<1>3. Differ(t)
  BY <1>1 DEF PlanOK, Differ
<1>4. /\ \A k \in DOMAIN t : ~Required(t[k]) => t[k] \in Asks
      /\ tool = "ethtool" => \A k \in DOMAIN t : t[k].command # "interface"
  BY <1>1 DEF PlanOK
<1>5. ASSUME t # <<>>, Required(t[1])
      PROVE  tool = "wifi" /\ \E k \in DOMAIN t : t[k].command = "interface"
  <2>1. 1 \in DOMAIN t
    BY <1>1, <1>5
  <2>2. 2 \in DOMAIN agenda /\ Required(agenda[2])
    BY <1>1, <1>5, <2>1
  <2>3. Required(agenda[1])
    BY <2>2 DEF Enumerating
  <2>4. tool = "wifi" /\ \E k \in DOMAIN agenda : agenda[k].command = "interface"
    BY <2>2, <2>3 DEF PlanOK
  <2> QED BY <1>1, <2>4
<1> QED BY <1>1, <1>2, <1>3, <1>4, <1>5 DEF PlanOK

(* The plan of ethtool: connecting, and every query of every device.       *)
LEMMA ListLinksPlan ==
  ASSUME IInv, DevicesOK, PlanOK, ListLinks
  PROVE  DevicesOK' /\ PlanOK'
<1>1. /\ tool = "ethtool" /\ UNCHANGED <<tool, sequence>> /\ agenda = <<>> /\ sequence = 0
  BY DEF ListLinks, transport
<1>2. CASE UNCHANGED <<devices, agenda>>
  BY <1>1, <1>2 DEF DevicesOK, PlanOK, Asks
<1>3. CASE \E s \in SUBSET Indexes :
             /\ devices' = s \ Loopback
             /\ agenda' = <<Ask("connect", 0)>>
                            \o Queries("ethtool", SetToSeq(devices'))
  <2>d. PICK ds : ds = devices'
    OBVIOUS
  <2>1. /\ ds \subseteq Indexes \ Loopback
        /\ agenda' = <<Ask("connect", 0)>> \o Queries("ethtool", SetToSeq(ds))
    BY <1>3, <2>d
  <2>l. PICK list : list = SetToSeq(ds)
    OBVIOUS
  <2>2. IsFiniteSet(ds)
    BY <2>1, HardwareAssumption, FS_Subset
  <2>3. list \in Seq(ds) /\ Differ(list) /\ Range(list) = ds
    BY <2>2, <2>l, SetToSeqOnce
  <2>4. list \in Seq(Indexes)
    BY <2>1, <2>3
  <2>q. PICK q : q = Queries("ethtool", list)
    OBVIOUS
  <2>a. PICK asks : asks = [command : Range(QueriesOf("ethtool")), index : ds]
    OBVIOUS
  <2>5. Differ(q) /\ Range(q) = asks
    BY <2>3, <2>4, <2>a, <2>q, QueriesOnce
  <2>6. q \in Seq(Request) /\ \A k \in DOMAIN q : ~Required(q[k])
    BY <2>4, <2>q, QueriesType
  <2>c. PICK c : c = Ask("connect", 0)
    OBVIOUS
  <2>7. c \in Request /\ c.command = "connect" /\ Required(c)
    BY <2>c, AskType DEF Required
  <2>h. PICK head : head = <<c>>
    OBVIOUS
  <2>8. head \in Seq(Request) /\ DOMAIN head = {1} /\ head[1] = c /\ Len(head) = 1
    BY <2>7, <2>h
  <2>g. PICK g : g = agenda'
    OBVIOUS
  <2>9. Joins(g, head, q)
    BY <2>1, <2>l, <2>q, <2>c, <2>h, <2>g DEF Joins
  <2>10. /\ 1 \in DOMAIN g /\ g[1] = c
         /\ \A k \in DOMAIN q : k + 1 \in DOMAIN g /\ g[k + 1] = q[k]
         /\ \A k \in DOMAIN g : k = 1 \/ \E i \in DOMAIN q : k = 1 + i /\ g[k] = q[i]
    <3>1. /\ \A j \in DOMAIN head : j \in DOMAIN g /\ g[j] = head[j]
          /\ \A j \in DOMAIN q : Len(head) + j \in DOMAIN g /\ g[Len(head) + j] = q[j]
          /\ \A j \in DOMAIN g :
               j \in DOMAIN head \/ \E i \in DOMAIN q : j = Len(head) + i /\ g[j] = q[i]
      <4>T. PICK T : T = Request
        OBVIOUS
      <4>1. head \in Seq(T) /\ q \in Seq(T)
        BY <2>6, <2>8, <4>T
      <4> QED BY <2>9, <4>1, ConcatFacts
    <3>2. \A j \in DOMAIN q : j \in Nat /\ 1 + j = j + 1
      BY <2>6
    <3> QED BY <2>8, <3>1, <3>2
  <2>11. /\ \A k \in DOMAIN q : q[k] \in asks
         /\ \A x \in asks : \E k \in DOMAIN q : q[k] = x
    BY <2>5 DEF Range
  <2>12. Differ(g)
    <3> SUFFICES ASSUME NEW j \in DOMAIN g, NEW k \in DOMAIN g, g[j] = g[k]
                 PROVE  j = k
      BY DEF Differ
    <3> QED BY <2>5, <2>6, <2>7, <2>10 DEF Differ
  <2>13. /\ \A k \in DOMAIN g : ~Required(g[k]) => g[k] \in asks
         /\ \A k \in DOMAIN g : g[k].command # "interface"
         /\ \A k \in DOMAIN g : k > 1 => ~Required(g[k])
         /\ \A x \in asks : \E k \in DOMAIN g : g[k] = x
    <3>1. \A k \in DOMAIN g : k = 1 \/ (~Required(g[k]) /\ g[k] \in asks)
      BY <2>6, <2>10, <2>11
    <3>2. \A x : x.command = "interface" => Required(x)
      BY DEF Required
    <3>3. \A k \in DOMAIN g : g[k].command # "interface"
      BY <2>7, <2>10, <3>1, <3>2
    <3>4. \A x \in asks : \E k \in DOMAIN g : g[k] = x
      BY <2>10, <2>11
    <3> QED BY <2>7, <2>10, <3>1, <3>3, <3>4
  <2>14. Asks' = asks
    BY <1>1, <2>a, <2>d DEF Asks
  <2>15. DevicesOK'
    BY <1>1, <2>1, <2>d DEF DevicesOK
  <2>16. PlanOK'
    BY <1>1, <2>7, <2>10, <2>12, <2>13, <2>14, <2>g DEF PlanOK
  <2> QED BY <2>15, <2>16
<1> QED BY <1>2, <1>3 DEF ListLinks

(* The interfaces of a list that arrived are among the listed ones.        *)
LEMMA InterfacesOnce ==
  ASSUME IInv, DumpsComplete, ListedOK, call.state = "ok",
         call.request.command = "interface", NEW ms, ms = call.messages, NEW list,
         list = [i \in DOMAIN Parsed(ms) |-> Parsed(ms)[i].item.id]
  PROVE  list \in Seq(Indexes) /\ Range(list) \subseteq Indexes \ Loopback /\ Differ(list)
<1>1. call.dump
  BY DEF ListedOK, IsDump
<1>2. ms \in Seq(Message) /\ listing.items \in Seq(Item)
  BY Fields DEF IInv, TransportOK, TransportTypes
<1>i. PICK items : items = [i \in DOMAIN ms |-> ms[i].item]
  OBVIOUS
<1>3. listing.sequence = sequence /\ IsPrefix(items, listing.items)
  BY <1>1, <1>i DEF DumpsComplete
<1>4. EachOnce(listing.items)
  BY <1>3 DEF ListedOK
<1>5. \A j \in DOMAIN ms : j \in DOMAIN listing.items /\ ms[j].item = listing.items[j]
  <2>1. Len(ms) \in Nat /\ DOMAIN ms = 1 .. Len(ms) /\ Len(listing.items) \in Nat
        /\ DOMAIN listing.items = 1 .. Len(listing.items)
    BY <1>2
  <2>2. items \in Seq(Item) /\ DOMAIN items = DOMAIN ms
        /\ \A j \in DOMAIN ms : items[j] = ms[j].item
    <3>1. \A j \in DOMAIN ms : ms[j].item \in Item
      BY <1>2, Fields
    <3> QED BY <1>i, <2>1, <3>1
  <2>3. \A j \in DOMAIN items : j \in DOMAIN listing.items /\ items[j] = listing.items[j]
    BY <1>2, <1>3, <2>2 DEF IsPrefix
  <2> QED BY <2>2, <2>3
<1> QED BY <1>2, <1>4, <1>5, ParsedOnce

(* A reply leaves a plan of queries that are each made once.               *)
LEMMA TakeReplyPlan ==
  ASSUME IInv, DumpsComplete, DevicesOK, PlanOK, ListedOK, TakeReply
  PROVE  DevicesOK' /\ PlanOK'
<1>r. PICK r : r = call.request
  OBVIOUS
<1>m. PICK ms : ms = call.messages
  OBVIOUS
<1>1. /\ call.state \in {"ok", "error"} /\ UNCHANGED <<tool, sequence>>
      /\ Enumerating /\ agenda \in Seq(Request) /\ r \in Request
  BY <1>r, Fields DEF TakeReply, IInv, AgendaOK, ProgramTypes, TransportOK, TransportTypes
<1>2. agenda # <<>> /\ Head(agenda) = r /\ sequence # 0
  BY <1>1, <1>r DEF IInv, AgendaOK, AtRequest, FreshOK
<1>3. 1 \in DOMAIN agenda /\ agenda[1] = r
  BY <1>1, <1>2
<1>4. CASE agenda' = <<>> /\ UNCHANGED devices
  <2>1. DevicesOK'
    BY <1>1, <1>4 DEF DevicesOK
  <2>2. PlanOK'
    BY <1>4 DEF PlanOK, Differ
  <2> QED BY <2>1, <2>2
<1>5. CASE agenda' = Tail(agenda) /\ UNCHANGED devices /\ r.command # "interface"
  <2>1. PlanOK'
    BY <1>1, <1>2, <1>5, TailPlan
  <2> QED BY <1>1, <1>5, <2>1 DEF DevicesOK
<1>6. CASE /\ call.state = "ok" /\ r.command = "interface"
           /\ \E list : /\ list = [i \in DOMAIN Parsed(ms) |-> Parsed(ms)[i].item.id]
                       /\ devices' = Range(list)
                       /\ agenda' = Queries("wifi", list)
  <2>1. PICK list : /\ list = [i \in DOMAIN Parsed(ms) |-> Parsed(ms)[i].item.id]
                    /\ devices' = Range(list)
                    /\ agenda' = Queries("wifi", list)
    BY <1>6
  <2>2. list \in Seq(Indexes) /\ Range(list) \subseteq Indexes \ Loopback /\ Differ(list)
    BY <1>r, <1>m, <1>6, <2>1, InterfacesOnce
  <2>3. tool = "wifi"
    BY <1>3, <1>6 DEF DevicesOK, PlanOK
  <2>q. PICK q : q = Queries("wifi", list)
    OBVIOUS
  <2>a. PICK asks : asks = [command : Range(QueriesOf("wifi")), index : Range(list)]
    OBVIOUS
  <2>4. Differ(q) /\ Range(q) = asks
    BY <2>2, <2>a, <2>q, QueriesOnce
  <2>5. q \in Seq(Request) /\ \A k \in DOMAIN q : ~Required(q[k])
    BY <2>2, <2>q, QueriesType
  <2>6. Asks' = asks /\ agenda' = q
    BY <1>1, <2>1, <2>3, <2>a, <2>q DEF Asks
  <2>7. \A k \in DOMAIN q : q[k] \in asks
    BY <2>4 DEF Range
  <2>8. q # <<>> => 1 \in DOMAIN q
    BY <2>5
  <2>9. PlanOK'
    BY <1>1, <1>2, <2>3, <2>4, <2>5, <2>6, <2>7, <2>8 DEF PlanOK
  <2>10. DevicesOK'
    BY <1>1, <2>1, <2>2 DEF DevicesOK
  <2> QED BY <2>9, <2>10
<1>7. CASE call.state = "ok"
  <2>1. Apply(r, ms)
    BY <1>r, <1>m, <1>7 DEF TakeReply
  <2>2. r.command = "interface" => Required(r)
    BY DEF Required
  <2>3. Fail => agenda' = <<>> /\ UNCHANGED devices
    BY DEF Fail
  <2> QED BY <1>1, <1>4, <1>5, <1>6, <1>7, <2>1, <2>2, <2>3, ApplyCases
<1>8. CASE call.state = "error"
  <2>1. Fail \/ (~Required(r) /\ Skip)
    BY <1>r, <1>8 DEF TakeReply
  <2>2. r.command = "interface" => Required(r)
    BY DEF Required
  <2> QED BY <1>4, <1>5, <2>1, <2>2 DEF Fail, Skip
<1> QED BY <1>1, <1>7, <1>8

(* Other steps leave the plan and the devices as they are.                 *)
LEMMA PlanKept ==
  ASSUME IInv, DevicesOK, PlanOK, UNCHANGED <<tool, devices, agenda>>,
         sequence' \in Nat, sequence' # 0 \/ sequence' = sequence
  PROVE  DevicesOK' /\ PlanOK'
<1>1. Asks' = Asks
  BY DEF Asks
<1> QED BY <1>1 DEF DevicesOK, PlanOK

(* Every step keeps the plan.                                              *)
LEMMA PlanStep ==
  ASSUME IInv, DumpsComplete, DevicesOK, PlanOK, ListedOK, [Next]_vars
  PROVE  DevicesOK' /\ PlanOK'
<1>1. sequence \in Nat
  BY DEF IInv, TransportOK, TransportTypes
<1>2. CASE NextRequest \/ RequestFails
  <2>1. sequence' = sequence + 1 /\ UNCHANGED program
    BY <1>2 DEF NextRequest, RequestFails, Send, SendFails
  <2> QED BY <1>1, <2>1, PlanKept DEF program
<1>3. CASE UNCHANGED <<sequence, tool, devices, agenda>>
  BY <1>1, <1>3, PlanKept
<1>4. CASE TakeDatagram \/ LoseDatagram \/ Return \/ Stopped \/ UNCHANGED vars
  BY <1>3, <1>4 DEF TakeDatagram, LoseDatagram, Return, Stopped, vars, Receive,
                    ReceiveFails, program, transport
<1> QED BY <1>2, <1>4, ListLinksPlan, TakeReplyPlan DEF Next

(* ... and of the dumps the kernel may still be working on.                *)
LEMMA AbandonedStep ==
  ASSUME IInv, PlanOK, AbandonedOK, [Next]_vars
  PROVE  AbandonedOK'
<1>1. /\ sequence \in Nat /\ dump \in Dump /\ agenda \in Seq(Request)
  BY DEF IInv, TransportOK, TransportTypes, ProgramTypes
<1>2. CASE UNCHANGED <<tool, devices>>
           /\ (dump'.running => dump.running /\ dump'.request = dump.request)
  BY <1>2 DEF AbandonedOK, Asks
<1>3. CASE NextRequest
  <2>r. PICK r : r = Head(agenda)
    OBVIOUS
  <2>1. dump'.running => dump' = dump \/ dump'.request = r
    BY <1>3, <2>r, NextRequestNews
  <2>2. 1 \in DOMAIN agenda /\ agenda[1] = r /\ UNCHANGED <<tool, devices>>
    BY <1>1, <1>3, <2>r DEF NextRequest, program
  <2>3. Required(r) \/ r \in Asks
    BY <2>2 DEF PlanOK
  <2> QED BY <2>1, <2>2, <2>3 DEF AbandonedOK, Asks
<1>4. CASE TakeDatagram
  <2>1. dump'.running => dump.running /\ dump'.request = dump.request
    BY <1>4, TakeDatagramNews
  <2> QED BY <1>2, <1>4, <2>1 DEF TakeDatagram, program
<1>5. CASE ListLinks
  <2>1. ~dump.running /\ UNCHANGED dump
    BY <1>1, <1>5, Fields DEF ListLinks, transport, IInv, TransportOK, DumpOK
  <2> QED BY <2>1 DEF AbandonedOK
<1>6. CASE TakeReply
  <2>r. PICK r : r = call.request
    OBVIOUS
  <2>1. UNCHANGED <<tool, dump>> /\ 1 \in DOMAIN agenda /\ agenda[1] = r /\ r \in Request
    BY <1>1, <1>6, <2>r, Fields DEF TakeReply, IInv, AgendaOK, AtRequest, TransportOK,
       TransportTypes
  <2>2. CASE UNCHANGED devices
    BY <1>2, <2>1, <2>2
  <2>3. CASE Required(r)
    BY <2>1, <2>3 DEF IInv, AgendaOK, Enumerating, AbandonedOK
  <2>4. CASE call.state = "ok"
    <3>1. Apply(r, call.messages)
      BY <1>6, <2>r, <2>4 DEF TakeReply
    <3>2. r.command = "interface" => Required(r)
      BY DEF Required
    <3> QED BY <2>1, <2>2, <2>3, <3>1, <3>2, ApplyCases DEF Fail
  <2>5. CASE call.state # "ok"
    BY <1>6, <2>2, <2>5 DEF TakeReply, Fail, Skip
  <2> QED BY <2>4, <2>5
<1>7. CASE RequestFails \/ LoseDatagram \/ Return \/ Stopped \/ UNCHANGED vars
  BY <1>2, <1>7 DEF RequestFails, SendFails, LoseDatagram, ReceiveFails, Return, Stopped,
                    vars, program, transport
<1> QED BY <1>3, <1>4, <1>5, <1>6, <1>7 DEF Next

(* What the kernel begins to dump is one of the lists it may have.         *)
LEMMA ServeLists ==
  ASSUME NEW r, NEW isDump, NEW n, NEW lists, Serve(n, r, isDump, lists)
  PROVE  listing' = listing \/ listing'.items \in lists
<1>1. CASE UNCHANGED listing
  BY <1>1
<1>2. CASE \E list \in lists :
             Pass([running |-> TRUE, sequence |-> n, request |-> r, items |-> list],
                  [sequence |-> n, items |-> list, failed |-> FALSE], queue)
  <2>1. PICK list \in lists :
             Pass([running |-> TRUE, sequence |-> n, request |-> r, items |-> list],
                  [sequence |-> n, items |-> list, failed |-> FALSE], queue)
    BY <1>2
  <2>l. PICK l : l = [sequence |-> n, items |-> list, failed |-> FALSE]
    OBVIOUS
  <2>2. listing' = l \/ listing' = [l EXCEPT !.failed = TRUE]
    BY <2>1, <2>l, Zenon DEF Pass
  <2>3. l.items = list /\ [l EXCEPT !.failed = TRUE].items = list
    BY <2>l
  <2> QED BY <2>2, <2>3
<1> QED BY <1>1, <1>2 DEF Serve

(* A request asks for the dump it is.                                      *)
LEMMA SendListed ==
  ASSUME IInv, StreamOK, NEW r \in Request, sequence' = sequence + 1,
         NEW st \in {"waiting", "error"},
         call' = [state |-> st, request |-> r, dump |-> IsDump(r), messages |-> <<>>],
         listing' = listing \/ listing'.items \in Lists(r)
  PROVE  ListedOK'
<1>1. IsDump(r) \in BOOLEAN
  BY DEF IsDump
<1>2. call'.request = r /\ call'.dump = IsDump(r)
  BY <1>1, CallType
<1>3. ASSUME r.command = "interface", listing'.sequence = sequence'
      PROVE  EachOnce(listing'.items)
  <2>1. listing.sequence \in Nat /\ sequence \in Nat /\ listing.sequence <= sequence
    BY Fields DEF IInv, TransportOK, TransportTypes, StreamOK
  <2>2. listing' # listing
    BY <1>3, <2>1
  <2> QED BY <1>3, <2>2, ListsOnce
<1> QED BY <1>2, <1>3 DEF ListedOK

(* Every step keeps what is known of the listing of interfaces.            *)
LEMMA ListedStep ==
  ASSUME IInv, StreamOK, ListedOK, [Next]_vars
  PROVE  ListedOK'
<1>1. TransportOK /\ agenda \in Seq(Request) /\ call \in Call
  BY DEF IInv, ProgramTypes, TransportOK, TransportTypes
<1>2. CASE /\ UNCHANGED <<sequence>> /\ listing'.items = listing.items
           /\ listing'.sequence = listing.sequence
           /\ call'.request = call.request
           /\ call' = call \/ call'.dump = call.dump \/ call'.state = "idle"
           /\ call.state # "idle" \/ call'.state = "idle" \/ call' = call
  BY <1>2 DEF ListedOK
<1>3. CASE NextRequest
  <2>r. PICK r : r = Head(agenda)
    OBVIOUS
  <2>1. r \in Request /\ Send(r, IsDump(r), Lists(r))
    BY <1>3, <2>r, NextRequestNews
  <2>2. listing' = listing \/ listing'.items \in Lists(r)
    BY <2>1, ServeLists DEF Send
  <2>3. /\ sequence' = sequence + 1
        /\ call' = [state |-> "waiting", request |-> r, dump |-> IsDump(r),
                    messages |-> <<>>]
    BY <2>1 DEF Send
  <2> QED BY <2>1, <2>2, <2>3, SendListed
<1>4. CASE RequestFails
  <2>r. PICK r : r = Head(agenda)
    OBVIOUS
  <2>1. r \in Request
    BY <1>1, <1>4, <2>r DEF RequestFails
  <2>2. /\ sequence' = sequence + 1 /\ listing' = listing
        /\ call' = [state |-> "error", request |-> r, dump |-> IsDump(r),
                    messages |-> <<>>]
    BY <1>4, <2>r DEF RequestFails, SendFails
  <2> QED BY <2>1, <2>2, SendListed
<1>5. CASE TakeDatagram
  <2>1. Receive /\ call.state = "waiting" /\ UNCHANGED sequence
    BY <1>5 DEF TakeDatagram, Receive
  <2>2. call'.request = call.request /\ call'.dump = call.dump
    BY <1>1, <2>1, ReceiveCall
  <2>3. listing'.items = listing.items /\ listing'.sequence = listing.sequence
    <3>1. listing' = listing \/ listing' = Broken(listing)
      BY <1>1, <2>1, ReceiveQueue DEF Sends
    <3>2. listing \in Enumeration
      BY <1>1 DEF TransportOK, TransportTypes
    <3> QED BY <3>1, <3>2, BrokenType
  <2> QED BY <1>2, <2>1, <2>2, <2>3
<1>6. CASE LoseDatagram
  <2>1. UNCHANGED <<sequence, listing>> /\ call.state = "waiting" /\ ReceiveFails
    BY <1>6 DEF LoseDatagram, ReceiveFails
  <2>2. call' = [call EXCEPT !.state = "error"]
    BY <2>1 DEF ReceiveFails
  <2>3. call'.request = call.request
    BY <1>1, <2>1, ReceiveFailsOK
  <2>4. call'.dump = call.dump
    BY <1>1, <2>2, Zenon DEF Call
  <2> QED BY <1>2, <2>1, <2>3, <2>4
<1>7. CASE TakeReply
  <2>1. UNCHANGED <<sequence, listing>> /\ call' = Idle(call.request)
    BY <1>7 DEF TakeReply
  <2>2. call'.state = "idle" /\ call'.request = call.request
    BY <2>1 DEF Idle
  <2> QED BY <1>2, <2>1, <2>2
<1>8. CASE ListLinks \/ Return \/ Stopped \/ UNCHANGED vars
  BY <1>2, <1>8 DEF ListLinks, Return, Stopped, vars, transport
<1> QED BY <1>3, <1>4, <1>5, <1>6, <1>7, <1>8 DEF Next

(* What was answered stays answered.                                       *)
LEMMA AnsweredGrows ==
  ASSUME [Next]_vars
  PROVE  answered \subseteq answered'
<1>1. CASE UNCHANGED answered
  BY <1>1
<1>2. CASE NextRequest \/ TakeDatagram
  BY <1>2, Noting DEF NextRequest, TakeDatagram
<1>3. ASSUME RequestFails \/ LoseDatagram \/ TakeReply \/ ListLinks \/ Return \/ Stopped
             \/ UNCHANGED vars
      PROVE  UNCHANGED answered
  BY <1>3 DEF RequestFails, LoseDatagram, TakeReply, ListLinks, Return, Stopped, vars
<1> QED BY <1>1, <1>2, <1>3 DEF Next

(* The useful messages that are collected were answered.                   *)
LEMMA CollectedHeard ==
  ASSUME IInv, HeardOK, TakeDatagram, answered \subseteq answered'
  PROVE  \A j \in DOMAIN call'.messages :
           call'.messages[j].item.useful => call'.messages[j].request \in answered'
<1>1. /\ TransportOK /\ Receive /\ call \in Call /\ queue \in Seq(Seq(Message))
      /\ queue # <<>>
  BY DEF TakeDatagram, Receive, IInv, TransportOK, TransportTypes
<1>h. PICK h : h = Head(queue)
  OBVIOUS
<1>m. PICK ms : ms = call.messages
  OBVIOUS
<1>p. PICK ms2 : ms2 = call'.messages
  OBVIOUS
<1>c. PICK c : c = Collected(h)
  OBVIOUS
<1>2. /\ h \in Seq(Message) /\ DatagramOK(h)
      /\ ms2 = ms \/ Joins(ms2, ms, c)
  BY <1>1, <1>h, <1>m, <1>p, <1>c, ReceiveCall DEF Joins
<1>3. 1 \in DOMAIN queue /\ queue[1] = h
  BY <1>1, <1>h
<1>4. /\ c \in Seq(Message)
      /\ \A j \in DOMAIN c : j \in DOMAIN h /\ c[j] = h[j] /\ h[j].kind = "answer"
  <2>1. /\ c \in Seq(Message)
        /\ IsOwn(h) => /\ Len(c) = Answers(h)
                       /\ \A j \in 1 .. Answers(h) : c[j] = h[j]
        /\ ~IsOwn(h) => c = <<>>
    BY <1>2, <1>c, CollectedAnswers
  <2>2. {i \in DOMAIN h : h[i].kind = "answer"} = 1 .. Answers(h)
    BY <1>2, AnswersCount
  <2>3. DOMAIN c = 1 .. Len(c)
    BY <2>1
  <2> QED BY <2>1, <2>2, <2>3
<1>5. \A j \in DOMAIN c : c[j].item.useful => c[j].request \in answered
  BY <1>3, <1>4 DEF IInv, AgendaOK, NotedOK
<1>6. \A j \in DOMAIN ms : ms[j].item.useful => ms[j].request \in answered
  BY <1>m DEF HeardOK
<1>7. ASSUME Joins(ms2, ms, c), NEW j \in DOMAIN ms2
      PROVE  \/ j \in DOMAIN ms /\ ms2[j] = ms[j]
             \/ \E i \in DOMAIN c : ms2[j] = c[i]
  <2>T. PICK T : T = Message
    OBVIOUS
  <2>1. ms \in Seq(T) /\ c \in Seq(T)
    BY <1>1, <1>4, <1>m, <2>T, Fields
  <2> QED BY <1>7, <2>1, ConcatFacts
<1> QED BY <1>2, <1>5, <1>6, <1>7, <1>p

(* Every step fills only fields that were answered.                        *)
LEMMA HeardStep ==
  ASSUME IInv, HeardOK, [Next]_vars
  PROVE  HeardOK'
<1>1. answered \subseteq answered' /\ call \in Call /\ agenda \in Seq(Request)
  BY AnsweredGrows DEF IInv, TransportOK, TransportTypes, ProgramTypes
<1>2. CASE UNCHANGED found /\ (call'.messages = call.messages \/ call'.messages = <<>>)
  BY <1>1, <1>2 DEF HeardOK
<1>3. CASE NextRequest \/ RequestFails
  <2>r. PICK r : r = Head(agenda)
    OBVIOUS
  <2>1. PICK st : call' = [state |-> st, request |-> r, dump |-> IsDump(r),
                           messages |-> <<>>]
    BY <1>3, <2>r DEF NextRequest, RequestFails, Send, SendFails
  <2>2. call'.messages = <<>> /\ UNCHANGED found
    BY <1>3, <2>1 DEF NextRequest, RequestFails, program
  <2> QED BY <1>2, <2>2
<1>4. CASE TakeDatagram
  <2>1. UNCHANGED found
    BY <1>4 DEF TakeDatagram, program
  <2> QED BY <1>1, <1>4, <2>1, CollectedHeard DEF HeardOK
<1>5. CASE LoseDatagram
  <2>1. call' = [call EXCEPT !.state = "error"] /\ UNCHANGED found
    BY <1>5 DEF LoseDatagram, ReceiveFails, program
  <2>2. call'.messages = call.messages
    BY <1>1, <2>1 DEF Call
  <2> QED BY <1>2, <2>1, <2>2
<1>6. CASE TakeReply
  <2>r. PICK r : r = call.request
    OBVIOUS
  <2>m. PICK ms : ms = call.messages
    OBVIOUS
  <2>1. call' = Idle(r) /\ UNCHANGED answered /\ call.state \in {"ok", "error"}
    BY <1>6, <2>r DEF TakeReply
  <2>2. call'.messages = <<>>
    BY <2>1 DEF Idle
  <2>3. /\ r \in Request /\ ms \in Seq(Message)
        /\ \A j \in DOMAIN ms : ms[j].request = r /\ ItemFits(r, ms[j].item)
    BY <1>1, <2>r, <2>m, Fields DEF IInv, TransportOK, CollectedOK
  <2>4. CASE UNCHANGED found
    BY <1>2, <2>2, <2>4
  <2>5. CASE r.command = "interface"
             /\ \E list : /\ list = [i \in DOMAIN Parsed(ms) |-> Parsed(ms)[i].item.id]
                         /\ \/ found' = {[field |-> Ask("wiphy", i),
                                          from |-> Ask("wiphy", 0)] : i \in Range(list)}
                            \/ found' = {}
    <3>1. PICK list : /\ list = [i \in DOMAIN Parsed(ms) |-> Parsed(ms)[i].item.id]
                      /\ \/ found' = {[field |-> Ask("wiphy", i),
                                       from |-> Ask("wiphy", 0)] : i \in Range(list)}
                         \/ found' = {}
      BY <2>5
    <3>2. \A j \in DOMAIN ms : ms[j].item.useful => ms[j].item.id \in Indexes
      BY <2>3, <2>5 DEF ItemFits
    <3>3. Range(list) \subseteq Indexes
      BY <2>3, <3>1, <3>2, ParsedIndexes
    <3>4. \A f \in found' : f.field.command = "wiphy"
      BY <3>1, <3>3, RadioNames
    <3>5. \A f \in found' : Required(f.field)
      BY <3>4 DEF Required
    <3> QED BY <2>2, <3>5 DEF HeardOK
  <2>6. CASE Fill(r, ms)
    <3>1. /\ Usable(ms) = {} => found' = found
          /\ Usable(ms) # {} => found' = found \union {[field |-> r, from |-> r]}
      BY <2>3, <2>6, FillOK DEF IInv, ProgramTypes
    <3>2. CASE Usable(ms) = {}
      BY <2>4, <3>1, <3>2
    <3>3. CASE Usable(ms) # {}
      <4>1. PICK j \in DOMAIN ms : ms[j].item.useful
        BY <3>3 DEF Usable
      <4>2. r \in answered
        BY <2>3, <2>m, <4>1 DEF HeardOK
      <4>3. \A f \in found' : f \in found \/ f.field = r
        BY <3>1, <3>3
      <4> QED BY <2>1, <2>2, <4>2, <4>3 DEF HeardOK
    <3> QED BY <3>2, <3>3
  <2>7. CASE call.state = "ok"
    <3>1. Apply(r, ms)
      BY <1>6, <2>r, <2>m, <2>7 DEF TakeReply
    <3> QED BY <2>3, <2>4, <2>5, <2>6, <3>1, ApplyCases DEF Fail
  <2>8. CASE call.state # "ok"
    BY <1>6, <2>4, <2>8 DEF TakeReply, Fail, Skip
  <2> QED BY <2>7, <2>8
<1>7. CASE ListLinks \/ Return \/ Stopped \/ UNCHANGED vars
  BY <1>2, <1>7 DEF ListLinks, Return, Stopped, vars, program, transport
<1> QED BY <1>3, <1>4, <1>5, <1>6, <1>7 DEF Next

(* Every step preserves the invariant of the refinement.                   *)
LEMMA RefinementStep == RInv /\ [Next]_vars => RInv'
BY StreamStep, AnsweredStep, PlanStep, AbandonedStep, ListedStep, HeardStep
   DEF RInv, SInv

LEMMA RefinementInit == Init => RInv
<1> SUFFICES ASSUME Init PROVE RInv
  OBVIOUS
<1>1. SInv /\ LInv
  BY StreamInit, AnsweredInit
<1>2. /\ tool \in {"wifi", "ethtool"} /\ devices = {} /\ found = {} /\ answered = {}
      /\ dump = NoDump /\ call = Idle(Ask("connect", 0)) /\ sequence = 0
  BY DEF Init, TransportInit, Ask
<1>3. /\ DevicesOK /\ ~dump.running /\ call.state = "idle" /\ call.messages = <<>>
      /\ call.request.command = "connect"
  BY <1>2, NoDumpType DEF DevicesOK, Idle, Ask
<1>4. ASSUME agenda = <<>> PROVE PlanOK
  <2>1. DOMAIN agenda = {}
    BY <1>4
  <2> QED BY <1>4, <2>1 DEF PlanOK, Differ
<1>5. ASSUME tool = "wifi",
             agenda = <<Ask("connect", 0), Ask("wiphy", 0), Ask("interface", 0)>>
      PROVE  PlanOK
  <2>1. DOMAIN agenda = {1, 2, 3}
    BY <1>5
  <2>2. /\ agenda[1].command = "connect" /\ agenda[2].command = "wiphy"
        /\ agenda[3].command = "interface"
    BY <1>5 DEF Ask
  <2>3. \A k \in DOMAIN agenda : Required(agenda[k])
    BY <2>1, <2>2 DEF Required
  <2>4. Differ(agenda)
    BY <2>1, <2>2 DEF Differ
  <2> QED BY <1>5, <2>1, <2>2, <2>3, <2>4 DEF PlanOK
<1>6. PlanOK
  <2>1. CASE tool = "wifi"
    BY <1>5, <2>1 DEF Init
  <2>2. CASE tool # "wifi"
    BY <1>4, <2>2 DEF Init
  <2> QED BY <2>1, <2>2
<1>7. AbandonedOK /\ ListedOK /\ HeardOK
  BY <1>2, <1>3 DEF AbandonedOK, ListedOK, HeardOK
<1> QED BY <1>1, <1>3, <1>6, <1>7 DEF RInv
-----------------------------------------------------------------------------
(* What the abstract enumeration sees.                                     *)
Views ==
  /\ Running /\ RequiredDone =>
       Stage = "queries" /\ Returned = devices /\ Pending = Range(agenda)
  /\ Running /\ ~RequiredDone => Stage = "required" /\ Returned = {} /\ Pending = {}
  /\ outcome = "ok" => Stage = "ok" /\ Returned = devices /\ Pending = Range(agenda)
  /\ outcome = "error" => Stage = "error" /\ Returned = {} /\ Pending = {}

LEMMA Viewed == Views /\ Views'
BY DEF Views, Stage, Returned, Pending, Enumerated, Running

(* It sees no difference while the agenda and the outcome stay.            *)
LEMMA ViewKept ==
  ASSUME UNCHANGED <<devices, agenda, outcome>>, RequiredDone' <=> RequiredDone
  PROVE  UNCHANGED <<Stage, Returned, Pending>>
<1>1. Stage' = Stage
  BY DEF Stage, Running
<1> QED BY <1>1 DEF Returned, Pending, Enumerated

LEMMA HeardFilledKept ==
  /\ UNCHANGED answered => UNCHANGED Heard
  /\ UNCHANGED found => UNCHANGED Filled
  /\ UNCHANGED faults => UNCHANGED Reliable
BY DEF Heard, Filled, Reliable

(* It hears at most the one query that was answered.                       *)
LEMMA HeardOne ==
  ASSUME answered \subseteq answered', NEW r, \A x \in answered' : x \in answered \/ x = r
  PROVE  \/ Heard' = Heard
         \/ ~Required(r) /\ Heard' = Heard \union {r}
<1>1. CASE r \in answered' /\ ~Required(r)
  <2>1. Heard' = Heard \union {r}
    BY <1>1 DEF Heard
  <2> QED BY <1>1, <2>1
<1>2. CASE ~(r \in answered' /\ ~Required(r))
  <2>1. Heard' = Heard
    BY <1>2 DEF Heard
  <2> QED BY <2>1
<1> QED BY <1>1, <1>2

(* It makes the same queries.                                              *)
LEMMA SameQueries ==
  ASSUME tool \in {"wifi", "ethtool"}, NEW s
  PROVE  /\ Promise!QueriesAbout(s) = [command : Range(QueriesOf(tool)), index : s]
         /\ \A q \in [command : Range(QueriesOf(tool)), index : s] : ~Required(q)
<1>1. Range(<<"scan", "station", "power">>) = {"scan", "station", "power"}
  <2>w. PICK w : w = <<"scan", "station", "power">>
    OBVIOUS
  <2>1. DOMAIN w = {1, 2, 3} /\ w[1] = "scan" /\ w[2] = "station" /\ w[3] = "power"
    BY <2>w
  <2> QED BY <2>1, <2>w DEF Range
<1>2. Range(<<"linkinfo", "linkmodes", "features", "eee", "stats">>)
        = {"linkinfo", "linkmodes", "features", "eee", "stats"}
  <2>w. PICK w : w = <<"linkinfo", "linkmodes", "features", "eee", "stats">>
    OBVIOUS
  <2>1. DOMAIN w = {1, 2, 3, 4, 5} /\ w[1] = "linkinfo" /\ w[2] = "linkmodes"
        /\ w[3] = "features" /\ w[4] = "eee" /\ w[5] = "stats"
    BY <2>w
  <2> QED BY <2>1, <2>w DEF Range
<1>3. Promise!QueriesFor[tool] = Range(QueriesOf(tool))
  <2>1. CASE tool = "wifi"
    BY <1>1, <2>1 DEF Promise!QueriesFor, QueriesOf, WifiQueries
  <2>2. CASE tool = "ethtool"
    BY <1>2, <2>2 DEF Promise!QueriesFor, QueriesOf, EthtoolQueries
  <2> QED BY <2>1, <2>2
<1>4. \A c \in Range(QueriesOf(tool)) : c \notin {"connect", "wiphy", "interface"}
  <2>1. CASE tool = "wifi"
    BY <1>1, <2>1 DEF QueriesOf, WifiQueries
  <2>2. CASE tool = "ethtool"
    BY <1>2, <2>2 DEF QueriesOf, EthtoolQueries
  <2> QED BY <2>1, <2>2
<1> QED BY <1>3, <1>4 DEF Promise!QueriesAbout, Required

(* Making a request only moves its sequence number.                        *)
LEMMA SendKeepsStage ==
  ASSUME RInv, Running, agenda # <<>>, sequence' = sequence + 1,
         UNCHANGED <<tool, agenda, devices, outcome>>
  PROVE  /\ UNCHANGED <<Stage, Returned, Pending>>
         /\ ~Required(Head(agenda)) => RequiredDone
<1>1. sequence \in Nat /\ agenda \in Seq(Request) /\ PlanOK
  BY DEF RInv, SInv, IInv, TransportOK, TransportTypes, ProgramTypes
<1>2. Head(agenda) = agenda[1]
  BY <1>1
<1>3. RequiredDone' <=> RequiredDone
  BY <1>1, <1>2 DEF PlanOK, RequiredDone
<1>4. ~Required(Head(agenda)) => RequiredDone
  BY <1>1, <1>2 DEF PlanOK, RequiredDone
<1> QED BY <1>3, <1>4, ViewKept

(* A request that is answered at once is heard.                            *)
LEMMA NextRequestRefines ==
  ASSUME RInv, NextRequest
  PROVE  \/ UNCHANGED Promise!vars
         \/ \E q \in Promise!QueriesAbout(Returned) : Promise!Hear(q)
<1>r. PICK r : r = Head(agenda)
  OBVIOUS
<1>1. /\ Running /\ agenda # <<>> /\ agenda \in Seq(Request) /\ sequence' = sequence + 1
      /\ UNCHANGED <<tool, agenda, devices, outcome, found, faults>>
      /\ IInv /\ PlanOK /\ tool \in {"wifi", "ethtool"}
  BY DEF NextRequest, Send, program, RInv, SInv, IInv, ProgramTypes, DevicesOK
<1>2. 1 \in DOMAIN agenda /\ agenda[1] = r
  BY <1>1, <1>r
<1>3. UNCHANGED <<Stage, Returned, Pending>> /\ (~Required(r) => RequiredDone)
  BY <1>r, <1>1, SendKeepsStage
<1>4. UNCHANGED <<Filled, Reliable, tool>>
  BY <1>1, HeardFilledKept
<1>5. answered \subseteq answered' /\ \A x \in answered' : x \in answered \/ x = r
  BY <1>r, <1>1, NextRequestNews, Noting DEF NextRequest
<1>6. CASE Heard' = Heard
  BY <1>3, <1>4, <1>6 DEF Promise!vars
<1>7. CASE ~Required(r) /\ Heard' = Heard \union {r}
  <2>1. Stage = "queries" /\ Returned = devices /\ Pending = Range(agenda)
    BY <1>1, <1>3, <1>7, Viewed DEF Views
  <2>2. r \in Asks /\ r \in Range(agenda)
    BY <1>2, <1>7 DEF PlanOK, RInv, Range
  <2>3. r \in Promise!QueriesAbout(Returned)
    BY <1>1, <2>1, <2>2, SameQueries DEF Asks
  <2>4. Promise!Hear(r)
    BY <1>3, <1>4, <1>7, <2>1, <2>2 DEF Promise!Hear
  <2> QED BY <2>3, <2>4
<1> QED BY <1>5, <1>6, <1>7, HeardOne

(* ... or later, from the kernel's dump.                                   *)
LEMMA TakeDatagramRefines ==
  ASSUME RInv, TakeDatagram
  PROVE  \/ UNCHANGED Promise!vars
         \/ \E q \in Promise!QueriesAbout(Returned) : Promise!Hear(q)
<1>1. /\ UNCHANGED <<tool, agenda, devices, outcome, found, faults, sequence>>
      /\ call.state = "waiting" /\ NoteAnswers /\ agenda \in Seq(Request)
      /\ IInv /\ PlanOK /\ tool \in {"wifi", "ethtool"} /\ sequence \in Nat
  BY DEF TakeDatagram, Receive, program, RInv, SInv, IInv, ProgramTypes, DevicesOK,
         TransportOK, TransportTypes
<1>2. UNCHANGED <<Stage, Returned, Pending>>
  <2>1. RequiredDone' <=> RequiredDone
    BY <1>1 DEF RequiredDone
  <2> QED BY <1>1, <2>1, ViewKept
<1>3. UNCHANGED <<Filled, Reliable, tool>>
  BY <1>1, HeardFilledKept
<1>4. answered \subseteq answered'
      /\ \A x \in answered' : x \in answered \/ (dump.running /\ x = dump.request)
  BY <1>1, TakeDatagramNews, Noting
<1>5. CASE Heard' = Heard
  BY <1>2, <1>3, <1>5 DEF Promise!vars
<1>6. CASE ~dump.running
  <2>1. answered' = answered
    BY <1>4, <1>6
  <2> QED BY <1>5, <2>1, HeardFilledKept
<1>7. CASE dump.running
  <2>r. PICK r : r = dump.request
    OBVIOUS
  <2>1. CASE ~Required(r) /\ Heard' = Heard \union {r}
    <3>1. Running /\ 1 \in DOMAIN agenda /\ agenda[1] = Head(agenda)
          /\ Head(agenda) = call.request /\ sequence > 0
      BY <1>1 DEF IInv, AgendaOK, AtRequest, FreshOK
    <3>2. RequiredDone
      BY <1>1, <1>7, <2>r, <2>1, <3>1 DEF IInv, AgendaOK, Enumerating, RequiredDone
    <3>3. Stage = "queries" /\ Returned = devices /\ Pending = Range(agenda)
      BY <3>1, <3>2, Viewed DEF Views
    <3>4. r \in Asks
      BY <1>7, <2>r, <2>1 DEF RInv, AbandonedOK
    <3>5. r \in Promise!QueriesAbout(Returned)
      BY <1>1, <3>3, <3>4, SameQueries DEF Asks
    <3>6. Reliable => r \in Pending
      <4>1. SUFFICES ASSUME faults = 0 PROVE r \in Range(agenda)
        BY <3>3 DEF Reliable
      <4>2. dump.sequence = sequence
        BY <1>7, <4>1 DEF RInv, LInv, CleanOK, OwnDump
      <4>3. r = call.request
        BY <1>1, <1>7, <2>r, <4>2 DEF IInv, TransportOK, DumpOK
      <4> QED BY <3>1, <4>3 DEF Range
    <3>7. Promise!Hear(r)
      BY <1>2, <1>3, <2>1, <3>3, <3>6 DEF Promise!Hear
    <3> QED BY <3>5, <3>7
  <2> QED BY <1>4, <1>5, <2>r, <2>1, HeardOne
<1> QED BY <1>6, <1>7

(* A call of the socket that fails is one that fails there.                *)
LEMMA BreakRefines ==
  ASSUME RInv, RequestFails \/ LoseDatagram
  PROVE  Promise!Break
<1>1. /\ UNCHANGED <<tool, agenda, devices, outcome, found, answered>>
      /\ faults \in Nat /\ faults' = faults + 1
  BY DEF RequestFails, SendFails, LoseDatagram, ReceiveFails, program, RInv, SInv, IInv,
         TransportOK, TransportTypes
<1>2. UNCHANGED <<Heard, Filled>> /\ Reliable' = FALSE
  BY <1>1, HeardFilledKept DEF Reliable
<1>3. UNCHANGED <<Stage, Returned, Pending>>
  <2>1. CASE RequestFails
    BY <1>1, <2>1, SendKeepsStage DEF RequestFails, SendFails
  <2>2. CASE LoseDatagram
    <3>1. RequiredDone' <=> RequiredDone
      BY <1>1, <2>2 DEF RequiredDone, LoseDatagram, ReceiveFails
    <3> QED BY <1>1, <3>1, ViewKept
  <2> QED BY <2>1, <2>2
<1> QED BY <1>1, <1>2, <1>3 DEF Promise!Break

(* A failing required step is the failure there.                           *)
LEMMA FailRefines ==
  ASSUME RInv, TakeReply, Fail, Required(call.request)
  PROVE  Promise!Fail
<1>1. /\ Running /\ agenda # <<>> /\ Head(agenda) = call.request
  BY DEF TakeReply, RInv, SInv, IInv, AgendaOK, AtRequest
<1>2. /\ outcome' = "error" /\ UNCHANGED <<tool, found, answered, faults>>
  BY DEF TakeReply, Fail
<1>3. ~RequiredDone
  BY <1>1 DEF RequiredDone
<1>4. /\ Stage = "required" /\ Returned = {} /\ Pending = {}
      /\ Stage' = "error" /\ Returned' = {} /\ Pending' = {}
  BY <1>1, <1>2, <1>3, Viewed DEF Views
<1> QED BY <1>2, <1>4, HeardFilledKept DEF Promise!Fail

(* A required step that succeeds is the last one, or not seen.             *)
LEMMA RequiredRefines ==
  ASSUME RInv, RInv', TakeReply, agenda' = Tail(agenda), Required(call.request),
         call.request.command # "interface",
         UNCHANGED <<devices, found, outcome>>
  PROVE  UNCHANGED Promise!vars \/ Promise!Enumerate
<1>t. PICK t : t = Tail(agenda)
  OBVIOUS
<1>r. PICK r : r = call.request
  OBVIOUS
<1>1. /\ Running /\ agenda # <<>> /\ Head(agenda) = r /\ agenda \in Seq(Request)
      /\ Required(r) /\ PlanOK /\ DevicesOK /\ sequence \in Nat /\ sequence # 0
      /\ agenda' = t /\ Enumerating
      /\ UNCHANGED <<tool, answered, faults, sequence>>
  BY <1>t, <1>r DEF TakeReply, RInv, SInv, IInv, AgendaOK, AtRequest, FreshOK,
         ProgramTypes, TransportOK, TransportTypes
<1>2. /\ 1 \in DOMAIN agenda /\ agenda[1] = r /\ t \in Seq(Request)
      /\ \A k \in DOMAIN t : /\ k \in Nat /\ k >= 1 /\ k + 1 \in DOMAIN agenda
                             /\ t[k] = agenda[k + 1]
      /\ \A k \in DOMAIN agenda : k = 1 \/ (k - 1 \in DOMAIN t /\ t[k - 1] = agenda[k])
  BY <1>t, <1>1, TailFacts
<1>3. Stage = "required" /\ Returned = {} /\ Pending = {}
  <2>1. ~RequiredDone
    BY <1>1 DEF RequiredDone
  <2> QED BY <1>1, <2>1, Viewed DEF Views
<1>4. UNCHANGED <<Heard, Filled, Reliable, tool>> /\ Running'
  BY <1>1, HeardFilledKept DEF Running
<1>5. CASE ~RequiredDone'
  <2>1. Stage' = "required" /\ Returned' = {} /\ Pending' = {}
    BY <1>4, <1>5, Viewed DEF Views
  <2> QED BY <1>3, <1>4, <2>1 DEF Promise!vars
<1>6. CASE RequiredDone'
  <2>1. Stage' = "queries" /\ Returned' = devices /\ Pending' = Range(t)
    BY <1>1, <1>4, <1>6, Viewed DEF Views
  <2>3. tool = "ethtool"
        /\ (\A k \in DOMAIN agenda : k > 1 => ~Required(agenda[k]))
        /\ (\A q \in Asks : \E k \in DOMAIN agenda : agenda[k] = q)
    <3>1. SUFFICES ASSUME tool = "wifi", NEW k \in DOMAIN agenda,
                          agenda[k].command = "interface"
                   PROVE  FALSE
      BY <1>1, <1>2 DEF PlanOK
    <3>2. Required(agenda[k])
      BY <3>1 DEF Required
    <3>3. k # 1
      BY <1>2, <1>r, <3>1
    <3>4. k - 1 \in DOMAIN t /\ t[k - 1] = agenda[k]
      BY <1>2, <3>3
    <3>5. 1 \in DOMAIN t /\ 2 \in 1 .. k
      <4>1. DOMAIN t = 1 .. Len(t) /\ Len(t) \in Nat
        BY <1>2
      <4>2. DOMAIN agenda = 1 .. Len(agenda) /\ Len(agenda) \in Nat
        BY <1>1
      <4> QED BY <3>3, <3>4, <4>1, <4>2
    <3>6. Required(t[1])
      <4>1. \A j \in 1 .. k : Required(agenda[j])
        BY <1>1, <3>2 DEF Enumerating
      <4>2. t[1] = agenda[2]
        BY <1>2, <3>5
      <4> QED BY <3>5, <4>1, <4>2
    <3>7. t # <<>> /\ Head(t) = t[1]
      BY <1>2, <3>5
    <3> QED BY <1>1, <1>6, <3>6, <3>7 DEF RequiredDone
  <2>4. \A q \in Asks : ~Required(q)
    BY <1>1, SameQueries DEF Asks, DevicesOK
  <2>5. Range(t) = Asks
    <3>1. \A k \in DOMAIN t : t[k] \in Asks
      BY <1>1, <1>2, <2>3 DEF PlanOK
    <3>2. ASSUME NEW q \in Asks PROVE \E k \in DOMAIN t : t[k] = q
      <4>1. PICK k \in DOMAIN agenda : agenda[k] = q
        BY <2>3
      <4>2. k # 1
        BY <1>1, <1>2, <2>4, <4>1
      <4> QED BY <1>2, <4>1, <4>2
    <3> QED BY <3>1, <3>2, Zenon DEF Range
  <2>6. devices \in SUBSET (Indexes \ Loopback)
    BY <1>1 DEF DevicesOK
  <2>7. Promise!QueriesAbout(devices) = Asks
    BY <1>1, SameQueries DEF Asks, DevicesOK
  <2> QED BY <1>3, <1>4, <2>1, <2>5, <2>6, <2>7 DEF Promise!Enumerate
<1> QED BY <1>5, <1>6

(* The list of interfaces is the last required step of wifi.               *)
LEMMA InterfacesRefine ==
  ASSUME RInv, TakeReply, call.state = "ok", call.request.command = "interface",
         Apply(call.request, call.messages)
  PROVE  Promise!Enumerate
<1>r. PICK r : r = call.request
  OBVIOUS
<1>m. PICK ms : ms = call.messages
  OBVIOUS
<1>1. /\ Running /\ agenda # <<>> /\ Head(agenda) = r /\ agenda \in Seq(Request)
      /\ Required(r) /\ PlanOK /\ DevicesOK /\ sequence \in Nat /\ sequence # 0
      /\ IInv /\ DumpsComplete /\ ListedOK /\ r \in Request
      /\ UNCHANGED <<tool, answered, faults, sequence>>
  BY <1>r, Fields DEF TakeReply, RInv, SInv, IInv, AgendaOK, AtRequest, FreshOK,
         ProgramTypes, TransportOK, TransportTypes, Required
<1>2. 1 \in DOMAIN agenda /\ agenda[1] = r
  BY <1>1
<1>3. /\ Stage = "required" /\ Returned = {} /\ Pending = {}
  <2>1. ~RequiredDone
    BY <1>1 DEF RequiredDone
  <2> QED BY <1>1, <2>1, Viewed DEF Views
<1>4. PICK list : /\ list = [i \in DOMAIN Parsed(ms) |-> Parsed(ms)[i].item.id]
                  /\ devices' = Range(list)
                  /\ agenda' = Queries("wifi", list)
                  /\ \/ found' = {[field |-> Ask("wiphy", i),
                                   from |-> Ask("wiphy", 0)] : i \in Range(list)}
                     \/ found' = {}
                  /\ outcome' = outcome
  <2>1. r.command \notin {"connect", "wiphy"} /\ r.command = "interface"
    BY <1>r
  <2> QED BY <1>r, <1>m, <1>1, <2>1, ApplyCases
<1>5. list \in Seq(Indexes) /\ Range(list) \subseteq Indexes \ Loopback /\ Differ(list)
  BY <1>m, <1>1, <1>4, InterfacesOnce
<1>6. tool = "wifi"
  BY <1>1, <1>2, <1>r DEF DevicesOK, PlanOK
<1>q. PICK q : q = Queries("wifi", list)
  OBVIOUS
<1>7. /\ Range(q) = [command : Range(QueriesOf("wifi")), index : Range(list)]
      /\ q \in Seq(Request) /\ \A k \in DOMAIN q : ~Required(q[k])
  BY <1>5, <1>q, QueriesOnce, QueriesType
<1>8. Running' /\ RequiredDone'
  <2>1. q # <<>> => Head(q) = q[1] /\ 1 \in DOMAIN q
    BY <1>7
  <2>2. agenda' = q
    BY <1>4, <1>q
  <2> QED BY <1>1, <1>4, <1>7, <2>1, <2>2 DEF Running, RequiredDone
<1>9. Stage' = "queries" /\ Returned' = Range(list) /\ Pending' = Range(q)
  BY <1>4, <1>8, <1>q, Viewed DEF Views
<1>10. Promise!QueriesAbout(Range(list)) = Range(q)
  BY <1>6, <1>7, SameQueries
<1>11. UNCHANGED <<Heard, Filled, Reliable, tool>>
  <2>1. \A f \in found' : Required(f.field)
    <3>1. \A f \in found' : f.field.command = "wiphy"
      BY <1>4, <1>5, RadioNames
    <3> QED BY <3>1 DEF Required
  <2>2. found = {}
    BY <1>1, <1>2 DEF IInv, AgendaOK, Enumerating
  <2>3. Filled' = {} /\ Filled = {}
    BY <2>1, <2>2 DEF Filled
  <2> QED BY <1>1, <2>3, HeardFilledKept
<1>12. Range(list) \in SUBSET (Indexes \ Loopback)
  BY <1>5
<1> QED BY <1>3, <1>9, <1>10, <1>11, <1>12 DEF Promise!Enumerate

(* A query that is over is settled: its fields are there if it was heard.  *)
LEMMA SettleRefines ==
  ASSUME RInv, RInv', TakeReply, agenda' = Tail(agenda), ~Required(call.request),
         UNCHANGED <<devices, outcome>>,
         \/ UNCHANGED found
         \/ found' = found \union {[field |-> call.request, from |-> call.request]}
  PROVE  \E q \in Promise!QueriesAbout(Returned) : Promise!Settle(q)
<1>t. PICK t : t = Tail(agenda)
  OBVIOUS
<1>r. PICK r : r = call.request
  OBVIOUS
<1>1. /\ Running /\ agenda # <<>> /\ Head(agenda) = r /\ agenda \in Seq(Request)
      /\ ~Required(r) /\ PlanOK /\ DevicesOK /\ sequence \in Nat /\ sequence # 0
      /\ agenda' = t /\ Enumerating /\ call' = Idle(r)
      /\ UNCHANGED <<tool, answered, faults, sequence>>
  BY <1>t, <1>r DEF TakeReply, RInv, SInv, IInv, AgendaOK, AtRequest, FreshOK,
         ProgramTypes, TransportOK, TransportTypes
<1>2. /\ 1 \in DOMAIN agenda /\ agenda[1] = r /\ t \in Seq(Request)
      /\ \A k \in DOMAIN t : /\ k \in Nat /\ k >= 1 /\ k + 1 \in DOMAIN agenda
                             /\ t[k] = agenda[k + 1]
      /\ \A k \in DOMAIN agenda : k = 1 \/ (k - 1 \in DOMAIN t /\ t[k - 1] = agenda[k])
  BY <1>t, <1>1, TailFacts
<1>3. Stage = "queries" /\ Returned = devices /\ Pending = Range(agenda)
  <2>1. RequiredDone
    BY <1>1 DEF RequiredDone
  <2> QED BY <1>1, <2>1, Viewed DEF Views
<1>4. Stage' = "queries" /\ Returned' = devices /\ Pending' = Range(t)
  <2>1. t # <<>> => ~Required(Head(t))
    <3> SUFFICES ASSUME t # <<>> PROVE ~Required(Head(t))
      OBVIOUS
    <3>1. 1 \in DOMAIN t /\ Head(t) = t[1]
      BY <1>2
    <3>2. 2 \in DOMAIN agenda /\ t[1] = agenda[2]
      BY <1>2, <3>1
    <3>3. Required(agenda[2]) => Required(agenda[1])
      BY <1>1, <3>2 DEF Enumerating
    <3> QED BY <1>1, <1>2, <3>1, <3>2, <3>3
  <2>2. RequiredDone' /\ Running'
    BY <1>1, <2>1 DEF RequiredDone, Running
  <2> QED BY <1>1, <2>2, Viewed DEF Views
<1>5. UNCHANGED <<Heard, Reliable, tool>>
  BY <1>1, HeardFilledKept
<1>6. Range(t) = Range(agenda) \ {r}
  <2>1. \A k \in DOMAIN t : t[k] \in Range(agenda) /\ t[k] # r
    BY <1>1, <1>2 DEF PlanOK, Differ, Range
  <2>2. ASSUME NEW x \in Range(agenda), x # r PROVE \E k \in DOMAIN t : t[k] = x
    <3>1. PICK k \in DOMAIN agenda : agenda[k] = x
      BY DEF Range
    <3> QED BY <1>2, <2>2, <3>1
  <2>3. \A x : x \in Range(t) <=> \E k \in DOMAIN t : t[k] = x
    BY DEF Range
  <2> QED BY <2>1, <2>2, <2>3
<1>7. Filled' = Filled \/ Filled' = Filled \union {r}
  <2>1. CASE UNCHANGED found
    BY <2>1, HeardFilledKept
  <2>2. CASE found' = found \union {[field |-> r, from |-> r]}
    <3>f. PICK f : f = [field |-> r, from |-> r]
      OBVIOUS
    <3>1. f.field = r /\ found' = found \union {f}
      BY <2>2, <3>f
    <3>2. \A x : x \in Filled' <=> x \in Filled \/ x = r
      BY <1>1, <3>1 DEF Filled
    <3> QED BY <3>2
  <2> QED BY <1>r, <2>1, <2>2
<1>8. r \in Filled' => r \in Heard
  BY <1>1 DEF RInv, HeardOK, Filled, Heard
<1>9. Reliable => (r \in Heard => r \in Filled')
  <2> SUFFICES ASSUME faults = 0, r \in answered PROVE r \in Filled'
    BY DEF Reliable, Heard
  <2>1. call'.state = "idle"
    BY <1>1 DEF Idle
  <2>2. \E f \in found' : f.field = r
    BY <1>1, <2>1 DEF RInv, LInv, AnsweredOK
  <2> QED BY <1>1, <2>2 DEF Filled
<1>10. r \in Promise!QueriesAbout(Returned) /\ r \in Pending
  <2>1. r \in Asks /\ r \in Range(agenda)
    BY <1>1, <1>2 DEF PlanOK, Range
  <2> QED BY <1>1, <1>3, <2>1, SameQueries DEF Asks, DevicesOK
<1>11. Promise!Settle(r)
  BY <1>3, <1>4, <1>5, <1>6, <1>7, <1>8, <1>9, <1>10 DEF Promise!Settle
<1> QED BY <1>10, <1>11

(* Every reply is a step of the abstract enumeration.                      *)
LEMMA TakeReplyRefines ==
  ASSUME RInv, RInv', TakeReply
  PROVE  [Promise!Next]_(Promise!vars)
<1>r. PICK r : r = call.request
  OBVIOUS
<1>m. PICK ms : ms = call.messages
  OBVIOUS
<1>1. /\ call.state \in {"ok", "error"} /\ r \in Request /\ ms \in Seq(Message)
      /\ \A j \in DOMAIN ms : ms[j].request = r
      /\ found \subseteq [field : Request, from : Request] /\ AnswersBelong
  BY <1>r, <1>m, Fields DEF TakeReply, RInv, SInv, IInv, TransportOK, TransportTypes,
     CollectedOK, ProgramTypes
<1>2. CASE Fail /\ Required(r)
  BY <1>r, <1>2, FailRefines DEF Promise!Next
<1>3. CASE /\ Required(r) /\ r.command # "interface" /\ agenda' = Tail(agenda)
           /\ UNCHANGED <<devices, found, outcome>>
  BY <1>r, <1>3, RequiredRefines DEF Promise!Next
<1>4. CASE /\ ~Required(r) /\ agenda' = Tail(agenda) /\ UNCHANGED <<devices, outcome>>
           /\ found' = found \/ found' = found \union {[field |-> r, from |-> r]}
  BY <1>r, <1>4, SettleRefines DEF Promise!Next
<1>5. CASE call.state = "ok"
  <2>1. Apply(r, ms)
    BY <1>r, <1>m, <1>5 DEF TakeReply
  <2>2. CASE r.command = "interface"
    BY <1>r, <1>m, <1>5, <2>1, <2>2, InterfacesRefine DEF Promise!Next
  <2>3. CASE Fill(r, ms) /\ ~Required(r) /\ agenda' = Tail(agenda)
             /\ UNCHANGED <<devices, outcome>>
    BY <1>1, <1>4, <2>3, FillOK
  <2>4. r.command \in {"connect", "wiphy"} => Required(r) /\ r.command # "interface"
    BY DEF Required
  <2> QED BY <1>1, <1>2, <1>3, <2>1, <2>2, <2>3, <2>4, ApplyCases
<1>6. CASE call.state = "error"
  <2>1. (Fail /\ Required(r)) \/ (Skip /\ ~Required(r))
    BY <1>r, <1>6 DEF TakeReply
  <2> QED BY <1>2, <1>4, <2>1 DEF Skip
<1> QED BY <1>1, <1>5, <1>6

(* Listing the links is seen only if it fails.                             *)
LEMMA ListLinksRefines ==
  ASSUME RInv, ListLinks
  PROVE  UNCHANGED Promise!vars \/ Promise!Fail
<1>1. /\ Running /\ sequence = 0 /\ UNCHANGED <<tool, found, answered, faults, sequence>>
  BY DEF ListLinks, transport
<1>2. ~RequiredDone /\ ~RequiredDone'
  BY <1>1 DEF RequiredDone
<1>3. Stage = "required" /\ Returned = {} /\ Pending = {}
  BY <1>1, <1>2, Viewed DEF Views
<1>4. UNCHANGED <<Heard, Filled, Reliable, tool>>
  BY <1>1, HeardFilledKept
<1>5. CASE UNCHANGED outcome
  <2>1. Stage' = "required" /\ Returned' = {} /\ Pending' = {}
    BY <1>1, <1>2, <1>5, Viewed DEF Views, Running
  <2> QED BY <1>3, <1>4, <2>1 DEF Promise!vars
<1>6. CASE outcome' = "error"
  <2>1. Stage' = "error" /\ Returned' = {} /\ Pending' = {}
    BY <1>6, Viewed DEF Views
  <2> QED BY <1>3, <1>4, <2>1 DEF Promise!Fail
<1> QED BY <1>5, <1>6 DEF ListLinks

(* Every step is a step of the abstract enumeration, or is not seen.       *)
LEMMA NextRefines ==
  RInv /\ RInv' /\ [Next]_vars => [Promise!Next]_(Promise!vars)
<1> SUFFICES ASSUME RInv, RInv', [Next]_vars PROVE [Promise!Next]_(Promise!vars)
  OBVIOUS
<1>1. CASE ListLinks
  BY <1>1, ListLinksRefines DEF Promise!Next
<1>2. CASE NextRequest
  BY <1>2, NextRequestRefines DEF Promise!Next
<1>3. CASE TakeDatagram
  BY <1>3, TakeDatagramRefines DEF Promise!Next
<1>4. CASE RequestFails \/ LoseDatagram
  BY <1>4, BreakRefines DEF Promise!Next
<1>5. CASE TakeReply
  BY <1>5, TakeReplyRefines
<1>6. CASE Return
  <2>1. /\ Running /\ agenda = <<>> /\ sequence > 0 /\ outcome' = "ok"
        /\ UNCHANGED <<tool, agenda, devices, found, answered, faults>>
    BY <1>6 DEF Return, transport
  <2>2. RequiredDone
    BY <2>1 DEF RequiredDone
  <2>3. /\ Stage = "queries" /\ Returned = devices /\ Pending = Range(agenda)
        /\ Stage' = "ok" /\ Returned' = devices /\ Pending' = Range(agenda)
    BY <2>1, <2>2, Viewed DEF Views
  <2>4. Range(agenda) = {}
    BY <2>1 DEF Range
  <2>5. Promise!Return
    BY <2>1, <2>3, <2>4, HeardFilledKept DEF Promise!Return
  <2> QED BY <2>5 DEF Promise!Next
<1>7. CASE Stopped \/ UNCHANGED vars
  <2>1. UNCHANGED <<tool, agenda, devices, outcome, found, answered, faults, sequence>>
    BY <1>7 DEF Stopped, vars, program, transport
  <2>2. RequiredDone' <=> RequiredDone
    BY <2>1 DEF RequiredDone
  <2>3. UNCHANGED Promise!vars
    BY <2>1, <2>2, ViewKept, HeardFilledKept DEF Promise!vars
  <2> QED BY <2>3
<1> QED BY <1>1, <1>2, <1>3, <1>4, <1>5, <1>6, <1>7 DEF Next

LEMMA InitRefines == Init => Promise!Init
<1> SUFFICES ASSUME Init PROVE Promise!Init
  OBVIOUS
<1>1. /\ tool \in {"wifi", "ethtool"} /\ outcome = "running" /\ sequence = 0
      /\ found = {} /\ answered = {} /\ faults = 0
  BY DEF Init, TransportInit
<1>2. ~RequiredDone /\ Running
  BY <1>1 DEF RequiredDone, Running
<1>3. Stage = "required" /\ Returned = {} /\ Pending = {}
  BY <1>2, Viewed DEF Views
<1>4. Heard = {} /\ Filled = {} /\ Reliable = TRUE
  BY <1>1 DEF Heard, Filled, Reliable
<1> QED BY <1>1, <1>3, <1>4 DEF Promise!Init

(* wifi::interfaces and ethtool::devices implement the abstract            *)
(* enumeration: once the required steps are done, every query of every     *)
(* interface is made once, in whatever state an earlier one left the       *)
(* socket; a failed query costs its own fields, which are filled only if   *)
(* it was answered, and always then while the socket works; and only a     *)
(* required step fails the call.                                           *)
THEOREM EnumerationKept == Spec => ImplementsEnumerationSpec
<1>1. RInv /\ [Next]_vars => RInv' /\ [Promise!Next]_(Promise!vars)
  BY RefinementStep, NextRefines
<1> QED BY <1>1, RefinementInit, InitRefines, PTL
        DEF Spec, ImplementsEnumerationSpec, Promise!Spec
=============================================================================
