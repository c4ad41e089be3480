----------------------------- MODULE Watch_proofs -----------------------------
(***************************************************************************)
(* Proofs about the watch command for every set of interfaces and names,   *)
(* every buffer size and every number of kernel events.                    *)
(***************************************************************************)
EXTENDS Watch, SequenceTheorems, TLAPS

(* Nothing reaches the socket before it is bound.                          *)
PhaseOK ==
  status \in {"start", "names"} =>
    queue = <<>> /\ log = <<>> /\ handled = 0 /\ ~overrun /\ trusted = {}

(* The buffer holds the events that follow the handled ones, all of them   *)
(* unless one was dropped.                                                 *)
StreamOK ==
  /\ handled + Len(queue) <= Len(log)
  /\ \A k \in DOMAIN queue : queue[k] = log[handled + k]
  /\ ~overrun => handled + Len(queue) = Len(log)

IsLinkOf(k, i) == queue[k].kind = "link" /\ queue[k].index = i

(* What the handler makes of the name in a link event.                     *)
NameGiven(event) == IF event.removed THEN Unnamed ELSE event.name

(* A handler that has seen the first k - 1 events in the buffer knows the  *)
(* interface i by the name n, if it is to be trusted with i at all.        *)
Tells(i, k, n) ==
  /\ i \in trusted /\ (\A j \in 1..(k - 1) : ~IsLinkOf(j, i)) => names[i] = n
  /\ \A j \in 1..(k - 1) :
       /\ IsLinkOf(j, i)
       /\ ~queue[j].bridge
       /\ \A l \in (j + 1)..(k - 1) : ~IsLinkOf(l, i)
       => NameGiven(queue[j]) = n

(* Each event in the buffer finds its interface's name of the moment it    *)
(* was sent, and the next one to be sent finds the current name.           *)
NamesOK ==
  /\ \A k \in DOMAIN queue :
       queue[k].kind # "link" => Tells(queue[k].index, k, queue[k].name)
  /\ ~overrun => \A i \in Indexes : Tells(i, Len(queue) + 1, links[i])

(* An event is about an interface that has a name.                         *)
NamedOK == \A k \in DOMAIN queue : queue[k].name \in Names

IInv == TypeOK /\ PhaseOK /\ StreamOK /\ NamedOK /\ NamesOK
-----------------------------------------------------------------------------
(* The initial state satisfies the inductive invariant.                    *)
LEMMA InitIInv == Init => IInv
<1> SUFFICES ASSUME Init PROVE IInv
  OBVIOUS
<1> USE DEF Init
<1>1. TypeOK
  <2>1. overrun \in BOOLEAN /\ json \in BOOLEAN
    BY Zenon
  <2>2. queue \in Seq(Event) /\ log \in Seq(Event)
          /\ output \in Seq([event : Event, label : Label])
          /\ handled \in 0..Len(log) /\ events \in Nat
    OBVIOUS
  <2>3. /\ links \in [Indexes -> Names \union {Unnamed}]
        /\ names \in [Indexes -> Names \union {Unnamed}]
        /\ filter \in Kind \union {"none"}
        /\ status \in {"start", "names", "watching", "error", "panic"}
        /\ listing \subseteq Names
        /\ trusted \subseteq Indexes
    OBVIOUS
  <2> QED BY <2>1, <2>2, <2>3, Zenon DEF TypeOK
<1>2. ~overrun
  BY Zenon
<1>3. PhaseOK
  BY <1>2 DEF PhaseOK
<1>4. StreamOK
  BY DEF StreamOK
<1>5. NamesOK
  BY DEF NamesOK, Tells
<1> QED BY <1>1, <1>3, <1>4, <1>5 DEF IInv, NamedOK

(* Fields of an event.                                                     *)
LEMMA EventFields ==
  ASSUME NEW event \in Event
  PROVE  /\ event.kind \in Kind
         /\ event.index \in Indexes
         /\ event.name \in Label
         /\ event.removed \in BOOLEAN
         /\ event.bridge \in BOOLEAN
BY Zenon DEF Event

(* Elements of the buffer and of the history.                              *)
LEMMA Elements ==
  ASSUME TypeOK
  PROVE  /\ queue \in Seq(Event) /\ Len(queue) \in Nat
         /\ DOMAIN queue = 1..Len(queue)
         /\ \A k \in DOMAIN queue : queue[k] \in Event
         /\ log \in Seq(Event) /\ Len(log) \in Nat
         /\ handled \in Nat
BY DEF TypeOK

(* What Notify does: nothing before the socket is bound, and afterwards    *)
(* the event is queued, or dropped with the overrun recorded.              *)
LEMMA NotifyCases ==
  ASSUME NEW event, Notify(event), TypeOK
  PROVE  \/ /\ ~Watching
            /\ UNCHANGED <<log, queue>>
            /\ overrun' <=> overrun
         \/ /\ Watching /\ ~overrun /\ ~overrun'
            /\ log' = Append(log, event)
            /\ queue' = Append(queue, event)
         \/ /\ Watching /\ overrun'
            /\ log' = Append(log, event)
            /\ queue' = queue
<1>1. ~Watching => UNCHANGED <<log, queue>> /\ (overrun' <=> overrun)
  BY Zenon DEF Notify
<1>2. Watching => log' = Append(log, event)
  BY Zenon DEF Notify
<1>3. CASE Watching /\ ~overrun /\ Len(queue) < SocketBuffer
  BY <1>2, <1>3, Zenon DEF Notify
<1>4. CASE Watching /\ ~(~overrun /\ Len(queue) < SocketBuffer)
  BY <1>2, <1>4, Zenon DEF Notify
<1> QED BY <1>1, <1>3, <1>4

(* A longer buffer tells the same about the positions it had before.       *)
LEMMA TellsAppended ==
  ASSUME TypeOK, NEW event \in Event, queue' = Append(queue, event),
         UNCHANGED <<names, trusted>>,
         NEW i, NEW n, NEW k \in 1..(Len(queue) + 1), Tells(i, k, n)
  PROVE  Tells(i, k, n)'
<1>1. \A j \in 1..(k - 1) : queue'[j] = queue[j]
  BY Elements
<1>2. \A j \in 1..(k - 1) : IsLinkOf(j, i)' <=> IsLinkOf(j, i)
  BY <1>1 DEF IsLinkOf
<1>3. \A j \in 1..(k - 1) : \A l \in (j + 1)..(k - 1) : l \in 1..(k - 1)
  BY Elements
<1>4. \A j \in 1..(k - 1) :
        (\A l \in (j + 1)..(k - 1) : ~IsLinkOf(l, i)') =>
        (\A l \in (j + 1)..(k - 1) : ~IsLinkOf(l, i))
  BY <1>2, <1>3
<1>5. i \in trusted' /\ (\A j \in 1..(k - 1) : ~IsLinkOf(j, i)')
        => names'[i] = n
  BY <1>2 DEF Tells
<1>6. ASSUME NEW j \in 1..(k - 1), IsLinkOf(j, i)', ~queue'[j].bridge,
             \A l \in (j + 1)..(k - 1) : ~IsLinkOf(l, i)'
      PROVE  NameGiven(queue'[j]) = n
  BY <1>1, <1>2, <1>4, <1>6 DEF Tells
<1> QED BY <1>5, <1>6 DEF Tells

(* An event that names no link, or a link other than i, leaves what the    *)
(* whole buffer tells about i.                                             *)
LEMMA TellsOther ==
  ASSUME TypeOK, NEW event \in Event, queue' = Append(queue, event),
         UNCHANGED <<names, trusted>>,
         NEW m \in Nat, m = Len(queue) + 1,
         NEW i, NEW n, Tells(i, m, n),
         event.kind # "link" \/ event.index # i
  PROVE  Tells(i, m + 1, n)'
<1>1. (m + 1) - 1 = m
  OBVIOUS
<1>2. \A j \in 1..(m - 1) : queue'[j] = queue[j]
  BY Elements
<1>3. queue'[m] = event
  BY Elements
<1>4. \A j \in 1..(m - 1) : IsLinkOf(j, i)' <=> IsLinkOf(j, i)
  BY <1>2 DEF IsLinkOf
<1>5. ~IsLinkOf(m, i)'
  BY <1>3 DEF IsLinkOf
<1>6. 1..(m - 1) \subseteq 1..m /\ \A j \in 1..m : j # m => j \in 1..(m - 1)
  OBVIOUS
<1>7. \A j \in 1..(m - 1) : (j + 1)..(m - 1) \subseteq (j + 1)..m
                              /\ (j + 1)..(m - 1) \subseteq 1..(m - 1)
  OBVIOUS
<1>8. i \in trusted' /\ (\A j \in 1..m : ~IsLinkOf(j, i)') => names'[i] = n
  BY <1>4, <1>6 DEF Tells
<1>9. ASSUME NEW j \in 1..m, IsLinkOf(j, i)', ~queue'[j].bridge,
             \A l \in (j + 1)..m : ~IsLinkOf(l, i)'
      PROVE  NameGiven(queue'[j]) = n
  <2>1. j \in 1..(m - 1)
    BY <1>5, <1>6, <1>9
  <2>2. \A l \in (j + 1)..(m - 1) : ~IsLinkOf(l, i)
    BY <2>1, <1>4, <1>7, <1>9
  <2>3. IsLinkOf(j, i) /\ ~queue[j].bridge
    BY <2>1, <1>2, <1>4, <1>9
  <2>4. NameGiven(queue[j]) = n
    BY <2>1, <2>2, <2>3 DEF Tells
  <2> QED BY <2>1, <2>4, <1>2
<1> QED BY <1>1, <1>8, <1>9 DEF Tells

(* After a link event of i the whole buffer tells what it carries, or      *)
(* nothing at all when it is one of a bridge port.                         *)
LEMMA TellsLink ==
  ASSUME TypeOK, NEW event \in Event, queue' = Append(queue, event),
         event.kind = "link",
         NEW m \in Nat, m = Len(queue) + 1,
         NEW n, event.bridge \/ NameGiven(event) = n
  PROVE  Tells(event.index, m + 1, n)'
<1> DEFINE i == event.index
<1>1. (m + 1) - 1 = m /\ m \in 1..m
  BY Elements
<1>2. queue'[m] = event
  BY Elements
<1>3. IsLinkOf(m, i)'
  BY <1>2 DEF IsLinkOf
<1>4. \A j \in 1..m : j # m => m \in (j + 1)..m
  BY <1>1
<1>5. ASSUME NEW j \in 1..m, IsLinkOf(j, i)', ~queue'[j].bridge,
             \A l \in (j + 1)..m : ~IsLinkOf(l, i)'
      PROVE  NameGiven(queue'[j]) = n
  <2>1. j = m
    BY <1>3, <1>4, <1>5
  <2> QED BY <2>1, <1>2, <1>5
<1> QED BY <1>1, <1>3, <1>5 DEF Tells

(* What the kernel's step does to its interfaces, and the event it sends.  *)
Announces(event) ==
  /\ event \in Event
  /\ event.name \in Names
  /\ links' \in [Indexes -> Names \union {Unnamed}]
  /\ \A i \in Indexes : event.kind # "link" \/ event.index # i
                          => links'[i] = links[i]
  /\ event.kind = "link" /\ ~event.bridge
       => links'[event.index] = NameGiven(event)
  /\ event.kind # "link" => event.name = links[event.index]
  /\ Notify(event)
  /\ CommandUnchanged

(* Each step of the kernel announces what it did.                          *)
LEMMA KernelAnnounces ==
  ASSUME TypeOK, Kernel
  PROVE  \E event : Announces(event)
<1> USE DEF TypeOK
<1>1. CASE LinkChanges
  <2>1. PICK i \in Indexes, n \in Names :
          /\ links' = [links EXCEPT ![i] = n]
          /\ Notify([kind |-> "link", removed |-> FALSE, bridge |-> FALSE,
                     index |-> i, name |-> n])
          /\ CommandUnchanged
    BY <1>1 DEF LinkChanges
  <2> DEFINE e == [kind |-> "link", removed |-> FALSE, bridge |-> FALSE,
                   index |-> i, name |-> n]
  <2>2. e \in Event
    BY DEF Event, Kind, Label
  <2>3. e.kind = "link" /\ e.index = i /\ e.name = n
    OBVIOUS
  <2>4. ~e.removed
    OBVIOUS
  <2>5. NameGiven(e) = n
    BY <2>3, <2>4, Zenon DEF NameGiven
  <2>6. Notify(e)
    BY <2>1, Zenon
  <2> HIDE DEF e
  <2>7. links' \in [Indexes -> Names \union {Unnamed}] /\ links'[i] = n
          /\ \A x \in Indexes : i # x => links'[x] = links[x]
    BY <2>1
  <2> QED BY <2>1, <2>2, <2>3, <2>5, <2>6, <2>7 DEF Announces
<1>2. CASE LinkRemoved
  <2>1. PICK i \in Live :
          /\ links' = [links EXCEPT ![i] = Unnamed]
          /\ Notify([kind |-> "link", removed |-> TRUE, bridge |-> FALSE,
                     index |-> i, name |-> links[i]])
          /\ CommandUnchanged
    BY <1>2 DEF LinkRemoved
  <2> DEFINE e == [kind |-> "link", removed |-> TRUE, bridge |-> FALSE,
                   index |-> i, name |-> links[i]]
  <2>2. i \in Indexes /\ links[i] \in Names
    BY DEF Live
  <2>3. e \in Event
    BY <2>2 DEF Event, Kind, Label
  <2>4. e.kind = "link" /\ e.index = i /\ e.name \in Names
    BY <2>2
  <2>5. e.removed
    OBVIOUS
  <2>6. NameGiven(e) = Unnamed
    BY <2>5, Zenon DEF NameGiven
  <2>7. Notify(e)
    BY <2>1, Zenon
  <2> HIDE DEF e
  <2>8. links' \in [Indexes -> Names \union {Unnamed}] /\ links'[i] = Unnamed
          /\ \A x \in Indexes : i # x => links'[x] = links[x]
    BY <2>1, <2>2
  <2> QED BY <2>1, <2>3, <2>4, <2>6, <2>7, <2>8 DEF Announces
<1>3. CASE BridgePortRemoved
  <2>1. PICK i \in Live :
          /\ Notify([kind |-> "link", removed |-> TRUE, bridge |-> TRUE,
                     index |-> i, name |-> links[i]])
          /\ UNCHANGED links
          /\ CommandUnchanged
    BY <1>3 DEF BridgePortRemoved
  <2> DEFINE e == [kind |-> "link", removed |-> TRUE, bridge |-> TRUE,
                   index |-> i, name |-> links[i]]
  <2>2. i \in Indexes /\ links[i] \in Names
    BY DEF Live
  <2>3. e \in Event
    BY <2>2 DEF Event, Kind, Label
  <2>4. e.kind = "link" /\ e.name \in Names
    BY <2>2
  <2>5. e.bridge
    OBVIOUS
  <2>6. Notify(e)
    BY <2>1, Zenon
  <2> HIDE DEF e
  <2> QED BY <2>1, <2>3, <2>4, <2>5, <2>6, Zenon DEF Announces
<1>4. CASE OtherEvent
  <2>1. PICK i \in Live, k \in Kind \ {"link"} :
          /\ Notify([kind |-> k, removed |-> FALSE, bridge |-> FALSE,
                     index |-> i, name |-> links[i]])
          /\ UNCHANGED links
          /\ CommandUnchanged
    BY <1>4 DEF OtherEvent
  <2> DEFINE e == [kind |-> k, removed |-> FALSE, bridge |-> FALSE,
                   index |-> i, name |-> links[i]]
  <2>2. i \in Indexes /\ links[i] \in Names
    BY DEF Live
  <2>3. e \in Event
    BY <2>2 DEF Event, Kind, Label
  <2>4. e.kind = k /\ e.index = i /\ e.name = links[i]
    OBVIOUS
  <2>5. Notify(e)
    BY <2>1, Zenon
  <2> HIDE DEF e
  <2> QED BY <2>1, <2>2, <2>3, <2>4, <2>5 DEF Announces
<1> QED BY <1>1, <1>2, <1>3, <1>4 DEF Kernel

(* A change or event in the kernel preserves the inductive invariant.      *)
LEMMA KernelStep ==
  ASSUME IInv, Kernel
  PROVE  IInv'
<1>1. PICK event : Announces(event)
  BY KernelAnnounces DEF IInv
<1> USE DEF IInv
<1>2. event \in Event /\ Notify(event) /\ CommandUnchanged
  BY <1>1 DEF Announces
<1>3. UNCHANGED <<names, status, handled, trusted>>
  BY <1>2 DEF CommandUnchanged
<1>4. status \notin {"error", "panic"} /\ overrun' \in BOOLEAN
  BY <1>2, Zenon DEF Notify
<1>5. TypeOK'
  <2>1. overrun' \in BOOLEAN /\ json' \in BOOLEAN
    BY <1>2, Zenon DEF Notify, CommandUnchanged, TypeOK
  <2>2. queue' \in Seq(Event) /\ log' \in Seq(Event) /\ handled' \in 0..Len(log')
    <3>1. queue' \in {queue, Append(queue, event)} /\ log' \in {log, Append(log, event)}
      BY <1>2, NotifyCases
    <3>2. queue \in Seq(Event) /\ log \in Seq(Event) /\ handled' \in 0..Len(log)
      BY <1>3 DEF TypeOK
    <3>3. queue' \in Seq(Event)
      BY <1>2, <3>1, <3>2
    <3>4. log' \in Seq(Event) /\ Len(log') >= Len(log) /\ Len(log') \in Nat
      BY <1>2, <3>1, <3>2
    <3>5. Len(log) \in Nat
      BY <3>2
    <3> QED BY <3>2, <3>3, <3>4, <3>5
  <2>3. events' \in Nat
    BY <1>2 DEF Notify, TypeOK
  <2>4. links' \in [Indexes -> Names \union {Unnamed}]
    BY <1>1 DEF Announces
  <2>5. UNCHANGED <<filter, listing, names, status, output, trusted>>
    BY <1>2 DEF CommandUnchanged
  <2> QED BY <2>1, <2>2, <2>3, <2>4, <2>5, Zenon DEF TypeOK
<1>0. NamedOK'
  <2>1. queue' = queue \/ queue' = Append(queue, event)
    BY <1>2, NotifyCases
  <2>2. event.name \in Names
    BY <1>1 DEF Announces
  <2> QED BY <1>2, <2>1, <2>2, Elements DEF NamedOK
<1>6. CASE ~Watching /\ UNCHANGED <<log, queue>> /\ (overrun' <=> overrun)
  <2>1. status \in {"start", "names"}
    BY <1>4, <1>6 DEF TypeOK, Watching
  <2>2. queue = <<>> /\ trusted = {} /\ log = <<>> /\ handled = 0 /\ ~overrun
    BY <2>1 DEF PhaseOK
  <2>3. queue' = <<>> /\ trusted' = {} /\ log' = <<>> /\ handled' = 0 /\ ~overrun'
    BY <2>2, <1>3, <1>6
  <2>4. PhaseOK' /\ StreamOK'
    BY <2>3 DEF PhaseOK, StreamOK
  <2>5. NamesOK'
    BY <2>3 DEF NamesOK, Tells
  <2> QED BY <1>0, <1>5, <2>4, <2>5
<1>7. CASE /\ Watching /\ ~overrun /\ ~overrun'
           /\ log' = Append(log, event)
           /\ queue' = Append(queue, event)
  <2>1. PhaseOK'
    BY <1>3, <1>7 DEF PhaseOK, Watching
  <2>2. StreamOK'
    <3>1. handled + Len(queue) = Len(log)
      BY <1>7 DEF StreamOK
    <3>0. Len(queue') = Len(queue) + 1 /\ Len(log') = Len(log) + 1
      BY <1>2, <1>7, Elements
    <3>2. handled' + Len(queue') = Len(log')
      BY <1>3, <3>0, <3>1, Elements
    <3>3. \A k \in DOMAIN queue' : queue'[k] = log'[handled' + k]
      <4>1. ASSUME NEW k \in DOMAIN queue'
            PROVE  queue'[k] = log'[handled + k]
        <5>1. k \in 1..(Len(queue) + 1)
          BY <1>2, <1>7, Elements
        <5>2. CASE k = Len(queue) + 1
          BY <1>2, <1>7, <3>1, <5>2, Elements
        <5>3. CASE k \in DOMAIN queue
          <6>1. queue[k] = log[handled + k]
            BY <5>3 DEF StreamOK
          <6>2. handled + k \in 1..Len(log)
            BY <5>3, <3>1, Elements
          <6> QED BY <1>2, <1>7, <5>3, <6>1, <6>2, Elements
        <5> QED BY <5>1, <5>2, <5>3, Elements
      <4> QED BY <4>1, <1>3
    <3>4. handled' + Len(queue') <= Len(log')
      BY <1>3, <3>0, <3>1, Elements
    <3> QED BY <3>2, <3>3, <3>4 DEF StreamOK
  <2>3. NamesOK'
    <3>1. PICK m \in Nat : m = Len(queue) + 1
      BY Elements
    <3>2. Len(queue') = m /\ m \in 1..(Len(queue) + 1)
            /\ DOMAIN queue' = 1..m /\ queue'[m] = event
            /\ \A k \in 1..m : k # m => k \in DOMAIN queue /\ queue'[k] = queue[k]
      BY <1>2, <1>7, <3>1, Elements
    <3>3. \A i \in Indexes : Tells(i, m, links[i])
      BY <1>7, <3>1 DEF NamesOK
    <3>4. ASSUME NEW k \in DOMAIN queue', queue'[k].kind # "link"
          PROVE  Tells(queue[k].index, k, queue[k].name)'
      <4>1. CASE k = m
        <5>1. event.kind # "link" /\ event.index \in Indexes
          BY <1>2, <3>2, <3>4, <4>1, EventFields
        <5>2. event.name = links[event.index]
          BY <1>1, <5>1 DEF Announces
        <5>3. Tells(event.index, m, event.name)
          BY <3>3, <5>1, <5>2
        <5>4. Tells(event.index, m, event.name)'
          BY <1>2, <1>3, <1>7, <3>2, <5>3, TellsAppended
        <5> QED BY <3>2, <4>1, <5>4
      <4>2. CASE k # m
        <5>1. k \in DOMAIN queue /\ queue'[k] = queue[k]
          BY <3>2, <4>2
        <5>2. PICK e : e = queue[k]
          OBVIOUS
        <5>3. Tells(e.index, k, e.name)
          BY <5>1, <5>2, <3>4 DEF NamesOK
        <5>4. k \in 1..(Len(queue) + 1)
          BY <3>2
        <5>5. Tells(e.index, k, e.name)'
          BY <1>2, <1>3, <1>7, <5>3, <5>4, TellsAppended
        <5> QED BY <5>1, <5>2, <5>5
      <4> QED BY <4>1, <4>2
    <3>5. ASSUME NEW i \in Indexes
          PROVE  Tells(i, Len(queue) + 1, links[i])'
      <4>1. PICK n : n = links'[i]
        OBVIOUS
      <4>2. Tells(i, m + 1, n)'
        <5>1. CASE event.kind # "link" \/ event.index # i
          <6>1. Tells(i, m, n)
            BY <1>1, <3>3, <4>1, <5>1 DEF Announces
          <6> QED BY <1>2, <1>3, <1>7, <3>1, <5>1, <6>1, TellsOther
        <5>2. CASE event.kind = "link" /\ event.index = i
          <6>1. event.bridge \/ NameGiven(event) = n
            BY <1>1, <4>1, <5>2 DEF Announces
          <6> QED BY <1>2, <1>7, <3>1, <5>2, <6>1, TellsLink
        <5> QED BY <5>1, <5>2
      <4> QED BY <3>2, <4>1, <4>2
    <3> QED BY <3>4, <3>5 DEF NamesOK
  <2> QED BY <1>0, <1>5, <2>1, <2>2, <2>3
<1>8. CASE /\ Watching /\ overrun'
           /\ log' = Append(log, event)
           /\ queue' = queue
  <2>1. PhaseOK'
    BY <1>3, <1>8 DEF PhaseOK, Watching
  <2>2. StreamOK'
    <3>1. Len(log') = Len(log) + 1 /\ \A k \in 1..Len(log) : log'[k] = log[k]
      BY <1>2, <1>8, Elements
    <3>2. \A k \in DOMAIN queue : handled + k \in 1..Len(log)
      BY Elements DEF StreamOK
    <3> QED BY <1>3, <1>8, <3>1, <3>2, Elements DEF StreamOK
  <2>3. NamesOK'
    BY <1>3, <1>8 DEF NamesOK, Tells, IsLinkOf
  <2> QED BY <1>0, <1>5, <2>1, <2>2, <2>3
<1> QED BY <1>2, <1>6, <1>7, <1>8, NotifyCases

(* What the handler does with the names and the trust in them, for the     *)
(* interface of a link event and for every other one.                      *)
LEMMA HandlerNames ==
  ASSUME TypeOK, NEW event \in Event, NEW i \in Indexes
  PROVE  /\ event.kind = "link" /\ event.index = i
              => /\ NamesAfter(event)[i] = NameGiven(event)
                 /\ i \in TrustedAfter(event) => ~event.bridge
         /\ event.kind # "link" \/ event.index # i
              => /\ NamesAfter(event)[i] = names[i]
                 /\ i \in TrustedAfter(event) => i \in trusted
<1>1. names \in [Indexes -> Names \union {Unnamed}] /\ event.index \in Indexes
  BY EventFields DEF TypeOK
<1>2. NamesAfter(event) = IF event.kind = "link"
                          THEN [names EXCEPT ![event.index] = NameGiven(event)]
                          ELSE names
  BY Zenon DEF NamesAfter, NameGiven
<1>3. event.kind = "link" /\ event.bridge
        => TrustedAfter(event) = trusted \ {event.index}
  BY Zenon DEF TrustedAfter
<1>4. event.kind = "link" /\ ~event.bridge
        => TrustedAfter(event) = trusted \union {event.index}
  BY Zenon DEF TrustedAfter
<1>5. event.kind # "link" => TrustedAfter(event) = trusted
  BY Zenon DEF TrustedAfter
<1> QED BY <1>1, <1>2, <1>3, <1>4, <1>5

(* The names keep their type, and so does the trust in them.               *)
LEMMA HandlerTypes ==
  ASSUME TypeOK, NEW event \in Event, event.kind = "link" => event.name \in Names
  PROVE  /\ NamesAfter(event) \in [Indexes -> Names \union {Unnamed}]
         /\ TrustedAfter(event) \subseteq Indexes
<1>1. names \in [Indexes -> Names \union {Unnamed}] /\ event.index \in Indexes
  BY EventFields DEF TypeOK
<1>2. NamesAfter(event) = IF event.kind = "link"
                          THEN [names EXCEPT ![event.index] = NameGiven(event)]
                          ELSE names
  BY Zenon DEF NamesAfter, NameGiven
<1>3. event.kind = "link" => NameGiven(event) \in Names \union {Unnamed}
  BY Zenon DEF NameGiven
<1>4. TrustedAfter(event) \subseteq trusted \union {event.index}
  BY Zenon DEF TrustedAfter
<1>5. NamesAfter(event) \in [Indexes -> Names \union {Unnamed}]
  BY <1>1, <1>2, <1>3
<1> QED BY <1>1, <1>4, <1>5 DEF TypeOK

(* Once the first event is handled, the rest of the buffer tells the same. *)
LEMMA TellsHandled ==
  ASSUME TypeOK, queue # <<>>, queue' = Tail(queue),
         names' = NamesAfter(Head(queue)), trusted' = TrustedAfter(Head(queue)),
         NEW i \in Indexes, NEW n, NEW k \in 1..Len(queue), Tells(i, k + 1, n)
  PROVE  Tells(i, k, n)'
<1>1. /\ Len(queue) \in Nat /\ Len(queue) >= 1
      /\ queue[1] \in Event /\ Head(queue) = queue[1]
      /\ \A j \in 1..(k - 1) : queue'[j] = queue[j + 1]
  BY Elements
<1>2. k \in Nat /\ (k + 1) - 1 = k
  BY <1>1
<1>3. \A j \in 1..(k - 1) : /\ IsLinkOf(j, i)' <=> IsLinkOf(j + 1, i)
                             /\ j + 1 \in 1..k
  BY <1>1, <1>2 DEF IsLinkOf
<1>4. \A l \in 2..k : \E j \in 1..(k - 1) : l = j + 1
  <2>1. \A l \in 2..k : l - 1 \in 1..(k - 1) /\ l = (l - 1) + 1
    BY <1>2
  <2> QED BY <2>1
<1>5. ASSUME i \in trusted', \A j \in 1..(k - 1) : ~IsLinkOf(j, i)'
      PROVE  names'[i] = n
  <2>1. ASSUME NEW l \in 2..k PROVE ~IsLinkOf(l, i)
    <3>1. PICK j \in 1..(k - 1) : l = j + 1
      BY <1>4
    <3> QED BY <1>3, <1>5, <3>1 DEF IsLinkOf
  <2>2. CASE IsLinkOf(1, i)
    <3>1. ~queue[1].bridge /\ names'[i] = NameGiven(queue[1])
      BY <1>1, <1>5, <2>2, HandlerNames DEF IsLinkOf
    <3>2. 1 \in 1..k /\ (1 + 1)..k = 2..k
      BY <1>1, <1>2
    <3>3. NameGiven(queue[1]) = n
      BY <1>2, <2>1, <2>2, <3>1, <3>2 DEF Tells
    <3> QED BY <3>1, <3>3
  <2>3. CASE ~IsLinkOf(1, i)
    <3>1. i \in trusted /\ names'[i] = names[i]
      BY <1>1, <1>5, <2>3, HandlerNames DEF IsLinkOf
    <3>2. \A j \in 1..k : j = 1 \/ j \in 2..k
      BY <1>2
    <3>3. names[i] = n
      BY <1>2, <2>1, <2>3, <3>1, <3>2 DEF Tells
    <3> QED BY <3>1, <3>3
  <2> QED BY <2>2, <2>3
<1>6. ASSUME NEW j \in 1..(k - 1), IsLinkOf(j, i)', ~queue'[j].bridge,
             \A l \in (j + 1)..(k - 1) : ~IsLinkOf(l, i)'
      PROVE  NameGiven(queue'[j]) = n
  <2>1. j + 1 \in 1..k /\ IsLinkOf(j + 1, i) /\ queue'[j] = queue[j + 1]
    BY <1>1, <1>3, <1>6
  <2>3. ASSUME NEW l \in ((j + 1) + 1)..k PROVE ~IsLinkOf(l, i)
    <3>1. l - 1 \in (j + 1)..(k - 1) /\ l - 1 \in 1..(k - 1) /\ l = (l - 1) + 1
      BY <1>2
    <3>2. PICK h \in (j + 1)..(k - 1) : h \in 1..(k - 1) /\ l = h + 1
      BY <3>1
    <3> QED BY <1>3, <1>6, <3>2 DEF IsLinkOf
  <2>4. ~queue[j + 1].bridge
    BY <1>6, <2>1
  <2> QED BY <1>2, <2>1, <2>3, <2>4 DEF Tells
<1> QED BY <1>5, <1>6 DEF Tells

(* Handling an event preserves the inductive invariant.                    *)
LEMMA HandleStep ==
  ASSUME IInv, Handle
  PROVE  IInv'
<1> USE DEF IInv
<1>1. /\ Watching /\ queue # <<>>
      /\ names' = NamesAfter(Head(queue))
      /\ trusted' = TrustedAfter(Head(queue))
      /\ queue' = Tail(queue)
      /\ handled' = handled + 1
      /\ UNCHANGED <<links, log, status>>
  BY DEF Handle, KernelUnchanged
<1>2. ~overrun /\ ~overrun'
  BY Zenon DEF Handle
<1>3. /\ Len(queue) >= 1 /\ Len(queue') = Len(queue) - 1
      /\ Head(queue) = queue[1] /\ Head(queue) \in Event /\ 1 \in DOMAIN queue
      /\ queue' \in Seq(Event)
      /\ DOMAIN queue' = 1..(Len(queue) - 1)
      /\ \A k \in DOMAIN queue' : k + 1 \in DOMAIN queue /\ queue'[k] = queue[k + 1]
  BY <1>1, Elements
<1>4. handled + Len(queue) = Len(log)
  BY <1>2 DEF StreamOK
<1>5. TypeOK'
  <2>1. names' \in [Indexes -> Names \union {Unnamed}] /\ trusted' \subseteq Indexes
    BY <1>1, <1>3, HandlerTypes DEF NamedOK
  <2>2. handled' \in 0..Len(log')
    BY <1>1, <1>3, <1>4, Elements
  <2>3. output' \in Seq([event : Event, label : Label])
    <3>1. LabelOf(Head(queue)) \in Label
      <4>1. Head(queue).name \in Label /\ Head(queue).index \in Indexes
        BY <1>3, EventFields
      <4>2. names[Head(queue).index] \in Label
        BY <4>1 DEF TypeOK, Label
      <4> QED BY <4>1, <4>2, Zenon DEF LabelOf, Label
    <3>2. [event |-> Head(queue), label |-> LabelOf(Head(queue))]
            \in [event : Event, label : Label]
      BY <1>3, <3>1
    <3>3. output' \in {output, Append(output, [event |-> Head(queue),
                                              label |-> LabelOf(Head(queue))])}
      BY Zenon DEF Handle
    <3>4. output \in Seq([event : Event, label : Label])
      BY DEF TypeOK
    <3> DEFINE R == [event : Event, label : Label]
               r == [event |-> Head(queue), label |-> LabelOf(Head(queue))]
    <3>5. r \in R /\ output \in Seq(R) /\ output' \in {output, Append(output, r)}
      BY <3>2, <3>3, <3>4, Zenon
    <3> HIDE DEF R, r
    <3>6. output' \in Seq(R)
      BY <3>5
    <3> QED BY <3>6 DEF R
  <2>4. overrun' \in BOOLEAN /\ json' \in BOOLEAN
    BY Zenon DEF Handle, TypeOK
  <2>5. UNCHANGED <<links, events, filter, listing, status, log>>
    BY DEF Handle, KernelUnchanged
  <2> QED BY <1>3, <2>1, <2>2, <2>3, <2>4, <2>5, Zenon DEF TypeOK
<1>6. PhaseOK'
  BY <1>1 DEF PhaseOK, Watching
<1>7. StreamOK'
  <2>1. handled' + Len(queue') = Len(log') /\ handled' + Len(queue') <= Len(log')
    BY <1>1, <1>3, <1>4, Elements
  <2>2. ASSUME NEW k \in DOMAIN queue'
        PROVE  queue'[k] = log'[handled' + k]
    <3>1. queue[k + 1] = log[handled + (k + 1)]
      BY <1>3 DEF StreamOK
    <3>2. handled + (k + 1) = handled' + k
      BY <1>1, <1>3, Elements
    <3> QED BY <1>1, <1>3, <3>1, <3>2
  <2> QED BY <2>1, <2>2 DEF StreamOK
<1>8. NamedOK'
  BY <1>3 DEF NamedOK
<1>9. NamesOK'
  <2>1. ASSUME NEW k \in DOMAIN queue', queue'[k].kind # "link"
        PROVE  Tells(queue[k].index, k, queue[k].name)'
    <3>1. PICK e : e = queue[k + 1]
      OBVIOUS
    <3>2. queue'[k] = e /\ k + 1 \in DOMAIN queue /\ k \in 1..Len(queue)
      BY <1>3, <3>1, Elements
    <3>3. e.index \in Indexes
      BY <3>1, <3>2, Elements, EventFields
    <3>4. Tells(e.index, k + 1, e.name)
      BY <2>1, <3>1, <3>2 DEF NamesOK
    <3>5. Tells(e.index, k, e.name)'
      BY <1>1, <3>2, <3>3, <3>4, TellsHandled
    <3> QED BY <3>2, <3>5
  <2>2. ASSUME NEW i \in Indexes
        PROVE  Tells(i, Len(queue) + 1, links[i])'
    <3>n. PICK n : n = links[i]
      OBVIOUS
    <3>m. PICK m \in Nat : m = Len(queue)
      BY Elements
    <3>1. m = Len(queue) /\ n = links[i]
      BY <3>n, <3>m
    <3>2. Tells(i, m + 1, n)
      BY <1>2, <3>1 DEF NamesOK
    <3>3. Tells(i, m, n)'
      BY <1>1, <1>3, <3>1, <3>2, TellsHandled
    <3>4. Len(queue') + 1 = m /\ links'[i] = n
      BY <1>1, <1>3, <3>1
    <3> QED BY <3>3, <3>4
  <2> QED BY <2>1, <2>2 DEF NamesOK
<1> QED BY <1>5, <1>6, <1>7, <1>8, <1>9

(* Reading the names preserves the inductive invariant: the socket is not  *)
(* open yet.                                                               *)
LEMMA ReadStep ==
  ASSUME IInv, ListInterfaces \/ ReadIndex
  PROVE  IInv'
<1> USE DEF IInv
<1>1. status \in {"start", "names"} /\ status' \in {"start", "names"}
  BY DEF ListInterfaces, ReadIndex
<1>2. UNCHANGED <<links, events, queue, json, filter, output, log, handled, trusted>>
  BY DEF ListInterfaces, ReadIndex, KernelUnchanged
<1>3. overrun' = overrun
  BY Zenon DEF ListInterfaces, ReadIndex
<1>4. queue = <<>> /\ trusted = {} /\ log = <<>> /\ handled = 0 /\ ~overrun
  BY <1>1 DEF PhaseOK
<1>5. queue' = <<>> /\ trusted' = {} /\ log' = <<>> /\ handled' = 0
  BY <1>2, <1>4
<1>6. ~overrun'
  BY <1>3, <1>4, Zenon
<1>7. TypeOK'
  <2>1. listing' \subseteq Names
    <3>1. CASE ListInterfaces
      <4>1. {links[i] : i \in Live} \subseteq Names
        BY DEF Live, TypeOK
      <4> QED BY <3>1, <4>1 DEF ListInterfaces
    <3>2. CASE ReadIndex
      BY <3>2 DEF ReadIndex, TypeOK
    <3> QED BY <3>1, <3>2
  <2>2. names' \in [Indexes -> Names \union {Unnamed}]
    <3>1. CASE ListInterfaces
      BY <3>1 DEF ListInterfaces, TypeOK
    <3>2. CASE ReadIndex
      BY <3>2 DEF ReadIndex, TypeOK
    <3> QED BY <3>1, <3>2
  <2>3. overrun' \in BOOLEAN /\ json' \in BOOLEAN
    BY <1>2, <1>3, Zenon DEF TypeOK
  <2>4. status' \in {"start", "names", "watching", "error", "panic"}
    BY <1>1
  <2> QED BY <1>2, <2>1, <2>2, <2>3, <2>4, Zenon DEF TypeOK
<1>8. PhaseOK' /\ StreamOK'
  BY <1>5, <1>6 DEF PhaseOK, StreamOK
<1>9. NamedOK' /\ NamesOK'
  BY <1>5, <1>6 DEF NamedOK, NamesOK, Tells
<1> QED BY <1>7, <1>8, <1>9

(* Binding the socket: the names that are right are the trusted ones.      *)
LEMMA SubscribeStep ==
  ASSUME IInv, Subscribe
  PROVE  IInv'
<1> USE DEF IInv
<1>1. /\ status = "names" /\ status' = "watching"
      /\ trusted' = {i \in Indexes : names[i] = links[i]}
      /\ UNCHANGED <<links, events, queue, filter, listing, names, output, log,
                     handled>>
  BY DEF Subscribe, KernelUnchanged
<1>2. overrun' = overrun /\ json' = json
  BY Zenon DEF Subscribe
<1>3. queue' = <<>> /\ log' = <<>> /\ handled' = 0
  BY <1>1 DEF PhaseOK
<1>4. TypeOK'
  <2>1. trusted' \subseteq Indexes
          /\ status' \in {"start", "names", "watching", "error", "panic"}
    BY <1>1
  <2> QED BY <1>1, <1>2, <2>1, Zenon DEF TypeOK
<1>5. PhaseOK' /\ StreamOK'
  BY <1>1, <1>3 DEF PhaseOK, StreamOK
<1>6. NamesOK'
  <2>1. \A i \in Indexes : i \in trusted' => names'[i] = links'[i]
    BY <1>1
  <2> QED BY <1>3, <2>1 DEF NamesOK, Tells
<1>7. NamedOK'
  BY <1>3 DEF NamedOK
<1> QED BY <1>4, <1>5, <1>6, <1>7

(* Stopping changes the status alone.                                      *)
LEMMA StopStep ==
  ASSUME IInv, ReceiveOverrun \/ Failure
  PROVE  IInv'
<1> USE DEF IInv
<1>1. Stop("error") \/ Stop("panic")
  BY DEF ReceiveOverrun, Failure, SubscribeFails, ReceiveFails, PrintFails
<1>2. status' \in {"error", "panic"}
  BY <1>1 DEF Stop
<1>3. UNCHANGED <<links, events, queue, filter, listing, names, output, log,
                  handled, trusted>>
  BY <1>1 DEF Stop, KernelUnchanged
<1>4. overrun' = overrun /\ json' = json
  BY <1>1, Zenon DEF Stop
<1>5. TypeOK'
  <2>1. status' \in {"start", "names", "watching", "error", "panic"}
    BY <1>2
  <2> QED BY <1>3, <1>4, <2>1, Zenon DEF TypeOK
<1>6. PhaseOK'
  BY <1>2 DEF PhaseOK
<1>7. StreamOK' /\ NamedOK' /\ NamesOK'
  BY <1>3, <1>4, Zenon DEF StreamOK, NamedOK, NamesOK, Tells, IsLinkOf
<1> QED BY <1>5, <1>6, <1>7

(* Nothing happens.                                                        *)
LEMMA StutterStep ==
  ASSUME IInv, UNCHANGED vars
  PROVE  IInv'
<1> USE DEF IInv, vars
<1>1. TypeOK' /\ PhaseOK'
  BY Zenon DEF TypeOK, PhaseOK
<1>2. StreamOK' /\ NamedOK' /\ NamesOK'
  BY Zenon DEF StreamOK, NamedOK, NamesOK, Tells, IsLinkOf
<1> QED BY <1>1, <1>2

(* Every step preserves the inductive invariant.                           *)
LEMMA NextIInv == IInv /\ [Next]_vars => IInv'
<1> SUFFICES ASSUME IInv, [Next]_vars PROVE IInv'
  OBVIOUS
<1>1. CASE Kernel
  BY <1>1, KernelStep
<1>2. CASE ListInterfaces \/ ReadIndex
  BY <1>2, ReadStep
<1>3. CASE Subscribe
  BY <1>3, SubscribeStep
<1>4. CASE Handle
  BY <1>4, HandleStep
<1>5. CASE ReceiveOverrun \/ Failure
  BY <1>5, StopStep
<1>6. CASE Stopped \/ UNCHANGED vars
  BY <1>6, StutterStep DEF Stopped
<1> QED BY <1>1, <1>2, <1>3, <1>4, <1>5, <1>6 DEF Next, Progress

(* The inductive invariant holds in every reachable state.                 *)
THEOREM Invariance == Spec => []IInv
BY InitIInv, NextIInv, PTL DEF Spec

(* Every variable of the watch command keeps its type, and the handler     *)
(* never sees more events than were sent.                                  *)
THEOREM TypeCorrect == Spec => []TypeOK
<1>1. IInv => TypeOK
  BY DEF IInv
<1> QED BY Invariance, <1>1, PTL

(* The label of the next record is the name its interface had when the     *)
(* kernel sent the event, for any number of interfaces, any order of       *)
(* renames, deletions and events and any buffer size.                      *)
THEOREM LabelsStayCurrent == Spec => []LabelsCurrent
<1>1. IInv => LabelsCurrent
  <2> SUFFICES ASSUME IInv, Watching, queue # <<>>,
                      Head(queue).index \in trusted,
                      LabelOf(Head(queue)) # NoLabel
               PROVE  LabelOf(Head(queue)) = Head(queue).name
    BY DEF LabelsCurrent
  <2>1. Head(queue) = queue[1] /\ 1 \in DOMAIN queue
    BY Elements DEF IInv
  <2>2. CASE queue[1].kind = "link"
    BY <2>1, <2>2, Zenon DEF LabelOf
  <2>3. CASE queue[1].kind # "link"
    <3>1. Tells(queue[1].index, 1, queue[1].name)
      BY <2>1, <2>3 DEF IInv, NamesOK
    <3>2. names[queue[1].index] = queue[1].name
      BY <2>1, <3>1 DEF Tells
    <3>3. LabelOf(Head(queue)) = names[Head(queue).index]
      BY <2>1, <2>3, Zenon DEF LabelOf
    <3> QED BY <2>1, <3>2, <3>3
  <2> QED BY <2>2, <2>3
<1> QED BY Invariance, <1>1, PTL
-----------------------------------------------------------------------------
(* The command starts where the abstract stream starts.                    *)
LEMMA InitRefines == Init => Abstract!Init
BY DEF Init, Abstract!Init, Kind

(* A kernel event is one more event of the stream once the socket is       *)
(* bound, and not visible before.                                          *)
LEMMA KernelRefines ==
  ASSUME IInv, Kernel
  PROVE  [Abstract!Next]_(Abstract!vars)
<1>1. PICK event : Announces(event)
  BY KernelAnnounces DEF IInv
<1>2. event \in Event /\ UNCHANGED <<filter, handled, output, status>>
  BY <1>1 DEF Announces, CommandUnchanged
<1>3. CASE log' = log
  BY <1>2, <1>3 DEF Abstract!vars
<1>4. CASE Watching /\ log' = Append(log, event)
  <2>1. Abstract!Happen
    BY <1>2, <1>4 DEF Abstract!Happen, Watching
  <2> QED BY <2>1 DEF Abstract!Next
<1>5. TypeOK /\ Notify(event)
  BY <1>1 DEF Announces, IInv
<1> QED BY <1>3, <1>4, <1>5, NotifyCases

(* The handler consumes the next event of the stream.                      *)
LEMMA HandleRefines ==
  ASSUME IInv, Handle
  PROVE  Abstract!Next
<1> DEFINE event == Head(queue)
<1>1. /\ Watching /\ queue # <<>>
      /\ handled' = handled + 1
      /\ UNCHANGED <<filter, log, status>>
  BY DEF Handle, KernelUnchanged
<1>2. event = queue[1] /\ event \in Event /\ 1 \in DOMAIN queue /\ Len(queue) >= 1
  BY <1>1, Elements DEF IInv
<1>3. event = log[handled + 1] /\ handled < Len(log)
  BY <1>2, Elements DEF IInv, StreamOK
<1>4. LabelOf(event) \in Label
  <2>1. event.name \in Label /\ event.index \in Indexes
    BY <1>2, EventFields
  <2>2. names[event.index] \in Label
    BY <2>1 DEF IInv, TypeOK, Label
  <2> QED BY <2>1, <2>2, Zenon DEF LabelOf, Label
<1>5. output' = IF Emits(event)
                THEN Append(output, [event |-> event, label |-> LabelOf(event)])
                ELSE output
  BY Zenon DEF Handle
<1>6. Emits(event) <=> Abstract!Selects(filter, log[handled + 1])
  BY <1>3 DEF Emits, Abstract!Selects
<1> HIDE DEF event
<1>7. Abstract!Consume
  BY <1>1, <1>3, <1>4, <1>5, <1>6 DEF Abstract!Consume, Watching
<1> QED BY <1>7 DEF Abstract!Next

(* Reading the names is not visible, binding the socket starts the stream  *)
(* and every failure ends it.                                              *)
LEMMA OtherRefines ==
  ASSUME IInv, ListInterfaces \/ ReadIndex \/ Subscribe \/ ReceiveOverrun \/ Failure
  PROVE  [Abstract!Next]_(Abstract!vars)
<1>1. UNCHANGED <<filter, log, handled, output>>
  BY DEF ListInterfaces, ReadIndex, Subscribe, ReceiveOverrun, Failure,
         SubscribeFails, ReceiveFails, PrintFails, Stop, KernelUnchanged
<1>2. CASE ListInterfaces \/ ReadIndex
  BY <1>1, <1>2 DEF ListInterfaces, ReadIndex, Abstract!vars
<1>3. CASE Subscribe
  BY <1>1, <1>3 DEF Subscribe, Abstract!Subscribe, Abstract!Next
<1>4. CASE ReceiveOverrun \/ Failure
  <2>1. status \in {"names", "watching"} /\ status' \in {"error", "panic"}
    BY <1>4 DEF ReceiveOverrun, Failure, SubscribeFails, ReceiveFails, PrintFails,
                Stop, Watching
  <2>2. Abstract!Stop
    BY <1>1, <2>1 DEF Abstract!Stop
  <2> QED BY <2>2 DEF Abstract!Next
<1> QED BY <1>2, <1>3, <1>4

(* Every step of the command is a step of the abstract stream or a stutter.*)
LEMMA NextRefines ==
  ASSUME IInv, [Next]_vars
  PROVE  [Abstract!Next]_(Abstract!vars)
<1>1. CASE Kernel
  BY <1>1, KernelRefines
<1>2. CASE Handle
  BY <1>2, HandleRefines
<1>3. CASE ListInterfaces \/ ReadIndex \/ Subscribe \/ ReceiveOverrun \/ Failure
  BY <1>3, OtherRefines
<1>4. CASE Stopped \/ UNCHANGED vars
  BY <1>4 DEF Stopped, vars, Abstract!vars
<1> QED BY <1>1, <1>2, <1>3, <1>4 DEF Next, Progress

(* The command implements the gap-free stream: whatever the kernel does,   *)
(* however small the buffer, the records are the selected events in the    *)
(* order they were sent, and none follows an event that was dropped.       *)
THEOREM Refinement == Spec => ImplementsWatchSpec
BY Invariance, InitRefines, NextRefines, PTL
   DEF Spec, ImplementsWatchSpec, Abstract!Spec
=============================================================================
