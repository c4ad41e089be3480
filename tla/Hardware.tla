------------------------------ MODULE Hardware ------------------------------
(***************************************************************************)
(* wifi::interfaces and ethtool::devices: two programs of requests over    *)
(* one generic-netlink socket. Each has steps it requires, whose failure   *)
(* is the failure of the call, and queries per interface that are best     *)
(* effort, whose failure leaves fields of that interface empty.            *)
(***************************************************************************)
EXTENDS GenericNetlink, SequencesExt

CONSTANTS Loopback   \* the interfaces with the loopback flag

ASSUME HardwareAssumption ==
  /\ {"connect", "wiphy", "interface", "scan", "station", "power",
      "linkinfo", "linkmodes", "features", "eee", "stats"} \subseteq Commands
  /\ Loopback \subseteq Indexes
  /\ IsFiniteSet(Indexes)

VARIABLES
  tool,      \* "wifi" or "ethtool"
  agenda,    \* the requests still to be made
  wiphys,    \* wifi: whether the name of the radio is known
  devices,   \* the interfaces enumerated so far
  found,     \* the fields that have a value, and the message it is from
  outcome,   \* "running", "ok" or "error"
  answered,  \* history: queries the kernel answered with a useful message
  culprit    \* history: the request whose failure ended the call

program == <<tool, agenda, wiphys, devices, found, outcome, culprit>>
vars == <<transport, program, answered>>

WifiQueries == <<"scan", "station", "power">>
EthtoolQueries == <<"linkinfo", "linkmodes", "features", "eee", "stats">>
QueriesOf(t) == IF t = "wifi" THEN WifiQueries ELSE EthtoolQueries

Ask(c, i) == [command |-> c, index |-> i]
NoRequest == Ask("connect", 0)
IsDump(r) == r.command \in {"wiphy", "interface", "scan", "station"}

(* One request per query for each interface of the list, in its order.     *)
Queries(t, list) ==
  LET each == Len(QueriesOf(t))
  IN  [k \in 1 .. each * Len(list) |->
         Ask(QueriesOf(t)[((k - 1) % each) + 1], list[((k - 1) \div each) + 1])]

(* The steps whose failure the code returns with `?`.                      *)
Required(r) == r.command \in {"connect", "wiphy", "interface"}

Useful(n) == [id |-> n, useful |-> TRUE]
Useless(n) == [id |-> n, useful |-> FALSE]

Interfaces(s) == SetToSeq({Useful(i) : i \in s})

(* What the kernel may list: a radio; the wireless interfaces, among which *)
(* a P2P device has no index (parse_interface drops it); and scan results, *)
(* of which the associated one need not come first (parse_connected_bss).  *)
Lists(r) ==
  CASE r.command = "interface" ->
         UNION {{Interfaces(s), Append(Interfaces(s), Useless(0))} :
                  s \in SUBSET (Indexes \ Loopback)}
    [] r.command \in {"scan", "station"} ->
         {<<>>, <<Useless(1)>>, <<Useful(1)>>, <<Useless(1), Useful(2)>>}
    [] r.command \in {"connect", "wiphy", "power"} ->
         {<<Useful(1)>>, <<Useless(1)>>}
    [] OTHER -> {<<Useful(1)>>}

Init ==
  /\ TransportInit
  /\ tool \in {"wifi", "ethtool"}
  /\ agenda = IF tool = "wifi"
              THEN <<Ask("connect", 0), Ask("wiphy", 0), Ask("interface", 0)>>
              ELSE <<>>
  /\ wiphys = FALSE
  /\ devices = {}
  /\ found = {}
  /\ outcome = "running"
  /\ answered = {}
  /\ culprit = NoRequest
-----------------------------------------------------------------------------
Running == outcome = "running"

(* netlink::links of devices(), and the loop over what it returned.        *)
ListLinks ==
  /\ Running /\ tool = "ethtool"
  /\ agenda = <<>> /\ sequence = 0
  /\ \/ \E s \in SUBSET Indexes :
          /\ devices' = s \ Loopback
          /\ agenda' = <<Ask("connect", 0)>>
                         \o Queries("ethtool", SetToSeq(devices'))
          /\ UNCHANGED outcome
     \/ /\ outcome' = "error"
        /\ UNCHANGED <<devices, agenda>>
  /\ UNCHANGED <<transport, tool, wiphys, found, answered, culprit>>

(* The messages the kernel has sent this step count as answers if some     *)
(* reader could use them.                                                  *)
NoteAnswers ==
  LET sent == UNION {Range(queue'[i]) : i \in DOMAIN queue'}
  IN  answered' = answered \union
        {m.request : m \in {s \in sent : s.kind = "answer" /\ s.item.useful}}

NextRequest ==
  /\ Running /\ call.state = "idle" /\ agenda # <<>>
  /\ LET r == Head(agenda) IN Send(r, IsDump(r), Lists(r))
  /\ NoteAnswers
  /\ UNCHANGED program

RequestFails ==
  /\ Running /\ call.state = "idle" /\ agenda # <<>>
  /\ SendFails(Head(agenda), IsDump(Head(agenda)))
  /\ UNCHANGED <<program, answered>>

TakeDatagram == Receive /\ NoteAnswers /\ UNCHANGED program

LoseDatagram == ReceiveFails /\ UNCHANGED <<program, answered>>

(* Only the first message is looked at.                                    *)
FirstOnly(messages) ==
  {i \in DOMAIN messages : i = 1 /\ messages[i].item.useful}

(* messages.iter().find_map(...): the messages that have what is asked.    *)
Usable(messages) == {i \in DOMAIN messages : messages[i].item.useful}

FirstOf(s) == CHOOSE i \in s : \A j \in s : i <= j

(* An interface is made of every message.                                  *)
EveryMessage(messages) == messages

(* filter_map(parse_interface)                                             *)
Parsed(messages) == Pick(messages, Usable(messages))

(* The fields of one query, filled from the first usable message.          *)
Fill(r, messages) ==
  found' = IF Usable(messages) = {} THEN found
           ELSE found \union
             {[field |-> r, from |-> messages[FirstOf(Usable(messages))].request]}

Fail == /\ outcome' = "error"
        /\ culprit' = call.request
        /\ agenda' = <<>>
        /\ UNCHANGED <<wiphys, devices, found>>

(* A reply that succeeded. The interfaces are sorted before they are       *)
(* returned; here they are a set.                                          *)
Apply(r, messages) ==
  LET usable == Usable(messages)
  IN  CASE r.command = "connect" ->
             IF usable = {} THEN Fail
             ELSE /\ agenda' = Tail(agenda)
                  /\ UNCHANGED <<wiphys, devices, found, outcome, culprit>>
        [] r.command = "wiphy" ->
             /\ wiphys' = (usable # {})
             /\ agenda' = Tail(agenda)
             /\ UNCHANGED <<devices, found, outcome, culprit>>
        [] r.command = "interface" ->
             LET parsed == Parsed(messages)
                 list == [i \in DOMAIN parsed |-> parsed[i].item.id]
             IN  /\ devices' = Range(list)
                 /\ agenda' = Queries("wifi", list)
                 /\ found' = IF wiphys
                             THEN {[field |-> Ask("wiphy", i),
                                    from |-> Ask("wiphy", 0)] : i \in Range(list)}
                             ELSE {}
                 /\ UNCHANGED <<wiphys, outcome, culprit>>
        [] OTHER ->
             /\ Fill(r, messages)
             /\ agenda' = Tail(agenda)
             /\ UNCHANGED <<wiphys, devices, outcome, culprit>>

(* The queries after a failed one are not made.                            *)
SkipRest == /\ agenda' = <<>>
            /\ UNCHANGED <<wiphys, devices, found, outcome, culprit>>

(* A failed query leaves its fields empty; a failed required step is       *)
(* returned.                                                               *)
Skip == /\ agenda' = Tail(agenda)
        /\ UNCHANGED <<wiphys, devices, found, outcome, culprit>>

TakeReply ==
  /\ call.state \in {"ok", "error"}
  /\ call' = Idle(call.request)
  /\ IF call.state = "ok" THEN Apply(call.request, call.messages)
     ELSE IF Required(call.request) THEN Fail ELSE Skip
  /\ UNCHANGED <<sequence, queue, dump, faults, listing, tool, answered>>

Return ==
  /\ Running /\ call.state = "idle" /\ agenda = <<>> /\ sequence > 0
  /\ outcome' = "ok"
  /\ UNCHANGED <<transport, tool, agenda, wiphys, devices, found, answered, culprit>>

Stopped == ~Running /\ UNCHANGED vars

Next == ListLinks \/ NextRequest \/ RequestFails \/ TakeDatagram
          \/ LoseDatagram \/ TakeReply \/ Return \/ Stopped

Spec == Init /\ [][Next]_vars
-----------------------------------------------------------------------------
(* Every variable keeps its type.                                          *)
TypeOK ==
  /\ sequence \in Nat /\ faults \in 0 .. MaxFaults
  /\ call.state \in {"idle", "waiting", "ok", "error"}
  /\ call.request \in Request /\ call.messages \in Seq(Message)
  /\ queue \in Seq(Seq(Message))
  /\ dump.request \in Request /\ dump.items \in Seq(Item)
  /\ agenda \in Seq(Request)
  /\ devices \subseteq Indexes
  /\ found \subseteq [field : Request, from : Request]
  /\ outcome \in {"running", "ok", "error"}

(* A client blocked in recv, which has no timeout, always has a datagram   *)
(* to receive, whatever earlier requests left in the socket.               *)
NeverStuck == call.state = "waiting" => queue # <<>>

(* Every field was filled from the answer to its own query for its own     *)
(* interface, also after a request that failed and left its answer behind. *)
(* The radio's name comes from the one dump of radios.                     *)
AnswersBelong ==
  \A f \in found : \/ f.from = f.field
                   \/ f.field.command = "wiphy" /\ f.from = Ask("wiphy", 0)

(* A dump that succeeds returns what the kernel listed for this very       *)
(* request, in its order: all of it, or its beginning if the kernel itself *)
(* broke the dump off.                                                     *)
DumpsComplete ==
  call.state = "ok" /\ call.dump =>
    LET items == [i \in DOMAIN call.messages |-> call.messages[i].item]
    IN  /\ listing.sequence = sequence
        /\ IsPrefix(items, listing.items)
        /\ ~listing.failed => items = listing.items

(* While the socket works, a query the kernel rejects costs only its own   *)
(* fields: the call fails only through a required step, and otherwise each *)
(* field is present exactly if its query was answered usefully.            *)
RejectionsStayLocal ==
  faults = 0 =>
    /\ outcome = "ok" =>
         {f.field : f \in {g \in found : g.field.command # "wiphy"}}
           = {r \in answered : ~Required(r)}
    /\ outcome = "error" /\ sequence > 0 => Required(culprit)

(* The required steps are done once none is left in the agenda.            *)
RequiredDone == sequence > 0 /\ (agenda # <<>> => ~Required(Head(agenda)))
Stage == IF ~Running THEN outcome ELSE IF RequiredDone THEN "queries" ELSE "required"
Enumerated == Stage \in {"queries", "ok"}
Returned == IF Enumerated THEN devices ELSE {}
Pending == IF Enumerated THEN Range(agenda) ELSE {}
Heard == {r \in answered : ~Required(r)}
Filled == {f.field : f \in {g \in found : ~Required(g.field)}}
Reliable == faults = 0

Promise == INSTANCE EnumerationSpec
  WITH stage <- Stage, devices <- Returned, pending <- Pending,
       heard <- Heard, filled <- Filled, reliable <- Reliable

(* The two programs of requests, over one socket with what failed requests *)
(* left behind in it, do what they would without one: every query of every *)
(* interface is made once, its fields come from its own answer, and only a *)
(* required step fails the call.                                           *)
ImplementsEnumerationSpec == Promise!Spec

(* When the enumeration succeeds, it has every interface the kernel lists. *)
AllInterfacesReturned ==
  call.state = "ok" /\ call.request.command = "interface" =>
    \A i \in DOMAIN listing.items : \E j \in DOMAIN call.messages :
      call.messages[j].item = listing.items[i]

(* Only connecting and enumerating the interfaces can fail the call: the   *)
(* names of the radios are best effort.                                    *)
WiphyNamesBestEffort == outcome = "error" => culprit.command # "wiphy"
=============================================================================
