----------------------------- MODULE NetlinkDump -----------------------------
(***************************************************************************)
(* The dump operations of netlink.rs and sock_diag.rs: links, ip_routes    *)
(* (ip_rules, ip_addresses and ip_neighbors have the same control) and     *)
(* ip_diagnostics. Each is a sequence of dumps, one per address family or  *)
(* per family and protocol, and each dump has a socket of its own.         *)
(*                                                                         *)
(* The kernel runs concurrently with the client. It lists a class of its   *)
(* table in passes of a few records, resumes each pass by position, may    *)
(* change the table between passes, and marks the first message after a    *)
(* change it noticed with NLM_F_DUMP_INTR.                                 *)
(***************************************************************************)
EXTENDS Integers, Sequences, FiniteSets, Functions, Selection

CONSTANTS Records,     \* the records the tables may hold: [id, class]
          Operations,  \* the operations to run
          PassSize,    \* records the kernel puts in one datagram
          MaxQueued,   \* datagrams the kernel prepares ahead of the client
          MaxChanges   \* table changes during one operation

RouteClasses == {"ipv4", "ipv6"}
SocketClasses == {"tcp4", "udp4", "tcp6", "udp6"}
Class == {"link"} \union RouteClasses \union SocketClasses

ASSUME DumpAssumption ==
  /\ Records \subseteq [id : Nat, class : Class]
  /\ \A r, s \in Records : r.id = s.id => r = s
  /\ IsFiniteSet(Records)
  /\ Operations \subseteq {"links", "routes", "sockets"}
  /\ PassSize \in Nat \ {0} /\ MaxQueued \in Nat \ {0} /\ MaxChanges \in Nat

VARIABLES
  operation,  \* the function the application called
  families,   \* IPv6 in this kernel: "both", "unavailable", or "fallback",
              \* where rtnetlink answers an IPv6 dump with all families
  table,      \* the kernel's records
  kernel,     \* the dump in progress
  queue,      \* datagrams waiting in the socket
  client,     \* "request", "receive" or "returned"
  step,       \* <<b, d>>: dump d of block b of the plan
  values,     \* records parsed in this dump
  block,      \* records of the finished dumps of this block
  finished,   \* records of the finished blocks
  result,     \* what the function returned
  snapshots,  \* history: every content of the table since the call
  changes,    \* history: table changes since the call
  disturbed,  \* history: some of them came while the kernel was listing
  faults      \* history: failures the socket reported to the client

vars == <<operation, families, table, kernel, queue, client, step, values,
          block, finished, result, snapshots, changes, disturbed, faults>>

(* EAFNOSUPPORT or EPROTONOSUPPORT, any other errno, and none.             *)
Errno == {"none", "unavailable", "other"}

Message == [kind : {"record"}, record : Records, interrupted : BOOLEAN]
             \union [kind : {"done"}, errno : Errno, interrupted : BOOLEAN]
             \union [kind : {"error"}, errno : Errno \ {"none"}]

Pending == [state |-> "pending", values |-> <<>>]
Returned(list) == [state |-> "ok", values |-> list]
Failed == [state |-> "error", values |-> <<>>]

(* The dumps of an operation, in blocks. An IPv6 block may be unavailable. *)
Plan(op) == CASE op = "links"   -> <<<<"link">>>>
              [] op = "routes"  -> <<<<"ipv4">>, <<"ipv6">>>>
              [] op = "sockets" -> <<<<"tcp4", "udp4">>, <<"tcp6", "udp6">>>>

Dumping == Plan(operation)[step[1]][step[2]]
ClassesOf(op) == UNION {Range(b) : b \in Range(Plan(op))}
IPv6Classes == {"ipv6", "tcp6", "udp6"}

(* Vec::sort_by_key, which is stable.                                      *)
Place(list, i) ==
  Cardinality({j \in DOMAIN list : \/ list[j].id < list[i].id
                                   \/ list[j].id = list[i].id /\ j <= i})
Sorted(list) == [k \in DOMAIN list |->
                   list[CHOOSE i \in DOMAIN list : Place(list, i) = k]]
-----------------------------------------------------------------------------
(* The kernel.                                                             *)

(* The records a dump of class c covers, and the order of their listing.   *)
Covered(tab, c) ==
  {r \in tab : r.class \in IF c = "ipv6" /\ families = "fallback"
                          THEN RouteClasses ELSE {c}}

Numbered(set) ==
  [k \in 1 .. Cardinality(set) |->
     CHOOSE r \in set : Cardinality({q \in set : q.id <= r.id}) = k]

Listing(c) == Numbered(Covered(table, c))

IdleKernel == [state |-> "idle", position |-> 0, changed |-> FALSE]

Change ==
  /\ client # "returned"
  /\ changes < MaxChanges
  /\ \E r \in Records :
       /\ r.class \in ClassesOf(operation)
       /\ families = "both" \/ r.class \notin IPv6Classes
       /\ table' = IF r \in table THEN table \ {r} ELSE table \union {r}
  /\ snapshots' = snapshots \union {table'}
  /\ changes' = changes + 1
  /\ LET listing == kernel.state = "dumping" /\ kernel.position > 0
     IN  /\ kernel' = [kernel EXCEPT !.changed = @ \/ listing]
         /\ disturbed' = (disturbed \/ listing)
  /\ UNCHANGED <<operation, families, queue, client, step, values, block,
                 finished, result, faults>>

Listed(record, interrupted) ==
  [kind |-> "record", record |-> record, interrupted |-> interrupted]

Done(errno, interrupted) ==
  [kind |-> "done", errno |-> errno, interrupted |-> interrupted]

(* One pass: the next records, the first carrying the interruption mark.   *)
(* A pass that reaches the end may end with NLMSG_DONE, and an empty pass  *)
(* is NLMSG_DONE alone.                                                    *)
KernelPass ==
  /\ kernel.state = "dumping"
  /\ Len(queue) < MaxQueued
  /\ LET list == Listing(Dumping)
         last == IF kernel.position + PassSize < Len(list)
                 THEN kernel.position + PassSize ELSE Len(list)
         chunk == SubSeq(list, kernel.position + 1, last)
         records == [i \in DOMAIN chunk |->
                       Listed(chunk[i], kernel.changed /\ i = 1)]
     IN  \/ /\ chunk # <<>>
            /\ queue' = Append(queue, records)
            /\ kernel' = [kernel EXCEPT !.position = last, !.changed = FALSE]
         \/ /\ last = Len(list)
            /\ queue' = Append(queue, Append(records,
                          Done("none", kernel.changed /\ chunk = <<>>)))
            /\ kernel' = IdleKernel
  /\ UNCHANGED <<operation, families, table, client, step, values, block,
                 finished, result, snapshots, changes, disturbed, faults>>

(* The dump fails inside the kernel: NLMSG_DONE carries the errno.         *)
KernelFails ==
  /\ kernel.state = "dumping"
  /\ Len(queue) < MaxQueued
  /\ queue' = Append(queue, <<Done("other", FALSE)>>)
  /\ kernel' = IdleKernel
  /\ faults' = faults \union {"other"}
  /\ UNCHANGED <<operation, families, table, client, step, values, block,
                 finished, result, snapshots, changes, disturbed>>
-----------------------------------------------------------------------------
(* The client.                                                             *)

Init ==
  /\ operation \in Operations
  /\ families \in {"both", "unavailable", "fallback"}
  /\ operation # "routes" => families # "fallback"
  /\ table \in SUBSET {r \in Records :
                         /\ r.class \in ClassesOf(operation)
                         /\ families = "both" \/ r.class \notin IPv6Classes}
  /\ kernel = IdleKernel
  /\ queue = <<>>
  /\ client = "request"
  /\ step = <<1, 1>>
  /\ values = <<>>
  /\ block = <<>>
  /\ finished = <<>>
  /\ result = Pending
  /\ snapshots = {table}
  /\ changes = 0
  /\ disturbed = FALSE
  /\ faults = {}

(* An all-family answer kept whole.                                        *)
KeepsEverything(list) == list

(* retain(ip_address_matches_family): links and sockets have no such call. *)
Retained(list) == IF operation = "routes"
                  THEN Pick(list, {i \in DOMAIN list : list[i].class = Dumping})
                  ELSE list

Return(r) == result' = r /\ client' = "returned" /\ UNCHANGED step

Continue(next) == step' = next /\ client' = "request" /\ UNCHANGED result

(* Dropping the socket ends the kernel's dump with it.                     *)
CloseSocket == /\ queue' = <<>>
               /\ kernel' = IdleKernel
               /\ values' = <<>>

(* The plan overrun by one block.                                          *)
PastLastBlock == step[1] > Len(Plan(operation))

LastBlock == step[1] = Len(Plan(operation))

(* The dump succeeds: the records join those of the earlier dumps, and     *)
(* each Vec is sorted when it is complete.                                 *)
DumpReturns(list) ==
  LET plan == Plan(operation)
      records == block \o Retained(list)
  IN  /\ CloseSocket
      /\ \/ /\ step[2] < Len(plan[step[1]])
            /\ Continue(<<step[1], step[2] + 1>>)
            /\ block' = records
            /\ UNCHANGED finished
         \/ /\ step[2] = Len(plan[step[1]])
            /\ block' = <<>>
            /\ finished' = finished \o Sorted(records)
            /\ IF LastBlock THEN Return(Returned(Sorted(finished')))
               ELSE Continue(<<step[1] + 1, 1>>)

(* Err(error) if ipv6_unavailable(&error)                                  *)
Tolerated(errno) == step[1] = 2 /\ errno = "unavailable"

DumpFails(errno) ==
  /\ CloseSocket
  /\ Return(IF Tolerated(errno) THEN Returned(Sorted(finished)) ELSE Failed)
  /\ UNCHANGED <<block, finished>>

(* Opening the socket and sending the request. The kernel refuses a dump   *)
(* of a family it lacks, and may refuse any.                               *)
Request ==
  /\ client = "request"
  /\ client' = "receive"
  /\ LET lacking == families = "unavailable" /\ Dumping \in IPv6Classes
         refusal == IF lacking THEN "unavailable" ELSE "other"
     IN  \/ /\ ~lacking
            /\ kernel' = [IdleKernel EXCEPT !.state = "dumping"]
            /\ UNCHANGED <<queue, faults>>
         \/ /\ queue' = <<<<[kind |-> "error", errno |-> refusal]>>>>
            /\ faults' = faults \union {refusal}
            /\ UNCHANGED kernel
  /\ UNCHANGED <<operation, families, table, step, values, block, finished,
                 result, snapshots, changes, disturbed>>

(* socket, bind or sendto fails.                                           *)
RequestFails ==
  /\ client = "request"
  /\ DumpFails("other")
  /\ faults' = faults \union {"other"}
  /\ UNCHANGED <<operation, families, table, snapshots, changes, disturbed>>

(* NLMSG_DONE ends the dump whatever it says.                              *)
DoneIsSuccess(m) == "none"

(* The errno of a final message. Only netlink.rs looks into NLMSG_DONE.    *)
Outcome(m) ==
  IF m.kind = "error" THEN m.errno
  ELSE IF operation = "sockets" THEN "none"
  ELSE IF m.interrupted THEN "other" ELSE m.errno

Ends(m) == m.kind # "record"

(* Only the first message of a datagram may end the dump.                  *)
EndOfFirst(datagram) == {i \in {1} : Ends(datagram[i])}

EndOf(datagram) == {i \in DOMAIN datagram : Ends(datagram[i])}

RecordsOf(datagram) ==
  LET records == Pick(datagram, {i \in DOMAIN datagram : ~Ends(datagram[i])})
  IN  [i \in DOMAIN records |-> records[i].record]

(* recv returns a datagram, whose messages are parsed in order up to the   *)
(* first that ends the dump. An interrupted recv is repeated.              *)
Receive ==
  /\ client = "receive"
  /\ queue # <<>>
  /\ LET datagram == Head(queue)
         list == values \o RecordsOf(datagram)
     IN  \/ /\ EndOf(datagram) = {}
            /\ values' = list
            /\ queue' = Tail(queue)
            /\ UNCHANGED <<kernel, client, step, block, finished, result>>
         \/ \E i \in EndOf(datagram) :
              LET errno == Outcome(datagram[i])
              IN  IF errno = "none" THEN DumpReturns(list) ELSE DumpFails(errno)
  /\ UNCHANGED <<operation, families, table, snapshots, changes, disturbed,
                 faults>>

(* recv fails or returns 0.                                                *)
ReceiveFails ==
  /\ client = "receive"
  /\ DumpFails("other")
  /\ faults' = faults \union {"other"}
  /\ UNCHANGED <<operation, families, table, snapshots, changes, disturbed>>
-----------------------------------------------------------------------------
Kernel == KernelPass \/ KernelFails
Client == Request \/ RequestFails \/ Receive \/ ReceiveFails
Stopped == client = "returned" /\ UNCHANGED vars

Next == Change \/ Kernel \/ Client \/ Stopped

Spec == Init /\ [][Next]_vars

(* The kernel goes on with a dump it began, and the client is scheduled.   *)
(* Failures need not happen.                                               *)
FairSpec == Spec /\ WF_vars(KernelPass) /\ WF_vars(Request \/ Receive)
-----------------------------------------------------------------------------
(* Every variable keeps its type, and the position in the plan is a dump   *)
(* of the plan.                                                            *)
TypeOK ==
  /\ operation \in Operations
  /\ families \in {"both", "unavailable", "fallback"}
  /\ table \subseteq Records
  /\ kernel \in [state : {"idle", "dumping"}, position : Nat, changed : BOOLEAN]
  /\ queue \in Seq(Seq(Message)) /\ Len(queue) <= MaxQueued
  /\ client \in {"request", "receive", "returned"}
  /\ step[1] \in DOMAIN Plan(operation)
  /\ step[2] \in DOMAIN Plan(operation)[step[1]]
  /\ values \in Seq(Records) /\ block \in Seq(Records)
  /\ finished \in Seq(Records)
  /\ result.state \in {"pending", "ok", "error"}
  /\ result.values \in Seq(Records)
  /\ faults \subseteq Errno \ {"none"}

Content(tab, c) == {r \in tab : r.class = c}

(* Unless the table changed under a listing or the socket failed, a        *)
(* successful call returns every class as it stood at one instant since    *)
(* the call, each record once and in order: no datagram is skipped, none   *)
(* is taken twice, and an all-family answer adds no duplicates.            *)
UndisturbedIsExact ==
  result.state = "ok" /\ ~disturbed /\ "other" \notin faults =>
    /\ \A c \in ClassesOf(operation) : \E t \in snapshots :
         Content(Range(result.values), c) = Content(t, c)
    /\ \A i, j \in DOMAIN result.values :
         i < j => result.values[i].id < result.values[j].id

(* A call that succeeds met no failure, of any of its dumps, other than a  *)
(* kernel without IPv6.                                                    *)
FaultsSurface ==
  operation # "sockets" /\ result.state = "ok" => "other" \notin faults

(* A successful call returned a point-in-time snapshot of the table.       *)
PointInTime ==
  result.state = "ok" =>
    \A c \in ClassesOf(operation) : \E t \in snapshots :
      Content(Range(result.values), c) = Content(t, c)

(* ip_diagnostics fails when a dump of the kernel failed.                  *)
DiagnosticFaultsSurface ==
  operation = "sockets" /\ result.state = "ok" => "other" \notin faults

(* The call returns: the receive loop always meets the end of the dump.    *)
Returns == <>(client = "returned")
=============================================================================
