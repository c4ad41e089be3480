--------------------------- MODULE GenericNetlink ---------------------------
(***************************************************************************)
(* The generic-netlink client of generic_netlink.rs and the kernel side of *)
(* its one socket. A request is numbered, sent, and answered by datagrams  *)
(* in the socket's queue: a single request by one datagram, a dump by      *)
(* passes that end with NLMSG_DONE.                                        *)
(*                                                                         *)
(* The kernel answers inside sendto and, for a dump, prepares the next     *)
(* pass whenever recv has taken a datagram. It runs one dump per socket    *)
(* and refuses another one (EBUSY) meanwhile. The client has no timeout,   *)
(* and a request that failed leaves its datagrams, and the kernel's dump,  *)
(* behind for the requests that follow on the same socket.                 *)
(***************************************************************************)
EXTENDS Naturals, Sequences, FiniteSets, Functions, Selection

CONSTANTS Commands,   \* the commands of the families in use
          Indexes,    \* interface indexes
          MaxFaults   \* socket calls that fail

ASSUME GenericNetlinkAssumption ==
  /\ Indexes \subseteq Nat \ {0}
  /\ MaxFaults \in Nat

VARIABLES
  sequence,  \* Client.sequence
  call,      \* the call of connect or request in progress, or finished
  queue,     \* datagrams in the socket
  dump,      \* the kernel's dump: the items it has not sent yet
  faults,    \* how many socket calls failed
  listing    \* history: all the items of the latest dump the kernel began

transport == <<sequence, call, queue, dump, faults, listing>>

Request == [command : Commands, index : Indexes \union {0}]

(* What an answer says: which entry it describes, and whether it has the   *)
(* attributes its reader looks for.                                        *)
Item == [id : Nat, useful : BOOLEAN]
NoItem == [id |-> 0, useful |-> FALSE]

(* An error is an NLMSG_ERROR with an errno. The request is history: the   *)
(* bytes hold only the sequence number.                                    *)
Message == [sequence : Nat, kind : {"answer", "error", "done"},
            request : Request, item : Item]

Idle(r) == [state |-> "idle", request |-> r, dump |-> FALSE, messages |-> <<>>]
NoDump == [running |-> FALSE, sequence |-> 0,
           request |-> [command |-> "connect", index |-> 0], items |-> <<>>]
NoListing == [sequence |-> 0, items |-> <<>>, failed |-> FALSE]

TransportInit ==
  /\ sequence = 0
  /\ call = Idle([command |-> "connect", index |-> 0])
  /\ queue = <<>>
  /\ dump = NoDump
  /\ faults = 0
  /\ listing = NoListing
-----------------------------------------------------------------------------
(* The kernel.                                                             *)

Reply(n, r, kind, item) ==
  [sequence |-> n, kind |-> kind, request |-> r, item |-> item]

(* One pass of the dump d after what is queued: some of the remaining      *)
(* items; or all of them and NLMSG_DONE; or NLMSG_DONE with an errno. Its  *)
(* listing so far is l.                                                    *)
Pass(d, l, queued) ==
  LET answers(k) == [i \in 1 .. k |->
                       Reply(d.sequence, d.request, "answer", d.items[i])]
      done == Reply(d.sequence, d.request, "done", NoItem)
      all == Len(d.items)
  IN  \/ \E k \in 1 .. all :
           /\ queue' = Append(queued, answers(k))
           /\ dump' = [d EXCEPT !.items = SubSeq(@, k + 1, all)]
           /\ listing' = l
      \/ /\ queue' = Append(queued, Append(answers(all), done))
         /\ dump' = NoDump
         /\ listing' = l
      \/ /\ queue' = Append(queued, <<done>>)
         /\ dump' = NoDump
         /\ listing' = [l EXCEPT !.failed = TRUE]

(* sendto hands request r to the kernel, which refuses it or answers from  *)
(* one of the lists of items it may have for it: the first item to a       *)
(* single request, all of them, in passes, to a dump.                      *)
Serve(n, r, isDump, lists) ==
  LET Answer(m) == /\ queue' = Append(queue, <<m>>)
                   /\ UNCHANGED <<dump, listing>>
  IN  \/ Answer(Reply(n, r, "error", NoItem))
      \/ /\ ~isDump
         /\ \E list \in lists :
              list # <<>> /\ Answer(Reply(n, r, "answer", list[1]))
      \/ /\ isDump /\ ~dump.running
         /\ \E list \in lists :
              Pass([running |-> TRUE, sequence |-> n, request |-> r,
                    items |-> list],
                   [sequence |-> n, items |-> list, failed |-> FALSE], queue)
-----------------------------------------------------------------------------
(* The client.                                                             *)

(* connect asks for the family under number 1, request under the next one. *)
Send(r, isDump, lists) ==
  /\ sequence' = sequence + 1
  /\ call' = [state |-> "waiting", request |-> r, dump |-> isDump,
              messages |-> <<>>]
  /\ Serve(sequence', r, isDump, lists)
  /\ UNCHANGED faults

(* socket, bind or sendto fails.                                           *)
SendFails(r, isDump) ==
  /\ faults < MaxFaults
  /\ faults' = faults + 1
  /\ sequence' = sequence + 1
  /\ call' = [state |-> "error", request |-> r, dump |-> isDump,
              messages |-> <<>>]
  /\ UNCHANGED <<queue, dump, listing>>

(* Every message of the datagram is taken for an answer.                   *)
AnySequence(datagram) == datagram

(* header.sequence == sequence                                             *)
Own(datagram) ==
  Pick(datagram, {i \in DOMAIN datagram : datagram[i].sequence = sequence})

Has(messages, kind) == \E i \in DOMAIN messages : messages[i].kind = kind

(* Any NLMSG_DONE ends the dump.                                           *)
AnyDone(datagram) == Has(datagram, "done")

(* response_has_done                                                       *)
HasDone(datagram) == Has(Own(datagram), "done")

(* recv makes room, and the kernel goes on with its dump, whoever asked.   *)
Advance(rest) ==
  IF dump.running THEN Pass(dump, listing, rest)
  ELSE queue' = rest /\ UNCHANGED <<dump, listing>>

(* A single request waits for a completion that nobody sends.              *)
UntilDone(datagram) == HasDone(datagram)

(* if done || !dump { return Ok(messages) }                                *)
Complete(datagram) == HasDone(datagram) \/ ~call.dump

(* recv returns a datagram; an interrupted recv is repeated. The messages  *)
(* of this request are parsed, of which an error fails it.                 *)
Receive ==
  /\ call.state = "waiting"
  /\ queue # <<>>
  /\ LET own == Own(Head(queue))
         answers == Pick(own, {i \in DOMAIN own : own[i].kind = "answer"})
     IN  call' = IF Has(own, "error") THEN [call EXCEPT !.state = "error"]
                 ELSE [call EXCEPT !.messages = @ \o answers,
                                   !.state = IF Complete(Head(queue))
                                             THEN "ok" ELSE "waiting"]
  /\ Advance(Tail(queue))
  /\ UNCHANGED <<sequence, faults>>

(* recv fails or returns 0. What was queued stays queued.                  *)
ReceiveFails ==
  /\ call.state = "waiting"
  /\ faults < MaxFaults
  /\ faults' = faults + 1
  /\ call' = [call EXCEPT !.state = "error"]
  /\ UNCHANGED <<sequence, queue, dump, listing>>
=============================================================================
