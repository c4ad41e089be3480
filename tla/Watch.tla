-------------------------------- MODULE Watch --------------------------------
(***************************************************************************)
(* The `watch` command: watch and watch_json of main.rs over watch_events  *)
(* of netlink.rs. The command reads the interface names from sysfs, one    *)
(* entry at a time, then opens the multicast socket, then handles the      *)
(* events in order, keeping the names up to date from the link events.     *)
(*                                                                         *)
(* The kernel runs concurrently: interfaces are created, renamed and       *)
(* deleted at any time, each change and every address, route or neighbor   *)
(* event is sent to the socket once it is bound, and an event that finds   *)
(* the socket full is dropped and makes the next recv fail with ENOBUFS.   *)
(***************************************************************************)
EXTENDS Naturals, Sequences, FiniteSets

CONSTANTS Indexes,       \* interface indexes
          Names,         \* interface names
          SocketBuffer,  \* events that fit the receive buffer
          MaxEvents      \* kernel events in a behaviour

Unnamed == "ifindex"  \* what interface_label prints for an unknown index
NoLabel == "absent"   \* a record that shows no interface name

ASSUME WatchAssumption ==
  /\ Indexes \subseteq Nat
  /\ Names \cap {Unnamed, NoLabel} = {}
  /\ SocketBuffer \in Nat \ {0}
  /\ MaxEvents \in Nat

VARIABLES
  links,     \* the kernel's interfaces: their names, Unnamed if absent
  events,    \* how many kernel events there were
  queue,     \* events in the socket's receive buffer
  overrun,   \* an event was dropped
  json,      \* watch_json or watch
  filter,    \* the --filter value, or "none"
  listing,   \* directory entries whose ifindex is still to be read
  names,     \* interface_names
  status,    \* where the command is, or how it ended
  output,    \* the printed records
  log,       \* history: the events sent since the socket was bound
  handled,   \* history: how many events the handler has seen
  trusted    \* history: indexes whose name was right when the socket was
             \* bound, or which had a link event since, the last of them
             \* not a port leaving a bridge

vars == <<links, events, queue, overrun, json, filter, listing, names,
          status, output, log, handled, trusted>>

Kind == {"link", "address", "route", "neighbor"}
Label == Names \union {Unnamed, NoLabel}
Event == [kind : Kind, removed : BOOLEAN, bridge : BOOLEAN, index : Indexes,
          name : Label]
Live == {i \in Indexes : links[i] # Unnamed}
Watching == status = "watching"
-----------------------------------------------------------------------------
(* The kernel.                                                             *)

(* A notification reaches the socket if it is bound and not congested. The *)
(* name is what a link message carries; in other events it is history: the *)
(* name of the interface when the event was sent. What happens after the   *)
(* command has stopped is left out.                                        *)
Notify(event) ==
  /\ status \notin {"error", "panic"}
  /\ events < MaxEvents
  /\ events' = events + 1
  /\ log' = IF Watching THEN Append(log, event) ELSE log
  /\ LET fits == ~overrun /\ Len(queue) < SocketBuffer
     IN  /\ queue' = IF Watching /\ fits THEN Append(queue, event) ELSE queue
         /\ overrun' = (overrun \/ (Watching /\ ~fits))

CommandUnchanged ==
  UNCHANGED <<json, filter, listing, names, status, output, handled, trusted>>

(* RTM_NEWLINK: an interface appears or changes its name.                  *)
LinkChanges ==
  \E i \in Indexes, n \in Names :
    /\ \A j \in Indexes : links[j] # n
    /\ links' = [links EXCEPT ![i] = n]
    /\ Notify([kind |-> "link", removed |-> FALSE, bridge |-> FALSE,
               index |-> i, name |-> n])
    /\ CommandUnchanged

LinkRemoved ==
  \E i \in Live :
    /\ links' = [links EXCEPT ![i] = Unnamed]
    /\ Notify([kind |-> "link", removed |-> TRUE, bridge |-> FALSE,
               index |-> i, name |-> links[i]])
    /\ CommandUnchanged

(* An interface leaves a bridge: the same message in the bridge family.    *)
BridgePortRemoved ==
  \E i \in Live :
    /\ Notify([kind |-> "link", removed |-> TRUE, bridge |-> TRUE,
               index |-> i, name |-> links[i]])
    /\ UNCHANGED links
    /\ CommandUnchanged

(* An address, route or neighbor of an interface comes or goes; which of   *)
(* the two only chooses a word of the record.                              *)
OtherEvent ==
  \E i \in Live, k \in Kind \ {"link"} :
    /\ Notify([kind |-> k, removed |-> FALSE, bridge |-> FALSE, index |-> i,
               name |-> links[i]])
    /\ UNCHANGED links
    /\ CommandUnchanged
-----------------------------------------------------------------------------
(* The command.                                                            *)

KernelUnchanged == UNCHANGED <<links, events, log>>

Init ==
  /\ links \in [Indexes -> Names \union {Unnamed}]
  /\ \A i, j \in Live : links[i] = links[j] => i = j
  /\ events = 0
  /\ queue = <<>>
  /\ overrun = FALSE
  /\ json \in BOOLEAN
  /\ filter \in Kind \union {"none"}
  /\ listing = {}
  /\ names = [i \in Indexes |-> Unnamed]
  /\ status = "start"
  /\ output = <<>>
  /\ log = <<>>
  /\ handled = 0
  /\ trusted = {}

(* interface_names: read_dir, or an empty map if it fails.                 *)
ListInterfaces ==
  /\ status = "start"
  /\ status' = "names"
  /\ listing' \in {{links[i] : i \in Live}, {}}
  /\ KernelUnchanged
  /\ UNCHANGED <<queue, overrun, json, filter, names, output, handled, trusted>>

(* ... then the ifindex of one entry, which may have gone meanwhile.       *)
ReadIndex ==
  /\ status = "names"
  /\ \E n \in listing :
       /\ listing' = listing \ {n}
       /\ names' = [i \in Indexes |-> IF links[i] = n THEN n ELSE names[i]]
  /\ KernelUnchanged
  /\ UNCHANGED <<queue, overrun, json, filter, status, output, handled, trusted>>

(* watch_events: open_route_socket binds the socket to its groups.         *)
Subscribe ==
  /\ status = "names"
  /\ listing = {}
  /\ status' = "watching"
  /\ trusted' = {i \in Indexes : names[i] = links[i]}
  /\ KernelUnchanged
  /\ UNCHANGED <<queue, overrun, json, filter, listing, names, output, handled>>

Stop(reason) ==
  /\ status' = reason
  /\ KernelUnchanged
  /\ UNCHANGED <<queue, overrun, json, filter, listing, names, output, handled,
                 trusted>>

SubscribeFails == status = "names" /\ listing = {} /\ Stop("error")

Emits(event) == filter = "none" \/ filter = event.kind

(* A handler that returns early for an event the filter hides.             *)
NamesIfShown(event) ==
  IF event.kind = "link" /\ Emits(event)
  THEN [names EXCEPT ![event.index] =
          IF event.removed THEN Unnamed ELSE event.name]
  ELSE names

(* interface_names.remove and insert.                                      *)
NamesAfter(event) ==
  IF event.kind = "link"
  THEN [names EXCEPT ![event.index] =
          IF event.removed THEN Unnamed ELSE event.name]
  ELSE names

(* A link event names its interface; watch_json shows routes without one.  *)
LabelOf(event) == IF event.kind = "link" THEN event.name
                  ELSE IF json /\ event.kind = "route" THEN NoLabel
                  ELSE names[event.index]

(* History: a link event brings the name up to date, but the handler takes *)
(* an interface that leaves a bridge for a deleted one.                    *)
TrustedAfter(event) ==
  IF event.kind # "link" THEN trusted
  ELSE IF event.bridge THEN trusted \ {event.index}
  ELSE trusted \union {event.index}

(* recv, parse_events and the handler, with a datagram handled twice.      *)
HandleAgain ==
  /\ Watching
  /\ ~overrun
  /\ queue # <<>>
  /\ LET event == Head(queue)
     IN  /\ names' = NamesAfter(event)
         /\ output' = IF Emits(event)
                      THEN Append(output, [event |-> event,
                                           label |-> LabelOf(event)])
                      ELSE output
         /\ trusted' = TrustedAfter(event)
  /\ queue' \in {queue, Tail(queue)}
  /\ handled' = handled + 1
  /\ KernelUnchanged
  /\ UNCHANGED <<overrun, json, filter, listing, status>>

(* recv, parse_events and the handler.                                     *)
Handle ==
  /\ Watching
  /\ ~overrun
  /\ queue # <<>>
  /\ LET event == Head(queue)
     IN  /\ names' = NamesAfter(event)
         /\ output' = IF Emits(event)
                      THEN Append(output, [event |-> event,
                                           label |-> LabelOf(event)])
                      ELSE output
         /\ trusted' = TrustedAfter(event)
  /\ queue' = Tail(queue)
  /\ handled' = handled + 1
  /\ KernelUnchanged
  /\ UNCHANGED <<overrun, json, filter, listing, status>>

(* A recv loop that goes on after ENOBUFS.                                 *)
IgnoresOverrun ==
  /\ Watching
  /\ overrun
  /\ overrun' = FALSE
  /\ KernelUnchanged
  /\ UNCHANGED <<queue, json, filter, listing, names, status, output, handled,
                 trusted>>

(* recv fails with ENOBUFS, before any queued event is read.               *)
ReceiveOverrun == Watching /\ overrun /\ Stop("error")

(* Any other failure of recv, and its end of file. EINTR is retried.       *)
ReceiveFails == Watching /\ ~overrun /\ Stop("error")

(* println! panics when standard output is gone.                           *)
PrintFails == /\ Watching
              /\ ~overrun
              /\ queue # <<>>
              /\ Emits(Head(queue))
              /\ Stop("panic")
-----------------------------------------------------------------------------
Kernel == LinkChanges \/ LinkRemoved \/ BridgePortRemoved \/ OtherEvent

Progress == ListInterfaces \/ ReadIndex \/ Subscribe \/ Handle \/ ReceiveOverrun

Failure == SubscribeFails \/ ReceiveFails \/ PrintFails

Stopped == status \in {"error", "panic"} /\ UNCHANGED vars

Next == Kernel \/ Progress \/ Failure \/ Stopped

Spec == Init /\ [][Next]_vars

(* The command keeps being scheduled. Nothing is assumed of the kernel.    *)
FairSpec == Spec /\ WF_vars(Progress)
-----------------------------------------------------------------------------
(* Every variable keeps its type, and no more events are handled than were *)
(* sent.                                                                   *)
TypeOK ==
  /\ links \in [Indexes -> Names \union {Unnamed}]
  /\ events \in Nat
  /\ queue \in Seq(Event)
  /\ overrun \in BOOLEAN
  /\ json \in BOOLEAN
  /\ filter \in Kind \union {"none"}
  /\ listing \subseteq Names
  /\ names \in [Indexes -> Names \union {Unnamed}]
  /\ status \in {"start", "names", "watching", "error", "panic"}
  /\ output \in Seq([event : Event, label : Label])
  /\ log \in Seq(Event)
  /\ handled \in 0..Len(log)
  /\ trusted \subseteq Indexes

(* The label the next record would show is the name its interface had when *)
(* the kernel sent the event, whatever was renamed, deleted or recreated   *)
(* since, and whatever link events the filter hid: unless the name was     *)
(* already wrong when the socket was bound, or forgotten for a port that   *)
(* left a bridge, and no link event corrected it.                          *)
LabelsCurrent ==
  Watching /\ queue # <<>> =>
    LET event == Head(queue)
    IN  event.index \in trusted /\ LabelOf(event) # NoLabel
          => LabelOf(event) = event.name

(* Names are current in every emitted record: none shows a name that its   *)
(* interface did not have when the kernel sent the event.                  *)
NamesRemainCurrent ==
  \A k \in DOMAIN output :
    output[k].label \in {output[k].event.name, NoLabel, Unnamed}

Abstract == INSTANCE WatchSpec
              WITH Events <- Event, Labels <- Label,
                   status <- IF status = "names" THEN "start" ELSE status

(* The stream is gap-free: the printed records are the selected events, in *)
(* order, of those sent since the socket was bound, and a dropped event    *)
(* ends the command before anything sent after it is shown.                *)
ImplementsWatchSpec == Abstract!Spec

(* Once the kernel is quiet, the command has handled every event, or it    *)
(* has stopped: in particular after an overrun.                            *)
CatchesUp == <>[](~Watching \/ handled = Len(log))
=============================================================================
