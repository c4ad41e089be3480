------------------------------ MODULE WatchSpec ------------------------------
(***************************************************************************)
(* What `networkrs watch` promises about its stream: from the moment it    *)
(* subscribes, it shows every event of the selected kind, once and in the  *)
(* order the kernel sent them, until it stops with an error. It never      *)
(* shows an event that follows one it did not receive.                     *)
(***************************************************************************)
EXTENDS Naturals, Sequences

CONSTANTS Events,  \* the events the kernel may send
          Labels   \* what a record may show for its interface

VARIABLES filter,   \* the selected kind, or "none"
          log,      \* the events the kernel sent since the subscription
          handled,  \* how many of them the command has consumed
          output,   \* what it printed
          status    \* "start", "watching", "error" or "panic"

vars == <<filter, log, handled, output, status>>

Selects(f, event) == f = "none" \/ f = event.kind
-----------------------------------------------------------------------------
Init == /\ filter \in {"none", "link", "address", "route", "neighbor"}
        /\ log = <<>>
        /\ handled = 0
        /\ output = <<>>
        /\ status = "start"

Subscribe == /\ status = "start"
             /\ status' = "watching"
             /\ UNCHANGED <<filter, log, handled, output>>

(* The kernel announces one more event.                                    *)
Happen == /\ status = "watching"
          /\ \E event \in Events : log' = Append(log, event)
          /\ UNCHANGED <<filter, handled, output, status>>

Consume ==
  /\ status = "watching"
  /\ handled < Len(log)
  /\ handled' = handled + 1
  /\ IF Selects(filter, log[handled + 1])
     THEN \E label \in Labels :
            output' = Append(output, [event |-> log[handled + 1],
                                      label |-> label])
     ELSE UNCHANGED output
  /\ UNCHANGED <<filter, log, status>>

Stop == /\ status \in {"start", "watching"}
        /\ status' \in {"error", "panic"}
        /\ UNCHANGED <<filter, log, handled, output>>

Next == Subscribe \/ Happen \/ Consume \/ Stop

Spec == Init /\ [][Next]_vars
=============================================================================
