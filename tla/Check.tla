------------------------------- MODULE Check --------------------------------
(***************************************************************************)
(* The `check` command: check and check_json of main.rs, which make the    *)
(* same observations in the same order. The default route is chosen, then  *)
(* its interface, the neighbor table and resolv.conf are read one after    *)
(* the other; with --active the gateway is poked first, and afterwards it  *)
(* is measured with ping::echo and every nameserver is tried. Each         *)
(* observation becomes an item of the report; the number of warnings       *)
(* decides the verdict.                                                    *)
(*                                                                         *)
(* Meanwhile the link goes up and down and the gateway comes and goes in   *)
(* the neighbor table. The measurement is the module Ping.                 *)
(***************************************************************************)
EXTENDS Naturals, Sequences, FiniteSets

CONSTANTS Interfaces,   \* the interfaces of the machine
          RouteTables,  \* the IPv4 route tables it may have
          ServerLists,  \* the nameservers resolv.conf may hold
          MaxFlaps      \* changes of the link and the table in a behaviour

VARIABLES
  link,      \* the interface of the route: "up", "dormant" or "down"
  resolved,  \* the interfaces on which the gateway is a resolved neighbor
  flaps,     \* how often these changed
  linkSeen,  \* history: the states of the link while check ran
  gateSeen,  \* history: whether the gateway was resolved while check ran
  checkAt,   \* where the command is, or how it ended
  active,    \* --active
  route,     \* the default route
  state,     \* operstate == "up", as read
  items,     \* the report: <<name, status>>
  servers,   \* the nameservers left: numeric addresses ("ip") or not ("name")
  reached,   \* history: what was the matter with each nameserver tried
  round, at, air, queue, echoes, outcome, duplicates, prompt, strays, unread

world == <<link, resolved, flaps, linkSeen, gateSeen>>
ping == <<round, at, air, queue, echoes, outcome, duplicates, prompt, strays,
          unread>>
vars == <<world, checkAt, active, route, state, items, servers, reached, ping>>

P == INSTANCE Ping WITH Count <- 3, SequenceModulus <- 65536,
                        MaxDuplicates <- 0, elapsed <- echoes

LinkStates == {"up", "dormant", "down"}
NoRoute == [dev |-> 0, gateway |-> FALSE, metric |-> 0, usable |-> FALSE]
Reading == checkAt \in {"state", "carrier", "poke", "table"}
-----------------------------------------------------------------------------
(* The machine, as long as check looks at it.                              *)

Flap ==
  /\ Reading
  /\ flaps < MaxFlaps
  /\ flaps' = flaps + 1
  /\ \/ /\ link' \in LinkStates \ {link}
        /\ linkSeen' = linkSeen \union {link'}
        /\ UNCHANGED <<resolved, gateSeen>>
     \/ /\ resolved' \in SUBSET Interfaces \ {resolved}
        /\ gateSeen' = gateSeen \union {resolved' # {}}
        /\ UNCHANGED <<link, linkSeen>>
  /\ UNCHANGED <<checkAt, active, route, state, items, servers, reached, ping>>
-----------------------------------------------------------------------------
(* The command.                                                            *)

Idle ==
  /\ link = "down"
  /\ resolved = {}
  /\ flaps = 0
  /\ linkSeen = {}
  /\ gateSeen = {}
  /\ checkAt = "idle"
  /\ active = FALSE
  /\ route = NoRoute
  /\ state = FALSE
  /\ items = {}
  /\ servers = <<>>
  /\ reached = {}
  /\ P!Init

(* Up and not rejected.                                                    *)
Usable(table) == {k \in DOMAIN table : table[k].usable}

(* parse_default_ipv4_route: the first usable line of the least metric.    *)
Default(table) ==
  table[CHOOSE k \in Usable(table) :
          \A j \in Usable(table) :
            \/ table[k].metric < table[j].metric
            \/ table[k].metric = table[j].metric /\ k <= j]

Leave(end) ==
  /\ checkAt' = end
  /\ UNCHANGED <<world, active, route, state, items, servers, reached, ping>>

(* Unknown options; an unreadable table, or one without a default route; a *)
(* UDP socket that cannot be bound; a neighbor dump that fails.            *)
Fail ==
  /\ \/ checkAt \in {"idle", "table"}
     \/ checkAt = "poke" /\ active /\ route.gateway
  /\ Leave("error")

Begin ==
  /\ checkAt = "idle"
  /\ active' \in BOOLEAN
  /\ \E table \in RouteTables :
       /\ Usable(table) # {}
       /\ route' = Default(table)
  /\ link' \in LinkStates
  /\ linkSeen' = {link'}
  /\ resolved' \in SUBSET Interfaces
  /\ gateSeen' = {resolved' # {}}
  /\ items' = {<<"default-route", "ok">>}
  /\ checkAt' = "state"
  /\ UNCHANGED <<flaps, state, servers, reached, ping>>

(* interface_state                                                         *)
ReadState ==
  /\ checkAt = "state"
  /\ state' = (link = "up")
  /\ checkAt' = "carrier"
  /\ UNCHANGED <<world, active, route, items, servers, reached, ping>>

Item(name, status) == items' = items \union {<<name, status>>}

(* Any carrier will do.                                                    *)
CarrierAlone == link # "down"

(* state == "up" && carrier == "1"; a dormant link has a carrier.          *)
UpWithCarrier == state /\ link # "down"

ReadCarrier ==
  /\ checkAt = "carrier"
  /\ Item("interface", IF UpWithCarrier THEN "ok" ELSE "warning")
  /\ checkAt' = "poke"
  /\ UNCHANGED <<world, active, route, state, servers, reached, ping>>

(* A datagram makes the kernel resolve the gateway; 250 ms to do so.       *)
Poke ==
  /\ checkAt = "poke"
  /\ Leave("table")

(* The first neighbor of the gateway's address, on whatever interface.     *)
Neighbor ==
  IF ~route.gateway THEN "not-applicable"
  ELSE IF resolved # {} THEN "ok" ELSE "warning"

ReadTable ==
  /\ checkAt = "table"
  /\ Item("gateway-neighbor", Neighbor)
  /\ checkAt' = "resolv"
  /\ UNCHANGED <<world, active, route, state, servers, reached, ping>>

(* resolver::nameservers; a file that cannot be read holds none.           *)
ReadServers ==
  /\ checkAt = "resolv"
  /\ servers' \in ServerLists
  /\ Item("dns", IF servers' = <<>> THEN "warning" ELSE "ok")
  /\ checkAt' = IF ~active THEN "verdict"
                ELSE IF route.gateway THEN "echo" ELSE "servers"
  /\ UNCHANGED <<world, active, route, state, reached, ping>>

Measure ==
  /\ checkAt = "echo"
  /\ P!Echo \/ P!Failure \/ P!Network
  /\ UNCHANGED <<world, checkAt, active, route, state, items, servers, reached>>

(* Only a full set of replies is good news.                                *)
EveryReply == IF Cardinality(echoes) = 3 THEN "ok" ELSE "warning"

SomeReply == IF echoes # {} THEN "ok" ELSE "warning"

(* An error that denies the permission (1 or 13) skips the measurement.    *)
Measured ==
  /\ checkAt = "echo"
  /\ at = "returned"
  /\ \/ outcome = "ok" /\ Item("gateway-icmp", SomeReply)
     \/ outcome = "error" /\ \E s \in {"skipped", "warning"} :
                               Item("gateway-icmp", s)
  /\ checkAt' = "servers"
  /\ UNCHANGED <<world, active, route, state, servers, reached, ping>>

(* What is found out about a nameserver, and the item it becomes: first    *)
(* the route, which ends the trial if there is none, then TCP port 53.     *)
Trials == [none     |-> <<"dns-route", "warning">>,
           open     |-> <<"dns-tcp", "ok">>,
           refusing |-> <<"dns-tcp", "reached">>,
           silent   |-> <<"dns-tcp", "warning">>]

Try ==
  /\ checkAt = "servers"
  /\ servers # <<>>
  /\ \/ /\ Head(servers) = "name"
        /\ Item("dns-route", "skipped")
        /\ UNCHANGED reached
     \/ /\ Head(servers) = "ip"
        /\ \E how \in DOMAIN Trials :
             /\ items' = items \union {Trials[how]}
                           \union (IF how = "none" THEN {}
                                   ELSE {<<"dns-route", "ok">>})
             /\ reached' = reached \union {how}
  /\ servers' = Tail(servers)
  /\ UNCHANGED <<world, checkAt, active, route, state, ping>>

Warnings == {item \in items : item[2] = "warning"}

(* Status 0 if nothing warned, 1 otherwise.                                *)
Verdict ==
  /\ \/ checkAt = "verdict"
     \/ checkAt = "servers" /\ servers = <<>>
  /\ Leave(IF Warnings = {} THEN "healthy" ELSE "unhealthy")

Command == Begin \/ ReadState \/ ReadCarrier \/ Poke \/ ReadTable \/ ReadServers
             \/ Measure \/ Measured \/ Try \/ Verdict
Next == Command \/ Fail \/ Flap
Ended == checkAt \in {"healthy", "unhealthy", "error"}
Spec == Idle /\ [][Next]_vars
-----------------------------------------------------------------------------
(* Every variable keeps its type, and so do those of the measurement.      *)
TypeOK ==
  /\ link \in LinkStates /\ linkSeen \subseteq LinkStates
  /\ resolved \subseteq Interfaces
  /\ checkAt \in {"idle", "state", "carrier", "poke", "table", "resolv",
                  "echo", "servers", "verdict", "healthy", "unhealthy", "error"}
  /\ reached \subseteq DOMAIN Trials
  /\ P!TypeOK

Listed(name, status) == <<name, status>> \in items

(* A verdict rests on what was the case. A machine is called healthy only  *)
(* if its default interface was up with a carrier at some moment of the    *)
(* check, its gateway was resolved at some moment, a nameserver is         *)
(* configured, no numeric nameserver was out of reach, and the gateway     *)
(* answered an echo request in time unless ICMP was skipped. It is called  *)
(* unhealthy only if one of these was not so. In particular a gateway      *)
(* whose first reply came in time is not called silent, whatever is lost,  *)
(* late or reordered afterwards.                                           *)
VerdictJustified ==
  LET bad == \/ linkSeen # {"up"}
             \/ route.gateway /\ FALSE \in gateSeen
             \/ Listed("dns", "warning")
             \/ reached \intersect {"none", "silent"} # {}
             \/ active /\ route.gateway
                  /\ (outcome = "error" \/ 0 \notin prompt \/ unread # {})
      good == /\ "up" \in linkSeen
              /\ route.gateway => TRUE \in gateSeen
              /\ Listed("dns", "ok")
              /\ reached \subseteq {"open", "refusing"}
              /\ active /\ route.gateway =>
                   prompt # {} \/ Listed("gateway-icmp", "skipped")
  IN  /\ checkAt = "healthy" => good
      /\ checkAt = "unhealthy" => bad
=============================================================================
