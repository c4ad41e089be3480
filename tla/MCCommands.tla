----------------------------- MODULE MCCommands -----------------------------
(***************************************************************************)
(* Route tables and sockets for the composed commands; what scan needs is  *)
(* in Machines.                                                            *)
(***************************************************************************)
EXTENDS Commands, Machines

DefaultRoute(dev, gateway, metric, usable) ==
  [dev |-> dev, gateway |-> gateway, metric |-> metric, usable |-> usable]

(* A gateway and a better direct route; a still better route that is       *)
(* rejected, and two of one metric; no usable route.                       *)
MCRouteTables ==
  {<<DefaultRoute(1, TRUE, 2, TRUE), DefaultRoute(2, FALSE, 1, TRUE)>>,
   <<DefaultRoute(2, FALSE, 0, FALSE), DefaultRoute(1, TRUE, 1, TRUE),
     DefaultRoute(2, FALSE, 1, TRUE)>>,
   <<DefaultRoute(2, FALSE, 0, FALSE)>>}

(* None; one that is no address and one that is.                           *)
MCServerLists == {<<>>, <<"name", "ip">>}

Socket(inode, protocol, family, local, remote, state_) ==
  [inode |-> inode, protocol |-> protocol, family |-> family, local |-> local,
   remote |-> remote, state |-> state_]

(* Two listeners that share a port, one of them of a process that /proc    *)
(* does not show; a connection to it, and an unconnected socket of IPv6.   *)
MCOrphans == {Socket(2, "tcp", 4, "l4", "any", "listen")}

(* The other listener by one name, and the other sockets by another.       *)
MCPrograms ==
  {[name |-> "a", holds |-> Socket(1, "tcp", 4, "l4", "any", "listen")],
   [name |-> "b", holds |-> Socket(3, "tcp", 4, "l4", "r1", "established")],
   [name |-> "b", holds |-> Socket(4, "udp", 6, "l6", "any", "unconnected")]}

MCCatalog == MCOrphans \union {program.holds : program \in MCPrograms}

Everything == Composed \union {"all", "unknown"}
=============================================================================
