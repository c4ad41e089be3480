------------------------------- MODULE Machines ------------------------------
(***************************************************************************)
(* Machines, neighbor tables and options for the scan command, on addresses*)
(* of four bits.                                                           *)
(***************************************************************************)
EXTENDS Integers

Interface(loopback, carrier, configured, address, prefix) ==
  [loopback |-> loopback, carrier |-> carrier, configured |-> configured,
   address |-> address, prefix |-> prefix]

Route(interface, metric, usable) ==
  [interface |-> interface, metric |-> metric, usable |-> usable]

(* A subnet with a default route and a better one that is rejected; two    *)
(* interfaces on one subnet and no default route; a point-to-point link, a *)
(* single host, a loopback and an interface without an address.            *)
MCHosts ==
  {[interfaces |-> <<Interface(FALSE, TRUE, TRUE, 5, 2),
                     Interface(FALSE, FALSE, TRUE, 9, 2)>>,
    defaults |-> {Route(1, 1, TRUE), Route(2, 0, FALSE)}],
   [interfaces |-> <<Interface(FALSE, TRUE, TRUE, 5, 2),
                     Interface(FALSE, TRUE, TRUE, 6, 2)>>,
    defaults |-> {}],
   [interfaces |-> <<Interface(FALSE, TRUE, TRUE, 12, 3),
                     Interface(FALSE, TRUE, TRUE, 2, 4),
                     Interface(TRUE, TRUE, TRUE, 7, 4),
                     Interface(FALSE, TRUE, FALSE, 0, 0)>>,
    defaults |-> {Route(2, 0, TRUE), Route(1, 1, TRUE)}]}

Entry(index, address, link) ==
  [index |-> index, address |-> address, link |-> link]

(* Up to four neighbors: one address seen by two interfaces, and two more, *)
(* one of them without a link address.                                     *)
MCTables ==
  LET more == {Entry(1, 4, "none"), Entry(1, 6, "m1")}
  IN  {x \union y \union z : x \in {{}, {Entry(1, 7, "m1")}, {Entry(1, 7, "m2")}},
                            y \in {{}, {Entry(2, 7, "m1")}},
                            z \in {{}, more}}

MCExclusions == {{6, 13}}
=============================================================================
