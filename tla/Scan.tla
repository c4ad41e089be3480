-------------------------------- MODULE Scan --------------------------------
(***************************************************************************)
(* The `scan` command: scan and scan_json of main.rs, which choose the     *)
(* networks, over scanner::scan, which takes a snapshot of the neighbor    *)
(* table, sends a datagram to every target in each pass, and takes another *)
(* snapshot to see which neighbors are there and which are new.            *)
(*                                                                         *)
(* Addresses are numbers of Width bits. The neighbor table belongs to the  *)
(* kernel and the network: each snapshot may find any table. The host's    *)
(* interfaces and routes stay as they are during one scan.                 *)
(***************************************************************************)
EXTENDS Integers, Sequences, FiniteSets, SequencesExt, FiniteSetsExt, Selection

CONSTANTS Width,        \* bits of an address: 32
          MaxTargets,   \* MAX_TARGETS: 4096
          Hosts,        \* the configurations of the machine
          Tables,       \* the neighbor tables a snapshot may find
          Retries,      \* the values of --retries
          Exclusions    \* the sets of addresses given with --exclude

VARIABLES
  host,       \* the machine's interfaces and default routes
  scanAt,     \* where the command is, or how it ended
  selection,  \* the interface or CIDR given, if any
  options,    \* --retries and --exclude
  networks,   \* the networks to scan
  before,     \* address and link address of the known neighbors
  passes,     \* passes completed
  probes,     \* how many datagrams each address was sent
  neighbors,  \* the neighbors on these networks after the last pass
  changed,    \* the addresses new or changed since the first snapshot
  rows,       \* the neighbors that are printed
  filter,     \* --filter
  known       \* history: the neighbors on these networks before the scan

vars == <<host, scanAt, selection, options, networks, before, passes, probes,
          neighbors, changed, rows, filter, known>>

(* The value of the bit b, 1 << b.                                         *)
TwoTo[b \in Nat] == IF b = 0 THEN 1 ELSE 2 * TwoTo[b - 1]

Address == 0 .. TwoTo[Width] - 1
NoSelection == [kind |-> "default", name |-> 0, address |-> 0, prefix |-> 0]
Selection(h) ==
  {NoSelection}
    \union [kind : {"interface"}, name : DOMAIN h.interfaces \union {0},
            address : {0}, prefix : {0}]
    \union [kind : {"cidr"}, name : {0}, address : Address, prefix : 0 .. Width]
-----------------------------------------------------------------------------
(* scanner::Network                                                        *)

(* u32::MAX << (32 - prefix) keeps the leading bits of an address; a shift *)
(* by the full width is avoided.                                           *)
Size(prefix) == IF prefix = 0 THEN TwoTo[Width] ELSE TwoTo[Width - prefix]
Base(a, prefix) == a - (a % Size(prefix))

(* `given` is history: the address the network was made from.              *)
Network(index, own, a, prefix) ==
  [index |-> index, address |-> own, prefix |-> prefix, given |-> a,
   network |-> Base(a, prefix),
   broadcast |-> Base(a, prefix) + Size(prefix) - 1]

(* Bounds that leave out the ends of a /29 but not of a /30.               *)
LooseBounds(n) == IF n.prefix < Width - 2
                  THEN <<n.network + 1, n.broadcast - 1>>
                  ELSE <<n.network, n.broadcast>>

HostBounds(n) == IF n.prefix <= Width - 2
                 THEN <<n.network + 1, n.broadcast - 1>>
                 ELSE <<n.network, n.broadcast>>

Candidates(n) == HostBounds(n)[1] .. HostBounds(n)[2]

TargetCount(n) ==
  HostBounds(n)[2] - HostBounds(n)[1] + 1
    - (IF n.address \in Candidates(n) THEN 1 ELSE 0)

InNetwork(n, a) == n.network <= a /\ a <= n.broadcast
-----------------------------------------------------------------------------
(* The machine.                                                            *)

Locals(h) == {h.interfaces[i].address :
                i \in {j \in DOMAIN h.interfaces : h.interfaces[j].configured}}

Subnet(h, i) == LET f == h.interfaces[i]
                IN  Network(i, f.address, f.address, f.prefix)

OnLink(h, a) == {i \in DOMAIN h.interfaces :
                   h.interfaces[i].configured /\ InNetwork(Subnet(h, i), a)}

(* parse_default_ipv4_route: up, not a reject route, least metric.         *)
DefaultRoutes(h) ==
  LET usable == {r \in h.defaults : r.usable}
  IN  {r \in usable : \A s \in usable : r.metric <= s.metric}

(* RTM_GETROUTE: the longest subnet, else a default route, else an error.  *)
RouteTo(h, a) ==
  LET longest == {i \in OnLink(h, a) : \A j \in OnLink(h, a) :
                    h.interfaces[j].prefix <= h.interfaces[i].prefix}
  IN  {[gateway |-> FALSE, index |-> i] : i \in longest}
        \union {[gateway |-> TRUE, index |-> r.interface] :
                  r \in {d \in DefaultRoutes(h) : longest = {}}}

(* interface_kind and carrier, the address and its mask.                   *)
Scannable(h, i) ==
  /\ i \in DOMAIN h.interfaces
  /\ ~h.interfaces[i].loopback
  /\ h.interfaces[i].carrier
  /\ h.interfaces[i].configured
-----------------------------------------------------------------------------
(* scan_networks                                                           *)

(* Without a selection: the interface of the default route, or without one *)
(* every interface, in the order of their names.                           *)
DefaultNetworks(h) ==
  LET preferred == {r.interface : r \in DefaultRoutes(h)}
      chosen == {i \in DOMAIN h.interfaces :
                   /\ Scannable(h, i)
                   /\ preferred = {} \/ i \in preferred}
      subnets == [i \in DOMAIN h.interfaces |-> Subnet(h, i)]
  IN  IF chosen = {} THEN {} ELSE {Pick(subnets, chosen)}

(* scan_cidr: the first address that is not the host's own tells which     *)
(* interface leads there, and that no gateway does. If there is none, the  *)
(* interface is the one that has an address inside.                        *)
CidrNetworks(h, a, prefix) ==
  LET n == Network(0, 0, a, prefix)
      others == Candidates(n) \ Locals(h)
      owners == {i \in DOMAIN h.interfaces :
                   h.interfaces[i].configured
                     /\ InNetwork(n, h.interfaces[i].address)}
      direct == IF others # {}
                THEN {r.index : r \in {s \in RouteTo(h, Min(others)) : ~s.gateway}}
                ELSE {i \in owners : \A j \in owners : i <= j}
  IN  {<<Network(i, h.interfaces[i].address, Base(a, prefix), prefix)>> :
         i \in direct}

(* The networks that may be chosen; an empty set is an error.              *)
NetworksOf(h, s) ==
  CASE s.kind = "default"   -> DefaultNetworks(h)
    [] s.kind = "interface" -> IF Scannable(h, s.name)
                               THEN {<<Subnet(h, s.name)>>} ELSE {}
    [] s.kind = "cidr"      -> CidrNetworks(h, s.address, s.prefix)
-----------------------------------------------------------------------------
(* The command.                                                            *)

Idle ==
  /\ host = CHOOSE h \in Hosts : TRUE
  /\ scanAt = "idle"
  /\ selection = NoSelection
  /\ options = [retries |-> 1, excluded |-> {}]
  /\ networks = <<>>
  /\ before = {}
  /\ passes = 0
  /\ probes = [a \in Address |-> 0]
  /\ neighbors = {}
  /\ changed = {}
  /\ rows = {}
  /\ filter = "none"
  /\ known = {}

Goto(place) == scanAt' = place

(* parse_scan_arguments                                                    *)
Start ==
  /\ scanAt = "idle"
  /\ host' \in Hosts
  /\ selection' \in Selection(host')
  /\ options' \in [retries : Retries, excluded : Exclusions]
  /\ Goto("select")
  /\ UNCHANGED <<networks, before, passes, probes, neighbors, changed, rows,
                 filter, known>>

(* Bad arguments, a selection with no network, or one of the calls to the  *)
(* kernel failing: the command ends with an error.                         *)
Refuse ==
  /\ scanAt \in {"idle", "select", "before", "probe", "after"}
  /\ Goto("error")
  /\ UNCHANGED <<host, selection, options, networks, before, passes, probes,
                 neighbors, changed, rows, filter, known>>

TotalTargets == FoldLeft(LAMBDA sum, n : sum + TargetCount(n), 0, networks)

(* scan_networks, then the limits of scanner::scan.                        *)
Select ==
  /\ scanAt = "select"
  /\ networks' \in NetworksOf(host, selection)
  /\ Goto(IF TotalTargets' = 0 \/ TotalTargets' > MaxTargets
          THEN "error" ELSE "before")
  /\ UNCHANGED <<host, selection, options, before, passes, probes, neighbors,
                 changed, rows, filter, known>>

(* is_neighbor_on_networks without the comparison of interface indexes.    *)
InSomeSubnet(e) ==
  e.link # "none" /\ \E k \in DOMAIN networks : InNetwork(networks[k], e.address)

(* is_neighbor_on_networks                                                 *)
OnNetworks(e) ==
  /\ e.link # "none"
  /\ \E k \in DOMAIN networks :
       networks[k].index = e.index /\ InNetwork(networks[k], e.address)

(* The first snapshot, sorted by interface and collected by address.       *)
Before ==
  /\ scanAt = "before"
  /\ \E table \in Tables :
       LET entries == {e \in table : OnNetworks(e)}
       IN  /\ known' = entries
           /\ before' = {<<e.address, e.link>> : e \in
                {d \in entries : \A c \in entries :
                   c.address = d.address => c.index <= d.index}}
  /\ Goto("probe")
  /\ UNCHANGED <<host, selection, options, networks, passes, probes, neighbors,
                 changed, rows, filter>>

(* The networks whose loop sends a datagram to a.                          *)
Probing(a) ==
  {k \in DOMAIN networks : /\ a \in Candidates(networks[k])
                           /\ a # networks[k].address
                           /\ a \notin options.excluded}

(* A pass more than asked for.                                             *)
OnePassMore == passes' > options.retries

LastPass == passes' = options.retries

(* One pass over all networks. What send_to returns is not looked at.      *)
Pass ==
  /\ scanAt = "probe"
  /\ probes' = [a \in Address |-> probes[a] + Cardinality(Probing(a))]
  /\ passes' = passes + 1
  /\ Goto(IF LastPass THEN "after" ELSE "probe")
  /\ UNCHANGED <<host, selection, options, networks, before, neighbors, changed,
                 rows, filter, known>>

(* ScanFilter::matches                                                     *)
Matches(e) == CASE filter' = "changed"   -> e.address \in changed'
                [] filter' = "unchanged" -> e.address \notin changed'
                [] OTHER -> TRUE

(* The second snapshot, the comparison with the first, and the output.     *)
After ==
  /\ scanAt = "after"
  /\ \E table \in Tables : neighbors' = {e \in table : OnNetworks(e)}
  /\ changed' = {e.address : e \in
                   {d \in neighbors' : <<d.address, d.link>> \notin before}}
  /\ filter' \in {"none", "changed", "unchanged"}
  /\ rows' = {e \in neighbors' : Matches(e)}
  /\ Goto("ok")
  /\ UNCHANGED <<host, selection, options, networks, before, passes, probes,
                 known>>

Next == Start \/ Refuse \/ Select \/ Before \/ Pass \/ After
Ended == scanAt \in {"ok", "error"}

Spec == Idle /\ [][Next]_vars
-----------------------------------------------------------------------------
(* Every variable keeps its type, and no pass is made beyond --retries.    *)
TypeOK ==
  /\ host \in Hosts
  /\ scanAt \in {"idle", "select", "before", "probe", "after", "ok", "error"}
  /\ passes \in 0 .. options.retries
  /\ probes \in [Address -> Nat]
  /\ changed \subseteq Address
  /\ rows \subseteq neighbors

Bit(a, b) == (a \div TwoTo[b]) % 2

(* An address a network can give to a host: it has the leading bits of the *)
(* network, and the others are not all equal if there are two or more.     *)
IsHost(n, a) ==
  /\ \A b \in (Width - n.prefix) .. (Width - 1) : Bit(a, b) = Bit(n.given, b)
  /\ Width - n.prefix >= 2 =>
       {Bit(a, b) : b \in 0 .. (Width - n.prefix - 1)} = {0, 1}

Targets(a) == {k \in DOMAIN networks :
                 IsHost(networks[k], a) /\ a # networks[k].address}

(* A finished scan sent every host address of the chosen networks, except  *)
(* the source and the excluded ones, one datagram per pass and nothing to  *)
(* any other address; and the number of targets announced, which the limit *)
(* is applied to, is the number of host addresses.                         *)
TargetsExact ==
  scanAt = "ok" =>
    /\ \A a \in Address :
         probes[a] = IF a \in options.excluded THEN 0
                     ELSE options.retries * Cardinality(Targets(a))
    /\ TotalTargets =
         Cardinality({x \in Address \X DOMAIN networks : x[2] \in Targets(x[1])})

(* An address that two of the scanned interfaces list.                     *)
Ambiguous(entries) ==
  {e.address : e \in {d \in entries : \E c \in entries :
                         c.address = d.address /\ c.index # d.index}}

(* The report has the neighbors of the second snapshot that are on a       *)
(* scanned interface and in its network, and the filter tells a new or     *)
(* changed pair of address and link address from a known one, except for   *)
(* an address that two of the interfaces list.                             *)
ReportExact ==
  scanAt = "ok" =>
    /\ \A e \in rows : \E k \in DOMAIN networks :
         networks[k].index = e.index /\ InNetwork(networks[k], e.address)
    /\ \A e \in neighbors :
         e.address \notin Ambiguous(known \union neighbors) =>
           (e \in rows <=> CASE filter = "changed"   -> e \notin known
                             [] filter = "unchanged" -> e \in known
                             [] OTHER -> TRUE)

(* `changed` tells of each neighbor whether its pair of address and link   *)
(* address was not there before.                                           *)
ChangedTellsPairs ==
  scanAt = "ok" => \A e \in neighbors :
    e.address \in changed <=> \A d \in known : d.address = e.address => d.link # e.link

(* Nothing is sent to an address that is reached through a gateway.        *)
NoRoutedTargets == \A a \in Address : probes[a] > 0 => OnLink(host, a) # {}
=============================================================================
