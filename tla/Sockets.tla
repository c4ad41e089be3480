------------------------------- MODULE Sockets -------------------------------
(***************************************************************************)
(* The `sockets` command: print_sockets and sockets_json of main.rs over   *)
(* sockets.rs. The four tables of procfs are read one after the other,     *)
(* then /proc is walked for the processes that hold the sockets found,     *)
(* then the socket diagnostics of the same four tables are dumped and      *)
(* looked up by protocol and endpoints. A table and a dump take several    *)
(* reads: one that changes in between may be received without some of its  *)
(* rows and with others that are gone.                                     *)
(*                                                                         *)
(* Meanwhile processes end and start, under process identifiers that       *)
(* others had, and sockets close with the last process that holds them. A  *)
(* process has one descriptor, which may be a socket.                      *)
(***************************************************************************)
EXTENDS Naturals, Sequences, FiniteSets

CONSTANTS Pids,        \* process identifiers, in the order /proc lists them
          Programs,    \* [name, holds]: what may run, and the socket it has
          Catalog,     \* the sockets that may exist
          Orphans,     \* those that no process holds, such as TIME_WAIT
          MaxTurnover  \* bound: processes that change, and dumps broken off

VARIABLES
  process,     \* the process of each identifier, if there is one
  turnover,    \* how many changed, and how many dumps were broken off
  steady,      \* history: <<identifier, what it holds>> since the start
  socketsAt,   \* where the command is, or how it ended
  reading,     \* the table or dump there has been opened
  table,       \* history: the sockets that were in it since
  partial,     \* history: the tables and dumps that may lack rows
  view,        \* the sockets asked for
  sockets,     \* the rows of the tables read so far
  missing,     \* the IPv6 tables do not exist
  cursor,      \* the identifier that the walk has come to
  comm,        \* its name as read
  denied,      \* history: identifiers whose descriptors were not shown
  processes,   \* <<inode, identifier, name>>, as found
  diagnostics, \* the records of the dumps
  available,   \* whether the dumps succeeded
  shared       \* history: the sockets whose endpoints another one had

vars == <<process, turnover, steady, socketsAt, reading, table, partial, view,
          sockets, missing, cursor, comm, denied, processes, diagnostics,
          available, shared>>

machine == <<process, turnover, steady>>
read == <<reading, table, partial>>
walk == <<cursor, comm, denied, processes>>
dumped == <<diagnostics, available, shared>>

Nothing == [inode |-> 0]
Gone == [name |-> "", holds |-> Nothing]
Alive(p) == process[p] # Gone
Existing == ({process[p].holds : p \in Pids} \union Orphans) \ {Nothing}
Held == {<<p, process[p].holds>> : p \in {q \in Pids : Alive(q)}}

(* The tables of procfs and the dumps of sock_diag, in order.              *)
Listing ==
  [tcp      |-> [protocol |-> "tcp", family |-> 4, then |-> "udp"],
   udp      |-> [protocol |-> "udp", family |-> 4, then |-> "tcp6"],
   tcp6     |-> [protocol |-> "tcp", family |-> 6, then |-> "udp6"],
   udp6     |-> [protocol |-> "udp", family |-> 6, then |-> "next"],
   tcpDump  |-> [protocol |-> "tcp", family |-> 4, then |-> "udpDump"],
   udpDump  |-> [protocol |-> "udp", family |-> 4, then |-> "tcp6Dump"],
   tcp6Dump |-> [protocol |-> "tcp", family |-> 6, then |-> "udp6Dump"],
   udp6Dump |-> [protocol |-> "udp", family |-> 6, then |-> "ok"]]
ProcTables == {"tcp", "udp", "tcp6", "udp6"}
Dumps == {"tcpDump", "udpDump", "tcp6Dump", "udp6Dump"}

Rows(l) == {s \in Existing : /\ s.protocol = Listing[l].protocol
                             /\ s.family = Listing[l].family}

Busy == socketsAt \in DOMAIN Listing \union {"next", "comm", "link"}
-----------------------------------------------------------------------------
(* The machine.                                                            *)

(* A process ends, starts, or has been followed by one that was given its  *)
(* identifier.                                                             *)
Turnover(p) ==
  /\ Busy
  /\ turnover < MaxTurnover
  /\ turnover' = turnover + 1
  /\ \E after \in Programs \union {Gone} :
       /\ process' = [process EXCEPT ![p] = after]
       /\ steady' = {h \in steady : h[1] # p}
  /\ UNCHANGED <<socketsAt, reading, view, sockets, missing, walk, dumped>>
  /\ IF reading /\ Rows(socketsAt)' # Rows(socketsAt)
     THEN /\ table' = table \union Rows(socketsAt)'
          /\ partial' = partial \union {socketsAt}
     ELSE UNCHANGED <<table, partial>>

(* The kernel ends a dump before its end. Its last message has the errno,  *)
(* which the command does not read.                                        *)
BreakOff ==
  /\ reading
  /\ socketsAt \in Dumps
  /\ turnover < MaxTurnover
  /\ turnover' = turnover + 1
  /\ partial' = partial \union {socketsAt}
  /\ UNCHANGED <<process, steady, socketsAt, reading, table, view, sockets, missing, walk,
                 dumped>>
-----------------------------------------------------------------------------
(* The command.                                                            *)

Views == {"all", "tcp", "udp", "listening", "connected"}

(* View::matches                                                           *)
Matches(s) ==
  CASE view = "all" -> TRUE
    [] view \in {"tcp", "udp"} -> s.protocol = view
    [] view = "listening" -> \/ s.state = "listen"
                             \/ s.protocol = "udp" /\ s.remote = "any"
    [] view = "connected" -> s.remote # "any"

Idle ==
  /\ process = [p \in Pids |-> Gone]
  /\ turnover = 0
  /\ steady = {}
  /\ socketsAt = "idle"
  /\ reading = FALSE
  /\ table = {}
  /\ partial = {}
  /\ view = "all"
  /\ sockets = {}
  /\ missing = FALSE
  /\ cursor = 0
  /\ comm = ""
  /\ denied = {}
  /\ processes = {}
  /\ diagnostics = {}
  /\ available = FALSE
  /\ shared = {}

Start ==
  /\ socketsAt = "idle"
  /\ process' \in [Pids -> {Gone} \union Programs]
  /\ view' \in Views
  /\ steady' = Held'
  /\ socketsAt' = "tcp"
  /\ UNCHANGED <<turnover, read, sockets, missing, walk, dumped>>

(* An unknown view; a table that cannot be read, unless it is an IPv6      *)
(* table that does not exist.                                              *)
Fail ==
  /\ socketsAt \in {"idle"} \union ProcTables
  /\ socketsAt' = "error"
  /\ UNCHANGED <<machine, read, view, sockets, missing, walk, dumped>>

(* A table is opened, or a dump is requested.                              *)
Open ==
  /\ socketsAt \in DOMAIN Listing
  /\ ~reading
  /\ reading' = TRUE
  /\ table' = Rows(socketsAt)
  /\ UNCHANGED <<machine, socketsAt, partial, view, sockets, missing, walk, dumped>>

(* What may have been received at its end.                                 *)
Received == IF socketsAt \in partial THEN SUBSET table ELSE {table}

Close ==
  /\ reading' = FALSE
  /\ table' = {}
  /\ UNCHANGED partial

(* parse_table                                                             *)
ReadTable ==
  /\ reading
  /\ socketsAt \in ProcTables
  /\ \E rows \in Received : sockets' = sockets \union rows
  /\ socketsAt' = Listing[socketsAt].then
  /\ Close
  /\ UNCHANGED <<machine, view, missing, walk, dumped>>

(* A table of IPv6 is not there: ip_sockets goes on with IPv4 alone.       *)
NoTable ==
  /\ socketsAt \in {"tcp6", "udp6"}
  /\ ~reading
  /\ missing' = TRUE
  /\ sockets' = {s \in sockets : s.family = 4}
  /\ socketsAt' = "next"
  /\ UNCHANGED <<machine, read, view, walk, dumped>>

Shown == {s \in sockets : Matches(s)}
Inodes == {s.inode : s \in Shown} \ {0}

(* The next process of /proc, if its descriptors can be listed; the last   *)
(* one leaves the walk.                                                    *)
NextProcess ==
  /\ socketsAt = "next"
  /\ LET left == {p \in Pids : p > cursor /\ Alive(p)}
     IN  IF left = {}
         THEN socketsAt' = "tcpDump" /\ UNCHANGED <<cursor, denied>>
         ELSE /\ cursor' = CHOOSE p \in left : \A q \in left : p <= q
              /\ \/ socketsAt' = "comm" /\ UNCHANGED denied
                 \/ /\ denied' = denied \union {cursor'}
                    /\ UNCHANGED socketsAt
  /\ UNCHANGED <<machine, read, view, sockets, missing, comm, processes, dumped>>

(* /proc cannot be listed.                                                 *)
NoProcesses ==
  /\ socketsAt = "next"
  /\ cursor = 0
  /\ denied' = Pids
  /\ socketsAt' = "tcpDump"
  /\ UNCHANGED <<machine, read, view, sockets, missing, cursor, comm, processes,
                 dumped>>

(* The name of whoever has the identifier now. One that cannot be read, or *)
(* is no text, is "unknown".                                               *)
ReadComm ==
  /\ socketsAt = "comm"
  /\ comm' \in {"unknown"} \union (IF Alive(cursor) THEN {process[cursor].name} ELSE {})
  /\ socketsAt' = "link"
  /\ UNCHANGED <<machine, read, view, sockets, missing, cursor, denied, processes,
                 dumped>>

(* The inode behind the descriptor, if there still is one.                 *)
ReadLink ==
  /\ socketsAt = "link"
  /\ LET inode == process[cursor].holds.inode
     IN  processes' = IF inode \in Inodes
                      THEN processes \union {<<inode, cursor, comm>>}
                      ELSE processes
  /\ socketsAt' = "next"
  /\ UNCHANGED <<machine, read, view, sockets, missing, cursor, comm, denied, dumped>>

SameEndpoints(r, s) ==
  /\ r.protocol = s.protocol /\ r.family = s.family
  /\ r.local = s.local /\ r.remote = s.remote

(* diagnostic_dump, of which main.rs keeps one record of each key          *)
Dump ==
  /\ reading
  /\ socketsAt \in Dumps
  /\ \E records \in Received : diagnostics' = diagnostics \union records
  /\ shared' = shared \union {s \in table : \E r \in table \ {s} : SameEndpoints(r, s)}
  /\ socketsAt' = Listing[socketsAt].then
  /\ available' = (socketsAt' = "ok")
  /\ Close
  /\ UNCHANGED <<machine, view, sockets, missing, walk>>

(* A kernel without IPv6 rejects the dump: ip_diagnostics succeeds with    *)
(* the records of IPv4 alone.                                              *)
NoIpv6Diagnostics ==
  /\ socketsAt \in {"tcp6Dump", "udp6Dump"}
  /\ diagnostics' = {r \in diagnostics : r.family = 4}
  /\ available' = TRUE
  /\ socketsAt' = "ok"
  /\ reading' = FALSE
  /\ table' = {}
  /\ partial' = partial \union {"tcp6Dump", "udp6Dump"}
  /\ UNCHANGED <<machine, view, sockets, missing, walk, shared>>

(* Any other failure: the listing says so and has no diagnostics.          *)
NoDiagnostics ==
  /\ socketsAt \in Dumps
  /\ diagnostics' = {}
  /\ socketsAt' = "ok"
  /\ Close
  /\ UNCHANGED <<machine, view, sockets, missing, walk, available, shared>>

Command == \/ Start \/ Open \/ ReadTable \/ NextProcess \/ ReadComm \/ ReadLink
           \/ Dump
Next == \/ Command \/ Fail \/ NoTable \/ NoProcesses \/ NoIpv6Diagnostics
        \/ NoDiagnostics \/ BreakOff
        \/ \E p \in Pids : Turnover(p)
Ended == socketsAt \in {"ok", "error"}
Spec == Idle /\ [][Next]_vars

(* Records told apart by protocol and local endpoint alone.                *)
LocalKey(s) == <<s.protocol, s.family, s.local>>

(* (protocol, local, remote), where an endpoint has a family               *)
Key(s) == <<s.protocol, s.family, s.local, s.remote>>

(* The records that a row may show: the last one with its key is kept.     *)
DiagnosticsOf(s) == {r \in diagnostics : Key(r) = Key(s)}
-----------------------------------------------------------------------------
(* Every variable keeps its type, and only sockets shown have processes.   *)
TypeOK ==
  /\ process \in [Pids -> {Gone} \union Programs]
  /\ reading \in BOOLEAN /\ (reading => socketsAt \in DOMAIN Listing \union {"error"})
  /\ table \subseteq Catalog
  /\ partial \subseteq DOMAIN Listing
  /\ sockets \subseteq Catalog
  /\ cursor \in {0} \union Pids
  /\ processes \subseteq Inodes \X Pids \X ({program.name : program \in Programs} \union {"unknown"})
  /\ diagnostics \subseteq Catalog
  /\ available \in BOOLEAN

TableOf(s) == CHOOSE l \in ProcTables : /\ Listing[l].protocol = s.protocol
                                        /\ Listing[l].family = s.family
DumpOf(s) == CHOOSE l \in Dumps : /\ Listing[l].protocol = s.protocol
                                  /\ Listing[l].family = s.family

(* Consider what a process holds from the first table to the end, whatever *)
(* comes and goes beside it. The process is named for no other socket, and *)
(* by no name but its own or "unknown". A socket of the view has a row     *)
(* if its table did not change while it was read; and a row names the      *)
(* process unless that could not be looked into. If no other socket had    *)
(* its endpoints, the row shows no other one's diagnostics; and it shows   *)
(* its own if they are available, except after a dump that changed         *)
(* meanwhile or was broken off, or without IPv6.                           *)
SteadyListed ==
  socketsAt = "ok" =>
    \A h \in steady :
      LET s == h[2]
          named == {x \in processes : x[2] = h[1]}
      IN  /\ named \subseteq {<<s.inode, h[1], process[h[1]].name>>,
                              <<s.inode, h[1], "unknown">>}
          /\ s # Nothing =>
               /\ /\ Matches(s) /\ (s.family = 4 \/ ~missing)
                  /\ TableOf(s) \notin partial
                  => s \in Shown
               /\ s \in Shown => h[1] \in denied \/ named # {}
               /\ s \notin shared =>
                    /\ DiagnosticsOf(s) \subseteq {s}
                    /\ available /\ DumpOf(s) \notin partial => s \in DiagnosticsOf(s)
=============================================================================
