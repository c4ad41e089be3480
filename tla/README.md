# A TLA+ model of networkrs

networkrs is a Linux network tool and library in Rust: a command line
(`src/src/main.rs`) over modules that talk to the kernel through rtnetlink, socket
diagnostics, generic netlink, ICMP and TCP sockets, sysfs and procfs. This
directory models the parts whose correctness depends on an order of events
that a test does not control, checks them with TLC on small instances, and
proves the central results with TLAPS for all instances.

## 1. Inventory

| Component | State it keeps | Operations | What is hard | What makes it correct |
|---|---|---|---|---|
| TCP probe (`main.rs` 1951-2397) | port list, shared `AtomicUsize`, results behind a mutex, scoped threads | parse, resolve, claim, connect, push, join and sort, report | interleaving of up to 64 threads, name resolution and routes that fail | each selected port tried once, connection limit, report in port order, exit status over all results |
| Netlink dumps (`netlink.rs`) | one socket per dump, the records parsed so far | request, receive loop, per-family merge, sort | the table changes between datagrams, failures in the middle, kernels without IPv6 | a success is the table at one instant, failures surface, the loop ends |
| Socket diagnostics (`sock_diag.rs`) | as above, four dumps | the same with a receive loop of its own | as above | as above |
| Event watch (`main.rs` 2763-2988, `netlink.rs` 982-1108) | interface names, multicast socket | name snapshot, subscribe, receive, handle, print | events during start-up, receive-buffer overrun, filtered events that still matter | gap-free stream, labels that were right when the event was sent |
| ICMP echo (`ping.rs`) | socket, measurements | send, poll, recv per round | late, lost and repeated replies | only a request's own reply is measured, prompt replies count |
| Route lookup (`netlink.rs`) | none | one request, one reply on a fresh socket | errors in place of the reply | callers treat a failure as no route |
| Generic netlink (`generic_netlink.rs`) | one socket, a sequence number | family lookup, dump, single request | answers and dumps left behind by a failed request | an answer belongs to its request, recv never waits for nothing |
| Wi-Fi, ethtool (`wifi.rs`, `ethtool.rs`) | devices and fields found so far | required and best-effort requests per interface, decoding of bit sets | one of several failing, several encodings of one set | a rejected query costs its own fields only, a set is decoded exactly |
| Scanner (`scanner.rs`) | neighbor table before and after | target arithmetic, probes, comparison | 32-bit boundaries, table changing meanwhile | every target probed once per pass, new neighbors told from known ones |
| Resolver (`resolver.rs`) | chunks of addresses | spawn, resolve, join | a worker that panics | every address is looked up, a panic costs one chunk |
| Traffic (`traffic.rs`) | two counter snapshots | sample, subtract, rate | interfaces vanish, counters restart, names change hands | a rate never exceeds what moved between the readings |
| Health check (`main.rs` 2404-2709) | list of items | passive and active observations | observations at different moments, echo replies late | a verdict is justified by what was the case |
| procfs sockets (`sockets.rs`, `main.rs` 3066-3296) | rows, inode to process map, diagnostics by endpoints | join of three readings | readings at different times, identifiers reused | what stays open is listed with its own processes and diagnostics |
| Command line (`main.rs` 28-200, 531-591) | the arguments | dispatch, overview, exit status | one of several sections failing, an output that is closed | no command gets stuck or ends with its threads running |
| Text and JSON layout, OUI table, library root | none | formatting, lookup | nothing concurrent | not the subject of a model |

The command line calls each component and turns its result into text or JSON.
Components share no memory, except that the threads of one probe share its
counter and results. What they share with the outside is the kernel:
its tables, its sockets and the network. The kernel is therefore an actor of
each model (marked external in `PROJECT.json`), described by what the code in
`src/` relies on or handles.

`PROJECT.json` lists the hazards, each at its line, with the properties that
would catch it.

## 2. Modules

| Module | Contents |
|---|---|
| `ProbeSpec` | what `probe` promises, without threads |
| `Probe` | the `probe` command with its thread pool; `ImplementsProbeSpec` is its refinement of `ProbeSpec` |
| `MCProbe` | the port lists and destinations of the run |
| `Probe_proofs` | type correctness, claim accounting, report completeness and the refinement |
| `NetlinkDump` | the kernel's dump and the client for `links`, `ip_routes` (and the operations with the same control) and `ip_diagnostics` |
| `MCNetlinkDump` | the tables of its runs |
| `NetlinkDump_proofs` | type correctness, surfacing of faults, exactness |
| `WatchSpec` | the stream `watch` promises |
| `Watch` | the kernel's notifications and the `watch` command; `ImplementsWatchSpec` is its refinement of `WatchSpec` |
| `Watch_proofs` | type correctness, current labels and the refinement |
| `Ping` | `echo` and the network |
| `Ping_proofs` | type correctness, measurement and counting, the first round |
| `GenericNetlink` | the generic-netlink client, its socket and the kernel's answers and dumps |
| `EnumerationSpec` | what the two hardware enumerations promise, without a socket |
| `Hardware` | `wifi::interfaces` and `ethtool::devices`, two programs of requests; extends `GenericNetlink`; `ImplementsEnumerationSpec` is its refinement of `EnumerationSpec` |
| `Hardware_proofs` | every safety property of the client and the two programs, and the refinement |
| `Selection`, `Selection_proofs` | the elements at chosen positions, in order; what that keeps, induction over a set of numbers, and facts on sequences that several proofs need |
| `Scan` | the `scan` command over `scanner.rs` |
| `Machines`, `MCScan` | interfaces, routes and neighbor tables for `Scan`, and its own run |
| `Resolver` | `reverse_names` with its threads |
| `Traffic` | the `traffic` command over `traffic::sample` |
| `Check` | the `check` command; its measurement is an instance of `Ping` |
| `Sockets` | the `sockets` command over `sockets.rs` |
| `Bitset` | the bit sets in ethtool's answers |
| `Commands` | dispatcher, overview and exit status; composes `Scan`, `Resolver`, `Traffic`, `Check`, `Sockets` and `Bitset` |
| `MCCommands` | route tables, nameservers, programs and sockets for `Commands` |
| `Components_proofs` | for each component of `Commands` an invariant, its preservation by each action, and what follows from it |
| `Commands_proofs` | the theorems about the composition |

### Probe

`main` is the main thread's program counter; `ports`, `next`, `results` are the
variables of the same names in `tcp_probe_ports`; `threads` is the sequence of
scoped threads, each with its program counter and locals. A PORTS argument is a
sequence of ranges (a token that does not parse is port 0), so
`parse_probe_ports` is `ValidArgument`, `SelectedPorts` and `AscendingList`.
One thread step is one operation that others can observe: `Claim` is `fetch_add`
with the bounds check, `Connect` the end of `TcpStream::connect_timeout`,
`Push` the locked push. `Join` is the end of `thread::scope` with `into_inner`
and the sort; `SpawnFails` is the panic of
`scope.spawn`, `Panic` its passage through `thread::scope`, which first waits for the
threads there are. `SortsOf` allows any result of a sort by port. `Report` covers
`probe` and `probe_json`, which filter alike and compute the exit status alike;
`shown` keeps the results the filter lets through at their positions in the
report.

### NetlinkDump

The state is the kernel's table and dump position, the datagrams queued in the
socket, and the client's place in its plan of dumps (`step`) with the records
of this dump (`values`), of this block of dumps (`block`) and of the finished
blocks (`finished`). A record is an identity and a class; a message is a
record, NLMSG_DONE or NLMSG_ERROR with an errno and the mark NLM_F_DUMP_INTR.
The kernel resumes a listing by position, and marks the first message written
after it noticed a change, whichever message that is, as `nl_dump_check_consistent`
does. `Receive` is a turn of `receive_dump`; `Outcome` has the
difference between `netlink.rs`, which reads the payload and flags of
NLMSG_DONE, and `sock_diag.rs`, which does not. `Tolerated` is
`ipv6_unavailable`, `Retained` the family filter after a dump. A table is a
set of records that the kernel lists in the order of their identities
(`Numbered`); the results are sorted by `Sorted`, which puts each record at its
`Place`.

### Watch

`ListInterfaces` and `ReadIndex` are the two halves of `interface_names`:
the directory is listed once, each `ifindex` is read later. `Subscribe` is
`open_route_socket`; `Handle` is `recv`, `parse_events` and the handler for one
event; `ReceiveOverrun` is ENOBUFS; `PrintFails` is the panic of `println!`
on a closed standard output. The handler for text and for JSON differ in
whether routes show an interface. `BridgePortRemoved` is the RTM_DELLINK of the
bridge family for a port that leaves its bridge, which `parse_link` takes for
the deletion of the interface: the name is forgotten until the next link event.
`log`, `handled` and `trusted` are history.

### Ping

`round` is the loop variable, `queue` the socket's receive queue, `elapsed` the
measurements as pairs of the round and the round that was replied to (the code
keeps only the time). `PollReady`, `PollTimeout` and `PollFails` are the results
of `poll`; `Receive` reads one datagram and counts it if `Matches`. The
network (`Arrive`, `Lose`) acts at any time. `prompt`, `strays` and `unread`
are history.

### GenericNetlink and Hardware

One socket serves all the requests of an enumeration, and no request has a
timeout. `Send` numbers and sends a request; the kernel answers within
sendto and prepares the next pass of a dump when recv has taken a datagram, so
a dump that nobody reads stands still. A datagram is a sequence of messages, of
which the client keeps those with its sequence number (`Own`, picked from the
datagram in their order by `Pick` of `Selection`), and a request is
over by `Complete`. A request that fails leaves its datagrams and the kernel's
dump behind; the kernel refuses another dump meanwhile. `Hardware` keeps the
remaining requests in `agenda`. `Required` are the steps the code ends with `?`;
the others are best effort. A field in `found` carries the query whose answer
filled it, which is history: the bytes have only the sequence number.

`EnumerationSpec` has no requests, sequence numbers or datagrams. Once the required
steps are done (`Stage` of `Hardware` is "queries" as soon as no required request is
left in the agenda), the queries of the listed interfaces are `pending`. The kernel
may hear a query, and the query is settled: its fields are filled, which takes that it
was heard, or stay empty, which takes, while the socket works, that it was not. After a
failure of the socket the kernel may also hear a query that the client gave up. Only
before the first query can the call fail.

### Scan

Addresses have `Width` bits, and `Network`, `HostBounds` and `TotalTargets` are the
arithmetic of `scanner::Network` on them (`TwoTo[b]` is the shift `1 << b`). `TargetsExact` compares it with a definition by bits:
a host address has the leading bits of the network, and its other bits are not
all equal. The selection is an interface, a CIDR or the default; both snapshots
may find any neighbor table.

### Resolver, Traffic, Check, Sockets, Bitset

`Resolver` cuts the list with `div_ceil`, runs a thread per chunk, joins in order
and merges; a thread may panic, and one may fail to start, in which case the
caller unwinds after the others. `Traffic` reads the entries one after the other
in both snapshots while the kernel counts, and while interfaces go, are created, are
moved in from another network namespace and are renamed (`Churn`); the last two bring the
counts they have. `honest` is what moved under a name between its two readings, `taken` are
the names that an interface with counts took. `Check` makes the
observations in the order of the code; `linkSeen`, `gateSeen` and `reached` record
what was the case meanwhile, and the variables of `Ping` are its own.
`Sockets` reads the four tables, walks /proc (a process is listed, its name and
its descriptor are read in different steps), dumps the diagnostics of the same four tables and
looks them up by protocol and endpoints, as processes end and start under reused identifiers.
A table or dump is open from `Open` to `ReadTable` or `Dump`. One that changes in between, and
a dump that the kernel breaks off (`BreakOff`), may be received without any of its rows and with
rows that are gone (`Received`); the command notices neither. `Bitset` decodes
each encoding the kernel has: lists, lists with a mask, with and without names,
and bitmaps cut after the last byte that is not zero.

### Commands

A process dispatches one command of `Dispatched`, which runs to its end; the others keep their
idle state, so that the composition costs the sum of its parts. `Resolves` is the end of a scan
with names: the resolver is called with as many addresses as the report has rows. `Outcome` is how
the command ended, `Status` the exit status of `main`. `PrintFails` is the panic of `println!` and
`eprintln!` on a closed output, at every place where a command prints (`Printing`) and at its end.
The overview ("all") is the sequence of its sections, of which the text tolerates one failure and
JSON none. Deadlock checking says that no command stops before its end.

## 3. Runs

| Run | Question and result |
|---|---|
| `probe` | Two threads, up to four ports, ranges that overlap or are out of order, and each rejected form of argument. In every interleaving each claimed port is held by one thread or is in the results once (`ClaimsAccounted`), the report is exactly the selected ports in order (`ReportComplete`), the command implements `ProbeSpec`, and it ends (`Termination`), also when a thread cannot be created. Holds; 48 756 states. |
| `dump` | Dumps of one to three datagrams with up to two changes of the table at any point, failures at every call and kernels with, without and half without IPv6. Results are exact when no listing was disturbed, failures of the rtnetlink operations surface, the call returns. Holds; 145 677 states. |
| `dump_interrupted` | "Dump functions return point-in-time snapshots. An interrupted dump is surfaced as an I/O error" (`netlink.rs:9`). Violated: the mark of an interrupted dump may be on a record, and only NLMSG_DONE is examined. |
| `dump_diagnostics` | `ip_diagnostics` fails when a dump fails (`sock_diag.rs:189`). Violated: the errno in NLMSG_DONE is not read. |
| `watch` | Two interfaces, three events before, during and after start-up, a receive buffer of two. A label is the name its interface had when the event was sent, unless it was wrong when the socket was bound or a bridge message removed it and no link event corrected it; the stream is gap-free; the command catches up or stops. Holds; 674 348 states. |
| `watch_race` | "Filtered link events are still consumed internally so interface names remain current in later emitted records" (`JSON.md:109`). Violated: names are read before the subscription, and a rename in between is never seen. |
| `ping` | Three rounds, one repeated reply. A measurement belongs to the request's own reply, which came while its round waited; counts are exact until a reply strays or a recv fails; echo ends. Holds; 7 700 states. |
| `ping_late` | A reply that comes while its round waits counts (`ping.rs:66`). Violated: a late reply takes the one read of the next round. |
| `hardware` | Both enumerations over two interfaces and a loopback with rejected requests, aborted dumps and two failing socket calls. A client in recv always has a datagram coming (`NeverStuck`), a field is filled from the answer to its own query (`AnswersBelong`), a successful dump has everything the kernel listed, in order, or the beginning of it if the kernel broke the dump off (`DumpsComplete`), a rejected query costs its own fields (`RejectionsStayLocal`), and every query of every interface is made exactly once (`ImplementsEnumerationSpec`). Holds; 402 984 states. |
| `traffic_renamed` | "Receive or transmit rates and counter deltas over one sample interval" (`traffic.rs:23`). Violated: the readings go by name, and an interface with counts that takes the name between them is reported with what it counted before. |
| `commands` | Each composed command against a machine that changes while it reads, and an output that may be closed. `scan`: exactly the hosts of the networks are probed, once per pass (`TargetsExact`), and the report tells new neighbors from known ones (`ReportExact`, for addresses that one interface lists); its lookups lose only the chunk of a thread that panicked (`NamesComplete`), and however the command ends, none of its threads is left running (`ThreadsJoined`). `traffic`: a rate is no more than what moved under its name between the readings, unless an interface took the name with counts (`RatesHonest`). `check`: the verdict rests on what was the case while it looked (`VerdictJustified`). `sockets`: what a process holds throughout is listed with no other's process, name or diagnostics, and with its own where nothing intervened (`SteadyListed`). Bit sets: masks, bitmaps and lists with names decode to the bits set (`BitsetExact`). Holds; 2 503 954 states, two to three minutes. |
| `scan_routed` | "The scanner refuses routed CIDRs" (`README.md:124`). Violated: the route of the first address stands for the whole CIDR, which may reach beyond the connected subnet. |

Every property of a passing run has a mutant in `PROJECT.json`: a plausible
mistake in the code under which TLC finds the property violated.

Six more configurations show statements of the docs that the code does not keep. They are not
runs of `PROJECT.json`; TLC finds each property violated in a few seconds.

| Configuration (module) | Statement, and how it fails |
|---|---|
| `MCPingUnread` (`Ping`) | "Socket, send, receive, and polling failures are returned as I/O errors" (`ping.rs:68`). A recv that fails counts as a missing reply (`ReceiveFailuresReturned`). |
| `MCHardwareWiphy` (`Hardware`) | "wiphy names ... are queried best effort" (`wifi.rs:140`). A rejected dump of the radios fails the whole enumeration (`WiphyNamesBestEffort`). |
| `MCHardwarePartial` (`Hardware`) | "Returns a passive snapshot of all visible nl80211 interfaces" (`wifi.rs:138`). The errno of an NLMSG_DONE that ends a dump early is not read (`generic_netlink.rs:439`), and the interfaces that were to come are missing (`AllInterfacesReturned`). |
| `MCBitsetList` (`Bitset`) | "the presence of a bit entry means it is selected" and "Some replies carry only indices" (`ethtool.rs:422`, `ethtool.rs:462`). The selection by index (`ethtool.rs:482`) asks for a value flag in a list too, and a list without names decodes to nothing (`IndexListsNamed`). |
| `MCScanChanged` (`MCScan`) | "whether the address/link-address pair changed during this scan" (`JSON.md:63`). The first snapshot is keyed by the address alone, so that one address on two interfaces counts as changed when nothing did (`ChangedTellsPairs`). |
| `MCCommandsLookups` (`MCCommands`) | "best-effort NSS reverse name" (`JSON.md:61`). A lookup thread that cannot be created ends a finished scan with a panic (`LookupsBestEffort`). |

### Bounds

- `probe`: two threads against four ports is the smallest pool in which a
  thread claims again while another holds a claim, and in which both overshoot
  the list. The proofs remove the bound.
- `dump`: datagrams of two records and tables of up to four give listings of
  zero, one, exactly two and more datagrams; two datagrams ahead of the client
  let a change fall between preparing and reading one; two changes let a record
  go and another come.
- `watch`: two indexes and two names allow a rename, an exchange of names
  through a deletion, and the reuse of an index; three events exceed the buffer
  of two.
- `hardware`: with two interfaces a query follows the failed query of another
  interface; two faults let a request fail whose predecessor also failed.
- `commands`: four bits give networks of every prefix, of which that of 0
  exceeds `MaxTargets` = 6 and that of 1 reaches it; 3 and 4 are the point-to-point and single-host
  cases; two passes tell a pass from the scan. Three neighbors to look up for two workers give chunks of
  unequal length. Two packets, two changes (`MaxChurn`) and two interfaces, of which those that do not
  start at zero have counted one (`Lifetimes`), let a name be removed and then created, or taken
  by another interface, between the readings. Two processes with one change or broken-off dump
  (`MaxTurnover`) end, start or reuse an identifier at any point of a table, the walk or a dump; the
  sockets include two listeners on one port, one of them of a process that /proc does not show. Three
  rounds of echo are what the code sends; the resolver lists have no server, and a name before an
  address. Four bits in bytes of two cross a byte. The proofs remove all of these.
- `ping`: three rounds let a late reply displace a prompt one and the displaced
  one displace another; the sequence numbers wrap at 4, above the rounds. The
  proofs remove these bounds up to the wrap at 2^16.

Deadlock is checked in every run but `traffic_renamed` and `scan_routed`, whose modules have no
action for an ended command; in the others it stutters by an action of its own.

### Fairness

- `probe`: weak fairness for the main thread and for every spawned thread.
  Threads are preemptively scheduled, connect has a timeout, and name
  resolution and route lookup are assumed to return.
- `dump`: weak fairness for the kernel's next pass and for the client. The code
  sets no receive timeout and relies on the kernel finishing a dump.
- `watch`: weak fairness for the command; none for the kernel, whose events are
  finite in a behaviour.
- `ping`: weak fairness for `echo`; none for the network, because poll has a
  timeout.
- `hardware`, `commands`: none. They are checked for safety and deadlock.

No failure action is fair on its own.

## 4. Proofs

`Probe_proofs` proves, for every set of PORTS arguments, every list of destinations
and every pool size (`ProbeAssumption`):

- `TypeCorrect`: `Spec => []TypeOK`, including that the counter passes the end of the
  list by at most one per thread;
- `ClaimsAreAccounted`: `Spec => []ClaimsAccounted`;
- `ReportIsComplete`: `Spec => []ReportComplete`;
- `Refinement`: `Spec => ImplementsProbeSpec`.

None of the properties is inductive alone. `IInv` adds that the port list is
what the argument selects (`PortsParsed`), which variables are untouched in
which phase (`PhaseOK`), that a thread's result is for the port it claimed and
that a thread exits only when the list is exhausted (`PoolOK`), that the report
holds what was collected (`ReportOK`), and that only exited threads overshoot
(`OvershootOK`), which bounds the counter. When all threads have exited, no
claim is held and the counter is past the list, so `ClaimsAccounted` says that
every port has its result. In the refinement, spawning, pushing and joining are
stutters, and a panic is the abstract `Die`, which needs every attempt to have
ended; the connection limit follows because the open attempts are an image of
the threads, of which there are at most `PoolTarget`.

`Ping_proofs` proves, for any number of requests up to the wrap of the sequence
numbers and any number of repeated replies (`PingAssumption`):

- `TypeCorrect`, `OwnRepliesMeasured` (`MeasuresOwnReply`) and `CountsAreExact`
  (`ExactUntilStray`).

`IInv` adds that replies exist only for requests that were sent and that a queued
reply to the waiting round came while it waited (`RepliesOK`), and that without
strays the queue is empty or holds just the waiting round's reply (`QueueOK`).
Below the modulus a sequence number determines its round (`SequenceIsRound`).

The first round has no earlier replies in its way (`FirstOK`): `FirstReplyIsCounted`
says that its reply is counted, which the run `ping_late` shows to fail for the
later ones.

`Watch_proofs` proves, for every set of interfaces and names, every buffer size and
any number of kernel events (`WatchAssumption`):

- `TypeCorrect`, `LabelsStayCurrent` (`LabelsCurrent`) and `Refinement`
  (`Spec => ImplementsWatchSpec`).

Nothing reaches the socket before it is bound (`PhaseOK`); afterwards the buffer is the
part of the log that follows the handled events, unless one was dropped
(`StreamOK`), from which the refinement follows. For the labels the invariant looks
ahead: `NamesOK` says of each event in the buffer that a handler which has worked off
those before it will know the interface by the name of the moment the event was
sent (`Tells`), and knows the current name after the last one.

`Hardware_proofs` proves, for every finite set of interfaces and any number of
failing socket calls (`GenericNetlinkAssumption`, `HardwareAssumption`):

- `TypeCorrect`, `NoStall` (`NeverStuck`), `FieldsBelong` (`AnswersBelong`), `DumpsWhole`
  (`DumpsComplete`), `RejectionsLocal` (`RejectionsStayLocal`) and the refinement
  `EnumerationKept` (`ImplementsEnumerationSpec`).

`TransportOK` is about the socket: every datagram answers one request, only the
current request has the current number (`QueueOK`); the kernel's dump always has a
datagram in the queue, so that the next recv drives it on (`DumpOK`); and a waiting
client will see the end of its request (`WaitOK`), which is `NeverStuck`. `AgendaOK` ties
the program to it: the request being made is the head of the agenda (`AtRequest`),
what was answered is noted (`NotedOK`), and only a required step ends the call
(`CulpritOK`). For `DumpsComplete`, what was collected and what the queue still has
of the current request are the first entries of its listing in order (`Aligned`),
and the kernel will send the others (`Remaining`). For `RejectionsStayLocal`, nothing is left
behind while the socket works (`CleanOK`) and the fields found are the useful answers
(`AnsweredOK`, `FoundOK`).

The refinement needs that nothing is asked twice, which none of these says. Its
invariant `RInv` adds that the requests still in the agenda differ from each other and
are the steps the program has left (`PlanOK`, `Differ`); that a listing names each
interface once (`ListedOK`), and so also what was collected of it, from which the agenda
is made (`EachOnce`); that a dump which the kernel still sends after its
request was given up is of a required step or of one of these queries (`AbandonedOK`); and that fields are
filled only from queries the kernel heard (`HeardOK`). Then the queries put in the
agenda are each interface with each query once (`QueriesOnce`), taking the head off
the agenda removes exactly that query from the pending ones, and every step of
`Hardware` is a step of `EnumerationSpec` or a stutter (`NextRefines`).

`NetlinkDump_proofs` proves, for every finite set of records, any size of a pass, any
buffer and any number of changes of the table (`DumpAssumption`):

- `TypeCorrect`, `FaultsReturned` (`FaultsSurface`) and `Exactness` (`UndisturbedIsExact`).

A failure of an rtnetlink dump is returned or waits in the socket (`FaultOK`).
Exactness needs more (`EInv`): while nothing disturbs a dump, the records parsed and
those in the queue are the beginning of one listing (`StreamOK`); each listing is of a
table the kernel had during the call (`TableOK`); and what the finished dumps and blocks left
is each of their classes as one such table had it (`AccumulatedOK`), through the
family filter of an answer for all families and the sort at the end.

`Commands_proofs` proves, for all values of the constants that `Commands` assumes:

- `TypeCorrect`, `ReportsAreExact`, `NamesAreComplete`, `RatesAreHonest`, `VerdictsAreJustified`,
  `SteadyAreListed`, `BitsetsDecodeExactly`, `ThreadsAreJoined` and `TargetsAreExact`, which is
  every property of the run `commands`.

A step moves one component at most (`Frames`), so each has an invariant of its own:

- Bit sets: the highest set bit bounds the bitmap, and a bit is determined by
  its byte and its position (`Division`, `BitmapExact`).
- Resolver: every position is in the chunk of exactly one worker and there are at
  most `MaxWorkers` chunks (`Ceiling`, `Chunking`); the threads started are the first chunks, a finished thread
  has answered its chunk, and the names are those of the chunks joined.
- Traffic: a second reading of a counter that was not reset exceeds the first by
  what moved between them, and one of a name that no interface with counts took by no more
  (`CountersOK`, `SecondsOK`), and a rate is the quotient.
- Scan: passes and probes in step (`PassesOK`, `SentOK`), from which each address within the
  bounds of a network got one datagram per pass. That the bounds are the hosts by
  their bits is arithmetic on powers of two: the laws of `TwoTo` follow from its
  equation once a function is shown to satisfy it (`PowerLaws`); dividing by 2^b
  takes off b bits one at a time (`Halving`, `BitStep`), so that the leading bits of two
  addresses agree exactly if their quotients do (`LeadingBits`), and the other bits are
  all zero or all one exactly at the two ends of a block (`TrailingBits`, `Block`,
  `CandidatesExact`). Every selected network is such a block inside the space
  (`AreNetworks`), so that none of its bounds leaves the 32 bits. The total is a fold over the list; that the recursion
  behind it has a solution is shown by induction over a set (`SumsExist`), and the
  total is then the number of pairs of a network and one of its hosts
  (`PairsCount`, `TotalExact`). An address that one interface lists is
  known by its pair with the link address if and only if the first snapshot had
  its neighbor (`KnownExactly`).
- Sockets: a socket held since the start is in each table of its kind while that is open, and
  its row was received if the table is not `partial`; its process is found once the
  walk has passed it, never with another's socket, nor with a name but its own or "unknown"; and
  a dump has what its table had, in which only a socket with the same endpoints (`shared`) has the
  same key. None of this says that `available` diagnostics are complete: they are where the dump is
  not `partial`.
- Check: each warning has its reason (`Blame`) and without a warning each observation
  so far was good (`Credit`). The measurement is an instance of `Ping`, and what
  `Ping_proofs` proves is used for it; that a gateway is called silent only if its
  first reply was not there in time is `FirstOK`.
- Threads: a panic of the resolver waits for the threads that run (`UnwoundOK`), none runs before
  the call, after it or after a panic (`NoneRuns`), a finished scan does not move any more, and
  a process ends only before the lookups or when they have ended (`EndedOK`).

The constants are restricted as little as the code allows. Indexes and process
identifiers are positive; a listing is finite (`IsFiniteSet`); a configured interface has an
address of the space and a prefix of at most its `Width`, and the kernel has one
neighbor for each interface and address (`ScanAssumption`); a process that holds a socket sees
its inode (`SocketsAssumption`); and no counter, with what an interface
had counted before, goes beyond 64 bits in a behaviour (`TrafficAssumption`), since the rates saturate there.

Model-checked only: the liveness properties `Termination`, `Returns`, `CatchesUp` and `Ends`,
because liveness under fairness is beyond the proof system. Every invariant and every
action property or refinement of a passing run is a theorem. The induction these
proofs need is over a set of numbers (`NatSetInduction` in `Selection_proofs`), since the
induction theorems of the library take an operator as a parameter; for what a
recursive function computes, a function that satisfies its equation is built
first.

## 5. Not modelled

- Decoding of attributes, flags and addresses beyond what a property needs, text
  and JSON layout, statistics, bit rates and SSIDs: a record is its identity
  and class. Malformed messages are not generated.
- The receive loop of the route lookup, one request and one reply on a socket
  of its own. Its callers (`Probe`, `Scan`, `Check`) have both results.
- In `Watch`, messages `parse_events` does not recognise.
- In `Ping`, times: a measurement is its pair of rounds. The minimum, average
  and maximum are computed from them after the last round. More than 2^16
  requests, which would repeat sequence numbers; both callers send 3. A poll
  that reports an error on a socket without a datagram.
- In `Scan`, changes of the host's own interfaces and routes during a scan.
- In `Traffic`, seven of the eight counters, which are treated alike.
- In `Sockets`, processes with several descriptors. A table that changes while it is read is
  modelled coarsely: after one change any of its rows may be missing.
- In `Bitset`, bitmaps of big-endian machines.
- The commands that print one dump (`links`, `routes`, `neighbors` and others) beyond
  the dump itself, the vendor table, and the library root.

Behaviour the models show that no property excludes:

- `check` takes a neighbor with the gateway's address on any interface.
- The name of a process is read before its descriptors, so that a reused
  identifier can show one process's name for another's socket.
- Diagnostics count as available although a dump was broken off, changed meanwhile, or was refused
  for want of IPv6; then a row may lack its diagnostics. `SteadyListed` claims them for the other
  dumps only; the missing errno is the finding of `dump_diagnostics`.
- A row of a table that changes while it is read may be missing; `sockets` has no way to tell.
- An address that two interfaces list counts as changed if either pair is new (`MCScanChanged`);
  `ReportExact` leaves such addresses out.
- Any command that prints ends with status 101 when its output has been closed.

## 6. Plan

What is left is the receive loop of the route lookup beside `NetlinkDump`, with the
proof that its one reply ends it.
