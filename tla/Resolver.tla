------------------------------ MODULE Resolver ------------------------------
(***************************************************************************)
(* resolver::reverse_names, as the `scan` command calls it for what it     *)
(* reports: the addresses are cut into chunks, a scoped thread looks up    *)
(* each chunk with getnameinfo, and the caller joins the threads in order  *)
(* and merges what they return. The threads run concurrently; one may      *)
(* panic, and a thread may fail to start.                                  *)
(***************************************************************************)
EXTENDS Naturals, FiniteSets

CONSTANTS MaxWorkers,   \* MAX_WORKERS: 8
          MaxAddresses  \* addresses in the longest list

VARIABLES
  total,      \* addresses.len()
  caller,     \* where reverse_names is
  worker,     \* the state of each thread
  answers,    \* what getnameinfo returned for each address
  joined,     \* how many threads have been joined
  names       \* the addresses with a name in the result

vars == <<total, caller, worker, answers, joined, names>>

Positions == 1 .. MaxAddresses
Least(a, b) == IF a < b THEN a ELSE b
Workers == Least(total, MaxWorkers)

(* len / worker_count                                                      *)
FloorChunk == total \div Workers

(* addresses.len().div_ceil(worker_count)                                  *)
ChunkSize == (total + Workers - 1) \div Workers

(* addresses.chunks(chunk_size)                                            *)
Chunks == (total + ChunkSize - 1) \div ChunkSize
Chunk(k) == ((k - 1) * ChunkSize + 1) .. Least(k * ChunkSize, total)

Idle ==
  /\ total = 0
  /\ caller = "idle"
  /\ worker = [k \in Positions |-> "unborn"]
  /\ answers = [i \in Positions |-> "pending"]
  /\ joined = 0
  /\ names = {}

(* The list of addresses; the empty one needs no thread.                   *)
Call ==
  /\ caller = "idle"
  /\ total' \in 0 .. MaxAddresses
  /\ caller' = IF total' = 0 THEN "returned" ELSE "spawning"
  /\ UNCHANGED <<worker, answers, joined, names>>

Born == {k \in Positions : worker[k] # "unborn"}
Running == {k \in Positions : worker[k] = "running"}

Spawn ==
  /\ caller = "spawning"
  /\ LET k == Cardinality(Born) + 1
     IN  /\ worker' = [worker EXCEPT ![k] = "running"]
         /\ caller' = IF k = Chunks THEN "joining" ELSE "spawning"
  /\ UNCHANGED <<total, answers, joined, names>>

(* scope.spawn panics; the scope first waits for the threads it has.       *)
SpawnFails ==
  /\ caller = "spawning"
  /\ caller' = "unwinding"
  /\ UNCHANGED <<total, worker, answers, joined, names>>

(* The panic goes on at once.                                              *)
UnwoundAtOnce ==
  /\ caller = "unwinding"
  /\ caller' = "panic"
  /\ UNCHANGED <<total, worker, answers, joined, names>>

Unwound ==
  /\ caller = "unwinding"
  /\ Running = {}
  /\ caller' = "panic"
  /\ UNCHANGED <<total, worker, answers, joined, names>>

Unanswered(k) == {i \in Chunk(k) : answers[i] = "pending"}

(* reverse_name of the next address of the chunk.                          *)
Lookup(k) ==
  /\ worker[k] = "running"
  /\ Unanswered(k) # {}
  /\ \E answer \in {"name", "none"} :
       answers' = [answers EXCEPT
         ![CHOOSE i \in Unanswered(k) : \A j \in Unanswered(k) : i <= j] = answer]
  /\ UNCHANGED <<total, caller, worker, joined, names>>

Finish(k) ==
  /\ worker[k] = "running"
  /\ Unanswered(k) = {}
  /\ worker' = [worker EXCEPT ![k] = "finished"]
  /\ UNCHANGED <<total, caller, answers, joined, names>>

Panic(k) ==
  /\ worker[k] = "running"
  /\ worker' = [worker EXCEPT ![k] = "panicked"]
  /\ UNCHANGED <<total, caller, answers, joined, names>>

Resolved(k) == {i \in Chunk(k) : answers[i] = "name"}

(* handle.join() of the next thread, and names.extend if it returned.      *)
Join ==
  /\ caller = "joining"
  /\ joined < Chunks
  /\ worker[joined + 1] \in {"finished", "panicked"}
  /\ names' = IF worker[joined + 1] = "finished"
              THEN names \union Resolved(joined + 1) ELSE names
  /\ joined' = joined + 1
  /\ UNCHANGED <<total, caller, worker, answers>>

Return ==
  /\ caller = "joining"
  /\ joined = Chunks
  /\ caller' = "returned"
  /\ UNCHANGED <<total, worker, answers, joined, names>>

Caller == Call \/ Spawn \/ Unwound \/ Join \/ Return
Thread == \E k \in Positions : Lookup(k) \/ Finish(k)
Failure == SpawnFails \/ \E k \in Positions : Panic(k)
Next == Caller \/ Thread \/ Failure

Ended == caller \in {"returned", "panic"}
Spec == Idle /\ [][Next]_vars
-----------------------------------------------------------------------------
(* Every variable keeps its type.                                          *)
TypeOK ==
  /\ total \in 0 .. MaxAddresses
  /\ caller \in {"idle", "spawning", "joining", "unwinding", "returned", "panic"}
  /\ worker \in [Positions -> {"unborn", "running", "finished", "panicked"}]
  /\ answers \in [Positions -> {"pending", "name", "none"}]
  /\ joined \in 0 .. MaxAddresses

(* Never more threads than the limit; and when reverse_names returns, each *)
(* address was looked up and its name kept, unless the thread of its chunk *)
(* panicked: a panic costs that chunk and no other.                        *)
NamesComplete ==
  /\ Cardinality(Born) <= MaxWorkers
  /\ caller = "returned" =>
       /\ Running = {}
       /\ \A i \in 1 .. total : \E k \in Born :
            /\ i \in Chunk(k)
            /\ worker[k] = "finished" =>
                 /\ answers[i] # "pending"
                 /\ (i \in names) = (answers[i] = "name")
            /\ worker[k] = "panicked" => i \notin names
=============================================================================
