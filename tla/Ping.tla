-------------------------------- MODULE Ping --------------------------------
(***************************************************************************)
(* ICMP echo measurements: echo of ping.rs. Each round sends one request,  *)
(* polls the socket once and reads at most one reply, which counts if it   *)
(* carries the sequence number of the round. Meanwhile the network loses,  *)
(* delays and duplicates replies, and a reply that arrives after its round *)
(* waits in the socket for the next.                                       *)
(***************************************************************************)
EXTENDS Naturals, Sequences, FiniteSets

CONSTANTS Count,            \* requests to send
          SequenceModulus,  \* 2^16: sequence numbers are cast to u16
          MaxDuplicates     \* replies the network may deliver twice

(* Both callers ask for 3; beyond 2^16 requests the numbers would repeat.  *)
ASSUME PingAssumption ==
  /\ Count \in Nat
  /\ SequenceModulus \in Nat \ {0}
  /\ Count <= SequenceModulus
  /\ MaxDuplicates \in Nat

VARIABLES
  round,       \* the loop variable `sequence`
  at,          \* "send", "poll", "recv" or "returned"
  air,         \* rounds whose reply may still arrive
  queue,       \* the socket's receive queue: the rounds replied to
  elapsed,     \* the measurements: <<round, the round replied to>>
  outcome,     \* "none", "ok" or "error"
  duplicates,  \* history: replies delivered twice
  prompt,      \* history: rounds whose reply came while they waited
  strays,      \* history: replies that came after their round, or again
  unread       \* history: rounds whose recv failed

vars == <<round, at, air, queue, elapsed, outcome, duplicates, prompt, strays,
          unread>>

Rounds == 0..(Count - 1)
Sequence(k) == k % SequenceModulus
Counted == {m[1] : m \in elapsed}
-----------------------------------------------------------------------------
(* The network.                                                            *)

Unobserved == UNCHANGED <<round, at, elapsed, outcome, unread>>

(* A reply reaches the socket, and perhaps once more later.                *)
Arrive(k) ==
  /\ at # "returned"
  /\ k \in air
  /\ queue' = Append(queue, k)
  /\ \/ air' = air \ {k} /\ UNCHANGED duplicates
     \/ /\ duplicates < MaxDuplicates
        /\ duplicates' = duplicates + 1
        /\ UNCHANGED air
  /\ IF k = round /\ at \in {"poll", "recv"} /\ k \notin prompt
     THEN prompt' = prompt \union {k} /\ UNCHANGED strays
     ELSE strays' = strays \union {k} /\ UNCHANGED prompt
  /\ Unobserved

Lose(k) ==
  /\ k \in air
  /\ air' = air \ {k}
  /\ UNCHANGED <<queue, duplicates, prompt, strays>>
  /\ Unobserved
-----------------------------------------------------------------------------
(* echo                                                                    *)

Init == /\ round = 0
        /\ at = "send"
        /\ air = {}
        /\ queue = <<>>
        /\ elapsed = {}
        /\ outcome = "none"
        /\ duplicates = 0
        /\ prompt = {}
        /\ strays = {}
        /\ unread = {}

Return(r) == /\ outcome' = r
             /\ at' = "returned"
             /\ UNCHANGED <<round, air, queue, elapsed, duplicates, prompt,
                            strays, unread>>

(* socket fails before the first round.                                    *)
OpenFails == at = "send" /\ round = 0 /\ Return("error")

Send == /\ at = "send"
        /\ round < Count
        /\ at' = "poll"
        /\ air' = air \union {round}
        /\ UNCHANGED <<round, queue, elapsed, outcome, duplicates, prompt,
                       strays, unread>>

SendFails == at = "send" /\ round < Count /\ Return("error")

NextRound == round' = round + 1 /\ at' = "send"

(* recv without asking whether poll found anything.                        *)
PollIgnored == /\ at = "poll"
               /\ at' = "recv"
               /\ UNCHANGED <<round, air, queue, elapsed, outcome, duplicates,
                              prompt, strays, unread>>

(* poll finds the socket readable ...                                      *)
PollReady == /\ at = "poll"
             /\ queue # <<>>
             /\ at' = "recv"
             /\ UNCHANGED <<round, air, queue, elapsed, outcome, duplicates,
                            prompt, strays, unread>>

(* A timeout that polls again without moving on.                           *)
PollAgain == at = "poll" /\ queue = <<>> /\ UNCHANGED vars

(* ... or the timeout passes: the round stays unanswered ...               *)
PollTimeout == /\ at = "poll"
               /\ queue = <<>>
               /\ NextRound
               /\ UNCHANGED <<air, queue, elapsed, outcome, duplicates, prompt,
                              strays, unread>>

(* ... or it fails, EINTR included.                                        *)
PollFails == at = "poll" /\ Return("error")

(* Any echo reply taken for the answer.                                    *)
AnyReply(k) == TRUE

(* The number of the round before.                                         *)
MatchesPrevious(k) == Sequence(k) + 1 = Sequence(round)

Matches(k) == Sequence(k) = Sequence(round)

(* One datagram is read, and counts only if it answers this round.         *)
Receive == /\ at = "recv"
           /\ queue' = Tail(queue)
           /\ elapsed' = IF Matches(Head(queue))
                         THEN elapsed \union {<<round, Head(queue)>>}
                         ELSE elapsed
           /\ NextRound
           /\ UNCHANGED <<air, outcome, duplicates, prompt, strays, unread>>

(* recv returns -1, which is less than 8: the round is not counted.        *)
ReceiveFails == /\ at = "recv"
                /\ NextRound
                /\ unread' = unread \union {round}
                /\ UNCHANGED <<air, queue, elapsed, outcome, duplicates, prompt,
                               strays>>

Finish == at = "send" /\ round = Count /\ Return("ok")

Returned == at = "returned" /\ UNCHANGED vars
-----------------------------------------------------------------------------
Echo == Send \/ PollReady \/ PollTimeout \/ Receive \/ Finish
Failure == OpenFails \/ SendFails \/ PollFails \/ ReceiveFails
Network == \E k \in Rounds : Arrive(k) \/ Lose(k)

Next == Echo \/ Failure \/ Network \/ Returned

Spec == Init /\ [][Next]_vars

(* The process is scheduled and poll's timeout passes. Nothing is assumed  *)
(* of the network.                                                         *)
FairSpec == Spec /\ WF_vars(Echo)
-----------------------------------------------------------------------------
(* Every variable keeps its type, recv is only called on a readable        *)
(* socket, and at most one measurement is made per round.                  *)
TypeOK ==
  /\ round \in 0..Count
  /\ at \in {"send", "poll", "recv", "returned"}
  /\ at \in {"poll", "recv"} => round < Count
  /\ at = "recv" => queue # <<>>
  /\ air \subseteq Rounds
  /\ queue \in Seq(Rounds)
  /\ elapsed \subseteq Rounds \X Rounds
  /\ outcome \in {"none", "ok", "error"}
  /\ duplicates \in 0..MaxDuplicates
  /\ prompt \subseteq Rounds /\ strays \subseteq Rounds /\ unread \subseteq Rounds

(* A measurement is the time from a request to its own reply: no late or   *)
(* repeated reply to an earlier request is ever taken for an answer, and   *)
(* what counts as received did come while its round waited.                *)
MeasuresOwnReply == \A m \in elapsed : m[1] = m[2] /\ m[1] \in prompt

(* As long as no reply strays and no recv fails, the rounds behind us      *)
(* counted exactly the replies that came in time.                          *)
ExactUntilStray ==
  strays = {} /\ unread = {} =>
    \A k \in Rounds : k < round => (k \in Counted <=> k \in prompt)

(* A reply that comes while its round waits is counted.                    *)
PromptRepliesCount ==
  unread = {} => \A k \in Rounds : k < round /\ k \in prompt => k \in Counted

(* A failure of recv makes echo fail.                                      *)
ReceiveFailuresReturned == outcome = "ok" => unread = {}

(* Whatever the network does, echo ends.                                   *)
Ends == <>(at = "returned")
=============================================================================
