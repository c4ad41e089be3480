----------------------------- MODULE Ping_proofs -----------------------------
(***************************************************************************)
(* Proofs about echo for every number of requests up to 2^16, whatever the *)
(* network loses, delays or repeats.                                       *)
(***************************************************************************)
EXTENDS Ping, SequenceTheorems, TLAPS

(* The request of the current round is out once echo waits.                *)
Sent(k) == k < round \/ (k = round /\ at # "send")

(* Only replies to requests already sent are on their way or queued, and a *)
(* queued reply to the round that waits came while it waited.              *)
RepliesOK ==
  /\ \A k \in air : Sent(k)
  /\ \A i \in DOMAIN queue : Sent(queue[i])
  /\ at \in {"poll", "recv"} =>
       \A i \in DOMAIN queue : queue[i] = round => round \in prompt
  /\ \A k \in prompt : Sent(k)

(* While nothing strays, the queue holds the waiting round's reply or is   *)
(* empty.                                                                  *)
QueueOK ==
  strays = {} /\ unread = {} =>
    /\ at = "send" => queue = <<>>
    /\ at \in {"poll", "recv"} =>
         queue = IF round \in prompt THEN <<round>> ELSE <<>>

IInv == /\ TypeOK /\ RepliesOK /\ QueueOK
        /\ MeasuresOwnReply /\ ExactUntilStray
        /\ \A m \in elapsed : m[1] < round

(* Numbers below the modulus are their own sequence numbers.               *)
LEMMA SequenceIsRound ==
  ASSUME NEW k \in Nat, NEW n \in Nat, n \in Rounds, k \in Rounds, Sequence(k) = Sequence(n)
  PROVE  k = n
BY PingAssumption DEF Rounds, Sequence

LEMMA InitIInv == Init => IInv
<1> SUFFICES ASSUME Init PROVE IInv
  OBVIOUS
<1>1. TypeOK
  BY PingAssumption DEF Init, TypeOK
<1>2. RepliesOK /\ QueueOK
  BY DEF Init, RepliesOK, QueueOK
<1>3. MeasuresOwnReply /\ \A m \in elapsed : m[1] < round
  BY DEF Init, MeasuresOwnReply
<1>4. ExactUntilStray
  BY DEF Init, ExactUntilStray, Rounds
<1> QED BY <1>1, <1>2, <1>3, <1>4 DEF IInv

(* What both appends and heads need to know of the queue.                  *)
LEMMA AppendQueue ==
  ASSUME NEW q \in Seq(Rounds), NEW k \in Rounds
  PROVE  /\ Append(q, k) \in Seq(Rounds)
         /\ Append(q, k) # <<>>
         /\ \A i \in DOMAIN Append(q, k) :
              Append(q, k)[i] = k \/ \E j \in DOMAIN q : Append(q, k)[i] = q[j]
         /\ q = <<>> => Append(q, k) = <<k>>
<1>1. /\ Append(q, k) \in Seq(Rounds) /\ Append(q, k) # <<>>
      /\ Len(q) \in Nat /\ DOMAIN q = 1..Len(q)
      /\ DOMAIN Append(q, k) = 1..(Len(q) + 1)
      /\ \A i \in 1..Len(q) : Append(q, k)[i] = q[i]
      /\ Append(q, k)[Len(q) + 1] = k
  BY AppendProperties, LenProperties
<1>2. ASSUME NEW i \in DOMAIN Append(q, k)
      PROVE  Append(q, k)[i] = k \/ \E j \in DOMAIN q : Append(q, k)[i] = q[j]
  <2>1. i \in DOMAIN q \/ i = Len(q) + 1
    BY <1>1
  <2> QED BY <1>1, <2>1
<1>3. q = <<>> => Append(q, k) = <<k>>
  OBVIOUS
<1> QED BY <1>1, <1>2, <1>3

LEMMA TailQueue ==
  ASSUME NEW q \in Seq(Rounds), q # <<>>
  PROVE  /\ Tail(q) \in Seq(Rounds)
         /\ 1 \in DOMAIN q
         /\ Head(q) = q[1] /\ Head(q) \in Rounds
         /\ \A i \in DOMAIN Tail(q) : \E j \in DOMAIN q : Tail(q)[i] = q[j]
         /\ \A k : q = <<k>> => Tail(q) = <<>> /\ Head(q) = k
<1>1. Len(q) \in Nat \ {0} /\ DOMAIN q = 1..Len(q)
  BY EmptySeq, LenProperties
<1>2. Tail(q) \in Seq(Rounds) /\ Head(q) \in Rounds /\ Head(q) = q[1]
  BY HeadTailProperties
<1>3. \A i \in DOMAIN Tail(q) : i + 1 \in DOMAIN q /\ Tail(q)[i] = q[i + 1]
  BY <1>1, HeadTailProperties
<1>4. \A k : q = <<k>> => Tail(q) = <<>> /\ Head(q) = k
  OBVIOUS
<1> QED BY <1>1, <1>2, <1>3, <1>4

(* A reply is prompt only in the branch that leaves strays alone.          *)
LEMMA ArriveIInv ==
  ASSUME IInv, NEW k \in Rounds, Arrive(k)
  PROVE  IInv'
<1> USE DEF Unobserved
<1>1. TypeOK /\ RepliesOK /\ QueueOK /\ MeasuresOwnReply /\ ExactUntilStray
  BY DEF IInv
<1>q. queue' = Append(queue, k) /\ queue \in Seq(Rounds) /\ round \in Nat
  BY <1>1, PingAssumption DEF Arrive, TypeOK
<1>s. Sent(k)
  BY <1>1 DEF Arrive, RepliesOK
<1>2. TypeOK'
  <2>1. queue' \in Seq(Rounds) /\ queue' # <<>>
    BY <1>q, AppendQueue
  <2>2. duplicates' \in 0..MaxDuplicates
    BY <1>1, PingAssumption DEF Arrive, TypeOK
  <2>3. air' \subseteq Rounds /\ prompt' \subseteq Rounds /\ strays' \subseteq Rounds
    BY <1>1 DEF Arrive, TypeOK
  <2> QED BY <1>1, <2>1, <2>2, <2>3 DEF Arrive, TypeOK
<1>3. \A n : Sent(n) => Sent(n)'
  BY DEF Arrive, Sent
<1>4. RepliesOK'
  <2>1. (\A n \in air : Sent(n))'
    BY <1>1, <1>3 DEF Arrive, RepliesOK
  <2>2. (\A i \in DOMAIN queue : Sent(queue[i]))'
    BY <1>1, <1>3, <1>s, <1>q, AppendQueue DEF RepliesOK
  <2>3. ASSUME at' \in {"poll", "recv"}, NEW i \in DOMAIN queue', queue'[i] = round'
        PROVE  round' \in prompt'
    <3>1. CASE k = round
      BY <2>3, <3>1 DEF Arrive
    <3>2. CASE k # round
      <4>1. PICK j \in DOMAIN queue : queue'[i] = queue[j]
        BY <2>3, <3>2, <1>q, AppendQueue DEF Arrive
      <4> QED BY <4>1, <2>3, <1>1 DEF Arrive, RepliesOK
    <3> QED BY <3>1, <3>2
  <2>4. (\A n \in prompt : Sent(n))'
    BY <1>1, <1>3, <1>s DEF Arrive, RepliesOK
  <2> QED BY <2>1, <2>2, <2>3, <2>4 DEF RepliesOK
<1>5. strays' = {} => /\ strays = {} /\ k = round /\ at \in {"poll", "recv"}
                      /\ k \notin prompt /\ prompt' = prompt \union {k}
  BY DEF Arrive
<1>6. QueueOK'
  <2> SUFFICES ASSUME strays' = {}, unread' = {}
               PROVE  queue' = <<round>> /\ round \in prompt'
    BY <1>5 DEF Arrive, QueueOK
  <2>1. queue = <<>>
    BY <1>1, <1>5 DEF QueueOK, Arrive
  <2> QED BY <2>1, <1>q, <1>5, AppendQueue
<1>7. MeasuresOwnReply' /\ (\A m \in elapsed : m[1] < round)'
  <2>1. prompt \subseteq prompt' /\ elapsed' = elapsed /\ round' = round
    BY DEF Arrive
  <2> QED BY <1>1, <2>1 DEF MeasuresOwnReply, IInv
<1>8. ExactUntilStray'
  <2> SUFFICES ASSUME strays' = {}, unread' = {}, NEW n \in Rounds, n < round
               PROVE  n \in Counted <=> n \in prompt'
    BY DEF Arrive, ExactUntilStray, Counted
  <2>1. n # round
    BY <1>q DEF Rounds
  <2> QED BY <1>1, <1>5, <2>1 DEF ExactUntilStray, Arrive
<1> QED BY <1>2, <1>4, <1>6, <1>7, <1>8 DEF IInv

LEMMA LoseIInv ==
  ASSUME IInv, NEW k \in Rounds, Lose(k)
  PROVE  IInv'
<1> USE DEF Lose, Unobserved
<1>1. TypeOK /\ RepliesOK /\ QueueOK /\ MeasuresOwnReply /\ ExactUntilStray
  BY DEF IInv
<1>2. TypeOK'
  BY <1>1 DEF TypeOK
<1>3. RepliesOK'
  BY <1>1 DEF RepliesOK, Sent
<1>4. QueueOK'
  BY <1>1 DEF QueueOK
<1>5. MeasuresOwnReply' /\ ExactUntilStray'
  BY <1>1 DEF MeasuresOwnReply, ExactUntilStray, Counted
<1> QED BY <1>2, <1>3, <1>4, <1>5 DEF IInv

(* Nothing is queued for the round that starts to wait.                    *)
LEMMA SendIInv ==
  ASSUME IInv, Send
  PROVE  IInv'
<1> USE DEF Send
<1>1. TypeOK /\ RepliesOK /\ QueueOK /\ MeasuresOwnReply /\ ExactUntilStray
  BY DEF IInv
<1>r. round \in Nat /\ round \in Rounds /\ prompt \subseteq Rounds /\ queue \in Seq(Rounds)
  BY <1>1, PingAssumption DEF TypeOK, Rounds
<1>2. TypeOK'
  BY <1>1, <1>r DEF TypeOK
<1>3. round \notin prompt /\ \A i \in DOMAIN queue : queue[i] # round
  <2>1. ~Sent(round)
    BY <1>r DEF Sent
  <2> QED BY <1>1, <2>1 DEF RepliesOK
<1>4. RepliesOK'
  <2>1. Sent(round)' /\ \A n : Sent(n) => Sent(n)'
    BY DEF Sent
  <2> QED BY <1>1, <1>3, <2>1 DEF RepliesOK
<1>5. QueueOK'
  BY <1>1, <1>3 DEF QueueOK
<1>6. MeasuresOwnReply' /\ ExactUntilStray'
  BY <1>1 DEF MeasuresOwnReply, ExactUntilStray, Counted
<1> QED BY <1>2, <1>4, <1>5, <1>6 DEF IInv

(* Returning, from the send or from the poll, leaves the data alone.       *)
LEMMA ReturnIInv ==
  ASSUME IInv, NEW r \in {"ok", "error"}, at \in {"send", "poll"}, Return(r)
  PROVE  IInv'
<1> USE DEF Return
<1>1. TypeOK /\ RepliesOK /\ QueueOK /\ MeasuresOwnReply /\ ExactUntilStray
  BY DEF IInv
<1>2. TypeOK'
  BY <1>1 DEF TypeOK
<1>3. RepliesOK'
  BY <1>1 DEF RepliesOK, Sent
<1>4. QueueOK'
  BY <1>1 DEF QueueOK
<1>5. MeasuresOwnReply' /\ ExactUntilStray'
  BY <1>1 DEF MeasuresOwnReply, ExactUntilStray, Counted
<1> QED BY <1>2, <1>3, <1>4, <1>5 DEF IInv

LEMMA PollReadyIInv ==
  ASSUME IInv, PollReady
  PROVE  IInv'
<1> USE DEF PollReady
<1>1. TypeOK /\ RepliesOK /\ QueueOK /\ MeasuresOwnReply /\ ExactUntilStray
  BY DEF IInv
<1>2. TypeOK'
  BY <1>1 DEF TypeOK
<1>3. RepliesOK'
  BY <1>1 DEF RepliesOK, Sent
<1>4. QueueOK'
  BY <1>1 DEF QueueOK
<1>5. MeasuresOwnReply' /\ ExactUntilStray'
  BY <1>1 DEF MeasuresOwnReply, ExactUntilStray, Counted
<1> QED BY <1>2, <1>3, <1>4, <1>5 DEF IInv

(* What every step to the next round has in common.                        *)
LEMMA NextRoundKeeps ==
  ASSUME IInv, NextRound, at \in {"poll", "recv"}
  PROVE  /\ round \in Nat /\ round \in Rounds
         /\ round' = round + 1 /\ round' \in 0..Count /\ at' = "send"
         /\ \A n \in Rounds : Sent(n) => Sent(n)'
         /\ \A n \in Rounds : n < round' <=> n < round \/ n = round
         /\ round \notin Counted
<1>1. TypeOK
  BY DEF IInv
<1>2. round \in Nat /\ round \in Rounds /\ round' \in 0..Count
  BY <1>1, PingAssumption DEF TypeOK, Rounds, NextRound
<1>3. round \notin Counted
  BY <1>2 DEF IInv, Counted
<1> QED BY <1>2, <1>3, PingAssumption DEF NextRound, Sent, Rounds

(* A timeout means that nothing came: the round is not in prompt unless    *)
(* some reply strayed.                                                     *)
LEMMA PollTimeoutIInv ==
  ASSUME IInv, PollTimeout
  PROVE  IInv'
<1> USE DEF PollTimeout
<1>1. TypeOK /\ RepliesOK /\ QueueOK /\ MeasuresOwnReply /\ ExactUntilStray
  BY DEF IInv
<1>r. /\ round \in Nat /\ round \in Rounds
      /\ round' = round + 1 /\ round' \in 0..Count /\ at' = "send"
      /\ \A n \in Rounds : Sent(n) => Sent(n)'
      /\ \A n \in Rounds : n < round' <=> n < round \/ n = round
      /\ round \notin Counted
  BY NextRoundKeeps
<1>2. TypeOK'
  BY <1>1, <1>r DEF TypeOK
<1>3. RepliesOK'
  BY <1>1, <1>r DEF RepliesOK, TypeOK
<1>4. QueueOK'
  BY <1>1, <1>r DEF QueueOK
<1>5. MeasuresOwnReply' /\ (\A m \in elapsed : m[1] < round)'
  <2>1. \A m \in elapsed : m[1] \in Nat /\ m[1] < round
    BY <1>1 DEF IInv, TypeOK, Rounds
  <2> QED BY <1>1, <1>r, <2>1 DEF MeasuresOwnReply
<1>6. ExactUntilStray'
  <2> SUFFICES ASSUME strays = {}, unread = {}, NEW n \in Rounds, n < round'
               PROVE  n \in Counted <=> n \in prompt
    BY DEF ExactUntilStray, Counted
  <2>1. round \notin prompt
    BY <1>1 DEF QueueOK
  <2> QED BY <1>1, <1>r, <2>1 DEF ExactUntilStray
<1> QED BY <1>2, <1>3, <1>4, <1>5, <1>6 DEF IInv

(* The one step that measures: a matching number is the round's own, and   *)
(* RepliesOK says that its reply came in time.                             *)
LEMMA ReceiveIInv ==
  ASSUME IInv, Receive
  PROVE  IInv'
<1>1. TypeOK /\ RepliesOK /\ QueueOK /\ MeasuresOwnReply /\ ExactUntilStray
  BY DEF IInv
<1>r. /\ round \in Nat /\ round \in Rounds
      /\ round' = round + 1 /\ round' \in 0..Count /\ at' = "send"
      /\ \A n \in Rounds : Sent(n) => Sent(n)'
      /\ \A n \in Rounds : n < round' <=> n < round \/ n = round
      /\ round \notin Counted
  BY NextRoundKeeps DEF Receive
<1>q. /\ at = "recv" /\ queue \in Seq(Rounds) /\ queue # <<>>
      /\ queue' = Tail(queue)
      /\ UNCHANGED <<air, outcome, duplicates, prompt, strays, unread>>
  BY <1>1 DEF TypeOK, Receive
<1>t. /\ Tail(queue) \in Seq(Rounds)
      /\ 1 \in DOMAIN queue
      /\ Head(queue) = queue[1] /\ Head(queue) \in Rounds
      /\ \A i \in DOMAIN Tail(queue) : \E j \in DOMAIN queue : Tail(queue)[i] = queue[j]
      /\ \A k : queue = <<k>> => Tail(queue) = <<>> /\ Head(queue) = k
  BY <1>q, TailQueue
<1>h. Matches(Head(queue)) => Head(queue) = round /\ round \in prompt
  <2>1. ASSUME Matches(Head(queue)) PROVE Head(queue) = round
    <3>1. Head(queue) \in Nat
      BY <1>t DEF Rounds
    <3> QED BY <2>1, <3>1, <1>r, <1>t, SequenceIsRound DEF Matches
  <2> QED BY <2>1, <1>1, <1>q, <1>t DEF RepliesOK
<1>e. elapsed' = elapsed \/ (elapsed' = elapsed \union {<<round, round>>} /\ round \in prompt)
  BY <1>h DEF Receive
<1>2. TypeOK'
  <2>1. elapsed' \subseteq Rounds \X Rounds
    BY <1>e, <1>1, <1>r DEF TypeOK
  <2> QED BY <1>1, <1>r, <1>q, <1>t, <2>1 DEF TypeOK
<1>3. RepliesOK'
  <2>1. (\A i \in DOMAIN queue : Sent(queue[i]))'
    <3> SUFFICES ASSUME NEW i \in DOMAIN queue' PROVE queue'[i] < round'
      BY DEF Sent
    <3>1. PICK j \in DOMAIN queue : queue'[i] = queue[j]
      BY <1>q, <1>t
    <3>2. queue[j] \in Rounds /\ Sent(queue[j])
      BY <1>1, <1>q DEF RepliesOK
    <3> QED BY <3>1, <3>2, <1>r DEF Sent
  <2>2. (\A n \in air : Sent(n))' /\ (\A n \in prompt : Sent(n))'
    BY <1>1, <1>r, <1>q DEF RepliesOK, TypeOK
  <2> QED BY <2>1, <2>2, <1>r DEF RepliesOK
<1>o. strays = {} /\ unread = {} => queue = <<round>> /\ round \in prompt
  BY <1>1, <1>q DEF QueueOK
<1>4. QueueOK'
  BY <1>o, <1>q, <1>t, <1>r DEF QueueOK
<1>5. MeasuresOwnReply' /\ (\A m \in elapsed : m[1] < round)'
  <2>1. \A m \in elapsed : m[1] \in Nat /\ m[1] < round
    BY <1>1 DEF IInv, TypeOK, Rounds
  <2>2. \A m \in elapsed' : m \in elapsed \/ (m = <<round, round>> /\ round \in prompt)
    BY <1>e
  <2>3. prompt' = prompt
    BY <1>q
  <2>4. (\A m \in elapsed : m[1] < round)'
    BY <1>r, <2>1, <2>2
  <2> QED BY <1>1, <2>2, <2>3, <2>4 DEF MeasuresOwnReply
<1>6. ExactUntilStray'
  <2> SUFFICES ASSUME strays = {}, unread = {}, NEW n \in Rounds, n < round'
               PROVE  n \in Counted' <=> n \in prompt
    BY <1>q DEF ExactUntilStray
  <2>1. elapsed' = elapsed \union {<<round, round>>}
    <3>1. Head(queue) = round
      BY <1>o, <1>t
    <3>2. Matches(Head(queue))
      BY <3>1 DEF Matches
    <3> QED BY <3>1, <3>2 DEF Receive
  <2>2. n \in Counted' <=> n \in Counted \/ n = round
    <3>1. n \in Counted' <=> \E m \in elapsed' : m[1] = n
      BY DEF Counted
    <3>2. n \in Counted <=> \E m \in elapsed : m[1] = n
      BY DEF Counted
    <3>3. (\E m \in elapsed' : m[1] = n) <=> (\E m \in elapsed : m[1] = n) \/ <<round, round>>[1] = n
      BY <2>1
    <3> QED BY <3>1, <3>2, <3>3
  <2> QED BY <1>1, <1>r, <1>o, <2>2 DEF ExactUntilStray
<1> QED BY <1>2, <1>3, <1>4, <1>5, <1>6 DEF IInv

LEMMA ReceiveFailsIInv ==
  ASSUME IInv, ReceiveFails
  PROVE  IInv'
<1>1. TypeOK /\ RepliesOK /\ QueueOK /\ MeasuresOwnReply /\ ExactUntilStray
  BY DEF IInv
<1>r. /\ round \in Nat /\ round \in Rounds
      /\ round' = round + 1 /\ round' \in 0..Count /\ at' = "send"
      /\ \A n \in Rounds : Sent(n) => Sent(n)'
      /\ \A n \in Rounds : n < round' <=> n < round \/ n = round
      /\ round \notin Counted
  BY NextRoundKeeps DEF ReceiveFails
<1>q. /\ unread' = unread \union {round}
      /\ UNCHANGED <<air, queue, elapsed, outcome, duplicates, prompt, strays>>
  BY DEF ReceiveFails
<1>2. TypeOK'
  BY <1>1, <1>r, <1>q DEF TypeOK
<1>3. RepliesOK'
  <2>1. \A i \in DOMAIN queue : queue[i] \in Rounds
    BY <1>1 DEF TypeOK
  <2> QED BY <1>1, <1>r, <1>q, <2>1 DEF RepliesOK, TypeOK
<1>4. QueueOK' /\ ExactUntilStray'
  BY <1>q DEF QueueOK, ExactUntilStray
<1>5. MeasuresOwnReply' /\ (\A m \in elapsed : m[1] < round)'
  <2>1. \A m \in elapsed : m[1] \in Nat /\ m[1] < round
    BY <1>1 DEF IInv, TypeOK, Rounds
  <2> QED BY <1>1, <1>r, <1>q, <2>1 DEF MeasuresOwnReply
<1> QED BY <1>2, <1>3, <1>4, <1>5 DEF IInv

LEMMA NextIInv == IInv /\ [Next]_vars => IInv'
<1> SUFFICES ASSUME IInv, [Next]_vars PROVE IInv'
  OBVIOUS
<1>1. CASE Send
  BY <1>1, SendIInv
<1>2. CASE SendFails
  BY <1>2, ReturnIInv DEF SendFails
<1>3. CASE PollReady
  BY <1>3, PollReadyIInv
<1>4. CASE PollTimeout
  BY <1>4, PollTimeoutIInv
<1>5. CASE PollFails
  BY <1>5, ReturnIInv DEF PollFails
<1>6. CASE Receive
  BY <1>6, ReceiveIInv
<1>7. CASE ReceiveFails
  BY <1>7, ReceiveFailsIInv
<1>8. CASE Finish
  BY <1>8, ReturnIInv DEF Finish
<1>9. CASE Network
  BY <1>9, ArriveIInv, LoseIInv DEF Network
<1>10. CASE OpenFails
  BY <1>10, ReturnIInv DEF OpenFails
<1>11. CASE UNCHANGED vars
  BY <1>11 DEF vars, IInv, TypeOK, RepliesOK, QueueOK, Sent, MeasuresOwnReply,
               ExactUntilStray, Counted
<1> QED BY <1>1, <1>2, <1>3, <1>4, <1>5, <1>6, <1>7, <1>8, <1>9, <1>10, <1>11
        DEF Next, Echo, Failure, Returned

(* The first round has no earlier replies to mistake for its own: unless   *)
(* its recv fails, a reply that comes while it waits is counted. And only  *)
(* a measurement that went through every round returns Ok.                 *)
FirstOK ==
  /\ unread = {} /\ 0 \in prompt =>
       /\ round = 0 /\ at \in {"poll", "recv"} => queue # <<>>
       /\ round > 0 => 0 \in Counted
  /\ outcome = "none" <=> at # "returned"
  /\ outcome = "ok" => round = Count

LEMMA FirstInit == Init => FirstOK
  BY DEF Init, FirstOK

LEMMA FirstNext == IInv /\ FirstOK /\ [Next]_vars => FirstOK'
<1> SUFFICES ASSUME IInv, FirstOK, [Next]_vars PROVE FirstOK'
  OBVIOUS
<1>1. TypeOK /\ RepliesOK /\ round \in Nat /\ queue \in Seq(Rounds)
  BY PingAssumption DEF IInv, TypeOK
<1>2. CASE Send
  <2>1. ASSUME round = 0 PROVE 0 \notin prompt
    BY <1>1, <1>2, <2>1 DEF RepliesOK, Sent, Send
  <2> QED BY <1>1, <1>2, <2>1 DEF Send, FirstOK, Counted
<1>3. CASE \E r \in {"ok", "error"} : Return(r) /\ (r = "ok" => round = Count)
  BY <1>3 DEF Return, FirstOK, Counted
<1>4. CASE PollReady
  BY <1>4 DEF PollReady, FirstOK, Counted
<1>5. CASE PollTimeout
  BY <1>1, <1>5 DEF PollTimeout, NextRound, FirstOK, Counted
<1>6. CASE Receive
  <2>1. /\ at = "recv" /\ queue # <<>> /\ queue' = Tail(queue)
        /\ elapsed' = IF Matches(Head(queue)) THEN elapsed \union {<<round, Head(queue)>>} ELSE elapsed
        /\ round' = round + 1 /\ at' = "send" /\ UNCHANGED <<outcome, prompt, unread>>
    BY <1>1, <1>6 DEF Receive, NextRound, TypeOK
  <2>2. elapsed \subseteq elapsed'
    BY <2>1
  <2>3. ASSUME round = 0 PROVE 0 \in Counted'
    <3>1. Head(queue) \in Rounds /\ 1 \in DOMAIN queue /\ Head(queue) = queue[1]
      BY <1>1, <2>1, TailQueue
    <3>2. Head(queue) = 0
      BY <1>1, <2>1, <2>3, <3>1 DEF RepliesOK, Sent, Rounds
    <3>3. <<0, 0>> \in elapsed'
      BY <2>1, <2>3, <3>2 DEF Matches
    <3> QED BY <3>3 DEF Counted
  <2>4. ASSUME 0 \in Counted PROVE 0 \in Counted'
    BY <2>2, <2>4 DEF Counted
  <2> QED BY <1>1, <2>1, <2>3, <2>4 DEF FirstOK
<1>7. CASE ReceiveFails
  BY <1>1, <1>7 DEF ReceiveFails, NextRound, FirstOK
<1>8. ASSUME NEW k \in Rounds, Arrive(k) PROVE FirstOK'
  <2>1. /\ queue' = Append(queue, k) /\ UNCHANGED <<round, at, elapsed, outcome, unread>>
        /\ at # "returned"
        /\ \/ k = round /\ at \in {"poll", "recv"} /\ prompt' = prompt \union {k}
           \/ prompt' = prompt
    BY <1>8 DEF Arrive, Unobserved
  <2>2. queue' # <<>>
    BY <1>1, <2>1, AppendQueue
  <2> QED BY <1>1, <2>1, <2>2 DEF FirstOK, Counted
<1>9. ASSUME NEW k \in Rounds, Lose(k) PROVE FirstOK'
  BY <1>9 DEF Lose, Unobserved, FirstOK, Counted
<1>10. CASE UNCHANGED vars
  BY <1>10 DEF vars, FirstOK, Counted
<1>11. CASE OpenFails \/ SendFails \/ PollFails \/ Finish
  BY <1>3, <1>11 DEF OpenFails, SendFails, PollFails, Finish
<1> QED BY <1>2, <1>4, <1>5, <1>6, <1>7, <1>8, <1>9, <1>10, <1>11
        DEF Next, Echo, Failure, Network, Returned

LEMMA Invariance == Spec => []IInv
BY InitIInv, NextIInv, PTL DEF Spec

(* echo never reads from a socket without a datagram, and its variables    *)
(* keep their types.                                                       *)
THEOREM TypeCorrect == Spec => []TypeOK
<1>1. IInv => TypeOK
  BY DEF IInv
<1> QED BY <1>1, Invariance, PTL

(* Whatever is lost, late or repeated, a measurement of echo is the time   *)
(* to the request's own reply, which came while its round waited.          *)
THEOREM OwnRepliesMeasured == Spec => []MeasuresOwnReply
<1>1. IInv => MeasuresOwnReply
  BY DEF IInv
<1> QED BY <1>1, Invariance, PTL

(* Up to the first reply that strays or recv that fails, echo counts       *)
(* exactly the rounds whose reply came in time.                            *)
THEOREM CountsAreExact == Spec => []ExactUntilStray
<1>1. IInv => ExactUntilStray
  BY DEF IInv
<1> QED BY <1>1, Invariance, PTL

FirstReplyCounts == unread = {} /\ 0 \in prompt /\ round > 0 => 0 \in Counted

(* However late later replies are, the first reply is not crowded out: a   *)
(* reply that came while the first round waited is counted, unless a recv  *)
(* failed. No other round can be sure of that (see PromptRepliesCount).    *)
THEOREM FirstReplyIsCounted == Spec => []FirstReplyCounts
<1>1. Spec => []FirstOK
  BY FirstInit, FirstNext, Invariance, PTL DEF Spec
<1>2. FirstOK => FirstReplyCounts
  BY DEF FirstOK, FirstReplyCounts
<1> QED BY <1>1, <1>2, PTL
=============================================================================
