-------------------------- MODULE Components_proofs --------------------------
(***************************************************************************)
(* Proofs about the components that Commands composes: for each, an        *)
(* invariant that its initial state has and its steps keep, and that the   *)
(* properties of Commands follow from.                                     *)
(***************************************************************************)
EXTENDS Commands, Selection_proofs, TLAPS

-----------------------------------------------------------------------------
(* Bitset.                                                                 *)

(* A set of numbers with a bound has a greatest one.                       *)
LEMMA GreatestNat ==
  ASSUME NEW n \in Nat, NEW S \in SUBSET (0 .. n), S # {}
  PROVE  \E m \in S : \A j \in S : j <= m
<1> DEFINE T == {n - i : i \in S}
<1>1. T \in SUBSET Nat /\ T # {}
  <2>1. \A i \in S : n - i \in Nat
    OBVIOUS
  <2> QED BY <2>1
<1>2. PICK t \in T : \A u \in T : t <= u
  <2> HIDE DEF T
  <2> QED BY <1>1, LeastNat
<1>3. PICK m \in S : t = n - m
  OBVIOUS
<1>4. \A j \in S : n - m <= n - j
  BY <1>2, <1>3
<1> HIDE DEF T
<1>5. \A j \in S : j \in Int
  OBVIOUS
<1>6. \A j \in S : j <= m
  BY <1>4, <1>5
<1> QED BY <1>6

(* Quotients keep the order, and a number is determined by its quotient    *)
(* and its remainder.                                                      *)
LEMMA Division ==
  ASSUME NEW d \in Nat \ {0}, NEW i \in Nat, NEW j \in Nat
  PROVE  /\ i \div d \in Nat /\ i % d \in Nat
         /\ i <= j => i \div d <= j \div d
         /\ i \div d = j \div d /\ i % d = j % d => i = j
<1>1. i \div d \in Nat /\ i % d \in Nat
  BY SMTT(30)
<1>2. i <= j => i \div d <= j \div d
  BY SMTT(30)
<1>3. i \div d = j \div d /\ i % d = j % d => i = j
  BY SMTT(30)
<1> QED BY <1>1, <1>2, <1>3

(* The bitmap of a set has its bits, and no others.                        *)
LEMMA BitmapExact ==
  ASSUME NEW s \in SUBSET Bitset!Index, NEW f \in Bitset!Forms, f.kind = "compact",
         NEW i \in Bitset!Index
  PROVE  Bitset!InBitmap(Bitset!Encode(s, f), i) <=> i \in s
<1> DEFINE value == Bitset!Encode(s, f).value
           top == CHOOSE m \in s : \A j \in s : j <= m
           low(b) == {j % ByteBits : j \in {k \in s : k \div ByteBits = b}}
<1>i. \A j \in s \union {i} : j \in Nat
  BY BitsetAssumption DEF Bitset!Index
<1>d. ByteBits \in Nat \ {0}
  BY BitsetAssumption
<1>1. CASE s = {}
  <2>1. value = [b \in {} |-> {}]
    BY <1>1 DEF Bitset!Encode
  <2> QED BY <1>1, <2>1 DEF Bitset!InBitmap
<1>2. CASE s # {}
  <2>1. value = [b \in 0 .. top \div ByteBits |-> low(b)]
    BY <1>2 DEF Bitset!Encode
  <2>2. top \in s /\ \A j \in s : j <= top
    <3>1. \E m \in s : \A j \in s : j <= m
      <4>1. Bits - 1 \in Nat /\ s \in SUBSET (0 .. Bits - 1)
        BY <1>2, BitsetAssumption DEF Bitset!Index
      <4> QED BY <1>2, <4>1, GreatestNat
    <3> QED BY <3>1
  <2> HIDE DEF top
  <2>3. ASSUME i \in s
        PROVE  i \div ByteBits \in 0 .. top \div ByteBits /\ i % ByteBits \in low(i \div ByteBits)
    BY <1>i, <1>d, <2>2, <2>3, Division
  <2>4. ASSUME i % ByteBits \in low(i \div ByteBits)
        PROVE  i \in s
    <3>1. PICK k \in s : k \div ByteBits = i \div ByteBits /\ k % ByteBits = i % ByteBits
      BY <2>4
    <3> QED BY <1>i, <1>d, <3>1, Division
  <2> HIDE DEF low
  <2> QED BY <2>1, <2>3, <2>4 DEF Bitset!InBitmap
<1> QED BY <1>1, <1>2

(* What the decoder finds, for every encoding.                             *)
Meaning(s, f, r) == CASE f.kind = "absent" -> {}
                      [] f.named -> s
                      [] f.kind = "list" /\ ~f.named -> {}
                      [] OTHER -> s \intersect r

LEMMA DecodesExactly ==
  ASSUME NEW s \in SUBSET Bitset!Index, NEW f \in Bitset!Forms, Bitset!Valid(s, f),
         NEW r \in SUBSET Bitset!Index
  PROVE  Bitset!NamesWithReference(Bitset!Encode(s, f), r) = Meaning(s, f, r)
<1> DEFINE a == Bitset!Encode(s, f)
           found == Bitset!SelectedNames(a)
           indices == Bitset!SelectedIndices(a)
           bitmap == {i \in r : Bitset!InBitmap(a, i)}
<1>1. Bitset!NamesWithReference(a, r) =
        IF found # {} THEN found
        ELSE IF indices # {} THEN r \intersect indices ELSE bitmap
  BY Zenon DEF Bitset!NamesWithReference
<1>2. f.kind # "compact" => bitmap = {}
  <2>1. f.kind # "compact" => a.value = [b \in {} |-> {}]
    BY DEF Bitset!Encode
  <2> QED BY <2>1 DEF Bitset!InBitmap
<1>3. f.kind = "compact" => bitmap = r \intersect s
  BY BitmapExact
<1>4. f.kind \in {"compact", "absent"} => found = {} /\ indices = {} /\ f.named = FALSE
  <2>1. f.kind \in {"compact", "absent"} => a.bits = {}
    BY DEF Bitset!Encode
  <2>2. f.kind \in {"compact", "absent"} => f.named = FALSE
    BY Zenon DEF Bitset!Forms
  <2> QED BY <2>1, <2>2 DEF Bitset!SelectedNames, Bitset!SelectedIndices
<1>5. ASSUME f.kind = "list" 
      PROVE  (f.named => found = s) /\ (~f.named => found = {}) /\ indices = {}
  <2>1. a.list = TRUE /\ a.bits = {Bitset!Entry(i, f.named, FALSE) : i \in s}
    BY <1>5 DEF Bitset!Encode
  <2> DEFINE E(i) == Bitset!Entry(i, f.named, FALSE)
  <2>2. \A i \in s : /\ E(i) \in a.bits
                          /\ E(i).index = i
                          /\ E(i).named = f.named
                          /\ (E(i).value <=> FALSE)
    <3>1. \A i : /\ E(i).index = i
                 /\ E(i).named = f.named
                 /\ (E(i).value <=> FALSE)
      BY Zenon DEF Bitset!Entry
    <3>2. \A i \in s : E(i) \in {Bitset!Entry(j, f.named, FALSE) : j \in s}
      BY Zenon
    <3> QED BY <2>1, <3>1, <3>2, Zenon
  <2>b. \A e \in a.bits : \E i \in s : e = E(i)
    BY <2>1, Zenon
  <2>n. a.list
    BY <2>1, Zenon
  <2>3. ASSUME ~f.named PROVE found = {}
    <3> SUFFICES ASSUME NEW d \in a.bits, d.named PROVE FALSE
      BY Zenon DEF Bitset!SelectedNames
    <3> HIDE DEF a, E
    <3> QED BY <2>2, <2>3, <2>b, ZenonT(30)
  <2>4. indices = {}
    <3> SUFFICES ASSUME NEW d \in a.bits, d.value PROVE FALSE
      BY Zenon DEF Bitset!SelectedIndices
    <3> HIDE DEF a, E
    <3> QED BY <2>2, <2>b, Zenon
  <2>5. ASSUME f.named PROVE found = s
    <3>1. ASSUME NEW i \in s PROVE i \in found
      <4> HIDE DEF a, E
      <4> QED BY <2>2, <2>5, <2>n, Zenon DEF Bitset!SelectedNames, Bitset!Chosen
    <3>2. ASSUME NEW i \in found PROVE i \in s
      <4>1. PICK d \in a.bits : d.named /\ Bitset!Chosen(a, d) /\ i = d.index
        BY Zenon DEF Bitset!SelectedNames
      <4> HIDE DEF a, E
      <4> QED BY <2>2, <2>b, <4>1, Zenon
    <3> QED BY <3>1, <3>2, Zenon
  <2> QED BY <2>3, <2>4, <2>5
<1>6. ASSUME f.kind = "mask"
      PROVE  (f.named => found = s) /\ (~f.named => found = {}) /\ indices = s
  <2>1. a.list = FALSE /\ a.bits = {Bitset!Entry(i, f.named, i \in s) : i \in f.mask}
    BY <1>6 DEF Bitset!Encode
  <2> DEFINE E(i) == Bitset!Entry(i, f.named, i \in s)
  <2>2. \A i \in f.mask : /\ E(i) \in a.bits
                          /\ E(i).index = i
                          /\ E(i).named = f.named
                          /\ (E(i).value <=> i \in s)
    <3>1. \A i : /\ E(i).index = i
                 /\ E(i).named = f.named
                 /\ (E(i).value <=> i \in s)
      BY Zenon DEF Bitset!Entry
    <3>2. \A i \in f.mask : E(i) \in {Bitset!Entry(j, f.named, j \in s) : j \in f.mask}
      BY Zenon
    <3> QED BY <2>1, <3>1, <3>2, Zenon
  <2>b. \A e \in a.bits : \E i \in f.mask : e = E(i)
    BY <2>1, Zenon
  <2>m. \A i \in s : i \in f.mask
    BY <1>6, Zenon DEF Bitset!Valid
  <2>n. ~a.list
    BY <2>1, Zenon
  <2>3. ASSUME ~f.named PROVE found = {}
    <3> SUFFICES ASSUME NEW d \in a.bits, d.named PROVE FALSE
      BY Zenon DEF Bitset!SelectedNames
    <3> HIDE DEF a, E
    <3> QED BY <2>2, <2>3, <2>b, ZenonT(30)
  <2>4. indices = s
    <3>1. ASSUME NEW i \in s PROVE i \in indices
      <4> HIDE DEF a, E
      <4> QED BY <2>2, <2>m, Zenon DEF Bitset!SelectedIndices
    <3>2. ASSUME NEW i \in indices PROVE i \in s
      <4>1. PICK d \in a.bits : d.value /\ i = d.index
        BY Zenon DEF Bitset!SelectedIndices
      <4> HIDE DEF a, E
      <4> QED BY <2>2, <2>b, <4>1, Zenon
    <3> QED BY <3>1, <3>2, Zenon
  <2>5. ASSUME f.named PROVE found = s
    <3>1. ASSUME NEW i \in s PROVE i \in found
      <4> HIDE DEF a, E
      <4> QED BY <2>2, <2>5, <2>m, Zenon DEF Bitset!SelectedNames, Bitset!Chosen
    <3>2. ASSUME NEW i \in found PROVE i \in s
      <4>1. PICK d \in a.bits : d.named /\ Bitset!Chosen(a, d) /\ i = d.index
        BY Zenon DEF Bitset!SelectedNames
      <4>2. d.value
        <5> HIDE DEF a, E
        <5> QED BY <2>n, <4>1, Zenon DEF Bitset!Chosen
      <4> HIDE DEF a, E
      <4> QED BY <2>2, <2>b, <4>1, <4>2, Zenon
    <3> QED BY <3>1, <3>2, Zenon
  <2> QED BY <2>3, <2>4, <2>5
<1>7. f.kind \in {"list", "mask", "compact", "absent"}
  BY Zenon DEF Bitset!Forms
<1> SUFFICES Bitset!NamesWithReference(a, r) = Meaning(s, f, r)
  BY Zenon
<1> HIDE DEF a, found, indices, bitmap
<1>8. CASE f.kind = "list"
  BY <1>1, <1>2, <1>5, <1>8 DEF Meaning
<1>9. CASE f.kind = "mask"
  BY <1>1, <1>2, <1>6, <1>9 DEF Meaning
<1>10. CASE f.kind = "compact"
  BY <1>1, <1>3, <1>4, <1>10 DEF Meaning
<1>11. CASE f.kind = "absent"
  BY <1>1, <1>2, <1>4, <1>11 DEF Meaning
<1> QED BY <1>7, <1>8, <1>9, <1>10, <1>11

BitsetInv == Bitset!TypeOK /\ Bitset!BitsetExact

LEMMA BitsetInit == Bitset!Idle => BitsetInv
  BY DEF Bitset!Idle, BitsetInv, Bitset!TypeOK, Bitset!BitsetExact, Bitset!Meant

LEMMA BitsetNext == BitsetInv /\ Bitset!Next => BitsetInv'
<1> SUFFICES ASSUME Bitset!Decode PROVE BitsetInv'
  BY Zenon DEF Bitset!Next
<1>1. /\ wanted' \in SUBSET Bitset!Index /\ reference' \in SUBSET Bitset!Index
      /\ form' \in Bitset!Forms /\ Bitset!Valid(wanted', form')
      /\ decoded' = Bitset!NamesWithReference(Bitset!Encode(wanted', form'), reference')
  BY Zenon DEF Bitset!Decode
<1>2. decoded' = Meaning(wanted', form', reference')
  BY <1>1, DecodesExactly, Zenon
<1>3. Bitset!BitsetExact'
  <2>1. ASSUME form'.kind = "list" => form'.named
        PROVE  Meaning(wanted', form', reference') = Bitset!Meant'
    BY <2>1 DEF Bitset!Meant, Meaning
  <2> QED BY <1>2, <2>1, Zenon DEF Bitset!BitsetExact
<1>4. Bitset!TypeOK'
  BY <1>1, Zenon DEF Bitset!TypeOK
<1> QED BY <1>3, <1>4 DEF BitsetInv

-----------------------------------------------------------------------------
(* Resolver.                                                               *)

LEMMA Products ==
  ASSUME NEW c \in Nat, NEW a \in Nat, NEW b \in Nat
  PROVE  /\ a * c \in Nat
         /\ a <= b => a * c <= b * c
         /\ (a + 1) * c = a * c + c
  OBVIOUS

(* Rounded up, a quotient is the least number of pieces that cover a       *)
(* length.                                                                 *)
LEMMA Ceiling ==
  ASSUME NEW n \in Nat \ {0}, NEW c \in Nat \ {0}
  PROVE  LET m == (n + c - 1) \div c
         IN  m \in Nat \ {0} /\ n <= m * c /\ m * c < n + c /\ m <= n
<1> DEFINE m == (n + c - 1) \div c
<1>1. n + c - 1 \in Nat /\ n + c - 1 >= c
  OBVIOUS
<1>2. m \in Nat /\ m * c <= n + c - 1 /\ n + c - 1 < m * c + c
  BY <1>1
<1> HIDE DEF m
<1>3. m # 0
  BY <1>1, <1>2
<1>4. n <= m * c /\ m * c < n + c
  BY <1>2, Products
<1>5. m <= n
  <2> SUFFICES ASSUME n + 1 <= m PROVE FALSE
    BY <1>2
  <2>1. (n + 1) * c <= m * c /\ (n + 1) * c = n * c + c
    BY <1>2, Products
  <2>2. n <= n * c
    OBVIOUS
  <2>3. n * c \in Nat /\ m * c \in Nat
    BY <1>2, Products
  <2> QED BY <1>4, <2>1, <2>2, <2>3
<1> QED BY <1>2, <1>3, <1>4, <1>5 DEF m

(* The chunks cover the list, each address once, and there are no more of  *)
(* them than threads allowed.                                              *)
LEMMA Chunking ==
  ASSUME total \in 1 .. MaxAddresses
  PROVE  /\ Resolver!Chunks \in 1 .. MaxAddresses /\ Resolver!Chunks <= MaxWorkers
         /\ \A k \in 1 .. Resolver!Chunks : Resolver!Chunk(k) \subseteq 1 .. total
         /\ \A i \in 1 .. total : \E k \in 1 .. Resolver!Chunks : i \in Resolver!Chunk(k)
         /\ \A k, l \in 1 .. Resolver!Chunks :
              \A i : i \in Resolver!Chunk(k) /\ i \in Resolver!Chunk(l) => k = l
<1> DEFINE W == Resolver!Workers
           c == Resolver!ChunkSize
           m == Resolver!Chunks
<1>n. total \in Nat \ {0}
  BY ResolverAssumption
<1>1. W \in Nat \ {0} /\ W <= MaxWorkers
  BY <1>n, ResolverAssumption DEF Resolver!Workers, Resolver!Least
<1>2. c \in Nat \ {0} /\ total <= c * W
  BY <1>1, <1>n, Ceiling DEF Resolver!ChunkSize
<1>3. m \in Nat \ {0} /\ total <= m * c /\ m * c < total + c /\ m <= total
  <2>1. m = (total + c - 1) \div c
    BY DEF Resolver!Chunks
  <2> HIDE DEF m, c
  <2> QED BY <1>2, <1>n, <2>1, Ceiling
<1> DEFINE low(k) == (k - 1) * c
<1>5. \A k \in 1 .. m : k - 1 \in Nat /\ k = (k - 1) + 1 /\ k \in Nat
  BY <1>3
<1>6. ASSUME NEW k \in 1 .. m
      PROVE  low(k) \in Nat /\ k * c = low(k) + c
  <2> HIDE DEF m, c
  <2>1. k - 1 \in Nat /\ k = (k - 1) + 1
    BY <1>5
  <2> QED BY <1>2, <2>1, Products
<1>d. ASSUME NEW k \in 1 .. m, NEW i
      PROVE  i \in Resolver!Chunk(k) <=>
               i \in Nat /\ low(k) < i /\ i <= low(k) + c /\ i <= total
  <2>1. Resolver!Chunk(k) = (low(k) + 1) .. (IF k * c < total THEN k * c ELSE total)
    BY Zenon DEF Resolver!Chunk, Resolver!Least
  <2>2. Resolver!Chunk(k) =
          (low(k) + 1) .. (IF low(k) + c < total THEN low(k) + c ELSE total)
    BY <1>6, <2>1, Zenon
  <2> HIDE DEF m, c, low
  <2> QED BY <1>2, <1>6, <1>n, <2>2
<1> HIDE DEF W, c, m
<1>4. m <= W
  <2> SUFFICES ASSUME W + 1 <= m PROVE FALSE
    BY <1>1, <1>3
  <2>1. (W + 1) * c <= m * c /\ (W + 1) * c = W * c + c /\ W * c = c * W
    BY <1>1, <1>2, <1>3, Products
  <2>2. m * c \in Nat /\ W * c \in Nat
    BY <1>1, <1>2, <1>3, Products
  <2> QED BY <1>2, <1>3, <1>n, <2>1, <2>2
<1>7. \A k \in 1 .. m : Resolver!Chunk(k) \subseteq 1 .. total
  <2> HIDE DEF low
  <2> QED BY <1>6, <1>d
<1>8. ASSUME NEW i \in 1 .. total
      PROVE  \E k \in 1 .. m : i \in Resolver!Chunk(k)
  <2> DEFINE k == (i + c - 1) \div c
  <2>i. i \in Nat \ {0}
    BY <1>n
  <2>1. k \in Nat \ {0} /\ i <= k * c /\ k * c < i + c
    BY <1>2, <2>i, Ceiling
  <2> HIDE DEF k
  <2>2. k <= m
    <3> SUFFICES ASSUME m + 1 <= k PROVE FALSE
      BY <1>3, <2>1
    <3>1. (m + 1) * c <= k * c /\ (m + 1) * c = m * c + c
      BY <1>2, <1>3, <2>1, Products
    <3>2. m * c \in Nat /\ k * c \in Nat
      BY <1>2, <1>3, <2>1, Products
    <3> QED BY <1>2, <1>3, <1>n, <2>1, <3>1, <3>2
  <2>3. k \in 1 .. m
    BY <1>3, <2>1, <2>2
  <2>4. i \in Resolver!Chunk(k)
    <3>1. low(k) \in Nat /\ k * c = low(k) + c
      BY <1>6, <2>3
    <3>2. low(k) < i /\ i <= low(k) + c
      <4> HIDE DEF low
      <4> QED BY <1>2, <2>1, <2>i, <3>1
    <3> HIDE DEF low
    <3> QED BY <1>d, <2>3, <2>i, <3>2
  <2> QED BY <2>3, <2>4
<1>9. ASSUME NEW k \in 1 .. m, NEW l \in 1 .. m, k < l, NEW i,
             i \in Resolver!Chunk(k), i \in Resolver!Chunk(l)
      PROVE  FALSE
  <2>1. k * c <= low(l)
    <3>1. k <= l - 1 /\ l - 1 \in Nat /\ k \in Nat
      BY <1>5, <1>9
    <3> QED BY <1>2, <3>1, Products
  <2>2. i \in Nat /\ i <= low(k) + c /\ low(l) < i
    <3> HIDE DEF low
    <3> QED BY <1>9, <1>d
  <2>3. low(k) \in Nat /\ low(l) \in Nat /\ k * c = low(k) + c
    <3> HIDE DEF low
    <3> QED BY <1>6
  <2> HIDE DEF low
  <2> QED BY <1>2, <2>1, <2>2, <2>3
<1>10. \A k, l \in 1 .. m : k < l \/ l < k \/ k = l
  BY <1>3
<1>11. \A k, l \in 1 .. m : \A i :
         i \in Resolver!Chunk(k) /\ i \in Resolver!Chunk(l) => k = l
  BY <1>9, <1>10
<1>12. m \in 1 .. MaxAddresses /\ m <= MaxWorkers
  BY <1>1, <1>3, <1>4, ResolverAssumption
<1> QED BY <1>7, <1>8, <1>11, <1>12 DEF m

(* The threads started are the first ones, in number as far as the caller  *)
(* has come.                                                               *)
SpawnedOK ==
  \E n \in 0 .. Resolver!Chunks :
    /\ Resolver!Born = 1 .. n
    /\ caller = "spawning" => n < Resolver!Chunks
    /\ caller \in {"joining", "returned"} => n = Resolver!Chunks

(* The caller joins when it has started them all, and waits for each.      *)
JoinedOK ==
  /\ joined <= Resolver!Chunks
  /\ caller \notin {"joining", "returned"} => joined = 0
  /\ caller = "returned" => joined = Resolver!Chunks
  /\ \A k \in 1 .. joined : worker[k] \in {"finished", "panicked"}

(* A thread that finished has looked up its chunk.                         *)
AnsweredAll == \A k \in Resolver!Born :
                 worker[k] = "finished" => Resolver!Unanswered(k) = {}

(* The result is what the threads joined so far returned.                  *)
MergedOK ==
  \A i : i \in names <=>
           \E k \in 1 .. joined : worker[k] = "finished" /\ i \in Resolver!Resolved(k)

NamesInv ==
  /\ Resolver!TypeOK
  /\ caller = "idle" => total = 0
  /\ caller \in {"spawning", "joining", "unwinding"} => total # 0
  /\ total = 0 => Resolver!Born = {} /\ joined = 0 /\ names = {}
  /\ total # 0 => SpawnedOK /\ JoinedOK /\ AnsweredAll /\ MergedOK

LEMMA NamesInit == Resolver!Idle => NamesInv
  BY ResolverAssumption DEF Resolver!Idle, NamesInv, Resolver!TypeOK, Resolver!Born

LEMMA SameChunks ==
  ASSUME UNCHANGED total
  PROVE  Resolver!Chunks' = Resolver!Chunks /\ \A k : Resolver!Chunk(k)' = Resolver!Chunk(k)
  BY Zenon DEF Resolver!Chunks, Resolver!ChunkSize, Resolver!Workers, Resolver!Least, Resolver!Chunk

LEMMA NamesCall == NamesInv /\ Resolver!Call => NamesInv'
<1> SUFFICES ASSUME NamesInv, Resolver!Call PROVE NamesInv'
  OBVIOUS
<1>1. /\ Resolver!TypeOK /\ Resolver!Born = {} /\ joined = 0 /\ names = {}
      /\ total' \in 0 .. MaxAddresses
      /\ caller' = IF total' = 0 THEN "returned" ELSE "spawning"
      /\ UNCHANGED <<worker, answers, joined, names>>
  BY DEF NamesInv, Resolver!Call
<1>2. Resolver!TypeOK' /\ Resolver!Born' = {}
  BY <1>1 DEF Resolver!TypeOK, Resolver!Born
<1>3. ASSUME total' # 0
      PROVE  (SpawnedOK /\ JoinedOK /\ AnsweredAll /\ MergedOK)'
  <2>1. Resolver!Chunks' \in Nat \ {0}
    <3>1. (total \in 1 .. MaxAddresses => Resolver!Chunks \in 1 .. MaxAddresses)'
      BY Chunking, PTL
    <3>2. total' \in 1 .. MaxAddresses
      BY <1>1, <1>3, ResolverAssumption
    <3> QED BY <3>1, <3>2, ResolverAssumption
  <2>2. SpawnedOK'
    <3>1. Resolver!Born' = 1 .. 0 /\ caller' = "spawning"
      BY <1>1, <1>2, <1>3
    <3> QED BY <2>1, <3>1 DEF SpawnedOK
  <2>3. JoinedOK'
    BY <1>1, <1>3, <2>1 DEF JoinedOK
  <2>4. AnsweredAll'
    BY <1>2 DEF AnsweredAll
  <2>5. MergedOK'
    BY <1>1 DEF MergedOK
  <2> QED BY <2>2, <2>3, <2>4, <2>5
<1> QED BY <1>1, <1>2, <1>3 DEF NamesInv

LEMMA SameCardinality == \A S : Resolver!Cardinality(S) = Cardinality(S)
  BY DEF Resolver!Cardinality, Cardinality

LEMMA NamesSpawn == NamesInv /\ Resolver!Spawn => NamesInv'
<1> SUFFICES ASSUME NamesInv, Resolver!Spawn PROVE NamesInv'
  OBVIOUS
<1>1. /\ Resolver!TypeOK /\ SpawnedOK /\ JoinedOK /\ AnsweredAll /\ MergedOK
      /\ caller = "spawning" /\ total # 0
      /\ UNCHANGED <<total, answers, joined, names>>
  BY DEF NamesInv, Resolver!Spawn
<1>c. Resolver!Chunks' = Resolver!Chunks /\ \A k : Resolver!Chunk(k)' = Resolver!Chunk(k)
  BY <1>1, SameChunks
<1>m. Resolver!Chunks \in 1 .. MaxAddresses
  BY <1>1, Chunking DEF Resolver!TypeOK
<1>2. PICK n \in 0 .. Resolver!Chunks : Resolver!Born = 1 .. n /\ n < Resolver!Chunks
  BY <1>1 DEF SpawnedOK
<1>3. Cardinality(Resolver!Born) = n
  <2>1. n \in Nat
    BY <1>2, <1>m
  <2>2. Cardinality(1 .. n) = n
    BY <2>1, FS_Interval
  <2> QED BY <1>2, <2>2
<1>4. /\ worker' = [worker EXCEPT ![n + 1] = "running"]
      /\ caller' = IF n + 1 = Resolver!Chunks THEN "joining" ELSE "spawning"
  BY <1>3, SameCardinality DEF Resolver!Spawn
<1>5. n \in Nat /\ n + 1 \in Resolver!Positions /\ n + 1 <= Resolver!Chunks
  BY <1>2, <1>m, ResolverAssumption DEF Resolver!Positions
<1>6. Resolver!TypeOK'
  BY <1>1, <1>4, <1>5 DEF Resolver!TypeOK
<1>7. Resolver!Born' = 1 .. n + 1
  <2>1. Resolver!Born' = Resolver!Born \union {n + 1}
    BY <1>1, <1>4, <1>5 DEF Resolver!Born, Resolver!TypeOK
  <2> QED BY <1>2, <1>5, <2>1
<1>8. SpawnedOK'
  BY <1>4, <1>5, <1>7, <1>c, <1>m DEF SpawnedOK
<1>j. joined = 0
  BY <1>1 DEF JoinedOK
<1>9. JoinedOK'
  BY <1>1, <1>4, <1>j, <1>c, <1>m DEF JoinedOK
<1>10. AnsweredAll'
  <2> SUFFICES ASSUME NEW k \in Resolver!Born', worker'[k] = "finished"
               PROVE  Resolver!Unanswered(k)' = {}
    BY DEF AnsweredAll
  <2>1. k # n + 1 /\ k \in Resolver!Born /\ worker[k] = "finished"
    BY <1>1, <1>2, <1>4, <1>5, <1>7 DEF Resolver!TypeOK, Resolver!Born
  <2>2. Resolver!Unanswered(k)' = Resolver!Unanswered(k)
    BY <1>1, <1>c, Zenon DEF Resolver!Unanswered
  <2> QED BY <1>1, <2>1, <2>2 DEF AnsweredAll
<1>11. MergedOK'
  BY <1>1, <1>j DEF MergedOK
<1> QED BY <1>1, <1>4, <1>6, <1>8, <1>9, <1>10, <1>11 DEF NamesInv

(* The caller moves on its own.                                            *)
LEMMA NamesCaller ==
  ASSUME NamesInv,
         \/ Resolver!SpawnFails
         \/ Resolver!Unwound
         \/ Resolver!Return
  PROVE  NamesInv'
<1>1. UNCHANGED <<total, worker, answers, joined, names>>
  BY DEF Resolver!SpawnFails, Resolver!Unwound, Resolver!Return
<1>2. /\ caller \in {"spawning", "unwinding", "joining"} /\ total # 0
      /\ caller' \in {"unwinding", "panic", "returned"}
      /\ caller' = "returned" => caller = "joining" /\ joined = Resolver!Chunks
      /\ caller' # "returned" => caller # "joining"
  BY DEF Resolver!SpawnFails, Resolver!Unwound, Resolver!Return, NamesInv
<1>c. Resolver!Chunks' = Resolver!Chunks /\ \A k : Resolver!Chunk(k)' = Resolver!Chunk(k)
  BY <1>1, SameChunks
<1>3. Resolver!TypeOK' /\ Resolver!Born' = Resolver!Born
  BY <1>1, <1>2 DEF NamesInv, Resolver!TypeOK, Resolver!Born
<1>4. SpawnedOK /\ JoinedOK /\ AnsweredAll /\ MergedOK
  BY <1>2 DEF NamesInv
<1>5. SpawnedOK'
  BY <1>2, <1>3, <1>4, <1>c DEF SpawnedOK
<1>6. JoinedOK'
  BY <1>1, <1>2, <1>4, <1>c DEF JoinedOK
<1>7. AnsweredAll'
  BY <1>1, <1>3, <1>4, <1>c, Zenon DEF AnsweredAll, Resolver!Unanswered
<1>8. MergedOK'
  BY <1>1, <1>4, <1>c, Zenon DEF MergedOK, Resolver!Resolved
<1> QED BY <1>1, <1>2, <1>3, <1>5, <1>6, <1>7, <1>8 DEF NamesInv

(* A thread that runs is one that was started and not joined.              *)
LEMMA RunningThread ==
  ASSUME NamesInv, NEW k \in Resolver!Positions, worker[k] = "running"
  PROVE  total # 0 /\ k \in Resolver!Born /\ k \notin 1 .. joined
  BY DEF NamesInv, Resolver!Born, JoinedOK

LEMMA NamesLookup ==
  ASSUME NamesInv, NEW k \in Resolver!Positions, Resolver!Lookup(k)
  PROVE  NamesInv'
<1>1. /\ worker[k] = "running" /\ Resolver!Unanswered(k) # {}
      /\ UNCHANGED <<total, caller, worker, joined, names>>
  BY DEF Resolver!Lookup
<1>2. /\ Resolver!TypeOK /\ SpawnedOK /\ JoinedOK /\ AnsweredAll /\ MergedOK
      /\ k \in Resolver!Born /\ total # 0
  BY <1>1, RunningThread DEF NamesInv
<1>c. Resolver!Chunks' = Resolver!Chunks /\ \A l : Resolver!Chunk(l)' = Resolver!Chunk(l)
  BY <1>1, SameChunks
<1>m. total \in 1 .. MaxAddresses
  BY <1>2 DEF Resolver!TypeOK
<1>3. Resolver!Born \subseteq 1 .. Resolver!Chunks /\ Resolver!Chunks \in Nat
  BY <1>2, <1>m, Chunking DEF SpawnedOK
<1>p. 1 .. total \subseteq Resolver!Positions
  BY <1>m, ResolverAssumption DEF Resolver!Positions
<1>k. \A l \in Resolver!Born : Resolver!Chunk(l) \subseteq Resolver!Positions
  BY <1>3, <1>m, <1>p, Chunking
<1>4. PICK i \in Resolver!Unanswered(k), answer \in {"name", "none"} :
        answers' = [answers EXCEPT ![i] = answer]
  <2>1. Resolver!Unanswered(k) \in SUBSET Nat
    BY <1>2, <1>3, <1>m, Chunking DEF Resolver!Unanswered
  <2>2. \E i \in Resolver!Unanswered(k) : \A j \in Resolver!Unanswered(k) : i <= j
    BY <1>1, <2>1, LeastNat
  <2> DEFINE i == CHOOSE i \in Resolver!Unanswered(k) : \A j \in Resolver!Unanswered(k) : i <= j
  <2>3. i \in Resolver!Unanswered(k)
    BY <2>2
  <2>4. \E answer \in {"name", "none"} : answers' = [answers EXCEPT ![i] = answer]
    BY Zenon DEF Resolver!Lookup
  <2> QED BY <2>3, <2>4
<1>5. i \in Resolver!Positions /\ answers[i] = "pending"
  BY <1>2, <1>4, <1>k DEF Resolver!Unanswered
<1>6. Resolver!TypeOK' /\ Resolver!Born' = Resolver!Born
  BY <1>1, <1>2, <1>4, <1>5 DEF Resolver!TypeOK, Resolver!Born
<1>7. \A j \in Resolver!Positions : answers[j] # "pending" => answers'[j] = answers[j]
  BY <1>2, <1>4, <1>5 DEF Resolver!TypeOK
<1>8. ASSUME NEW l \in Resolver!Born, worker[l] = "finished"
      PROVE  /\ Resolver!Unanswered(l)' = {}
             /\ Resolver!Resolved(l)' = Resolver!Resolved(l)
  <2>1. Resolver!Chunk(l) \subseteq Resolver!Positions
    BY <1>k
  <2>2. \A j \in Resolver!Chunk(l) : answers[j] # "pending"
    BY <1>2, <1>8 DEF AnsweredAll, Resolver!Unanswered
  <2>3. \A j \in Resolver!Chunk(l) : answers'[j] = answers[j]
    BY <1>7, <2>1, <2>2
  <2>4. Resolver!Unanswered(l)' = {}
    BY <1>c, <2>2, <2>3 DEF Resolver!Unanswered
  <2>5. Resolver!Resolved(l)' = Resolver!Resolved(l)
    BY <1>c, <2>3 DEF Resolver!Resolved
  <2> QED BY <2>4, <2>5
<1>9. SpawnedOK' /\ JoinedOK'
  BY <1>1, <1>2, <1>6, <1>c DEF SpawnedOK, JoinedOK
<1>10. AnsweredAll'
  BY <1>1, <1>6, <1>8 DEF AnsweredAll
<1>11. MergedOK'
  <2>1. \A l \in 1 .. joined : worker[l] = "finished" => l \in Resolver!Born
    <3>1. \A l \in 1 .. joined : l \in Resolver!Positions
      BY <1>2, ResolverAssumption DEF Resolver!Positions, Resolver!TypeOK
    <3>2. \A l \in 1 .. joined : worker[l] # "unborn"
      BY <1>2 DEF JoinedOK
    <3> QED BY <3>1, <3>2 DEF Resolver!Born
  <2> QED BY <1>1, <1>2, <1>8, <2>1 DEF MergedOK
<1> QED BY <1>1, <1>2, <1>6, <1>9, <1>10, <1>11 DEF NamesInv

(* A thread ends, and had looked up its chunk unless it panicked.          *)
LEMMA NamesEnd ==
  ASSUME NamesInv, NEW k \in Resolver!Positions,
         Resolver!Finish(k) \/ Resolver!Panic(k)
  PROVE  NamesInv'
<1>1. PICK end \in {"finished", "panicked"} :
        /\ worker' = [worker EXCEPT ![k] = end]
        /\ end = "finished" => Resolver!Unanswered(k) = {}
  BY DEF Resolver!Finish, Resolver!Panic
<1>2. /\ worker[k] = "running"
      /\ UNCHANGED <<total, caller, answers, joined, names>>
  BY DEF Resolver!Finish, Resolver!Panic
<1>3. /\ Resolver!TypeOK /\ SpawnedOK /\ JoinedOK /\ AnsweredAll /\ MergedOK
      /\ k \in Resolver!Born /\ total # 0 /\ k \notin 1 .. joined
  BY <1>2, RunningThread DEF NamesInv
<1>c. Resolver!Chunks' = Resolver!Chunks /\ \A l : Resolver!Chunk(l)' = Resolver!Chunk(l)
  BY <1>2, SameChunks
<1>4. Resolver!TypeOK' /\ Resolver!Born' = Resolver!Born
  BY <1>1, <1>2, <1>3 DEF Resolver!TypeOK, Resolver!Born
<1>5. \A l \in Resolver!Born : worker'[l] = IF l = k THEN end ELSE worker[l]
  BY <1>1, <1>3 DEF Resolver!TypeOK, Resolver!Born
<1>j. 1 .. joined \subseteq Resolver!Born
  BY <1>3, ResolverAssumption
     DEF JoinedOK, Resolver!Born, Resolver!TypeOK, Resolver!Positions
<1>6. \A l \in 1 .. joined : worker'[l] = worker[l]
  BY <1>3, <1>5, <1>j
<1>7. SpawnedOK' /\ JoinedOK'
  BY <1>2, <1>3, <1>4, <1>6, <1>c DEF SpawnedOK, JoinedOK
<1>8. \A l : /\ Resolver!Unanswered(l)' = Resolver!Unanswered(l)
             /\ Resolver!Resolved(l)' = Resolver!Resolved(l)
  BY <1>2, <1>c, Zenon DEF Resolver!Unanswered, Resolver!Resolved
<1>9. AnsweredAll'
  BY <1>1, <1>3, <1>4, <1>5, <1>8 DEF AnsweredAll
<1>10. MergedOK'
  BY <1>2, <1>3, <1>6, <1>8 DEF MergedOK
<1> QED BY <1>2, <1>3, <1>4, <1>7, <1>9, <1>10 DEF NamesInv

LEMMA NamesJoin == NamesInv /\ Resolver!Join => NamesInv'
<1> SUFFICES ASSUME NamesInv, Resolver!Join PROVE NamesInv'
  OBVIOUS
<1>1. /\ caller = "joining" /\ joined < Resolver!Chunks
      /\ worker[joined + 1] \in {"finished", "panicked"}
      /\ names' = IF worker[joined + 1] = "finished"
                  THEN names \union Resolver!Resolved(joined + 1) ELSE names
      /\ joined' = joined + 1
      /\ UNCHANGED <<total, caller, worker, answers>>
  BY DEF Resolver!Join
<1>2. /\ Resolver!TypeOK /\ SpawnedOK /\ JoinedOK /\ AnsweredAll /\ MergedOK
      /\ total # 0
  BY <1>1 DEF NamesInv
<1>c. Resolver!Chunks' = Resolver!Chunks /\ \A l : Resolver!Chunk(l)' = Resolver!Chunk(l)
  BY <1>1, SameChunks
<1>m. Resolver!Chunks \in 1 .. MaxAddresses /\ joined \in Nat
  BY <1>2, Chunking, ResolverAssumption DEF Resolver!TypeOK
<1>3. Resolver!TypeOK' /\ Resolver!Born' = Resolver!Born
  BY <1>1, <1>2, <1>m, ResolverAssumption DEF Resolver!TypeOK, Resolver!Born
<1>j. \A l : l \in 1 .. joined' <=> l \in 1 .. joined \/ l = joined + 1
  BY <1>1, <1>m
<1>4. SpawnedOK' /\ JoinedOK'
  BY <1>1, <1>2, <1>3, <1>c, <1>j, <1>m DEF SpawnedOK, JoinedOK
<1>5. \A l : /\ Resolver!Unanswered(l)' = Resolver!Unanswered(l)
             /\ Resolver!Resolved(l)' = Resolver!Resolved(l)
  BY <1>1, <1>c, Zenon DEF Resolver!Unanswered, Resolver!Resolved
<1>6. AnsweredAll'
  BY <1>1, <1>2, <1>3, <1>5 DEF AnsweredAll
<1>7. MergedOK'
  BY <1>1, <1>2, <1>5, <1>j DEF MergedOK
<1> QED BY <1>1, <1>2, <1>3, <1>4, <1>6, <1>7 DEF NamesInv

LEMMA NamesNext == NamesInv /\ Resolver!Next => NamesInv'
<1> SUFFICES ASSUME NamesInv, Resolver!Next PROVE NamesInv'
  OBVIOUS
<1>1. CASE Resolver!Caller
  BY <1>1, NamesCall, NamesSpawn, NamesCaller, NamesJoin DEF Resolver!Caller
<1>2. CASE Resolver!Thread
  BY <1>2, NamesLookup, NamesEnd DEF Resolver!Thread
<1>3. CASE Resolver!Failure
  BY <1>3, NamesCaller, NamesEnd DEF Resolver!Failure
<1> QED BY <1>1, <1>2, <1>3 DEF Resolver!Next

(* While another component moves.                                          *)
LEMMA NamesStutter == NamesInv /\ UNCHANGED namesVars => NamesInv'
<1> SUFFICES ASSUME NamesInv, UNCHANGED namesVars PROVE NamesInv'
  OBVIOUS
<1>1. UNCHANGED <<total, caller, worker, answers, joined, names>>
  BY DEF namesVars
<1>c. Resolver!Chunks' = Resolver!Chunks /\ \A k : Resolver!Chunk(k)' = Resolver!Chunk(k)
  BY <1>1, SameChunks
<1>2. Resolver!TypeOK' /\ Resolver!Born' = Resolver!Born
  BY <1>1, Zenon DEF NamesInv, Resolver!TypeOK, Resolver!Born
<1>3. /\ SpawnedOK => SpawnedOK'
      /\ JoinedOK => JoinedOK'
  BY <1>1, <1>2, <1>c DEF SpawnedOK, JoinedOK
<1>4. /\ AnsweredAll => AnsweredAll'
      /\ MergedOK => MergedOK'
  BY <1>1, <1>2, <1>c, Zenon DEF AnsweredAll, MergedOK, Resolver!Unanswered, Resolver!Resolved
<1> QED BY <1>1, <1>2, <1>3, <1>4 DEF NamesInv

LEMMA NamesFollow == NamesInv => Resolver!NamesComplete
<1> SUFFICES ASSUME NamesInv PROVE Resolver!NamesComplete
  OBVIOUS
<1>1. CASE total = 0
  <2>1. Cardinality({}) = 0
    BY FS_EmptySet
  <2>2. Resolver!Born = {}
    BY <1>1 DEF NamesInv
  <2>3. Resolver!Running = {}
    BY <2>2 DEF Resolver!Born, Resolver!Running
  <2> QED BY <1>1, <2>1, <2>2, <2>3, SameCardinality, ResolverAssumption DEF Resolver!NamesComplete
<1>2. CASE total # 0
  <2>1. /\ Resolver!TypeOK /\ SpawnedOK /\ JoinedOK /\ AnsweredAll /\ MergedOK
        /\ total \in 1 .. MaxAddresses
    BY <1>2 DEF NamesInv, Resolver!TypeOK
  <2>2. PICK n \in 0 .. Resolver!Chunks :
          /\ Resolver!Born = 1 .. n
          /\ caller \in {"joining", "returned"} => n = Resolver!Chunks
    BY <2>1 DEF SpawnedOK
  <2>3. Resolver!Chunks \in 1 .. MaxAddresses /\ Resolver!Chunks <= MaxWorkers
    BY <2>1, Chunking
  <2>4. Cardinality(Resolver!Born) <= MaxWorkers
    <3>1. n \in Nat /\ n <= MaxWorkers
      BY <2>2, <2>3, ResolverAssumption
    <3>2. Cardinality(1 .. n) = n
      BY <3>1, FS_Interval
    <3> QED BY <2>2, <3>1, <3>2
  <2>5. ASSUME caller = "returned"
        PROVE  /\ Resolver!Running = {}
               /\ \A i \in 1 .. total : \E k \in Resolver!Born :
                    /\ i \in Resolver!Chunk(k)
                    /\ worker[k] = "finished" =>
                         /\ answers[i] # "pending"
                         /\ (i \in names) = (answers[i] = "name")
                    /\ worker[k] = "panicked" => i \notin names
    <3>1. joined = Resolver!Chunks /\ Resolver!Born = 1 .. joined
      BY <2>1, <2>2, <2>5 DEF JoinedOK
    <3>2. Resolver!Running = {}
      <4>1. Resolver!Running \subseteq Resolver!Born
        BY DEF Resolver!Running, Resolver!Born
      <4> QED BY <2>1, <3>1, <4>1 DEF JoinedOK, Resolver!Running
    <3>3. ASSUME NEW i \in 1 .. total
          PROVE  \E k \in Resolver!Born :
                    /\ i \in Resolver!Chunk(k)
                    /\ worker[k] = "finished" =>
                         /\ answers[i] # "pending"
                         /\ (i \in names) = (answers[i] = "name")
                    /\ worker[k] = "panicked" => i \notin names
      <4>1. PICK k \in 1 .. joined : i \in Resolver!Chunk(k)
        BY <2>1, <3>1, Chunking
      <4>2. \A l \in 1 .. joined : i \in Resolver!Chunk(l) => l = k
        BY <2>1, <3>1, <4>1, Chunking
      <4>3. i \in names <=> worker[k] = "finished" /\ answers[i] = "name"
        <5>1. i \in names <=> \E l \in 1 .. joined :
                worker[l] = "finished" /\ i \in Resolver!Chunk(l) /\ answers[i] = "name"
          BY <2>1 DEF MergedOK, Resolver!Resolved
        <5> QED BY <4>1, <4>2, <5>1
      <4>4. worker[k] = "finished" => answers[i] # "pending"
        BY <2>1, <3>1, <4>1 DEF AnsweredAll, Resolver!Unanswered
      <4>5. worker[k] = "finished" => (i \in names) = (answers[i] = "name")
        BY <4>3
      <4>6. worker[k] = "panicked" => i \notin names
        BY <4>3
      <4> QED BY <3>1, <4>1, <4>4, <4>5, <4>6, Zenon
    <3> QED BY <3>2, <3>3, Zenon
  <2> QED BY <2>4, <2>5, SameCardinality, Zenon DEF Resolver!NamesComplete
<1> QED BY <1>1, <1>2

(* A panic of the caller has waited for every thread, and no thread starts *)
(* after it.                                                               *)
UnwoundOK == caller = "panic" => Resolver!Running = {}

LEMMA UnwoundInit == Resolver!Idle => UnwoundOK
  BY DEF Resolver!Idle, UnwoundOK

LEMMA UnwoundNext == NamesInv /\ UnwoundOK /\ Resolver!Next => UnwoundOK'
<1> SUFFICES ASSUME NamesInv, UnwoundOK, Resolver!Next, caller' = "panic"
             PROVE  Resolver!Running' = {}
  BY DEF UnwoundOK
<1>1. CASE Resolver!Caller \/ Resolver!SpawnFails
  <2>1. Resolver!Unwound
    BY <1>1 DEF Resolver!Caller, Resolver!Call, Resolver!Spawn, Resolver!Join, Resolver!Return,
                Resolver!SpawnFails
  <2> QED BY <2>1 DEF Resolver!Unwound, Resolver!Running
<1>2. CASE \E k \in Resolver!Positions :
             Resolver!Lookup(k) \/ Resolver!Finish(k) \/ Resolver!Panic(k)
  <2>1. PICK k \in Resolver!Positions : worker[k] = "running" /\ caller = "panic"
    BY <1>2 DEF Resolver!Lookup, Resolver!Finish, Resolver!Panic
  <2> QED BY <2>1 DEF UnwoundOK, Resolver!Running
<1> QED BY <1>1, <1>2 DEF Resolver!Next, Resolver!Thread, Resolver!Failure

LEMMA UnwoundStutter == UnwoundOK /\ UNCHANGED namesVars => UnwoundOK'
  BY DEF UnwoundOK, namesVars, Resolver!Running

-----------------------------------------------------------------------------
(* Traffic.                                                                *)

Readings(f) == f \in [DOMAIN f -> Nat]

(* The readings are of entries listed, and complete when the command goes  *)
(* on.                                                                     *)
ReadingsOK ==
  /\ paths \subseteq Links \union PlainFiles
  /\ Readings(first) /\ Readings(second) /\ Readings(honest)
  /\ DOMAIN first \subseteq paths \intersect Links
  /\ DOMAIN second \subseteq DOMAIN first
  /\ DOMAIN honest = DOMAIN second
  /\ trafficAt = "idle" => paths = {}
  /\ trafficAt \in {"first", "sleep"} => DOMAIN second = {}
  /\ trafficAt \in {"sleep", "second", "rate"} => DOMAIN first = paths
  /\ trafficAt = "rate" => DOMAIN second = paths

(* The kernel's part.                                                      *)
KernelOK ==
  /\ DOMAIN counter \subseteq Links /\ Readings(counter)
  /\ moved \in [Links -> Nat]
  /\ packets \in 0 .. MaxTraffic
  /\ \A n \in Links : moved[n] <= packets

(* A counter is never further from its first reading than what moved since *)
(* then, unless an interface brought it, and exactly as far if the         *)
(* interface is still the same.                                            *)
CountersOK ==
  trafficAt \in {"first", "sleep", "second"} =>
    \A n \in DOMAIN first :
      /\ n \in DOMAIN counter /\ n \notin taken => counter[n] <= first[n] + moved[n]
      /\ n \notin unsteady => n \in DOMAIN counter /\ counter[n] = first[n] + moved[n]

(* And so are the second readings.                                         *)
SecondsOK ==
  trafficAt \in {"second", "rate"} =>
    \A n \in DOMAIN second :
      /\ honest[n] <= MaxTraffic
      /\ n \notin taken => second[n] <= first[n] + honest[n]
      /\ n \notin unsteady => second[n] = first[n] + honest[n]

TrafficInv ==
  /\ trafficAt \in {"idle", "list", "first", "sleep", "second", "rate", "ok", "error"}
  /\ elapsed \in Nat
  /\ \A n \in DOMAIN sample : sample[n] \in 0 .. MaxRate
  /\ ReadingsOK /\ KernelOK /\ CountersOK /\ SecondsOK
  /\ Traffic!RatesHonest

LEMMA TrafficInit == Traffic!Idle => TrafficInv
<1> SUFFICES ASSUME Traffic!Idle PROVE TrafficInv
  OBVIOUS
<1>1. DOMAIN Traffic!Empty = {} /\ Readings(Traffic!Empty)
  BY DEF Traffic!Empty, Readings
<1>2. /\ counter = Traffic!Empty /\ first = Traffic!Empty /\ second = Traffic!Empty
      /\ honest = Traffic!Empty /\ sample = Traffic!Empty /\ trafficAt = "idle"
      /\ paths = {} /\ packets = 0 /\ elapsed = 0
      /\ moved = [n \in Links |-> 0]
  BY DEF Traffic!Idle
<1> QED
  BY <1>1, <1>2, TrafficAssumption
     DEF TrafficInv, ReadingsOK, KernelOK, CountersOK, SecondsOK, Traffic!RatesHonest,
         Traffic!Reported

(* The next entry to read.                                                 *)
LEMMA NextEntry ==
  ASSUME NEW S \in SUBSET Nat, S # {}
  PROVE  Traffic!NextOf(S) \in S
<1>1. \E m \in S : \A j \in S : m <= j
  BY LeastNat
<1> QED BY <1>1 DEF Traffic!NextOf

LEMMA TrafficCount == TrafficInv /\ Traffic!Count => TrafficInv'
<1> SUFFICES ASSUME TrafficInv, Traffic!Count PROVE TrafficInv'
  OBVIOUS
<1>1. PICK n \in DOMAIN counter : /\ counter' = [counter EXCEPT ![n] = @ + 1]
                                  /\ moved' = [moved EXCEPT ![n] = @ + 1]
  BY DEF Traffic!Count, Traffic!Present
<1>2. /\ packets < MaxTraffic /\ packets' = packets + 1
      /\ UNCHANGED <<unsteady, taken, trafficAt, paths, first, second, elapsed, sample,
                     honest>>
  BY DEF Traffic!Count, Traffic!command
<1>3. KernelOK /\ ReadingsOK /\ CountersOK /\ SecondsOK /\ Traffic!RatesHonest
  BY DEF TrafficInv
<1>4. n \in Links /\ counter[n] \in Nat /\ moved[n] \in Nat
  BY <1>1, <1>3 DEF KernelOK, Readings
<1>5. /\ DOMAIN counter' = DOMAIN counter /\ counter'[n] = counter[n] + 1
      /\ \A m \in DOMAIN counter : m # n => counter'[m] = counter[m]
  BY <1>1, <1>3 DEF KernelOK, Readings
<1>6. /\ moved' \in [Links -> Nat] /\ moved'[n] = moved[n] + 1
      /\ \A m \in Links : m # n => moved'[m] = moved[m]
  BY <1>1, <1>3, <1>4 DEF KernelOK
<1>7. KernelOK'
  <2>1. Readings(counter')
    BY <1>1, <1>3, <1>4 DEF KernelOK, Readings
  <2>2. packets' \in 0 .. MaxTraffic
    BY <1>2, <1>3, TrafficAssumption DEF KernelOK
  <2>3. \A m \in Links : moved'[m] <= packets'
    BY <1>2, <1>3, <1>4, <1>6, TrafficAssumption DEF KernelOK
  <2> QED BY <1>3, <1>5, <1>6, <2>1, <2>2, <2>3 DEF KernelOK
<1>8. CountersOK'
  <2> SUFFICES ASSUME trafficAt \in {"first", "sleep", "second"}, NEW m \in DOMAIN first
               PROVE  /\ m \in DOMAIN counter' /\ m \notin taken =>
                           counter'[m] <= first[m] + moved'[m]
                      /\ m \notin unsteady => /\ m \in DOMAIN counter'
                                              /\ counter'[m] = first[m] + moved'[m]
    BY <1>2, Zenon DEF CountersOK
  <2>1. m \in Links /\ first[m] \in Nat /\ moved[m] \in Nat
    BY <1>3 DEF ReadingsOK, KernelOK, Readings
  <2>2. m \in DOMAIN counter => counter[m] \in Nat
    BY <1>3 DEF KernelOK, Readings
  <2> QED BY <1>3, <1>4, <1>5, <1>6, <2>1, <2>2 DEF CountersOK
<1> QED BY <1>2, <1>3, <1>7, <1>8, Zenon
        DEF TrafficInv, ReadingsOK, SecondsOK, Traffic!RatesHonest, Traffic!Reported

LEMMA TrafficChurn == TrafficInv /\ Traffic!Churn => TrafficInv'
<1> SUFFICES ASSUME TrafficInv, Traffic!Churn PROVE TrafficInv'
  OBVIOUS
<1>2. UNCHANGED <<packets, moved, trafficAt, paths, first, second, elapsed, sample, honest>>
  BY DEF Traffic!Churn, Traffic!command
<1>3. KernelOK /\ ReadingsOK /\ CountersOK /\ SecondsOK /\ Traffic!RatesHonest
  BY DEF TrafficInv
<1>b. ASSUME NEW n \in Links
      PROVE  /\ Readings(Traffic!Without(n))
             /\ DOMAIN Traffic!Without(n) = DOMAIN counter \ {n}
             /\ \A m \in DOMAIN counter \ {n} : Traffic!Without(n)[m] = counter[m]
  BY <1>3 DEF KernelOK, Readings, Traffic!Without, Traffic!Present
<1>4. /\ Readings(counter') /\ DOMAIN counter' \subseteq Links
      /\ \A m : m \notin unsteady' => /\ m \notin unsteady
                                      /\ m \in DOMAIN counter' <=> m \in DOMAIN counter
      /\ \A m : m \notin taken' => m \notin taken
      /\ \A m \in DOMAIN counter' : m \notin taken' =>
           \/ m \in DOMAIN counter /\ counter'[m] = counter[m]
           \/ counter'[m] = 0
      /\ \A m \in DOMAIN counter' : m \notin unsteady' => counter'[m] = counter[m]
  <2>1. PICK n \in Links : \/ Traffic!Remove(n) \/ Traffic!Create(n) \/ Traffic!MoveIn(n)
                           \/ \E k \in Links : Traffic!Rename(k, n)
    BY DEF Traffic!Churn
  <2>2. Readings(counter) /\ DOMAIN counter \subseteq Links
    BY <1>3 DEF KernelOK
  <2>3. CASE Traffic!Remove(n)
    <3>1. counter' = Traffic!Without(n) /\ unsteady' = unsteady \union {n} /\ taken' = taken
      BY <2>3 DEF Traffic!Remove
    <3> QED BY <1>b, <2>2, <3>1
  <2>4. CASE Traffic!Create(n)
    <3>1. /\ counter' = Traffic!With(counter, n, 0) /\ unsteady' = unsteady \union {n}
          /\ taken' = taken /\ 0 \in Nat
      BY <2>4 DEF Traffic!Create
    <3>2. /\ Readings(counter') /\ DOMAIN counter' = DOMAIN counter \union {n}
          /\ counter'[n] = 0 /\ \A m \in DOMAIN counter : m # n => counter'[m] = counter[m]
      <4>1. LET g == Traffic!With(counter, n, 0)
            IN  /\ Readings(g) /\ DOMAIN g = DOMAIN counter \union {n}
                /\ g[n] = 0 /\ \A m \in DOMAIN counter : m # n => g[m] = counter[m]
        BY <2>2 DEF Readings, Traffic!With
      <4> QED BY <3>1, <4>1
    <3> QED BY <2>2, <3>1, <3>2
  <2>5. CASE Traffic!MoveIn(n)
    <3>1. PICK c \in Lifetimes : counter' = Traffic!With(counter, n, c)
      BY <2>5 DEF Traffic!MoveIn
    <3>2. c \in Nat /\ unsteady' = unsteady \union {n} /\ taken' = taken \union {n}
      BY <2>5, TrafficAssumption DEF Traffic!MoveIn
    <3>3. /\ Readings(counter') /\ DOMAIN counter' = DOMAIN counter \union {n}
          /\ \A m \in DOMAIN counter : m # n => counter'[m] = counter[m]
      <4>1. LET g == Traffic!With(counter, n, c)
            IN  /\ Readings(g) /\ DOMAIN g = DOMAIN counter \union {n}
                /\ \A m \in DOMAIN counter : m # n => g[m] = counter[m]
        BY <2>2, <3>2 DEF Readings, Traffic!With
      <4> QED BY <3>1, <4>1
    <3> QED BY <2>2, <3>2, <3>3
  <2>6. CASE \E k \in Links : Traffic!Rename(k, n)
    <3>1. PICK k \in Links : Traffic!Rename(k, n)
      BY <2>6
    <3>2. /\ counter' = Traffic!With(Traffic!Without(k), n, counter[k])
          /\ unsteady' = unsteady \union {k, n} /\ taken' = taken \union {n}
          /\ k \in DOMAIN counter
      BY <3>1 DEF Traffic!Rename, Traffic!Present
    <3>3. counter[k] \in Nat
      BY <2>2, <3>2 DEF Readings
    <3>4. /\ Readings(Traffic!Without(k)) /\ DOMAIN Traffic!Without(k) \subseteq Links
          /\ DOMAIN Traffic!Without(k) = DOMAIN counter \ {k}
          /\ \A m \in DOMAIN counter \ {k} : Traffic!Without(k)[m] = counter[m]
      BY <1>b, <2>2
    <3>a. /\ Readings(counter')
          /\ DOMAIN counter' = DOMAIN Traffic!Without(k) \union {n}
          /\ \A m \in DOMAIN Traffic!Without(k) : m # n => counter'[m] = Traffic!Without(k)[m]
      <4>1. LET g == Traffic!With(Traffic!Without(k), n, counter[k])
            IN  /\ Readings(g) /\ DOMAIN g = DOMAIN Traffic!Without(k) \union {n}
                /\ \A m \in DOMAIN Traffic!Without(k) : m # n => g[m] = Traffic!Without(k)[m]
        BY <3>3, <3>4 DEF Readings, Traffic!With
      <4> QED BY <3>2, <4>1
    <3>5. /\ Readings(counter') /\ DOMAIN counter' = (DOMAIN counter \ {k}) \union {n}
          /\ \A m \in DOMAIN counter \ {k} : m # n => counter'[m] = counter[m]
      BY <3>4, <3>a
    <3> QED BY <2>2, <3>2, <3>5
  <2> QED BY <2>1, <2>3, <2>4, <2>5, <2>6
<1>5. KernelOK'
  BY <1>2, <1>3, <1>4 DEF KernelOK
<1>6. CountersOK'
  <2> SUFFICES ASSUME trafficAt \in {"first", "sleep", "second"}, NEW m \in DOMAIN first
               PROVE  /\ m \in DOMAIN counter' /\ m \notin taken' =>
                           counter'[m] <= first[m] + moved[m]
                      /\ m \notin unsteady' => /\ m \in DOMAIN counter'
                                               /\ counter'[m] = first[m] + moved[m]
    BY <1>2, Zenon DEF CountersOK
  <2>1. first[m] \in Nat /\ moved[m] \in Nat
    BY <1>3 DEF ReadingsOK, KernelOK, Readings
  <2> QED BY <1>3, <1>4, <2>1 DEF CountersOK
<1>7. SecondsOK' /\ Traffic!RatesHonest'
  <2>2. SecondsOK'
    BY <1>2, <1>3, <1>4, Zenon DEF SecondsOK
  <2>3. Traffic!RatesHonest'
    BY <1>2, <1>3, <1>4, Zenon DEF Traffic!RatesHonest, Traffic!Reported
  <2> QED BY <2>2, <2>3
<1> QED BY <1>2, <1>3, <1>5, <1>6, <1>7, Zenon DEF TrafficInv, ReadingsOK

(* The command starts, sleeps or fails.                                    *)
LEMMA TrafficPlain ==
  ASSUME TrafficInv, Traffic!Start \/ Traffic!Sleep \/ Traffic!Fail
  PROVE  TrafficInv'
<1>1. KernelOK /\ ReadingsOK /\ CountersOK /\ SecondsOK /\ Traffic!RatesHonest /\ elapsed \in Nat
  BY DEF TrafficInv
<1>2. UNCHANGED <<packets, moved, unsteady, taken, paths, first, second, sample, honest>>
  BY DEF Traffic!Start, Traffic!Sleep, Traffic!Fail, Traffic!kernel
<1>3. CASE Traffic!Start
  <2>1. /\ trafficAt = "idle" /\ trafficAt' = "list" /\ UNCHANGED elapsed
        /\ \E present \in SUBSET Links : counter' \in [present -> Nat]
    BY <1>3, TrafficAssumption DEF Traffic!Start
  <2>2. KernelOK'
    BY <1>1, <1>2, <2>1 DEF KernelOK, Readings
  <2>3. ReadingsOK' /\ paths' = {}
    BY <1>1, <1>2, <2>1 DEF ReadingsOK
  <2> QED BY <1>1, <1>2, <2>1, <2>2, <2>3
          DEF TrafficInv, CountersOK, SecondsOK, Traffic!RatesHonest, Traffic!Reported
<1>4. CASE Traffic!Sleep
  <2>1. /\ trafficAt = "sleep" /\ trafficAt' = "second" /\ elapsed' \in Nat
        /\ UNCHANGED counter
    BY <1>4 DEF Traffic!Sleep, Traffic!kernel
  <2>2. KernelOK'
    BY <1>1, <1>2, <2>1, Zenon DEF KernelOK
  <2>3. ReadingsOK' /\ DOMAIN second' = {}
    BY <1>1, <1>2, <2>1 DEF ReadingsOK
  <2>4. CountersOK'
    BY <1>1, <1>2, <2>1, Zenon DEF CountersOK
  <2>5. SecondsOK'
    BY <2>3, Zenon DEF SecondsOK
  <2> QED BY <1>1, <1>2, <2>1, <2>2, <2>3, <2>4, <2>5
          DEF TrafficInv, Traffic!RatesHonest, Traffic!Reported
<1>5. CASE Traffic!Fail
  <2>1. trafficAt' = "error" /\ UNCHANGED <<elapsed, counter>>
    BY <1>5 DEF Traffic!Fail, Traffic!kernel
  <2>2. KernelOK' /\ ReadingsOK'
    BY <1>1, <1>2, <2>1 DEF KernelOK, ReadingsOK
  <2> QED BY <1>1, <1>2, <2>1, <2>2
          DEF TrafficInv, CountersOK, SecondsOK, Traffic!RatesHonest, Traffic!Reported
<1> QED BY <1>3, <1>4, <1>5

LEMMA TrafficList == TrafficInv /\ Traffic!List => TrafficInv'
<1> SUFFICES ASSUME TrafficInv, Traffic!List PROVE TrafficInv'
  OBVIOUS
<1>1. /\ first' = Traffic!Empty /\ second' = Traffic!Empty /\ honest' = Traffic!Empty
      /\ moved' = [n \in Links |-> 0]
      /\ UNCHANGED <<counter, packets, elapsed, sample>>
      /\ trafficAt' = IF paths' = {} THEN "error" ELSE "first"
  BY DEF Traffic!List
<1>2. paths' \subseteq Links \union PlainFiles
  BY DEF Traffic!List, TrafficInv, KernelOK, Traffic!Present
<1>3. DOMAIN Traffic!Empty = {} /\ Readings(Traffic!Empty)
  BY DEF Traffic!Empty, Readings
<1>4. KernelOK'
  BY <1>1, TrafficAssumption DEF KernelOK, TrafficInv
<1>5. ReadingsOK'
  BY <1>1, <1>2, <1>3 DEF ReadingsOK
<1> QED BY <1>1, <1>3, <1>4, <1>5
        DEF TrafficInv, CountersOK, SecondsOK, Traffic!RatesHonest, Traffic!Reported

LEMMA TrafficReadFirst == TrafficInv /\ Traffic!ReadFirst => TrafficInv'
<1> SUFFICES ASSUME TrafficInv, Traffic!ReadFirst PROVE TrafficInv'
  OBVIOUS
<1>1. /\ trafficAt = "first"
      /\ UNCHANGED <<counter, packets, unsteady, taken, paths, second, elapsed, sample, honest>>
  BY DEF Traffic!ReadFirst
<1>2. KernelOK /\ ReadingsOK /\ CountersOK /\ SecondsOK
  BY DEF TrafficInv
<1>3. CASE trafficAt' \in {"sleep", "error"}
  <2>1. UNCHANGED <<first, moved>> /\ (trafficAt' = "sleep" => DOMAIN first = paths)
    BY <1>3, <1>1 DEF Traffic!ReadFirst
  <2>2. KernelOK' /\ ReadingsOK'
    BY <1>1, <1>2, <1>3, <2>1 DEF KernelOK, ReadingsOK
  <2>3. CountersOK'
    BY <1>1, <1>2, <2>1, Zenon DEF CountersOK
  <2> QED BY <1>1, <1>3, <2>2, <2>3
          DEF TrafficInv, SecondsOK, Traffic!RatesHonest, Traffic!Reported
<1>4. CASE trafficAt' \notin {"sleep", "error"}
  <2> DEFINE n == Traffic!NextOf(paths \ DOMAIN first)
  <2>1. /\ DOMAIN first # paths /\ n \in DOMAIN counter
        /\ first' = Traffic!With(first, n, counter[n])
        /\ moved' = [moved EXCEPT ![n] = 0]
        /\ UNCHANGED trafficAt
    BY <1>4, Zenon DEF Traffic!ReadFirst, Traffic!Present
  <2>2. n \in paths \ DOMAIN first
    <3>1. paths \ DOMAIN first \in SUBSET Nat /\ paths \ DOMAIN first # {}
      BY <1>2, <2>1, TrafficAssumption DEF ReadingsOK
    <3> QED BY <3>1, NextEntry, Zenon
  <2> HIDE DEF n
  <2>3. n \in Links /\ counter[n] \in Nat
    BY <1>2, <2>1 DEF KernelOK, Readings
  <2>4. /\ Readings(first') /\ DOMAIN first' = DOMAIN first \union {n}
        /\ first'[n] = counter[n]
        /\ \A m \in DOMAIN first : m # n => first'[m] = first[m]
    <3>1. Readings(first)
      BY <1>2 DEF ReadingsOK
    <3> QED BY <2>1, <2>3, <3>1 DEF Readings, Traffic!With
  <2>5. /\ moved' \in [Links -> Nat] /\ moved'[n] = 0
        /\ \A m \in Links : m # n => moved'[m] = moved[m]
    BY <1>2, <2>1, <2>3 DEF KernelOK
  <2>6. KernelOK'
    BY <1>1, <1>2, <2>3, <2>5 DEF KernelOK
  <2>7. ReadingsOK'
    BY <1>1, <1>2, <2>1, <2>2, <2>3, <2>4 DEF ReadingsOK
  <2>8. CountersOK'
    <3> SUFFICES ASSUME NEW m \in DOMAIN first'
                 PROVE  /\ m \in DOMAIN counter /\ m \notin taken =>
                             counter[m] <= first'[m] + moved'[m]
                        /\ m \notin unsteady => /\ m \in DOMAIN counter
                                                /\ counter[m] = first'[m] + moved'[m]
      BY <1>1, Zenon DEF CountersOK
    <3>1. CASE m = n
      BY <2>1, <2>3, <2>4, <2>5, <3>1
    <3>2. CASE m # n
      <4>1. m \in DOMAIN first /\ m \in Links /\ first'[m] = first[m] /\ moved'[m] = moved[m]
        BY <1>2, <2>4, <2>5, <3>2 DEF ReadingsOK
      <4> QED BY <1>1, <1>2, <4>1 DEF CountersOK
    <3> QED BY <3>1, <3>2
  <2> QED BY <1>1, <2>1, <2>6, <2>7, <2>8
          DEF TrafficInv, SecondsOK, Traffic!RatesHonest, Traffic!Reported
<1> QED BY <1>3, <1>4

LEMMA TrafficReadSecond == TrafficInv /\ Traffic!ReadSecond => TrafficInv'
<1> SUFFICES ASSUME TrafficInv, Traffic!ReadSecond PROVE TrafficInv'
  OBVIOUS
<1>1. /\ trafficAt = "second"
      /\ UNCHANGED <<counter, packets, moved, unsteady, taken, paths, first, elapsed, sample>>
  BY DEF Traffic!ReadSecond, Traffic!kernel
<1>2. KernelOK /\ ReadingsOK /\ CountersOK /\ SecondsOK
  BY DEF TrafficInv
<1>k. KernelOK'
  BY <1>1, <1>2, Zenon DEF KernelOK
<1>3. CASE trafficAt' \in {"rate", "error"}
  <2>1. UNCHANGED <<second, honest>> /\ (trafficAt' = "rate" => DOMAIN second = paths)
    BY <1>3, <1>1 DEF Traffic!ReadSecond
  <2>2. ReadingsOK'
    BY <1>1, <1>2, <1>3, <2>1 DEF ReadingsOK
  <2>3. SecondsOK'
    BY <1>1, <1>2, <2>1, Zenon DEF SecondsOK
  <2> QED BY <1>1, <1>3, <1>k, <2>2, <2>3
          DEF TrafficInv, CountersOK, Traffic!RatesHonest, Traffic!Reported
<1>4. CASE trafficAt' \notin {"rate", "error"}
  <2> DEFINE n == Traffic!NextOf(paths \ DOMAIN second)
  <2>1. /\ DOMAIN second # paths /\ n \in DOMAIN counter
        /\ second' = Traffic!With(second, n, counter[n])
        /\ honest' = Traffic!With(honest, n, moved[n])
        /\ UNCHANGED trafficAt
    BY <1>4, Zenon DEF Traffic!ReadSecond, Traffic!Present
  <2>2. n \in paths \ DOMAIN second
    <3>1. paths \ DOMAIN second \in SUBSET Nat /\ paths \ DOMAIN second # {}
      BY <1>2, <2>1, TrafficAssumption DEF ReadingsOK
    <3> QED BY <3>1, NextEntry, Zenon
  <2> HIDE DEF n
  <2>3. /\ n \in Links /\ counter[n] \in Nat /\ moved[n] \in Nat /\ n \in DOMAIN first
        /\ moved[n] <= MaxTraffic
    BY <1>1, <1>2, <2>1, <2>2, TrafficAssumption DEF KernelOK, Readings, ReadingsOK
  <2>4. /\ Readings(second') /\ DOMAIN second' = DOMAIN second \union {n}
        /\ second'[n] = counter[n]
        /\ \A m \in DOMAIN second : m # n => second'[m] = second[m]
    <3>1. Readings(second)
      BY <1>2 DEF ReadingsOK
    <3> QED BY <2>1, <2>3, <3>1 DEF Readings, Traffic!With
  <2>5. /\ Readings(honest') /\ DOMAIN honest' = DOMAIN honest \union {n}
        /\ honest'[n] = moved[n]
        /\ \A m \in DOMAIN honest : m # n => honest'[m] = honest[m]
    <3>1. Readings(honest)
      BY <1>2 DEF ReadingsOK
    <3> QED BY <2>1, <2>3, <3>1 DEF Readings, Traffic!With
  <2>7. ReadingsOK'
    BY <1>1, <1>2, <2>1, <2>2, <2>3, <2>4, <2>5 DEF ReadingsOK
  <2>8. SecondsOK'
    <3> SUFFICES ASSUME NEW m \in DOMAIN second'
                 PROVE  /\ honest'[m] <= MaxTraffic
                        /\ m \notin taken => second'[m] <= first[m] + honest'[m]
                        /\ m \notin unsteady => second'[m] = first[m] + honest'[m]
      BY <1>1, Zenon DEF SecondsOK
    <3>1. CASE m = n
      BY <1>1, <1>2, <2>1, <2>3, <2>4, <2>5, <3>1 DEF CountersOK
    <3>2. CASE m # n
      <4>1. m \in DOMAIN second /\ second'[m] = second[m] /\ honest'[m] = honest[m]
        BY <1>2, <2>4, <2>5, <3>2 DEF ReadingsOK
      <4> QED BY <1>1, <1>2, <4>1 DEF SecondsOK
    <3> QED BY <3>1, <3>2
  <2>9. CountersOK'
    BY <1>1, <1>2, <2>1, Zenon DEF CountersOK
  <2> QED BY <1>1, <1>k, <2>1, <2>7, <2>8, <2>9
          DEF TrafficInv, Traffic!RatesHonest, Traffic!Reported
<1> QED BY <1>3, <1>4

(* A rate and the traffic it tells of.                                     *)
LEMMA RateExact ==
  ASSUME NEW h \in Nat, NEW d \in Nat, NEW t \in Nat, NEW top \in Nat, d <= h,
         NEW rate, rate = IF t = 0 THEN 0 ELSE IF d \div t > top THEN top ELSE d \div t
  PROVE  /\ rate \in 0 .. top /\ rate * t <= h
         /\ t > 0 /\ d = h /\ h <= top => rate = h \div t
<1>1. CASE t = 0
  BY <1>1
<1>2. CASE t # 0
  <2> DEFINE q == d \div t
  <2>1. q \in Nat /\ q * t <= d /\ q <= d
    <3>1. q \in Nat /\ q * t <= d
      BY <1>2
    <3>2. q <= q * t
      <4> HIDE DEF q
      <4> QED BY <1>2, <3>1
    <3>3. q * t \in Nat
      <4> HIDE DEF q
      <4> QED BY <3>1
    <3> HIDE DEF q
    <3> QED BY <3>1, <3>2, <3>3
  <2>2. rate = IF q > top THEN top ELSE q
    BY <1>2
  <2> HIDE DEF q
  <2>3. rate \in Nat /\ rate <= q /\ rate <= top
    BY <2>1, <2>2
  <2>4. rate * t <= q * t /\ rate * t \in Nat /\ q * t \in Nat
    BY <2>1, <2>3, Products
  <2>5. d = h /\ h <= top => rate = h \div t
    BY <2>1, <2>2 DEF q
  <2> QED BY <1>2, <2>1, <2>3, <2>4, <2>5
<1> QED BY <1>1, <1>2

LEMMA TrafficRate == TrafficInv /\ Traffic!Rate => TrafficInv'
<1> SUFFICES ASSUME TrafficInv, Traffic!Rate PROVE TrafficInv'
  OBVIOUS
<1>1. /\ trafficAt = "rate" /\ trafficAt' \in {"list", "ok"}
      /\ sample' = [n \in paths |-> Traffic!PerSecond(Traffic!Delta(n))]
      /\ UNCHANGED <<counter, packets, moved, unsteady, taken, paths, first, second, elapsed, honest>>
  BY DEF Traffic!Rate, Traffic!kernel
<1>2. KernelOK /\ ReadingsOK /\ CountersOK /\ SecondsOK /\ elapsed \in Nat
  BY DEF TrafficInv
<1>3. ASSUME NEW n \in paths
      PROVE  /\ sample'[n] \in 0 .. MaxRate
             /\ n \notin taken => sample'[n] * elapsed <= honest[n]
             /\ n \notin unsteady /\ elapsed > 0 => sample'[n] = honest[n] \div elapsed
  <2>1. /\ first[n] \in Nat /\ second[n] \in Nat /\ honest[n] \in Nat
        /\ honest[n] <= MaxTraffic
        /\ n \notin taken => second[n] <= first[n] + honest[n]
        /\ n \notin unsteady => second[n] = first[n] + honest[n]
    BY <1>1, <1>2 DEF ReadingsOK, SecondsOK, Readings
  <2>2. PICK d : d = Traffic!Delta(n)
    OBVIOUS
  <2>3. /\ d \in Nat /\ (n \notin taken => d <= honest[n])
        /\ n \notin unsteady => d = honest[n]
    BY <2>1, <2>2 DEF Traffic!Delta
  <2>4. sample'[n] = IF elapsed = 0 THEN 0
                     ELSE IF d \div elapsed > MaxRate THEN MaxRate ELSE d \div elapsed
    BY <1>1, <2>2 DEF Traffic!PerSecond
  <2>5. honest[n] <= MaxRate
    BY <2>1, TrafficAssumption
  <2>6. MaxRate \in Nat
    BY TrafficAssumption
  <2>7. CASE d <= honest[n]
    BY <1>2, <2>1, <2>3, <2>4, <2>5, <2>6, <2>7, RateExact
  <2>8. CASE ~(d <= honest[n])
    <3>1. d <= d
      BY <2>3
    <3>2. sample'[n] \in 0 .. MaxRate
      BY <1>2, <2>3, <2>4, <2>6, <3>1, RateExact
    <3>3. n \in taken /\ n \in unsteady
      BY <2>1, <2>3, <2>8
    <3> QED BY <3>2, <3>3
  <2> QED BY <2>7, <2>8
<1>4. Traffic!RatesHonest'
  BY <1>1, <1>3 DEF Traffic!RatesHonest, Traffic!Reported
<1>5. KernelOK' /\ ReadingsOK'
  BY <1>1, <1>2, Zenon DEF KernelOK, ReadingsOK
<1> QED BY <1>1, <1>2, <1>3, <1>4, <1>5 DEF TrafficInv, CountersOK, SecondsOK

LEMMA TrafficNext == TrafficInv /\ Traffic!Next => TrafficInv'
  BY TrafficCount, TrafficChurn, TrafficPlain, TrafficList, TrafficReadFirst,
     TrafficReadSecond, TrafficRate, Zenon DEF Traffic!Next, Traffic!Command

(* While another component moves.                                          *)
LEMMA TrafficStutter == TrafficInv /\ UNCHANGED trafficVars => TrafficInv'
<1> SUFFICES ASSUME TrafficInv, UNCHANGED trafficVars PROVE TrafficInv'
  OBVIOUS
<1>1. UNCHANGED <<counter, packets, moved, unsteady, taken, trafficAt, paths, first, second,
                  elapsed, sample, honest>>
  BY DEF trafficVars
<1>2. KernelOK' /\ ReadingsOK' /\ CountersOK' /\ SecondsOK' /\ Traffic!RatesHonest'
  BY <1>1, Zenon DEF TrafficInv, KernelOK, ReadingsOK, CountersOK, SecondsOK,
                     Traffic!RatesHonest, Traffic!Reported
<1> QED BY <1>1, <1>2, Zenon DEF TrafficInv

LEMMA TrafficFollow == TrafficInv => Traffic!TypeOK /\ Traffic!RatesHonest
  BY DEF TrafficInv, KernelOK, ReadingsOK, Traffic!TypeOK

-----------------------------------------------------------------------------
(* Scan.                                                                   *)

LEMMA ScanCardinality == \A S : Scan!Cardinality(S) = Cardinality(S)
  BY DEF Scan!Cardinality, Cardinality

(* The recursive definition has a solution: 1 at 0, and twice as much at   *)
(* each next number.                                                       *)
LEMMA PowerLaws ==
  /\ Scan!TwoTo \in [Nat -> Nat \ {0}]
  /\ Scan!TwoTo[0] = 1
  /\ \A n \in Nat : Scan!TwoTo[n + 1] = 2 * Scan!TwoTo[n]
<1> DEFINE Upto(n, g) == /\ g \in [0 .. n -> Nat \ {0}] /\ g[0] = 1
                         /\ \A m \in 1 .. n : g[m] = 2 * g[m - 1]
           S == {n \in Nat : \E g : Upto(n, g)}
<1>1. 0 \in S
  <2>1. Upto(0, [m \in 0 .. 0 |-> 1])
    OBVIOUS
  <2> QED BY <2>1
<1>2. ASSUME NEW n \in Nat, n \in S PROVE n + 1 \in S
  <2>1. PICK g : Upto(n, g)
    BY <1>2
  <2> DEFINE h == [m \in 0 .. n + 1 |-> IF m = n + 1 THEN 2 * g[n] ELSE g[m]]
  <2>2. g[n] \in Nat \ {0} /\ \A m \in 0 .. n : g[m] \in Nat \ {0}
    BY <2>1
  <2>3. h \in [0 .. n + 1 -> Nat \ {0}]
    BY <2>2
  <2>4. h[0] = 1
    BY <2>1
  <2>5. ASSUME NEW m \in 1 .. n + 1 PROVE h[m] = 2 * h[m - 1]
    <3>1. CASE m = n + 1
      BY <3>1
    <3>2. CASE m \in 1 .. n
      BY <2>1, <3>2
    <3> QED BY <3>1, <3>2
  <2> HIDE DEF h
  <2>6. Upto(n + 1, h)
    BY <2>3, <2>4, <2>5
  <2> HIDE DEF Upto
  <2> QED BY <2>6
<1>3. \A n \in Nat : \E g : Upto(n, g)
  <2> HIDE DEF Upto
  <2>1. Nat \subseteq S
    <3> HIDE DEF S
    <3> QED BY <1>1, <1>2, NatSetInduction
  <2> QED BY <2>1
<1> DEFINE G(n) == CHOOSE g : Upto(n, g)
           f == [n \in Nat |-> G(n)[n]]
<1>4. \A n \in Nat : Upto(n, G(n))
  <2> HIDE DEF Upto
  <2> QED BY <1>3
<1>5. ASSUME NEW n \in Nat, NEW g, NEW h, Upto(n, g), Upto(n + 1, h)
      PROVE  \A m \in 0 .. n : g[m] = h[m]
  <2> DEFINE T == {m \in Nat : m <= n => g[m] = h[m]}
  <2>1. 0 \in T
    BY <1>5
  <2>2. ASSUME NEW m \in Nat, m \in T PROVE m + 1 \in T
    <3>1. ASSUME m + 1 <= n PROVE g[m + 1] = h[m + 1]
      <4>0. m + 1 \in 1 .. n /\ m + 1 \in 1 .. n + 1
        BY <3>1
      <4>1. g[m + 1] = 2 * g[(m + 1) - 1] /\ h[m + 1] = 2 * h[(m + 1) - 1]
        BY <1>5, <4>0, Zenon
      <4>2. (m + 1) - 1 = m /\ m <= n
        BY <3>1
      <4>3. g[m] = h[m]
        BY <2>2, <4>2
      <4> QED BY <4>1, <4>2, <4>3
    <3>2. m + 1 \in Nat
      OBVIOUS
    <3> HIDE DEF Upto
    <3> QED BY <3>1, <3>2
  <2>3. Nat \subseteq T
    <3> HIDE DEF T
    <3> QED BY <2>1, <2>2, NatSetInduction
  <2> QED BY <2>3
<1>6. f[0] = 1
  BY <1>4
<1>7. ASSUME NEW n \in Nat PROVE f[n + 1] = 2 * f[n] /\ f[n] \in Nat \ {0}
  <2>1. Upto(n, G(n)) /\ Upto(n + 1, G(n + 1))
    <3>1. n + 1 \in Nat
      OBVIOUS
    <3> HIDE DEF G, Upto
    <3> QED BY <1>4, <3>1
  <2>2. G(n)[n] = G(n + 1)[n]
    <3> HIDE DEF G, Upto
    <3> QED BY <1>5, <2>1
  <2> HIDE DEF G
  <2>3. G(n + 1)[n + 1] = 2 * G(n + 1)[(n + 1) - 1] /\ G(n)[n] \in Nat \ {0}
    BY <2>1
  <2>4. (n + 1) - 1 = n
    OBVIOUS
  <2> QED BY <2>2, <2>3, <2>4
<1>8. f = [n \in Nat |-> IF n = 0 THEN 1 ELSE 2 * f[n - 1]]
  <2> HIDE DEF f
  <2>1. DOMAIN f = Nat /\ f = [n \in Nat |-> f[n]]
    BY DEF f
  <2>2. ASSUME NEW n \in Nat PROVE f[n] = IF n = 0 THEN 1 ELSE 2 * f[n - 1]
    <3>1. CASE n = 0
      BY <1>6, <3>1
    <3>2. CASE n # 0
      <4>1. n - 1 \in Nat /\ (n - 1) + 1 = n
        BY <3>2
      <4>2. f[(n - 1) + 1] = 2 * f[n - 1]
        BY <4>1, <1>7
      <4> QED BY <3>2, <4>1, <4>2
    <3> QED BY <3>1, <3>2
  <2> QED BY <2>1, <2>2
<1>9. Scan!TwoTo = [n \in Nat |-> IF n = 0 THEN 1 ELSE 2 * Scan!TwoTo[n - 1]]
  <2> HIDE DEF f
  <2>1. \E g : g = [n \in Nat |-> IF n = 0 THEN 1 ELSE 2 * g[n - 1]]
    BY <1>8
  <2> QED BY <2>1 DEF Scan!TwoTo
<1>10. Scan!TwoTo[0] = 1
  BY <1>9
<1>11. ASSUME NEW n \in Nat PROVE Scan!TwoTo[n + 1] = 2 * Scan!TwoTo[n]
  BY <1>9
<1>12. Scan!TwoTo \in [Nat -> Nat \ {0}]
  <2> DEFINE T == {n \in Nat : Scan!TwoTo[n] \in Nat \ {0}}
  <2>1. 0 \in T
    BY <1>10
  <2>2. ASSUME NEW n \in Nat, n \in T PROVE n + 1 \in T
    BY <1>11, <2>2
  <2>3. Nat \subseteq T
    <3> HIDE DEF T
    <3> QED BY <2>1, <2>2, NatSetInduction
  <2>4. DOMAIN Scan!TwoTo = Nat /\ Scan!TwoTo = [n \in Nat |-> Scan!TwoTo[n]]
    BY <1>9
  <2> QED BY <2>3, <2>4
<1> QED BY <1>10, <1>11, <1>12

(* Dividing leaves a quotient and a remainder that make up the number.     *)
LEMMA Euclid ==
  ASSUME NEW d \in Nat \ {0}, NEW x \in Nat
  PROVE  /\ x \div d \in Nat /\ x % d \in 0 .. d - 1
         /\ x = d * (x \div d) + (x % d)
<1>1. x \div d \in Nat
  BY SMTT(30)
<1>2. x % d \in 0 .. d - 1
  BY SMTT(30)
<1>3. x = d * (x \div d) + (x % d)
  BY SMTT(30)
<1> QED BY <1>1, <1>2, <1>3

(* No other quotient and remainder do.                                     *)
LEMMA EuclidUnique ==
  ASSUME NEW d \in Nat \ {0}, NEW x \in Nat, NEW q \in Nat, NEW r \in 0 .. d - 1,
         x = d * q + r
  PROVE  x \div d = q /\ x % d = r
<1> DEFINE p == x \div d
           s == x % d
<1>1. p \in Nat /\ s \in 0 .. d - 1 /\ x = d * p + s
  BY Euclid
<1> HIDE DEF p, s
<1>2. ~(p < q)
  <2> SUFFICES ASSUME p < q PROVE FALSE
    OBVIOUS
  <2>1. PICK e \in Nat : q = p + 1 + e
    <3>1. q - (p + 1) \in Nat /\ q = p + 1 + (q - (p + 1))
      BY <1>1
    <3> QED BY <3>1
  <2>2. d * q = d * p + d + d * e /\ d * e \in Nat /\ d * p \in Nat
    BY <1>1, <2>1, SMTT(30)
  <2> QED BY <1>1, <2>2
<1>3. ~(q < p)
  <2> SUFFICES ASSUME q < p PROVE FALSE
    OBVIOUS
  <2>1. PICK e \in Nat : p = q + 1 + e
    <3>1. p - (q + 1) \in Nat /\ p = q + 1 + (p - (q + 1))
      BY <1>1
    <3> QED BY <3>1
  <2>2. d * p = d * q + d + d * e /\ d * e \in Nat /\ d * q \in Nat
    BY <1>1, <2>1, SMTT(30)
  <2> QED BY <1>1, <2>2
<1>4. p = q
  BY <1>1, <1>2, <1>3
<1>5. d * q \in Nat
  OBVIOUS
<1>6. s = r
  BY <1>1, <1>4, <1>5
<1> QED BY <1>4, <1>6 DEF p, s

(* Dividing twice as far takes one more bit off the quotient.              *)
LEMMA Halving ==
  ASSUME NEW d \in Nat \ {0}, NEW x \in Nat
  PROVE  /\ (x \div d) % 2 \in {0, 1}
         /\ x \div (2 * d) \in Nat /\ x % (2 * d) \in Nat
         /\ x \div d = 2 * (x \div (2 * d)) + ((x \div d) % 2)
         /\ x % (2 * d) = d * ((x \div d) % 2) + (x % d)
<1> DEFINE q == x \div d
           r == x % d
           h == q \div 2
           b == q % 2
<1>1. q \in Nat /\ r \in 0 .. d - 1 /\ x = d * q + r
  BY Euclid
<1>2. h \in Nat /\ b \in 0 .. 1 /\ q = 2 * h + b
  <2> HIDE DEF q
  <2> QED BY <1>1, SMTT(30)
<1> HIDE DEF q, r, h, b
<1>3. x = (2 * d) * h + (d * b + r)
  <2>1. d * q = (2 * d) * h + d * b
    BY <1>1, <1>2, SMTT(30)
  <2>2. (2 * d) * h \in Nat /\ d * b \in Nat
    BY <1>2, SMTT(30)
  <2> QED BY <1>1, <2>1, <2>2
<1>4. d * b + r \in 0 .. 2 * d - 1 /\ 2 * d \in Nat \ {0}
  <2>1. b = 0 \/ b = 1
    BY <1>2
  <2>2. d * b = 0 \/ d * b = d
    BY <2>1
  <2> QED BY <1>1, <2>2
<1>5. x \div (2 * d) = h /\ x % (2 * d) = d * b + r
  <2> HIDE DEF b
  <2>1. PICK e \in Nat \ {0} : e = 2 * d
    BY <1>4
  <2>2. PICK t \in 0 .. e - 1 : t = d * b + r
    BY <1>4, <2>1
  <2>3. x = e * h + t
    BY <1>3, <2>1, <2>2
  <2>4. x \div e = h /\ x % e = t
    BY <1>2, <2>3, EuclidUnique
  <2> QED BY <2>1, <2>2, <2>4
<1>6. b \in {0, 1} /\ 2 * d \in Nat
  BY <1>2
<1>7. x \div (2 * d) \in Nat /\ x % (2 * d) \in Nat
  BY <1>2, <1>4, <1>5
<1>8. q = 2 * (x \div (2 * d)) + b /\ x % (2 * d) = d * b + r
  BY <1>2, <1>5
<1> QED BY <1>6, <1>7, <1>8 DEF q, r, b

(* One bit more of the quotient is one bit less of the remainder.          *)
LEMMA BitStep ==
  ASSUME NEW x \in Nat, NEW k \in Nat
  PROVE  /\ Scan!TwoTo[k] \in Nat \ {0} /\ Scan!TwoTo[k + 1] = 2 * Scan!TwoTo[k]
         /\ Scan!Bit(x, k) \in {0, 1}
         /\ x \div Scan!TwoTo[k] \in Nat
         /\ x % Scan!TwoTo[k] \in 0 .. Scan!TwoTo[k] - 1
         /\ x \div Scan!TwoTo[k] = 2 * (x \div Scan!TwoTo[k + 1]) + Scan!Bit(x, k)
         /\ x % Scan!TwoTo[k + 1] = Scan!TwoTo[k] * Scan!Bit(x, k) + (x % Scan!TwoTo[k])
<1>1. PICK d \in Nat \ {0} : d = Scan!TwoTo[k]
  BY PowerLaws
<1>2. Scan!TwoTo[k + 1] = 2 * d
  BY <1>1, PowerLaws
<1>3. Scan!Bit(x, k) = (x \div d) % 2
  BY <1>1 DEF Scan!Bit
<1>4. /\ x \div d \in Nat /\ x % d \in 0 .. d - 1
      /\ (x \div d) % 2 \in {0, 1}
      /\ x \div d = 2 * (x \div (2 * d)) + ((x \div d) % 2)
      /\ x % (2 * d) = d * ((x \div d) % 2) + (x % d)
  BY Euclid, Halving
<1> QED BY <1>1, <1>2, <1>3, <1>4

(* Two addresses have the same leading bits if and only if they are in the *)
(* same block of that size.                                                *)
LEMMA LeadingBits ==
  ASSUME NEW x \in Scan!Address, NEW y \in Scan!Address, NEW k \in 0 .. Width
  PROVE  (\A b \in k .. Width - 1 : Scan!Bit(x, b) = Scan!Bit(y, b))
           <=> x \div Scan!TwoTo[k] = y \div Scan!TwoTo[k]
<1>w. Width \in Nat /\ x \in Nat /\ y \in Nat
  BY ScanAssumption, PowerLaws DEF Scan!Address
<1> DEFINE S(z) == \A b \in z .. Width - 1 : Scan!Bit(x, b) = Scan!Bit(y, b)
           Same(z) == S(z) <=> x \div Scan!TwoTo[z] = y \div Scan!TwoTo[z]
           Q(j) == Same(Width - j)
           T == {j \in Nat : j <= Width => Q(j)}
<1>1. 0 \in T
  <2>1. PICK d \in Nat \ {0} : d = Scan!TwoTo[Width]
    BY <1>w, PowerLaws
  <2>2. x \in 0 .. d - 1 /\ y \in 0 .. d - 1
    BY <2>1 DEF Scan!Address
  <2>3. x = d * 0 + x /\ y = d * 0 + y
    BY <2>2
  <2>4. x \div d = 0 /\ y \div d = 0
    BY <1>w, <2>2, <2>3, EuclidUnique
  <2>5. Width - 0 = Width /\ \A b \in Width - 0 .. Width - 1 : FALSE
    BY <1>w
  <2>6. Q(0)
    BY <2>1, <2>4, <2>5
  <2> QED BY <2>6
<1>2. ASSUME NEW j \in Nat, j \in T PROVE j + 1 \in T
  <2>1. ASSUME j + 1 <= Width PROVE Q(j + 1)
    <3>1. PICK m \in Nat : m = Width - (j + 1) /\ m + 1 = Width - j
      BY <1>w, <2>1
    <3>2. Q(j)
      BY <1>2, <1>w, <2>1
    <3>3. S(m) <=> S(m + 1) /\ Scan!Bit(x, m) = Scan!Bit(y, m)
      <4>1. m \in m .. Width - 1 /\ m + 1 .. Width - 1 \subseteq m .. Width - 1
        BY <1>w, <2>1, <3>1
      <4>2. \A b \in m .. Width - 1 : b = m \/ b \in m + 1 .. Width - 1
        BY <1>w, <3>1
      <4> QED BY <4>1, <4>2
    <3> HIDE DEF S
    <3>4. S(m + 1) <=> x \div Scan!TwoTo[m + 1] = y \div Scan!TwoTo[m + 1]
      <4>1. Same(m + 1)
        <5> HIDE DEF Same
        <5> QED BY <3>1, <3>2
      <4> QED BY <4>1
    <3>5. /\ x \div Scan!TwoTo[m] = 2 * (x \div Scan!TwoTo[m + 1]) + Scan!Bit(x, m)
          /\ y \div Scan!TwoTo[m] = 2 * (y \div Scan!TwoTo[m + 1]) + Scan!Bit(y, m)
          /\ Scan!Bit(x, m) \in {0, 1} /\ Scan!Bit(y, m) \in {0, 1}
          /\ x \div Scan!TwoTo[m + 1] \in Nat /\ y \div Scan!TwoTo[m + 1] \in Nat
      <4>1. m + 1 \in Nat
        BY <3>1
      <4> QED BY <1>w, <4>1, BitStep, Zenon
    <3>6. x \div Scan!TwoTo[m] = y \div Scan!TwoTo[m] <=>
            /\ x \div Scan!TwoTo[m + 1] = y \div Scan!TwoTo[m + 1]
            /\ Scan!Bit(x, m) = Scan!Bit(y, m)
      BY <3>5
    <3>7. Same(m)
      BY <3>3, <3>4, <3>6
    <3>8. Width - (j + 1) = m
      BY <3>1
    <3> QED BY <3>7, <3>8, Zenon
  <2>2. j + 1 \in Nat
    OBVIOUS
  <2> HIDE DEF Q
  <2> QED BY <2>1, <2>2
<1>3. Nat \subseteq T
  <2> HIDE DEF T
  <2> QED BY <1>1, <1>2, NatSetInduction
<1>4. PICK j \in Nat : j = Width - k /\ Width - j = k /\ j <= Width
  BY <1>w
<1>5. Q(j)
  <2> HIDE DEF Q
  <2> QED BY <1>3, <1>4
<1> QED BY <1>4, <1>5

(* The trailing bits are all 0 or all 1 at the ends of a block.            *)
LEMMA TrailingBits ==
  ASSUME NEW x \in Nat, NEW v \in {0, 1}, NEW k \in Nat
  PROVE  (\A b \in 0 .. k - 1 : Scan!Bit(x, b) = v)
           <=> x % Scan!TwoTo[k] = v * (Scan!TwoTo[k] - 1)
<1> DEFINE Q(j) == (\A b \in 0 .. j - 1 : Scan!Bit(x, b) = v)
                     <=> x % Scan!TwoTo[j] = v * (Scan!TwoTo[j] - 1)
           T == {j \in Nat : Q(j)}
<1>1. 0 \in T
  <2>1. Scan!TwoTo[0] = 1
    BY PowerLaws
  <2>2. x % 1 = 0
    OBVIOUS
  <2>3. \A b \in 0 .. 0 - 1 : FALSE
    OBVIOUS
  <2> QED BY <2>1, <2>2, <2>3
<1>2. ASSUME NEW j \in Nat, j \in T PROVE j + 1 \in T
  <2> DEFINE S(z) == \A b \in 0 .. z - 1 : Scan!Bit(x, b) = v
  <2>1. S(j + 1) <=> S(j) /\ Scan!Bit(x, j) = v
    <3>1. j \in 0 .. (j + 1) - 1 /\ 0 .. j - 1 \subseteq 0 .. (j + 1) - 1
      OBVIOUS
    <3>2. \A b \in 0 .. (j + 1) - 1 : b = j \/ b \in 0 .. j - 1
      OBVIOUS
    <3> QED BY <3>1, <3>2
  <2>2. S(j) <=> x % Scan!TwoTo[j] = v * (Scan!TwoTo[j] - 1)
    BY <1>2
  <2> HIDE DEF S
  <2> DEFINE d == Scan!TwoTo[j]
             c == Scan!Bit(x, j)
             r == x % d
             t == x % Scan!TwoTo[j + 1]
  <2>3. /\ d \in Nat \ {0} /\ Scan!TwoTo[j + 1] = 2 * d
        /\ c \in {0, 1} /\ r \in 0 .. d - 1 /\ t = d * c + r
    BY BitStep, Zenon
  <2>4. S(j) <=> r = v * (d - 1)
    BY <2>2
  <2> HIDE DEF d, c, r, t
  <2>5. d * c + r = v * (2 * d - 1) <=> r = v * (d - 1) /\ c = v
    <3>1. CASE v = 0 /\ c = 0
      BY <2>3, <3>1
    <3>2. CASE v = 0 /\ c = 1
      BY <2>3, <3>2
    <3>3. CASE v = 1 /\ c = 0
      BY <2>3, <3>3
    <3>4. CASE v = 1 /\ c = 1
      BY <2>3, <3>4
    <3> QED BY <2>3, <3>1, <3>2, <3>3, <3>4
  <2>6. S(j + 1) <=> t = v * (Scan!TwoTo[j + 1] - 1)
    <3>1. S(j + 1) <=> r = v * (d - 1) /\ c = v
      BY <2>1, <2>4 DEF c
    <3>2. S(j + 1) <=> t = v * (2 * d - 1)
      BY <2>3, <2>5, <3>1, Zenon
    <3> QED BY <2>3, <3>2, Zenon
  <2>7. Q(j + 1)
    BY <2>6 DEF S, t
  <2> HIDE DEF Q
  <2> QED BY <2>7
<1>3. Nat \subseteq T
  <2> HIDE DEF T
  <2> QED BY <1>1, <1>2, NatSetInduction
<1>4. Q(k)
  <2> HIDE DEF Q
  <2> QED BY <1>3
<1> QED BY <1>4

(* A block is the range of numbers with its quotient.                      *)
LEMMA Block ==
  ASSUME NEW s \in Nat \ {0}, NEW a \in Nat, NEW x \in Nat
  PROVE  /\ a - (a % s) = s * (a \div s) /\ a - (a % s) \in Nat
         /\ x \div s = a \div s
              <=> a - (a % s) <= x /\ x <= a - (a % s) + s - 1
         /\ x \div s = a \div s => x = a - (a % s) + (x % s)
<1> DEFINE q == a \div s
           r == a % s
           p == x \div s
           t == x % s
<1>1. q \in Nat /\ r \in 0 .. s - 1 /\ a = s * q + r
  BY Euclid
<1>2. p \in Nat /\ t \in 0 .. s - 1 /\ x = s * p + t
  BY Euclid
<1>3. ASSUME s * q <= x, x <= s * q + s - 1 PROVE p = q
  <2> HIDE DEF q, r
  <2>0. s * q \in Nat
    BY <1>1
  <2>1. PICK u \in 0 .. s - 1 : u = x - s * q /\ x = s * q + u
    BY <1>3, <2>0
  <2> QED BY <1>1, <2>1, EuclidUnique
<1> HIDE DEF q, r, p, t
<1>4. s * q \in Nat /\ s * p \in Nat
  BY <1>1, <1>2
<1>5. a - r = s * q
  BY <1>1, <1>4
<1>6. p = q => s * q <= x /\ x <= s * q + s - 1 /\ x = s * q + t
  BY <1>2, <1>4
<1>7. p = q <=> a - r <= x /\ x <= a - r + s - 1
  BY <1>3, <1>5, <1>6
<1>8. p = q => x = a - r + t
  BY <1>5, <1>6
<1>9. a - r = s * q /\ a - r \in Nat
  BY <1>4, <1>5
<1> QED BY <1>7, <1>8, <1>9 DEF q, r, p, t

(* The last block ends with the last address.                              *)
LEMMA BlockInside ==
  ASSUME NEW a \in Scan!Address, NEW k \in 0 .. Width
  PROVE  a - (a % Scan!TwoTo[k]) + Scan!TwoTo[k] <= Scan!TwoTo[Width]
<1>w. Width \in Nat /\ a \in Nat
  BY ScanAssumption, PowerLaws DEF Scan!Address
<1> DEFINE End(z) == Scan!TwoTo[z] * (a \div Scan!TwoTo[z]) + Scan!TwoTo[z]
           Q(j) == End(Width - j) <= Scan!TwoTo[Width]
           T == {j \in Nat : j <= Width => Q(j)}
<1>1. 0 \in T
  <2>1. PICK d \in Nat \ {0} : d = Scan!TwoTo[Width]
    BY <1>w, PowerLaws
  <2>2. a \in 0 .. d - 1
    BY <2>1 DEF Scan!Address
  <2>3. a = d * 0 + a
    BY <2>2
  <2>4. a \div d = 0
    BY <1>w, <2>2, <2>3, EuclidUnique
  <2>5. d * (a \div d) + d <= d
    BY <2>4
  <2>6. Width - 0 = Width
    BY <1>w
  <2>7. Q(0)
    BY <2>1, <2>5, <2>6
  <2> QED BY <2>7
<1>2. ASSUME NEW j \in Nat, j \in T PROVE j + 1 \in T
  <2>1. ASSUME j + 1 <= Width PROVE Q(j + 1)
    <3>1. PICK m \in Nat : m = Width - (j + 1) /\ m + 1 = Width - j
      BY <1>w, <2>1
    <3>2. End(m + 1) <= Scan!TwoTo[Width]
      <4>1. Q(j)
        BY <1>2, <1>w, <2>1
      <4> QED BY <3>1, <4>1, Zenon
    <3> DEFINE d == Scan!TwoTo[m]
               c == Scan!Bit(a, m)
               q == a \div d
               h == a \div Scan!TwoTo[m + 1]
    <3>3. /\ d \in Nat \ {0} /\ Scan!TwoTo[m + 1] = 2 * d
          /\ c \in {0, 1} /\ q = 2 * h + c
      BY <1>w, BitStep, Zenon
    <3>4. h \in Nat
      <4>1. m + 1 \in Nat
        BY <3>1
      <4> QED BY <1>w, <4>1, BitStep, Zenon
    <3>5. Scan!TwoTo[Width] \in Nat
      BY <1>w, PowerLaws
    <3>6. End(m + 1) = Scan!TwoTo[m + 1] * h + Scan!TwoTo[m + 1] /\ End(m) = d * q + d
      OBVIOUS
    <3> HIDE DEF d, c, q, h, End
    <3>7. End(m) <= End(m + 1) /\ End(m) \in Nat /\ End(m + 1) \in Nat
      <4>1. PICK u \in Nat : u = d * h
        BY <3>3, <3>4
      <4>2. Scan!TwoTo[m + 1] * h = u + u
        BY <3>3, <3>4, <4>1
      <4>3. d * q = u + u + d * c /\ d * c <= d /\ d * c \in Nat
        BY <3>3, <3>4, <4>1, SMTT(30)
      <4> QED BY <3>3, <3>6, <4>1, <4>2, <4>3
    <3>8. End(m) <= Scan!TwoTo[Width]
      BY <3>2, <3>5, <3>7
    <3>9. Width - (j + 1) = m
      BY <3>1
    <3> QED BY <3>8, <3>9, Zenon
  <2>2. j + 1 \in Nat
    OBVIOUS
  <2> HIDE DEF Q
  <2> QED BY <2>1, <2>2
<1>3. Nat \subseteq T
  <2> HIDE DEF T
  <2> QED BY <1>1, <1>2, NatSetInduction
<1>4. PICK j \in Nat : j = Width - k /\ Width - j = k /\ j <= Width
  BY <1>w
<1>5. End(k) <= Scan!TwoTo[Width]
  <2>1. Q(j)
    <3> HIDE DEF Q
    <3> QED BY <1>3, <1>4
  <2> QED BY <1>4, <2>1, Zenon
<1>6. Scan!TwoTo[k] \in Nat \ {0}
  BY <1>w, PowerLaws
<1>7. a - (a % Scan!TwoTo[k]) = Scan!TwoTo[k] * (a \div Scan!TwoTo[k])
  BY <1>w, <1>6, Block, Zenon
<1> QED BY <1>5, <1>7, Zenon

(* A network made from an address a and a prefix length.                   *)
IsNetwork(n) == \E i, source, a, prefix :
                  /\ a \in Scan!Address /\ prefix \in 0 .. Width
                  /\ n = Scan!Network(i, source, a, prefix)

(* The arithmetic of the bounds, with the size of a network.               *)
LEMMA NetworkFacts ==
  ASSUME NEW n, IsNetwork(n)
  PROVE  /\ n.prefix \in 0 .. Width /\ Width - n.prefix \in 0 .. Width
         /\ n.given \in Scan!Address
         /\ n.network = n.given - (n.given % Scan!TwoTo[Width - n.prefix])
         /\ n.network \in Nat
         /\ n.broadcast = n.network + Scan!TwoTo[Width - n.prefix] - 1
         /\ n.broadcast <= Scan!TwoTo[Width] - 1
<1>1. PICK i, source, a, prefix :
        /\ a \in Scan!Address /\ prefix \in 0 .. Width
        /\ n = Scan!Network(i, source, a, prefix)
  BY Zenon DEF IsNetwork
<1>2. /\ n.prefix = prefix /\ n.given = a /\ n.network = Scan!Base(a, prefix)
      /\ n.broadcast = Scan!Base(a, prefix) + Scan!Size(prefix) - 1
  BY <1>1 DEF Scan!Network
<1>3. Width \in Nat /\ a \in Nat
  BY <1>1, ScanAssumption, PowerLaws DEF Scan!Address
<1>4. Width - prefix \in 0 .. Width
  BY <1>1, <1>3
<1>5. Scan!Size(prefix) = Scan!TwoTo[Width - prefix]
  <2>1. prefix = 0 => Width - prefix = Width
    BY <1>3
  <2> QED BY <2>1, Zenon DEF Scan!Size
<1>6. Scan!Base(a, prefix) = a - (a % Scan!TwoTo[Width - prefix])
  BY <1>5, Zenon DEF Scan!Base
<1>7. PICK s \in Nat \ {0} : s = Scan!TwoTo[Width - prefix]
  BY <1>4, PowerLaws
<1>8. a - (a % s) \in Nat
  BY <1>3, Block, Zenon
<1>9. PICK e \in Nat : e = Scan!TwoTo[Width]
  BY <1>3, PowerLaws
<1>10. a - (a % s) + s <= e
  BY <1>1, <1>4, <1>7, <1>9, BlockInside, Zenon
<1>11. n.network = a - (a % s) /\ n.broadcast = n.network + s - 1
  BY <1>2, <1>5, <1>6, <1>7
<1>12. n.broadcast <= e - 1
  <2> DEFINE b == a - (a % s)
  <2>1. b \in Nat /\ b + s <= e /\ n.broadcast = b + s - 1
    BY <1>8, <1>10, <1>11
  <2> HIDE DEF b
  <2> QED BY <2>1
<1> QED BY <1>1, <1>2, <1>4, <1>7, <1>8, <1>9, <1>11, <1>12, Zenon

(* The host bounds hold the addresses that are hosts by their bits.        *)
LEMMA CandidatesExact ==
  ASSUME NEW n, IsNetwork(n), NEW x
  PROVE  x \in Scan!Candidates(n) <=> x \in Scan!Address /\ Scan!IsHost(n, x)
<1> DEFINE k == Width - n.prefix
           s == Scan!TwoTo[k]
           a == n.given
           e == Scan!TwoTo[Width]
<1>1. /\ n.prefix \in 0 .. Width /\ k \in 0 .. Width /\ a \in Scan!Address
      /\ n.network = a - (a % s) /\ n.network \in Nat
      /\ n.broadcast = n.network + s - 1 /\ n.broadcast <= e - 1
  BY NetworkFacts, Zenon
<1>2. Width \in Nat /\ s \in Nat \ {0} /\ e \in Nat /\ a \in Nat
  <2>1. Width \in Nat /\ k \in Nat
    BY <1>1, ScanAssumption
  <2>2. s \in Nat \ {0} /\ e \in Nat
    <3> HIDE DEF k
    <3> QED BY <2>1, PowerLaws
  <2>3. a \in Nat
    <3> HIDE DEF k, s, a
    <3> QED BY <1>1, <2>2 DEF Scan!Address
  <2> QED BY <2>1, <2>2, <2>3
<1>3. n.prefix <= Width - 2 <=> k >= 2
  BY <1>1, <1>2
<1>4. x \in Scan!Candidates(n) <=>
        /\ x \in n.network .. n.broadcast
        /\ k >= 2 => x # n.network /\ x # n.broadcast
  <2> DEFINE lo == n.network
             hi == n.broadcast
  <2>1. lo \in Nat /\ hi \in Int
    BY <1>1, <1>2
  <2>2. Scan!Candidates(n) = IF k >= 2 THEN lo + 1 .. hi - 1 ELSE lo .. hi
    BY <1>3 DEF Scan!Candidates, Scan!HostBounds
  <2> HIDE DEF lo, hi
  <2>4. x \in lo + 1 .. hi - 1 <=> x \in lo .. hi /\ x # lo /\ x # hi
    BY <2>1
  <2>5. x \in Scan!Candidates(n) <=>
          x \in lo .. hi /\ (k >= 2 => x # lo /\ x # hi)
    BY <2>2, <2>4
  <2> QED BY <2>5 DEF lo, hi
<1>5. x \in n.network .. n.broadcast => x \in Scan!Address
  BY <1>1, <1>2 DEF Scan!Address
<1>6. ASSUME x \in Scan!Address
      PROVE  Scan!IsHost(n, x) <=>
               /\ x \in n.network .. n.broadcast
               /\ k >= 2 => x # n.network /\ x # n.broadcast
  <2>1. x \in Nat
    BY <1>2, <1>6 DEF Scan!Address
  <2>2. (\A b \in k .. Width - 1 : Scan!Bit(x, b) = Scan!Bit(n.given, b))
          <=> x \div s = a \div s
    BY <1>1, <1>6, LeadingBits, Zenon
  <2>3. x \div s = a \div s <=> n.network <= x /\ x <= n.broadcast
    <3>1. x \div s = a \div s <=> a - (a % s) <= x /\ x <= a - (a % s) + s - 1
      BY <1>2, <2>1, Block, Zenon
    <3> QED BY <1>1, <3>1, Zenon
  <2>4. x \div s = a \div s <=> x \in n.network .. n.broadcast
    BY <1>1, <1>2, <2>1, <2>3
  <2>5. ASSUME x \div s = a \div s, k >= 2
        PROVE  {Scan!Bit(x, b) : b \in 0 .. k - 1} = {0, 1}
                 <=> x # n.network /\ x # n.broadcast
    <3>1. k \in Nat
      BY <1>1
    <3>2. (\A b \in 0 .. k - 1 : Scan!Bit(x, b) = 0) <=> x % s = 0 * (s - 1)
      BY <2>1, <3>1, TrailingBits, Zenon
    <3>3. (\A b \in 0 .. k - 1 : Scan!Bit(x, b) = 1) <=> x % s = 1 * (s - 1)
      BY <2>1, <3>1, TrailingBits, Zenon
    <3>4. \A b \in 0 .. k - 1 : Scan!Bit(x, b) \in {0, 1}
      <4>1. \A b \in 0 .. k - 1 : b \in Nat
        BY <3>1
      <4> QED BY <2>1, <4>1, BitStep, Zenon
    <3>5. 0 \in 0 .. k - 1
      BY <2>5, <3>1
    <3>6. {Scan!Bit(x, b) : b \in 0 .. k - 1} = {0, 1} <=>
            /\ ~ \A b \in 0 .. k - 1 : Scan!Bit(x, b) = 0
            /\ ~ \A b \in 0 .. k - 1 : Scan!Bit(x, b) = 1
      <4> DEFINE I == 0 .. k - 1
                 B(b) == Scan!Bit(x, b)
      <4>1. (\A b \in I : B(b) \in {0, 1}) /\ 0 \in I
        BY <3>4, <3>5
      <4> HIDE DEF I, B
      <4>2. {B(b) : b \in I} = {0, 1} <=> (~ \A b \in I : B(b) = 0) /\ (~ \A b \in I : B(b) = 1)
        BY <4>1
      <4> QED BY <4>2 DEF I, B
    <3>7. x = n.network + (x % s)
      <4>1. x = a - (a % s) + (x % s)
        BY <1>2, <2>1, <2>5, Block, Zenon
      <4> QED BY <1>1, <4>1, Zenon
    <3>8. x % s \in 0 .. s - 1
      BY <1>2, <2>1, Euclid, Zenon
    <3> DEFINE t == x % s
    <3>9. (t = 0 * (s - 1) <=> x = n.network) /\ (t = 1 * (s - 1) <=> x = n.broadcast)
      <4>1. x = n.network + t /\ t \in 0 .. s - 1
        BY <3>7, <3>8
      <4> HIDE DEF t
      <4> QED BY <1>1, <1>2, <4>1
    <3> QED BY <3>2, <3>3, <3>6, <3>9
  <2> QED BY <2>2, <2>4, <2>5, Zenon DEF Scan!IsHost
<1> QED BY <1>4, <1>5, <1>6, Zenon

(* The number of targets announced is the number of hosts but the source.  *)
LEMMA CountExact ==
  ASSUME NEW n, IsNetwork(n)
  PROVE  LET hosts == {x \in Scan!Address : Scan!IsHost(n, x) /\ x # n.address}
         IN  /\ IsFiniteSet(hosts)
             /\ Scan!TargetCount(n) = Cardinality(hosts)
<1> DEFINE hosts == {x \in Scan!Address : Scan!IsHost(n, x) /\ x # n.address}
           lo == Scan!HostBounds(n)[1]
           hi == Scan!HostBounds(n)[2]
           k == Width - n.prefix
           s == Scan!TwoTo[k]
<1>1. hosts = Scan!Candidates(n) \ {n.address}
  BY CandidatesExact
<1>2. /\ n.prefix \in 0 .. Width /\ k \in 0 .. Width /\ n.network \in Nat
      /\ n.broadcast = n.network + s - 1
  BY NetworkFacts, Zenon
<1>3. Width \in Nat /\ s \in Nat \ {0}
  <2>1. Width \in Nat /\ k \in Nat
    BY <1>2, ScanAssumption
  <2> HIDE DEF k
  <2> QED BY <2>1, PowerLaws
<1>4. k >= 2 => s >= 4
  <2> SUFFICES ASSUME k >= 2 PROVE s >= 4
    OBVIOUS
  <2>1. PICK m \in Nat : m + 1 + 1 = k
    <3>1. k - 2 \in Nat /\ (k - 2) + 1 + 1 = k
      BY <1>2
    <3> QED BY <3>1
  <2>2. Scan!TwoTo[m + 1 + 1] = 2 * Scan!TwoTo[m + 1] /\ Scan!TwoTo[m + 1] = 2 * Scan!TwoTo[m]
        /\ Scan!TwoTo[m] \in Nat \ {0}
    BY PowerLaws
  <2> QED BY <2>1, <2>2
<1>5. lo \in Int /\ hi \in Int /\ lo <= hi
  <2>1. n.prefix <= Width - 2 <=> k >= 2
    BY <1>2, <1>3
  <2>2. CASE k >= 2
    <3>1. lo = n.network + 1 /\ hi = n.broadcast - 1
      BY <2>1, <2>2 DEF Scan!HostBounds
    <3> HIDE DEF lo, hi, k, s
    <3> QED BY <1>2, <1>3, <1>4, <2>2, <3>1
  <2>3. CASE ~(k >= 2)
    <3>1. lo = n.network /\ hi = n.broadcast
      BY <2>1, <2>3 DEF Scan!HostBounds
    <3> HIDE DEF lo, hi, k, s
    <3> QED BY <1>2, <1>3, <3>1
  <2> QED BY <2>2, <2>3
<1>6. IsFiniteSet(lo .. hi) /\ Cardinality(lo .. hi) = hi - lo + 1
  <2> HIDE DEF lo, hi
  <2> QED BY <1>5, FS_Interval
<1>7. Scan!Candidates(n) = lo .. hi
  BY DEF Scan!Candidates
<1>8. /\ IsFiniteSet(hosts)
      /\ Cardinality(hosts) = IF n.address \in lo .. hi THEN hi - lo + 1 - 1 ELSE hi - lo + 1
  <2> DEFINE C == lo .. hi
  <2>1. IsFiniteSet(C) /\ Cardinality(C) = hi - lo + 1 /\ hosts = C \ {n.address}
    BY <1>1, <1>6, <1>7, Zenon
  <2> HIDE DEF lo, hi, hosts, C
  <2>2. /\ IsFiniteSet(hosts)
        /\ Cardinality(hosts) = IF n.address \in C THEN hi - lo + 1 - 1 ELSE hi - lo + 1
    <3>1. IsFiniteSet(C \ {n.address})
      BY <2>1, FS_RemoveElement
    <3>2. n.address \in C => Cardinality(C \ {n.address}) = Cardinality(C) - 1
      BY <2>1, FS_RemoveElement
    <3>3. n.address \notin C => C \ {n.address} = C
      OBVIOUS
    <3>4. Cardinality(hosts) = IF n.address \in C THEN Cardinality(C) - 1 ELSE Cardinality(C)
      BY <2>1, <3>2, <3>3, Zenon
    <3>5. IsFiniteSet(hosts)
      BY <2>1, <3>1, Zenon
    <3> QED BY <1>5, <2>1, <3>4, <3>5
  <2> QED BY <2>2 DEF C
<1>9. Scan!TargetCount(n) = hi - lo + 1 - (IF n.address \in lo .. hi THEN 1 ELSE 0)
  BY <1>7 DEF Scan!TargetCount
<1>10. Scan!TargetCount(n) = Cardinality(hosts)
  <2> HIDE DEF lo, hi, hosts
  <2> QED BY <1>5, <1>8, <1>9
<1> QED BY <1>8, <1>10

(* A list of networks.                                                     *)
AreNetworks(list) == \E n \in Nat : /\ DOMAIN list = 1 .. n
                                    /\ \A k \in 1 .. n : IsNetwork(list[k])

LEMMA SubnetIsNetwork ==
  ASSUME NEW h \in Hosts, NEW i, Scan!Scannable(h, i)
  PROVE  IsNetwork(Scan!Subnet(h, i))
<1>1. i \in DOMAIN h.interfaces /\ h.interfaces[i].configured
  BY DEF Scan!Scannable
<1>2. /\ h.interfaces[i].address \in Scan!Address
      /\ h.interfaces[i].prefix \in 0 .. Width
  BY <1>1, ScanAssumption, Zenon
<1> QED BY <1>2, Zenon DEF Scan!Subnet, IsNetwork

LEMMA BaseIsAddress ==
  ASSUME NEW a \in Scan!Address, NEW prefix \in 0 .. Width
  PROVE  Scan!Base(a, prefix) \in Scan!Address
<1> DEFINE n == Scan!Network(0, 0, a, prefix)
<1>1. IsNetwork(n)
  BY Zenon DEF IsNetwork
<1>2. n.network = Scan!Base(a, prefix) /\ n.prefix = prefix
  BY DEF Scan!Network
<1> HIDE DEF n
<1>3. /\ n.network \in Nat /\ Width - prefix \in 0 .. Width
      /\ n.broadcast = n.network + Scan!TwoTo[Width - prefix] - 1
      /\ n.broadcast <= Scan!TwoTo[Width] - 1
  BY <1>1, <1>2, NetworkFacts, Zenon
<1>4. Scan!TwoTo[Width - prefix] \in Nat \ {0} /\ Scan!TwoTo[Width] \in Nat
  <2>1. Width \in Nat /\ Width - prefix \in Nat
    BY <1>3, ScanAssumption
  <2> QED BY <2>1, PowerLaws
<1>5. n.network \in 0 .. Scan!TwoTo[Width] - 1
  BY <1>3, <1>4
<1> QED BY <1>2, <1>5 DEF Scan!Address

(* The networks chosen are networks.                                       *)
LEMMA NetworksChosen ==
  ASSUME NEW h \in Hosts, NEW s \in Scan!Selection(h),
         NEW list \in Scan!NetworksOf(h, s)
  PROVE  AreNetworks(list)
<1>1. s.kind \in {"default", "interface", "cidr"}
  BY DEF Scan!Selection, Scan!NoSelection
<1>2. ASSUME NEW n, IsNetwork(n) PROVE AreNetworks(<<n>>)
  <2>1. DOMAIN <<n>> = 1 .. 1 /\ <<n>>[1] = n /\ \A k \in 1 .. 1 : k = 1
    OBVIOUS
  <2> QED BY <1>2, <2>1 DEF AreNetworks
<1>3. CASE s.kind = "interface"
  <2>1. Scan!Scannable(h, s.name) /\ list = <<Scan!Subnet(h, s.name)>>
    BY <1>3, Zenon DEF Scan!NetworksOf
  <2> QED BY <1>2, <2>1, SubnetIsNetwork
<1>4. CASE s.kind = "cidr"
  <2>1. s.address \in Scan!Address /\ s.prefix \in 0 .. Width
    BY <1>4 DEF Scan!Selection, Scan!NoSelection
  <2>2. PICK i : list = <<Scan!Network(i, h.interfaces[i].address,
                                       Scan!Base(s.address, s.prefix), s.prefix)>>
    <3>1. list \in Scan!CidrNetworks(h, s.address, s.prefix)
      BY <1>4 DEF Scan!NetworksOf
    <3> QED BY <3>1, Zenon DEF Scan!CidrNetworks
  <2>3. Scan!Base(s.address, s.prefix) \in Scan!Address
    BY <2>1, BaseIsAddress
  <2>4. IsNetwork(Scan!Network(i, h.interfaces[i].address,
                               Scan!Base(s.address, s.prefix), s.prefix))
    BY <2>1, <2>3, Zenon DEF IsNetwork
  <2> QED BY <1>2, <2>2, <2>4
<1>5. CASE s.kind = "default"
  <2>1. list \in Scan!DefaultNetworks(h)
    BY <1>5 DEF Scan!NetworksOf
  <2> DEFINE preferred == {r.interface : r \in Scan!DefaultRoutes(h)}
             picked == {i \in DOMAIN h.interfaces :
                          /\ Scan!Scannable(h, i)
                          /\ preferred = {} \/ i \in preferred}
             subnets == [i \in DOMAIN h.interfaces |-> Scan!Subnet(h, i)]
  <2>2. list \in IF picked = {} THEN {} ELSE {Scan!Pick(subnets, picked)}
    BY <2>1, Zenon DEF Scan!DefaultNetworks
  <2>3. picked \in SUBSET DOMAIN h.interfaces /\ \A i \in picked : Scan!Scannable(h, i)
    OBVIOUS
  <2>4. \A i \in picked : IsNetwork(subnets[i])
    BY <2>3, SubnetIsNetwork
  <2> HIDE DEF picked, subnets
  <2>5. list = Scan!Pick(subnets, picked)
    BY <2>2
  <2>6. PICK m \in Nat : DOMAIN h.interfaces = 1 .. m
    BY ScanAssumption
  <2>7. picked \in SUBSET (1 .. m)
    BY <2>3, <2>6
  <2>8. Scan!Pick(subnets, picked) = Pick(subnets, picked)
    BY DEF Scan!Pick, Pick, Scan!Rank, Rank, Scan!Cardinality, Cardinality
  <2>9. subnets \in Seq({subnets[i] : i \in 1 .. m}) /\ DOMAIN subnets = 1 .. m
    <3>1. DOMAIN subnets = 1 .. m
      BY <2>6 DEF subnets
    <3>2. subnets = [i \in 1 .. m |-> subnets[i]]
      BY <2>6, Zenon DEF subnets
    <3>3. subnets \in [1 .. m -> {subnets[i] : i \in 1 .. m}]
      BY <3>2
    <3> QED BY <3>1, <3>3
  <2>10. /\ DOMAIN list = 1 .. Len(list) /\ Len(list) \in Nat
         /\ \A k \in DOMAIN list : \E i \in picked : list[k] = subnets[i]
    <3> DEFINE T == {subnets[i] : i \in 1 .. m}
    <3>1. subnets \in Seq(T) /\ picked \in SUBSET DOMAIN subnets
      BY <2>7, <2>9
    <3> HIDE DEF T
    <3>2. /\ DOMAIN Pick(subnets, picked) = 1 .. Len(Pick(subnets, picked))
          /\ Len(Pick(subnets, picked)) = Cardinality(picked) /\ Cardinality(picked) \in Nat
          /\ \A k \in DOMAIN Pick(subnets, picked) :
               \E p \in picked : Pick(subnets, picked)[k] = subnets[p]
      BY <3>1, PickElements, Zenon
    <3> QED BY <2>5, <2>8, <3>2
  <2> QED BY <2>4, <2>9, <2>10 DEF AreNetworks
<1> QED BY <1>1, <1>3, <1>4, <1>5

(* The equation of the fold that adds up c from 1 to n.                    *)
Sums(n, c, f) ==
  f = [s \in SUBSET (1 .. n) |->
         IF s = {} THEN 0
         ELSE LET x == CHOOSE x \in s : \A y \in s : x >= y
              IN  f[s \ {x}] + c[x]]

(* It has a solution.                                                      *)
LEMMA SumsExist ==
  ASSUME NEW m \in Nat, NEW c
  PROVE  \E f : Sums(m, c, f)
<1> DEFINE T == {n \in Nat : \E f : Sums(n, c, f)}
           top(s) == CHOOSE x \in s : \A y \in s : x >= y
<1>1. 0 \in T
  <2> DEFINE f == [s \in SUBSET (1 .. 0) |-> 0]
  <2>1. \A s \in SUBSET (1 .. 0) : s = {}
    OBVIOUS
  <2>2. Sums(0, c, f)
    BY <2>1 DEF Sums
  <2> QED BY <2>2
<1>2. ASSUME NEW n \in Nat, n \in T PROVE n + 1 \in T
  <2>1. PICK g : Sums(n, c, g)
    BY <1>2
  <2> DEFINE h == [s \in SUBSET (1 .. n + 1) |->
                     IF n + 1 \in s THEN g[s \ {n + 1}] + c[n + 1] ELSE g[s]]
  <2>2. ASSUME NEW s \in SUBSET (1 .. n + 1)
        PROVE  h[s] = IF s = {} THEN 0 ELSE h[s \ {top(s)}] + c[top(s)]
    <3>1. CASE n + 1 \in s
      <4>1. \A y \in s : n + 1 >= y
        OBVIOUS
      <4>2. top(s) = n + 1
        <5>1. \A x \in s : (\A y \in s : x >= y) => x = n + 1
          BY <3>1, <4>1
        <5> QED BY <3>1, <4>1, <5>1
      <4>3. s \ {n + 1} \in SUBSET (1 .. n + 1) /\ n + 1 \notin s \ {n + 1}
        OBVIOUS
      <4>4. h[s \ {n + 1}] = g[s \ {n + 1}]
        BY <4>3
      <4>5. h[s] = g[s \ {n + 1}] + c[n + 1]
        BY <3>1
      <4> HIDE DEF h, top
      <4> QED BY <3>1, <4>2, <4>4, <4>5
    <3>2. CASE n + 1 \notin s
      <4>1. s \in SUBSET (1 .. n)
        BY <3>2
      <4>2. g[s] = IF s = {} THEN 0 ELSE g[s \ {top(s)}] + c[top(s)]
        BY <2>1, <4>1 DEF Sums
      <4>3. s \ {top(s)} \in SUBSET (1 .. n + 1) /\ n + 1 \notin s \ {top(s)}
        <5> HIDE DEF top
        <5> QED BY <3>2
      <4>4. h[s] = g[s] /\ h[s \ {top(s)}] = g[s \ {top(s)}]
        <5> HIDE DEF top
        <5> QED BY <3>2, <4>3
      <4> HIDE DEF h, top
      <4> QED BY <4>2, <4>4
    <3> QED BY <3>1, <3>2
  <2>3. h = [s \in SUBSET (1 .. n + 1) |-> h[s]]
    OBVIOUS
  <2>4. h = [s \in SUBSET (1 .. n + 1) |->
               IF s = {} THEN 0 ELSE h[s \ {top(s)}] + c[top(s)]]
    <3> HIDE DEF h, top
    <3> QED BY <2>2, <2>3
  <2>5. Sums(n + 1, c, h)
    <3> HIDE DEF h
    <3> QED BY <2>4 DEF Sums
  <2>6. n + 1 \in Nat
    OBVIOUS
  <2> HIDE DEF h
  <2> QED BY <2>5, <2>6
<1>3. Nat \subseteq T
  <2> HIDE DEF T
  <2> QED BY <1>1, <1>2, NatSetInduction
<1> QED BY <1>3

(* What it adds at each number.                                            *)
LEMMA SumsSteps ==
  ASSUME NEW n \in Nat, NEW c, NEW f, Sums(n, c, f)
  PROVE  /\ f[{}] = 0
         /\ \A k \in Nat : k + 1 <= n => f[1 .. k + 1] = f[1 .. k] + c[k + 1]
<1>1. f[{}] = 0
  BY DEF Sums
<1>2. ASSUME NEW k \in Nat, k + 1 <= n
      PROVE  f[1 .. k + 1] = f[1 .. k] + c[k + 1]
  <2> DEFINE s == 1 .. k + 1
             top == CHOOSE x \in s : \A y \in s : x >= y
  <2>1. s \in SUBSET (1 .. n) /\ s # {} /\ k + 1 \in s
    BY <1>2
  <2>2. f[s] = f[s \ {top}] + c[top]
    <3> HIDE DEF s
    <3> QED BY <2>1 DEF Sums
  <2>3. top = k + 1
    <3>1. k + 1 \in s /\ \A y \in s : k + 1 >= y
      OBVIOUS
    <3>2. \A x \in s : (\A y \in s : x >= y) => x = k + 1
      OBVIOUS
    <3> HIDE DEF s
    <3> QED BY <3>1, <3>2
  <2>4. s \ {k + 1} = 1 .. k
    OBVIOUS
  <2> HIDE DEF top, s
  <2>5. f[s] = f[1 .. k] + c[k + 1]
    BY <2>2, <2>3, <2>4
  <2> QED BY <2>5 DEF s
<1> QED BY <1>1, <1>2

(* The hosts of a network, as pairs with its place in the list.            *)
LEMMA PairsCount ==
  ASSUME NEW S, NEW k, IsFiniteSet(S)
  PROVE  IsFiniteSet(S \X {k}) /\ Cardinality(S \X {k}) = Cardinality(S)
<1> DEFINE F == [a \in S |-> <<a, k>>]
<1>1. F \in Bijection(S, S \X {k})
  <2>1. F \in [S -> S \X {k}]
    OBVIOUS
  <2>2. \A a, b \in S : F[a] = F[b] => a = b
    OBVIOUS
  <2>3. \A t \in S \X {k} : \E a \in S : F[a] = t
    OBVIOUS
  <2> HIDE DEF F
  <2> QED BY <2>1, <2>2, <2>3 DEF Bijection, Injection, Surjection, IsInjective
<1>2. ExistsBijection(S, S \X {k})
  BY <1>1 DEF ExistsBijection
<1> QED BY <1>2, FS_Bijection

(* The number of targets announced for a list of networks.                 *)
LEMMA TotalExact ==
  ASSUME AreNetworks(networks)
  PROVE  Scan!TotalTargets =
           Cardinality({x \in Scan!Address \X DOMAIN networks : x[2] \in Scan!Targets(x[1])})
<1>1. PICK n \in Nat : DOMAIN networks = 1 .. n /\ \A k \in 1 .. n : IsNetwork(networks[k])
  BY DEF AreNetworks
<1> DEFINE c == [k \in 1 .. n |-> Scan!TargetCount(networks[k])]
           hosts(k) == {x \in Scan!Address : Scan!IsHost(networks[k], x)
                                               /\ x # networks[k].address}
           pairs(k) == {x \in Scan!Address \X (1 .. k) : x[2] \in Scan!Targets(x[1])}
<1>2. PICK f : Sums(n, c, f) /\ Scan!TotalTargets = f[1 .. n]
  <2> DEFINE f == CHOOSE g : g = [s \in SUBSET DOMAIN networks |->
                     IF s = {} THEN 0
                     ELSE LET x == CHOOSE x \in s : \A y \in s : x >= y
                          IN  g[s \ {x}] + Scan!TargetCount(networks[x])]
  <2>1. Scan!TotalTargets = f[DOMAIN networks]
    BY DEF Scan!TotalTargets, Scan!FoldLeft, Scan!MapThenFoldSet, Scan!Max
  <2>2. \A g : Sums(n, c, g) <=>
          g = [s \in SUBSET DOMAIN networks |->
                 IF s = {} THEN 0
                 ELSE LET x == CHOOSE x \in s : \A y \in s : x >= y
                      IN  g[s \ {x}] + Scan!TargetCount(networks[x])]
    <3>1. ASSUME NEW s \in SUBSET (1 .. n), s # {}
          PROVE  (CHOOSE x \in s : \A y \in s : x >= y) \in 1 .. n
      <4> DEFINE T == {n - i : i \in s}
      <4>1. T \in SUBSET Nat /\ T # {}
        <5>1. \A i \in s : n - i \in Nat
          OBVIOUS
        <5> QED BY <3>1, <5>1
      <4>2. PICK t \in T : \A u \in T : t <= u
        <5> HIDE DEF T
        <5> QED BY <4>1, LeastNat
      <4>3. PICK i \in s : t = n - i
        OBVIOUS
      <4>4. \A j \in s : n - i <= n - j
        BY <4>2, <4>3
      <4>5. \A j \in s : i >= j
        BY <4>4
      <4>6. (CHOOSE x \in s : \A y \in s : x >= y) \in s
        BY <4>5
      <4> QED BY <4>6
    <3>2. ASSUME NEW g, NEW s \in SUBSET (1 .. n)
          PROVE  (IF s = {} THEN 0
                  ELSE LET x == CHOOSE x \in s : \A y \in s : x >= y
                       IN  g[s \ {x}] + c[x])
                 = (IF s = {} THEN 0
                    ELSE LET x == CHOOSE x \in s : \A y \in s : x >= y
                         IN  g[s \ {x}] + Scan!TargetCount(networks[x]))
      <4> DEFINE x == CHOOSE x \in s : \A y \in s : x >= y
      <4>1. CASE s # {}
        <5>1. x \in 1 .. n
          BY <3>1, <4>1
        <5>2. c[x] = Scan!TargetCount(networks[x])
          <6> HIDE DEF x
          <6> QED BY <5>1
        <5> HIDE DEF c
        <5> QED BY <5>2
      <4>2. CASE s = {}
        BY <4>2, Zenon
      <4> HIDE DEF c, x
      <4> QED BY <4>1, <4>2, Zenon
    <3> DEFINE A(g, s) == IF s = {} THEN 0
                          ELSE LET x == CHOOSE x \in s : \A y \in s : x >= y
                               IN  g[s \ {x}] + c[x]
               B(g, s) == IF s = {} THEN 0
                          ELSE LET x == CHOOSE x \in s : \A y \in s : x >= y
                               IN  g[s \ {x}] + Scan!TargetCount(networks[x])
    <3>3. \A g : \A s \in SUBSET (1 .. n) : A(g, s) = B(g, s)
      <4> HIDE DEF c
      <4> QED BY <3>2, Zenon
    <3>4. \A g : [s \in SUBSET (1 .. n) |-> A(g, s)]
                = [s \in SUBSET (1 .. n) |-> B(g, s)]
      <4> HIDE DEF A, B
      <4> QED BY <3>3
    <3>5. \A g : Sums(n, c, g) <=> g = [s \in SUBSET (1 .. n) |-> A(g, s)]
      <4> HIDE DEF c
      <4> QED BY Zenon DEF Sums
    <3>6. \A g : Sums(n, c, g) <=> g = [s \in SUBSET DOMAIN networks |-> B(g, s)]
      <4> HIDE DEF A, B, c
      <4> QED BY <1>1, <3>4, <3>5
    <3> HIDE DEF c
    <3> QED BY <3>6, Zenon
  <2>3. \E g : Sums(n, c, g)
    <3> HIDE DEF c
    <3> QED BY SumsExist
  <2>4. Sums(n, c, f)
    <3> HIDE DEF c
    <3> QED BY <2>2, <2>3, Zenon
  <2> HIDE DEF f, c
  <2> QED BY <1>1, <2>1, <2>4
<1>3. /\ f[{}] = 0
      /\ \A k \in Nat : k + 1 <= n => f[1 .. k + 1] = f[1 .. k] + c[k + 1]
  <2> HIDE DEF c
  <2> QED BY <1>2, SumsSteps
<1> DEFINE T == {k \in Nat : k <= n => IsFiniteSet(pairs(k)) /\ f[1 .. k] = Cardinality(pairs(k))}
<1>4. 0 \in T
  <2>1. pairs(0) = {}
    OBVIOUS
  <2>2. 1 .. 0 = {}
    OBVIOUS
  <2> HIDE DEF pairs
  <2> QED BY <1>3, <2>1, <2>2, FS_EmptySet
<1>5. ASSUME NEW k \in Nat, k \in T PROVE k + 1 \in T
  <2>1. ASSUME k + 1 <= n
        PROVE  IsFiniteSet(pairs(k + 1)) /\ f[1 .. k + 1] = Cardinality(pairs(k + 1))
    <3>1. k + 1 \in 1 .. n /\ k <= n
      BY <2>1
    <3>2. IsFiniteSet(pairs(k)) /\ f[1 .. k] = Cardinality(pairs(k))
      BY <1>5, <3>1
    <3>3. IsFiniteSet(hosts(k + 1)) /\ c[k + 1] = Cardinality(hosts(k + 1))
      <4>1. IsNetwork(networks[k + 1])
        BY <1>1, <3>1
      <4> QED BY <3>1, <4>1, CountExact
    <3>4. pairs(k + 1) = pairs(k) \union (hosts(k + 1) \X {k + 1})
      <4>1. ASSUME NEW a \in Scan!Address, NEW i \in 1 .. n
            PROVE  i \in Scan!Targets(a) <=> a \in hosts(i)
        BY <1>1, <4>1 DEF Scan!Targets
      <4>2. 1 .. k + 1 = (1 .. k) \union {k + 1} /\ 1 .. k + 1 \subseteq 1 .. n
        BY <2>1
      <4>3. hosts(k + 1) \subseteq Scan!Address
        OBVIOUS
      <4> HIDE DEF hosts
      <4> QED BY <4>1, <4>2, <4>3
    <3>5. pairs(k) \intersect (hosts(k + 1) \X {k + 1}) = {}
      OBVIOUS
    <3> HIDE DEF pairs, hosts, c
    <3>6. /\ IsFiniteSet(hosts(k + 1) \X {k + 1})
          /\ Cardinality(hosts(k + 1) \X {k + 1}) = c[k + 1]
      BY <3>3, PairsCount
    <3>7. /\ IsFiniteSet(pairs(k + 1))
          /\ Cardinality(pairs(k + 1)) = Cardinality(pairs(k)) + c[k + 1] - 0
      <4>1. Cardinality({}) = 0
        BY FS_EmptySet
      <4> QED BY <3>2, <3>4, <3>5, <3>6, <4>1, FS_Union
    <3>8. f[1 .. k + 1] = f[1 .. k] + c[k + 1]
      BY <1>3, <2>1
    <3>9. Cardinality(pairs(k)) \in Nat /\ c[k + 1] \in Nat
      BY <3>2, <3>3, FS_CardinalityType
    <3> QED BY <3>2, <3>7, <3>8, <3>9
  <2>2. k + 1 \in Nat
    OBVIOUS
  <2> HIDE DEF pairs
  <2> QED BY <2>1, <2>2
<1>6. Nat \subseteq T
  <2> HIDE DEF T
  <2> QED BY <1>4, <1>5, NatSetInduction
<1>7. f[1 .. n] = Cardinality(pairs(n))
  <2> HIDE DEF pairs
  <2> QED BY <1>6
<1> QED BY <1>1, <1>2, <1>7

IsEntry(e) == /\ e = [index |-> e.index, address |-> e.address, link |-> e.link]
              /\ e.index \in Nat /\ e.address \in Scan!Address

(* What the first snapshot keeps of a set of neighbors.                    *)
Collected(entries) ==
  {<<e.address, e.link>> : e \in {d \in entries : \A c \in entries :
                                    c.address = d.address => c.index <= d.index}}

(* The passes made so far, and the ones to come.                           *)
PassesOK ==
  /\ options.retries \in Nat \ {0} /\ passes \in Nat
  /\ scanAt \in {"idle", "select", "before"} => passes = 0
  /\ passes <= options.retries
  /\ scanAt = "probe" => passes < options.retries

ScanInv ==
  /\ host \in Hosts /\ selection \in Scan!Selection(host)
  /\ scanAt \in {"idle", "select", "before", "probe", "after", "ok", "error"}
  /\ AreNetworks(networks)
  /\ PassesOK
  /\ probes \in [Scan!Address -> Nat]
  /\ changed \subseteq Scan!Address
  /\ rows \subseteq neighbors
  /\ before = Collected(known) /\ \A e \in known : IsEntry(e)
  /\ Scan!ReportExact

LEMMA ScanInit == Scan!Idle => ScanInv
<1> SUFFICES ASSUME Scan!Idle PROVE ScanInv
  OBVIOUS
<1>1. /\ host = CHOOSE h \in Hosts : TRUE
      /\ scanAt = "idle" /\ selection = Scan!NoSelection
      /\ options = [retries |-> 1, excluded |-> {}]
      /\ networks = <<>> /\ before = {} /\ passes = 0
      /\ probes = [a \in Scan!Address |-> 0]
      /\ neighbors = {} /\ changed = {} /\ rows = {} /\ known = {}
  BY DEF Scan!Idle
<1>2. host \in Hosts
  BY <1>1, ScanAssumption
<1>3. AreNetworks(networks)
  <2>1. DOMAIN networks = 1 .. 0
    BY <1>1
  <2> QED BY <2>1 DEF AreNetworks
<1>4. PassesOK
  BY <1>1 DEF PassesOK
<1>5. before = Collected(known)
  BY <1>1 DEF Collected
<1>6. selection \in Scan!Selection(host)
  BY <1>1 DEF Scan!Selection
<1>7. probes \in [Scan!Address -> Nat]
  BY <1>1
<1> QED BY <1>1, <1>2, <1>3, <1>4, <1>5, <1>6, <1>7 DEF ScanInv, Scan!ReportExact

(* A step that changes only where the command is, and what was asked for.  *)
LEMMA ScanPlain ==
  ASSUME ScanInv, Scan!Start \/ Scan!Refuse
  PROVE  ScanInv'
<1>1. /\ UNCHANGED <<networks, before, passes, probes, neighbors, changed, rows, known>>
      /\ scanAt' \in {"select", "error"}
  BY DEF Scan!Start, Scan!Refuse, Scan!Goto
<1>2. host' \in Hosts /\ selection' \in Scan!Selection(host')
  BY DEF Scan!Start, Scan!Refuse, ScanInv
<1>3. PassesOK'
  <2>1. CASE Scan!Start
    <3>1. scanAt = "idle" /\ scanAt' = "select" /\ options'.retries \in Retries
      BY <2>1 DEF Scan!Start, Scan!Goto
    <3> QED BY <1>1, <3>1, ScanAssumption DEF ScanInv, PassesOK
  <2>2. CASE Scan!Refuse
    BY <1>1, <2>2 DEF ScanInv, PassesOK, Scan!Refuse, Scan!Goto
  <2> QED BY <2>1, <2>2
<1> QED BY <1>1, <1>2, <1>3, Zenon DEF ScanInv, Scan!ReportExact

LEMMA NetworksFinite ==
  ASSUME NEW list, AreNetworks(list)
  PROVE  IsFiniteSet(DOMAIN list)
  BY FS_Interval DEF AreNetworks

LEMMA ScanSelect == ScanInv /\ Scan!Select => ScanInv'
<1> SUFFICES ASSUME ScanInv, Scan!Select PROVE ScanInv'
  OBVIOUS
<1>1. /\ UNCHANGED <<host, selection, options, before, passes, probes, neighbors,
                     changed, rows, known>>
      /\ networks' \in Scan!NetworksOf(host, selection)
      /\ scanAt = "select" /\ scanAt' \in {"error", "before"}
  BY DEF Scan!Select, Scan!Goto
<1>2. AreNetworks(networks')
  BY <1>1, NetworksChosen DEF ScanInv
<1>3. PassesOK'
  BY <1>1 DEF ScanInv, PassesOK
<1> QED BY <1>1, <1>2, <1>3 DEF ScanInv, Scan!ReportExact

LEMMA ScanBefore == ScanInv /\ Scan!Before => ScanInv'
<1> SUFFICES ASSUME ScanInv, Scan!Before PROVE ScanInv'
  OBVIOUS
<1>1. /\ UNCHANGED <<host, selection, options, networks, passes, probes, neighbors,
                     changed, rows>>
      /\ scanAt = "before" /\ scanAt' = "probe"
  BY DEF Scan!Before, Scan!Goto
<1>2. PICK snapshot \in Tables : known' = {e \in snapshot : Scan!OnNetworks(e)}
  BY DEF Scan!Before
<1>3. before' = Collected(known')
  BY DEF Scan!Before, Collected
<1>4. \A e \in known' : IsEntry(e)
  BY <1>2, ScanAssumption DEF IsEntry, Scan!Address
<1>5. PassesOK'
  BY <1>1 DEF ScanInv, PassesOK
<1> QED BY <1>1, <1>3, <1>4, <1>5 DEF ScanInv, Scan!ReportExact

LEMMA ScanPass == ScanInv /\ Scan!Pass => ScanInv'
<1> SUFFICES ASSUME ScanInv, Scan!Pass PROVE ScanInv'
  OBVIOUS
<1>1. /\ UNCHANGED <<host, selection, options, networks, before, neighbors, changed,
                     rows, known>>
      /\ scanAt = "probe" /\ scanAt' \in {"probe", "after"} /\ passes' = passes + 1
      /\ scanAt' = "probe" => passes' # options'.retries
      /\ probes' = [a \in Scan!Address |-> probes[a] + Scan!Cardinality(Scan!Probing(a))]
  BY DEF Scan!Pass, Scan!Goto, Scan!LastPass
<1>2. \A a : Cardinality(Scan!Probing(a)) \in Nat
  <2> SUFFICES ASSUME NEW a PROVE Cardinality(Scan!Probing(a)) \in Nat
    OBVIOUS
  <2>1. Scan!Probing(a) \subseteq DOMAIN networks
    BY DEF Scan!Probing
  <2>2. IsFiniteSet(DOMAIN networks)
    BY NetworksFinite DEF ScanInv
  <2> QED BY <2>1, <2>2, FS_Subset, FS_CardinalityType
<1>3. probes' \in [Scan!Address -> Nat]
  BY <1>1, <1>2, ScanCardinality DEF ScanInv
<1>4. PassesOK'
  BY <1>1 DEF ScanInv, PassesOK
<1> QED BY <1>1, <1>3, <1>4 DEF ScanInv, Scan!ReportExact

(* An address that one interface lists is known, with its link address, if *)
(* and only if the first snapshot had its neighbor.                        *)
LEMMA KnownExactly ==
  ASSUME NEW entries, \A d \in entries : IsEntry(d),
         NEW e, IsEntry(e), \A d \in entries : d.address = e.address => d.index = e.index
  PROVE  <<e.address, e.link>> \in Collected(entries) <=> e \in entries
<1>1. ASSUME <<e.address, e.link>> \in Collected(entries) PROVE e \in entries
  <2>1. PICK d \in entries : d.address = e.address /\ d.link = e.link
    BY <1>1 DEF Collected
  <2> QED BY <2>1 DEF IsEntry
<1>2. ASSUME e \in entries PROVE <<e.address, e.link>> \in Collected(entries)
  <2>1. \A c \in entries : c.address = e.address => c.index = e.index
    BY <1>2
  <2>2. \A c \in entries : c.address = e.address => c.index <= e.index
    BY <2>1 DEF IsEntry
  <2> QED BY <1>2, <2>2, Zenon DEF Collected
<1> QED BY <1>1, <1>2

LEMMA ScanAfter == ScanInv /\ Scan!After => ScanInv'
<1> SUFFICES ASSUME ScanInv, Scan!After PROVE ScanInv'
  OBVIOUS
<1>1. /\ UNCHANGED <<host, selection, options, networks, before, passes, probes, known>>
      /\ scanAt = "after" /\ scanAt' = "ok"
      /\ changed' = {e.address : e \in
                       {d \in neighbors' : <<d.address, d.link>> \notin before}}
      /\ filter' \in {"none", "changed", "unchanged"}
      /\ rows' = {e \in neighbors' : Scan!Matches(e)}
  BY DEF Scan!After, Scan!Goto
<1>2. PICK snapshot \in Tables : neighbors' = {e \in snapshot : Scan!OnNetworks(e)}
  BY DEF Scan!After
<1>3. \A e \in neighbors' : /\ IsEntry(e) /\ Scan!OnNetworks(e)
                            /\ \A d \in neighbors' :
                                 d.index = e.index /\ d.address = e.address => d = e
  BY <1>2, ScanAssumption DEF IsEntry, Scan!Address
<1>4. changed' \subseteq Scan!Address /\ rows' \subseteq neighbors'
  BY <1>1, <1>3 DEF IsEntry
<1>5. PassesOK'
  BY <1>1 DEF ScanInv, PassesOK
<1>6. \A e \in rows' : \E k \in DOMAIN networks' :
        networks'[k].index = e.index /\ Scan!InNetwork(networks'[k], e.address)
  BY <1>1, <1>3, <1>4 DEF Scan!OnNetworks
<1>7. ASSUME NEW e \in neighbors', e.address \notin Scan!Ambiguous(known' \union neighbors')
      PROVE  e \in rows' <=> CASE filter' = "changed"   -> e \notin known'
                               [] filter' = "unchanged" -> e \in known'
                               [] OTHER -> TRUE
  <2>1. \A d \in known \union neighbors' : d.address = e.address => d.index = e.index
    BY <1>1, <1>7 DEF Scan!Ambiguous
  <2>2. <<e.address, e.link>> \in before <=> e \in known
    BY <1>3, <2>1, KnownExactly DEF ScanInv
  <2>3. e.address \in changed' <=> e \notin known
    <3>1. \A d \in neighbors' : d.address = e.address => d = e
      BY <1>3, <2>1
    <3> QED BY <1>1, <2>2, <3>1
  <2>4. e \in rows' <=> Scan!Matches(e)
    BY <1>1
  <2> QED BY <1>1, <2>3, <2>4 DEF Scan!Matches
<1>8. Scan!ReportExact'
  BY <1>6, <1>7 DEF Scan!ReportExact
<1> QED BY <1>1, <1>4, <1>5, <1>8 DEF ScanInv

LEMMA ScanNext == ScanInv /\ Scan!Next => ScanInv'
  BY ScanPlain, ScanSelect, ScanBefore, ScanPass, ScanAfter, Zenon DEF Scan!Next

(* While another component moves.                                          *)
LEMMA ScanStutter == ScanInv /\ UNCHANGED scanVars => ScanInv'
<1> SUFFICES ASSUME ScanInv, UNCHANGED scanVars PROVE ScanInv'
  OBVIOUS
<1>1. UNCHANGED <<host, scanAt, selection, options, networks, before, passes, probes,
                  neighbors, changed, rows, filter, known>>
  BY DEF scanVars
<1>2. PassesOK'
  BY <1>1, Zenon DEF ScanInv, PassesOK
<1>3. Scan!ReportExact'
  BY <1>1, Zenon DEF ScanInv, Scan!ReportExact
<1> QED BY <1>1, <1>2, <1>3, Zenon DEF ScanInv

LEMMA ScanFollow == ScanInv => Scan!TypeOK /\ Scan!ReportExact
  BY DEF ScanInv, PassesOK, Scan!TypeOK

(* Each pass sends one datagram for each network that has the address      *)
(* among its candidates; the last pass is the one asked for.               *)
SentOK ==
  /\ scanAt \in {"after", "ok"} => passes = options.retries
  /\ \A a \in Scan!Address : probes[a] = passes * Cardinality(Scan!Probing(a))

LEMMA SentInit == Scan!Idle => SentOK
<1> SUFFICES ASSUME Scan!Idle PROVE SentOK
  OBVIOUS
<1>1. /\ scanAt = "idle" /\ passes = 0 /\ probes = [a \in Scan!Address |-> 0]
      /\ DOMAIN networks = {}
  BY DEF Scan!Idle
<1>2. \A a : Cardinality(Scan!Probing(a)) = 0
  <2>1. \A a : Scan!Probing(a) = {}
    BY <1>1 DEF Scan!Probing
  <2> QED BY <2>1, FS_EmptySet
<1> QED BY <1>1, <1>2 DEF SentOK

LEMMA SentNext == ScanInv /\ SentOK /\ Scan!Next => SentOK'
<1> SUFFICES ASSUME ScanInv, SentOK, Scan!Next PROVE SentOK'
  OBVIOUS
<1>1. ScanInv'
  BY ScanNext
<1>2. \A a : Cardinality(Scan!Probing(a)) \in Nat /\ Cardinality(Scan!Probing(a)') \in Nat
  <2>1. ASSUME NEW a
        PROVE  Cardinality(Scan!Probing(a)) \in Nat /\ Cardinality(Scan!Probing(a)') \in Nat
    <3>1. Scan!Probing(a) \subseteq DOMAIN networks /\ Scan!Probing(a)' \subseteq DOMAIN networks'
      BY DEF Scan!Probing
    <3>2. IsFiniteSet(DOMAIN networks) /\ IsFiniteSet(DOMAIN networks')
      BY <1>1, NetworksFinite DEF ScanInv
    <3> QED BY <3>1, <3>2, FS_Subset, FS_CardinalityType
  <2> QED BY <2>1
<1>3. CASE Scan!Start \/ Scan!Select
  <2>1. /\ scanAt \in {"idle", "select"} /\ scanAt' \in {"select", "error", "before"}
        /\ UNCHANGED <<passes, probes>>
    BY <1>3 DEF Scan!Start, Scan!Select, Scan!Goto
  <2>2. passes = 0
    BY <2>1 DEF ScanInv, PassesOK
  <2>3. \A a \in Scan!Address : probes[a] = 0
    BY <1>2, <2>2 DEF SentOK
  <2> QED BY <1>2, <2>1, <2>2, <2>3 DEF SentOK
<1>4. CASE Scan!Refuse \/ Scan!Before \/ Scan!After
  <2>1. /\ UNCHANGED <<networks, options, passes, probes>>
        /\ scanAt' \in {"after", "ok"} => scanAt = "after"
    BY <1>4 DEF Scan!Refuse, Scan!Before, Scan!After, Scan!Goto
  <2>2. \A a : Scan!Probing(a)' = Scan!Probing(a)
    BY <2>1 DEF Scan!Probing
  <2> QED BY <2>1, <2>2 DEF SentOK
<1>5. CASE Scan!Pass
  <2>1. /\ UNCHANGED <<networks, options>> /\ scanAt' \in {"probe", "after"}
        /\ passes' = passes + 1 /\ passes \in Nat
        /\ scanAt' = "after" => passes' = options.retries
        /\ probes' = [a \in Scan!Address |-> probes[a] + Scan!Cardinality(Scan!Probing(a))]
    BY <1>5 DEF Scan!Pass, Scan!Goto, Scan!LastPass, ScanInv, PassesOK
  <2>2. \A a : Scan!Probing(a)' = Scan!Probing(a)
    BY <2>1 DEF Scan!Probing
  <2>3. ASSUME NEW c \in Nat PROVE passes * c + c = (passes + 1) * c
    BY <2>1
  <2>4. ASSUME NEW a \in Scan!Address PROVE probes'[a] = passes' * Cardinality(Scan!Probing(a))
    BY <1>2, <2>1, <2>3, ScanCardinality DEF SentOK
  <2> QED BY <2>1, <2>2, <2>4 DEF SentOK
<1> QED BY <1>3, <1>4, <1>5 DEF Scan!Next

(* A finished scan sent its datagrams to the hosts of its networks.        *)
LEMMA SentFollow == ScanInv /\ SentOK => Scan!TargetsExact
<1> SUFFICES ASSUME ScanInv, SentOK, scanAt = "ok" PROVE Scan!TargetsExact
  BY DEF Scan!TargetsExact
<1>1. AreNetworks(networks) /\ options.retries \in Nat
  BY DEF ScanInv, PassesOK
<1>2. \A k \in DOMAIN networks : IsNetwork(networks[k])
  BY <1>1 DEF AreNetworks
<1>3. ASSUME NEW a \in Scan!Address
      PROVE  probes[a] = IF a \in options.excluded THEN 0
                         ELSE options.retries * Scan!Cardinality(Scan!Targets(a))
  <2>1. probes[a] = options.retries * Cardinality(Scan!Probing(a))
    BY DEF SentOK
  <2>2. CASE a \in options.excluded
    <3>1. Scan!Probing(a) = {}
      BY <2>2 DEF Scan!Probing
    <3>2. Cardinality({}) = 0
      BY FS_EmptySet
    <3> QED BY <1>1, <2>1, <2>2, <3>1, <3>2
  <2>3. CASE a \notin options.excluded
    <3>1. Scan!Probing(a) = Scan!Targets(a)
      BY <1>2, <1>3, <2>3, CandidatesExact DEF Scan!Probing, Scan!Targets
    <3> QED BY <2>1, <2>3, <3>1, ScanCardinality
  <2> QED BY <2>2, <2>3
<1>4. Scan!TotalTargets = Scan!Cardinality({x \in Scan!Address \X DOMAIN networks :
                                             x[2] \in Scan!Targets(x[1])})
  BY <1>1, TotalExact, ScanCardinality
<1> QED BY <1>3, <1>4, Zenon DEF Scan!TargetsExact

LEMMA SentStutter == SentOK /\ UNCHANGED scanVars => SentOK'
<1> SUFFICES ASSUME SentOK, UNCHANGED scanVars PROVE SentOK'
  OBVIOUS
<1>1. UNCHANGED <<scanAt, options, networks, passes, probes>>
  BY DEF scanVars
<1>2. \A a : Scan!Probing(a)' = Scan!Probing(a)
  BY <1>1 DEF Scan!Probing
<1> QED BY <1>1, <1>2 DEF SentOK

-----------------------------------------------------------------------------
(* Sockets.                                                                *)

(* A process that has been there since the start still holds its socket.   *)
SteadyOK ==
  \A h \in steady : /\ h = <<h[1], h[2]>> /\ h[1] \in Pids
                    /\ process[h[1]] # Sockets!Gone
                    /\ process[h[1]].holds = h[2]

In(l, s) == /\ s.protocol = Sockets!Listing[l].protocol
            /\ s.family = Sockets!Listing[l].family

(* Where the command is after the walk, or on it, or after the table l.    *)
After == Sockets!Dumps \union {"ok"}
Walking == {"next", "comm", "link"} \union After
Past(l) ==
  CASE l = "tcp"      -> {"udp", "tcp6", "udp6"} \union Walking
    [] l = "udp"      -> {"tcp6", "udp6"} \union Walking
    [] l = "tcp6"     -> {"udp6"} \union Walking
    [] l = "udp6"     -> Walking
    [] l = "tcpDump"  -> {"udpDump", "tcp6Dump", "udp6Dump", "ok"}
    [] l = "udpDump"  -> {"tcp6Dump", "udp6Dump", "ok"}
    [] l = "tcp6Dump" -> {"udp6Dump", "ok"}
    [] l = "udp6Dump" -> {"ok"}

(* A table that is being read has had what is in it, and if it has not     *)
(* changed, nothing else.                                                  *)
ReadingOK ==
  reading /\ socketsAt # "error" =>
    /\ socketsAt \in DOMAIN Sockets!Listing
    /\ Sockets!Rows(socketsAt) \subseteq table
    /\ \A r \in table : In(socketsAt, r)
    /\ socketsAt \notin partial => table = Sockets!Rows(socketsAt)

(* The tables read so far that did not change had the sockets held since   *)
(* the start.                                                              *)
RowsOK ==
  \A h \in steady : \A l \in Sockets!ProcTables :
    /\ h[2] # Sockets!Nothing /\ In(l, h[2]) /\ (h[2].family = 4 \/ ~missing)
    /\ socketsAt \in Past(l) /\ l \notin partial
    => h[2] \in sockets

(* And so had the dumps.                                                   *)
RecordsOK ==
  \A h \in steady : \A l \in Sockets!Dumps :
    /\ h[2] # Sockets!Nothing /\ In(l, h[2])
    /\ socketsAt \in Past(l) /\ l \notin partial /\ (socketsAt = "ok" => available)
    => h[2] \in diagnostics

(* There are no diagnostics of another socket with the endpoints of one    *)
(* that had them to itself.                                                *)
OthersOK ==
  \A h \in steady :
    h[2] # Sockets!Nothing /\ h[2] \notin shared =>
      \A r \in diagnostics : Sockets!SameEndpoints(r, h[2]) => r = h[2]

TablesInv == ReadingOK /\ RowsOK /\ RecordsOK /\ OthersOK

Own(h) == {<<h[2].inode, h[1], process[h[1]].name>>, <<h[2].inode, h[1], "unknown">>}

(* A process that has been there since the start is found with its own     *)
(* socket only, by its own name or none.                                   *)
FoundOwn ==
  \A h \in steady :
    /\ \A x \in processes : x[2] = h[1] => x \in Own(h)
    /\ socketsAt = "link" /\ cursor = h[1] => comm \in {process[h[1]].name, "unknown"}

(* The walk has come past p.                                               *)
Passed(p) == \/ socketsAt \in After
             \/ p <= cursor /\ ~(socketsAt \in {"comm", "link"} /\ p = cursor)

Found(p) == \E x \in processes : x[2] = p

(* And it is found, once the walk has passed it.                           *)
FoundAll ==
  \A h \in steady :
    h[2] # Sockets!Nothing /\ h[2] \in Sockets!Shown /\ Passed(h[1])
      => h[1] \in denied \/ Found(h[1])

WalkInv == FoundOwn /\ FoundAll

Names == {program.name : program \in Programs} \union {"unknown"}

SocketsTypes ==
  /\ process \in [Pids -> {Sockets!Gone} \union Programs]
  /\ socketsAt \in {"idle", "error"} \union Sockets!ProcTables \union Walking
  /\ reading \in BOOLEAN /\ (reading => socketsAt \in DOMAIN Sockets!Listing \union {"error"})
  /\ table \subseteq Catalog
  /\ partial \subseteq DOMAIN Sockets!Listing
  /\ sockets \subseteq Catalog
  /\ cursor \in {0} \union Pids
  /\ socketsAt \in {"comm", "link"} => cursor \in Pids
  /\ socketsAt = "link" => comm \in Names
  /\ processes \subseteq Sockets!Inodes \X Pids \X Names
  /\ diagnostics \subseteq Catalog
  /\ socketsAt \notin After => diagnostics = {}
  /\ available \in BOOLEAN
  /\ available => socketsAt = "ok"
  /\ socketsAt \notin Walking => processes = {} /\ cursor = 0
  /\ socketsAt = "idle" => steady = {} /\ ~reading

SocketsInv == SocketsTypes /\ SteadyOK /\ TablesInv /\ WalkInv

LEMMA ListingFacts ==
  /\ DOMAIN Sockets!Listing = Sockets!ProcTables \union Sockets!Dumps
  /\ Sockets!ProcTables = {"tcp", "udp", "tcp6", "udp6"}
  /\ Sockets!Dumps = {"tcpDump", "udpDump", "tcp6Dump", "udp6Dump"}
  /\ \A l \in {"tcp", "tcp6", "tcpDump", "tcp6Dump"} : Sockets!Listing[l].protocol = "tcp"
  /\ \A l \in {"udp", "udp6", "udpDump", "udp6Dump"} : Sockets!Listing[l].protocol = "udp"
  /\ \A l \in {"tcp", "udp", "tcpDump", "udpDump"} : Sockets!Listing[l].family = 4
  /\ \A l \in {"tcp6", "udp6", "tcp6Dump", "udp6Dump"} : Sockets!Listing[l].family = 6
  /\ Sockets!Listing["tcp"].then = "udp" /\ Sockets!Listing["udp"].then = "tcp6"
  /\ Sockets!Listing["tcp6"].then = "udp6" /\ Sockets!Listing["udp6"].then = "next"
  /\ Sockets!Listing["tcpDump"].then = "udpDump"
  /\ Sockets!Listing["udpDump"].then = "tcp6Dump"
  /\ Sockets!Listing["tcp6Dump"].then = "udp6Dump"
  /\ Sockets!Listing["udp6Dump"].then = "ok"
BY DEF Sockets!Listing, Sockets!ProcTables, Sockets!Dumps

LEMMA SocketsInit == Sockets!Idle => SocketsInv
<1> SUFFICES ASSUME Sockets!Idle PROVE SocketsInv
  OBVIOUS
<1>1. /\ process = [p \in Pids |-> Sockets!Gone] /\ steady = {} /\ socketsAt = "idle"
      /\ sockets = {} /\ cursor = 0 /\ processes = {} /\ available = FALSE
      /\ reading = FALSE /\ table = {} /\ partial = {} /\ diagnostics = {}
  BY Zenon DEF Sockets!Idle
<1>2. SocketsTypes
  BY <1>1, ListingFacts DEF SocketsTypes, Walking, After
<1>3. TablesInv /\ WalkInv
  BY <1>1 DEF TablesInv, WalkInv, ReadingOK, RowsOK, RecordsOK, OthersOK, FoundOwn, FoundAll
<1> QED BY <1>1, <1>2, <1>3 DEF SocketsInv, SteadyOK

(* What a process holds, if anything, is in the catalogue.                 *)
LEMMA HoldsFacts ==
  ASSUME NEW f \in [Pids -> {Sockets!Gone} \union Programs], NEW p \in Pids
  PROVE  \/ f[p].holds = Sockets!Nothing
         \/ f[p].holds \in Catalog /\ f[p].holds.inode # 0
<1>1. CASE f[p] = Sockets!Gone
  <2>1. Sockets!Gone.holds = Sockets!Nothing
    BY Zenon DEF Sockets!Gone
  <2> QED BY <1>1, <2>1, Zenon
<1>2. CASE f[p] \in Programs
  BY <1>2, SocketsAssumption, Zenon DEF Sockets!Nothing
<1> QED BY <1>1, <1>2

(* What exists is in the catalogue, and what a process holds exists.       *)
LEMMA ExistingFacts ==
  ASSUME SocketsInv
  PROVE  /\ Sockets!Existing \subseteq Catalog
         /\ \A h \in steady : h[2] # Sockets!Nothing =>
              /\ h[2] \in Sockets!Existing /\ h[2] \in Catalog /\ h[2].inode # 0
              /\ \A l : In(l, h[2]) => h[2] \in Sockets!Rows(l)
<1>1. process \in [Pids -> {Sockets!Gone} \union Programs] /\ SteadyOK
  BY DEF SocketsInv, SocketsTypes
<1>3. Sockets!Existing \subseteq Catalog
  BY <1>1, HoldsFacts, SocketsAssumption DEF Sockets!Existing
<1>4. ASSUME NEW h \in steady, h[2] # Sockets!Nothing
      PROVE  /\ h[2] \in Sockets!Existing /\ h[2] \in Catalog /\ h[2].inode # 0
             /\ \A l : In(l, h[2]) => h[2] \in Sockets!Rows(l)
  <2>1. h[1] \in Pids /\ process[h[1]].holds = h[2]
    BY <1>1 DEF SteadyOK
  <2>2. h[2] \in Sockets!Existing /\ h[2] \in Catalog /\ h[2].inode # 0
    BY <1>1, HoldsFacts, <1>4, <2>1 DEF Sockets!Existing
  <2> QED BY <2>2 DEF In, Sockets!Rows
<1> QED BY <1>3, <1>4

(* Before the walk has begun.                                              *)
LEMMA WalkAhead ==
  ASSUME SteadyOK', processes' = {}, cursor' = 0,
         socketsAt' \in {"idle", "error", "next"} \union Sockets!ProcTables
  PROVE  WalkInv'
<1>1. socketsAt' # "link" /\ socketsAt' \notin After
  BY ListingFacts DEF After
<1>2. \A h \in steady' : h[1] \in Nat /\ ~(h[1] <= 0)
  BY SocketsAssumption DEF SteadyOK
<1> QED BY <1>1, <1>2 DEF WalkInv, FoundOwn, FoundAll, Passed

(* While the walk does not move, and after it.                             *)
LEMMA WalkStays ==
  ASSUME SocketsInv, UNCHANGED <<view, sockets, cursor, comm, denied, processes>>,
         \A h \in steady' : h \in steady /\ process'[h[1]] = process[h[1]],
         socketsAt' = socketsAt \/ (socketsAt \in After /\ socketsAt' \in After)
  PROVE  /\ Sockets!Inodes' = Sockets!Inodes
         /\ WalkInv'
<1>1. Sockets!Inodes' = Sockets!Inodes /\ Sockets!Shown' = Sockets!Shown
  BY Zenon DEF Sockets!Inodes, Sockets!Shown, Sockets!Matches
<1>2. \A h \in steady' : Own(h)' = Own(h) /\ (Found(h[1])' <=> Found(h[1]))
  BY DEF Own, Found
<1>3. \A p : Passed(p)' <=> Passed(p)
  BY DEF Passed
<1>4. "link" \notin After
  BY ListingFacts DEF After
<1>5. FoundOwn'
  BY <1>2, <1>4 DEF SocketsInv, WalkInv, FoundOwn
<1>6. FoundAll'
  BY <1>1, <1>2, <1>3 DEF SocketsInv, WalkInv, FoundAll
<1> QED BY <1>1, <1>5, <1>6 DEF WalkInv

(* While the walk moves, between the tables and the dumps.                 *)
LEMMA TablesStay ==
  ASSUME SocketsInv,
         UNCHANGED <<process, steady, reading, table, partial, view, sockets, missing,
                     diagnostics, available, shared>>,
         socketsAt \in {"next", "comm", "link"},
         socketsAt' \in {"next", "comm", "link", "tcpDump"}
  PROVE  /\ Sockets!Inodes' = Sockets!Inodes /\ Sockets!Shown' = Sockets!Shown
         /\ SteadyOK' /\ TablesInv' /\ ~reading
<1>1. Sockets!Inodes' = Sockets!Inodes /\ Sockets!Shown' = Sockets!Shown
  BY Zenon DEF Sockets!Inodes, Sockets!Shown, Sockets!Matches
<1>2. SteadyOK'
  BY DEF SocketsInv, SteadyOK
<1>3. ~reading
  BY ListingFacts DEF SocketsInv, SocketsTypes
<1>4. /\ \A l \in Sockets!ProcTables : socketsAt \in Past(l)
      /\ \A l \in Sockets!Dumps : socketsAt' \notin Past(l)
  BY ListingFacts DEF Past, Walking
<1>5. ReadingOK'
  BY <1>3 DEF ReadingOK
<1>6. RowsOK'
  BY <1>4 DEF SocketsInv, TablesInv, RowsOK
<1>7. RecordsOK'
  BY <1>4 DEF RecordsOK
<1>8. OthersOK'
  BY DEF SocketsInv, TablesInv, OthersOK
<1> QED BY <1>1, <1>2, <1>3, <1>5, <1>6, <1>7, <1>8 DEF TablesInv

LEMMA SocketsStart == SocketsInv /\ Sockets!Start => SocketsInv'
<1> SUFFICES ASSUME SocketsInv, Sockets!Start PROVE SocketsInv'
  OBVIOUS
<1>1. /\ socketsAt = "idle" /\ socketsAt' = "tcp"
      /\ process' \in [Pids -> {Sockets!Gone} \union Programs]
      /\ steady' = {<<p, process'[p].holds>> : p \in {q \in Pids : process'[q] # Sockets!Gone}}
      /\ UNCHANGED <<reading, table, partial, sockets, missing, cursor, comm, denied,
                     processes, diagnostics, available, shared>>
  BY DEF Sockets!Start, Sockets!Held, Sockets!Alive, Sockets!read, Sockets!walk, Sockets!dumped
<1>2. SocketsTypes /\ "idle" \notin After /\ "idle" \notin Walking
  BY ListingFacts DEF SocketsInv, Walking, After
<1>3. /\ processes = {} /\ cursor = 0 /\ diagnostics = {} /\ ~reading /\ ~available
      /\ "tcp" \notin Walking /\ "tcp" \notin After
  BY <1>1, <1>2, ListingFacts DEF SocketsTypes, Walking, After
<1>4. SocketsTypes'
  BY <1>1, <1>2, <1>3, ListingFacts DEF SocketsTypes
<1>5. SteadyOK'
  BY <1>1 DEF SteadyOK
<1>6. TablesInv'
  <2>1. \A l \in DOMAIN Sockets!Listing : "tcp" \notin Past(l)
    BY ListingFacts DEF Past, Walking, After
  <2> QED BY <1>1, <1>3, <2>1, ListingFacts
          DEF TablesInv, ReadingOK, RowsOK, RecordsOK, OthersOK
<1>7. WalkInv'
  BY <1>1, <1>3, <1>5, ListingFacts, WalkAhead
<1> QED BY <1>4, <1>5, <1>6, <1>7 DEF SocketsInv

(* What comes and goes does not touch what has been there since the start. *)
LEMMA SocketsTurnover ==
  ASSUME SocketsInv, NEW p \in Pids, Sockets!Turnover(p)
  PROVE  SocketsInv'
<1>1. /\ Sockets!Busy
      /\ \E after \in Programs \union {Sockets!Gone} : process' = [process EXCEPT ![p] = after]
      /\ steady' = {h \in steady : h[1] # p}
      /\ UNCHANGED <<socketsAt, reading, view, sockets, missing, cursor, comm, denied,
                     processes, diagnostics, available, shared>>
  BY DEF Sockets!Turnover, Sockets!walk, Sockets!dumped
<1>2. SocketsTypes /\ SteadyOK /\ TablesInv
  BY DEF SocketsInv
<1>3. process' \in [Pids -> {Sockets!Gone} \union Programs]
  BY <1>1, <1>2 DEF SocketsTypes
<1>4. \A h \in steady' : h \in steady /\ h[1] # p /\ process'[h[1]] = process[h[1]]
  BY <1>1, <1>2 DEF SocketsTypes, SteadyOK
<1>5. /\ Sockets!Rows(socketsAt)' \subseteq Catalog
      /\ \A r \in Sockets!Rows(socketsAt)' : In(socketsAt, r)
  <2>1. Sockets!Existing' \subseteq Catalog
    BY <1>3, HoldsFacts, SocketsAssumption DEF Sockets!Existing
  <2> QED BY <1>1, <2>1 DEF Sockets!Rows, In
<1>6. reading => socketsAt \in DOMAIN Sockets!Listing
  BY <1>1, <1>2, ListingFacts DEF SocketsTypes, Sockets!Busy
<1>7. \/ /\ reading /\ Sockets!Rows(socketsAt)' # Sockets!Rows(socketsAt)
         /\ table' = table \union Sockets!Rows(socketsAt)' /\ partial' = partial \union {socketsAt}
      \/ /\ ~reading \/ Sockets!Rows(socketsAt)' = Sockets!Rows(socketsAt)
         /\ table' = table /\ partial' = partial
  BY DEF Sockets!Turnover
<1>8. /\ Sockets!Inodes' = Sockets!Inodes
      /\ WalkInv'
  BY <1>1, <1>4, WalkStays
<1>9. SocketsTypes'
  <2>1. table' \subseteq Catalog /\ partial' \subseteq DOMAIN Sockets!Listing
    BY <1>2, <1>5, <1>6, <1>7 DEF SocketsTypes
  <2>2. socketsAt # "idle"
    BY <1>1, ListingFacts DEF Sockets!Busy
  <2> QED BY <1>1, <1>2, <1>3, <1>8, <2>1, <2>2 DEF SocketsTypes
<1>10. SteadyOK'
  BY <1>2, <1>4 DEF SteadyOK
<1>11. TablesInv'
  <2>1. ReadingOK'
    <3>1. CASE reading
      BY <1>1, <1>2, <1>5, <1>6, <1>7, <3>1 DEF TablesInv, ReadingOK
    <3>2. CASE ~reading
      BY <1>1, <3>2 DEF ReadingOK
    <3> QED BY <3>1, <3>2
  <2>2. partial \subseteq partial'
    BY <1>7
  <2>3. RowsOK'
    BY <1>1, <1>2, <1>4, <2>2 DEF TablesInv, RowsOK
  <2>4. RecordsOK'
    BY <1>1, <1>2, <1>4, <2>2 DEF TablesInv, RecordsOK
  <2>5. OthersOK'
    BY <1>1, <1>2, <1>4 DEF TablesInv, OthersOK
  <2> QED BY <2>1, <2>3, <2>4, <2>5 DEF TablesInv
<1> QED BY <1>8, <1>9, <1>10, <1>11 DEF SocketsInv

(* While a table is opened, read or broken off, and what has been received *)
(* does not change.                                                        *)
LEMMA ReceivedStays ==
  ASSUME SocketsInv, ReadingOK',
         UNCHANGED <<process, steady, socketsAt, view, sockets, missing, cursor, comm,
                     denied, processes, diagnostics, available, shared>>,
         table' \subseteq Catalog, partial \subseteq partial',
         partial' \subseteq DOMAIN Sockets!Listing, reading' \in BOOLEAN,
         reading' => socketsAt \in DOMAIN Sockets!Listing \union {"error"}
  PROVE  SocketsInv'
<1>1. SocketsTypes /\ SteadyOK /\ TablesInv
  BY DEF SocketsInv
<1>2. /\ Sockets!Inodes' = Sockets!Inodes
      /\ WalkInv'
  BY WalkStays
<1>3. "idle" \notin DOMAIN Sockets!Listing
  BY ListingFacts
<1>4. SocketsTypes'
  BY <1>1, <1>2, <1>3 DEF SocketsTypes
<1>5. SteadyOK'
  BY <1>1 DEF SteadyOK
<1>6. RowsOK'
  BY <1>1 DEF TablesInv, RowsOK
<1>7. RecordsOK'
  BY <1>1 DEF TablesInv, RecordsOK
<1>8. OthersOK'
  BY <1>1 DEF TablesInv, OthersOK
<1> QED BY <1>2, <1>4, <1>5, <1>6, <1>7, <1>8 DEF SocketsInv, TablesInv

LEMMA SocketsBreakOff == SocketsInv /\ Sockets!BreakOff => SocketsInv'
<1> SUFFICES ASSUME SocketsInv, Sockets!BreakOff PROVE SocketsInv'
  OBVIOUS
<1>1. /\ reading /\ socketsAt \in Sockets!Dumps /\ partial' = partial \union {socketsAt}
      /\ UNCHANGED <<process, steady, socketsAt, reading, table, view, sockets, missing,
                     cursor, comm, denied, processes, diagnostics, available, shared>>
  BY DEF Sockets!BreakOff, Sockets!walk, Sockets!dumped
<1>2. SocketsTypes /\ ReadingOK
  BY DEF SocketsInv, TablesInv
<1>3. Sockets!Rows(socketsAt)' = Sockets!Rows(socketsAt)
  BY <1>1 DEF Sockets!Rows, Sockets!Existing
<1>4. ReadingOK'
  BY <1>1, <1>2, <1>3 DEF ReadingOK
<1>5. partial' \subseteq DOMAIN Sockets!Listing /\ table' \subseteq Catalog
  BY <1>1, <1>2, ListingFacts DEF SocketsTypes
<1> QED BY <1>1, <1>2, <1>4, <1>5, ReceivedStays DEF SocketsTypes

LEMMA SocketsOpen == SocketsInv /\ Sockets!Open => SocketsInv'
<1> SUFFICES ASSUME SocketsInv, Sockets!Open PROVE SocketsInv'
  OBVIOUS
<1>1. /\ socketsAt \in DOMAIN Sockets!Listing /\ reading' = TRUE
      /\ table' = Sockets!Rows(socketsAt)
      /\ UNCHANGED <<process, steady, socketsAt, partial, view, sockets, missing,
                     cursor, comm, denied, processes, diagnostics, available, shared>>
  BY DEF Sockets!Open, Sockets!machine, Sockets!walk, Sockets!dumped
<1>2. SocketsTypes
  BY DEF SocketsInv
<1>3. Sockets!Rows(socketsAt)' = Sockets!Rows(socketsAt)
  BY <1>1 DEF Sockets!Rows, Sockets!Existing
<1>4. ReadingOK'
  BY <1>1, <1>3 DEF ReadingOK, In, Sockets!Rows
<1>5. table' \subseteq Catalog
  BY <1>1, ExistingFacts DEF Sockets!Rows
<1> QED BY <1>1, <1>2, <1>4, <1>5, ReceivedStays DEF SocketsTypes

LEMMA SocketsFail == SocketsInv /\ Sockets!Fail => SocketsInv'
<1> SUFFICES ASSUME SocketsInv, Sockets!Fail PROVE SocketsInv'
  OBVIOUS
<1>1. /\ socketsAt \in {"idle"} \union Sockets!ProcTables /\ socketsAt' = "error"
      /\ UNCHANGED <<process, steady, reading, table, partial, view, sockets, missing, cursor,
                     comm, denied, processes, diagnostics, available, shared>>
  BY DEF Sockets!Fail, Sockets!machine, Sockets!read, Sockets!walk, Sockets!dumped
<1>2. SocketsTypes /\ SteadyOK /\ OthersOK
  BY DEF SocketsInv, TablesInv
<1>3. socketsAt \notin Walking /\ "error" \notin Walking /\ socketsAt \notin After /\ "error" \notin After
  BY <1>1, ListingFacts DEF Walking, After
<1>4. processes = {} /\ cursor = 0 /\ diagnostics = {} /\ ~available
  BY <1>1, <1>2, <1>3, ListingFacts DEF SocketsTypes
<1>5. SocketsTypes'
  BY <1>1, <1>2, <1>3, <1>4 DEF SocketsTypes
<1>6. SteadyOK'
  BY <1>1, <1>2 DEF SteadyOK
<1>7. TablesInv'
  <2>1. \A l \in DOMAIN Sockets!Listing : "error" \notin Past(l)
    BY ListingFacts DEF Past, Walking, After
  <2>2. ReadingOK' /\ OthersOK'
    BY <1>1, <1>4 DEF ReadingOK, OthersOK
  <2>3. RowsOK' /\ RecordsOK'
    BY <1>1, <2>1, ListingFacts DEF RowsOK, RecordsOK
  <2> QED BY <2>2, <2>3 DEF TablesInv
<1>8. WalkInv'
  BY <1>1, <1>4, <1>6, WalkAhead
<1> QED BY <1>5, <1>6, <1>7, <1>8 DEF SocketsInv

(* A table that did not change has all its rows read; so each has the      *)
(* sockets of its family and protocol that were held since the start.      *)
LEMMA SocketsRead == SocketsInv /\ Sockets!ReadTable => SocketsInv'
<1> SUFFICES ASSUME SocketsInv, Sockets!ReadTable PROVE SocketsInv'
  OBVIOUS
<1>1. /\ reading /\ socketsAt \in Sockets!ProcTables /\ socketsAt' = Sockets!Listing[socketsAt].then
      /\ reading' = FALSE /\ table' = {}
      /\ UNCHANGED <<process, steady, partial, view, missing, cursor, comm, denied,
                     processes, diagnostics, available, shared>>
  BY DEF Sockets!ReadTable, Sockets!Close, Sockets!machine, Sockets!walk, Sockets!dumped
<1>2. PICK found \in Sockets!Received : sockets' = sockets \union found
  BY DEF Sockets!ReadTable
<1>3. found \subseteq table /\ (socketsAt \notin partial => found = table)
  BY <1>2 DEF Sockets!Received
<1>4. SocketsTypes /\ SteadyOK /\ ReadingOK /\ RowsOK
  BY DEF SocketsInv, TablesInv
<1>5. /\ socketsAt = "tcp"  => socketsAt' = "udp"
      /\ socketsAt = "udp"  => socketsAt' = "tcp6"
      /\ socketsAt = "tcp6" => socketsAt' = "udp6"
      /\ socketsAt = "udp6" => socketsAt' = "next"
      /\ socketsAt \in {"tcp", "udp", "tcp6", "udp6"}
  BY <1>1, ListingFacts
<1>6. processes = {} /\ cursor = 0 /\ diagnostics = {} /\ ~available
  BY <1>4, <1>5, ListingFacts DEF SocketsTypes, Walking, After
<1>7. SocketsTypes'
  <2>1. sockets' \subseteq Catalog
    BY <1>2, <1>3, <1>4 DEF SocketsTypes
  <2>2. socketsAt' \in Sockets!ProcTables \union {"next"} /\ socketsAt' # "idle"
    BY <1>5, ListingFacts
  <2> QED BY <1>1, <1>4, <1>6, <2>1, <2>2, ListingFacts DEF SocketsTypes, Walking
<1>8. SteadyOK'
  BY <1>1, <1>4 DEF SteadyOK
<1>9. RowsOK'
  <2>1. ASSUME NEW h \in steady, NEW l \in Sockets!ProcTables, h[2] # Sockets!Nothing,
               In(l, h[2]), h[2].family = 4 \/ ~missing, socketsAt' \in Past(l), l \notin partial
        PROVE  h[2] \in sockets'
    <3>1. socketsAt = l \/ socketsAt \in Past(l)
      BY <1>5, <2>1, ListingFacts DEF Past, Walking, After
    <3>2. CASE socketsAt = l
      <4>1. h[2] \in Sockets!Rows(socketsAt)
        BY <2>1, <3>2, ExistingFacts
      <4>2. Sockets!Rows(socketsAt) \subseteq table
        BY <1>1, <1>4, <1>5 DEF ReadingOK
      <4> QED BY <1>2, <1>3, <2>1, <3>2, <4>1, <4>2
    <3>3. CASE socketsAt \in Past(l)
      BY <1>2, <1>4, <2>1, <3>3 DEF RowsOK
    <3> QED BY <3>1, <3>2, <3>3
  <2> QED BY <1>1, <2>1 DEF RowsOK, In
<1>10. TablesInv'
  <2>1. ReadingOK' /\ OthersOK'
    BY <1>1, <1>6 DEF ReadingOK, OthersOK
  <2>2. \A l \in Sockets!Dumps : socketsAt' \notin Past(l)
    BY <1>5, ListingFacts DEF Past
  <2>3. RecordsOK'
    BY <2>2 DEF RecordsOK
  <2> QED BY <1>9, <2>1, <2>3 DEF TablesInv
<1>11. WalkInv'
  BY <1>1, <1>5, <1>6, <1>8, ListingFacts, WalkAhead
<1> QED BY <1>7, <1>8, <1>10, <1>11 DEF SocketsInv

(* Without IPv6, the found of IPv4 remain.                                  *)
LEMMA SocketsNoTable == SocketsInv /\ Sockets!NoTable => SocketsInv'
<1> SUFFICES ASSUME SocketsInv, Sockets!NoTable PROVE SocketsInv'
  OBVIOUS
<1>1. /\ socketsAt \in {"tcp6", "udp6"} /\ socketsAt' = "next" /\ missing' = TRUE /\ ~reading
      /\ sockets' = {s \in sockets : s.family = 4}
      /\ UNCHANGED <<process, steady, reading, table, partial, view, cursor, comm, denied,
                     processes, diagnostics, available, shared>>
  BY DEF Sockets!NoTable, Sockets!machine, Sockets!read, Sockets!walk, Sockets!dumped
<1>2. SocketsTypes /\ SteadyOK /\ RowsOK
  BY DEF SocketsInv, TablesInv
<1>3. processes = {} /\ cursor = 0 /\ diagnostics = {} /\ ~available
  BY <1>1, <1>2, ListingFacts DEF SocketsTypes, Walking, After
<1>4. SocketsTypes'
  BY <1>1, <1>2, <1>3, ListingFacts DEF SocketsTypes, Walking
<1>5. SteadyOK'
  BY <1>1, <1>2 DEF SteadyOK
<1>6. RowsOK'
  <2>1. ASSUME NEW h \in steady, NEW l \in Sockets!ProcTables, h[2] # Sockets!Nothing,
               In(l, h[2]), h[2].family = 4, l \notin partial
        PROVE  h[2] \in sockets'
    <3>1. Sockets!Listing[l].family = 4
      BY <2>1 DEF In
    <3>2. l \in {"tcp", "udp"}
      BY <3>1, ListingFacts
    <3>3. socketsAt \in Past(l)
      BY <1>1, <3>2 DEF Past
    <3> QED BY <1>1, <1>2, <2>1, <3>3 DEF RowsOK
  <2> QED BY <1>1, <2>1 DEF RowsOK, In
<1>7. TablesInv'
  <2>1. ReadingOK' /\ OthersOK'
    BY <1>1, <1>3 DEF ReadingOK, OthersOK
  <2>2. \A l \in Sockets!Dumps : socketsAt' \notin Past(l)
    BY <1>1, ListingFacts DEF Past
  <2>3. RecordsOK'
    BY <2>2 DEF RecordsOK
  <2> QED BY <1>6, <2>1, <2>3 DEF TablesInv
<1>8. WalkInv'
  BY <1>1, <1>3, <1>5, WalkAhead
<1> QED BY <1>4, <1>5, <1>7, <1>8 DEF SocketsInv

(* The walk comes to the least process that is left; one that it skips was *)
(* not there, so has not been there since the start.                       *)
LEMMA SocketsNextProcess == SocketsInv /\ Sockets!NextProcess => SocketsInv'
<1> SUFFICES ASSUME SocketsInv, Sockets!NextProcess PROVE SocketsInv'
  OBVIOUS
<1> DEFINE left == {p \in Pids : p > cursor /\ process[p] # Sockets!Gone}
<1>1. /\ socketsAt = "next"
      /\ UNCHANGED <<process, steady, reading, table, partial, view, sockets, missing, comm,
                     processes, diagnostics, available, shared>>
  BY DEF Sockets!NextProcess, Sockets!machine, Sockets!read, Sockets!dumped
<1>2. /\ SocketsTypes /\ SteadyOK /\ cursor \in Nat
      /\ \A h \in steady : h[1] \in Pids /\ h[1] \in Nat /\ process[h[1]] # Sockets!Gone
  BY SocketsAssumption DEF SocketsInv, SocketsTypes, SteadyOK
<1>3. \/ /\ left = {} /\ socketsAt' = "tcpDump" /\ cursor' = cursor /\ denied' = denied
      \/ /\ left # {} /\ cursor' = CHOOSE p \in left : \A q \in left : p <= q
         /\ \/ socketsAt' = "comm" /\ denied' = denied
            \/ socketsAt' = "next" /\ denied' = denied \union {cursor'}
  BY <1>1 DEF Sockets!NextProcess, Sockets!Alive
<1>4. left # {} => cursor' \in left /\ \A q \in left : cursor' <= q
  <2>1. left \in SUBSET Nat
    BY SocketsAssumption
  <2> HIDE DEF left
  <2>2. left # {} => \E p \in left : \A q \in left : p <= q
    BY <2>1, LeastNat
  <2> QED BY <1>3, <2>2
<1>5. /\ Sockets!Inodes' = Sockets!Inodes /\ Sockets!Shown' = Sockets!Shown
      /\ SteadyOK' /\ TablesInv' /\ ~reading
  <2>1. socketsAt' \in {"next", "comm", "link", "tcpDump"}
    BY <1>3
  <2> QED BY <1>1, <2>1, TablesStay
<1>6. cursor' \in {0} \union Pids /\ cursor' \in Nat /\ (socketsAt' = "comm" => cursor' \in Pids)
  BY <1>2, <1>3, <1>4, SocketsAssumption DEF SocketsTypes
<1>7. socketsAt' \in {"next", "comm", "tcpDump"}
  BY <1>3
<1>8. ASSUME NEW h \in steady, Passed(h[1])', h[1] \notin denied'
      PROVE  Passed(h[1])
  <2>1. CASE left = {}
    BY <1>1, <1>2, <1>8, <2>1 DEF Passed
  <2>2. CASE left # {}
    <3>0. socketsAt' \in {"comm", "next"} /\ socketsAt' \notin After
      BY <1>3, <2>2, ListingFacts DEF After
    <3>1. ~(h[1] = cursor')
      BY <1>2, <1>3, <1>6, <1>8, <2>2, <3>0 DEF Passed
    <3>2. h[1] <= cursor'
      BY <1>8, <3>0 DEF Passed
    <3>3. h[1] \notin left
      <4> HIDE DEF left
      <4> QED BY <1>2, <1>4, <1>6, <2>2, <3>1, <3>2
    <3>4. h[1] <= cursor
      BY <1>2, <3>3
    <3> QED BY <1>1, <3>4 DEF Passed
  <2> QED BY <2>1, <2>2
<1> HIDE DEF left
<1>9. SocketsTypes'
  <2>1. diagnostics = {}
    BY <1>1, <1>2, ListingFacts DEF SocketsTypes, After
  <2>2. socketsAt' \in Walking /\ socketsAt' # "idle" /\ socketsAt' # "link"
    BY <1>7, ListingFacts DEF Walking, After
  <2> QED BY <1>1, <1>2, <1>5, <1>6, <2>1, <2>2 DEF SocketsTypes
<1>10. \A h \in steady : Own(h)' = Own(h) /\ (Found(h[1])' <=> Found(h[1]))
  BY <1>1 DEF Own, Found
<1>11. FoundOwn'
  BY <1>1, <1>7, <1>10 DEF SocketsInv, WalkInv, FoundOwn
<1>12. FoundAll'
  <2>1. denied \subseteq denied'
    BY <1>3
  <2> QED BY <1>1, <1>5, <1>8, <1>10, <2>1 DEF SocketsInv, WalkInv, FoundAll
<1> QED BY <1>5, <1>9, <1>11, <1>12 DEF SocketsInv, WalkInv

(* Without /proc, no process can be listed.                                *)
LEMMA SocketsNoProcesses == SocketsInv /\ Sockets!NoProcesses => SocketsInv'
<1> SUFFICES ASSUME SocketsInv, Sockets!NoProcesses PROVE SocketsInv'
  OBVIOUS
<1>1. /\ socketsAt = "next" /\ socketsAt' = "tcpDump" /\ denied' = Pids
      /\ UNCHANGED <<process, steady, reading, table, partial, view, sockets, missing, cursor,
                     comm, processes, diagnostics, available, shared>>
  BY DEF Sockets!NoProcesses, Sockets!machine, Sockets!read, Sockets!dumped
<1>2. SocketsTypes /\ SteadyOK
  BY DEF SocketsInv
<1>5. /\ Sockets!Inodes' = Sockets!Inodes /\ Sockets!Shown' = Sockets!Shown
      /\ SteadyOK' /\ TablesInv' /\ ~reading
  BY <1>1, TablesStay
<1>6. SocketsTypes'
  <2>1. diagnostics = {}
    BY <1>1, <1>2, ListingFacts DEF SocketsTypes, After
  <2> QED BY <1>1, <1>2, <1>5, <2>1, ListingFacts DEF SocketsTypes, Walking, After
<1>7. WalkInv'
  BY <1>1, <1>2 DEF SocketsInv, SteadyOK, WalkInv, FoundOwn, FoundAll, Own
<1> QED BY <1>5, <1>6, <1>7 DEF SocketsInv

(* The name read is that of the process that has the identifier, or none.  *)
LEMMA SocketsComm == SocketsInv /\ Sockets!ReadComm => SocketsInv'
<1> SUFFICES ASSUME SocketsInv, Sockets!ReadComm PROVE SocketsInv'
  OBVIOUS
<1>1. /\ socketsAt = "comm" /\ socketsAt' = "link"
      /\ \/ comm' = "unknown"
         \/ process[cursor] # Sockets!Gone /\ comm' = process[cursor].name
      /\ UNCHANGED <<process, steady, reading, table, partial, view, sockets, missing, cursor,
                     denied, processes, diagnostics, available, shared>>
  BY DEF Sockets!ReadComm, Sockets!Alive, Sockets!machine, Sockets!read, Sockets!dumped
<1>2. /\ cursor \in Pids /\ process \in [Pids -> {Sockets!Gone} \union Programs]
      /\ SocketsTypes /\ SteadyOK
  BY <1>1 DEF SocketsInv, SocketsTypes
<1>3. comm' \in Names
  BY <1>1, <1>2 DEF Names
<1>5. /\ Sockets!Inodes' = Sockets!Inodes /\ Sockets!Shown' = Sockets!Shown
      /\ SteadyOK' /\ TablesInv' /\ ~reading
  BY <1>1, TablesStay
<1>6. SocketsTypes'
  <2>1. diagnostics = {}
    BY <1>1, <1>2, ListingFacts DEF SocketsTypes, After
  <2> QED BY <1>1, <1>2, <1>3, <1>5, <2>1 DEF SocketsTypes, Walking
<1>7. \A h \in steady : Own(h)' = Own(h) /\ (Found(h[1])' <=> Found(h[1]))
  BY <1>1 DEF Own, Found
<1>8. FoundOwn'
  BY <1>1, <1>7 DEF SocketsInv, WalkInv, FoundOwn
<1>9. FoundAll'
  <2>1. "comm" \notin After /\ "link" \notin After
    BY ListingFacts DEF After
  <2>2. \A h \in steady : Passed(h[1])' <=> Passed(h[1])
    BY <1>1, <2>1 DEF Passed
  <2> QED BY <1>1, <1>5, <1>7, <2>2 DEF SocketsInv, WalkInv, FoundAll
<1> QED BY <1>5, <1>6, <1>8, <1>9 DEF SocketsInv, WalkInv

(* The inode read is that of the socket that the process holds.            *)
LEMMA SocketsLink == SocketsInv /\ Sockets!ReadLink => SocketsInv'
<1> SUFFICES ASSUME SocketsInv, Sockets!ReadLink PROVE SocketsInv'
  OBVIOUS
<1> DEFINE inode == process[cursor].holds.inode
<1>1. /\ socketsAt = "link" /\ socketsAt' = "next"
      /\ UNCHANGED <<process, steady, reading, table, partial, view, sockets, missing, cursor,
                     comm, denied, diagnostics, available, shared>>
  BY DEF Sockets!ReadLink, Sockets!machine, Sockets!read, Sockets!dumped
<1>2. /\ inode \in Sockets!Inodes => processes' = processes \union {<<inode, cursor, comm>>}
      /\ inode \notin Sockets!Inodes => processes' = processes
  BY DEF Sockets!ReadLink
<1> HIDE DEF inode
<1>3. cursor \in Pids /\ comm \in Names /\ cursor \in Nat /\ SocketsTypes /\ SteadyOK
  BY <1>1, SocketsAssumption DEF SocketsInv, SocketsTypes
<1>5. /\ Sockets!Inodes' = Sockets!Inodes /\ Sockets!Shown' = Sockets!Shown
      /\ SteadyOK' /\ TablesInv' /\ ~reading
  BY <1>1, TablesStay
<1>6. \A h \in steady : cursor = h[1] => <<inode, cursor, comm>> \in Own(h)
  BY <1>1, <1>3 DEF SocketsInv, WalkInv, SteadyOK, FoundOwn, Own, inode
<1>7. \A x \in processes' : x \in processes \/ x = <<inode, cursor, comm>>
  BY <1>2
<1>8. SocketsTypes'
  <2>1. processes' \subseteq Sockets!Inodes \X Pids \X Names
    BY <1>2, <1>3 DEF SocketsTypes
  <2>2. diagnostics = {}
    BY <1>1, <1>3, ListingFacts DEF SocketsTypes, After
  <2> QED BY <1>1, <1>3, <1>5, <2>1, <2>2 DEF SocketsTypes, Walking
<1>9. \A h \in steady : Own(h)' = Own(h)
  BY <1>1 DEF Own
<1>10. FoundOwn'
  <2>1. ASSUME NEW h \in steady, NEW x \in processes', x[2] = h[1]
        PROVE  x \in Own(h)
    BY <1>6, <1>7, <2>1 DEF SocketsInv, WalkInv, FoundOwn
  <2> QED BY <1>1, <1>9, <2>1 DEF FoundOwn
<1>11. FoundAll'
  <2>1. ASSUME NEW h \in steady, h[2] # Sockets!Nothing, h[2] \in Sockets!Shown, Passed(h[1])',
               h[1] \notin denied
        PROVE  Found(h[1])'
    <3>1. CASE cursor = h[1]
      <4>1. inode = h[2].inode
        BY <1>3, <3>1 DEF SteadyOK, inode
      <4>2. inode \in Sockets!Inodes
        BY <2>1, <4>1, ExistingFacts DEF Sockets!Inodes
      <4>3. <<inode, cursor, comm>> \in processes'
        BY <1>2, <4>2
      <4> QED BY <3>1, <4>3 DEF Found
    <3>2. CASE cursor # h[1]
      <4>1. Passed(h[1])
        BY <1>1, <2>1, <3>2, ListingFacts DEF Passed, After
      <4>2. Found(h[1])
        BY <2>1, <4>1 DEF SocketsInv, WalkInv, FoundAll
      <4> QED BY <1>2, <4>2 DEF Found
    <3> QED BY <3>1, <3>2
  <2> QED BY <1>1, <1>5, <2>1 DEF FoundAll
<1> QED BY <1>5, <1>8, <1>10, <1>11 DEF SocketsInv, WalkInv

(* While the dumps are received.                                           *)
LEMMA DumpsStay ==
  ASSUME SocketsInv, socketsAt \in Sockets!Dumps, socketsAt' \in After,
         UNCHANGED <<process, steady, view, sockets, missing, cursor, comm, denied, processes>>,
         reading' = FALSE, table' = {},
         partial \subseteq partial', partial' \subseteq DOMAIN Sockets!Listing,
         diagnostics' \subseteq Catalog,
         available' \in BOOLEAN, available' => socketsAt' = "ok",
         RecordsOK', OthersOK'
  PROVE  SocketsInv'
<1>1. SocketsTypes /\ SteadyOK /\ TablesInv /\ socketsAt \in After
  BY DEF SocketsInv, After
<1>2. /\ Sockets!Inodes' = Sockets!Inodes
      /\ WalkInv'
  BY <1>1, WalkStays
<1>3. socketsAt' \in Walking /\ socketsAt' \notin {"idle", "comm", "link"}
  BY ListingFacts DEF Walking, After
<1>4. SocketsTypes'
  BY <1>1, <1>2, <1>3 DEF SocketsTypes
<1>5. SteadyOK'
  BY <1>1 DEF SteadyOK
<1>6. ReadingOK'
  BY DEF ReadingOK
<1>7. RowsOK'
  <2>1. \A l \in Sockets!ProcTables : socketsAt \in Past(l)
    BY <1>1, ListingFacts DEF Past, Walking
  <2> QED BY <1>1, <2>1 DEF TablesInv, RowsOK, In
<1> QED BY <1>2, <1>4, <1>5, <1>6, <1>7 DEF SocketsInv, TablesInv

(* A dump that did not change and was not broken off has all its records.  *)
(* One with the endpoints of a socket was beside it in the table.          *)
LEMMA SocketsDump == SocketsInv /\ Sockets!Dump => SocketsInv'
<1> SUFFICES ASSUME SocketsInv, Sockets!Dump PROVE SocketsInv'
  OBVIOUS
<1>1. /\ reading /\ socketsAt \in Sockets!Dumps /\ socketsAt' = Sockets!Listing[socketsAt].then
      /\ reading' = FALSE /\ table' = {} /\ partial' = partial
      /\ available' = (socketsAt' = "ok")
      /\ shared' = shared \union {s \in table : \E r \in table \ {s} : Sockets!SameEndpoints(r, s)}
      /\ UNCHANGED <<process, steady, view, sockets, missing, cursor, comm, denied, processes>>
  BY DEF Sockets!Dump, Sockets!Close, Sockets!machine, Sockets!walk
<1>2. PICK records \in Sockets!Received : diagnostics' = diagnostics \union records
  BY DEF Sockets!Dump
<1>3. records \subseteq table /\ (socketsAt \notin partial => records = table)
  BY <1>2 DEF Sockets!Received
<1>4. SocketsTypes /\ SteadyOK /\ ReadingOK /\ RecordsOK /\ OthersOK
  BY DEF SocketsInv, TablesInv
<1>5. /\ socketsAt = "tcpDump"  => socketsAt' = "udpDump"
      /\ socketsAt = "udpDump"  => socketsAt' = "tcp6Dump"
      /\ socketsAt = "tcp6Dump" => socketsAt' = "udp6Dump"
      /\ socketsAt = "udp6Dump" => socketsAt' = "ok"
      /\ socketsAt \in {"tcpDump", "udpDump", "tcp6Dump", "udp6Dump"}
      /\ socketsAt' \in After /\ socketsAt # "error"
  BY <1>1, ListingFacts DEF After
<1>6. /\ Sockets!Rows(socketsAt) \subseteq table
      /\ \A r \in table : In(socketsAt, r)
  BY <1>1, <1>4, <1>5 DEF ReadingOK
<1>7. RecordsOK'
  <2>1. ASSUME NEW h \in steady, NEW l \in Sockets!Dumps, h[2] # Sockets!Nothing,
               In(l, h[2]), socketsAt' \in Past(l), l \notin partial
        PROVE  h[2] \in diagnostics'
    <3>1. socketsAt = l \/ socketsAt \in Past(l)
      BY <1>5, <2>1, ListingFacts DEF Past
    <3>2. CASE socketsAt = l
      <4>1. h[2] \in Sockets!Rows(socketsAt)
        BY <2>1, <3>2, ExistingFacts
      <4> QED BY <1>2, <1>3, <1>6, <2>1, <3>2, <4>1
    <3>3. CASE socketsAt \in Past(l)
      BY <1>2, <1>4, <1>5, <2>1, <3>3 DEF RecordsOK
    <3> QED BY <3>1, <3>2, <3>3
  <2> QED BY <1>1, <2>1 DEF RecordsOK, In
<1>8. OthersOK'
  <2>1. ASSUME NEW h \in steady, h[2] # Sockets!Nothing, h[2] \notin shared',
               NEW r \in diagnostics', Sockets!SameEndpoints(r, h[2]), r # h[2]
        PROVE  FALSE
    <3>1. CASE r \in diagnostics
      BY <1>1, <1>4, <2>1, <3>1 DEF OthersOK
    <3>2. CASE r \in table
      <4>1. In(socketsAt, h[2])
        BY <1>6, <2>1, <3>2 DEF In, Sockets!SameEndpoints
      <4>2. h[2] \in table
        BY <1>6, <2>1, <4>1, ExistingFacts
      <4> QED BY <1>1, <2>1, <3>2, <4>2
    <3> QED BY <1>2, <1>3, <2>1, <3>1, <3>2
  <2> QED BY <1>1, <2>1 DEF OthersOK, Sockets!SameEndpoints
<1>9. diagnostics' \subseteq Catalog /\ partial' \subseteq DOMAIN Sockets!Listing
  BY <1>1, <1>2, <1>3, <1>4 DEF SocketsTypes
<1> QED BY <1>1, <1>5, <1>7, <1>8, <1>9, DumpsStay

(* Without IPv6, the records of IPv4 remain.                               *)
LEMMA SocketsNoIpv6 == SocketsInv /\ Sockets!NoIpv6Diagnostics => SocketsInv'
<1> SUFFICES ASSUME SocketsInv, Sockets!NoIpv6Diagnostics PROVE SocketsInv'
  OBVIOUS
<1>1. /\ socketsAt \in {"tcp6Dump", "udp6Dump"} /\ socketsAt' = "ok" /\ available' = TRUE
      /\ diagnostics' = {r \in diagnostics : r.family = 4}
      /\ reading' = FALSE /\ table' = {}
      /\ partial' = partial \union {"tcp6Dump", "udp6Dump"}
      /\ UNCHANGED <<process, steady, view, sockets, missing, cursor, comm, denied, processes,
                     shared>>
  BY DEF Sockets!NoIpv6Diagnostics, Sockets!machine, Sockets!walk
<1>2. SocketsTypes /\ RecordsOK /\ OthersOK
  BY DEF SocketsInv, TablesInv
<1>3. RecordsOK'
  <2>1. ASSUME NEW h \in steady, NEW l \in Sockets!Dumps, h[2] # Sockets!Nothing,
               In(l, h[2]), l \notin partial'
        PROVE  h[2] \in diagnostics'
    <3>1. l \in {"tcpDump", "udpDump"} /\ l \notin partial
      BY <1>1, <2>1, ListingFacts
    <3>2. h[2].family = 4 /\ socketsAt \in Past(l) /\ socketsAt # "ok"
      BY <1>1, <2>1, <3>1, ListingFacts DEF In, Past
    <3>3. h[2] \in diagnostics
      BY <1>2, <2>1, <3>1, <3>2 DEF RecordsOK
    <3> QED BY <1>1, <3>2, <3>3
  <2> QED BY <1>1, <2>1 DEF RecordsOK, In
<1>4. OthersOK'
  BY <1>1, <1>2 DEF OthersOK, Sockets!SameEndpoints
<1>5. /\ diagnostics' \subseteq Catalog /\ partial' \subseteq DOMAIN Sockets!Listing
      /\ socketsAt \in Sockets!Dumps /\ socketsAt' \in After
  BY <1>1, <1>2, ListingFacts DEF SocketsTypes, After
<1> QED BY <1>1, <1>3, <1>4, <1>5, DumpsStay

LEMMA SocketsNoDiagnostics == SocketsInv /\ Sockets!NoDiagnostics => SocketsInv'
<1> SUFFICES ASSUME SocketsInv, Sockets!NoDiagnostics PROVE SocketsInv'
  OBVIOUS
<1>1. /\ socketsAt \in Sockets!Dumps /\ socketsAt' = "ok" /\ diagnostics' = {}
      /\ reading' = FALSE /\ table' = {} /\ partial' = partial
      /\ UNCHANGED <<process, steady, view, sockets, missing, cursor, comm, denied, processes,
                     available, shared>>
  BY DEF Sockets!NoDiagnostics, Sockets!Close, Sockets!machine, Sockets!walk
<1>2. available' = FALSE /\ partial' \subseteq DOMAIN Sockets!Listing
  BY <1>1, ListingFacts DEF SocketsInv, SocketsTypes
<1>3. RecordsOK' /\ OthersOK'
  BY <1>1, <1>2 DEF RecordsOK, OthersOK
<1> QED BY <1>1, <1>2, <1>3, DumpsStay DEF After

LEMMA SocketsNext == SocketsInv /\ Sockets!Next => SocketsInv'
  BY SocketsStart, SocketsTurnover, SocketsBreakOff, SocketsFail, SocketsOpen, SocketsRead,
     SocketsNoTable, SocketsNextProcess, SocketsNoProcesses, SocketsComm, SocketsLink,
     SocketsDump, SocketsNoIpv6, SocketsNoDiagnostics, Zenon
  DEF Sockets!Next, Sockets!Command

(* While another component moves.                                          *)
LEMMA SocketsStutter == SocketsInv /\ UNCHANGED socketsVars => SocketsInv'
<1> SUFFICES ASSUME SocketsInv, UNCHANGED socketsVars PROVE SocketsInv'
  OBVIOUS
<1>1. UNCHANGED <<process, steady, socketsAt, reading, table, partial, view, sockets, missing,
                  cursor, comm, denied, processes, diagnostics, available, shared>>
  BY DEF socketsVars
<1>2. SocketsTypes /\ ReadingOK
  BY DEF SocketsInv, TablesInv
<1>3. Sockets!Rows(socketsAt)' = Sockets!Rows(socketsAt)
  BY <1>1 DEF Sockets!Rows, Sockets!Existing
<1>4. ReadingOK'
  BY <1>1, <1>2, <1>3 DEF ReadingOK
<1> QED BY <1>1, <1>2, <1>4, ReceivedStays DEF SocketsTypes

LEMMA SocketsFollow == SocketsInv => Sockets!TypeOK /\ Sockets!SteadyListed
<1> SUFFICES ASSUME SocketsInv PROVE Sockets!TypeOK /\ Sockets!SteadyListed
  OBVIOUS
<1>1. Sockets!TypeOK
  BY DEF SocketsInv, SocketsTypes, Sockets!TypeOK, Names
<1>2. RowsOK /\ RecordsOK /\ OthersOK /\ FoundOwn /\ FoundAll
  BY DEF SocketsInv, TablesInv, WalkInv
<1>3. ASSUME NEW s \in Catalog
      PROVE  /\ Sockets!TableOf(s) \in Sockets!ProcTables /\ In(Sockets!TableOf(s), s)
             /\ Sockets!DumpOf(s) \in Sockets!Dumps /\ In(Sockets!DumpOf(s), s)
  <2>1. s.protocol \in {"tcp", "udp"} /\ s.family \in {4, 6}
    BY SocketsAssumption
  <2>2. \E l \in Sockets!ProcTables : /\ Sockets!Listing[l].protocol = s.protocol
                                      /\ Sockets!Listing[l].family = s.family
    BY <2>1, ListingFacts
  <2>3. \E l \in Sockets!Dumps : /\ Sockets!Listing[l].protocol = s.protocol
                                 /\ Sockets!Listing[l].family = s.family
    BY <2>1, ListingFacts
  <2> QED BY <2>2, <2>3 DEF Sockets!TableOf, Sockets!DumpOf, In
<1>4. \A l \in DOMAIN Sockets!Listing : "ok" \in Past(l)
  BY ListingFacts DEF Past, Walking, After
<1>5. ASSUME socketsAt = "ok", NEW h \in steady
      PROVE  {x \in processes : x[2] = h[1]} \subseteq Own(h)
  BY <1>2 DEF FoundOwn
<1>6. ASSUME socketsAt = "ok", NEW h \in steady, h[2] # Sockets!Nothing,
             Sockets!Matches(h[2]), h[2].family = 4 \/ ~missing,
             Sockets!TableOf(h[2]) \notin partial
      PROVE  h[2] \in Sockets!Shown
  <2>1. h[2] \in Catalog
    BY <1>6, ExistingFacts
  <2>2. h[2] \in sockets
    BY <1>2, <1>3, <1>4, <1>6, <2>1, ListingFacts DEF RowsOK
  <2> QED BY <1>6, <2>2 DEF Sockets!Shown
<1>7. ASSUME socketsAt = "ok", NEW h \in steady, h[2] # Sockets!Nothing, h[2] \in Sockets!Shown
      PROVE  h[1] \in denied \/ {x \in processes : x[2] = h[1]} # {}
  BY <1>2, <1>7 DEF FoundAll, Passed, Found, After
<1>8. ASSUME socketsAt = "ok", NEW h \in steady, h[2] # Sockets!Nothing, h[2] \notin shared
      PROVE  /\ Sockets!DiagnosticsOf(h[2]) \subseteq {h[2]}
             /\ available /\ Sockets!DumpOf(h[2]) \notin partial
                => h[2] \in Sockets!DiagnosticsOf(h[2])
  <2>1. h[2] \in Catalog
    BY <1>8, ExistingFacts
  <2>2. \A r : Sockets!Key(r) = Sockets!Key(h[2]) => Sockets!SameEndpoints(r, h[2])
    BY DEF Sockets!Key, Sockets!SameEndpoints
  <2>3. Sockets!DiagnosticsOf(h[2]) \subseteq {h[2]}
    BY <1>2, <1>8, <2>2 DEF OthersOK, Sockets!DiagnosticsOf
  <2>4. available /\ Sockets!DumpOf(h[2]) \notin partial => h[2] \in diagnostics
    BY <1>2, <1>3, <1>4, <1>8, <2>1, ListingFacts DEF RecordsOK
  <2> QED BY <2>3, <2>4 DEF Sockets!DiagnosticsOf
<1>9. \A h \in steady : Own(h) = {<<h[2].inode, h[1], process[h[1]].name>>,
                                  <<h[2].inode, h[1], "unknown">>}
  BY DEF Own
<1>10. Sockets!SteadyListed
  BY <1>5, <1>6, <1>7, <1>8, <1>9 DEF Sockets!SteadyListed
<1> QED BY <1>1, <1>10

-----------------------------------------------------------------------------
(* Check.                                                                  *)

(* The measurement of the gateway is Ping, with what is proved of it.      *)
Measurement == INSTANCE Ping_proofs WITH Count <- 3, SequenceModulus <- 65536,
                                         MaxDuplicates <- 0, elapsed <- echoes

LEMMA SamePing ==
  /\ Check!P!Init => Measurement!Init
  /\ Check!P!Echo \/ Check!P!Failure \/ Check!P!Network => Measurement!Next
  /\ Measurement!TypeOK => Check!P!TypeOK
<1>1. Check!P!Init => Measurement!Init
  BY DEF Check!P!Init, Measurement!Init
<1>2. \A r : Check!P!Return(r) => Measurement!Return(r)
  BY Zenon DEF Check!P!Return, Measurement!Return
<1>3. Check!P!Echo => Measurement!Echo
  <2>1. Check!P!Send => Measurement!Send
    BY Zenon DEF Check!P!Send, Measurement!Send
  <2>2. Check!P!PollReady => Measurement!PollReady
    BY Zenon DEF Check!P!PollReady, Measurement!PollReady
  <2>3. Check!P!PollTimeout => Measurement!PollTimeout
    BY Zenon DEF Check!P!PollTimeout, Measurement!PollTimeout, Check!P!NextRound,
                 Measurement!NextRound
  <2>4. Check!P!Receive => Measurement!Receive
    BY DEF Check!P!Receive, Measurement!Receive, Check!P!NextRound,
                 Measurement!NextRound, Check!P!Matches, Measurement!Matches,
                 Check!P!Sequence, Measurement!Sequence
  <2>5. Check!P!Finish => Measurement!Finish
    BY <1>2, Zenon DEF Check!P!Finish, Measurement!Finish
  <2> QED BY <2>1, <2>2, <2>3, <2>4, <2>5, Zenon DEF Check!P!Echo, Measurement!Echo
<1>4. Check!P!Failure => Measurement!Failure
  <2>1. Check!P!OpenFails => Measurement!OpenFails
    BY <1>2, Zenon DEF Check!P!OpenFails, Measurement!OpenFails
  <2>2. Check!P!SendFails => Measurement!SendFails
    BY <1>2, Zenon DEF Check!P!SendFails, Measurement!SendFails
  <2>3. Check!P!PollFails => Measurement!PollFails
    BY <1>2, Zenon DEF Check!P!PollFails, Measurement!PollFails
  <2>4. Check!P!ReceiveFails => Measurement!ReceiveFails
    BY Zenon DEF Check!P!ReceiveFails, Measurement!ReceiveFails, Check!P!NextRound,
                 Measurement!NextRound
  <2> QED BY <2>1, <2>2, <2>3, <2>4, Zenon DEF Check!P!Failure, Measurement!Failure
<1>5. Check!P!Network => Measurement!Network
  <2>1. \A k : Check!P!Arrive(k) => Measurement!Arrive(k)
    BY Zenon DEF Check!P!Arrive, Measurement!Arrive, Check!P!Unobserved,
                 Measurement!Unobserved
  <2>2. \A k : Check!P!Lose(k) => Measurement!Lose(k)
    BY Zenon DEF Check!P!Lose, Measurement!Lose, Check!P!Unobserved,
                 Measurement!Unobserved
  <2>3. Check!P!Rounds = Measurement!Rounds
    BY DEF Check!P!Rounds, Measurement!Rounds
  <2> QED BY <2>1, <2>2, <2>3, Zenon DEF Check!P!Network, Measurement!Network
<1>6. Measurement!TypeOK => Check!P!TypeOK
  BY Zenon DEF Measurement!TypeOK, Check!P!TypeOK, Measurement!Rounds, Check!P!Rounds
<1> QED BY <1>1, <1>3, <1>4, <1>5, <1>6, Zenon DEF Measurement!Next

MeasuredOK == Measurement!IInv /\ Measurement!FirstOK

LEMMA MeasuredInit == Check!P!Init => MeasuredOK
  BY SamePing, Measurement!InitIInv, Measurement!FirstInit DEF MeasuredOK

LEMMA MeasuredNext ==
  MeasuredOK /\ (Check!P!Echo \/ Check!P!Failure \/ Check!P!Network) => MeasuredOK'
  BY SamePing, Measurement!NextIInv, Measurement!FirstNext DEF MeasuredOK

LEMMA MeasuredStutter == MeasuredOK /\ UNCHANGED Check!ping => MeasuredOK'
<1> SUFFICES ASSUME MeasuredOK, UNCHANGED Check!ping PROVE MeasuredOK'
  OBVIOUS
<1>1. UNCHANGED Measurement!vars
  BY Zenon DEF Check!ping, Measurement!vars
<1> QED BY <1>1, Measurement!NextIInv, Measurement!FirstNext DEF MeasuredOK

Gated == route.gateway
Warned == \E item \in items : item[2] = "warning"

(* How far the report has come.                                            *)
PastEcho == checkAt \in {"servers", "verdict", "healthy", "unhealthy"}
PastServers == PastEcho \/ checkAt = "echo"
PastTable == PastServers \/ checkAt = "resolv"
PastCarrier == PastTable \/ checkAt \in {"poke", "table"}

(* What was seen of the machine includes how it is, and what was read of   *)
(* the link is what it once was.                                           *)
SeenOK ==
  /\ link \in Check!LinkStates /\ linkSeen \subseteq Check!LinkStates
  /\ resolved \subseteq Interfaces
  /\ Check!Reading => /\ link \in linkSeen
                      /\ resolved # {} => TRUE \in gateSeen
                      /\ resolved = {} => FALSE \in gateSeen
  /\ checkAt = "carrier" => /\ state => "up" \in linkSeen
                            /\ ~state => \E l \in linkSeen : l # "up"

(* Who sends requests, and what the verdict says.                          *)
CourseOK ==
  /\ checkAt \in {"idle", "state", "carrier", "error"} \/ PastCarrier
  /\ checkAt = "idle" => items = {}
  /\ checkAt = "echo" => active /\ Gated
  /\ checkAt = "verdict" => ~active
  /\ checkAt = "healthy" => ~Warned
  /\ checkAt = "unhealthy" => Warned
  /\ reached \subseteq {"none", "open", "refusing", "silent"}

Unanswered == outcome = "error" \/ 0 \notin prompt \/ unread # {}

(* There is a reason for a warning.                                        *)
Blame == \/ \E l \in linkSeen : l # "up"
         \/ Gated /\ FALSE \in gateSeen
         \/ <<"dns", "warning">> \in items
         \/ \E how \in reached : how \in {"none", "silent"}
         \/ PastEcho /\ active /\ Gated /\ Unanswered

(* Without a warning, everything looked at was well.                       *)
Credit == /\ PastCarrier => "up" \in linkSeen
          /\ PastTable /\ Gated => TRUE \in gateSeen
          /\ PastServers => <<"dns", "ok">> \in items
          /\ reached \subseteq {"open", "refusing"}
          /\ PastEcho /\ active /\ Gated =>
               prompt # {} \/ <<"gateway-icmp", "skipped">> \in items

CheckInv == /\ SeenOK /\ CourseOK /\ MeasuredOK
            /\ Warned => Blame
            /\ ~Warned => Credit

LEMMA CheckInit == Check!Idle => CheckInv
<1> SUFFICES ASSUME Check!Idle PROVE CheckInv
  OBVIOUS
<1>1. /\ link = "down" /\ resolved = {} /\ linkSeen = {} /\ checkAt = "idle"
      /\ items = {} /\ reached = {} /\ MeasuredOK
  BY MeasuredInit DEF Check!Idle
<1> QED BY <1>1 DEF CheckInv, SeenOK, CourseOK, Credit, Warned, Check!LinkStates,
                    Check!Reading, PastCarrier, PastTable, PastServers, PastEcho

(* The link or the neighbor table changes, and is seen to.                 *)
LEMMA CheckFlap == CheckInv /\ Check!Flap => CheckInv'
<1> SUFFICES ASSUME CheckInv, Check!Flap PROVE CheckInv'
  OBVIOUS
<1>1. /\ UNCHANGED <<checkAt, active, route, state, items, reached>>
      /\ UNCHANGED Check!ping /\ Check!Reading
      /\ linkSeen \subseteq linkSeen' /\ gateSeen \subseteq gateSeen'
  BY DEF Check!Flap
<1>2. Gated' = Gated /\ Warned' = Warned /\ UNCHANGED <<outcome, prompt, unread>>
  BY <1>1 DEF Gated, Warned, Check!ping
<1>3. MeasuredOK'
  BY <1>1, MeasuredStutter DEF CheckInv
<1>4. SeenOK'
  <2>1. CASE /\ link' \in Check!LinkStates \ {link}
             /\ linkSeen' = linkSeen \union {link'}
             /\ UNCHANGED <<resolved, gateSeen>>
    BY <1>1, <2>1 DEF CheckInv, SeenOK, Check!Reading
  <2>2. CASE /\ resolved' \in SUBSET Interfaces \ {resolved}
             /\ gateSeen' = gateSeen \union {resolved' # {}}
             /\ UNCHANGED <<link, linkSeen>>
    <3>1. (resolved' # {}) \in gateSeen'
      BY <2>2
    <3>2. (resolved' # {} => TRUE \in gateSeen') /\ (resolved' = {} => FALSE \in gateSeen')
      BY <3>1
    <3> QED BY <1>1, <2>2, <3>2 DEF CheckInv, SeenOK, Check!Reading
  <2> QED BY <2>1, <2>2 DEF Check!Flap
<1>5. CourseOK'
  BY <1>1, <1>2 DEF CheckInv, CourseOK, PastCarrier, PastTable, PastServers, PastEcho
<1>6. Warned' => Blame'
  BY <1>1, <1>2 DEF CheckInv, Blame, PastEcho, Unanswered
<1>7. ~Warned' => Credit'
  BY <1>1, <1>2 DEF CheckInv, Credit, PastCarrier, PastTable, PastServers, PastEcho
<1> QED BY <1>3, <1>4, <1>5, <1>6, <1>7 DEF CheckInv

LEMMA CheckBegin == CheckInv /\ Check!Begin => CheckInv'
<1> SUFFICES ASSUME CheckInv, Check!Begin PROVE CheckInv'
  OBVIOUS
<1>1. /\ checkAt = "idle" /\ checkAt' = "state" /\ items' = {<<"default-route", "ok">>}
      /\ link' \in Check!LinkStates /\ linkSeen' = {link'}
      /\ resolved' \in SUBSET Interfaces /\ gateSeen' = {resolved' # {}}
      /\ reached' = reached /\ UNCHANGED Check!ping
  BY DEF Check!Begin
<1>2. ~Warned /\ ~Warned'
  BY <1>1 DEF CheckInv, CourseOK, Warned
<1>3. MeasuredOK'
  BY <1>1, MeasuredStutter DEF CheckInv
<1>4. SeenOK'
  <2>1. (resolved' # {}) \in gateSeen'
    BY <1>1
  <2>2. (resolved' # {} => TRUE \in gateSeen') /\ (resolved' = {} => FALSE \in gateSeen')
    BY <2>1
  <2> QED BY <1>1, <2>2 DEF SeenOK
<1>5. CourseOK'
  BY <1>1, <1>2 DEF CheckInv, CourseOK
<1>6. Credit'
  BY <1>1, <1>2 DEF CheckInv, Credit, PastCarrier, PastTable, PastServers, PastEcho
<1> QED BY <1>2, <1>3, <1>4, <1>5, <1>6 DEF CheckInv

(* What an item that is added does to the report.                          *)
LEMMA AddItem ==
  ASSUME NEW name, NEW grade, Check!Item(name, grade)
  PROVE  /\ items \subseteq items' /\ <<name, grade>> \in items'
         /\ grade = "warning" => Warned'
         /\ grade # "warning" => (Warned' <=> Warned)
         /\ Warned => Warned'
<1>1. items' = items \union {<<name, grade>>}
  BY DEF Check!Item
<1>2. <<name, grade>>[2] = grade
  OBVIOUS
<1>3. Warned' <=> Warned \/ grade = "warning"
  BY <1>1, <1>2 DEF Warned
<1> QED BY <1>1, <1>3

(* interface_state reads the operstate first ...                           *)
LEMMA CheckState == CheckInv /\ Check!ReadState => CheckInv'
<1> SUFFICES ASSUME CheckInv, Check!ReadState PROVE CheckInv'
  OBVIOUS
<1>1. /\ checkAt = "state" /\ checkAt' = "carrier" /\ state' = (link = "up")
      /\ UNCHANGED <<link, resolved, linkSeen, gateSeen, active, route, items, reached>>
      /\ UNCHANGED Check!ping
  BY DEF Check!ReadState, Check!world
<1>2. Gated' = Gated /\ Warned' = Warned
  BY <1>1 DEF Gated, Warned
<1>3. MeasuredOK'
  BY <1>1, MeasuredStutter DEF CheckInv
<1>4. SeenOK'
  <2>1. (state' => link = "up") /\ (~state' => link # "up")
    BY <1>1
  <2> QED BY <1>1, <2>1 DEF CheckInv, SeenOK, Check!Reading
<1>5. CourseOK'
  BY <1>1, <1>2 DEF CheckInv, CourseOK
<1>6. Warned' => Blame'
  BY <1>1, <1>2 DEF CheckInv, Blame, PastEcho
<1>7. ~Warned' => Credit'
  BY <1>1, <1>2 DEF CheckInv, Credit, PastCarrier, PastTable, PastServers, PastEcho
<1> QED BY <1>3, <1>4, <1>5, <1>6, <1>7 DEF CheckInv

(* ... and then the carrier.                                               *)
LEMMA CheckCarrier == CheckInv /\ Check!ReadCarrier => CheckInv'
<1> SUFFICES ASSUME CheckInv, Check!ReadCarrier PROVE CheckInv'
  OBVIOUS
<1>1. /\ checkAt = "carrier" /\ checkAt' = "poke"
      /\ UNCHANGED <<link, resolved, linkSeen, gateSeen, active, route, state, reached>>
      /\ UNCHANGED Check!ping
  BY DEF Check!ReadCarrier, Check!world
<1>2. PICK grade \in {"ok", "warning"} :
        /\ Check!Item("interface", grade)
        /\ grade = "ok" <=> Check!UpWithCarrier
  BY DEF Check!ReadCarrier
<1>3. /\ items \subseteq items' /\ Gated' = Gated
      /\ grade = "warning" => Warned'
      /\ grade = "ok" => (Warned' <=> Warned)
  BY <1>1, <1>2, AddItem DEF Gated
<1>4. MeasuredOK'
  BY <1>1, MeasuredStutter DEF CheckInv
<1>5. SeenOK'
  BY <1>1 DEF CheckInv, SeenOK, Check!Reading
<1>6. CourseOK'
  BY <1>1 DEF CheckInv, CourseOK, PastCarrier
<1>7. IF grade = "ok" THEN "up" \in linkSeen ELSE \E l \in linkSeen : l # "up"
  BY <1>1, <1>2 DEF CheckInv, SeenOK, Check!UpWithCarrier, Check!Reading
<1>8. Warned' => Blame'
  BY <1>1, <1>2, <1>3, <1>7 DEF CheckInv, Blame, PastEcho
<1>9. ~Warned' => Credit'
  BY <1>1, <1>2, <1>3, <1>7 DEF CheckInv, Credit, PastCarrier, PastTable, PastServers, PastEcho
<1> QED BY <1>4, <1>5, <1>6, <1>8, <1>9 DEF CheckInv

(* A step that reads nothing but moves on: to the table, or to the end.    *)
LEMMA CheckPoke == CheckInv /\ Check!Poke => CheckInv'
<1> SUFFICES ASSUME CheckInv, Check!Poke PROVE CheckInv'
  OBVIOUS
<1>1. /\ checkAt = "poke" /\ checkAt' = "table"
      /\ UNCHANGED <<link, resolved, linkSeen, gateSeen, active, route, state, items, reached>>
      /\ UNCHANGED Check!ping
  BY DEF Check!Poke, Check!Leave, Check!world
<1>2. Gated' = Gated /\ Warned' = Warned
  BY <1>1 DEF Gated, Warned
<1>3. MeasuredOK'
  BY <1>1, MeasuredStutter DEF CheckInv
<1>4. SeenOK'
  BY <1>1 DEF CheckInv, SeenOK, Check!Reading
<1>5. CourseOK'
  BY <1>1 DEF CheckInv, CourseOK, PastCarrier
<1>6. Warned' => Blame'
  BY <1>1, <1>2 DEF CheckInv, Blame, PastEcho
<1>7. ~Warned' => Credit'
  BY <1>1, <1>2 DEF CheckInv, Credit, PastCarrier, PastTable, PastServers, PastEcho
<1> QED BY <1>3, <1>4, <1>5, <1>6, <1>7 DEF CheckInv

LEMMA CheckFail == CheckInv /\ Check!Fail => CheckInv'
<1> SUFFICES ASSUME CheckInv, Check!Fail PROVE CheckInv'
  OBVIOUS
<1>1. /\ checkAt \in {"idle", "table", "poke"} /\ checkAt' = "error"
      /\ UNCHANGED <<link, resolved, linkSeen, gateSeen, active, route, state, items, reached>>
      /\ UNCHANGED Check!ping
  BY DEF Check!Fail, Check!Leave, Check!world
<1>2. Gated' = Gated /\ Warned' = Warned
  BY <1>1 DEF Gated, Warned
<1>3. MeasuredOK'
  BY <1>1, MeasuredStutter DEF CheckInv
<1>4. SeenOK'
  BY <1>1 DEF CheckInv, SeenOK, Check!Reading
<1>5. CourseOK'
  BY <1>1 DEF CheckInv, CourseOK
<1>6. Warned' => Blame'
  BY <1>1, <1>2 DEF CheckInv, Blame, PastEcho
<1>7. ~Warned' => Credit'
  BY <1>1, <1>2 DEF CheckInv, Credit, PastCarrier, PastTable, PastServers, PastEcho
<1> QED BY <1>3, <1>4, <1>5, <1>6, <1>7 DEF CheckInv

(* The neighbor table as it is when it is read.                            *)
LEMMA CheckTable == CheckInv /\ Check!ReadTable => CheckInv'
<1> SUFFICES ASSUME CheckInv, Check!ReadTable PROVE CheckInv'
  OBVIOUS
<1>1. /\ checkAt = "table" /\ checkAt' = "resolv"
      /\ UNCHANGED <<link, resolved, linkSeen, gateSeen, active, route, state, reached>>
      /\ UNCHANGED Check!ping
  BY DEF Check!ReadTable, Check!world
<1>2. PICK grade \in {"ok", "warning", "not-applicable"} :
        /\ Check!Item("gateway-neighbor", grade)
        /\ grade = "ok" => resolved # {}
        /\ grade = "warning" => Gated /\ resolved = {}
        /\ grade = "not-applicable" => ~Gated
  BY DEF Check!ReadTable, Check!Neighbor, Gated
<1>3. /\ items \subseteq items' /\ Gated' = Gated
      /\ grade = "warning" => Warned'
      /\ grade # "warning" => (Warned' <=> Warned)
  BY <1>1, <1>2, AddItem DEF Gated
<1>4. MeasuredOK'
  BY <1>1, MeasuredStutter DEF CheckInv
<1>5. SeenOK'
  BY <1>1 DEF CheckInv, SeenOK, Check!Reading
<1>6. CourseOK'
  BY <1>1 DEF CheckInv, CourseOK, PastCarrier, PastTable
<1>7. /\ resolved # {} => TRUE \in gateSeen
      /\ resolved = {} => FALSE \in gateSeen
  BY <1>1 DEF CheckInv, SeenOK, Check!Reading
<1>8. Warned' => Blame'
  BY <1>1, <1>2, <1>3, <1>7 DEF CheckInv, Blame, PastEcho
<1>9. ~Warned' => Credit'
  BY <1>1, <1>2, <1>3, <1>7 DEF CheckInv, Credit, PastCarrier, PastTable, PastServers, PastEcho
<1> QED BY <1>4, <1>5, <1>6, <1>8, <1>9 DEF CheckInv

(* resolv.conf, and the way from there: to the verdict, to the measurement *)
(* of a gateway or straight to the nameservers.                            *)
LEMMA CheckServers == CheckInv /\ Check!ReadServers => CheckInv'
<1> SUFFICES ASSUME CheckInv, Check!ReadServers PROVE CheckInv'
  OBVIOUS
<1>1. /\ checkAt = "resolv"
      /\ UNCHANGED <<link, resolved, linkSeen, gateSeen, active, route, state, reached>>
      /\ UNCHANGED Check!ping
  BY DEF Check!ReadServers, Check!world
<1>2. PICK grade \in {"ok", "warning"} : Check!Item("dns", grade)
  BY DEF Check!ReadServers
<1>3. /\ items \subseteq items' /\ <<"dns", grade>> \in items' /\ Gated' = Gated
      /\ grade = "warning" => Warned'
      /\ grade # "warning" => (Warned' <=> Warned)
  BY <1>1, <1>2, AddItem DEF Gated
<1>t. \/ ~active /\ checkAt' = "verdict"
      \/ active /\ Gated /\ checkAt' = "echo"
      \/ active /\ ~Gated /\ checkAt' = "servers"
  BY DEF Check!ReadServers, Gated
<1>4. MeasuredOK'
  BY <1>1, MeasuredStutter DEF CheckInv
<1>5. SeenOK'
  BY <1>1, <1>t DEF CheckInv, SeenOK, Check!Reading
<1>6. CourseOK'
  BY <1>1, <1>3, <1>t DEF CheckInv, CourseOK, PastCarrier, PastTable, PastServers, PastEcho
<1>8. Warned' => Blame'
  BY <1>1, <1>2, <1>3, <1>t DEF CheckInv, Blame, PastEcho
<1>9. ~Warned' => Credit'
  BY <1>1, <1>2, <1>3, <1>t DEF CheckInv, Credit, PastCarrier, PastTable, PastServers, PastEcho
<1> QED BY <1>4, <1>5, <1>6, <1>8, <1>9 DEF CheckInv

(* The measurement moves, and nothing is said of it before it is done.     *)
LEMMA CheckMeasure == CheckInv /\ Check!Measure => CheckInv'
<1> SUFFICES ASSUME CheckInv, Check!Measure PROVE CheckInv'
  OBVIOUS
<1>1. /\ checkAt = "echo" /\ checkAt' = "echo"
      /\ UNCHANGED <<link, resolved, linkSeen, gateSeen, active, route, state, items, reached>>
  BY DEF Check!Measure, Check!world
<1>2. Gated' = Gated /\ Warned' = Warned
  BY <1>1 DEF Gated, Warned
<1>3. MeasuredOK'
  BY MeasuredNext DEF CheckInv, Check!Measure
<1>4. SeenOK'
  BY <1>1 DEF CheckInv, SeenOK, Check!Reading
<1>5. CourseOK'
  BY <1>1, <1>2 DEF CheckInv, CourseOK, PastCarrier, PastTable, PastServers
<1>6. Warned' => Blame'
  BY <1>1, <1>2 DEF CheckInv, Blame, PastEcho
<1>7. ~Warned' => Credit'
  BY <1>1, <1>2 DEF CheckInv, Credit, PastCarrier, PastTable, PastServers, PastEcho
<1> QED BY <1>3, <1>4, <1>5, <1>6, <1>7 DEF CheckInv

(* A reply that was counted came in time; and if none was counted, the     *)
(* first request, at least, had no reply in time that could be read.       *)
LEMMA Measurements ==
  ASSUME MeasuredOK
  PROVE  /\ echoes # {} => prompt # {}
         /\ outcome = "ok" /\ echoes = {} => Unanswered
<1>1. /\ \A m \in echoes : m[1] = m[2] /\ m[1] \in prompt
      /\ unread = {} /\ 0 \in prompt => (round > 0 => 0 \in {m[1] : m \in echoes})
      /\ outcome = "ok" => round = 3
  BY DEF MeasuredOK, Measurement!IInv, Measurement!FirstOK, Measurement!Counted,
         Measurement!MeasuresOwnReply
<1> QED BY <1>1 DEF Unanswered

LEMMA CheckMeasured == CheckInv /\ Check!Measured => CheckInv'
<1> SUFFICES ASSUME CheckInv, Check!Measured PROVE CheckInv'
  OBVIOUS
<1>1. /\ checkAt = "echo" /\ checkAt' = "servers"
      /\ UNCHANGED <<link, resolved, linkSeen, gateSeen, active, route, state, reached>>
      /\ UNCHANGED Check!ping
      /\ UNCHANGED <<outcome, prompt, unread, echoes>>
  BY DEF Check!Measured, Check!world, Check!ping
<1>2. PICK grade \in {"ok", "warning", "skipped"} :
        /\ Check!Item("gateway-icmp", grade)
        /\ grade = "ok" => echoes # {}
        /\ grade = "warning" => outcome = "error" \/ (outcome = "ok" /\ echoes = {})
  BY DEF Check!Measured, Check!SomeReply
<1>3. /\ items \subseteq items' /\ <<"gateway-icmp", grade>> \in items' /\ Gated' = Gated
      /\ grade = "warning" => Warned'
      /\ grade # "warning" => (Warned' <=> Warned)
  BY <1>1, <1>2, AddItem DEF Gated
<1>4. MeasuredOK'
  BY <1>1, MeasuredStutter DEF CheckInv
<1>5. SeenOK'
  BY <1>1 DEF CheckInv, SeenOK, Check!Reading
<1>6. CourseOK'
  BY <1>1 DEF CheckInv, CourseOK, PastCarrier, PastTable, PastServers, PastEcho
<1>7. /\ grade = "ok" => prompt # {}
      /\ grade = "warning" => active /\ Gated /\ Unanswered
  BY <1>1, <1>2, Measurements DEF CheckInv, CourseOK, Unanswered
<1>8. Warned' => Blame'
  BY <1>1, <1>2, <1>3, <1>7 DEF CheckInv, Blame, PastEcho, Unanswered
<1>9. ~Warned' => Credit'
  BY <1>1, <1>2, <1>3, <1>7 DEF CheckInv, Credit, PastCarrier, PastTable, PastServers, PastEcho
<1> QED BY <1>4, <1>5, <1>6, <1>8, <1>9 DEF CheckInv

(* A nameserver is tried: a warning is about one that is out of reach.     *)
LEMMA CheckTry == CheckInv /\ Check!Try => CheckInv'
<1> SUFFICES ASSUME CheckInv, Check!Try PROVE CheckInv'
  OBVIOUS
<1>1. /\ checkAt = "servers" /\ checkAt' = "servers"
      /\ UNCHANGED <<link, resolved, linkSeen, gateSeen, active, route, state>>
      /\ UNCHANGED Check!ping
      /\ UNCHANGED <<outcome, prompt, unread>>
  BY DEF Check!Try, Check!world, Check!ping
<1>2. \/ Check!Item("dns-route", "skipped") /\ reached' = reached
      \/ \E how \in {"none", "open", "refusing", "silent"} :
           /\ items' = items \union {Check!Trials[how]}
                         \union (IF how = "none" THEN {} ELSE {<<"dns-route", "ok">>})
           /\ reached' = reached \union {how}
  BY DEF Check!Try, Check!Trials
<1>3. /\ items \subseteq items' /\ Gated' = Gated /\ reached \subseteq reached'
      /\ reached' \subseteq {"none", "open", "refusing", "silent"}
      /\ Warned => Warned'
      /\ ~Warned /\ Warned' => \E how \in reached' : how \in {"none", "silent"}
      /\ ~Warned' => \A how \in reached' \ reached : how \in {"open", "refusing"}
  <2>1. CASE Check!Item("dns-route", "skipped") /\ reached' = reached
    <3>0. PICK grade \in {"skipped"} : Check!Item("dns-route", grade)
      BY <2>1
    <3>1. items \subseteq items' /\ (Warned' <=> Warned)
      BY <3>0, AddItem
    <3> QED BY <1>1, <2>1, <3>1 DEF CheckInv, CourseOK, Gated
  <2>2. ASSUME NEW how \in {"none", "open", "refusing", "silent"},
               items' = items \union {Check!Trials[how]}
                          \union (IF how = "none" THEN {} ELSE {<<"dns-route", "ok">>}),
               reached' = reached \union {how}
        PROVE  <1>3!:
    <3>1. Check!Trials[how][2] = "warning" <=> how \in {"none", "silent"}
      BY <2>2 DEF Check!Trials
    <3>2. <<"dns-route", "ok">>[2] # "warning"
      OBVIOUS
    <3>3. Warned' <=> Warned \/ how \in {"none", "silent"}
      <4>1. \A item \in items' : item \in items \/ item = Check!Trials[how]
                                   \/ item = <<"dns-route", "ok">>
        BY <2>2
      <4>2. items \subseteq items' /\ Check!Trials[how] \in items'
        BY <2>2
      <4> QED BY <3>1, <3>2, <4>1, <4>2 DEF Warned
    <3> QED BY <1>1, <2>2, <3>3 DEF CheckInv, CourseOK, Gated
  <2> QED BY <1>2, <2>1, <2>2
<1>4. MeasuredOK'
  BY <1>1, MeasuredStutter DEF CheckInv
<1>5. SeenOK'
  BY <1>1 DEF CheckInv, SeenOK, Check!Reading
<1>6. CourseOK'
  BY <1>1, <1>3 DEF CheckInv, CourseOK, PastCarrier, PastTable, PastServers, PastEcho
<1>8. Warned' => Blame'
  BY <1>1, <1>3 DEF CheckInv, Blame, PastEcho, Unanswered
<1>9. ~Warned' => Credit'
  BY <1>1, <1>3 DEF CheckInv, Credit, PastCarrier, PastTable, PastServers, PastEcho
<1> QED BY <1>4, <1>5, <1>6, <1>8, <1>9 DEF CheckInv

LEMMA CheckVerdict == CheckInv /\ Check!Verdict => CheckInv'
<1> SUFFICES ASSUME CheckInv, Check!Verdict PROVE CheckInv'
  OBVIOUS
<1>1. /\ checkAt \in {"verdict", "servers"}
      /\ UNCHANGED <<link, resolved, linkSeen, gateSeen, active, route, state, items, reached>>
      /\ UNCHANGED Check!ping
      /\ UNCHANGED <<outcome, prompt, unread>>
  BY DEF Check!Verdict, Check!Leave, Check!world, Check!ping
<1>2. Gated' = Gated /\ Warned' = Warned
  BY <1>1 DEF Gated, Warned
<1>t. checkAt' = IF Warned THEN "unhealthy" ELSE "healthy"
  <2>1. Check!Warnings = {} <=> ~Warned
    BY DEF Check!Warnings, Warned
  <2> QED BY <2>1 DEF Check!Verdict, Check!Leave
<1>3. MeasuredOK'
  BY <1>1, MeasuredStutter DEF CheckInv
<1>4. SeenOK'
  BY <1>1, <1>t DEF CheckInv, SeenOK, Check!Reading
<1>5. CourseOK'
  BY <1>1, <1>2, <1>t DEF CheckInv, CourseOK, PastCarrier, PastTable, PastServers, PastEcho
<1>p. PastEcho /\ PastServers /\ PastTable /\ PastCarrier
  BY <1>1 DEF PastCarrier, PastTable, PastServers, PastEcho
<1>6. Warned' => Blame'
  BY <1>1, <1>2, <1>p, <1>t DEF CheckInv, Blame, PastEcho, Unanswered
<1>7. ~Warned' => Credit'
  BY <1>1, <1>2, <1>p DEF CheckInv, Credit
<1> QED BY <1>3, <1>4, <1>5, <1>6, <1>7 DEF CheckInv

LEMMA CheckNext == CheckInv /\ Check!Next => CheckInv'
  BY CheckFlap, CheckBegin, CheckState, CheckCarrier, CheckPoke, CheckFail, CheckTable,
     CheckServers, CheckMeasure, CheckMeasured, CheckTry, CheckVerdict, Zenon
     DEF Check!Next, Check!Command

(* While another component moves.                                          *)
LEMMA CheckStutter == CheckInv /\ UNCHANGED checkVars => CheckInv'
<1> SUFFICES ASSUME CheckInv, UNCHANGED checkVars PROVE CheckInv'
  OBVIOUS
<1>1. /\ UNCHANGED <<link, resolved, linkSeen, gateSeen, checkAt, active, route, state, items,
                     reached, outcome, prompt, unread>>
      /\ UNCHANGED Check!ping
  BY DEF checkVars, Check!ping
<1>2. Gated' = Gated /\ Warned' = Warned
  BY <1>1 DEF Gated, Warned
<1>3. MeasuredOK'
  BY <1>1, MeasuredStutter DEF CheckInv
<1>4. SeenOK'
  BY <1>1, Zenon DEF CheckInv, SeenOK, Check!Reading
<1>5. CourseOK'
  BY <1>1, <1>2, Zenon DEF CheckInv, CourseOK, PastCarrier, PastTable, PastServers, PastEcho
<1>6. Warned' => Blame'
  BY <1>1, <1>2, Zenon DEF CheckInv, Blame, PastEcho, Unanswered
<1>7. ~Warned' => Credit'
  BY <1>1, <1>2, Zenon DEF CheckInv, Credit, PastCarrier, PastTable, PastServers, PastEcho
<1> QED BY <1>3, <1>4, <1>5, <1>6, <1>7 DEF CheckInv

LEMMA CheckFollow ==
  CheckInv => /\ Check!TypeOK /\ Check!VerdictJustified
              /\ checkAt = "healthy" => ~Warned
              /\ checkAt = "unhealthy" => Warned
<1> SUFFICES ASSUME CheckInv
             PROVE  /\ Check!TypeOK /\ Check!VerdictJustified
                    /\ checkAt = "healthy" => ~Warned
                    /\ checkAt = "unhealthy" => Warned
  OBVIOUS
<1>1. Check!P!TypeOK
  BY SamePing DEF CheckInv, MeasuredOK, Measurement!IInv
<1>2. Check!TypeOK
  <2>1. reached \subseteq DOMAIN Check!Trials
    BY DEF CheckInv, CourseOK, Check!Trials
  <2> QED BY <1>1, <2>1 DEF CheckInv, SeenOK, CourseOK, Check!TypeOK,
               PastCarrier, PastTable, PastServers, PastEcho
<1>3. (checkAt = "healthy" => ~Warned) /\ (checkAt = "unhealthy" => Warned)
  BY DEF CheckInv, CourseOK
<1>4. ASSUME checkAt = "healthy"
      PROVE  /\ "up" \in linkSeen
             /\ Gated => TRUE \in gateSeen
             /\ Check!Listed("dns", "ok")
             /\ reached \subseteq {"open", "refusing"}
             /\ active /\ Gated => prompt # {} \/ Check!Listed("gateway-icmp", "skipped")
  BY <1>3, <1>4 DEF CheckInv, Credit, PastCarrier, PastTable, PastServers, PastEcho,
                    Check!Listed
<1>5. ASSUME checkAt = "unhealthy"
      PROVE  \/ linkSeen # {"up"}
             \/ Gated /\ FALSE \in gateSeen
             \/ Check!Listed("dns", "warning")
             \/ reached \intersect {"none", "silent"} # {}
             \/ active /\ Gated /\ (outcome = "error" \/ 0 \notin prompt \/ unread # {})
  BY <1>3, <1>5 DEF CheckInv, Blame, Check!Listed, Unanswered
<1>6. Check!VerdictJustified
  BY <1>4, <1>5, Zenon DEF Check!VerdictJustified, Gated
<1> QED BY <1>2, <1>3, <1>6
=============================================================================
