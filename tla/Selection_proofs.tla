--------------------------- MODULE Selection_proofs ---------------------------
(***************************************************************************)
(* What Pick keeps: exactly the elements at the positions it is given, in  *)
(* their order. And facts about orders and sequences that the proofs of    *)
(* several components share.                                               *)
(***************************************************************************)
EXTENDS Selection, FiniteSetTheorems, WellFoundedInduction, TLAPS

(* A set of numbers has a least one.                                       *)
LEMMA LeastNat ==
  ASSUME NEW S \in SUBSET Nat, S # {}
  PROVE  \E m \in S : \A j \in S : m <= j
<1>1. IsWellFoundedOn(OpToRel(<, Nat), Nat)
  BY NatLessThanWellFounded
<1>2. PICK m \in S : \A j \in S : ~(<<j, m>> \in OpToRel(<, Nat))
  <2>R. PICK R : R = OpToRel(<, Nat)
    OBVIOUS
  <2>1. IsWellFoundedOn(R, Nat)
    BY <1>1, <2>R
  <2>2. \E m \in S : \A j \in S : ~(<<j, m>> \in R)
    BY <2>1, WFMin
  <2> QED BY <2>2, <2>R
<1>3. \A j \in S : ~(j < m)
  BY <1>2 DEF OpToRel
<1> QED BY <1>3

(* Induction over the natural numbers, for a set instead of a predicate.   *)
LEMMA NatSetInduction ==
  ASSUME NEW S, 0 \in S, \A n \in Nat : n \in S => n + 1 \in S
  PROVE  Nat \subseteq S
<1> SUFFICES ASSUME Nat \ S # {} PROVE FALSE
  OBVIOUS
<1>1. PICK x \in Nat \ S : \A y \in Nat \ S : x <= y
  BY LeastNat
<1>2. x - 1 \in Nat /\ ~(x <= x - 1) /\ (x - 1) + 1 = x
  OBVIOUS
<1>3. x - 1 \in S
  BY <1>1, <1>2
<1> QED BY <1>2, <1>3

(* A set of positions is finite.                                           *)
LEMMA PositionsFinite ==
  ASSUME NEW n \in Nat, NEW at \in SUBSET (1 .. n)
  PROVE  IsFiniteSet(at) /\ Cardinality(at) \in Nat
<1>1. IsFiniteSet(1 .. n)
  BY FS_Interval
<1> QED BY <1>1, FS_Subset, FS_CardinalityType

(* Every rank up to the number of positions is the rank of one of them.    *)
LEMMA RankExists ==
  ASSUME NEW n \in Nat, NEW at \in SUBSET (1 .. n),
         NEW k \in 1 .. Cardinality(at)
  PROVE  \E p \in at : Rank(at, p) = k
<1> DEFINE S == {m \in Nat : \A a \in SUBSET (1 .. m) :
                   \A i \in 1 .. Cardinality(a) :
                     \E p \in a : Cardinality({q \in a : q <= p}) = i}
<1>1. 0 \in S
  <2>1. \A a \in SUBSET (1 .. 0) : a = {}
    OBVIOUS
  <2>2. Cardinality({}) = 0
    BY FS_EmptySet
  <2> QED BY <2>1, <2>2
<1>2. ASSUME NEW m \in Nat, m \in S
      PROVE  m + 1 \in S
  <2> SUFFICES ASSUME NEW a \in SUBSET (1 .. m + 1),
                      NEW i \in 1 .. Cardinality(a)
               PROVE  \E p \in a : Cardinality({q \in a : q <= p}) = i
    OBVIOUS
  <2>1. CASE m + 1 \notin a
    <3>1. a \in SUBSET (1 .. m)
      BY <2>1
    <3> QED BY <1>2, <3>1
  <2>2. CASE m + 1 \in a
    <3> DEFINE b == a \ {m + 1}
    <3>1. b \in SUBSET (1 .. m)
      OBVIOUS
    <3>2. IsFiniteSet(a)
      <4>1. m + 1 \in Nat
        OBVIOUS
      <4> QED BY <4>1, PositionsFinite
    <3>3. Cardinality(a) \in Nat /\ Cardinality(b) = Cardinality(a) - 1
      BY <2>2, <3>2, FS_RemoveElement, FS_CardinalityType
    <3>4. CASE i = Cardinality(a)
      <4>1. \A q \in a : q <= m + 1
        OBVIOUS
      <4>2. {q \in a : q <= m + 1} = a
        BY <4>1
      <4> QED BY <2>2, <3>4, <4>2
    <3>5. CASE i # Cardinality(a)
      <4>1. i \in 1 .. Cardinality(b)
        BY <3>3, <3>5
      <4> HIDE DEF b
      <4>2. PICK p \in b : Cardinality({q \in b : q <= p}) = i
        BY <1>2, <3>1, <4>1
      <4>3. {q \in a : q <= p} = {q \in b : q <= p} /\ p \in a
        BY <3>1 DEF b
      <4> QED BY <4>2, <4>3
    <3> QED BY <3>4, <3>5
  <2> QED BY <2>1, <2>2
<1> HIDE DEF S
<1>3. n \in S
  BY <1>1, <1>2, NatSetInduction
<1> QED BY <1>3 DEF S, Rank

(* Different positions have different ranks, from 1 on.                    *)
LEMMA RankInjective ==
  ASSUME NEW n \in Nat, NEW at \in SUBSET (1 .. n), NEW p \in at
  PROVE  /\ Rank(at, p) \in 1 .. Cardinality(at)
         /\ \A o \in at : Rank(at, o) = Rank(at, p) => o = p
<1> DEFINE upto(x) == {q \in at : q <= x}
<1>1. \A x \in at : /\ upto(x) \in SUBSET at
                    /\ IsFiniteSet(upto(x)) /\ Cardinality(upto(x)) \in Nat
                    /\ Cardinality(upto(x)) <= Cardinality(at)
  <2>1. IsFiniteSet(at)
    BY PositionsFinite
  <2> QED BY <2>1, FS_Subset, FS_CardinalityType
<1>2. Cardinality(upto(p)) # 0
  <2>1. p \in upto(p)
    OBVIOUS
  <2>2. upto(p) # {}
    BY <2>1
  <2> HIDE DEF upto
  <2> QED BY <2>2, <1>1, FS_EmptySet
<1>3. ASSUME NEW x \in at, NEW y \in at, x < y
      PROVE  Cardinality(upto(x)) # Cardinality(upto(y))
  <2>0. at \subseteq Nat
    OBVIOUS
  <2>1. upto(x) \in SUBSET upto(y) /\ y \in upto(y) /\ y \notin upto(x)
    <3>1. \A q \in at : q <= x => q <= y
      BY <1>3, <2>0
    <3>2. y <= y /\ ~(y <= x)
      BY <1>3, <2>0
    <3> QED BY <3>1, <3>2
  <2> HIDE DEF upto
  <2>2. upto(x) # upto(y)
    BY <2>1
  <2> QED BY <2>1, <2>2, <1>1, FS_Subset
<1>4. \A o \in at : o = p \/ o < p \/ p < o
  OBVIOUS
<1>5. Cardinality(at) \in Nat
  BY PositionsFinite
<1>6. \A x : Rank(at, x) = Cardinality(upto(x))
  BY DEF Rank
<1> HIDE DEF upto
<1> QED BY <1>1, <1>2, <1>3, <1>4, <1>5, <1>6

(* Every element that Pick returns is at one of the positions, and every   *)
(* position's element is returned.                                         *)
LEMMA PickElements ==
  ASSUME NEW T, NEW s \in Seq(T), NEW at \in SUBSET DOMAIN s
  PROVE  /\ Pick(s, at) \in Seq(T)
         /\ DOMAIN Pick(s, at) = 1 .. Len(Pick(s, at))
         /\ Len(Pick(s, at)) = Cardinality(at) /\ Cardinality(at) \in Nat
         /\ \A k \in DOMAIN Pick(s, at) : \E p \in at : Pick(s, at)[k] = s[p]
         /\ \A p \in at : \E k \in DOMAIN Pick(s, at) : Pick(s, at)[k] = s[p]
<1>1. Len(s) \in Nat /\ at \in SUBSET (1 .. Len(s))
  OBVIOUS
<1>2. Cardinality(at) \in Nat
  BY <1>1, PositionsFinite
<1> DEFINE c == Cardinality(at)
           position(k) == CHOOSE p \in at : Rank(at, p) = k
<1>3. \A k \in 1 .. c : position(k) \in at /\ Rank(at, position(k)) = k
  BY <1>1, RankExists
<1>4. \A p \in at : Rank(at, p) \in 1 .. c /\ position(Rank(at, p)) = p
  <2>1. ASSUME NEW p \in at
        PROVE  Rank(at, p) \in 1 .. c /\ position(Rank(at, p)) = p
    <3>1. /\ Rank(at, p) \in 1 .. c
          /\ \A o \in at : Rank(at, o) = Rank(at, p) => o = p
      BY <1>1, RankInjective
    <3> HIDE DEF position
    <3> QED BY <1>3, <3>1
  <2> QED BY <2>1
<1>5. Pick(s, at) = [k \in 1 .. c |-> s[position(k)]]
  BY DEF Pick
<1> HIDE DEF c, position
<1>6. c \in Nat
  BY <1>2 DEF c
<1>7. \A k \in 1 .. c : s[position(k)] \in T
  BY <1>3
<1>8. Pick(s, at) \in Seq(T) /\ Len(Pick(s, at)) = c /\ DOMAIN Pick(s, at) = 1 .. c
  BY <1>5, <1>6, <1>7
<1>9. \A k \in 1 .. c : Pick(s, at)[k] = s[position(k)]
  BY <1>5
<1> QED BY <1>2, <1>3, <1>4, <1>8, <1>9 DEF c

(* Each element is picked from a position of its own.                      *)
LEMMA PickPositions ==
  ASSUME NEW T, NEW s \in Seq(T), NEW at \in SUBSET DOMAIN s
  PROVE  \E f \in [DOMAIN Pick(s, at) -> at] :
           /\ \A k \in DOMAIN Pick(s, at) : Pick(s, at)[k] = s[f[k]]
           /\ \A k, l \in DOMAIN Pick(s, at) : f[k] = f[l] => k = l
<1>1. Len(s) \in Nat /\ at \in SUBSET (1 .. Len(s))
  OBVIOUS
<1> DEFINE c == Cardinality(at)
           position(k) == CHOOSE p \in at : Rank(at, p) = k
           f == [k \in 1 .. c |-> position(k)]
<1>2. \A k \in 1 .. c : position(k) \in at /\ Rank(at, position(k)) = k
  BY <1>1, RankExists
<1>3. Pick(s, at) = [k \in 1 .. c |-> s[position(k)]]
  BY DEF Pick
<1> HIDE DEF c, position
<1>4. f \in [1 .. c -> at] /\ \A k \in 1 .. c : f[k] = position(k)
  BY <1>2
<1>5. DOMAIN Pick(s, at) = 1 .. c /\ \A k \in 1 .. c : Pick(s, at)[k] = s[position(k)]
  BY <1>3
<1> HIDE DEF f
<1>6. \A k, l \in 1 .. c : f[k] = f[l] => k = l
  BY <1>2, <1>4
<1>7. \A k \in 1 .. c : Pick(s, at)[k] = s[f[k]]
  BY <1>4, <1>5
<1>8. f \in [DOMAIN Pick(s, at) -> at]
  BY <1>4, <1>5
<1> WITNESS f \in [DOMAIN Pick(s, at) -> at]
<1> QED BY <1>5, <1>6, <1>7

(* The elements at the first positions, in order, if these are chosen.     *)
LEMMA PickPrefix ==
  ASSUME NEW T, NEW s \in Seq(T), NEW n \in Nat, n <= Len(s)
  PROVE  /\ Len(Pick(s, 1 .. n)) = n
         /\ \A k \in 1 .. n : Pick(s, 1 .. n)[k] = s[k]
<1>1. \A m \in Nat : Cardinality(1 .. m) = m
  <2>1. \A m \in Nat : Cardinality(1 .. m) = IF 1 > m THEN 0 ELSE m - 1 + 1
    BY FS_Interval
  <2> QED BY <2>1
<1>2. \A k \in 1 .. n : Rank(1 .. n, k) = k
  <2> SUFFICES ASSUME NEW k \in 1 .. n PROVE Rank(1 .. n, k) = k
    OBVIOUS
  <2>1. {q \in 1 .. n : q <= k} = 1 .. k
    OBVIOUS
  <2>2. k \in Nat
    OBVIOUS
  <2> QED BY <1>1, <2>1, <2>2 DEF Rank
<1>3. \A k \in 1 .. n : (CHOOSE p \in 1 .. n : Rank(1 .. n, p) = k) = k
  BY <1>2
<1>4. Pick(s, 1 .. n) = [k \in 1 .. n |-> s[k]]
  <2>1. Pick(s, 1 .. n) = [k \in 1 .. n |-> s[CHOOSE p \in 1 .. n : Rank(1 .. n, p) = k]]
    BY <1>1 DEF Pick
  <2> QED BY <2>1, <1>3
<1> QED BY <1>4

(* Nothing, if nothing is chosen.                                          *)
LEMMA PickNothing ==
  ASSUME NEW s
  PROVE  Pick(s, {}) = <<>>
<1>1. Cardinality({}) = 0
  BY FS_EmptySet
<1> QED BY <1>1 DEF Pick

(* The place of i in the order R on D.                                     *)
PlaceIn(D, R, i) == Cardinality({j \in D : <<j, i>> \in R})

(* The places of a finite set in a total order R: each place up to the     *)
(* number of elements is taken by one of them, and later elements have     *)
(* later places.                                                           *)
LEMMA OrderPlaces ==
  ASSUME NEW D, IsFiniteSet(D), NEW R,
         \A i, j \in D : <<i, j>> \in R \/ <<j, i>> \in R,
         \A i, j \in D : <<i, j>> \in R /\ <<j, i>> \in R => i = j,
         \A i, j, k \in D : <<i, j>> \in R /\ <<j, k>> \in R => <<i, k>> \in R
  PROVE  /\ Cardinality(D) \in Nat
         /\ \A i \in D : PlaceIn(D, R, i) \in 1 .. Cardinality(D)
         /\ \A i, j \in D : <<i, j>> \in R /\ i # j => PlaceIn(D, R, i) < PlaceIn(D, R, j)
         /\ \A n \in 1 .. Cardinality(D) : \E i \in D : PlaceIn(D, R, i) = n
<1> DEFINE upto(i) == {j \in D : <<j, i>> \in R}
           place == [i \in D |-> Cardinality(upto(i))]
<1>1. \A i \in D : /\ upto(i) \in SUBSET D /\ i \in upto(i)
                   /\ IsFiniteSet(upto(i)) /\ Cardinality(upto(i)) \in Nat
                   /\ Cardinality(upto(i)) <= Cardinality(D)
  BY FS_Subset, FS_CardinalityType
<1>2. Cardinality(D) \in Nat
  BY FS_CardinalityType
<1>3. ASSUME NEW i \in D, NEW j \in D, <<i, j>> \in R, i # j
      PROVE  Cardinality(upto(i)) < Cardinality(upto(j))
  <2>1. upto(i) \in SUBSET upto(j) /\ j \in upto(j) /\ j \notin upto(i)
    BY <1>3
  <2>2. upto(i) # upto(j)
    BY <2>1
  <2>3. /\ Cardinality(upto(i)) <= Cardinality(upto(j))
        /\ Cardinality(upto(i)) # Cardinality(upto(j))
    <3> HIDE DEF upto
    <3> QED BY <1>1, <2>1, <2>2, FS_Subset
  <2>4. Cardinality(upto(i)) \in Nat /\ Cardinality(upto(j)) \in Nat
    BY <1>1
  <2> HIDE DEF upto
  <2> QED BY <2>3, <2>4
<1>4. \A i \in D : Cardinality(upto(i)) \in 1 .. Cardinality(D)
  <2> SUFFICES ASSUME NEW i \in D PROVE Cardinality(upto(i)) \in 1 .. Cardinality(D)
    OBVIOUS
  <2>1. upto(i) # {} /\ IsFiniteSet(upto(i))
    BY <1>1
  <2> HIDE DEF upto
  <2>2. Cardinality(upto(i)) # 0
    BY <2>1, FS_EmptySet
  <2> QED BY <1>1, <1>2, <2>2
<1> HIDE DEF upto
<1>5. \A i \in D : place[i] = Cardinality(upto(i))
  OBVIOUS
<1>6. ASSUME NEW n \in 1 .. Cardinality(D), \A i \in D : place[i] # n
      PROVE  FALSE
  <2> DEFINE T == (1 .. Cardinality(D)) \ {n}
  <2>1. place \in [D -> T]
    BY <1>4, <1>5, <1>6
  <2>2. IsFiniteSet(1 .. Cardinality(D)) /\ Cardinality(1 .. Cardinality(D)) = Cardinality(D)
    <3>c. PICK c \in Nat : c = Cardinality(D)
      BY <1>2
    <3>1. IsFiniteSet(1 .. c) /\ Cardinality(1 .. c) = IF 1 > c THEN 0 ELSE c - 1 + 1
      BY FS_Interval
    <3>2. Cardinality(1 .. c) = c
      BY <3>1
    <3> QED BY <3>1, <3>2, <3>c, Zenon
  <2>3. IsFiniteSet(T) /\ Cardinality(T) = Cardinality(D) - 1
    <3>U. PICK U : U = 1 .. Cardinality(D)
      OBVIOUS
    <3>1. IsFiniteSet(U) /\ n \in U /\ Cardinality(U) = Cardinality(D)
      BY <1>6, <2>2, <3>U, Zenon
    <3>2. IsFiniteSet(U \ {n}) /\ Cardinality(U \ {n}) = Cardinality(U) - 1
      BY <3>1, FS_RemoveElement
    <3> QED BY <3>1, <3>2, <3>U, Zenon
  <2> HIDE DEF T, place
  <2>4. PICK x, y \in D : x # y /\ place[x] = place[y]
    BY <1>2, <2>1, <2>3, FS_PigeonHole
  <2>5. \/ Cardinality(upto(x)) < Cardinality(upto(y))
        \/ Cardinality(upto(y)) < Cardinality(upto(x))
    BY <1>3, <2>4, Zenon
  <2>6. Cardinality(upto(x)) = Cardinality(upto(y)) /\ Cardinality(upto(x)) \in Nat
    BY <1>1, <1>5, <2>4
  <2> QED BY <2>5, <2>6
<1> HIDE DEF place
<1>7. \A n \in 1 .. Cardinality(D) : \E i \in D : Cardinality(upto(i)) = n
  BY <1>5, <1>6
<1>8. \A i, j \in D : <<i, j>> \in R /\ i # j => Cardinality(upto(i)) < Cardinality(upto(j))
  BY <1>3
<1> QED BY <1>2, <1>4, <1>7, <1>8, Zenon DEF upto, PlaceIn
-----------------------------------------------------------------------------
(* The elements of a sequence with one more at its end.                    *)
LEMMA AppendFacts ==
  ASSUME NEW T, NEW s \in Seq(T), NEW e \in T, NEW t, t = Append(s, e)
  PROVE  /\ t \in Seq(T) /\ t # <<>> /\ Len(s) \in Nat
         /\ Len(t) = Len(s) + 1
         /\ Len(s) + 1 \in DOMAIN t /\ t[Len(s) + 1] = e
         /\ \A k \in DOMAIN s : k \in DOMAIN t /\ t[k] = s[k]
         /\ \A k \in DOMAIN t : k = Len(s) + 1 \/ k \in DOMAIN s
<1>1. /\ t \in Seq(T) /\ Len(s) \in Nat /\ Len(t) = Len(s) + 1
      /\ t[Len(s) + 1] = e /\ DOMAIN s = 1 .. Len(s) /\ DOMAIN t = 1 .. Len(t)
  OBVIOUS
<1>2. \A k \in 1 .. Len(s) : t[k] = s[k]
  OBVIOUS
<1>3. t # <<>>
  BY <1>1
<1> QED BY <1>1, <1>2, <1>3

(* The elements of a sequence without its first.                           *)
LEMMA TailFacts ==
  ASSUME NEW T, NEW s \in Seq(T), s # <<>>, NEW t, t = Tail(s)
  PROVE  /\ t \in Seq(T) /\ Len(s) \in Nat /\ Len(s) >= 1 /\ Len(t) = Len(s) - 1
         /\ \A k \in DOMAIN t : k + 1 \in DOMAIN s /\ t[k] = s[k + 1]
         /\ \A k \in DOMAIN s : k = 1 \/ (k - 1 \in DOMAIN t /\ t[k - 1] = s[k])
<1>1. /\ t \in Seq(T) /\ Len(s) \in Nat /\ Len(s) >= 1 /\ Len(t) = Len(s) - 1
      /\ DOMAIN s = 1 .. Len(s) /\ DOMAIN t = 1 .. Len(t)
  OBVIOUS
<1>2. \A k \in 1 .. Len(t) : t[k] = s[k + 1]
  OBVIOUS
<1>3. \A k \in DOMAIN t : k + 1 \in DOMAIN s /\ t[k] = s[k + 1]
  BY <1>1, <1>2
<1>4. ASSUME NEW k \in DOMAIN s, k # 1
      PROVE  k - 1 \in DOMAIN t /\ t[k - 1] = s[k]
  <2>1. k - 1 \in 1 .. Len(t) /\ (k - 1) + 1 = k
    BY <1>1, <1>4
  <2> QED BY <1>1, <1>2, <2>1
<1> QED BY <1>1, <1>3, <1>4

Joins(t, s, e) == t = s \o e

(* The elements of two sequences joined.                                   *)
LEMMA ConcatFacts ==
  ASSUME NEW T, NEW s \in Seq(T), NEW e \in Seq(T), NEW t, Joins(t, s, e)
  PROVE  /\ t \in Seq(T) /\ Len(s) \in Nat /\ Len(e) \in Nat
         /\ Len(t) = Len(s) + Len(e)
         /\ \A j \in DOMAIN s : j \in DOMAIN t /\ t[j] = s[j]
         /\ \A j \in DOMAIN e : Len(s) + j \in DOMAIN t /\ t[Len(s) + j] = e[j]
         /\ \A j \in DOMAIN t :
              j \in DOMAIN s \/ \E i \in DOMAIN e : j = Len(s) + i /\ t[j] = e[i]
<1>1. /\ t \in Seq(T) /\ Len(s) \in Nat /\ Len(e) \in Nat
      /\ Len(t) = Len(s) + Len(e)
      /\ DOMAIN s = 1 .. Len(s) /\ DOMAIN e = 1 .. Len(e) /\ DOMAIN t = 1 .. Len(t)
  BY DEF Joins
<1>2. \A j \in 1 .. Len(s) : t[j] = s[j]
  BY DEF Joins
<1>3. \A j \in 1 .. Len(e) : t[Len(s) + j] = e[j]
  BY DEF Joins
<1>4. ASSUME NEW j \in DOMAIN t, j \notin DOMAIN s
      PROVE  \E i \in DOMAIN e : j = Len(s) + i /\ t[j] = e[i]
  <2> PICK i : i = j - Len(s)
    OBVIOUS
  <2>1. i \in 1 .. Len(e) /\ j = Len(s) + i
    BY <1>1, <1>4
  <2> QED BY <1>1, <1>3, <2>1
<1> QED BY <1>1, <1>2, <1>3, <1>4
=============================================================================
