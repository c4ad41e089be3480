------------------------------ MODULE Selection ------------------------------
(***************************************************************************)
(* The part of a sequence that a loop over it keeps.                       *)
(***************************************************************************)
EXTENDS Naturals, Sequences, FiniteSets

Rank(at, p) == Cardinality({q \in at : q <= p})

(* The elements of s at the positions in the set `at`, in their order.     *)
Pick(s, at) ==
  [k \in 1 .. Cardinality(at) |-> s[CHOOSE p \in at : Rank(at, p) = k]]
=============================================================================
