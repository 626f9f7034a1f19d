---------------------------- MODULE Subsequences ----------------------------
(***************************************************************************)
(* What is left of a sequence when some of its elements are filtered out.  *)
(* SelectSeq of the Sequences module is recursive; here the elements that  *)
(* stay are given by their positions.                                      *)
(***************************************************************************)
EXTENDS Naturals, Sequences, FiniteSets

(* The place that position i has among the positions in I.                 *)
Rank(I, i) == Cardinality({j \in I : j <= i})

(* The elements of s at the positions in I, in their order.                *)
Pick(s, I) ==
    [n \in 1..Cardinality(I) |-> s[CHOOSE i \in I : Rank(I, i) = n]]

=============================================================================
