---------------------------- MODULE Subsequences ----------------------------
(***************************************************************************)
(* The elements of a sequence at some of its positions, in their order:    *)
(* what is left of a list of rows when others are cancelled.  It is what   *)
(* SelectSeq selects, given by positions, which can be proved about.       *)
(***************************************************************************)
EXTENDS Integers, FiniteSets

(* The place of position i among the positions I, and the k-th of them.    *)
Rank(I, i)     == Cardinality({j \in I : j <= i})
Position(I, k) == CHOOSE i \in I : Rank(I, i) = k

Subsequence(q, I) == [k \in 1 .. Cardinality(I) |-> q[Position(I, k)]]
=============================================================================
