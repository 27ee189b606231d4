------------------------------- MODULE Ordering -------------------------------
(***************************************************************************)
(* A finite set of numbers in order, and the part of a sequence at a set   *)
(* of positions: what a loop that keeps some elements of a list leaves.    *)
(*                                                                         *)
(* The same can be said with SelectSeq and SetToSortSeq.  Here the element *)
(* at each place is chosen by its rank, so that proofs need no induction.  *)
(***************************************************************************)
EXTENDS Integers, FiniteSets

\* The numbers of S, smallest first.
Ascending(S) ==
    [i \in 1 .. Cardinality(S) |-> CHOOSE n \in S : Cardinality({m \in S : m <= n}) = i]

\* The numbers of S, largest first.
Descending(S) ==
    LET up == Ascending(S)
    IN  [i \in 1 .. Cardinality(S) |-> up[Cardinality(S) + 1 - i]]

\* The elements of s at the positions P, in the order of s.
Subsequence(s, P) ==
    LET place == Ascending(P)
    IN  [i \in 1 .. Cardinality(P) |-> s[place[i]]]
=============================================================================
