------------------------------- MODULE Listings --------------------------------
(***************************************************************************)
(* Sets of numbers as lists: what the servers do when they list codes,     *)
(* bars or trades in order, and what sort.Slice does to the merged bars of *)
(* the research source.  An element has the place of its rank.             *)
(***************************************************************************)
EXTENDS Naturals, FiniteSets, Sequences

\* The elements before k.
Rank(k, S) == Cardinality({j \in S : j < k})

\* The elements of a finite set, the smallest first.
Sorted(S) == [i \in 1 .. Cardinality(S) |-> CHOOSE k \in S : Rank(k, S) = i - 1]
=============================================================================
