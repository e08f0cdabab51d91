------------------------------ MODULE Subsequences ------------------------------
(***************************************************************************)
(* What filters and sorts leave of a list, for the lists of packets that   *)
(* the server and the page keep.  The places of a list are its positions;  *)
(* an order of places is the set of the pairs of which the first comes     *)
(* before the second.                                                      *)
(***************************************************************************)
EXTENDS Naturals, Sequences, FiniteSets

\* How many of the places I come before place i.
Rank(I, R, i) == Cardinality({j \in I : <<j, i>> \in R})

\* The elements of s at the places I, in the order R.
Arranged(s, I, R) ==
  [n \in 1 .. Cardinality(I) |-> s[CHOOSE i \in I : Rank(I, R, i) = n - 1]]

\* The order of the list itself.
InPlace(s) == {e \in (1 .. Len(s)) \X (1 .. Len(s)) : e[1] < e[2]}

\* The elements of s that are in S, in the order of s.
Only(s, S) == Arranged(s, {i \in 1 .. Len(s) : s[i] \in S}, InPlace(s))
==============================================================================
