----------------------------- MODULE Selections -----------------------------
(***************************************************************************)
(* The filter of an array.  SelectSeq is the same, but it is defined by a  *)
(* recursion over the sequence, of which nothing can be proved; here the   *)
(* result is given place by place.                                         *)
(***************************************************************************)
EXTENDS Integers, Sequences, FiniteSets

(* The k-th of the places P *)
PlaceOf(P, k) == CHOOSE i \in P : Cardinality({j \in P : j <= i}) = k

(* The entries of s at the places P, in their order *)
EntriesAt(s, P) == [k \in 1..Cardinality(P) |-> s[PlaceOf(P, k)]]
=============================================================================
