------------------------------ MODULE Selections ------------------------------
(***************************************************************************)
(* Iterator::filter over a Vec, by places: what it keeps, in its order.    *)
(* SelectSeq says the same; this form can be reasoned about.               *)
(***************************************************************************)
EXTENDS Naturals, Sequences, FiniteSets

(* Where the k-th smallest of some places is.                              *)
PlaceOf(I, k) == CHOOSE i \in I : Cardinality({j \in I : j <= i}) = k

(* The elements of s at the places in I, in the order of s.                *)
Selected(s, I) == [k \in 1..Cardinality(I) |-> s[PlaceOf(I, k)]]
=============================================================================
