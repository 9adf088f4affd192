-------------------------- MODULE MCVertexSetSearch --------------------------
(* Model-checking instance of VertexSetSearch: every ascending array over the  *)
(* vertex ids 0..MaxId, with arrays on both sides of LinearLimit.              *)
EXTENDS VertexSetSearch, FiniteSets

CONSTANT MaxId

\* The ascending array of the elements of S.
ArrayOf(S) ==
  [i \in 1..Cardinality(S) |->
     CHOOSE x \in S : Cardinality({y \in S : y < x}) = i - 1]

MCArrays == {ArrayOf(S) : S \in SUBSET (0..MaxId)}
MCKeys == 0..(MaxId + 1)
=============================================================================
