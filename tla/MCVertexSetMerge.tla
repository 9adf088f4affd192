--------------------------- MODULE MCVertexSetMerge ---------------------------
(* Model-checking instance of VertexSetMerge: every pair of ascending arrays  *)
(* over the vertex ids 0..MaxId.                                              *)
EXTENDS VertexSetMerge, FiniteSets

CONSTANTS MaxId, INVALID_ID

\* The ascending array of the elements of S.
ArrayOf(S) ==
  [i \in 1..Cardinality(S) |->
     CHOOSE x \in S : Cardinality({y \in S : y < x}) = i - 1]

MCArrays == {ArrayOf(S) : S \in SUBSET (0..MaxId)}
MCVids == {0, MaxId, INVALID_ID}
MCUppers == 0..MaxId
=============================================================================
