-------------------------- MODULE MCVertexSetBuffers --------------------------
(* Model-checking instances of VertexSetBuffers. *)
EXTENDS VertexSetBuffers

VertexInduced == {"subtract"}
EdgeInduced == {"bounded", "remove"}

\* Vertex-induced plans, and the outer two loops of edge-induced ones.
SafeChains ==
  [loop \in 0..MaxDepth |-> IF loop <= 1 THEN VertexInduced \union EdgeInduced
                                         ELSE VertexInduced]
EdgeChains == [loop \in 0..MaxDepth |-> EdgeInduced]
=============================================================================
