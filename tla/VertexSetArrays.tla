-------------------------- MODULE VertexSetArrays ---------------------------
(***************************************************************************)
(* What the operations of VertexSet (src/src/backend/vertex_set.h) share:  *)
(* they read strictly ascending arrays of vertex ids, advance a cursor     *)
(* (idx_l) and write another such array.                                   *)
(***************************************************************************)
EXTENDS Integers, Sequences

CONSTANT
  Arrays    (* the vertex arrays the operations are called with            *)

Ascending(s) == \A i, j \in DOMAIN s : i < j => s[i] < s[j]

Elems(s) == {s[i] : i \in DOMAIN s}

ASSUME ArraysAssumption ==
  \A s \in Arrays : s \in Seq(Nat) /\ Ascending(s)

VARIABLES
  op,       (* the operation being executed                                *)
  idx_l,    (* its cursor in this->m_data                                  *)
  out,      (* what it has written                                         *)
  pc        (* where it is, "idle" before and "done" after a call          *)

=============================================================================
