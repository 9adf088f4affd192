---------------------------- MODULE VertexSetMerge ----------------------------
(***************************************************************************)
(* The merge loops of VertexSet (src/src/backend/vertex_set.h): intersect, *)
(* intersect_cnt, subtract, subtract_cnt and indices, each one bounded by  *)
(* an exclusive upper vertex id or not.                                    *)
(*                                                                         *)
(* A vertex set is a strictly ascending array of vertex ids and the id of  *)
(* the vertex whose neighbourhood it is (vid, INVALID_ID for a computed    *)
(* set).  The loops are one state machine, a loop iteration per step.  The *)
(* counting variants run the same loop and return the length of "out".     *)
(* The result of a call can be the left operand of the next one, which is  *)
(* how a generated plan chains the operations.                             *)
(***************************************************************************)
EXTENDS VertexSetArrays

CONSTANTS
  Vids,       (* the values of VertexSet::m_vid, INVALID_ID among them     *)
  Uppers,     (* the exclusive bounds of the bounded variants              *)
  NoUpper     (* stands for the overload without a bound                   *)

ASSUME UppersAssumption == Uppers \subseteq Nat /\ NoUpper \notin Nat

Ops == {"intersect", "subtract", "indices"}

VARIABLES
  left,     (* this->m_data, of length this->size()                        *)
  right,    (* other.m_data                                                *)
  vid,      (* other.m_vid                                                 *)
  upper,
  idx_r     (* the cursor in other.m_data                                  *)

\* pc is "merge" in the two-cursor loop, "tail" in the second loop of subtract.

vars == <<op, left, right, vid, upper, idx_l, idx_r, out, pc>>
args == <<op, left, right, vid, upper>>

(***************************************************************************)
(* What the loops look at.                                                 *)
(***************************************************************************)
InBoth == idx_l < Len(left) /\ idx_r < Len(right)

L == left[idx_l + 1]
R == right[idx_r + 1]

AtUpper(x) == upper # NoUpper /\ x >= upper

\* Faulty variant: the subtracted vertex itself stays in the difference.
SurvivesAll(x) == TRUE

\* subtract also drops the vertex whose neighbourhood it subtracts.
Survives(x) == x # vid

\* Does the iteration keep the left element, and what does keeping the element
\* at position p append: the vertex, or its index for indices.
KeepsMerge(l, r) == IF op = "subtract" THEN l < r /\ Survives(l) ELSE l = r
Emitted(p) == IF op = "indices" THEN p - 1 ELSE left[p]
Emit(keep) == out' = IF keep THEN Append(out, Emitted(idx_l + 1)) ELSE out

(***************************************************************************)
(* Actions.                                                                *)
(***************************************************************************)
\* The plan's next operation on the set it holds, with another set as "other".
Call ==
  /\ pc = "idle"
  /\ op' \in Ops /\ right' \in Arrays /\ vid' \in Vids
  /\ upper' \in Uppers \union {NoUpper}
  /\ op' = "indices" => upper' = NoUpper
  /\ pc' = "merge"
  /\ UNCHANGED <<left, idx_l, idx_r, out>>

\* Faulty variant: the cursors survive from the last operation.
ProceedStale ==
  /\ pc = "done"
  /\ \/ op # "indices" /\ left' = out
     \/ left' \in Arrays
  /\ out' = << >> /\ pc' = "idle"
  /\ UNCHANGED <<op, right, vid, upper, idx_l, idx_r>>

\* The plan goes on with the set just computed (indices returns positions, not
\* a vertex set) or with any other vertex set.
Proceed ==
  /\ pc = "done"
  /\ \/ op # "indices" /\ left' = out
     \/ left' \in Arrays
  /\ idx_l' = 0 /\ idx_r' = 0 /\ out' = << >>
  /\ pc' = "idle"
  /\ UNCHANGED <<op, right, vid, upper>>

\* Faulty variant: on equal elements neither cursor moves.
MergeStepStuck ==
  /\ pc = "merge" /\ InBoth
  /\ ~AtUpper(L) /\ ~AtUpper(R)
  /\ idx_l' = IF L < R THEN idx_l + 1 ELSE idx_l
  /\ idx_r' = IF R < L THEN idx_r + 1 ELSE idx_r
  /\ Emit(KeepsMerge(L, R))
  /\ UNCHANGED <<args, pc>>

MergeStep ==
  /\ pc = "merge" /\ InBoth
  /\ ~AtUpper(L) /\ ~AtUpper(R)
  /\ idx_l' = IF L <= R THEN idx_l + 1 ELSE idx_l
  /\ idx_r' = IF R <= L THEN idx_r + 1 ELSE idx_r
  /\ Emit(KeepsMerge(L, R))
  /\ UNCHANGED <<args, pc>>

\* Faulty variant: the second loop of subtract starts over.
LeaveMergeRestart ==
  /\ pc = "merge"
  /\ InBoth => AtUpper(L) \/ AtUpper(R)
  /\ pc' = IF op = "subtract" THEN "tail" ELSE "done"
  /\ idx_l' = 0
  /\ UNCHANGED <<args, idx_r, out>>

\* Faulty variant: reaching the bound on the right does not break the loop.
LeaveMergeLeftOnly ==
  /\ pc = "merge"
  /\ InBoth => AtUpper(L)
  /\ pc' = IF op = "subtract" THEN "tail" ELSE "done"
  /\ UNCHANGED <<args, idx_l, idx_r, out>>

\* The loop condition fails, or the bounded variant breaks.
LeaveMerge ==
  /\ pc = "merge"
  /\ InBoth => AtUpper(L) \/ AtUpper(R)
  /\ pc' = IF op = "subtract" THEN "tail" ELSE "done"
  /\ UNCHANGED <<args, idx_l, idx_r, out>>

\* The cursor moves before the bound is tested, as in the code.
TailStep ==
  /\ pc = "tail" /\ idx_l < Len(left)
  /\ idx_l' = idx_l + 1
  /\ IF AtUpper(L)
     THEN pc' = "done" /\ UNCHANGED out
     ELSE Emit(Survives(L)) /\ UNCHANGED pc
  /\ UNCHANGED <<args, idx_r>>

LeaveTail ==
  /\ pc = "tail" /\ idx_l >= Len(left)
  /\ pc' = "done"
  /\ UNCHANGED <<args, idx_l, idx_r, out>>

Init ==
  /\ left \in Arrays /\ pc = "idle"
  /\ op = "intersect" /\ right = << >> /\ vid \in Vids /\ upper = NoUpper
  /\ idx_l = 0 /\ idx_r = 0 /\ out = << >>

Next == Call \/ Proceed \/ MergeStep \/ LeaveMerge \/ TailStep \/ LeaveTail

\* A call runs on one thread without waiting: once entered it keeps running.
Spec ==
  /\ Init /\ [][Next]_vars
  /\ WF_vars(MergeStep \/ LeaveMerge \/ TailStep \/ LeaveTail)

-----------------------------------------------------------------------------
(***************************************************************************)
(* Properties.                                                             *)
(***************************************************************************)
\* The variables keep their types, the cursors stay within the arrays.
TypeOK ==
  /\ op \in Ops
  /\ left \in Seq(Nat) /\ Ascending(left)
  /\ right \in Seq(Nat) /\ Ascending(right)
  /\ vid \in Vids
  /\ upper \in Uppers \union {NoUpper}
  /\ idx_l \in 0..Len(left) /\ idx_r \in 0..Len(right)
  /\ out \in Seq(Nat)
  /\ pc \in {"idle", "merge", "tail", "done"}

\* What the operations promise, as sets.
Kept(x) ==
  /\ op \in {"intersect", "indices"} => x \in Elems(right)
  /\ op = "subtract" => x \notin Elems(right) /\ x # vid
Promised ==
  {Emitted(p) : p \in {q \in DOMAIN left : Kept(left[q]) /\ ~AtUpper(left[q])}}

\* A returned set is exactly the intersection (or the difference without the
\* subtracted vertex, or the positions of the common elements) below the bound,
\* although each bounded loop may break on either operand's cursor and subtract
\* then carries on with a second loop.  A missed or an extra vertex changes
\* the number of embeddings every enclosing loop counts.
ReturnsPromised == pc = "done" => Elems(out) = Promised

\* The result is strictly ascending again, the precondition of every later merge
\* and binary search over it.
ReturnsAscending == Ascending(out)

\* A loop never writes more elements than the left operand has, the size its
\* buffer is requested for: VertexSet(size()) and the rows of a mini graph.
WithinCapacity == Len(out) <= Len(left)

\* Every call returns.
Returns == pc = "merge" ~> pc = "done"

=============================================================================
