---------------------------- MODULE VertexSetSearch ----------------------------
(***************************************************************************)
(* The position searches of VertexSet (src/src/backend/vertex_set.h):      *)
(* bounded and bounded_cnt cut a set off below a vertex id, remove and     *)
(* remove_cnt drop one vertex.  A set of more than LinearLimit elements is *)
(* searched by bisection, a smaller one by a scan; a search iteration is a *)
(* step.  The counting variants return the length of "out".                *)
(***************************************************************************)
EXTENDS VertexSetArrays

CONSTANTS
  Keys,         (* the vertex ids searched for                             *)
  LinearLimit   (* 64 in the code                                          *)

ASSUME SearchAssumption == Keys \subseteq Nat /\ LinearLimit \in Nat

VARIABLES
  data,     (* this->m_data, of length this->size()                        *)
  key,      (* the parameter, called upper in all four functions           *)
  count     (* the elements bisection has left                             *)

\* pc is "binary" or "linear" while the position is searched for, then "found".

searchVars == <<op, data, key, idx_l, count, out, pc>>
searchArgs == <<op, data, key>>

(***************************************************************************)
(* Actions.                                                                *)
(***************************************************************************)
SearchCall ==
  /\ pc = "idle"
  /\ op' \in {"bounded", "remove"} /\ key' \in Keys
  /\ IF Len(data) > LinearLimit
     THEN pc' = "binary" /\ count' = Len(data)
     ELSE pc' = "linear" /\ count' = 0
  /\ UNCHANGED <<data, idx_l, out>>

\* Faulty variant: the probed element stays among those left to search.
BinaryStepWide ==
  LET step == count \div 2
      it   == idx_l + step
  IN /\ pc = "binary" /\ count > 0
     /\ IF data[it + 1] < key
        THEN idx_l' = it + 1 /\ count' = count - step
        ELSE count' = step /\ UNCHANGED idx_l
     /\ UNCHANGED <<searchArgs, out, pc>>

\* Faulty variant: the left end does not move past the probed element.
BinaryStepStuck ==
  LET step == count \div 2
      it   == idx_l + step
  IN /\ pc = "binary" /\ count > 0
     /\ IF data[it + 1] < key
        THEN idx_l' = it /\ count' = count - step
        ELSE count' = step /\ UNCHANGED idx_l
     /\ UNCHANGED <<searchArgs, out, pc>>

BinaryStep ==
  LET step == count \div 2
      it   == idx_l + step
  IN /\ pc = "binary" /\ count > 0
     /\ IF data[it + 1] < key
        THEN idx_l' = it + 1 /\ count' = count - (step + 1)
        ELSE count' = step /\ UNCHANGED idx_l
     /\ UNCHANGED <<searchArgs, out, pc>>

\* Faulty variant: the scan passes the key itself.
LinearStepInclusive ==
  /\ pc = "linear"
  /\ idx_l < Len(data) /\ data[idx_l + 1] <= key
  /\ idx_l' = idx_l + 1
  /\ UNCHANGED <<searchArgs, count, out, pc>>

LinearStep ==
  /\ pc = "linear"
  /\ idx_l < Len(data) /\ data[idx_l + 1] < key
  /\ idx_l' = idx_l + 1
  /\ UNCHANGED <<searchArgs, count, out, pc>>

\* Either loop's condition fails.
SearchEnd ==
  /\ \/ pc = "binary" /\ count = 0
     \/ pc = "linear" /\ ~(idx_l < Len(data) /\ data[idx_l + 1] < key)
  /\ pc' = "found"
  /\ UNCHANGED <<searchArgs, idx_l, count, out>>

\* Faulty variant: the second copy loop starts at the removed element.
WithoutNone == SubSeq(data, 1, idx_l) \o SubSeq(data, idx_l + 1, Len(data))

\* remove copies around the position into a new buffer.
WithoutIdx == SubSeq(data, 1, idx_l) \o SubSeq(data, idx_l + 2, Len(data))

Finish ==
  /\ pc = "found"
  /\ out' = IF op = "bounded" THEN SubSeq(data, 1, idx_l)
            ELSE IF idx_l < Len(data) /\ data[idx_l + 1] = key THEN WithoutIdx
            ELSE data
  /\ pc' = "done"
  /\ UNCHANGED <<searchArgs, idx_l, count>>

\* The plan goes on with the result or with any other vertex set.
SearchProceed ==
  /\ pc = "done"
  /\ data' = out \/ data' \in Arrays
  /\ idx_l' = 0 /\ count' = 0 /\ out' = << >> /\ pc' = "idle"
  /\ UNCHANGED <<op, key>>

SearchInit ==
  /\ data \in Arrays /\ op = "bounded" /\ key \in Keys
  /\ idx_l = 0 /\ count = 0 /\ out = << >> /\ pc = "idle"

SearchNext == SearchCall \/ BinaryStep \/ LinearStep \/ SearchEnd \/ Finish \/ SearchProceed

\* A call runs on one thread without waiting: once entered it keeps running.
SearchSpec ==
  /\ SearchInit /\ [][SearchNext]_searchVars
  /\ WF_searchVars(BinaryStep \/ LinearStep \/ SearchEnd \/ Finish)

-----------------------------------------------------------------------------
(***************************************************************************)
(* Properties.                                                             *)
(***************************************************************************)
\* The variables keep their types; what bisection still has to look at lies
\* inside the array, so no probe reads outside it.
SearchTypeOK ==
  /\ op \in {"bounded", "remove"}
  /\ data \in Seq(Nat) /\ Ascending(data)
  /\ key \in Keys
  /\ idx_l \in Nat /\ count \in Nat /\ idx_l + count <= Len(data)
  /\ out \in Seq(Nat)
  /\ pc \in {"idle", "binary", "linear", "found", "done"}

\* Bisection and scan agree: the position found splits the array at the key,
\* whatever its length relative to the limit between the two.
FoundPosition ==
  pc = "found" =>
    \A i \in DOMAIN data : data[i] < key <=> i <= idx_l

\* bounded returns the elements below the key and remove all others, both as
\* an ascending array; a missing key leaves the set whole.
SearchReturnsPromised ==
  pc = "done" =>
    /\ Ascending(out)
    /\ Elems(out) = IF op = "bounded" THEN {x \in Elems(data) : x < key}
                                      ELSE Elems(data) \ {key}

\* Every call returns.
SearchReturns == pc \in {"binary", "linear"} ~> pc = "done"

=============================================================================
