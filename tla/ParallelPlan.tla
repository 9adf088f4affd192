----------------------------- MODULE ParallelPlan -----------------------------
(***************************************************************************)
(* The OpenMP body every generated plan has (gen_code_omp in               *)
(* src/src/codegen/codegen.cpp) and the Context it counts into             *)
(* (src/src/backend/backend.h).  Worker threads claim the iterations of    *)
(* the outermost loop one at a time and add what they find to counters of  *)
(* their own; plan() returns behind the barrier that ends the region.      *)
(*                                                                         *)
(* What an iteration finds is abstracted to the sequence of values its     *)
(* innermost statements add to the counter: set sizes, or, for plans with  *)
(* inclusion-exclusion (gen_code_iep), signed products of set sizes.       *)
(***************************************************************************)
EXTENDS Integers, Sequences, Functions

CONSTANTS
  NumThreads,  (* ctx.num_threads                                          *)
  VNum,        (* graph->get_vnum(), the iterations of loop-0              *)
  Increments,  (* per iteration, what it adds to the counter, in order     *)
  Skipped,     (* the iterations left through "continue" on an empty set   *)
  Redundancy   (* plan.iep_redundancy, 0 without inclusion-exclusion       *)

Workers == 0..(NumThreads - 1)
Iterations == 0..(VNum - 1)

ASSUME PlanAssumption ==
  /\ NumThreads \in Nat \ {0} /\ VNum \in Nat /\ Redundancy \in Nat
  /\ Increments \in [Iterations -> Seq(Int)]
  /\ Skipped \subseteq Iterations

VARIABLES
  planPc,      (* "none", "called", "region", "returned"; "ended" once the *)
               (* thread that called plan() has gone on                    *)
  next_i0,     (* the next iteration "schedule(dynamic, 1)" hands out      *)
  wpc,         (* per worker: where it is                                  *)
  i0_id,       (* per worker: the iteration it runs                        *)
  added,       (* per worker: how many of its increments are added         *)
  per_thread_result, per_thread_handled, per_thread_timed,
  iep_redundency

workerVars == <<next_i0, wpc, i0_id, added>>
ctxVars == <<per_thread_result, per_thread_handled, per_thread_timed, iep_redundency>>
planVars == <<planPc, workerVars, ctxVars>>

At(w, here) == planPc = "region" /\ wpc[w] = here
GoTo(w, there) == wpc' = [wpc EXCEPT ![w] = there]

(***************************************************************************)
(* Actions.                                                                *)
(***************************************************************************)
PlanInit ==
  /\ planPc = "none" /\ next_i0 = 0
  /\ wpc = [w \in Workers |-> "enter"]
  /\ i0_id = [w \in Workers |-> 0]
  /\ added = [w \in Workers |-> 0]
  /\ per_thread_result = [w \in Workers |-> 0]
  /\ per_thread_handled = [w \in Workers |-> 0]
  /\ per_thread_timed = [w \in Workers |-> FALSE]
  /\ iep_redundency = 1

\* The plan thread opens the parallel region.
Fork ==
  /\ planPc = "called" /\ planPc' = "region"
  /\ UNCHANGED <<workerVars, ctxVars>>

\* Every worker writes the shared redundancy on entry.
Enter(w) ==
  /\ At(w, "enter") /\ GoTo(w, "claim")
  /\ iep_redundency' = Redundancy
  /\ UNCHANGED <<planPc, next_i0, i0_id, added,
                 per_thread_result, per_thread_handled, per_thread_timed>>

\* Faulty variant: the iteration handed out stays available.
ClaimAgain(w) ==
  /\ At(w, "claim") /\ next_i0 < VNum
  /\ GoTo(w, "match")
  /\ i0_id' = [i0_id EXCEPT ![w] = next_i0]
  /\ added' = [added EXCEPT ![w] = 0]
  /\ \/ next_i0' = next_i0 + 1
     \/ next_i0' = next_i0 /\ \A v \in Workers : wpc[v] # "match"
  /\ UNCHANGED <<planPc, ctxVars>>

\* Faulty variant: the loop runs one iteration too many.
ClaimPastEnd(w) ==
  /\ At(w, "claim") /\ next_i0 <= VNum
  /\ GoTo(w, "match")
  /\ i0_id' = [i0_id EXCEPT ![w] = next_i0]
  /\ added' = [added EXCEPT ![w] = 0]
  /\ next_i0' = next_i0 + 1
  /\ UNCHANGED <<planPc, ctxVars>>

\* The scheduler hands out the next iteration.
Claim(w) ==
  /\ At(w, "claim") /\ next_i0 < VNum
  /\ GoTo(w, "match")
  /\ i0_id' = [i0_id EXCEPT ![w] = next_i0]
  /\ added' = [added EXCEPT ![w] = 0]
  /\ next_i0' = next_i0 + 1
  /\ UNCHANGED <<planPc, ctxVars>>

\* counter += ...;
Add(w) ==
  LET incs == Increments[i0_id[w]]
  IN /\ At(w, "match") /\ added[w] < Len(incs)
     /\ added' = [added EXCEPT ![w] = @ + 1]
     /\ per_thread_result' = [per_thread_result EXCEPT ![w] = @ + incs[added[w] + 1]]
     /\ UNCHANGED <<planPc, next_i0, wpc, i0_id,
                    per_thread_handled, per_thread_timed, iep_redundency>>

\* handled += 1, unless the iteration was left through "continue".
EndIteration(w) ==
  /\ At(w, "match") /\ added[w] = Len(Increments[i0_id[w]])
  /\ GoTo(w, "claim")
  /\ per_thread_handled' =
       [per_thread_handled EXCEPT ![w] = IF i0_id[w] \in Skipped THEN @ ELSE @ + 1]
  /\ UNCHANGED <<planPc, next_i0, i0_id, added,
                 per_thread_result, per_thread_timed, iep_redundency>>

\* No iteration is left: with "nowait" the worker records its time at once.
RecordTime(w) ==
  /\ At(w, "claim") /\ next_i0 >= VNum
  /\ GoTo(w, "barrier")
  /\ per_thread_timed' = [per_thread_timed EXCEPT ![w] = TRUE]
  /\ UNCHANGED <<planPc, next_i0, i0_id, added,
                 per_thread_result, per_thread_handled, iep_redundency>>

\* Faulty variant: the region has no barrier at its end.
JoinEarly ==
  /\ planPc = "region" /\ \E w \in Workers : wpc[w] = "barrier"
  /\ planPc' = "returned"
  /\ UNCHANGED <<workerVars, ctxVars>>

\* The implicit barrier at the end of the region: plan() returns.
Join ==
  /\ planPc = "region" /\ \A w \in Workers : wpc[w] = "barrier"
  /\ planPc' = "returned"
  /\ UNCHANGED <<workerVars, ctxVars>>

WorkerStep(w) ==
  Enter(w) \/ Claim(w) \/ Add(w) \/ EndIteration(w) \/ RecordTime(w)

PlanNext == Fork \/ Join \/ \E w \in Workers : WorkerStep(w)

-----------------------------------------------------------------------------
(***************************************************************************)
(* What the plan is to count.                                              *)
(***************************************************************************)
SumSeq(s) == FoldFunction(+, 0, s)
SumCounters == FoldFunction(+, 0, per_thread_result)

RawTotal == FoldFunction(+, 0, [i \in Iterations |-> SumSeq(Increments[i])])

\* get_result() divides by the redundancy; C++ division truncates toward zero.
Divided(sum, redundancy) ==
  LET d == IF redundancy > 1 THEN redundancy ELSE 1
  IN IF sum >= 0 THEN sum \div d ELSE -((-sum) \div d)

\* The number of embeddings of the pattern.
Total == Divided(RawTotal, Redundancy)

Claimed == 0..(next_i0 - 1)
Active == {w \in Workers : wpc[w] = "match"}

PlanTypeOK ==
  /\ planPc \in {"none", "called", "region", "returned", "ended"}
  /\ next_i0 \in 0..VNum
  /\ wpc \in [Workers -> {"enter", "claim", "match", "barrier"}]
  /\ i0_id \in [Workers -> Iterations \union {0}]
  /\ added \in [Workers -> Nat]
  /\ per_thread_result \in [Workers -> Int]
  /\ per_thread_handled \in [Workers -> Nat]
  /\ per_thread_timed \in [Workers -> BOOLEAN]
  /\ iep_redundency \in {1, Redundancy}

\* However the workers interleave, the counters together hold exactly what the
\* claimed iterations have to add, less what the running ones have not added
\* yet: no iteration is counted twice or lost between two workers.
CountConserved ==
  LET sumOf(i, n) == SumSeq(SubSeq(Increments[i], 1, n))
      ran == FoldFunction(+, 0, [i \in Claimed |->
               IF \E w \in Active : i0_id[w] = i
               THEN sumOf(i, added[CHOOSE w \in Active : i0_id[w] = i])
               ELSE SumSeq(Increments[i])])
  IN SumCounters = ran

\* When plan() returns every counter is final: the result is the number of
\* embeddings, every unskipped iteration is accounted as handled and every
\* thread has recorded its time.
ReturnsTotal ==
  planPc \in {"returned", "ended"} =>
    /\ Divided(SumCounters, iep_redundency) = Total
    /\ FoldFunction(+, 0, per_thread_handled) =
         FoldFunction(+, 0, [i \in Iterations |-> IF i \in Skipped THEN 0 ELSE 1])
    /\ \A w \in Workers : per_thread_timed[w]

=============================================================================
