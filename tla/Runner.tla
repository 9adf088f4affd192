-------------------------------- MODULE Runner --------------------------------
(***************************************************************************)
(* The runner program (src/src/runner.cpp): main starts a detached thread  *)
(* that executes the generated plan, waits for it on a condition variable  *)
(* for at most 24 hours, and logs one row with the result.                 *)
(*                                                                         *)
(* The waiting is modelled as the C++ library defines it.  wait_for may    *)
(* return on a notification, on the deadline or spuriously, and reports a  *)
(* timeout if the deadline has passed by the time it returns.  A           *)
(* notification nobody waits for is lost.  The plan thread never takes the *)
(* mutex main waits with.  After a timeout the condition variable it       *)
(* notifies is gone; the lifetime of objects is left out, and such a       *)
(* notification has no effect here.                                        *)
(***************************************************************************)
EXTENDS ParallelPlan

CONSTANTS
  Spurious,    (* may wait_for wake up without being notified?             *)
  NoResult     (* a value that is not a number: nothing reported yet       *)

ASSUME RunnerAssumption == Spurious \in BOOLEAN /\ NoResult \notin Int

VARIABLES
  main,        (* where main() is                                          *)
  late,        (* has the deadline of wait_for passed?                     *)
  time_out,
  readNext, readSum,  (* get_result(): the next counter and the sum so far *)
  logged,      (* log.result                                               *)
  printed,     (* the RESULT line                                          *)
  rows,        (* the rows this run has appended to the log file           *)
  woken,       (* history: why wait_for returned                           *)
  answered     (* history: had plan() returned when the wait ended?        *)

mainVars == <<main, late, time_out, readNext, readSum, logged, printed, rows, woken,
              answered>>
vars == <<planVars, mainVars>>

Running == main # "exited"

(***************************************************************************)
(* main and plan_24hrs.                                                    *)
(***************************************************************************)
\* An experiment of the skip list is logged as unfinished without being run.
Skip ==
  /\ main = "begin" /\ main' = "exiting"
  /\ logged' = 0 /\ rows' = Append(rows, [finished |-> FALSE, result |-> 0])
  /\ UNCHANGED <<planVars, late, time_out, readNext, readSum, printed, woken, answered>>

\* plan_24hrs starts the thread and detaches it.
Spawn ==
  /\ main = "begin" /\ main' = "spawned" /\ planPc' = "called"
  /\ UNCHANGED <<workerVars, ctxVars, late, time_out, readNext, readSum, logged, printed,
                 rows, woken, answered>>

\* It locks its own mutex and starts waiting.
Wait ==
  /\ main = "spawned" /\ main' = "waiting"
  /\ UNCHANGED <<planVars, late, time_out, readNext, readSum, logged, printed, rows,
                 woken, answered>>

Deadline ==
  /\ main \in {"waiting", "waking"} /\ ~late
  /\ late' = TRUE
  /\ IF main = "waiting" THEN main' = "waking" /\ woken' = "deadline"
                         ELSE UNCHANGED <<main, woken>>
  /\ UNCHANGED <<planVars, time_out, readNext, readSum, logged, printed, rows, answered>>

SpuriousWakeup ==
  /\ Spurious /\ main = "waiting"
  /\ main' = "waking" /\ woken' = "spurious"
  /\ UNCHANGED <<planVars, late, time_out, readNext, readSum, logged, printed, rows,
                 answered>>

\* wait_for returns; on a timeout plan_24hrs throws and main catches.
EndWait ==
  /\ main = "waking" /\ main' = "read"
  /\ time_out' = late /\ answered' = (planPc \in {"returned", "ended"})
  /\ readNext' = 0 /\ readSum' = 0
  /\ UNCHANGED <<planVars, late, logged, printed, rows, woken>>

\* get_result() copies one counter after the other.
ReadCounter ==
  /\ main \in {"read", "reread"} /\ readNext < NumThreads
  /\ readSum' = readSum + per_thread_result[readNext]
  /\ readNext' = readNext + 1
  /\ UNCHANGED <<planVars, main, late, time_out, logged, printed, rows, woken, answered>>

\* Faulty variant: the second get_result() goes on from the sum of the first.
StoreResultNoReset ==
  /\ main = "read" /\ readNext = NumThreads
  /\ logged' = Divided(readSum, iep_redundency)
  /\ main' = "reread" /\ readNext' = 0
  /\ UNCHANGED <<planVars, late, time_out, readSum, printed, rows, woken, answered>>

\* Faulty variant: the branch for a timeout logs the result main started with.
StoreResultUnlessLate ==
  /\ main = "read" /\ readNext = NumThreads
  /\ logged' = IF time_out THEN 0 ELSE Divided(readSum, iep_redundency)
  /\ main' = "reread" /\ readNext' = 0 /\ readSum' = 0
  /\ UNCHANGED <<planVars, late, time_out, printed, rows, woken, answered>>

\* result = ctx.get_result(), stored in the log record.
StoreResult ==
  /\ main = "read" /\ readNext = NumThreads
  /\ logged' = Divided(readSum, iep_redundency)
  /\ main' = "reread" /\ readNext' = 0 /\ readSum' = 0
  /\ UNCHANGED <<planVars, late, time_out, printed, rows, woken, answered>>

\* The RESULT line calls ctx.get_result() again.
PrintResult ==
  /\ main = "reread" /\ readNext = NumThreads
  /\ printed' = Divided(readSum, iep_redundency)
  /\ main' = "save"
  /\ UNCHANGED <<planVars, late, time_out, readNext, readSum, logged, rows, woken, answered>>

\* Faulty variant: a run that timed out leaves no row.
SaveFinishedOnly ==
  /\ main = "save" /\ main' = "exiting"
  /\ rows' = IF time_out THEN rows
             ELSE Append(rows, [finished |-> TRUE, result |-> logged])
  /\ UNCHANGED <<planVars, late, time_out, readNext, readSum, logged, printed, woken,
                 answered>>

\* log.save()
Save ==
  /\ main = "save" /\ main' = "exiting"
  /\ rows' = Append(rows, [finished |-> ~time_out, result |-> logged])
  /\ UNCHANGED <<planVars, late, time_out, readNext, readSum, logged, printed, woken,
                 answered>>

\* The process ends and takes a plan that still runs with it.
Exit ==
  /\ main = "exiting" /\ main' = "exited"
  /\ UNCHANGED <<planVars, late, time_out, readNext, readSum, logged, printed, rows,
                 woken, answered>>

(***************************************************************************)
(* The plan thread.                                                        *)
(***************************************************************************)
\* Faulty variant: the thread notifies before it executes the plan.
NotifyFirst ==
  /\ Running /\ planPc \in {"called", "region", "returned"}
  /\ IF planPc = "returned" THEN planPc' = "ended" ELSE UNCHANGED planPc
  /\ IF main = "waiting" THEN main' = "waking" /\ woken' = "notified"
                         ELSE UNCHANGED <<main, woken>>
  /\ UNCHANGED <<workerVars, ctxVars, late, time_out, readNext, readSum, logged, printed,
                 rows, answered>>

\* cv.notify_one(): it wakes main if main is waiting and is lost otherwise.
Notify ==
  /\ Running /\ planPc = "returned" /\ planPc' = "ended"
  /\ IF main = "waiting" THEN main' = "waking" /\ woken' = "notified"
                         ELSE UNCHANGED <<main, woken>>
  /\ UNCHANGED <<workerVars, ctxVars, late, time_out, readNext, readSum, logged, printed,
                 rows, answered>>

\* The threads of the plan run until the process ends.
PlanStep == Running /\ PlanNext /\ UNCHANGED mainVars

Init ==
  /\ PlanInit
  /\ main = "begin" /\ late = FALSE /\ time_out = FALSE
  /\ readNext = 0 /\ readSum = 0
  /\ logged = NoResult /\ printed = NoResult /\ rows = << >>
  /\ woken = "no" /\ answered = FALSE

MainStep ==
  \/ Skip \/ Spawn \/ Wait \/ EndWait
  \/ ReadCounter \/ StoreResult \/ PrintResult \/ Save \/ Exit

Next == MainStep \/ Deadline \/ SpuriousWakeup \/ Notify \/ PlanStep

\* main keeps running when it can and the clock reaches the deadline.  Nothing
\* is assumed of the plan: it may need longer than a day.
Spec == Init /\ [][Next]_vars /\ WF_vars(MainStep) /\ WF_vars(Deadline)

-----------------------------------------------------------------------------
(***************************************************************************)
(* Properties.                                                             *)
(***************************************************************************)
\* The variables keep their types.
TypeOK ==
  /\ PlanTypeOK
  /\ main \in {"begin", "spawned", "waiting", "waking", "read", "reread", "save",
               "exiting", "exited"}
  /\ late \in BOOLEAN /\ time_out \in BOOLEAN /\ answered \in BOOLEAN
  /\ readNext \in 0..NumThreads /\ readSum \in Int
  /\ logged \in Int \union {NoResult} /\ printed \in Int \union {NoResult}
  /\ rows \in Seq([finished : BOOLEAN, result : Int])
  /\ woken \in {"no", "notified", "deadline", "spurious"}

\* A row logged as finished after a notification carries the complete result,
\* and the RESULT line agrees: the notification is sent behind the barrier.
FinishedIsTotal ==
  \A r \in 1..Len(rows) :
    rows[r].finished /\ woken = "notified" => rows[r].result = Total /\ printed = Total

\* The deadline races the answer: a plan that has returned by the time the wait
\* ends is logged and printed completely, although the row may say that it timed
\* out, and whichever of notification, deadline and spurious wakeup ended the wait.
\* main reads the same counters in both branches, and a plan that has returned
\* has no thread left that moves them.
LateAnswerIsTotal ==
  \A r \in 1..Len(rows) : answered => rows[r].result = Total /\ printed = Total

\* A partial result never exceeds the number of embeddings, although the
\* counters move while they are read one after the other, and the result
\* printed later is not below the one logged.  (Without inclusion-exclusion:
\* every increment is a set size.)
PartialIsLowerBound ==
  /\ logged # NoResult => logged <= Total
  /\ printed # NoResult => logged <= printed /\ printed <= Total

\* Every run ends, and with exactly one row, whatever the plan does.
ExitsWithOneRow == <>[](main = "exited" /\ Len(rows) = 1)

\* The comments "timeout after 1 day" and "24-hours at most" (runner.cpp:136 and
\* 182): main does not go on waiting for a plan that has already ended.
NeverWaitsForEnded == main = "waiting" => planPc # "ended"

=============================================================================
