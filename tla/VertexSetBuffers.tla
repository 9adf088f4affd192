--------------------------- MODULE VertexSetBuffers ---------------------------
(***************************************************************************)
(* Whose memory a VertexSet points to (VertexSetPool and the constructors, *)
(* copies and destructor of VertexSet, src/src/backend/vertex_set.h) while *)
(* a worker thread executes the loop bodies of a generated plan            *)
(* (gen_code_read_adj, gen_code_op, gen_code_mg_op, gen_code_mg_build and  *)
(* gen_code_iep in src/src/codegen/codegen.cpp).                           *)
(*                                                                         *)
(* A set either owns a buffer of the thread's pool or is a view: of the    *)
(* graph's arrays, of a mini graph row, or of another set's buffer.  The   *)
(* sets of a loop body are destroyed at the end of the iteration, latest   *)
(* first; the temporaries of an expression at the end of the statement.    *)
(* Which statements a body has depends on the pattern: any of the forms    *)
(* the generator emits may come next.  Elements are abstracted to whether  *)
(* a set still has those it was given.                                     *)
(***************************************************************************)
EXTENDS Integers, Sequences, SequencesExt, FiniteSets

CONSTANTS
  MaxDepth,   (* the innermost loop with statements of its own             *)
  MaxSets,    (* bound on the sets in scope                                *)
  MaxLinks,   (* bound on the operations in an expression                  *)
  Chained     (* the operations chained, per loop, onto the adjacency of   *)
              (* a vertex whose first matched neighbour is the current     *)
              (* one: {"subtract"} for vertex-induced patterns,            *)
              (* {"bounded", "remove"} for edge-induced ones               *)

ASSUME BuffersAssumption ==
  /\ MaxDepth \in Nat /\ MaxSets \in Nat /\ MaxLinks \in Nat
  /\ Chained \in [0..MaxDepth -> SUBSET {"subtract", "bounded", "remove"}]

VARIABLES
  exist,      (* buffer_exist: the buffers are 1..exist                    *)
  avail,      (* buffer_avail, used as a stack                             *)
  scope,      (* the named sets, in the order of their declarations        *)
  temps,      (* the operands of the expression being evaluated            *)
  depth       (* the loop whose body is executed                           *)

vars == <<exist, avail, scope, temps, depth>>

External == 0   (* memory of the graph or of a mini graph row *)

Sets == scope \o temps
Owned(sets) == {i \in DOMAIN sets : sets[i].pooled}

\* The buffers of the pool that are available, and those that a set owns.
Free == ToSet(avail)
Held == {Sets[i].data : i \in Owned(Sets)}

(***************************************************************************)
(* The pool.                                                               *)
(***************************************************************************)
\* The buffer AllocateWorkSpace hands out, and its effect on the pool.
NextBuffer == IF avail = << >> THEN exist + 1 ELSE Last(avail)

\* Faulty variant: the buffer handed out stays available.
AllocateKeep ==
  IF avail = << >> THEN exist' = exist + 1 /\ avail' = <<exist + 1>>
                   ELSE UNCHANGED <<exist, avail>>

Allocate ==
  IF avail = << >> THEN exist' = exist + 1 /\ UNCHANGED avail
                   ELSE avail' = Front(avail) /\ UNCHANGED exist

\* Destroying sets, latest first, returns the buffers they own.
Freed(sets) ==
  LET own      == Owned(sets)
      Place(i) == Cardinality({j \in own : j >= i})
      At(k)    == CHOOSE i \in own : Place(i) = k
  IN [k \in 1..Cardinality(own) |-> sets[At(k)].data]

\* Writing into a buffer spoils every other set that points to it.
Spoil(sets, b) ==
  [i \in DOMAIN sets |-> [sets[i] EXCEPT !.intact = @ /\ sets[i].data # b]]

(***************************************************************************)
(* The values of expressions.                                              *)
(***************************************************************************)
\* A copy of a set, or a prefix of it, points to the same memory and owns nothing.
\* Faulty variant: the copy constructor copies the ownership as well.
CopyOwning(s) == s

View(s) == [s EXCEPT !.pooled = FALSE]

Buffer == [depth |-> depth, data |-> NextBuffer, pooled |-> TRUE, intact |-> TRUE]
Memory == [depth |-> depth, data |-> External, pooled |-> FALSE, intact |-> TRUE]

Here(s) == [s EXCEPT !.depth = depth]

Statement == temps = << >> /\ Len(scope) < MaxSets

(***************************************************************************)
(* Statements of a loop body.                                              *)
(***************************************************************************)
\* VertexSet i1_adj = graph->N(i1_id);  VertexSet m0_adj = m0.N(i1_idx);
ReadAdj ==
  /\ Statement
  /\ scope' = Append(scope, Memory)
  /\ UNCHANGED <<exist, avail, temps, depth>>

\* VertexSet s1 = s0.bounded(i1_id);  VertexSet s2 = m0_adj;  and the sets a mini
\* graph keeps of those it is built from.
DeclareView(p) ==
  /\ Statement
  /\ scope' = Append(scope, Here(View(scope[p])))
  /\ UNCHANGED <<exist, avail, temps, depth>>

\* Faulty variant: the result is returned as a view of the local set that owns it.
DeclareResultView(p) ==
  /\ Statement
  /\ Allocate
  /\ scope' = Append(Spoil(scope, NextBuffer), View(Buffer))
  /\ UNCHANGED <<temps, depth>>

\* VertexSet s3 = s1.intersect(i1_adj);  subtract, and remove of a member.
DeclareResult(p) ==
  /\ Statement
  /\ Allocate
  /\ scope' = Append(Spoil(scope, NextBuffer), Buffer)
  /\ UNCHANGED <<temps, depth>>

\* An expression begins with a named set: the adjacency a chain hangs on, or the
\* first set of an inclusion-exclusion product.
BeginExpression(p) ==
  /\ Statement
  /\ temps' = <<Here(View(scope[p]))>>
  /\ UNCHANGED <<exist, avail, scope, depth>>

\* .subtract(i0_adj), .intersect(s2), or .remove(i0_adj.vid()) of a member.
LinkResult ==
  /\ temps # << >> /\ Len(temps) <= MaxLinks
  /\ Allocate
  /\ temps' = Append(Spoil(temps, NextBuffer), Buffer)
  /\ scope' = Spoil(scope, NextBuffer)
  /\ UNCHANGED depth

\* .bounded(i0_adj.vid()), or .remove(i0_adj.vid()) of a vertex it does not hold.
LinkView ==
  /\ temps # << >> /\ Len(temps) <= MaxLinks
  /\ temps' = Append(temps, View(Last(temps)))
  /\ UNCHANGED <<exist, avail, scope, depth>>

Link ==
  \/ Chained[depth] \intersect {"subtract", "remove"} # {} /\ LinkResult
  \/ Chained[depth] \intersect {"bounded", "remove"} # {} /\ LinkView

\* Faulty variant: the set is bound by copying, the temporary keeps the buffer.
BindCopy ==
  /\ depth > 0 /\ Len(temps) = depth + 1 /\ temps[1].data = External
  /\ scope' = Append(scope, View(Last(temps)))
  /\ avail' = avail \o Freed(temps)
  /\ temps' = << >>
  /\ UNCHANGED <<exist, depth>>

\* VertexSet s4 = i2_adj.subtract(i0_adj).subtract(i1_adj);  One operation per loop
\* outside the current one.  The value is built in place, the other temporaries die.
Bind ==
  /\ depth > 0 /\ Len(temps) = depth + 1 /\ temps[1].data = External
  /\ scope' = Append(scope, Last(temps))
  /\ avail' = avail \o Freed(Front(temps))
  /\ temps' = << >>
  /\ UNCHANGED <<exist, depth>>

\* counter += s1.intersect(s2).intersect_cnt(s3);  All temporaries die.
CountExpression ==
  /\ temps # << >>
  /\ avail' = avail \o Freed(temps)
  /\ temps' = << >>
  /\ UNCHANGED <<exist, scope, depth>>

\* Faulty variant: the number of loops is off by one.
EnterLoopPast ==
  /\ temps = << >> /\ depth <= MaxDepth
  /\ depth' = depth + 1
  /\ UNCHANGED <<exist, avail, scope, temps>>

\* The next loop begins.
EnterLoop ==
  /\ temps = << >> /\ depth < MaxDepth
  /\ depth' = depth + 1
  /\ UNCHANGED <<exist, avail, scope, temps>>

\* The iteration ends, at the closing brace or through "continue": the sets declared
\* behind those of the enclosing bodies go.  The enclosing body goes on with the next
\* iteration or ends its own (that it could also declare more sets is more than the
\* generated code does).
EndIteration ==
  LET outer == Cardinality({i \in DOMAIN scope : scope[i].depth < depth})
  IN /\ temps = << >> /\ (depth > 0 \/ scope # << >>)
     /\ scope' = SubSeq(scope, 1, outer)
     /\ avail' = avail \o Freed(SubSeq(scope, outer + 1, Len(scope)))
     /\ depth' = IF depth > 0 THEN depth - 1 ELSE 0
     /\ UNCHANGED <<exist, temps>>

Init == exist = 0 /\ avail = << >> /\ scope = << >> /\ temps = << >> /\ depth = 0

Next ==
  \/ ReadAdj \/ Link \/ Bind \/ CountExpression \/ EnterLoop \/ EndIteration
  \/ \E p \in DOMAIN scope : DeclareView(p) \/ DeclareResult(p) \/ BeginExpression(p)

Spec == Init /\ [][Next]_vars

-----------------------------------------------------------------------------
(***************************************************************************)
(* Properties.                                                             *)
(***************************************************************************)
\* The variables keep their types.
TypeOK ==
  LET SetType == [depth : 0..MaxDepth, data : 0..exist, pooled : BOOLEAN, intact : BOOLEAN]
  IN /\ exist \in Nat /\ depth \in 0..MaxDepth
     /\ avail \in Seq(1..exist)
     /\ scope \in Seq(SetType) /\ temps \in Seq(SetType)

\* Every buffer of the pool is available once or owned by one set, whatever
\* copies, moves and temporaries there were: none is freed twice, none is lost.
OwnedOnce ==
  /\ \A i, j \in DOMAIN avail : avail[i] = avail[j] => i = j
  /\ \A i, j \in Owned(Sets) : Sets[i].data = Sets[j].data => i = j
  /\ Free \intersect Held = {} /\ Free \union Held = 1..exist

\* A view of a buffer was declared after the set that owns it, in the same body
\* or deeper, so the owner outlives it.
ViewsOutlived ==
  \A i \in DOMAIN Sets : Sets[i].data # External =>
    \E j \in 1..i : Sets[j].pooled /\ Sets[j].data = Sets[i].data

\* A set keeps its elements as long as it is in scope: no later operation is given
\* the buffer it points to.
KeepsElements == \A i \in DOMAIN Sets : Sets[i].intact

\* The pool behind the sets.
Same(size, request) == size = request

Abstract == INSTANCE BufferPool
  WITH Requests <- {1}, Fits <- Same, size <- [b \in 1..exist |-> 1],
       free <- Free, held <- Held

\* Through copies, moves, temporaries and the ends of scopes the sets use the pool as
\* BufferPool says: what an operation is handed nobody else holds, what a set that dies
\* owned is free at once, and a new buffer is made only if none is free.
IsBufferPool == Abstract!Spec

=============================================================================
