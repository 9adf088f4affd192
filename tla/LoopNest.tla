-------------------------------- MODULE LoopNest -------------------------------
(***************************************************************************)
(* The generated loop nest on a data graph: what the statements of a plan  *)
(* compute, loop by loop, and what it counts.  One thread runs all         *)
(* iterations of the outermost loop; how threads share them is the module  *)
(* ParallelPlan, which takes what an iteration counts as given.            *)
(*                                                                         *)
(* A vertex set is its set of vertices (how the sets are computed and      *)
(* stored is the matter of VertexSetMerge and VertexSetBuffers), a mini    *)
(* graph the function from its vertices to what N returns for their rows   *)
(* (how rows are stored and when they are pruned is that of                *)
(* MiniGraphRows).                                                         *)
(***************************************************************************)
EXTENDS GenCode

CONSTANTS
  Graphs(_)    (* the data graphs an input is run on                       *)

\* What graph->N may return.  The rows of MiniGraphCostModel, which may stay
\* uninitialised, are not among those of this module.
ASSUME LoopAssumption ==
  \A in \in Inputs :
    /\ in.pruning # "CostModel"
    /\ \A g \in Graphs(in) : \A v \in DOMAIN g :
         v \notin g[v] /\ \A w \in g[v] : w \in DOMAIN g /\ v \in g[w]
    /\ \A g \in Graphs(in) :
         IsFiniteSet(DOMAIN g) /\ DOMAIN g = 0..(Cardinality(DOMAIN g) - 1)

VARIABLES
  graph,       (* graph->N, over all vertices, once it is loaded           *)
  root,        (* i0_id of the next iteration of loop 0                    *)
  frames,      (* the iterations the thread is in, outermost first         *)
  counter      (* the counter                                              *)

vars == <<genVars, graph, root, frames, counter>>

(***************************************************************************)
(* A frame is what an iteration of a loop has in scope: the matched        *)
(* vertices i0_id, i1_id, ..., the sets and the mini graphs, by id, and    *)
(* how many elements of the next loop's set have had their turn.  While    *)
(* its body is executed a frame also has what it adds to the counter and   *)
(* whether it has left through "continue".                                 *)
(***************************************************************************)
NoFrame == [match |-> <<>>, sets |-> <<>>, rows |-> <<>>, done |-> 0]

\* The members of a vertex set in the order in which it holds them.
Ascending(set) ==
  [k \in 1..Cardinality(set) |-> CHOOSE x \in set : Cardinality({y \in set : y <= x}) = k]

\* m.N(i) for the mini graphs the body reads, by index or by vertex.
RowRead(read, frame, k) ==
  LET rows == frame.rows[read.mg]
      v == IF read.direct THEN Ascending(DOMAIN rows)[k] ELSE Last(frame.match)
  IN [vid |-> v, ids |-> rows[v]]

\* The rows of a body's mini graphs, by id.
RowsRead(d, frame, k) ==
  [mg \in {r.mg : r \in ToSet(code.reads[d])} |->
     RowRead(CHOOSE r \in ToSet(code.reads[d]) : r.mg = mg, frame, k)]

Subtract(left, adj) == left \ (adj.ids \union {adj.vid})

\* iN_adj[.bounded(iN_id)], then .subtract, .bounded or .remove for every outer vertex.
Chain(op, match) ==
  {x \in graph[match[op.dep + 1]] :
     /\ IsRestricted(op) => x < match[op.dep + 1]
     /\ \A u \in 0..(op.dep - 1) :
          /\ u \in op.restricts => x < match[u + 1]
          /\ u \notin op.restricts => x # match[u + 1]
          /\ Vertex => x \notin graph[match[u + 1]]}

Value(s, frame, read) ==
  LET v == Last(frame.match)
      adj == IF s.row = None.id THEN [vid |-> v, ids |-> graph[v]] ELSE read[s.row]
      left == frame.sets[s.from]
      Cut(set) == {x \in set : IsRestricted(s.op) => x < adj.vid}
  IN CASE s.form = "chain" -> Chain(s.op, frame.match)
       [] s.form \in {"sibling", "bounded"} -> {x \in left : x < v}
       [] s.form = "intersect" -> Cut(left \intersect adj.ids)
       [] s.form = "subtract" -> Cut(Subtract(left, adj))
       [] s.form = "remove" -> left \ {v}
       [] s.form = "row" -> Cut(adj.ids)

\* One set statement, unless an earlier one has ended the iteration.
Execute(frame, s, read) ==
  LET value == Value(s, frame, read)
  IN IF frame.left THEN frame
     ELSE [frame EXCEPT !.sets = IF s.counts THEN @ ELSE With(@, s.op.id, value),
                        !.count = IF s.counts THEN @ + Cardinality(value) ELSE @,
                        !.left = s.skips /\ value = {}]

\* The statements of a body in their order.
Executed(start, statements, read) ==
  LET frame[k \in 0..Len(statements)] ==
        IF k = 0 THEN start ELSE Execute(frame[k - 1], statements[k], read)
  IN frame[Len(statements)]

\* Faulty variant: no row is pruned before the loops below read it.
RowsLazily(frame, b) ==
  LET Source(v) == IF b.parent = None.id THEN graph[v] ELSE frame.rows[b.parent][v]
  IN [v \in frame.sets[b.vertices] |-> Source(v)]

\* build(): every row is pruned now or when it is read; MiniGraphLazy leaves the rows
\* the next loop does not iterate over as they are in the source.
Rows(frame, b) ==
  LET Source(v) == IF b.parent = None.id THEN graph[v] ELSE frame.rows[b.parent][v]
      Kept(v) == {x \in Source(v) \intersect frame.sets[b.intersect] : b.bounded => x < v}
  IN [v \in frame.sets[b.vertices] |->
        IF b.type = "Static" /\ v \notin frame.sets[b.iter] THEN Source(v) ELSE Kept(v)]

\* The mini graphs of a body in their order.
Built(start, builds) ==
  LET Add(frame, b) == [frame EXCEPT !.rows = With(@, b.id, Rows(frame, b))]
      frame[k \in 0..Len(builds)] == IF k = 0 THEN start ELSE Add(frame[k - 1], builds[k])
  IN frame[Len(builds)]

\* gen_code_iep: the signed products of the sizes of intersections.
Inclusion(frame) ==
  LET Common(part) == {x \in DOMAIN graph : \A k \in part : x \in frame.sets[code.iep[k]]}
      Product(parts) ==
        FoldSet(LAMBDA part, n : n * Cardinality(Common(part)), 1, parts)
  IN MapThenSumSet(LAMBDA g : g.val * Product(g.parts), input.iep.groups)

\* The body of loop d for vertex v, the k-th of the set it iterates over.
Body(d, outer, v, k) ==
  LET start == [match |-> Append(outer.match, v), sets |-> outer.sets, rows |-> outer.rows,
                done |-> 0, count |-> 0, left |-> FALSE]
      frame == Executed(start, code.sets[d], RowsRead(d, start, k))
  IN IF frame.left THEN frame
     ELSE IF d = LastLoop
     THEN IF iep_num > 1 THEN [frame EXCEPT !.count = @ + Inclusion(frame)] ELSE frame
     ELSE Built(frame, code.builds[d])

(***************************************************************************)
(* The loops.                                                              *)
(***************************************************************************)
NoGraph == <<>>

LoopInit ==
  /\ GenInit
  /\ graph = NoGraph /\ root = 0 /\ frames = <<>> /\ counter = 0

Generate == GenNext /\ UNCHANGED <<graph, root, frames, counter>>

\* The compiled program is run on a data graph.
Run ==
  /\ Generated /\ Compiles /\ graph = NoGraph
  /\ graph' \in Graphs(input)
  /\ UNCHANGED <<genVars, root, frames, counter>>

\* What remains of a finished body: a frame for the loops below, or nothing.
Kept(d, f) ==
  IF f.left \/ d = LastLoop THEN <<>>
  ELSE <<[match |-> f.match, sets |-> f.sets, rows |-> f.rows, done |-> 0]>>

\* An iteration of loop 0.
EnterRoot ==
  LET body == Body(0, NoFrame, root, root + 1)
  IN /\ Generated /\ frames = <<>> /\ root \in DOMAIN graph
     /\ frames' = Kept(0, body)
     /\ counter' = counter + body.count
     /\ root' = root + 1
     /\ UNCHANGED <<genVars, graph>>

IterateOver(d) == Ascending(Last(frames).sets[iter_set[d - 1].id])

\* An iteration of the loop inside the innermost one the thread is in.
EnterLoop ==
  LET d == Len(frames)
      outer == Last(frames)
      k == outer.done + 1
      body == Body(d, outer, IterateOver(d)[k], k)
  IN /\ Generated /\ frames # <<>>
     /\ k <= Len(IterateOver(d))
     /\ frames' = [frames EXCEPT ![d].done = k] \o Kept(d, body)
     /\ counter' = counter + body.count
     /\ UNCHANGED <<genVars, graph, root>>

LeaveLoop ==
  /\ Generated /\ frames # <<>>
  /\ Last(frames).done = Len(IterateOver(Len(frames)))
  /\ frames' = Front(frames)
  /\ UNCHANGED <<genVars, graph, root, counter>>

Return ==
  /\ Generated /\ graph # NoGraph /\ frames = <<>> /\ root \notin DOMAIN graph
  /\ phase' = "returned"
  /\ UNCHANGED <<input, set_ops, iter_set, mg_ops, mg_used, mg_bounded, indeedUsed, cursor,
                 code, graph, root, frames, counter>>

Stopped ==
  phase \in {"returned", "aborted", "undefined"} \/ (Generated /\ ~Compiles)

Stop == Stopped /\ UNCHANGED vars

Next == Generate \/ Run \/ EnterRoot \/ EnterLoop \/ LeaveLoop \/ Return \/ Stop

Spec == LoopInit /\ [][Next]_vars

(***************************************************************************)
(* Properties.                                                             *)
(***************************************************************************)
\* Operations and mini graphs belong to their loops, vertices and sets to the graph.
TypeOK ==
  /\ PlanTypeOK
  /\ root \in Nat /\ counter \in Int /\ Len(frames) <= input.size - 2
  /\ \A k \in DOMAIN frames :
       /\ Len(frames[k].match) = k /\ ToSet(frames[k].match) \subseteq DOMAIN graph
       /\ \A op \in DOMAIN frames[k].sets : frames[k].sets[op] \subseteq DOMAIN graph

\* get_result()
Redundancy(in) ==
  IF in.matType = "EdgeInducedIEP" /\ in.iep.num > 0 THEN Max({1, in.iep.redundancy}) ELSE 1
Result == counter \div Redundancy(input)

\* The ways to map the pattern into the data graph: different vertices for different
\* ones, edges to edges, and in a vertex-induced plan non-edges to non-edges.
Matches(in, g) ==
  {f \in [0..(in.size - 1) -> DOMAIN g] :
     \A u \in DOMAIN f : \A w \in 0..(u - 1) :
       /\ f[u] # f[w]
       /\ <<w, u>> \in in.edges => f[u] \in g[f[w]]
       /\ in.matType = "VertexInduced" /\ <<w, u>> \notin in.edges => f[u] \notin g[f[w]]}

\* The innermost loop of a plan.
Innermost(in) ==
  IF in.matType = "EdgeInducedIEP" /\ in.iep.num > 1 THEN in.size - in.iep.num - 1
  ELSE in.size - 2

\* The matches that respect the restrictions, and what follows from them, on the vertices
\* that the loops match.
Restricted(in, g) ==
  {f \in Matches(in, g) :
     \A p \in restricts_to_str(in.restricts, in.size) :
       p[2] <= Innermost(in) => f[p[1]] < f[p[2]]}

\* The subgraphs (induced subgraphs in a vertex-induced plan) the pattern has in a data
\* graph, whatever the order and the restrictions.
Subgraphs(in, g) == {{{f[e[1]], f[e[2]]} : e \in in.edges} : f \in Matches(in, g)}

\* The signs of inclusion-exclusion: of the partitions that keep together only what is
\* equal, the values add up to one if nothing is, otherwise to nothing.
Apart(parts) == {} \notin parts /\ \A p, q \in parts : p = q \/ p \intersect q = {}
Together(t, parts) == \A part \in parts : \A j, k \in part : t[j] = t[k]
Alternating(iep) ==
  LET K == 0..(iep.num - 1)
  IN /\ \A g \in iep.groups : UNION g.parts = K /\ Apart(g.parts)
     /\ \A t \in [K -> K] :
          MapThenSumSet(LAMBDA g : IF Together(t, g.parts) THEN g.val ELSE 0, iep.groups) =
            IF IsInjective(t) THEN 1 ELSE 0

\* What is expected of a schedule: restrictions are on a later vertex of the matching, the
\* vertices left to inclusion-exclusion are not connected, and its signs are right.
ScheduleFits(in) ==
  /\ \A p \in in.restricts : p[1] < p[2]
  /\ \A e \in in.edges : e[1] < e[2] => e[1] <= Innermost(in)
  /\ in.matType = "EdgeInducedIEP" /\ in.iep.num > 1 => Alternating(in.iep)

\* And that the matches found are as many times the subgraphs as its redundancy says.
RedundancyFits(in) ==
  \A g \in Graphs(in) :
    Cardinality(Restricted(in, g)) = Redundancy(in) * Cardinality(Subgraphs(in, g))

SchedulesFit == \A in \in Inputs : ScheduleFits(in)
RedundanciesFit == \A in \in Inputs : RedundancyFits(in)

\* The generated program counts every subgraph exactly once (codegen.cpp, the whole of
\* create_plan, create_plan_mg and gen_code_omp), with and without mini graphs.
CountsSubgraphs == phase = "returned" => Result = Cardinality(Subgraphs(input, graph))

\* Whatever connected pattern is asked for, plan generation ends in a program that
\* compiles and counts (README.md, "How to run a single query with GraphMini").
CountsAnyPattern == Stopped => phase = "returned" /\ Result = Cardinality(Subgraphs(input, graph))

\* Every set in scope is the set its operation stands for: the vertices that can match
\* the pattern vertices it was made for, given the edges, non-edges and restrictions to
\* the vertices matched so far; no matter which parents, rows and shortcuts it was
\* computed from (gen_code_op, gen_code_mg_op, the superset relations of ir.cpp).
Candidates(op, match) ==
  {x \in DOMAIN graph :
     \A u \in 0..op.dep :
       /\ IF u \in op.edges THEN x \in graph[match[u + 1]]
          ELSE x # match[u + 1] /\ (Vertex => x \notin graph[match[u + 1]])
       /\ u \in op.restricts => x < match[u + 1]}

SetsAsPlanned ==
  frames # <<>> =>
    LET frame == Last(frames)
    IN \A op \in SetsTo(Len(frame.match) - 1) :
         frame.sets[op.id] = Candidates(op, frame.match)

=============================================================================
