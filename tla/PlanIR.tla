--------------------------------- MODULE PlanIR --------------------------------
(***************************************************************************)
(* Plan generation: create_plan and create_plan_mg in                      *)
(* src/src/codegen/codegen.cpp, with the relations between operations in   *)
(* src/src/codegen/ir.cpp.                                                 *)
(*                                                                         *)
(* A plan has one loop for every pattern vertex but the last.  Loop d      *)
(* matches vertex d and computes, for the vertices after it, the sets of   *)
(* candidates that respect the edges and restrictions to vertices 0..d.  A *)
(* mini graph, declared in some loop, keeps the neighbourhoods of a set    *)
(* ("vertices") inside another one ("intersect") for the loops below it.   *)
(*                                                                         *)
(* The order of the matching, the restrictions and the groups of           *)
(* inclusion-exclusion come from the GraphPi scheduler.                    *)
(***************************************************************************)
EXTENDS Integers, Sequences, SequencesExt, FiniteSetsExt

CONSTANTS
  Inputs       (* the patterns, as scheduled, and the configurations       *)

(* An input record: size (p_size), edges (pairs <<a, b>> with a < b),      *)
(* restricts (<<a, b>>: the match of a is above that of b), iep (num,      *)
(* redundancy and the groups, each a sign and a partition of 0..num-1),    *)
(* matType (config.adjMatType) and pruning (config.pruningType).           *)
MatTypes == {"VertexInduced", "EdgeInduced", "EdgeInducedIEP"}
Prunings == {"None", "Static", "Eager", "Online", "CostModel"}

\* get_schedule numbers the vertices so that each has an edge to an earlier one.
Scheduled(in) ==
  /\ in.size \in Nat /\ in.size >= 3
  /\ \A e \in in.edges \union in.restricts : {e[1], e[2]} \subseteq 0..(in.size - 1)
  /\ \A v \in 1..(in.size - 1) : \E u \in 0..(v - 1) : <<u, v>> \in in.edges

\* The vertices that inclusion-exclusion counts are not connected among themselves.
ASSUME PlanAssumption ==
  \A in \in Inputs :
    /\ Scheduled(in) /\ in.iep.num \in 0..(in.size - 1) /\ in.iep.redundancy \in Int
    /\ IsFiniteSet(in.iep.groups)
    /\ \A g \in in.iep.groups : g.val \in Int /\ IsFiniteSet(g.parts)
    /\ in.matType \in MatTypes /\ in.pruning \in Prunings

VARIABLES
  input,       (* what gen_code was called with                            *)
  phase,       (* how far it has come                                      *)
  set_ops,     (* the vertex set operations of every loop                  *)
  iter_set,    (* the operation whose set the next loop iterates over      *)
  mg_ops,      (* the mini graphs of every loop                            *)
  mg_used,     (* the mini graphs whose rows a loop reads                  *)
  mg_bounded,  (* by id: rows hold vertices below their own only           *)
  indeedUsed,  (* by id: IndeedUsed                                        *)
  cursor       (* the loop at work and its position in it, or the next id  *)

planVars ==
  <<input, phase, set_ops, iter_set, mg_ops, mg_used, mg_bounded, indeedUsed, cursor>>

None == [id |-> -1]
Loops == 0..(input.size - 2)
Vertex == input.matType = "VertexInduced"
Pruning == input.pruning # "None"

\* Inclusion-exclusion is used if it replaces more than one loop.
iep_num == IF input.matType = "EdgeInducedIEP" THEN input.iep.num ELSE 0
iep_depth == input.size - iep_num - 1
LastLoop == IF iep_num > 1 THEN iep_depth ELSE input.size - 2

(***************************************************************************)
(* Vertex set operations.                                                  *)
(***************************************************************************)
\* Faulty variant: restrictions are not closed under transitivity.
DirectRestricts ==
  {<<p[2], p[1]>> : p \in input.restricts}

\* restricts_to_str: one pass over the vertices in ascending order.
restricts_to_str(restricts, size) ==
  LET Inherit(mat, v) ==
        mat \union {<<p[2], above[2]>> : p \in {q \in restricts : q[1] = v},
                                         above \in {a \in mat : a[1] = v}}
  IN FoldLeft(Inherit, {<<p[2], p[1]>> : p \in restricts}, [i \in 1..size |-> i - 1])

Restricts == restricts_to_str(input.restricts, input.size)

\* Faulty variant: the vertex of the next loop counts as matched.
VertexSetAhead(v, d) ==
  [dep |-> d, id |-> -1,
   edges |-> {u \in 0..(d + 1) : <<u, v>> \in input.edges},
   restricts |-> {u \in 0..(d + 1) : <<v, u>> \in Restricts}]

\* VertexSetIR(e, r, dep) of pattern vertex v.
VertexSetIR(v, d) ==
  LET res_mat == Restricts
  IN [dep |-> d, id |-> -1,
      edges |-> {u \in 0..d : <<u, v>> \in input.edges},
      restricts |-> {u \in 0..d : <<v, u>> \in res_mat}]

\* Whether the first difference between two sets is an element of the second.
FirstOnlyIn(b, a) ==
  LET differ == (a \ b) \union (b \ a)
  IN differ # {} /\ Min(differ) \in b

\* Faulty variant: the number of restrictions is not compared.
PrecedesByEdges(a, b) ==
  a.dep < b.dep \/ Cardinality(a.edges) < Cardinality(b.edges) \/ FirstOnlyIn(b.edges, a.edges)

\* operator<: not a strict weak order, two operations may each precede the other.
Precedes(a, b) ==
  \/ a.dep < b.dep
  \/ Cardinality(a.edges) < Cardinality(b.edges)
  \/ Cardinality(a.restricts) < Cardinality(b.restricts)
  \/ FirstOnlyIn(b.edges, a.edges)
  \/ a.edges = b.edges /\ FirstOnlyIn(b.restricts, a.restricts)

\* What the vertices after d have in loop d, for an input.
CandidatesOf(in, d) ==
  {[dep |-> d, id |-> -1,
    edges |-> {u \in 0..d : <<u, v>> \in in.edges},
    restricts |-> {u \in 0..d : <<v, u>> \in restricts_to_str(in.restricts, in.size)}] :
      v \in (d + 1)..(in.size - 1)}

\* operator< is the strict weak order std::sort asks for wherever a loop has more than
\* two operations to sort.
Orderly(in) ==
  \A d \in 0..(in.size - 4) :
    \A a, b, x \in {op \in CandidatesOf(in, d) : op.edges # {}} :
      Precedes(a, b) => ~Precedes(b, a) /\ (Precedes(a, x) \/ Precedes(x, b))

InputsOrderly == \A in \in Inputs : Orderly(in)

\* push_back for each element that is wanted.
Only(seq, wanted) ==
  FoldLeft(LAMBDA kept, x : IF x \in wanted THEN Append(kept, x) ELSE kept, <<>>, seq)

\* The pairs <<a, b>> of elements with a < b.
LessOn(set, Less(_, _)) == {p \in set \X set : Less(p[1], p[2])}

\* std::sort of at most 16 elements, an insertion sort from the right end.
Sorted(seq, less) ==
  LET Insert(done, x) ==
        IF done = <<>> \/ <<x, done[1]>> \in less THEN <<x>> \o done
        ELSE InsertAt(done, 1 + Max({p \in DOMAIN done : <<x, done[p]>> \notin less}), x)
  IN FoldLeft(Insert, <<>>, seq)

\* std::unique: drops an element equal to the one kept before it.  For all inputs of the
\* checks none is left twice, so operator== and the ids agree afterwards.
Unique(seq) ==
  FoldLeft(LAMBDA kept, x : IF kept # <<>> /\ Last(kept) = x THEN kept ELSE Append(kept, x),
           <<>>, seq)

\* push_back unless the element is there already.
Distinct(seq) ==
  FoldLeft(LAMBDA vec, x : IF x \in ToSet(vec) THEN vec ELSE Append(vec, x), <<>>, seq)

\* The elements with the ids from next_id.
Numbered(seq, next_id) ==
  [k \in DOMAIN seq |-> [seq[k] EXCEPT !.id = next_id + k - 1]]

\* is_superset_of: every set "b" denotes is contained in the one "a" denotes.
IsSuperset(a, b) ==
  /\ a.dep <= b.dep
  /\ a.restricts \subseteq b.restricts
  /\ IF Vertex THEN a.edges = b.edges \intersect 0..a.dep ELSE a.edges \subseteq b.edges

IsRestricted(op) == op.dep \in op.restricts     (* at its own loop *)
IsEdge(op) == op.dep \in op.edges
is_last_op(op) == op.dep = input.size - 2

\* get_parent_vset(vset, dep): a set of loop d that contains this one, as small as
\* the order of the operations lets the loop find.
PrefixParent(op, d) ==
  LET Closer(best, p) ==
        IF IsSuperset(p, op) /\ p.id # op.id /\ (best = None \/ IsSuperset(best, p))
        THEN p ELSE best
  IN IF op.dep = 0 THEN None ELSE FoldLeft(Closer, None, set_ops[d])

\* The same operation without the restriction at its own loop.
Unbounded(p, op) ==
  /\ IsSuperset(p, op) /\ p.id # op.id
  /\ Cardinality(p.edges) = Cardinality(op.edges)
  /\ Cardinality(op.restricts) = Cardinality(p.restricts) + 1
  /\ IsRestricted(op) /\ ~IsRestricted(p)

get_parent_vset(op) ==
  LET k == SelectInSeq(set_ops[op.dep], LAMBDA p : Unbounded(p, op))
  IN IF k # 0 THEN set_ops[op.dep][k] ELSE PrefixParent(op, op.dep - 1)

(***************************************************************************)
(* Mini graphs.                                                            *)
(***************************************************************************)
mg_dep(mg) == mg.vertices.dep

MGPrecedes(a, b) ==
  /\ a # b
  /\ \/ Precedes(a.vertices, b.vertices)
     \/ ~Precedes(b.vertices, a.vertices) /\ Precedes(a.intersect, b.intersect)

MGSuperset(mg, vertices, intersect) ==
  IsSuperset(mg.vertices, vertices) /\ IsSuperset(mg.intersect, intersect)

\* Whether a row of the mini graph is the set itself.
computed(mg, vertices, intersect) ==
  /\ MGSuperset(mg, vertices, intersect)
  /\ intersect.dep = mg.intersect.dep + 1
  /\ Cardinality(intersect.edges) = Cardinality(mg.intersect.edges) + 1
  /\ intersect.edges \intersect 0..mg.intersect.dep = mg.intersect.edges
  /\ intersect.restricts \intersect 0..mg.intersect.dep = mg.intersect.restricts

\* The one declared last: ids ascend in the order of declaration.
LastOf(ops) ==
  IF ops = {} THEN None ELSE CHOOSE op \in ops : \A other \in ops : other.id <= op.id

\* What the loops up to d declare.
SetsTo(d) == UNION {ToSet(set_ops[e]) : e \in 0..d}
MiniGraphsTo(d) == UNION {ToSet(mg_ops[e]) : e \in 0..d}

\* get_parent_mg(vset): the last mini graph of the enclosing loops that contains the
\* row this operation needs, whether or not it is the smallest.
get_parent_mg(op) ==
  IF op.dep = 0 \/ (~Vertex /\ ~IsEdge(op)) THEN None
  ELSE LastOf({mg \in MiniGraphsTo(op.dep - 1) : MGSuperset(mg, iter_set[op.dep - 1], op)})

\* get_parent_mg(child): the mini graph this one is built from.
MGParent(child) ==
  LastOf({mg \in MiniGraphsTo(mg_dep(child)) :
            /\ MGSuperset(mg, child.vertices, child.intersect) /\ mg.id # child.id
            /\ (mg_bounded[mg.id] => mg_bounded[child.id])})

(***************************************************************************)
(* create_plan.                                                            *)
(***************************************************************************)
Init ==
  /\ input \in Inputs
  /\ phase = "create_plan"
  /\ set_ops = [d \in Loops |-> <<>>] /\ iter_set = [d \in Loops |-> None]
  /\ mg_ops = [d \in Loops |-> <<>>] /\ mg_used = [d \in Loops |-> <<>>]
  /\ mg_bounded = <<>> /\ indeedUsed = {} /\ cursor = <<0, 0>>

\* The candidates of all later vertices, sorted, without duplicates.
OpsOfLoop(d) ==
  LET all == [k \in 1..(input.size - 1 - d) |-> VertexSetIR(d + k, d)]
      wanted == {op \in ToSet(all) : op.edges # {}}
  IN Unique(Sorted(Only(all, wanted), LessOn(wanted, Precedes)))

Find(ops, op) ==
  ops[SelectInSeq(ops, LAMBDA p : [p EXCEPT !.id = -1] = op)]

\* The operations of one loop and the one the next loop iterates over.
CreatePlan ==
  LET d == cursor[1]
      ops == Numbered(OpsOfLoop(d), cursor[2])
  IN /\ phase = "create_plan" /\ d \in Loops
     /\ set_ops' = [set_ops EXCEPT ![d] = ops]
     /\ iter_set' = [iter_set EXCEPT ![d] = Find(ops, VertexSetIR(d + 1, d))]
     /\ cursor' = <<d + 1, cursor[2] + Len(ops)>>
     /\ UNCHANGED <<input, phase, mg_ops, mg_used, mg_bounded, indeedUsed>>

\* gen_code calls create_plan_mg only if mini graphs are wanted.
EndCreatePlan ==
  /\ phase = "create_plan" /\ cursor[1] \notin Loops
  /\ phase' = IF Pruning THEN "collect" ELSE "gen_code"
  /\ cursor' = <<0, 0>>
  /\ UNCHANGED <<input, set_ops, iter_set, mg_ops, mg_used, mg_bounded, indeedUsed>>

(***************************************************************************)
(* create_plan_mg.                                                         *)
(***************************************************************************)
MaxDep == Min({input.size - 2, input.size - iep_num - 1})

\* The operations, innermost loop first, whose rows a mini graph of loop d could hold.
Consumers(d) ==
  FlattenSeq([k \in 1..(MaxDep - d - 1) |->
                LET ops == set_ops[MaxDep + 1 - k]
                IN Only(ops, {op \in ToSet(ops) : Vertex \/ IsEdge(op)})])

Candidate(op, d) ==
  [vertices |-> PrefixParent(iter_set[op.dep - 1], d),
   intersect |-> PrefixParent(op, d), id |-> -1]

\* PruningType::Static keeps the mini graphs whose rows the next loop reads.
Wanted(mg, d) ==
  /\ mg.vertices # None /\ mg.intersect # None
  /\ input.pruning = "Static" =>
       \E k \in DOMAIN set_ops[d + 1] : computed(mg, iter_set[d], set_ops[d + 1][k])

MiniGraphsOf(d) ==
  LET consumers == Consumers(d)
      candidates == [k \in DOMAIN consumers |-> Candidate(consumers[k], d)]
      wanted == {mg \in ToSet(candidates) : Wanted(mg, d)}
  IN Unique(Sorted(Only(candidates, wanted), LessOn(wanted, MGPrecedes)))

\* The mini graphs of one loop; the flags of all when the last loop has its own.
CollectMiniGraphs ==
  LET d == cursor[1]
      mgs == Numbered(MiniGraphsOf(d), cursor[2])
  IN /\ phase = "collect" /\ d <= MaxDep - 2
     /\ mg_ops' = [mg_ops EXCEPT ![d] = mgs]
     /\ cursor' = <<d + 1, cursor[2] + Len(mgs)>>
     /\ UNCHANGED <<input, phase, set_ops, iter_set, mg_used, mg_bounded, indeedUsed>>

EndCollect ==
  /\ phase = "collect" /\ cursor[1] > MaxDep - 2
  /\ mg_bounded' = [id \in {mg.id : mg \in UNION {ToSet(mg_ops[d]) : d \in Loops}} |-> TRUE]
  /\ phase' = "mark"
  /\ cursor' = <<1, 1>>
  /\ UNCHANGED <<input, set_ops, iter_set, mg_ops, mg_used, indeedUsed>>

\* Faulty variant: any operation may set the flag.
FirstUserAny(users, id) ==
  \E k \in DOMAIN users : get_parent_mg(users[k]).id = id /\ IsRestricted(users[k])

\* mg_bounded follows the first operation of a loop that uses a mini graph.
FirstUserRestricted(users, id) ==
  IsRestricted(users[SelectInSeq(users, LAMBDA op : get_parent_mg(op).id = id)])

\* One round of the loop over dep.
MarkUsed ==
  LET d == cursor[1]
      users == Only(set_ops[d], {op \in ToSet(set_ops[d]) : get_parent_mg(op) # None})
      used == [k \in DOMAIN users |-> get_parent_mg(users[k])]
      ids == {mg.id : mg \in ToSet(used)}
  IN /\ phase = "mark" /\ d <= MaxDep
     /\ mg_used' = [mg_used EXCEPT ![d] = Distinct(used)]
     /\ mg_bounded' = [id \in DOMAIN mg_bounded |->
          mg_bounded[id] /\ (id \in ids => FirstUserRestricted(users, id))]
     /\ indeedUsed' = indeedUsed \union ids
     /\ cursor' = <<d + 1, 1>>
     /\ UNCHANGED <<input, phase, set_ops, iter_set, mg_ops>>

EndMark ==
  /\ phase = "mark" /\ cursor[1] > MaxDep
  /\ phase' = "inherit"
  /\ cursor' = <<MaxDep, 1>>
  /\ UNCHANGED <<input, set_ops, iter_set, mg_ops, mg_used, mg_bounded, indeedUsed>>

\* One mini graph of the loop over children, from the innermost loop outwards.
Inherit ==
  LET d == cursor[1]
      child == mg_ops[d][cursor[2]]
      parent == MGParent(child)
      inherits == child.id \in indeedUsed /\ parent # None
  IN /\ phase = "inherit" /\ d >= 0 /\ cursor[2] <= Len(mg_ops[d])
     /\ indeedUsed' = indeedUsed \union (IF inherits THEN {parent.id} ELSE {})
     /\ mg_bounded' = [id \in DOMAIN mg_bounded |->
          mg_bounded[id] /\ (inherits /\ id = parent.id => mg_bounded[child.id])]
     /\ cursor' = <<d, cursor[2] + 1>>
     /\ UNCHANGED <<input, phase, set_ops, iter_set, mg_ops, mg_used>>

EndInherit ==
  /\ phase = "inherit"
  /\ \/ cursor[1] >= 0 /\ cursor[2] > Len(mg_ops[cursor[1]])
        /\ cursor' = <<cursor[1] - 1, 1>> /\ phase' = phase
     \/ cursor[1] < 0 /\ cursor' = <<0, 1>> /\ phase' = "erase"
  /\ UNCHANGED <<input, set_ops, iter_set, mg_ops, mg_used, mg_bounded, indeedUsed>>

\* One round of the loop with erase(itr); the iterator advances in any case.
Erase ==
  LET d == cursor[1]
      k == cursor[2]
  IN /\ phase = "erase" /\ d \in Loops /\ k <= Len(mg_ops[d])
     /\ mg_ops' = [mg_ops EXCEPT ![d] = IF @[k].id \in indeedUsed THEN @ ELSE RemoveAt(@, k)]
     /\ cursor' = <<d, k + 1>>
     /\ UNCHANGED <<input, phase, set_ops, iter_set, mg_used, mg_bounded, indeedUsed>>

\* itr == end() ends the loop; an iterator past the end reads what is no element.
EndErase ==
  LET d == cursor[1]
      end == Len(mg_ops[d]) + 1
  IN /\ phase = "erase" /\ d \in Loops /\ cursor[2] >= end
     /\ phase' = IF cursor[2] > end THEN "undefined"
                 ELSE IF d + 1 \in Loops THEN "erase" ELSE "gen_code"
     /\ cursor' = <<IF d + 1 \in Loops THEN d + 1 ELSE 0, 1>>
     /\ UNCHANGED <<input, set_ops, iter_set, mg_ops, mg_used, mg_bounded, indeedUsed>>

(***************************************************************************)
(* Types.                                                                  *)
(***************************************************************************)
Phases ==
  {"create_plan", "collect", "mark", "inherit", "erase", "gen_code", "generated",
   "returned", "aborted", "undefined"}

Ops == [dep : Nat, id : Nat, edges : SUBSET Nat, restricts : SUBSET Nat]
MiniGraphs == [vertices : Ops, intersect : Ops, id : Nat]

OpOK(op, d) == op.dep = d /\ op.edges \union op.restricts \subseteq 0..d
MiniGraphOK(mg, d) == {mg.vertices, mg.intersect} \subseteq ToSet(set_ops[d])

\* No id is given twice.
DistinctIds(ops) ==
  \A d, e \in Loops : \A k \in DOMAIN ops[d], l \in DOMAIN ops[e] :
    ops[d][k].id = ops[e][l].id => d = e /\ k = l

PlanTypeOK ==
  /\ input \in Inputs /\ phase \in Phases
  /\ set_ops \in [Loops -> Seq(Ops)] /\ DistinctIds(set_ops)
  /\ mg_ops \in [Loops -> Seq(MiniGraphs)] /\ DistinctIds(mg_ops)
  /\ mg_used \in [Loops -> Seq(MiniGraphs)]
  /\ \A d \in Loops :
       /\ \A op \in ToSet(set_ops[d]) : OpOK(op, d)
       /\ iter_set[d] \in ToSet(set_ops[d]) \/ (iter_set[d] = None /\ phase = "create_plan")
       /\ \A mg \in ToSet(mg_ops[d]) : MiniGraphOK(mg, d)
       /\ \A mg \in ToSet(mg_used[d]) : mg_dep(mg) < d
  /\ DOMAIN mg_bounded \subseteq Nat /\ indeedUsed \subseteq DOMAIN mg_bounded

=============================================================================
