-------------------------- MODULE LoopNest_proofs ---------------------------
(***************************************************************************)
(* The program generated from a plan and what it computes, for every input *)
(* and every data graph.                                                   *)
(*                                                                         *)
(* The program declares the operands of its statements, and before they are*)
(* used if the sort has put them in order, which it does wherever operator<*)
(* is a strict weak order.  Then every set in scope is the one its         *)
(* operation stands for.                                                   *)
(*                                                                         *)
(* The maps of the pattern into the data graph then pass in lexicographic  *)
(* order, and the counter is the number of those whose turn is over that   *)
(* respect the restrictions.                                               *)
(***************************************************************************)
EXTENDS Plan_proofs

(***************************************************************************)
(* What the statements of a loop need.                                     *)
(***************************************************************************)
\* A set of the loop itself or of the one around it that a statement can start from.
OperandOf(p, op, d) ==
  \/ /\ p \in ToSet(set_ops[d]) /\ p.dep = d /\ d # input.size - 2
     /\ Sibling(p, op) /\ p.restricts # op.restricts
  \/ d # 0 /\ p \in ToSet(set_ops[d - 1]) /\ p.dep = d - 1 /\ Prefix(p, op)

\* The operations of a loop, when all are planned.
LEMMA PlannedOps ==
  ASSUME PlanInv, phase # "create_plan", NEW d \in Loops
  PROVE  /\ set_ops[d] \in Seq(Ops) /\ LoopPlanned(input, set_ops[d], iter_set[d], d)
         /\ \A op \in ToSet(set_ops[d]) : op \in Ops /\ OpOK(op, d) /\ op.dep = d
<1>1. SetsInv
  BY DEF PlanInv
<1>2. set_ops[d] \in Seq(Ops) /\ \A op \in ToSet(set_ops[d]) : OpOK(op, d)
  BY <1>1 DEF SetsInv
<1>3. \A op \in ToSet(set_ops[d]) : op \in Ops
  BY <1>2 DEF ToSet
<1>4. \A op \in ToSet(set_ops[d]) : op.dep = d
  BY <1>2 DEF OpOK
<1> QED BY <1>1, <1>2, <1>3, <1>4 DEF SetsInv

\* The last loop has one vertex left: all its operations have the same restrictions.
LEMMA NoSiblingLast ==
  ASSUME PlanInv, phase # "create_plan", NEW d \in Loops, d = input.size - 2,
         NEW p \in ToSet(set_ops[d]), NEW op \in ToSet(set_ops[d])
  PROVE  p.restricts = op.restricts
<1>1. LoopPlanned(input, set_ops[d], iter_set[d], d)
  BY PlannedOps
<1>2. input.size \in Nat
  BY InputFacts DEF PlanInv
<1>3. PICK v \in (d + 1)..(input.size - 1) : SetOf(p, input, v, d)
  BY <1>1 DEF LoopPlanned
<1>4. PICK w \in (d + 1)..(input.size - 1) : SetOf(op, input, w, d)
  BY <1>1 DEF LoopPlanned
<1>5. v = w
  BY <1>2
<1> QED BY <1>3, <1>4, <1>5 DEF SetOf

\* An operation that shares an edge with a set further out has its own set there.
LEMMA OuterSetExists ==
  ASSUME PlanInv, phase # "create_plan", NEW d \in Loops, d # 0,
         NEW op \in ToSet(set_ops[d]), op.edges \intersect 0..(d - 1) # {}
  PROVE  \E x \in ToSet(set_ops[d - 1]) : Exact(x, op, d - 1)
<1>1. /\ input.size \in Nat /\ d \in Nat /\ d - 1 \in Loops /\ d - 1 \in Nat
  BY InputFacts DEF PlanInv
<1>2. /\ LoopPlanned(input, set_ops[d], iter_set[d], d)
      /\ LoopPlanned(input, set_ops[d - 1], iter_set[d - 1], d - 1)
  BY <1>1, PlannedOps
<1>3. PICK v \in (d + 1)..(input.size - 1) : SetOf(op, input, v, d)
  BY <1>2 DEF LoopPlanned
<1>4. PICK u \in 0..(d - 1) : u \in op.edges
  OBVIOUS
<1>5. v \in ((d - 1) + 1)..(input.size - 1) /\ <<u, v>> \in input.edges
  BY <1>1, <1>3, <1>4 DEF SetOf
<1>6. PICK x \in ToSet(set_ops[d - 1]) : SetOf(x, input, v, d - 1)
  BY <1>2, <1>4, <1>5 DEF LoopPlanned
<1>7. 0..(d - 1) \subseteq 0..d
  BY <1>1
<1>8. Exact(x, op, d - 1)
  BY <1>3, <1>6, <1>7 DEF Exact, SetOf
<1> QED BY <1>8

\* get_parent_vset(op) finds the set a statement can start from, or none at all.
LEMMA OperandFacts ==
  ASSUME PlanInv, phase # "create_plan", NEW d \in Loops, NEW op \in ToSet(set_ops[d]),
         get_parent_vset(op) # None
  PROVE  OperandOf(get_parent_vset(op), op, d)
<1>1. PICK p : p = get_parent_vset(op)
  OBVIOUS
<1>2. /\ set_ops[d] \in Seq(Ops) /\ op \in Ops /\ op.dep = d /\ OpOK(op, d)
      /\ \A x \in ToSet(set_ops[d]) : x \in Ops /\ OpOK(x, d) /\ x.dep = d
  BY PlannedOps
<1>3. d \in Nat /\ (d # 0 => d - 1 \in Loops /\ d - 1 \in Nat) /\ input \in Inputs
  BY InputFacts DEF PlanInv
<1>4. \/ p \in ToSet(set_ops[d]) /\ Unbounded(p, op) /\ Sibling(p, op)
      \/ p = PrefixParent(op, d - 1)
  BY <1>1, <1>2, <1>3, ParentFacts
<1>5. CASE p \in ToSet(set_ops[d]) /\ Unbounded(p, op) /\ Sibling(p, op)
  <2>1. op.restricts # p.restricts
    BY <1>2, <1>3, <1>5, UnboundedFacts
  <2>2. d # input.size - 2
    BY <1>5, <2>1, NoSiblingLast
  <2> QED BY <1>1, <1>2, <1>5, <2>1, <2>2 DEF OperandOf
<1>6. CASE p = PrefixParent(op, d - 1)
  <2>1. d # 0
    BY <1>1, <1>2, <1>6 DEF PrefixParent
  <2>2. d - 1 \in Loops /\ d - 1 \in Nat /\ d - 1 < d
    BY <1>3, <2>1
  <2>3. /\ set_ops[d - 1] \in Seq(Ops) /\ LoopPlanned(input, set_ops[d - 1], iter_set[d - 1], d - 1)
        /\ \A x \in ToSet(set_ops[d - 1]) : x \in Ops /\ OpOK(x, d - 1) /\ x.dep = d - 1
    BY <2>2, PlannedOps
  <2>4. ASSUME NEW x \in ToSet(set_ops[d - 1]) PROVE x.id # op.id
    <3>1. PICK k \in DOMAIN set_ops[d - 1] : x = set_ops[d - 1][k]
      BY DEF ToSet
    <3>2. PICK l \in DOMAIN set_ops[d] : op = set_ops[d][l]
      BY DEF ToSet
    <3>3. DistinctIds(set_ops) /\ d - 1 # d
      BY <1>3 DEF PlanInv, SetsInv
    <3> QED BY <2>2, <3>1, <3>2, <3>3 DEF DistinctIds
  <2>5. Among(d - 1, op)
    BY <1>2, <2>2, <2>3, <2>4 DEF Among
  <2>6. p \in ToSet(set_ops[d - 1]) /\ IsSuperset(p, op)
    BY <1>1, <1>2, <1>6, <2>5, PrefixParentFacts
  <2>7. p.edges # {} /\ p.edges \subseteq 0..(d - 1) /\ p.dep = d - 1
    BY <2>3, <2>6 DEF LoopPlanned, OpOK
  <2>8. op.edges \intersect 0..(d - 1) # {}
    BY <2>6, <2>7 DEF IsSuperset
  <2>9. \E x \in ToSet(set_ops[d - 1]) : Exact(x, op, d - 1)
    BY <2>1, <2>8, OuterSetExists
  <2>10. Exact(p, op, d - 1)
    BY <1>2, <1>6, <2>5, <2>9, PrefixParentFacts
  <2>11. Prefix(p, op)
    BY <1>2, <2>10 DEF Exact, Prefix
  <2> QED BY <1>1, <2>1, <2>6, <2>7, <2>11 DEF OperandOf
<1> QED BY <1>4, <1>5, <1>6

\* The statement has its operands: the set and the row it reads are planned, and are the
\* ones it needs.
StatementFits(s, d) ==
  /\ SetFits(s, d) /\ RowFits(s, d)
  /\ s.row # None.id => \E mg \in ToSet(mg_used[d]) : mg.id = s.row
  /\ s.form = "chain" => s.from = None.id
  /\ s.form # "chain" => \E p \in SetsTo(d) :
       /\ p.id = s.from /\ ~is_last_op(p)
       /\ p.dep # d \/ (Sibling(p, s.op) /\ p.restricts # s.op.restricts)

\* gen_code_op.
LEMMA PlainFits ==
  ASSUME PlanInv, phase # "create_plan", NEW d \in Loops, NEW op \in ToSet(set_ops[d]),
         get_parent_vset(op) = None => op.edges = {d}
  PROVE  StatementFits(gen_code_op(op), d)
<1>1. PICK p : p = get_parent_vset(op)
  OBVIOUS
<1> DEFINE sibling == p # None /\ p.dep = op.dep
           form == CASE p = None -> "chain"
                     [] sibling       -> "sibling"
                     [] OTHER         -> IF IsEdge(op) THEN "intersect"
                                         ELSE IF Vertex THEN "subtract"
                                         ELSE IF IsRestricted(op) THEN "bounded" ELSE "remove"
           s == gen_code_op(op)
<1>2. s = [op |-> op, form |-> form, from |-> p.id, row |-> None.id,
           counts |-> is_last_op(op) /\ ~sibling, skips |-> p = None]
  BY <1>1 DEF gen_code_op, Statement
<1>3. op.dep = d /\ d \in Nat /\ input.size \in Nat /\ d <= input.size - 2
  BY PlannedOps, InputFacts DEF PlanInv, Loops
<1>4. /\ p = None => form = "chain"
      /\ p # None /\ p.dep = op.dep => form = "sibling"
      /\ p # None /\ p.dep # op.dep =>
           form \in {"intersect", "subtract", "bounded", "remove"}
  <2>1. ASSUME p = None PROVE form = "chain"
    BY <2>1
  <2>2. ASSUME p # None, p.dep = op.dep PROVE form = "sibling"
    BY <2>2
  <2>3. ASSUME p # None, p.dep # op.dep
        PROVE  form \in {"intersect", "subtract", "bounded", "remove"}
    <3>1. CASE IsEdge(op)
      BY <2>3, <3>1
    <3>2. CASE ~IsEdge(op)
      BY <2>3, <3>2
    <3> QED BY <3>1, <3>2
  <2> HIDE DEF form
  <2> QED BY <2>1, <2>2, <2>3
<1> HIDE DEF form, sibling
<1>5. s.op = op /\ s.form = form /\ s.from = p.id /\ s.row = None.id
  BY <1>2
<1> HIDE DEF s
<1>6. RowFits(s, d)
  BY <1>4, <1>5 DEF RowFits
<1>7. CASE p = None
  <2>1. s.form = "chain" /\ s.op.edges = {d} /\ s.from = None.id
    BY <1>1, <1>4, <1>5, <1>7
  <2> QED BY <1>5, <1>6, <2>1 DEF StatementFits, SetFits, s
<1>8. CASE p # None
  <2>1. OperandOf(p, op, d)
    BY <1>1, <1>8, OperandFacts
  <2>2. /\ p \in SetsTo(d) /\ ~is_last_op(p)
        /\ \/ p.dep = op.dep /\ Sibling(p, op) /\ p.restricts # op.restricts
           \/ p.dep # op.dep /\ Prefix(p, op)
    <3>1. CASE /\ p \in ToSet(set_ops[d]) /\ p.dep = d /\ d # input.size - 2
               /\ Sibling(p, op) /\ p.restricts # op.restricts
      <4>1. d \in 0..d
        BY <1>3
      <4> QED BY <1>3, <3>1, <4>1 DEF SetsTo, is_last_op
    <3>2. CASE d # 0 /\ p \in ToSet(set_ops[d - 1]) /\ p.dep = d - 1 /\ Prefix(p, op)
      <4>1. d - 1 \in 0..d /\ d - 1 # d /\ d - 1 # input.size - 2
        BY <1>3, <3>2
      <4> QED BY <1>3, <3>2, <4>1 DEF SetsTo, is_last_op
    <3> QED BY <2>1, <3>1, <3>2 DEF OperandOf
  <2>3. SetFits(s, d)
    <3>1. CASE p.dep = op.dep /\ Sibling(p, op)
      BY <1>4, <1>5, <1>8, <2>2, <3>1 DEF SetFits
    <3>2. CASE p.dep # op.dep /\ Prefix(p, op)
      <4>1. s.form \in {"intersect", "subtract", "bounded", "remove"}
        BY <1>4, <1>5, <1>8, <3>2
      <4> QED BY <1>5, <2>2, <3>2, <4>1 DEF SetFits
    <3> QED BY <2>2, <3>1, <3>2
  <2>4. s.form # "chain"
    BY <1>4, <1>5, <1>8
  <2> QED BY <1>3, <1>5, <1>6, <2>2, <2>3, <2>4 DEF StatementFits, s
<1> QED BY <1>7, <1>8

\* gen_code_mg_op, after its CHECKs.
LEMMA MiniGraphFits ==
  ASSUME PlanInv, phase = "gen_code", NEW d \in Loops, d <= MaxDep,
         NEW op \in ToSet(set_ops[d]), Checked(op)
  PROVE  StatementFits(gen_code_mg_op(op), d)
<1>1. PICK mg, p : mg = get_parent_mg(op) /\ p = get_parent_vset(op)
  OBVIOUS
<1>2. op.dep = d /\ d \in Nat /\ input.size \in Nat /\ d <= input.size - 2
  BY PlannedOps, InputFacts DEF PlanInv, Loops
<1>3. CASE mg = None
  <2>1. gen_code_mg_op(op) = gen_code_op(op) /\ (p = None => op.edges = {d})
    BY <1>1, <1>2, <1>3 DEF gen_code_mg_op, Checked
  <2> QED BY <1>1, <2>1, PlainFits
<1>4. CASE mg # None
  <2> DEFINE form == IF computed(mg, iter_set[op.dep - 1], op) THEN "row"
                     ELSE IF IsEdge(op) THEN "intersect" ELSE "subtract"
             s == gen_code_mg_op(op)
  <2>1. s = [op |-> op, form |-> form, from |-> p.id, row |-> mg.id,
             counts |-> is_last_op(op), skips |-> ~is_last_op(op)]
    BY <1>1, <1>4 DEF gen_code_mg_op, Statement
  <2>2. form \in {"row", "intersect", "subtract"}
        /\ (form = "row" => computed(mg, iter_set[d - 1], op))
    BY <1>2
  <2> HIDE DEF form
  <2>3. s.op = op /\ s.form = form /\ s.from = p.id /\ s.row = mg.id
    BY <2>1
  <2> HIDE DEF s
  <2>4. p # None
    BY <1>1, <1>4 DEF Checked
  <2>5. mg \in MiniGraphsTo(d - 1) /\ MGSuperset(mg, iter_set[d - 1], op)
    BY <1>1, <1>4, ParentMGFacts
  <2>6. RowFits(s, d)
    BY <2>2, <2>3, <2>5 DEF RowFits
  <2>7. mg \in ToSet(mg_used[d])
    <3>1. LoopMarked(d)
      BY DEF PlanInv, UsedInv, Collecting
    <3> QED BY <1>1, <1>4, <3>1 DEF LoopMarked
  <2>8. OperandOf(p, op, d)
    BY <1>1, <2>4, OperandFacts
  <2>9. /\ p \in SetsTo(d) /\ ~is_last_op(p)
        /\ (Sibling(p, op) /\ p.restricts # op.restricts) \/ (p.dep # d /\ Prefix(p, op))
    <3>1. CASE /\ p \in ToSet(set_ops[d]) /\ p.dep = d /\ d # input.size - 2
               /\ Sibling(p, op) /\ p.restricts # op.restricts
      <4>1. d \in 0..d
        BY <1>2
      <4> QED BY <3>1, <4>1 DEF SetsTo, is_last_op
    <3>2. CASE d # 0 /\ p \in ToSet(set_ops[d - 1]) /\ p.dep = d - 1 /\ Prefix(p, op)
      <4>1. d - 1 \in 0..d /\ d - 1 # input.size - 2 /\ d - 1 # d
        BY <1>2, <3>2
      <4> QED BY <3>2, <4>1 DEF SetsTo, is_last_op
    <3> QED BY <2>8, <3>1, <3>2 DEF OperandOf
  <2>10. SetFits(s, d)
    BY <2>2, <2>3, <2>9 DEF SetFits
  <2>11. s.form # "chain"
    BY <2>2, <2>3
  <2> QED BY <2>3, <2>6, <2>7, <2>9, <2>10, <2>11 DEF StatementFits, s
<1> QED BY <1>3, <1>4

\* gen_code_mg_build: the mini graph another one is built from keeps what that one keeps.
LEMMA SourceFound ==
  ASSUME PlanInv, NEW d \in Loops, NEW mg \in ToSet(mg_ops[d])
  PROVE  SourceFits(Build(mg), d) /\ Build(mg).parent # Build(mg).id
<1>1. PICK b, source : b = Build(mg) /\ source = MGParent(mg)
  OBVIOUS
<1>2. b.id = mg.id /\ b.parent = source.id
  BY <1>1 DEF Build
<1>6. mg.id # None.id
  <2>1. mg_ops[d] \in Seq(MiniGraphs)
    BY DEF PlanInv, MiniGraphsInv
  <2>2. mg \in MiniGraphs
    BY <2>1 DEF ToSet
  <2> QED BY <2>2 DEF MiniGraphs, None
<1> SUFFICES ASSUME b.parent # None.id PROVE SourceFits(b, d) /\ b.parent # b.id
  BY <1>1, <1>2, <1>6 DEF SourceFits
<1>3. source # None
  BY <1>2
<1>4. /\ source \in MiniGraphsTo(d) /\ MGSuperset(source, mg.vertices, mg.intersect)
      /\ source.id # mg.id
  BY <1>1, <1>3, MGParentFacts
<1>5. mg \in MiniGraphsTo(d)
  <2>1. d \in 0..d
    BY InputFacts DEF PlanInv
  <2> QED BY <2>1 DEF MiniGraphsTo
<1> QED BY <1>2, <1>4, <1>5 DEF SourceFits

\* The statements, the reads and the builds of a loop fit its plan.
FitsOf(sets, reads, builds, d) ==
  /\ \A k \in 1..Len(set_ops[d]) : StatementFits(sets[k], d)
  /\ \A mg \in ToSet(mg_used[d]) : \E r \in ToSet(reads) : r.mg = mg.id
  /\ IF d = LastLoop THEN builds = <<>>
     ELSE \A k \in 1..Len(mg_ops[d]) :
            SourceFits(builds[k], d) /\ builds[k].parent # builds[k].id

\* Those gen_code_omp generates, when no CHECK fails, do.
LEMMA FitsGenerated ==
  ASSUME PlanInv, phase = "gen_code", NEW d \in Bodies,
         \A op \in ToSet(set_ops[d]) : Checked(op)
  PROVE  FitsOf(Mapped(set_ops[d], gen_code_mg_op),
                Mapped(mg_used[d], LAMBDA mg : Read(mg, d)),
                IF d = LastLoop THEN <<>> ELSE Mapped(mg_ops[d], Build), d)
<1> DEFINE sets == Mapped(set_ops[d], gen_code_mg_op)
           reads == Mapped(mg_used[d], LAMBDA mg : Read(mg, d))
           builds == Mapped(mg_ops[d], Build)
<1>1. d \in Loops /\ d <= MaxDep
  BY InputFacts DEF PlanInv, Bodies
<1>2. set_ops[d] \in Seq(Ops) /\ mg_used[d] \in Seq(MiniGraphs) /\ mg_ops[d] \in Seq(MiniGraphs)
  BY <1>1 DEF PlanInv, SetsInv, UsedInv, MiniGraphsInv
<1>3. ASSUME NEW k \in 1..Len(set_ops[d]) PROVE StatementFits(sets[k], d)
  <2>1. k \in DOMAIN set_ops[d]
    BY <1>2
  <2>2. sets[k] = gen_code_mg_op(set_ops[d][k])
    BY <2>1 DEF Mapped
  <2>3. set_ops[d][k] \in ToSet(set_ops[d])
    BY <2>1 DEF ToSet
  <2> HIDE DEF sets
  <2> QED BY <1>1, <2>2, <2>3, MiniGraphFits
<1>4. ASSUME NEW mg \in ToSet(mg_used[d]) PROVE \E r \in ToSet(reads) : r.mg = mg.id
  <2>1. PICK k \in DOMAIN mg_used[d] : mg = mg_used[d][k]
    BY DEF ToSet
  <2>2. reads = [l \in DOMAIN mg_used[d] |-> Read(mg_used[d][l], d)]
    BY DEF Mapped
  <2>3. k \in DOMAIN reads /\ reads[k] = Read(mg, d)
    BY <2>1, <2>2
  <2> HIDE DEF reads
  <2>4. reads[k] \in ToSet(reads) /\ reads[k].mg = mg.id
    BY <2>3 DEF ToSet, Read
  <2> QED BY <2>4
<1>5. ASSUME NEW k \in 1..Len(mg_ops[d])
      PROVE  SourceFits(builds[k], d) /\ builds[k].parent # builds[k].id
  <2>1. k \in DOMAIN mg_ops[d]
    BY <1>2
  <2>2. builds[k] = Build(mg_ops[d][k])
    BY <2>1 DEF Mapped
  <2>3. mg_ops[d][k] \in ToSet(mg_ops[d])
    BY <2>1 DEF ToSet
  <2> HIDE DEF builds
  <2> QED BY <1>1, <2>2, <2>3, SourceFound
<1> HIDE DEF sets, reads, builds
<1>6. FitsOf(sets, reads, IF d = LastLoop THEN <<>> ELSE builds, d)
  BY <1>3, <1>4, <1>5 DEF FitsOf
<1> QED BY <1>6 DEF sets, reads, builds

\* A step that changes no part of the plan keeps them fitting.
LEMMA FitsStay ==
  ASSUME UNCHANGED <<input, set_ops, iter_set, mg_ops, mg_used>>,
         NEW CONSTANT sets, NEW CONSTANT reads, NEW CONSTANT builds, NEW CONSTANT d,
         FitsOf(sets, reads, builds, d)
  PROVE  FitsOf(sets, reads, builds, d)'
<1>1. LastLoop' = LastLoop
  BY InputStays
<1>2. /\ \A e : MiniGraphsTo(e)' = MiniGraphsTo(e) /\ SetsTo(e)' = SetsTo(e)
      /\ \A a, b : IsSuperset(a, b)' <=> IsSuperset(a, b)
  BY ParentStays DEF SetsTo
<1>3. \A mg, v, i : MGSuperset(mg, v, i)' <=> MGSuperset(mg, v, i)
  BY <1>2 DEF MGSuperset
<1>4. \A mg, v, i : computed(mg, v, i)' <=> computed(mg, v, i)
  BY <1>3 DEF computed
<1>5. \A op : is_last_op(op)' <=> is_last_op(op)
  BY DEF is_last_op
<1>6. PICK iter : iter = iter_set[d - 1]
  OBVIOUS
<1>7. iter_set'[d - 1] = iter
  BY <1>6
<1>8. \A s : SetFits(s, d)' <=> SetFits(s, d)
  BY <1>2 DEF SetFits, Sibling, Prefix
<1>9. \A s : RowFits(s, d)' <=> RowFits(s, d)
  BY <1>2, <1>3, <1>4, <1>6, <1>7 DEF RowFits
<1>10. \A s : StatementFits(s, d)' <=> StatementFits(s, d)
  BY <1>2, <1>5, <1>8, <1>9 DEF StatementFits
<1>11. \A b : SourceFits(b, d)' <=> SourceFits(b, d)
  BY <1>2, <1>3 DEF SourceFits
<1> QED BY <1>1, <1>10, <1>11 DEF FitsOf

(***************************************************************************)
(* The sets that operations stand for.                                     *)
(***************************************************************************)
\* A data graph has the vertices 0, 1, ..., and its edges join two of them.
GraphOK ==
  /\ IsFiniteSet(DOMAIN graph) /\ DOMAIN graph = 0..(Cardinality(DOMAIN graph) - 1)
  /\ \A v \in DOMAIN graph : v \notin graph[v] /\ graph[v] \subseteq DOMAIN graph

\* An operation looks at the vertices of its own and the enclosing loops.
Within(op) == op \in Ops /\ OpOK(op, op.dep)

\* What an operation asks of x because of the vertex y matched to u.
Allows(op, x, y, u) ==
  /\ IF u \in op.edges THEN x \in graph[y] ELSE x # y /\ (Vertex => x \notin graph[y])
  /\ u \in op.restricts => x < y

\* Candidates are those all matched vertices allow.
LEMMA CandidatesAllowed ==
  ASSUME NEW op, NEW match
  PROVE  Candidates(op, match) =
           {x \in DOMAIN graph : \A u \in 0..op.dep : Allows(op, x, match[u + 1], u)}
BY DEF Candidates, Allows

\* The loop of an operation narrows the set of the same operation one loop further out.
LEMMA PrefixNarrowed ==
  ASSUME NEW op, Within(op), NEW p, Within(p), Prefix(p, op), NEW match
  PROVE  Candidates(op, match) =
           {x \in Candidates(p, match) : Allows(op, x, match[op.dep + 1], op.dep)}
<1> DEFINE d == op.dep
<1>1. d \in Nat /\ p.dep \in Nat /\ p.dep = d - 1 /\ 0..d = 0..p.dep \union {d}
  BY DEF Within, Ops, Prefix
<1>2. \A u \in 0..p.dep :
        (u \in op.edges <=> u \in p.edges) /\ (u \in op.restricts <=> u \in p.restricts)
  BY <1>1 DEF Prefix
<1>3. \A u \in 0..p.dep : \A x : Allows(op, x, match[u + 1], u) <=> Allows(p, x, match[u + 1], u)
  BY <1>2 DEF Allows
<1> HIDE DEF d
<1>4. \A x : (\A u \in 0..d : Allows(op, x, match[u + 1], u))
               <=> /\ \A u \in 0..p.dep : Allows(p, x, match[u + 1], u)
                   /\ Allows(op, x, match[d + 1], d)
  BY <1>1, <1>3
<1> QED BY <1>4, CandidatesAllowed DEF d

\* The restriction of an operation at its own loop.
LEMMA SiblingNarrowed ==
  ASSUME NEW op, Within(op), NEW p, Within(p), Sibling(p, op), NEW match
  PROVE  Candidates(op, match) = {x \in Candidates(p, match) : x < match[op.dep + 1]}
<1> DEFINE d == op.dep
<1>1. d \in Nat /\ p.dep = d /\ p.edges = op.edges /\ d \in op.restricts
  BY DEF Within, Ops, Sibling
<1>2. \A u \in 0..d : u # d => (u \in op.restricts <=> u \in p.restricts)
  BY <1>1 DEF Sibling
<1>3. \A u \in p.restricts : u \in op.restricts
  BY DEF Sibling
<1> HIDE DEF d
<1>4. \A x : \A u \in 0..d :
        /\ u # d => (Allows(op, x, match[u + 1], u) <=> Allows(p, x, match[u + 1], u))
        /\ Allows(op, x, match[d + 1], d)
             <=> Allows(p, x, match[d + 1], d) /\ x < match[d + 1]
  BY <1>1, <1>2, <1>3 DEF Allows
<1>5. d \in 0..d
  BY <1>1
<1>6. \A x : (\A u \in 0..d : Allows(op, x, match[u + 1], u))
               <=> (\A u \in 0..d : Allows(p, x, match[u + 1], u)) /\ x < match[d + 1]
  BY <1>4, <1>5
<1> QED BY <1>1, <1>6, CandidatesAllowed DEF d

\* is_superset_of says of two operations what it promises of their sets.
LEMMA SupersetContains ==
  ASSUME GraphOK, NEW a, Within(a), NEW b, Within(b), IsSuperset(a, b),
         NEW match \in Seq(DOMAIN graph), b.dep < Len(match)
  PROVE  Candidates(b, match) \subseteq Candidates(a, match)
<1> SUFFICES ASSUME NEW x \in DOMAIN graph, NEW u \in 0..a.dep,
                    \A w \in 0..b.dep : Allows(b, x, match[w + 1], w)
             PROVE  Allows(a, x, match[u + 1], u)
  BY CandidatesAllowed
<1>1. a.dep \in Nat /\ b.dep \in Nat /\ a.dep <= b.dep
  BY DEF Within, Ops, IsSuperset
<1>2. u \in 0..b.dep /\ u + 1 \in 1..Len(match)
  BY <1>1
<1>3. match[u + 1] \in DOMAIN graph
  BY <1>2
<1>4. Allows(b, x, match[u + 1], u)
  BY <1>2
<1>5. x \in graph[match[u + 1]] => x # match[u + 1]
  BY <1>3 DEF GraphOK
<1>6. u \in a.restricts => u \in b.restricts
  BY DEF IsSuperset
<1>7. u \in a.edges => u \in b.edges
  BY DEF IsSuperset
<1>8. Vertex /\ u \in b.edges => u \in a.edges
  BY DEF IsSuperset
<1> QED BY <1>4, <1>5, <1>6, <1>7, <1>8 DEF Allows

\* What contains the set of an operation contains the operand of its statement, unless
\* it is of the same loop.
LEMMA OperandInSuperset ==
  ASSUME NEW a, Within(a), NEW op, Within(op), NEW p, Within(p), IsSuperset(a, op),
         a.dep < op.dep, Prefix(p, op) \/ Sibling(p, op)
  PROVE  IsSuperset(a, p)
<1>1. /\ a.dep \in Nat /\ op.dep \in Nat /\ p.dep \in Nat
      /\ a.edges \subseteq 0..a.dep /\ a.restricts \subseteq 0..a.dep
  BY DEF Within, Ops, OpOK
<1>2. CASE Prefix(p, op)
  <2>1. a.dep <= p.dep /\ 0..a.dep \subseteq 0..(op.dep - 1)
    BY <1>1, <1>2 DEF Prefix
  <2>2. /\ a.restricts \subseteq p.restricts
        /\ a.edges \subseteq op.edges => a.edges \subseteq p.edges
    BY <1>1, <1>2, <2>1 DEF Prefix, IsSuperset
  <2>3. op.edges \intersect 0..a.dep = p.edges \intersect 0..a.dep
    BY <1>2, <2>1 DEF Prefix
  <2> QED BY <2>1, <2>2, <2>3 DEF IsSuperset
<1>3. CASE Sibling(p, op)
  <2>1. op.dep \notin a.restricts
    BY <1>1
  <2> QED BY <1>3, <2>1 DEF Sibling, IsSuperset
<1> QED BY <1>2, <1>3

\* Candidates do not depend on vertices matched later.
LEMMA CandidatesStay ==
  ASSUME NEW op, Within(op), NEW S, NEW match \in Seq(S), op.dep < Len(match), NEW v \in S
  PROVE  Candidates(op, Append(match, v)) = Candidates(op, match)
<1>1. \A u \in 0..op.dep : u + 1 \in 1..Len(match)
  BY DEF Within, Ops
<1>2. \A u \in 0..op.dep : Append(match, v)[u + 1] = match[u + 1]
  BY <1>1
<1> QED BY <1>2, CandidatesAllowed

(***************************************************************************)
(* The order of a set, and induction along a list.                         *)
(***************************************************************************)
\* Ascending lists the members of a finite set of numbers by how many are not above.
LEMMA AscendingFacts ==
  ASSUME NEW T \in SUBSET Nat, IsFiniteSet(T)
  PROVE  /\ Cardinality(T) \in Nat /\ DOMAIN Ascending(T) = 1..Cardinality(T)
         /\ Len(Ascending(T)) = Cardinality(T)
         /\ \A k \in 1..Cardinality(T) :
              /\ Ascending(T)[k] \in T
              /\ Cardinality({y \in T : y <= Ascending(T)[k]}) = k
         /\ \A x \in T : \A k \in 1..Cardinality(T) :
              Cardinality({y \in T : y <= x}) = k => Ascending(T)[k] = x
<1> DEFINE n == Cardinality(T)
           Low(i) == {y \in T : y <= i}
           place == [i \in T |-> Cardinality(Low(i))]
<1>1. n \in Nat
  BY FS_CardinalityType
<1>2. ASSUME NEW i \in T PROVE IsFiniteSet(Low(i)) /\ Cardinality(Low(i)) \in 1..n
  <2>1. Low(i) \in SUBSET T /\ i \in Low(i)
    OBVIOUS
  <2>2. IsFiniteSet(Low(i)) /\ Cardinality(Low(i)) <= n
    BY <2>1, FS_Subset
  <2>3. Cardinality(Low(i)) \in Nat /\ Cardinality(Low(i)) # 0
    BY <2>1, <2>2, FS_CardinalityType, FS_EmptySet
  <2> HIDE DEF Low, n
  <2> QED BY <1>1, <2>2, <2>3
<1>3. ASSUME NEW i \in T, NEW k \in T, i < k PROVE Cardinality(Low(i)) # Cardinality(Low(k))
  <2>1. i \in Nat /\ k \in Nat /\ \A j \in T : j \in Nat
    OBVIOUS
  <2>2. \A j \in T : j <= i => j <= k
    BY <1>3, <2>1
  <2>3. k <= k /\ ~(k <= i)
    BY <1>3, <2>1
  <2>4. Low(i) \in SUBSET Low(k) /\ k \in Low(k) /\ k \notin Low(i)
    BY <2>2, <2>3
  <2> QED BY <1>2, <2>4, FS_Subset
<1>4. ASSUME NEW i \in T, NEW k \in T, Cardinality(Low(i)) = Cardinality(Low(k)) PROVE i = k
  <2>1. i < k \/ k < i \/ i = k
    OBVIOUS
  <2> QED BY <1>3, <1>4, <2>1
<1> HIDE DEF Low, n
<1>5. place \in Injection(T, 1..n)
  BY <1>2, <1>4 DEF Injection, IsInjective
<1>6. IsFiniteSet(1..n) /\ Cardinality(1..n) = n
  BY <1>1, FS_Interval
<1>7. place \in Surjection(T, 1..n)
  BY <1>5, <1>6, FS_Injection DEF n
<1>8. \A k \in 1..n : \E i \in T : Cardinality(Low(i)) = k
  BY <1>7 DEF Surjection
<1> DEFINE At(k) == CHOOSE x \in T : Cardinality(Low(x)) = k
<1>9. Ascending(T) = [k \in 1..n |-> At(k)]
  BY DEF Ascending, Low, n
<1>10. \A k \in 1..n : At(k) \in T /\ Cardinality(Low(At(k))) = k
  BY <1>8
<1>11. \A x \in T : \A k \in 1..n : Cardinality(Low(x)) = k => At(k) = x
  BY <1>4, <1>10
<1> HIDE DEF At
<1>12. DOMAIN Ascending(T) = 1..n /\ Len(Ascending(T)) = n
  <2>1. Ascending(T) \in Seq(T)
    BY <1>1, <1>9, <1>10
  <2> QED BY <1>1, <1>9, <2>1
<1>13. \A k \in 1..n : Ascending(T)[k] \in T /\ Cardinality(Low(Ascending(T)[k])) = k
  BY <1>9, <1>10
<1>14. \A x \in T : \A k \in 1..n : Cardinality(Low(x)) = k => Ascending(T)[k] = x
  BY <1>9, <1>11
<1> QED BY <1>1, <1>12, <1>13, <1>14 DEF n, Low

\* Sets that begin at the same address: the shorter one is the beginning of the other.
LEMMA BeginningOf ==
  ASSUME NEW R \in SUBSET Nat, IsFiniteSet(R), NEW I \in SUBSET R,
         \A x \in I : \A y \in R : y <= x => y \in I,
         NEW k \in 1..Cardinality(I)
  PROVE  Ascending(R)[k] = Ascending(I)[k]
<1> DEFINE x == Ascending(I)[k]
<1>1. I \in SUBSET Nat /\ IsFiniteSet(I) /\ Cardinality(I) <= Cardinality(R)
  BY FS_Subset
<1>2. Cardinality(I) \in Nat /\ Cardinality(R) \in Nat
  BY <1>1, FS_CardinalityType
<1>3. x \in I /\ Cardinality({y \in I : y <= x}) = k
  BY <1>1, AscendingFacts
<1> HIDE DEF x
<1>4. {y \in R : y <= x} = {y \in I : y <= x}
  BY <1>3
<1>5. k \in 1..Cardinality(R) /\ x \in R /\ Cardinality({y \in R : y <= x}) = k
  BY <1>1, <1>2, <1>3, <1>4
<1>6. Ascending(R)[k] = x
  BY <1>5, AscendingFacts
<1> QED BY <1>6 DEF x

(***************************************************************************)
(* The bodies.                                                             *)
(***************************************************************************)
\* The statements of a body take effect one after the other.
LEMMA ExecutedInOrder ==
  ASSUME NEW start, NEW statements, NEW read, Len(statements) \in Nat
  PROVE  \E f : /\ f[0] = start
                /\ \A k \in 1..Len(statements) : f[k] = Execute(f[k - 1], statements[k], read)
                /\ Executed(start, statements, read) = f[Len(statements)]
<1> DEFINE n == Len(statements)
           Is(f, m) == f = [k \in 0..m |->
                              IF k = 0 THEN start ELSE Execute(f[k - 1], statements[k], read)]
           Done == {m \in 0..n : \E f : Is(f, m)}
<1>1. n \in Nat
  OBVIOUS
<1> HIDE DEF n
<1>2. 0 \in Done
  <2> DEFINE f == [k \in 0..0 |-> start]
  <2>1. Is(f, 0)
    OBVIOUS
  <2> HIDE DEF f, Is
  <2> QED BY <1>1, <2>1
<1>3. ASSUME NEW m \in 0..(n - 1), m \in Done PROVE m + 1 \in Done
  <2>1. PICK f : Is(f, m)
    BY <1>3
  <2> DEFINE g == [k \in 0..(m + 1) |->
                     IF k = m + 1 THEN Execute(f[m], statements[m + 1], read) ELSE f[k]]
  <2>2. \A k \in 0..m : g[k] = f[k]
    BY <1>1
  <2>3. \A k \in 0..m : f[k] = IF k = 0 THEN start ELSE Execute(f[k - 1], statements[k], read)
    BY <2>1
  <2>4. ASSUME NEW k \in 0..(m + 1)
        PROVE  g[k] = IF k = 0 THEN start ELSE Execute(g[k - 1], statements[k], read)
    <3>1. CASE k = m + 1
      <4>1. k # 0 /\ k - 1 = m /\ m \in 0..m
        BY <1>1, <3>1
      <4>2. g[k] = Execute(f[m], statements[k], read)
        BY <3>1
      <4> HIDE DEF g
      <4> QED BY <2>2, <4>1, <4>2
    <3>2. CASE k # m + 1
      <4>1. k \in 0..m /\ (k # 0 => k - 1 \in 0..m)
        BY <1>1, <3>2
      <4> HIDE DEF g
      <4> QED BY <2>2, <2>3, <4>1
    <3> QED BY <3>1, <3>2
  <2>5. Is(g, m + 1)
    <3>1. g = [k \in 0..(m + 1) |-> g[k]]
      OBVIOUS
    <3> HIDE DEF g
    <3> QED BY <2>4, <3>1
  <2> HIDE DEF g, Is
  <2>6. m + 1 \in 0..n
    BY <1>1
  <2> QED BY <2>5, <2>6
<1>4. n \in Done
  <2> HIDE DEF Done
  <2>1. 0..n \subseteq Done
    BY <1>1, <1>2, <1>3, UpTo
  <2> QED BY <1>1, <2>1
<1>5. Is(CHOOSE f : Is(f, n), n)
  BY <1>4, Zenon
<1> DEFINE h == CHOOSE f : Is(f, n)
<1>6. Executed(start, statements, read) = h[n]
  BY DEF Executed, n
<1>7. h = [k \in 0..n |-> IF k = 0 THEN start ELSE Execute(h[k - 1], statements[k], read)]
  BY <1>5
<1> HIDE DEF h, Is
<1>8. h[0] = start /\ \A k \in 1..n : h[k] = Execute(h[k - 1], statements[k], read)
  BY <1>1, <1>7
<1> QED BY <1>6, <1>8 DEF n

\* What a body adds to the mini graphs in scope.
Add(frame, b) == [frame EXCEPT !.rows = With(@, b.id, Rows(frame, b))]

\* The mini graphs of a body are built one after the other.
LEMMA BuiltInOrder ==
  ASSUME NEW start, NEW builds, Len(builds) \in Nat
  PROVE  \E f : /\ f[0] = start
                /\ \A k \in 1..Len(builds) : f[k] = Add(f[k - 1], builds[k])
                /\ Built(start, builds) = f[Len(builds)]
<1> DEFINE n == Len(builds)
           Is(f, m) == f = [k \in 0..m |-> IF k = 0 THEN start ELSE Add(f[k - 1], builds[k])]
           Done == {m \in 0..n : \E f : Is(f, m)}
<1>1. n \in Nat
  OBVIOUS
<1> HIDE DEF n
<1>2. 0 \in Done
  <2> DEFINE f == [k \in 0..0 |-> start]
  <2>1. Is(f, 0)
    OBVIOUS
  <2> HIDE DEF f, Is
  <2> QED BY <1>1, <2>1
<1>3. ASSUME NEW m \in 0..(n - 1), m \in Done PROVE m + 1 \in Done
  <2>1. PICK f : Is(f, m)
    BY <1>3
  <2> DEFINE g == [k \in 0..(m + 1) |-> IF k = m + 1 THEN Add(f[m], builds[m + 1]) ELSE f[k]]
  <2>2. \A k \in 0..m : g[k] = f[k]
    BY <1>1
  <2>3. \A k \in 0..m : f[k] = IF k = 0 THEN start ELSE Add(f[k - 1], builds[k])
    BY <2>1
  <2>4. ASSUME NEW k \in 0..(m + 1)
        PROVE  g[k] = IF k = 0 THEN start ELSE Add(g[k - 1], builds[k])
    <3>1. CASE k = m + 1
      <4>1. k # 0 /\ k - 1 = m /\ m \in 0..m
        BY <1>1, <3>1
      <4>2. g[k] = Add(f[m], builds[k])
        BY <3>1
      <4> HIDE DEF g
      <4> QED BY <2>2, <4>1, <4>2
    <3>2. CASE k # m + 1
      <4>1. k \in 0..m /\ (k # 0 => k - 1 \in 0..m)
        BY <1>1, <3>2
      <4> HIDE DEF g
      <4> QED BY <2>2, <2>3, <4>1
    <3> QED BY <3>1, <3>2
  <2>5. Is(g, m + 1)
    <3>1. g = [k \in 0..(m + 1) |-> g[k]]
      OBVIOUS
    <3> HIDE DEF g
    <3> QED BY <2>4, <3>1
  <2> HIDE DEF g, Is
  <2>6. m + 1 \in 0..n
    BY <1>1
  <2> QED BY <2>5, <2>6
<1>4. n \in Done
  <2> HIDE DEF Done
  <2>1. 0..n \subseteq Done
    BY <1>1, <1>2, <1>3, UpTo
  <2> QED BY <1>1, <2>1
<1>5. Is(CHOOSE f : Is(f, n), n)
  BY <1>4, Zenon
<1> DEFINE h == CHOOSE f : Is(f, n)
<1>6. Built(start, builds) = h[n]
  BY DEF Built, Add, n
<1>7. h = [k \in 0..n |-> IF k = 0 THEN start ELSE Add(h[k - 1], builds[k])]
  BY <1>5
<1> HIDE DEF h, Is
<1>8. h[0] = start /\ \A k \in 1..n : h[k] = Add(h[k - 1], builds[k])
  BY <1>1, <1>7
<1> QED BY <1>6, <1>8 DEF n

\* Vertices are numbers.
LEMMA GraphFacts ==
  ASSUME GraphOK
  PROVE  DOMAIN graph \subseteq Nat /\ \A set \in SUBSET DOMAIN graph : IsFiniteSet(set)
<1> DEFINE n == Cardinality(DOMAIN graph)
<1>1. DOMAIN graph = 0..(n - 1) /\ IsFiniteSet(DOMAIN graph)
  BY DEF GraphOK
<1>2. n \in Nat
  BY <1>1, FS_CardinalityType
<1> HIDE DEF n
<1> QED BY <1>1, <1>2, FS_Subset

\* A row serves an operation if it tells which of the operand's vertices are neighbours.
Serves(ids, op, set, v) ==
  \A x \in set : (IsRestricted(op) => x < v) => (x \in ids <=> x \in graph[v])

\* The forms of a statement that has an operand.
LEMMA NarrowedByForm ==
  ASSUME GraphOK, NEW op, Within(op), NEW p, Within(p), Prefix(p, op) \/ Sibling(p, op),
         NEW match, NEW v \in DOMAIN graph, v = match[op.dep + 1],
         NEW ids, Serves(ids, op, Candidates(p, match), v)
  PROVE  /\ IsEdge(op) =>
              {x \in Candidates(p, match) \intersect ids : IsRestricted(op) => x < v}
                = Candidates(op, match)
         /\ ~IsEdge(op) /\ Vertex =>
              {x \in Candidates(p, match) \ (ids \union {v}) : IsRestricted(op) => x < v}
                = Candidates(op, match)
         /\ ~IsEdge(op) /\ ~Vertex /\ IsRestricted(op) =>
              {x \in Candidates(p, match) : x < v} = Candidates(op, match)
         /\ ~IsEdge(op) /\ ~Vertex /\ ~IsRestricted(op) =>
              Candidates(p, match) \ {v} = Candidates(op, match)
<1> DEFINE d == op.dep
           left == Candidates(p, match)
<1>1. d \in Nat /\ d \in 0..d
  BY DEF Within, Ops
<1>2. left \subseteq DOMAIN graph /\ DOMAIN graph \subseteq Nat
  BY CandidatesAllowed, GraphFacts
<1>3. \A x \in left : x < v => x # v
  BY <1>2
<1>4. CASE Prefix(p, op)
  <2>1. Candidates(op, match) = {x \in left : Allows(op, x, v, d)}
    BY <1>4, PrefixNarrowed
  <2> HIDE DEF left
  <2> QED BY <1>3, <2>1 DEF Serves, Allows, IsEdge, IsRestricted, left
<1>5. CASE Sibling(p, op)
  <2>1. Candidates(op, match) = {x \in left : x < v}
    BY <1>5, SiblingNarrowed
  <2>2. \A x \in left : Allows(p, x, v, d)
    <3>1. p.dep = d
      BY <1>5 DEF Sibling
    <3> QED BY <1>1, <3>1, CandidatesAllowed
  <2>3. p.edges = op.edges /\ d \in op.restricts
    BY <1>5 DEF Sibling
  <2>4. \A x \in left : IF IsEdge(op) THEN x \in graph[v] ELSE Vertex => x \notin graph[v]
    BY <2>2, <2>3 DEF Allows, IsEdge
  <2>5. IsRestricted(op)
    BY <2>3 DEF IsRestricted
  <2> HIDE DEF left
  <2> QED BY <1>3, <2>1, <2>4, <2>5 DEF Serves, left
<1> QED BY <1>4, <1>5

\* The statement without an operand.
LEMMA ChainedFromRoot ==
  ASSUME GraphOK, NEW op, Within(op), op.edges = {op.dep},
         NEW match \in Seq(DOMAIN graph), Len(match) = op.dep + 1
  PROVE  Chain(op, match) = Candidates(op, match)
<1> DEFINE d == op.dep
           At(u) == match[u + 1]
<1>1. d \in Nat /\ 0..d = 0..(d - 1) \union {d} /\ \A u \in 0..(d - 1) : u # d
  BY DEF Within, Ops
<1>2. \A u \in 0..d : At(u) \in DOMAIN graph
  <2>1. \A u \in 0..d : u + 1 \in 1..Len(match)
    BY <1>1
  <2> QED BY <2>1
<1>3. DOMAIN graph \subseteq Nat /\ graph[At(d)] \subseteq DOMAIN graph
  BY <1>1, <1>2, GraphFacts DEF GraphOK
<1>4. \A u \in 0..d : At(u) \in Int
  BY <1>2, <1>3
<1>5. Chain(op, match) =
        {x \in graph[At(d)] :
           /\ d \in op.restricts => x < At(d)
           /\ \A u \in 0..(d - 1) :
                /\ u \in op.restricts => x < At(u)
                /\ u \notin op.restricts => x # At(u)
                /\ Vertex => x \notin graph[At(u)]}
  BY DEF Chain, IsRestricted
<1>6. Candidates(op, match) = {x \in DOMAIN graph : \A u \in 0..d : Allows(op, x, At(u), u)}
  BY CandidatesAllowed
<1> HIDE DEF d, At
<1>7. \A x \in DOMAIN graph : \A u \in 0..(d - 1) :
        Allows(op, x, At(u), u) <=>
          /\ u \in op.restricts => x < At(u)
          /\ u \notin op.restricts => x # At(u)
          /\ Vertex => x \notin graph[At(u)]
  <2>1. \A u \in 0..(d - 1) : u \notin op.edges /\ u \in 0..d
    BY <1>1 DEF d
  <2>2. \A x \in DOMAIN graph : \A u \in 0..d : x < At(u) => x # At(u)
    BY <1>3, <1>4
  <2> QED BY <2>1, <2>2 DEF Allows
<1>8. \A x : Allows(op, x, At(d), d) <=> x \in graph[At(d)] /\ (d \in op.restricts => x < At(d))
  BY DEF Allows, d
<1> QED BY <1>1, <1>3, <1>5, <1>6, <1>7, <1>8

(***************************************************************************)
(* The plan and its program.                                               *)
(***************************************************************************)
\* What the form of a statement says of its operation.
Formed(s) ==
  /\ s.form \in {"chain", "sibling", "intersect", "subtract", "bounded", "remove", "row"}
  /\ s.form = "intersect" => IsEdge(s.op)
  /\ s.form = "subtract" => ~IsEdge(s.op) /\ Vertex
  /\ s.form = "bounded" => ~IsEdge(s.op) /\ ~Vertex /\ IsRestricted(s.op) /\ s.row = None.id
  /\ s.form = "remove" => ~IsEdge(s.op) /\ ~Vertex /\ ~IsRestricted(s.op) /\ s.row = None.id
  /\ s.form \in {"chain", "sibling"} => s.row = None.id
  /\ s.counts <=> is_last_op(s.op) /\ s.form # "sibling"

\* A list made from another one, element by element.
Listed(made, list) == Len(made) = Len(list) /\ DOMAIN made = 1..Len(list)

BuildOf(b, mg, d) ==
  /\ b.id = mg.id /\ b.vertices = mg.vertices.id /\ b.intersect = mg.intersect.id
  /\ b.iter = iter_set[d].id /\ b.bounded = mg_bounded[mg.id]

\* The statements, the reads and the builds of loop d are those of its operations.
BodyOf(sets, reads, builds, d) ==
  /\ Listed(sets, set_ops[d])
  /\ \A k \in 1..Len(set_ops[d]) : sets[k].op = set_ops[d][k] /\ Formed(sets[k])
  /\ \A r \in ToSet(reads) :
       \E mg \in ToSet(mg_used[d]) : r.mg = mg.id /\ (r.direct => SameAddress(mg, d))
  /\ d # LastLoop =>
       /\ Listed(builds, mg_ops[d])
       /\ \A k \in 1..Len(mg_ops[d]) : BuildOf(builds[k], mg_ops[d][k], d)

CodeOf(d) ==
  /\ BodyOf(code.sets[d], code.reads[d], code.builds[d], d)
  /\ FitsOf(code.sets[d], code.reads[d], code.builds[d], d)

\* The program is the one generated for the plan.
Coded == Generated /\ PlanTypeOK /\ \A d \in Bodies : CodeOf(d)

\* It also passes the checks.
Ready ==
  /\ Generated /\ PlanTypeOK /\ OperandsDeclared /\ BoundedRowsSuffice
  /\ \A d \in Bodies : CodeOf(d)

\* The bodies are those of the plan's loops, all or the outer ones.
LEMMA LoopFacts ==
  ASSUME PlanTypeOK
  PROVE  /\ input.size \in Nat /\ LastLoop \in Nat /\ LastLoop <= input.size - 2
         /\ Bodies \subseteq Loops /\ \A d \in Bodies : d \in Nat
         /\ \A d \in Loops : \A e \in 0..d : e \in Loops
<1>1. input \in Inputs
  BY DEF PlanTypeOK
<1>2. input.size \in Nat /\ input.size >= 3 /\ input.iep.num \in 0..(input.size - 1)
  BY <1>1, PlanAssumption DEF Scheduled
<1> DEFINE s == input.size
           n == input.iep.num
<1>3. LastLoop = IF input.matType = "EdgeInducedIEP" /\ n > 1 THEN s - n - 1 ELSE s - 2
  BY <1>2 DEF LastLoop, iep_num, iep_depth
<1>4. LastLoop \in Nat /\ LastLoop <= s - 2
  <2> HIDE DEF s, n
  <2> QED BY <1>2, <1>3 DEF s, n
<1> HIDE DEF s
<1> QED BY <1>2, <1>4 DEF Bodies, Loops, s

\* The operations of a loop.
LEMMA OpsFacts ==
  ASSUME PlanTypeOK, NEW d \in Loops
  PROVE  /\ set_ops[d] \in Seq(Ops)
         /\ \A op \in ToSet(set_ops[d]) : Within(op) /\ op.dep = d
         /\ phase # "create_plan" => iter_set[d] \in ToSet(set_ops[d])
<1>1. set_ops \in [Loops -> Seq(Ops)] /\ \A op \in ToSet(set_ops[d]) : OpOK(op, d)
  BY DEF PlanTypeOK
<1>2. set_ops[d] \in Seq(Ops)
  BY <1>1
<1>3. \A op \in ToSet(set_ops[d]) : op \in Ops
  BY <1>2 DEF ToSet
<1>4. phase # "create_plan" => iter_set[d] \in ToSet(set_ops[d])
  BY DEF PlanTypeOK
<1>5. \A op : OpOK(op, d) => op.dep = d /\ OpOK(op, op.dep)
  BY DEF OpOK
<1> QED BY <1>1, <1>2, <1>3, <1>4, <1>5 DEF Within

\* The sets in scope: an id stands for one operation.
LEMMA ScopeFacts ==
  ASSUME PlanTypeOK, NEW d \in Loops
  PROVE  /\ \A op \in SetsTo(d) : Within(op) /\ op.dep \in 0..d /\ op \in ToSet(set_ops[op.dep])
         /\ \A e \in 0..d : ToSet(set_ops[e]) \subseteq SetsTo(d) /\ SetsTo(e) \subseteq SetsTo(d)
         /\ \A o, p \in SetsTo(d) : o.id = p.id => o = p
<1>1. \A e \in 0..d : e \in Loops /\ 0..e \subseteq 0..d
  BY LoopFacts DEF Loops
<1>2. ASSUME NEW op \in SetsTo(d)
      PROVE  Within(op) /\ op.dep \in 0..d /\ op \in ToSet(set_ops[op.dep])
  <2>1. PICK e \in 0..d : op \in ToSet(set_ops[e])
    BY DEF SetsTo
  <2>2. e \in Loops
    BY <1>1
  <2> QED BY <2>1, <2>2, OpsFacts
<1>3. \A e \in 0..d : ToSet(set_ops[e]) \subseteq SetsTo(d) /\ SetsTo(e) \subseteq SetsTo(d)
  BY <1>1 DEF SetsTo
<1>4. ASSUME NEW o \in SetsTo(d), NEW p \in SetsTo(d), o.id = p.id PROVE o = p
  <2>1. PICK e \in 0..d : \E k \in DOMAIN set_ops[e] : set_ops[e][k] = o
    BY DEF SetsTo, ToSet
  <2>2. PICK f \in 0..d : \E k \in DOMAIN set_ops[f] : set_ops[f][k] = p
    BY DEF SetsTo, ToSet
  <2>3. DistinctIds(set_ops) /\ e \in Loops /\ f \in Loops
    BY <1>1 DEF PlanTypeOK
  <2> QED BY <1>4, <2>1, <2>2, <2>3 DEF DistinctIds
<1> QED BY <1>2, <1>3, <1>4

\* The mini graphs in scope.
LEMMA MiniGraphFacts ==
  ASSUME PlanTypeOK, NEW d, d \in Loops \/ d = -1
  PROVE  /\ \A mg \in MiniGraphsTo(d) :
              /\ mg.id \in Nat /\ mg_dep(mg) \in 0..d /\ mg \in ToSet(mg_ops[mg_dep(mg)])
              /\ Within(mg.vertices) /\ Within(mg.intersect)
              /\ mg.vertices \in ToSet(set_ops[mg_dep(mg)])
              /\ mg.intersect \in ToSet(set_ops[mg_dep(mg)])
              /\ mg.intersect.dep = mg_dep(mg) /\ mg.vertices.dep = mg_dep(mg)
         /\ \A e \in 0..d :
              ToSet(mg_ops[e]) \subseteq MiniGraphsTo(d)
              /\ MiniGraphsTo(e) \subseteq MiniGraphsTo(d)
         /\ \A a, b \in MiniGraphsTo(d) : a.id = b.id => a = b
<1>1. \A e \in 0..d : e \in Loops /\ 0..e \subseteq 0..d
  BY LoopFacts DEF Loops
<1>2. ASSUME NEW mg \in MiniGraphsTo(d)
      PROVE  /\ mg.id \in Nat /\ mg_dep(mg) \in 0..d /\ mg \in ToSet(mg_ops[mg_dep(mg)])
             /\ Within(mg.vertices) /\ Within(mg.intersect)
             /\ mg.vertices \in ToSet(set_ops[mg_dep(mg)])
             /\ mg.intersect \in ToSet(set_ops[mg_dep(mg)])
             /\ mg.intersect.dep = mg_dep(mg) /\ mg.vertices.dep = mg_dep(mg)
  <2>1. PICK e \in 0..d : mg \in ToSet(mg_ops[e])
    BY DEF MiniGraphsTo
  <2>2. e \in Loops /\ mg_ops[e] \in Seq(MiniGraphs) /\ MiniGraphOK(mg, e)
    BY <1>1, <2>1 DEF PlanTypeOK
  <2>3. mg \in MiniGraphs
    BY <2>1, <2>2 DEF ToSet
  <2>4. mg.id \in Nat
    BY <2>3 DEF MiniGraphs
  <2>5. mg.vertices \in ToSet(set_ops[e]) /\ mg.intersect \in ToSet(set_ops[e])
    BY <2>2 DEF MiniGraphOK
  <2>6. /\ Within(mg.vertices) /\ mg.vertices.dep = e
        /\ Within(mg.intersect) /\ mg.intersect.dep = e
    BY <2>2, <2>5, OpsFacts
  <2> QED BY <2>1, <2>4, <2>5, <2>6 DEF mg_dep
<1>3. \A e \in 0..d :
        ToSet(mg_ops[e]) \subseteq MiniGraphsTo(d) /\ MiniGraphsTo(e) \subseteq MiniGraphsTo(d)
  BY <1>1 DEF MiniGraphsTo
<1>4. ASSUME NEW a \in MiniGraphsTo(d), NEW b \in MiniGraphsTo(d), a.id = b.id PROVE a = b
  <2>1. PICK e \in 0..d : \E k \in DOMAIN mg_ops[e] : mg_ops[e][k] = a
    BY DEF MiniGraphsTo, ToSet
  <2>2. PICK f \in 0..d : \E k \in DOMAIN mg_ops[f] : mg_ops[f][k] = b
    BY DEF MiniGraphsTo, ToSet
  <2>3. DistinctIds(mg_ops) /\ e \in Loops /\ f \in Loops
    BY <1>1 DEF PlanTypeOK
  <2> QED BY <1>4, <2>1, <2>2, <2>3 DEF DistinctIds
<1> QED BY <1>2, <1>3, <1>4

\* gen_code_op.
LEMMA PlainStatement ==
  ASSUME NEW op
  PROVE  gen_code_op(op).op = op /\ Formed(gen_code_op(op))
<1> DEFINE parent == get_parent_vset(op)
           sibling == parent # None /\ parent.dep = op.dep
           form == CASE parent = None -> "chain"
                     [] sibling       -> "sibling"
                     [] OTHER         -> IF IsEdge(op) THEN "intersect"
                                         ELSE IF Vertex THEN "subtract"
                                         ELSE IF IsRestricted(op) THEN "bounded" ELSE "remove"
           s == gen_code_op(op)
<1>1. s = [op |-> op, form |-> form, from |-> parent.id, row |-> None.id,
           counts |-> is_last_op(op) /\ ~sibling, skips |-> parent = None]
  BY DEF gen_code_op, Statement
<1>2. /\ form \in {"chain", "sibling", "intersect", "subtract", "bounded", "remove"}
      /\ form = "intersect" => IsEdge(op)
      /\ form = "subtract" => ~IsEdge(op) /\ Vertex
      /\ form = "bounded" => ~IsEdge(op) /\ ~Vertex /\ IsRestricted(op)
      /\ form = "remove" => ~IsEdge(op) /\ ~Vertex /\ ~IsRestricted(op)
      /\ form = "sibling" <=> sibling
  <2> HIDE DEF parent
  <2>1. CASE parent = None
    BY <2>1
  <2>2. CASE sibling
    BY <2>2
  <2>3. CASE parent # None /\ ~sibling /\ IsEdge(op)
    BY <2>3
  <2>4. CASE parent # None /\ ~sibling /\ ~IsEdge(op)
    BY <2>4
  <2> QED BY <2>1, <2>2, <2>3, <2>4
<1> HIDE DEF form, sibling, parent
<1> HIDE DEF s
<1>3. /\ s.op = op /\ s.form = form /\ s.row = None.id
      /\ s.counts <=> is_last_op(op) /\ ~sibling
  BY <1>1
<1> QED BY <1>2, <1>3 DEF Formed, s

\* gen_code_mg_op.
LEMMA MiniGraphStatement ==
  ASSUME NEW op
  PROVE  gen_code_mg_op(op).op = op /\ Formed(gen_code_mg_op(op))
<1> DEFINE mg == get_parent_mg(op)
           form == IF computed(mg, iter_set[op.dep - 1], op) THEN "row"
                   ELSE IF IsEdge(op) THEN "intersect" ELSE "subtract"
           s == gen_code_mg_op(op)
<1>1. CASE mg = None
  <2>1. s = gen_code_op(op)
    BY <1>1 DEF gen_code_mg_op
  <2> QED BY <2>1, PlainStatement
<1>2. CASE mg # None
  <2>1. s = [op |-> op, form |-> form, from |-> get_parent_vset(op).id, row |-> mg.id,
             counts |-> is_last_op(op), skips |-> ~is_last_op(op)]
    BY <1>2 DEF gen_code_mg_op, Statement
  <2>2. Vertex \/ IsEdge(op)
    BY <1>2 DEF get_parent_mg
  <2>3. /\ form \in {"intersect", "subtract", "row"}
        /\ form = "intersect" => IsEdge(op)
        /\ form = "subtract" => ~IsEdge(op) /\ Vertex
    BY <2>2
  <2> HIDE DEF form, mg
  <2>4. s.op = op /\ s.form = form /\ (s.counts <=> is_last_op(op))
    BY <2>1
  <2> HIDE DEF s
  <2> QED BY <2>3, <2>4 DEF Formed, s
<1> QED BY <1>1, <1>2

\* The statements of a loop.
LEMMA StatementsCoded ==
  ASSUME Coded, NEW d \in Bodies
  PROVE  /\ Len(code.sets[d]) = Len(set_ops[d]) /\ Len(code.sets[d]) \in Nat
         /\ DOMAIN code.sets[d] = 1..Len(code.sets[d])
         /\ \A k \in 1..Len(code.sets[d]) :
              LET s == code.sets[d][k]
              IN /\ s \in ToSet(code.sets[d]) /\ s.op = set_ops[d][k] /\ s.op \in ToSet(set_ops[d])
                 /\ Formed(s) /\ StatementFits(s, d)
<1> DEFINE ops == set_ops[d]
           sts == code.sets[d]
           n == Len(ops)
<1>1. ops \in Seq(Ops) /\ n \in Nat /\ DOMAIN ops = 1..n
  BY LoopFacts, OpsFacts DEF Coded
<1>2. /\ Len(sts) = n /\ DOMAIN sts = 1..n
      /\ \A k \in 1..n : sts[k].op = ops[k] /\ Formed(sts[k]) /\ StatementFits(sts[k], d)
  BY DEF Coded, CodeOf, BodyOf, FitsOf, Listed
<1> HIDE DEF ops, sts, n
<1>3. \A k \in 1..n : sts[k] \in ToSet(sts) /\ ops[k] \in ToSet(ops)
  BY <1>1, <1>2 DEF ToSet
<1> QED BY <1>1, <1>2, <1>3 DEF sts, ops, n

\* The same for a program that passes the checks.
LEMMA StatementFacts ==
  ASSUME Ready, NEW d \in Bodies
  PROVE  /\ Len(code.sets[d]) = Len(set_ops[d]) /\ Len(code.sets[d]) \in Nat
         /\ DOMAIN code.sets[d] = 1..Len(code.sets[d])
         /\ \A k \in 1..Len(code.sets[d]) :
              LET s == code.sets[d][k]
              IN /\ s \in ToSet(code.sets[d]) /\ s.op = set_ops[d][k] /\ s.op \in ToSet(set_ops[d])
                 /\ Formed(s)
<1>1. Coded
  BY DEF Ready, Coded
<1> QED BY <1>1, StatementsCoded

\* The mini graphs a loop builds.
LEMMA BuildsCoded ==
  ASSUME Coded, NEW d \in Bodies
  PROVE  /\ d = LastLoop => code.builds[d] = <<>>
         /\ d # LastLoop =>
              /\ Len(code.builds[d]) = Len(mg_ops[d]) /\ Len(code.builds[d]) \in Nat
              /\ DOMAIN code.builds[d] = 1..Len(code.builds[d])
              /\ \A k \in 1..Len(code.builds[d]) :
                   /\ code.builds[d][k] \in ToSet(code.builds[d])
                   /\ BuildOf(code.builds[d][k], mg_ops[d][k], d)
                   /\ SourceFits(code.builds[d][k], d)
                   /\ mg_ops[d][k] \in ToSet(mg_ops[d])
<1> DEFINE mgs == mg_ops[d]
           bds == code.builds[d]
           n == Len(mgs)
<1>1. mgs \in Seq(MiniGraphs) /\ n \in Nat /\ DOMAIN mgs = 1..n
  BY LoopFacts DEF Coded, PlanTypeOK
<1>2. CASE d = LastLoop
  BY <1>2 DEF Coded, CodeOf, FitsOf
<1>3. CASE d # LastLoop
  <2>1. /\ Len(bds) = n /\ DOMAIN bds = 1..n
        /\ \A k \in 1..n : BuildOf(bds[k], mgs[k], d) /\ SourceFits(bds[k], d)
    BY <1>3 DEF Coded, CodeOf, BodyOf, FitsOf, Listed
  <2> HIDE DEF mgs, bds, n
  <2>2. \A k \in 1..n : bds[k] \in ToSet(bds) /\ mgs[k] \in ToSet(mgs)
    BY <1>1, <2>1 DEF ToSet
  <2> QED BY <1>1, <1>3, <2>1, <2>2 DEF bds, mgs, n
<1> QED BY <1>2, <1>3

(***************************************************************************)
(* What is in scope.                                                       *)
(***************************************************************************)
IdsTo(d) == {op.id : op \in SetsTo(d)}
GraphIdsTo(d) == {mg.id : mg \in MiniGraphsTo(d)}

\* The sets are those their operations stand for.
SetsRight(sets, d, match) ==
  \A op \in SetsTo(d) : op.id \in DOMAIN sets => sets[op.id] = Candidates(op, match)

\* The pruned row of v.
Part(mg, match, v) ==
  {x \in graph[v] \intersect Candidates(mg.intersect, match) : mg_bounded[mg.id] => x < v}

\* A row has all of the pruned row and no more than the neighbourhood; the rows the next
\* loop iterates over are pruned.
RowRight(row, mg, match, v) ==
  /\ Part(mg, match, v) \subseteq row /\ row \subseteq graph[v]
  /\ v \in Candidates(iter_set[mg_dep(mg)], match) => row = Part(mg, match, v)

RowsRight(rows, d, match) ==
  \A mg \in MiniGraphsTo(d) : mg.id \in DOMAIN rows =>
    /\ DOMAIN rows[mg.id] = Candidates(mg.vertices, match)
    /\ \A v \in Candidates(mg.vertices, match) : RowRight(rows[mg.id][v], mg, match, v)

\* computed() says what it is meant to: the operation adds the edge to its loop.
LEMMA ComputedAdds ==
  ASSUME NEW mg, NEW vertices, NEW op, Within(op), Within(mg.intersect),
         computed(mg, vertices, op)
  PROVE  Prefix(mg.intersect, op) /\ IsEdge(op)
<1> DEFINE p == mg.intersect
           d == op.dep
<1>1. /\ d \in Nat /\ p.dep \in Nat /\ p.dep = d - 1
      /\ op.edges \subseteq 0..d
      /\ p.edges = op.edges \intersect 0..p.dep /\ p.restricts = op.restricts \intersect 0..p.dep
      /\ Cardinality(op.edges) = Cardinality(p.edges) + 1
  BY DEF Within, Ops, OpOK, computed
<1>2. Prefix(p, op)
  BY <1>1 DEF Prefix
<1>3. d \in op.edges
  <2> SUFFICES ASSUME d \notin op.edges PROVE FALSE
    OBVIOUS
  <2>1. op.edges \subseteq 0..p.dep
    BY <1>1
  <2>2. op.edges = p.edges
    BY <1>1, <2>1
  <2>3. IsFiniteSet(0..d)
    BY <1>1, FS_Interval
  <2>4. Cardinality(op.edges) \in Nat
    BY <1>1, <2>3, FS_Subset, FS_CardinalityType
  <2>5. Cardinality(op.edges) = Cardinality(op.edges) + 1
    BY <1>1, <2>2
  <2> DEFINE c == Cardinality(op.edges)
  <2> HIDE DEF c
  <2>6. c \in Nat /\ c = c + 1
    BY <2>4, <2>5 DEF c
  <2> QED BY <2>6
<1> QED BY <1>2, <1>3 DEF IsEdge

\* A right row tells of all members of what its mini graph keeps whether they are
\* neighbours, if bounded rows are read by bounded operations.
LEMMA RowServes ==
  ASSUME NEW mg, NEW op, NEW match, NEW v, NEW row, RowRight(row, mg, match, v),
         mg_bounded[mg.id] => IsRestricted(op),
         NEW set, set \subseteq Candidates(mg.intersect, match)
  PROVE  Serves(row, op, set, v)
<1> SUFFICES ASSUME NEW x \in set, IsRestricted(op) => x < v
             PROVE  x \in row <=> x \in graph[v]
  BY DEF Serves
<1>1. x \in graph[v] => x \in Part(mg, match, v)
  BY DEF Part
<1> QED BY <1>1 DEF RowRight

\* A statement computes the set of its operation from right operands.
LEMMA ValueRight ==
  ASSUME Ready, GraphOK, NEW d \in Bodies, NEW s \in ToSet(code.sets[d]),
         s.op \in ToSet(set_ops[d]), Formed(s),
         NEW frame, frame.match \in Seq(DOMAIN graph), Len(frame.match) = d + 1,
         NEW v, v = Last(frame.match), SetsRight(frame.sets, d, frame.match),
         s.form # "chain" => s.from \in DOMAIN frame.sets,
         NEW read,
         \A mg \in MiniGraphsTo(d - 1) : mg.id = s.row =>
           /\ read[s.row].vid = v /\ v \in Candidates(iter_set[d - 1], frame.match)
           /\ RowRight(read[s.row].ids, mg, frame.match, v)
  PROVE  Value(s, frame, read) = Candidates(s.op, frame.match)
<1> DEFINE match == frame.match
           op == s.op
           adj == IF s.row = None.id THEN [vid |-> v, ids |-> graph[v]] ELSE read[s.row]
           left == frame.sets[s.from]
           Cut(set) == {x \in set : IsRestricted(op) => x < adj.vid}
           CutV(set) == {x \in set : IsRestricted(op) => x < v}
<1>1. /\ PlanTypeOK /\ OperandsDeclared /\ BoundedRowsSuffice /\ Generated
      /\ d \in Loops /\ d \in Nat /\ (d - 1 \in Loops \/ d - 1 = -1)
  BY LoopFacts DEF Ready, Loops
<1>2. Within(op) /\ op.dep = d
  BY <1>1, OpsFacts
<1>3. v = match[d + 1] /\ v \in DOMAIN graph
  BY <1>1 DEF Last
<1>4. SetFits(s, d) /\ RowFits(s, d) /\ (s.row # None.id /\ mg_bounded[s.row] => IsRestricted(op))
  BY <1>1 DEF OperandsDeclared, BoundedRowsSuffice
<1>5. ASSUME s.row # None.id \/ s.form = "row"
      PROVE  \E mg \in MiniGraphsTo(d - 1) :
               /\ mg.id = s.row /\ s.row # None.id /\ adj.vid = v
               /\ MGSuperset(mg, iter_set[d - 1], op) /\ RowRight(adj.ids, mg, match, v)
               /\ mg_bounded[mg.id] => IsRestricted(op)
               /\ s.form = "row" => computed(mg, iter_set[d - 1], op)
               /\ v \in Candidates(iter_set[d - 1], match)
  <2>1. PICK mg \in MiniGraphsTo(d - 1) :
          /\ mg.id = s.row /\ MGSuperset(mg, iter_set[d - 1], op)
          /\ s.form = "row" => computed(mg, iter_set[d - 1], op)
    BY <1>4, <1>5 DEF RowFits
  <2>2. s.row # None.id
    BY <1>1, <2>1, MiniGraphFacts DEF None
  <2>3. adj = read[s.row]
    BY <2>2
  <2> HIDE DEF adj
  <2> QED BY <1>4, <2>1, <2>2, <2>3
<1>6. adj.vid = v
  <2>1. CASE s.row = None.id
    BY <2>1
  <2>2. CASE s.row # None.id
    <3> HIDE DEF adj
    <3> QED BY <1>5, <2>2
  <2> QED BY <2>1, <2>2
<1>7. \A set : Cut(set) = CutV(set)
  BY <1>6
<1>8. CASE s.form = "chain"
  <2>1. op.edges = {op.dep}
    BY <1>2, <1>4, <1>8 DEF SetFits
  <2>2. Value(s, frame, read) = Chain(op, match)
    BY <1>8 DEF Value
  <2> QED BY <1>2, <2>1, <2>2, ChainedFromRoot
<1>9. ASSUME s.form \notin {"chain", "row"}
      PROVE  \E p \in SetsTo(d) :
               /\ left = Candidates(p, match) /\ Within(p)
               /\ IF s.form = "sibling" THEN Sibling(p, op) ELSE Prefix(p, op) \/ Sibling(p, op)
  <2>1. PICK p \in SetsTo(d) :
          /\ p.id = s.from
          /\ IF s.form = "sibling" THEN Sibling(p, op) ELSE Prefix(p, op) \/ Sibling(p, op)
    <3>1. CASE s.form = "sibling"
      BY <1>4, <3>1 DEF SetFits
    <3>2. CASE s.form # "sibling"
      <4>1. \E p \in SetsTo(d) : p.id = s.from /\ (Prefix(p, op) \/ Sibling(p, op))
        BY <1>4, <1>9, <3>2 DEF SetFits
      <4> QED BY <3>2, <4>1
    <3> QED BY <3>1, <3>2
  <2>2. p.id \in DOMAIN frame.sets
    BY <1>9, <2>1
  <2>3. left = Candidates(p, match)
    BY <2>1, <2>2 DEF SetsRight
  <2>4. Within(p)
    BY <1>1, ScopeFacts
  <2> QED BY <2>1, <2>3, <2>4
<1>10. CASE s.form = "row"
  <2>1. PICK mg \in MiniGraphsTo(d - 1) :
               /\ mg.id = s.row /\ RowRight(adj.ids, mg, match, v)
               /\ mg_bounded[mg.id] => IsRestricted(op)
               /\ computed(mg, iter_set[d - 1], op)
               /\ v \in Candidates(iter_set[d - 1], match)
    <3> HIDE DEF adj
    <3> QED BY <1>5, <1>10
  <2>2. Within(mg.intersect) /\ mg.intersect.dep = mg_dep(mg)
    BY <1>1, MiniGraphFacts
  <2>3. Prefix(mg.intersect, op) /\ IsEdge(op)
    BY <1>2, <2>1, <2>2, ComputedAdds
  <2>4. mg_dep(mg) = d - 1
    BY <1>2, <2>2, <2>3 DEF Prefix
  <2>5. adj.ids = Part(mg, match, v)
    <3> HIDE DEF adj
    <3> QED BY <2>1, <2>4 DEF RowRight
  <2>6. Candidates(op, match) = {x \in Candidates(mg.intersect, match) : Allows(op, x, v, d)}
    BY <1>2, <1>3, <2>2, <2>3, PrefixNarrowed
  <2>7. CutV(adj.ids) = Candidates(op, match)
    <3> HIDE DEF adj
    <3> QED BY <1>2, <2>1, <2>3, <2>5, <2>6 DEF Part, Allows, IsEdge, IsRestricted
  <2>8. Value(s, frame, read) = Cut(adj.ids)
    BY <1>10 DEF Value
  <2> HIDE DEF Cut, CutV
  <2> QED BY <1>7, <2>7, <2>8
<1>11. CASE s.form \notin {"chain", "row"}
  <2>1. PICK p \in SetsTo(d) :
               /\ left = Candidates(p, match) /\ Within(p)
               /\ IF s.form = "sibling" THEN Sibling(p, op) ELSE Prefix(p, op) \/ Sibling(p, op)
    BY <1>9, <1>11
  <2>2. p.dep \in Nat /\ p.dep <= d
    BY <1>2, <2>1 DEF Within, Ops, Prefix, Sibling
  <2>3. Serves(adj.ids, op, left, v)
    <3>1. CASE s.row = None.id
      BY <3>1 DEF Serves
    <3>2. CASE s.row # None.id
      <4>1. PICK mg \in MiniGraphsTo(d - 1) :
               /\ MGSuperset(mg, iter_set[d - 1], op) /\ RowRight(adj.ids, mg, match, v)
               /\ mg_bounded[mg.id] => IsRestricted(op)
        <5> HIDE DEF adj
        <5> QED BY <1>5, <3>2
      <4>2. /\ Within(mg.intersect) /\ mg.intersect.dep = mg_dep(mg)
            /\ mg_dep(mg) \in 0..(d - 1)
        BY <1>1, MiniGraphFacts
      <4>3. IsSuperset(mg.intersect, op) /\ mg.intersect.dep < op.dep
        BY <1>1, <1>2, <4>1, <4>2 DEF MGSuperset
      <4>4. IsSuperset(mg.intersect, p)
        BY <1>2, <2>1, <4>2, <4>3, OperandInSuperset
      <4>5. Candidates(p, match) \subseteq Candidates(mg.intersect, match)
        BY <1>1, <2>1, <2>2, <4>2, <4>4, SupersetContains
      <4> HIDE DEF adj, left
      <4> QED BY <2>1, <4>1, <4>5, RowServes
    <3> QED BY <3>1, <3>2
  <2> DEFINE ids == adj.ids
  <2>4. ASSUME Prefix(p, op) \/ Sibling(p, op)
        PROVE  /\ IsEdge(op) => CutV(left \intersect ids) = Candidates(op, match)
               /\ ~IsEdge(op) /\ Vertex => CutV(left \ (ids \union {v})) = Candidates(op, match)
               /\ ~IsEdge(op) /\ ~Vertex /\ IsRestricted(op) =>
                    {x \in left : x < v} = Candidates(op, match)
               /\ ~IsEdge(op) /\ ~Vertex /\ ~IsRestricted(op) => left \ {v} = Candidates(op, match)
    <3> HIDE DEF ids, left, op, match
    <3>1. Serves(ids, op, Candidates(p, match), v) /\ left = Candidates(p, match)
      BY <2>1, <2>3 DEF ids
    <3>2. v \in DOMAIN graph /\ v = match[op.dep + 1] /\ Within(op) /\ Within(p)
      BY <1>2, <1>3, <2>1
    <3>3. /\ IsEdge(op) =>
                {x \in Candidates(p, match) \intersect ids : IsRestricted(op) => x < v}
                  = Candidates(op, match)
          /\ ~IsEdge(op) /\ Vertex =>
                {x \in Candidates(p, match) \ (ids \union {v}) : IsRestricted(op) => x < v}
                  = Candidates(op, match)
          /\ ~IsEdge(op) /\ ~Vertex /\ IsRestricted(op) =>
                {x \in Candidates(p, match) : x < v} = Candidates(op, match)
          /\ ~IsEdge(op) /\ ~Vertex /\ ~IsRestricted(op) =>
                Candidates(p, match) \ {v} = Candidates(op, match)
      <4>1. Serves(ids, op, Candidates(p, match), v)
        BY <3>1
      <4> QED BY ONLY GraphOK, <2>4, <3>2, <4>1, NarrowedByForm
    <3> QED BY <3>1, <3>3
  <2>5. CASE s.form = "sibling"
    <3>1. Value(s, frame, read) = {x \in left : x < v}
      BY <2>5 DEF Value
    <3>2. Sibling(p, op)
      BY <2>1, <2>5
    <3> HIDE DEF left, op, match
    <3>3. {x \in left : x < v} = Candidates(op, match)
      BY <1>2, <1>3, <2>1, <3>2, SiblingNarrowed
    <3> QED BY <3>1, <3>3 DEF op, match
  <2>6. CASE s.form # "sibling"
    <3>1. Prefix(p, op) \/ Sibling(p, op)
      BY <2>1, <2>6
    <3>2. CASE s.form = "bounded"
      <4>1. Value(s, frame, read) = {x \in left : x < v}
        BY <3>2 DEF Value
      <4>2. ~IsEdge(op) /\ ~Vertex /\ IsRestricted(op)
        BY <3>2 DEF Formed
      <4> HIDE DEF left, op, match
      <4> QED BY <2>4, <3>1, <4>1, <4>2 DEF op, match
    <3>3. CASE s.form = "intersect"
      <4>1. Value(s, frame, read) = Cut(left \intersect ids)
        BY <3>3 DEF Value
      <4>2. IsEdge(op)
        BY <3>3 DEF Formed
      <4>3. CutV(left \intersect ids) = Candidates(op, match)
        BY <2>4, <3>1, <4>2
      <4> HIDE DEF Cut, CutV
      <4> QED BY <1>7, <4>1, <4>3
    <3>4. CASE s.form = "subtract"
      <4>1. Value(s, frame, read) = Cut(left \ (ids \union {adj.vid}))
        BY <3>4 DEF Value, Subtract
      <4>2. ~IsEdge(op) /\ Vertex
        BY <3>4 DEF Formed
      <4>3. CutV(left \ (ids \union {v})) = Candidates(op, match)
        BY <2>4, <3>1, <4>2
      <4> HIDE DEF Cut, CutV, adj
      <4> QED BY <1>6, <1>7, <4>1, <4>3
    <3>5. CASE s.form = "remove"
      <4>1. Value(s, frame, read) = left \ {v}
        BY <3>5 DEF Value
      <4>2. ~IsEdge(op) /\ ~Vertex /\ ~IsRestricted(op)
        BY <3>5 DEF Formed
      <4> HIDE DEF left, op, match
      <4> QED BY <2>4, <3>1, <4>1, <4>2 DEF op, match
    <3> QED BY <1>11, <2>6, <3>2, <3>3, <3>4, <3>5 DEF Formed
  <2> QED BY <2>5, <2>6
<1> QED BY <1>8, <1>10, <1>11

(***************************************************************************)
(* Entering a loop.                                                        *)
(***************************************************************************)
\* The iteration of loop n - 1 has the sets and mini graphs of the loops up to it.
FrameRight(f, n) ==
  /\ f.match \in Seq(DOMAIN graph) /\ Len(f.match) = n
  /\ DOMAIN f.sets = IdsTo(n - 1) /\ SetsRight(f.sets, n - 1, f.match)
  /\ DOMAIN f.rows = GraphIdsTo(n - 1) /\ RowsRight(f.rows, n - 1, f.match)

\* Matching one more vertex leaves what is in scope right.
LEMMA ScopeStays ==
  ASSUME PlanTypeOK, phase # "create_plan", NEW d \in Loops,
         NEW match \in Seq(DOMAIN graph), Len(match) = d + 1, NEW v \in DOMAIN graph
  PROVE  /\ \A sets : SetsRight(sets, d, match) => SetsRight(sets, d, Append(match, v))
         /\ \A rows : RowsRight(rows, d, match) => RowsRight(rows, d, Append(match, v))
         /\ Candidates(iter_set[d], Append(match, v)) = Candidates(iter_set[d], match)
<1> DEFINE longer == Append(match, v)
<1>1. d \in Nat
  BY LoopFacts DEF Loops
<1>2. \A op : Within(op) /\ op.dep \in 0..d => Candidates(op, longer) = Candidates(op, match)
  <2> SUFFICES ASSUME NEW op, Within(op), op.dep \in 0..d
               PROVE  Candidates(op, longer) = Candidates(op, match)
    OBVIOUS
  <2>1. op.dep < Len(match)
    BY <1>1
  <2> QED BY <2>1, CandidatesStay
<1> HIDE DEF longer
<1>3. \A op \in SetsTo(d) : Candidates(op, longer) = Candidates(op, match)
  BY <1>2, ScopeFacts
<1>4. \A e \in 0..d : Candidates(iter_set[e], longer) = Candidates(iter_set[e], match)
  <2> SUFFICES ASSUME NEW e \in 0..d
               PROVE  Candidates(iter_set[e], longer) = Candidates(iter_set[e], match)
    OBVIOUS
  <2>1. e \in Loops
    BY LoopFacts
  <2>2. Within(iter_set[e]) /\ iter_set[e].dep = e
    BY <2>1, OpsFacts
  <2> QED BY <1>2, <2>2
<1>5. ASSUME NEW mg \in MiniGraphsTo(d)
      PROVE  /\ Candidates(mg.vertices, longer) = Candidates(mg.vertices, match)
             /\ \A x : Part(mg, longer, x) = Part(mg, match, x)
             /\ \A row, x : RowRight(row, mg, longer, x) <=> RowRight(row, mg, match, x)
  <2>1. /\ Within(mg.vertices) /\ Within(mg.intersect) /\ mg_dep(mg) \in 0..d
        /\ mg.vertices.dep = mg_dep(mg) /\ mg.intersect.dep = mg_dep(mg)
    BY MiniGraphFacts
  <2>2. Candidates(mg.vertices, longer) = Candidates(mg.vertices, match)
    BY <1>2, <2>1
  <2>3. Candidates(mg.intersect, longer) = Candidates(mg.intersect, match)
    BY <1>2, <2>1
  <2>4. \A x : Part(mg, longer, x) = Part(mg, match, x)
    BY <2>3 DEF Part
  <2>5. Candidates(iter_set[mg_dep(mg)], longer) = Candidates(iter_set[mg_dep(mg)], match)
    BY <1>4, <2>1
  <2>6. \A row, x : RowRight(row, mg, longer, x) <=> RowRight(row, mg, match, x)
    BY <2>4, <2>5 DEF RowRight
  <2> QED BY <2>2, <2>4, <2>6
<1>6. \A sets : SetsRight(sets, d, match) => SetsRight(sets, d, longer)
  BY <1>3 DEF SetsRight
<1>7. \A rows : RowsRight(rows, d, match) => RowsRight(rows, d, longer)
  BY <1>5 DEF RowsRight
<1>8. Candidates(iter_set[d], longer) = Candidates(iter_set[d], match)
  BY <1>1, <1>4
<1> QED BY <1>6, <1>7, <1>8 DEF longer

\* Two sets that differ in restrictions only begin at the same address.
LEMMA SameBeginning ==
  ASSUME GraphOK, NEW a, Within(a), NEW b, Within(b), IsSuperset(a, b),
         a.dep = b.dep, a.edges = b.edges,
         NEW match \in Seq(DOMAIN graph), b.dep < Len(match),
         NEW k \in 1..Cardinality(Candidates(b, match))
  PROVE  Ascending(Candidates(a, match))[k] = Ascending(Candidates(b, match))[k]
<1> DEFINE R == Candidates(a, match)
           I == Candidates(b, match)
<1>1. I \subseteq R
  BY SupersetContains
<1>2. R \in SUBSET Nat /\ IsFiniteSet(R)
  <2>1. R \subseteq DOMAIN graph
    BY CandidatesAllowed
  <2> HIDE DEF R
  <2> QED BY <2>1, GraphFacts
<1>3. ASSUME NEW x \in I, NEW y \in R, y <= x PROVE y \in I
  <2>1. x \in DOMAIN graph /\ \A u \in 0..b.dep : Allows(b, x, match[u + 1], u)
    BY CandidatesAllowed
  <2>2. y \in DOMAIN graph /\ \A u \in 0..b.dep : Allows(a, y, match[u + 1], u)
    BY CandidatesAllowed
  <2>3. ASSUME NEW u \in 0..b.dep PROVE Allows(b, y, match[u + 1], u)
    <3>1. match[u + 1] \in DOMAIN graph
      <4>1. u + 1 \in 1..Len(match)
        BY DEF Within, Ops
      <4> QED BY <4>1
    <3>2. x \in Nat /\ y \in Nat /\ match[u + 1] \in Nat
      BY <2>1, <2>2, <3>1, GraphFacts
    <3>3. x < match[u + 1] => y < match[u + 1]
      BY <1>3, <3>2
    <3>4. Allows(b, x, match[u + 1], u) /\ Allows(a, y, match[u + 1], u)
      BY <2>1, <2>2
    <3> QED BY <3>3, <3>4 DEF Allows
  <2> QED BY <2>2, <2>3, CandidatesAllowed
<1> HIDE DEF R, I
<1>4. k \in 1..Cardinality(I)
  BY DEF I
<1>5. Ascending(R)[k] = Ascending(I)[k]
  BY <1>1, <1>2, <1>3, <1>4, BeginningOf
<1> QED BY <1>5 DEF R, I

\* The loop inside the iteration "outer" iterates over vertices of the planned set.
LEMMA IteratedVertex ==
  ASSUME Ready, GraphOK, NEW d \in Bodies, d # 0, NEW outer, FrameRight(outer, d),
         NEW k \in 1..Len(Ascending(outer.sets[iter_set[d - 1].id])),
         NEW v, v = Ascending(outer.sets[iter_set[d - 1].id])[k]
  PROVE  LET I == Candidates(iter_set[d - 1], outer.match)
         IN k \in 1..Cardinality(I) /\ v = Ascending(I)[k] /\ v \in I /\ v \in DOMAIN graph
<1> DEFINE iter == iter_set[d - 1]
           I == Candidates(iter, outer.match)
<1>1. /\ PlanTypeOK /\ phase # "create_plan" /\ d - 1 \in Loops /\ d - 1 \in 0..(d - 1)
  BY LoopFacts DEF Ready, Loops, Generated
<1>2. iter \in SetsTo(d - 1)
  BY <1>1, OpsFacts, ScopeFacts
<1>3. outer.sets[iter.id] = I
  BY <1>2 DEF FrameRight, SetsRight, IdsTo
<1>4. I \in SUBSET Nat /\ IsFiniteSet(I) /\ I \subseteq DOMAIN graph
  <2>1. I \subseteq DOMAIN graph
    BY CandidatesAllowed
  <2> HIDE DEF I
  <2> QED BY <2>1, GraphFacts
<1> HIDE DEF I
<1>5. k \in 1..Len(Ascending(I)) /\ v = Ascending(I)[k]
  BY <1>3
<1>6. /\ Len(Ascending(I)) = Cardinality(I)
      /\ \A i \in 1..Cardinality(I) : Ascending(I)[i] \in I
  BY ONLY <1>4, AscendingFacts
<1>7. k \in 1..Cardinality(I) /\ v = Ascending(I)[k] /\ v \in I /\ v \in DOMAIN graph
  BY <1>4, <1>5, <1>6
<1> QED BY <1>7 DEF I

\* The row a body reads for the vertex it has matched is that of the vertex, whether
\* it is found by index or by vertex.
LEMMA ReadRight ==
  ASSUME Ready, GraphOK, NEW d \in Bodies, d # 0, NEW outer, FrameRight(outer, d),
         NEW k \in 1..Len(Ascending(outer.sets[iter_set[d - 1].id])),
         NEW v, v = Ascending(outer.sets[iter_set[d - 1].id])[k],
         NEW start, start.match = Append(outer.match, v), start.rows = outer.rows,
         NEW read, read = RowsRead(d, start, k),
         NEW mg \in MiniGraphsTo(d - 1), \E r \in ToSet(code.reads[d]) : r.mg = mg.id
  PROVE  /\ read[mg.id].vid = v /\ v \in Candidates(iter_set[d - 1], start.match)
         /\ RowRight(read[mg.id].ids, mg, start.match, v)
<1> DEFINE match == start.match
           iter == iter_set[d - 1]
<1>1. /\ PlanTypeOK /\ OperandsDeclared /\ Generated /\ phase # "create_plan"
      /\ d \in Loops /\ d \in Nat /\ d - 1 \in Loops /\ d - 1 \in Nat
  BY LoopFacts DEF Ready, Loops, Generated
<1>2. Within(iter) /\ iter.dep = d - 1
  BY <1>1, OpsFacts
<1> DEFINE I == Candidates(iter, outer.match)
<1>5. k \in 1..Cardinality(I) /\ v = Ascending(I)[k] /\ v \in I /\ v \in DOMAIN graph
  BY IteratedVertex
<1>6. /\ outer.match \in Seq(DOMAIN graph) /\ Len(outer.match) = d
      /\ match \in Seq(DOMAIN graph) /\ Len(match) = d + 1 /\ Last(match) = v
  <2>1. outer.match \in Seq(DOMAIN graph) /\ Len(outer.match) = d
    BY DEF FrameRight
  <2>2. match = Append(outer.match, v)
    OBVIOUS
  <2> HIDE DEF match
  <2> QED BY <1>1, <1>5, <2>1, <2>2 DEF Last
<1>7. RowsRight(outer.rows, d - 1, match) /\ Candidates(iter, match) = I
  <2>1. Len(outer.match) = (d - 1) + 1
    BY <1>1, <1>6
  <2>2. RowsRight(outer.rows, d - 1, outer.match)
    BY DEF FrameRight
  <2> QED BY <1>1, <1>5, <1>6, <2>1, <2>2, ScopeStays
<1> DEFINE r == CHOOSE r \in ToSet(code.reads[d]) : r.mg = mg.id
<1>8. r \in ToSet(code.reads[d]) /\ r.mg = mg.id /\ read[mg.id] = RowRead(r, start, k)
  BY DEF RowsRead
<1> HIDE DEF r, I, iter, match
<1>9. IsSuperset(mg.vertices, iter) /\ (r.direct => SameAddress(mg, d))
  <2>1. PICK m \in ToSet(mg_used[d]) : r.mg = m.id /\ (r.direct => SameAddress(m, d))
    BY <1>8 DEF Ready, CodeOf, BodyOf
  <2>2. m \in MiniGraphsTo(d - 1) /\ IsSuperset(m.vertices, iter)
    BY <1>1 DEF OperandsDeclared, iter
  <2>3. \A a, b \in MiniGraphsTo(d - 1) : a.id = b.id => a = b
    BY <1>1, MiniGraphFacts
  <2>4. m = mg
    BY <1>8, <2>1, <2>2, <2>3
  <2> QED BY <2>1, <2>2, <2>4
<1> DEFINE rows == outer.rows[mg.id]
<1>10. DOMAIN rows = Candidates(mg.vertices, match)
       /\ \A x \in Candidates(mg.vertices, match) : RowRight(rows[x], mg, match, x)
  BY <1>7 DEF FrameRight, RowsRight, GraphIdsTo
<1>11. /\ Within(mg.vertices) /\ mg.vertices.dep = mg_dep(mg) /\ mg_dep(mg) \in 0..(d - 1)
  BY <1>1, MiniGraphFacts
<1>12. I \subseteq Candidates(mg.vertices, match)
  <2>1. iter.dep < Len(match)
    BY <1>1, <1>2, <1>6
  <2> QED BY <1>2, <1>6, <1>7, <1>9, <1>11, <2>1, SupersetContains
<1>13. r.direct => Ascending(DOMAIN rows)[k] = v
  <2> SUFFICES ASSUME r.direct PROVE Ascending(DOMAIN rows)[k] = v
    OBVIOUS
  <2>1. mg.vertices.dep = iter.dep /\ mg.vertices.edges = iter.edges
    BY <1>2, <1>9, <1>11 DEF SameAddress, iter
  <2>2. iter.dep < Len(match) /\ k \in 1..Cardinality(Candidates(iter, match))
    BY <1>1, <1>2, <1>5, <1>6, <1>7
  <2> HIDE DEF rows
  <2> QED BY <1>2, <1>5, <1>6, <1>7, <1>9, <1>10, <1>11, <2>1, <2>2, SameBeginning
<1>14. RowRead(r, start, k) = [vid |-> v, ids |-> rows[v]]
  <2>1. start.rows[r.mg] = rows
    BY <1>8
  <2> HIDE DEF rows
  <2> QED BY <1>6, <1>13, <2>1 DEF RowRead, match
<1>15. read[mg.id].vid = v /\ read[mg.id].ids = rows[v]
  <2>1. read[mg.id] = [vid |-> v, ids |-> rows[v]]
    BY <1>8, <1>14
  <2> HIDE DEF rows
  <2> QED BY ONLY <2>1
<1>16. v \in Candidates(mg.vertices, match)
  BY <1>5, <1>12
<1> QED BY <1>5, <1>7, <1>10, <1>15, <1>16 DEF match, iter

(***************************************************************************)
(* What a body leaves in scope.                                            *)
(***************************************************************************)
\* A frame while its body is executed.
Working(f) ==
  f = [match |-> f.match, sets |-> f.sets, rows |-> f.rows, done |-> f.done,
       count |-> f.count, left |-> f.left]

\* A declaration leaves the others alone.
LEMMA WithFacts ==
  ASSUME NEW f, NEW x, NEW y
  PROVE  /\ DOMAIN With(f, x, y) = DOMAIN f \union {x}
         /\ \A z \in DOMAIN f : With(f, x, y)[z] = f[z]
         /\ x \notin DOMAIN f => With(f, x, y)[x] = y
BY DEF With

\* A statement declares a set or counts, and may end the iteration.
LEMMA ExecuteFacts ==
  ASSUME NEW f, Working(f), NEW s, NEW read
  PROVE  /\ Working(Execute(f, s, read))
         /\ Execute(f, s, read).match = f.match /\ Execute(f, s, read).rows = f.rows
         /\ f.left => Execute(f, s, read).left
         /\ ~f.left /\ ~s.counts =>
              Execute(f, s, read).sets = With(f.sets, s.op.id, Value(s, f, read))
<1> DEFINE sets == IF s.counts THEN f.sets ELSE With(f.sets, s.op.id, Value(s, f, read))
           count == IF s.counts THEN f.count + Cardinality(Value(s, f, read)) ELSE f.count
           left == s.skips /\ Value(s, f, read) = {}
           g == [f EXCEPT !.sets = sets, !.count = count, !.left = left]
<1>1. CASE f.left
  <2>1. Execute(f, s, read) = f
    BY <1>1 DEF Execute
  <2> QED BY <1>1, <2>1
<1>2. CASE ~f.left
  <2>1. Execute(f, s, read) = g
    BY <1>2 DEF Execute
  <2>2. ~s.counts => sets = With(f.sets, s.op.id, Value(s, f, read))
    OBVIOUS
  <2> HIDE DEF sets, count, left
  <2> DEFINE f1 == [f EXCEPT !.sets = sets]
             f2 == [f1 EXCEPT !.count = count]
             f3 == [f2 EXCEPT !.left = left]
  <2>3. f1 = [match |-> f.match, sets |-> sets, rows |-> f.rows, done |-> f.done,
              count |-> f.count, left |-> f.left]
    BY DEF Working
  <2> HIDE DEF f1
  <2>4. f2 = [match |-> f.match, sets |-> sets, rows |-> f.rows, done |-> f.done,
              count |-> count, left |-> f.left]
    BY <2>3
  <2> HIDE DEF f2
  <2>5. f3 = [match |-> f.match, sets |-> sets, rows |-> f.rows, done |-> f.done,
              count |-> count, left |-> left]
    BY <2>4
  <2>6. g = f3
    BY DEF f1, f2
  <2> HIDE DEF f3, g
  <2>7. g = [match |-> f.match, sets |-> sets, rows |-> f.rows, done |-> f.done,
             count |-> count, left |-> left]
    BY <2>5, <2>6
  <2>8. Working(g) /\ g.match = f.match /\ g.rows = f.rows /\ g.sets = sets
    BY <2>7 DEF Working
  <2> QED BY <1>2, <2>1, <2>2, <2>8
<1> QED BY <1>1, <1>2

\* A mini graph is declared.
LEMMA AddFacts ==
  ASSUME NEW f, Working(f), NEW b
  PROVE  /\ Working(Add(f, b)) /\ Add(f, b).match = f.match /\ Add(f, b).sets = f.sets
         /\ Add(f, b).rows = With(f.rows, b.id, Rows(f, b)) /\ Add(f, b).left = f.left
         /\ Add(f, b).count = f.count
<1> DEFINE rows == With(f.rows, b.id, Rows(f, b))
           g == [f EXCEPT !.rows = rows]
<1>1. Add(f, b) = g
  BY DEF Add
<1> HIDE DEF rows
<1>2. g = [match |-> f.match, sets |-> f.sets, rows |-> rows, done |-> f.done,
           count |-> f.count, left |-> f.left]
  BY DEF Working
<1> HIDE DEF g
<1>3. Working(g) /\ g.match = f.match /\ g.sets = f.sets /\ g.rows = rows /\ g.left = f.left
      /\ g.count = f.count
  BY <1>2 DEF Working
<1> QED BY <1>1, <1>3 DEF rows

\* The sets and mini graphs in scope of a loop are those of the enclosing one and its own.
LEMMA ScopeGrows ==
  ASSUME PlanTypeOK, NEW d \in Loops
  PROVE  /\ SetsTo(d) = SetsTo(d - 1) \union ToSet(set_ops[d])
         /\ MiniGraphsTo(d) = MiniGraphsTo(d - 1) \union ToSet(mg_ops[d])
         /\ IdsTo(d) = IdsTo(d - 1) \union {op.id : op \in ToSet(set_ops[d])}
         /\ GraphIdsTo(d) = GraphIdsTo(d - 1) \union {mg.id : mg \in ToSet(mg_ops[d])}
<1>1. 0..d = 0..(d - 1) \union {d}
  BY LoopFacts DEF Loops
<1>2. SetsTo(d) = SetsTo(d - 1) \union ToSet(set_ops[d])
  BY <1>1 DEF SetsTo
<1>3. MiniGraphsTo(d) = MiniGraphsTo(d - 1) \union ToSet(mg_ops[d])
  BY <1>1 DEF MiniGraphsTo
<1> QED BY <1>2, <1>3 DEF IdsTo, GraphIdsTo

\* The operand of a statement is in scope.
LEMMA OperandInScope ==
  ASSUME Ready, NEW d \in Bodies, NEW j \in 1..Len(code.sets[d]),
         code.sets[d][j].form # "chain"
  PROVE  code.sets[d][j].from \in
           IdsTo(d - 1) \union {code.sets[d][i].op.id : i \in 1..(j - 1)}
<1> DEFINE s == code.sets[d][j]
           n == Len(code.sets[d])
<1>1. /\ OperandsDeclared /\ Generated /\ PlanTypeOK /\ d \in Loops /\ d \in Nat
      /\ \A e \in 0..(d - 1) : e \in Bodies
  BY LoopFacts DEF Ready, Bodies
<1>2. DOMAIN code.sets[d] = 1..n /\ n \in Nat
  BY StatementFacts
<1>3. s.from \in SetsDeclared(d, j)
  BY <1>1, <1>2 DEF OperandsDeclared
<1>4. PICK t \in Before(d, j) : t.op.id = s.from
  BY <1>3 DEF SetsDeclared
<1>5. CASE t \in UNION {ToSet(code.sets[e]) : e \in 0..(d - 1)}
  <2>1. PICK e \in 0..(d - 1) : t \in ToSet(code.sets[e])
    BY <1>5
  <2>2. e \in Bodies
    BY <1>1
  <2>3. PICK i \in 1..Len(code.sets[e]) : t = code.sets[e][i]
    BY <2>1, <2>2, StatementFacts DEF ToSet
  <2>4. t.op \in ToSet(set_ops[e])
    BY <2>2, <2>3, StatementFacts
  <2>5. t.op \in SetsTo(d - 1)
    BY <2>4 DEF SetsTo
  <2> QED BY <1>4, <2>5 DEF IdsTo
<1>6. CASE t \in ToSet(SubSeq(code.sets[d], 1, j - 1))
  <2> DEFINE sub == SubSeq(code.sets[d], 1, j - 1)
  <2>1. sub = [i \in 1..(j - 1) |-> code.sets[d][1 + i - 1]]
    BY <1>2 DEF SubSeq
  <2>2. DOMAIN sub = 1..(j - 1) /\ \A i \in 1..(j - 1) : sub[i] = code.sets[d][i]
    BY <1>2, <2>1
  <2> HIDE DEF sub
  <2>3. PICK i \in 1..(j - 1) : t = code.sets[d][i]
    BY <1>6, <2>2 DEF ToSet, sub
  <2> QED BY <1>4, <2>3
<1> QED BY <1>4, <1>5, <1>6 DEF Before

\* After its statements a body has the sets of its loop, unless one has ended it.
LEMMA ExecutedRight ==
  ASSUME Ready, GraphOK, NEW d \in Bodies, d # LastLoop,
         NEW start, Working(start), ~start.left,
         start.match \in Seq(DOMAIN graph), Len(start.match) = d + 1,
         DOMAIN start.sets = IdsTo(d - 1), SetsRight(start.sets, d - 1, start.match),
         NEW read,
         \A mg \in MiniGraphsTo(d - 1) : (\E r \in ToSet(code.reads[d]) : r.mg = mg.id) =>
           /\ read[mg.id].vid = Last(start.match)
           /\ Last(start.match) \in Candidates(iter_set[d - 1], start.match)
           /\ RowRight(read[mg.id].ids, mg, start.match, Last(start.match)),
         NEW b, b = Executed(start, code.sets[d], read)
  PROVE  /\ Working(b) /\ b.match = start.match /\ b.rows = start.rows
         /\ ~b.left => DOMAIN b.sets = IdsTo(d) /\ SetsRight(b.sets, d, b.match)
<1> DEFINE sts == code.sets[d]
           n == Len(code.sets[d])
           match == start.match
<1>1. /\ PlanTypeOK /\ OperandsDeclared /\ Generated /\ d \in Loops /\ d \in Nat
      /\ d < input.size - 2
  BY LoopFacts DEF Ready, Bodies
<1>2. /\ n \in Nat /\ n = Len(set_ops[d]) /\ DOMAIN sts = 1..n
      /\ \A i \in 1..n : /\ sts[i] \in ToSet(sts) /\ sts[i].op = set_ops[d][i]
                         /\ sts[i].op \in ToSet(set_ops[d]) /\ Formed(sts[i])
  BY StatementFacts
<1>3. PICK f : /\ f[0] = start
               /\ \A i \in 1..n : f[i] = Execute(f[i - 1], sts[i], read)
               /\ Executed(start, sts, read) = f[n]
  BY <1>2, ExecutedInOrder
<1> DEFINE Declared(i) == IdsTo(d - 1) \union {sts[j].op.id : j \in 1..i}
           Right(i) ==
             /\ Working(f[i]) /\ f[i].match = match /\ f[i].rows = start.rows
             /\ ~f[i].left => DOMAIN f[i].sets = Declared(i) /\ SetsRight(f[i].sets, d, match)
           S == {i \in 0..n : Right(i)}
<1>4. 0 \in S
  <2>1. Declared(0) = IdsTo(d - 1)
    OBVIOUS
  <2>2. SetsRight(start.sets, d, match)
    <3> SUFFICES ASSUME NEW op \in SetsTo(d), op.id \in DOMAIN start.sets
                 PROVE  start.sets[op.id] = Candidates(op, match)
      BY DEF SetsRight
    <3>1. PICK p \in SetsTo(d - 1) : p.id = op.id
      BY DEF IdsTo
    <3>2. p = op
      BY <1>1, <3>1, ScopeGrows, ScopeFacts
    <3> QED BY <3>2 DEF SetsRight
  <2> HIDE DEF Declared
  <2> QED BY <1>2, <1>3, <2>1, <2>2
<1>5. ASSUME NEW i \in 0..(n - 1), i \in S PROVE i + 1 \in S
  <2> DEFINE g == f[i]
             h == f[i + 1]
             s == sts[i + 1]
  <2>1. i \in Nat /\ i + 1 \in 1..n /\ i + 1 \in 0..n /\ (i + 1) - 1 = i
    BY <1>2
  <2>2. h = Execute(g, s, read)
    BY <1>3, <2>1
  <2>3. Right(i)
    BY <1>5
  <2>4. /\ s \in ToSet(sts) /\ s.op \in ToSet(set_ops[d]) /\ Formed(s)
        /\ s.op.dep = d /\ s.op \in SetsTo(d)
    BY <1>1, <1>2, <2>1, OpsFacts, ScopeGrows
  <2>5. ~s.counts
    BY <1>1, <2>4 DEF Formed, is_last_op
  <2>6. /\ Working(h) /\ h.match = match /\ h.rows = start.rows /\ (g.left => h.left)
        /\ ~g.left => h.sets = With(g.sets, s.op.id, Value(s, g, read))
    <3> HIDE DEF g, h, s
    <3> QED BY <2>2, <2>3, <2>5, ExecuteFacts DEF g
  <2>7. ASSUME ~h.left PROVE DOMAIN h.sets = Declared(i + 1) /\ SetsRight(h.sets, d, match)
    <3>1. ~g.left /\ DOMAIN g.sets = Declared(i) /\ SetsRight(g.sets, d, match) /\ g.match = match
      BY <2>3, <2>6, <2>7
    <3>2. s.form # "chain" => s.from \in DOMAIN g.sets
      <4>1. i + 1 \in 1..Len(code.sets[d])
        BY <2>1
      <4>2. s.form # "chain" =>
              s.from \in IdsTo(d - 1) \union {code.sets[d][j].op.id : j \in 1..((i + 1) - 1)}
        BY <4>1, OperandInScope
      <4> QED BY <2>1, <3>1, <4>2
    <3>3. \A mg \in MiniGraphsTo(d - 1) : mg.id = s.row =>
            /\ read[s.row].vid = Last(match) /\ Last(match) \in Candidates(iter_set[d - 1], match)
            /\ RowRight(read[s.row].ids, mg, match, Last(match))
      <4> SUFFICES ASSUME NEW mg \in MiniGraphsTo(d - 1), mg.id = s.row
                   PROVE  \E r \in ToSet(code.reads[d]) : r.mg = mg.id
        OBVIOUS
      <4>1. s.row # None.id
        <5>1. d - 1 \in Loops \/ d - 1 = -1
          BY <1>1, LoopFacts DEF Loops
        <5>2. mg.id \in Nat
          BY <1>1, <5>1, MiniGraphFacts
        <5> QED BY <5>2 DEF None
      <4>2. i + 1 \in DOMAIN code.sets[d]
        BY <1>2, <2>1
      <4>3. s.row # None.id => \E r \in ToSet(code.reads[d]) : r.mg = s.row
        BY <1>1, <4>2 DEF OperandsDeclared
      <4> QED BY <4>1, <4>3
    <3>4. Value(s, g, read) = Candidates(s.op, match)
      <4> HIDE DEF g, s, match
      <4>1. /\ g.match \in Seq(DOMAIN graph) /\ Len(g.match) = d + 1
            /\ SetsRight(g.sets, d, g.match)
        BY <3>1 DEF match
      <4>2. \A mg \in MiniGraphsTo(d - 1) : mg.id = s.row =>
              /\ read[s.row].vid = Last(g.match)
              /\ Last(g.match) \in Candidates(iter_set[d - 1], g.match)
              /\ RowRight(read[s.row].ids, mg, g.match, Last(g.match))
        BY <3>1, <3>3
      <4>3. Value(s, g, read) = Candidates(s.op, g.match)
        BY <2>4, <3>2, <4>1, <4>2, ValueRight
      <4> QED BY <3>1, <4>3
    <3> DEFINE id == s.op.id
               new == With(g.sets, id, Value(s, g, read))
    <3>5. /\ DOMAIN new = DOMAIN g.sets \union {id} /\ \A z \in DOMAIN g.sets : new[z] = g.sets[z]
          /\ id \notin DOMAIN g.sets => new[id] = Candidates(s.op, match)
      <4>1. /\ DOMAIN new = DOMAIN g.sets \union {id}
            /\ \A z \in DOMAIN g.sets : new[z] = g.sets[z]
            /\ id \notin DOMAIN g.sets => new[id] = Value(s, g, read)
        <5> HIDE DEF g, s, id
        <5> QED BY WithFacts
      <4> HIDE DEF new, g, s, id
      <4> QED BY <3>4, <4>1
    <3>6. h.sets = new
      BY <2>6, <3>1
    <3> HIDE DEF new
    <3>7. DOMAIN new = Declared(i + 1)
      <4>1. 1..(i + 1) = 1..i \union {i + 1}
        BY <2>1
      <4>2. Declared(i + 1) = Declared(i) \union {id}
        BY <4>1
      <4> HIDE DEF Declared, id
      <4> QED BY <3>1, <3>5, <4>2
    <3>8. SetsRight(new, d, match)
      <4> SUFFICES ASSUME NEW op \in SetsTo(d), op.id \in DOMAIN new
                   PROVE  new[op.id] = Candidates(op, match)
        BY DEF SetsRight
      <4>1. CASE op.id \in DOMAIN g.sets
        BY <3>1, <3>5, <4>1 DEF SetsRight
      <4>2. CASE op.id \notin DOMAIN g.sets
        <5>1. op.id = s.op.id
          BY <3>5, <4>2
        <5>2. op = s.op
          BY <1>1, <2>4, <5>1, ScopeFacts
        <5> HIDE DEF g, s
        <5> QED BY <3>5, <4>2, <5>1, <5>2
      <4> QED BY <4>1, <4>2
    <3> QED BY <3>6, <3>7, <3>8
  <2> HIDE DEF Declared
  <2> QED BY <2>1, <2>6, <2>7
<1>6. n \in S
  <2> HIDE DEF S
  <2>1. 0..n \subseteq S
    BY <1>2, <1>4, <1>5, UpTo
  <2> QED BY <1>2, <2>1
<1>7. Right(n) /\ b = f[n]
  BY <1>3, <1>6
<1>8. Declared(n) = IdsTo(d)
  <2>1. set_ops[d] \in Seq(Ops) /\ DOMAIN set_ops[d] = 1..n
    BY <1>1, <1>2, OpsFacts
  <2>2. {op.id : op \in ToSet(set_ops[d])} = {sts[j].op.id : j \in 1..n}
    <3>1. ToSet(set_ops[d]) = {set_ops[d][j] : j \in 1..n}
      BY <2>1 DEF ToSet
    <3>2. \A j \in 1..n : sts[j].op = set_ops[d][j]
      BY <1>2
    <3> HIDE DEF sts, n
    <3> QED BY ONLY <3>1, <3>2
  <2> QED BY <1>1, <2>2, ScopeGrows
<1> HIDE DEF Declared
<1> QED BY <1>7, <1>8

\* The builds of a loop.
LEMMA BuildFacts ==
  ASSUME Ready, NEW d \in Bodies, d # LastLoop
  PROVE  /\ Len(code.builds[d]) = Len(mg_ops[d]) /\ Len(code.builds[d]) \in Nat
         /\ DOMAIN code.builds[d] = 1..Len(code.builds[d])
         /\ \A k \in 1..Len(code.builds[d]) :
              LET b == code.builds[d][k]
              IN /\ b \in ToSet(code.builds[d]) /\ BuildOf(b, mg_ops[d][k], d)
                 /\ mg_ops[d][k] \in ToSet(mg_ops[d])
<1>1. Coded
  BY DEF Ready, Coded
<1> QED BY <1>1, BuildsCoded

\* The mini graph another one is built from is in scope.
LEMMA SourceInScope ==
  ASSUME Ready, NEW d \in Bodies, d # LastLoop, NEW j \in 1..Len(code.builds[d]),
         code.builds[d][j].parent # None.id
  PROVE  code.builds[d][j].parent \in
           GraphIdsTo(d - 1) \union {code.builds[d][i].id : i \in 1..(j - 1)}
<1> DEFINE b == code.builds[d][j]
           n == Len(code.builds[d])
<1>1. /\ OperandsDeclared /\ Generated /\ PlanTypeOK /\ d \in Loops /\ d \in Nat
      /\ \A e \in 0..(d - 1) : e \in Bodies /\ e # LastLoop
  BY LoopFacts DEF Ready, Bodies
<1>2. DOMAIN code.builds[d] = 1..n /\ n \in Nat
  BY BuildFacts
<1>3. b.parent \in IdsOf(BuildsBefore(d, j))
  BY <1>1, <1>2 DEF OperandsDeclared
<1>4. PICK t \in BuildsBefore(d, j) : t.id = b.parent
  BY <1>3 DEF IdsOf
<1>5. CASE t \in UNION {ToSet(code.builds[e]) : e \in 0..(d - 1)}
  <2>1. PICK e \in 0..(d - 1) : t \in ToSet(code.builds[e])
    BY <1>5
  <2>2. e \in Bodies /\ e # LastLoop
    BY <1>1
  <2>3. PICK i \in 1..Len(code.builds[e]) : t = code.builds[e][i]
    BY <2>1, <2>2, BuildFacts DEF ToSet
  <2>4. BuildOf(t, mg_ops[e][i], e) /\ mg_ops[e][i] \in ToSet(mg_ops[e])
    BY <2>2, <2>3, BuildFacts
  <2>5. t.id = mg_ops[e][i].id /\ mg_ops[e][i] \in MiniGraphsTo(d - 1)
    BY <2>4 DEF MiniGraphsTo, BuildOf
  <2> QED BY <1>4, <2>5 DEF GraphIdsTo
<1>6. CASE t \in ToSet(SubSeq(code.builds[d], 1, j - 1))
  <2> DEFINE sub == SubSeq(code.builds[d], 1, j - 1)
  <2>1. sub = [i \in 1..(j - 1) |-> code.builds[d][1 + i - 1]]
    BY <1>2 DEF SubSeq
  <2>2. DOMAIN sub = 1..(j - 1) /\ \A i \in 1..(j - 1) : sub[i] = code.builds[d][i]
    BY <1>2, <2>1
  <2> HIDE DEF sub
  <2>3. PICK i \in 1..(j - 1) : t = code.builds[d][i]
    BY <1>6, <2>2 DEF ToSet, sub
  <2> QED BY <1>4, <2>3
<1> QED BY <1>4, <1>5, <1>6 DEF BuildsBefore

\* Mini graphs are built right from right sets and rows.
LEMMA RowsBuiltRight ==
  ASSUME Ready, GraphOK, NEW d \in Bodies, d # LastLoop,
         NEW mg \in ToSet(mg_ops[d]), NEW b \in ToSet(code.builds[d]), BuildOf(b, mg, d),
         NEW f, f.match \in Seq(DOMAIN graph), Len(f.match) = d + 1,
         DOMAIN f.sets = IdsTo(d), SetsRight(f.sets, d, f.match), RowsRight(f.rows, d, f.match),
         b.parent # None.id => b.parent \in DOMAIN f.rows
  PROVE  /\ DOMAIN Rows(f, b) = Candidates(mg.vertices, f.match)
         /\ \A v \in Candidates(mg.vertices, f.match) : RowRight(Rows(f, b)[v], mg, f.match, v)
<1> DEFINE match == f.match
           Source(v) == IF b.parent = None.id THEN graph[v] ELSE f.rows[b.parent][v]
           Keep(v) == {x \in Source(v) \intersect f.sets[b.intersect] : b.bounded => x < v}
           rows == Rows(f, b)
<1>1. /\ PlanTypeOK /\ OperandsDeclared /\ BoundedRowsSuffice /\ Generated
      /\ phase # "create_plan" /\ d \in Loops /\ d \in Nat
  BY LoopFacts DEF Ready, Generated
<1>2. /\ mg \in MiniGraphsTo(d) /\ mg_dep(mg) = d
      /\ Within(mg.vertices) /\ mg.vertices.dep = d
      /\ Within(mg.intersect) /\ mg.intersect.dep = d
      /\ mg.vertices \in SetsTo(d) /\ mg.intersect \in SetsTo(d) /\ iter_set[d] \in SetsTo(d)
  <2>1. MiniGraphOK(mg, d)
    BY <1>1 DEF PlanTypeOK
  <2>2. mg.vertices \in ToSet(set_ops[d]) /\ mg.intersect \in ToSet(set_ops[d])
    BY <2>1 DEF MiniGraphOK
  <2> QED BY <1>1, <2>2, OpsFacts, ScopeGrows DEF mg_dep
<1>3. /\ b.id = mg.id /\ b.vertices = mg.vertices.id /\ b.intersect = mg.intersect.id
      /\ b.iter = iter_set[d].id /\ b.bounded = mg_bounded[mg.id]
  BY DEF BuildOf
<1>4. /\ f.sets[b.vertices] = Candidates(mg.vertices, match)
      /\ f.sets[b.intersect] = Candidates(mg.intersect, match)
      /\ f.sets[b.iter] = Candidates(iter_set[d], match)
  <2> QED BY <1>2, <1>3 DEF SetsRight, IdsTo
<1>5. ASSUME NEW v \in Candidates(mg.vertices, match)
      PROVE  Part(mg, match, v) \subseteq Source(v) /\ Source(v) \subseteq graph[v]
  <2>1. CASE b.parent = None.id
    BY <2>1 DEF Part
  <2>2. CASE b.parent # None.id
    <3>1. PICK m \in MiniGraphsTo(d), P \in MiniGraphsTo(d) :
            m.id = b.id /\ P.id = b.parent /\ MGSuperset(P, m.vertices, m.intersect)
      BY <1>1, <2>2 DEF OperandsDeclared, SourceFits
    <3>2. m = mg
      <4>1. \A x, y \in MiniGraphsTo(d) : x.id = y.id => x = y
        BY <1>1, MiniGraphFacts
      <4> QED BY <1>2, <1>3, <3>1, <4>1
    <3>3. IsSuperset(P.vertices, mg.vertices) /\ IsSuperset(P.intersect, mg.intersect)
      BY <3>1, <3>2 DEF MGSuperset
    <3>4. P.id \in DOMAIN f.rows
      BY <2>2, <3>1
    <3>5. Within(P.vertices) /\ Within(P.intersect)
      BY <1>1, <3>3, MiniGraphFacts
    <3>6. Candidates(mg.vertices, match) \subseteq Candidates(P.vertices, match)
      <4>1. mg.vertices.dep < Len(match)
        BY <1>1, <1>2
      <4> QED BY <1>2, <3>3, <3>5, <4>1, SupersetContains
    <3>7. Candidates(mg.intersect, match) \subseteq Candidates(P.intersect, match)
      <4>1. mg.intersect.dep < Len(match)
        BY <1>1, <1>2
      <4> QED BY <1>2, <3>3, <3>5, <4>1, SupersetContains
    <3>8. RowRight(f.rows[P.id][v], P, match, v)
      BY <3>3, <3>4, <3>6 DEF RowsRight
    <3>9. mg_bounded[P.id] => mg_bounded[mg.id]
      <4>1. b.parent # None.id /\ mg_bounded[b.parent] => b.bounded
        BY <1>1 DEF BoundedRowsSuffice
      <4> QED BY <1>3, <2>2, <3>1, <4>1
    <3>10. Part(mg, match, v) \subseteq Part(P, match, v)
      BY <3>7, <3>9 DEF Part
    <3>11. Source(v) = f.rows[P.id][v]
      BY <2>2, <3>1
    <3> HIDE DEF Source
    <3> QED BY <3>8, <3>10, <3>11 DEF RowRight
  <2> QED BY <2>1, <2>2
<1>6. ASSUME NEW v \in Candidates(mg.vertices, match)
      PROVE  Keep(v) = Part(mg, match, v)
  <2>1. Part(mg, match, v) \subseteq Source(v) /\ Source(v) \subseteq graph[v]
    BY <1>5
  <2> HIDE DEF Source
  <2> QED BY <1>3, <1>4, <2>1 DEF Part
<1>7. rows = [v \in Candidates(mg.vertices, match) |->
                IF b.type = "Static" /\ v \notin Candidates(iter_set[d], match)
                THEN Source(v) ELSE Keep(v)]
  BY <1>4 DEF Rows
<1> HIDE DEF rows, Keep, Source
<1>8. ASSUME NEW v \in Candidates(mg.vertices, match)
      PROVE  RowRight(rows[v], mg, match, v)
  <2>1. Part(mg, match, v) \subseteq Source(v) /\ Source(v) \subseteq graph[v]
    BY <1>5
  <2>2. Keep(v) = Part(mg, match, v)
    BY <1>6
  <2>3. rows[v] = IF b.type = "Static" /\ v \notin Candidates(iter_set[d], match)
                  THEN Source(v) ELSE Keep(v)
    BY <1>7
  <2> QED BY <1>2, <2>1, <2>2, <2>3 DEF RowRight
<1>9. DOMAIN rows = Candidates(mg.vertices, match)
  BY <1>7
<1> QED BY <1>8, <1>9 DEF rows

\* After its builds a body has the mini graphs of its loop.
LEMMA BuiltRight ==
  ASSUME Ready, GraphOK, NEW d \in Bodies, d # LastLoop,
         NEW start, Working(start),
         start.match \in Seq(DOMAIN graph), Len(start.match) = d + 1,
         DOMAIN start.sets = IdsTo(d), SetsRight(start.sets, d, start.match),
         DOMAIN start.rows = GraphIdsTo(d - 1), RowsRight(start.rows, d - 1, start.match),
         NEW b, b = Built(start, code.builds[d])
  PROVE  /\ b.match = start.match /\ b.sets = start.sets /\ b.left = start.left
         /\ DOMAIN b.rows = GraphIdsTo(d) /\ RowsRight(b.rows, d, start.match)
<1> DEFINE bds == code.builds[d]
           n == Len(code.builds[d])
           match == start.match
<1>1. PlanTypeOK /\ OperandsDeclared /\ Generated /\ d \in Loops /\ d \in Nat
  BY LoopFacts DEF Ready
<1>2. /\ n \in Nat /\ n = Len(mg_ops[d]) /\ DOMAIN bds = 1..n
      /\ \A i \in 1..n : /\ bds[i] \in ToSet(bds) /\ BuildOf(bds[i], mg_ops[d][i], d)
                         /\ mg_ops[d][i] \in ToSet(mg_ops[d])
  BY BuildFacts
<1>3. PICK f : /\ f[0] = start
               /\ \A i \in 1..n : f[i] = Add(f[i - 1], bds[i])
               /\ Built(start, bds) = f[n]
  BY <1>2, BuiltInOrder
<1> DEFINE Declared(i) == GraphIdsTo(d - 1) \union {bds[j].id : j \in 1..i}
           Right(i) ==
             /\ Working(f[i]) /\ f[i].match = match /\ f[i].sets = start.sets
             /\ f[i].left = start.left
             /\ DOMAIN f[i].rows = Declared(i) /\ RowsRight(f[i].rows, d, match)
           S == {i \in 0..n : Right(i)}
<1>4. 0 \in S
  <2>1. Declared(0) = GraphIdsTo(d - 1)
    OBVIOUS
  <2>2. RowsRight(start.rows, d, match)
    <3> SUFFICES ASSUME NEW mg \in MiniGraphsTo(d), mg.id \in DOMAIN start.rows
                 PROVE  mg \in MiniGraphsTo(d - 1)
      BY DEF RowsRight
    <3>1. PICK m \in MiniGraphsTo(d - 1) : m.id = mg.id
      BY DEF GraphIdsTo
    <3>2. m = mg
      BY <1>1, <3>1, ScopeGrows, MiniGraphFacts
    <3> QED BY <3>2
  <2> HIDE DEF Declared
  <2> QED BY <1>2, <1>3, <2>1, <2>2
<1>5. ASSUME NEW i \in 0..(n - 1), i \in S PROVE i + 1 \in S
  <2> DEFINE g == f[i]
             h == f[i + 1]
             mg == mg_ops[d][i + 1]
             bd == bds[i + 1]
             new == With(g.rows, mg.id, Rows(g, bd))
  <2>1. i \in Nat /\ i + 1 \in 1..n /\ i + 1 \in 0..n /\ (i + 1) - 1 = i
    BY <1>2
  <2>2. /\ BuildOf(bd, mg, d) /\ mg \in ToSet(mg_ops[d]) /\ bd \in ToSet(bds)
        /\ bd.id = mg.id /\ mg \in MiniGraphsTo(d)
    BY <1>1, <1>2, <2>1, ScopeGrows DEF BuildOf
  <2>3. h = Add(g, bd)
    BY <1>3, <2>1, <2>2
  <2>4. Right(i)
    BY <1>5
  <2>5. /\ Working(h) /\ h.match = match /\ h.sets = start.sets /\ h.left = start.left
        /\ h.rows = new
    <3>1. Working(g) /\ g.match = match /\ g.sets = start.sets /\ g.left = start.left
      BY <2>4
    <3> HIDE DEF g, h, mg, bd, match
    <3>2. /\ Working(h) /\ h.match = g.match /\ h.sets = g.sets /\ h.left = g.left
          /\ h.rows = With(g.rows, bd.id, Rows(g, bd))
      BY <2>3, <3>1, AddFacts
    <3> QED BY <2>2, <3>1, <3>2
  <2>6. /\ DOMAIN Rows(g, bd) = Candidates(mg.vertices, match)
        /\ \A v \in Candidates(mg.vertices, match) : RowRight(Rows(g, bd)[v], mg, match, v)
    <3>1. bd.parent # None.id => bd.parent \in DOMAIN g.rows
      <4>1. i + 1 \in 1..Len(code.builds[d])
        BY <2>1
      <4>2. bds[i + 1].parent # None.id =>
              bds[i + 1].parent \in GraphIdsTo(d - 1) \union {bds[j].id : j \in 1..((i + 1) - 1)}
        BY <4>1, SourceInScope
      <4> QED BY <2>1, <2>2, <2>4, <4>2
    <3>2. /\ g.match = match /\ DOMAIN g.sets = IdsTo(d) /\ SetsRight(g.sets, d, match)
          /\ RowsRight(g.rows, d, match)
      BY <2>4
    <3> HIDE DEF g, mg, bd, match
    <3>3. /\ g.match \in Seq(DOMAIN graph) /\ Len(g.match) = d + 1
          /\ SetsRight(g.sets, d, g.match) /\ RowsRight(g.rows, d, g.match)
      BY <3>2 DEF match
    <3>4. /\ DOMAIN Rows(g, bd) = Candidates(mg.vertices, g.match)
          /\ \A v \in Candidates(mg.vertices, g.match) :
               RowRight(Rows(g, bd)[v], mg, g.match, v)
      BY <2>2, <3>1, <3>2, <3>3, RowsBuiltRight
    <3> QED BY <3>2, <3>4
  <2>7. /\ DOMAIN new = DOMAIN g.rows \union {mg.id}
        /\ \A z \in DOMAIN g.rows : new[z] = g.rows[z]
        /\ mg.id \notin DOMAIN g.rows => new[mg.id] = Rows(g, bd)
    <3> HIDE DEF g, mg, bd
    <3> QED BY WithFacts
  <2> HIDE DEF new
  <2>8. DOMAIN new = Declared(i + 1)
    <3>1. 1..(i + 1) = 1..i \union {i + 1}
      BY <2>1
    <3>2. Declared(i + 1) = Declared(i) \union {mg.id}
      BY <2>2, <3>1
    <3> HIDE DEF Declared
    <3> QED BY <2>4, <2>7, <3>2
  <2>9. RowsRight(new, d, match)
    <3> SUFFICES ASSUME NEW m \in MiniGraphsTo(d), m.id \in DOMAIN new
                 PROVE  /\ DOMAIN new[m.id] = Candidates(m.vertices, match)
                        /\ \A v \in Candidates(m.vertices, match) :
                             RowRight(new[m.id][v], m, match, v)
      BY DEF RowsRight
    <3>1. CASE m.id \in DOMAIN g.rows
      BY <2>4, <2>7, <3>1 DEF RowsRight
    <3>2. CASE m.id \notin DOMAIN g.rows
      <4>1. m.id = mg.id
        BY <2>7, <3>2
      <4>2. m = mg
        BY <1>1, <2>2, <4>1, MiniGraphFacts
      <4> HIDE DEF g, mg, bd
      <4> QED BY <2>6, <2>7, <3>2, <4>1, <4>2
    <3> QED BY <3>1, <3>2
  <2> HIDE DEF Declared
  <2> QED BY <2>1, <2>5, <2>8, <2>9
<1>6. n \in S
  <2> HIDE DEF S
  <2>1. 0..n \subseteq S
    BY <1>2, <1>4, <1>5, UpTo
  <2> QED BY <1>2, <2>1
<1>7. Right(n) /\ b = f[n]
  BY <1>3, <1>6
<1>8. Declared(n) = GraphIdsTo(d)
  <2>1. mg_ops[d] \in Seq(MiniGraphs) /\ DOMAIN mg_ops[d] = 1..n
    BY <1>1, <1>2 DEF PlanTypeOK
  <2>2. \A j \in 1..n : bds[j].id = mg_ops[d][j].id
    BY <1>2 DEF BuildOf
  <2>3. {mg.id : mg \in ToSet(mg_ops[d])} = {bds[j].id : j \in 1..n}
    BY <2>1, <2>2 DEF ToSet
  <2> QED BY <1>1, <2>3, ScopeGrows
<1> HIDE DEF Declared
<1> QED BY <1>7, <1>8

\* What remains of the body of a loop that has others inside, for the loops inside it.
LEMMA BodyRight ==
  ASSUME Ready, GraphOK, NEW d \in Bodies, d # LastLoop, NEW outer, FrameRight(outer, d),
         NEW k, NEW v \in DOMAIN graph,
         d # 0 => /\ k \in 1..Len(Ascending(outer.sets[iter_set[d - 1].id]))
                  /\ v = Ascending(outer.sets[iter_set[d - 1].id])[k],
         NEW b, b = Body(d, outer, v, k), ~b.left,
         NEW f, f.match = b.match, f.sets = b.sets, f.rows = b.rows
  PROVE  FrameRight(f, d + 1)
<1> DEFINE start == [match |-> Append(outer.match, v), sets |-> outer.sets, rows |-> outer.rows,
                     done |-> 0, count |-> 0, left |-> FALSE]
           read == RowsRead(d, start, k)
           e == Executed(start, code.sets[d], read)
           w == Built(e, code.builds[d])
           match == Append(outer.match, v)
<1>1. /\ PlanTypeOK /\ phase # "create_plan" /\ d \in Loops /\ d \in Nat
      /\ d - 1 \in Loops \/ d = 0
  BY LoopFacts DEF Ready, Loops, Generated
<1>2. b = IF e.left THEN e ELSE w
  BY DEF Body
<1>3. /\ Working(start) /\ ~start.left /\ start.match = match
      /\ start.sets = outer.sets /\ start.rows = outer.rows
  BY DEF Working
<1>4. /\ outer.match \in Seq(DOMAIN graph) /\ Len(outer.match) = d
      /\ DOMAIN outer.sets = IdsTo(d - 1) /\ SetsRight(outer.sets, d - 1, outer.match)
      /\ DOMAIN outer.rows = GraphIdsTo(d - 1) /\ RowsRight(outer.rows, d - 1, outer.match)
  BY DEF FrameRight
<1>5. match \in Seq(DOMAIN graph) /\ Len(match) = d + 1 /\ Last(match) = v
  BY <1>1, <1>4 DEF Last
<1> HIDE DEF start, match, e, w
<1>6. SetsRight(outer.sets, d - 1, match) /\ RowsRight(outer.rows, d - 1, match)
  <2>1. CASE d = 0
    <3>1. 0..(d - 1) = {}
      BY <2>1
    <3> QED BY <3>1 DEF SetsRight, RowsRight, SetsTo, MiniGraphsTo
  <2>2. CASE d # 0
    <3>1. d - 1 \in Loops /\ Len(outer.match) = (d - 1) + 1
      BY <1>1, <1>4, <2>2
    <3> QED BY <1>1, <1>4, <3>1, ScopeStays DEF match
  <2> QED BY <2>1, <2>2
<1>7. ASSUME NEW mg \in MiniGraphsTo(d - 1), \E r \in ToSet(code.reads[d]) : r.mg = mg.id
      PROVE  /\ read[mg.id].vid = Last(match) /\ Last(match) \in Candidates(iter_set[d - 1], match)
             /\ RowRight(read[mg.id].ids, mg, match, Last(match))
  <2>1. d # 0
    <3>1. d = 0 => 0..(d - 1) = {}
      OBVIOUS
    <3> QED BY <3>1 DEF MiniGraphsTo
  <2>2. start.match = Append(outer.match, v) /\ start.rows = outer.rows
    BY <1>3 DEF match
  <2> HIDE DEF read
  <2>3. /\ read[mg.id].vid = v /\ v \in Candidates(iter_set[d - 1], start.match)
        /\ RowRight(read[mg.id].ids, mg, start.match, v)
    BY <1>7, <2>1, <2>2, ReadRight DEF read
  <2> QED BY <1>3, <1>5, <2>3
<1> HIDE DEF read
<1>8. /\ Working(e) /\ e.match = match /\ e.rows = outer.rows
      /\ ~e.left => DOMAIN e.sets = IdsTo(d) /\ SetsRight(e.sets, d, match)
  <2>1. /\ Working(start) /\ ~start.left
        /\ start.match \in Seq(DOMAIN graph) /\ Len(start.match) = d + 1
        /\ DOMAIN start.sets = IdsTo(d - 1) /\ SetsRight(start.sets, d - 1, start.match)
    BY <1>3, <1>4, <1>5, <1>6
  <2>2. \A mg \in MiniGraphsTo(d - 1) : (\E r \in ToSet(code.reads[d]) : r.mg = mg.id) =>
          /\ read[mg.id].vid = Last(start.match)
          /\ Last(start.match) \in Candidates(iter_set[d - 1], start.match)
          /\ RowRight(read[mg.id].ids, mg, start.match, Last(start.match))
    BY <1>3, <1>7
  <2>3. e = Executed(start, code.sets[d], read)
    BY DEF e
  <2> HIDE DEF e
  <2>4. /\ Working(e) /\ e.match = start.match /\ e.rows = start.rows
        /\ ~e.left => DOMAIN e.sets = IdsTo(d) /\ SetsRight(e.sets, d, e.match)
    <3>1. Ready /\ GraphOK /\ d \in Bodies /\ d # LastLoop
      OBVIOUS
    <3> QED BY ONLY <2>1, <2>2, <2>3, <3>1, ExecutedRight
  <2> QED BY <1>3, <2>4
<1>9. ~e.left /\ b = w
  BY <1>2
<1>10. /\ w.match = match /\ w.sets = e.sets
       /\ DOMAIN w.rows = GraphIdsTo(d) /\ RowsRight(w.rows, d, match)
  BY <1>4, <1>5, <1>6, <1>8, <1>9, BuiltRight DEF w
<1>11. (d + 1) - 1 = d
  BY <1>1
<1> QED BY <1>5, <1>8, <1>9, <1>10, <1>11 DEF FrameRight


(***************************************************************************)
(* The program is generated loop by loop.                                  *)
(***************************************************************************)
\* What one round of gen_code_omp makes of a loop of the plan.
LEMMA BodyGenerated ==
  ASSUME PlanTypeOK, NEW d \in Bodies
  PROVE  BodyOf(Mapped(set_ops[d], gen_code_mg_op),
                Mapped(mg_used[d], LAMBDA mg : Read(mg, d)),
                IF d = LastLoop THEN <<>> ELSE Mapped(mg_ops[d], Build), d)
<1> DEFINE sets == Mapped(set_ops[d], gen_code_mg_op)
           reads == Mapped(mg_used[d], LAMBDA mg : Read(mg, d))
           builds == Mapped(mg_ops[d], Build)
<1>1. d \in Loops
  BY LoopFacts
<1>2. /\ set_ops[d] \in Seq(Ops) /\ mg_used[d] \in Seq(MiniGraphs) /\ mg_ops[d] \in Seq(MiniGraphs)
      /\ \A mg \in ToSet(mg_ops[d]) : MiniGraphOK(mg, d)
  BY <1>1 DEF PlanTypeOK
<1>3. sets = [k \in DOMAIN set_ops[d] |-> gen_code_mg_op(set_ops[d][k])]
  BY DEF Mapped
<1>4. /\ Listed(sets, set_ops[d])
      /\ \A k \in 1..Len(set_ops[d]) : sets[k].op = set_ops[d][k] /\ Formed(sets[k])
  <2>1. DOMAIN set_ops[d] = 1..Len(set_ops[d]) /\ Len(set_ops[d]) \in Nat
    BY <1>2
  <2>2. \A k \in 1..Len(set_ops[d]) : sets[k] = gen_code_mg_op(set_ops[d][k])
    BY <1>3, <2>1
  <2>3. DOMAIN sets = 1..Len(set_ops[d]) /\ Len(sets) = Len(set_ops[d])
    BY <1>3, <2>1
  <2> HIDE DEF sets
  <2> QED BY <2>2, <2>3, MiniGraphStatement DEF Listed
<1>5. ASSUME NEW r \in ToSet(reads)
      PROVE  \E mg \in ToSet(mg_used[d]) : r.mg = mg.id /\ (r.direct => SameAddress(mg, d))
  <2>1. reads = [k \in DOMAIN mg_used[d] |-> Read(mg_used[d][k], d)]
    BY DEF Mapped
  <2>2. PICK k \in DOMAIN mg_used[d] : r = Read(mg_used[d][k], d)
    BY <2>1 DEF ToSet
  <2>3. mg_used[d][k] \in ToSet(mg_used[d])
    BY <2>2 DEF ToSet
  <2>4. r.mg = mg_used[d][k].id /\ r.direct = SameAddress(mg_used[d][k], d)
    BY <2>2 DEF Read
  <2> QED BY <2>3, <2>4
<1>6. builds = [k \in DOMAIN mg_ops[d] |-> Build(mg_ops[d][k])]
  BY DEF Mapped
<1>7. /\ Listed(builds, mg_ops[d])
      /\ \A k \in 1..Len(mg_ops[d]) : BuildOf(builds[k], mg_ops[d][k], d)
  <2>1. DOMAIN mg_ops[d] = 1..Len(mg_ops[d]) /\ Len(mg_ops[d]) \in Nat
    BY <1>2
  <2>2. \A k \in 1..Len(mg_ops[d]) : builds[k] = Build(mg_ops[d][k])
    BY <1>6, <2>1
  <2>3. DOMAIN builds = 1..Len(mg_ops[d]) /\ Len(builds) = Len(mg_ops[d])
    BY <1>6, <2>1
  <2> HIDE DEF builds
  <2>4. ASSUME NEW k \in 1..Len(mg_ops[d]) PROVE BuildOf(builds[k], mg_ops[d][k], d)
    <3> DEFINE mg == mg_ops[d][k]
               b == builds[k]
    <3>1. mg \in ToSet(mg_ops[d])
      BY <2>1 DEF ToSet
    <3>2. mg.vertices \in ToSet(set_ops[d])
      BY <1>2, <3>1 DEF MiniGraphOK
    <3>3. mg_dep(mg) = d
      BY <1>1, <3>2, OpsFacts DEF mg_dep
    <3>4. b = Build(mg)
      BY <2>2
    <3> HIDE DEF mg, b
    <3>5. BuildOf(b, mg, d)
      BY <3>3, <3>4 DEF Build, BuildOf
    <3> QED BY <3>5 DEF mg, b
  <2> QED BY <2>3, <2>4 DEF Listed
<1> HIDE DEF sets, reads, builds
<1>8. BodyOf(sets, reads, IF d = LastLoop THEN <<>> ELSE builds, d)
  BY <1>4, <1>5, <1>7 DEF BodyOf
<1> QED BY <1>8 DEF sets, reads, builds


\* A step that changes no part of the plan leaves the loops' code right.
LEMMA BodyStays ==
  ASSUME UNCHANGED <<input, set_ops, iter_set, mg_ops, mg_used, mg_bounded>>,
         NEW CONSTANT sets, NEW CONSTANT reads, NEW CONSTANT builds, NEW CONSTANT d,
         BodyOf(sets, reads, builds, d)
  PROVE  BodyOf(sets, reads, builds, d)'
<1>1. LastLoop' = LastLoop /\ (Vertex' <=> Vertex)
  BY DEF LastLoop, iep_num, iep_depth, Vertex
<1>2. \A s : Formed(s)' <=> Formed(s)
  BY <1>1 DEF Formed, IsEdge, IsRestricted, is_last_op
<1>3. \A mg : SameAddress(mg, d)' <=> SameAddress(mg, d)
  BY DEF SameAddress, mg_dep
<1>4. \A b, mg : BuildOf(b, mg, d)' <=> BuildOf(b, mg, d)
  BY DEF BuildOf
<1>5. \A x, y : Listed(x, y)' <=> Listed(x, y)
  BY DEF Listed
<1> QED BY <1>1, <1>2, <1>3, <1>4, <1>5 DEF BodyOf

Planning == {"create_plan", "collect", "mark", "inherit", "erase"}

\* The loops whose code has been generated have the right code.
CodeInv ==
  /\ code = [adj |-> code.adj, reads |-> code.reads, sets |-> code.sets,
             builds |-> code.builds, iep |-> code.iep]
  /\ phase \in Planning => code = NoCode
  /\ phase = "gen_code" =>
       /\ cursor[1] \in 0..(LastLoop + 1)
       /\ DOMAIN code.sets = 0..(cursor[1] - 1)
       /\ DOMAIN code.reads = 0..(cursor[1] - 1)
       /\ DOMAIN code.builds = 0..(cursor[1] - 1)
       /\ \A d \in 0..(cursor[1] - 1) : CodeOf(d)
  /\ Generated => \A d \in Bodies : CodeOf(d)

\* A step that changes neither a loop's part of the plan nor its code leaves it right.
LEMMA CodeOfStays ==
  ASSUME UNCHANGED <<input, set_ops, iter_set, mg_ops, mg_used, mg_bounded>>,
         NEW CONSTANT d, CodeOf(d),
         code'.sets[d] = code.sets[d], code'.reads[d] = code.reads[d],
         code'.builds[d] = code.builds[d]
  PROVE  CodeOf(d)'
<1>1. PICK sets, reads, builds :
        sets = code.sets[d] /\ reads = code.reads[d] /\ builds = code.builds[d]
  OBVIOUS
<1>2. BodyOf(sets, reads, builds, d) /\ FitsOf(sets, reads, builds, d)
  BY <1>1 DEF CodeOf
<1>3. BodyOf(sets, reads, builds, d)' /\ FitsOf(sets, reads, builds, d)'
  BY <1>2, BodyStays, FitsStay
<1>4. sets = code'.sets[d] /\ reads = code'.reads[d] /\ builds = code'.builds[d]
  BY <1>1
<1> QED BY <1>3, <1>4 DEF CodeOf

\* A list over loops, extended by the next one.
LEMMA WithNext ==
  ASSUME NEW f, NEW d \in Nat, DOMAIN f = 0..(d - 1), NEW y, NEW g, g = With(f, d, y)
  PROVE  DOMAIN g = 0..d /\ g[d] = y /\ \A e \in 0..(d - 1) : g[e] = f[e]
<1>1. d \notin 0..(d - 1) /\ 0..d = 0..(d - 1) \union {d}
  OBVIOUS
<1>2. /\ DOMAIN g = DOMAIN f \union {d} /\ \A z \in DOMAIN f : g[z] = f[z]
      /\ d \notin DOMAIN f => g[d] = y
  BY DEF With
<1> QED BY <1>1, <1>2

\* The generator's step for one loop.
LEMMA LoopGenerated ==
  ASSUME PlanInv, CodeInv, gen_code
  PROVE  CodeInv'
<1> DEFINE d == cursor[1]
           sets == Mapped(set_ops[d], gen_code_mg_op)
           reads == Mapped(mg_used[d], LAMBDA mg : Read(mg, d))
           builds == IF d = LastLoop THEN <<>> ELSE Mapped(mg_ops[d], Build)
<1>1. /\ phase = "gen_code" /\ d \in Bodies /\ cursor' = <<d + 1, 1>>
      /\ UNCHANGED <<input, set_ops, iter_set, mg_ops, mg_used, mg_bounded, indeedUsed>>
      /\ \/ code' = code /\ phase' = "aborted"
         \/ /\ phase' = "gen_code" /\ \A op \in ToSet(set_ops[d]) : Checked(op)
            /\ code' = [code EXCEPT !.adj = With(@, d, AdjNeeded(d)), !.reads = With(@, d, reads),
                                    !.sets = With(@, d, sets), !.builds = With(@, d, builds)]
  BY DEF gen_code
<1>2. /\ LastLoop \in Nat /\ d \in 0..LastLoop /\ LastLoop' = LastLoop
  BY <1>1, LoopFacts, PlanTypes DEF Bodies, LastLoop, iep_num, iep_depth
<1>3. /\ BodyOf(sets, reads, builds, d)
      /\ phase' = "gen_code" => FitsOf(sets, reads, builds, d)
  BY <1>1, BodyGenerated, FitsGenerated, PlanTypes
<1> HIDE DEF sets, reads, builds
<1>4. CASE code' = code /\ phase' = "aborted"
  BY <1>4 DEF CodeInv, Planning, Generated
<1>5. CASE /\ phase' = "gen_code"
           /\ code' = [code EXCEPT !.adj = With(@, d, AdjNeeded(d)), !.reads = With(@, d, reads),
                                   !.sets = With(@, d, sets), !.builds = With(@, d, builds)]
  <2>1. /\ code = [adj |-> code.adj, reads |-> code.reads, sets |-> code.sets,
                   builds |-> code.builds, iep |-> code.iep]
        /\ DOMAIN code.sets = 0..(d - 1) /\ DOMAIN code.reads = 0..(d - 1)
        /\ DOMAIN code.builds = 0..(d - 1)
        /\ \A e \in 0..(d - 1) : CodeOf(e)
    BY <1>1 DEF CodeInv
  <2>2. code' = [adj |-> With(code.adj, d, AdjNeeded(d)), reads |-> With(code.reads, d, reads),
                 sets |-> With(code.sets, d, sets), builds |-> With(code.builds, d, builds),
                 iep |-> code.iep]
    BY <1>5, <2>1
  <2>3. /\ code'.reads = With(code.reads, d, reads) /\ code'.sets = With(code.sets, d, sets)
        /\ code'.builds = With(code.builds, d, builds)
        /\ code' = [adj |-> code'.adj, reads |-> code'.reads, sets |-> code'.sets,
                    builds |-> code'.builds, iep |-> code'.iep]
    BY <2>2
  <2> HIDE DEF d
  <2>4. d \in Nat /\ d \notin 0..(d - 1) /\ 0..d = 0..(d - 1) \union {d} /\ (d + 1) - 1 = d
    BY <1>2
  <2>5. /\ DOMAIN code'.sets = 0..d /\ code'.sets[d] = sets
        /\ \A e \in 0..(d - 1) : code'.sets[e] = code.sets[e]
    BY <2>1, <2>3, <2>4, WithNext
  <2>6. /\ DOMAIN code'.reads = 0..d /\ code'.reads[d] = reads
        /\ \A e \in 0..(d - 1) : code'.reads[e] = code.reads[e]
    BY <2>1, <2>3, <2>4, WithNext
  <2>7. /\ DOMAIN code'.builds = 0..d /\ code'.builds[d] = builds
        /\ \A e \in 0..(d - 1) : code'.builds[e] = code.builds[e]
    BY <2>1, <2>3, <2>4, WithNext
  <2>8. \A e \in 0..(d - 1) : CodeOf(e)'
    BY <1>1, <2>1, <2>5, <2>6, <2>7, CodeOfStays
  <2>9. PICK D, S, R, B : D = d /\ S = sets /\ R = reads /\ B = builds
    OBVIOUS
  <2>10. BodyOf(S, R, B, D)' /\ FitsOf(S, R, B, D)'
    BY <1>1, <1>3, <1>5, <2>9, BodyStays, FitsStay
  <2>11. CodeOf(D)'
    BY <2>5, <2>6, <2>7, <2>9, <2>10 DEF CodeOf
  <2>12. cursor'[1] = d + 1
    BY <1>1
  <2>13. \A e \in 0..(cursor'[1] - 1) : CodeOf(e)'
    BY <2>4, <2>8, <2>9, <2>11, <2>12
  <2>14. cursor'[1] \in 0..(LastLoop + 1)' /\ cursor'[1] - 1 = d
    BY <1>2, <2>12
  <2> QED BY <1>5, <2>3, <2>5, <2>6, <2>7, <2>13, <2>14 DEF CodeInv, Planning, Generated
<1> QED BY <1>1, <1>4, <1>5


\* The rounds before gen_code leave the program empty.
LEMMA PlanningSteps ==
  ASSUME \/ CreatePlan \/ EndCreatePlan \/ CollectMiniGraphs \/ EndCollect
         \/ MarkUsed \/ EndMark \/ Inherit \/ EndInherit \/ Erase \/ EndErase
  PROVE  /\ phase \in Planning
         /\ phase' \in Planning \union {"undefined"} \/ (phase' = "gen_code" /\ cursor'[1] = 0)
         /\ input' = input
<1>1. CASE CreatePlan
  BY <1>1 DEF CreatePlan, Planning
<1>2. CASE EndCreatePlan
  BY <1>2 DEF EndCreatePlan, Planning
<1>3. CASE CollectMiniGraphs
  BY <1>3 DEF CollectMiniGraphs, Planning
<1>4. CASE EndCollect
  BY <1>4 DEF EndCollect, Planning
<1>5. CASE MarkUsed
  BY <1>5 DEF MarkUsed, Planning
<1>6. CASE EndMark
  BY <1>6 DEF EndMark, Planning
<1>7. CASE Inherit
  BY <1>7 DEF Inherit, Planning
<1>8. CASE EndInherit
  BY <1>8 DEF EndInherit, Planning
<1>9. CASE Erase
  BY <1>9 DEF Erase, Planning
<1>10. CASE EndErase
  BY <1>10 DEF EndErase, Planning
<1> QED BY <1>1, <1>2, <1>3, <1>4, <1>5, <1>6, <1>7, <1>8, <1>9, <1>10

\* Every step keeps the code right.
LEMMA CodeStep ==
  ASSUME PlanInv, CodeInv, [Next]_vars
  PROVE  CodeInv'
<1>1. CASE /\ \/ CreatePlan \/ EndCreatePlan \/ CollectMiniGraphs \/ EndCollect
              \/ MarkUsed \/ EndMark \/ Inherit \/ EndInherit \/ Erase \/ EndErase
           /\ UNCHANGED code
  <2>1. /\ phase \in Planning
        /\ phase' \in Planning \union {"undefined"} \/ (phase' = "gen_code" /\ cursor'[1] = 0)
        /\ input' = input
    BY <1>1, PlanningSteps
  <2>2. code = NoCode /\ code' = NoCode
    BY <1>1, <2>1 DEF CodeInv
  <2>3. LastLoop \in Nat /\ LastLoop' = LastLoop
    BY <2>1, LoopFacts, PlanTypes DEF LastLoop, iep_num, iep_depth
  <2>4. CASE phase' \in Planning \union {"undefined"}
    BY <1>1, <2>2, <2>4 DEF CodeInv, Planning, Generated
  <2>5. CASE phase' = "gen_code" /\ cursor'[1] = 0
    <3>1. cursor'[1] \in 0..(LastLoop + 1)' /\ 0..(cursor'[1] - 1) = {}
      BY <2>3, <2>5
    <3>2. /\ DOMAIN NoCode.sets = {} /\ DOMAIN NoCode.reads = {} /\ DOMAIN NoCode.builds = {}
          /\ NoCode = [adj |-> NoCode.adj, reads |-> NoCode.reads, sets |-> NoCode.sets,
                       builds |-> NoCode.builds, iep |-> NoCode.iep]
      BY DEF NoCode
    <3> QED BY <2>2, <2>5, <3>1, <3>2 DEF CodeInv, Planning, Generated
  <2> QED BY <2>1, <2>4, <2>5
<1>2. CASE gen_code
  BY <1>2, LoopGenerated
<1>3. CASE EndGenCode
  <2>1. /\ phase = "gen_code" /\ phase' = "generated" /\ cursor[1] \notin Bodies
        /\ UNCHANGED <<input, set_ops, iter_set, mg_ops, mg_used, mg_bounded>>
        /\ code' = [code EXCEPT !.iep =
             IF iep_num > 1 THEN [k \in 0..(iep_num - 1) |-> iep_set(k)] ELSE @]
    BY <1>3 DEF EndGenCode
  <2> DEFINE iep == IF iep_num > 1 THEN [k \in 0..(iep_num - 1) |-> iep_set(k)] ELSE code.iep
  <2>2. code' = [code EXCEPT !.iep = iep]
    BY <2>1
  <2> HIDE DEF iep
  <2>3. /\ code = [adj |-> code.adj, reads |-> code.reads, sets |-> code.sets,
                   builds |-> code.builds, iep |-> code.iep]
        /\ cursor[1] \in 0..(LastLoop + 1) /\ \A d \in 0..(cursor[1] - 1) : CodeOf(d)
    BY <2>1 DEF CodeInv
  <2>4. LastLoop \in Nat /\ Bodies' = Bodies
    BY <2>1, LoopFacts, PlanTypes DEF Bodies, LastLoop, iep_num, iep_depth
  <2>5. \A d \in Bodies : CodeOf(d)
    <3>1. \A x \in 0..(LastLoop + 1) : x \notin 0..LastLoop => x - 1 = LastLoop
      BY <2>4
    <3>2. cursor[1] - 1 = LastLoop
      BY <2>1, <2>3, <3>1 DEF Bodies
    <3> QED BY <2>3, <3>2 DEF Bodies
  <2>6. /\ code' = [adj |-> code.adj, reads |-> code.reads, sets |-> code.sets,
                    builds |-> code.builds, iep |-> iep]
    BY <2>2, <2>3
  <2>7. /\ code'.sets = code.sets /\ code'.reads = code.reads /\ code'.builds = code.builds
        /\ code' = [adj |-> code'.adj, reads |-> code'.reads, sets |-> code'.sets,
                    builds |-> code'.builds, iep |-> code'.iep]
    BY <2>6
  <2>8. \A d \in Bodies : CodeOf(d)'
    BY <2>1, <2>5, <2>7, CodeOfStays
  <2>9. \A d \in Bodies' : CodeOf(d)'
    BY <2>4, <2>8
  <2> QED BY <2>1, <2>7, <2>9 DEF CodeInv, Planning, Generated
<1>4. CASE UNCHANGED <<genVars>>
  <2>1. LastLoop' = LastLoop /\ Bodies' = Bodies
    BY <1>4 DEF genVars, planVars, Bodies, LastLoop, iep_num, iep_depth
  <2>2. \A d : CodeOf(d) => CodeOf(d)'
    BY <1>4, CodeOfStays DEF genVars, planVars
  <2> QED BY <1>4, <2>1, <2>2 DEF CodeInv, genVars, planVars, Generated
<1>5. CASE Return
  BY <1>5 DEF Return, CodeInv, Planning, Generated
<1>6. Generate => (GenNext /\ UNCHANGED <<graph, root, frames, counter>>)
  BY DEF Generate
<1>7. \/ UNCHANGED <<genVars>> \/ Return \/ Generate
  BY DEF Next, vars, Run, EnterRoot, EnterLoop, LeaveLoop, Stop
<1> QED BY <1>1, <1>2, <1>3, <1>4, <1>5, <1>6, <1>7 DEF GenNext

(***************************************************************************)
(* Operands are declared.                                                  *)
(***************************************************************************)
\* A planned set is declared by a loop, in the loop itself before a statement that its
\* own statement precedes.
LEMMA SetDeclared ==
  ASSUME Coded, NEW d \in Bodies, NEW p \in SetsTo(d), ~is_last_op(p),
         NEW k \in 1..(Len(code.sets[d]) + 1),
         \A l \in 1..Len(code.sets[d]) : code.sets[d][l].op.id = p.id => l < k
  PROVE  p.id \in SetsDeclared(d, k)
<1>1. /\ d \in Nat /\ 0..d = 0..(d - 1) \union {d} /\ \A e \in 0..d : e \in Bodies
  BY LoopFacts DEF Coded, Bodies
<1>2. PICK e \in 0..d : p \in ToSet(set_ops[e])
  BY DEF SetsTo
<1>3. e \in Bodies /\ e \in Loops
  BY <1>1, LoopFacts DEF Coded
<1>4. PICK i \in 1..Len(code.sets[e]) : p = set_ops[e][i]
  <2>1. set_ops[e] \in Seq(Ops)
    BY <1>3, OpsFacts DEF Coded
  <2>2. PICK i \in 1..Len(set_ops[e]) : p = set_ops[e][i]
    BY <1>2, <2>1 DEF ToSet
  <2> QED BY <1>3, <2>2, StatementsCoded
<1>5. PICK t : t = code.sets[e][i]
  OBVIOUS
<1>6. t \in ToSet(code.sets[e]) /\ t.op = p /\ ~t.counts
  <2>1. t \in ToSet(code.sets[e]) /\ t.op = p /\ Formed(t)
    BY <1>3, <1>4, <1>5, StatementsCoded
  <2> QED BY <2>1 DEF Formed
<1>7. t \in Before(d, k)
  <2>1. CASE e \in 0..(d - 1)
    BY <1>6, <2>1 DEF Before
  <2>2. CASE e = d
    <3>1. i < k /\ i \in 1..(k - 1)
      BY <1>4, <1>5, <1>6, <2>2
    <3> DEFINE sub == SubSeq(code.sets[d], 1, k - 1)
    <3>2. sub = [l \in 1..(k - 1) |-> code.sets[d][1 + l - 1]]
      BY DEF SubSeq
    <3>3. DOMAIN sub = 1..(k - 1) /\ sub[i] = code.sets[d][i]
      BY <3>1, <3>2
    <3> HIDE DEF sub
    <3>4. t \in ToSet(sub)
      BY <1>5, <2>2, <3>1, <3>3 DEF ToSet
    <3> QED BY <3>4 DEF Before, sub
  <2> QED BY <1>1, <2>1, <2>2
<1> QED BY <1>6, <1>7 DEF SetsDeclared

\* So is a planned mini graph.
LEMMA GraphDeclared ==
  ASSUME Coded, NEW d \in Bodies, NEW mg, NEW k \in Nat \ {0},
         \/ mg \in MiniGraphsTo(d - 1)
         \/ /\ d # LastLoop /\ mg \in MiniGraphsTo(d)
            /\ \A l \in 1..Len(code.builds[d]) : code.builds[d][l].id = mg.id => l < k
  PROVE  mg.id \in IdsOf(BuildsBefore(d, k))
<1>1. /\ d \in Nat /\ 0..d = 0..(d - 1) \union {d} /\ \A e \in 0..d : e \in Bodies
      /\ \A e \in 0..(d - 1) : e # LastLoop
  BY LoopFacts DEF Coded, Bodies
<1>2. PICK e \in 0..d : /\ mg \in ToSet(mg_ops[e]) /\ e # LastLoop
                        /\ e = d => \A l \in 1..Len(code.builds[d]) :
                                      code.builds[d][l].id = mg.id => l < k
  <2>1. CASE mg \in MiniGraphsTo(d - 1)
    <3>1. PICK e \in 0..(d - 1) : mg \in ToSet(mg_ops[e])
      BY <2>1 DEF MiniGraphsTo
    <3>2. e # d /\ e \in 0..d /\ e # LastLoop
      BY <1>1, <3>1
    <3> QED BY <3>1, <3>2
  <2>2. CASE /\ d # LastLoop /\ mg \in MiniGraphsTo(d)
             /\ \A l \in 1..Len(code.builds[d]) : code.builds[d][l].id = mg.id => l < k
    <3>1. PICK e \in 0..d : mg \in ToSet(mg_ops[e])
      BY <2>2 DEF MiniGraphsTo
    <3>2. e # LastLoop
      BY <1>1, <2>2, <3>1
    <3> QED BY <2>2, <3>1, <3>2
  <2> QED BY <2>1, <2>2
<1>3. e \in Bodies /\ e \in Loops
  BY <1>1, LoopFacts DEF Coded
<1>4. PICK i \in 1..Len(code.builds[e]) : mg = mg_ops[e][i]
  <2>1. mg_ops[e] \in Seq(MiniGraphs)
    BY <1>3 DEF Coded, PlanTypeOK
  <2>2. PICK i \in 1..Len(mg_ops[e]) : mg = mg_ops[e][i]
    BY <1>2, <2>1 DEF ToSet
  <2> QED BY <1>2, <1>3, <2>2, BuildsCoded
<1>5. PICK b : b = code.builds[e][i]
  OBVIOUS
<1>6. b \in ToSet(code.builds[e]) /\ b.id = mg.id
  BY <1>2, <1>3, <1>4, <1>5, BuildsCoded DEF BuildOf
<1>7. b \in BuildsBefore(d, k)
  <2>1. CASE e \in 0..(d - 1)
    BY <1>6, <2>1 DEF BuildsBefore
  <2>2. CASE e = d
    <3>1. i < k /\ i \in 1..(k - 1)
      BY <1>2, <1>4, <1>5, <1>6, <2>2
    <3> DEFINE sub == SubSeq(code.builds[d], 1, k - 1)
    <3>2. sub = [l \in 1..(k - 1) |-> code.builds[d][1 + l - 1]]
      BY DEF SubSeq
    <3>3. DOMAIN sub = 1..(k - 1) /\ sub[i] = code.builds[d][i]
      BY <3>1, <3>2
    <3> HIDE DEF sub
    <3>4. b \in ToSet(sub)
      BY <1>5, <2>2, <3>1, <3>3 DEF ToSet
    <3> QED BY <3>4 DEF BuildsBefore, sub
  <2> QED BY <1>1, <2>1, <2>2
<1> QED BY <1>6, <1>7 DEF IdsOf

\* All that OperandsDeclared asks but for the order of the statements of one loop.
OperandsFit ==
  Generated =>
    \A d \in Bodies :
      /\ \A s \in ToSet(code.sets[d]) :
           /\ SetFits(s, d) /\ RowFits(s, d)
           /\ s.form # "chain" => s.from \in SetsDeclared(d, Len(code.sets[d]) + 1)
           /\ s.row # None.id => \E r \in ToSet(code.reads[d]) : r.mg = s.row
      /\ \A mg \in ToSet(mg_used[d]) :
           mg \in MiniGraphsTo(d - 1) /\ IsSuperset(mg.vertices, iter_set[d - 1])
      /\ \A r \in ToSet(code.reads[d]) : r.mg \in IdsOf(BuildsBefore(d, 1))
      /\ \A b \in ToSet(code.builds[d]) :
           /\ SourceFits(b, d)
           /\ {b.vertices, b.intersect, b.iter} \subseteq SetsDeclared(d, Len(code.sets[d]) + 1)
           /\ b.parent # None.id =>
                b.parent \in IdsOf(BuildsBefore(d, Len(code.builds[d]) + 1))

\* The order: a set or a mini graph that another one of the loop starts from precedes it.
BodyInOrder(sets, builds) ==
  /\ \A k, l \in DOMAIN sets : sets[k].from = sets[l].op.id => l < k
  /\ \A k, l \in DOMAIN builds : builds[k].parent = builds[l].id => l < k

InOrder == Generated => \A d \in Bodies : BodyInOrder(code.sets[d], code.builds[d])

\* The set a statement starts from.
LEMMA StatementOperand ==
  ASSUME Coded, NEW d \in Bodies, NEW j \in 1..Len(code.sets[d]),
         NEW k \in 1..(Len(code.sets[d]) + 1), code.sets[d][j].form # "chain",
         \A l \in 1..Len(code.sets[d]) : code.sets[d][j].from = code.sets[d][l].op.id => l < k
  PROVE  code.sets[d][j].from \in SetsDeclared(d, k)
<1>1. PICK s : s = code.sets[d][j]
  OBVIOUS
<1>2. StatementFits(s, d)
  BY <1>1, StatementsCoded
<1>3. PICK p \in SetsTo(d) : p.id = s.from /\ ~is_last_op(p)
  BY <1>1, <1>2 DEF StatementFits
<1>4. \A l \in 1..Len(code.sets[d]) : code.sets[d][l].op.id = p.id => l < k
  BY <1>1, <1>3
<1>5. p.id \in SetsDeclared(d, k)
  BY <1>3, <1>4, SetDeclared
<1> QED BY <1>1, <1>3, <1>5

\* The sets a mini graph is made from.
LEMMA BuildOperands ==
  ASSUME Coded, NEW d \in Bodies, d # LastLoop, NEW j \in 1..Len(code.builds[d])
  PROVE  {code.builds[d][j].vertices, code.builds[d][j].intersect, code.builds[d][j].iter}
           \subseteq SetsDeclared(d, Len(code.sets[d]) + 1)
<1>1. PICK b, mg : b = code.builds[d][j] /\ mg = mg_ops[d][j]
  OBVIOUS
<1>2. BuildOf(b, mg, d) /\ mg \in ToSet(mg_ops[d])
  BY <1>1, BuildsCoded
<1>3. /\ PlanTypeOK /\ phase # "create_plan" /\ d \in Loops /\ d \in Nat /\ d # input.size - 2
  BY LoopFacts DEF Coded, Generated, Bodies
<1>4. {mg.vertices, mg.intersect, iter_set[d]} \subseteq ToSet(set_ops[d])
  <2>1. MiniGraphOK(mg, d)
    BY <1>2, <1>3 DEF PlanTypeOK
  <2> QED BY <1>3, <2>1, OpsFacts DEF MiniGraphOK
<1>5. ASSUME NEW p \in ToSet(set_ops[d]) PROVE p.id \in SetsDeclared(d, Len(code.sets[d]) + 1)
  <2>1. p.dep = d /\ ~is_last_op(p)
    BY <1>3, OpsFacts DEF is_last_op
  <2>2. p \in SetsTo(d)
    <3>1. d \in 0..d
      BY <1>3
    <3> QED BY <3>1 DEF SetsTo
  <2>3. PICK k : k = Len(code.sets[d]) + 1
    OBVIOUS
  <2>4. k \in 1..(Len(code.sets[d]) + 1) /\ \A l \in 1..Len(code.sets[d]) : l < k
    <3>1. Len(code.sets[d]) \in Nat
      BY StatementsCoded
    <3> QED BY <2>3, <3>1
  <2>5. p.id \in SetsDeclared(d, k)
    BY <2>1, <2>2, <2>4, SetDeclared
  <2> QED BY <2>3, <2>5
<1> QED BY <1>1, <1>2, <1>4, <1>5 DEF BuildOf

\* The mini graph another one is built from.
LEMMA BuildSource ==
  ASSUME Coded, NEW d \in Bodies, d # LastLoop, NEW j \in 1..Len(code.builds[d]),
         NEW k \in Nat \ {0}, code.builds[d][j].parent # None.id,
         \A l \in 1..Len(code.builds[d]) : code.builds[d][j].parent = code.builds[d][l].id => l < k
  PROVE  code.builds[d][j].parent \in IdsOf(BuildsBefore(d, k))
<1>1. PICK b : b = code.builds[d][j]
  OBVIOUS
<1>2. SourceFits(b, d)
  BY <1>1, BuildsCoded
<1>3. PICK source \in MiniGraphsTo(d) : source.id = b.parent
  BY <1>1, <1>2 DEF SourceFits
<1>4. \A l \in 1..Len(code.builds[d]) : code.builds[d][l].id = source.id => l < k
  BY <1>1, <1>3
<1>5. source.id \in IdsOf(BuildsBefore(d, k))
  BY <1>3, <1>4, GraphDeclared
<1> QED BY <1>1, <1>3, <1>5

\* The mini graphs whose rows a body reads.
LEMMA RowsDeclared ==
  ASSUME PlanInv, Coded, NEW d \in Bodies
  PROVE  /\ \A mg \in ToSet(mg_used[d]) :
              mg \in MiniGraphsTo(d - 1) /\ IsSuperset(mg.vertices, iter_set[d - 1])
         /\ \A r \in ToSet(code.reads[d]) : r.mg \in IdsOf(BuildsBefore(d, 1))
         /\ \A s \in ToSet(code.sets[d]) :
              s.row # None.id => \E r \in ToSet(code.reads[d]) : r.mg = s.row
<1>1. d \in Loops
  BY LoopFacts DEF Coded
<1>2. \A mg \in ToSet(mg_used[d]) :
        mg \in MiniGraphsTo(d - 1) /\ IsSuperset(mg.vertices, iter_set[d - 1])
  BY <1>1 DEF PlanInv, UsedInv, UsedOK
<1>3. ASSUME NEW r \in ToSet(code.reads[d]) PROVE r.mg \in IdsOf(BuildsBefore(d, 1))
  <2>1. PICK mg \in ToSet(mg_used[d]) : r.mg = mg.id
    BY DEF Coded, CodeOf, BodyOf
  <2>2. mg.id \in IdsOf(BuildsBefore(d, 1))
    BY <1>2, GraphDeclared
  <2> QED BY <2>1, <2>2
<1>4. ASSUME NEW s \in ToSet(code.sets[d]), s.row # None.id
      PROVE  \E r \in ToSet(code.reads[d]) : r.mg = s.row
  <2>1. StatementFits(s, d)
    <3>1. DOMAIN code.sets[d] = 1..Len(code.sets[d])
      BY StatementsCoded
    <3>2. PICK k \in 1..Len(code.sets[d]) : s = code.sets[d][k]
      BY <3>1 DEF ToSet
    <3> QED BY <3>2, StatementsCoded
  <2>2. PICK mg \in ToSet(mg_used[d]) : mg.id = s.row
    BY <1>4, <2>1 DEF StatementFits
  <2> QED BY <2>2 DEF Coded, CodeOf, FitsOf
<1> QED BY <1>2, <1>3, <1>4

\* Every operand is there, whatever the order of the statements.
LEMMA OperandsFound ==
  ASSUME PlanInv, Coded
  PROVE  OperandsFit
<1> SUFFICES ASSUME NEW d \in Bodies
             PROVE  /\ \A s \in ToSet(code.sets[d]) :
                         /\ SetFits(s, d) /\ RowFits(s, d)
                         /\ s.form # "chain" => s.from \in SetsDeclared(d, Len(code.sets[d]) + 1)
                    /\ \A b \in ToSet(code.builds[d]) :
                         /\ SourceFits(b, d)
                         /\ {b.vertices, b.intersect, b.iter} \subseteq
                              SetsDeclared(d, Len(code.sets[d]) + 1)
                         /\ b.parent # None.id =>
                              b.parent \in IdsOf(BuildsBefore(d, Len(code.builds[d]) + 1))
  BY RowsDeclared DEF OperandsFit
<1>1. ASSUME NEW s \in ToSet(code.sets[d])
      PROVE  /\ SetFits(s, d) /\ RowFits(s, d)
             /\ s.form # "chain" => s.from \in SetsDeclared(d, Len(code.sets[d]) + 1)
  <2>1. DOMAIN code.sets[d] = 1..Len(code.sets[d]) /\ Len(code.sets[d]) \in Nat
    BY StatementsCoded
  <2>2. PICK j \in 1..Len(code.sets[d]) : s = code.sets[d][j]
    BY <2>1 DEF ToSet
  <2>3. StatementFits(s, d)
    BY <2>2, StatementsCoded
  <2>4. PICK k : k = Len(code.sets[d]) + 1
    OBVIOUS
  <2>5. k \in 1..(Len(code.sets[d]) + 1) /\ \A l \in 1..Len(code.sets[d]) : l < k
    BY <2>1, <2>4
  <2>6. s.form # "chain" => s.from \in SetsDeclared(d, k)
    BY <2>2, <2>5, StatementOperand
  <2> QED BY <2>3, <2>4, <2>6 DEF StatementFits
<1>2. ASSUME NEW b \in ToSet(code.builds[d])
      PROVE  /\ SourceFits(b, d)
             /\ {b.vertices, b.intersect, b.iter} \subseteq SetsDeclared(d, Len(code.sets[d]) + 1)
             /\ b.parent # None.id =>
                  b.parent \in IdsOf(BuildsBefore(d, Len(code.builds[d]) + 1))
  <2>1. d # LastLoop
    <3>1. ToSet(<<>>) = {}
      BY DEF ToSet
    <3> QED BY <3>1, BuildsCoded
  <2>2. DOMAIN code.builds[d] = 1..Len(code.builds[d]) /\ Len(code.builds[d]) \in Nat
    BY <2>1, BuildsCoded
  <2>3. PICK j \in 1..Len(code.builds[d]) : b = code.builds[d][j]
    BY <2>2 DEF ToSet
  <2>4. PICK k : k = Len(code.builds[d]) + 1
    OBVIOUS
  <2>5. k \in Nat \ {0} /\ \A l \in 1..Len(code.builds[d]) : l < k
    BY <2>2, <2>4
  <2>6. b.parent # None.id => b.parent \in IdsOf(BuildsBefore(d, k))
    BY <2>1, <2>3, <2>5, BuildSource
  <2> QED BY <2>1, <2>3, <2>4, <2>6, BuildOperands, BuildsCoded
<1> QED BY <1>1, <1>2

\* In order, every operand is declared before it is used.
LEMMA OperandsInOrder ==
  ASSUME PlanInv, Coded, InOrder
  PROVE  OperandsDeclared
<1> SUFFICES ASSUME NEW d \in Bodies
             PROVE  /\ \A s \in ToSet(code.sets[d]) : SetFits(s, d) /\ RowFits(s, d)
                    /\ \A b \in ToSet(code.builds[d]) : SourceFits(b, d)
                    /\ \A mg \in ToSet(mg_used[d]) :
                         mg \in MiniGraphsTo(d - 1) /\ IsSuperset(mg.vertices, iter_set[d - 1])
                    /\ \A k \in DOMAIN code.reads[d] :
                         code.reads[d][k].mg \in IdsOf(BuildsBefore(d, 1))
                    /\ \A k \in DOMAIN code.sets[d] :
                         LET s == code.sets[d][k]
                         IN /\ s.form # "chain" => s.from \in SetsDeclared(d, k)
                            /\ s.row # None.id => \E r \in ToSet(code.reads[d]) : r.mg = s.row
                    /\ \A k \in DOMAIN code.builds[d] :
                         LET b == code.builds[d][k]
                         IN /\ {b.vertices, b.intersect, b.iter} \subseteq
                                  SetsDeclared(d, Len(code.sets[d]) + 1)
                            /\ b.parent # None.id => b.parent \in IdsOf(BuildsBefore(d, k))
  BY DEF OperandsDeclared
<1>1. Generated
  BY DEF Coded
<1>2. /\ \A s \in ToSet(code.sets[d]) :
           /\ SetFits(s, d) /\ RowFits(s, d)
           /\ s.row # None.id => \E r \in ToSet(code.reads[d]) : r.mg = s.row
      /\ \A b \in ToSet(code.builds[d]) :
           /\ SourceFits(b, d)
           /\ {b.vertices, b.intersect, b.iter} \subseteq SetsDeclared(d, Len(code.sets[d]) + 1)
      /\ \A mg \in ToSet(mg_used[d]) :
           mg \in MiniGraphsTo(d - 1) /\ IsSuperset(mg.vertices, iter_set[d - 1])
      /\ \A r \in ToSet(code.reads[d]) : r.mg \in IdsOf(BuildsBefore(d, 1))
  BY <1>1, OperandsFound DEF OperandsFit
<1>3. /\ \A k \in DOMAIN code.reads[d] : code.reads[d][k] \in ToSet(code.reads[d])
      /\ \A k \in DOMAIN code.sets[d] : code.sets[d][k] \in ToSet(code.sets[d])
      /\ \A k \in DOMAIN code.builds[d] : code.builds[d][k] \in ToSet(code.builds[d])
  BY DEF ToSet
<1>4. ASSUME NEW k \in DOMAIN code.sets[d], code.sets[d][k].form # "chain"
      PROVE  code.sets[d][k].from \in SetsDeclared(d, k)
  <2>1. DOMAIN code.sets[d] = 1..Len(code.sets[d]) /\ Len(code.sets[d]) \in Nat
    BY StatementsCoded
  <2>2. k \in 1..Len(code.sets[d]) /\ k \in 1..(Len(code.sets[d]) + 1)
    BY <2>1
  <2>3. \A l \in 1..Len(code.sets[d]) : code.sets[d][k].from = code.sets[d][l].op.id => l < k
    BY <1>1, <2>1 DEF InOrder, BodyInOrder
  <2> QED BY <1>4, <2>2, <2>3, StatementOperand
<1>5. ASSUME NEW k \in DOMAIN code.builds[d], code.builds[d][k].parent # None.id
      PROVE  code.builds[d][k].parent \in IdsOf(BuildsBefore(d, k))
  <2>1. d # LastLoop
    BY BuildsCoded
  <2>2. DOMAIN code.builds[d] = 1..Len(code.builds[d])
    BY <2>1, BuildsCoded
  <2>3. k \in 1..Len(code.builds[d]) /\ k \in Nat \ {0}
    BY <2>2
  <2>4. \A l \in 1..Len(code.builds[d]) :
          code.builds[d][k].parent = code.builds[d][l].id => l < k
    BY <1>1, <2>2 DEF InOrder, BodyInOrder
  <2> QED BY <1>5, <2>1, <2>3, <2>4, BuildSource
<1> QED BY <1>2, <1>3, <1>4, <1>5

\* The plan and its program, as the steps before the program is run leave them.
LEMMA CodeInitially ==
  ASSUME LoopInit
  PROVE  PlanInv /\ CodeInv
<1>1. PlanInv
  BY PlanInitially DEF LoopInit, GenInit
<1>2. code = NoCode /\ phase = "create_plan"
  BY DEF LoopInit, GenInit, Init
<1> QED BY <1>1, <1>2 DEF CodeInv, NoCode, Planning, Generated

\* What the invariant says of a generated program.
LEMMA ProgramFacts ==
  ASSUME PlanInv, CodeInv
  PROVE  OperandsFit /\ (InOrder => OperandsDeclared)
<1>1. CASE Generated
  <2>1. Coded
    BY <1>1, PlanTypes DEF Coded, CodeInv
  <2> QED BY <2>1, OperandsFound, OperandsInOrder
<1>2. CASE ~Generated
  BY <1>2 DEF OperandsFit, OperandsDeclared
<1> QED BY <1>1, <1>2

\* Whatever the input, in a program that is generated every set, row and mini graph a
\* statement names is one it can start from (the same operation one loop further out, or
\* without its own restriction; a row that keeps what is asked for), and is declared by
\* the loop or one around it (get_parent_vset, get_parent_mg and the CHECKs of
\* gen_code_op and gen_code_mg_op).
THEOREM OperandsFitted == Spec => []OperandsFit
<1>1. LoopInit => PlanInv /\ CodeInv
  BY CodeInitially
<1>2. PlanInv /\ CodeInv /\ [Next]_vars => PlanInv' /\ CodeInv'
  BY PlanStep, CodeStep
<1>3. PlanInv /\ CodeInv => OperandsFit
  BY ProgramFacts
<1> QED BY <1>1, <1>2, <1>3, PTL DEF Spec

(***************************************************************************)
(* Sorting.                                                                *)
(***************************************************************************)
\* A strict weak order, as std::sort asks for.
WeakOrder(S, less) ==
  \A a, b, x \in S :
    <<a, b>> \in less => <<b, a>> \notin less /\ (<<a, x>> \in less \/ <<x, b>> \in less)

\* No element stands behind one that it precedes, unless that one precedes it too.
NoInversion(s, less) ==
  \A i, j \in 1..Len(s) : i < j /\ <<s[j], s[i]>> \in less => <<s[i], s[j]>> \in less

\* Inserting into a list without inversions makes none.
LEMMA InsertedInOrder ==
  ASSUME NEW X, NEW done \in Seq(X), NEW x \in X, NEW less, NoInversion(done, less),
         WeakOrder(ToSet(done) \union {x}, less) \/ Len(done) <= 1
  PROVE  NoInversion(Inserted(done, x, less), less)
<1> DEFINE s == Inserted(done, x, less)
           n == Len(done)
<1>1. s \in Seq(X)
  BY InsertedFacts
<1>2. PICK k : PlaceOf(k, done, x, less) /\ InsertedBehind(s, done, x, k)
  BY InsertedFacts
<1>3. /\ n \in Nat /\ k \in 0..n /\ Len(s) = n + 1
      /\ \A i \in 1..k : s[i] = done[i]
      /\ s[k + 1] = x
      /\ \A i \in (k + 1)..n : s[i + 1] = done[i]
  BY <1>2 DEF PlaceOf, InsertedBehind
<1>4. /\ k = 0 => done = <<>> \/ <<x, done[1]>> \in less
      /\ k # 0 => /\ <<x, done[k]>> \notin less
                  /\ \A i \in (k + 1)..n : <<x, done[i]>> \in less
  BY <1>2 DEF PlaceOf
<1>5. \A i \in 1..n : done[i] \in ToSet(done)
  BY <1>3 DEF ToSet
<1>6. \A i, j \in 1..n : i < j /\ <<done[j], done[i]>> \in less => <<done[i], done[j]>> \in less
  BY DEF NoInversion
<1>7. done = <<>> => n = 0
  OBVIOUS
<1> DEFINE W == WeakOrder(ToSet(done) \union {x}, less)
<1>8. W \/ n <= 1
  OBVIOUS
<1>9. W => \A a, b, c \in ToSet(done) \union {x} :
             <<a, b>> \in less => <<b, a>> \notin less /\ (<<a, c>> \in less \/ <<c, b>> \in less)
  BY DEF WeakOrder
<1> HIDE DEF s, n, W
\* x and an element in front of it
<1>10. ASSUME NEW i \in 1..k, <<x, done[i]>> \in less PROVE <<done[i], x>> \in less
  <2>1. i \in 1..n /\ k \in 1..n /\ k # 0 /\ <<x, done[k]>> \notin less
    BY <1>3, <1>4
  <2>2. i # k /\ i < k
    BY <1>3, <1>10, <2>1
  <2>3. n > 1
    BY <1>3, <2>1, <2>2
  <2>4. W
    BY <1>3, <1>8, <2>3
  <2>5. <<done[k], done[i]>> \in less
    BY <1>5, <1>9, <1>10, <2>1, <2>4
  <2>6. <<done[i], done[k]>> \in less
    BY <1>6, <2>1, <2>2, <2>5
  <2> QED BY <1>5, <1>9, <2>1, <2>4, <2>5, <2>6
\* x and an element behind it
<1>11. ASSUME NEW i \in (k + 1)..n, <<done[i], x>> \in less PROVE <<x, done[i]>> \in less
  <2>1. i \in 1..n
    BY <1>3
  <2>2. CASE k # 0
    BY <1>4, <2>2
  <2>3. CASE k = 0
    <3>1. n # 0 /\ <<x, done[1]>> \in less /\ 1 \in 1..n
      BY <1>3, <1>4, <1>7, <2>1, <2>3
    <3>2. CASE i = 1
      BY <3>1, <3>2
    <3>3. CASE i # 1
      <4>1. 1 < i /\ n > 1
        BY <1>3, <2>1, <3>3
      <4>2. W
        BY <1>3, <1>8, <4>1
      <4>3. <<x, done[1]>> \in less => <<x, done[i]>> \in less \/ <<done[i], done[1]>> \in less
        BY <1>5, <1>9, <2>1, <3>1, <4>2
      <4>4. <<done[i], done[1]>> \in less => <<done[1], done[i]>> \in less
        BY <1>6, <2>1, <3>1, <4>1
      <4>5. ~(<<done[i], done[1]>> \in less /\ <<done[1], done[i]>> \in less)
        BY <1>5, <1>9, <2>1, <3>1, <4>2
      <4> QED BY <3>1, <4>3, <4>4, <4>5
    <3> QED BY <3>2, <3>3
  <2> QED BY <2>2, <2>3
<1>12. ASSUME NEW i \in 1..(n + 1), NEW j \in 1..(n + 1), i < j, <<s[j], s[i]>> \in less
       PROVE  <<s[i], s[j]>> \in less
  <2>1. CASE j <= k
    <3>1. i \in 1..k /\ j \in 1..k /\ i \in 1..n /\ j \in 1..n
      BY <1>3, <1>12, <2>1
    <3> QED BY <1>3, <1>6, <1>12, <3>1
  <2>2. CASE j = k + 1
    <3>1. i \in 1..k
      BY <1>3, <1>12, <2>2
    <3> QED BY <1>3, <1>10, <1>12, <2>2, <3>1
  <2>3. CASE j > k + 1
    <3> DEFINE q == j - 1
    <3>1. q \in (k + 1)..n /\ q + 1 = j /\ q \in 1..n
      BY <1>3, <2>3
    <3>2. s[j] = done[q]
      BY <1>3, <3>1
    <3>3. CASE i <= k
      <4>1. i \in 1..k /\ i \in 1..n /\ i < q
        BY <1>3, <3>1, <3>3
      <4>2. s[i] = done[i]
        BY <1>3, <4>1
      <4> HIDE DEF q
      <4> QED BY <1>6, <1>12, <3>1, <3>2, <4>1, <4>2
    <3>4. CASE i = k + 1
      <4>1. s[i] = x
        BY <1>3, <3>4
      <4> HIDE DEF q
      <4> QED BY <1>11, <1>12, <3>1, <3>2, <4>1
    <3>5. CASE i > k + 1
      <4> DEFINE p == i - 1
      <4>1. p \in (k + 1)..n /\ p + 1 = i /\ p \in 1..n /\ p < q
        BY <1>3, <1>12, <3>1, <3>5
      <4>2. s[i] = done[p]
        BY <1>3, <4>1
      <4> HIDE DEF p, q
      <4> QED BY <1>6, <1>12, <3>1, <3>2, <4>1, <4>2
    <3> QED BY <1>3, <3>3, <3>4, <3>5
  <2> QED BY <1>3, <2>1, <2>2, <2>3
<1>13. \A i, j \in 1..Len(s) : i < j /\ <<s[j], s[i]>> \in less => <<s[i], s[j]>> \in less
  BY <1>3, <1>12
<1> QED BY <1>13 DEF s, NoInversion

\* std::sort leaves no inversion, by a strict weak order or of at most two elements.
LEMMA SortedInOrder ==
  ASSUME NEW X, NEW seq \in Seq(X), NEW less,
         WeakOrder(ToSet(seq), less) \/ Len(seq) <= 2
  PROVE  NoInversion(Sorted(seq, less), less)
<1> DEFINE Inv == {p \in Seq(X) \X (0..Len(seq)) :
                     /\ Len(p[1]) = p[2] /\ ToSet(p[1]) \subseteq ToSet(seq)
                     /\ NoInversion(p[1], less)}
<1>1. <<<<>>, 0>> \in Inv
  <2>1. PICK e : e = <<>>
    OBVIOUS
  <2>2. e \in Seq(X) /\ Len(e) = 0 /\ ToSet(e) = {} /\ 0 \in 0..Len(seq)
    BY <2>1 DEF ToSet
  <2>3. NoInversion(e, less)
    BY <2>2 DEF NoInversion
  <2>4. <<e, 0>> \in Inv
    BY <2>2, <2>3
  <2> QED BY <2>1, <2>4
<1>2. ASSUME NEW done \in Seq(X), NEW i \in 1..Len(seq), <<done, i - 1>> \in Inv
      PROVE  <<Inserted(done, seq[i], less), i>> \in Inv
  <2>1. Len(done) = i - 1 /\ ToSet(done) \subseteq ToSet(seq) /\ NoInversion(done, less)
    BY <1>2
  <2>2. seq[i] \in X /\ seq[i] \in ToSet(seq) /\ i \in 0..Len(seq)
    BY DEF ToSet
  <2>3. WeakOrder(ToSet(done) \union {seq[i]}, less) \/ Len(done) <= 1
    <3>1. WeakOrder(ToSet(seq), less) => WeakOrder(ToSet(done) \union {seq[i]}, less)
      BY <2>1, <2>2 DEF WeakOrder
    <3>2. Len(seq) <= 2 => Len(done) <= 1
      BY <2>1
    <3> QED BY <3>1, <3>2
  <2> DEFINE s == Inserted(done, seq[i], less)
  <2>4. NoInversion(s, less)
    BY <2>1, <2>2, <2>3, InsertedInOrder
  <2>5. s \in Seq(X) /\ ToSet(s) = ToSet(done) \union {seq[i]}
    BY <2>2, InsertedSet
  <2>6. Len(s) = i
    <3>1. PICK k : InsertedBehind(s, done, seq[i], k)
      BY <2>2, InsertedFacts
    <3>2. Len(s) = Len(done) + 1
      BY <3>1 DEF InsertedBehind
    <3> QED BY <2>1, <3>2
  <2> HIDE DEF s
  <2>7. ToSet(s) \subseteq ToSet(seq)
    BY <2>1, <2>2, <2>5
  <2>8. <<s, i>> \in Inv
    BY <2>2, <2>4, <2>5, <2>6, <2>7
  <2> QED BY <2>8 DEF s
<1> HIDE DEF Inv
<1>3. <<Sorted(seq, less), Len(seq)>> \in Inv
  BY <1>1, <1>2, SortedInduction
<1> QED BY <1>3 DEF Inv

\* What std::unique has kept so far.
KeptSoFar(kept, seq, i) ==
  \A k \in 1..Len(kept) : \E j \in 1..i : kept[k] = seq[j]

\* One element more.
LEMMA KeptNext ==
  ASSUME NEW X, NEW seq \in Seq(X), NEW kept \in Seq(X), NEW i \in 1..Len(seq),
         KeptSoFar(kept, seq, i - 1)
  PROVE  /\ KeptSoFar(kept, seq, i) /\ KeptSoFar(Append(kept, seq[i]), seq, i)
         /\ Len(Append(kept, seq[i])) = Len(kept) + 1 /\ Len(kept) \in Nat
         /\ Append(kept, seq[i])[Len(kept) + 1] = seq[i]
         /\ \A k \in 1..Len(kept) : Append(kept, seq[i])[k] = kept[k]
         /\ i \in 0..Len(seq) /\ seq[i] \in X /\ Append(kept, seq[i]) \in Seq(X)
<1>1. /\ Len(Append(kept, seq[i])) = Len(kept) + 1 /\ Len(kept) \in Nat
      /\ Append(kept, seq[i])[Len(kept) + 1] = seq[i]
      /\ \A k \in 1..Len(kept) : Append(kept, seq[i])[k] = kept[k]
      /\ i \in 0..Len(seq) /\ seq[i] \in X /\ Append(kept, seq[i]) \in Seq(X)
  OBVIOUS
<1>2. KeptSoFar(kept, seq, i)
  <2>1. 1..(i - 1) \subseteq 1..i
    OBVIOUS
  <2> QED BY <2>1 DEF KeptSoFar
<1>3. ASSUME NEW k \in 1..(Len(kept) + 1) PROVE \E j \in 1..i : Append(kept, seq[i])[k] = seq[j]
  <2>1. CASE k = Len(kept) + 1
    <3>1. i \in 1..i
      OBVIOUS
    <3> QED BY <1>1, <2>1, <3>1
  <2>2. CASE k # Len(kept) + 1
    <3>1. k \in 1..Len(kept)
      BY <1>1, <2>2
    <3> QED BY <1>1, <1>2, <3>1 DEF KeptSoFar
  <2> QED BY <2>1, <2>2
<1> QED BY <1>1, <1>2, <1>3 DEF KeptSoFar

\* std::unique leaves the order as it is.
LEMMA UniqueInOrder ==
  ASSUME NEW X, NEW seq \in Seq(X), NEW less, NoInversion(seq, less)
  PROVE  NoInversion(Unique(seq), less)
<1> DEFINE Inv == {p \in Seq(X) \X (0..Len(seq)) :
                     KeptSoFar(p[1], seq, p[2]) /\ NoInversion(p[1], less)}
<1>1. <<<<>>, 0>> \in Inv
  <2>1. PICK e : e = <<>>
    OBVIOUS
  <2>2. e \in Seq(X) /\ Len(e) = 0 /\ ToSet(e) = {} /\ 0 \in 0..Len(seq)
    BY <2>1 DEF ToSet
  <2>3. NoInversion(e, less) /\ KeptSoFar(e, seq, 0)
    BY <2>2 DEF NoInversion, KeptSoFar
  <2>4. <<e, 0>> \in Inv
    BY <2>2, <2>3
  <2> QED BY <2>1, <2>4
<1>2. ASSUME NEW kept \in Seq(X), NEW i \in 1..Len(seq), <<kept, i - 1>> \in Inv
      PROVE  <<IF kept # <<>> /\ Last(kept) = seq[i] THEN kept ELSE Append(kept, seq[i]),
                 i>> \in Inv
  <2>1. KeptSoFar(kept, seq, i - 1) /\ NoInversion(kept, less)
    BY <1>2
  <2> DEFINE s == Append(kept, seq[i])
             m == Len(kept)
  <2>2. /\ KeptSoFar(kept, seq, i) /\ KeptSoFar(s, seq, i)
        /\ Len(s) = m + 1 /\ m \in Nat
        /\ s[m + 1] = seq[i] /\ \A k \in 1..m : s[k] = kept[k]
        /\ i \in 0..Len(seq) /\ s \in Seq(X)
    BY <2>1, KeptNext
  <2> HIDE DEF s, m
  <2>3. ASSUME NEW a \in 1..(m + 1), NEW b \in 1..(m + 1), a < b, <<s[b], s[a]>> \in less
        PROVE  <<s[a], s[b]>> \in less
    <3>1. a \in 1..m
      BY <2>2, <2>3
    <3>2. CASE b = m + 1
      <4>1. PICK j \in 1..(i - 1) : kept[a] = seq[j]
        BY <2>1, <3>1 DEF KeptSoFar, m
      <4>2. j \in 1..Len(seq) /\ j < i
        OBVIOUS
      <4> QED BY <2>2, <2>3, <3>1, <3>2, <4>1, <4>2 DEF NoInversion
    <3>3. CASE b # m + 1
      <4>1. b \in 1..m
        BY <2>2, <3>3
      <4> QED BY <2>1, <2>2, <2>3, <3>1, <4>1 DEF NoInversion, m
    <3> QED BY <3>2, <3>3
  <2>4. NoInversion(s, less)
    BY <2>2, <2>3 DEF NoInversion
  <2> QED BY <2>1, <2>2, <2>4 DEF s
<1> HIDE DEF Inv
<1>3. <<Unique(seq), Len(seq)>> \in Inv
  BY <1>1, <1>2, UniqueInduction
<1> QED BY <1>3 DEF Inv

\* Of two different elements one precedes the other.
Total(S, less) == \A a, b \in S : a = b \/ <<a, b>> \in less \/ <<b, a>> \in less

\* No element is there twice.
Once(s) == \A i, j \in 1..Len(s) : i # j => s[i] # s[j]

\* In a sorted list equal elements are neighbours: std::unique leaves one of them.
LEMMA UniqueOnce ==
  ASSUME NEW X, NEW seq \in Seq(X), NEW less, NoInversion(seq, less),
         WeakOrder(ToSet(seq), less), Total(ToSet(seq), less)
  PROVE  Once(Unique(seq))
<1> DEFINE Inv == {p \in Seq(X) \X (0..Len(seq)) :
                     /\ KeptSoFar(p[1], seq, p[2]) /\ Once(p[1])
                     /\ p[2] # 0 => p[1] # <<>> /\ Last(p[1]) = seq[p[2]]}
<1>1. <<<<>>, 0>> \in Inv
  <2>1. PICK e : e = <<>>
    OBVIOUS
  <2>2. e \in Seq(X) /\ Len(e) = 0 /\ ToSet(e) = {} /\ 0 \in 0..Len(seq)
    BY <2>1 DEF ToSet
  <2>3. Once(e) /\ KeptSoFar(e, seq, 0)
    BY <2>2 DEF Once, KeptSoFar
  <2>4. <<e, 0>> \in Inv
    BY <2>2, <2>3
  <2> QED BY <2>1, <2>4
<1>2. ASSUME NEW kept \in Seq(X), NEW i \in 1..Len(seq), <<kept, i - 1>> \in Inv
      PROVE  <<IF kept # <<>> /\ Last(kept) = seq[i] THEN kept ELSE Append(kept, seq[i]),
                 i>> \in Inv
  <2>1. /\ KeptSoFar(kept, seq, i - 1) /\ Once(kept)
        /\ i - 1 # 0 => kept # <<>> /\ Last(kept) = seq[i - 1]
    BY <1>2
  <2> DEFINE s == Append(kept, seq[i])
             m == Len(kept)
  <2>2. /\ KeptSoFar(kept, seq, i) /\ KeptSoFar(s, seq, i)
        /\ Len(s) = m + 1 /\ m \in Nat
        /\ s[m + 1] = seq[i] /\ \A k \in 1..m : s[k] = kept[k]
        /\ i \in 0..Len(seq) /\ s \in Seq(X) /\ i # 0
    BY <2>1, KeptNext
  <2>3. s # <<>> /\ Last(s) = seq[i]
    <3>1. Last(s) = s[m + 1]
      BY <2>2 DEF Last
    <3>2. s # <<>>
      BY <2>2
    <3> QED BY <2>2, <3>1, <3>2
  <2> HIDE DEF s, m
  <2>4. CASE kept # <<>> /\ Last(kept) = seq[i]
    BY <2>1, <2>2, <2>4
  <2>5. CASE ~(kept # <<>> /\ Last(kept) = seq[i])
    <3>1. ASSUME NEW a \in 1..m, kept[a] = seq[i] PROVE FALSE
      <4>1. PICK j \in 1..(i - 1) : kept[a] = seq[j]
        BY <2>1, <3>1 DEF KeptSoFar, m
      <4>2. kept # <<>> /\ Last(kept) = seq[i - 1] /\ i - 1 \in 1..Len(seq) /\ j \in 1..Len(seq)
        BY <2>1, <4>1
      <4>3. seq[i - 1] # seq[i]
        BY <2>5, <4>2
      <4>4. j < i - 1 /\ i - 1 < i
        BY <3>1, <4>1, <4>3
      <4> DEFINE y == seq[i - 1]
                 x == seq[i]
      <4>5. x \in ToSet(seq) /\ y \in ToSet(seq)
        BY <4>2 DEF ToSet
      <4>6. <<y, x>> \in less => <<x, y>> \in less
        BY <3>1, <4>1, <4>2, <4>4 DEF NoInversion
      <4>7. <<x, y>> \in less => <<y, x>> \in less
        BY <4>2, <4>4 DEF NoInversion
      <4> QED BY <4>3, <4>5, <4>6, <4>7 DEF WeakOrder, Total
    <3>2. ASSUME NEW a \in 1..(m + 1), NEW b \in 1..(m + 1), a # b, s[a] = s[b] PROVE FALSE
      <4>1. CASE a = m + 1
        <5>1. b \in 1..m
          BY <2>2, <3>2, <4>1
        <5> QED BY <2>2, <3>1, <3>2, <4>1, <5>1
      <4>2. CASE b = m + 1
        <5>1. a \in 1..m
          BY <2>2, <3>2, <4>2
        <5> QED BY <2>2, <3>1, <3>2, <4>2, <5>1
      <4>3. CASE a # m + 1 /\ b # m + 1
        <5>1. a \in 1..m /\ b \in 1..m
          BY <2>2, <4>3
        <5> QED BY <2>1, <2>2, <3>2, <5>1 DEF Once, m
      <4> QED BY <4>1, <4>2, <4>3
    <3>3. Once(s)
      BY <2>2, <3>2 DEF Once
    <3> QED BY <2>2, <2>3, <2>5, <3>3 DEF s
  <2> QED BY <2>4, <2>5
<1> HIDE DEF Inv
<1>3. <<Unique(seq), Len(seq)>> \in Inv
  BY <1>1, <1>2, UniqueInduction
<1> QED BY <1>3 DEF Inv

(***************************************************************************)
(* operator<.                                                              *)
(***************************************************************************)
\* The smallest of some positions from 0 on.
LEMMA LeastOf ==
  ASSUME NEW d \in Nat, NEW S \in SUBSET (0..d), S # {}
  PROVE  Min(S) \in S
<1> DEFINE T == {x + 1 : x \in S}
<1>1. d + 1 \in Nat /\ T \in SUBSET (1..(d + 1)) /\ T # {}
  <2>1. d + 1 \in Nat /\ \A x \in S : x \in 0..d
    OBVIOUS
  <2>2. \A x \in 0..d : x + 1 \in 1..(d + 1)
    OBVIOUS
  <2> QED BY <2>1, <2>2
<1>2. Min(T) \in T /\ \A y \in T : Min(T) <= y
  BY <1>1, SmallestOf
<1>3. PICK x \in S : Min(T) = x + 1
  BY <1>2
<1>4. \A y \in S : x <= y
  <2>1. \A y \in S : x + 1 <= y + 1
    BY <1>2, <1>3
  <2> QED BY <2>1
<1> QED BY <1>4 DEF Min

\* The comparison position by position.
LEMMA FirstOnlyInFacts ==
  ASSUME NEW d \in Nat, NEW a \in SUBSET (0..d), NEW b \in SUBSET (0..d)
  PROVE  /\ a \subseteq b => ~FirstOnlyIn(a, b)
         /\ a # b => FirstOnlyIn(a, b) \/ FirstOnlyIn(b, a)
<1> DEFINE D == (a \ b) \union (b \ a)
<1>1. D \in SUBSET (0..d) /\ (a # b => D # {}) /\ D \subseteq a \union b
  OBVIOUS
<1>2. (b \ a) \union (a \ b) = D
  OBVIOUS
<1>3. FirstOnlyIn(b, a) <=> D # {} /\ Min(D) \in b
  BY DEF FirstOnlyIn
<1>4. FirstOnlyIn(a, b) <=> D # {} /\ Min(D) \in a
  BY <1>2 DEF FirstOnlyIn
<1>5. D # {} => Min(D) \in D
  BY <1>1, LeastOf
<1>6. a \subseteq b => \A x \in D : x \notin a
  OBVIOUS
<1> HIDE DEF D
<1> QED BY <1>1, <1>3, <1>4, <1>5, <1>6

\* Two operations of a loop with the same edges and restrictions.
Same(a, b) == a.edges = b.edges /\ a.restricts = b.restricts

\* One of two different operations of a loop precedes the other, and one whose set
\* contains the other's does, without being preceded by it.
LEMMA PrecedesFacts ==
  ASSUME NEW d \in Nat, NEW a, NEW b, OpOK(a, d), OpOK(b, d)
  PROVE  /\ Same(a, b) \/ Precedes(a, b) \/ Precedes(b, a)
         /\ IsSuperset(a, b) => ~Precedes(b, a) /\ (Same(a, b) \/ Precedes(a, b))
<1>1. /\ a.dep = d /\ b.dep = d /\ a.edges \in SUBSET (0..d) /\ b.edges \in SUBSET (0..d)
      /\ a.restricts \in SUBSET (0..d) /\ b.restricts \in SUBSET (0..d)
  BY DEF OpOK
<1>2. IsFiniteSet(0..d)
  BY FS_Interval
<1>3. /\ IsFiniteSet(a.edges) /\ IsFiniteSet(b.edges)
      /\ IsFiniteSet(a.restricts) /\ IsFiniteSet(b.restricts)
  BY <1>1, <1>2, FS_Subset
<1>4. /\ Cardinality(a.edges) \in Nat /\ Cardinality(b.edges) \in Nat
      /\ Cardinality(a.restricts) \in Nat /\ Cardinality(b.restricts) \in Nat
  BY <1>3, FS_CardinalityType
<1>5. /\ a.edges # b.edges => FirstOnlyIn(a.edges, b.edges) \/ FirstOnlyIn(b.edges, a.edges)
      /\ a.restricts # b.restricts =>
           FirstOnlyIn(a.restricts, b.restricts) \/ FirstOnlyIn(b.restricts, a.restricts)
      /\ a.edges \subseteq b.edges => ~FirstOnlyIn(a.edges, b.edges)
      /\ a.restricts \subseteq b.restricts => ~FirstOnlyIn(a.restricts, b.restricts)
  BY <1>1, FirstOnlyInFacts
<1>6. /\ Precedes(a, b) <=> \/ Cardinality(a.edges) < Cardinality(b.edges)
                            \/ Cardinality(a.restricts) < Cardinality(b.restricts)
                            \/ FirstOnlyIn(b.edges, a.edges)
                            \/ a.edges = b.edges /\ FirstOnlyIn(b.restricts, a.restricts)
      /\ Precedes(b, a) <=> \/ Cardinality(b.edges) < Cardinality(a.edges)
                            \/ Cardinality(b.restricts) < Cardinality(a.restricts)
                            \/ FirstOnlyIn(a.edges, b.edges)
                            \/ b.edges = a.edges /\ FirstOnlyIn(a.restricts, b.restricts)
  BY <1>1 DEF Precedes
<1>7. Same(a, b) \/ Precedes(a, b) \/ Precedes(b, a)
  BY <1>5, <1>6 DEF Same
<1>8. ASSUME IsSuperset(a, b) PROVE ~Precedes(b, a) /\ (Same(a, b) \/ Precedes(a, b))
  <2>1. a.edges \subseteq b.edges /\ a.restricts \subseteq b.restricts
    BY <1>1, <1>8 DEF IsSuperset
  <2>2. /\ Cardinality(a.edges) <= Cardinality(b.edges)
        /\ Cardinality(a.restricts) <= Cardinality(b.restricts)
        /\ Cardinality(a.edges) = Cardinality(b.edges) => a.edges = b.edges
        /\ Cardinality(a.restricts) = Cardinality(b.restricts) => a.restricts = b.restricts
    BY <1>3, <2>1, FS_Subset
  <2>3. /\ ~(Cardinality(b.edges) < Cardinality(a.edges))
        /\ ~(Cardinality(b.restricts) < Cardinality(a.restricts))
        /\ a.edges = b.edges \/ Cardinality(a.edges) < Cardinality(b.edges)
        /\ a.restricts = b.restricts \/ Cardinality(a.restricts) < Cardinality(b.restricts)
    BY <1>4, <2>2
  <2> QED BY <1>5, <1>6, <2>1, <2>3 DEF Same
<1> QED BY <1>7, <1>8

\* Ids do not matter.
LEMMA PrecedesByShape ==
  ASSUME NEW a, NEW b, NEW x, NEW y, a.dep = x.dep, b.dep = y.dep, Same(a, x), Same(b, y)
  PROVE  Precedes(a, b) <=> Precedes(x, y)
BY DEF Precedes, Same

\* A subsequence is not longer.
LEMMA OnlyLength ==
  ASSUME NEW X, NEW seq \in Seq(X), NEW wanted
  PROVE  Len(Only(seq, wanted)) <= Len(seq)
<1> DEFINE Inv == {p \in Seq(X) \X (0..Len(seq)) : Len(p[1]) <= p[2]}
<1>1. <<<<>>, 0>> \in Inv
  <2>1. PICK e : e = <<>>
    OBVIOUS
  <2>2. e \in Seq(X) /\ Len(e) <= 0 /\ 0 \in 0..Len(seq)
    BY <2>1
  <2>3. <<e, 0>> \in Inv
    BY <2>2
  <2> QED BY <2>1, <2>3
<1>2. ASSUME NEW kept \in Seq(X), NEW i \in 1..Len(seq), <<kept, i - 1>> \in Inv
      PROVE  <<IF seq[i] \in wanted THEN Append(kept, seq[i]) ELSE kept, i>> \in Inv
  <2> DEFINE s == IF seq[i] \in wanted THEN Append(kept, seq[i]) ELSE kept
  <2>1. Len(kept) <= i - 1 /\ Len(kept) \in Nat /\ i \in 0..Len(seq)
    BY <1>2
  <2>2. Append(kept, seq[i]) \in Seq(X) /\ Len(Append(kept, seq[i])) = Len(kept) + 1
    OBVIOUS
  <2>3. s \in Seq(X) /\ (Len(s) = Len(kept) + 1 \/ Len(s) = Len(kept))
    BY <2>2
  <2> HIDE DEF s
  <2>4. Len(s) <= i
    BY <2>1, <2>3
  <2>5. <<s, i>> \in Inv
    BY ONLY <2>1, <2>3, <2>4
  <2> QED BY <2>5 DEF s
<1> HIDE DEF Inv
<1>3. <<Only(seq, wanted), Len(seq)>> \in Inv
  BY <1>1, <1>2, OnlyInduction
<1> QED BY <1>3 DEF Inv

(***************************************************************************)
(* The order of the operations.                                            *)
(***************************************************************************)
\* An operation stands behind every one that precedes it and is not preceded by it.
OpsAscend(ops) ==
  \A k, l \in 1..Len(ops) : k < l /\ Precedes(ops[l], ops[k]) => Precedes(ops[k], ops[l])

\* No operation is there twice, with whatever id.
OpsDiffer(ops) == \A k, l \in 1..Len(ops) : k # l => ~Same(ops[k], ops[l])

\* operator< is a strict weak order on the operations of a loop.
OpsWeak(ops) ==
  \A k, l, m \in 1..Len(ops) :
    Precedes(ops[k], ops[l]) =>
      ~Precedes(ops[l], ops[k]) /\ (Precedes(ops[k], ops[m]) \/ Precedes(ops[m], ops[l]))

\* How the operations of loop d stand.  In the last two loops there are at most two, and
\* any order of them is one that std::sort may leave.  The last loop has one at most.
OpsOrdered(ops, in, d) ==
  /\ OpsAscend(ops)
  /\ d <= in.size - 4 => OpsDiffer(ops) /\ OpsWeak(ops)
  /\ d = in.size - 2 => OpsDiffer(ops)

\* A candidate of a vertex is one of those Orderly is about.
LEMMA CandidateOfLoop ==
  ASSUME NEW d, NEW v \in (d + 1)..(input.size - 1)
  PROVE  VertexSetIR(v, d) \in CandidatesOf(input, d)
BY DEF VertexSetIR, CandidatesOf, Restricts

\* What create_plan computes for a loop is in order.
LEMMA OpsOfLoopOrder ==
  ASSUME input \in Inputs, Orderly(input), NEW d \in Loops
  PROVE  OpsOrdered(OpsOfLoop(d), input, d)
<1> DEFINE n == input.size - 1 - d
           all == [k \in 1..n |-> VertexSetIR(d + k, d)]
           wanted == {op \in ToSet(all) : op.edges # {}}
           kept == Only(all, wanted)
           less == LessOn(wanted, Precedes)
           sorted == Sorted(kept, less)
           ops == Unique(sorted)
<1>1. d \in Nat /\ input.size \in Nat /\ d < input.size - 1
  BY InputFacts
<1>2. n \in Nat /\ \A k \in 1..n : d + k \in (d + 1)..(input.size - 1)
  BY <1>1
<1>3. all \in Seq(Unnumbered) /\ Len(all) = n /\ DOMAIN all = 1..n
  BY <1>1, <1>2, VertexSetFacts
<1>4. OpsOfLoop(d) = ops
  BY DEF OpsOfLoop
<1>5. ASSUME NEW op \in wanted
      PROVE  /\ OpOK(op, d) /\ op.id = -1 /\ op \in CandidatesOf(input, d) /\ op.edges # {}
             /\ op \in Unnumbered
  <2>1. PICK k \in 1..n : op = VertexSetIR(d + k, d)
    BY <1>3 DEF ToSet
  <2>2. d + k \in (d + 1)..(input.size - 1)
    BY <1>2
  <2> QED BY <1>1, <2>1, <2>2, VertexSetFacts, CandidateOfLoop
<1>18. \A op \in wanted : \E k \in 1..n : op = VertexSetIR(d + k, d)
  BY <1>3 DEF ToSet
<1> HIDE DEF all
<1>6. /\ kept \in Seq(Unnumbered) /\ ToSet(kept) = wanted /\ Len(kept) <= n
  <2>1. kept \in Seq(Unnumbered) /\ ToSet(kept) = ToSet(all) \intersect wanted /\ Len(kept) <= n
    <3> HIDE DEF wanted
    <3> QED BY <1>3, OnlyFacts, OnlyLength
  <2> QED BY <2>1
<1>17. d = input.size - 2 => WeakOrder(wanted, less)
  <2> SUFFICES ASSUME d = input.size - 2, NEW a \in wanted, NEW b \in wanted, <<a, b>> \in less
               PROVE  FALSE
    BY DEF WeakOrder
  <2>1. n = 1
    BY <1>1
  <2>2. \A op \in wanted : op = VertexSetIR(d + 1, d)
    BY <1>18, <2>1
  <2>3. a = b /\ Precedes(a, b) /\ OpOK(a, d)
    BY <1>5, <2>2 DEF LessOn
  <2>4. IsSuperset(a, a)
    BY <1>1, <2>3 DEF IsSuperset, OpOK
  <2> QED BY <1>1, <2>3, <2>4, PrecedesFacts
<1> HIDE DEF wanted, kept
<1>7. d <= input.size - 4 => WeakOrder(wanted, less)
  <2> SUFFICES ASSUME d <= input.size - 4, NEW a \in wanted, NEW b \in wanted, NEW x \in wanted,
                      <<a, b>> \in less
               PROVE  <<b, a>> \notin less /\ (<<a, x>> \in less \/ <<x, b>> \in less)
    BY DEF WeakOrder
  <2>1. Precedes(a, b)
    BY DEF LessOn
  <2>2. d \in 0..(input.size - 4)
    BY <1>1
  <2>3. {a, b, x} \subseteq {op \in CandidatesOf(input, d) : op.edges # {}}
    BY <1>5
  <2>4. ~Precedes(b, a) /\ (Precedes(a, x) \/ Precedes(x, b))
    BY <2>1, <2>2, <2>3 DEF Orderly
  <2> QED BY <2>4 DEF LessOn
<1>8. WeakOrder(ToSet(kept), less) \/ Len(kept) <= 2
  <2>1. ~(d <= input.size - 4) => n <= 2
    BY <1>1
  <2>2. Len(kept) \in Nat
    BY <1>6
  <2> HIDE DEF n
  <2>3. n <= 2 => Len(kept) <= 2
    BY <1>2, <1>6, <2>2
  <2> QED BY <1>6, <1>7, <2>1, <2>3
<1> HIDE DEF less
<1>9. sorted \in Seq(Unnumbered) /\ ToSet(sorted) = wanted /\ NoInversion(sorted, less)
  BY <1>6, <1>8, SortedFacts, SortedInOrder
<1> HIDE DEF sorted
<1>10. ops \in Seq(Unnumbered) /\ ToSet(ops) = wanted /\ NoInversion(ops, less)
  BY <1>9, UniqueFacts, UniqueInOrder
<1>11. Total(wanted, less)
  <2> SUFFICES ASSUME NEW a \in wanted, NEW b \in wanted
               PROVE  a = b \/ <<a, b>> \in less \/ <<b, a>> \in less
    BY DEF Total
  <2>1. Same(a, b) \/ Precedes(a, b) \/ Precedes(b, a)
    BY <1>1, <1>5, PrecedesFacts
  <2>2. Same(a, b) => a = b
    <3>1. a.dep = b.dep /\ a.id = b.id /\ a \in Unnumbered /\ b \in Unnumbered
      BY <1>5 DEF OpOK
    <3> QED BY <3>1 DEF Same, Unnumbered
  <2> QED BY <2>1, <2>2 DEF LessOn, less
<1>12. d <= input.size - 4 \/ d = input.size - 2 => Once(ops)
  BY <1>7, <1>9, <1>11, <1>17, UniqueOnce
<1> HIDE DEF ops
<1>13. \A k \in 1..Len(ops) : ops[k] \in wanted
  BY <1>10 DEF ToSet
<1>14. OpsAscend(ops)
  <2> SUFFICES ASSUME NEW k \in 1..Len(ops), NEW l \in 1..Len(ops), k < l,
                      Precedes(ops[l], ops[k])
               PROVE  Precedes(ops[k], ops[l])
    BY DEF OpsAscend
  <2>1. <<ops[l], ops[k]>> \in less
    BY <1>13 DEF LessOn, less
  <2>2. <<ops[k], ops[l]>> \in less
    BY <1>10, <2>1 DEF NoInversion
  <2> QED BY <2>2 DEF LessOn, less
<1>15. ASSUME Once(ops) PROVE OpsDiffer(ops)
  <2> SUFFICES ASSUME NEW k \in 1..Len(ops), NEW l \in 1..Len(ops), k # l, Same(ops[k], ops[l])
               PROVE  FALSE
    BY DEF OpsDiffer
  <2>1. /\ ops[k] \in Unnumbered /\ ops[l] \in Unnumbered
        /\ ops[k].dep = ops[l].dep /\ ops[k].id = ops[l].id
    BY <1>5, <1>13 DEF OpOK
  <2>2. ops[k] = ops[l]
    BY <2>1 DEF Same, Unnumbered
  <2> QED BY <1>15, <2>2 DEF Once
<1>16. d <= input.size - 4 => OpsWeak(ops)
  <2> SUFFICES ASSUME d <= input.size - 4,
                      NEW k \in 1..Len(ops), NEW l \in 1..Len(ops), NEW m \in 1..Len(ops),
                      Precedes(ops[k], ops[l])
               PROVE  /\ ~Precedes(ops[l], ops[k])
                      /\ Precedes(ops[k], ops[m]) \/ Precedes(ops[m], ops[l])
    BY DEF OpsWeak
  <2>1. \A a, b \in wanted : <<a, b>> \in less <=> Precedes(a, b)
    BY DEF LessOn, less
  <2>2. ops[k] \in wanted /\ ops[l] \in wanted /\ ops[m] \in wanted
    BY <1>13
  <2> QED BY <1>7, <2>1, <2>2 DEF WeakOrder
<1> QED BY <1>4, <1>12, <1>14, <1>15, <1>16 DEF OpsOrdered

\* Neither do the ids matter to the order.
LEMMA NumberedOrder ==
  ASSUME NEW d, NEW n \in Nat, NEW seq \in Seq(Unnumbered), OpsOrdered(seq, input, d),
         \A k \in 1..Len(seq) : seq[k].dep = d
  PROVE  OpsOrdered(Numbered(seq, n), input, d)
<1> DEFINE ops == Numbered(seq, n)
<1>1. /\ Len(ops) = Len(seq)
      /\ \A k \in 1..Len(seq) : ops[k] = [seq[k] EXCEPT !.id = n + k - 1] /\ seq[k] \in Unnumbered
  BY NumberedFacts
<1> HIDE DEF ops
<1>2. ASSUME NEW k \in 1..Len(seq) PROVE ops[k].dep = seq[k].dep /\ Same(ops[k], seq[k])
  BY <1>1 DEF Same, Unnumbered
<1>3. \A k, l \in 1..Len(seq) : /\ Precedes(ops[k], ops[l]) <=> Precedes(seq[k], seq[l])
                                /\ Same(ops[k], ops[l]) <=> Same(seq[k], seq[l])
  <2> SUFFICES ASSUME NEW k \in 1..Len(seq), NEW l \in 1..Len(seq)
               PROVE  /\ Precedes(ops[k], ops[l]) <=> Precedes(seq[k], seq[l])
                      /\ Same(ops[k], ops[l]) <=> Same(seq[k], seq[l])
    OBVIOUS
  <2>1. Precedes(ops[k], ops[l]) <=> Precedes(seq[k], seq[l])
    BY <1>2, PrecedesByShape
  <2> QED BY <1>2, <2>1 DEF Same
<1> QED BY <1>1, <1>3 DEF OpsOrdered, OpsAscend, OpsDiffer, OpsWeak, ops


(***************************************************************************)
(* The order of the mini graphs.                                           *)
(***************************************************************************)
\* A mini graph that contains another one stands before it.
GraphsAscend(mgs) ==
  \A k, l \in 1..Len(mgs) :
    k # l /\ MGSuperset(mgs[k], mgs[l].vertices, mgs[l].intersect) => k < l

\* operator< as a relation among the operations of a loop whose order is strict.
LEMMA StrictOps ==
  ASSUME NEW d \in Nat, NEW ops \in Seq(Ops), OpsWeak(ops), OpsDiffer(ops),
         \A op \in ToSet(ops) : OpOK(op, d)
  PROVE  \A a, b \in ToSet(ops) :
           /\ a = b \/ Precedes(a, b) \/ Precedes(b, a)
           /\ Precedes(a, b) => a # b /\ ~Precedes(b, a)
           /\ \A x \in ToSet(ops) : Precedes(a, b) => Precedes(a, x) \/ Precedes(x, b)
           /\ IsSuperset(a, b) => a = b \/ Precedes(a, b)
<1>1. DOMAIN ops = 1..Len(ops)
  OBVIOUS
<1> SUFFICES ASSUME NEW a \in ToSet(ops), NEW b \in ToSet(ops)
             PROVE  /\ a = b \/ Precedes(a, b) \/ Precedes(b, a)
                    /\ Precedes(a, b) => a # b /\ ~Precedes(b, a)
                    /\ \A x \in ToSet(ops) : Precedes(a, b) => Precedes(a, x) \/ Precedes(x, b)
                    /\ IsSuperset(a, b) => a = b \/ Precedes(a, b)
  OBVIOUS
<1>2. PICK k, l \in 1..Len(ops) : a = ops[k] /\ b = ops[l]
  BY <1>1 DEF ToSet
<1>3. Same(a, b) => a = b
  BY <1>2 DEF OpsDiffer
<1>4. Same(a, b) \/ Precedes(a, b) \/ Precedes(b, a)
  BY PrecedesFacts
<1>5. IsSuperset(a, b) => Same(a, b) \/ Precedes(a, b)
  BY PrecedesFacts
<1>6. ASSUME Precedes(a, b) PROVE ~Precedes(b, a)
  BY <1>2, <1>6 DEF OpsWeak
<1>7. ASSUME Precedes(a, b), NEW x \in ToSet(ops) PROVE Precedes(a, x) \/ Precedes(x, b)
  <2>1. PICK m \in 1..Len(ops) : x = ops[m]
    BY <1>1 DEF ToSet
  <2> QED BY <1>2, <1>7, <2>1 DEF OpsWeak
<1> QED BY <1>3, <1>4, <1>5, <1>6, <1>7

\* What create_plan_mg collects for a loop is in order.
LEMMA MiniGraphsOfOrder ==
  ASSUME SetsInv, input \in Inputs, phase = "collect", NEW d \in Loops, d <= MaxDep - 2,
         OpsOrdered(set_ops[d], input, d)
  PROVE  GraphsAscend(MiniGraphsOf(d))
<1> DEFINE S == ToSet(set_ops[d])
<1>1. d \in Nat /\ d <= input.size - 4
  BY InputFacts
<1>2. set_ops[d] \in Seq(Ops) /\ \A op \in S : OpOK(op, d)
  BY DEF SetsInv
<1>3. OpsWeak(set_ops[d]) /\ OpsDiffer(set_ops[d])
  BY <1>1 DEF OpsOrdered
<1>4. \A a, b \in S :
        /\ a = b \/ Precedes(a, b) \/ Precedes(b, a)
        /\ Precedes(a, b) => a # b /\ ~Precedes(b, a)
        /\ \A x \in S : Precedes(a, b) => Precedes(a, x) \/ Precedes(x, b)
        /\ IsSuperset(a, b) => a = b \/ Precedes(a, b)
  BY <1>1, <1>2, <1>3, StrictOps
<1> HIDE DEF S
<1>5. PICK wanted : \E kept \in Seq(Unnamed(S)) :
        /\ ToSet(kept) \subseteq wanted
        /\ MiniGraphsOf(d) = Unique(Sorted(kept, LessOn(wanted, MGPrecedes)))
  BY MiniGraphsOfFacts DEF S
<1>6. PICK kept \in Seq(Unnamed(S)) :
        /\ ToSet(kept) \subseteq wanted
        /\ MiniGraphsOf(d) = Unique(Sorted(kept, LessOn(wanted, MGPrecedes)))
  BY <1>5
<1> DEFINE less == LessOn(wanted, MGPrecedes)
           sorted == Sorted(kept, less)
           mgs == Unique(sorted)
           K == ToSet(kept)
<1>7. \A mg \in K : /\ mg.vertices \in S /\ mg.intersect \in S /\ mg \in wanted
                    /\ mg = [vertices |-> mg.vertices, intersect |-> mg.intersect, id |-> -1]
  <2>1. \A mg \in K : mg \in Unnamed(S)
    BY DEF ToSet
  <2> QED BY <1>6, <2>1 DEF Unnamed
<1> HIDE DEF K
<1>8. \A a, b \in K :
        <<a, b>> \in less <=>
          \/ Precedes(a.vertices, b.vertices)
          \/ a.vertices = b.vertices /\ Precedes(a.intersect, b.intersect)
  <2> SUFFICES ASSUME NEW a \in K, NEW b \in K
               PROVE  <<a, b>> \in less <=>
                        \/ Precedes(a.vertices, b.vertices)
                        \/ a.vertices = b.vertices /\ Precedes(a.intersect, b.intersect)
    OBVIOUS
  <2>1. <<a, b>> \in less <=> MGPrecedes(a, b)
    BY <1>7 DEF LessOn
  <2> HIDE DEF less
  <2>2. /\ Precedes(a.vertices, b.vertices) => a.vertices # b.vertices
        /\ Precedes(a.intersect, b.intersect) => a.intersect # b.intersect
        /\ \/ a.vertices = b.vertices \/ Precedes(a.vertices, b.vertices)
           \/ Precedes(b.vertices, a.vertices)
        /\ a.vertices = b.vertices => ~Precedes(b.vertices, a.vertices)
    BY <1>4, <1>7
  <2> QED BY <2>1, <2>2 DEF MGPrecedes
<1> HIDE DEF less
<1>9. WeakOrder(K, less)
  <2> SUFFICES ASSUME NEW a \in K, NEW b \in K, NEW x \in K, <<a, b>> \in less
               PROVE  <<b, a>> \notin less /\ (<<a, x>> \in less \/ <<x, b>> \in less)
    BY DEF WeakOrder
  <2>1. /\ a.vertices \in S /\ b.vertices \in S /\ x.vertices \in S
        /\ a.intersect \in S /\ b.intersect \in S /\ x.intersect \in S
    BY <1>7
  <2>2. <<b, a>> \notin less
    BY <1>4, <1>8, <2>1
  <2>3. CASE Precedes(a.vertices, b.vertices)
    <3>1. Precedes(a.vertices, x.vertices) \/ Precedes(x.vertices, b.vertices)
      BY <1>4, <2>1, <2>3
    <3> QED BY <1>8, <2>2, <3>1
  <2>4. CASE a.vertices = b.vertices /\ Precedes(a.intersect, b.intersect)
    <3>1. Precedes(a.intersect, x.intersect) \/ Precedes(x.intersect, b.intersect)
      BY <1>4, <2>1, <2>4
    <3>2. \/ a.vertices = x.vertices \/ Precedes(a.vertices, x.vertices)
          \/ Precedes(x.vertices, a.vertices)
      BY <1>4, <2>1
    <3> QED BY <1>8, <2>2, <2>4, <3>1, <3>2
  <2> QED BY <1>8, <2>3, <2>4
<1>10. Total(K, less)
  <2> SUFFICES ASSUME NEW a \in K, NEW b \in K
               PROVE  a = b \/ <<a, b>> \in less \/ <<b, a>> \in less
    BY DEF Total
  <2>1. /\ a.vertices = b.vertices \/ Precedes(a.vertices, b.vertices)
           \/ Precedes(b.vertices, a.vertices)
        /\ a.intersect = b.intersect \/ Precedes(a.intersect, b.intersect)
           \/ Precedes(b.intersect, a.intersect)
    BY <1>4, <1>7
  <2>2. a.vertices = b.vertices /\ a.intersect = b.intersect => a = b
    BY <1>7
  <2> QED BY <1>8, <2>1, <2>2
<1>11. sorted \in Seq(Unnamed(S)) /\ ToSet(sorted) = K /\ NoInversion(sorted, less)
  BY <1>9, SortedFacts, SortedInOrder DEF K
<1> HIDE DEF sorted
<1>12. mgs \in Seq(Unnamed(S)) /\ ToSet(mgs) = K /\ NoInversion(mgs, less) /\ Once(mgs)
  BY <1>9, <1>10, <1>11, UniqueFacts, UniqueInOrder, UniqueOnce
<1>13. MiniGraphsOf(d) = mgs
  BY <1>6 DEF sorted, less
<1> HIDE DEF mgs
<1>14. ASSUME NEW k \in 1..Len(mgs), NEW l \in 1..Len(mgs), k # l,
              MGSuperset(mgs[k], mgs[l].vertices, mgs[l].intersect)
       PROVE  k < l
  <2>1. mgs[k] \in K /\ mgs[l] \in K /\ mgs[k] # mgs[l]
    BY <1>12, <1>14 DEF Once, ToSet
  <2>2. /\ IsSuperset(mgs[k].vertices, mgs[l].vertices)
        /\ IsSuperset(mgs[k].intersect, mgs[l].intersect)
    BY <1>14 DEF MGSuperset
  <2>3. /\ mgs[k].vertices = mgs[l].vertices \/ Precedes(mgs[k].vertices, mgs[l].vertices)
        /\ mgs[k].intersect = mgs[l].intersect \/ Precedes(mgs[k].intersect, mgs[l].intersect)
    BY <1>4, <1>7, <2>1, <2>2
  <2>4. ~(mgs[k].vertices = mgs[l].vertices /\ mgs[k].intersect = mgs[l].intersect)
    BY <1>7, <2>1
  <2>5. <<mgs[k], mgs[l]>> \in less
    BY <1>8, <2>1, <2>3, <2>4
  <2>6. <<mgs[l], mgs[k]>> \notin less
    BY <1>9, <2>1, <2>5 DEF WeakOrder
  <2>7. ~(l < k)
    BY <1>12, <2>5, <2>6 DEF NoInversion
  <2> QED BY <1>14, <2>7
<1> QED BY <1>13, <1>14 DEF GraphsAscend


(***************************************************************************)
(* Every step keeps the order.                                             *)
(***************************************************************************)
\* The operations and the mini graphs of every loop are in order.
PlanOrdered ==
  \A d \in Loops : OpsOrdered(set_ops[d], input, d) /\ GraphsAscend(mg_ops[d])

\* An empty list is.
LEMMA EmptyInOrder ==
  ASSUME NEW s, s = <<>>
  PROVE  (\A in, d : OpsOrdered(s, in, d)) /\ GraphsAscend(s)
<1>1. 1..Len(s) = {}
  OBVIOUS
<1> QED BY <1>1 DEF OpsOrdered, OpsAscend, OpsDiffer, OpsWeak, GraphsAscend

\* Ids do not matter to the order of the mini graphs either.
LEMMA NumberedGraphs ==
  ASSUME NEW n \in Nat, NEW S, NEW seq \in Seq(Unnamed(S)), GraphsAscend(seq)
  PROVE  GraphsAscend(Numbered(seq, n))
<1> DEFINE mgs == Numbered(seq, n)
<1>1. /\ Len(mgs) = Len(seq)
      /\ \A k \in 1..Len(seq) : mgs[k] = [seq[k] EXCEPT !.id = n + k - 1] /\ seq[k] \in Unnamed(S)
  BY NumberedFacts
<1> HIDE DEF mgs
<1>2. \A k \in 1..Len(seq) :
        mgs[k].vertices = seq[k].vertices /\ mgs[k].intersect = seq[k].intersect
  BY <1>1 DEF Unnamed
<1>3. GraphsAscend(mgs)
  BY <1>1, <1>2 DEF GraphsAscend, MGSuperset
<1> QED BY <1>3 DEF mgs

\* A list of mini graphs without one of them is in the same order.
LEMMA RemovedGraphs ==
  ASSUME NEW X, NEW s \in Seq(X), NEW k \in 1..Len(s), NEW r, Removed(r, s, k), GraphsAscend(s)
  PROVE  GraphsAscend(r)
<1> DEFINE n == Len(s)
           Old(i) == IF i < k THEN i ELSE i + 1
<1>1. n \in Nat /\ k \in 1..n
  OBVIOUS
<1>2. Len(r) = n - 1 /\ \A i \in 1..(n - 1) : r[i] = IF i < k THEN s[i] ELSE s[i + 1]
  BY DEF Removed
<1> HIDE DEF n
<1>3. \A i \in 1..(n - 1) : Old(i) \in 1..n /\ r[i] = s[Old(i)]
  BY <1>1, <1>2
<1>4. \A i, j \in 1..(n - 1) : (Old(i) = Old(j) <=> i = j) /\ (Old(i) < Old(j) => i < j)
  BY <1>1
<1> HIDE DEF Old
<1>5. ASSUME NEW i \in 1..(n - 1), NEW j \in 1..(n - 1), i # j,
             MGSuperset(r[i], r[j].vertices, r[j].intersect)
      PROVE  i < j
  <2>1. Old(i) \in 1..n /\ Old(j) \in 1..n /\ Old(i) # Old(j)
    BY <1>3, <1>4, <1>5
  <2>2. MGSuperset(s[Old(i)], s[Old(j)].vertices, s[Old(j)].intersect)
    BY <1>3, <1>5
  <2>3. Old(i) < Old(j)
    BY <2>1, <2>2 DEF GraphsAscend, n
  <2> QED BY <1>4, <2>3
<1> QED BY <1>2, <1>5 DEF GraphsAscend

\* The order of a list does not depend on the state but for the input.
LEMMA OrderStays ==
  ASSUME input' = input, NEW CONSTANT s
  PROVE  GraphsAscend(s)' <=> GraphsAscend(s)
<1>1. Vertex' <=> Vertex
  BY InputStays
<1>2. \A a, b : IsSuperset(a, b)' <=> IsSuperset(a, b)
  BY <1>1 DEF IsSuperset
<1>3. \A mg, v, i : MGSuperset(mg, v, i)' <=> MGSuperset(mg, v, i)
  BY <1>2 DEF MGSuperset
<1> QED BY <1>3 DEF GraphsAscend

\* A step that leaves the lists alone.
LEMMA OrderUnchanged ==
  ASSUME PlanOrdered, UNCHANGED <<input, set_ops, mg_ops>>
  PROVE  PlanOrdered'
<1>1. Loops' = Loops
  BY InputStays
<1> SUFFICES ASSUME NEW d \in Loops
             PROVE  OpsOrdered(set_ops'[d], input', d) /\ GraphsAscend(mg_ops[d])'
  BY <1>1 DEF PlanOrdered
<1>2. PICK mgs : mgs = mg_ops[d]
  OBVIOUS
<1>3. mg_ops'[d] = mgs
  BY <1>2
<1>4. GraphsAscend(mgs) /\ OpsOrdered(set_ops[d], input, d)
  BY <1>2 DEF PlanOrdered
<1>5. GraphsAscend(mgs)'
  BY <1>4, OrderStays
<1> QED BY <1>2, <1>3, <1>4, <1>5

\* Every step.
LEMMA OrderStep ==
  ASSUME InputsOrderly, PlanInv, PlanOrdered, [Next]_vars
  PROVE  PlanOrdered'
<1>1. input \in Inputs /\ SetsInv /\ MiniGraphsInv /\ UsedInv
  BY DEF PlanInv
<1>2. CASE CreatePlan
  <2>1. PICK d, next, all, ops :
          /\ d = cursor[1] /\ next = cursor[2] /\ all = OpsOfLoop(d) /\ ops = Numbered(all, next)
    OBVIOUS
  <2>2. /\ phase = "create_plan" /\ d \in Loops /\ set_ops' = [set_ops EXCEPT ![d] = ops]
        /\ UNCHANGED <<input, mg_ops>>
    BY <1>2, <2>1 DEF CreatePlan
  <2>3. next \in Nat /\ set_ops \in [Loops -> Seq(Ops)]
    BY <1>1, <2>1, <2>2 DEF SetsInv
  <2>4. Orderly(input)
    BY <1>1 DEF InputsOrderly
  <2>5. OpsOrdered(all, input, d)
    BY <1>1, <2>1, <2>2, <2>4, OpsOfLoopOrder
  <2>6. all \in Seq(Unnumbered) /\ \A k \in 1..Len(all) : all[k].dep = d
    <3>1. d \in Nat /\ input.size \in Nat /\ d < input.size - 1
      BY <1>1, <2>2, InputFacts
    <3>2. /\ all \in Seq(Unnumbered)
          /\ \A x \in ToSet(all) : \E v \in (d + 1)..(input.size - 1) : x = VertexSetIR(v, d)
      BY <2>1, <3>1, OpsOfLoopFacts
    <3>3. \A x \in ToSet(all) : x.dep = d
      BY <3>1, <3>2, VertexSetFacts
    <3>4. \A k \in 1..Len(all) : all[k] \in ToSet(all)
      BY <3>2 DEF ToSet
    <3> QED BY <3>2, <3>3, <3>4
  <2>7. OpsOrdered(ops, input, d)
    BY <2>1, <2>3, <2>5, <2>6, NumberedOrder
  <2>8. set_ops'[d] = ops /\ \A e \in Loops : e # d => set_ops'[e] = set_ops[e]
    BY <2>2, <2>3
  <2>9. Loops' = Loops
    BY <2>2, InputStays
  <2> SUFFICES ASSUME NEW e \in Loops
               PROVE  OpsOrdered(set_ops'[e], input', e) /\ GraphsAscend(mg_ops[e])'
    BY <2>9 DEF PlanOrdered
  <2>10. OpsOrdered(set_ops'[e], input', e)
    BY <2>2, <2>7, <2>8 DEF PlanOrdered
  <2>11. PICK mgs : mgs = mg_ops[e]
    OBVIOUS
  <2>12. GraphsAscend(mgs)
    BY <2>11 DEF PlanOrdered
  <2>13. GraphsAscend(mgs)' /\ mgs = mg_ops'[e]
    BY <2>2, <2>11, <2>12, OrderStays
  <2> QED BY <2>10, <2>13
<1>3. CASE CollectMiniGraphs
  <2>1. PICK d, next, all, mgs :
          /\ d = cursor[1] /\ next = cursor[2] /\ all = MiniGraphsOf(d) /\ mgs = Numbered(all, next)
    OBVIOUS
  <2>2. /\ phase = "collect" /\ d <= MaxDep - 2 /\ mg_ops' = [mg_ops EXCEPT ![d] = mgs]
        /\ UNCHANGED <<input, set_ops>>
    BY <1>3, <2>1 DEF CollectMiniGraphs
  <2>3. d \in Nat /\ next \in Nat /\ mg_ops \in [Loops -> Seq(MiniGraphs)]
    BY <1>1, <2>1, <2>2 DEF MiniGraphsInv
  <2>4. d \in Loops
    <3>1. MaxDep \in Nat /\ MaxDep <= input.size - 2 /\ Loops = 0..(input.size - 2)
          /\ input.size \in Nat
      BY <1>1, InputFacts
    <3> QED BY <2>2, <2>3, <3>1
  <2>5. OpsOrdered(set_ops[d], input, d)
    BY <2>4 DEF PlanOrdered
  <2>6. GraphsAscend(all)
    BY <1>1, <2>1, <2>2, <2>4, <2>5, MiniGraphsOfOrder
  <2>7. all \in Seq(Unnamed(ToSet(set_ops[d])))
    BY <1>1, <2>1, <2>2, <2>4, MiniGraphsOfFacts
  <2>8. GraphsAscend(mgs)
    BY <2>1, <2>3, <2>6, <2>7, NumberedGraphs
  <2>9. mg_ops'[d] = mgs /\ \A e \in Loops : e # d => mg_ops'[e] = mg_ops[e]
    BY <2>2, <2>3, <2>4
  <2>10. Loops' = Loops
    BY <2>2, InputStays
  <2> SUFFICES ASSUME NEW e \in Loops
               PROVE  OpsOrdered(set_ops'[e], input', e) /\ GraphsAscend(mg_ops[e])'
    BY <2>10 DEF PlanOrdered
  <2>11. PICK list : list = mg_ops'[e]
    OBVIOUS
  <2>12. GraphsAscend(list)
    BY <2>8, <2>9, <2>11 DEF PlanOrdered
  <2>13. GraphsAscend(list)'
    BY <2>2, <2>12, OrderStays
  <2> QED BY <2>2, <2>11, <2>13 DEF PlanOrdered
<1>4. CASE Erase
  <2>1. PICK d, k, list, rest :
          /\ d = cursor[1] /\ k = cursor[2] /\ list = mg_ops[d]
          /\ rest = IF list[k].id \in indeedUsed THEN list ELSE RemoveAt(list, k)
    OBVIOUS
  <2>2. /\ phase = "erase" /\ d \in Loops /\ k <= Len(list)
        /\ mg_ops' = [mg_ops EXCEPT ![d] = rest] /\ UNCHANGED <<input, set_ops>>
    BY <1>4, <2>1 DEF Erase
  <2>3. mg_ops \in [Loops -> Seq(MiniGraphs)] /\ list \in Seq(MiniGraphs)
    BY <1>1, <2>1, <2>2 DEF MiniGraphsInv
  <2>4. k \in 1..Len(list)
    <3>1. k \in Nat \ {0}
      BY <1>1, <2>1, <2>2 DEF UsedInv
    <3>2. Len(list) \in Nat
      BY <2>3
    <3> QED BY <2>2, <3>1, <3>2
  <2>5. GraphsAscend(list)
    BY <2>1, <2>2 DEF PlanOrdered
  <2>6. GraphsAscend(rest)
    <3>1. CASE list[k].id \in indeedUsed
      BY <2>1, <2>5, <3>1
    <3>2. CASE list[k].id \notin indeedUsed
      <4>1. Removed(rest, list, k)
        BY <2>1, <2>3, <2>4, <3>2, RemoveAtFacts
      <4> QED BY <2>3, <2>4, <2>5, <4>1, RemovedGraphs
    <3> QED BY <3>1, <3>2
  <2>7. mg_ops'[d] = rest /\ \A e \in Loops : e # d => mg_ops'[e] = mg_ops[e]
    BY <2>2, <2>3
  <2>8. Loops' = Loops
    BY <2>2, InputStays
  <2> SUFFICES ASSUME NEW e \in Loops
               PROVE  OpsOrdered(set_ops'[e], input', e) /\ GraphsAscend(mg_ops[e])'
    BY <2>8 DEF PlanOrdered
  <2>9. PICK l : l = mg_ops'[e]
    OBVIOUS
  <2>10. GraphsAscend(l)
    BY <2>6, <2>7, <2>9 DEF PlanOrdered
  <2>11. GraphsAscend(l)'
    BY <2>2, <2>10, OrderStays
  <2> QED BY <2>2, <2>9, <2>11 DEF PlanOrdered
<1>5. CASE UNCHANGED <<input, set_ops, mg_ops>>
  BY <1>5, OrderUnchanged
<1>6. ASSUME Generate
      PROVE  CreatePlan \/ CollectMiniGraphs \/ Erase \/ UNCHANGED <<input, set_ops, mg_ops>>
  BY <1>6 DEF Generate, GenNext, EndCreatePlan, EndCollect, MarkUsed, EndMark, Inherit,
              EndInherit, EndErase, gen_code, EndGenCode
<1>7. ASSUME Run \/ EnterRoot \/ EnterLoop \/ LeaveLoop \/ Stop \/ Return \/ UNCHANGED vars
      PROVE  UNCHANGED <<input, set_ops, mg_ops>>
  BY <1>7 DEF Run, EnterRoot, EnterLoop, LeaveLoop, Stop, Return, vars, genVars, planVars
<1> QED BY <1>2, <1>3, <1>4, <1>5, <1>6, <1>7 DEF Next

\* In order, the code of every loop declares what it uses before the use.
LEMMA CodeInOrder ==
  ASSUME PlanInv, PlanOrdered, Coded
  PROVE  InOrder
<1> SUFFICES ASSUME NEW d \in Bodies PROVE BodyInOrder(code.sets[d], code.builds[d])
  BY DEF InOrder
<1>1. /\ d \in Loops /\ input \in Inputs /\ SetsInv /\ MiniGraphsInv /\ d \in Nat
      /\ phase # "create_plan"
  BY LoopFacts DEF Coded, PlanInv, Generated, Bodies
<1>2. PICK ops, mgs, sets, builds :
        ops = set_ops[d] /\ mgs = mg_ops[d] /\ sets = code.sets[d] /\ builds = code.builds[d]
  OBVIOUS
<1>3. /\ ops \in Seq(Ops) /\ DOMAIN ops = 1..Len(ops)
      /\ \A k \in 1..Len(ops) : ops[k] \in Ops /\ OpOK(ops[k], d) /\ ops[k].dep = d
      /\ OpsAscend(ops) /\ GraphsAscend(mgs)
  <2>1. ops \in Seq(Ops) /\ \A op \in ToSet(ops) : op \in Ops /\ OpOK(op, d) /\ op.dep = d
    BY <1>1, <1>2, PlannedOps
  <2>2. DOMAIN ops = 1..Len(ops)
    BY <2>1
  <2>3. \A k \in 1..Len(ops) : ops[k] \in ToSet(ops)
    BY <2>2 DEF ToSet
  <2> QED BY <1>1, <1>2, <2>1, <2>2, <2>3 DEF PlanOrdered, OpsOrdered
<1>4. /\ Len(sets) = Len(ops) /\ DOMAIN sets = 1..Len(ops)
      /\ \A k \in 1..Len(ops) : sets[k].op = ops[k] /\ StatementFits(sets[k], d)
  BY <1>2 DEF Coded, CodeOf, BodyOf, FitsOf, Listed
<1>5. ASSUME NEW k \in 1..Len(ops), NEW l \in 1..Len(ops), sets[k].from = sets[l].op.id
      PROVE  l < k
  <2>1. sets[k].from = ops[l].id /\ ops[l].id \in Nat /\ ops[l].id # None.id
    BY <1>3, <1>4, <1>5 DEF Ops, None
  <2>2. sets[k].form # "chain"
    BY <1>4, <2>1 DEF StatementFits
  <2>3. PICK p \in SetsTo(d) :
          /\ p.id = ops[l].id
          /\ p.dep # d \/ (Sibling(p, ops[k]) /\ p.restricts # ops[k].restricts)
    BY <1>4, <2>1, <2>2 DEF StatementFits
  <2>4. p = ops[l]
    <3>1. PICK e \in 0..d : p \in ToSet(set_ops[e])
      BY <2>3 DEF SetsTo
    <3>2. PICK i \in DOMAIN set_ops[e] : p = set_ops[e][i]
      BY <3>1 DEF ToSet
    <3>3. e \in Loops
      BY <1>1, InputFacts
    <3>4. l \in DOMAIN set_ops[d] /\ set_ops[d][l].id = set_ops[e][i].id
      BY <1>2, <1>3, <2>3, <3>2
    <3>5. d = e /\ l = i
      BY <1>1, <3>2, <3>3, <3>4 DEF SetsInv, DistinctIds
    <3> QED BY <1>2, <3>2, <3>5
  <2>5. Sibling(ops[l], ops[k]) /\ ops[l].restricts # ops[k].restricts
    BY <1>3, <2>3, <2>4
  <2>6. IsSuperset(ops[l], ops[k])
    BY <1>3, <2>5 DEF Sibling, IsSuperset, OpOK
  <2>7. Precedes(ops[l], ops[k]) /\ ~Precedes(ops[k], ops[l])
    BY <1>1, <1>3, <2>5, <2>6, PrecedesFacts DEF Same
  <2>8. ~(k < l)
    BY <1>3, <2>7 DEF OpsAscend
  <2>9. k # l
    BY <2>5
  <2> QED BY <2>8, <2>9
<1>6. ASSUME NEW k \in DOMAIN builds, NEW l \in DOMAIN builds, builds[k].parent = builds[l].id
      PROVE  l < k
  <2>1. d # LastLoop
    <3>1. d = LastLoop => builds = <<>>
      BY <1>2 DEF Coded, CodeOf, FitsOf
    <3> QED BY <3>1
  <2>2. /\ DOMAIN builds = 1..Len(mgs)
        /\ \A i \in 1..Len(mgs) : /\ builds[i].id = mgs[i].id /\ SourceFits(builds[i], d)
                                  /\ builds[i].parent # builds[i].id
    BY <1>2, <2>1 DEF Coded, CodeOf, BodyOf, FitsOf, Listed, BuildOf
  <2>3. mgs \in Seq(MiniGraphs) /\ DOMAIN mgs = 1..Len(mgs)
    BY <1>1, <1>2 DEF MiniGraphsInv
  <2>4. k \in 1..Len(mgs) /\ l \in 1..Len(mgs) /\ k # l
    BY <1>6, <2>2
  <2>5. builds[k].parent # None.id
    <3>1. mgs[l] \in MiniGraphs
      BY <2>3, <2>4
    <3>2. mgs[l].id \in Nat /\ builds[k].parent = mgs[l].id
      BY <1>6, <2>2, <2>4, <3>1 DEF MiniGraphs
    <3> QED BY <3>2 DEF None
  <2>6. PICK mg, source \in MiniGraphsTo(d) :
          /\ mg.id = mgs[k].id /\ source.id = mgs[l].id
          /\ MGSuperset(source, mg.vertices, mg.intersect)
    BY <1>6, <2>2, <2>4, <2>5 DEF SourceFits
  <2>7. mgs[k] \in MiniGraphsTo(d) /\ mgs[l] \in MiniGraphsTo(d)
    <3>1. d \in 0..d
      BY <1>1
    <3> QED BY <1>2, <2>3, <2>4, <3>1 DEF MiniGraphsTo, ToSet
  <2>8. mg = mgs[k] /\ source = mgs[l]
    BY <1>1, <2>6, <2>7, ScopeOfGraphs
  <2> QED BY <1>3, <2>4, <2>6, <2>8 DEF GraphsAscend
<1> QED BY <1>2, <1>4, <1>5, <1>6 DEF BodyInOrder

\* Whatever the input, if operator< is a strict weak order wherever it is used to sort,
\* the statements of every loop are in order.
THEOREM OperandsOrdered == ASSUME InputsOrderly PROVE Spec => []InOrder
<1> DEFINE I == PlanInv /\ CodeInv /\ PlanOrdered
<1>1. LoopInit => I
  <2> SUFFICES ASSUME LoopInit PROVE I
    OBVIOUS
  <2>1. \A d \in Loops : set_ops[d] = <<>> /\ mg_ops[d] = <<>>
    BY DEF LoopInit, GenInit, Init
  <2>2. PlanOrdered
    BY <2>1, EmptyInOrder DEF PlanOrdered
  <2> QED BY <2>2, CodeInitially
<1>2. I /\ [Next]_vars => I'
  BY PlanStep, CodeStep, OrderStep
<1>3. I => InOrder
  <2> SUFFICES ASSUME I, Generated PROVE InOrder
    BY DEF InOrder
  <2>1. Coded
    BY PlanTypes DEF Coded, CodeInv
  <2> QED BY <2>1, CodeInOrder
<1> QED BY <1>1, <1>2, <1>3, PTL DEF Spec

\* If the statements of each loop are in order, every operand of every statement is
\* declared before it (gen_code_omp).  This asks no more than it must: there are schedules
\* for which std::sort with operator< does not provide that order.
THEOREM OperandsInOrderCorrect == Spec /\ []InOrder => []OperandsDeclared
<1>1. LoopInit => PlanInv /\ CodeInv
  BY CodeInitially
<1>2. PlanInv /\ CodeInv /\ [Next]_vars => PlanInv' /\ CodeInv'
  BY PlanStep, CodeStep
<1>3. PlanInv /\ CodeInv /\ InOrder => OperandsDeclared
  BY ProgramFacts
<1> QED BY <1>1, <1>2, <1>3, PTL DEF Spec

\* Whatever the input: if operator< is a strict weak order wherever more than two
\* operations are sorted with it, every operand of every statement is declared before it
\* and is the one it needs (create_plan, create_plan_mg and gen_code_omp).
THEOREM OperandsCorrect == ASSUME InputsOrderly PROVE Spec => []OperandsDeclared
<1>1. Spec => []InOrder
  BY OperandsOrdered
<1>2. Spec /\ []InOrder => []OperandsDeclared
  BY OperandsInOrderCorrect
<1> QED BY <1>1, <1>2, PTL

(***************************************************************************)
(* The loops.                                                              *)
(***************************************************************************)
FrameShape(f) ==
  /\ f = [match |-> f.match, sets |-> f.sets, rows |-> f.rows, done |-> f.done]
  /\ f.done \in Nat

\* Every loop the thread is in has in scope what it should.
Nest(fs) ==
  /\ fs \in Seq(ToSet(fs)) /\ Len(fs) <= LastLoop
  /\ \A n \in 1..Len(fs) : FrameShape(fs[n]) /\ FrameRight(fs[n], n)

FramesInv == Nest(frames) /\ (frames # <<>> => Generated)

\* A step that changes neither the plan nor the graph leaves a frame right.
LEMMA FrameStays ==
  ASSUME UNCHANGED <<input, set_ops, iter_set, mg_ops, mg_bounded, graph>>,
         NEW CONSTANT f, NEW CONSTANT n, FrameRight(f, n)
  PROVE  FrameRight(f, n)'
<1>1. \A d : SetsTo(d)' = SetsTo(d) /\ MiniGraphsTo(d)' = MiniGraphsTo(d)
  BY DEF SetsTo, MiniGraphsTo
<1>2. \A d : IdsTo(d)' = IdsTo(d) /\ GraphIdsTo(d)' = GraphIdsTo(d)
  BY <1>1 DEF IdsTo, GraphIdsTo
<1>3. \A op, match : Candidates(op, match)' = Candidates(op, match)
  <2>1. Vertex' <=> Vertex
    BY DEF Vertex
  <2> QED BY <2>1 DEF Candidates
<1>4. \A sets, d, match : SetsRight(sets, d, match)' <=> SetsRight(sets, d, match)
  BY <1>1, <1>3 DEF SetsRight
<1>5. \A mg, match, v : Part(mg, match, v)' = Part(mg, match, v)
  BY <1>3 DEF Part
<1>6. \A row, mg, match, v : RowRight(row, mg, match, v)' <=> RowRight(row, mg, match, v)
  BY <1>3, <1>5 DEF RowRight, mg_dep
<1>7. \A rows, d, match : RowsRight(rows, d, match)' <=> RowsRight(rows, d, match)
  BY <1>1, <1>3, <1>6 DEF RowsRight
<1> QED BY <1>2, <1>4, <1>7 DEF FrameRight

\* Outside all loops nothing is in scope.
LEMMA NothingInScope ==
  FrameRight(NoFrame, 0)
<1>1. 0..(0 - 1) = {}
  OBVIOUS
<1>2. SetsTo(0 - 1) = {} /\ MiniGraphsTo(0 - 1) = {}
  BY <1>1 DEF SetsTo, MiniGraphsTo
<1>3. /\ NoFrame.match = <<>> /\ DOMAIN NoFrame.sets = {} /\ DOMAIN NoFrame.rows = {}
  BY DEF NoFrame
<1> HIDE DEF NoFrame
<1> QED BY <1>2, <1>3 DEF FrameRight, IdsTo, GraphIdsTo, SetsRight, RowsRight

\* A graph that is loaded is one of the data graphs.
LEMMA GraphStep ==
  ASSUME PlanTypeOK, GraphOK, [Next]_vars
  PROVE  GraphOK'
<1>1. CASE Run
  <2>1. input \in Inputs /\ graph' \in Graphs(input)
    BY <1>1 DEF PlanTypeOK, Run
  <2>2. PICK g \in Graphs(input) : g = graph'
    BY <2>1
  <2>3. /\ IsFiniteSet(DOMAIN g) /\ DOMAIN g = 0..(Cardinality(DOMAIN g) - 1)
        /\ \A v \in DOMAIN g : v \notin g[v] /\ \A w \in g[v] : w \in DOMAIN g
    BY <2>1, LoopAssumption
  <2> QED BY <2>2, <2>3 DEF GraphOK
<1>2. CASE graph' = graph
  BY <1>2 DEF GraphOK
<1>3. Run \/ graph' = graph
  BY DEF Next, vars, Generate, EnterRoot, EnterLoop, LeaveLoop, Return, Stop
<1> QED BY <1>1, <1>2, <1>3


\* Nor does it disturb the others.
LEMMA NestStays ==
  ASSUME UNCHANGED <<input, set_ops, iter_set, mg_ops, mg_bounded, graph>>,
         NEW CONSTANT fs, Nest(fs)
  PROVE  Nest(fs)'
<1>1. LastLoop' = LastLoop
  BY DEF LastLoop, iep_num, iep_depth
<1>2. \A f, n : FrameRight(f, n) => FrameRight(f, n)'
  BY FrameStays
<1>3. \A f : FrameShape(f) => FrameShape(f)'
  BY DEF FrameShape
<1> QED BY <1>1, <1>2, <1>3 DEF Nest, ToSet

\* One more loop is entered.
LEMMA NestGrows ==
  ASSUME NEW fs, Nest(fs), PlanTypeOK, Len(fs) < LastLoop,
         NEW f, FrameShape(f), FrameRight(f, Len(fs) + 1)
  PROVE  Nest(fs \o <<f>>)
<1> DEFINE gs == fs \o <<f>>
           m == Len(fs)
           S == ToSet(fs) \union {f}
<1>1. fs \in Seq(S) /\ m \in Nat /\ LastLoop \in Nat
  <2>1. fs \in Seq(ToSet(fs))
    BY DEF Nest
  <2>2. fs \in Seq(S)
    BY <2>1
  <2> QED BY <2>2, LoopFacts
<1>2. /\ gs \in Seq(S) /\ Len(gs) = m + 1 /\ gs[m + 1] = f
      /\ \A n \in 1..m : gs[n] = fs[n]
  <2> HIDE DEF S
  <2>1. <<f>> \in Seq(S)
    BY DEF S
  <2> QED BY <1>1, <2>1
<1> HIDE DEF gs
<1>3. gs \in Seq(ToSet(gs))
  <2>1. \A n \in 1..Len(gs) : gs[n] \in ToSet(gs)
    BY <1>2 DEF ToSet
  <2> QED BY <1>2, <2>1
<1>4. 1..(m + 1) = 1..m \union {m + 1} /\ m + 1 <= LastLoop
  BY <1>1
<1>5. \A n \in 1..Len(gs) : FrameShape(gs[n]) /\ FrameRight(gs[n], n)
  BY <1>2, <1>4 DEF Nest
<1>6. Nest(gs)
  BY <1>2, <1>3, <1>4, <1>5 DEF Nest
<1> QED BY <1>6 DEF gs

\* The innermost loop goes on to its next element.
LEMMA NestAdvances ==
  ASSUME NEW fs, Nest(fs), fs # <<>>, NEW k \in Nat
  PROVE  /\ Nest([fs EXCEPT ![Len(fs)].done = k])
         /\ Len([fs EXCEPT ![Len(fs)].done = k]) = Len(fs)
<1> DEFINE m == Len(fs)
           f == [fs[m] EXCEPT !.done = k]
           gs == [fs EXCEPT ![m] = f]
           S == ToSet(fs) \union {f}
<1>1. gs = [fs EXCEPT ![Len(fs)].done = k]
  OBVIOUS
<1>2. fs \in Seq(ToSet(fs)) /\ m \in Nat /\ m \in 1..m
  BY DEF Nest
<1>3. FrameShape(fs[m]) /\ FrameRight(fs[m], m)
  BY <1>2 DEF Nest
<1>4. f = [match |-> fs[m].match, sets |-> fs[m].sets, rows |-> fs[m].rows, done |-> k]
  BY <1>3 DEF FrameShape
<1>5. /\ f.match = fs[m].match /\ f.sets = fs[m].sets /\ f.rows = fs[m].rows
      /\ FrameShape(f)
  BY <1>4 DEF FrameShape
<1>6. FrameRight(f, m)
  BY <1>3, <1>5 DEF FrameRight
<1> HIDE DEF f
<1>7. /\ gs \in Seq(S) /\ Len(gs) = m /\ gs[m] = f /\ \A n \in 1..m : n # m => gs[n] = fs[n]
  <2>1. fs \in Seq(S) /\ f \in S
    BY <1>2
  <2> HIDE DEF S
  <2> QED BY <1>2, <2>1
<1> HIDE DEF gs
<1>8. gs \in Seq(ToSet(gs))
  <2>1. \A n \in 1..Len(gs) : gs[n] \in ToSet(gs)
    BY <1>7 DEF ToSet
  <2> QED BY <1>7, <2>1
<1>9. \A n \in 1..Len(gs) : FrameShape(gs[n]) /\ FrameRight(gs[n], n)
  BY <1>5, <1>6, <1>7 DEF Nest
<1>10. Nest(gs)
  BY <1>7, <1>8, <1>9 DEF Nest
<1> QED BY <1>1, <1>7, <1>10

\* The innermost loop is left.
LEMMA NestShrinks ==
  ASSUME NEW fs, Nest(fs), fs # <<>>, PlanTypeOK
  PROVE  Nest(Front(fs))
<1> DEFINE m == Len(fs)
           gs == SubSeq(fs, 1, m - 1)
<1>1. fs \in Seq(ToSet(fs)) /\ m \in Nat /\ m >= 1 /\ LastLoop \in Nat /\ m <= LastLoop
  BY LoopFacts DEF Nest
<1>2. /\ gs \in Seq(ToSet(fs)) /\ Len(gs) = m - 1 /\ \A n \in 1..(m - 1) : gs[n] = fs[n]
  <2>1. gs = [i \in 1..(m - 1) |-> fs[1 + i - 1]]
    BY <1>1 DEF SubSeq
  <2>2. \A i \in 1..(m - 1) : i \in 1..m /\ 1 + i - 1 = i /\ fs[i] \in ToSet(fs)
    BY <1>1 DEF ToSet
  <2>3. m - 1 \in Nat
    BY <1>1
  <2> HIDE DEF gs, m
  <2>4. DOMAIN gs = 1..(m - 1) /\ \A i \in 1..(m - 1) : gs[i] = fs[i] /\ gs[i] \in ToSet(fs)
    BY <2>1, <2>2
  <2>5. gs = [i \in 1..(m - 1) |-> gs[i]]
    BY <2>1, <2>4
  <2>6. gs \in Seq(ToSet(fs))
    BY <2>3, <2>4, <2>5
  <2> QED BY <2>3, <2>4, <2>6
<1> HIDE DEF gs
<1>3. gs \in Seq(ToSet(gs))
  <2>1. \A n \in 1..Len(gs) : gs[n] \in ToSet(gs)
    BY <1>2 DEF ToSet
  <2> QED BY <1>2, <2>1
<1>4. \A n \in 1..Len(gs) : n \in 1..m /\ FrameShape(gs[n]) /\ FrameRight(gs[n], n)
  BY <1>1, <1>2 DEF Nest
<1>5. Nest(gs)
  BY <1>1, <1>2, <1>3, <1>4 DEF Nest
<1> QED BY <1>5 DEF gs, Front


\* What Kept leaves of a body that fits.
LEMMA KeptRight ==
  ASSUME Ready, GraphOK, NEW fs, Nest(fs), NEW d \in Bodies, d = Len(fs),
         NEW outer, FrameRight(outer, d), NEW k, NEW v \in DOMAIN graph,
         d # 0 => /\ k \in 1..Len(Ascending(outer.sets[iter_set[d - 1].id]))
                  /\ v = Ascending(outer.sets[iter_set[d - 1].id])[k],
         NEW b, b = Body(d, outer, v, k)
  PROVE  Nest(fs \o Kept(d, b))
<1>1. PlanTypeOK /\ LastLoop \in Nat
  BY LoopFacts DEF Ready
<1>2. CASE b.left \/ d = LastLoop
  <2>1. Kept(d, b) = <<>>
    BY <1>2 DEF Kept
  <2>2. fs \in Seq(ToSet(fs))
    BY DEF Nest
  <2>3. fs \o <<>> = fs
    BY <2>2
  <2> QED BY <2>1, <2>3
<1>3. CASE ~(b.left \/ d = LastLoop)
  <2> DEFINE f == [match |-> b.match, sets |-> b.sets, rows |-> b.rows, done |-> 0]
  <2>1. Kept(d, b) = <<f>>
    BY <1>3 DEF Kept
  <2>2. f.match = b.match /\ f.sets = b.sets /\ f.rows = b.rows /\ FrameShape(f)
    BY DEF FrameShape
  <2> HIDE DEF f
  <2>3. d # LastLoop /\ ~b.left
    BY <1>3
  <2>4. FrameRight(f, d + 1)
    BY <2>2, <2>3, BodyRight
  <2>5. Len(fs) < LastLoop
    BY <1>1, <2>3 DEF Bodies
  <2>6. Nest(fs \o <<f>>)
    BY <1>1, <2>2, <2>4, <2>5, NestGrows
  <2> QED BY <2>1, <2>6
<1> QED BY <1>2, <1>3

\* An iteration of loop 0.
LEMMA RootEntered ==
  ASSUME Ready, GraphOK, FramesInv, EnterRoot
  PROVE  FramesInv'
<1> DEFINE body == Body(0, NoFrame, root, root + 1)
<1>1. /\ Generated /\ frames = <<>> /\ root \in DOMAIN graph /\ frames' = Kept(0, body)
      /\ UNCHANGED <<genVars, graph>>
  BY DEF EnterRoot
<1>2. 0 \in Bodies /\ Len(frames) = 0 /\ Nest(frames)
  BY <1>1, LoopFacts DEF Ready, Bodies, FramesInv
<1>3. FrameRight(NoFrame, 0)
  BY NothingInScope
<1>4. Nest(frames \o Kept(0, body))
  <2>1. PICK b : b = body
    OBVIOUS
  <2>2. Nest(frames \o Kept(0, b))
    BY <1>1, <1>2, <1>3, <2>1, KeptRight
  <2> QED BY <2>1, <2>2
<1> HIDE DEF body
<1>5. PICK fs : fs = frames'
  OBVIOUS
<1>6. <<>> \o Kept(0, body) = Kept(0, body)
  <2>1. CASE body.left \/ 0 = LastLoop
    BY <2>1 DEF Kept
  <2>2. CASE ~(body.left \/ 0 = LastLoop)
    <3>1. PICK x : Kept(0, body) = <<x>>
      BY <2>2 DEF Kept
    <3>2. <<>> \o <<x>> = <<x>>
      OBVIOUS
    <3> QED BY <3>1, <3>2
  <2> QED BY <2>1, <2>2
<1>7. Nest(fs)
  BY <1>1, <1>4, <1>5, <1>6
<1>8. Nest(fs)'
  BY <1>1, <1>7, NestStays DEF genVars, planVars
<1>9. Generated'
  BY <1>1 DEF genVars, planVars, Generated
<1> QED BY <1>5, <1>8, <1>9 DEF FramesInv, Nest

\* An iteration of an inner loop.
LEMMA LoopEntered ==
  ASSUME Ready, GraphOK, FramesInv, EnterLoop
  PROVE  FramesInv'
<1> DEFINE d == Len(frames)
           outer == Last(frames)
           k == outer.done + 1
           v == IterateOver(d)[k]
           body == Body(d, outer, v, k)
           next == [frames EXCEPT ![d].done = k]
<1>1. /\ Generated /\ frames # <<>> /\ k <= Len(IterateOver(d))
      /\ frames' = next \o Kept(d, body)
      /\ UNCHANGED <<genVars, graph>>
  BY DEF EnterLoop
<1>2. /\ Nest(frames) /\ frames \in Seq(ToSet(frames)) /\ d \in Nat /\ d >= 1 /\ d <= LastLoop
      /\ LastLoop \in Nat /\ d \in Bodies /\ d # 0 /\ d \in 1..Len(frames)
  <2>1. LastLoop \in Nat
    BY LoopFacts DEF Ready
  <2>2. Nest(frames) /\ frames \in Seq(ToSet(frames)) /\ d <= LastLoop
    BY DEF FramesInv, Nest
  <2>3. d \in Nat /\ d >= 1
    BY <1>1, <2>2
  <2> HIDE DEF d
  <2>4. d \in 0..LastLoop /\ d \in 1..d
    BY <2>1, <2>2, <2>3
  <2> QED BY <2>1, <2>2, <2>3, <2>4 DEF Bodies, d
<1>3. outer = frames[d]
  BY <1>2 DEF Last
<1>4. FrameShape(outer) /\ FrameRight(outer, d)
  BY <1>2, <1>3 DEF Nest
<1>5. IterateOver(d) = Ascending(outer.sets[iter_set[d - 1].id])
  BY DEF IterateOver
<1>6. k \in Nat /\ k >= 1
  BY <1>4 DEF FrameShape
<1>7. Nest(next) /\ Len(next) = d
  <2> HIDE DEF k
  <2> QED BY <1>1, <1>2, <1>6, NestAdvances
<1> DEFINE list == Ascending(outer.sets[iter_set[d - 1].id])
<1>8. /\ Len(list) \in Nat /\ k \in 1..Len(list) /\ v = list[k] /\ v \in DOMAIN graph
  <2> DEFINE iter == iter_set[d - 1]
             I == Candidates(iter, outer.match)
  <2>1. outer.sets[iter.id] = I /\ I \subseteq DOMAIN graph
    <3>1. d - 1 \in Loops /\ phase # "create_plan" /\ PlanTypeOK
      BY <1>2, LoopFacts DEF Ready, Loops, Generated
    <3>2. iter \in ToSet(set_ops[d - 1]) /\ d - 1 \in 0..(d - 1)
      BY <1>2, <3>1, OpsFacts
    <3>3. iter \in SetsTo(d - 1)
      BY <3>2 DEF SetsTo
    <3> QED BY <1>4, <3>3 DEF FrameRight, SetsRight, IdsTo, Candidates
  <2>2. I \in SUBSET Nat /\ IsFiniteSet(I)
    BY <2>1, GraphFacts
  <2> HIDE DEF I
  <2>3. list = Ascending(I)
    BY <2>1
  <2>4. Len(list) \in Nat
    BY <2>2, <2>3, AscendingFacts
  <2>5. k \in 1..Len(list) /\ v = list[k]
    <3>1. IterateOver(d) = list
      BY <1>5
    <3> HIDE DEF list, k, d
    <3> QED BY <1>1, <1>6, <2>4, <3>1 DEF v
  <2>6. list[k] \in I
    BY <2>2, <2>3, <2>5, AscendingFacts
  <2> QED BY <2>1, <2>4, <2>5, <2>6
<1>9. Nest(next \o Kept(d, body))
  <2>1. PICK b, D, K, V : b = body /\ D = d /\ K = k /\ V = v
    OBVIOUS
  <2>2. b = Body(D, outer, V, K)
    BY <2>1
  <2> HIDE DEF body, next, d, k, v, list
  <2>3. /\ D \in Bodies /\ D = Len(next) /\ FrameRight(outer, D) /\ V \in DOMAIN graph
    BY <1>2, <1>4, <1>7, <1>8, <2>1
  <2>4. /\ K \in 1..Len(Ascending(outer.sets[iter_set[D - 1].id]))
        /\ V = Ascending(outer.sets[iter_set[D - 1].id])[K]
    BY <1>8, <2>1 DEF list
  <2>5. Nest(next \o Kept(D, b))
    BY <1>7, <2>2, <2>3, <2>4, KeptRight
  <2> QED BY <2>1, <2>5
<1> HIDE DEF body, next, d, k, v, list
<1>10. PICK fs : fs = frames'
  OBVIOUS
<1>11. Nest(fs)
  BY <1>1, <1>9, <1>10
<1>12. Nest(fs)'
  BY <1>1, <1>11, NestStays DEF genVars, planVars
<1>13. Generated'
  BY <1>1 DEF genVars, planVars, Generated
<1> QED BY <1>10, <1>12, <1>13 DEF FramesInv, Nest


\* The inductive invariant, given a program with its statements in order and its bounded
\* rows read by bounded operations only.
LoopInv == PlanInv /\ GraphOK /\ CodeInv /\ FramesInv

PlanOK == InOrder /\ BoundedRowsSuffice

\* It holds before anything is generated.
LEMMA LoopInitially ==
  ASSUME LoopInit
  PROVE  LoopInv
<1>1. GraphOK
  <2>1. graph = <<>>
    BY DEF LoopInit, NoGraph
  <2>2. DOMAIN graph = {}
    BY <2>1
  <2>3. IsFiniteSet({}) /\ Cardinality({}) = 0 /\ 0..(0 - 1) = {}
    BY FS_EmptySet
  <2> QED BY <2>2, <2>3 DEF GraphOK
<1>2. PlanInv /\ CodeInv
  BY CodeInitially
<1>3. FramesInv
  <2>1. frames = <<>>
    BY DEF LoopInit
  <2>2. LastLoop \in Nat
    BY <1>2, LoopFacts, PlanTypes
  <2>3. <<>> \in Seq(ToSet(<<>>)) /\ Len(<<>>) = 0 /\ 1..0 = {}
    OBVIOUS
  <2> QED BY <2>1, <2>2, <2>3 DEF FramesInv, Nest
<1> QED BY <1>1, <1>2, <1>3 DEF LoopInv

\* Every step keeps it.
LEMMA LoopStep ==
  ASSUME LoopInv, PlanOK, [Next]_vars
  PROVE  LoopInv'
<1>1. PlanInv /\ PlanTypeOK /\ GraphOK /\ CodeInv /\ FramesInv
  BY PlanTypes DEF LoopInv
<1>2. PlanInv' /\ GraphOK' /\ CodeInv'
  BY <1>1, PlanStep, GraphStep, CodeStep
<1>3. Generated => Ready
  BY <1>1, ProgramFacts DEF Ready, PlanOK, CodeInv
<1> SUFFICES FramesInv'
  BY <1>2 DEF LoopInv
<1>4. CASE EnterRoot
  BY <1>1, <1>3, <1>4, RootEntered DEF EnterRoot
<1>5. CASE EnterLoop
  BY <1>1, <1>3, <1>5, LoopEntered DEF EnterLoop
<1>6. CASE LeaveLoop
  <2>1. /\ Generated /\ frames # <<>> /\ frames' = Front(frames) /\ UNCHANGED <<genVars, graph>>
    BY <1>6 DEF LeaveLoop
  <2>2. PICK fs : fs = frames'
    OBVIOUS
  <2>3. Nest(fs)
    <3>1. Nest(frames)
      BY <1>1 DEF FramesInv
    <3>2. Nest(Front(frames))
      BY <1>1, <2>1, <3>1, NestShrinks
    <3> QED BY <2>1, <2>2, <3>2
  <2>4. Nest(fs)'
    BY <2>1, <2>3, NestStays DEF genVars, planVars
  <2>5. Generated'
    BY <2>1 DEF genVars, planVars, Generated
  <2> QED BY <2>2, <2>4, <2>5 DEF FramesInv, Nest
<1>7. CASE Generate \/ Run \/ Return
  <2>1. ASSUME Generate PROVE frames' = <<>> /\ input' = input
    <3>1. ~Generated /\ input' = input /\ frames' = frames
      <4>1. CASE \/ CreatePlan \/ EndCreatePlan \/ CollectMiniGraphs \/ EndCollect
                 \/ MarkUsed \/ EndMark \/ Inherit \/ EndInherit \/ Erase \/ EndErase
        BY <2>1, <4>1, PlanningSteps DEF Generate, Planning, Generated
      <4>2. CASE gen_code \/ EndGenCode
        BY <2>1, <4>2 DEF Generate, gen_code, EndGenCode, Generated
      <4> QED BY <2>1, <4>1, <4>2 DEF Generate, GenNext
    <3> QED BY <1>1, <3>1 DEF FramesInv
  <2>2. ASSUME Run PROVE frames' = <<>> /\ input' = input
    <3>1. graph = <<>> /\ Nest(frames) /\ frames' = frames /\ input' = input
      BY <1>1, <2>2 DEF Run, NoGraph, FramesInv, genVars, planVars
    <3>2. frames = <<>>
      <4> SUFFICES ASSUME frames # <<>> PROVE FALSE
        OBVIOUS
      <4>1. frames \in Seq(ToSet(frames))
        BY <3>1 DEF Nest
      <4>2. 1 \in 1..Len(frames)
        BY <4>1
      <4>3. frames[1].match \in Seq(DOMAIN graph) /\ Len(frames[1].match) = 1
        BY <3>1, <4>2 DEF Nest, FrameRight
      <4>4. frames[1].match[1] \in DOMAIN graph
        BY <4>3
      <4> QED BY <3>1, <4>4
    <3> QED BY <3>1, <3>2
  <2>3. ASSUME Return PROVE frames' = <<>> /\ input' = input
    BY <2>3 DEF Return
  <2>4. frames' = <<>> /\ input' = input
    BY <1>7, <2>1, <2>2, <2>3
  <2>5. LastLoop \in Nat /\ LastLoop' = LastLoop
    BY <1>1, <2>4, LoopFacts DEF LastLoop, iep_num, iep_depth
  <2>6. <<>> \in Seq(ToSet(<<>>)) /\ Len(<<>>) = 0 /\ 1..0 = {}
    OBVIOUS
  <2> QED BY <2>4, <2>5, <2>6 DEF FramesInv, Nest, ToSet
<1>8. CASE Stop \/ UNCHANGED vars
  <2>1. UNCHANGED vars
    BY <1>8 DEF Stop
  <2>2. PICK fs : fs = frames
    OBVIOUS
  <2>3. Nest(fs)
    BY <1>1, <2>2 DEF FramesInv
  <2>4. Nest(fs)'
    BY <2>1, <2>3, NestStays DEF vars, genVars, planVars
  <2>5. frames' = frames /\ phase' = phase
    BY <2>1 DEF vars, genVars, planVars
  <2> QED BY <1>1, <2>2, <2>4, <2>5 DEF FramesInv, Nest, Generated
<1> QED BY <1>4, <1>5, <1>6, <1>7, <1>8 DEF Next

\* In every state with the invariant the sets in scope are those planned.
LEMMA ScopeAsPlanned ==
  ASSUME LoopInv
  PROVE  SetsAsPlanned
<1> SUFFICES ASSUME frames # <<>>, NEW op \in SetsTo(Len(Last(frames).match) - 1)
             PROVE  Last(frames).sets[op.id] = Candidates(op, Last(frames).match)
  BY DEF SetsAsPlanned
<1> DEFINE n == Len(frames)
<1>1. frames \in Seq(ToSet(frames)) /\ \A k \in 1..n : FrameRight(frames[k], k)
  BY DEF LoopInv, FramesInv, Nest
<1>2. n \in 1..n /\ Last(frames) = frames[n]
  BY <1>1 DEF Last
<1>3. FrameRight(Last(frames), n)
  BY <1>1, <1>2
<1> HIDE DEF n
<1>4. Len(Last(frames).match) = n
  BY <1>3 DEF FrameRight
<1>5. op \in SetsTo(n - 1) /\ op.id \in IdsTo(n - 1)
  BY <1>4 DEF IdsTo
<1> QED BY <1>3, <1>5 DEF FrameRight, SetsRight

\* Whatever the data graph: if the statements of each loop are in order and bounded rows
\* are read by bounded operations only, then in every iteration of every loop every set in
\* scope is the set its operation stands for.
THEOREM SetsInOrderCorrect ==
  Spec /\ []InOrder /\ []BoundedRowsSuffice => []SetsAsPlanned
<1>1. LoopInit => LoopInv
  BY LoopInitially
<1>2. LoopInv /\ PlanOK /\ [Next]_vars => LoopInv'
  BY LoopStep
<1>3. LoopInv => SetsAsPlanned
  BY ScopeAsPlanned
<1>4. InOrder /\ BoundedRowsSuffice => PlanOK
  BY DEF PlanOK
<1> QED BY <1>1, <1>2, <1>3, <1>4, PTL DEF Spec

\* Whatever the input and the data graph: if operator< is a strict weak order wherever more
\* than two operations are sorted with it, and bounded rows are read by bounded operations
\* only, then in every iteration of every loop every set in scope is the set its operation
\* stands for (codegen.cpp, create_plan to gen_code_mg_build, and backend/vertex_set.h and
\* backend/minigraph.h as the generated code uses them).
THEOREM SetsCorrect ==
  ASSUME InputsOrderly
  PROVE  Spec /\ []BoundedRowsSuffice => []SetsAsPlanned
<1>1. Spec => []InOrder
  BY OperandsOrdered
<1>2. Spec /\ []InOrder /\ []BoundedRowsSuffice => []SetsAsPlanned
  BY SetsInOrderCorrect
<1> QED BY <1>1, <1>2, PTL

(***************************************************************************)
(* Folds over a finite set.                                                *)
(***************************************************************************)
\* Induction on finite sets, with a set of sets in place of a predicate.
LEMMA SubsetInduction ==
  ASSUME NEW S, IsFiniteSet(S), NEW G,
         \A T \in SUBSET S : (\A U \in SUBSET T : U # T => U \in G) => T \in G
  PROVE  \A T \in SUBSET S : T \in G
<1> SUFFICES ASSUME NEW B \in SUBSET S, B \notin G PROVE FALSE
  OBVIOUS
<1> DEFINE Bad == {T \in SUBSET S : T \notin G}
<1>1. Bad \subseteq FiniteSubsetsOf(S) /\ Bad # {}
  BY FS_Subset DEF FiniteSubsetsOf
<1>2. \E T \in Bad : \A U \in Bad : ~(<<U, T>> \in StrictSubsetOrdering(S))
  <2> HIDE DEF Bad
  <2> QED BY <1>1, WFMin, FS_StrictSubsetOrderingWellFounded
<1>3. PICK T \in Bad : \A U \in Bad : ~(<<U, T>> \in StrictSubsetOrdering(S))
  BY <1>2
<1>4. \A U \in SUBSET T : U # T => U \in G
  BY <1>3 DEF StrictSubsetOrdering
<1> QED BY <1>3, <1>4

Picked(s) == CHOOSE x \in s : TRUE

\* A chosen element is one.
LEMMA PickedIn == \A s : s # {} => Picked(s) \in s
BY DEF Picked

\* g is a solution of the recursion on the sets of D, with F for one more element.
IsSetFold(g, F, base, D) ==
  g = [s \in D |-> IF s = {} THEN base ELSE F[<<Picked(s), g[s \ {Picked(s)}]>>]]

SetFold(F, base, S) == (CHOOSE g : IsSetFold(g, F, base, SUBSET S))[S]

\* A solution on fewer sets agrees with one on more.
LEMMA SetFoldsAgree ==
  ASSUME NEW F, NEW base, NEW V, NEW W, W \subseteq V, IsFiniteSet(W), NEW g, NEW h,
         IsSetFold(g, F, base, SUBSET V), IsSetFold(h, F, base, SUBSET W)
  PROVE  h[W] = g[W]
<1> DEFINE Equal == {t \in SUBSET W : g[t] = h[t]}
<1>1. ASSUME NEW T \in SUBSET W, \A U \in SUBSET T : U # T => U \in Equal
      PROVE  T \in Equal
  <2> DEFINE U == T \ {Picked(T)}
  <2>1. g[T] = IF T = {} THEN base ELSE F[<<Picked(T), g[U]>>]
    <3>1. T \in SUBSET V
      OBVIOUS
    <3> QED BY <3>1 DEF IsSetFold
  <2>2. h[T] = IF T = {} THEN base ELSE F[<<Picked(T), h[U]>>]
    BY DEF IsSetFold
  <2>3. T # {} => g[U] = h[U]
    BY <1>1, PickedIn
  <2> QED BY <2>1, <2>2, <2>3
<1>2. \A T \in SUBSET W : T \in Equal
  <2> HIDE DEF Equal
  <2> QED BY <1>1, SubsetInduction
<1> QED BY <1>2

\* The recursion, where it has solutions.
LEMMA SetFoldUnfold ==
  ASSUME NEW F, NEW base, NEW S, IsFiniteSet(S),
         \E g : IsSetFold(g, F, base, SUBSET S),
         \E h : IsSetFold(h, F, base, SUBSET (S \ {Picked(S)}))
  PROVE  SetFold(F, base, S) =
           IF S = {} THEN base ELSE F[<<Picked(S), SetFold(F, base, S \ {Picked(S)})>>]
<1> DEFINE g == CHOOSE g : IsSetFold(g, F, base, SUBSET S)
           W == S \ {Picked(S)}
           h == CHOOSE h : IsSetFold(h, F, base, SUBSET W)
<1>1. IsSetFold(g, F, base, SUBSET S) /\ SetFold(F, base, S) = g[S]
  BY DEF SetFold
<1>2. W \subseteq S /\ IsFiniteSet(W)
  BY FS_Subset
<1>3. IsSetFold(h, F, base, SUBSET W) /\ SetFold(F, base, W) = h[W]
  BY DEF SetFold
<1> HIDE DEF g, h, W
<1>4. h[W] = g[W]
  BY <1>1, <1>2, <1>3, SetFoldsAgree
<1>5. g[S] = IF S = {} THEN base ELSE F[<<Picked(S), g[W]>>]
  <2>1. S \in SUBSET S
    OBVIOUS
  <2> QED BY <1>1, <2>1 DEF IsSetFold, W
<1> QED BY <1>1, <1>3, <1>4, <1>5 DEF W

\* The recursion has a solution on the subsets of a finite set.
LEMMA SetFoldExists ==
  ASSUME NEW F, NEW base, NEW S, IsFiniteSet(S)
  PROVE  \E g : IsSetFold(g, F, base, SUBSET S)
<1> DEFINE Solved == {t \in SUBSET S : \E g : IsSetFold(g, F, base, SUBSET t)}
<1>1. ASSUME NEW T \in SUBSET S, \A U \in SUBSET T : U # T => U \in Solved
      PROVE  T \in Solved
  <2> DEFINE G == [s \in SUBSET T |->
                     IF s = {} THEN base
                     ELSE F[<<Picked(s), SetFold(F, base, s \ {Picked(s)})>>]]
  <2>1. ASSUME NEW V \in SUBSET T, V # T
        PROVE  SetFold(F, base, V) =
                 IF V = {} THEN base
                 ELSE F[<<Picked(V), SetFold(F, base, V \ {Picked(V)})>>]
    <3> DEFINE W == V \ {Picked(V)}
    <3>1. W \in SUBSET T /\ W # T /\ IsFiniteSet(V)
      BY <2>1, FS_Subset
    <3>2. (\E g : IsSetFold(g, F, base, SUBSET V)) /\ (\E h : IsSetFold(h, F, base, SUBSET W))
      BY <1>1, <2>1, <3>1
    <3> QED BY <3>1, <3>2, SetFoldUnfold
  <2>2. ASSUME NEW s \in SUBSET T, s # {}
        PROVE  SetFold(F, base, s \ {Picked(s)}) = G[s \ {Picked(s)}]
    <3>1. s \ {Picked(s)} \in SUBSET T /\ s \ {Picked(s)} # T
      BY <2>2, PickedIn
    <3> QED BY <2>1, <3>1
  <2>3. IsSetFold(G, F, base, SUBSET T)
    BY <2>2 DEF IsSetFold
  <2> HIDE DEF G
  <2> QED BY <2>3
<1>2. \A T \in SUBSET S : T \in Solved
  <2> HIDE DEF Solved
  <2> QED BY <1>1, SubsetInduction
<1> QED BY <1>2

\* A fold of integers by a function that gives integers.
LEMMA SetFoldOfInt ==
  ASSUME NEW S, IsFiniteSet(S), NEW base \in Int, NEW F \in [S \X Int -> Int]
  PROVE  \E g \in [SUBSET S -> Int] : IsSetFold(g, F, base, SUBSET S)
<1>1. PICK g : IsSetFold(g, F, base, SUBSET S)
  BY SetFoldExists
<1> DEFINE G == {t \in SUBSET S : g[t] \in Int}
<1>2. ASSUME NEW T \in SUBSET S, \A U \in SUBSET T : U # T => U \in G
      PROVE  T \in G
  <2>1. g[T] = IF T = {} THEN base ELSE F[<<Picked(T), g[T \ {Picked(T)}]>>]
    BY <1>1 DEF IsSetFold
  <2>2. CASE T = {}
    BY <2>1, <2>2
  <2>3. CASE T # {}
    <3>1. T \ {Picked(T)} \in SUBSET T /\ T \ {Picked(T)} # T /\ Picked(T) \in S
      BY <2>3, PickedIn
    <3>2. g[T \ {Picked(T)}] \in Int
      BY <1>2, <3>1
    <3> QED BY <2>1, <2>3, <3>1, <3>2
  <2> QED BY <2>2, <2>3
<1>3. \A T \in SUBSET S : g[T] \in Int
  <2>1. \A T \in SUBSET S : T \in G
    <3> HIDE DEF G
    <3> QED BY <1>2, SubsetInduction
  <2> QED BY <2>1
<1>4. g = [s \in SUBSET S |-> g[s]]
  BY <1>1 DEF IsSetFold
<1>5. g \in [SUBSET S -> Int]
  BY <1>3, <1>4
<1> QED BY <1>1, <1>5

(***************************************************************************)
(* Inclusion-exclusion adds up integers.                                   *)
(***************************************************************************)
CommonTo(f, part) == {x \in DOMAIN graph : \A k \in part : x \in f.sets[code.iep[k]]}

ProductOf(f, parts) ==
  FoldSet(LAMBDA part, n : n * Cardinality(CommonTo(f, part)), 1, parts)

IsProduct(g, f, D) ==
  g = [s \in D |-> IF s = {} THEN 1
                   ELSE g[s \ {Picked(s)}] * Cardinality(CommonTo(f, Picked(s)))]

IsTotal(g, f, D) ==
  g = [s \in D |-> IF s = {} THEN 0
                   ELSE Picked(s).val * ProductOf(f, Picked(s).parts) + g[s \ {Picked(s)}]]

\* The product of one group can be computed.
LEMMA ProductExists ==
  ASSUME GraphOK, NEW f, NEW S, IsFiniteSet(S)
  PROVE  \E h : IsProduct(h, f, SUBSET S)
<1> DEFINE F == [p \in S \X Int |-> p[2] * Cardinality(CommonTo(f, p[1]))]
<1>1. \A part : Cardinality(CommonTo(f, part)) \in Nat
  <2>1. \A part : CommonTo(f, part) \in SUBSET DOMAIN graph
    BY DEF CommonTo
  <2> QED BY <2>1, GraphFacts, FS_CardinalityType
<1>2. F \in [S \X Int -> Int]
  BY <1>1
<1>3. \A x \in S : \A n \in Int : F[<<x, n>>] = n * Cardinality(CommonTo(f, x))
  OBVIOUS
<1> HIDE DEF F
<1>4. PICK g \in [SUBSET S -> Int] : IsSetFold(g, F, 1, SUBSET S)
  <2>1. 1 \in Int
    OBVIOUS
  <2> QED BY <1>2, <2>1, SetFoldOfInt, Zenon
<1>5. ASSUME NEW s \in SUBSET S, s # {}
      PROVE  F[<<Picked(s), g[s \ {Picked(s)}]>>] =
               g[s \ {Picked(s)}] * Cardinality(CommonTo(f, Picked(s)))
  <2>1. Picked(s) \in S /\ s \ {Picked(s)} \in SUBSET S
    BY <1>5, PickedIn
  <2> QED BY <1>3, <1>4, <2>1
<1>6. g = [s \in SUBSET S |-> IF s = {} THEN 1 ELSE F[<<Picked(s), g[s \ {Picked(s)}]>>]]
  BY <1>4 DEF IsSetFold
<1>7. \A s \in SUBSET S :
        g[s] = IF s = {} THEN 1
               ELSE g[s \ {Picked(s)}] * Cardinality(CommonTo(f, Picked(s)))
  BY <1>5, <1>6
<1>8. IsProduct(g, f, SUBSET S)
  BY <1>4, <1>7 DEF IsProduct
<1> QED BY <1>8

\* It is a number.
LEMMA ProductInt ==
  ASSUME GraphOK, NEW f, NEW S, IsFiniteSet(S)
  PROVE  ProductOf(f, S) \in Int
<1> DEFINE h == CHOOSE h : IsProduct(h, f, SUBSET S)
<1>1. \A part : Cardinality(CommonTo(f, part)) \in Nat
  <2>1. \A part : CommonTo(f, part) \in SUBSET DOMAIN graph
    BY DEF CommonTo
  <2> QED BY <2>1, GraphFacts, FS_CardinalityType
<1>2. IsProduct(h, f, SUBSET S)
  BY ProductExists
<1>3. ProductOf(f, S) = h[S]
  BY DEF ProductOf, FoldSet, MapThenFoldSet, IsProduct, Picked
<1> HIDE DEF h
<1> DEFINE G == {t \in SUBSET S : h[t] \in Int}
<1>4. ASSUME NEW T \in SUBSET S, \A U \in SUBSET T : U # T => U \in G
      PROVE  T \in G
  <2>1. h[T] = IF T = {} THEN 1
               ELSE h[T \ {Picked(T)}] * Cardinality(CommonTo(f, Picked(T)))
    BY <1>2 DEF IsProduct
  <2>2. T # {} => h[T \ {Picked(T)}] \in Int
    BY <1>4, PickedIn
  <2> QED BY <1>1, <2>1, <2>2
<1>5. \A T \in SUBSET S : T \in G
  <2> HIDE DEF G
  <2> QED BY <1>4, SubsetInduction
<1> QED BY <1>3, <1>5

\* What a body adds by inclusion-exclusion.
LEMMA InclusionInt ==
  ASSUME GraphOK, input \in Inputs, NEW f
  PROVE  Inclusion(f) \in Int
<1> DEFINE S == input.iep.groups
           F == [p \in S \X Int |-> p[1].val * ProductOf(f, p[1].parts) + p[2]]
<1>1. IsFiniteSet(S) /\ \A x \in S : x.val \in Int /\ ProductOf(f, x.parts) \in Int
  BY PlanAssumption, ProductInt
<1>2. \A x \in S : x.val * ProductOf(f, x.parts) \in Int
  BY <1>1
<1> HIDE DEF S
<1>3. F \in [S \X Int -> Int]
  BY <1>2
<1>4. \A x \in S : \A n \in Int : F[<<x, n>>] = x.val * ProductOf(f, x.parts) + n
  OBVIOUS
<1> HIDE DEF F
<1>5. PICK g \in [SUBSET S -> Int] : IsSetFold(g, F, 0, SUBSET S)
  <2>1. 0 \in Int
    OBVIOUS
  <2> QED BY <1>1, <1>3, <2>1, SetFoldOfInt, Zenon
<1>6. \E h : IsTotal(h, f, SUBSET S)
  <2>1. ASSUME NEW s \in SUBSET S, s # {}
        PROVE  F[<<Picked(s), g[s \ {Picked(s)}]>>] =
                 Picked(s).val * ProductOf(f, Picked(s).parts) + g[s \ {Picked(s)}]
    <3>1. Picked(s) \in S /\ s \ {Picked(s)} \in SUBSET S
      BY <2>1, PickedIn
    <3> QED BY <1>4, <1>5, <3>1
  <2>2. g = [s \in SUBSET S |-> IF s = {} THEN 0 ELSE F[<<Picked(s), g[s \ {Picked(s)}]>>]]
    BY <1>5 DEF IsSetFold
  <2>3. \A s \in SUBSET S :
          g[s] = IF s = {} THEN 0
                 ELSE Picked(s).val * ProductOf(f, Picked(s).parts) + g[s \ {Picked(s)}]
    BY <2>1, <2>2
  <2>4. IsTotal(g, f, SUBSET S)
    BY <1>5, <2>3 DEF IsTotal
  <2> QED BY <2>4
<1> DEFINE h == CHOOSE h : IsTotal(h, f, SUBSET S)
<1>7. IsTotal(h, f, SUBSET S)
  BY <1>6
<1>8. Inclusion(f) = h[S]
  BY DEF Inclusion, MapThenSumSet, MapThenFoldSet, IsTotal, ProductOf, CommonTo, Picked, S
<1> HIDE DEF h
<1> DEFINE G == {t \in SUBSET S : h[t] \in Int}
<1>9. ASSUME NEW T \in SUBSET S, \A U \in SUBSET T : U # T => U \in G
      PROVE  T \in G
  <2>1. h[T] = IF T = {} THEN 0
               ELSE Picked(T).val * ProductOf(f, Picked(T).parts) + h[T \ {Picked(T)}]
    BY <1>7 DEF IsTotal
  <2>2. T # {} => h[T \ {Picked(T)}] \in Int /\ Picked(T) \in S
    BY <1>9, PickedIn
  <2> QED BY <1>2, <2>1, <2>2
<1>10. \A T \in SUBSET S : T \in G
  <2> HIDE DEF G
  <2> QED BY <1>1, <1>9, SubsetInduction
<1> QED BY <1>8, <1>10


(***************************************************************************)
(* What the statements of a body add to the counter.                       *)
(***************************************************************************)
\* A set statement adds the size of its set or declares the set.
LEMMA ExecuteCounts ==
  ASSUME NEW f, Working(f), NEW s, NEW read
  PROVE  /\ f.left => Execute(f, s, read) = f
         /\ ~f.left /\ Execute(f, s, read).left => Value(s, f, read) = {}
         /\ ~f.left /\ s.counts =>
              /\ Execute(f, s, read).sets = f.sets
              /\ Execute(f, s, read).count = f.count + Cardinality(Value(s, f, read))
         /\ ~f.left /\ ~s.counts => Execute(f, s, read).count = f.count
<1> DEFINE sets == IF s.counts THEN f.sets ELSE With(f.sets, s.op.id, Value(s, f, read))
           count == IF s.counts THEN f.count + Cardinality(Value(s, f, read)) ELSE f.count
           left == s.skips /\ Value(s, f, read) = {}
           g == [f EXCEPT !.sets = sets, !.count = count, !.left = left]
<1>1. CASE f.left
  BY <1>1 DEF Execute
<1>2. CASE ~f.left
  <2>1. Execute(f, s, read) = g
    BY <1>2 DEF Execute
  <2>2. /\ s.counts => sets = f.sets /\ count = f.count + Cardinality(Value(s, f, read))
        /\ ~s.counts => count = f.count
        /\ left => Value(s, f, read) = {}
    OBVIOUS
  <2> HIDE DEF sets, count, left
  <2> DEFINE f1 == [f EXCEPT !.sets = sets]
             f2 == [f1 EXCEPT !.count = count]
             f3 == [f2 EXCEPT !.left = left]
  <2>3. f1 = [match |-> f.match, sets |-> sets, rows |-> f.rows, done |-> f.done,
              count |-> f.count, left |-> f.left]
    BY DEF Working
  <2> HIDE DEF f1
  <2>4. f2 = [match |-> f.match, sets |-> sets, rows |-> f.rows, done |-> f.done,
              count |-> count, left |-> f.left]
    BY <2>3
  <2> HIDE DEF f2
  <2>5. f3 = [match |-> f.match, sets |-> sets, rows |-> f.rows, done |-> f.done,
              count |-> count, left |-> left]
    BY <2>4
  <2>6. g = f3
    BY DEF f1, f2
  <2> HIDE DEF f3, g
  <2>7. g.sets = sets /\ g.count = count /\ g.left = left
    BY <2>5, <2>6
  <2> QED BY <1>2, <2>1, <2>2, <2>7
<1> QED BY <1>1, <1>2

\* The operand of a statement is declared: no statement before it that declares it counts.
LEMMA OperandDeclared ==
  ASSUME Ready, NEW d \in Bodies, NEW j \in 1..Len(code.sets[d]),
         code.sets[d][j].form # "chain"
  PROVE  code.sets[d][j].from \in
           IdsTo(d - 1) \union
           {code.sets[d][i].op.id : i \in {k \in 1..(j - 1) : ~code.sets[d][k].counts}}
<1> DEFINE s == code.sets[d][j]
           n == Len(code.sets[d])
<1>1. /\ OperandsDeclared /\ Generated /\ PlanTypeOK /\ d \in Loops /\ d \in Nat
      /\ \A e \in 0..(d - 1) : e \in Bodies
  BY LoopFacts DEF Ready, Bodies
<1>2. DOMAIN code.sets[d] = 1..n /\ n \in Nat
  BY StatementFacts
<1>3. s.from \in SetsDeclared(d, j)
  BY <1>1, <1>2 DEF OperandsDeclared
<1>4. PICK t \in Before(d, j) : t.op.id = s.from /\ ~t.counts
  BY <1>3 DEF SetsDeclared
<1>5. CASE t \in UNION {ToSet(code.sets[e]) : e \in 0..(d - 1)}
  <2>1. PICK e \in 0..(d - 1) : t \in ToSet(code.sets[e])
    BY <1>5
  <2>2. e \in Bodies
    BY <1>1
  <2>3. PICK i \in 1..Len(code.sets[e]) : t = code.sets[e][i]
    BY <2>1, <2>2, StatementFacts DEF ToSet
  <2>4. t.op \in ToSet(set_ops[e])
    BY <2>2, <2>3, StatementFacts
  <2>5. t.op \in SetsTo(d - 1)
    BY <2>4 DEF SetsTo
  <2> QED BY <1>4, <2>5 DEF IdsTo
<1>6. CASE t \in ToSet(SubSeq(code.sets[d], 1, j - 1))
  <2> DEFINE sub == SubSeq(code.sets[d], 1, j - 1)
  <2>1. sub = [i \in 1..(j - 1) |-> code.sets[d][1 + i - 1]]
    BY <1>2 DEF SubSeq
  <2>2. DOMAIN sub = 1..(j - 1) /\ \A i \in 1..(j - 1) : sub[i] = code.sets[d][i]
    BY <1>2, <2>1
  <2> HIDE DEF sub
  <2>3. PICK i \in 1..(j - 1) : t = code.sets[d][i]
    BY <1>6, <2>2 DEF ToSet, sub
  <2> QED BY <1>4, <2>3
<1> QED BY <1>4, <1>5, <1>6 DEF Before

\* The sets a body declares.
OwnIds(d) ==
  {code.sets[d][i].op.id : i \in {k \in 1..Len(code.sets[d]) : ~code.sets[d][k].counts}}

\* What the statements of a body leave: the sets of its loop, unless one is empty and ends
\* it, and on the counter the size of the set of the last loop, if that has one operation.
After(b, d, start) ==
  /\ Working(b) /\ b.match = start.match /\ b.rows = start.rows /\ b.count \in Nat
  /\ ~b.left => DOMAIN b.sets = IdsTo(d - 1) \union OwnIds(d) /\ SetsRight(b.sets, d, b.match)
  /\ b.left => \E op \in ToSet(set_ops[d]) : Candidates(op, b.match) = {}
  /\ (\A s \in ToSet(code.sets[d]) : ~s.counts) => b.count = 0
  /\ Len(code.sets[d]) = 1 /\ code.sets[d][1].counts =>
       b.count = Cardinality(Candidates(code.sets[d][1].op, b.match))

\* The statements of a body leave that.
LEMMA ExecutedScope ==
  ASSUME Ready, GraphOK, NEW d \in Bodies,
         NEW start, Working(start), ~start.left, start.count = 0,
         start.match \in Seq(DOMAIN graph), Len(start.match) = d + 1,
         DOMAIN start.sets = IdsTo(d - 1), SetsRight(start.sets, d - 1, start.match),
         NEW read,
         \A mg \in MiniGraphsTo(d - 1) : (\E r \in ToSet(code.reads[d]) : r.mg = mg.id) =>
           /\ read[mg.id].vid = Last(start.match)
           /\ Last(start.match) \in Candidates(iter_set[d - 1], start.match)
           /\ RowRight(read[mg.id].ids, mg, start.match, Last(start.match)),
         NEW b, b = Executed(start, code.sets[d], read)
  PROVE  After(b, d, start)
<1> DEFINE sts == code.sets[d]
           n == Len(code.sets[d])
           match == start.match
<1>1. /\ PlanTypeOK /\ OperandsDeclared /\ Generated /\ d \in Loops /\ d \in Nat
  BY LoopFacts DEF Ready, Bodies
<1>2. /\ n \in Nat /\ n = Len(set_ops[d]) /\ DOMAIN sts = 1..n
      /\ \A i \in 1..n : /\ sts[i] \in ToSet(sts) /\ sts[i].op = set_ops[d][i]
                         /\ sts[i].op \in ToSet(set_ops[d]) /\ Formed(sts[i])
  BY StatementFacts
<1>3. PICK f : /\ f[0] = start
               /\ \A i \in 1..n : f[i] = Execute(f[i - 1], sts[i], read)
               /\ Executed(start, sts, read) = f[n]
  BY <1>2, ExecutedInOrder
<1> DEFINE Own(i) == {sts[j].op.id : j \in {k \in 1..i : ~sts[k].counts}}
           Declared(i) == IdsTo(d - 1) \union Own(i)
           Ended == \E op \in ToSet(set_ops[d]) : Candidates(op, match) = {}
           Size(op) == Cardinality(Candidates(op, match))
           Right(i) ==
             /\ Working(f[i]) /\ f[i].match = match /\ f[i].rows = start.rows
             /\ f[i].count \in Nat
             /\ ~f[i].left => DOMAIN f[i].sets = Declared(i) /\ SetsRight(f[i].sets, d, match)
             /\ f[i].left => Ended
             /\ (\A s \in ToSet(sts) : ~s.counts) => f[i].count = 0
             /\ i = 1 /\ sts[1].counts => f[i].count = Size(sts[1].op)
           S == {i \in 0..n : Right(i)}
<1>4. 0 \in S
  <2>1. Own(0) = {}
    OBVIOUS
  <2>2. SetsRight(start.sets, d, match)
    <3> SUFFICES ASSUME NEW op \in SetsTo(d), op.id \in DOMAIN start.sets
                 PROVE  start.sets[op.id] = Candidates(op, match)
      BY DEF SetsRight
    <3>1. PICK p \in SetsTo(d - 1) : p.id = op.id
      BY DEF IdsTo
    <3>2. p = op
      BY <1>1, <3>1, ScopeGrows, ScopeFacts
    <3> QED BY <3>2 DEF SetsRight
  <2> HIDE DEF Own, Ended, Size
  <2> QED BY <1>2, <1>3, <2>1, <2>2
<1>5. ASSUME NEW i \in 0..(n - 1), i \in S PROVE i + 1 \in S
  <2> DEFINE g == f[i]
             h == f[i + 1]
             s == sts[i + 1]
  <2>1. i \in Nat /\ i + 1 \in 1..n /\ i + 1 \in 0..n /\ (i + 1) - 1 = i
    BY <1>2
  <2>2. h = Execute(g, s, read)
    BY <1>3, <2>1
  <2>3. Right(i)
    BY <1>5
  <2>4. /\ s \in ToSet(sts) /\ s.op \in ToSet(set_ops[d]) /\ Formed(s)
        /\ s.op.dep = d /\ s.op \in SetsTo(d)
    BY <1>1, <1>2, <2>1, OpsFacts, ScopeGrows
  <2>5. Own(i + 1) = IF s.counts THEN Own(i) ELSE Own(i) \union {s.op.id}
    <3>1. 1..(i + 1) = 1..i \union {i + 1}
      BY <2>1
    <3> QED BY <3>1
  <2>6. /\ Working(h) /\ h.match = match /\ h.rows = start.rows
        /\ ~g.left /\ ~s.counts => h.sets = With(g.sets, s.op.id, Value(s, g, read))
    <3>1. Working(g) /\ g.match = match /\ g.rows = start.rows
      BY <2>3
    <3> HIDE DEF g, h, s
    <3> QED BY <2>2, <3>1, ExecuteFacts
  <2>7. /\ g.left => h = g
        /\ ~g.left /\ h.left => Value(s, g, read) = {}
        /\ ~g.left /\ s.counts =>
             h.sets = g.sets /\ h.count = g.count + Cardinality(Value(s, g, read))
        /\ ~g.left /\ ~s.counts => h.count = g.count
    <3>1. Working(g)
      BY <2>3
    <3> HIDE DEF g, h, s
    <3> QED BY <2>2, <3>1, ExecuteCounts
  <2>8. CASE g.left
    <3>1. h = g
      BY <2>7, <2>8
    <3>2. ~(i + 1 = 1)
      <4>1. i = 0 => ~g.left
        BY <1>3
      <4> QED BY <2>1, <2>8, <4>1
    <3> HIDE DEF Ended, Own, Size
    <3>3. Right(i + 1)
      BY <2>3, <2>8, <3>1, <3>2
    <3> QED BY <2>1, <3>3
  <2>9. CASE ~g.left
    <3>1. DOMAIN g.sets = Declared(i) /\ SetsRight(g.sets, d, match) /\ g.match = match
      <4> HIDE DEF Ended, Own, Size
      <4> QED BY <2>3, <2>9
    <3>2. s.form # "chain" => s.from \in DOMAIN g.sets
      <4>1. i + 1 \in 1..Len(code.sets[d])
        BY <2>1
      <4>2. s.form # "chain" =>
              s.from \in IdsTo(d - 1) \union
                {code.sets[d][j].op.id :
                   j \in {k \in 1..((i + 1) - 1) : ~code.sets[d][k].counts}}
        BY <4>1, OperandDeclared
      <4> QED BY <2>1, <3>1, <4>2
    <3>3. \A mg \in MiniGraphsTo(d - 1) : mg.id = s.row =>
            /\ read[s.row].vid = Last(match) /\ Last(match) \in Candidates(iter_set[d - 1], match)
            /\ RowRight(read[s.row].ids, mg, match, Last(match))
      <4> SUFFICES ASSUME NEW mg \in MiniGraphsTo(d - 1), mg.id = s.row
                   PROVE  \E r \in ToSet(code.reads[d]) : r.mg = mg.id
        OBVIOUS
      <4>1. s.row # None.id
        <5>1. d - 1 \in Loops \/ d - 1 = -1
          BY <1>1, LoopFacts DEF Loops
        <5>2. mg.id \in Nat
          BY <1>1, <5>1, MiniGraphFacts
        <5> QED BY <5>2 DEF None
      <4>2. i + 1 \in DOMAIN code.sets[d]
        BY <1>2, <2>1
      <4>3. s.row # None.id => \E r \in ToSet(code.reads[d]) : r.mg = s.row
        BY <1>1, <4>2 DEF OperandsDeclared
      <4> QED BY <4>1, <4>3
    <3>4. Value(s, g, read) = Candidates(s.op, match)
      <4> HIDE DEF g, s, match
      <4>1. /\ g.match \in Seq(DOMAIN graph) /\ Len(g.match) = d + 1
            /\ SetsRight(g.sets, d, g.match)
        BY <3>1 DEF match
      <4>2. \A mg \in MiniGraphsTo(d - 1) : mg.id = s.row =>
              /\ read[s.row].vid = Last(g.match)
              /\ Last(g.match) \in Candidates(iter_set[d - 1], g.match)
              /\ RowRight(read[s.row].ids, mg, g.match, Last(g.match))
        BY <3>1, <3>3
      <4>3. Value(s, g, read) = Candidates(s.op, g.match)
        BY <2>4, <3>2, <4>1, <4>2, ValueRight
      <4> QED BY <3>1, <4>3
    <3>5. Size(s.op) \in Nat
      <4>1. Candidates(s.op, match) \in SUBSET DOMAIN graph
        BY DEF Candidates
      <4> QED BY <4>1, GraphFacts, FS_CardinalityType
    <3>6. h.left => Ended
      BY <2>4, <2>7, <2>9, <3>4
    <3>7. /\ h.count = IF s.counts THEN g.count + Size(s.op) ELSE g.count
          /\ s.counts => h.sets = g.sets
      BY <2>7, <2>9, <3>4
    <3>8. h.count \in Nat /\ ((\A t \in ToSet(sts) : ~t.counts) => h.count = 0)
      <4>1. g.count \in Nat /\ ((\A t \in ToSet(sts) : ~t.counts) => g.count = 0)
        <5> HIDE DEF Own, Ended, Size
        <5> QED BY <2>3
      <4> HIDE DEF g, h, Size
      <4> QED BY <2>4, <3>5, <3>7, <4>1
    <3>9. i + 1 = 1 /\ sts[1].counts => h.count = Size(sts[1].op)
      <4> SUFFICES ASSUME i + 1 = 1, sts[1].counts PROVE h.count = Size(sts[1].op)
        OBVIOUS
      <4>1. i = 0 /\ g.count = 0 /\ s = sts[1]
        BY <1>3, <2>1
      <4> HIDE DEF g, h, Size
      <4> QED BY <3>5, <3>7, <4>1
    <3>10. ASSUME ~h.left, s.counts
           PROVE  DOMAIN h.sets = Declared(i + 1) /\ SetsRight(h.sets, d, match)
      <4> HIDE DEF Own
      <4> QED BY <2>5, <3>1, <3>7, <3>10
    <3>11. ASSUME ~h.left, ~s.counts
           PROVE  DOMAIN h.sets = Declared(i + 1) /\ SetsRight(h.sets, d, match)
      <4> DEFINE id == s.op.id
                 new == With(g.sets, id, Value(s, g, read))
      <4>1. /\ DOMAIN new = DOMAIN g.sets \union {id}
            /\ \A z \in DOMAIN g.sets : new[z] = g.sets[z]
            /\ id \notin DOMAIN g.sets => new[id] = Candidates(s.op, match)
        <5>1. /\ DOMAIN new = DOMAIN g.sets \union {id}
              /\ \A z \in DOMAIN g.sets : new[z] = g.sets[z]
              /\ id \notin DOMAIN g.sets => new[id] = Value(s, g, read)
          <6> HIDE DEF g, s, id
          <6> QED BY WithFacts
        <5> HIDE DEF new, g, s, id
        <5> QED BY <3>4, <5>1
      <4>2. h.sets = new
        BY <2>6, <2>9, <3>11
      <4> HIDE DEF new
      <4>3. DOMAIN new = Declared(i + 1)
        <5>1. Declared(i + 1) = Declared(i) \union {id}
          <6> HIDE DEF Own
          <6> QED BY <2>5, <3>11
        <5> HIDE DEF Declared, id
        <5> QED BY <3>1, <4>1, <5>1
      <4>4. SetsRight(new, d, match)
        <5> SUFFICES ASSUME NEW op \in SetsTo(d), op.id \in DOMAIN new
                     PROVE  new[op.id] = Candidates(op, match)
          BY DEF SetsRight
        <5>1. CASE op.id \in DOMAIN g.sets
          BY <3>1, <4>1, <5>1 DEF SetsRight
        <5>2. CASE op.id \notin DOMAIN g.sets
          <6>1. op.id = s.op.id
            BY <4>1, <5>2
          <6>2. op = s.op
            BY <1>1, <2>4, <6>1, ScopeFacts
          <6> HIDE DEF g, s
          <6> QED BY <4>1, <5>2, <6>1, <6>2
        <5> QED BY <5>1, <5>2
      <4> QED BY <4>2, <4>3, <4>4
    <3>12. Right(i + 1)
      <4> HIDE DEF Declared, Ended, Size, g, s
      <4> QED BY <2>6, <3>6, <3>8, <3>9, <3>10, <3>11
    <3> QED BY <2>1, <3>12
  <2> QED BY <2>8, <2>9
<1>6. n \in S
  <2> HIDE DEF S
  <2>1. 0..n \subseteq S
    BY <1>2, <1>4, <1>5, UpTo
  <2> QED BY <1>2, <2>1
<1>7. Right(n) /\ b = f[n]
  BY <1>3, <1>6
<1>8. Own(n) = OwnIds(d)
  BY DEF OwnIds
<1> HIDE DEF Own
<1> QED BY <1>7, <1>8 DEF After

\* Building mini graphs does not count.
LEMMA BuiltFacts ==
  ASSUME NEW start, Working(start), NEW builds, Len(builds) \in Nat
  PROVE  /\ Working(Built(start, builds)) /\ Built(start, builds).match = start.match
         /\ Built(start, builds).left = start.left /\ Built(start, builds).count = start.count
<1> DEFINE n == Len(builds)
<1>1. PICK f : /\ f[0] = start
               /\ \A k \in 1..n : f[k] = Add(f[k - 1], builds[k])
               /\ Built(start, builds) = f[n]
  BY BuiltInOrder
<1> DEFINE Same1(i) == /\ Working(f[i]) /\ f[i].match = start.match
                       /\ f[i].left = start.left /\ f[i].count = start.count
           S == {i \in 0..n : Same1(i)}
<1>2. 0 \in S
  BY <1>1
<1>3. ASSUME NEW i \in 0..(n - 1), i \in S PROVE i + 1 \in S
  <2>1. i + 1 \in 1..n /\ i + 1 \in 0..n /\ (i + 1) - 1 = i
    OBVIOUS
  <2>2. f[i + 1] = Add(f[i], builds[i + 1])
    BY <1>1, <2>1
  <2>3. Same1(i)
    BY <1>3
  <2> DEFINE g == f[i]
             h == f[i + 1]
  <2>4. /\ Working(h) /\ h.match = start.match
        /\ h.left = start.left /\ h.count = start.count
    <3>1. /\ Working(g) /\ g.match = start.match
          /\ g.left = start.left /\ g.count = start.count
      BY <2>3
    <3>2. h = Add(g, builds[i + 1])
      BY <2>2
    <3> HIDE DEF g, h
    <3> QED BY <3>1, <3>2, AddFacts
  <2> QED BY <2>1, <2>4
<1>4. n \in S
  <2> HIDE DEF S
  <2>1. 0..n \subseteq S
    BY <1>2, <1>3, UpTo
  <2> QED BY <2>1
<1>5. Same1(n)
  BY <1>4
<1> QED BY <1>1, <1>5

\* A count that inclusion-exclusion makes from the sets of loop d.
Included(b, d) ==
  \E e : /\ DOMAIN e.sets = IdsTo(d - 1) \union OwnIds(d) /\ SetsRight(e.sets, d, b.match)
         /\ b.count = Inclusion(e)

\* What a body adds to the counter.  It ends early only where a later vertex has no
\* candidates.
LEMMA BodyCounts ==
  ASSUME Ready, GraphOK, input \in Inputs, NEW d \in Bodies, NEW outer, FrameRight(outer, d),
         NEW k, NEW v \in DOMAIN graph,
         d # 0 => /\ k \in 1..Len(Ascending(outer.sets[iter_set[d - 1].id]))
                  /\ v = Ascending(outer.sets[iter_set[d - 1].id])[k],
         NEW b, b = Body(d, outer, v, k)
  PROVE  /\ b.match = Append(outer.match, v) /\ b.count \in Int
         /\ b.left => \E op \in ToSet(set_ops[d]) : Candidates(op, b.match) = {}
         /\ (d # LastLoop \/ b.left) /\ (\A s \in ToSet(code.sets[d]) : ~s.counts) => b.count = 0
         /\ iep_num <= 1 /\ Len(code.sets[d]) = 1 /\ code.sets[d][1].counts =>
              b.count = Cardinality(Candidates(code.sets[d][1].op, b.match))
         /\ d = LastLoop /\ iep_num > 1 /\ (\A s \in ToSet(code.sets[d]) : ~s.counts) /\ ~b.left =>
              Included(b, d)
<1> DEFINE start == [match |-> Append(outer.match, v), sets |-> outer.sets, rows |-> outer.rows,
                     done |-> 0, count |-> 0, left |-> FALSE]
           read == RowsRead(d, start, k)
           e == Executed(start, code.sets[d], read)
           w == Built(e, code.builds[d])
           x == [e EXCEPT !.count = @ + Inclusion(e)]
           match == Append(outer.match, v)
<1>1. /\ PlanTypeOK /\ phase # "create_plan" /\ d \in Loops /\ d \in Nat
      /\ d - 1 \in Loops \/ d = 0
  BY LoopFacts DEF Ready, Loops, Generated
<1>2. b = IF e.left THEN e ELSE IF d = LastLoop THEN IF iep_num > 1 THEN x ELSE e ELSE w
  BY DEF Body
<1>3. /\ Working(start) /\ ~start.left /\ start.match = match /\ start.count = 0
      /\ start.sets = outer.sets /\ start.rows = outer.rows
  BY DEF Working
<1>4. /\ outer.match \in Seq(DOMAIN graph) /\ Len(outer.match) = d
      /\ DOMAIN outer.sets = IdsTo(d - 1) /\ SetsRight(outer.sets, d - 1, outer.match)
      /\ DOMAIN outer.rows = GraphIdsTo(d - 1) /\ RowsRight(outer.rows, d - 1, outer.match)
  BY DEF FrameRight
<1>5. match \in Seq(DOMAIN graph) /\ Len(match) = d + 1 /\ Last(match) = v
  BY <1>1, <1>4 DEF Last
<1> HIDE DEF start, match, e, w, x
<1>6. SetsRight(outer.sets, d - 1, match)
  <2>1. CASE d = 0
    <3>1. 0..(d - 1) = {}
      BY <2>1
    <3> QED BY <3>1 DEF SetsRight, SetsTo
  <2>2. CASE d # 0
    <3>1. d - 1 \in Loops /\ Len(outer.match) = (d - 1) + 1
      BY <1>1, <1>4, <2>2
    <3> QED BY <1>1, <1>4, <3>1, ScopeStays DEF match
  <2> QED BY <2>1, <2>2
<1>7. ASSUME NEW mg \in MiniGraphsTo(d - 1), \E r \in ToSet(code.reads[d]) : r.mg = mg.id
      PROVE  /\ read[mg.id].vid = Last(match) /\ Last(match) \in Candidates(iter_set[d - 1], match)
             /\ RowRight(read[mg.id].ids, mg, match, Last(match))
  <2>1. d # 0
    <3>1. d = 0 => 0..(d - 1) = {}
      OBVIOUS
    <3> QED BY <3>1 DEF MiniGraphsTo
  <2>2. start.match = Append(outer.match, v) /\ start.rows = outer.rows
    BY <1>3 DEF match
  <2> HIDE DEF read
  <2>3. /\ read[mg.id].vid = v /\ v \in Candidates(iter_set[d - 1], start.match)
        /\ RowRight(read[mg.id].ids, mg, start.match, v)
    BY <1>7, <2>1, <2>2, ReadRight DEF read
  <2> QED BY <1>3, <1>5, <2>3
<1> HIDE DEF read
<1> DEFINE Ended == \E op \in ToSet(set_ops[d]) : Candidates(op, match) = {}
           Uncounted == \A s \in ToSet(code.sets[d]) : ~s.counts
           Alone == Len(code.sets[d]) = 1 /\ code.sets[d][1].counts
           Size == Cardinality(Candidates(code.sets[d][1].op, match))
           Scope == DOMAIN e.sets = IdsTo(d - 1) \union OwnIds(d) /\ SetsRight(e.sets, d, match)
<1>8. /\ Working(e) /\ e.match = match /\ e.count \in Nat /\ (e.left => Ended)
      /\ (Uncounted => e.count = 0) /\ (Alone => e.count = Size) /\ (~e.left => Scope)
  <2>1. /\ Working(start) /\ ~start.left /\ start.count = 0
        /\ start.match \in Seq(DOMAIN graph) /\ Len(start.match) = d + 1
        /\ DOMAIN start.sets = IdsTo(d - 1) /\ SetsRight(start.sets, d - 1, start.match)
    BY <1>3, <1>4, <1>5, <1>6
  <2>2. \A mg \in MiniGraphsTo(d - 1) : (\E r \in ToSet(code.reads[d]) : r.mg = mg.id) =>
          /\ read[mg.id].vid = Last(start.match)
          /\ Last(start.match) \in Candidates(iter_set[d - 1], start.match)
          /\ RowRight(read[mg.id].ids, mg, start.match, Last(start.match))
    BY <1>3, <1>7
  <2>3. e = Executed(start, code.sets[d], read)
    BY DEF e
  <2> HIDE DEF e, Ended, Uncounted, Alone, Size, Scope
  <2>4. After(e, d, start)
    <3>1. Ready /\ GraphOK /\ d \in Bodies
      OBVIOUS
    <3> QED BY ONLY <2>1, <2>2, <2>3, <3>1, ExecutedScope
  <2>5. e.match = match
    BY <1>3, <2>4 DEF After
  <2> QED BY <2>4, <2>5 DEF After, Ended, Uncounted, Alone, Size, Scope
<1> DEFINE Goal == /\ b.match = match /\ b.count \in Int /\ (b.left => Ended)
                   /\ ((d # LastLoop \/ b.left) /\ Uncounted => b.count = 0)
                   /\ (iep_num <= 1 /\ Alone => b.count = Size)
                   /\ (d = LastLoop /\ iep_num > 1 /\ Uncounted /\ ~b.left => Included(b, d))
<1> SUFFICES Goal
  BY DEF match
<1> HIDE DEF Ended, Uncounted, Alone, Size, Scope
<1>9. iep_num \in Int
  BY PlanAssumption DEF iep_num, Scheduled
<1>10. CASE b = e /\ (e.left \/ d # LastLoop \/ ~(iep_num > 1))
  BY <1>8, <1>10
<1>11. CASE ~e.left /\ d # LastLoop /\ b = w
  <2>1. Len(code.builds[d]) \in Nat
    BY <1>11, BuildFacts
  <2>2. w.match = e.match /\ w.left = e.left /\ w.count = e.count
    BY <1>8, <2>1, BuiltFacts DEF w
  <2> QED BY <1>8, <1>11, <2>2
<1>12. CASE ~e.left /\ d = LastLoop /\ iep_num > 1 /\ b = x
  <2> DEFINE n == e.count + Inclusion(e)
  <2>1. x = [e EXCEPT !.count = n]
    BY DEF x
  <2>2. n \in Int
    <3>1. Inclusion(e) \in Int
      BY InclusionInt
    <3> HIDE DEF Inclusion
    <3> QED BY <1>8, <3>1
  <2> HIDE DEF n
  <2>3. x = [match |-> e.match, sets |-> e.sets, rows |-> e.rows, done |-> e.done,
             count |-> n, left |-> e.left]
    BY <1>8, <2>1 DEF Working
  <2>4. x.match = e.match /\ x.count = n /\ x.left = e.left
    BY <2>3
  <2>5. ~(iep_num <= 1)
    BY <1>9, <1>12
  <2>6. Uncounted => Included(b, d)
    <3> SUFFICES ASSUME Uncounted PROVE Included(b, d)
      OBVIOUS
    <3>1. b.count = Inclusion(e)
      <4>1. e.count = 0 /\ Inclusion(e) \in Int
        BY <1>8, InclusionInt
      <4> HIDE DEF Inclusion
      <4> QED BY <1>12, <2>4, <4>1 DEF n
    <3>2. DOMAIN e.sets = IdsTo(d - 1) \union OwnIds(d) /\ SetsRight(e.sets, d, b.match)
      BY <1>8, <1>12, <2>4 DEF Scope
    <3> HIDE DEF Inclusion
    <3> QED BY <3>1, <3>2 DEF Included
  <2> QED BY <1>8, <1>12, <2>2, <2>4, <2>5, <2>6
<1> HIDE DEF Goal
<1> QED BY <1>2, <1>10, <1>11, <1>12

(***************************************************************************)
(* The types of the loops' state.                                          *)
(***************************************************************************)
\* The innermost loop the thread is in iterates over what can match its vertex.
LEMMA InnermostLoop ==
  ASSUME Ready, GraphOK, FramesInv, frames # <<>>, NEW d, d = Len(frames)
  PROVE  LET outer == Last(frames)
             I == Candidates(iter_set[d - 1], outer.match)
         IN /\ d \in Bodies /\ d \in Nat /\ d # 0 /\ outer = frames[d]
            /\ FrameShape(outer) /\ FrameRight(outer, d)
            /\ I \in SUBSET DOMAIN graph /\ outer.sets[iter_set[d - 1].id] = I
            /\ IterateOver(d) = Ascending(I) /\ Len(Ascending(I)) = Cardinality(I)
            /\ Cardinality(I) \in Nat /\ \A i \in 1..Cardinality(I) : Ascending(I)[i] \in I
<1> DEFINE outer == Last(frames)
           iter == iter_set[d - 1]
           I == Candidates(iter, outer.match)
<1>1. LastLoop \in Nat /\ PlanTypeOK /\ phase # "create_plan"
  BY LoopFacts DEF Ready, Generated
<1>2. Nest(frames) /\ frames \in Seq(ToSet(frames)) /\ d <= LastLoop
  BY DEF FramesInv, Nest
<1>3. d \in Nat /\ d >= 1 /\ d \in 1..d
  BY <1>2
<1>4. d \in Bodies /\ d # 0 /\ outer = frames[d]
  BY <1>1, <1>2, <1>3 DEF Bodies, Last
<1>5. FrameShape(outer) /\ FrameRight(outer, d)
  BY <1>2, <1>3, <1>4 DEF Nest
<1>6. I \in SUBSET DOMAIN graph
  BY CandidatesAllowed
<1>7. outer.sets[iter.id] = I
  <2>1. d - 1 \in Loops /\ d - 1 \in 0..(d - 1)
    BY <1>1, <1>3, <1>4, LoopFacts DEF Loops
  <2>2. iter \in SetsTo(d - 1)
    BY <1>1, <2>1, OpsFacts, ScopeFacts
  <2> QED BY <1>5, <2>2 DEF FrameRight, SetsRight, IdsTo
<1> HIDE DEF I
<1>8. I \in SUBSET Nat /\ IsFiniteSet(I)
  BY <1>6, GraphFacts
<1>9. IterateOver(d) = Ascending(I)
  BY <1>7 DEF IterateOver
<1>10. /\ Len(Ascending(I)) = Cardinality(I) /\ Cardinality(I) \in Nat
       /\ \A i \in 1..Cardinality(I) : Ascending(I)[i] \in I
  BY ONLY <1>8, AscendingFacts
<1> QED BY <1>3, <1>4, <1>5, <1>6, <1>7, <1>9, <1>10 DEF I

\* It may have an element left.
LEMMA NextIteration ==
  ASSUME Ready, GraphOK, FramesInv, frames # <<>>,
         NEW d, d = Len(frames), NEW k, k = Last(frames).done + 1, k <= Len(IterateOver(d))
  PROVE  LET I == Candidates(iter_set[d - 1], Last(frames).match)
         IN /\ k \in Nat /\ k \in 1..Cardinality(I)
            /\ Ascending(I)[k] \in I /\ Ascending(I)[k] \in DOMAIN graph
<1> DEFINE outer == Last(frames)
           I == Candidates(iter_set[d - 1], outer.match)
<1>1. /\ FrameShape(outer) /\ I \in SUBSET DOMAIN graph
      /\ IterateOver(d) = Ascending(I) /\ Len(Ascending(I)) = Cardinality(I)
      /\ Cardinality(I) \in Nat /\ \A i \in 1..Cardinality(I) : Ascending(I)[i] \in I
  BY InnermostLoop
<1> HIDE DEF I
<1>2. k \in Nat /\ k >= 1
  BY <1>1 DEF FrameShape
<1>3. k \in 1..Cardinality(I)
  BY <1>1, <1>2
<1> QED BY <1>1, <1>2, <1>3 DEF I

CounterInv == root \in Nat /\ counter \in Int

\* What is added to the counter is a number.
LEMMA CounterStep ==
  ASSUME LoopInv, CounterInv, PlanOK, [Next]_vars
  PROVE  CounterInv'
<1>1. /\ PlanTypeOK /\ GraphOK /\ FramesInv /\ input \in Inputs /\ root \in Nat /\ counter \in Int
      /\ Generated => Ready
  BY PlanTypes, ProgramFacts DEF LoopInv, Ready, PlanOK, CodeInv, PlanInv, CounterInv
<1>2. CASE EnterRoot
  <2> DEFINE body == Body(0, NoFrame, root, root + 1)
  <2>1. Generated /\ root \in DOMAIN graph /\ counter' = counter + body.count /\ root' = root + 1
    BY <1>2 DEF EnterRoot
  <2>2. 0 \in Bodies /\ FrameRight(NoFrame, 0)
    BY <1>1, LoopFacts, NothingInScope DEF Bodies
  <2>3. body.count \in Int
    <3>1. PICK b : b = body
      OBVIOUS
    <3>2. b = Body(0, NoFrame, root, root + 1)
      BY <3>1
    <3> HIDE DEF body
    <3>3. b.count \in Int
      BY <1>1, <2>1, <2>2, <3>2, BodyCounts
    <3> QED BY <3>1, <3>3
  <2> HIDE DEF body
  <2> QED BY <1>1, <2>1, <2>3 DEF CounterInv
<1>3. CASE EnterLoop
  <2> DEFINE d == Len(frames)
             outer == Last(frames)
             k == outer.done + 1
             v == IterateOver(d)[k]
             body == Body(d, outer, v, k)
  <2>1. /\ Generated /\ frames # <<>> /\ k <= Len(IterateOver(d))
        /\ counter' = counter + body.count /\ root' = root
    BY <1>3 DEF EnterLoop
  <2>2. PICK b, D, K, V, O : b = body /\ D = d /\ K = k /\ V = v /\ O = outer
    OBVIOUS
  <2>3. b = Body(D, O, V, K) /\ D = Len(frames) /\ K = Last(frames).done + 1 /\ O = Last(frames)
    BY <2>2
  <2>4. K <= Len(IterateOver(D)) /\ V = IterateOver(D)[K]
    BY <2>1, <2>2
  <2> HIDE DEF body, v, k, outer, d
  <2>5. /\ D \in Bodies /\ D # 0 /\ FrameRight(O, D)
        /\ V \in DOMAIN graph
        /\ K \in 1..Len(Ascending(O.sets[iter_set[D - 1].id]))
        /\ V = Ascending(O.sets[iter_set[D - 1].id])[K]
    <3> DEFINE I == Candidates(iter_set[D - 1], Last(frames).match)
    <3>1. /\ D \in Bodies /\ D # 0 /\ FrameRight(Last(frames), D)
          /\ Last(frames).sets[iter_set[D - 1].id] = I
          /\ IterateOver(D) = Ascending(I) /\ Len(Ascending(I)) = Cardinality(I)
      BY <1>1, <2>1, <2>3, InnermostLoop
    <3>2. K \in 1..Cardinality(I) /\ Ascending(I)[K] \in DOMAIN graph
      BY <1>1, <2>1, <2>3, <2>4, NextIteration
    <3> HIDE DEF I
    <3> QED BY <2>3, <2>4, <3>1, <3>2
  <2>6. b.count \in Int
    BY <1>1, <2>1, <2>3, <2>5, BodyCounts
  <2> QED BY <1>1, <2>1, <2>2, <2>6 DEF CounterInv
<1>4. CASE root' = root /\ counter' = counter
  BY <1>4 DEF CounterInv
<1>5. EnterRoot \/ EnterLoop \/ (root' = root /\ counter' = counter)
  BY DEF Next, vars, Generate, Run, LeaveLoop, Return, Stop
<1> QED BY <1>2, <1>3, <1>4, <1>5

\* The types follow from the invariants.
LEMMA LoopTypes ==
  ASSUME LoopInv, CounterInv
  PROVE  TypeOK
<1>1. /\ PlanTypeOK /\ GraphOK /\ Nest(frames) /\ root \in Nat /\ counter \in Int
  BY PlanTypes DEF LoopInv, CounterInv, FramesInv
<1>2. /\ frames \in Seq(ToSet(frames)) /\ Len(frames) <= LastLoop
      /\ \A k \in 1..Len(frames) : FrameRight(frames[k], k)
  BY <1>1 DEF Nest
<1>3. Len(frames) <= input.size - 2 /\ DOMAIN frames = 1..Len(frames)
  BY <1>1, <1>2, LoopFacts
<1>4. ASSUME NEW k \in DOMAIN frames
      PROVE  /\ Len(frames[k].match) = k /\ ToSet(frames[k].match) \subseteq DOMAIN graph
             /\ \A op \in DOMAIN frames[k].sets : frames[k].sets[op] \subseteq DOMAIN graph
  <2> DEFINE f == frames[k]
  <2>1. FrameRight(f, k)
    BY <1>2, <1>3
  <2> HIDE DEF f
  <2>2. Len(f.match) = k /\ ToSet(f.match) \subseteq DOMAIN graph
    BY <2>1 DEF FrameRight, ToSet
  <2>3. ASSUME NEW id \in DOMAIN f.sets PROVE f.sets[id] \subseteq DOMAIN graph
    <3>1. PICK op \in SetsTo(k - 1) : op.id = id
      BY <2>1 DEF FrameRight, IdsTo
    <3>2. f.sets[id] = Candidates(op, f.match)
      BY <2>1, <3>1 DEF FrameRight, SetsRight
    <3> QED BY <3>2, CandidatesAllowed
  <2> QED BY <2>2, <2>3 DEF f
<1> QED BY <1>1, <1>3, <1>4 DEF TypeOK

\* Every frame belongs to its loop, the vertices and sets in it to the data graph, and the
\* counter stays a number (codegen.cpp, what gen_code_omp and gen_code_iep declare).
THEOREM LoopNestTyped ==
  ASSUME InputsOrderly
  PROVE  Spec /\ []BoundedRowsSuffice => []TypeOK
<1>1. LoopInit => LoopInv /\ CounterInv
  BY LoopInitially DEF CounterInv, LoopInit
<1>2. LoopInv /\ CounterInv /\ PlanOK /\ [Next]_vars => LoopInv' /\ CounterInv'
  BY LoopStep, CounterStep
<1>3. LoopInv /\ CounterInv => TypeOK
  BY LoopTypes
<1>4. Spec => []InOrder
  BY OperandsOrdered
<1>5. InOrder /\ BoundedRowsSuffice => PlanOK
  BY DEF PlanOK
<1> QED BY <1>1, <1>2, <1>3, <1>4, <1>5, PTL DEF Spec

(***************************************************************************)
(* Inclusion-exclusion counts the ways to choose a different vertex from   *)
(* each set.                                                               *)
(***************************************************************************)
\* A vertex from each of the sets J.
Picks(f, J) == {t \in [J -> DOMAIN graph] : \A k \in J : t[k] \in f.sets[code.iep[k]]}

\* The same vertex from the sets of one part.
Joint(f, P) == {t \in Picks(f, UNION P) : Together(t, P)}

\* One part more is one choice more.
LEMMA JointNext ==
  ASSUME GraphOK, NEW f, NEW Q, NEW p, p # {}, \A q \in Q : q \intersect p = {},
         IsFiniteSet(Joint(f, Q))
  PROVE  LET P == Q \union {p}
         IN /\ IsFiniteSet(Joint(f, P))
            /\ Cardinality(Joint(f, P)) =
                 Cardinality(Joint(f, Q)) * Cardinality(CommonTo(f, p))
<1> DEFINE P == Q \union {p}
           J == UNION Q
           C == CommonTo(f, p)
           Pair == Joint(f, Q) \X C
           Join(t, x) == [k \in J \union p |-> IF k \in p THEN x ELSE t[k]]
           g == [pair \in Pair |-> Join(pair[1], pair[2])]
<1>1. PICK e : e \in p
  OBVIOUS
<1>2. UNION P = J \union p /\ J \intersect p = {}
  OBVIOUS
<1>3. \A x : x \in C <=> x \in DOMAIN graph /\ \A k \in p : x \in f.sets[code.iep[k]]
  BY DEF CommonTo
<1>4. \A t : t \in Joint(f, Q) <=>
        /\ t \in [J -> DOMAIN graph] /\ \A k \in J : t[k] \in f.sets[code.iep[k]]
        /\ \A q \in Q : \A j, k \in q : t[j] = t[k]
  BY DEF Joint, Picks, Together
<1>5. \A t : t \in Joint(f, P) <=>
        /\ t \in [J \union p -> DOMAIN graph]
        /\ \A k \in J \union p : t[k] \in f.sets[code.iep[k]]
        /\ \A q \in P : \A j, k \in q : t[j] = t[k]
  BY <1>2 DEF Joint, Picks, Together
<1>6. \A q \in Q : \A k \in q : k \in J /\ k \notin p
  OBVIOUS
<1>7. \A k \in J : k \notin p
  BY <1>2
<1> HIDE DEF J, C
<1>8. ASSUME NEW t \in Joint(f, Q), NEW x \in C
      PROVE  /\ Join(t, x) \in Joint(f, P) /\ Join(t, x)[e] = x
             /\ \A k \in J : Join(t, x)[k] = t[k]
  <2> DEFINE u == Join(t, x)
  <2>1. u \in [J \union p -> DOMAIN graph]
    BY <1>3, <1>4
  <2>2. (\A k \in p : u[k] = x) /\ \A k \in J : u[k] = t[k]
    BY <1>7
  <2> HIDE DEF u
  <2>3. \A k \in J \union p : u[k] \in f.sets[code.iep[k]]
    BY <1>3, <1>4, <2>2
  <2>4. \A q \in Q : \A j, k \in q : u[j] = u[k]
    BY <1>4, <1>6, <2>2
  <2>5. \A j, k \in p : u[j] = u[k]
    BY <2>2
  <2>6. \A q \in P : \A j, k \in q : u[j] = u[k]
    BY <2>4, <2>5
  <2> HIDE DEF P
  <2>7. u \in Joint(f, P)
    BY <1>5, <2>1, <2>3, <2>6
  <2> QED BY <1>1, <2>2, <2>7 DEF u
<1>9. ASSUME NEW u \in Joint(f, P)
      PROVE  \E t \in Joint(f, Q) : \E x \in C : u = Join(t, x)
  <2> DEFINE t == [k \in J |-> u[k]]
             x == u[e]
  <2>1. /\ u \in [J \union p -> DOMAIN graph]
        /\ \A k \in J \union p : u[k] \in f.sets[code.iep[k]]
        /\ \A q \in P : \A j, k \in q : u[j] = u[k]
    BY <1>5
  <2>2. \A k \in p : u[k] = u[e]
    BY <1>1, <2>1
  <2>3. x \in C
    BY <1>1, <1>3, <2>1, <2>2
  <2>4. t \in Joint(f, Q)
    <3>1. t \in [J -> DOMAIN graph] /\ \A k \in J : t[k] = u[k]
      BY <2>1
    <3> HIDE DEF t
    <3>2. \A q \in Q : \A j, k \in q : t[j] = t[k]
      BY <1>6, <2>1, <3>1
    <3> QED BY <1>4, <2>1, <3>1, <3>2
  <2>5. u = Join(t, x)
    <3>1. \A k \in J \union p : u[k] = IF k \in p THEN u[e] ELSE t[k]
      BY <2>2
    <3> QED BY <2>1, <3>1
  <2> QED BY <2>3, <2>4, <2>5
<1>10. g \in Bijection(Pair, Joint(f, P))
  <2>1. g \in [Pair -> Joint(f, P)]
    <3>1. \A pair \in Pair : pair[1] \in Joint(f, Q) /\ pair[2] \in C
      OBVIOUS
    <3> HIDE DEF Pair, Join, P
    <3>2. \A pair \in Pair : Join(pair[1], pair[2]) \in Joint(f, P)
      BY <1>8, <3>1
    <3> QED BY <3>2
  <2>2. ASSUME NEW a \in Pair, NEW b \in Pair, g[a] = g[b] PROVE a = b
    <3>1. /\ a[1] \in Joint(f, Q) /\ a[2] \in C /\ a = <<a[1], a[2]>>
          /\ b[1] \in Joint(f, Q) /\ b[2] \in C /\ b = <<b[1], b[2]>>
      OBVIOUS
    <3>2. Join(a[1], a[2]) = Join(b[1], b[2])
      BY <2>2
    <3> HIDE DEF Join, g, Pair
    <3>3. a[2] = b[2] /\ \A k \in J : a[1][k] = b[1][k]
      BY <1>8, <3>1, <3>2
    <3>4. a[1] \in [J -> DOMAIN graph] /\ b[1] \in [J -> DOMAIN graph]
      BY <1>4, <3>1
    <3>5. a[1] = b[1]
      BY <3>3, <3>4
    <3> QED BY <3>1, <3>3, <3>5
  <2>3. \A u \in Joint(f, P) : \E pair \in Pair : g[pair] = u
    <3> SUFFICES ASSUME NEW u \in Joint(f, P) PROVE \E pair \in Pair : g[pair] = u
      OBVIOUS
    <3>1. PICK t \in Joint(f, Q), x \in C : u = Join(t, x)
      BY <1>9
    <3>2. <<t, x>> \in Pair /\ g[<<t, x>>] = Join(t, x)
      OBVIOUS
    <3> QED BY <3>1, <3>2
  <2> HIDE DEF g, Pair, P
  <2> QED BY <2>1, <2>2, <2>3 DEF Bijection, Injection, Surjection, IsInjective
<1>11. IsFiniteSet(C)
  <2>1. C \in SUBSET DOMAIN graph
    BY <1>3
  <2> QED BY <2>1, GraphFacts
<1> HIDE DEF g, P
<1>12. IsFiniteSet(Pair) /\ Cardinality(Pair) = Cardinality(Joint(f, Q)) * Cardinality(C)
  BY <1>11, FS_Product
<1> HIDE DEF Pair
<1>13. IsFiniteSet(Joint(f, P)) /\ Cardinality(Joint(f, P)) = Cardinality(Pair)
  BY <1>10, <1>12, FS_Bijection DEF ExistsBijection
<1> QED BY <1>12, <1>13 DEF P, C

\* Nothing to choose.
LEMMA JointOfNone ==
  ASSUME NEW f
  PROVE  IsFiniteSet(Joint(f, {})) /\ Cardinality(Joint(f, {})) = 1
<1> DEFINE e == [k \in {} |-> k]
<1>1. UNION {} = {} /\ \A t \in [{} -> DOMAIN graph] : t = e
  OBVIOUS
<1>2. e \in [{} -> DOMAIN graph]
  OBVIOUS
<1> HIDE DEF e
<1>3. Joint(f, {}) = {e}
  BY <1>1, <1>2 DEF Joint, Picks, Together
<1> QED BY <1>3, FS_Singleton

\* The product of a group is the number of joint choices.
LEMMA ProductCounts ==
  ASSUME GraphOK, NEW f, NEW S, IsFiniteSet(S), Apart(S)
  PROVE  IsFiniteSet(Joint(f, S)) /\ ProductOf(f, S) = Cardinality(Joint(f, S))
<1>1. \E h : IsProduct(h, f, SUBSET S)
  BY ProductExists
<1> DEFINE h == CHOOSE h : IsProduct(h, f, SUBSET S)
<1>2. IsProduct(h, f, SUBSET S)
  BY <1>1
<1>3. ProductOf(f, S) = h[S]
  BY DEF ProductOf, FoldSet, MapThenFoldSet, IsProduct, Picked
<1> HIDE DEF h
<1> DEFINE G == {t \in SUBSET S : IsFiniteSet(Joint(f, t)) /\ h[t] = Cardinality(Joint(f, t))}
<1>4. ASSUME NEW T \in SUBSET S, \A U \in SUBSET T : U # T => U \in G
      PROVE  T \in G
  <2> DEFINE p == Picked(T)
             Q == T \ {p}
  <2>1. h[T] = IF T = {} THEN 1 ELSE h[Q] * Cardinality(CommonTo(f, p))
    BY <1>2 DEF IsProduct
  <2>2. CASE T = {}
    BY <2>1, <2>2, JointOfNone
  <2>3. CASE T # {}
    <3>1. p \in T /\ Q \in SUBSET T /\ Q # T /\ T = Q \union {p}
      BY <2>3, PickedIn
    <3> HIDE DEF p, Q
    <3>2. IsFiniteSet(Joint(f, Q)) /\ h[Q] = Cardinality(Joint(f, Q))
      BY <1>4, <3>1
    <3>3. p # {} /\ \A q \in Q : q \intersect p = {}
      <4>1. p \notin Q
        BY DEF Q
      <4> QED BY <3>1, <4>1 DEF Apart
    <3>4. /\ IsFiniteSet(Joint(f, T))
          /\ Cardinality(Joint(f, T)) = Cardinality(Joint(f, Q)) * Cardinality(CommonTo(f, p))
      BY <3>1, <3>2, <3>3, JointNext
    <3> QED BY <2>1, <2>3, <3>2, <3>4
  <2> QED BY <2>2, <2>3
<1>5. \A T \in SUBSET S : T \in G
  <2> HIDE DEF G
  <2> QED BY <1>4, SubsetInduction
<1>6. S \in G
  BY <1>5
<1> QED BY <1>3, <1>6

\* The sum of w[x] over the x of a set.
IsSum(h, w, D) ==
  h = [s \in D |-> IF s = {} THEN 0 ELSE w[Picked(s)] + h[s \ {Picked(s)}]]

LEMMA SumExists ==
  ASSUME NEW S, IsFiniteSet(S), NEW w \in [S -> Int]
  PROVE  \E h \in [SUBSET S -> Int] : IsSum(h, w, SUBSET S)
<1> DEFINE F == [p \in S \X Int |-> w[p[1]] + p[2]]
<1>1. F \in [S \X Int -> Int]
  OBVIOUS
<1>2. \A x \in S : \A n \in Int : F[<<x, n>>] = w[x] + n
  OBVIOUS
<1> HIDE DEF F
<1>3. PICK g \in [SUBSET S -> Int] : IsSetFold(g, F, 0, SUBSET S)
  <2>1. 0 \in Int
    OBVIOUS
  <2> QED BY <1>1, <2>1, SetFoldOfInt, Zenon
<1>4. ASSUME NEW s \in SUBSET S, s # {}
      PROVE  F[<<Picked(s), g[s \ {Picked(s)}]>>] = w[Picked(s)] + g[s \ {Picked(s)}]
  <2>1. Picked(s) \in S /\ s \ {Picked(s)} \in SUBSET S
    BY <1>4, PickedIn
  <2> QED BY <1>2, <1>3, <2>1
<1>5. g = [s \in SUBSET S |-> IF s = {} THEN 0 ELSE F[<<Picked(s), g[s \ {Picked(s)}]>>]]
  BY <1>3 DEF IsSetFold
<1>6. \A s \in SUBSET S :
        g[s] = IF s = {} THEN 0 ELSE w[Picked(s)] + g[s \ {Picked(s)}]
  BY <1>4, <1>5
<1>7. IsSum(g, w, SUBSET S)
  BY <1>3, <1>6 DEF IsSum
<1> QED BY <1>3, <1>7

\* Sums g, h and e whose terms are u, v and w, the first the sum of the others.
TermByTerm(S, g, u, h, v, e, w) ==
  /\ IsFiniteSet(S) /\ v \in [S -> Int] /\ w \in [S -> Int] /\ \A x \in S : u[x] = v[x] + w[x]
  /\ IsSum(g, u, SUBSET S)
  /\ h \in [SUBSET S -> Int] /\ IsSum(h, v, SUBSET S)
  /\ e \in [SUBSET S -> Int] /\ IsSum(e, w, SUBSET S)

\* Sums are added term by term.
LEMMA SumsAdd ==
  ASSUME NEW S, NEW g, NEW u, NEW h, NEW v, NEW e, NEW w, TermByTerm(S, g, u, h, v, e, w)
  PROVE  g[S] = h[S] + e[S]
<1> USE DEF TermByTerm
<1> DEFINE G == {t \in SUBSET S : g[t] = h[t] + e[t]}
<1>1. ASSUME NEW T \in SUBSET S, \A U \in SUBSET T : U # T => U \in G
      PROVE  T \in G
  <2> DEFINE x == Picked(T)
             U == T \ {x}
  <2>1. /\ g[T] = IF T = {} THEN 0 ELSE u[x] + g[U]
        /\ h[T] = IF T = {} THEN 0 ELSE v[x] + h[U]
        /\ e[T] = IF T = {} THEN 0 ELSE w[x] + e[U]
    BY DEF IsSum
  <2>2. CASE T = {}
    BY <2>1, <2>2
  <2>3. CASE T # {}
    <3>1. x \in S /\ U \in SUBSET T /\ U # T /\ U \in SUBSET S
      BY <2>3, PickedIn
    <3> HIDE DEF x, U
    <3>2. g[U] = h[U] + e[U] /\ u[x] = v[x] + w[x]
      BY <1>1, <3>1
    <3>3. h[U] \in Int /\ e[U] \in Int /\ v[x] \in Int /\ w[x] \in Int
      BY <3>1
    <3> QED BY <2>1, <2>3, <3>2, <3>3
  <2> QED BY <2>2, <2>3
<1>2. \A T \in SUBSET S : T \in G
  <2> HIDE DEF G
  <2> QED BY <1>1, SubsetInduction
<1>3. S \in G
  BY <1>2
<1> QED BY <1>3

\* A sum of nothing.
LEMMA SumOfNone ==
  ASSUME NEW S, IsFiniteSet(S), NEW w, \A x \in S : w[x] = 0, NEW g, IsSum(g, w, SUBSET S)
  PROVE  g[S] = 0
<1> DEFINE G == {t \in SUBSET S : g[t] = 0}
<1>1. ASSUME NEW T \in SUBSET S, \A U \in SUBSET T : U # T => U \in G
      PROVE  T \in G
  <2>1. g[T] = IF T = {} THEN 0 ELSE w[Picked(T)] + g[T \ {Picked(T)}]
    BY DEF IsSum
  <2>2. T # {} => w[Picked(T)] = 0 /\ g[T \ {Picked(T)}] = 0
    BY <1>1, PickedIn
  <2> QED BY <2>1, <2>2
<1>2. \A T \in SUBSET S : T \in G
  <2> HIDE DEF G
  <2> QED BY <1>1, SubsetInduction
<1>3. S \in G
  BY <1>2
<1> QED BY <1>3

\* A sum has one value.
LEMMA SumsAgree ==
  ASSUME NEW S, IsFiniteSet(S), NEW w, NEW u, \A x \in S : u[x] = w[x],
         NEW g, IsSum(g, u, SUBSET S), NEW h, IsSum(h, w, SUBSET S)
  PROVE  g[S] = h[S]
<1> DEFINE G == {t \in SUBSET S : g[t] = h[t]}
<1>1. ASSUME NEW T \in SUBSET S, \A U \in SUBSET T : U # T => U \in G
      PROVE  T \in G
  <2>1. /\ g[T] = IF T = {} THEN 0 ELSE u[Picked(T)] + g[T \ {Picked(T)}]
        /\ h[T] = IF T = {} THEN 0 ELSE w[Picked(T)] + h[T \ {Picked(T)}]
    BY DEF IsSum
  <2>2. T # {} => /\ u[Picked(T)] = w[Picked(T)]
                  /\ g[T \ {Picked(T)}] = h[T \ {Picked(T)}]
    BY <1>1, PickedIn
  <2> QED BY <2>1, <2>2
<1>2. \A T \in SUBSET S : T \in G
  <2> HIDE DEF G
  <2> QED BY <1>1, SubsetInduction
<1> QED BY <1>2

\* The values of the partitions that keep together only what t makes equal.
Signs(iep, t) == [g \in iep.groups |-> IF Together(t, g.parts) THEN g.val ELSE 0]

IsSigned(h, iep, t, D) ==
  h = [s \in D |-> IF s = {} THEN 0
                   ELSE (IF Together(t, Picked(s).parts) THEN Picked(s).val ELSE 0) +
                        h[s \ {Picked(s)}]]

\* Their sum, for a pattern of equal places.
LEMMA PatternSum ==
  ASSUME NEW iep, IsFiniteSet(iep.groups), \A g \in iep.groups : g.val \in Int,
         Alternating(iep), NEW t \in [0..(iep.num - 1) -> 0..(iep.num - 1)],
         NEW e, IsSum(e, Signs(iep, t), SUBSET iep.groups)
  PROVE  e[iep.groups] = IF IsInjective(t) THEN 1 ELSE 0
<1> DEFINE S == iep.groups
           w == Signs(iep, t)
<1>1. \A g \in S : w[g] \in Int /\ w[g] = IF Together(t, g.parts) THEN g.val ELSE 0
  BY DEF Signs
<1>2. w \in [S -> Int]
  BY <1>1 DEF Signs
<1> HIDE DEF w
<1>3. PICK h \in [SUBSET S -> Int] : IsSum(h, w, SUBSET S)
  BY <1>2, SumExists
<1>4. \A s \in SUBSET S : s # {} => Picked(s) \in S
  BY PickedIn
<1>5. \A s \in SUBSET S :
        h[s] = IF s = {} THEN 0
               ELSE (IF Together(t, Picked(s).parts) THEN Picked(s).val ELSE 0) +
                    h[s \ {Picked(s)}]
  BY <1>1, <1>3, <1>4 DEF IsSum
<1>6. IsSigned(h, iep, t, SUBSET S)
  BY <1>3, <1>5 DEF IsSigned
<1> DEFINE c == CHOOSE c : IsSigned(c, iep, t, SUBSET S)
<1>7. IsSigned(c, iep, t, SUBSET S)
  BY <1>6
<1>8. MapThenSumSet(LAMBDA g : IF Together(t, g.parts) THEN g.val ELSE 0, iep.groups) = c[S]
  BY DEF MapThenSumSet, MapThenFoldSet, IsSigned, Picked
<1> HIDE DEF c
<1>9. \A s \in SUBSET S :
        c[s] = IF s = {} THEN 0 ELSE w[Picked(s)] + c[s \ {Picked(s)}]
  BY <1>1, <1>4, <1>7 DEF IsSigned
<1>10. IsSum(c, w, SUBSET S)
  BY <1>7, <1>9 DEF IsSum, IsSigned
<1>11. e[S] = c[S]
  <2>1. IsSum(e, w, SUBSET S)
    BY DEF w
  <2> HIDE DEF S
  <2>2. IsFiniteSet(S)
    BY DEF S
  <2> QED BY <1>10, <2>1, <2>2, SumsAgree
<1>12. MapThenSumSet(LAMBDA g : IF Together(t, g.parts) THEN g.val ELSE 0, iep.groups) =
         IF IsInjective(t) THEN 1 ELSE 0
  BY DEF Alternating
<1> QED BY <1>8, <1>11, <1>12

\* The same for any choice: it is injective when its pattern is.
LEMMA ChoiceSum ==
  ASSUME NEW iep, IsFiniteSet(iep.groups), \A g \in iep.groups : g.val \in Int,
         Alternating(iep), NEW D, NEW t \in [0..(iep.num - 1) -> D],
         NEW e, IsSum(e, Signs(iep, t), SUBSET iep.groups)
  PROVE  e[iep.groups] = IF IsInjective(t) THEN 1 ELSE 0
<1> DEFINE K == 0..(iep.num - 1)
           First(k) == CHOOSE j \in K : t[j] = t[k]
           p == [k \in K |-> First(k)]
<1>1. \A k \in K : First(k) \in K /\ t[First(k)] = t[k]
  OBVIOUS
<1>2. \A j, k \in K : t[j] = t[k] => First(j) = First(k)
  OBVIOUS
<1>3. p \in [K -> K]
  BY <1>1
<1>4. \A j, k \in K : p[j] = p[k] <=> t[j] = t[k]
  <2>1. \A k \in K : p[k] = First(k)
    OBVIOUS
  <2> HIDE DEF p, First
  <2> QED BY <1>1, <1>2, <2>1
<1> HIDE DEF p, First
<1>5. IsInjective(p) <=> IsInjective(t)
  <2>1. DOMAIN p = K /\ DOMAIN t = K
    BY <1>3
  <2> QED BY <1>4, <2>1 DEF IsInjective
<1>6. \A g \in iep.groups : UNION g.parts = K
  BY DEF Alternating
<1>7. ASSUME NEW g \in iep.groups PROVE Together(p, g.parts) <=> Together(t, g.parts)
  <2>1. \A part \in g.parts : \A k \in part : k \in K
    BY <1>6
  <2> QED BY <1>4, <2>1 DEF Together
<1>8. Signs(iep, p) = Signs(iep, t)
  BY <1>7 DEF Signs
<1>9. e[iep.groups] = IF IsInjective(p) THEN 1 ELSE 0
  BY <1>3, <1>8, PatternSum
<1> QED BY <1>5, <1>9

\* There are finitely many choices.
LEMMA ChoicesFinite ==
  ASSUME GraphOK, NEW f, NEW K, IsFiniteSet(K)
  PROVE  IsFiniteSet(Picks(f, K))
<1> DEFINE S == {{k} : k \in K}
<1>1. IsFiniteSet(S)
  <2> DEFINE g == [k \in K |-> {k}]
  <2>1. g \in Surjection(K, S)
    BY DEF Surjection
  <2> HIDE DEF g, S
  <2> QED BY <2>1, FS_Surjection
<1>2. Apart(S) /\ UNION S = K
  BY DEF Apart
<1>3. \A t : Together(t, S)
  BY DEF Together
<1> HIDE DEF S
<1>4. Joint(f, S) = Picks(f, K)
  BY <1>2, <1>3 DEF Joint
<1>5. IsFiniteSet(Joint(f, S))
  BY <1>1, <1>2, ProductCounts
<1> QED BY <1>4, <1>5

\* The choices of different vertices.
Unequal(f) == {t \in Picks(f, 0..(input.iep.num - 1)) : IsInjective(t)}

\* What the groups of iep count of the choices U.
Weights(iep, U) ==
  [g \in iep.groups |-> g.val * Cardinality({t \in U : Together(t, g.parts)})]

\* Whatever set of choices: the groups count the injective ones.
LEMMA WeightsCount ==
  ASSUME NEW iep, IsFiniteSet(iep.groups), \A g \in iep.groups : g.val \in Int,
         Alternating(iep), NEW D, NEW T \in SUBSET [0..(iep.num - 1) -> D], IsFiniteSet(T),
         NEW h, IsSum(h, Weights(iep, T), SUBSET iep.groups)
  PROVE  h[iep.groups] = Cardinality({t \in T : IsInjective(t)})
<1> DEFINE S == iep.groups
           Kin(U, g) == {t \in U : Together(t, g.parts)}
           Inj(U) == {t \in U : IsInjective(t)}
           w(U) == Weights(iep, U)
           G == {U \in SUBSET T :
                   \A e \in [SUBSET S -> Int] : IsSum(e, w(U), SUBSET S) => e[S] = Cardinality(Inj(U))}
<1>1. ASSUME NEW U \in SUBSET T
      PROVE  /\ \A g : IsFiniteSet(Kin(U, g)) /\ Cardinality(Kin(U, g)) \in Nat
             /\ IsFiniteSet(Inj(U)) /\ Cardinality(Inj(U)) \in Nat
             /\ w(U) \in [S -> Int] /\ \A g \in S : w(U)[g] = g.val * Cardinality(Kin(U, g))
  <2>1. \A g : Kin(U, g) \in SUBSET T
    OBVIOUS
  <2>2. Inj(U) \in SUBSET T
    OBVIOUS
  <2>3. \A g \in S : w(U)[g] = g.val * Cardinality(Kin(U, g))
    BY DEF Weights
  <2>4. w(U) = [g \in S |-> g.val * Cardinality(Kin(U, g))]
    BY DEF Weights
  <2> HIDE DEF Kin, Inj, w
  <2>5. \A g : IsFiniteSet(Kin(U, g)) /\ Cardinality(Kin(U, g)) \in Nat
    BY <2>1, FS_Subset, FS_CardinalityType
  <2>6. IsFiniteSet(Inj(U)) /\ Cardinality(Inj(U)) \in Nat
    BY <2>2, FS_Subset, FS_CardinalityType
  <2>7. \A g \in S : g.val * Cardinality(Kin(U, g)) \in Int
    BY <2>5
  <2>8. w(U) \in [S -> Int]
    BY <2>4, <2>7
  <2> QED BY <2>3, <2>5, <2>6, <2>8
<1>2. IsFiniteSet(S)
  OBVIOUS
<1>3. ASSUME NEW U \in SUBSET T, \A V \in SUBSET U : V # U => V \in G
      PROVE  U \in G
  <2> SUFFICES ASSUME NEW e \in [SUBSET S -> Int], IsSum(e, w(U), SUBSET S)
               PROVE  e[S] = Cardinality(Inj(U))
    OBVIOUS
  <2>1. CASE U = {}
    <3>1. \A g : Kin(U, g) = {}
      BY <2>1
    <3>2. Inj(U) = {}
      BY <2>1
    <3> HIDE DEF Kin, Inj
    <3>3. Cardinality({}) = 0
      BY FS_EmptySet
    <3>4. \A g \in S : w(U)[g] = 0
      <4>1. \A m \in Int : m * 0 = 0
        OBVIOUS
      <4>2. \A g \in S : w(U)[g] = g.val * 0
        BY <1>1, <3>1, <3>3
      <4> HIDE DEF w
      <4> QED BY <4>1, <4>2
    <3> HIDE DEF w, S
    <3>5. e[S] = 0
      BY <1>2, <3>4, SumOfNone
    <3> QED BY <3>2, <3>3, <3>5
  <2>2. CASE U # {}
    <3>1. PICK t \in U : TRUE
      BY <2>2
    <3> DEFINE V == U \ {t}
               x == Signs(iep, t)
    <3>2. V \in SUBSET U /\ V # U /\ V \in SUBSET T /\ t \notin V /\ U = V \union {t}
      OBVIOUS
    <3>3. t \in [0..(iep.num - 1) -> D]
      OBVIOUS
    <3>4. x \in [S -> Int] /\ \A g \in S : x[g] = IF Together(t, g.parts) THEN g.val ELSE 0
      BY DEF Signs
    <3>5. ASSUME NEW g \in S PROVE w(U)[g] = w(V)[g] + x[g]
      <4>1. CASE Together(t, g.parts)
        <5>1. Kin(U, g) = Kin(V, g) \union {t} /\ t \notin Kin(V, g)
          BY <3>2, <4>1
        <5> HIDE DEF Kin, V, w, x
        <5>2. IsFiniteSet(Kin(V, g)) /\ Cardinality(Kin(V, g)) \in Nat
          BY <1>1, <3>2
        <5>3. Cardinality(Kin(U, g)) = Cardinality(Kin(V, g)) + 1
          BY <5>1, <5>2, FS_AddElement
        <5>4. w(U)[g] = g.val * (Cardinality(Kin(V, g)) + 1)
          BY <1>1, <5>3
        <5>5. w(V)[g] = g.val * Cardinality(Kin(V, g)) /\ x[g] = g.val
          BY <1>1, <3>2, <3>4, <4>1
        <5>6. g.val \in Int
          OBVIOUS
        <5>7. \A m \in Int, n \in Nat : m * (n + 1) = m * n + m
          OBVIOUS
        <5> QED BY <5>2, <5>4, <5>5, <5>6, <5>7
      <4>2. CASE ~Together(t, g.parts)
        <5>1. Kin(U, g) = Kin(V, g)
          BY <3>2, <4>2
        <5> HIDE DEF Kin, V, w, x
        <5>2. w(U)[g] = w(V)[g] /\ x[g] = 0 /\ w(V)[g] \in Int
          BY <1>1, <3>2, <3>4, <4>2, <5>1
        <5> QED BY <5>2
      <4> QED BY <4>1, <4>2
    <3>6. Cardinality(Inj(U)) = Cardinality(Inj(V)) + (IF IsInjective(t) THEN 1 ELSE 0)
      <4>1. CASE IsInjective(t)
        <5>1. Inj(U) = Inj(V) \union {t} /\ t \notin Inj(V)
          BY <3>2, <4>1
        <5> HIDE DEF Inj, V
        <5>2. IsFiniteSet(Inj(V))
          BY <1>1, <3>2
        <5> QED BY <4>1, <5>1, <5>2, FS_AddElement
      <4>2. CASE ~IsInjective(t)
        <5>1. Inj(U) = Inj(V)
          BY <3>2, <4>2
        <5> HIDE DEF Inj, V
        <5>2. Cardinality(Inj(V)) \in Nat
          BY <1>1, <3>2
        <5> QED BY <4>2, <5>1, <5>2
      <4> QED BY <4>1, <4>2
    <3>7. V \in G
      BY <1>3, <3>2
    <3> HIDE DEF V, x
    <3>8. PICK a \in [SUBSET S -> Int] : IsSum(a, w(V), SUBSET S)
      <4>1. w(V) \in [S -> Int]
        BY <1>1, <3>2
      <4> HIDE DEF w, S
      <4> QED BY <1>2, <4>1, SumExists
    <3>9. a[S] = Cardinality(Inj(V))
      BY <3>7, <3>8
    <3> HIDE DEF G
    <3>10. PICK b \in [SUBSET S -> Int] : IsSum(b, x, SUBSET S)
      <4> HIDE DEF S
      <4> QED BY <1>2, <3>4, SumExists
    <3>11. b[S] = IF IsInjective(t) THEN 1 ELSE 0
      <4>1. IsSum(b, Signs(iep, t), SUBSET iep.groups)
        BY <3>10 DEF x
      <4> QED BY <3>3, <4>1, ChoiceSum
    <3>12. e[S] = a[S] + b[S]
      <4>1. w(V) \in [S -> Int]
        BY <1>1, <3>2
      <4> HIDE DEF w, S, Kin, Inj
      <4>2. PICK u, v, z : u = w(U) /\ v = w(V) /\ z = x
        OBVIOUS
      <4>3. \A g \in S : u[g] = v[g] + z[g]
        BY <3>5, <4>2
      <4>4. /\ v \in [S -> Int] /\ IsSum(e, u, SUBSET S) /\ IsSum(a, v, SUBSET S)
            /\ z \in [S -> Int] /\ IsSum(b, z, SUBSET S)
        BY <3>4, <3>8, <3>10, <4>1, <4>2
      <4>5. TermByTerm(S, e, u, a, v, b, z)
        BY <1>2, <4>3, <4>4 DEF TermByTerm
      <4> QED BY ONLY <4>5, SumsAdd
    <3> HIDE DEF Inj
    <3> QED BY <3>6, <3>9, <3>11, <3>12
  <2> QED BY <2>1, <2>2
<1>4. \A U \in SUBSET T : U \in G
  <2> HIDE DEF G
  <2> QED BY <1>3, SubsetInduction
<1>5. PICK e \in [SUBSET S -> Int] : IsSum(e, w(T), SUBSET S)
  <2>1. w(T) \in [S -> Int]
    BY <1>1
  <2> HIDE DEF w, S
  <2> QED BY <1>2, <2>1, SumExists
<1>6. e[S] = Cardinality(Inj(T))
  <2>1. T \in SUBSET T
    OBVIOUS
  <2> QED BY <1>4, <1>5, <2>1
<1>7. h[S] = e[S]
  <2>1. IsSum(h, w(T), SUBSET S)
    OBVIOUS
  <2> HIDE DEF w, S
  <2> QED BY <1>2, <1>5, <2>1, SumsAgree
<1> QED BY <1>6, <1>7

\* Inclusion-exclusion counts the ways to choose a different vertex from each set.
LEMMA InclusionCounts ==
  ASSUME GraphOK, input \in Inputs, Alternating(input.iep), NEW f
  PROVE  IsFiniteSet(Unequal(f)) /\ Inclusion(f) = Cardinality(Unequal(f))
<1> DEFINE iep == input.iep
           S == input.iep.groups
           K == 0..(input.iep.num - 1)
           T == Picks(f, K)
           F == [p \in S \X Int |-> p[1].val * ProductOf(f, p[1].parts) + p[2]]
<1>1. /\ IsFiniteSet(S) /\ input.iep.num \in Nat
      /\ \A x \in S : x.val \in Int /\ IsFiniteSet(x.parts) /\ ProductOf(f, x.parts) \in Int
  BY PlanAssumption, ProductInt
<1>2. IsFiniteSet(T)
  <2>1. IsFiniteSet(K)
    BY <1>1, FS_Interval
  <2> QED BY <2>1, ChoicesFinite
<1>3. \A g \in S : UNION g.parts = K /\ Apart(g.parts)
  BY DEF Alternating
<1>4. ASSUME NEW g \in S
      PROVE  ProductOf(f, g.parts) = Cardinality({t \in T : Together(t, g.parts)})
  <2>1. {t \in T : Together(t, g.parts)} = Joint(f, g.parts)
    BY <1>3 DEF Joint
  <2> HIDE DEF T, S
  <2>2. IsFiniteSet(g.parts) /\ Apart(g.parts)
    BY <1>1, <1>3
  <2> QED BY <2>1, <2>2, ProductCounts
<1> DEFINE w == Weights(iep, T)
<1>5. \A g \in S : w[g] = g.val * ProductOf(f, g.parts)
  BY <1>4 DEF Weights
<1>6. w \in [S -> Int]
  <2>1. w = [g \in S |-> w[g]]
    BY DEF Weights
  <2>2. \A g \in S : w[g] \in Int
    BY <1>1, <1>5
  <2> HIDE DEF w
  <2> QED BY <2>1, <2>2
<1> HIDE DEF w
<1>7. PICK g \in [SUBSET S -> Int] : IsSum(g, w, SUBSET S)
  <2> HIDE DEF S
  <2> QED BY <1>1, <1>6, SumExists
<1>8. \A s \in SUBSET S : s # {} => Picked(s) \in S
  BY PickedIn
<1>9. \A s \in SUBSET S :
        g[s] = IF s = {} THEN 0
               ELSE Picked(s).val * ProductOf(f, Picked(s).parts) + g[s \ {Picked(s)}]
  BY <1>5, <1>7, <1>8 DEF IsSum
<1>10. IsTotal(g, f, SUBSET S)
  BY <1>7, <1>9 DEF IsTotal
<1> DEFINE h == CHOOSE h : IsTotal(h, f, SUBSET S)
<1>11. IsTotal(h, f, SUBSET S)
  BY <1>10
<1>12. Inclusion(f) = h[S]
  BY DEF Inclusion, MapThenSumSet, MapThenFoldSet, IsTotal, ProductOf, CommonTo, Picked, S
<1> HIDE DEF h
<1>13. \A s \in SUBSET S :
         h[s] = IF s = {} THEN 0 ELSE w[Picked(s)] + h[s \ {Picked(s)}]
  BY <1>5, <1>8, <1>11 DEF IsTotal
<1>14. IsSum(h, w, SUBSET S)
  BY <1>11, <1>13 DEF IsSum, IsTotal
<1>15. h[S] = Cardinality({t \in T : IsInjective(t)})
  <2>1. T \in SUBSET [0..(iep.num - 1) -> DOMAIN graph]
    BY DEF Picks
  <2>2. IsSum(h, Weights(iep, T), SUBSET iep.groups)
    BY <1>14 DEF w
  <2>3. IsFiniteSet(iep.groups) /\ (\A x \in iep.groups : x.val \in Int) /\ Alternating(iep)
    BY <1>1
  <2> HIDE DEF T
  <2>4. h[iep.groups] = Cardinality({t \in T : IsInjective(t)})
    BY <1>2, <2>1, <2>2, <2>3, WeightsCount
  <2> QED BY <2>4
<1>16. Unequal(f) = {t \in T : IsInjective(t)}
  BY DEF Unequal
<1>17. IsFiniteSet(Unequal(f))
  <2>1. Unequal(f) \in SUBSET T
    BY <1>16
  <2> HIDE DEF T
  <2> QED BY <1>2, <2>1, FS_Subset
<1> QED BY <1>12, <1>15, <1>16, <1>17

(***************************************************************************)
(* What is counted: the maps f of the pattern into the data graph come one *)
(* after the other, in lexicographic order.                                *)
(***************************************************************************)
\* f begins with the matched vertices.
Begins(f, m) == \A u \in 0..(Len(m) - 1) : f[u] = m[u + 1]

\* f comes before all maps that begin with them.
Precedent(f, m) ==
  \E k \in 0..(Len(m) - 1) : f[k] < m[k + 1] /\ \A u \in 0..(k - 1) : f[u] = m[u + 1]

\* The maps whose turn is over when the vertices m are matched and those of H have been
\* matched to the next vertex of the pattern.
PassedBy(R, m, H) == {f \in R : Precedent(f, m) \/ (Begins(f, m) /\ f[Len(m)] \in H)}

\* Maps of a pattern of s vertices.
Maps(s) == [0..(s - 1) -> Nat]

\* One more vertex is matched.
LEMMA OneMore ==
  ASSUME NEW s \in Nat, NEW f \in Maps(s), NEW m \in Seq(Nat), Len(m) < s, NEW y \in Nat
  PROVE  /\ Begins(f, Append(m, y)) <=> Begins(f, m) /\ f[Len(m)] = y
         /\ Precedent(f, Append(m, y)) <=> Precedent(f, m) \/ (Begins(f, m) /\ f[Len(m)] < y)
         /\ ~(Begins(f, m) /\ Precedent(f, m))
<1> DEFINE n == Len(m)
           ms == Append(m, y)
<1>1. n \in Nat /\ Len(ms) = n + 1 /\ ms[n + 1] = y /\ \A u \in 0..(n - 1) : ms[u + 1] = m[u + 1]
  OBVIOUS
<1> HIDE DEF ms, n
<1>2. Begins(f, ms) <=> Begins(f, m) /\ f[n] = y
  <2>1. \A u \in 0..n : u \in 0..(n - 1) \/ u = n
    BY <1>1
  <2>2. n \in 0..n /\ \A u \in 0..(n - 1) : u \in 0..n
    BY <1>1
  <2>3. Begins(f, ms) <=> \A u \in 0..n : f[u] = ms[u + 1]
    BY <1>1 DEF Begins
  <2>4. Begins(f, m) <=> \A u \in 0..(n - 1) : f[u] = m[u + 1]
    BY DEF Begins, n
  <2> QED BY <1>1, <2>1, <2>2, <2>3, <2>4
<1> DEFINE Less(l, k) == f[k] < l[k + 1] /\ \A u \in 0..(k - 1) : f[u] = l[u + 1]
<1>3. \A k \in 0..(n - 1) : Less(ms, k) <=> Less(m, k)
  <2>1. \A k \in 0..(n - 1) : \A u \in 0..(k - 1) : u \in 0..(n - 1)
    BY <1>1
  <2> QED BY <1>1, <2>1
<1>4. Less(ms, n) <=> Begins(f, m) /\ f[n] < y
  BY <1>1 DEF Begins, n
<1>5. Precedent(f, ms) <=> \E k \in 0..n : Less(ms, k)
  BY <1>1 DEF Precedent
<1>6. Precedent(f, m) <=> \E k \in 0..(n - 1) : Less(m, k)
  BY DEF Precedent, n
<1>7. Precedent(f, ms) <=> Precedent(f, m) \/ (Begins(f, m) /\ f[n] < y)
  <2>1. \A k \in 0..n : k \in 0..(n - 1) \/ k = n
    BY <1>1
  <2>2. n \in 0..n /\ \A k \in 0..(n - 1) : k \in 0..n
    BY <1>1
  <2> HIDE DEF Less
  <2> QED BY <1>3, <1>4, <1>5, <1>6, <2>1, <2>2
<1>8. ~(Begins(f, m) /\ Precedent(f, m))
  <2> SUFFICES ASSUME Begins(f, m), NEW k \in 0..(n - 1), f[k] < m[k + 1] PROVE FALSE
    BY <1>6
  <2>1. f[k] = m[k + 1]
    BY DEF Begins, n
  <2>2. k \in 0..(s - 1) /\ f[k] \in Nat
    BY <1>1 DEF n, Maps
  <2> QED BY <2>1, <2>2
<1> QED BY <1>2, <1>7, <1>8 DEF ms, n

\* The next vertex y has had its turn: so have the maps that match it.
LEMMA TurnOver ==
  ASSUME NEW s \in Nat, NEW R \in SUBSET Maps(s), NEW m \in Seq(Nat), Len(m) < s, NEW H,
         NEW y \in Nat, y \notin H
  PROVE  LET More == {f \in R : Begins(f, Append(m, y))}
         IN /\ PassedBy(R, m, H \union {y}) = PassedBy(R, m, H) \union More
            /\ PassedBy(R, m, H) \intersect More = {}
<1>1. \A f \in R : /\ Begins(f, Append(m, y)) <=> Begins(f, m) /\ f[Len(m)] = y
                   /\ ~(Begins(f, m) /\ Precedent(f, m))
  BY OneMore
<1> QED BY <1>1 DEF PassedBy

\* The loop inside is entered for y.
LEMMA GoneIn ==
  ASSUME NEW s \in Nat, NEW R \in SUBSET Maps(s), NEW m \in Seq(Nat), Len(m) < s, NEW H,
         NEW y \in Nat, \A f \in R : Begins(f, m) => (f[Len(m)] \in H <=> f[Len(m)] < y)
  PROVE  PassedBy(R, Append(m, y), {}) = PassedBy(R, m, H)
<1>1. \A f \in R :
        Precedent(f, Append(m, y)) <=> Precedent(f, m) \/ (Begins(f, m) /\ f[Len(m)] < y)
  BY OneMore
<1> QED BY <1>1 DEF PassedBy

\* The loop inside is left: all vertices of its set have had their turn.
LEMMA GoneOut ==
  ASSUME NEW s \in Nat, NEW R \in SUBSET Maps(s), NEW m \in Seq(Nat), Len(m) < s,
         NEW y \in Nat, NEW In, NEW H,
         \A f \in R : Begins(f, Append(m, y)) => f[Len(m) + 1] \in In,
         \A f \in R : Begins(f, m) => (f[Len(m)] \in H <=> f[Len(m)] <= y)
  PROVE  PassedBy(R, m, H) = PassedBy(R, Append(m, y), In)
<1> DEFINE n == Len(m)
<1>1. \A f \in R :
        /\ Begins(f, Append(m, y)) <=> Begins(f, m) /\ f[n] = y
        /\ Precedent(f, Append(m, y)) <=> Precedent(f, m) \/ (Begins(f, m) /\ f[n] < y)
  BY OneMore
<1>2. n \in 0..(s - 1)
  OBVIOUS
<1>3. \A f \in R : f[n] \in Nat
  BY <1>2 DEF Maps
<1>4. Len(Append(m, y)) = n + 1
  OBVIOUS
<1>5. ASSUME NEW f \in R
      PROVE  /\ Begins(f, m) => (f[n] \in H <=> f[n] < y \/ f[n] = y)
             /\ Begins(f, Append(m, y)) => f[n + 1] \in In
  BY <1>3
<1> HIDE DEF n
<1>6. ASSUME NEW f \in R
      PROVE  Precedent(f, m) \/ (Begins(f, m) /\ f[n] \in H) <=>
             Precedent(f, Append(m, y)) \/ (Begins(f, Append(m, y)) /\ f[n + 1] \in In)
  BY <1>1, <1>5
<1> QED BY <1>4, <1>6 DEF PassedBy, n

\* The first i elements of a set.
Earliest(T, i) == {Ascending(T)[j] : j \in 1..i}

\* They are the smallest.
LEMMA EarliestFacts ==
  ASSUME NEW T \in SUBSET Nat, IsFiniteSet(T), NEW i \in 1..Cardinality(T),
         NEW y, y = Ascending(T)[i]
  PROVE  /\ y \in T /\ y \notin Earliest(T, i - 1) /\ Earliest(T, i) = Earliest(T, i - 1) \union {y}
         /\ \A x \in T : x \in Earliest(T, i - 1) <=> x < y
         /\ \A x \in T : x \in Earliest(T, i) <=> x <= y
<1> DEFINE n == Cardinality(T)
           Low(x) == {z \in T : z <= x}
           a == Ascending(T)
<1>1. /\ n \in Nat /\ \A k \in 1..n : a[k] \in T /\ Cardinality(Low(a[k])) = k
      /\ \A x \in T : \A k \in 1..n : Cardinality(Low(x)) = k => a[k] = x
  BY AscendingFacts
<1>2. \A x \in T : IsFiniteSet(Low(x)) /\ Cardinality(Low(x)) \in Nat
  BY FS_Subset, FS_CardinalityType
<1>3. ASSUME NEW x \in T, NEW z \in T, x < z PROVE Cardinality(Low(x)) < Cardinality(Low(z))
  <2>1. x \in Nat /\ z \in Nat
    OBVIOUS
  <2>2. Low(x) \in SUBSET Low(z) /\ z \in Low(z) /\ z \notin Low(x)
    <3>1. \A w \in T : w \in Nat /\ (w <= x => w <= z)
      BY <1>3, <2>1
    <3>2. ~(z <= x) /\ z <= z
      BY <1>3, <2>1
    <3> QED BY <3>1, <3>2
  <2> HIDE DEF Low
  <2>3. Cardinality(Low(x)) <= Cardinality(Low(z)) /\ Cardinality(Low(x)) # Cardinality(Low(z))
    BY <1>2, <2>2, FS_Subset
  <2> QED BY <1>2, <2>3
<1>4. ASSUME NEW x \in T PROVE Cardinality(Low(x)) \in 1..n
  <2>1. Low(x) \in SUBSET T /\ x \in Low(x)
    OBVIOUS
  <2> HIDE DEF Low
  <2>2. Cardinality(Low(x)) <= n
    BY <2>1, FS_Subset
  <2>3. Cardinality(Low(x)) # 0
    BY <1>2, <2>1, FS_EmptySet
  <2> QED BY <1>1, <1>2, <2>2, <2>3
<1>5. y \in T /\ Cardinality(Low(y)) = i /\ i \in Nat
  BY <1>1
<1>6. ASSUME NEW x \in T, NEW j \in {i - 1, i}
      PROVE  x \in Earliest(T, j) <=> Cardinality(Low(x)) <= j
  <2>1. ASSUME NEW k \in 1..j, x = a[k] PROVE Cardinality(Low(x)) <= j
    <3>1. k \in 1..n
      BY <1>1
    <3>2. Cardinality(Low(x)) = k
      BY <1>1, <2>1, <3>1
    <3> HIDE DEF Low, a
    <3> QED BY <1>5, <3>2
  <2>2. ASSUME Cardinality(Low(x)) <= j PROVE Cardinality(Low(x)) \in 1..j
    <3> HIDE DEF Low
    <3> QED BY <1>4, <1>5, <2>2
  <2>3. Cardinality(Low(x)) \in 1..n /\ a[Cardinality(Low(x))] = x
    BY <1>1, <1>4
  <2> HIDE DEF Low
  <2> QED BY <2>1, <2>2, <2>3 DEF Earliest, a
<1>7. ASSUME NEW x \in T
      PROVE  /\ Cardinality(Low(x)) <= i - 1 <=> x < y
             /\ Cardinality(Low(x)) <= i <=> x <= y
  <2>1. x < y => Cardinality(Low(x)) < i
    BY <1>3, <1>5
  <2>2. y < x => i < Cardinality(Low(x))
    BY <1>3, <1>5
  <2>3. x \in Nat /\ y \in Nat /\ (x = y => Cardinality(Low(x)) = i)
    BY <1>5
  <2> HIDE DEF Low
  <2> QED BY <1>2, <1>5, <2>1, <2>2, <2>3
<1> HIDE DEF Low
<1>8. \A x \in T : (x \in Earliest(T, i - 1) <=> x < y) /\ (x \in Earliest(T, i) <=> x <= y)
  BY <1>6, <1>7
<1>9. y \notin Earliest(T, i - 1)
  BY <1>5, <1>8
<1>10. Earliest(T, i) = Earliest(T, i - 1) \union {y}
  <2>1. \A j : j \in 1..i <=> j \in 1..(i - 1) \/ j = i
    BY <1>5
  <2> QED BY <2>1 DEF Earliest, a
<1> QED BY <1>5, <1>8, <1>9, <1>10

\* All of them, or none.
LEMMA EarliestOfAll ==
  ASSUME NEW T \in SUBSET Nat, IsFiniteSet(T)
  PROVE  Earliest(T, Cardinality(T)) = T /\ Earliest(T, 0) = {}
<1> DEFINE n == Cardinality(T)
           Low(x) == {z \in T : z <= x}
<1>1. /\ n \in Nat /\ \A k \in 1..n : Ascending(T)[k] \in T
      /\ \A x \in T : \A k \in 1..n : Cardinality(Low(x)) = k => Ascending(T)[k] = x
  BY AscendingFacts
<1>2. ASSUME NEW x \in T PROVE Cardinality(Low(x)) \in 1..n
  <2>1. Low(x) \in SUBSET T /\ x \in Low(x)
    OBVIOUS
  <2> HIDE DEF Low
  <2>2. Cardinality(Low(x)) <= n /\ IsFiniteSet(Low(x)) /\ Cardinality(Low(x)) \in Nat
    BY <2>1, FS_Subset, FS_CardinalityType
  <2>3. Cardinality(Low(x)) # 0
    BY <2>1, <2>2, FS_EmptySet
  <2> QED BY <1>1, <2>2, <2>3
<1> HIDE DEF Low, n
<1>3. 1..0 = {}
  OBVIOUS
<1> QED BY <1>1, <1>2, <1>3 DEF Earliest, n

(***************************************************************************)
(* Restrictions and candidates.                                            *)
(***************************************************************************)
\* restricts_to_str adds to the restrictions what follows by transitivity, at most.
LEMMA RestrictsFollow ==
  ASSUME NEW size \in Nat, NEW restricts,
         \A p \in restricts : p[1] \in 0..(size - 1) /\ p[2] \in 0..(size - 1),
         NEW L, \A p \in restricts : <<p[2], p[1]>> \in L,
         \A a, b, c \in 0..(size - 1) : <<a, b>> \in L /\ <<b, c>> \in L => <<a, c>> \in L
  PROVE  /\ restricts_to_str(restricts, size) \subseteq L
         /\ \A p \in restricts : <<p[2], p[1]>> \in restricts_to_str(restricts, size)
<1> DEFINE V == 0..(size - 1)
           X == SUBSET (V \X V)
           base == {<<p[2], p[1]>> : p \in restricts}
           seq == [i \in 1..size |-> i - 1]
           Step(mat, v) == mat \union {<<p[2], above[2]>> : p \in {q \in restricts : q[1] = v},
                                                           above \in {a \in mat : a[1] = v}}
           Is(g) == g = [S \in SUBSET (1..size) |->
                           IF S = {} THEN base ELSE Step(g[S \ {Max(S)}], seq[Max(S)])]
           G == [p \in X \X (1..size) |-> Step(p[1], seq[p[2]])]
           h == CHOOSE g : Is(g)
           Inv == {p \in X \X Nat : base \subseteq p[1] /\ p[1] \subseteq L}
<1>1. Len(seq) = size /\ \A i \in 1..size : seq[i] \in V
  OBVIOUS
<1>2. restricts_to_str(restricts, size) = h[1..size]
  BY <1>1 DEF restricts_to_str, FoldLeft, MapThenFoldSet
<1>3. base \in X
  OBVIOUS
<1>4. ASSUME NEW mat \in X, NEW v \in V PROVE Step(mat, v) \in X
  OBVIOUS
<1>5. ASSUME NEW mat \in X, NEW v \in V, base \subseteq mat, mat \subseteq L
      PROVE  base \subseteq Step(mat, v) /\ Step(mat, v) \subseteq L
  <2> SUFFICES ASSUME NEW p \in restricts, NEW a \in mat, p[1] = v, a[1] = v
               PROVE  <<p[2], a[2]>> \in L
    BY <1>5
  <2>1. a = <<v, a[2]>> /\ a[2] \in V /\ p[2] \in V
    OBVIOUS
  <2>2. <<p[2], v>> \in L /\ <<v, a[2]>> \in L
    BY <1>5, <2>1
  <2> QED BY <2>1, <2>2
<1> HIDE DEF Step, seq, V, base
<1>6. G \in [X \X (1..size) -> X]
  BY <1>1, <1>4
<1>7. \A mat \in X : \A i \in 1..size : G[<<mat, i>>] = Step(mat, seq[i])
  OBVIOUS
<1>8. \E g : Is(g)
  <2>1. PICK g \in [SUBSET (1..size) -> X] : IsFold(g, size, base, G)
    <3> HIDE DEF G, X
    <3> QED BY <1>3, <1>6, FoldExists
  <2> HIDE DEF G, X
  <2>2. \A S \in SUBSET (1..size) :
          S # {} => S \ {Max(S)} \in SUBSET (1..size) /\ Max(S) \in 1..size
    BY LargestOf
  <2>3. \A S \in SUBSET (1..size) :
          g[S] = IF S = {} THEN base ELSE Step(g[S \ {Max(S)}], seq[Max(S)])
    BY <1>7, <2>1, <2>2 DEF IsFold
  <2>4. Is(g)
    BY <2>1, <2>3
  <2> QED BY <2>4
<1> HIDE DEF h
<1>9. Is(h)
  BY <1>8 DEF h
<1>10. IsFoldIn(h, size, X, base, G)
  <2>1. \A S \in SUBSET (1..size) : S # {} => Max(S) \in 1..size
    BY LargestOf
  <2> HIDE DEF G, X
  <2>2. \A S \in SUBSET (1..size) :
          S # {} /\ h[S \ {Max(S)}] \in X => h[S] = G[<<h[S \ {Max(S)}], Max(S)>>]
    BY <1>7, <1>9, <2>1
  <2> QED BY <1>9, <2>2 DEF IsFoldIn
<1>11. <<base, 0>> \in Inv
  <2>1. base \subseteq L
    BY DEF base
  <2> QED BY <1>3, <2>1
<1>12. KeptBy(Inv, size, X, G)
  <2> SUFFICES ASSUME NEW mat \in X, NEW i \in 1..size, <<mat, i - 1>> \in Inv
               PROVE  <<G[<<mat, i>>], i>> \in Inv
    BY DEF KeptBy
  <2>1. base \subseteq mat /\ mat \subseteq L
    OBVIOUS
  <2>2. /\ Step(mat, seq[i]) \in X
        /\ base \subseteq Step(mat, seq[i]) /\ Step(mat, seq[i]) \subseteq L
    BY <1>1, <1>4, <1>5, <2>1
  <2> QED BY <1>7, <2>2
<1> HIDE DEF G, X, Is
<1>13. h[1..size] \in X /\ <<h[1..size], size>> \in Inv
  <2> HIDE DEF Inv
  <2> QED BY <1>3, <1>6, <1>10, <1>11, <1>12, FoldInduction
<1> QED BY <1>2, <1>13 DEF base

(***************************************************************************)
(* Candidates are what the maps of the pattern may continue with.          *)
(***************************************************************************)
\* Vertex x may match v when y matches the earlier u.
Fit(x, y, v, u) ==
  /\ IF <<u, v>> \in input.edges THEN x \in graph[y]
     ELSE x # y /\ (Vertex => x \notin graph[y])
  /\ <<v, u>> \in restricts_to_str(input.restricts, input.size) => x < y

\* Those of an operation fit the vertices matched to the loops up to its own.
LEMMA CandidatesFit ==
  ASSUME NEW op, NEW v, NEW d \in Nat, SetOf(op, input, v, d), NEW m
  PROVE  Candidates(op, m) = {x \in DOMAIN graph : \A u \in 0..d : Fit(x, m[u + 1], v, u)}
BY DEF SetOf, Candidates, Fit

\* The loops up to the innermost match vertices, the others are left to inclusion-exclusion.
LEMMA InnermostFacts ==
  ASSUME input \in Inputs
  PROVE  /\ Innermost(input) = LastLoop /\ LastLoop \in Nat /\ LastLoop <= input.size - 2
         /\ Vertex => LastLoop = input.size - 2
         /\ iep_num <= 1 => LastLoop = input.size - 2
         /\ iep_num > 1 => /\ iep_num = input.iep.num /\ LastLoop = input.size - iep_num - 1
                           /\ input.matType = "EdgeInducedIEP"
         /\ iep_num \in Nat
<1>1. /\ input.size \in Nat /\ input.size >= 3 /\ input.iep.num \in 0..(input.size - 1)
  BY PlanAssumption DEF Scheduled
<1> DEFINE s == input.size
           n == input.iep.num
           I == input.matType = "EdgeInducedIEP"
<1>2. iep_num = IF I THEN n ELSE 0
  BY DEF iep_num
<1>3. LastLoop = IF iep_num > 1 THEN s - iep_num - 1 ELSE s - 2
  BY DEF LastLoop, iep_depth
<1>4. Innermost(input) = IF I /\ n > 1 THEN s - n - 1 ELSE s - 2
  BY DEF Innermost
<1>5. Vertex => ~I
  BY DEF Vertex
<1> HIDE DEF s, n, I
<1>6. s \in Nat /\ s >= 3 /\ n \in 0..(s - 1)
  BY <1>1 DEF s, n
<1> QED BY <1>2, <1>3, <1>4, <1>5, <1>6 DEF s, n, I

\* What fits is different.
LEMMA FitDiffers ==
  ASSUME GraphOK, NEW x \in DOMAIN graph, NEW y \in DOMAIN graph, NEW v, NEW u, Fit(x, y, v, u)
  PROVE  x # y
BY DEF Fit, GraphOK

\* Restricted matches are the maps in which every vertex fits the matched ones before it
\* and differs from the others.
Follows(f, v, u) == f[v] # f[u] /\ (u <= LastLoop => Fit(f[v], f[u], v, u))

LEMMA RestrictedFit ==
  ASSUME GraphOK, input \in Inputs, SchedulesFit
  PROVE  Restricted(input, graph) =
           {f \in [0..(input.size - 1) -> DOMAIN graph] :
              \A v \in 1..(input.size - 1) : \A u \in 0..(v - 1) : Follows(f, v, u)}
<1> DEFINE s == input.size
           R == input.restricts
           C == restricts_to_str(R, s)
<1>1. /\ s \in Nat /\ \A p \in R : p[1] \in 0..(s - 1) /\ p[2] \in 0..(s - 1) /\ p[1] < p[2]
      /\ \A e \in input.edges : e[1] < e[2] => e[1] <= Innermost(input)
  BY InputFacts DEF Scheduled, SchedulesFit, ScheduleFits
<1>2. /\ Innermost(input) = LastLoop /\ LastLoop \in Nat /\ LastLoop <= s - 2
      /\ Vertex => LastLoop = s - 2
  BY InnermostFacts
<1>3. \A p \in C : p = <<p[1], p[2]>> /\ p[1] \in 0..(s - 1) /\ p[2] \in 0..(s - 1) /\ p[2] < p[1]
  <2> DEFINE L == {p \in (0..(s - 1)) \X (0..(s - 1)) : p[2] < p[1]}
  <2>1. /\ \A p \in R : <<p[2], p[1]>> \in L
        /\ \A a, b, c \in 0..(s - 1) : <<a, b>> \in L /\ <<b, c>> \in L => <<a, c>> \in L
    BY <1>1
  <2>2. \A p \in L : p = <<p[1], p[2]>> /\ p[1] \in 0..(s - 1) /\ p[2] \in 0..(s - 1) /\ p[2] < p[1]
    OBVIOUS
  <2> HIDE DEF L, R, s
  <2>3. C \subseteq L
    BY <1>1, <2>1, RestrictsFollow
  <2> QED BY <2>2, <2>3
<1> HIDE DEF s, R
<1> SUFFICES ASSUME NEW f \in [0..(s - 1) -> DOMAIN graph]
             PROVE  f \in Restricted(input, graph) <=>
                    \A v \in 1..(s - 1) : \A u \in 0..(v - 1) : Follows(f, v, u)
  BY DEF Restricted, Matches, s
<1>4. ASSUME f \in Restricted(input, graph), NEW v \in 1..(s - 1), NEW u \in 0..(v - 1)
      PROVE  Follows(f, v, u)
  <2>1. v \in DOMAIN f /\ u \in DOMAIN f
    BY <1>1
  <2>2. /\ f[v] # f[u]
        /\ <<u, v>> \in input.edges => f[v] \in graph[f[u]]
        /\ Vertex /\ <<u, v>> \notin input.edges => f[v] \notin graph[f[u]]
    BY <1>4, <2>1 DEF Restricted, Matches, Vertex
  <2>3. <<v, u>> \in C /\ u <= LastLoop => f[v] < f[u]
    BY <1>2, <1>4 DEF Restricted, s, R
  <2> QED BY <2>2, <2>3 DEF Fit, Follows, s, R
<1>5. ASSUME \A v \in 1..(s - 1) : \A u \in 0..(v - 1) : Follows(f, v, u)
      PROVE  f \in Restricted(input, graph)
  <2>1. ASSUME NEW u \in DOMAIN f, NEW w \in 0..(u - 1)
        PROVE  /\ f[u] # f[w]
               /\ <<w, u>> \in input.edges => f[u] \in graph[f[w]]
               /\ Vertex /\ <<w, u>> \notin input.edges => f[u] \notin graph[f[w]]
    <3>1. u \in 1..(s - 1) /\ w \in 0..(s - 1) /\ w < u
      BY <1>1
    <3>2. Follows(f, u, w)
      BY <1>5, <3>1
    <3>3. <<w, u>> \in input.edges => w <= LastLoop
      BY <1>1, <1>2, <3>1
    <3>4. Vertex => w <= LastLoop
      BY <1>1, <1>2, <3>1
    <3> QED BY <3>2, <3>3, <3>4 DEF Follows, Fit
  <2>2. ASSUME NEW p \in C, p[2] <= Innermost(input) PROVE f[p[1]] < f[p[2]]
    <3>1. p[1] \in 1..(s - 1) /\ p[2] \in 0..(p[1] - 1) /\ <<p[1], p[2]>> \in C
      BY <1>1, <1>3
    <3>2. Follows(f, p[1], p[2])
      BY <1>5, <3>1
    <3> QED BY <1>2, <2>2, <3>1, <3>2 DEF Follows, Fit, s, R
  <2> QED BY <2>1, <2>2 DEF Restricted, Matches, s, R, Vertex
<1> QED BY <1>4, <1>5

\* What continues a restricted match is a candidate of every later vertex.
LEMMA MapFits ==
  ASSUME GraphOK, input \in Inputs, SchedulesFit,
         NEW f \in Restricted(input, graph), NEW d \in Nat, d <= LastLoop,
         NEW v \in (d + 1)..(input.size - 1),
         NEW op, SetOf(op, input, v, d), NEW m, Len(m) = d + 1, Begins(f, m)
  PROVE  f[v] \in Candidates(op, m)
<1>1. input.size \in Nat /\ LastLoop \in Nat
  BY InputFacts, InnermostFacts
<1>2. /\ f \in [0..(input.size - 1) -> DOMAIN graph]
      /\ \A u \in 0..(v - 1) : Follows(f, v, u)
  BY <1>1, RestrictedFit
<1>3. ASSUME NEW u \in 0..d PROVE u \in 0..(v - 1) /\ u <= LastLoop /\ f[u] = m[u + 1]
  BY <1>1 DEF Begins
<1>4. v \in 0..(input.size - 1)
  BY <1>1
<1>5. \A u \in 0..d : Fit(f[v], m[u + 1], v, u)
  BY <1>2, <1>3 DEF Follows
<1> QED BY <1>2, <1>4, <1>5, CandidatesFit

\* The matched vertices fit one another.
Fitting(m) == \A v \in 1..(Len(m) - 1) : \A u \in 0..(v - 1) : Fit(m[v + 1], m[u + 1], v, u)

\* So they do with one more that is a candidate.
LEMMA FittingNext ==
  ASSUME NEW D, NEW m \in Seq(D), NEW n \in Nat, Len(m) = n, n # 0, Fitting(m),
         NEW op, SetOf(op, input, n, n - 1), NEW y \in Candidates(op, m)
  PROVE  Fitting(Append(m, y))
<1>1. n - 1 \in Nat
  OBVIOUS
<1>2. \A u \in 0..(n - 1) : Fit(y, m[u + 1], n, u)
  BY <1>1, CandidatesFit
<1> DEFINE ms == Append(m, y)
<1>3. Len(ms) = n + 1 /\ ms[n + 1] = y /\ \A u \in 0..(n - 1) : ms[u + 1] = m[u + 1]
  OBVIOUS
<1> HIDE DEF ms
<1> SUFFICES ASSUME NEW v \in 1..n, NEW u \in 0..(v - 1) PROVE Fit(ms[v + 1], ms[u + 1], v, u)
  BY <1>3 DEF Fitting, ms
<1>4. u \in 0..(n - 1)
  OBVIOUS
<1>5. CASE v = n
  BY <1>2, <1>3, <1>4, <1>5
<1>6. CASE v # n
  <2>1. v \in 1..(n - 1) /\ v \in 0..(n - 1)
    BY <1>6
  <2> QED BY <1>3, <1>4, <2>1 DEF Fitting
<1> QED BY <1>5, <1>6

\* When all vertices but the last are matched, the maps that begin with them are as many
\* as the candidates of the last.
LEMMA LastCounted ==
  ASSUME GraphOK, input \in Inputs, SchedulesFit,
         LastLoop = input.size - 2,
         NEW m \in Seq(DOMAIN graph), Len(m) = input.size - 1, Fitting(m),
         NEW op, SetOf(op, input, input.size - 1, input.size - 2)
  PROVE  LET More == {f \in Restricted(input, graph) : Begins(f, m)}
         IN IsFiniteSet(More) /\ Cardinality(More) = Cardinality(Candidates(op, m))
<1> DEFINE s == input.size
           C == Candidates(op, m)
           R == Restricted(input, graph)
           More == {f \in R : Begins(f, m)}
           Map(x) == [u \in 0..(s - 1) |-> IF u = s - 1 THEN x ELSE m[u + 1]]
           g == [x \in C |-> Map(x)]
<1>1. s \in Nat /\ s >= 3
  BY InputFacts
<1>2. /\ C = {x \in DOMAIN graph : \A u \in 0..(s - 2) : Fit(x, m[u + 1], s - 1, u)}
      /\ IsFiniteSet(C)
  <2>1. s - 2 \in Nat
    BY <1>1
  <2>2. C = {x \in DOMAIN graph : \A u \in 0..(s - 2) : Fit(x, m[u + 1], s - 1, u)}
    BY <2>1, CandidatesFit
  <2> HIDE DEF C
  <2>3. IsFiniteSet(C)
    BY <2>2, GraphFacts
  <2> QED BY <2>2, <2>3
<1>3. R = {f \in [0..(s - 1) -> DOMAIN graph] :
             \A v \in 1..(s - 1) : \A u \in 0..(v - 1) : Fit(f[v], f[u], v, u)}
  <2>1. \A v \in 1..(s - 1) : \A u \in 0..(v - 1) :
          u <= LastLoop /\ u \in 0..(s - 1) /\ v \in 0..(s - 1)
    BY <1>1
  <2>2. R = {f \in [0..(s - 1) -> DOMAIN graph] :
               \A v \in 1..(s - 1) : \A u \in 0..(v - 1) : Follows(f, v, u)}
    BY RestrictedFit
  <2> HIDE DEF R, s
  <2>3. ASSUME NEW f \in [0..(s - 1) -> DOMAIN graph], NEW v \in 1..(s - 1), NEW u \in 0..(v - 1)
        PROVE  Follows(f, v, u) <=> Fit(f[v], f[u], v, u)
    BY <2>1, FitDiffers DEF Follows
  <2> QED BY <2>2, <2>3
<1>4. /\ \A u \in 0..(s - 2) : m[u + 1] \in DOMAIN graph
      /\ \A v \in 1..(s - 2) : \A u \in 0..(v - 1) : Fit(m[v + 1], m[u + 1], v, u)
  <2> HIDE DEF C, R, Map
  <2>1. Len(m) = s - 1
    OBVIOUS
  <2> HIDE DEF s
  <2>2. \A u \in 0..(s - 2) : u + 1 \in 1..Len(m)
    BY <1>1, <2>1
  <2>3. \A u \in 0..(s - 2) : m[u + 1] \in DOMAIN graph
    BY <2>2
  <2>4. Len(m) - 1 = s - 2
    BY <1>1, <2>1
  <2>5. \A v \in 1..(s - 2) : \A u \in 0..(v - 1) : Fit(m[v + 1], m[u + 1], v, u)
    BY <2>4 DEF Fitting
  <2> QED BY <2>3, <2>5
<1>5. \A f : Begins(f, m) <=> \A u \in 0..(s - 2) : f[u] = m[u + 1]
  BY <1>1 DEF Begins
<1> HIDE DEF s, C, R
<1>6. ASSUME NEW x \in C PROVE Map(x) \in More
  <2> DEFINE f == Map(x)
  <2>1. /\ f \in [0..(s - 1) -> DOMAIN graph] /\ f[s - 1] = x
        /\ \A u \in 0..(s - 2) : f[u] = m[u + 1]
    BY <1>1, <1>2, <1>4
  <2> HIDE DEF f
  <2>2. ASSUME NEW v \in 1..(s - 1), NEW u \in 0..(v - 1) PROVE Fit(f[v], f[u], v, u)
    <3>1. u \in 0..(s - 2)
      BY <1>1
    <3>2. CASE v = s - 1
      BY <1>2, <2>1, <3>1, <3>2
    <3>3. CASE v # s - 1
      <4>1. v \in 1..(s - 2) /\ v \in 0..(s - 2)
        BY <1>1, <3>3
      <4> QED BY <1>4, <2>1, <3>1, <4>1
    <3> QED BY <3>2, <3>3
  <2>3. f \in R /\ Begins(f, m)
    BY <1>3, <1>5, <2>1, <2>2
  <2> QED BY <2>3 DEF f
<1>7. ASSUME NEW f \in More PROVE f[s - 1] \in C /\ f = Map(f[s - 1])
  <2>1. /\ f \in [0..(s - 1) -> DOMAIN graph]
        /\ \A v \in 1..(s - 1) : \A u \in 0..(v - 1) : Fit(f[v], f[u], v, u)
        /\ \A u \in 0..(s - 2) : f[u] = m[u + 1]
    BY <1>3, <1>5
  <2>2. s - 1 \in 1..(s - 1) /\ s - 1 \in 0..(s - 1) /\ (s - 1) - 1 = s - 2
    BY <1>1
  <2>3. f[s - 1] \in C
    BY <1>2, <2>1, <2>2
  <2>4. \A u \in 0..(s - 1) : u = s - 1 \/ u \in 0..(s - 2)
    BY <1>1
  <2> QED BY <2>1, <2>3, <2>4
<1>8. ASSUME NEW x \in C PROVE Map(x)[s - 1] = x
  BY <1>1
<1>9. g \in Bijection(C, More)
  <2>1. g \in [C -> More]
    BY <1>6
  <2>2. \A a, b \in C : g[a] = g[b] => a = b
    BY <1>8
  <2>3. \A f \in More : \E x \in C : g[x] = f
    BY <1>7
  <2> HIDE DEF More, g, Map
  <2> QED BY <2>1, <2>2, <2>3 DEF Bijection, Injection, Surjection, IsInjective
<1>10. IsFiniteSet(More) /\ Cardinality(More) = Cardinality(C)
  <2> HIDE DEF More, g
  <2> QED BY <1>2, <1>9, FS_Bijection DEF ExistsBijection
<1> QED BY <1>10 DEF C, R

\* The vertices that fit those matched to all loops.
Continuing(m, v) == {x \in DOMAIN graph : \A u \in 0..LastLoop : Fit(x, m[u + 1], v, u)}

\* When those are matched, the maps that begin with them are as many as the choices of
\* different vertices for the others.
LEMMA LastIncluded ==
  ASSUME GraphOK, input \in Inputs, SchedulesFit, iep_num > 1,
         NEW m \in Seq(DOMAIN graph), Len(m) = LastLoop + 1, Fitting(m), NEW e,
         \A k \in 0..(iep_num - 1) : e.sets[code.iep[k]] = Continuing(m, LastLoop + 1 + k),
         IsFiniteSet(Unequal(e))
  PROVE  LET More == {f \in Restricted(input, graph) : Begins(f, m)}
         IN IsFiniteSet(More) /\ Cardinality(More) = Cardinality(Unequal(e))
<1> DEFINE s == input.size
           d == LastLoop
           K == 0..(iep_num - 1)
           R == Restricted(input, graph)
           More == {f \in R : Begins(f, m)}
           Map(t) == [u \in 0..(s - 1) |-> IF u <= d THEN m[u + 1] ELSE t[u - d - 1]]
           g == [t \in Unequal(e) |-> Map(t)]
<1>1. /\ s \in Nat /\ d \in Nat /\ iep_num \in Nat /\ iep_num = input.iep.num
      /\ d = s - iep_num - 1
  BY InputFacts, InnermostFacts
<1>2. R = {f \in [0..(s - 1) -> DOMAIN graph] :
             \A v \in 1..(s - 1) : \A u \in 0..(v - 1) : Follows(f, v, u)}
  BY RestrictedFit
<1>3. \A t : t \in Unequal(e) <=>
        /\ t \in [K -> DOMAIN graph] /\ \A k \in K : t[k] \in Continuing(m, d + 1 + k)
        /\ \A j, k \in K : t[j] = t[k] => j = k
  <2>1. \A t \in [K -> DOMAIN graph] : DOMAIN t = K
    OBVIOUS
  <2> QED BY <1>1, <2>1 DEF Unequal, Picks, IsInjective
<1>4. \A f : Begins(f, m) <=> \A u \in 0..d : f[u] = m[u + 1]
  BY <1>1 DEF Begins
<1>5. /\ \A u \in 0..d : m[u + 1] \in DOMAIN graph
      /\ \A v \in 1..d : \A u \in 0..(v - 1) : Fit(m[v + 1], m[u + 1], v, u)
  BY <1>1 DEF Fitting
<1>6. /\ \A v \in 0..(s - 1) :
           \/ v \in 0..d /\ v <= d
           \/ ~(v <= d) /\ v - d - 1 \in K /\ v = d + 1 + (v - d - 1)
      /\ \A k \in K : /\ d + 1 + k \in 1..(s - 1) /\ d + 1 + k \in 0..(s - 1)
                      /\ ~(d + 1 + k <= d) /\ (d + 1 + k) - d - 1 = k
                      /\ \A u \in 0..d : u \in 0..((d + 1 + k) - 1)
      /\ \A u \in 0..d : u <= d /\ u \in 0..(s - 1)
  <2> DEFINE n == iep_num
  <2>1. /\ s \in Nat /\ d \in Nat /\ n \in Nat /\ d = s - n - 1 /\ K = 0..(n - 1)
    BY <1>1
  <2> HIDE DEF s, d, n, K, Map, R
  <2>2. ASSUME NEW v \in 0..(s - 1)
        PROVE  \/ v \in 0..d /\ v <= d
               \/ ~(v <= d) /\ v - d - 1 \in K /\ v = d + 1 + (v - d - 1)
    BY <2>1
  <2>3. ASSUME NEW k \in K
        PROVE  /\ d + 1 + k \in 1..(s - 1) /\ d + 1 + k \in 0..(s - 1)
               /\ ~(d + 1 + k <= d) /\ (d + 1 + k) - d - 1 = k
               /\ \A u \in 0..d : u \in 0..((d + 1 + k) - 1)
    BY <2>1
  <2>4. \A u \in 0..d : u <= d /\ u \in 0..(s - 1)
    BY <2>1
  <2> QED BY <2>2, <2>3, <2>4
<1> HIDE DEF s, d, R
<1>12. K \in SUBSET Nat
  OBVIOUS
<1> HIDE DEF K
<1>7. ASSUME NEW t \in Unequal(e) PROVE Map(t) \in More
  <2> DEFINE f == Map(t)
  <2>1. t \in [K -> DOMAIN graph] /\ \A k \in K : t[k] \in Continuing(m, d + 1 + k)
    BY <1>3
  <2>2. /\ \A u \in 0..d : f[u] = m[u + 1]
        /\ \A k \in K : f[d + 1 + k] = t[k]
    BY <1>6
  <2>3. f \in [0..(s - 1) -> DOMAIN graph]
    <3>1. ASSUME NEW u \in 0..(s - 1) PROVE f[u] \in DOMAIN graph
      <4>1. CASE u \in 0..d
        BY <1>5, <2>2, <4>1
      <4>2. CASE u - d - 1 \in K /\ u = d + 1 + (u - d - 1)
        BY <2>1, <2>2, <4>2
      <4> HIDE DEF f
      <4> QED BY <1>6, <4>1, <4>2
    <3> QED BY <3>1
  <2> HIDE DEF f
  <2>4. ASSUME NEW v \in 1..(s - 1), NEW u \in 0..(v - 1) PROVE Follows(f, v, u)
    <3>1. /\ v \in 0..(s - 1) /\ u \in 0..(s - 1) /\ u # v
          /\ v \in 0..d => v \in 1..d /\ u \in 0..d
      BY <1>1
    <3>2. f[v] \in DOMAIN graph /\ f[u] \in DOMAIN graph
      BY <2>3, <3>1
    <3>3. CASE v \in 0..d
      <4>1. Fit(f[v], f[u], v, u)
        BY <1>5, <2>2, <3>1, <3>3
      <4> QED BY <3>2, <4>1, FitDiffers DEF Follows
    <3>4. CASE v - d - 1 \in K /\ v = d + 1 + (v - d - 1) /\ u \in 0..d
      <4>1. f[v] \in Continuing(m, v)
        BY <2>1, <2>2, <3>4
      <4>2. Fit(f[v], f[u], v, u)
        BY <2>2, <3>4, <4>1 DEF Continuing, d
      <4> QED BY <3>2, <4>2, FitDiffers DEF Follows
    <3>5. CASE /\ v - d - 1 \in K /\ v = d + 1 + (v - d - 1)
               /\ ~(u <= d) /\ u - d - 1 \in K /\ u = d + 1 + (u - d - 1)
      <4>1. v - d - 1 # u - d - 1
        BY <3>1, <3>5
      <4>2. f[v] = t[v - d - 1] /\ f[u] = t[u - d - 1]
        BY <2>2, <3>5
      <4>3. f[v] # f[u]
        BY <1>3, <3>5, <4>1, <4>2
      <4> QED BY <3>5, <4>3 DEF Follows, d
    <3> QED BY <1>6, <3>1, <3>3, <3>4, <3>5
  <2>5. f \in R /\ Begins(f, m)
    BY <1>2, <1>4, <2>2, <2>3, <2>4
  <2> QED BY <2>5 DEF f
<1>8. ASSUME NEW f \in More PROVE \E t \in Unequal(e) : f = Map(t)
  <2> DEFINE t == [k \in K |-> f[d + 1 + k]]
  <2>1. /\ f \in [0..(s - 1) -> DOMAIN graph]
        /\ \A v \in 1..(s - 1) : \A u \in 0..(v - 1) : Follows(f, v, u)
        /\ \A u \in 0..d : f[u] = m[u + 1]
    BY <1>2, <1>4
  <2>2. t \in [K -> DOMAIN graph] /\ \A k \in K : t[k] = f[d + 1 + k]
    BY <1>6, <2>1
  <2> HIDE DEF t
  <2>3. ASSUME NEW k \in K PROVE t[k] \in Continuing(m, d + 1 + k)
    <3>1. ASSUME NEW u \in 0..d PROVE Fit(f[d + 1 + k], m[u + 1], d + 1 + k, u)
      <4>1. d + 1 + k \in 1..(s - 1) /\ \A w \in 0..d : w \in 0..((d + 1 + k) - 1)
        BY <1>6
      <4>2. u \in 0..((d + 1 + k) - 1)
        BY <4>1
      <4>3. Follows(f, d + 1 + k, u)
        BY <2>1, <4>1, <4>2, Zenon
      <4> QED BY <1>6, <2>1, <4>3 DEF Follows, d
    <3> QED BY <2>2, <3>1 DEF Continuing, d
  <2>4. ASSUME NEW j \in K, NEW k \in K, j < k PROVE t[j] # t[k]
    <3>1. PICK v, u : v = d + 1 + k /\ u = d + 1 + j
      OBVIOUS
    <3>2. v \in 1..(s - 1) /\ u \in 0..(v - 1)
      <4>1. v \in 1..(s - 1)
        BY <1>6, <3>1
      <4>2. j \in Nat /\ k \in Nat
        BY <1>12
      <4>3. d \in Nat /\ v = d + 1 + k /\ u = d + 1 + j /\ j < k
        BY <1>1, <2>4, <3>1
      <4> HIDE DEF Map, g
      <4>4. u \in 0..(v - 1)
        BY <4>2, <4>3
      <4> QED BY <4>1, <4>4
    <3>3. Follows(f, v, u)
      BY <2>1, <3>2
    <3> QED BY <2>2, <3>1, <3>3 DEF Follows
  <2>5. ASSUME NEW j \in K, NEW k \in K, t[j] = t[k] PROVE j = k
    <3>1. j < k \/ k < j \/ j = k
      BY <1>12
    <3> QED BY <2>4, <2>5, <3>1
  <2>6. t \in Unequal(e)
    BY <1>3, <2>2, <2>3, <2>5
  <2>7. f = Map(t)
    <3>1. ASSUME NEW u \in 0..(s - 1)
          PROVE  f[u] = IF u <= d THEN m[u + 1] ELSE t[u - d - 1]
      BY <1>6, <2>1, <2>2
    <3> QED BY <2>1, <3>1
  <2> QED BY <2>6, <2>7
<1>9. ASSUME NEW a \in Unequal(e), NEW b \in Unequal(e), Map(a) = Map(b) PROVE a = b
  <2>1. \A k \in K : Map(a)[d + 1 + k] = a[k] /\ Map(b)[d + 1 + k] = b[k]
    BY <1>6
  <2>2. a \in [K -> DOMAIN graph] /\ b \in [K -> DOMAIN graph]
    BY <1>3
  <2> HIDE DEF Map
  <2>3. \A k \in K : a[k] = b[k]
    BY <1>9, <2>1
  <2> QED BY <2>2, <2>3
<1>10. g \in Bijection(Unequal(e), More)
  <2> HIDE DEF More, Map
  <2>1. g \in [Unequal(e) -> More]
    BY <1>7
  <2>2. \A a, b \in Unequal(e) : g[a] = g[b] => a = b
    BY <1>9
  <2>3. \A f \in More : \E t \in Unequal(e) : g[t] = f
    BY <1>8
  <2> HIDE DEF g
  <2> QED BY <2>1, <2>2, <2>3 DEF Bijection, Injection, Surjection, IsInjective
<1>11. IsFiniteSet(More) /\ Cardinality(More) = Cardinality(Unequal(e))
  <2> HIDE DEF More, g
  <2> QED BY <1>10, FS_Bijection DEF ExistsBijection
<1> QED BY <1>11 DEF R

(***************************************************************************)
(* What an iteration counts.                                               *)
(***************************************************************************)
\* The loop before the last vertex has one operation, whose set is counted; no other loop
\* counts sets.
LEMMA CountingLoop ==
  ASSUME Ready, PlanInv, PlanOrdered, NEW d \in Bodies
  PROVE  /\ d # input.size - 2 => \A s \in ToSet(code.sets[d]) : ~s.counts
         /\ d = input.size - 2 =>
              /\ Len(code.sets[d]) = 1 /\ code.sets[d][1].counts
              /\ SetOf(code.sets[d][1].op, input, input.size - 1, d)
<1>1. /\ PlanTypeOK /\ OperandsDeclared /\ Generated /\ phase # "create_plan"
      /\ input \in Inputs /\ d \in Loops /\ d \in Nat
  BY LoopFacts DEF Ready, Generated, PlanInv
<1>2. input.size \in Nat /\ input.size >= 3
  BY <1>1, InputFacts
<1>4. /\ Len(code.sets[d]) = Len(set_ops[d]) /\ DOMAIN code.sets[d] = 1..Len(code.sets[d])
      /\ \A k \in 1..Len(code.sets[d]) :
           /\ code.sets[d][k] \in ToSet(code.sets[d])
           /\ code.sets[d][k].op = set_ops[d][k] /\ set_ops[d][k] \in ToSet(set_ops[d])
           /\ Formed(code.sets[d][k])
  BY StatementFacts
<1>5. /\ set_ops[d] \in Seq(Ops) /\ LoopPlanned(input, set_ops[d], iter_set[d], d)
      /\ \A op \in ToSet(set_ops[d]) : op.dep = d
  BY <1>1, PlannedOps
<1>6. ASSUME d # input.size - 2, NEW s \in ToSet(code.sets[d]) PROVE ~s.counts
  <2>1. PICK k \in 1..Len(code.sets[d]) : code.sets[d][k] = s
    BY <1>4 DEF ToSet
  <2>2. Formed(s) /\ s.op.dep = d
    BY <1>4, <1>5, <2>1
  <2> QED BY <1>6, <2>2 DEF Formed, is_last_op
<1>7. ASSUME d = input.size - 2
      PROVE  /\ Len(code.sets[d]) = 1 /\ code.sets[d][1].counts
             /\ SetOf(code.sets[d][1].op, input, input.size - 1, d)
  <2> DEFINE n == Len(set_ops[d])
  <2>1. d = input.size - 2
    BY <1>7
  <2>2. \A op \in ToSet(set_ops[d]) : SetOf(op, input, input.size - 1, d)
    <3> SUFFICES ASSUME NEW op \in ToSet(set_ops[d]) PROVE SetOf(op, input, input.size - 1, d)
      OBVIOUS
    <3>1. PICK v \in (d + 1)..(input.size - 1) : SetOf(op, input, v, d)
      BY <1>5 DEF LoopPlanned
    <3>2. v = input.size - 1
      BY <1>2, <2>1
    <3> QED BY <3>1, <3>2
  <2>3. n = 1
    <3>1. n \in Nat /\ DOMAIN set_ops[d] = 1..n
      BY <1>5
    <3>2. iter_set[d] \in ToSet(set_ops[d])
      BY <1>5 DEF LoopPlanned
    <3>3. n # 0
      BY <3>1, <3>2 DEF ToSet
    <3>4. OpsDiffer(set_ops[d])
      BY <1>1, <2>1 DEF PlanOrdered, OpsOrdered
    <3>5. ASSUME n > 1 PROVE FALSE
      <4>1. 1 \in 1..n /\ 2 \in 1..n /\ 1 # 2
        BY <3>1, <3>5
      <4>2. set_ops[d][1] \in ToSet(set_ops[d]) /\ set_ops[d][2] \in ToSet(set_ops[d])
        BY <3>1, <4>1 DEF ToSet
      <4>3. Same(set_ops[d][1], set_ops[d][2])
        BY <2>2, <4>2 DEF SetOf, Same
      <4> QED BY <3>4, <4>1, <4>3 DEF OpsDiffer, n
    <3> HIDE DEF n
    <3> QED BY <3>1, <3>3, <3>5
  <2> DEFINE s == code.sets[d][1]
  <2>4. /\ Len(code.sets[d]) = 1 /\ s \in ToSet(code.sets[d]) /\ s.op \in ToSet(set_ops[d])
        /\ Formed(s)
    <3>1. 1 \in 1..Len(code.sets[d])
      BY <1>4, <2>3
    <3> QED BY <1>4, <2>3, <3>1
  <2>5. s.form # "sibling"
    <3> SUFFICES ASSUME s.form = "sibling" PROVE FALSE
      OBVIOUS
    <3>1. SetFits(s, d)
      BY <1>1, <2>4 DEF OperandsDeclared
    <3>2. PICK p \in SetsTo(d) : p.id = s.from /\ Sibling(p, s.op)
      BY <3>1 DEF SetFits
    <3>3. s.op.dep = d
      BY <1>5, <2>4
    <3>4. StatementFits(s, d)
      BY <2>3 DEF Ready, CodeOf, FitsOf
    <3>5. PICK q \in SetsTo(d) : q.id = s.from /\ ~is_last_op(q)
      BY <3>4 DEF StatementFits
    <3>6. q = p
      BY <1>1, <3>2, <3>5, ScopeFacts
    <3>7. p.dep = d
      BY <3>2, <3>3 DEF Sibling
    <3> QED BY <2>1, <3>5, <3>6, <3>7 DEF is_last_op
  <2>6. s.counts
    <3>1. s.op.dep = d
      BY <1>5, <2>4
    <3> QED BY <2>1, <2>4, <2>5, <3>1 DEF Formed, is_last_op
  <2> QED BY <2>2, <2>4, <2>6
<1> QED BY <1>6, <1>7

\* What inclusion-exclusion reads, once the code is complete.
IepCoded ==
  Generated /\ iep_num > 1 => code.iep = [k \in 0..(iep_num - 1) |-> iep_set(k)]

\* The ids of a loop have a bound.
LEMMA IdsBounded ==
  ASSUME NEW ops \in Seq(Ops)
  PROVE  \E n \in Nat : IdsBelow(ToSet(ops), n)
<1> DEFINE l == Len(ops)
           S == {i \in 0..l : \E n \in Nat : \A j \in 1..i : ops[j].id < n}
<1>1. l \in Nat /\ \A j \in 1..l : ops[j].id \in Nat
  <2>1. \A j \in 1..l : ops[j] \in Ops
    OBVIOUS
  <2> QED BY <2>1 DEF Ops
<1>2. 0 \in S
  OBVIOUS
<1>3. ASSUME NEW i \in 0..(l - 1), i \in S PROVE i + 1 \in S
  <2>1. PICK n \in Nat : \A j \in 1..i : ops[j].id < n
    BY <1>3
  <2>2. i + 1 \in 1..l /\ i + 1 \in 0..l
    BY <1>1
  <2>3. PICK x \in Nat : x = ops[i + 1].id
    BY <1>1, <2>2
  <2>4. n + x + 1 \in Nat /\ x < n + x + 1
    OBVIOUS
  <2>5. ASSUME NEW j \in 1..(i + 1) PROVE ops[j].id < n + x + 1
    <3>1. CASE j = i + 1
      BY <2>3, <2>4, <3>1
    <3>2. CASE j # i + 1
      <4>1. j \in 1..i /\ j \in 1..l
        BY <1>1, <3>2
      <4>2. ops[j].id \in Nat /\ ops[j].id < n
        BY <1>1, <2>1, <4>1
      <4> QED BY <4>2
    <3> QED BY <3>1, <3>2
  <2> QED BY <2>2, <2>4, <2>5
<1>4. l \in S
  <2> HIDE DEF S
  <2>1. 0..l \subseteq S
    BY <1>1, <1>2, <1>3, UpTo
  <2> QED BY <1>1, <2>1
<1>5. PICK n \in Nat : \A j \in 1..l : ops[j].id < n
  BY <1>4
<1>6. \A op \in ToSet(ops) : op.id \in Nat /\ op.id < n
  BY <1>1, <1>5 DEF ToSet
<1> QED BY <1>6 DEF IdsBelow

\* Those are the sets of the vertices that no loop matches.
LEMMA IepSets ==
  ASSUME Generated, PlanInv, SchedulesFit, iep_num > 1, IepCoded, NEW k \in 0..(iep_num - 1)
  PROVE  \E op \in ToSet(set_ops[LastLoop]) :
           code.iep[k] = op.id /\ SetOf(op, input, LastLoop + 1 + k, LastLoop)
<1>1. /\ input \in Inputs /\ phase # "create_plan" /\ Scheduled(input)
      /\ Loops = 0..(input.size - 2)
  BY InputFacts DEF PlanInv, Generated
<1> DEFINE d == LastLoop
           v == d + 1 + k
           iter == iter_set[d + k]
           P == {op \in ToSet(set_ops[d]) : same_iep_computation(op, iter)}
<1>2. /\ d \in Nat /\ d <= input.size - 2 /\ iep_num \in Nat /\ input.size \in Nat
      /\ d = input.size - iep_num - 1 /\ iep_depth = d /\ Innermost(input) = d
  BY InnermostFacts, InputFacts, <1>1 DEF iep_depth
<1> HIDE DEF d
<1>3. /\ d \in Loops /\ d + k \in Loops /\ k \in Nat /\ v = (d + k) + 1
      /\ v \in (d + 1)..(input.size - 1) /\ v \in 1..(input.size - 1)
      /\ \A u \in 0..d : u \in 0..(d + k) /\ u \in 0..(v - 1)
      /\ d <= d + k
  <2> DEFINE n == iep_num
             s == input.size
  <2>1. /\ n \in Nat /\ s \in Nat /\ d \in Nat /\ d = s - n - 1 /\ k \in 0..(n - 1)
        /\ Loops = 0..(s - 2)
    BY <1>1, <1>2
  <2> HIDE DEF n, s, iter, P
  <2>2. d \in Loops /\ d + k \in Loops /\ k \in Nat /\ d <= d + k
    BY <2>1
  <2>3. v = (d + k) + 1 /\ v \in (d + 1)..(s - 1) /\ v \in 1..(s - 1)
    BY <2>1
  <2>4. \A u \in 0..d : u \in 0..(d + k) /\ u \in 0..(v - 1)
    BY <2>1
  <2> QED BY <2>2, <2>3, <2>4 DEF s
<1>4. SetOf(iter, input, v, d + k)
  BY <1>1, <1>3, PlannedOps DEF LoopPlanned
<1>5. /\ set_ops[d] \in Seq(Ops) /\ LoopPlanned(input, set_ops[d], iter_set[d], d)
      /\ \A op \in ToSet(set_ops[d]) : op \in Ops /\ OpOK(op, d) /\ op.dep = d
  BY <1>1, <1>3, PlannedOps
<1>6. Min({d, d + k}) = d
  <2>1. \A x \in {d, d + k} : d <= x
    BY <1>2, <1>3
  <2>2. \A y \in {d, d + k} : (\A x \in {d, d + k} : y <= x) => y = d
    BY <1>2, <1>3
  <2> QED BY <2>1, <2>2 DEF Min
<1> HIDE DEF v, iter
<1>7. ASSUME NEW op \in ToSet(set_ops[d])
      PROVE  same_iep_computation(op, iter) <=> SetOf(op, input, v, d)
  <2> DEFINE E == {u \in 0..d : <<u, v>> \in input.edges}
             R == {u \in 0..d : <<v, u>> \in restricts_to_str(input.restricts, input.size)}
  <2>1. op.dep = d /\ op.edges \subseteq 0..d /\ op.restricts \subseteq 0..d
    BY <1>5 DEF OpOK
  <2>2. iter.dep = d + k /\ iter.edges \intersect 0..d = E /\ iter.restricts \intersect 0..d = R
    BY <1>3, <1>4 DEF SetOf
  <2>3. same_iep_computation(op, iter) <=>
          /\ op.edges \intersect 0..d = iter.edges \intersect 0..d
          /\ op.restricts \intersect 0..d = iter.restricts \intersect 0..d
    BY <1>6, <2>1, <2>2 DEF same_iep_computation
  <2>4. op.edges \intersect 0..d = op.edges /\ op.restricts \intersect 0..d = op.restricts
    BY <2>1
  <2>5. SetOf(op, input, v, d) <=> op.edges = E /\ op.restricts = R
    BY <2>1 DEF SetOf
  <2> HIDE DEF E, R
  <2> QED BY <2>2, <2>3, <2>4, <2>5
<1>8. P # {}
  <2>1. PICK u \in 0..(v - 1) : <<u, v>> \in input.edges
    BY <1>1, <1>3 DEF Scheduled
  <2>2. u \in Nat /\ v \in Nat /\ u < v
    BY <1>3
  <2>3. u <= d
    <3>1. \A e \in input.edges : e[1] < e[2] => e[1] <= d
      BY <1>1, <1>2 DEF SchedulesFit, ScheduleFits
    <3>2. <<u, v>>[1] = u /\ <<u, v>>[2] = v
      OBVIOUS
    <3> QED BY <2>1, <2>2, <3>1, <3>2
  <2>4. u \in 0..d
    BY <1>2, <2>2, <2>3
  <2>5. PICK op \in ToSet(set_ops[d]) : SetOf(op, input, v, d)
    BY <1>3, <1>5, <2>1, <2>4 DEF LoopPlanned
  <2> QED BY <1>7, <2>5
<1>9. LastOf(P) \in P
  <2>1. PICK n \in Nat : IdsBelow(ToSet(set_ops[d]), n)
    BY <1>5, IdsBounded
  <2>2. IdsBelow(P, n)
    BY <2>1 DEF IdsBelow
  <2> HIDE DEF P
  <2> QED BY <1>8, <2>2, LastOfFacts
<1>10. code.iep[k] = LastOf(P).id
  <2>1. code.iep = [i \in 0..(iep_num - 1) |-> iep_set(i)]
    BY DEF IepCoded
  <2>2. code.iep[k] = iep_set(k)
    BY <2>1
  <2> QED BY <1>2, <2>2 DEF iep_set, iter
<1>11. \E op \in ToSet(set_ops[d]) : code.iep[k] = op.id /\ SetOf(op, input, v, d)
  <2>1. LastOf(P) \in ToSet(set_ops[d]) /\ same_iep_computation(LastOf(P), iter)
    BY <1>9
  <2> HIDE DEF P
  <2> QED BY <1>7, <1>10, <2>1
<1> QED BY <1>11 DEF d, v

\* The k-th iteration of loop d, for vertex v, inside the one that has "outer" in scope.
Iteration(d, outer, k, v) ==
  /\ FrameRight(outer, d) /\ v \in DOMAIN graph
  /\ d # 0 => /\ k \in 1..Len(Ascending(outer.sets[iter_set[d - 1].id]))
              /\ v = Ascending(outer.sets[iter_set[d - 1].id])[k]

Ends(b, d) == b.left \/ d = LastLoop
Counted(c, R) == IsFiniteSet(R) /\ c = Cardinality(R)

\* A body that ends counts the maps that begin with m, another one none.
Adds(b, d, m) ==
  /\ b.match = m
  /\ Ends(b, d) => Counted(b.count, {f \in Restricted(input, graph) : Begins(f, m)})
  /\ ~Ends(b, d) => b.count = 0

\* An iteration that goes no further counts the maps that begin with the vertices matched
\* so far; one that goes on counts none yet.
LEMMA IterationCounts ==
  ASSUME Ready, GraphOK, PlanInv, PlanOrdered, SchedulesFit, IepCoded,
         NEW d \in Bodies, NEW outer, NEW k, NEW v, Iteration(d, outer, k, v),
         Fitting(Append(outer.match, v)), NEW b, b = Body(d, outer, v, k)
  PROVE  Adds(b, d, Append(outer.match, v))
<1> DEFINE More == {f \in Restricted(input, graph) : Begins(f, b.match)}
<1>1. /\ input \in Inputs /\ d \in Loops /\ d \in Nat /\ phase # "create_plan"
      /\ input.size \in Nat /\ input.size >= 3 /\ FrameRight(outer, d) /\ v \in DOMAIN graph
      /\ d # 0 => /\ k \in 1..Len(Ascending(outer.sets[iter_set[d - 1].id]))
                  /\ v = Ascending(outer.sets[iter_set[d - 1].id])[k]
  BY LoopFacts, InputFacts DEF Ready, Generated, PlanInv, Iteration
<1> DEFINE Uncounted == \A s \in ToSet(code.sets[d]) : ~s.counts
<1>2. /\ b.match = Append(outer.match, v)
      /\ b.left => \E op \in ToSet(set_ops[d]) : Candidates(op, b.match) = {}
      /\ (d # LastLoop \/ b.left) /\ Uncounted => b.count = 0
      /\ iep_num <= 1 /\ Len(code.sets[d]) = 1 /\ code.sets[d][1].counts =>
           b.count = Cardinality(Candidates(code.sets[d][1].op, b.match))
      /\ d = LastLoop /\ iep_num > 1 /\ Uncounted /\ ~b.left => Included(b, d)
  <2> HIDE DEF More
  <2>1. b.match = Append(outer.match, v)
    BY <1>1, BodyCounts
  <2>2. b.left => \E op \in ToSet(set_ops[d]) : Candidates(op, b.match) = {}
    BY <1>1, BodyCounts
  <2>3. (d # LastLoop \/ b.left) /\ Uncounted => b.count = 0
    BY <1>1, BodyCounts
  <2>4. iep_num <= 1 /\ Len(code.sets[d]) = 1 /\ code.sets[d][1].counts =>
          b.count = Cardinality(Candidates(code.sets[d][1].op, b.match))
    BY <1>1, BodyCounts
  <2>5. d = LastLoop /\ iep_num > 1 /\ Uncounted /\ ~b.left => Included(b, d)
    BY <1>1, BodyCounts
  <2> QED BY <2>1, <2>2, <2>3, <2>4, <2>5
<1>3. b.match \in Seq(DOMAIN graph) /\ Len(b.match) = d + 1 /\ Fitting(b.match)
  <2>1. outer.match \in Seq(DOMAIN graph) /\ Len(outer.match) = d
    BY <1>1 DEF FrameRight
  <2> QED BY <1>1, <1>2, <2>1
<1>4. /\ LastLoop \in Nat /\ LastLoop <= input.size - 2 /\ iep_num \in Nat /\ d <= LastLoop
      /\ iep_num <= 1 => LastLoop = input.size - 2
      /\ iep_num > 1 => LastLoop = input.size - iep_num - 1
  BY <1>1, InnermostFacts DEF Bodies
<1>5. CASE d = LastLoop /\ iep_num <= 1
  <2>1. /\ d = input.size - 2 /\ Len(code.sets[d]) = 1 /\ code.sets[d][1].counts
        /\ SetOf(code.sets[d][1].op, input, input.size - 1, d)
    BY <1>4, <1>5, CountingLoop
  <2>2. Len(b.match) = input.size - 1 /\ LastLoop = input.size - 2
    BY <1>1, <1>3, <1>5, <2>1
  <2>3. IsFiniteSet(More) /\ Cardinality(More) = Cardinality(Candidates(code.sets[d][1].op, b.match))
    BY <1>1, <1>3, <2>1, <2>2, LastCounted
  <2> QED BY <1>2, <1>5, <2>1, <2>3 DEF Adds, Ends, Counted
<1>6. CASE d = LastLoop /\ iep_num > 1 /\ ~b.left
  <2>1. d # input.size - 2
    BY <1>1, <1>4, <1>6
  <2>2. Uncounted
    BY <2>1, CountingLoop
  <2>3. PICK e : /\ DOMAIN e.sets = IdsTo(d - 1) \union OwnIds(d)
                 /\ SetsRight(e.sets, d, b.match) /\ b.count = Inclusion(e)
    BY <1>2, <1>6, <2>2 DEF Included
  <2>4. ASSUME NEW i \in 0..(iep_num - 1)
        PROVE  e.sets[code.iep[i]] = Continuing(b.match, LastLoop + 1 + i)
    <3>1. PICK op \in ToSet(set_ops[d]) :
            code.iep[i] = op.id /\ SetOf(op, input, LastLoop + 1 + i, d)
      BY <1>6, IepSets DEF Ready
    <3>2. op.id \in OwnIds(d)
      <4>1. PICK j \in 1..Len(set_ops[d]) : set_ops[d][j] = op
        <5>1. set_ops[d] \in Seq(Ops)
          BY <1>1, PlannedOps
        <5> QED BY <5>1 DEF ToSet
      <4>2. /\ j \in 1..Len(code.sets[d]) /\ code.sets[d][j] \in ToSet(code.sets[d])
            /\ code.sets[d][j].op = op
        BY <4>1, StatementFacts
      <4> QED BY <2>2, <4>2 DEF OwnIds
    <3>3. op \in SetsTo(d)
      BY <1>1 DEF SetsTo
    <3>4. e.sets[op.id] = Candidates(op, b.match)
      BY <2>3, <3>2, <3>3 DEF SetsRight
    <3>5. Candidates(op, b.match) = Continuing(b.match, LastLoop + 1 + i)
      BY <1>1, <1>6, <3>1, CandidatesFit DEF Continuing
    <3> QED BY <3>1, <3>4, <3>5
  <2>5. Alternating(input.iep)
    <3>1. iep_num = input.iep.num /\ input.matType = "EdgeInducedIEP"
      BY <1>1, <1>6, InnermostFacts
    <3> QED BY <1>1, <1>6, <3>1 DEF SchedulesFit, ScheduleFits
  <2>6. IsFiniteSet(Unequal(e)) /\ Inclusion(e) = Cardinality(Unequal(e))
    BY <1>1, <2>5, InclusionCounts
  <2>7. Len(b.match) = LastLoop + 1
    BY <1>3, <1>6
  <2> HIDE DEF Inclusion
  <2>8. IsFiniteSet(More) /\ Cardinality(More) = Cardinality(Unequal(e))
    BY <1>1, <1>3, <1>6, <2>4, <2>6, <2>7, LastIncluded
  <2> QED BY <1>2, <1>6, <2>3, <2>6, <2>8 DEF Adds, Ends, Counted
<1>7. CASE d # LastLoop \/ (iep_num > 1 /\ b.left)
  <2>1. d # input.size - 2
    BY <1>1, <1>4, <1>7
  <2>2. b.count = 0
    BY <1>2, <1>7, <2>1, CountingLoop
  <2>3. ASSUME b.left PROVE More = {}
    <3>1. PICK op \in ToSet(set_ops[d]) : Candidates(op, b.match) = {}
      BY <1>2, <2>3
    <3>2. PICK w \in (d + 1)..(input.size - 1) : SetOf(op, input, w, d)
      BY <1>1, PlannedOps DEF LoopPlanned
    <3>3. ASSUME NEW f \in More PROVE FALSE
      <4>1. f[w] \in Candidates(op, b.match)
        BY <1>1, <1>3, <1>4, <3>2, MapFits
      <4> QED BY <3>1, <4>1
    <3> QED BY <3>3
  <2>4. IsFiniteSet({}) /\ Cardinality({}) = 0
    BY FS_EmptySet
  <2> HIDE DEF More
  <2>5. b.left => IsFiniteSet(More) /\ b.count = Cardinality(More)
    BY <2>2, <2>3, <2>4
  <2> QED BY <1>2, <1>7, <2>2, <2>5 DEF More, Adds, Ends, Counted
<1>8. \/ d = LastLoop /\ iep_num <= 1
      \/ d = LastLoop /\ iep_num > 1 /\ ~b.left
      \/ d # LastLoop \/ (iep_num > 1 /\ b.left)
  BY <1>4
<1> QED BY <1>5, <1>6, <1>7, <1>8

(***************************************************************************)
(* What has been counted so far.                                           *)
(***************************************************************************)
\* The candidates of vertex n when the vertices m are matched to those before it.
Pool(n, m) == Candidates(iter_set[n - 1], m)

\* What is matched, and which candidates of the next vertex have had their turn.
Chosen(fs) == IF fs = <<>> THEN <<>> ELSE Last(fs).match
Had(fs, r) ==
  IF fs = <<>> THEN 0..(r - 1) ELSE Earliest(Pool(Len(fs), Last(fs).match), Last(fs).done)

Passed(fs, r) == PassedBy(Restricted(input, graph), Chosen(fs), Had(fs, r))

\* Every loop is in an iteration for the vertex that last had its turn in the loop around.
LinkedAt(fs, r, n) ==
  /\ fs[n].done \in 0..Cardinality(Pool(n, fs[n].match)) /\ Fitting(fs[n].match)
  /\ n = 1 => r # 0 /\ fs[n].match = Append(<<>>, r - 1)
  /\ n # 1 =>
       /\ fs[n - 1].done # 0
       /\ fs[n].match = Append(fs[n - 1].match,
                               Ascending(Pool(n - 1, fs[n - 1].match))[fs[n - 1].done])
Linked(fs, r) == \A n \in 1..Len(fs) : LinkedAt(fs, r, n)

\* Restricted matches are maps to numbers.
LEMMA RestrictedMaps ==
  ASSUME GraphOK
  PROVE  Restricted(input, graph) \in SUBSET Maps(input.size)
<1>1. DOMAIN graph \subseteq Nat
  BY GraphFacts
<1> QED BY <1>1 DEF Restricted, Matches, Maps

\* What a loop iterates over.
LEMMA PoolFacts ==
  ASSUME GraphOK, PlanInv, phase # "create_plan", SchedulesFit,
         NEW n \in 1..LastLoop, NEW m \in Seq(DOMAIN graph), Len(m) = n
  PROVE  /\ Pool(n, m) \in SUBSET DOMAIN graph /\ Pool(n, m) \in SUBSET Nat
         /\ IsFiniteSet(Pool(n, m)) /\ Cardinality(Pool(n, m)) \in Nat
         /\ SetOf(iter_set[n - 1], input, n, n - 1)
         /\ \A f \in Restricted(input, graph) : Begins(f, m) => f[n] \in Pool(n, m)
<1>1. /\ input \in Inputs /\ input.size \in Nat /\ input.size >= 3 /\ n - 1 \in Loops
      /\ n - 1 \in Nat /\ (n - 1) + 1 = n /\ n \in n..(input.size - 1) /\ n - 1 <= LastLoop
  <2>1. /\ input \in Inputs /\ input.size \in Nat /\ input.size >= 3 /\ LastLoop \in Nat
        /\ LastLoop <= input.size - 2 /\ Loops = 0..(input.size - 2)
    BY InputFacts, InnermostFacts DEF PlanInv, Loops
  <2> QED BY <2>1
<1>2. SetOf(iter_set[n - 1], input, n, n - 1)
  BY <1>1, PlannedOps DEF LoopPlanned
<1>3. \A f \in Restricted(input, graph) : Begins(f, m) => f[n] \in Pool(n, m)
  BY <1>1, <1>2, MapFits DEF Pool
<1>4. Pool(n, m) \in SUBSET DOMAIN graph
  BY CandidatesAllowed DEF Pool
<1>5. Pool(n, m) \in SUBSET Nat /\ IsFiniteSet(Pool(n, m))
  BY <1>4, GraphFacts
<1> QED BY <1>2, <1>3, <1>4, <1>5, FS_CardinalityType

\* An iteration keeps the count right.
LEMMA Advance ==
  ASSUME Ready, GraphOK, PlanInv, PlanOrdered, SchedulesFit, IepCoded,
         NEW d \in Bodies, NEW outer, NEW k, NEW v, Iteration(d, outer, k, v),
         Fitting(Append(outer.match, v)), NEW b, b = Body(d, outer, v, k),
         NEW H, v \notin H,
         \A f \in Restricted(input, graph) :
           Begins(f, outer.match) => (f[d] \in H <=> f[d] < v),
         NEW c, Counted(c, PassedBy(Restricted(input, graph), outer.match, H)), NEW H2
  PROVE  /\ Ends(b, d) /\ H2 = H \union {v} =>
              Counted(c + b.count, PassedBy(Restricted(input, graph), outer.match, H2))
         /\ ~Ends(b, d) =>
              Counted(c + b.count, PassedBy(Restricted(input, graph), Append(outer.match, v), {}))
<1> DEFINE R == Restricted(input, graph)
           m == outer.match
           More == {f \in R : Begins(f, Append(m, v))}
           P == PassedBy(R, m, H)
<1>1. /\ Ends(b, d) => IsFiniteSet(More) /\ b.count = Cardinality(More)
      /\ ~Ends(b, d) => b.count = 0
  <2>1. Adds(b, d, Append(outer.match, v))
    BY IterationCounts
  <2> QED BY <2>1 DEF Adds, Counted
<1>2. /\ m \in Seq(Nat) /\ Len(m) = d /\ v \in Nat /\ R \in SUBSET Maps(input.size)
      /\ input.size \in Nat /\ d < input.size
  <2>1. m \in Seq(DOMAIN graph) /\ Len(m) = d
    BY DEF FrameRight, Iteration
  <2>2. DOMAIN graph \subseteq Nat
    BY GraphFacts
  <2>3. input.size \in Nat /\ d < input.size
    <3>1. d \in Loops
      BY LoopFacts DEF Ready
    <3> QED BY <3>1, InputFacts DEF PlanInv
  <2>4. m \in Seq(Nat)
    BY <2>1, <2>2
  <2> QED BY <2>1, <2>2, <2>3, <2>4, RestrictedMaps DEF Iteration
<1>3. IsFiniteSet(P) /\ c = Cardinality(P) /\ c \in Nat
  <2>1. IsFiniteSet(P) /\ c = Cardinality(P)
    BY DEF Counted
  <2> QED BY <2>1, FS_CardinalityType
<1>4. \A f \in R : Begins(f, m) => (f[Len(m)] \in H <=> f[Len(m)] < v)
  BY <1>2
<1> HIDE DEF R, m
<1>5. /\ PassedBy(R, m, H \union {v}) = P \union More
      /\ P \intersect More = {}
  BY <1>2, TurnOver
<1>6. PassedBy(R, Append(m, v), {}) = P
  BY <1>2, <1>4, GoneIn
<1> HIDE DEF P, More
<1>7. ASSUME Ends(b, d)
      PROVE  Counted(c + b.count, PassedBy(R, m, H \union {v}))
  <2>1. IsFiniteSet(More) /\ b.count = Cardinality(More) /\ b.count \in Nat
    BY <1>1, <1>7, FS_CardinalityType
  <2>2. /\ IsFiniteSet(P \union More)
        /\ Cardinality(P \union More) =
             Cardinality(P) + Cardinality(More) - Cardinality(P \intersect More)
    BY <1>3, <2>1, FS_Union
  <2>3. Cardinality(P \intersect More) = 0
    BY <1>5, FS_EmptySet
  <2> DEFINE U == P \union More
  <2>4. Cardinality(U) = c + b.count
    BY <1>3, <2>1, <2>2, <2>3
  <2>5. PassedBy(R, m, H \union {v}) = U /\ IsFiniteSet(U)
    BY <1>5, <2>2
  <2> HIDE DEF U
  <2> QED BY <2>4, <2>5 DEF Counted
<1>8. ASSUME ~Ends(b, d)
      PROVE  Counted(c + b.count, PassedBy(R, Append(m, v), {}))
  BY <1>1, <1>3, <1>6, <1>8 DEF Counted
<1> QED BY <1>7, <1>8 DEF R, m

\* Entering one more loop keeps the frames linked.
LEMMA LinkedGrows ==
  ASSUME NEW S, NEW fs \in Seq(S), NEW r, Linked(fs, r), NEW f, f.done = 0, Fitting(f.match),
         Cardinality(Pool(Len(fs) + 1, f.match)) \in Nat,
         fs = <<>> => r # 0 /\ f.match = Append(<<>>, r - 1),
         fs # <<>> =>
           /\ Last(fs).done # 0
           /\ f.match = Append(Last(fs).match,
                               Ascending(Pool(Len(fs), Last(fs).match))[Last(fs).done])
  PROVE  /\ Linked(fs \o <<f>>, r) /\ Chosen(fs \o <<f>>) = f.match
         /\ Had(fs \o <<f>>, r) = Earliest(Pool(Len(fs) + 1, f.match), 0)
<1> DEFINE n == Len(fs)
           gs == fs \o <<f>>
<1>1. /\ n \in Nat /\ Len(gs) = n + 1 /\ gs[n + 1] = f /\ gs # <<>> /\ Last(gs) = f
      /\ \A i \in 1..n : gs[i] = fs[i]
      /\ n = 0 <=> fs = <<>>
  BY DEF Last
<1>2. fs # <<>> => Last(fs) = fs[n]
  BY DEF Last
<1> HIDE DEF gs, n
<1>3. ASSUME NEW i \in 1..(n + 1) PROVE LinkedAt(gs, r, i)
  <2>1. CASE i = n + 1
    <3>1. gs[i] = f /\ f.done \in 0..Cardinality(Pool(i, f.match))
      BY <1>1, <2>1 DEF n
    <3>2. CASE n = 0
      <4>1. i = 1
        BY <2>1, <3>2
      <4>2. fs = <<>>
        BY <1>1, <3>2
      <4> QED BY <3>1, <4>1, <4>2 DEF LinkedAt
    <3>3. CASE n # 0
      <4>1. i # 1 /\ i - 1 = n /\ n \in 1..n
        BY <1>1, <2>1, <3>3
      <4>2. gs[i - 1] = Last(fs) /\ fs # <<>>
        BY <1>1, <1>2, <3>3, <4>1
      <4> QED BY <3>1, <4>1, <4>2 DEF LinkedAt, n
    <3> QED BY <3>2, <3>3
  <2>2. CASE i # n + 1
    <3>1. i \in 1..n /\ gs[i] = fs[i] /\ LinkedAt(fs, r, i)
      BY <1>1, <2>2 DEF Linked, n
    <3>2. i # 1 => gs[i - 1] = fs[i - 1]
      BY <1>1, <3>1
    <3> QED BY <3>1, <3>2 DEF LinkedAt
  <2> QED BY <2>1, <2>2
<1>4. Linked(gs, r)
  BY <1>1, <1>3 DEF Linked
<1>5. Chosen(gs) = f.match /\ Had(gs, r) = Earliest(Pool(n + 1, f.match), 0)
  BY <1>1 DEF Chosen, Had
<1> QED BY <1>4, <1>5 DEF gs, n

\* So does the next vertex of the innermost, which leaves gs.
Advanced(gs, fs, k, r) ==
  /\ Linked(gs, r) /\ gs # <<>> /\ Len(gs) = Len(fs) /\ gs \in Seq(ToSet(gs))
  /\ Last(gs).match = Last(fs).match /\ Last(gs).done = k

LEMMA LinkedAdvances ==
  ASSUME NEW S, NEW fs \in Seq(S), fs # <<>>, FrameShape(Last(fs)), NEW r, Linked(fs, r),
         NEW k \in 0..Cardinality(Pool(Len(fs), Last(fs).match))
  PROVE  Advanced([fs EXCEPT ![Len(fs)].done = k], fs, k, r)
<1> DEFINE n == Len(fs)
           f == [fs[n] EXCEPT !.done = k]
           gs == [fs EXCEPT ![n] = f]
<1>1. gs = [fs EXCEPT ![Len(fs)].done = k]
  OBVIOUS
<1>2. n \in Nat /\ n \in 1..n /\ Last(fs) = fs[n] /\ DOMAIN fs = 1..n
  BY DEF Last
<1>3. f = [match |-> fs[n].match, sets |-> fs[n].sets, rows |-> fs[n].rows, done |-> k]
  BY <1>2 DEF FrameShape
<1>4. f.match = fs[n].match /\ f.done = k
  BY <1>3
<1> HIDE DEF f
<1> DEFINE T == S \union {f}
<1>5. /\ gs \in Seq(T) /\ Len(gs) = n /\ gs[n] = f
      /\ \A i \in 1..n : i # n => gs[i] = fs[i]
  <2>1. fs \in Seq(T) /\ f \in T
    OBVIOUS
  <2>2. n \in Nat /\ n \in 1..n /\ n = Len(fs)
    BY <1>2
  <2> HIDE DEF T, n
  <2> QED BY <2>1, <2>2
<1> HIDE DEF gs, T
<1>6. gs # <<>> /\ Last(gs) = f /\ gs \in Seq(ToSet(gs))
  <2>1. \A i \in 1..Len(gs) : gs[i] \in ToSet(gs)
    BY <1>5 DEF ToSet
  <2>2. gs # <<>>
    <3>1. n # 0
      BY <1>2
    <3> HIDE DEF n
    <3> QED BY <1>5, <3>1
  <2>3. Last(gs) = f
    BY <1>5 DEF Last
  <2> QED BY <1>5, <2>1, <2>2, <2>3
<1>7. ASSUME NEW i \in 1..n PROVE LinkedAt(gs, r, i)
  <2>1. LinkedAt(fs, r, i)
    BY DEF Linked, n
  <2>2. gs[i].match = fs[i].match
    BY <1>4, <1>5
  <2>3. gs[i].done \in 0..Cardinality(Pool(i, gs[i].match))
    <3>1. CASE i = n
      BY <1>2, <1>4, <1>5, <3>1 DEF n
    <3>2. CASE i # n
      BY <1>5, <2>1, <3>2 DEF LinkedAt
    <3> QED BY <3>1, <3>2
  <2>4. i # 1 => gs[i - 1] = fs[i - 1]
    <3>1. i # 1 => i - 1 \in 1..n /\ i - 1 # n
      BY <1>2
    <3> QED BY <1>5, <3>1
  <2> QED BY <2>1, <2>2, <2>3, <2>4 DEF LinkedAt
<1>8. Linked(gs, r)
  BY <1>5, <1>7 DEF Linked
<1> QED BY <1>1, <1>2, <1>4, <1>5, <1>6, <1>8 DEF Advanced

\* The frames are linked and what has been counted are the maps whose turn is over.
RightSoFar(fs, r, c) == Linked(fs, r) /\ Counted(c, Passed(fs, r))

\* An iteration of loop 0.
LEMMA RootCounted ==
  ASSUME Ready, GraphOK, PlanInv, PlanOrdered, SchedulesFit, root \in Nat, EnterRoot,
         IepCoded, RightSoFar(frames, root, counter),
         NEW fs, fs = frames', NEW r, r = root', NEW c, c = counter'
  PROVE  RightSoFar(fs, r, c)
<1> DEFINE R == Restricted(input, graph)
           H == 0..(root - 1)
<1>1. PICK b : b = Body(0, NoFrame, root, root + 1)
  OBVIOUS
<1>2. /\ frames = <<>> /\ root \in DOMAIN graph /\ fs = Kept(0, b) /\ r = root + 1
      /\ c = counter + b.count
  BY <1>1 DEF EnterRoot
<1>3. /\ 0 \in Bodies /\ input.size \in Nat /\ input.size >= 3 /\ phase # "create_plan"
      /\ root \in DOMAIN graph /\ NoFrame.match = <<>>
  BY <1>2, LoopFacts, InputFacts DEF Ready, Bodies, PlanInv, Generated, NoFrame
<1>4. Iteration(0, NoFrame, root + 1, root)
  BY <1>3, NothingInScope DEF Iteration
<1> DEFINE m == Append(<<>>, root)
<1>5. m \in Seq(DOMAIN graph) /\ Len(m) = 1
  BY <1>3
<1> HIDE DEF m
<1>6. Fitting(m)
  <2>1. 1..(1 - 1) = {}
    OBVIOUS
  <2> QED BY <1>5, <2>1 DEF Fitting
<1>7. Adds(b, 0, m)
  BY <1>1, <1>3, <1>4, <1>6, IterationCounts DEF m
<1>8. /\ Chosen(<<>>) = <<>> /\ Had(<<>>, root) = H /\ Had(<<>>, r) = 0..root
      /\ Counted(counter, PassedBy(R, <<>>, H))
  <2>1. r - 1 = root
    BY <1>2
  <2> QED BY <1>2, <2>1 DEF Chosen, Had, RightSoFar, Passed
<1>9. root \notin H /\ 0..root = H \union {root}
  OBVIOUS
<1>10. ASSUME NEW f \in R PROVE f[0] \in H <=> f[0] < root
  <2>1. f \in Maps(input.size)
    BY RestrictedMaps
  <2>2. 0 \in 0..(input.size - 1)
    BY <1>3
  <2>3. f[0] \in Nat
    BY <2>1, <2>2 DEF Maps
  <2> QED BY <2>3
<1>11. /\ Ends(b, 0) => Counted(c, PassedBy(R, <<>>, 0..root))
       /\ ~Ends(b, 0) => Counted(c, PassedBy(R, m, {}))
  <2> HIDE DEF H, R
  <2>1. Fitting(Append(NoFrame.match, root))
    BY <1>3, <1>6 DEF m
  <2>2. \A f \in R : Begins(f, NoFrame.match) => (f[0] \in H <=> f[0] < root)
    BY <1>10
  <2>3. Counted(counter, PassedBy(R, NoFrame.match, H))
    BY <1>3, <1>8
  <2>4. Ends(b, 0) => Counted(counter + b.count, PassedBy(R, NoFrame.match, 0..root))
    BY <1>1, <1>3, <1>4, <1>9, <2>1, <2>2, <2>3, Advance DEF R
  <2>5. ~Ends(b, 0) => Counted(counter + b.count, PassedBy(R, Append(NoFrame.match, root), {}))
    BY <1>1, <1>3, <1>4, <1>9, <2>1, <2>2, <2>3, Advance DEF R
  <2> QED BY <1>2, <1>3, <2>4, <2>5 DEF m
<1> HIDE DEF H, R
<1>12. CASE Ends(b, 0)
  <2>1. fs = <<>>
    BY <1>2, <1>12 DEF Kept, Ends
  <2>2. Len(<<>>) = 0 /\ 1..0 = {}
    OBVIOUS
  <2> QED BY <1>8, <1>11, <1>12, <2>1, <2>2 DEF RightSoFar, Linked, Passed, R
<1>13. CASE ~Ends(b, 0)
  <2> DEFINE f == [match |-> b.match, sets |-> b.sets, rows |-> b.rows, done |-> 0]
  <2>1. fs = <<f>> /\ f.match = m /\ f.done = 0
    BY <1>2, <1>7, <1>13 DEF Kept, Ends, Adds
  <2> HIDE DEF f
  <2>2. <<>> \o <<f>> = <<f>> /\ <<>> \in Seq({}) /\ Len(<<>>) = 0 /\ 1..0 = {}
    OBVIOUS
  <2>3. /\ Pool(1, m) \in SUBSET Nat /\ IsFiniteSet(Pool(1, m))
        /\ Cardinality(Pool(1, m)) \in Nat
    <3>1. 1 \in 1..LastLoop
      <4>1. LastLoop \in Nat /\ LastLoop # 0
        BY <1>13, LoopFacts DEF Ends, Ready
      <4> QED BY <4>1
    <3> QED BY <1>3, <1>5, <3>1, PoolFacts
  <2>4. Linked(<<>>, r)
    BY <2>2 DEF Linked
  <2>5. Len(<<>>) + 1 = 1 /\ r # 0 /\ f.match = Append(<<>>, r - 1)
    <3>1. r - 1 = root
      BY <1>2
    <3> QED BY <1>2, <2>1, <3>1 DEF m
  <2>6. /\ Linked(<<>> \o <<f>>, r) /\ Chosen(<<>> \o <<f>>) = f.match
        /\ Had(<<>> \o <<f>>, r) = Earliest(Pool(Len(<<>>) + 1, f.match), 0)
    BY <1>6, <2>1, <2>2, <2>3, <2>4, <2>5, LinkedGrows
  <2>7. Earliest(Pool(1, m), 0) = {}
    BY <2>3, EarliestOfAll
  <2> QED BY <1>11, <1>13, <2>1, <2>2, <2>5, <2>6, <2>7 DEF RightSoFar, Passed, R
<1> QED BY <1>12, <1>13

\* An iteration of an inner loop.
LEMMA LoopCounted ==
  ASSUME Ready, GraphOK, FramesInv, PlanInv, PlanOrdered, SchedulesFit, EnterLoop,
         IepCoded, RightSoFar(frames, root, counter),
         NEW fs, fs = frames', NEW r, r = root', NEW c, c = counter'
  PROVE  RightSoFar(fs, r, c)
<1> DEFINE R == Restricted(input, graph)
<1>1. PICK d, outer, k, v, b : /\ d = Len(frames) /\ outer = Last(frames) /\ k = outer.done + 1
                               /\ v = IterateOver(d)[k] /\ b = Body(d, outer, v, k)
  OBVIOUS
<1> DEFINE gs == [frames EXCEPT ![Len(frames)].done = k]
           I == Pool(d, outer.match)
           m == Append(outer.match, v)
<1>2. /\ frames # <<>> /\ k <= Len(IterateOver(d)) /\ fs = gs \o Kept(d, b) /\ r = root
      /\ c = counter + b.count
  BY <1>1 DEF EnterLoop
<1>3. /\ d \in Bodies /\ d \in Nat /\ d # 0 /\ outer = frames[d]
      /\ FrameShape(outer) /\ FrameRight(outer, d)
      /\ I \in SUBSET DOMAIN graph /\ outer.sets[iter_set[d - 1].id] = I
      /\ IterateOver(d) = Ascending(I) /\ Len(Ascending(I)) = Cardinality(I)
  BY <1>1, <1>2, InnermostLoop DEF Pool
<1>4. /\ k \in Nat /\ k \in 1..Cardinality(I) /\ v \in I /\ v \in DOMAIN graph
      /\ v = Ascending(I)[k]
  <2>1. k = Last(frames).done + 1 /\ d = Len(frames)
    BY <1>1
  <2>2. /\ k \in Nat /\ k \in 1..Cardinality(I)
        /\ Ascending(I)[k] \in I /\ Ascending(I)[k] \in DOMAIN graph
    <3> DEFINE J == Candidates(iter_set[d - 1], Last(frames).match)
    <3>1. /\ k \in Nat /\ k \in 1..Cardinality(J)
          /\ Ascending(J)[k] \in J /\ Ascending(J)[k] \in DOMAIN graph
      BY <1>2, <2>1, NextIteration
    <3>2. I = J
      BY <1>1 DEF Pool
    <3> HIDE DEF I, J
    <3> QED BY <3>1, <3>2
  <2> QED BY <1>1, <1>3, <2>2
<1>5. /\ input.size \in Nat /\ phase # "create_plan" /\ LastLoop <= input.size - 2
      /\ LastLoop \in Nat /\ d \in 1..LastLoop /\ d <= LastLoop
  <2>1. /\ input.size \in Nat /\ LastLoop \in Nat /\ LastLoop <= input.size - 2
        /\ phase # "create_plan"
    BY LoopFacts DEF Ready, Generated
  <2>2. d <= LastLoop
    BY <1>3 DEF Bodies
  <2> QED BY <1>3, <2>1, <2>2
<1>6. /\ outer.match \in Seq(DOMAIN graph) /\ Len(outer.match) = d
      /\ m \in Seq(DOMAIN graph) /\ Len(m) = d + 1
  BY <1>3, <1>4 DEF FrameRight
<1>7. /\ I \in SUBSET Nat /\ IsFiniteSet(I) /\ Cardinality(I) \in Nat
      /\ SetOf(iter_set[d - 1], input, d, d - 1)
      /\ \A f \in R : Begins(f, outer.match) => f[d] \in I
  BY <1>5, <1>6, PoolFacts
<1>8. Fitting(m)
  <2>1. Fitting(outer.match)
    <3>1. d \in 1..Len(frames)
      BY <1>1, <1>3
    <3> QED BY <1>3, <3>1 DEF RightSoFar, Linked, LinkedAt
  <2>2. v \in Candidates(iter_set[d - 1], outer.match)
    BY <1>4 DEF Pool
  <2> QED BY <1>3, <1>6, <1>7, <2>1, <2>2, FittingNext
<1>9. Iteration(d, outer, k, v)
  BY <1>3, <1>4 DEF Iteration
<1> DEFINE H == Earliest(I, k - 1)
           H2 == Earliest(I, k)
<1>10. /\ v \notin H /\ H2 = H \union {v}
       /\ \A x \in I : x \in H <=> x < v
  <2> HIDE DEF I
  <2> QED BY <1>4, <1>7, EarliestFacts
<1>11. Counted(counter, PassedBy(R, outer.match, H))
  <2>1. outer.done = k - 1
    BY <1>1, <1>3 DEF FrameShape
  <2>2. Chosen(frames) = outer.match /\ Had(frames, root) = H
    BY <1>1, <1>2, <2>1 DEF Chosen, Had
  <2> QED BY <2>2 DEF RightSoFar, Passed
<1> HIDE DEF H, H2
<1>12. /\ Ends(b, d) => Counted(c, PassedBy(R, outer.match, H2))
       /\ ~Ends(b, d) => Counted(c, PassedBy(R, m, {}))
  <2> HIDE DEF R, gs, I
  <2>1. \A f \in R : Begins(f, outer.match) => (f[d] \in H <=> f[d] < v)
    BY <1>7, <1>10
  <2>2. Ends(b, d) => Counted(counter + b.count, PassedBy(R, outer.match, H2))
    BY <1>1, <1>3, <1>8, <1>9, <1>10, <1>11, <2>1, Advance DEF R
  <2>3. ~Ends(b, d) => Counted(counter + b.count, PassedBy(R, m, {}))
    BY <1>1, <1>3, <1>8, <1>9, <1>10, <1>11, <2>1, Advance DEF R
  <2> QED BY <1>2, <2>2, <2>3
<1>13. Adds(b, d, m)
  BY <1>1, <1>3, <1>8, <1>9, IterationCounts
<1> HIDE DEF m, R
<1>14. /\ Linked(gs, r) /\ gs # <<>> /\ Len(gs) = d /\ gs \in Seq(ToSet(gs))
       /\ Last(gs).match = outer.match /\ Last(gs).done = k
  <2>1. frames \in Seq(ToSet(frames)) /\ Linked(frames, r) /\ FrameShape(Last(frames))
    BY <1>1, <1>2, <1>3 DEF FramesInv, Nest, RightSoFar
  <2>2. k \in 0..Cardinality(Pool(Len(frames), Last(frames).match))
    <3>1. I = Pool(Len(frames), Last(frames).match)
      BY <1>1
    <3> HIDE DEF I
    <3> QED BY <1>4, <1>7, <3>1
  <2>3. Advanced(gs, frames, k, r)
    BY <1>2, <2>1, <2>2, LinkedAdvances
  <2> HIDE DEF gs
  <2> QED BY <1>1, <2>3 DEF Advanced
<1> HIDE DEF gs
<1>15. CASE Ends(b, d)
  <2>1. fs = gs
    <3>1. Kept(d, b) = <<>>
      BY <1>15 DEF Kept, Ends
    <3> QED BY <1>2, <1>14, <3>1
  <2>2. Chosen(gs) = outer.match /\ Had(gs, r) = H2
    BY <1>14 DEF Chosen, Had, H2
  <2> QED BY <1>12, <1>14, <1>15, <2>1, <2>2 DEF RightSoFar, Passed, R
<1>16. CASE ~Ends(b, d)
  <2> DEFINE f == [match |-> b.match, sets |-> b.sets, rows |-> b.rows, done |-> 0]
  <2>1. fs = gs \o <<f>> /\ f.match = m /\ f.done = 0
    BY <1>2, <1>13, <1>16 DEF Kept, Ends, Adds
  <2> HIDE DEF f
  <2>2. /\ Pool(d + 1, m) \in SUBSET Nat /\ IsFiniteSet(Pool(d + 1, m))
        /\ Cardinality(Pool(d + 1, m)) \in Nat
    <3>1. d + 1 \in 1..LastLoop
      <4>1. d # LastLoop
        BY <1>16 DEF Ends
      <4> QED BY <1>3, <1>5, <4>1
    <3> QED BY <1>5, <1>6, <3>1, PoolFacts
  <2>3. f.match = Append(Last(gs).match,
                         Ascending(Pool(Len(gs), Last(gs).match))[Last(gs).done])
    BY <1>4, <1>14, <2>1 DEF m
  <2>4. Last(gs).done # 0
    BY <1>4, <1>14
  <2>5. Cardinality(Pool(Len(gs) + 1, f.match)) \in Nat /\ Fitting(f.match)
    BY <1>8, <1>14, <2>1, <2>2
  <2>6. /\ Linked(gs \o <<f>>, r) /\ Chosen(gs \o <<f>>) = f.match
        /\ Had(gs \o <<f>>, r) = Earliest(Pool(Len(gs) + 1, f.match), 0)
    BY <1>14, <2>1, <2>3, <2>4, <2>5, LinkedGrows
  <2>7. Earliest(Pool(d + 1, m), 0) = {}
    BY <2>2, EarliestOfAll
  <2>8. Chosen(fs) = m /\ Had(fs, r) = {}
    BY <1>14, <2>1, <2>6, <2>7
  <2> QED BY <1>12, <1>16, <2>1, <2>6, <2>8 DEF RightSoFar, Passed, R
<1> QED BY <1>15, <1>16

\* The innermost loop is left.
LEMMA LeaveCounted ==
  ASSUME Ready, GraphOK, FramesInv, PlanInv, SchedulesFit, root \in Nat, LeaveLoop,
         RightSoFar(frames, root, counter),
         NEW fs, fs = frames', NEW r, r = root', NEW c, c = counter'
  PROVE  RightSoFar(fs, r, c)
<1> DEFINE R == Restricted(input, graph)
<1>1. PICK d, f : d = Len(frames) /\ f = Last(frames)
  OBVIOUS
<1> DEFINE I == Pool(d, f.match)
<1>2. /\ frames # <<>> /\ f.done = Len(IterateOver(d)) /\ fs = Front(frames) /\ r = root
      /\ c = counter
  BY <1>1 DEF LeaveLoop
<1>3. /\ d \in Bodies /\ d \in Nat /\ d # 0 /\ f = frames[d] /\ FrameRight(f, d)
      /\ IterateOver(d) = Ascending(I) /\ Len(Ascending(I)) = Cardinality(I)
  BY <1>1, <1>2, InnermostLoop DEF Pool
<1>4. /\ input.size \in Nat /\ phase # "create_plan" /\ d \in 1..LastLoop
      /\ LastLoop \in Nat /\ LastLoop <= input.size - 2
  <2>1. /\ input.size \in Nat /\ LastLoop \in Nat /\ LastLoop <= input.size - 2
        /\ phase # "create_plan"
    BY LoopFacts DEF Ready, Generated
  <2>2. d <= LastLoop
    BY <1>3 DEF Bodies
  <2> QED BY <1>3, <2>1, <2>2
<1>5. f.match \in Seq(DOMAIN graph) /\ Len(f.match) = d
  BY <1>3 DEF FrameRight
<1>6. /\ I \in SUBSET Nat /\ IsFiniteSet(I)
      /\ \A g \in R : Begins(g, f.match) => g[d] \in I
  BY <1>4, <1>5, PoolFacts
<1>7. Earliest(I, f.done) = I
  <2> HIDE DEF I
  <2> QED BY <1>2, <1>3, <1>6, EarliestOfAll
<1>8. Counted(counter, PassedBy(R, f.match, I))
  <2>1. Chosen(frames) = f.match /\ Had(frames, root) = I
    BY <1>1, <1>2, <1>7 DEF Chosen, Had
  <2> QED BY <2>1 DEF RightSoFar, Passed
<1> HIDE DEF I
<1>9. /\ frames \in Seq(ToSet(frames)) /\ \A n \in 1..d : LinkedAt(frames, root, n)
      /\ \A n \in 1..d : FrameRight(frames[n], n)
  BY <1>1 DEF FramesInv, Nest, RightSoFar, Linked
<1>10. fs \in Seq(ToSet(frames)) /\ Len(fs) = d - 1 /\ \A n \in 1..(d - 1) : fs[n] = frames[n]
  <2>1. fs = [i \in 1..(d - 1) |-> frames[1 + i - 1]]
    BY <1>1, <1>2, <1>3 DEF Front, SubSeq
  <2>2. \A i \in 1..(d - 1) : 1 + i - 1 = i /\ i \in 1..d /\ frames[i] \in ToSet(frames)
    BY <1>1, <1>3, <1>9 DEF ToSet
  <2>3. d - 1 \in Nat
    BY <1>3
  <2>4. DOMAIN fs = 1..(d - 1) /\ \A i \in 1..(d - 1) : fs[i] = frames[i] /\ fs[i] \in ToSet(frames)
    BY <2>1, <2>2
  <2>5. fs = [i \in 1..(d - 1) |-> fs[i]]
    BY <2>1, <2>4
  <2>6. fs \in Seq(ToSet(frames))
    BY <2>3, <2>4, <2>5
  <2> QED BY <2>3, <2>4, <2>6
<1>11. Linked(fs, r)
  <2> SUFFICES ASSUME NEW n \in 1..(d - 1) PROVE LinkedAt(fs, r, n)
    BY <1>10 DEF Linked
  <2>1. n \in 1..d /\ LinkedAt(frames, root, n) /\ fs[n] = frames[n]
    BY <1>3, <1>9, <1>10
  <2>2. n # 1 => fs[n - 1] = frames[n - 1]
    BY <1>3, <1>10
  <2> QED BY <1>2, <2>1, <2>2 DEF LinkedAt
<1>12. R \in SUBSET Maps(input.size) /\ DOMAIN graph \subseteq Nat
  BY RestrictedMaps, GraphFacts
<1>13. LinkedAt(frames, root, d)
  BY <1>3, <1>9
<1> HIDE DEF R
<1>14. ASSUME NEW m \in Seq(Nat), Len(m) = d - 1, NEW y \in Nat, f.match = Append(m, y), NEW H,
              \A g \in R : Begins(g, m) => (g[Len(m)] \in H <=> g[Len(m)] <= y)
       PROVE  Counted(c, PassedBy(R, m, H))
  <2>1. Len(m) < input.size /\ Len(m) + 1 = d
    BY <1>3, <1>4, <1>14
  <2>2. \A g \in R : Begins(g, Append(m, y)) => g[Len(m) + 1] \in I
    BY <1>6, <1>14, <2>1
  <2>3. PassedBy(R, m, H) = PassedBy(R, Append(m, y), I)
    BY <1>4, <1>12, <1>14, <2>1, <2>2, GoneOut
  <2> QED BY <1>2, <1>8, <1>14, <2>3
<1>15. CASE d = 1
  <2> DEFINE y == root - 1
  <2>1. root # 0 /\ f.match = Append(<<>>, y)
    BY <1>3, <1>13, <1>15 DEF LinkedAt
  <2>2. fs = <<>>
    BY <1>10, <1>15
  <2>3. y \in Nat /\ <<>> \in Seq(Nat) /\ Len(<<>>) = d - 1 /\ Len(<<>>) = 0
    BY <1>15, <2>1
  <2>4. ASSUME NEW g \in R PROVE g[0] \in 0..(root - 1) <=> g[0] <= y
    <3>1. g \in Maps(input.size) /\ 0 \in 0..(input.size - 1)
      BY <1>4, <1>12
    <3>2. g[0] \in Nat
      BY <3>1 DEF Maps
    <3> QED BY <3>2
  <2> HIDE DEF y
  <2>5. Counted(c, PassedBy(R, <<>>, 0..(root - 1)))
    BY <1>14, <2>1, <2>3, <2>4
  <2>6. Chosen(fs) = <<>> /\ Had(fs, r) = 0..(root - 1)
    BY <1>2, <2>2 DEF Chosen, Had
  <2> QED BY <1>11, <2>5, <2>6 DEF RightSoFar, Passed, R
<1>16. CASE d # 1
  <2>1. PICK e, o : e = d - 1 /\ o = frames[e]
    OBVIOUS
  <2>2. e \in Nat /\ e \in 1..d /\ e \in 1..(d - 1) /\ e \in 1..LastLoop /\ (e + 1) - 1 = e
    BY <1>3, <1>4, <1>16, <2>1
  <2> DEFINE J == Pool(e, o.match)
             y == Ascending(J)[o.done]
             H == Earliest(J, o.done)
  <2>3. /\ o.match \in Seq(DOMAIN graph) /\ Len(o.match) = e
        /\ o.done \in 0..Cardinality(J)
    BY <1>9, <2>1, <2>2 DEF FrameRight, LinkedAt
  <2>4. o.done # 0 /\ f.match = Append(o.match, y)
    BY <1>3, <1>13, <1>16, <2>1 DEF LinkedAt
  <2>5. /\ J \in SUBSET Nat /\ IsFiniteSet(J) /\ Cardinality(J) \in Nat
        /\ \A g \in R : Begins(g, o.match) => g[e] \in J
    BY <1>4, <2>2, <2>3, PoolFacts DEF R
  <2>6. Chosen(fs) = o.match /\ Had(fs, r) = H
    <3>1. fs # <<>> /\ Last(fs) = fs[e] /\ fs[e] = o /\ Len(fs) = e
      BY <1>10, <2>1, <2>2 DEF Last
    <3> QED BY <3>1 DEF Chosen, Had
  <2> HIDE DEF J
  <2>7. o.done \in 1..Cardinality(J)
    BY <2>3, <2>4, <2>5
  <2>8. y \in J /\ \A x \in J : x \in H <=> x <= y
    BY <2>5, <2>7, EarliestFacts
  <2> HIDE DEF y, H
  <2>9. \A g \in R : Begins(g, o.match) => (g[e] \in H <=> g[e] <= y)
    BY <2>5, <2>8
  <2>10. o.match \in Seq(Nat) /\ y \in Nat /\ Len(o.match) = d - 1 /\ Len(o.match) = e
    BY <1>12, <2>1, <2>3, <2>5, <2>8
  <2>11. Counted(c, PassedBy(R, o.match, H))
    BY <1>14, <2>4, <2>9, <2>10
  <2> QED BY <1>11, <2>6, <2>11 DEF RightSoFar, Passed, R
<1> QED BY <1>15, <1>16

\* It stays so while neither the plan nor the graph changes.
LEMMA CountedStays ==
  ASSUME UNCHANGED <<input, iter_set, graph>>,
         NEW CONSTANT fs, NEW CONSTANT r, NEW CONSTANT c, RightSoFar(fs, r, c)
  PROVE  RightSoFar(fs, r, c)'
<1>1. Vertex' <=> Vertex
  BY DEF Vertex
<1>2. \A n, m : Pool(n, m)' = Pool(n, m)
  BY <1>1 DEF Pool, Candidates
<1>3. \A m : Fitting(m)' <=> Fitting(m)
  <2>1. \A x, y, v, u : Fit(x, y, v, u)' <=> Fit(x, y, v, u)
    BY <1>1 DEF Fit
  <2> QED BY <2>1 DEF Fitting
<1>4. Passed(fs, r)' = Passed(fs, r)
  BY <1>2 DEF Passed, Had, PassedBy
<1>5. Linked(fs, r)' <=> Linked(fs, r)
  BY <1>2, <1>3 DEF Linked, LinkedAt
<1> QED BY <1>4, <1>5 DEF RightSoFar, Counted

\* Before loop 0 nothing is counted.
LEMMA NothingCounted ==
  RightSoFar(<<>>, 0, 0)
<1>1. Len(<<>>) = 0 /\ 1..0 = {} /\ 0..(0 - 1) = {}
  OBVIOUS
<1>2. Passed(<<>>, 0) = {}
  BY <1>1 DEF Passed, PassedBy, Chosen, Had, Precedent
<1> QED BY <1>1, <1>2, FS_EmptySet DEF RightSoFar, Linked, Counted

\* After loop 0 all restricted matches are.
LEMMA AllCounted ==
  ASSUME GraphOK, input \in Inputs, NEW r \in Nat, r \notin DOMAIN graph,
         NEW c, RightSoFar(<<>>, r, c)
  PROVE  c = Cardinality(Restricted(input, graph))
<1> DEFINE R == Restricted(input, graph)
<1>1. DOMAIN graph = 0..(Cardinality(DOMAIN graph) - 1) /\ Cardinality(DOMAIN graph) \in Nat
  BY FS_CardinalityType DEF GraphOK
<1>2. \A x \in DOMAIN graph : x \in 0..(r - 1)
  BY <1>1
<1>3. ASSUME NEW f \in R PROVE f[0] \in 0..(r - 1)
  <2>1. f \in [0..(input.size - 1) -> DOMAIN graph] /\ 0 \in 0..(input.size - 1)
    BY InputFacts DEF Restricted, Matches
  <2> QED BY <1>2, <2>1
<1> HIDE DEF R
<1>4. Len(<<>>) = 0 /\ 0..(0 - 1) = {}
  OBVIOUS
<1>5. Passed(<<>>, r) = R
  BY <1>3, <1>4 DEF Passed, PassedBy, Chosen, Had, Begins, R
<1> QED BY <1>5 DEF RightSoFar, Counted, R

(***************************************************************************)
(* The whole run.                                                          *)
(***************************************************************************)
\* A program that has not been run has counted nothing, one that returned has left all its
\* loops; in between exactly the matches whose turn is over are counted.
CountInv ==
  /\ graph = NoGraph \/ (graph \in Graphs(input) /\ phase \in {"generated", "returned"})
  /\ graph = NoGraph => root = 0 /\ frames = <<>> /\ counter = 0
  /\ phase = "returned" => graph # NoGraph /\ frames = <<>> /\ root \notin DOMAIN graph
  /\ RightSoFar(frames, root, counter) /\ IepCoded

LEMMA CountInitially ==
  ASSUME LoopInit
  PROVE  CountInv
<1>1. phase = "create_plan" /\ graph = NoGraph /\ root = 0 /\ frames = <<>> /\ counter = 0
  BY DEF LoopInit, GenInit, Init
<1> QED BY <1>1, NothingCounted DEF CountInv, IepCoded, Generated

\* Generation comes before the program is run.
LEMMA GenerateCounted ==
  ASSUME CountInv, Generate, IepCoded'
  PROVE  CountInv'
<1>1. phase # "generated" /\ phase # "returned" /\ phase' # "returned"
  <2>1. CASE \/ CreatePlan \/ EndCreatePlan \/ CollectMiniGraphs \/ EndCollect
             \/ MarkUsed \/ EndMark \/ Inherit \/ EndInherit \/ Erase \/ EndErase
    BY <2>1, PlanningSteps DEF Planning
  <2>2. CASE gen_code
    BY <2>2 DEF gen_code
  <2>3. CASE EndGenCode
    BY <2>3 DEF EndGenCode
  <2> QED BY <2>1, <2>2, <2>3 DEF Generate, GenNext
<1>2. graph = NoGraph /\ root = 0 /\ frames = <<>> /\ counter = 0
  BY <1>1 DEF CountInv
<1>3. graph' = NoGraph /\ root' = 0 /\ frames' = <<>> /\ counter' = 0
  BY <1>2 DEF Generate
<1>4. RightSoFar(<<>>, 0, 0)'
  BY NothingCounted, PTL
<1> QED BY <1>1, <1>3, <1>4 DEF CountInv

\* What inclusion-exclusion reads is complete when the code is, and stays.
LEMMA IepStep ==
  ASSUME CodeInv, IepCoded, [Next]_vars
  PROVE  IepCoded'
<1>1. CASE /\ phase # "generated" /\ phase' # "generated"
  BY <1>1 DEF IepCoded, Generated
<1>2. CASE Return \/ (Generate /\ ~EndGenCode)
  <2>1. CASE Return
    BY <2>1 DEF Return, IepCoded, Generated
  <2>2. CASE Generate /\ ~EndGenCode
    <3>1. phase' # "generated"
      <4>1. CASE \/ CreatePlan \/ EndCreatePlan \/ CollectMiniGraphs \/ EndCollect
                 \/ MarkUsed \/ EndMark \/ Inherit \/ EndInherit \/ Erase \/ EndErase
        BY <4>1, PlanningSteps DEF Planning
      <4>2. CASE gen_code
        BY <4>2 DEF gen_code
      <4> QED BY <2>2, <4>1, <4>2 DEF Generate, GenNext
    <3> QED BY <3>1 DEF IepCoded, Generated
  <2> QED BY <1>2, <2>1, <2>2
<1>3. CASE EndGenCode
  <2>1. /\ UNCHANGED <<input, set_ops, iter_set>>
        /\ code' = [code EXCEPT !.iep =
             IF iep_num > 1 THEN [k \in 0..(iep_num - 1) |-> iep_set(k)] ELSE @]
    BY <1>3 DEF EndGenCode
  <2>2. code = [adj |-> code.adj, reads |-> code.reads, sets |-> code.sets,
                builds |-> code.builds, iep |-> code.iep]
    BY DEF CodeInv
  <2> DEFINE coded == [k \in 0..(iep_num - 1) |-> iep_set(k)]
  <2>3. iep_num > 1 => code'.iep = coded
    <3> HIDE DEF coded
    <3>1. iep_num > 1 => code' = [code EXCEPT !.iep = coded]
      BY <2>1 DEF coded
    <3> QED BY <2>2, <3>1
  <2>4. iep_num' = iep_num /\ \A k : iep_set(k)' = iep_set(k)
    BY <2>1 DEF iep_num, iep_depth, iep_set
  <2> QED BY <2>3, <2>4 DEF IepCoded
<1>4. CASE UNCHANGED genVars
  <2>1. UNCHANGED <<input, set_ops, iter_set, code, phase>>
    BY <1>4 DEF genVars, planVars
  <2>2. iep_num' = iep_num /\ \A k : iep_set(k)' = iep_set(k)
    BY <2>1 DEF iep_num, iep_depth, iep_set
  <2> QED BY <2>1, <2>2 DEF IepCoded, Generated
<1>5. EndGenCode \/ (Generate /\ ~EndGenCode) \/ Return \/ UNCHANGED genVars
  BY DEF Next, Run, EnterRoot, EnterLoop, LeaveLoop, Stop, vars
<1> QED BY <1>2, <1>3, <1>4, <1>5

\* Every step keeps it.
LEMMA CountStep ==
  ASSUME LoopInv, PlanOrdered, CounterInv, CountInv, PlanOK, SchedulesFit, [Next]_vars
  PROVE  CountInv'
<1>1. /\ PlanInv /\ GraphOK /\ FramesInv /\ input \in Inputs /\ root \in Nat
      /\ Generated => Ready
      /\ IepCoded /\ RightSoFar(frames, root, counter) /\ CodeInv
  BY PlanTypes, ProgramFacts DEF LoopInv, Ready, PlanOK, CodeInv, PlanInv, CounterInv, CountInv
<1>7. IepCoded'
  BY <1>1, IepStep
<1>2. PICK fs, r, c : fs = frames' /\ r = root' /\ c = counter'
  OBVIOUS
<1>3. CASE Generate
  BY <1>3, <1>7, GenerateCounted
<1>4. CASE Run
  <2>1. /\ phase = "generated" /\ graph = NoGraph /\ graph' \in Graphs(input)
        /\ UNCHANGED <<input, phase, root, frames, counter>>
    BY <1>4 DEF Run, Generated, genVars, planVars
  <2>2. frames' = <<>> /\ root' = 0 /\ counter' = 0
    BY <2>1 DEF CountInv
  <2>3. RightSoFar(<<>>, 0, 0)'
    BY NothingCounted, PTL
  <2> QED BY <1>7, <2>1, <2>2, <2>3 DEF CountInv
<1>5. CASE EnterRoot \/ EnterLoop \/ LeaveLoop
  <2>1. /\ Generated /\ UNCHANGED <<genVars, graph>>
    BY <1>5 DEF EnterRoot, EnterLoop, LeaveLoop
  <2>2. graph # NoGraph
    <3>1. EnterRoot => root \in DOMAIN graph
      BY DEF EnterRoot
    <3>2. frames # <<>> => graph # NoGraph
      BY DEF CountInv
    <3>3. EnterLoop \/ LeaveLoop => frames # <<>>
      BY DEF EnterLoop, LeaveLoop
    <3>4. DOMAIN NoGraph = {}
      BY DEF NoGraph
    <3> QED BY <1>5, <3>1, <3>2, <3>3, <3>4
  <2>3. UNCHANGED <<input, iter_set, graph, phase>> /\ phase = "generated"
    BY <2>1 DEF genVars, planVars, Generated
  <2>4. RightSoFar(fs, r, c)
    <3>1. CASE EnterRoot
      BY <1>1, <1>2, <2>1, <3>1, RootCounted
    <3>2. CASE EnterLoop
      BY <1>1, <1>2, <2>1, <3>2, LoopCounted
    <3>3. CASE LeaveLoop
      BY <1>1, <1>2, <2>1, <3>3, LeaveCounted
    <3> QED BY <1>5, <3>1, <3>2, <3>3
  <2>5. RightSoFar(fs, r, c)'
    BY <2>3, <2>4, CountedStays
  <2> QED BY <1>2, <1>7, <2>2, <2>3, <2>5 DEF CountInv
<1>6. CASE Return \/ Stop \/ UNCHANGED vars
  <2>1. UNCHANGED <<input, iter_set, graph, root, frames, counter>>
    BY <1>6 DEF Return, Stop, vars, genVars, planVars
  <2>2. fs = frames /\ r = root /\ c = counter
    BY <1>2, <2>1
  <2>3. RightSoFar(fs, r, c)'
    BY <1>1, <2>1, <2>2, CountedStays
  <2>4. CASE Return
    <3>1. /\ graph # NoGraph /\ frames = <<>> /\ root \notin DOMAIN graph
          /\ phase' = "returned"
      BY <2>4 DEF Return
    <3> QED BY <1>2, <1>7, <2>1, <2>3, <3>1 DEF CountInv
  <2>5. CASE phase' = phase
    BY <1>2, <1>7, <2>1, <2>3, <2>5 DEF CountInv
  <2>6. Return \/ phase' = phase
    BY <1>6 DEF Stop, vars, genVars, planVars
  <2> QED BY <2>4, <2>5, <2>6
<1> QED BY <1>3, <1>4, <1>5, <1>6 DEF Next

\* What the program counts.
CountsMatches == phase = "returned" => counter = Cardinality(Restricted(input, graph))

LEMMA MatchesAtEnd ==
  ASSUME LoopInv, CounterInv, CountInv
  PROVE  CountsMatches
<1>1. GraphOK /\ input \in Inputs /\ root \in Nat
  BY DEF LoopInv, PlanInv, CounterInv
<1>2. /\ RightSoFar(frames, root, counter)
      /\ phase = "returned" => frames = <<>> /\ root \notin DOMAIN graph
  BY DEF CountInv
<1>3. PICK r, c : r = root /\ c = counter
  OBVIOUS
<1> QED BY <1>1, <1>2, <1>3, AllCounted DEF CountsMatches

\* If those are as many times the subgraphs as the redundancy says, the result is right.
LEMMA SubgraphsAtEnd ==
  ASSUME LoopInv, CounterInv, CountInv, RedundanciesFit
  PROVE  CountsSubgraphs
<1> SUFFICES ASSUME phase = "returned" PROVE Result = Cardinality(Subgraphs(input, graph))
  BY DEF CountsSubgraphs
<1> DEFINE R == Redundancy(input)
           n == Cardinality(Subgraphs(input, graph))
<1>1. /\ input \in Inputs /\ graph \in Graphs(input) /\ input.iep.redundancy \in Int
      /\ GraphOK /\ graph # NoGraph
  BY PlanAssumption DEF LoopInv, PlanInv, CountInv
<1>2. counter = R * n
  <2>1. counter = Cardinality(Restricted(input, graph))
    BY MatchesAtEnd DEF CountsMatches
  <2>2. Cardinality(Restricted(input, graph)) = R * n
    BY <1>1 DEF RedundanciesFit, RedundancyFits
  <2> QED BY <2>1, <2>2
<1>3. R \in Nat /\ R # 0
  <2>1. ASSUME NEW x \in Int PROVE Max({1, x}) \in Nat /\ Max({1, x}) # 0
    <3>1. PICK y \in {1, x} : \A z \in {1, x} : y >= z
      <4>1. x >= 1 \/ 1 >= x
        OBVIOUS
      <4> QED BY <4>1
    <3>2. Max({1, x}) \in {1, x} /\ Max({1, x}) >= 1
      BY <3>1 DEF Max
    <3> QED BY <3>2
  <2>2. Max({1, input.iep.redundancy}) \in Nat /\ Max({1, input.iep.redundancy}) # 0
    BY <1>1, <2>1
  <2> QED BY <2>2 DEF Redundancy
<1>4. n \in Nat
  <2> DEFINE D == DOMAIN graph
  <2>1. IsFiniteSet(SUBSET (SUBSET D))
    <3>1. IsFiniteSet(SUBSET D)
      BY <1>1, GraphFacts, FS_SUBSET
    <3> QED BY <3>1, FS_SUBSET
  <2>2. ASSUME NEW f \in Matches(input, graph), NEW e \in input.edges
        PROVE  {f[e[1]], f[e[2]]} \in SUBSET D
    <3>1. e[1] \in 0..(input.size - 1) /\ e[2] \in 0..(input.size - 1)
      BY <1>1, InputFacts DEF Scheduled
    <3>2. f \in [0..(input.size - 1) -> D]
      BY DEF Matches
    <3> QED BY <3>1, <3>2
  <2>3. Subgraphs(input, graph) \in SUBSET (SUBSET (SUBSET D))
    BY <2>2 DEF Subgraphs
  <2> QED BY <2>1, <2>3, FS_Subset, FS_CardinalityType
<1> HIDE DEF R, n
<1>5. (R * n) \div R = n
  BY <1>3, <1>4
<1> QED BY <1>2, <1>5 DEF Result, R, n

\* Whatever the input and the data graph: if the schedule is what is expected of one,
\* operator< is a strict weak order wherever more than two operations are sorted with it,
\* and bounded rows are read by bounded operations only, then the program has counted the
\* matches that respect the restrictions when it returns: each of them once, and nothing
\* else, one by one or by inclusion-exclusion (create_plan to gen_code_iep and the loops
\* of gen_code_omp).
THEOREM MatchesCounted ==
  ASSUME InputsOrderly, SchedulesFit
  PROVE  Spec /\ []BoundedRowsSuffice => []CountsMatches
<1> DEFINE I == LoopInv /\ PlanOrdered /\ CounterInv /\ CountInv
<1>1. LoopInit => I
  <2> SUFFICES ASSUME LoopInit PROVE I
    OBVIOUS
  <2>1. PlanOrdered
    BY EmptyInOrder DEF PlanOrdered, LoopInit, GenInit, Init
  <2> QED BY <2>1, LoopInitially, CountInitially DEF CounterInv, LoopInit
<1>2. I /\ PlanOK /\ [Next]_vars => I'
  BY LoopStep, OrderStep, CounterStep, CountStep DEF LoopInv
<1>3. I => CountsMatches
  BY MatchesAtEnd
<1>4. Spec => []InOrder
  BY OperandsOrdered
<1>5. InOrder /\ BoundedRowsSuffice => PlanOK
  BY DEF PlanOK
<1> QED BY <1>1, <1>2, <1>3, <1>4, <1>5, PTL DEF Spec

\* If besides those matches are as many times the subgraphs as the redundancy says, the
\* program's result is the number of subgraphs (get_result in backend.h).
THEOREM SubgraphsCounted ==
  ASSUME InputsOrderly, SchedulesFit, RedundanciesFit
  PROVE  Spec /\ []BoundedRowsSuffice => []CountsSubgraphs
<1> DEFINE I == LoopInv /\ PlanOrdered /\ CounterInv /\ CountInv
<1>1. LoopInit => I
  <2> SUFFICES ASSUME LoopInit PROVE I
    OBVIOUS
  <2>1. PlanOrdered
    BY EmptyInOrder DEF PlanOrdered, LoopInit, GenInit, Init
  <2> QED BY <2>1, LoopInitially, CountInitially DEF CounterInv, LoopInit
<1>2. I /\ PlanOK /\ [Next]_vars => I'
  BY LoopStep, OrderStep, CounterStep, CountStep DEF LoopInv
<1>3. I => CountsSubgraphs
  BY SubgraphsAtEnd
<1>4. Spec => []InOrder
  BY OperandsOrdered
<1>5. InOrder /\ BoundedRowsSuffice => PlanOK
  BY DEF PlanOK
<1> QED BY <1>1, <1>2, <1>3, <1>4, <1>5, PTL DEF Spec
=============================================================================
