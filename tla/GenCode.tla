-------------------------------- MODULE GenCode --------------------------------
(***************************************************************************)
(* The generated program: which statements gen_code_omp in                 *)
(* src/src/codegen/codegen.cpp puts into every loop of a plan.             *)
(*                                                                         *)
(* The program is the value of "code".  The body of loop d declares the    *)
(* neighbourhood of the vertex it matches if "adj" says so, reads the rows *)
(* of the mini graphs in "reads", computes the sets in "sets" one after    *)
(* the other and builds the mini graphs in "builds" for the loops below.   *)
(***************************************************************************)
EXTENDS PlanIR

VARIABLES
  code         (* the generated program                                    *)

genVars == <<planVars, code>>

Bodies == 0..LastLoop

(***************************************************************************)
(* Set statements.                                                         *)
(***************************************************************************)
\* A statement: the operation, its form, the set and the mini graph it reads, whether
\* it adds to the counter instead of declaring a set, and whether an empty result
\* ends the iteration.
Statement(op, form, from, row, counts, skips) ==
  [op |-> op, form |-> form, from |-> from, row |-> row, counts |-> counts, skips |-> skips]

gen_code_op(op) ==
  LET parent == get_parent_vset(op)
      sibling == parent # None /\ parent.dep = op.dep
      form == CASE parent = None -> "chain"
                [] sibling       -> "sibling"
                [] OTHER         -> IF IsEdge(op) THEN "intersect"
                                    ELSE IF Vertex THEN "subtract"
                                    ELSE IF IsRestricted(op) THEN "bounded" ELSE "remove"
  IN Statement(op, form, parent.id, None.id, is_last_op(op) /\ ~sibling, parent = None)

gen_code_mg_op(op) ==
  LET mg == get_parent_mg(op)
      form == IF computed(mg, iter_set[op.dep - 1], op) THEN "row"
              ELSE IF IsEdge(op) THEN "intersect" ELSE "subtract"
  IN IF mg = None THEN gen_code_op(op)
     ELSE Statement(op, form, get_parent_vset(op).id, mg.id, is_last_op(op), ~is_last_op(op))

\* The CHECKs on the way.
Checked(op) ==
  LET mg == get_parent_mg(op)
      parent == get_parent_vset(op)
  IN IF mg = None THEN parent = None => op.edges = {op.dep}
     ELSE /\ parent # None
          /\ ~(computed(mg, iter_set[op.dep - 1], op) /\ is_last_op(op))

(***************************************************************************)
(* Neighbourhoods and mini graphs.                                         *)
(***************************************************************************)
\* Faulty variant: looks at one operation only.
AdjNeededFirst(d) ==
  ~Pruning \/ get_parent_mg(set_ops[d][1]) = None

\* gen_code_read_adj declares the neighbourhood unless every operation of the loop
\* reads a mini graph.
AdjNeeded(d) ==
  ~Pruning \/ \E op \in ToSet(set_ops[d]) : get_parent_mg(op) = None

\* gen_code_mg_adj: the row has the index of the iteration if the iterated set begins
\* where the mini graph's vertices do, otherwise indices() has looked it up.
SameAddress(mg, d) ==
  /\ mg_dep(mg) = d - 1
  /\ mg.vertices.edges = iter_set[d - 1].edges

mg_should_eager(mg) ==
  LET d == mg_dep(mg)
  IN /\ iter_set[d] = mg.vertices
     /\ \E op \in ToSet(set_ops[d + 1]) : computed(mg, iter_set[d], op)

\* gen_code_mg_init and gen_code_mg_build.
Build(mg) ==
  [id |-> mg.id, vertices |-> mg.vertices.id, intersect |-> mg.intersect.id,
   iter |-> iter_set[mg_dep(mg)].id, parent |-> MGParent(mg).id,
   bounded |-> mg_bounded[mg.id],
   type |-> IF mg_should_eager(mg) THEN "Eager" ELSE input.pruning]

Read(mg, d) == [mg |-> mg.id, direct |-> SameAddress(mg, d)]

Mapped(seq, Op(_)) == [k \in DOMAIN seq |-> Op(seq[k])]

\* f, and y at x unless f has x.
With(f, x, y) == [z \in DOMAIN f \union {x} |-> IF z \in DOMAIN f THEN f[z] ELSE y]

\* gen_code_iep: the sets whose products are added up.
same_iep_computation(a, b) ==
  LET common == 0..Min({a.dep, b.dep})
  IN /\ a.edges \intersect common = b.edges \intersect common
     /\ a.restricts \intersect common = b.restricts \intersect common

iep_set(k) ==
  LastOf({op \in ToSet(set_ops[iep_depth]) :
            same_iep_computation(op, iter_set[iep_depth + k])}).id

NoCode == [adj |-> <<>>, reads |-> <<>>, sets |-> <<>>, builds |-> <<>>, iep |-> <<>>]

\* gen_code_omp for one loop; a failed CHECK ends the generator.
gen_code ==
  LET d == cursor[1]
  IN /\ phase = "gen_code" /\ d \in Bodies
     /\ IF \A op \in ToSet(set_ops[d]) : Checked(op)
        THEN /\ code' =
                  [code EXCEPT
                     !.adj = With(@, d, AdjNeeded(d)),
                     !.reads = With(@, d, Mapped(mg_used[d], LAMBDA mg : Read(mg, d))),
                     !.sets = With(@, d, Mapped(set_ops[d], gen_code_mg_op)),
                     !.builds = With(@, d, IF d = LastLoop THEN <<>> ELSE Mapped(mg_ops[d], Build))]
             /\ phase' = phase
        ELSE code' = code /\ phase' = "aborted"
     /\ cursor' = <<d + 1, 1>>
     /\ UNCHANGED <<input, set_ops, iter_set, mg_ops, mg_used, mg_bounded, indeedUsed>>

\* The counting statements of inclusion-exclusion, if it is used, and the end.
EndGenCode ==
  /\ phase = "gen_code" /\ cursor[1] \notin Bodies
  /\ code' = [code EXCEPT !.iep =
       IF iep_num > 1 THEN [k \in 0..(iep_num - 1) |-> iep_set(k)] ELSE @]
  /\ phase' = "generated"
  /\ UNCHANGED <<input, set_ops, iter_set, mg_ops, mg_used, mg_bounded, indeedUsed, cursor>>

GenInit == Init /\ code = NoCode

GenNext ==
  \/ /\ \/ CreatePlan \/ EndCreatePlan \/ CollectMiniGraphs \/ EndCollect
        \/ MarkUsed \/ EndMark \/ Inherit \/ EndInherit \/ Erase \/ EndErase
     /\ UNCHANGED code
  \/ gen_code \/ EndGenCode

(***************************************************************************)
(* What the generated program must be like.                                *)
(***************************************************************************)
Generated == phase = "generated"

\* The statements before statement k of loop d, and what they declare.
Before(d, k) ==
  ToSet(SubSeq(code.sets[d], 1, k - 1)) \union UNION {ToSet(code.sets[e]) : e \in 0..(d - 1)}
SetsDeclared(d, k) == {s.op.id : s \in {t \in Before(d, k) : ~t.counts}}
BuildsBefore(d, k) ==
  ToSet(SubSeq(code.builds[d], 1, k - 1)) \union UNION {ToSet(code.builds[e]) : e \in 0..(d - 1)}
IdsOf(builds) == {b.id : b \in builds}

\* The operand a set statement needs: the set of the same operation one loop further out,
\* or without the restriction of its own loop.
Prefix(p, op) ==
  LET outer == 0..(op.dep - 1)
  IN /\ p.dep = op.dep - 1
     /\ p.edges = op.edges \intersect outer /\ p.restricts = op.restricts \intersect outer

Sibling(p, op) ==
  p.dep = op.dep /\ p.edges = op.edges /\ p.restricts \union {op.dep} = op.restricts

SetFits(s, d) ==
  CASE s.form = "chain"   -> s.op.edges = {d}
    [] s.form = "row"     -> TRUE
    [] s.form = "sibling" -> \E p \in SetsTo(d) : p.id = s.from /\ Sibling(p, s.op)
    [] OTHER              -> \E p \in SetsTo(d) :
                               p.id = s.from /\ (Prefix(p, s.op) \/ Sibling(p, s.op))

\* The row a statement needs: one of a mini graph that keeps what the operation asks for.
RowFits(s, d) ==
  s.row # None.id \/ s.form = "row" =>
    \E mg \in MiniGraphsTo(d - 1) :
      /\ mg.id = s.row /\ MGSuperset(mg, iter_set[d - 1], s.op)
      /\ s.form = "row" => computed(mg, iter_set[d - 1], s.op)

\* The mini graph another one is built from keeps what that one keeps.
SourceFits(b, d) ==
  b.parent # None.id =>
    \E mg, source \in MiniGraphsTo(d) :
      /\ mg.id = b.id /\ source.id = b.parent
      /\ MGSuperset(source, mg.vertices, mg.intersect)

\* Every operand of every statement is declared before it and is the one it needs: sets
\* and rows that are read, the parent of a mini graph, and the sets a mini graph is
\* built from.
OperandsDeclared ==
  Generated =>
    \A d \in Bodies :
      /\ \A s \in ToSet(code.sets[d]) : SetFits(s, d) /\ RowFits(s, d)
      /\ \A b \in ToSet(code.builds[d]) : SourceFits(b, d)
      /\ \A mg \in ToSet(mg_used[d]) :
           mg \in MiniGraphsTo(d - 1) /\ IsSuperset(mg.vertices, iter_set[d - 1])
      /\ \A k \in DOMAIN code.reads[d] : code.reads[d][k].mg \in IdsOf(BuildsBefore(d, 1))
      /\ \A k \in DOMAIN code.sets[d] :
           LET s == code.sets[d][k]
           IN /\ s.form # "chain" => s.from \in SetsDeclared(d, k)
              /\ s.row # None.id => \E r \in ToSet(code.reads[d]) : r.mg = s.row
      /\ \A k \in DOMAIN code.builds[d] :
           LET b == code.builds[d][k]
           IN /\ {b.vertices, b.intersect, b.iter} \subseteq
                    SetsDeclared(d, Len(code.sets[d]) + 1)
              /\ b.parent # None.id => b.parent \in IdsOf(BuildsBefore(d, k))

\* Rows that hold vertices below their own only are read by operations that keep only
\* those, and by mini graphs that do.
BoundedRowsSuffice ==
  Generated =>
    \A d \in Bodies :
      /\ \A s \in ToSet(code.sets[d]) : s.row # None.id /\ mg_bounded[s.row] => IsRestricted(s.op)
      /\ \A b \in ToSet(code.builds[d]) : b.parent # None.id /\ mg_bounded[b.parent] => b.bounded

\* The neighbourhoods of outer vertices a statement of loop d names.
AdjacenciesUsed(s) ==
  CASE s.form = "chain" -> 0..s.op.dep
    [] s.form \in {"intersect", "subtract", "bounded", "remove"} /\ s.row = None.id -> {s.op.dep}
    [] OTHER -> {}

Compiles ==
  \A d \in Bodies : \A s \in ToSet(code.sets[d]) :
    \A u \in AdjacenciesUsed(s) : code.adj[u]

\* Generation ends in a program whose statements name declared neighbourhoods only
\* (gen_code_read_adj against the statements of gen_code_op).
BuildsProgram ==
  /\ phase \notin {"aborted", "undefined"}
  /\ Generated => Compiles

=============================================================================
