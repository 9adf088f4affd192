------------------------------- MODULE MCLoopNest ------------------------------
(* Plans of all connected patterns with three to five vertices, as GraphPi *)
(* schedules them, on small data graphs.                                   *)
EXTENDS LoopNest

CONSTANTS Sizes, MCPrunings, MCMatTypes

\* Inclusion-exclusion over num sets: every partition with its Moebius value.
Factorial[n \in 0..4] == IF n = 0 THEN 1 ELSE n * Factorial[n - 1]
PartitionsOf(set) ==
  {p \in SUBSET (SUBSET set \ {{}}) :
     UNION p = set /\ \A a, b \in p : a = b \/ a \intersect b = {}}
Moebius(p) ==
  FoldSet(LAMBDA part, n : n * (IF Cardinality(part) % 2 = 1 THEN 1 ELSE -1)
                             * Factorial[Cardinality(part) - 1], 1, p)
Groups(num) == {[val |-> Moebius(p), parts |-> p] : p \in PartitionsOf(0..(num - 1))}

S(size, edges, restricts, num, redundancy) ==
  [size |-> size, edges |-> edges, restricts |-> restricts,
   iep |-> [num |-> num, redundancy |-> redundancy, groups |-> Groups(num)]]

(* What get_schedule returns: edges, restrictions, the number of sets of   *)
(* inclusion-exclusion (0: not known) and its redundancy.                  *)
Patterns3 ==
 { S(3, {<<0, 1>>, <<0, 2>>},
    {<<1, 2>>}, 2, 2),
  S(3, {<<0, 1>>, <<0, 2>>, <<1, 2>>},
    {<<1, 2>>, <<0, 1>>}, 1, 1)}

Patterns4 ==
 { S(4, {<<0, 1>>, <<0, 2>>, <<1, 3>>, <<2, 3>>},
    {<<1, 2>>, <<0, 3>>, <<0, 1>>}, 1, 1),
  S(4, {<<0, 1>>, <<0, 2>>, <<1, 3>>},
    {<<0, 1>>}, 2, 1),
  S(4, {<<0, 1>>, <<0, 2>>, <<0, 3>>},
    {<<2, 3>>, <<1, 2>>}, 3, 6),
  S(4, {<<0, 1>>, <<0, 2>>, <<0, 3>>, <<1, 2>>},
    {<<1, 2>>}, 2, 1),
  S(4, {<<0, 1>>, <<0, 2>>, <<0, 3>>, <<1, 2>>, <<1, 3>>},
    {<<2, 3>>, <<0, 1>>}, 2, 2),
  S(4, {<<0, 1>>, <<0, 2>>, <<0, 3>>, <<1, 2>>, <<1, 3>>, <<2, 3>>},
    {<<2, 3>>, <<1, 2>>, <<0, 1>>, <<0, 3>>}, 1, 1)}

Patterns5 ==
 { S(5, {<<0, 1>>, <<0, 2>>, <<1, 3>>, <<2, 4>>, <<3, 4>>},
    {<<1, 2>>, <<0, 1>>, <<0, 3>>, <<0, 4>>}, 1, 1),
  S(5, {<<0, 1>>, <<0, 2>>, <<1, 3>>, <<2, 4>>},
    {<<1, 2>>}, 2, 1),
  S(5, {<<0, 1>>, <<0, 2>>, <<0, 4>>, <<1, 3>>, <<2, 3>>},
    {<<1, 2>>}, 2, 1),
  S(5, {<<0, 1>>, <<0, 2>>, <<0, 3>>, <<1, 4>>, <<2, 4>>},
    {<<1, 2>>}, 0, 1),
  S(5, {<<0, 1>>, <<0, 2>>, <<1, 3>>, <<1, 4>>, <<2, 3>>, <<2, 4>>},
    {<<3, 4>>, <<1, 2>>, <<0, 3>>}, 2, 3),
  S(5, {<<0, 1>>, <<0, 2>>, <<0, 3>>, <<1, 3>>, <<1, 4>>, <<2, 3>>, <<2, 4>>},
    {<<1, 2>>, <<0, 3>>}, 2, 1),
  S(5, {<<0, 1>>, <<0, 2>>, <<0, 3>>, <<1, 4>>},
    {<<2, 3>>}, 3, 2),
  S(5, {<<0, 1>>, <<0, 2>>, <<0, 3>>, <<1, 3>>, <<1, 4>>, <<2, 4>>},
    {<<0, 1>>}, 2, 1),
  S(5, {<<0, 1>>, <<0, 2>>, <<0, 3>>, <<1, 2>>, <<1, 4>>},
    {<<0, 1>>}, 3, 1),
  S(5, {<<0, 1>>, <<0, 2>>, <<0, 3>>, <<1, 2>>, <<1, 3>>, <<2, 4>>},
    {<<0, 1>>}, 2, 1),
  S(5, {<<0, 1>>, <<0, 2>>, <<0, 3>>, <<1, 3>>, <<2, 4>>},
    {<<1, 3>>}, 2, 1),
  S(5, {<<0, 1>>, <<0, 2>>, <<0, 3>>, <<0, 4>>},
    {<<3, 4>>, <<2, 3>>, <<1, 2>>, <<1, 4>>}, 4, 24),
  S(5, {<<0, 1>>, <<0, 2>>, <<0, 3>>, <<0, 4>>, <<1, 4>>, <<2, 3>>},
    {<<2, 3>>, <<1, 4>>, <<1, 2>>}, 2, 1),
  S(5, {<<0, 1>>, <<0, 2>>, <<0, 3>>, <<0, 4>>, <<1, 3>>, <<1, 4>>, <<2, 3>>, <<2, 4>>},
    {<<3, 4>>, <<1, 2>>, <<1, 3>>}, 2, 2),
  S(5, {<<0, 1>>, <<0, 2>>, <<0, 3>>, <<0, 4>>, <<1, 2>>},
    {<<3, 4>>, <<1, 2>>}, 3, 2),
  S(5, {<<0, 1>>, <<0, 2>>, <<0, 3>>, <<1, 2>>, <<1, 4>>, <<2, 3>>, <<2, 4>>},
    {<<0, 1>>}, 0, 1),
  S(5, {<<0, 1>>, <<0, 2>>, <<0, 3>>, <<0, 4>>, <<1, 2>>, <<1, 3>>, <<2, 4>>},
    {<<1, 2>>}, 2, 1),
  S(5, {<<0, 1>>, <<0, 2>>, <<0, 3>>, <<0, 4>>, <<1, 2>>, <<1, 3>>},
    {<<2, 3>>}, 3, 2),
  S(5, {<<0, 1>>, <<0, 2>>, <<0, 3>>, <<1, 2>>, <<1, 3>>, <<2, 3>>, <<2, 4>>},
    {<<1, 3>>, <<0, 1>>}, 2, 1),
  S(5, {<<0, 1>>, <<0, 2>>, <<0, 3>>, <<0, 4>>, <<1, 2>>, <<1, 3>>, <<1, 4>>},
    {<<3, 4>>, <<2, 3>>, <<0, 1>>}, 3, 6),
  S(5, {<<0, 1>>, <<0, 2>>, <<0, 3>>, <<0, 4>>, <<1, 2>>, <<1, 3>>, <<1, 4>>, <<2, 3>>},
    {<<2, 3>>, <<0, 1>>}, 2, 1),
  S(5, {<<0, 1>>, <<0, 2>>, <<0, 3>>, <<0, 4>>, <<1, 2>>, <<1, 3>>, <<1, 4>>, <<2, 3>>, <<2, 4>>},
    {<<3, 4>>, <<1, 2>>, <<0, 1>>}, 2, 2),
  S(5, {<<0, 1>>, <<0, 2>>, <<0, 3>>, <<0, 4>>, <<1, 2>>, <<1, 3>>, <<1, 4>>, <<2, 3>>, <<2, 4>>, <<3, 4>>},
    {<<3, 4>>, <<2, 3>>, <<1, 2>>, <<1, 4>>, <<0, 1>>, <<0, 3>>}, 1, 1)}


\* A tree with a leaf at the root's second child.
Patterns6 ==
 { S(6, {<<0, 1>>, <<0, 2>>, <<0, 5>>, <<1, 3>>, <<1, 4>>},
    {<<3, 4>>, <<2, 5>>, <<2, 3>>}, 0, 1)}

Patterns ==
  UNION {CASE n = 3 -> Patterns3 [] n = 4 -> Patterns4 [] n = 5 -> Patterns5 [] n = 6 -> Patterns6 :
           n \in Sizes}

(* What the run loop_nest_any_pattern is about: vertex-induced plans with  *)
(* mini graphs that do not compile, and an inclusion-exclusion whose       *)
(* redundancy does not fit its restrictions.                               *)
Undeclared ==
  {{<<0, 1>>, <<0, 2>>, <<0, 3>>, <<1, 3>>, <<2, 4>>},
   {<<0, 1>>, <<0, 2>>, <<0, 3>>, <<1, 2>>, <<1, 3>>, <<2, 4>>}}
TwoThree == {<<0, 1>>, <<0, 2>>, <<1, 3>>, <<1, 4>>, <<2, 3>>, <<2, 4>>}
Fails(in) ==
  \/ in.matType = "VertexInduced" /\ in.pruning # "None" /\ in.edges \in Undeclared
  \/ in.matType = "EdgeInducedIEP" /\ in.edges = TwoThree

AllInputs ==
  {in \in {[size |-> p.size, edges |-> p.edges, restricts |-> p.restricts, iep |-> p.iep,
            matType |-> t, pruning |-> r] : p \in Patterns, t \in MCMatTypes, r \in MCPrunings} :
     in.matType = "EdgeInducedIEP" => in.iep.num > 0}
MCInputs == {in \in AllInputs : ~Fails(in)}

\* The theorems that ask for orderly inputs are about all of these.
ASSUME InputsAreOrderly == InputsOrderly

ASSUME InputsFit == SchedulesFit /\ \A in \in MCInputs : RedundancyFits(in)

\* A data graph from its edges.
Adjacency(n, edges) ==
  [v \in 0..(n - 1) |-> {w \in 0..(n - 1) : <<v, w>> \in edges \/ <<w, v>> \in edges}]

AllGraphs(n) ==
  {Adjacency(n, edges) : edges \in SUBSET {e \in (0..(n - 1)) \X (0..(n - 1)) : e[1] < e[2]}}

\* A clique of four with a tail, and a cycle of five with a chord.
Kite == Adjacency(5, {<<0, 1>>, <<0, 3>>, <<0, 4>>, <<1, 3>>, <<1, 4>>, <<3, 4>>, <<1, 2>>})
House == Adjacency(5, {<<0, 2>>, <<2, 4>>, <<4, 1>>, <<1, 3>>, <<3, 0>>, <<0, 4>>})
\* The pattern itself with its vertices the other way round.
Itself(in) ==
  Adjacency(in.size, {<<in.size - 1 - e[1], in.size - 1 - e[2]>> : e \in in.edges})

\* Five vertices with all edges but one, and an isolated vertex.
Dense == Adjacency(6, {e \in (0..5) \X (0..5) : e[1] < e[2] /\ e # <<1, 4>> /\ 3 \notin {e[1], e[2]}})

MCGraphs(in) ==
  IF in.size < 5 THEN AllGraphs(4) \union {Kite, House} ELSE {Itself(in), Dense}

=============================================================================
