----------------------------- MODULE MiniGraphRows -----------------------------
(***************************************************************************)
(* The rows of mini graphs: MiniGraphEager, MiniGraphLazy, MiniGraphOnline *)
(* and MiniGraphCostModel in src/src/backend/minigraph.h.                  *)
(*                                                                         *)
(* A mini graph keeps, for every vertex of a set, the part of its          *)
(* neighbourhood inside another set.  A policy decides which rows are      *)
(* pruned while the mini graph is built, which are deferred to their first *)
(* use, with space reserved for them, and which are read from the source   *)
(* whenever they are used.  The source is the data graph or a mini graph   *)
(* built in an enclosing loop, itself with deferred rows.  All rows of a   *)
(* mini graph share one buffer.  The module has one mini graph of each     *)
(* kind, "outer" built from the data graph and "inner" built from "outer". *)
(***************************************************************************)
EXTENDS Integers, Sequences, FiniteSetsExt

CONSTANTS
  Ids,        (* the vertices of the data graph                            *)
  Adj,        (* graph->N                                                  *)
  Outers,     (* the arguments "outer" may be built with                   *)
  Inners      (* those of "inner"                                          *)

(* An argument record: policy, bounded (m_bounded), vertex and intersect   *)
(* and iter (the three sets of build), shared (iter and vertex begin at    *)
(* the same address).                                                      *)
MiniGraphs == {"outer", "inner"}
Policies == {"Eager", "Lazy", "Online", "CostModel"}
Arguments ==
  [policy : Policies, bounded : BOOLEAN, vertex : SUBSET Ids,
   intersect : SUBSET Ids, iter : SUBSET Ids, shared : BOOLEAN]

ASSUME RowsAssumption ==
  /\ Ids \subseteq Nat /\ IsFiniteSet(Ids) /\ Adj \in [Ids -> SUBSET Ids]
  /\ Outers \subseteq Arguments /\ Inners \subseteq Arguments

VARIABLES
  args,       (* the arguments of the two builds                           *)
  rows,       (* m_degree and m_pos of the rows handled so far             *)
  used,       (* m_pos of the next row, num_edges in MiniGraphLazy         *)
  reserved,   (* the elements m_ctn has been asked to hold                 *)
  cells       (* the buffer of m_ctn                                       *)

vars == <<args, rows, used, reserved, cells>>

Junk == -1     (* not a vertex *)
Unset == -1    (* an uninitialised position *)

\* A buffer: large enough for every row.
Positions == 0..(Cardinality(Ids) * Cardinality(Ids))

Smaller(a, b) == IF a < b THEN a ELSE b

\* The members of a set of vertices in ascending order.
Ascending(set) ==
  [k \in 1..Cardinality(set) |-> CHOOSE x \in set : Cardinality({y \in set : y <= x}) = k]

Vertices(m) == Ascending(args[m].vertex)
Built(m) == Len(rows[m]) = Cardinality(args[m].vertex)

\* The row of a vertex: what indices() finds, directly, by bisection or by a merge.
IndexIn(m, v) == CHOOSE i \in DOMAIN Vertices(m) : Vertices(m)[i] = v

\* Faulty variant: the row is not intersected.
KeptAll(m, v, neighbours) == {x \in neighbours : args[m].bounded => x < v}

\* What a pruned row of v holds: the part of a neighbourhood in m_intersect, below
\* v if the mini graph is bounded.
Kept(m, v, neighbours) ==
  {x \in neighbours \intersect args[m].intersect : args[m].bounded => x < v}

(***************************************************************************)
(* Reading a row.                                                          *)
(***************************************************************************)
Stored(m, row) == {cells[m][k] : k \in row.pos..(row.pos + row.len - 1)}

\* What N returns for row i, and the row and the buffer it leaves, given the
\* neighbourhood the source has.
Value(m, i, source) ==
  LET row == rows[m][i]
  IN CASE row.mode = "pruned" -> Stored(m, row)
       [] row.mode = "deferred" -> Kept(m, Vertices(m)[i], source)
       [] row.mode = "unpruned" -> source
       [] OTHER -> {Junk}

OuterValue(v) == Value("outer", IndexIn("outer", v), Adj[v])
Source(m, v) == IF m = "outer" THEN Adj[v] ELSE OuterValue(v)
N(m, i) == Value(m, i, Source(m, Vertices(m)[i]))

Written(m, pos, set) ==
  [k \in DOMAIN cells[m] |->
     IF k \in pos..(pos + Cardinality(set) - 1)
     THEN Ascending(set)[k - pos + 1] ELSE cells[m][k]]

Pruned(pos, set) == [mode |-> "pruned", pos |-> pos, len |-> Cardinality(set)]

Defers(m, i) == rows[m][i].mode = "deferred"

\* Reading row i of "outer" while a row of "inner" is handled.
OuterAfter(touched, v) ==
  LET i == IndexIn("outer", v)
      row == rows["outer"][i]
      kept == Kept("outer", v, Adj[v])
  IN IF touched /\ Defers("outer", i)
     THEN [rows |-> [rows["outer"] EXCEPT ![i] = Pruned(row.pos, kept)],
           cells |-> Written("outer", row.pos, kept)]
     ELSE [rows |-> rows["outer"], cells |-> cells["outer"]]

(***************************************************************************)
(* Building.                                                               *)
(***************************************************************************)
\* Whether the next loop visits row i.
Iterated(m, i) ==
  IF args[m].shared THEN i <= Cardinality(args[m].iter)
                    ELSE Vertices(m)[i] \in args[m].iter

\* Building from the data graph, MiniGraphCostModel handles the iterated rows only
\* if there are no vertices, so with a shared begin they are never initialised.
SkipsIterated(m) == m = "outer" /\ args[m].policy = "CostModel" /\ args[m].shared

\* advance may stop behind the iteration set, and the element it reads there may
\* happen to be the vertex.
ReadsBehind(m, i) ==
  /\ args[m].policy = "CostModel" /\ ~args[m].shared
  /\ \A x \in args[m].iter : x < Vertices(m)[i]

Uniterated ==
  [Eager |-> {"pruned"}, Lazy |-> {"unpruned"}, Online |-> {"deferred"},
   CostModel |-> {"deferred", "unpruned"}]

RowModes(m, i) ==
  IF Iterated(m, i) THEN {IF SkipsIterated(m) THEN "unset" ELSE "pruned"}
  ELSE Uniterated[args[m].policy]
       \union (IF ReadsBehind(m, i) THEN {"pruned"} ELSE {})

\* Faulty variant: a row not pruned yet counts as empty.
DegreeOfDeferredZero(m, v) ==
  IF m = "outer" THEN Cardinality({x \in Adj[v] : args[m].bounded => x < v})
  ELSE LET row == rows["outer"][IndexIn("outer", v)]
       IN IF row.mode = "pruned" THEN row.len ELSE 0

\* Degree of the source's row: the sentinels of rows not pruned exceed every degree.
SourceDegree(m, v) ==
  IF m = "outer" THEN Cardinality({x \in Adj[v] : args[m].bounded => x < v})
  ELSE LET row == rows["outer"][IndexIn("outer", v)]
       IN IF row.mode = "pruned" THEN row.len ELSE Cardinality(Ids)

\* The space a row that is not packed may need.
Estimate(m, v) ==
  Smaller(Cardinality(args[m].intersect),
          IF args[m].policy = "Online" THEN SourceDegree(m, v) ELSE Cardinality(Adj[v]))

\* Faulty variant: no space is set aside for deferred rows.
SpacePacked(m, v, mode, kept) ==
  IF args[m].policy = "Online" THEN Estimate(m, v)
  ELSE IF mode = "pruned" THEN Cardinality(kept) ELSE 0

\* How far the next row is from this one.
Space(m, v, mode, kept) ==
  IF args[m].policy = "Online" \/ mode = "deferred" THEN Estimate(m, v)
  ELSE IF mode = "pruned" THEN Cardinality(kept) ELSE 0

\* Faulty variant: the space for a row is asked for only after it has been filled.
DemandBehind(m, v, mode) == IF mode = "deferred" THEN Estimate(m, v) ELSE 0

\* The elements m_ctn is made to hold behind the rows before this one.
Demand(m, v, mode) ==
  IF args[m].policy = "Online" \/ mode = "deferred" THEN Estimate(m, v)
  ELSE IF mode = "pruned" THEN Cardinality(args[m].intersect) ELSE 0

BuildRow(m, mode) ==
  LET i == Len(rows[m]) + 1
      v == Vertices(m)[i]
      kept == Kept(m, v, Source(m, v))
      lost == mode = "unset" \/ used[m] = Unset
      after == OuterAfter(m = "inner" /\ mode = "pruned", v)
      row == IF lost THEN [mode |-> "unset", pos |-> Unset, len |-> 0]
             ELSE IF mode = "pruned" THEN Pruned(used[m], kept)
             ELSE [mode |-> mode, pos |-> used[m], len |-> 0]
      filled == IF row.mode = "pruned" THEN Written(m, used[m], kept) ELSE cells[m]
  IN /\ mode \in RowModes(m, i)
     /\ rows' = IF m = "outer" THEN [rows EXCEPT !.outer = Append(@, row)]
                ELSE [outer |-> after.rows, inner |-> Append(rows.inner, row)]
     /\ cells' = IF m = "outer" THEN [cells EXCEPT !.outer = filled]
                 ELSE [outer |-> after.cells, inner |-> filled]
     /\ used' = [used EXCEPT ![m] = IF lost THEN Unset ELSE @ + Space(m, v, mode, kept)]
     /\ reserved' =
          [reserved EXCEPT ![m] = IF lost THEN @ ELSE Max({@, used[m] + Demand(m, v, mode)})]
     /\ UNCHANGED args

BuildOuter == ~Built("outer") /\ \E mode \in RowModes("outer", Len(rows.outer) + 1) :
                BuildRow("outer", mode)

BuildInner == /\ Built("outer") /\ ~Built("inner")
              /\ \E mode \in RowModes("inner", Len(rows.inner) + 1) : BuildRow("inner", mode)

(***************************************************************************)
(* Use: N(i) prunes a deferred row.                                        *)
(***************************************************************************)
ReadOuter(i) ==
  LET after == OuterAfter(TRUE, Vertices("outer")[i])
  IN /\ Built("outer")
     /\ rows' = [rows EXCEPT !.outer = after.rows]
     /\ cells' = [cells EXCEPT !.outer = after.cells]
     /\ UNCHANGED <<args, used, reserved>>

ReadInner(i) ==
  LET v == Vertices("inner")[i]
      row == rows.inner[i]
      kept == Kept("inner", v, OuterValue(v))
      after == OuterAfter(row.mode \in {"deferred", "unpruned"}, v)
  IN /\ Built("inner")
     /\ rows' = [outer |-> after.rows,
                 inner |-> IF Defers("inner", i)
                           THEN [rows.inner EXCEPT ![i] = Pruned(row.pos, kept)]
                           ELSE rows.inner]
     /\ cells' = [outer |-> after.cells,
                  inner |-> IF Defers("inner", i) THEN Written("inner", row.pos, kept)
                            ELSE cells.inner]
     /\ UNCHANGED <<args, used, reserved>>

\* The inner mini graph's sets are subsets of the outer one's, and a bounded mini
\* graph is the source of bounded ones only (get_parent_mg).  A plan has one policy
\* beside MiniGraphEager (gen_mg_type).
Compatible(outer, inner) ==
  /\ outer.policy = inner.policy \/ "Eager" \in {outer.policy, inner.policy}
  /\ inner.vertex \subseteq outer.vertex /\ inner.intersect \subseteq outer.intersect
  /\ outer.bounded => inner.bounded

\* Sets that begin at the same address: one is a prefix of the other.
PrefixOf(a, b) == a \subseteq b /\ \A x \in a, y \in b \ a : x < y
SharedIsPrefix(arg) == arg.shared => PrefixOf(arg.iter, arg.vertex)

Init ==
  /\ args \in {[outer |-> outer, inner |-> inner] :
                 outer \in {arg \in Outers : SharedIsPrefix(arg)},
                 inner \in {arg \in Inners : SharedIsPrefix(arg)}}
  /\ Compatible(args.outer, args.inner)
  /\ rows = [m \in MiniGraphs |-> << >>]
  /\ used = [m \in MiniGraphs |-> 0]
  /\ reserved = [m \in MiniGraphs |-> 0]
  /\ cells = [m \in MiniGraphs |-> [k \in Positions |-> Junk]]

Next ==
  \/ BuildOuter \/ BuildInner
  \/ \E i \in DOMAIN rows.outer : ReadOuter(i)
  \/ \E i \in DOMAIN rows.inner : ReadInner(i)

Spec == Init /\ [][Next]_vars

-----------------------------------------------------------------------------
(***************************************************************************)
(* Properties.                                                             *)
(***************************************************************************)
\* The variables keep their types, and no row is longer than m_intersect.
TypeOK ==
  /\ args \in [MiniGraphs -> Arguments]
  /\ rows \in [MiniGraphs -> Seq([mode : {"pruned", "deferred", "unpruned", "unset"},
                                  pos : Nat \union {Unset}, len : Nat])]
  /\ \A m \in MiniGraphs : \A i \in DOMAIN rows[m] :
       rows[m][i].len <= Cardinality(args[m].intersect)
  /\ used \in [MiniGraphs -> Nat \union {Unset}]
  /\ reserved \in [MiniGraphs -> Nat]
  /\ cells \in [MiniGraphs -> [Positions -> Ids \union {Junk}]]

\* Whenever a row is read, and whatever other rows have been read or pruned before,
\* its part in m_intersect (below the vertex, if bounded) is that of the vertex's
\* neighbourhood in the data graph: all a consumer looks at, since it intersects
\* the row with a subset of m_intersect.
RowsPromised ==
  \A m \in MiniGraphs : Built("outer") /\ Built(m) =>
    \A i \in DOMAIN rows[m] :
      LET v == Vertices(m)[i] IN Kept(m, v, N(m, i)) = Kept(m, v, Adj[v])

\* No row, pruned now or later, exceeds the space its buffer was made to hold.
WithinReserved ==
  \A m \in MiniGraphs : \A i \in DOMAIN rows[m] :
    LET row == rows[m][i]
    IN row.mode \in {"pruned", "deferred"} =>
         row.pos + Cardinality(Kept(m, Vertices(m)[i], Adj[Vertices(m)[i]])) <= reserved[m]

\* A row that has been handed out as a view keeps its place and its elements:
\* pruning another row later does not write over it.
RowsStay ==
  [][\A m \in MiniGraphs : \A i \in DOMAIN rows[m] :
       rows[m][i].mode = "pruned" =>
         /\ rows'[m][i] = rows[m][i]
         /\ \A k \in rows[m][i].pos..(rows[m][i].pos + rows[m][i].len - 1) :
              cells'[m][k] = cells[m][k]]_vars

=============================================================================
