---------------------------- MODULE MCMiniGraphRows ----------------------------
(* Model-checking instances of MiniGraphRows. *)
EXTENDS MiniGraphRows

FourIds == 0..3

\* Two triangles with a common edge.
Diamond == [v \in FourIds |-> IF v \in {0, 3} THEN {1, 2} ELSE FourIds \ {v}]

Arg(policies, bounds, vertices, intersects, iters, shares) ==
  [policy : policies, bounded : bounds, vertex : vertices,
   intersect : intersects, iter : iters, shared : shares]

Iters == {{}, {0, 1}, {0, 2, 3}}

\* Outside MiniGraphCostModel's build from the data graph a shared begin is harmless.
OuterArgs ==
  Arg(Policies, BOOLEAN, {FourIds}, {{0, 1, 3}, FourIds}, Iters, {FALSE})
    \union Arg(Policies \ {"CostModel"}, {FALSE}, {FourIds}, {FourIds}, Iters, {TRUE})

InnerArgs ==
  Arg(Policies, BOOLEAN, {FourIds, {1, 2, 3}}, {{1, 3}}, {{1, 2}, {0, 3}}, BOOLEAN)

SharedCostModel == Arg({"CostModel"}, {FALSE}, {FourIds}, {FourIds}, Iters, {TRUE})
NoInner == Arg({"Eager"}, {FALSE}, {{}}, {{}}, {{}}, {FALSE})
=============================================================================
