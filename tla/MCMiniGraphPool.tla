---------------------------- MODULE MCMiniGraphPool ----------------------------
(* The model-checking instance of MiniGraphPool. *)
EXTENDS MiniGraphPool

CONSTANTS c1, c2, c3
ThreeContainers == {c1, c2, c3}
SmallAndLarge == {2, 3, 7}
AnyContainer == Permutations(ThreeContainers)
=============================================================================
