------------------------------- MODULE MCRunner -------------------------------
(* Model-checking instances of Runner: two threads and three iterations, one   *)
(* of which finds nothing and is left through "continue".                      *)
EXTENDS Runner

\* Set sizes, as plans without inclusion-exclusion add them.
PlainIncrements == [i \in Iterations |->
  CASE i = 0 -> <<1, 2>> [] i = 1 -> << >> [] OTHER -> <<3>>]

MCSkipped == {1}
=============================================================================
