---------------------------- MODULE Runner_proofs ----------------------------
(***************************************************************************)
(* A row logged after a notification carries the complete result and main  *)
(* leaves nothing behind that the plan thread still uses, for every number *)
(* of threads, every plan, every deadline and with or without spurious     *)
(* wakeups; and on the way there, that no iteration of a plan is lost or   *)
(* counted twice and plan() returns the total.                             *)
(***************************************************************************)
EXTENDS Runner, FiniteSetTheorems, WellFoundedInduction, SequenceTheorems, TLAPS

(***************************************************************************)
(* Sums of integer functions over finite sets: facts about the folds the   *)
(* specification states its totals with.                                   *)
(*                                                                         *)
(* FoldFunction is defined by recursion over the subsets of its domain,    *)
(* with an unspecified choice at each step.  The facts are that such a     *)
(* recursion exists (SumsExist), that it is the same whatever is chosen    *)
(* (SumRemove), and what follows for sums of two functions.  Induction is  *)
(* over the subsets of a finite set, which are well founded.               *)
(***************************************************************************)

\* The sum of f over S.
SumOver(f, S) == FoldFunctionOnSet(+, 0, f, S)

Picked(s) == CHOOSE x \in s : TRUE

\* g is a solution of the recursion on the sets of D.
IsSum(g, f, D) ==
  g = [s \in D |-> IF s = {} THEN 0 ELSE f[Picked(s)] + g[s \ {Picked(s)}]]

-----------------------------------------------------------------------------
\* Induction on finite sets, with a set of sets in place of a predicate.
LEMMA SubsetInduction ==
  ASSUME NEW S, IsFiniteSet(S), NEW G,
         \A T \in SUBSET S : (\A U \in SUBSET T : U # T => U \in G) => T \in G
  PROVE  \A T \in SUBSET S : T \in G
<1> SUFFICES ASSUME NEW B \in SUBSET S, B \notin G PROVE FALSE
  OBVIOUS
<1> DEFINE Bad == {T \in SUBSET S : T \notin G}
<1>1. Bad \subseteq FiniteSubsetsOf(S) /\ Bad # {}
  BY FS_Subset DEF FiniteSubsetsOf
<1>2. \E T \in Bad : \A U \in Bad : ~(<<U, T>> \in StrictSubsetOrdering(S))
  <2> HIDE DEF Bad
  <2> QED BY <1>1, WFMin, FS_StrictSubsetOrderingWellFounded
<1>3. PICK T \in Bad : \A U \in Bad : ~(<<U, T>> \in StrictSubsetOrdering(S))
  BY <1>2
<1>4. \A U \in SUBSET T : U # T => U \in G
  BY <1>3 DEF StrictSubsetOrdering
<1> QED BY <1>3, <1>4

\* The sum of a function over its whole domain.
LEMMA FoldIsSum ==
  ASSUME NEW f
  PROVE  FoldFunction(+, 0, f) = SumOver(f, DOMAIN f)
BY DEF FoldFunction, SumOver

\* What the fold is defined as.
LEMMA SumOverDef ==
  ASSUME NEW f, NEW S
  PROVE  SumOver(f, S) = (CHOOSE g : IsSum(g, f, SUBSET S))[S]
BY DEF SumOver, FoldFunctionOnSet, MapThenFoldSet, IsSum, Picked

\* A chosen element is one.
LEMMA PickedIn == \A s : s # {} => Picked(s) \in s
BY DEF Picked

\* A solution on fewer sets agrees with one on more.
LEMMA SumsAgree ==
  ASSUME NEW f, NEW V, NEW W, W \subseteq V, IsFiniteSet(W), NEW g, NEW h,
         IsSum(g, f, SUBSET V), IsSum(h, f, SUBSET W)
  PROVE  h[W] = g[W]
<1> DEFINE Same == {t \in SUBSET W : g[t] = h[t]}
<1>1. ASSUME NEW T \in SUBSET W, \A U \in SUBSET T : U # T => U \in Same
      PROVE  T \in Same
  <2> DEFINE U == T \ {Picked(T)}
  <2>1. g[T] = IF T = {} THEN 0 ELSE f[Picked(T)] + g[U]
    <3>1. T \in SUBSET V
      OBVIOUS
    <3> QED BY <3>1 DEF IsSum
  <2>2. h[T] = IF T = {} THEN 0 ELSE f[Picked(T)] + h[U]
    BY DEF IsSum
  <2>3. T # {} => g[U] = h[U]
    BY <1>1, PickedIn
  <2> QED BY <2>1, <2>2, <2>3
<1>2. \A T \in SUBSET W : T \in Same
  <2> HIDE DEF Same
  <2> QED BY <1>1, SubsetInduction
<1> QED BY <1>2

\* The recursion of the fold, where it has solutions.
LEMMA SumUnfold ==
  ASSUME NEW f, NEW S, IsFiniteSet(S),
         \E g : IsSum(g, f, SUBSET S), \E h : IsSum(h, f, SUBSET (S \ {Picked(S)}))
  PROVE  SumOver(f, S) = IF S = {} THEN 0 ELSE f[Picked(S)] + SumOver(f, S \ {Picked(S)})
<1> DEFINE g == CHOOSE g : IsSum(g, f, SUBSET S)
           W == S \ {Picked(S)}
           h == CHOOSE h : IsSum(h, f, SUBSET W)
<1>1. IsSum(g, f, SUBSET S) /\ SumOver(f, S) = g[S]
  BY SumOverDef
<1>2. W \subseteq S /\ IsFiniteSet(W)
  BY FS_Subset
<1>3. IsSum(h, f, SUBSET W) /\ SumOver(f, W) = h[W]
  BY SumOverDef
<1> HIDE DEF g, h, W
<1>4. h[W] = g[W]
  BY <1>1, <1>2, <1>3, SumsAgree
<1>5. g[S] = IF S = {} THEN 0 ELSE f[Picked(S)] + g[W]
  <2>1. S \in SUBSET S
    OBVIOUS
  <2> QED BY <1>1, <2>1 DEF IsSum, W
<1> QED BY <1>1, <1>3, <1>4, <1>5 DEF W

\* The recursion has a solution on the subsets of a finite set.
LEMMA SumsExist ==
  ASSUME NEW f, NEW S, IsFiniteSet(S)
  PROVE  \E g : IsSum(g, f, SUBSET S)
<1> DEFINE Solved == {t \in SUBSET S : \E g : IsSum(g, f, SUBSET t)}
<1>1. ASSUME NEW T \in SUBSET S, \A U \in SUBSET T : U # T => U \in Solved
      PROVE  T \in Solved
  <2> DEFINE G == [s \in SUBSET T |->
                     IF s = {} THEN 0 ELSE f[Picked(s)] + SumOver(f, s \ {Picked(s)})]
  <2>1. ASSUME NEW V \in SUBSET T, V # T
        PROVE  SumOver(f, V) =
                 IF V = {} THEN 0 ELSE f[Picked(V)] + SumOver(f, V \ {Picked(V)})
    <3> DEFINE W == V \ {Picked(V)}
    <3>1. W \in SUBSET T /\ W # T /\ IsFiniteSet(V)
      BY <2>1, FS_Subset
    <3>2. (\E g : IsSum(g, f, SUBSET V)) /\ (\E h : IsSum(h, f, SUBSET W))
      BY <1>1, <2>1, <3>1
    <3> QED BY <3>1, <3>2, SumUnfold
  <2>2. ASSUME NEW s \in SUBSET T, s # {}
        PROVE  SumOver(f, s \ {Picked(s)}) = G[s \ {Picked(s)}]
    <3>1. s \ {Picked(s)} \in SUBSET T /\ s \ {Picked(s)} # T
      BY <2>2, PickedIn
    <3> QED BY <2>1, <3>1
  <2>3. IsSum(G, f, SUBSET T)
    BY <2>2 DEF IsSum
  <2> HIDE DEF G
  <2> QED BY <2>3
<1>2. \A T \in SUBSET S : T \in Solved
  <2> HIDE DEF Solved
  <2> QED BY <1>1, SubsetInduction
<1> QED BY <1>2

\* The recursion of the fold, on any finite set.
LEMMA SumRecursion ==
  ASSUME NEW f, NEW S, IsFiniteSet(S)
  PROVE  SumOver(f, S) = IF S = {} THEN 0 ELSE f[Picked(S)] + SumOver(f, S \ {Picked(S)})
<1>1. IsFiniteSet(S \ {Picked(S)})
  BY FS_Subset
<1> QED BY <1>1, SumsExist, SumUnfold

\* Sums of integers are integers.
LEMMA SumType ==
  ASSUME NEW f, NEW S, IsFiniteSet(S), \A x \in S : f[x] \in Int
  PROVE  SumOver(f, S) \in Int
<1> DEFINE G == {t \in SUBSET S : SumOver(f, t) \in Int}
<1>1. ASSUME NEW T \in SUBSET S, \A U \in SUBSET T : U # T => U \in G
      PROVE  T \in G
  <2>1. IsFiniteSet(T)
    BY FS_Subset
  <2>2. CASE T = {}
    <3>1. SumOver(f, T) = 0
      BY <2>1, <2>2, SumRecursion
    <3> QED BY <3>1
  <2>3. CASE T # {}
    <3>1. T \ {Picked(T)} \in SUBSET T /\ T \ {Picked(T)} # T /\ f[Picked(T)] \in Int
      BY <2>3, PickedIn
    <3>2. SumOver(f, T \ {Picked(T)}) \in Int
      BY <1>1, <3>1
    <3> QED BY <2>1, <2>3, <3>1, <3>2, SumRecursion
  <2> QED BY <2>2, <2>3
<1>2. \A T \in SUBSET S : T \in G
  <2> HIDE DEF G
  <2> QED BY <1>1, SubsetInduction
<1> QED BY <1>2

\* Whichever element is taken out first, the sum is the same.
LEMMA SumRemove ==
  ASSUME NEW f, NEW S, IsFiniteSet(S), \A x \in S : f[x] \in Int, NEW e \in S
  PROVE  SumOver(f, S) = f[e] + SumOver(f, S \ {e})
<1> DEFINE G == {t \in SUBSET S : \A x \in t : SumOver(f, t) = f[x] + SumOver(f, t \ {x})}
<1>1. ASSUME NEW T \in SUBSET S, \A U \in SUBSET T : U # T => U \in G
      PROVE  T \in G
  <2> SUFFICES ASSUME NEW x \in T PROVE SumOver(f, T) = f[x] + SumOver(f, T \ {x})
    OBVIOUS
  <2> DEFINE y == Picked(T)
             R == (T \ {x}) \ {y}
  <2>1. IsFiniteSet(T) /\ T # {} /\ y \in T /\ R \in SUBSET S
    BY FS_Subset, PickedIn
  <2>2. SumOver(f, T) = f[y] + SumOver(f, T \ {y})
    BY <2>1, SumRecursion
  <2>3. CASE x = y
    BY <2>2, <2>3
  <2>4. CASE x # y
    <3>1. (T \ {y}) \ {x} = R
      OBVIOUS
    <3>2. SumOver(f, T \ {y}) = f[x] + SumOver(f, R)
      <4>1. T \ {y} \in G
        BY <1>1, <2>1
      <4> QED BY <2>4, <3>1, <4>1
    <3>3. SumOver(f, T \ {x}) = f[y] + SumOver(f, R)
      <4>1. T \ {x} \in G
        BY <1>1
      <4> QED BY <2>1, <2>4, <4>1
    <3>4. IsFiniteSet(R)
      BY <2>1, FS_Subset
    <3>5. f[x] \in Int /\ f[y] \in Int /\ SumOver(f, R) \in Int
      BY <2>1, <3>4, SumType
    <3> HIDE DEF y, R
    <3> QED BY <2>2, <3>2, <3>3, <3>5
  <2> QED BY <2>3, <2>4
<1>2. \A T \in SUBSET S : T \in G
  <2> HIDE DEF G
  <2> QED BY <1>1, SubsetInduction
<1>3. S \in G
  <2> HIDE DEF G
  <2> QED BY <1>2
<1> QED BY <1>3

\* Functions that agree on a set have the same sum over it.
LEMMA SumEqual ==
  ASSUME NEW f, NEW g, NEW S, IsFiniteSet(S), \A x \in S : f[x] = g[x]
  PROVE  SumOver(f, S) = SumOver(g, S)
<1> DEFINE G == {t \in SUBSET S : SumOver(f, t) = SumOver(g, t)}
<1>1. ASSUME NEW T \in SUBSET S, \A U \in SUBSET T : U # T => U \in G
      PROVE  T \in G
  <2>1. IsFiniteSet(T)
    BY FS_Subset
  <2>2. CASE T = {}
    BY <2>1, <2>2, SumRecursion
  <2>3. CASE T # {}
    <3>1. T \ {Picked(T)} \in SUBSET T /\ T \ {Picked(T)} # T /\ f[Picked(T)] = g[Picked(T)]
      BY <2>3, PickedIn
    <3>2. SumOver(f, T \ {Picked(T)}) = SumOver(g, T \ {Picked(T)})
      BY <1>1, <3>1
    <3> QED BY <2>1, <2>3, <3>1, <3>2, SumRecursion
  <2> QED BY <2>2, <2>3
<1>2. \A T \in SUBSET S : T \in G
  <2> HIDE DEF G
  <2> QED BY <1>1, SubsetInduction
<1> QED BY <1>2

\* Functions that differ at one element have sums that differ by as much.
LEMMA SumChange ==
  ASSUME NEW f, NEW g, NEW S, IsFiniteSet(S), NEW e \in S, NEW d \in Int,
         \A x \in S : f[x] \in Int, g[e] = f[e] + d,
         \A x \in S \ {e} : g[x] = f[x]
  PROVE  SumOver(g, S) = SumOver(f, S) + d
<1>1. \A x \in S : g[x] \in Int
  OBVIOUS
<1>2. IsFiniteSet(S \ {e})
  BY FS_Subset
<1>3. SumOver(f, S \ {e}) = SumOver(g, S \ {e}) /\ SumOver(f, S \ {e}) \in Int
  BY <1>2, SumEqual, SumType
<1>4. SumOver(f, S) = f[e] + SumOver(f, S \ {e}) /\ SumOver(g, S) = g[e] + SumOver(g, S \ {e})
  BY <1>1, SumRemove
<1> QED BY <1>3, <1>4

\* A new element adds its value.
LEMMA SumInsert ==
  ASSUME NEW f, NEW g, NEW S, IsFiniteSet(S), NEW e, e \notin S,
         \A x \in S : f[x] \in Int, g[e] \in Int, \A x \in S : g[x] = f[x]
  PROVE  SumOver(g, S \union {e}) = SumOver(f, S) + g[e]
<1> DEFINE T == S \union {e}
<1>1. IsFiniteSet(T) /\ T \ {e} = S
  BY FS_AddElement
<1>2. SumOver(g, S) = SumOver(f, S) /\ SumOver(f, S) \in Int
  BY SumEqual, SumType
<1>3. \A x \in T : g[x] \in Int
  OBVIOUS
<1> HIDE DEF T
<1>4. e \in T
  BY DEF T
<1>5. SumOver(g, T) = g[e] + SumOver(g, T \ {e})
  BY <1>1, <1>3, <1>4, SumRemove
<1>6. SumOver(g, T) = g[e] + SumOver(f, S)
  BY <1>1, <1>2, <1>5
<1> QED BY <1>2, <1>6 DEF T

\* The sum over nothing.
LEMMA SumEmpty ==
  ASSUME NEW f
  PROVE  SumOver(f, {}) = 0
BY FS_EmptySet, SumRecursion

\* A sum of zeros.
LEMMA SumZero ==
  ASSUME NEW f, NEW S, IsFiniteSet(S), \A x \in S : f[x] = 0
  PROVE  SumOver(f, S) = 0
<1> DEFINE G == {t \in SUBSET S : SumOver(f, t) = 0}
<1>1. ASSUME NEW T \in SUBSET S, \A U \in SUBSET T : U # T => U \in G
      PROVE  T \in G
  <2>1. IsFiniteSet(T)
    BY FS_Subset
  <2>2. CASE T = {}
    <3>1. SumOver(f, T) = 0
      BY <2>2, SumEmpty
    <3> QED BY <3>1
  <2>3. CASE T # {}
    <3>1. T \ {Picked(T)} \in SUBSET T /\ T \ {Picked(T)} # T /\ f[Picked(T)] = 0
      BY <2>3, PickedIn
    <3>2. SumOver(f, T \ {Picked(T)}) = 0
      BY <1>1, <3>1
    <3>3. SumOver(f, T) = 0
      BY <2>1, <2>3, <3>1, <3>2, SumRecursion
    <3> QED BY <3>3
  <2> QED BY <2>2, <2>3
<1>2. \A T \in SUBSET S : T \in G
  <2> HIDE DEF G
  <2> QED BY <1>1, SubsetInduction
<1> QED BY <1>2

\* A sum of natural numbers is one, and grows with the set.
LEMMA SumSubset ==
  ASSUME NEW f, NEW S, IsFiniteSet(S), \A x \in S : f[x] \in Nat, NEW R \in SUBSET S
  PROVE  SumOver(f, R) \in Nat /\ SumOver(f, R) <= SumOver(f, S)
<1> DEFINE G == {t \in SUBSET S : /\ SumOver(f, t) \in Nat
                                  /\ \A u \in SUBSET t : SumOver(f, u) <= SumOver(f, t)}
<1>1. ASSUME NEW T \in SUBSET S, \A U \in SUBSET T : U # T => U \in G
      PROVE  T \in G
  <2>1. IsFiniteSet(T)
    BY FS_Subset
  <2>2. CASE T = {}
    <3>1. SumOver(f, T) = 0
      BY <2>2, SumEmpty
    <3> QED BY <2>2, <3>1
  <2>3. CASE T # {}
    <3>1. ASSUME NEW e \in T
          PROVE  /\ SumOver(f, T) = f[e] + SumOver(f, T \ {e}) /\ f[e] \in Nat
                 /\ T \ {e} \in G
      <4>1. \A x \in T : f[x] \in Int
        OBVIOUS
      <4>2. T \ {e} \in SUBSET T /\ T \ {e} # T
        OBVIOUS
      <4> QED BY <1>1, <2>1, <4>1, <4>2, SumRemove
    <3>2. SumOver(f, T) \in Nat
      <4>1. PICK e \in T : TRUE
        BY <2>3
      <4>2. SumOver(f, T \ {e}) \in Nat
        BY <3>1
      <4>3. SumOver(f, T) = f[e] + SumOver(f, T \ {e}) /\ f[e] \in Nat
        BY <3>1
      <4> HIDE DEF G
      <4> QED BY <4>2, <4>3
    <3>3. ASSUME NEW U \in SUBSET T PROVE SumOver(f, U) <= SumOver(f, T)
      <4>1. CASE U = T
        BY <3>2, <4>1
      <4>2. CASE U # T
        <5>1. PICK e \in T : e \notin U
          BY <4>2
        <5>2. U \in SUBSET (T \ {e})
          BY <5>1
        <5>3. SumOver(f, U) <= SumOver(f, T \ {e}) /\ SumOver(f, T \ {e}) \in Nat
          BY <3>1, <5>2
        <5>4. SumOver(f, U) \in Nat
          BY <1>1, <4>2
        <5>5. SumOver(f, T) = f[e] + SumOver(f, T \ {e}) /\ f[e] \in Nat
          BY <3>1
        <5> HIDE DEF G
        <5> QED BY <5>3, <5>4, <5>5
      <4> QED BY <4>1, <4>2
    <3> QED BY <3>2, <3>3
  <2> QED BY <2>2, <2>3
<1>2. \A T \in SUBSET S : T \in G
  <2> HIDE DEF G
  <2> QED BY <1>1, SubsetInduction
<1>3. R \in G /\ S \in G
  <2> HIDE DEF G
  <2> QED BY <1>2
<1> QED BY <1>3

\* Of two functions the sum of the lesser is the lesser.
LEMMA SumMonotone ==
  ASSUME NEW f, NEW g, NEW S, IsFiniteSet(S),
         \A x \in S : f[x] \in Int /\ g[x] \in Int /\ f[x] <= g[x]
  PROVE  SumOver(f, S) <= SumOver(g, S)
<1> DEFINE G == {t \in SUBSET S : SumOver(f, t) <= SumOver(g, t)}
<1>1. ASSUME NEW T \in SUBSET S, \A U \in SUBSET T : U # T => U \in G
      PROVE  T \in G
  <2>1. IsFiniteSet(T)
    BY FS_Subset
  <2>2. CASE T = {}
    <3>1. SumOver(f, T) = 0 /\ SumOver(g, T) = 0
      BY <2>2, SumEmpty
    <3> QED BY <3>1
  <2>3. CASE T # {}
    <3>1. PICK e \in T : TRUE
      BY <2>3
    <3>2. (\A x \in T : f[x] \in Int) /\ (\A x \in T : g[x] \in Int)
      OBVIOUS
    <3>3. /\ SumOver(f, T) = f[e] + SumOver(f, T \ {e})
          /\ SumOver(g, T) = g[e] + SumOver(g, T \ {e})
      BY <2>1, <3>2, SumRemove
    <3>4. IsFiniteSet(T \ {e})
      BY <2>1, FS_Subset
    <3>5. SumOver(f, T \ {e}) \in Int /\ SumOver(g, T \ {e}) \in Int
      BY <3>2, <3>4, SumType
    <3>6. SumOver(f, T \ {e}) <= SumOver(g, T \ {e})
      <4>1. T \ {e} \in SUBSET T /\ T \ {e} # T
        OBVIOUS
      <4> QED BY <1>1, <4>1
    <3>7. f[e] <= g[e] /\ f[e] \in Int /\ g[e] \in Int
      OBVIOUS
    <3> QED BY <3>3, <3>5, <3>6, <3>7
  <2> QED BY <2>2, <2>3
<1>2. \A T \in SUBSET S : T \in G
  <2> HIDE DEF G
  <2> QED BY <1>1, SubsetInduction
<1>3. S \in G
  <2> HIDE DEF G
  <2> QED BY <1>2
<1> QED BY <1>3

-----------------------------------------------------------------------------

(***************************************************************************)
(* The plan: the strengthening.                                            *)
(***************************************************************************)
\* What iteration i has added so far.
Ran(i) ==
  IF \E w \in Active : i0_id[w] = i
  THEN SumSeq(SubSeq(Increments[i], 1, added[CHOOSE w \in Active : i0_id[w] = i]))
  ELSE SumSeq(Increments[i])

Progress == [i \in Claimed |-> Ran(i)]

CountsProgress == SumOver(per_thread_result, Workers) = SumOver(Progress, Claimed)

\* What it has been accounted as.
HandledIn(i) == IF i \in Skipped \/ (\E w \in Active : i0_id[w] = i) THEN 0 ELSE 1

HandledProgress == [i \in Claimed |-> HandledIn(i)]

ActiveOnClaimed ==
  \A w \in Active : i0_id[w] \in Claimed /\ added[w] <= Len(Increments[i0_id[w]])

ActiveApart == \A v, w \in Active : i0_id[v] = i0_id[w] => v = w

BarrierAtEnd ==
  \A w \in Workers : wpc[w] = "barrier" => next_i0 = VNum /\ per_thread_timed[w]

RedundancySet == \A w \in Workers : wpc[w] # "enter" => iep_redundency = Redundancy

ReturnsBehindBarrier ==
  planPc \in {"returned", "ended"} => \A w \in Workers : wpc[w] = "barrier"

HandledConserved == SumOver(per_thread_handled, Workers) = SumOver(HandledProgress, Claimed)

Claims == ActiveOnClaimed /\ ActiveApart
Barrier == BarrierAtEnd /\ RedundancySet /\ ReturnsBehindBarrier

PlanInv == PlanTypeOK /\ Claims /\ Barrier /\ CountConserved /\ HandledConserved

-----------------------------------------------------------------------------
(***************************************************************************)
(* Sums of sequences.                                                      *)
(***************************************************************************)
\* The sum of a sequence of integers is an integer.
LEMMA SumSeqType ==
  ASSUME NEW s \in Seq(Int)
  PROVE  SumSeq(s) \in Int
<1>1. DOMAIN s = 1..Len(s) /\ Len(s) \in Nat /\ \A x \in 1..Len(s) : s[x] \in Int
  OBVIOUS
<1>2. IsFiniteSet(1..Len(s))
  BY <1>1, FS_Interval
<1> QED BY <1>1, <1>2, FoldIsSum, SumType DEF SumSeq

\* One more element of a prefix adds its value.
LEMMA SumSeqNext ==
  ASSUME NEW s \in Seq(Int), NEW n \in Nat, n < Len(s)
  PROVE  SumSeq(SubSeq(s, 1, n + 1)) = SumSeq(SubSeq(s, 1, n)) + s[n + 1]
<1> DEFINE p == SubSeq(s, 1, n)
           q == SubSeq(s, 1, n + 1)
<1>1. /\ DOMAIN p = 1..n /\ DOMAIN q = 1..(n + 1)
      /\ \A x \in 1..n : p[x] = s[x] /\ q[x] = s[x] /\ s[x] \in Int
      /\ q[n + 1] = s[n + 1] /\ s[n + 1] \in Int
  OBVIOUS
<1> HIDE DEF p, q
<1> DEFINE S == 1..n
           e == n + 1
<1>2. IsFiniteSet(S) /\ e \notin S /\ 1..(n + 1) = S \union {e}
  <2>1. IsFiniteSet(S)
    BY FS_Interval
  <2> QED BY <2>1
<1>3. (\A x \in S : p[x] \in Int /\ q[x] = p[x]) /\ q[e] \in Int
  BY <1>1
<1>4. SumOver(q, S \union {e}) = SumOver(p, S) + q[e]
  <2> HIDE DEF S, e
  <2> QED BY <1>2, <1>3, SumInsert
<1>5. SumSeq(q) = SumOver(q, 1..(n + 1)) /\ SumSeq(p) = SumOver(p, 1..n)
  BY <1>1, FoldIsSum DEF SumSeq
<1>6. SumSeq(q) = SumSeq(p) + s[n + 1]
  BY <1>1, <1>2, <1>4, <1>5
<1> QED BY <1>6 DEF p, q

\* Nothing has been added yet.
LEMMA SumSeqNone ==
  ASSUME NEW s \in Seq(Int)
  PROVE  SumSeq(SubSeq(s, 1, 0)) = 0
<1>1. DOMAIN SubSeq(s, 1, 0) = {}
  OBVIOUS
<1> QED BY <1>1, FoldIsSum, SumEmpty DEF SumSeq

\* Everything has.
LEMMA SumSeqAll ==
  ASSUME NEW s \in Seq(Int)
  PROVE  SubSeq(s, 1, Len(s)) = s
OBVIOUS

-----------------------------------------------------------------------------
(***************************************************************************)
(* The parts of the strengthening.                                         *)
(***************************************************************************)
\* The sets that are summed over are finite, the increments are integers.
LEMMA Finiteness ==
  /\ IsFiniteSet(Workers) /\ IsFiniteSet(Iterations)
  /\ \A n \in Nat : IsFiniteSet(0..(n - 1))
  /\ \A i \in Iterations : Increments[i] \in Seq(Int) /\ Len(Increments[i]) \in Nat
<1>1. \A n \in Nat : IsFiniteSet(0..(n - 1))
  BY FS_Interval
<1>2. \A i \in Iterations : Increments[i] \in Seq(Int)
  BY PlanAssumption
<1> QED BY <1>1, <1>2, PlanAssumption DEF Workers, Iterations

\* What the type invariant says, fact by fact.
LEMMA PlanTyping ==
  ASSUME PlanTypeOK
  PROVE  /\ next_i0 \in Nat /\ next_i0 <= VNum /\ VNum \in Nat
         /\ Claimed \subseteq Iterations /\ IsFiniteSet(Claimed)
         /\ DOMAIN per_thread_result = Workers /\ DOMAIN per_thread_handled = Workers
         /\ \A w \in Workers : /\ per_thread_result[w] \in Int
                               /\ per_thread_handled[w] \in Int
                               /\ added[w] \in Nat
<1>1. next_i0 \in Nat /\ next_i0 <= VNum /\ VNum \in Nat
  BY PlanAssumption DEF PlanTypeOK
<1>2. Claimed \subseteq Iterations
  BY <1>1 DEF Claimed, Iterations
<1>3. IsFiniteSet(Claimed)
  BY <1>1, Finiteness DEF Claimed
<1> QED BY <1>1, <1>2, <1>3 DEF PlanTypeOK

\* CountConserved in terms of the sums.
LEMMA CountIs == PlanTypeOK => (CountConserved <=> CountsProgress)
<1> SUFFICES ASSUME PlanTypeOK PROVE CountConserved <=> CountsProgress
  OBVIOUS
<1>1. SumCounters = SumOver(per_thread_result, Workers)
  BY PlanTyping, FoldIsSum DEF SumCounters
<1>2. FoldFunction(+, 0, Progress) = SumOver(Progress, Claimed)
  <2>1. DOMAIN Progress = Claimed
    BY DEF Progress
  <2>2. FoldFunction(+, 0, Progress) = SumOver(Progress, DOMAIN Progress)
    BY FoldIsSum
  <2> QED BY <2>1, <2>2
<1> QED BY <1>1, <1>2 DEF CountConserved, CountsProgress, Progress, Ran

\* The same of the next state.
LEMMA CountIsNext == PlanTypeOK' => (CountConserved' <=> CountsProgress')
BY CountIs, PTL

\* What has been added is an integer.
LEMMA ProgressType ==
  ASSUME PlanTypeOK, Claims
  PROVE  /\ \A i \in Claimed : Progress[i] \in Int /\ HandledProgress[i] \in Int
         /\ SumOver(Progress, Claimed) \in Int /\ SumOver(HandledProgress, Claimed) \in Int
<1>1. ASSUME NEW i \in Claimed PROVE Ran(i) \in Int
  <2>1. Increments[i] \in Seq(Int) /\ SumSeq(Increments[i]) \in Int
    BY PlanTyping, Finiteness, SumSeqType
  <2>2. ASSUME NEW w \in Active, i0_id[w] = i
        PROVE  SumSeq(SubSeq(Increments[i], 1, added[w])) \in Int
    <3>1. added[w] \in Nat /\ added[w] <= Len(Increments[i])
      BY <2>2, PlanTyping DEF Claims, ActiveOnClaimed, Active
    <3>2. SubSeq(Increments[i], 1, added[w]) \in Seq(Int)
      BY <2>1, <3>1
    <3> QED BY <3>2, SumSeqType
  <2> QED BY <2>1, <2>2 DEF Ran
<1>2. \A i \in Claimed : Progress[i] \in Int /\ HandledProgress[i] \in Int
  BY <1>1 DEF Progress, HandledProgress, HandledIn
<1> QED BY <1>2, PlanTyping, SumType

\* A running iteration has added the prefix its worker has come to.
LEMMA RanActive ==
  ASSUME ActiveApart, NEW w \in Active
  PROVE  Ran(i0_id[w]) = SumSeq(SubSeq(Increments[i0_id[w]], 1, added[w]))
<1>1. (CHOOSE v \in Active : i0_id[v] = i0_id[w]) = w
  BY DEF ActiveApart
<1> QED BY <1>1 DEF Ran

-----------------------------------------------------------------------------
(***************************************************************************)
(* The steps.                                                              *)
(***************************************************************************)
\* The initial state satisfies the strengthening.
LEMMA PlanInitInv == PlanInit => PlanInv
<1> SUFFICES ASSUME PlanInit PROVE PlanInv
  OBVIOUS
<1>1. PlanTypeOK
  BY PlanAssumption DEF PlanInit, PlanTypeOK, Workers, Iterations
<1>2. Claims /\ Barrier
  BY DEF PlanInit, Claims, ActiveOnClaimed, ActiveApart, Active, Barrier, BarrierAtEnd,
         RedundancySet, ReturnsBehindBarrier
<1>3. Claimed = {}
  BY DEF PlanInit, Claimed
<1>4. \A w \in Workers : per_thread_result[w] = 0 /\ per_thread_handled[w] = 0
  BY DEF PlanInit
<1>5. SumOver(per_thread_result, Workers) = 0 /\ SumOver(per_thread_handled, Workers) = 0
  BY <1>4, Finiteness, SumZero
<1> QED BY <1>1, <1>2, <1>3, <1>5, CountIs, SumEmpty DEF PlanInv, HandledConserved, CountsProgress

\* A step that neither hands out, advances nor ends an iteration, nor touches a
\* counter, preserves both sums.
LEMMA CountFrame ==
  ASSUME PlanInv, PlanTypeOK', Active' = Active,
         UNCHANGED <<next_i0, i0_id, added, per_thread_result, per_thread_handled>>
  PROVE  Claims' /\ CountConserved' /\ HandledConserved'
<1>1. Claimed' = Claimed
  BY DEF Claimed
<1>2. Claims'
  BY <1>1 DEF PlanInv, Claims, ActiveOnClaimed, ActiveApart
<1>3. Progress' = Progress
  BY <1>1 DEF Progress, Ran
<1>4. HandledProgress' = HandledProgress
  BY <1>1 DEF HandledProgress, HandledIn
<1> QED BY <1>1, <1>2, <1>3, <1>4, CountIs, CountIsNext DEF PlanInv, HandledConserved, CountsProgress

\* Opening the region preserves the strengthening.
LEMMA ForkInv == PlanInv /\ Fork => PlanInv'
<1> SUFFICES ASSUME PlanInv, Fork PROVE PlanInv'
  OBVIOUS
<1>1. PlanTypeOK' /\ Active' = Active
  BY DEF PlanInv, Fork, PlanTypeOK, workerVars, ctxVars, Active
<1>2. Barrier'
  BY DEF PlanInv, Fork, Barrier, BarrierAtEnd, RedundancySet, ReturnsBehindBarrier,
         workerVars, ctxVars
<1> QED BY <1>1, <1>2, CountFrame DEF Fork, workerVars, ctxVars, PlanInv

\* Returning behind the barrier preserves it.
LEMMA JoinInv == PlanInv /\ Join => PlanInv'
<1> SUFFICES ASSUME PlanInv, Join PROVE PlanInv'
  OBVIOUS
<1>1. PlanTypeOK' /\ Active' = Active
  BY DEF PlanInv, Join, PlanTypeOK, workerVars, ctxVars, Active
<1>2. Barrier'
  BY DEF PlanInv, Join, Barrier, BarrierAtEnd, RedundancySet, ReturnsBehindBarrier,
         workerVars, ctxVars
<1> QED BY <1>1, <1>2, CountFrame DEF Join, workerVars, ctxVars, PlanInv

\* Entering the region preserves it.
LEMMA EnterInv == ASSUME NEW w \in Workers, PlanInv, Enter(w) PROVE PlanInv'
<1>1. PlanTypeOK' /\ Active' = Active
  BY DEF PlanInv, Enter, At, GoTo, PlanTypeOK, Active
<1>2. Barrier'
  BY DEF PlanInv, PlanTypeOK, Enter, At, GoTo, Barrier, BarrierAtEnd, RedundancySet,
         ReturnsBehindBarrier
<1> QED BY <1>1, <1>2, CountFrame DEF Enter, PlanInv

\* Reaching the barrier preserves it.
LEMMA RecordTimeInv == ASSUME NEW w \in Workers, PlanInv, RecordTime(w) PROVE PlanInv'
<1>1. PlanTypeOK' /\ Active' = Active
  BY DEF PlanInv, RecordTime, At, GoTo, PlanTypeOK, Active
<1>2. next_i0 = VNum
  BY PlanTyping DEF PlanInv, RecordTime
<1>3. Barrier'
  BY <1>2 DEF PlanInv, PlanTypeOK, RecordTime, At, GoTo, Barrier, BarrierAtEnd, RedundancySet,
         ReturnsBehindBarrier
<1> QED BY <1>1, <1>3, CountFrame DEF RecordTime, PlanInv

\* A newly claimed iteration has added nothing.
LEMMA ClaimInv == ASSUME NEW w \in Workers, PlanInv, Claim(w) PROVE PlanInv'
<1> SUFFICES ASSUME NEW new, new = next_i0 PROVE PlanInv'
  OBVIOUS
<1>1. /\ PlanTypeOK /\ Claims /\ wpc[w] = "claim" /\ new < VNum /\ planPc = "region"
      /\ wpc' = [wpc EXCEPT ![w] = "match"] /\ i0_id' = [i0_id EXCEPT ![w] = new]
      /\ added' = [added EXCEPT ![w] = 0] /\ next_i0' = new + 1
      /\ UNCHANGED <<planPc, per_thread_result, per_thread_handled, per_thread_timed,
                     iep_redundency>>
  BY DEF PlanInv, Claim, At, GoTo, ctxVars
<1>2. PlanTypeOK' /\ new \in Iterations
  BY <1>1, PlanTyping DEF PlanTypeOK, Iterations
<1>3. Claimed' = Claimed \union {new} /\ new \notin Claimed
  BY <1>1, PlanTyping DEF Claimed
<1>4. Active' = Active \union {w} /\ w \notin Active
  BY <1>1 DEF Active, PlanTypeOK
<1>5. /\ i0_id'[w] = new /\ added'[w] = 0
      /\ \A v \in Active : i0_id'[v] = i0_id[v] /\ added'[v] = added[v] /\ i0_id[v] # new
  BY <1>1, <1>3, <1>4 DEF PlanTypeOK, Active, Claims, ActiveOnClaimed
<1>6. Claims'
  BY <1>1, <1>2, <1>3, <1>4, <1>5, Finiteness DEF Claims, ActiveOnClaimed, ActiveApart
<1>7. Barrier'
  BY <1>1 DEF PlanInv, PlanTypeOK, Barrier, BarrierAtEnd, RedundancySet, ReturnsBehindBarrier
<1>8. \A i \in Claimed : Progress'[i] = Progress[i] /\ HandledProgress'[i] = HandledProgress[i]
  <2> SUFFICES ASSUME NEW i \in Claimed
               PROVE  Ran(i)' = Ran(i) /\ HandledIn(i)' = HandledIn(i)
    BY <1>3 DEF Progress, HandledProgress
  <2>1. \A v \in Active' : i0_id'[v] = i => v \in Active /\ i0_id[v] = i
    BY <1>3, <1>4, <1>5
  <2>2. \A v \in Active : i0_id[v] = i => v \in Active' /\ i0_id'[v] = i
    BY <1>4, <1>5
  <2>3. HandledIn(i)' = HandledIn(i)
    BY <2>1, <2>2 DEF HandledIn
  <2>4. CASE \E v \in Active : i0_id[v] = i
    <3>1. PICK v \in Active : i0_id[v] = i
      BY <2>4
    <3>2. Ran(i) = SumSeq(SubSeq(Increments[i], 1, added[v]))
      BY <1>1, <3>1, RanActive DEF Claims
    <3>3. (CHOOSE u \in Active' : i0_id'[u] = i) = v
      BY <1>6, <2>2, <3>1 DEF Claims, ActiveApart
    <3>4. Ran(i)' = SumSeq(SubSeq(Increments[i], 1, added'[v]))
      BY <2>2, <3>1, <3>3 DEF Ran
    <3> QED BY <1>5, <2>3, <3>1, <3>2, <3>4
  <2>5. CASE ~\E v \in Active : i0_id[v] = i
    BY <2>1, <2>3, <2>5 DEF Ran
  <2> QED BY <2>4, <2>5
<1>9. Progress'[new] = 0 /\ HandledProgress'[new] = 0
  <2>1. w \in Active' /\ i0_id'[w] = new /\ added'[w] = 0 /\ new \in Claimed'
    BY <1>3, <1>4, <1>5
  <2>2. (CHOOSE u \in Active' : i0_id'[u] = new) = w
    BY <1>6, <2>1 DEF Claims, ActiveApart
  <2>3. Ran(new)' = SumSeq(SubSeq(Increments[new], 1, 0))
    BY <2>1, <2>2 DEF Ran
  <2>4. HandledIn(new)' = 0
    BY <2>1 DEF HandledIn
  <2> QED BY <1>2, <2>1, <2>3, <2>4, Finiteness, SumSeqNone DEF Progress, HandledProgress
<1>10. SumOver(Progress', Claimed') = SumOver(Progress, Claimed)
  <2>1. SumOver(Progress', Claimed \union {new}) = SumOver(Progress, Claimed) + Progress'[new]
    BY <1>1, <1>3, <1>8, <1>9, PlanTyping, ProgressType, SumInsert
  <2> QED BY <1>1, <1>3, <1>9, <2>1, ProgressType
<1>11. SumOver(HandledProgress', Claimed') = SumOver(HandledProgress, Claimed)
  <2>1. SumOver(HandledProgress', Claimed \union {new}) =
          SumOver(HandledProgress, Claimed) + HandledProgress'[new]
    BY <1>1, <1>3, <1>8, <1>9, PlanTyping, ProgressType, SumInsert
  <2> QED BY <1>1, <1>3, <1>9, <2>1, ProgressType
<1> QED
  BY <1>1, <1>2, <1>6, <1>7, <1>10, <1>11, CountIs, CountIsNext DEF PlanInv, HandledConserved, CountsProgress

\* An increment goes to the counter and to the iteration's progress alike.
LEMMA AddInv == ASSUME NEW w \in Workers, PlanInv, Add(w) PROVE PlanInv'
<1> SUFFICES ASSUME NEW i, i = i0_id[w], NEW n, n = added[w] PROVE PlanInv'
  OBVIOUS
<1>1. /\ PlanTypeOK /\ Claims /\ w \in Active /\ n < Len(Increments[i])
      /\ added' = [added EXCEPT ![w] = n + 1]
      /\ per_thread_result' =
           [per_thread_result EXCEPT ![w] = per_thread_result[w] + Increments[i][n + 1]]
      /\ UNCHANGED <<planPc, next_i0, wpc, i0_id, per_thread_handled, per_thread_timed,
                     iep_redundency>>
  BY DEF PlanInv, Add, At, Active
<1>2. Claimed' = Claimed /\ Active' = Active
  BY <1>1 DEF Claimed, Active
<1>3. /\ i \in Claimed /\ i \in Iterations /\ n \in Nat
      /\ Increments[i] \in Seq(Int) /\ Len(Increments[i]) \in Nat
  BY <1>1, PlanTyping, Finiteness DEF Claims, ActiveOnClaimed
<1>4. Increments[i][n + 1] \in Int
  BY <1>1, <1>3
<1>5. /\ added'[w] = n + 1
      /\ \A v \in Workers \ {w} : added'[v] = added[v]
      /\ per_thread_result'[w] = per_thread_result[w] + Increments[i][n + 1]
      /\ \A v \in Workers \ {w} : per_thread_result'[v] = per_thread_result[v]
  BY <1>1 DEF PlanTypeOK
<1>6. PlanTypeOK'
  <2>1. added' \in [Workers -> Nat]
    BY <1>1, <1>3 DEF PlanTypeOK
  <2>2. per_thread_result[w] + Increments[i][n + 1] \in Int
    BY <1>1, <1>4, PlanTyping
  <2>3. per_thread_result' \in [Workers -> Int]
    BY <1>1, <2>2 DEF PlanTypeOK
  <2> QED BY <1>1, <2>1, <2>3 DEF PlanTypeOK
<1>7. Claims'
  BY <1>1, <1>2, <1>3, <1>5 DEF Claims, ActiveOnClaimed, ActiveApart, Active
<1>8. Barrier'
  BY <1>1 DEF PlanInv, Barrier, BarrierAtEnd, RedundancySet, ReturnsBehindBarrier
<1>9. \A j \in Claimed \ {i} : Progress'[j] = Progress[j]
  <2> SUFFICES ASSUME NEW j \in Claimed, j # i PROVE Ran(j)' = Ran(j)
    BY <1>2 DEF Progress
  <2>1. CASE \E v \in Active : i0_id[v] = j
    <3>1. PICK v \in Active : i0_id[v] = j
      BY <2>1
    <3>2. v # w /\ v \in Workers
      BY <1>1, <3>1 DEF Active
    <3>3. (CHOOSE u \in Active : i0_id[u] = j) = v
      BY <1>1, <3>1 DEF Claims, ActiveApart
    <3> QED BY <1>1, <1>2, <1>5, <3>1, <3>2, <3>3 DEF Ran
  <2>2. CASE ~\E v \in Active : i0_id[v] = j
    BY <1>1, <1>2, <2>2 DEF Ran
  <2> QED BY <2>1, <2>2
<1>10. Progress'[i] = Progress[i] + Increments[i][n + 1]
  <2>1. (CHOOSE u \in Active : i0_id[u] = i) = w
    BY <1>1 DEF Claims, ActiveApart
  <2>2. Ran(i) = SumSeq(SubSeq(Increments[i], 1, n))
    BY <1>1, <2>1 DEF Ran
  <2>3. Ran(i)' = SumSeq(SubSeq(Increments[i], 1, n + 1))
    BY <1>1, <1>2, <1>5, <2>1 DEF Ran
  <2>4. Ran(i)' = Ran(i) + Increments[i][n + 1]
    BY <1>1, <1>3, <2>2, <2>3, SumSeqNext
  <2> QED BY <1>2, <1>3, <2>4 DEF Progress
<1>11. \A j \in Claimed : Progress[j] \in Int
  BY <1>1, ProgressType
<1>12. SumOver(Progress', Claimed) = SumOver(Progress, Claimed) + Increments[i][n + 1]
  <2> SUFFICES ASSUME NEW d \in Int, d = Increments[i][n + 1]
               PROVE  SumOver(Progress', Claimed) = SumOver(Progress, Claimed) + d
    BY <1>4
  <2>1. Progress'[i] = Progress[i] + d
    BY <1>10
  <2>2. IsFiniteSet(Claimed) /\ i \in Claimed
    BY <1>1, <1>3, PlanTyping
  <2> QED BY <1>9, <1>11, <2>1, <2>2, SumChange
<1>13. SumOver(per_thread_result', Workers) =
         SumOver(per_thread_result, Workers) + Increments[i][n + 1]
  <2> SUFFICES ASSUME NEW d \in Int, d = Increments[i][n + 1]
               PROVE  SumOver(per_thread_result', Workers) = SumOver(per_thread_result, Workers) + d
    BY <1>4
  <2>1. per_thread_result'[w] = per_thread_result[w] + d
    BY <1>5
  <2>2. \A v \in Workers : per_thread_result[v] \in Int
    BY <1>1, PlanTyping
  <2> QED BY <1>5, <2>1, <2>2, Finiteness, SumChange
<1>14. CountsProgress => CountsProgress'
  BY <1>2, <1>12, <1>13 DEF CountsProgress
<1>15. HandledProgress' = HandledProgress
  BY <1>1, <1>2 DEF HandledProgress, HandledIn
<1> QED
  BY <1>1, <1>2, <1>6, <1>7, <1>8, <1>14, <1>15, CountIs, CountIsNext
  DEF PlanInv, HandledConserved

\* An iteration that ends has added all of its increments, and is accounted once.
LEMMA EndIterationInv == ASSUME NEW w \in Workers, PlanInv, EndIteration(w) PROVE PlanInv'
<1> SUFFICES ASSUME NEW i, i = i0_id[w] PROVE PlanInv'
  OBVIOUS
<1> DEFINE d == IF i \in Skipped THEN 0 ELSE 1
<1>1. /\ PlanTypeOK /\ Claims /\ w \in Active /\ added[w] = Len(Increments[i])
      /\ planPc = "region" /\ wpc' = [wpc EXCEPT ![w] = "claim"]
      /\ per_thread_handled' =
           [per_thread_handled EXCEPT
              ![w] = IF i \in Skipped THEN per_thread_handled[w] ELSE per_thread_handled[w] + 1]
      /\ UNCHANGED <<planPc, next_i0, i0_id, added, per_thread_result, per_thread_timed,
                     iep_redundency>>
  BY PlanTyping DEF PlanInv, EndIteration, At, GoTo, Active
<1>2. Claimed' = Claimed /\ Active' = Active \ {w}
  BY <1>1 DEF Claimed, Active, PlanTypeOK
<1>3. /\ i \in Claimed /\ i \in Iterations
      /\ Increments[i] \in Seq(Int) /\ Len(Increments[i]) \in Nat
  BY <1>1, PlanTyping, Finiteness DEF Claims, ActiveOnClaimed
<1>4. PlanTypeOK'
  BY <1>1, PlanTyping DEF PlanTypeOK
<1>5. Claims'
  BY <1>1, <1>2 DEF Claims, ActiveOnClaimed, ActiveApart
<1>6. Barrier'
  BY <1>1 DEF PlanInv, PlanTypeOK, Barrier, BarrierAtEnd, RedundancySet, ReturnsBehindBarrier,
              Active
<1>7. Progress' = Progress
  <2> SUFFICES ASSUME NEW j \in Claimed PROVE Ran(j)' = Ran(j)
    BY <1>2 DEF Progress
  <2>1. CASE j = i
    <3>1. ~\E v \in Active' : i0_id'[v] = i
      BY <1>1, <1>2 DEF Claims, ActiveApart
    <3>2. Ran(i)' = SumSeq(Increments[i])
      BY <3>1 DEF Ran
    <3>3. Ran(i) = SumSeq(SubSeq(Increments[i], 1, Len(Increments[i])))
      BY <1>1, RanActive DEF Claims
    <3> QED BY <1>3, <2>1, <3>2, <3>3, SumSeqAll
  <2>2. CASE j # i /\ \E v \in Active : i0_id[v] = j
    <3>1. PICK v \in Active : i0_id[v] = j
      BY <2>2
    <3>2. v \in Active'
      BY <1>2, <2>2, <3>1
    <3>3. (CHOOSE u \in Active : i0_id[u] = j) = v /\ (CHOOSE u \in Active' : i0_id'[u] = j) = v
      BY <1>1, <1>2, <3>1, <3>2 DEF Claims, ActiveApart
    <3> QED BY <1>1, <3>1, <3>2, <3>3 DEF Ran
  <2>3. CASE j # i /\ ~\E v \in Active : i0_id[v] = j
    BY <1>1, <1>2, <2>3 DEF Ran
  <2> QED BY <2>1, <2>2, <2>3
<1>8. /\ HandledProgress'[i] = HandledProgress[i] + d
      /\ \A j \in Claimed \ {i} : HandledProgress'[j] = HandledProgress[j]
      /\ \A j \in Claimed : HandledProgress'[j] \in Int
  <2>1. HandledIn(i) = 0 /\ HandledIn(i)' = d
    BY <1>1, <1>2 DEF HandledIn, Claims, ActiveApart
  <2>2. \A j \in Claimed \ {i} : HandledIn(j)' = HandledIn(j)
    BY <1>1, <1>2 DEF HandledIn
  <2>3. \A j \in Claimed : HandledProgress'[j] = HandledIn(j)' /\ HandledProgress[j] = HandledIn(j)
    BY <1>2 DEF HandledProgress
  <2>4. \A j \in Claimed : HandledIn(j)' \in Int
    BY DEF HandledIn
  <2> QED BY <1>3, <2>1, <2>2, <2>3, <2>4
<1>9. SumOver(HandledProgress', Claimed) = SumOver(HandledProgress, Claimed) + d
  <2>1. \A j \in Claimed : HandledProgress[j] \in Int
    BY <1>1, ProgressType
  <2>2. d \in Int /\ IsFiniteSet(Claimed) /\ i \in Claimed
    BY <1>1, <1>3, PlanTyping
  <2> HIDE DEF d
  <2> QED BY <1>8, <2>1, <2>2, SumChange
<1>10. SumOver(per_thread_handled', Workers) = SumOver(per_thread_handled, Workers) + d
  <2>1. /\ \A v \in Workers : per_thread_handled[v] \in Int
        /\ \A v \in Workers \ {w} : per_thread_handled'[v] = per_thread_handled[v]
        /\ per_thread_handled'[w] = per_thread_handled[w] + d
    BY <1>1, PlanTyping DEF PlanTypeOK
  <2>2. d \in Int
    OBVIOUS
  <2> HIDE DEF d
  <2> QED BY <2>1, <2>2, Finiteness, SumChange
<1>11. HandledConserved'
  <2> HIDE DEF d
  <2> QED BY <1>2, <1>9, <1>10 DEF PlanInv, HandledConserved
<1> QED
  BY <1>1, <1>2, <1>4, <1>5, <1>6, <1>7, <1>11, CountIs, CountIsNext DEF PlanInv, CountsProgress

\* Every step of the plan preserves the strengthening.
LEMMA PlanNextInv == PlanInv /\ PlanNext => PlanInv'
BY ForkInv, JoinInv, EnterInv, ClaimInv, AddInv, EndIterationInv, RecordTimeInv
DEF PlanNext, WorkerStep

\* So does leaving its variables alone, or moving on the thread that called plan()
\* before and after the region.
LEMMA PlanCallInv ==
  ASSUME PlanInv, UNCHANGED <<workerVars, ctxVars>>,
         \/ planPc' = planPc
         \/ planPc = "none" /\ planPc' = "called"
         \/ planPc = "returned" /\ planPc' = "ended"
  PROVE  PlanInv'
<1>1. PlanTypeOK' /\ Active' = Active
  BY DEF PlanInv, PlanTypeOK, workerVars, ctxVars, Active
<1>2. Barrier'
  BY DEF PlanInv, Barrier, BarrierAtEnd, RedundancySet, ReturnsBehindBarrier, workerVars, ctxVars
<1> QED BY <1>1, <1>2, CountFrame DEF workerVars, ctxVars, PlanInv

-----------------------------------------------------------------------------
\* The strengthening implies that plan() returns the total.
LEMMA PlanInvReturns == PlanInv => ReturnsTotal
<1> SUFFICES ASSUME PlanInv, planPc \in {"returned", "ended"}
             PROVE  /\ Divided(SumCounters, iep_redundency) = Total
                    /\ FoldFunction(+, 0, per_thread_handled) =
                         FoldFunction(+, 0, [i \in Iterations |->
                                               IF i \in Skipped THEN 0 ELSE 1])
                    /\ \A w \in Workers : per_thread_timed[w]
  BY DEF ReturnsTotal
<1>1. /\ PlanTypeOK
      /\ \A w \in Workers : wpc[w] = "barrier"
      /\ \A w \in Workers : /\ next_i0 = VNum /\ per_thread_timed[w]
                            /\ iep_redundency = Redundancy
  BY DEF PlanInv, Barrier, BarrierAtEnd, RedundancySet, ReturnsBehindBarrier
<1>2. 0 \in Workers
  BY PlanAssumption DEF Workers
<1>3. Active = {} /\ Claimed = Iterations /\ iep_redundency = Redundancy
  BY <1>1, <1>2 DEF Active, Claimed, Iterations
<1>4. SumCounters = RawTotal
  <2>1. SumCounters = SumOver(per_thread_result, Workers)
    BY <1>1, PlanTyping, FoldIsSum DEF SumCounters
  <2>2. Progress = [i \in Iterations |-> SumSeq(Increments[i])]
    BY <1>3 DEF Progress, Ran
  <2>3. DOMAIN Progress = Iterations
    BY <2>2
  <2>4. FoldFunction(+, 0, Progress) = SumOver(Progress, Iterations)
    BY <2>3, FoldIsSum
  <2>5. RawTotal = SumOver(Progress, Iterations)
    BY <2>2, <2>4 DEF RawTotal
  <2> QED BY <1>1, <1>3, <2>1, <2>5, CountIs DEF PlanInv, CountsProgress
<1>5. FoldFunction(+, 0, per_thread_handled) =
        FoldFunction(+, 0, [i \in Iterations |-> IF i \in Skipped THEN 0 ELSE 1])
  <2>1. FoldFunction(+, 0, per_thread_handled) = SumOver(per_thread_handled, Workers)
    BY <1>1, PlanTyping, FoldIsSum
  <2>2. HandledProgress = [i \in Iterations |-> IF i \in Skipped THEN 0 ELSE 1]
    BY <1>3 DEF HandledProgress, HandledIn
  <2>3. DOMAIN HandledProgress = Iterations
    BY <2>2
  <2>4. FoldFunction(+, 0, HandledProgress) = SumOver(HandledProgress, Iterations)
    BY <2>3, FoldIsSum
  <2> QED BY <1>3, <2>1, <2>2, <2>4 DEF PlanInv, HandledConserved
<1> QED BY <1>1, <1>3, <1>4, <1>5 DEF Total

(***************************************************************************)
(* The runner: the strengthening.                                          *)
(***************************************************************************)
\* What main has done so far, by where it is.
Stages ==
  /\ main = "begin" => planPc = "none"
  /\ main \in {"begin", "spawned", "waiting"} => woken = "no"
  /\ main \in {"begin", "spawned", "waiting", "waking"} => ~answered
  /\ main \notin {"exiting", "exited"} => rows = << >>

\* A notification is the last thing the plan thread does, and a plan that has
\* returned when the wait ends, notified or not, stays so.
Answered ==
  /\ woken = "notified" => planPc = "ended"
  /\ answered => planPc \in {"returned", "ended"}
  /\ woken = "notified" /\ main # "waking" => answered

\* What main has read of a plan that had returned.
Reading ==
  answered =>
    /\ main \in {"read", "reread"} =>
         readSum = SumOver(per_thread_result, 0..(readNext - 1))
    /\ main \in {"reread", "save"} => logged = Total
    /\ main = "save" => printed = Total

RunnerInv == TypeOK /\ PlanInv /\ Stages /\ Answered /\ Reading /\ LateAnswerIsTotal

-----------------------------------------------------------------------------
\* get_result() returns an integer.
LEMMA DividedType ==
  ASSUME NEW sum \in Int, NEW redundancy \in Nat
  PROVE  Divided(sum, redundancy) \in Int
<1> DEFINE d == IF redundancy > 1 THEN redundancy ELSE 1
<1>1. d \in Nat /\ d > 0
  OBVIOUS
<1> HIDE DEF d
<1>2. sum \div d \in Int /\ (-sum) \div d \in Int
  BY <1>1
<1>3. -((-sum) \div d) \in Int
  BY <1>2
<1> QED BY <1>2, <1>3 DEF Divided, d

\* What the type invariant says of what main reads.
LEMMA ReadTyping ==
  ASSUME TypeOK
  PROVE  /\ iep_redundency \in Nat /\ NumThreads \in Nat
         /\ readNext \in Nat /\ readNext <= NumThreads
         /\ \A w \in 0..(NumThreads - 1) : per_thread_result[w] \in Int
BY PlanAssumption DEF TypeOK, PlanTypeOK, Workers

\* Reading one more counter extends the partial sum.
LEMMA PartialSumNext ==
  ASSUME TypeOK, readNext < NumThreads
  PROVE  SumOver(per_thread_result, 0..((readNext + 1) - 1)) =
           SumOver(per_thread_result, 0..(readNext - 1)) + per_thread_result[readNext]
<1> DEFINE S == 0..(readNext - 1)
           e == readNext
<1>1. IsFiniteSet(S) /\ e \notin S /\ 0..((readNext + 1) - 1) = S \union {e}
  <2>1. IsFiniteSet(S)
    BY ReadTyping, FS_Interval
  <2> QED BY <2>1, ReadTyping
<1>2. (\A x \in S : per_thread_result[x] \in Int) /\ per_thread_result[e] \in Int
  BY ReadTyping
<1> HIDE DEF S, e
<1>3. SumOver(per_thread_result, S \union {e}) = SumOver(per_thread_result, S) + per_thread_result[e]
  BY <1>1, <1>2, SumInsert
<1> QED BY <1>1, <1>3 DEF S, e

\* What get_result() returns to main when the plan had returned.
LEMMA ResultIsTotal ==
  ASSUME RunnerInv, answered, main \in {"read", "reread"}, readNext = NumThreads
  PROVE  Divided(readSum, iep_redundency) = Total
<1>1. readSum = SumOver(per_thread_result, Workers)
  BY DEF RunnerInv, Reading, Workers
<1>2. SumCounters = SumOver(per_thread_result, Workers)
  BY PlanTyping, FoldIsSum DEF RunnerInv, TypeOK, SumCounters
<1>3. Divided(SumCounters, iep_redundency) = Total
  BY PlanInvReturns DEF RunnerInv, Answered, ReturnsTotal
<1> QED BY <1>1, <1>2, <1>3

-----------------------------------------------------------------------------
(***************************************************************************)
(* The steps.                                                              *)
(***************************************************************************)
\* The initial state satisfies the strengthening.
LEMMA InitInv == Init => RunnerInv
<1> SUFFICES ASSUME Init PROVE RunnerInv
  OBVIOUS
<1>1. PlanInv
  BY PlanInitInv DEF Init
<1>2. TypeOK
  <2>1. NumThreads \in Nat /\ PlanTypeOK
    BY <1>1, PlanAssumption DEF PlanInv
  <2>2. late \in BOOLEAN /\ time_out \in BOOLEAN /\ answered \in BOOLEAN
    BY DEF Init
  <2>3. readNext \in 0..NumThreads /\ readSum \in Int /\ rows \in Seq([finished : BOOLEAN, result : Int])
    BY <2>1 DEF Init
  <2> QED BY <2>1, <2>2, <2>3 DEF Init, TypeOK
<1>3. planPc = "none"
  BY DEF Init, PlanInit
<1> QED BY <1>1, <1>2, <1>3 DEF Init, RunnerInv, Stages, Answered, Reading, LateAnswerIsTotal

\* A step of main leaves the plan's state alone.
LEMMA PlanFrame ==
  ASSUME RunnerInv, UNCHANGED planVars
  PROVE  PlanInv' /\ PlanTypeOK' /\ UNCHANGED <<planPc, per_thread_result>>
<1>1. UNCHANGED <<workerVars, ctxVars, planPc, per_thread_result>>
  BY DEF planVars, ctxVars
<1> QED BY <1>1, PlanCallInv DEF RunnerInv, PlanInv

\* Leaving an experiment of the skip list out.
LEMMA SkipInv == RunnerInv /\ Skip => RunnerInv'
<1> SUFFICES ASSUME RunnerInv, Skip PROVE RunnerInv'
  OBVIOUS
<1>1. PlanInv' /\ PlanTypeOK' /\ UNCHANGED <<planPc, per_thread_result>>
  BY PlanFrame DEF Skip
<1>2. rows' = <<[finished |-> FALSE, result |-> 0]>>
  <2>1. rows = << >> /\ rows' = Append(rows, [finished |-> FALSE, result |-> 0])
    BY DEF RunnerInv, Stages, Skip
  <2> QED BY <2>1
<1>3. TypeOK'
  BY <1>1, <1>2 DEF RunnerInv, TypeOK, Skip
<1> QED BY <1>1, <1>2, <1>3
        DEF RunnerInv, Skip, Stages, Answered, Reading, LateAnswerIsTotal

\* Starting the plan thread.
LEMMA SpawnInv == RunnerInv /\ Spawn => RunnerInv'
<1> SUFFICES ASSUME RunnerInv, Spawn PROVE RunnerInv'
  OBVIOUS
<1>1. planPc = "none" /\ planPc' = "called" /\ UNCHANGED <<workerVars, ctxVars>>
  BY DEF RunnerInv, Stages, Spawn
<1>2. PlanInv' /\ PlanTypeOK'
  BY <1>1, PlanCallInv DEF RunnerInv, PlanInv
<1>3. TypeOK'
  BY <1>2 DEF RunnerInv, TypeOK, Spawn
<1> QED BY <1>1, <1>2, <1>3
        DEF RunnerInv, Spawn, Stages, Answered, Reading, LateAnswerIsTotal

\* Waiting, and what may end it, without the plan thread.
LEMMA WaitInv == RunnerInv /\ (Wait \/ Deadline \/ SpuriousWakeup) => RunnerInv'
<1> SUFFICES ASSUME RunnerInv, Wait \/ Deadline \/ SpuriousWakeup PROVE RunnerInv'
  OBVIOUS
<1>1. PlanInv' /\ PlanTypeOK' /\ UNCHANGED <<planPc, per_thread_result>>
  BY PlanFrame DEF Wait, Deadline, SpuriousWakeup
<1>2. TypeOK'
  BY <1>1 DEF RunnerInv, TypeOK, Wait, Deadline, SpuriousWakeup
<1> QED BY <1>1, <1>2
        DEF RunnerInv, Wait, Deadline, SpuriousWakeup, Stages, Answered, Reading,
            LateAnswerIsTotal

\* The end of the wait: nothing has been read yet.
LEMMA EndWaitInv == RunnerInv /\ EndWait => RunnerInv'
<1> SUFFICES ASSUME RunnerInv, EndWait PROVE RunnerInv'
  OBVIOUS
<1>1. PlanInv' /\ PlanTypeOK' /\ UNCHANGED <<planPc, per_thread_result>>
  BY PlanFrame DEF EndWait
<1>2. TypeOK'
  BY <1>1, PlanAssumption DEF RunnerInv, TypeOK, EndWait
<1>3. SumOver(per_thread_result', 0..(0 - 1)) = 0
  <2>1. 0..(0 - 1) = {}
    OBVIOUS
  <2> QED BY <2>1, SumEmpty
<1>4. Stages' /\ Answered'
  BY <1>1 DEF RunnerInv, EndWait, Stages, Answered
<1>5. Reading' /\ LateAnswerIsTotal'
  <2>1. main' = "read" /\ readNext' = 0 /\ readSum' = 0 /\ rows' = << >>
    BY DEF RunnerInv, EndWait, Stages
  <2> QED BY <1>3, <2>1 DEF Reading, LateAnswerIsTotal
<1> QED BY <1>1, <1>2, <1>4, <1>5 DEF RunnerInv

\* Reading a counter.
LEMMA ReadCounterInv == RunnerInv /\ ReadCounter => RunnerInv'
<1> SUFFICES ASSUME RunnerInv, ReadCounter PROVE RunnerInv'
  OBVIOUS
<1>1. PlanInv' /\ PlanTypeOK' /\ UNCHANGED <<planPc, per_thread_result>>
  BY PlanFrame DEF ReadCounter
<1>2. TypeOK /\ readNext < NumThreads
  BY DEF RunnerInv, ReadCounter
<1>3. TypeOK'
  BY <1>1, <1>2, ReadTyping DEF TypeOK, ReadCounter
<1>4. SumOver(per_thread_result, 0..((readNext + 1) - 1)) =
        SumOver(per_thread_result, 0..(readNext - 1)) + per_thread_result[readNext]
  BY <1>2, PartialSumNext
<1>5. Reading'
  BY <1>1, <1>4 DEF RunnerInv, ReadCounter, Reading
<1> QED BY <1>1, <1>3, <1>5
        DEF RunnerInv, ReadCounter, Stages, Answered, LateAnswerIsTotal

\* Storing the result.
LEMMA StoreResultInv == RunnerInv /\ StoreResult => RunnerInv'
<1> SUFFICES ASSUME RunnerInv, StoreResult PROVE RunnerInv'
  OBVIOUS
<1>1. PlanInv' /\ PlanTypeOK' /\ UNCHANGED <<planPc, per_thread_result>>
  BY PlanFrame DEF StoreResult
<1>2. logged' \in Int
  BY ReadTyping, DividedType DEF RunnerInv, TypeOK, StoreResult
<1>3. TypeOK'
  BY <1>1, <1>2, ReadTyping DEF RunnerInv, TypeOK, StoreResult
<1>4. SumOver(per_thread_result', 0..(0 - 1)) = 0
  <2>1. 0..(0 - 1) = {}
    OBVIOUS
  <2> QED BY <2>1, SumEmpty
<1>5. answered => logged' = Total
  BY ResultIsTotal DEF StoreResult
<1> QED BY <1>1, <1>3, <1>4, <1>5
        DEF RunnerInv, StoreResult, Stages, Answered, Reading, LateAnswerIsTotal

\* Printing it.
LEMMA PrintResultInv == RunnerInv /\ PrintResult => RunnerInv'
<1> SUFFICES ASSUME RunnerInv, PrintResult PROVE RunnerInv'
  OBVIOUS
<1>1. PlanInv' /\ PlanTypeOK' /\ UNCHANGED <<planPc, per_thread_result>>
  BY PlanFrame DEF PrintResult
<1>2. printed' \in Int
  BY ReadTyping, DividedType DEF RunnerInv, TypeOK, PrintResult
<1>3. TypeOK'
  BY <1>1, <1>2 DEF RunnerInv, TypeOK, PrintResult
<1>4. answered => printed' = Total
  BY ResultIsTotal DEF PrintResult
<1> QED BY <1>1, <1>3, <1>4
        DEF RunnerInv, PrintResult, Stages, Answered, Reading, LateAnswerIsTotal

\* Saving the row: it is the only one.
LEMMA SaveInv == RunnerInv /\ Save => RunnerInv'
<1> SUFFICES ASSUME RunnerInv, Save PROVE RunnerInv'
  OBVIOUS
<1>1. PlanInv' /\ PlanTypeOK' /\ UNCHANGED <<planPc, per_thread_result>>
  BY PlanFrame DEF Save
<1>2. rows' = <<[finished |-> ~time_out, result |-> logged]>>
  BY DEF RunnerInv, Stages, Save
<1> QED BY <1>1, <1>2
        DEF RunnerInv, Save, TypeOK, Stages, Answered, Reading, LateAnswerIsTotal

\* Exiting.
LEMMA ExitInv == RunnerInv /\ Exit => RunnerInv'
<1> SUFFICES ASSUME RunnerInv, Exit PROVE RunnerInv'
  OBVIOUS
<1>1. PlanInv' /\ PlanTypeOK' /\ UNCHANGED <<planPc, per_thread_result>>
  BY PlanFrame DEF Exit
<1> QED BY <1>1 DEF RunnerInv, Exit, TypeOK, Stages, Answered, Reading, LateAnswerIsTotal

\* The notification, behind the barrier: main waits, or has long gone on.
LEMMA NotifyInv == RunnerInv /\ Notify => RunnerInv'
<1> SUFFICES ASSUME RunnerInv, Notify PROVE RunnerInv'
  OBVIOUS
<1>1. planPc = "returned" /\ planPc' = "ended" /\ UNCHANGED <<workerVars, ctxVars>>
  BY DEF Notify
<1>2. PlanInv' /\ PlanTypeOK' /\ UNCHANGED per_thread_result
  BY <1>1, PlanCallInv DEF RunnerInv, PlanInv, ctxVars
<1>3. TypeOK'
  BY <1>2 DEF RunnerInv, TypeOK, Notify
<1>4. woken # "notified"
  BY <1>1 DEF RunnerInv, Answered
<1>5. Stages' /\ Answered'
  BY <1>1, <1>4 DEF RunnerInv, Notify, Stages, Answered
<1>6. Reading' /\ LateAnswerIsTotal'
  <2>1. /\ UNCHANGED <<answered, readSum, readNext, logged, printed, rows>>
        /\ main' = main \/ main = "waiting"
    BY DEF Notify
  <2> QED BY <1>2, <2>1 DEF RunnerInv, Stages, Reading, LateAnswerIsTotal
<1> QED BY <1>2, <1>3, <1>5, <1>6 DEF RunnerInv

\* A step of the plan comes before it returns.
LEMMA PlanStepInv == RunnerInv /\ PlanStep => RunnerInv'
<1> SUFFICES ASSUME RunnerInv, PlanStep PROVE RunnerInv'
  OBVIOUS
<1>1. PlanInv' /\ PlanTypeOK'
  BY PlanNextInv DEF RunnerInv, PlanStep, PlanInv
<1>2. planPc \in {"called", "region"}
  BY DEF PlanStep, PlanNext, Fork, Join, WorkerStep, Enter, Claim, Add, EndIteration, RecordTime,
         At
<1>3. TypeOK'
  BY <1>1 DEF RunnerInv, TypeOK, PlanStep, mainVars
<1>4. woken # "notified" /\ ~answered
  BY <1>2 DEF RunnerInv, Answered
<1> QED BY <1>1, <1>2, <1>3, <1>4
        DEF RunnerInv, PlanStep, mainVars, Stages, Answered, Reading, LateAnswerIsTotal

\* The strengthening is an invariant.
LEMMA Invariance == Spec => []RunnerInv
<1>1. RunnerInv /\ [Next]_vars => RunnerInv'
  <2> SUFFICES ASSUME RunnerInv, [Next]_vars PROVE RunnerInv'
    OBVIOUS
  <2>1. CASE Next
    BY <2>1, SkipInv, SpawnInv, WaitInv, EndWaitInv, ReadCounterInv, StoreResultInv,
       PrintResultInv, SaveInv, ExitInv, NotifyInv, PlanStepInv DEF Next, MainStep
  <2>2. CASE UNCHANGED vars
    <3>1. PlanInv' /\ PlanTypeOK' /\ UNCHANGED <<planPc, per_thread_result>>
      BY <2>2, PlanFrame DEF vars
    <3> QED BY <2>2, <3>1
            DEF vars, mainVars, RunnerInv, TypeOK, Stages, Answered, Reading, LateAnswerIsTotal
  <2> QED BY <2>1, <2>2
<1> QED BY InitInv, <1>1, PTL DEF Spec

-----------------------------------------------------------------------------
\* The variables keep their types.
THEOREM RunnerTypeCorrect == Spec => []TypeOK
<1>1. RunnerInv => TypeOK
  BY DEF RunnerInv
<1> QED BY <1>1, Invariance, PTL

\* The counters hold what the claimed iterations have added, at every moment of
\* every interleaving: no iteration is lost or counted twice.
THEOREM CountingCorrect == Spec => []CountConserved
<1>1. RunnerInv => CountConserved
  BY DEF RunnerInv, PlanInv
<1> QED BY <1>1, Invariance, PTL

\* When plan() returns, the counters hold the number of embeddings.
THEOREM PlanReturnsTotal == Spec => []ReturnsTotal
<1>1. RunnerInv => ReturnsTotal
  BY PlanInvReturns DEF RunnerInv
<1> QED BY <1>1, Invariance, PTL

\* Whatever ended the wait: if the plan had returned by then, the row and the
\* RESULT line carry the complete result, also when the row says that it timed out.
THEOREM LateAnswerCorrect == Spec => []LateAnswerIsTotal
<1>1. RunnerInv => LateAnswerIsTotal
  BY DEF RunnerInv
<1> QED BY <1>1, Invariance, PTL

\* A row logged as finished after a notification carries the complete result: by
\* the time of the notification the plan has returned.
THEOREM FinishedCorrect == Spec => []FinishedIsTotal
<1>1. RunnerInv => FinishedIsTotal
  <2>1. RunnerInv /\ rows # << >> /\ woken = "notified" => answered
    BY DEF RunnerInv, Stages, Answered
  <2> QED BY <2>1 DEF RunnerInv, LateAnswerIsTotal, FinishedIsTotal
<1> QED BY <1>1, Invariance, PTL

-----------------------------------------------------------------------------
(***************************************************************************)
(* A run that timed out.  Without inclusion-exclusion every increment is   *)
(* the size of a set and nothing is divided; main reads counters that      *)
(* still grow.                                                             *)
(***************************************************************************)
SetSizes == Redundancy <= 1 /\ \A i \in Iterations : Increments[i] \in Seq(Nat)

CountersNatural == \A w \in Workers : per_thread_result[w] \in Nat

\* What main has read is in the counters, and with what it has not read yet it will
\* find no less the second time.
Read == SumOver(per_thread_result, 0..(readNext - 1))
Unread == SumOver(per_thread_result, readNext..(NumThreads - 1))

ReadsNoMore == main \in {"read", "reread"} => readSum \in Nat /\ readSum <= Read
RereadsNoLess == main = "reread" => logged \in Int /\ logged <= readSum + Unread

Reported ==
  /\ main \notin {"reread", "save", "exiting", "exited"} => logged = NoResult
  /\ main \notin {"save", "exiting", "exited"} => printed = NoResult

BoundInv == CountersNatural /\ ReadsNoMore /\ RereadsNoLess /\ Reported /\ PartialIsLowerBound

\* A prefix has no larger sum.
LEMMA PrefixSum ==
  ASSUME NEW s \in Seq(Nat), NEW n \in Nat, n <= Len(s)
  PROVE  /\ SumSeq(s) \in Nat /\ SumSeq(SubSeq(s, 1, n)) \in Nat
         /\ SumSeq(SubSeq(s, 1, n)) <= SumSeq(s)
<1> DEFINE p == SubSeq(s, 1, n)
<1>1. /\ DOMAIN p = 1..n /\ DOMAIN s = 1..Len(s) /\ Len(s) \in Nat
      /\ \A x \in 1..n : p[x] = s[x]
      /\ \A x \in 1..Len(s) : s[x] \in Nat
  OBVIOUS
<1> HIDE DEF p
<1>2. IsFiniteSet(1..n) /\ IsFiniteSet(1..Len(s)) /\ 1..n \in SUBSET (1..Len(s))
  BY <1>1, FS_Interval
<1>3. SumSeq(s) = SumOver(s, 1..Len(s)) /\ SumSeq(p) = SumOver(p, 1..n)
  BY <1>1, FoldIsSum DEF SumSeq
<1>4. SumOver(p, 1..n) = SumOver(s, 1..n)
  BY <1>1, <1>2, SumEqual
<1>5. SumOver(s, 1..n) \in Nat /\ SumOver(s, 1..n) <= SumOver(s, 1..Len(s))
  BY <1>1, <1>2, SumSubset
<1>6. SumOver(s, 1..Len(s)) \in Nat
  <2>1. 1..Len(s) \in SUBSET (1..Len(s))
    OBVIOUS
  <2> QED BY <1>1, <1>2, <2>1, SumSubset
<1> QED BY <1>3, <1>4, <1>5, <1>6 DEF p

\* The counters together never exceed the total.
LEMMA CountersBounded ==
  ASSUME SetSizes, PlanInv
  PROVE  /\ SumOver(per_thread_result, Workers) <= RawTotal
         /\ RawTotal \in Nat /\ Total = RawTotal
<1> DEFINE All == [i \in Iterations |-> SumSeq(Increments[i])]
<1>1. ASSUME NEW i \in Claimed PROVE Progress[i] \in Int /\ All[i] \in Nat /\ Progress[i] <= All[i]
  <2>1. i \in Iterations /\ Increments[i] \in Seq(Nat) /\ Len(Increments[i]) \in Nat
    BY PlanTyping DEF PlanInv, SetSizes
  <2>2. SumSeq(Increments[i]) \in Nat
    BY <2>1, PrefixSum
  <2>3. CASE \E w \in Active : i0_id[w] = i
    <3>1. PICK w \in Active : i0_id[w] = i
      BY <2>3
    <3>2. added[w] \in Nat /\ added[w] <= Len(Increments[i])
      BY <3>1, PlanTyping DEF PlanInv, Claims, ActiveOnClaimed, Active
    <3>3. Ran(i) = SumSeq(SubSeq(Increments[i], 1, added[w]))
      BY <3>1, RanActive DEF PlanInv, Claims
    <3> QED BY <2>1, <3>2, <3>3, PrefixSum DEF Progress
  <2>4. CASE ~\E w \in Active : i0_id[w] = i
    BY <2>1, <2>2, <2>4 DEF Progress, Ran
  <2> QED BY <2>3, <2>4
<1>2. \A i \in Iterations : All[i] \in Nat
  <2> SUFFICES ASSUME NEW i \in Iterations PROVE SumSeq(Increments[i]) \in Nat
    OBVIOUS
  <2>1. Increments[i] \in Seq(Nat) /\ 0 \in Nat /\ 0 <= Len(Increments[i])
    BY DEF SetSizes
  <2> QED BY <2>1, PrefixSum
<1>3. RawTotal = SumOver(All, Iterations)
  <2>1. DOMAIN All = Iterations
    OBVIOUS
  <2> QED BY <2>1, FoldIsSum DEF RawTotal
<1>4. SumOver(per_thread_result, Workers) = SumOver(Progress, Claimed)
  BY CountIs DEF PlanInv, CountsProgress
<1> HIDE DEF All
<1>5. /\ IsFiniteSet(Claimed) /\ IsFiniteSet(Iterations)
      /\ Claimed \in SUBSET Iterations /\ Iterations \in SUBSET Iterations
  BY PlanTyping, Finiteness DEF PlanInv
<1>6. SumOver(Progress, Claimed) <= SumOver(All, Claimed)
  <2>1. \A i \in Claimed : Progress[i] \in Int /\ All[i] \in Int /\ Progress[i] <= All[i]
    BY <1>1
  <2> QED BY <1>5, <2>1, SumMonotone
<1>7. SumOver(All, Claimed) \in Nat /\ SumOver(All, Claimed) <= SumOver(All, Iterations)
  BY <1>2, <1>5, SumSubset
<1>8. SumOver(All, Iterations) \in Nat
  BY <1>2, <1>5, SumSubset
<1>9. SumOver(Progress, Claimed) \in Int
  BY ProgressType DEF PlanInv
<1>10. Total = RawTotal
  <2>1. RawTotal \in Nat /\ Redundancy \in Nat /\ ~(Redundancy > 1)
    BY <1>3, <1>8, PlanAssumption DEF SetSizes
  <2> QED BY <2>1 DEF Total, Divided
<1> QED BY <1>3, <1>4, <1>6, <1>7, <1>8, <1>9, <1>10

\* What get_result() returns is what was read.
LEMMA NothingDivided ==
  ASSUME SetSizes, RunnerInv, readSum \in Nat
  PROVE  Divided(readSum, iep_redundency) = readSum
<1>1. iep_redundency \in Nat /\ ~(iep_redundency > 1)
  BY PlanAssumption DEF SetSizes, RunnerInv, TypeOK, PlanTypeOK
<1> QED BY <1>1 DEF Divided

\* The counters main has read and those it has not are some of the workers'.
LEMMA ReadSets ==
  ASSUME RunnerInv
  PROVE  /\ IsFiniteSet(Workers) /\ IsFiniteSet(0..(readNext - 1))
         /\ IsFiniteSet(readNext..(NumThreads - 1))
         /\ 0..(readNext - 1) \in SUBSET Workers /\ readNext..(NumThreads - 1) \in SUBSET Workers
         /\ readNext \in Nat /\ NumThreads \in Nat /\ readNext <= NumThreads
<1>1. readNext \in Nat /\ NumThreads \in Nat /\ readNext <= NumThreads
  BY ReadTyping DEF RunnerInv
<1> QED BY <1>1, FS_Interval DEF Workers

\* The counters, once they are all read, give no more than the total.
LEMMA ReadsTotal ==
  ASSUME SetSizes, RunnerInv, BoundInv, main \in {"read", "reread"}, readNext = NumThreads
  PROVE  readSum \in Nat /\ readSum <= Total /\ readSum <= SumOver(per_thread_result, Workers)
<1>1. Read = SumOver(per_thread_result, Workers)
  BY DEF Read, Workers
<1>2. SumOver(per_thread_result, Workers) \in Nat
  BY ReadSets, SumSubset DEF BoundInv, CountersNatural
<1>3. SumOver(per_thread_result, Workers) <= Total /\ Total \in Nat
  BY CountersBounded DEF RunnerInv
<1> QED BY <1>1, <1>2, <1>3 DEF BoundInv, ReadsNoMore

\* The counters do not shrink while they are read.
LEMMA PlanStepBound ==
  ASSUME SetSizes, RunnerInv, BoundInv, PlanStep
  PROVE  BoundInv'
<1>1. ASSUME NEW w \in Workers
      PROVE  per_thread_result'[w] \in Nat /\ per_thread_result[w] <= per_thread_result'[w]
  <2>1. per_thread_result[w] \in Nat /\ DOMAIN per_thread_result = Workers
    BY PlanTyping DEF BoundInv, CountersNatural, RunnerInv, PlanInv
  <2>2. CASE UNCHANGED per_thread_result
    BY <2>1, <2>2
  <2>3. ASSUME NEW v \in Workers, Add(v)
        PROVE  per_thread_result'[w] \in Nat /\ per_thread_result[w] <= per_thread_result'[w]
    <3>1. /\ i0_id[v] \in Iterations /\ added[v] \in Nat /\ added[v] < Len(Increments[i0_id[v]])
      BY <2>3, PlanTyping
      DEF Add, At, RunnerInv, PlanInv, Claims, ActiveOnClaimed, Active
    <3>2. Increments[i0_id[v]][added[v] + 1] \in Nat
      <4>1. Increments[i0_id[v]] \in Seq(Nat)
        BY <3>1 DEF SetSizes
      <4> QED BY <3>1, <4>1
    <3>3. per_thread_result' =
            [per_thread_result EXCEPT ![v] = @ + Increments[i0_id[v]][added[v] + 1]]
      BY <2>3 DEF Add
    <3> QED BY <2>1, <3>2, <3>3
  <2> QED BY <2>2, <2>3
          DEF PlanStep, PlanNext, Fork, Join, WorkerStep, Enter, Claim, EndIteration, RecordTime,
              ctxVars
<1>2. \A w \in Workers : /\ per_thread_result[w] \in Int /\ per_thread_result'[w] \in Int
                         /\ per_thread_result[w] <= per_thread_result'[w]
  BY <1>1 DEF BoundInv, CountersNatural
<1>3. UNCHANGED <<main, readNext, readSum, logged, printed>>
  BY DEF PlanStep, mainVars
<1>4. Read <= Read'
  BY <1>2, <1>3, ReadSets, SumMonotone DEF Read
<1>5. Unread <= Unread'
  BY <1>2, <1>3, ReadSets, SumMonotone DEF Unread
<1>6. Read \in Nat /\ Unread \in Nat /\ Read' \in Nat /\ Unread' \in Nat
  <2>1. Read \in Nat /\ Unread \in Nat
    BY ReadSets, SumSubset DEF Read, Unread, BoundInv, CountersNatural
  <2>2. Read' \in Nat /\ Unread' \in Nat
    BY <1>1, <1>3, ReadSets, SumSubset DEF Read, Unread
  <2> QED BY <2>1, <2>2
<1>7. CountersNatural'
  BY <1>1 DEF CountersNatural
<1>8. ReadsNoMore' /\ RereadsNoLess'
  BY <1>3, <1>4, <1>5, <1>6 DEF BoundInv, ReadsNoMore, RereadsNoLess
<1>9. Reported' /\ PartialIsLowerBound'
  BY <1>3 DEF BoundInv, Reported, PartialIsLowerBound
<1> QED BY <1>7, <1>8, <1>9 DEF BoundInv

\* Reading a counter moves it from what is unread to what is read.
LEMMA ReadCounterBound ==
  ASSUME RunnerInv, BoundInv, ReadCounter
  PROVE  BoundInv'
<1> DEFINE r == per_thread_result[readNext]
<1>1. /\ UNCHANGED <<main, per_thread_result, logged, printed>>
      /\ readSum' = readSum + r /\ readNext' = readNext + 1
      /\ main \in {"read", "reread"} /\ readNext < NumThreads
  BY DEF ReadCounter, planVars, ctxVars
<1>2. r \in Nat
  BY <1>1, ReadSets DEF BoundInv, CountersNatural, Workers
<1>3. Read' = Read + r
  BY <1>1, PartialSumNext DEF RunnerInv, Read
<1>4. Unread = r + Unread'
  <2> DEFINE S == readNext..(NumThreads - 1)
             e == readNext
  <2>1. S \ {e} = (readNext + 1)..(NumThreads - 1) /\ e \in S
    BY <1>1, ReadSets
  <2>2. IsFiniteSet(S) /\ \A x \in S : per_thread_result[x] \in Int
    BY ReadSets DEF BoundInv, CountersNatural
  <2> HIDE DEF S, e
  <2>3. SumOver(per_thread_result, S) = per_thread_result[e] + SumOver(per_thread_result, S \ {e})
    BY <2>1, <2>2, SumRemove
  <2> QED BY <1>1, <2>1, <2>3 DEF S, e, Unread
<1>5. Read \in Nat /\ Unread' \in Nat
  <2>1. Read \in Nat
    BY ReadSets, SumSubset DEF Read, BoundInv, CountersNatural
  <2>2. (readNext + 1)..(NumThreads - 1) \in SUBSET Workers
    BY ReadSets DEF Workers
  <2>3. SumOver(per_thread_result, (readNext + 1)..(NumThreads - 1)) \in Nat
    BY <2>2, ReadSets, SumSubset DEF BoundInv, CountersNatural
  <2> QED BY <1>1, <2>1, <2>3 DEF Unread
<1> HIDE DEF r
<1>6. ReadsNoMore' /\ RereadsNoLess'
  BY <1>1, <1>2, <1>3, <1>4, <1>5 DEF BoundInv, ReadsNoMore, RereadsNoLess
<1>7. CountersNatural' /\ Reported' /\ PartialIsLowerBound'
  BY <1>1 DEF BoundInv, CountersNatural, Reported, PartialIsLowerBound
<1> QED BY <1>6, <1>7 DEF BoundInv

\* Before the first counter is read, everything is unread.
LEMMA NothingRead ==
  ASSUME RunnerInv, BoundInv, readNext' = 0, UNCHANGED per_thread_result
  PROVE  /\ Read' = 0 /\ Unread' = SumOver(per_thread_result, Workers)
         /\ SumOver(per_thread_result, Workers) \in Nat
<1>1. 0..(0 - 1) = {} /\ 0..(NumThreads - 1) = Workers
  BY DEF Workers
<1>2. SumOver(per_thread_result, Workers) \in Nat
  BY ReadSets, SumSubset DEF BoundInv, CountersNatural
<1> QED BY <1>1, <1>2, SumEmpty DEF Read, Unread

\* The result stored is what was read first.
LEMMA StoreResultBound ==
  ASSUME SetSizes, RunnerInv, BoundInv, StoreResult
  PROVE  BoundInv'
<1>1. readSum \in Nat /\ readSum <= Total /\ readSum <= SumOver(per_thread_result, Workers)
  BY ReadsTotal DEF StoreResult
<1>2. /\ logged' = readSum /\ main' = "reread" /\ readNext' = 0 /\ readSum' = 0
      /\ main = "read" /\ UNCHANGED <<per_thread_result, printed>>
  BY <1>1, NothingDivided DEF StoreResult, planVars, ctxVars
<1>3. printed = NoResult
  BY <1>2 DEF BoundInv, Reported
<1>4. ReadsNoMore' /\ RereadsNoLess'
  BY <1>1, <1>2, NothingRead DEF ReadsNoMore, RereadsNoLess
<1>5. CountersNatural' /\ Reported' /\ PartialIsLowerBound'
  BY <1>1, <1>2, <1>3 DEF BoundInv, CountersNatural, Reported, PartialIsLowerBound
<1> QED BY <1>4, <1>5 DEF BoundInv

\* The result printed is what was read the second time.
LEMMA PrintResultBound ==
  ASSUME SetSizes, RunnerInv, BoundInv, PrintResult
  PROVE  BoundInv'
<1>1. readSum \in Nat /\ readSum <= Total
  BY ReadsTotal DEF PrintResult
<1>2. /\ printed' = readSum /\ main' = "save" /\ main = "reread" /\ readNext = NumThreads
      /\ UNCHANGED <<per_thread_result, logged>>
  BY <1>1, NothingDivided DEF PrintResult, planVars, ctxVars
<1>3. Unread = 0
  <2>1. readNext..(NumThreads - 1) = {}
    BY <1>2, ReadSets
  <2> QED BY <2>1, SumEmpty DEF Unread
<1>4. logged \in Int /\ logged <= readSum
  BY <1>1, <1>2, <1>3 DEF BoundInv, RereadsNoLess
<1>5. logged # NoResult => logged <= Total
  BY DEF BoundInv, PartialIsLowerBound
<1>6. ReadsNoMore' /\ RereadsNoLess' /\ Reported' /\ CountersNatural'
  BY <1>2 DEF BoundInv, CountersNatural, ReadsNoMore, RereadsNoLess, Reported
<1>7. PartialIsLowerBound'
  BY <1>1, <1>2, <1>4, <1>5 DEF PartialIsLowerBound
<1> QED BY <1>6, <1>7 DEF BoundInv

\* The other steps of main report nothing, or 0 for a run that was skipped.
LEMMA OtherBound ==
  ASSUME SetSizes, RunnerInv, BoundInv,
         \/ Skip \/ Spawn \/ Wait \/ EndWait \/ Save \/ Exit
         \/ Deadline \/ SpuriousWakeup \/ Notify
  PROVE  BoundInv'
<1>1. UNCHANGED per_thread_result
  BY DEF Skip, Spawn, Wait, EndWait, Save, Exit, Deadline, SpuriousWakeup, Notify, planVars, ctxVars
<1>2. CountersNatural'
  BY <1>1 DEF BoundInv, CountersNatural
<1>3. CASE Skip
  <2>1. Total \in Nat
    BY CountersBounded DEF RunnerInv
  <2>2. main' = "exiting" /\ logged' = 0 /\ printed' = printed /\ printed = NoResult
    BY <1>3 DEF Skip, BoundInv, Reported
  <2> QED BY <1>2, <2>1, <2>2
          DEF BoundInv, ReadsNoMore, RereadsNoLess, Reported, PartialIsLowerBound
<1>4. CASE EndWait
  <2>1. /\ main = "waking" /\ main' = "read" /\ readNext' = 0 /\ readSum' = 0
        /\ UNCHANGED <<logged, printed>>
    BY <1>4 DEF EndWait
  <2> QED BY <1>1, <1>2, <2>1, NothingRead
          DEF BoundInv, ReadsNoMore, RereadsNoLess, Reported, PartialIsLowerBound
<1>5. CASE Spawn \/ Wait \/ Save \/ Exit \/ Deadline \/ SpuriousWakeup \/ Notify
  <2>1. /\ main' \notin {"read", "reread"} \/ main' = main
        /\ UNCHANGED <<logged, printed, readSum, readNext>>
        /\ main \in {"save", "exiting", "exited"} => main' \in {"save", "exiting", "exited"}
        /\ main \notin {"save", "exiting", "exited"} => main' \notin {"save", "exiting", "exited"}
        /\ main' = main \/ main # "reread"
    BY <1>5 DEF Spawn, Wait, Save, Exit, Deadline, SpuriousWakeup, Notify
  <2>2. UNCHANGED <<Read, Unread>>
    BY <1>1, <2>1 DEF Read, Unread
  <2> QED BY <1>2, <2>1, <2>2
          DEF BoundInv, ReadsNoMore, RereadsNoLess, Reported, PartialIsLowerBound
<1> QED BY <1>3, <1>4, <1>5

\* The initial state: nothing counted, nothing reported.
LEMMA InitBound == Init => BoundInv
BY DEF Init, PlanInit, BoundInv, CountersNatural, ReadsNoMore, RereadsNoLess, Reported,
       PartialIsLowerBound

\* However the plan moves while its counters are read and whenever it times out, the
\* result logged does not exceed the number of embeddings and the one printed lies
\* between the two.
THEOREM PartialCorrect == ASSUME SetSizes PROVE Spec => []PartialIsLowerBound
<1>1. RunnerInv /\ BoundInv /\ [Next]_vars => BoundInv'
  <2> SUFFICES ASSUME RunnerInv, BoundInv, [Next]_vars PROVE BoundInv'
    OBVIOUS
  <2>1. CASE Next
    BY <2>1, PlanStepBound, ReadCounterBound, StoreResultBound, PrintResultBound, OtherBound
    DEF Next, MainStep
  <2>2. CASE UNCHANGED vars
    <3>1. UNCHANGED <<main, per_thread_result, readNext, readSum, logged, printed>>
      BY <2>2 DEF vars, mainVars, planVars, ctxVars
    <3> QED BY <3>1
            DEF BoundInv, CountersNatural, ReadsNoMore, RereadsNoLess, Reported,
                PartialIsLowerBound, Read, Unread
  <2> QED BY <2>1, <2>2
<1>2. BoundInv => PartialIsLowerBound
  BY DEF BoundInv
<1> QED BY InitBound, Invariance, <1>1, <1>2, PTL DEF Spec
=============================================================================
