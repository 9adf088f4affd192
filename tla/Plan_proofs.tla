---------------------------- MODULE Plan_proofs -----------------------------
(***************************************************************************)
(* The plan that create_plan and create_plan_mg make, for every input.     *)
(*                                                                         *)
(* create_plan gives every loop the candidates of all later vertices; so   *)
(* get_parent_vset and get_parent_mg find the operands a statement needs,  *)
(* and the marks that create_plan_mg leaves survive its erase.  The module *)
(* begins with what LoopNest_proofs needs as well: folds over sequences,   *)
(* and the sort, the parents and the numbering of set operations.          *)
(***************************************************************************)
EXTENDS LoopNest, FiniteSetTheorems, WellFoundedInduction, TLAPS

\* What holds at 0 and is inherited by the next number holds up to n.
LEMMA UpTo ==
  ASSUME NEW n \in Nat, NEW S, 0 \in S, \A k \in 0..(n - 1) : k \in S => k + 1 \in S
  PROVE  0..n \subseteq S
<1> DEFINE R == {ss \in Nat \X Nat : ss[1] < ss[2]}
           T == (0..n) \ S
<1>1. IsWellFoundedOn(R, Nat)
  BY NatLessThanWellFounded, Zenon DEF OpToRel
<1>2. T \subseteq Nat
  OBVIOUS
<1> HIDE DEF R, T
<1>3. SUFFICES ASSUME T # {} PROVE FALSE
  BY DEF T
<1>4. PICK x \in T : \A y \in T : ~(<<y, x>> \in R)
  BY <1>1, <1>2, <1>3, WFMin
<1>5. x \in 0..n /\ x \notin S /\ x # 0
  BY <1>4 DEF T
<1>6. x - 1 \in 0..(n - 1) /\ x - 1 \in Nat /\ x \in Nat /\ (x - 1) + 1 = x
  BY <1>5
<1>7. x - 1 \in S
  <2>1. SUFFICES ASSUME x - 1 \in T PROVE FALSE
    BY <1>6 DEF T
  <2>2. <<x - 1, x>> \in R
    BY <1>6 DEF R
  <2> QED BY <1>4, <2>1, <2>2
<1> QED BY <1>5, <1>6, <1>7

(***************************************************************************)
(* Folds over a list.                                                      *)
(***************************************************************************)
\* The largest of some positions of a list.
LEMMA LargestOf ==
  ASSUME NEW n \in Nat, NEW S \in SUBSET (1..n), S # {}
  PROVE  Max(S) \in S /\ \A x \in S : x <= Max(S)
<1> DEFINE Has == {k \in 0..n : \A T \in SUBSET (1..k) :
                                  T # {} => \E x \in T : \A y \in T : x >= y}
<1>1. 0 \in Has
  <2>1. 1..0 = {} /\ 0 \in 0..n
    OBVIOUS
  <2> QED BY <2>1
<1>2. ASSUME NEW k \in 0..(n - 1), k \in Has PROVE k + 1 \in Has
  <2>1. ASSUME NEW T \in SUBSET (1..(k + 1)), T # {} PROVE \E x \in T : \A y \in T : x >= y
    <3>1. CASE k + 1 \in T
      BY <3>1
    <3>2. CASE k + 1 \notin T
      <4>1. T \in SUBSET (1..k)
        BY <3>2
      <4> QED BY <1>2, <2>1, <4>1
    <3> QED BY <3>1, <3>2
  <2> QED BY <2>1
<1>3. n \in Has
  <2> HIDE DEF Has
  <2>1. 0..n \subseteq Has
    BY <1>1, <1>2, UpTo
  <2> QED BY <2>1
<1>4. \E x \in S : \A y \in S : x >= y
  BY <1>3
<1>5. Max(S) \in S /\ \A y \in S : Max(S) >= y
  BY <1>4 DEF Max
<1> QED BY <1>5

\* The first positions of a list.
LEMMA LargestOfFirst ==
  ASSUME NEW n \in Nat, NEW i \in 1..n
  PROVE  Max(1..i) = i /\ (1..i) \ {i} = 1..(i - 1)
<1>1. 1..i \in SUBSET (1..n) /\ i \in 1..i
  OBVIOUS
<1>2. Max(1..i) \in 1..i /\ \A x \in 1..i : x <= Max(1..i)
  BY <1>1, LargestOf
<1> QED BY <1>1, <1>2

\* f holds the folds of the first elements, the next position being the largest.
IsFold(f, n, base, G) ==
  \A S \in SUBSET (1..n) :
    f[S] = IF S = {} THEN base ELSE G[<<f[S \ {Max(S)}], Max(S)>>]

\* What a fold is defined as has a solution if its step is a function on a set.
LEMMA FoldExists ==
  ASSUME NEW n \in Nat, NEW A, NEW base \in A, NEW G \in [A \X (1..n) -> A]
  PROVE  \E f \in [SUBSET (1..n) -> A] : IsFold(f, n, base, G)
<1> DEFINE Is(f, k) ==
             \A S \in SUBSET (1..k) :
               f[S] = IF S = {} THEN base ELSE G[<<f[S \ {Max(S)}], Max(S)>>]
           Done == {k \in 0..n : \E f \in [SUBSET (1..k) -> A] : Is(f, k)}
<1>1. 0 \in Done
  <2> DEFINE f == [S \in SUBSET (1..0) |-> base]
  <2>1. f \in [SUBSET (1..0) -> A] /\ Is(f, 0)
    OBVIOUS
  <2>2. 0 \in 0..n
    OBVIOUS
  <2> HIDE DEF f, Is
  <2> QED BY <2>1, <2>2
<1>2. ASSUME NEW k \in 0..(n - 1), k \in Done PROVE k + 1 \in Done
  <2>1. PICK f \in [SUBSET (1..k) -> A] : Is(f, k)
    BY <1>2
  <2> DEFINE g == [S \in SUBSET (1..(k + 1)) |->
                     IF k + 1 \in S THEN G[<<f[S \ {k + 1}], k + 1>>] ELSE f[S]]
  <2>2. ASSUME NEW S \in SUBSET (1..(k + 1)), k + 1 \in S
        PROVE  /\ Max(S) = k + 1 /\ S \ {k + 1} \in SUBSET (1..k)
               /\ g[S] = G[<<f[S \ {k + 1}], k + 1>>] /\ g[S] \in A
    <3>1. k + 1 \in Nat /\ S # {}
      BY <2>2
    <3>2. Max(S) \in S /\ k + 1 <= Max(S)
      BY <2>2, <3>1, LargestOf
    <3>3. Max(S) = k + 1
      <4>1. Max(S) \in 1..(k + 1)
        BY <3>2
      <4>2. k \in Nat
        OBVIOUS
      <4> QED BY <3>2, <4>1, <4>2
    <3>4. S \ {k + 1} \in SUBSET (1..k) /\ k + 1 \in 1..n
      OBVIOUS
    <3>5. g[S] = G[<<f[S \ {k + 1}], k + 1>>]
      BY <2>2
    <3> QED BY <3>3, <3>4, <3>5
  <2>3. ASSUME NEW S \in SUBSET (1..(k + 1)), k + 1 \notin S
        PROVE  S \in SUBSET (1..k) /\ g[S] = f[S] /\ g[S] \in A
    BY <2>3
  <2>4. g \in [SUBSET (1..(k + 1)) -> A]
    <3>1. \A S \in SUBSET (1..(k + 1)) : g[S] \in A
      BY <2>2, <2>3
    <3> QED BY <3>1
  <2>5. ASSUME NEW S \in SUBSET (1..(k + 1))
        PROVE  g[S] = IF S = {} THEN base ELSE G[<<g[S \ {Max(S)}], Max(S)>>]
    <3>1. CASE k + 1 \in S
      <4>1. /\ Max(S) = k + 1 /\ S \ {k + 1} \in SUBSET (1..k)
            /\ g[S] = G[<<f[S \ {k + 1}], k + 1>>]
        BY <2>2, <3>1
      <4>2. g[S \ {k + 1}] = f[S \ {k + 1}]
        <5>1. S \ {k + 1} \in SUBSET (1..(k + 1)) /\ k + 1 \notin S \ {k + 1}
          OBVIOUS
        <5> HIDE DEF g
        <5> QED BY <2>3, <5>1
      <4> HIDE DEF g
      <4> QED BY <3>1, <4>1, <4>2
    <3>2. CASE k + 1 \notin S
      <4>1. S \in SUBSET (1..k) /\ g[S] = f[S]
        BY <2>3, <3>2
      <4>2. f[S] = IF S = {} THEN base ELSE G[<<f[S \ {Max(S)}], Max(S)>>]
        BY <2>1, <4>1
      <4>3. g[S \ {Max(S)}] = f[S \ {Max(S)}]
        <5>1. S \ {Max(S)} \in SUBSET (1..(k + 1)) /\ k + 1 \notin S \ {Max(S)}
          BY <3>2
        <5> HIDE DEF g
        <5> QED BY <2>3, <5>1
      <4> HIDE DEF g
      <4> QED BY <4>1, <4>2, <4>3
    <3> QED BY <3>1, <3>2
  <2> HIDE DEF g
  <2>6. Is(g, k + 1)
    BY <2>5
  <2>7. k + 1 \in 0..n
    OBVIOUS
  <2> HIDE DEF Is
  <2> QED BY <2>4, <2>6, <2>7
<1> HIDE DEF Done
<1>3. n \in Done
  <2>1. 0..n \subseteq Done
    BY <1>1, <1>2, UpTo
  <2> QED BY <2>1
<1> QED BY <1>3 DEF Done, IsFold

\* The same, as long as the folds are in A.
IsFoldIn(h, n, A, base, G) ==
  /\ h[{}] = base
  /\ \A S \in SUBSET (1..n) :
       S # {} /\ h[S \ {Max(S)}] \in A => h[S] = G[<<h[S \ {Max(S)}], Max(S)>>]

\* A step at position i takes what holds before it to what holds after it.
KeptBy(Inv, n, A, G) ==
  \A a \in A : \A i \in 1..n : <<a, i - 1>> \in Inv => <<G[<<a, i>>], i>> \in Inv

\* What holds of the base and is kept by every step holds of the fold.
LEMMA FoldInduction ==
  ASSUME NEW n \in Nat, NEW A, NEW base \in A, NEW G \in [A \X (1..n) -> A], NEW h,
         IsFoldIn(h, n, A, base, G), NEW Inv, <<base, 0>> \in Inv, KeptBy(Inv, n, A, G)
  PROVE  h[1..n] \in A /\ <<h[1..n], n>> \in Inv
<1> DEFINE Done == {i \in 0..n : h[1..i] \in A /\ <<h[1..i], i>> \in Inv}
<1>1. 0 \in Done
  <2>1. 1..0 = {} /\ 0 \in 0..n
    OBVIOUS
  <2> QED BY <2>1 DEF IsFoldIn
<1>2. ASSUME NEW k \in 0..(n - 1), k \in Done PROVE k + 1 \in Done
  <2>1. k + 1 \in 1..n /\ (k + 1) - 1 = k /\ k + 1 \in 0..n
    OBVIOUS
  <2>2. Max(1..(k + 1)) = k + 1 /\ (1..(k + 1)) \ {k + 1} = 1..k
    BY <2>1, LargestOfFirst
  <2>3. 1..(k + 1) \in SUBSET (1..n) /\ 1..(k + 1) # {}
    BY <2>1
  <2>4. h[1..k] \in A /\ <<h[1..k], k>> \in Inv
    BY <1>2
  <2>5. h[1..(k + 1)] = G[<<h[1..k], k + 1>>]
    BY <2>2, <2>3, <2>4 DEF IsFoldIn
  <2>6. G[<<h[1..k], k + 1>>] \in A
    BY <2>1, <2>4
  <2>7. <<G[<<h[1..k], k + 1>>], k + 1>> \in Inv
    BY <2>1, <2>4 DEF KeptBy
  <2> QED BY <2>1, <2>5, <2>6, <2>7
<1> HIDE DEF Done
<1>3. 0..n \subseteq Done
  BY <1>1, <1>2, UpTo
<1>4. n \in Done
  BY <1>3
<1> QED BY <1>4 DEF Done

\* The elements push_back was called for.
LEMMA OnlyInduction ==
  ASSUME NEW X, NEW seq \in Seq(X), NEW wanted, NEW Inv, <<<<>>, 0>> \in Inv,
         \A kept \in Seq(X) : \A i \in 1..Len(seq) : <<kept, i - 1>> \in Inv =>
           <<IF seq[i] \in wanted THEN Append(kept, seq[i]) ELSE kept, i>> \in Inv
  PROVE  Only(seq, wanted) \in Seq(X) /\ <<Only(seq, wanted), Len(seq)>> \in Inv
<1> DEFINE n == Len(seq)
           Step(kept, x) == IF x \in wanted THEN Append(kept, x) ELSE kept
           Is(f) == f = [S \in SUBSET (1..n) |->
                           IF S = {} THEN <<>> ELSE Step(f[S \ {Max(S)}], seq[Max(S)])]
           G == [p \in Seq(X) \X (1..n) |-> Step(p[1], seq[p[2]])]
           h == CHOOSE f : Is(f)
<1>1. n \in Nat /\ DOMAIN seq = 1..n /\ \A i \in 1..n : seq[i] \in X
  OBVIOUS
<1>2. Only(seq, wanted) = h[1..n]
  BY <1>1 DEF Only, FoldLeft, MapThenFoldSet
<1> HIDE DEF n, h
<1>3. G \in [Seq(X) \X (1..n) -> Seq(X)]
  BY <1>1
<1>4. \A a \in Seq(X) : \A i \in 1..n : G[<<a, i>>] = Step(a, seq[i])
  OBVIOUS
<1>5. \E f : Is(f)
  <2>1. PICK f \in [SUBSET (1..n) -> Seq(X)] : IsFold(f, n, <<>>, G)
    <3>1. <<>> \in Seq(X)
      OBVIOUS
    <3> HIDE DEF G
    <3> QED BY <1>1, <1>3, <3>1, FoldExists
  <2> HIDE DEF G
  <2>2. \A S \in SUBSET (1..n) : S # {} => S \ {Max(S)} \in SUBSET (1..n) /\ Max(S) \in 1..n
    BY <1>1, LargestOf
  <2>3. \A S \in SUBSET (1..n) :
          f[S] = IF S = {} THEN <<>> ELSE Step(f[S \ {Max(S)}], seq[Max(S)])
    BY <1>4, <2>1, <2>2 DEF IsFold
  <2> HIDE DEF Step
  <2>4. Is(f)
    BY <2>1, <2>3
  <2> QED BY <2>4
<1>6. Is(h)
  BY <1>5 DEF h
<1>7. IsFoldIn(h, n, Seq(X), <<>>, G)
  <2>1. \A S \in SUBSET (1..n) : S # {} => Max(S) \in 1..n
    BY <1>1, LargestOf
  <2> HIDE DEF G
  <2>2. \A S \in SUBSET (1..n) :
          S # {} /\ h[S \ {Max(S)}] \in Seq(X) => h[S] = G[<<h[S \ {Max(S)}], Max(S)>>]
    BY <1>4, <1>6, <2>1
  <2> QED BY <1>6, <2>2 DEF IsFoldIn
<1>8. KeptBy(Inv, n, Seq(X), G)
  <2> HIDE DEF G
  <2> QED BY <1>4 DEF n, KeptBy
<1> HIDE DEF G, Step, Is
<1>9. h[1..n] \in Seq(X) /\ <<h[1..n], n>> \in Inv
  <2>1. <<>> \in Seq(X)
    OBVIOUS
  <2> QED BY <1>1, <1>3, <1>7, <1>8, <2>1, FoldInduction
<1> QED BY <1>2, <1>9 DEF n


\* std::unique: a step drops an element equal to the one kept before it.
LEMMA UniqueInduction ==
  ASSUME NEW X, NEW seq \in Seq(X), NEW Inv, <<<<>>, 0>> \in Inv,
         \A kept \in Seq(X) : \A i \in 1..Len(seq) : <<kept, i - 1>> \in Inv =>
           <<IF kept # <<>> /\ Last(kept) = seq[i] THEN kept ELSE Append(kept, seq[i]), i>> \in Inv
  PROVE  Unique(seq) \in Seq(X) /\ <<Unique(seq), Len(seq)>> \in Inv
<1> DEFINE n == Len(seq)
           Step(kept, x) == IF kept # <<>> /\ Last(kept) = x THEN kept ELSE Append(kept, x)
           Is(f) == f = [S \in SUBSET (1..n) |->
                           IF S = {} THEN <<>> ELSE Step(f[S \ {Max(S)}], seq[Max(S)])]
           G == [p \in Seq(X) \X (1..n) |-> Step(p[1], seq[p[2]])]
           h == CHOOSE f : Is(f)
<1>1. n \in Nat /\ DOMAIN seq = 1..n /\ \A i \in 1..n : seq[i] \in X
  OBVIOUS
<1>2. Unique(seq) = h[1..n]
  BY <1>1 DEF Unique, FoldLeft, MapThenFoldSet
<1> HIDE DEF n, h
<1>3. G \in [Seq(X) \X (1..n) -> Seq(X)]
  BY <1>1
<1>4. \A a \in Seq(X) : \A i \in 1..n : G[<<a, i>>] = Step(a, seq[i])
  OBVIOUS
<1>5. \E f : Is(f)
  <2>1. PICK f \in [SUBSET (1..n) -> Seq(X)] : IsFold(f, n, <<>>, G)
    <3>1. <<>> \in Seq(X)
      OBVIOUS
    <3> HIDE DEF G
    <3> QED BY <1>1, <1>3, <3>1, FoldExists
  <2> HIDE DEF G
  <2>2. \A S \in SUBSET (1..n) : S # {} => S \ {Max(S)} \in SUBSET (1..n) /\ Max(S) \in 1..n
    BY <1>1, LargestOf
  <2> HIDE DEF Step
  <2>3. \A S \in SUBSET (1..n) :
          f[S] = IF S = {} THEN <<>> ELSE Step(f[S \ {Max(S)}], seq[Max(S)])
    BY <1>4, <2>1, <2>2 DEF IsFold
  <2>4. Is(f)
    BY <2>1, <2>3
  <2> QED BY <2>4
<1>6. Is(h)
  BY <1>5 DEF h
<1>7. IsFoldIn(h, n, Seq(X), <<>>, G)
  <2>1. \A S \in SUBSET (1..n) : S # {} => Max(S) \in 1..n
    BY <1>1, LargestOf
  <2> HIDE DEF G, Step
  <2>2. \A S \in SUBSET (1..n) :
          S # {} /\ h[S \ {Max(S)}] \in Seq(X) => h[S] = G[<<h[S \ {Max(S)}], Max(S)>>]
    BY <1>4, <1>6, <2>1
  <2> QED BY <1>6, <2>2 DEF IsFoldIn
<1>8. KeptBy(Inv, n, Seq(X), G)
  <2> HIDE DEF G
  <2> QED BY <1>4 DEF n, KeptBy
<1> HIDE DEF G, Step, Is
<1>9. h[1..n] \in Seq(X) /\ <<h[1..n], n>> \in Inv
  <2>1. <<>> \in Seq(X)
    OBVIOUS
  <2> QED BY <1>1, <1>3, <1>7, <1>8, <2>1, FoldInduction
<1> QED BY <1>2, <1>9 DEF n

\* A step adds an element unless it is there already.
LEMMA DistinctInduction ==
  ASSUME NEW X, NEW seq \in Seq(X), NEW Inv, <<<<>>, 0>> \in Inv,
         \A vec \in Seq(X) : \A i \in 1..Len(seq) : <<vec, i - 1>> \in Inv =>
           <<IF seq[i] \in ToSet(vec) THEN vec ELSE Append(vec, seq[i]), i>> \in Inv
  PROVE  Distinct(seq) \in Seq(X) /\ <<Distinct(seq), Len(seq)>> \in Inv
<1> DEFINE n == Len(seq)
           Step(vec, x) == IF x \in ToSet(vec) THEN vec ELSE Append(vec, x)
           Is(f) == f = [S \in SUBSET (1..n) |->
                           IF S = {} THEN <<>> ELSE Step(f[S \ {Max(S)}], seq[Max(S)])]
           G == [p \in Seq(X) \X (1..n) |-> Step(p[1], seq[p[2]])]
           h == CHOOSE f : Is(f)
<1>1. n \in Nat /\ DOMAIN seq = 1..n /\ \A i \in 1..n : seq[i] \in X
  OBVIOUS
<1>2. Distinct(seq) = h[1..n]
  BY <1>1 DEF Distinct, FoldLeft, MapThenFoldSet
<1> HIDE DEF n, h
<1>3. G \in [Seq(X) \X (1..n) -> Seq(X)]
  BY <1>1
<1>4. \A a \in Seq(X) : \A i \in 1..n : G[<<a, i>>] = Step(a, seq[i])
  OBVIOUS
<1>5. \E f : Is(f)
  <2>1. PICK f \in [SUBSET (1..n) -> Seq(X)] : IsFold(f, n, <<>>, G)
    <3>1. <<>> \in Seq(X)
      OBVIOUS
    <3> HIDE DEF G
    <3> QED BY <1>1, <1>3, <3>1, FoldExists
  <2> HIDE DEF G
  <2>2. \A S \in SUBSET (1..n) : S # {} => S \ {Max(S)} \in SUBSET (1..n) /\ Max(S) \in 1..n
    BY <1>1, LargestOf
  <2> HIDE DEF Step
  <2>3. \A S \in SUBSET (1..n) :
          f[S] = IF S = {} THEN <<>> ELSE Step(f[S \ {Max(S)}], seq[Max(S)])
    BY <1>4, <2>1, <2>2 DEF IsFold
  <2>4. Is(f)
    BY <2>1, <2>3
  <2> QED BY <2>4
<1>6. Is(h)
  BY <1>5 DEF h
<1>7. IsFoldIn(h, n, Seq(X), <<>>, G)
  <2>1. \A S \in SUBSET (1..n) : S # {} => Max(S) \in 1..n
    BY <1>1, LargestOf
  <2> HIDE DEF G, Step
  <2>2. \A S \in SUBSET (1..n) :
          S # {} /\ h[S \ {Max(S)}] \in Seq(X) => h[S] = G[<<h[S \ {Max(S)}], Max(S)>>]
    BY <1>4, <1>6, <2>1
  <2> QED BY <1>6, <2>2 DEF IsFoldIn
<1>8. KeptBy(Inv, n, Seq(X), G)
  <2> HIDE DEF G
  <2> QED BY <1>4 DEF n, KeptBy
<1> HIDE DEF G, Step, Is
<1>9. h[1..n] \in Seq(X) /\ <<h[1..n], n>> \in Inv
  <2>1. <<>> \in Seq(X)
    OBVIOUS
  <2> QED BY <1>1, <1>3, <1>7, <1>8, <2>1, FoldInduction
<1> QED BY <1>2, <1>9 DEF n

\* Where the insertion sort puts x into a sorted part.
Inserted(done, x, less) ==
  IF done = <<>> \/ <<x, done[1]>> \in less THEN <<x>> \o done
  ELSE InsertAt(done, 1 + Max({p \in DOMAIN done : <<x, done[p]>> \notin less}), x)

\* s is done with x behind the first k elements.
InsertedBehind(s, done, x, k) ==
  /\ Len(s) = Len(done) + 1
  /\ \A i \in 1..k : s[i] = done[i]
  /\ s[k + 1] = x
  /\ \A i \in (k + 1)..Len(done) : s[i + 1] = done[i]

\* The position after the last element that x does not precede, or the first one.
PlaceOf(k, done, x, less) ==
  /\ k \in 0..Len(done)
  /\ k = 0 => done = <<>> \/ <<x, done[1]>> \in less
  /\ k # 0 => /\ <<x, done[k]>> \notin less
              /\ \A i \in (k + 1)..Len(done) : <<x, done[i]>> \in less

\* A concatenation by positions.
Concatenated(s, a, b) ==
  /\ Len(s) = Len(a) + Len(b)
  /\ \A i \in 1..Len(a) : s[i] = a[i]
  /\ \A i \in 1..Len(b) : s[Len(a) + i] = b[i]

\* Two lists, one after the other.
LEMMA ConcatFacts ==
  ASSUME NEW X, NEW a \in Seq(X), NEW b \in Seq(X)
  PROVE  a \o b \in Seq(X) /\ Concatenated(a \o b, a, b)
BY DEF Concatenated

\* InsertAt by positions.
LEMMA InsertAtFacts ==
  ASSUME NEW X, NEW done \in Seq(X), NEW x \in X, NEW k \in 0..Len(done), NEW s,
         s = SubSeq(done, 1, k) \o <<x>> \o SubSeq(done, k + 1, Len(done))
  PROVE  s \in Seq(X) /\ InsertedBehind(s, done, x, k)
<1> DEFINE a == SubSeq(done, 1, k)
           b == SubSeq(done, k + 1, Len(done))
           n == Len(done)
<1>1. n \in Nat /\ DOMAIN done = 1..n /\ k \in 0..n
  OBVIOUS
<1>2. a \in Seq(X) /\ Len(a) = k /\ \A i \in 1..k : a[i] = done[i]
  OBVIOUS
<1>3. b \in Seq(X) /\ Len(b) = n - k /\ \A i \in 1..(n - k) : b[i] = done[k + i]
  OBVIOUS
<1> DEFINE c == a \o <<x>>
<1>5. s = c \o b
  OBVIOUS
<1> HIDE DEF a, b, n
<1>4. /\ c \in Seq(X) /\ Len(c) = k + 1 /\ c[k + 1] = x /\ \A i \in 1..k : c[i] = done[i]
  BY <1>1, <1>2
<1> HIDE DEF c
<1>6. /\ s \in Seq(X) /\ Len(s) = Len(c) + Len(b)
      /\ \A i \in 1..Len(c) : s[i] = c[i]
      /\ \A i \in 1..Len(b) : s[Len(c) + i] = b[i]
  <2>1. s \in Seq(X) /\ Concatenated(s, c, b)
    BY ONLY <1>3, <1>4, <1>5, ConcatFacts
  <2> QED BY <2>1 DEF Concatenated
<1>7. Len(c) = k + 1 /\ Len(b) = n - k
  BY <1>3, <1>4
<1>9. Len(s) = n + 1
  BY ONLY <1>1, <1>6, <1>7
<1>10. ASSUME NEW i \in (k + 1)..n PROVE s[i + 1] = done[i]
  <2> DEFINE m == i - k
  <2>1. m \in 1..Len(b) /\ Len(c) + m = i + 1 /\ k + m = i
    BY <1>1, <1>3, <1>4
  <2> HIDE DEF m
  <2>2. s[Len(c) + m] = b[m] /\ b[m] = done[k + m]
    BY <1>3, <1>6, <2>1
  <2> QED BY <2>1, <2>2
<1>11. 1..k \subseteq 1..Len(c) /\ k + 1 \in 1..Len(c)
  BY <1>1, <1>4
<1>12. s[k + 1] = x /\ \A i \in 1..k : s[i] = done[i]
  BY <1>4, <1>6, <1>11
<1> QED BY <1>6, <1>9, <1>10, <1>12 DEF n, InsertedBehind

\* An insertion by positions.
LEMMA InsertedFacts ==
  ASSUME NEW X, NEW done \in Seq(X), NEW x \in X, NEW less
  PROVE  /\ Inserted(done, x, less) \in Seq(X)
         /\ \E k : /\ PlaceOf(k, done, x, less)
                   /\ InsertedBehind(Inserted(done, x, less), done, x, k)
<1> DEFINE n == Len(done)
           P == {p \in DOMAIN done : <<x, done[p]>> \notin less}
<1>1. n \in Nat /\ DOMAIN done = 1..n
  OBVIOUS
<1>2. CASE done = <<>> \/ <<x, done[1]>> \in less
  <2>1. Inserted(done, x, less) = <<x>> \o done
    BY <1>2 DEF Inserted
  <2>2. SubSeq(done, 1, 0) = <<>> /\ SubSeq(done, 0 + 1, n) = done
    BY <1>1
  <2>3. <<>> \o <<x>> = <<x>>
    OBVIOUS
  <2>4. 0 \in 0..n
    BY <1>1
  <2>5. PlaceOf(0, done, x, less)
    BY <1>2, <2>4 DEF PlaceOf
  <2>6. Inserted(done, x, less) = SubSeq(done, 1, 0) \o <<x>> \o SubSeq(done, 0 + 1, n)
    BY <2>1, <2>2, <2>3
  <2> QED BY <2>4, <2>5, <2>6, InsertAtFacts
<1>3. CASE done # <<>> /\ <<x, done[1]>> \notin less
  <2>1. P \in SUBSET (1..n) /\ P # {}
    BY <1>1, <1>3
  <2>2. Max(P) \in P /\ \A p \in P : p <= Max(P)
    BY <1>1, <2>1, LargestOf
  <2> DEFINE k == Max(P)
  <2>3. Inserted(done, x, less) = InsertAt(done, 1 + k, x)
    BY <1>3 DEF Inserted
  <2> HIDE DEF P
  <2>4. k \in 1..n
    BY <2>1, <2>2
  <2> HIDE DEF k
  <2>5. (1 + k) - 1 = k /\ 1 + k = k + 1 /\ k \in 0..n /\ k # 0
    BY <1>1, <2>4
  <2>6. InsertAt(done, 1 + k, x) = SubSeq(done, 1, k) \o <<x>> \o SubSeq(done, k + 1, n)
    BY <2>5 DEF InsertAt
  <2>7. <<x, done[k]>> \notin less
    BY <2>2 DEF k, P
  <2>8. ASSUME NEW i \in (k + 1)..n, <<x, done[i]>> \notin less PROVE FALSE
    <3>1. i \in P
      BY <1>1, <2>4, <2>8 DEF P
    <3>2. i <= k
      BY <2>2, <3>1 DEF k
    <3> QED BY <2>4, <2>8, <3>2
  <2>9. PlaceOf(k, done, x, less)
    BY <2>5, <2>7, <2>8 DEF PlaceOf
  <2> QED BY <2>3, <2>5, <2>6, <2>9, InsertAtFacts
<1> QED BY <1>2, <1>3

\* std::sort: a step inserts an element.
LEMMA SortedInduction ==
  ASSUME NEW X, NEW seq \in Seq(X), NEW less, NEW Inv, <<<<>>, 0>> \in Inv,
         \A done \in Seq(X) : \A i \in 1..Len(seq) : <<done, i - 1>> \in Inv =>
           <<Inserted(done, seq[i], less), i>> \in Inv
  PROVE  Sorted(seq, less) \in Seq(X) /\ <<Sorted(seq, less), Len(seq)>> \in Inv
<1> DEFINE n == Len(seq)
           Step(done, x) == Inserted(done, x, less)
           Is(f) == f = [S \in SUBSET (1..n) |->
                           IF S = {} THEN <<>> ELSE Step(f[S \ {Max(S)}], seq[Max(S)])]
           G == [p \in Seq(X) \X (1..n) |-> Step(p[1], seq[p[2]])]
           h == CHOOSE f : Is(f)
<1>1. n \in Nat /\ DOMAIN seq = 1..n /\ \A i \in 1..n : seq[i] \in X
  OBVIOUS
<1>2. Sorted(seq, less) = h[1..n]
  BY <1>1 DEF Sorted, Inserted, FoldLeft, MapThenFoldSet
<1> HIDE DEF n, h
<1>3. G \in [Seq(X) \X (1..n) -> Seq(X)]
  <2>1. \A done \in Seq(X) : \A x \in X : Inserted(done, x, less) \in Seq(X)
    BY InsertedFacts
  <2> QED BY <1>1, <2>1
<1>4. \A a \in Seq(X) : \A i \in 1..n : G[<<a, i>>] = Step(a, seq[i])
  OBVIOUS
<1>5. \E f : Is(f)
  <2>1. PICK f \in [SUBSET (1..n) -> Seq(X)] : IsFold(f, n, <<>>, G)
    <3>1. <<>> \in Seq(X)
      OBVIOUS
    <3> HIDE DEF G
    <3> QED BY <1>1, <1>3, <3>1, FoldExists
  <2> HIDE DEF G
  <2>2. \A S \in SUBSET (1..n) : S # {} => S \ {Max(S)} \in SUBSET (1..n) /\ Max(S) \in 1..n
    BY <1>1, LargestOf
  <2> HIDE DEF Step
  <2>3. \A S \in SUBSET (1..n) :
          f[S] = IF S = {} THEN <<>> ELSE Step(f[S \ {Max(S)}], seq[Max(S)])
    BY <1>4, <2>1, <2>2 DEF IsFold
  <2>4. Is(f)
    BY <2>1, <2>3
  <2> QED BY <2>4
<1>6. Is(h)
  BY <1>5 DEF h
<1>7. IsFoldIn(h, n, Seq(X), <<>>, G)
  <2>1. \A S \in SUBSET (1..n) : S # {} => Max(S) \in 1..n
    BY <1>1, LargestOf
  <2> HIDE DEF G, Step
  <2>2. \A S \in SUBSET (1..n) :
          S # {} /\ h[S \ {Max(S)}] \in Seq(X) => h[S] = G[<<h[S \ {Max(S)}], Max(S)>>]
    BY <1>4, <1>6, <2>1
  <2> QED BY <1>6, <2>2 DEF IsFoldIn
<1>8. KeptBy(Inv, n, Seq(X), G)
  <2> HIDE DEF G
  <2> QED BY <1>4 DEF n, KeptBy
<1> HIDE DEF G, Step, Is
<1>9. h[1..n] \in Seq(X) /\ <<h[1..n], n>> \in Inv
  <2>1. <<>> \in Seq(X)
    OBVIOUS
  <2> QED BY <1>1, <1>3, <1>7, <1>8, <2>1, FoldInduction
<1> QED BY <1>2, <1>9 DEF n

\* What the first i elements of a list contribute.
FirstOf(seq, i, wanted) == {seq[j] : j \in 1..i} \intersect wanted

\* One more element.
LEMMA FirstOfNext ==
  ASSUME NEW X, NEW seq \in Seq(X), NEW i \in 1..Len(seq), NEW wanted
  PROVE  /\ i - 1 \in 0..Len(seq) /\ seq[i] \in X
         /\ FirstOf(seq, i, wanted) = IF seq[i] \in wanted
                                      THEN FirstOf(seq, i - 1, wanted) \union {seq[i]}
                                      ELSE FirstOf(seq, i - 1, wanted)
<1>1. 1..i = 1..(i - 1) \union {i}
  OBVIOUS
<1> QED BY <1>1 DEF FirstOf

\* All of them, and none.
LEMMA FirstOfAll ==
  ASSUME NEW X, NEW seq \in Seq(X), NEW wanted
  PROVE  /\ FirstOf(seq, Len(seq), wanted) = ToSet(seq) \intersect wanted
         /\ FirstOf(seq, 0, wanted) = {} /\ 0 \in 0..Len(seq)
<1>1. 1..0 = {} /\ DOMAIN seq = 1..Len(seq)
  OBVIOUS
<1> QED BY <1>1 DEF FirstOf, ToSet

\* push_back.
LEMMA AppendFacts ==
  ASSUME NEW X, NEW s \in Seq(X), NEW x \in X
  PROVE  Append(s, x) \in Seq(X) /\ ToSet(Append(s, x)) = ToSet(s) \union {x}
<1>1. /\ DOMAIN s = 1..Len(s) /\ DOMAIN Append(s, x) = 1..(Len(s) + 1)
      /\ Append(s, x)[Len(s) + 1] = x /\ \A i \in 1..Len(s) : Append(s, x)[i] = s[i]
      /\ Len(s) \in Nat
  OBVIOUS
<1>2. 1..(Len(s) + 1) = 1..Len(s) \union {Len(s) + 1}
  BY <1>1
<1> HIDE <1>1
<1> QED BY <1>1, <1>2 DEF ToSet

\* Only keeps the wanted elements.
LEMMA OnlyFacts ==
  ASSUME NEW X, NEW seq \in Seq(X), NEW wanted
  PROVE  Only(seq, wanted) \in Seq(X) /\ ToSet(Only(seq, wanted)) = ToSet(seq) \intersect wanted
<1> DEFINE Inv == {p \in Seq(X) \X (0..Len(seq)) : ToSet(p[1]) = FirstOf(seq, p[2], wanted)}
<1>1. <<<<>>, 0>> \in Inv
  <2>1. FirstOf(seq, 0, wanted) = {} /\ 0 \in 0..Len(seq)
    BY FirstOfAll
  <2>2. ToSet(<<>>) = {} /\ <<>> \in Seq(X)
    BY DEF ToSet
  <2> QED BY <2>1, <2>2
<1>2. ASSUME NEW kept \in Seq(X), NEW i \in 1..Len(seq), <<kept, i - 1>> \in Inv
      PROVE  <<IF seq[i] \in wanted THEN Append(kept, seq[i]) ELSE kept, i>> \in Inv
  <2>1. /\ seq[i] \in X /\ i \in 0..Len(seq)
        /\ FirstOf(seq, i, wanted) = IF seq[i] \in wanted
                                     THEN FirstOf(seq, i - 1, wanted) \union {seq[i]}
                                     ELSE FirstOf(seq, i - 1, wanted)
    BY FirstOfNext
  <2>2. ToSet(kept) = FirstOf(seq, i - 1, wanted)
    BY <1>2
  <2>3. Append(kept, seq[i]) \in Seq(X) /\ ToSet(Append(kept, seq[i])) = ToSet(kept) \union {seq[i]}
    BY <2>1, AppendFacts
  <2> QED BY <2>1, <2>2, <2>3
<1> HIDE DEF Inv
<1>3. Only(seq, wanted) \in Seq(X) /\ <<Only(seq, wanted), Len(seq)>> \in Inv
  BY <1>1, <1>2, OnlyInduction
<1>4. FirstOf(seq, Len(seq), wanted) = ToSet(seq) \intersect wanted
  BY FirstOfAll
<1> QED BY <1>3, <1>4 DEF Inv

\* Distinct keeps every element.
LEMMA DistinctFacts ==
  ASSUME NEW X, NEW seq \in Seq(X)
  PROVE  Distinct(seq) \in Seq(X) /\ ToSet(Distinct(seq)) = ToSet(seq)
<1> DEFINE Inv == {p \in Seq(X) \X (0..Len(seq)) : ToSet(p[1]) = FirstOf(seq, p[2], X)}
<1>1. <<<<>>, 0>> \in Inv
  <2>1. FirstOf(seq, 0, X) = {} /\ 0 \in 0..Len(seq)
    BY FirstOfAll
  <2>2. ToSet(<<>>) = {} /\ <<>> \in Seq(X)
    BY DEF ToSet
  <2> QED BY <2>1, <2>2
<1>2. ASSUME NEW vec \in Seq(X), NEW i \in 1..Len(seq), <<vec, i - 1>> \in Inv
      PROVE  <<IF seq[i] \in ToSet(vec) THEN vec ELSE Append(vec, seq[i]), i>> \in Inv
  <2>1. /\ seq[i] \in X /\ i \in 0..Len(seq)
        /\ FirstOf(seq, i, X) = FirstOf(seq, i - 1, X) \union {seq[i]}
    BY FirstOfNext
  <2>2. ToSet(vec) = FirstOf(seq, i - 1, X)
    BY <1>2
  <2>3. Append(vec, seq[i]) \in Seq(X) /\ ToSet(Append(vec, seq[i])) = ToSet(vec) \union {seq[i]}
    BY <2>1, AppendFacts
  <2> QED BY <2>1, <2>2, <2>3
<1> HIDE DEF Inv
<1>3. Distinct(seq) \in Seq(X) /\ <<Distinct(seq), Len(seq)>> \in Inv
  BY <1>1, <1>2, DistinctInduction
<1>4. ToSet(seq) \intersect X = ToSet(seq)
  BY DEF ToSet
<1>5. FirstOf(seq, Len(seq), X) = ToSet(seq) \intersect X
  BY FirstOfAll
<1> QED BY <1>3, <1>4, <1>5 DEF Inv

\* So does Unique.
LEMMA UniqueFacts ==
  ASSUME NEW X, NEW seq \in Seq(X)
  PROVE  Unique(seq) \in Seq(X) /\ ToSet(Unique(seq)) = ToSet(seq)
<1> DEFINE Inv == {p \in Seq(X) \X (0..Len(seq)) : ToSet(p[1]) = FirstOf(seq, p[2], X)}
<1>1. <<<<>>, 0>> \in Inv
  <2>1. FirstOf(seq, 0, X) = {} /\ 0 \in 0..Len(seq)
    BY FirstOfAll
  <2>2. ToSet(<<>>) = {} /\ <<>> \in Seq(X)
    BY DEF ToSet
  <2> QED BY <2>1, <2>2
<1>2. ASSUME NEW kept \in Seq(X), NEW i \in 1..Len(seq), <<kept, i - 1>> \in Inv
      PROVE  <<IF kept # <<>> /\ Last(kept) = seq[i] THEN kept ELSE Append(kept, seq[i]),
                 i>> \in Inv
  <2>1. /\ seq[i] \in X /\ i \in 0..Len(seq)
        /\ FirstOf(seq, i, X) = FirstOf(seq, i - 1, X) \union {seq[i]}
    BY FirstOfNext
  <2>2. ToSet(kept) = FirstOf(seq, i - 1, X)
    BY <1>2
  <2>3. Append(kept, seq[i]) \in Seq(X) /\ ToSet(Append(kept, seq[i])) = ToSet(kept) \union {seq[i]}
    BY <2>1, AppendFacts
  <2>4. kept # <<>> => Last(kept) \in ToSet(kept)
    BY DEF ToSet, Last
  <2> QED BY <2>1, <2>2, <2>3, <2>4
<1> HIDE DEF Inv
<1>3. Unique(seq) \in Seq(X) /\ <<Unique(seq), Len(seq)>> \in Inv
  BY <1>1, <1>2, UniqueInduction
<1>4. ToSet(seq) \intersect X = ToSet(seq)
  BY DEF ToSet
<1>5. FirstOf(seq, Len(seq), X) = ToSet(seq) \intersect X
  BY FirstOfAll
<1> QED BY <1>3, <1>4, <1>5 DEF Inv

\* An insertion adds its element.
LEMMA InsertedSet ==
  ASSUME NEW X, NEW done \in Seq(X), NEW x \in X, NEW less
  PROVE  /\ Inserted(done, x, less) \in Seq(X)
         /\ ToSet(Inserted(done, x, less)) = ToSet(done) \union {x}
<1> DEFINE s == Inserted(done, x, less)
           n == Len(done)
<1>1. s \in Seq(X)
  BY InsertedFacts
<1>2. PICK k : PlaceOf(k, done, x, less) /\ InsertedBehind(s, done, x, k)
  BY InsertedFacts
<1>3. /\ n \in Nat /\ k \in 0..n /\ Len(s) = n + 1
      /\ \A i \in 1..k : s[i] = done[i]
      /\ s[k + 1] = x
      /\ \A i \in (k + 1)..n : s[i + 1] = done[i]
  BY <1>2 DEF PlaceOf, InsertedBehind
<1>4. DOMAIN s = 1..(n + 1) /\ DOMAIN done = 1..n
  BY <1>1, <1>3
<1> HIDE DEF s, n
<1>5. ASSUME NEW y \in ToSet(s) PROVE y \in ToSet(done) \union {x}
  <2>1. PICK j \in 1..(n + 1) : y = s[j]
    BY <1>4, <1>5 DEF ToSet
  <2>2. CASE j \in 1..k
    BY <1>3, <1>4, <2>1, <2>2 DEF ToSet
  <2>3. CASE j = k + 1
    BY <1>3, <2>1, <2>3
  <2>4. CASE j > k + 1
    <3>1. j - 1 \in (k + 1)..n /\ (j - 1) + 1 = j /\ j - 1 \in 1..n
      BY <1>3, <2>1, <2>4
    <3>2. y = done[j - 1]
      BY <1>3, <2>1, <3>1
    <3> QED BY <1>4, <3>1, <3>2 DEF ToSet
  <2> QED BY <1>3, <2>1, <2>2, <2>3, <2>4
<1>6. ASSUME NEW y \in ToSet(done) PROVE y \in ToSet(s)
  <2>1. PICK j \in 1..n : y = done[j]
    BY <1>4, <1>6 DEF ToSet
  <2>2. CASE j <= k
    <3>1. j \in 1..k /\ j \in 1..(n + 1)
      BY <1>3, <2>1, <2>2
    <3> QED BY <1>3, <1>4, <2>1, <3>1 DEF ToSet
  <2>3. CASE j > k
    <3>1. j \in (k + 1)..n /\ j + 1 \in 1..(n + 1)
      BY <1>3, <2>1, <2>3
    <3> QED BY <1>3, <1>4, <2>1, <3>1 DEF ToSet
  <2> QED BY <1>3, <2>1, <2>2, <2>3
<1>7. x \in ToSet(s)
  <2>1. k + 1 \in 1..(n + 1)
    BY <1>3
  <2> QED BY <1>3, <1>4, <2>1 DEF ToSet
<1>8. ToSet(s) = ToSet(done) \union {x}
  BY <1>5, <1>6, <1>7
<1> QED BY <1>1, <1>8 DEF s

\* Sorting keeps the elements.
LEMMA SortedFacts ==
  ASSUME NEW X, NEW seq \in Seq(X), NEW less
  PROVE  Sorted(seq, less) \in Seq(X) /\ ToSet(Sorted(seq, less)) = ToSet(seq)
<1> DEFINE Inv == {p \in Seq(X) \X (0..Len(seq)) : ToSet(p[1]) = FirstOf(seq, p[2], X)}
<1>1. <<<<>>, 0>> \in Inv
  <2>1. FirstOf(seq, 0, X) = {} /\ 0 \in 0..Len(seq)
    BY FirstOfAll
  <2>2. ToSet(<<>>) = {} /\ <<>> \in Seq(X)
    BY DEF ToSet
  <2> QED BY <2>1, <2>2
<1>2. ASSUME NEW done \in Seq(X), NEW i \in 1..Len(seq), <<done, i - 1>> \in Inv
      PROVE  <<Inserted(done, seq[i], less), i>> \in Inv
  <2>1. /\ seq[i] \in X /\ i \in 0..Len(seq)
        /\ FirstOf(seq, i, X) = FirstOf(seq, i - 1, X) \union {seq[i]}
    BY FirstOfNext
  <2>2. ToSet(done) = FirstOf(seq, i - 1, X)
    BY <1>2
  <2>3. /\ Inserted(done, seq[i], less) \in Seq(X)
        /\ ToSet(Inserted(done, seq[i], less)) = ToSet(done) \union {seq[i]}
    BY <2>1, InsertedSet
  <2> QED BY <2>1, <2>2, <2>3
<1> HIDE DEF Inv
<1>3. Sorted(seq, less) \in Seq(X) /\ <<Sorted(seq, less), Len(seq)>> \in Inv
  BY <1>1, <1>2, SortedInduction
<1>4. ToSet(seq) \intersect X = ToSet(seq)
  BY DEF ToSet
<1>5. FirstOf(seq, Len(seq), X) = ToSet(seq) \intersect X
  BY FirstOfAll
<1> QED BY <1>3, <1>4, <1>5 DEF Inv

(***************************************************************************)
(* The operand of an operation.                                            *)
(***************************************************************************)
\* What get_parent_vset(vset, dep) finds so far, after looking at one more operation.
Closer(best, p, op) ==
  IF IsSuperset(p, op) /\ p.id # op.id /\ (best = None \/ IsSuperset(best, p)) THEN p ELSE best

\* Its loop over the operations.
LEMMA PrefixParentInduction ==
  ASSUME NEW d, NEW op, op.dep # 0, set_ops[d] \in Seq(Ops), NEW Inv, <<None, 0>> \in Inv,
         \A best \in Ops \union {None} : \A i \in 1..Len(set_ops[d]) :
           <<best, i - 1>> \in Inv => <<Closer(best, set_ops[d][i], op), i>> \in Inv
  PROVE  <<PrefixParent(op, d), Len(set_ops[d])>> \in Inv
<1> DEFINE seq == set_ops[d]
           n == Len(seq)
           A == Ops \union {None}
           Step(best, x) == Closer(best, x, op)
           Is(f) == f = [S \in SUBSET (1..n) |->
                           IF S = {} THEN None ELSE Step(f[S \ {Max(S)}], seq[Max(S)])]
           G == [p \in A \X (1..n) |-> Step(p[1], seq[p[2]])]
           h == CHOOSE f : Is(f)
<1>1. n \in Nat /\ DOMAIN seq = 1..n /\ \A i \in 1..n : seq[i] \in Ops
  OBVIOUS
<1>2. PrefixParent(op, d) = h[1..n]
  BY <1>1 DEF PrefixParent, Closer, FoldLeft, MapThenFoldSet
<1> HIDE DEF n, h
<1>3. G \in [A \X (1..n) -> A]
  BY <1>1 DEF Closer
<1>4. \A a \in A : \A i \in 1..n : G[<<a, i>>] = Step(a, seq[i])
  OBVIOUS
<1> HIDE DEF seq
<1>5. \E f : Is(f)
  <2>1. PICK f \in [SUBSET (1..n) -> A] : IsFold(f, n, None, G)
    <3> HIDE DEF G
    <3> QED BY <1>1, <1>3, FoldExists
  <2> HIDE DEF G
  <2>2. \A S \in SUBSET (1..n) : S # {} => S \ {Max(S)} \in SUBSET (1..n) /\ Max(S) \in 1..n
    BY <1>1, LargestOf
  <2> HIDE DEF Step
  <2>3. \A S \in SUBSET (1..n) :
          f[S] = IF S = {} THEN None ELSE Step(f[S \ {Max(S)}], seq[Max(S)])
    BY <1>4, <2>1, <2>2 DEF IsFold
  <2>4. Is(f)
    BY <2>1, <2>3
  <2> QED BY <2>4
<1>6. Is(h)
  BY <1>5 DEF h
<1>7. IsFoldIn(h, n, A, None, G)
  <2>1. \A S \in SUBSET (1..n) : S # {} => Max(S) \in 1..n
    BY <1>1, LargestOf
  <2> HIDE DEF G, Step
  <2>2. \A S \in SUBSET (1..n) :
          S # {} /\ h[S \ {Max(S)}] \in A => h[S] = G[<<h[S \ {Max(S)}], Max(S)>>]
    BY <1>4, <1>6, <2>1
  <2> QED BY <1>6, <2>2 DEF IsFoldIn
<1>8. KeptBy(Inv, n, A, G)
  <2> HIDE DEF G
  <2> QED BY <1>4 DEF n, seq, KeptBy
<1> HIDE DEF G, Step, Is
<1>9. <<h[1..n], n>> \in Inv
  <2>1. None \in A
    OBVIOUS
  <2> HIDE DEF A
  <2> QED BY <1>1, <1>3, <1>7, <1>8, <2>1, FoldInduction
<1> QED BY <1>2, <1>9 DEF n, seq

\* The set of the same operation after loop d.
Exact(p, op, d) ==
  p.dep = d /\ p.edges = op.edges \intersect 0..d /\ p.restricts = op.restricts \intersect 0..d

\* It is the smallest set of the loop that contains the one of the operation.
LEMMA ExactIsSmallest ==
  ASSUME NEW d \in Nat, NEW op \in Ops, d < op.dep, NEW p, Exact(p, op, d)
  PROVE  /\ IsSuperset(p, op)
         /\ \A q \in Ops : OpOK(q, d) /\ IsSuperset(q, op) => IsSuperset(q, p)
         /\ \A q \in Ops : OpOK(q, d) /\ IsSuperset(q, op) /\ IsSuperset(p, q) => Exact(q, op, d)
<1>1. op.dep \in Nat /\ op.edges \subseteq Nat /\ op.restricts \subseteq Nat
  BY DEF Ops
<1>2. p.dep = d /\ p.edges = op.edges \intersect 0..d /\ p.restricts = op.restricts \intersect 0..d
  BY DEF Exact
<1>3. IsSuperset(p, op)
  BY <1>1, <1>2 DEF IsSuperset
<1>4. ASSUME NEW q \in Ops, OpOK(q, d), IsSuperset(q, op)
      PROVE  IsSuperset(q, p) /\ (IsSuperset(p, q) => Exact(q, op, d))
  <2>1. /\ q.dep = d /\ q.edges \subseteq 0..d /\ q.restricts \subseteq 0..d
        /\ q.restricts \subseteq op.restricts
        /\ IF Vertex THEN q.edges = op.edges \intersect 0..d ELSE q.edges \subseteq op.edges
    BY <1>4 DEF OpOK, IsSuperset
  <2>2. q.restricts \subseteq p.restricts /\ q.edges \subseteq p.edges
        /\ (Vertex => q.edges = p.edges /\ p.edges = p.edges \intersect 0..d)
    BY <1>2, <2>1
  <2>3. IsSuperset(q, p)
    BY <1>2, <2>1, <2>2 DEF IsSuperset
  <2>4. ASSUME IsSuperset(p, q) PROVE Exact(q, op, d)
    <3>1. p.restricts \subseteq q.restricts /\ p.edges \subseteq q.edges
      BY <1>2, <2>1, <2>2, <2>4 DEF IsSuperset
    <3> QED BY <1>2, <2>1, <2>2, <3>1 DEF Exact
  <2> QED BY <2>3, <2>4
<1> QED BY <1>3, <1>4

\* The operations of a loop another one can look for its operand in.
Among(d, op) ==
  /\ d \in Nat /\ d < op.dep /\ set_ops[d] \in Seq(Ops)
  /\ \A x \in ToSet(set_ops[d]) : OpOK(x, d) /\ x.id # op.id

\* What get_parent_vset(vset, dep) returns contains the set, and is the set of the same
\* operation if the loop has it.
LEMMA PrefixParentFacts ==
  ASSUME NEW d, NEW op \in Ops, Among(d, op)
  PROVE  /\ \/ PrefixParent(op, d) = None
            \/ /\ PrefixParent(op, d) \in ToSet(set_ops[d])
               /\ IsSuperset(PrefixParent(op, d), op)
         /\ (\E x \in ToSet(set_ops[d]) : Exact(x, op, d)) =>
               PrefixParent(op, d) # None /\ Exact(PrefixParent(op, d), op, d)
<1> DEFINE S == ToSet(set_ops[d])
           n == Len(set_ops[d])
           Found(b) == b = None \/ (b \in S /\ IsSuperset(b, op))
<1>1. /\ d \in Nat /\ op.dep \in Nat /\ op.dep # 0 /\ d < op.dep /\ set_ops[d] \in Seq(Ops)
      /\ n \in Nat /\ DOMAIN set_ops[d] = 1..n
  BY DEF Among, Ops
<1>2. \A x \in S : x \in Ops /\ OpOK(x, d) /\ x.id # op.id /\ x # None
  <2>1. \A x \in S : x \in Ops
    BY <1>1 DEF ToSet
  <2> QED BY <2>1 DEF Among, Ops, None
<1>3. \A i \in 1..n : set_ops[d][i] \in S
  BY <1>1 DEF ToSet
<1>4. Found(PrefixParent(op, d))
  <2> DEFINE Inv == {p \in (Ops \union {None}) \X (0..n) : Found(p[1])}
  <2>1. <<None, 0>> \in Inv
    BY <1>1
  <2>2. ASSUME NEW b \in Ops \union {None}, NEW i \in 1..n, <<b, i - 1>> \in Inv
        PROVE  <<Closer(b, set_ops[d][i], op), i>> \in Inv
    BY <1>2, <1>3, <2>2 DEF Closer
  <2> HIDE DEF Inv
  <2>3. <<PrefixParent(op, d), n>> \in Inv
    BY <1>1, <2>1, <2>2, PrefixParentInduction
  <2> QED BY <2>3 DEF Inv
<1>5. ASSUME NEW x \in S, Exact(x, op, d)
      PROVE  PrefixParent(op, d) # None /\ Exact(PrefixParent(op, d), op, d)
  <2>1. PICK j \in 1..n : set_ops[d][j] = x
    BY <1>1 DEF ToSet
  <2> DEFINE Met(b) == b # None /\ Exact(b, op, d)
             Inv == {p \in (Ops \union {None}) \X (0..n) :
                       Found(p[1]) /\ (p[2] >= j => Met(p[1]))}
  <2>2. <<None, 0>> \in Inv
    BY <1>1
  <2>3. ASSUME NEW b \in Ops \union {None}, NEW i \in 1..n, <<b, i - 1>> \in Inv
        PROVE  <<Closer(b, set_ops[d][i], op), i>> \in Inv
    <3> DEFINE y == set_ops[d][i]
               c == Closer(b, y, op)
    <3>1. Found(b) /\ (i - 1 >= j => Met(b)) /\ i \in 0..n
      BY <2>3
    <3>2. y \in S /\ y \in Ops /\ OpOK(y, d) /\ y.id # op.id /\ y # None
      BY <1>2, <1>3
    <3>3. c = IF IsSuperset(y, op) /\ (b = None \/ IsSuperset(b, y)) THEN y ELSE b
      BY <3>2 DEF Closer
    <3> HIDE DEF y, c
    <3>4. Found(c) /\ c \in Ops \union {None}
      BY <1>2, <3>1, <3>2, <3>3
    <3>5. CASE i = j
      <4>1. y = x
        BY <2>1, <3>5 DEF y
      <4>2. IsSuperset(y, op) /\ (b = None \/ IsSuperset(b, y))
        BY <1>1, <1>2, <1>5, <3>1, <4>1, ExactIsSmallest
      <4>3. Met(c)
        BY <1>5, <3>2, <3>3, <4>1, <4>2
      <4> QED BY <3>1, <3>4, <4>3 DEF c, y
    <3>6. CASE i > j
      <4>1. Met(b) /\ b \in S
        BY <3>1, <3>6, <2>1
      <4>2. ASSUME IsSuperset(y, op), IsSuperset(b, y) PROVE Exact(y, op, d)
        BY <1>1, <3>2, <4>1, <4>2, ExactIsSmallest
      <4>3. Met(c)
        BY <3>2, <3>3, <4>1, <4>2
      <4> QED BY <3>1, <3>4, <4>3 DEF c, y
    <3>7. CASE i < j
      BY <2>1, <3>1, <3>4, <3>7 DEF c, y
    <3> QED BY <2>1, <3>1, <3>5, <3>6, <3>7
  <2> HIDE DEF Inv
  <2>4. <<PrefixParent(op, d), n>> \in Inv
    BY <1>1, <2>2, <2>3, PrefixParentInduction
  <2> QED BY <1>1, <2>1, <2>4 DEF Inv
<1> QED BY <1>4, <1>5

\* The smallest of some positions of a list.
LEMMA SmallestOf ==
  ASSUME NEW n \in Nat, NEW S \in SUBSET (1..n), S # {}
  PROVE  Min(S) \in S /\ \A x \in S : Min(S) <= x
<1> DEFINE T == {(n + 1) - x : x \in S}
<1>1. T \in SUBSET (1..n) /\ T # {}
  <2>1. \A x \in S : (n + 1) - x \in 1..n
    OBVIOUS
  <2> QED BY <2>1
<1>2. Max(T) \in T /\ \A y \in T : y <= Max(T)
  BY <1>1, LargestOf
<1>3. PICK x \in S : Max(T) = (n + 1) - x
  BY <1>2
<1>4. \A y \in S : x <= y
  <2>1. \A y \in S : (n + 1) - y <= (n + 1) - x
    BY <1>2, <1>3
  <2> QED BY <2>1
<1>5. Min(S) \in S /\ \A y \in S : Min(S) <= y
  BY <1>4 DEF Min
<1> QED BY <1>5

\* Ids below a bound.
IdsBelow(ops, n) == \A op \in ops : op.id \in Nat /\ op.id < n

\* The one declared last is one of them and has the largest id.
LEMMA LastOfFacts ==
  ASSUME NEW ops, NEW n \in Nat, IdsBelow(ops, n), ops # {}
  PROVE  /\ LastOf(ops) \in ops
         /\ \A op \in ops : op.id <= LastOf(ops).id
<1> DEFINE S == {op.id + 1 : op \in ops}
<1>1. \A op \in ops : op.id \in Nat /\ op.id < n
  BY DEF IdsBelow
<1>2. S \in SUBSET (1..n) /\ S # {}
  BY <1>1
<1>3. Max(S) \in S /\ \A i \in S : i <= Max(S)
  BY <1>2, LargestOf
<1>4. PICK op \in ops : Max(S) = op.id + 1
  BY <1>3
<1>5. \A other \in ops : other.id <= op.id
  <2>1. \A other \in ops : other.id + 1 <= op.id + 1
    BY <1>3, <1>4
  <2> QED BY <1>1, <2>1
<1>6. LastOf(ops) = CHOOSE x \in ops : \A other \in ops : other.id <= x.id
  BY DEF LastOf
<1> QED BY <1>5, <1>6

\* The operation that only lacks the restriction at its own loop.
LEMMA UnboundedFacts ==
  ASSUME NEW p \in Ops, NEW op \in Ops, NEW d \in Nat, OpOK(p, d), OpOK(op, d), Unbounded(p, op)
  PROVE  Sibling(p, op) /\ p.id # op.id /\ op.restricts # p.restricts
<1>1. /\ p.dep = d /\ op.dep = d /\ p.edges \subseteq 0..d /\ op.edges \subseteq 0..d
      /\ p.restricts \subseteq 0..d /\ op.restricts \subseteq 0..d
  BY DEF OpOK
<1>2. IsFiniteSet(0..d)
  BY FS_Interval
<1>3. IsFiniteSet(op.edges) /\ IsFiniteSet(op.restricts) /\ IsFiniteSet(p.restricts)
  BY <1>1, <1>2, FS_Subset
<1>4. p.restricts \subseteq op.restricts /\ p.edges \subseteq op.edges
  BY <1>1 DEF Unbounded, IsSuperset
<1>5. /\ Cardinality(p.edges) = Cardinality(op.edges)
      /\ Cardinality(op.restricts) = Cardinality(p.restricts) + 1
      /\ d \in op.restricts /\ d \notin p.restricts
  BY <1>1 DEF Unbounded, IsRestricted
<1>6. p.edges = op.edges
  BY <1>3, <1>4, <1>5, FS_Subset
<1>7. p.restricts \union {d} = op.restricts
  <2>1. Cardinality(p.restricts \union {d}) = Cardinality(p.restricts) + 1
    BY <1>3, <1>5, FS_AddElement
  <2>2. p.restricts \union {d} \subseteq op.restricts
    BY <1>4, <1>5
  <2> QED BY <1>3, <1>5, <2>1, <2>2, FS_Subset
<1>8. p.id # op.id
  BY DEF Unbounded
<1> QED BY <1>1, <1>5, <1>6, <1>7, <1>8 DEF Sibling

\* Where get_parent_vset finds the operand.
LEMMA ParentFacts ==
  ASSUME NEW op \in Ops, op.dep \in Nat, set_ops[op.dep] \in Seq(Ops),
         \A x \in ToSet(set_ops[op.dep]) : OpOK(x, op.dep), OpOK(op, op.dep)
  PROVE  \/ /\ get_parent_vset(op) \in ToSet(set_ops[op.dep])
            /\ Unbounded(get_parent_vset(op), op) /\ Sibling(get_parent_vset(op), op)
         \/ get_parent_vset(op) = PrefixParent(op, op.dep - 1)
<1> DEFINE seq == set_ops[op.dep]
           n == Len(seq)
           I == {i \in 1..n : Unbounded(seq[i], op)}
           k == SelectInSeq(seq, LAMBDA p : Unbounded(p, op))
<1>1. n \in Nat /\ DOMAIN seq = 1..n
  OBVIOUS
<1>2. k = IF I # {} THEN Min(I) ELSE 0
  BY DEF SelectInSeq
<1>3. get_parent_vset(op) = IF k # 0 THEN seq[k] ELSE PrefixParent(op, op.dep - 1)
  BY DEF get_parent_vset
<1>4. CASE I = {}
  BY <1>2, <1>3, <1>4
<1>5. CASE I # {}
  <2>1. I \in SUBSET (1..n)
    OBVIOUS
  <2>2. k \in I
    BY <1>1, <1>2, <1>5, <2>1, SmallestOf
  <2>3. k \in 1..n /\ Unbounded(seq[k], op) /\ k # 0
    BY <2>2
  <2> HIDE DEF k
  <2>4. seq[k] \in ToSet(seq) /\ seq[k] \in Ops
    BY <1>1, <2>3 DEF ToSet
  <2>5. Sibling(seq[k], op)
    BY <2>3, <2>4, UnboundedFacts
  <2> QED BY <1>3, <2>3, <2>4, <2>5
<1> QED BY <1>4, <1>5

(***************************************************************************)
(* The operations of a loop.                                               *)
(***************************************************************************)
\* Operations without an id yet.
Unnumbered == [dep : Nat, id : {-1}, edges : SUBSET Nat, restricts : SUBSET Nat]

\* The candidates of a vertex.
LEMMA VertexSetFacts ==
  ASSUME NEW v, NEW d \in Nat
  PROVE  /\ VertexSetIR(v, d) \in Unnumbered /\ OpOK(VertexSetIR(v, d), d)
         /\ VertexSetIR(v, d).dep = d /\ VertexSetIR(v, d).id = -1
         /\ VertexSetIR(v, d).edges = {u \in 0..d : <<u, v>> \in input.edges}
         /\ VertexSetIR(v, d).restricts = {u \in 0..d : <<v, u>> \in Restricts}
<1> HIDE DEF Restricts
<1> QED BY DEF VertexSetIR, Unnumbered, OpOK

\* What create_plan computes in loop d, before the ids are given.
LEMMA OpsOfLoopFacts ==
  ASSUME input.size \in Nat, NEW d \in Nat, d < input.size - 1
  PROVE  /\ OpsOfLoop(d) \in Seq(Unnumbered)
         /\ \A x \in ToSet(OpsOfLoop(d)) :
              \E v \in (d + 1)..(input.size - 1) : x = VertexSetIR(v, d) /\ x.edges # {}
         /\ \A v \in (d + 1)..(input.size - 1) :
              VertexSetIR(v, d).edges # {} => VertexSetIR(v, d) \in ToSet(OpsOfLoop(d))
<1> DEFINE n == input.size - 1 - d
           all == [k \in 1..n |-> VertexSetIR(d + k, d)]
           wanted == {op \in ToSet(all) : op.edges # {}}
           kept == Only(all, wanted)
           sorted == Sorted(kept, LessOn(wanted, Precedes))
<1>1. n \in Nat /\ \A k \in 1..n : d + k \in (d + 1)..(input.size - 1)
  OBVIOUS
<1>2. \A v \in (d + 1)..(input.size - 1) : v - d \in 1..n /\ d + (v - d) = v
  OBVIOUS
<1>3. all \in Seq(Unnumbered) /\ Len(all) = n /\ DOMAIN all = 1..n
  BY <1>1, VertexSetFacts
<1>4. kept \in Seq(Unnumbered) /\ ToSet(kept) = ToSet(all) \intersect wanted
  <2> HIDE DEF all, wanted
  <2> QED BY <1>3, OnlyFacts
<1>5. OpsOfLoop(d) = Unique(sorted)
  BY DEF OpsOfLoop
<1> HIDE DEF kept
<1>6. sorted \in Seq(Unnumbered) /\ ToSet(sorted) = ToSet(kept)
  <2> HIDE DEF wanted
  <2> QED BY <1>4, SortedFacts
<1> HIDE DEF sorted
<1>7. OpsOfLoop(d) \in Seq(Unnumbered) /\ ToSet(OpsOfLoop(d)) = ToSet(kept)
  BY <1>5, <1>6, UniqueFacts
<1>8. ToSet(OpsOfLoop(d)) = wanted
  BY <1>4, <1>7
<1>9. ToSet(all) = {VertexSetIR(v, d) : v \in (d + 1)..(input.size - 1)}
  <2>1. ToSet(all) = {all[k] : k \in 1..n}
    BY <1>3 DEF ToSet
  <2>2. \A k \in 1..n : all[k] = VertexSetIR(d + k, d)
    OBVIOUS
  <2> HIDE DEF all, n
  <2>3. \A k \in 1..n : all[k] \in {VertexSetIR(v, d) : v \in (d + 1)..(input.size - 1)}
    BY <1>1, <2>2
  <2>4. \A v \in (d + 1)..(input.size - 1) : VertexSetIR(v, d) \in {all[k] : k \in 1..n}
    BY <1>2, <2>2
  <2> QED BY <2>1, <2>3, <2>4
<1> HIDE DEF all
<1> QED BY <1>7, <1>8, <1>9

\* Ids are given in the order of the list.
LEMMA NumberedFacts ==
  ASSUME NEW seq, NEW X, seq \in Seq(X), NEW n \in Nat
  PROVE  /\ Len(Numbered(seq, n)) = Len(seq)
         /\ Len(seq) \in Nat /\ DOMAIN Numbered(seq, n) = 1..Len(seq) /\ DOMAIN seq = 1..Len(seq)
         /\ \A k \in 1..Len(seq) : Numbered(seq, n)[k] = [seq[k] EXCEPT !.id = n + k - 1]
         /\ \A k \in 1..Len(seq) : seq[k] \in X
<1>1. DOMAIN seq = 1..Len(seq) /\ Len(seq) \in Nat /\ \A k \in 1..Len(seq) : seq[k] \in X
  OBVIOUS
<1>2. Numbered(seq, n) = [k \in 1..Len(seq) |-> [seq[k] EXCEPT !.id = n + k - 1]]
  BY <1>1 DEF Numbered
<1> QED BY <1>1, <1>2

(***************************************************************************)
(* The inductive invariant of plan generation.                             *)
(***************************************************************************)
\* What a loop keeps of the candidates of pattern vertex v.
SetOf(op, in, v, d) ==
  /\ op.dep = d /\ op.edges = {u \in 0..d : <<u, v>> \in in.edges}
  /\ op.restricts = {u \in 0..d : <<v, u>> \in restricts_to_str(in.restricts, in.size)}

\* A loop has the candidates of all later vertices it can have, and no others.
LoopPlanned(in, ops, iter, d) ==
  /\ \A op \in ToSet(ops) :
       op.edges # {} /\ \E v \in (d + 1)..(in.size - 1) : SetOf(op, in, v, d)
  /\ \A v \in (d + 1)..(in.size - 1) : \A u \in 0..d :
       <<u, v>> \in in.edges => \E op \in ToSet(ops) : SetOf(op, in, v, d)
  /\ iter \in ToSet(ops) /\ SetOf(iter, in, d + 1, d)

NotPlanned(ops, iter) == ops = <<>> /\ iter = None

\* The operations: create_plan has come to the loop of the cursor, or to the end.
SetsInv ==
  /\ set_ops \in [Loops -> Seq(Ops)] /\ DistinctIds(set_ops)
  /\ iter_set \in [Loops -> Ops \union {None}]
  /\ \A d \in Loops : \A op \in ToSet(set_ops[d]) : OpOK(op, d)
  /\ phase = "create_plan" =>
       /\ cursor[1] \in 0..(input.size - 1) /\ cursor[2] \in Nat
       /\ \A d \in Loops : IdsBelow(ToSet(set_ops[d]), cursor[2])
       /\ \A d \in Loops : d >= cursor[1] => NotPlanned(set_ops[d], iter_set[d])
  /\ \A d \in Loops : (phase = "create_plan" => d < cursor[1]) =>
       LoopPlanned(input, set_ops[d], iter_set[d], d)

Collecting == phase \in {"create_plan", "collect"}

\* The mini graphs: the cursor numbers them, later they all have a flag.
MiniGraphsInv ==
  /\ mg_ops \in [Loops -> Seq(MiniGraphs)] /\ DistinctIds(mg_ops)
  /\ \A d \in Loops : \A mg \in ToSet(mg_ops[d]) : MiniGraphOK(mg, d)
  /\ \E n \in Nat : \A d \in Loops : IdsBelow(ToSet(mg_ops[d]), n)
  /\ phase = "create_plan" \/ ~Pruning => \A d \in Loops : mg_ops[d] = <<>>
  /\ phase \in {"collect", "mark", "inherit", "erase"} => Pruning
  /\ phase = "collect" =>
       /\ cursor[1] \in Nat /\ cursor[2] \in Nat
       /\ \A d \in Loops : IdsBelow(ToSet(mg_ops[d]), cursor[2])
       /\ \A d \in Loops : d >= cursor[1] => mg_ops[d] = <<>>
  /\ ~Collecting => \A d \in Loops : \A mg \in ToSet(mg_ops[d]) : mg.id \in DOMAIN mg_bounded

\* A mini graph whose rows loop d reads.
UsedOK(mg, d) ==
  /\ mg.id \in indeedUsed /\ mg \in MiniGraphsTo(d - 1)
  /\ IsSuperset(mg.vertices, iter_set[d - 1])

\* The loop reads the rows its operations need.
LoopMarked(d) ==
  \A op \in ToSet(set_ops[d]) :
    get_parent_mg(op) # None => get_parent_mg(op) \in ToSet(mg_used[d])

UsedInv ==
  /\ mg_used \in [Loops -> Seq(MiniGraphs)] /\ mg_used[0] = <<>>
  /\ DOMAIN mg_bounded \subseteq Nat /\ indeedUsed \subseteq DOMAIN mg_bounded
  /\ Collecting => indeedUsed = {}
  /\ Collecting \/ ~Pruning => \A d \in Loops : mg_used[d] = <<>>
  /\ \A d \in Loops : \A mg \in ToSet(mg_used[d]) : UsedOK(mg, d)
  /\ phase = "mark" =>
       cursor[1] \in 1..(MaxDep + 1) /\ \A d \in Loops : d >= cursor[1] => mg_used[d] = <<>>
  /\ phase = "inherit" => cursor[1] \in -1..MaxDep /\ cursor[2] \in Nat \ {0}
  /\ phase = "erase" => cursor[1] \in Loops /\ cursor[2] \in Nat \ {0}
  /\ ~Collecting => \A d \in Loops :
       d <= MaxDep /\ (phase = "mark" => d < cursor[1]) => LoopMarked(d)

PlanInv == input \in Inputs /\ phase \in Phases /\ SetsInv /\ MiniGraphsInv /\ UsedInv

\* What is known of an input.
LEMMA InputFacts ==
  ASSUME input \in Inputs
  PROVE  /\ input.size \in Nat /\ input.size >= 3 /\ Scheduled(input)
         /\ MaxDep \in Nat /\ MaxDep <= input.size - 2 /\ MaxDep = LastLoop
         /\ Loops = 0..(input.size - 2) /\ \A d \in Loops : d \in Nat /\ d < input.size - 1
<1>1. /\ input.size \in Nat /\ input.size >= 3 /\ Scheduled(input)
      /\ input.iep.num \in 0..(input.size - 1)
  BY PlanAssumption DEF Scheduled
<1> DEFINE s == input.size
           n == iep_num
<1>2. n \in 0..(s - 1)
  <2>1. 0 \in 0..(s - 1)
    BY <1>1
  <2> QED BY <1>1, <2>1 DEF iep_num
<1>3. LastLoop = IF n > 1 THEN s - n - 1 ELSE s - 2
  BY DEF LastLoop, iep_depth
<1>4. MaxDep = Min({s - 2, s - n - 1})
  BY DEF MaxDep
<1> HIDE DEF s, n
<1>5. s \in Nat /\ s >= 3
  BY <1>1 DEF s
<1>6. Min({s - 2, s - n - 1}) = IF n > 1 THEN s - n - 1 ELSE s - 2
  <2> DEFINE m == IF n > 1 THEN s - n - 1 ELSE s - 2
             P == {s - 2, s - n - 1}
  <2>1. m \in P /\ \A x \in P : m <= x
    BY <1>2, <1>5
  <2>2. \A x \in P : (\A y \in P : x <= y) => x = m
    BY <1>2, <1>5
  <2> HIDE DEF m, P
  <2>3. Min(P) = m
    BY <2>1, <2>2 DEF Min
  <2> QED BY <2>3 DEF m, P
<1>7. MaxDep = LastLoop
  BY <1>3, <1>4, <1>6
<1>8. MaxDep \in Nat /\ MaxDep <= s - 2
  BY <1>2, <1>3, <1>5, <1>7
<1>9. Loops = 0..(s - 2) /\ \A d \in Loops : d \in Nat /\ d < s - 1
  BY <1>5 DEF Loops, s
<1> QED BY <1>1, <1>7, <1>8, <1>9 DEF s

\* A plan of loop d as create_plan computes it: the ids from next on.
Numbering(ops, next) ==
  /\ DOMAIN ops = 1..Len(ops) /\ Len(ops) \in Nat
  /\ \A k \in 1..Len(ops) : ops[k].id = next + k - 1

\* The loop create_plan has just been in.
LEMMA LoopIsPlanned ==
  ASSUME input \in Inputs, NEW d \in Loops, NEW next \in Nat,
         NEW ops, ops = Numbered(OpsOfLoop(d), next),
         NEW iter, iter = Find(ops, VertexSetIR(d + 1, d))
  PROVE  /\ ops \in Seq(Ops) /\ Numbering(ops, next) /\ iter \in Ops
         /\ \A op \in ToSet(ops) : OpOK(op, d)
         /\ LoopPlanned(input, ops, iter, d)
<1> DEFINE all == OpsOfLoop(d)
           n == Len(all)
           V == (d + 1)..(input.size - 1)
<1>1. d \in Nat /\ input.size \in Nat /\ d < input.size - 1 /\ Scheduled(input)
  BY InputFacts
<1>2. /\ all \in Seq(Unnumbered)
      /\ \A x \in ToSet(all) : \E v \in V : x = VertexSetIR(v, d) /\ x.edges # {}
      /\ \A v \in V : VertexSetIR(v, d).edges # {} => VertexSetIR(v, d) \in ToSet(all)
  BY <1>1, OpsOfLoopFacts
<1>3. /\ n \in Nat /\ DOMAIN all = 1..n /\ DOMAIN ops = 1..n /\ Len(ops) = n
      /\ \A k \in 1..n : ops[k] = [all[k] EXCEPT !.id = next + k - 1]
      /\ \A k \in 1..n : all[k] \in Unnumbered
  BY <1>2, NumberedFacts
<1>4. \A k \in 1..n : all[k] \in ToSet(all) /\ ops[k] \in ToSet(ops)
  BY <1>3 DEF ToSet
<1>5. \A x \in ToSet(all) : \E k \in 1..n : x = all[k]
  BY <1>3 DEF ToSet
<1>6. \A x \in ToSet(ops) : \E k \in 1..n : x = ops[k]
  BY <1>3 DEF ToSet
<1> HIDE DEF all, n
<1>7. ASSUME NEW k \in 1..n
      PROVE  /\ ops[k] \in Ops /\ ops[k].dep = all[k].dep /\ ops[k].edges = all[k].edges
             /\ ops[k].restricts = all[k].restricts /\ ops[k].id = next + k - 1
             /\ [ops[k] EXCEPT !.id = -1] = all[k]
  <2>1. all[k] \in Unnumbered /\ ops[k] = [all[k] EXCEPT !.id = next + k - 1]
    BY <1>3
  <2>2. next + k - 1 \in Nat
    BY <1>3
  <2>3. ops[k] \in Ops /\ ops[k].id = next + k - 1 /\ ops[k].dep = all[k].dep
        /\ ops[k].edges = all[k].edges /\ ops[k].restricts = all[k].restricts
    BY <2>1, <2>2 DEF Ops, Unnumbered
  <2>4. [ops[k] EXCEPT !.id = -1] = all[k]
    BY <2>1 DEF Unnumbered
  <2> QED BY <2>3, <2>4
<1>8. ASSUME NEW k \in 1..n, NEW v, all[k] = VertexSetIR(v, d) PROVE SetOf(ops[k], input, v, d)
  <2>1. /\ all[k].dep = d /\ all[k].edges = {u \in 0..d : <<u, v>> \in input.edges}
        /\ all[k].restricts = {u \in 0..d : <<v, u>> \in Restricts}
    BY <1>1, <1>8, VertexSetFacts
  <2> QED BY <1>7, <2>1 DEF SetOf, Restricts
<1>9. ops \in Seq(Ops)
  <2>1. ops = [k \in 1..n |-> [all[k] EXCEPT !.id = next + k - 1]]
    BY <1>3 DEF Numbered, all
  <2>2. \A k \in 1..n : [all[k] EXCEPT !.id = next + k - 1] \in Ops
    BY <1>3, <1>7
  <2> QED BY <1>3, <2>1, <2>2
<1>10. Numbering(ops, next)
  BY <1>3, <1>7 DEF Numbering
<1>11. ASSUME NEW op \in ToSet(ops)
       PROVE  OpOK(op, d) /\ op.edges # {} /\ \E v \in V : SetOf(op, input, v, d)
  <2>1. PICK k \in 1..n : op = ops[k]
    BY <1>6
  <2>2. PICK v \in V : all[k] = VertexSetIR(v, d) /\ all[k].edges # {}
    BY <1>2, <1>4
  <2>3. SetOf(op, input, v, d)
    BY <1>8, <2>1, <2>2
  <2>4. op.edges # {}
    BY <1>7, <2>1, <2>2
  <2> QED BY <2>3, <2>4 DEF SetOf, OpOK
<1>12. ASSUME NEW v \in V, NEW u \in 0..d, <<u, v>> \in input.edges
       PROVE  \E k \in 1..n : SetOf(ops[k], input, v, d) /\ all[k] = VertexSetIR(v, d)
  <2>1. VertexSetIR(v, d).edges # {}
    BY <1>1, <1>12, VertexSetFacts
  <2>2. PICK k \in 1..n : all[k] = VertexSetIR(v, d)
    BY <1>2, <1>5, <2>1
  <2> QED BY <1>8, <2>2
<1>13. iter \in ToSet(ops) /\ SetOf(iter, input, d + 1, d)
  <2> DEFINE W == VertexSetIR(d + 1, d)
             I == {i \in 1..Len(ops) : [ops[i] EXCEPT !.id = -1] = W}
             k == SelectInSeq(ops, LAMBDA p : [p EXCEPT !.id = -1] = W)
  <2>1. \E u \in 0..d : <<u, d + 1>> \in input.edges
    <3>1. d + 1 \in 1..(input.size - 1) /\ (d + 1) - 1 = d
      BY <1>1
    <3> QED BY <1>1, <3>1 DEF Scheduled
  <2>2. d + 1 \in V
    BY <1>1
  <2>3. PICK j \in 1..n : all[j] = W
    BY <1>12, <2>1, <2>2
  <2>4. j \in I
    BY <1>3, <1>7, <2>3
  <2>5. k = IF I # {} THEN Min(I) ELSE 0
    BY DEF SelectInSeq
  <2>6. I \in SUBSET (1..n)
    BY <1>3
  <2>7. iter = ops[k]
    BY DEF Find
  <2> HIDE DEF k, W
  <2>8. k \in I
    <3> HIDE DEF I
    <3>1. I # {} /\ n \in Nat
      BY <1>3, <2>4
    <3> QED BY <2>5, <2>6, <3>1, SmallestOf
  <2>9. k \in 1..n /\ [ops[k] EXCEPT !.id = -1] = W
    BY <1>3, <2>8
  <2>10. all[k] = W
    BY <1>7, <2>9
  <2>11. SetOf(ops[k], input, d + 1, d)
    BY <1>8, <2>9, <2>10 DEF W
  <2> QED BY <1>4, <2>7, <2>9, <2>11
<1>14. iter \in Ops
  BY <1>6, <1>7, <1>13
<1>15. LoopPlanned(input, ops, iter, d)
  <2>1. \A v \in V : \A u \in 0..d :
          <<u, v>> \in input.edges => \E op \in ToSet(ops) : SetOf(op, input, v, d)
    BY <1>4, <1>12
  <2> QED BY <1>11, <1>13, <2>1 DEF LoopPlanned
<1> QED BY <1>9, <1>10, <1>11, <1>14, <1>15

\* Ids given to the list of one more loop are new.
LEMMA NumberingAdds ==
  ASSUME NEW ops, NEW d \in Loops, NEW next \in Nat, NEW X, ops \in [Loops -> Seq(X)],
         DistinctIds(ops), \A e \in Loops : IdsBelow(ToSet(ops[e]), next),
         NEW new \in Seq(X), Numbering(new, next), NEW made, made = [ops EXCEPT ![d] = new]
  PROVE  /\ DistinctIds(made) /\ made \in [Loops -> Seq(X)]
         /\ \A e \in Loops : IdsBelow(ToSet(made[e]), next + Len(new))
<1>1. made[d] = new /\ \A e \in Loops : e # d => made[e] = ops[e]
  OBVIOUS
<1>2. made \in [Loops -> Seq(X)]
  OBVIOUS
<1> HIDE <1>2
<1>3. \A k \in DOMAIN new : new[k].id \in Nat /\ new[k].id >= next /\ new[k].id < next + Len(new)
                             /\ new[k].id = next + k - 1 /\ k \in Nat
  BY DEF Numbering
<1>4. \A e \in Loops : \A k \in DOMAIN ops[e] : ops[e][k].id \in Nat /\ ops[e][k].id < next
  BY DEF IdsBelow, ToSet
<1>5. ASSUME NEW a \in Loops, NEW b \in Loops, NEW k \in DOMAIN made[a], NEW l \in DOMAIN made[b],
             made[a][k].id = made[b][l].id
      PROVE  a = b /\ k = l
  <2>1. CASE a = d /\ b = d
    <3>1. k \in DOMAIN new /\ l \in DOMAIN new /\ new[k].id = new[l].id
      BY <1>1, <1>5, <2>1
    <3>2. next + k - 1 = next + l - 1 /\ k \in Nat /\ l \in Nat
      BY <1>3, <3>1
    <3> QED BY <2>1, <3>2
  <2>2. CASE a = d /\ b # d
    <3>1. /\ new[k].id >= next /\ ops[b][l].id < next /\ new[k].id = ops[b][l].id
          /\ new[k].id \in Nat
      BY <1>1, <1>3, <1>4, <1>5, <2>2
    <3> QED BY <3>1
  <2>3. CASE a # d /\ b = d
    <3>1. /\ new[l].id >= next /\ ops[a][k].id < next /\ new[l].id = ops[a][k].id
          /\ new[l].id \in Nat
      BY <1>1, <1>3, <1>4, <1>5, <2>3
    <3> QED BY <3>1
  <2>4. CASE a # d /\ b # d
    BY <1>1, <1>5, <2>4 DEF DistinctIds
  <2> QED BY <2>1, <2>2, <2>3, <2>4
<1>6. ASSUME NEW e \in Loops PROVE IdsBelow(ToSet(made[e]), next + Len(new))
  <2>1. Len(new) \in Nat
    BY DEF Numbering
  <2>2. \A k \in DOMAIN made[e] : made[e][k].id \in Nat /\ made[e][k].id < next + Len(new)
    <3>1. CASE e = d
      BY <1>1, <1>3, <3>1
    <3>2. CASE e # d
      BY <1>1, <1>4, <2>1, <3>2
    <3> QED BY <3>1, <3>2
  <2> QED BY <2>2 DEF IdsBelow, ToSet
<1>7. DistinctIds(made)
  BY <1>5 DEF DistinctIds
<1> QED BY <1>2, <1>6, <1>7

(***************************************************************************)
(* Every step of the planning keeps the invariant.                         *)
(***************************************************************************)
\* What only depends on the input.
LEMMA InputStays ==
  ASSUME input' = input
  PROVE  /\ Loops' = Loops /\ MaxDep' = MaxDep /\ LastLoop' = LastLoop
         /\ (Pruning' <=> Pruning) /\ (Vertex' <=> Vertex)
BY DEF Loops, MaxDep, LastLoop, iep_num, iep_depth, Pruning, Vertex

\* The initial states.
LEMMA PlanInitially ==
  ASSUME Init
  PROVE  PlanInv
<1>1. /\ input \in Inputs /\ phase = "create_plan" /\ cursor = <<0, 0>>
      /\ set_ops = [d \in Loops |-> <<>>] /\ iter_set = [d \in Loops |-> None]
      /\ mg_ops = [d \in Loops |-> <<>>] /\ mg_used = [d \in Loops |-> <<>>]
      /\ mg_bounded = <<>> /\ indeedUsed = {}
  BY DEF Init
<1>2. /\ input.size \in Nat /\ input.size >= 3 /\ Loops = 0..(input.size - 2)
      /\ \A d \in Loops : d \in Nat
  BY <1>1, InputFacts
<1>3. /\ \A X : <<>> \in Seq(X)
      /\ DOMAIN <<>> = {} /\ ToSet(<<>>) = {}
  BY DEF ToSet
<1> USE <1>1
<1>4. DistinctIds(set_ops) /\ DistinctIds(mg_ops)
  BY <1>3 DEF DistinctIds
<1>5. 0 \in 0..(input.size - 1) /\ 0 \in Loops /\ cursor[1] = 0 /\ cursor[2] = 0
  BY <1>2
<1> HIDE <1>1
<1>6. phase = "create_plan" /\ Collecting
  BY <1>1 DEF Collecting
<1>7. SetsInv
  <2>1. \A d \in Loops : set_ops[d] = <<>> /\ iter_set[d] = None /\ ~(d < cursor[1])
    BY <1>1, <1>2, <1>5
  <2>2. set_ops \in [Loops -> Seq(Ops)] /\ iter_set \in [Loops -> Ops \union {None}]
    BY <1>1, <1>3
  <2> QED BY <1>3, <1>4, <1>5, <1>6, <2>1, <2>2 DEF SetsInv, NotPlanned, IdsBelow
<1>8. MiniGraphsInv
  <2>1. \A d \in Loops : mg_ops[d] = <<>>
    BY <1>1
  <2>2. mg_ops \in [Loops -> Seq(MiniGraphs)]
    BY <1>1, <1>3
  <2>3. \E n \in Nat : \A d \in Loops : IdsBelow(ToSet(mg_ops[d]), n)
    BY <1>3, <2>1 DEF IdsBelow
  <2> QED BY <1>3, <1>4, <1>6, <2>1, <2>2, <2>3 DEF MiniGraphsInv
<1>9. UsedInv
  <2>1. mg_used \in [Loops -> Seq(MiniGraphs)] /\ \A d \in Loops : mg_used[d] = <<>>
    BY <1>1, <1>3
  <2>2. DOMAIN mg_bounded \subseteq Nat /\ indeedUsed \subseteq DOMAIN mg_bounded
    BY <1>1, <1>3
  <2>3. indeedUsed = {}
    BY <1>1
  <2> QED BY <1>3, <1>5, <1>6, <2>1, <2>2, <2>3 DEF UsedInv
<1> QED BY <1>1, <1>7, <1>8, <1>9 DEF PlanInv, Phases

\* create_plan, one loop.
LEMMA PlanCreated ==
  ASSUME PlanInv, CreatePlan
  PROVE  PlanInv'
<1>1. PICK d, next, ops, iter :
        /\ d = cursor[1] /\ next = cursor[2] /\ ops = Numbered(OpsOfLoop(d), next)
        /\ iter = Find(ops, VertexSetIR(d + 1, d))
  OBVIOUS
<1>2. /\ phase = "create_plan" /\ d \in Loops
      /\ set_ops' = [set_ops EXCEPT ![d] = ops] /\ iter_set' = [iter_set EXCEPT ![d] = iter]
      /\ cursor' = <<d + 1, next + Len(ops)>>
      /\ UNCHANGED <<input, phase, mg_ops, mg_used, mg_bounded, indeedUsed>>
  BY <1>1 DEF CreatePlan
<1>3. /\ input \in Inputs /\ phase \in Phases /\ SetsInv /\ MiniGraphsInv /\ UsedInv
  BY DEF PlanInv
<1>4. /\ input.size \in Nat /\ Loops = 0..(input.size - 2)
      /\ \A e \in Loops : e \in Nat /\ e < input.size - 1
  BY <1>3, InputFacts
<1>5. Loops' = Loops /\ (Pruning' <=> Pruning)
  BY <1>2, InputStays
<1>6. next \in Nat /\ d \in Nat
  BY <1>1, <1>2, <1>3, <1>4 DEF SetsInv
<1>7. /\ ops \in Seq(Ops) /\ Numbering(ops, next) /\ iter \in Ops
      /\ \A op \in ToSet(ops) : OpOK(op, d)
      /\ LoopPlanned(input, ops, iter, d)
  BY <1>1, <1>2, <1>3, <1>6, LoopIsPlanned
<1>8. PICK made : made = [set_ops EXCEPT ![d] = ops]
  OBVIOUS
<1>9. /\ set_ops \in [Loops -> Seq(Ops)] /\ DistinctIds(set_ops)
      /\ iter_set \in [Loops -> Ops \union {None}]
      /\ \A e \in Loops : \A op \in ToSet(set_ops[e]) : OpOK(op, e)
      /\ \A e \in Loops : IdsBelow(ToSet(set_ops[e]), next)
      /\ \A e \in Loops : e >= d => NotPlanned(set_ops[e], iter_set[e])
      /\ \A e \in Loops : e < d => LoopPlanned(input, set_ops[e], iter_set[e], e)
  BY <1>1, <1>2, <1>3 DEF SetsInv
<1>10. /\ DistinctIds(made) /\ made \in [Loops -> Seq(Ops)]
       /\ \A e \in Loops : IdsBelow(ToSet(made[e]), next + Len(ops))
  BY <1>2, <1>6, <1>7, <1>8, <1>9, NumberingAdds
<1>11. SetsInv'
  <2>1. set_ops' \in [Loops' -> Seq(Ops)] /\ DistinctIds(set_ops)'
    BY <1>2, <1>5, <1>8, <1>10 DEF DistinctIds
  <2>2. iter_set' \in [Loops' -> (Ops \union {None})']
    BY <1>2, <1>5, <1>7, <1>9
  <2>3. /\ set_ops'[d] = ops /\ \A e \in Loops : e # d => set_ops'[e] = set_ops[e]
        /\ iter_set'[d] = iter /\ \A e \in Loops : e # d => iter_set'[e] = iter_set[e]
    BY <1>2, <1>9
  <2>4. \A e \in Loops : \A op \in ToSet(set_ops'[e]) : OpOK(op, e)
    BY <1>7, <1>9, <2>3
  <2>5. cursor'[1] = d + 1 /\ cursor'[2] = next + Len(ops)
    BY <1>2
  <2>6. d + 1 \in 0..(input.size - 1) /\ next + Len(ops) \in Nat
    BY <1>2, <1>4, <1>6, <1>7 DEF Numbering
  <2>7. \A e \in Loops : IdsBelow(ToSet(set_ops'[e]), cursor'[2])
    BY <1>2, <1>8, <1>10, <2>5
  <2>8. ASSUME NEW e \in Loops, e >= d + 1 PROVE NotPlanned(set_ops'[e], iter_set'[e])
    <3>1. e # d /\ e >= d
      BY <1>4, <1>6, <2>8
    <3> QED BY <1>9, <2>3, <3>1
  <2>9. ASSUME NEW e \in Loops, e < d + 1 PROVE LoopPlanned(input, set_ops'[e], iter_set'[e], e)
    <3>1. e = d \/ e < d
      BY <1>4, <1>6, <2>9
    <3>2. CASE e = d
      BY <1>7, <2>3, <3>2
    <3>3. CASE e < d /\ e # d
      BY <1>9, <2>3, <3>3
    <3> QED BY <1>4, <1>6, <3>1, <3>2, <3>3
  <2> QED BY <1>2, <1>5, <2>1, <2>2, <2>4, <2>5, <2>6, <2>7, <2>8, <2>9 DEF SetsInv
<1>12. Collecting /\ Collecting'
  BY <1>2 DEF Collecting
<1>13. MiniGraphsInv'
  <2>1. \A e \in Loops : mg_ops[e] = <<>>
    BY <1>2, <1>3 DEF MiniGraphsInv
  <2>2. /\ mg_ops \in [Loops -> Seq(MiniGraphs)] /\ DistinctIds(mg_ops)
        /\ \E n \in Nat : \A e \in Loops : IdsBelow(ToSet(mg_ops[e]), n)
    BY <1>3 DEF MiniGraphsInv
  <2>3. DistinctIds(mg_ops)'
    BY <1>2, <1>5, <2>2 DEF DistinctIds
  <2>4. \A e \in Loops : ToSet(mg_ops[e]) = {}
    BY <2>1 DEF ToSet
  <2> QED BY <1>2, <1>5, <1>12, <2>1, <2>2, <2>3, <2>4 DEF MiniGraphsInv
<1>14. UsedInv'
  <2>1. \A e \in Loops : mg_used[e] = <<>>
    BY <1>3, <1>12 DEF UsedInv
  <2>2. /\ mg_used \in [Loops -> Seq(MiniGraphs)] /\ mg_used[0] = <<>>
        /\ DOMAIN mg_bounded \subseteq Nat /\ indeedUsed \subseteq DOMAIN mg_bounded
        /\ Collecting => indeedUsed = {}
    BY <1>3 DEF UsedInv
  <2>3. \A e \in Loops : ToSet(mg_used[e]) = {}
    BY <2>1 DEF ToSet
  <2> QED BY <1>2, <1>5, <1>12, <2>1, <2>2, <2>3 DEF UsedInv
<1> QED BY <1>2, <1>3, <1>11, <1>13, <1>14 DEF PlanInv

\* get_parent_mg depends on the plan only.
LEMMA ParentStays ==
  ASSUME UNCHANGED <<input, iter_set, mg_ops>>
  PROVE  /\ \A op : get_parent_mg(op)' = get_parent_mg(op)
         /\ \A d : MiniGraphsTo(d)' = MiniGraphsTo(d)
         /\ \A a, b : IsSuperset(a, b)' <=> IsSuperset(a, b)
<1>1. Vertex' <=> Vertex
  BY InputStays
<1>2. \A d : MiniGraphsTo(d)' = MiniGraphsTo(d)
  BY DEF MiniGraphsTo
<1>3. \A a, b : IsSuperset(a, b)' <=> IsSuperset(a, b)
  BY <1>1 DEF IsSuperset
<1>4. ASSUME NEW op PROVE get_parent_mg(op)' = get_parent_mg(op)
  BY <1>1, <1>2, <1>3 DEF get_parent_mg, MGSuperset, IsEdge
<1> QED BY <1>2, <1>3, <1>4

\* Nor do the other parts of the invariant depend on more than they name.
LEMMA MarkedStays ==
  ASSUME UNCHANGED <<input, set_ops, iter_set, mg_ops>>, NEW CONSTANT d,
         mg_used'[d] = mg_used[d], LoopMarked(d)
  PROVE  LoopMarked(d)'
BY ParentStays DEF LoopMarked

\* A row that is read stays one.
LEMMA UsedStays ==
  ASSUME UNCHANGED <<input, iter_set, mg_ops>>, indeedUsed \subseteq indeedUsed',
         NEW CONSTANT mg, NEW CONSTANT d, UsedOK(mg, d)
  PROVE  UsedOK(mg, d)'
<1>1. PICK iter : iter = iter_set[d - 1]
  OBVIOUS
<1>2. iter_set'[d - 1] = iter
  BY <1>1
<1>3. mg.id \in indeedUsed /\ mg \in MiniGraphsTo(d - 1) /\ IsSuperset(mg.vertices, iter)
  BY <1>1 DEF UsedOK
<1>4. mg \in MiniGraphsTo(d - 1)' /\ IsSuperset(mg.vertices, iter)'
  BY <1>3, ParentStays
<1> QED BY <1>1, <1>2, <1>3, <1>4 DEF UsedOK

\* A later step leaves the operations alone.
LEMMA SetsStay ==
  ASSUME PlanInv, UNCHANGED <<input, set_ops, iter_set>>,
         phase # "create_plan", phase' # "create_plan"
  PROVE  SetsInv'
<1>1. SetsInv /\ Loops' = Loops
  BY InputStays DEF PlanInv
<1>2. DistinctIds(set_ops)'
  BY <1>1 DEF SetsInv, DistinctIds
<1> QED BY <1>1, <1>2 DEF SetsInv, OpOK

\* A step after create_plan_mg has collected the mini graphs leaves them alone.
LEMMA MiniGraphsStay ==
  ASSUME PlanInv, UNCHANGED <<input, set_ops, mg_ops>>, ~Collecting, ~Collecting',
         DOMAIN mg_bounded' = DOMAIN mg_bounded,
         phase' \in {"mark", "inherit", "erase"} => phase \in {"mark", "inherit", "erase"}
  PROVE  MiniGraphsInv'
<1>1. MiniGraphsInv /\ Loops' = Loops /\ (Pruning' <=> Pruning)
  BY InputStays DEF PlanInv
<1>2. DistinctIds(mg_ops)'
  BY <1>1 DEF MiniGraphsInv, DistinctIds
<1>3. \A d \in Loops : \A mg \in ToSet(mg_ops[d]) : MiniGraphOK(mg, d)'
  BY <1>1 DEF MiniGraphsInv, MiniGraphOK
<1>4. phase' # "create_plan" /\ phase' # "collect"
  BY DEF Collecting
<1> QED BY <1>1, <1>2, <1>3, <1>4 DEF MiniGraphsInv

\* So does a step after all loops are marked with what they read.
LEMMA UsesStay ==
  ASSUME PlanInv, UNCHANGED <<input, set_ops, iter_set, mg_ops, mg_used>>,
         ~Collecting, ~Collecting', phase = "mark" => cursor[1] > MaxDep, phase' # "mark",
         DOMAIN mg_bounded' = DOMAIN mg_bounded, indeedUsed \subseteq indeedUsed',
         indeedUsed' \subseteq DOMAIN mg_bounded,
         phase' = "inherit" => cursor'[1] \in -1..MaxDep /\ cursor'[2] \in Nat \ {0},
         phase' = "erase" => cursor'[1] \in Loops /\ cursor'[2] \in Nat \ {0}
  PROVE  UsedInv'
<1>1. /\ UsedInv /\ Loops' = Loops /\ MaxDep' = MaxDep /\ (Pruning' <=> Pruning)
  BY InputStays DEF PlanInv
<1>2. /\ MaxDep \in Nat /\ \A d \in Loops : d \in Nat
  BY InputFacts DEF PlanInv
<1>3. \A d \in Loops : d <= MaxDep => LoopMarked(d)
  <2>1. ASSUME NEW d \in Loops, d <= MaxDep, phase = "mark" PROVE d < cursor[1]
    <3>1. cursor[1] \in 1..(MaxDep + 1) /\ cursor[1] > MaxDep
      BY <1>1, <2>1 DEF UsedInv
    <3> QED BY <1>2, <2>1, <3>1
  <2> QED BY <1>1, <2>1 DEF UsedInv
<1>4. \A d \in Loops : d <= MaxDep => LoopMarked(d)'
  BY <1>3, MarkedStays
<1>5. \A d \in Loops : \A mg \in ToSet(mg_used[d]) : UsedOK(mg, d)'
  BY <1>1, UsedStays DEF UsedInv
<1>6. /\ mg_used \in [Loops -> Seq(MiniGraphs)] /\ mg_used[0] = <<>>
      /\ DOMAIN mg_bounded \subseteq Nat
      /\ ~Pruning => \A d \in Loops : mg_used[d] = <<>>
  BY <1>1 DEF UsedInv
<1> QED BY <1>1, <1>4, <1>5, <1>6 DEF UsedInv

\* gen_code between create_plan and create_plan_mg.
LEMMA PlanEnds ==
  ASSUME PlanInv, EndCreatePlan
  PROVE  PlanInv'
<1>1. /\ phase = "create_plan" /\ cursor[1] \notin Loops /\ cursor' = <<0, 0>>
      /\ phase' = IF Pruning THEN "collect" ELSE "gen_code"
      /\ UNCHANGED <<input, set_ops, iter_set, mg_ops, mg_used, mg_bounded, indeedUsed>>
  BY DEF EndCreatePlan
<1>2. /\ input \in Inputs /\ SetsInv /\ MiniGraphsInv /\ UsedInv
  BY DEF PlanInv
<1>3. /\ input.size \in Nat /\ Loops = 0..(input.size - 2)
      /\ \A d \in Loops : d \in Nat /\ d < input.size - 1 /\ \A e \in 0..d : e \in Loops
  BY <1>2, InputFacts
<1>4. Loops' = Loops /\ (Pruning' <=> Pruning)
  BY <1>1, InputStays
<1>5. /\ cursor[1] \in 0..(input.size - 1)
      /\ \A d \in Loops : d < cursor[1] => LoopPlanned(input, set_ops[d], iter_set[d], d)
  BY <1>1, <1>2 DEF SetsInv
<1>6. \A d \in Loops : LoopPlanned(input, set_ops[d], iter_set[d], d)
  <2>1. \A d \in Loops : d < cursor[1]
    BY <1>1, <1>3, <1>5
  <2> QED BY <1>5, <2>1
<1>7. phase' # "create_plan" /\ phase' \notin {"mark", "inherit", "erase"}
  BY <1>1
<1>8. SetsInv'
  <2>1. DistinctIds(set_ops)'
    BY <1>1, <1>2, <1>4 DEF SetsInv, DistinctIds
  <2> QED BY <1>1, <1>2, <1>4, <1>6, <1>7, <2>1 DEF SetsInv, OpOK
<1>9. \A d \in Loops : mg_ops[d] = <<>>
  BY <1>1, <1>2 DEF MiniGraphsInv
<1>10. MiniGraphsInv'
  <2>1. mg_ops \in [Loops -> Seq(MiniGraphs)] /\ DistinctIds(mg_ops)
    BY <1>2 DEF MiniGraphsInv
  <2>2. DistinctIds(mg_ops)'
    BY <1>1, <1>4, <2>1 DEF DistinctIds
  <2>3. \A d \in Loops : ToSet(mg_ops[d]) = {}
    BY <1>9 DEF ToSet
  <2>4. cursor'[1] = 0 /\ cursor'[2] = 0
    BY <1>1
  <2>5. \A d \in Loops : \A n : IdsBelow(ToSet(mg_ops[d]), n)
    BY <2>3 DEF IdsBelow
  <2>6. \E n \in Nat : \A d \in Loops : IdsBelow(ToSet(mg_ops[d]), n)
    BY <2>5
  <2>7. phase' = "collect" => Pruning
    BY <1>1
  <2> QED BY <1>1, <1>4, <1>7, <1>9, <2>1, <2>2, <2>3, <2>4, <2>5, <2>6, <2>7 DEF MiniGraphsInv
<1>11. UsedInv'
  <2>1. Collecting
    BY <1>1 DEF Collecting
  <2>2. \A d \in Loops : mg_used[d] = <<>>
    BY <1>2, <2>1 DEF UsedInv
  <2>3. \A d \in Loops : ToSet(mg_used[d]) = {}
    BY <2>2 DEF ToSet
  <2>4. ASSUME NEW d \in Loops PROVE LoopMarked(d)
    <3> SUFFICES ASSUME NEW op \in ToSet(set_ops[d]) PROVE get_parent_mg(op) = None
      BY DEF LoopMarked
    <3>1. op.dep = d
      BY <1>2 DEF SetsInv, OpOK
    <3>2. CASE d = 0
      BY <3>1, <3>2 DEF get_parent_mg
    <3>3. CASE d # 0
      <4>1. \A e \in 0..(d - 1) : e \in Loops
        BY <1>3, <3>3
      <4>2. MiniGraphsTo(d - 1) = {}
        BY <1>9, <4>1 DEF MiniGraphsTo, ToSet
      <4> QED BY <3>1, <4>2 DEF get_parent_mg, LastOf
    <3> QED BY <3>2, <3>3
  <2>5. \A d \in Loops : LoopMarked(d)'
    BY <1>1, <2>4, MarkedStays
  <2>6. /\ mg_used \in [Loops -> Seq(MiniGraphs)] /\ mg_used[0] = <<>>
        /\ DOMAIN mg_bounded \subseteq Nat /\ indeedUsed \subseteq DOMAIN mg_bounded
        /\ indeedUsed = {}
    BY <1>2, <2>1 DEF UsedInv
  <2> QED BY <1>1, <1>4, <1>7, <2>2, <2>3, <2>5, <2>6 DEF UsedInv
<1>12. phase' \in Phases
  BY <1>1 DEF Phases
<1> QED BY <1>1, <1>2, <1>8, <1>10, <1>11, <1>12 DEF PlanInv

(***************************************************************************)
(* The mini graphs of a loop.                                              *)
(***************************************************************************)
\* The lists of a list, one after the other.
LEMMA FlattenFacts ==
  ASSUME NEW X, NEW seqs \in Seq(Seq(X))
  PROVE  FlattenSeq(seqs) \in Seq(X)
<1> DEFINE n == Len(seqs)
           Is(f) == f = [i \in 1..n |-> IF i = 1 THEN seqs[i] ELSE f[i - 1] \o seqs[i]]
           flatten == CHOOSE f : Is(f)
<1>1. n \in Nat /\ \A i \in 1..n : seqs[i] \in Seq(X)
  OBVIOUS
<1>2. FlattenSeq(seqs) = IF n = 0 THEN seqs ELSE flatten[n]
  BY DEF FlattenSeq
<1>3. CASE n = 0
  <2>1. seqs = <<>>
    BY <1>3
  <2> QED BY <1>2, <1>3, <2>1
<1>4. CASE n # 0
  <2> HIDE DEF n, flatten
  <2> DEFINE Upto(f, k) ==
               \A i \in 1..k : f[i] = IF i = 1 THEN seqs[i] ELSE f[i - 1] \o seqs[i]
             Done == {k \in 0..n : \E f \in [1..k -> Seq(X)] : Upto(f, k)}
  <2>1. 0 \in Done
    <3> DEFINE f == [i \in 1..0 |-> <<>>]
    <3>1. f \in [1..0 -> Seq(X)] /\ Upto(f, 0) /\ 0 \in 0..n
      BY <1>1
    <3> HIDE DEF f, Upto
    <3> QED BY <3>1
  <2>2. ASSUME NEW k \in 0..(n - 1), k \in Done PROVE k + 1 \in Done
    <3>1. PICK f \in [1..k -> Seq(X)] : Upto(f, k)
      BY <2>2
    <3>2. k \in Nat /\ k + 1 \in 1..n /\ k + 1 \in 0..n /\ (k + 1) - 1 = k
      BY <1>1
    <3> DEFINE next == IF k + 1 = 1 THEN seqs[k + 1] ELSE f[k] \o seqs[k + 1]
               g == [i \in 1..(k + 1) |-> IF i = k + 1 THEN next ELSE f[i]]
    <3>3. next \in Seq(X)
      <4>1. CASE k = 0
        BY <1>1, <3>2, <4>1
      <4>2. CASE k # 0
        <5>1. k \in 1..k
          BY <3>2, <4>2
        <5>2. f[k] \in Seq(X) /\ seqs[k + 1] \in Seq(X)
          BY <1>1, <3>2, <5>1
        <5> QED BY <5>2
      <4> QED BY <4>1, <4>2
    <3> HIDE DEF next
    <3>4. \A i \in 1..(k + 1) : i = k + 1 \/ i \in 1..k
      BY <3>2
    <3>5. g \in [1..(k + 1) -> Seq(X)]
      BY <3>3, <3>4
    <3>6. g[k + 1] = next /\ \A i \in 1..k : g[i] = f[i]
      <4>1. k + 1 \in 1..(k + 1) /\ \A i \in 1..k : i \in 1..(k + 1) /\ i # k + 1
        BY <3>2
      <4> QED BY <4>1
    <3> HIDE DEF g
    <3>7. ASSUME NEW i \in 1..(k + 1)
          PROVE  g[i] = IF i = 1 THEN seqs[i] ELSE g[i - 1] \o seqs[i]
      <4>1. CASE i = k + 1
        <5>1. k + 1 # 1 => k \in 1..k
          BY <3>2
        <5> QED BY <3>2, <3>6, <4>1, <5>1 DEF next
      <4>2. CASE i \in 1..k
        <5>1. i # 1 => i - 1 \in 1..k
          BY <4>2
        <5> QED BY <3>1, <3>6, <4>2, <5>1
      <4> QED BY <3>4, <4>1, <4>2
    <3>8. Upto(g, k + 1)
      BY <3>7
    <3> HIDE DEF Upto
    <3> QED BY <3>2, <3>5, <3>8
  <2>3. n \in Done
    <3> HIDE DEF Done
    <3>1. 0..n \subseteq Done
      BY <1>1, <2>1, <2>2, UpTo
    <3> QED BY <1>1, <3>1
  <2>4. PICK f \in [1..n -> Seq(X)] : Upto(f, n)
    BY <2>3
  <2>5. Is(f)
    BY <2>4
  <2>6. Is(flatten)
    BY <2>5 DEF flatten
  <2> DEFINE Good == {k \in 0..n : k # 0 => flatten[k] \in Seq(X)}
  <2>7. 0 \in Good
    BY <1>1
  <2>8. ASSUME NEW k \in 0..(n - 1), k \in Good PROVE k + 1 \in Good
    <3>1. k \in Nat /\ k + 1 \in 1..n /\ k + 1 \in 0..n /\ (k + 1) - 1 = k /\ seqs[k + 1] \in Seq(X)
      BY <1>1
    <3>2. flatten[k + 1] = IF k + 1 = 1 THEN seqs[k + 1] ELSE flatten[k] \o seqs[k + 1]
      BY <2>6, <3>1
    <3>3. flatten[k + 1] \in Seq(X)
      <4>1. CASE k = 0
        BY <3>1, <3>2, <4>1
      <4>2. CASE k # 0
        <5>1. flatten[k] \in Seq(X)
          BY <2>8, <4>2
        <5>2. k + 1 # 1
          BY <3>1, <4>2
        <5>3. flatten[k + 1] = flatten[k] \o seqs[k + 1]
          BY ONLY <3>2, <5>2
        <5> QED BY <3>1, <5>1, <5>3
      <4> QED BY <4>1, <4>2
    <3> QED BY <3>1, <3>3
  <2>9. n \in Good
    <3> HIDE DEF Good
    <3>1. 0..n \subseteq Good
      BY <1>1, <2>7, <2>8, UpTo
    <3> QED BY <1>1, <3>1
  <2> QED BY <1>2, <1>4, <2>9
<1> QED BY <1>3, <1>4

\* A list whose elements are all of a smaller set.
LEMMA SeqNarrowed ==
  ASSUME NEW X, NEW Y, NEW seq \in Seq(X), ToSet(seq) \subseteq Y
  PROVE  seq \in Seq(Y)
<1>1. DOMAIN seq = 1..Len(seq) /\ Len(seq) \in Nat /\ \A i \in 1..Len(seq) : seq[i] \in Y
  BY DEF ToSet
<1>2. seq = [i \in 1..Len(seq) |-> seq[i]]
  OBVIOUS
<1> QED BY <1>1, <1>2

\* The operations whose rows a mini graph could hold are those of loops further in.
LEMMA ConsumersFacts ==
  ASSUME NEW d \in Nat, MaxDep \in Nat, NEW X,
         \A e \in (d + 2)..MaxDep : set_ops[e] \in Seq(X)
  PROVE  Consumers(d) \in Seq(UNION {ToSet(set_ops[e]) : e \in (d + 2)..MaxDep})
<1> DEFINE m == MaxDep
           n == m - d - 1
           Y == UNION {ToSet(set_ops[e]) : e \in (d + 2)..m}
           Of(k) == LET ops == set_ops[m + 1 - k]
                    IN Only(ops, {op \in ToSet(ops) : Vertex \/ IsEdge(op)})
           seqs == [k \in 1..n |-> Of(k)]
<1>1. Consumers(d) = FlattenSeq(seqs)
  BY DEF Consumers
<1>2. ASSUME NEW k \in 1..n PROVE Of(k) \in Seq(Y)
  <2> DEFINE e == m + 1 - k
             ops == set_ops[e]
             wanted == {op \in ToSet(ops) : Vertex \/ IsEdge(op)}
  <2>1. e \in (d + 2)..m
    <3> HIDE DEF m
    <3>1. m \in Nat
      BY DEF m
    <3> QED BY <3>1
  <2>2. ops \in Seq(X)
    BY <2>1
  <2>3. Of(k) = Only(ops, wanted)
    OBVIOUS
  <2> HIDE DEF wanted, e, Of
  <2>4. Only(ops, wanted) \in Seq(X) /\ ToSet(Only(ops, wanted)) \subseteq ToSet(ops)
    BY <2>2, OnlyFacts
  <2>5. ToSet(ops) \subseteq Y
    BY <2>1
  <2> HIDE DEF Y, ops
  <2> QED BY <2>3, <2>4, <2>5, SeqNarrowed
<1> HIDE DEF Of, Y
<1>3. seqs \in Seq(Seq(Y))
  <2>1. n \in Int
    <3> HIDE DEF m
    <3>1. m \in Nat
      BY DEF m
    <3> QED BY <3>1
  <2> HIDE DEF n
  <2>2. CASE n \in Nat
    BY <1>2, <2>2
  <2>3. CASE n \notin Nat
    <3>1. 1..n = 1..0
      BY <2>1, <2>3
    <3>2. seqs = [k \in 1..0 |-> Of(k)]
      BY <3>1
    <3> HIDE DEF seqs
    <3> QED BY <3>2
  <2> QED BY <2>2, <2>3
<1> HIDE DEF seqs, n
<1>4. FlattenSeq(seqs) \in Seq(Y)
  BY <1>3, FlattenFacts
<1> QED BY <1>1, <1>4 DEF Y

\* Operations of an outer loop have other ids.
LEMMA OuterAmong ==
  ASSUME SetsInv, input \in Inputs, NEW d \in Loops, NEW e \in Loops, d < e,
         NEW op \in ToSet(set_ops[e])
  PROVE  op \in Ops /\ op.dep = e /\ OpOK(op, e) /\ Among(d, op)
<1>1. /\ set_ops \in [Loops -> Seq(Ops)] /\ DistinctIds(set_ops)
      /\ \A x \in ToSet(set_ops[e]) : OpOK(x, e)
      /\ \A x \in ToSet(set_ops[d]) : OpOK(x, d)
  BY DEF SetsInv
<1>2. PICK l \in DOMAIN set_ops[e] : op = set_ops[e][l]
  BY DEF ToSet
<1>3. op \in Ops
  BY <1>1, <1>2
<1>4. op.dep = e /\ OpOK(op, e)
  BY <1>1 DEF OpOK
<1>5. d \in Nat /\ e \in Nat /\ d # e
  BY InputFacts
<1>6. ASSUME NEW x \in ToSet(set_ops[d]) PROVE x.id # op.id
  <2>1. PICK k \in DOMAIN set_ops[d] : x = set_ops[d][k]
    BY DEF ToSet
  <2> QED BY <1>1, <1>2, <1>5, <2>1 DEF DistinctIds
<1>7. Among(d, op)
  BY <1>1, <1>4, <1>5, <1>6 DEF Among
<1> QED BY <1>3, <1>4, <1>7

\* Mini graphs without an id yet.
Unnamed(ops) == [vertices : ops, intersect : ops, id : {-1}]

\* What create_plan_mg collects for loop d.
LEMMA MiniGraphsOfFacts ==
  ASSUME SetsInv, input \in Inputs, phase = "collect", NEW d \in Loops
  PROVE  /\ MiniGraphsOf(d) \in Seq(Unnamed(ToSet(set_ops[d])))
         /\ \E wanted : \E kept \in Seq(Unnamed(ToSet(set_ops[d]))) :
              /\ ToSet(kept) \subseteq wanted
              /\ MiniGraphsOf(d) = Unique(Sorted(kept, LessOn(wanted, MGPrecedes)))
<1> DEFINE S == ToSet(set_ops[d])
           consumers == Consumers(d)
           n == Len(consumers)
           candidates == [k \in DOMAIN consumers |-> Candidate(consumers[k], d)]
           wanted == {mg \in ToSet(candidates) : Wanted(mg, d)}
           kept == Only(candidates, wanted)
           sorted == Sorted(kept, LessOn(wanted, MGPrecedes))
<1>1. /\ d \in Nat /\ MaxDep \in Nat /\ \A e \in (d + 2)..MaxDep : e \in Loops /\ e - 1 \in Loops
      /\ \A e \in (d + 2)..MaxDep : d < e /\ d < e - 1
  BY InputFacts
<1>2. /\ set_ops \in [Loops -> Seq(Ops)] /\ \A e \in Loops : iter_set[e] \in ToSet(set_ops[e])
  BY DEF SetsInv, LoopPlanned
<1>3. consumers \in Seq(UNION {ToSet(set_ops[e]) : e \in (d + 2)..MaxDep})
  BY <1>1, <1>2, ConsumersFacts
<1>4. n \in Nat /\ DOMAIN consumers = 1..n
  BY <1>3
<1>5. ASSUME NEW k \in 1..n
      PROVE  Candidate(consumers[k], d) \in Unnamed(S \union {None})
  <2> DEFINE op == consumers[k]
  <2>1. op \in UNION {ToSet(set_ops[e]) : e \in (d + 2)..MaxDep}
    BY <1>3
  <2>2. PICK e \in (d + 2)..MaxDep : op \in ToSet(set_ops[e])
    BY <2>1
  <2> HIDE DEF op, consumers
  <2>3. e \in Loops /\ e - 1 \in Loops /\ d < e /\ d < e - 1
    BY <1>1
  <2>4. op \in Ops /\ op.dep = e /\ Among(d, op)
    BY <2>2, <2>3, OuterAmong
  <2>5. iter_set[e - 1] \in Ops /\ Among(d, iter_set[e - 1])
    BY <1>2, <2>3, OuterAmong
  <2>6. PrefixParent(op, d) \in S \union {None}
    BY <2>4, PrefixParentFacts
  <2>7. PrefixParent(iter_set[e - 1], d) \in S \union {None}
    BY <2>5, PrefixParentFacts
  <2>8. Candidate(op, d) = [vertices |-> PrefixParent(iter_set[e - 1], d),
                            intersect |-> PrefixParent(op, d), id |-> -1]
    BY <2>4 DEF Candidate
  <2> QED BY <2>6, <2>7, <2>8 DEF op, Unnamed
<1> HIDE DEF n, consumers
<1>6. candidates \in Seq(Unnamed(S \union {None}))
  <2> DEFINE Y == Unnamed(S \union {None})
             c == [k \in 1..n |-> Candidate(consumers[k], d)]
  <2>1. candidates = c
    BY <1>4
  <2>2. c \in [1..n -> Y]
    BY <1>5
  <2> HIDE DEF Y, c, candidates
  <2>3. c \in Seq(Y)
    BY <1>4, <2>2
  <2> QED BY <2>1, <2>3 DEF Y
<1>7. MiniGraphsOf(d) = Unique(sorted)
  BY DEF MiniGraphsOf, consumers
<1> HIDE DEF candidates
<1>8. kept \in Seq(Unnamed(S \union {None})) /\ ToSet(kept) = ToSet(candidates) \intersect wanted
  <2> HIDE DEF wanted
  <2> QED BY <1>6, OnlyFacts
<1>9. ToSet(kept) \subseteq Unnamed(S)
  <2> SUFFICES ASSUME NEW mg \in ToSet(kept) PROVE mg \in Unnamed(S)
    OBVIOUS
  <2>1. mg.vertices # None /\ mg.intersect # None
    BY <1>8 DEF Wanted
  <2>2. mg \in Unnamed(S \union {None})
    <3> HIDE DEF kept, S
    <3> QED BY <1>8 DEF ToSet
  <2> HIDE DEF S, kept
  <2> QED BY <2>1, <2>2 DEF Unnamed
<1> HIDE DEF wanted, S, kept
<1>10. kept \in Seq(Unnamed(S))
  BY <1>8, <1>9, SeqNarrowed
<1>11. sorted \in Seq(Unnamed(S))
  BY <1>10, SortedFacts
<1>13. ToSet(kept) \subseteq wanted
  BY <1>8
<1>14. MiniGraphsOf(d) = Unique(Sorted(kept, LessOn(wanted, MGPrecedes)))
  BY <1>7
<1> HIDE DEF sorted
<1>12. Unique(sorted) \in Seq(Unnamed(S))
  BY <1>11, UniqueFacts
<1> QED BY <1>7, <1>10, <1>12, <1>13, <1>14 DEF S

\* create_plan_mg, the mini graphs of one loop.
LEMMA PlanCollected ==
  ASSUME PlanInv, CollectMiniGraphs
  PROVE  PlanInv'
<1>1. PICK d, next, all, mgs :
        /\ d = cursor[1] /\ next = cursor[2] /\ all = MiniGraphsOf(d) /\ mgs = Numbered(all, next)
  OBVIOUS
<1>2. /\ phase = "collect" /\ d <= MaxDep - 2
      /\ mg_ops' = [mg_ops EXCEPT ![d] = mgs] /\ cursor' = <<d + 1, next + Len(mgs)>>
      /\ UNCHANGED <<input, phase, set_ops, iter_set, mg_used, mg_bounded, indeedUsed>>
  BY <1>1 DEF CollectMiniGraphs
<1>3. /\ input \in Inputs /\ phase \in Phases /\ SetsInv /\ MiniGraphsInv /\ UsedInv
  BY DEF PlanInv
<1>4. /\ mg_ops \in [Loops -> Seq(MiniGraphs)] /\ DistinctIds(mg_ops)
      /\ \A e \in Loops : \A mg \in ToSet(mg_ops[e]) : MiniGraphOK(mg, e)
      /\ Pruning /\ d \in Nat /\ next \in Nat
      /\ \A e \in Loops : IdsBelow(ToSet(mg_ops[e]), next)
      /\ \A e \in Loops : e >= d => mg_ops[e] = <<>>
  BY <1>1, <1>2, <1>3 DEF MiniGraphsInv
<1>5. d \in Loops /\ \A e \in Loops : e \in Nat
  <2>1. /\ MaxDep \in Nat /\ MaxDep <= input.size - 2 /\ input.size \in Nat
        /\ Loops = 0..(input.size - 2) /\ \A e \in Loops : e \in Nat
    BY <1>3, InputFacts
  <2> QED BY <1>2, <1>4, <2>1
<1>6. Loops' = Loops /\ (Pruning' <=> Pruning)
  BY <1>2, InputStays
<1>7. SetsInv'
  BY <1>2, SetsStay
<1> DEFINE S == ToSet(set_ops[d])
<1>8. all \in Seq(Unnamed(S))
  BY <1>1, <1>2, <1>3, <1>5, MiniGraphsOfFacts
<1>9. S \subseteq Ops
  BY <1>3, <1>5 DEF SetsInv, ToSet
<1> HIDE DEF S
<1>10. /\ Len(mgs) = Len(all) /\ Len(all) \in Nat /\ DOMAIN mgs = 1..Len(all)
       /\ \A k \in 1..Len(all) : mgs[k] = [all[k] EXCEPT !.id = next + k - 1]
       /\ \A k \in 1..Len(all) : all[k] \in Unnamed(S)
       /\ mgs = [k \in 1..Len(all) |-> [all[k] EXCEPT !.id = next + k - 1]]
  <2>1. mgs = [k \in DOMAIN all |-> [all[k] EXCEPT !.id = next + k - 1]] /\ DOMAIN all = 1..Len(all)
    BY <1>1, <1>8 DEF Numbered
  <2>2. /\ Len(mgs) = Len(all) /\ Len(all) \in Nat /\ DOMAIN mgs = 1..Len(all)
        /\ \A k \in 1..Len(all) : mgs[k] = [all[k] EXCEPT !.id = next + k - 1]
        /\ \A k \in 1..Len(all) : all[k] \in Unnamed(S)
    BY <1>1, <1>4, <1>8, NumberedFacts
  <2> QED BY <2>1, <2>2
<1>11. ASSUME NEW k \in 1..Len(all)
       PROVE  /\ mgs[k] \in MiniGraphs /\ mgs[k].id = next + k - 1
              /\ {mgs[k].vertices, mgs[k].intersect} \subseteq S
  <2>1. all[k] \in Unnamed(S) /\ mgs[k] = [all[k] EXCEPT !.id = next + k - 1]
    BY <1>10
  <2>2. next + k - 1 \in Nat
    BY <1>4, <1>10
  <2> QED BY <1>9, <2>1, <2>2 DEF Unnamed, MiniGraphs
<1>12. mgs \in Seq(MiniGraphs) /\ Numbering(mgs, next)
  <2>1. \A k \in 1..Len(all) : [all[k] EXCEPT !.id = next + k - 1] \in MiniGraphs
    BY <1>10, <1>11
  <2>2. mgs \in Seq(MiniGraphs)
    BY <1>10, <2>1
  <2>3. Numbering(mgs, next)
    BY <1>10, <1>11 DEF Numbering
  <2> QED BY <2>2, <2>3
<1>13. \A mg \in ToSet(mgs) : {mg.vertices, mg.intersect} \subseteq S
  BY <1>10, <1>11 DEF ToSet
<1>14. PICK made : made = [mg_ops EXCEPT ![d] = mgs]
  OBVIOUS
<1>15. /\ DistinctIds(made) /\ made \in [Loops -> Seq(MiniGraphs)]
       /\ \A e \in Loops : IdsBelow(ToSet(made[e]), next + Len(mgs))
  BY <1>4, <1>5, <1>12, <1>14, NumberingAdds
<1>16. MiniGraphsInv'
  <2>1. mg_ops' \in [Loops' -> Seq(MiniGraphs)] /\ DistinctIds(mg_ops)'
    BY <1>2, <1>6, <1>14, <1>15 DEF DistinctIds
  <2>2. mg_ops'[d] = mgs /\ \A e \in Loops : e # d => mg_ops'[e] = mg_ops[e]
    BY <1>2, <1>4, <1>5
  <2>3. ASSUME NEW e \in Loops, NEW mg \in ToSet(mg_ops'[e])
        PROVE  {mg.vertices, mg.intersect} \subseteq ToSet(set_ops'[e])
    <3>1. CASE e = d
      BY <1>2, <1>13, <2>2, <2>3, <3>1 DEF S
    <3>2. CASE e # d
      BY <1>2, <1>4, <2>2, <2>3, <3>2 DEF MiniGraphOK
    <3> QED BY <3>1, <3>2
  <2>4. next + Len(mgs) \in Nat /\ d + 1 \in Nat
    BY <1>4, <1>10
  <2>5. cursor'[1] = d + 1 /\ cursor'[2] = next + Len(mgs)
    BY <1>2
  <2>6. \A e \in Loops : IdsBelow(ToSet(mg_ops'[e]), next + Len(mgs))
    BY <1>2, <1>14, <1>15
  <2>7. ASSUME NEW e \in Loops, e >= d + 1 PROVE mg_ops'[e] = <<>>
    <3>1. e # d /\ e >= d
      BY <1>4, <1>5, <2>7
    <3> QED BY <1>4, <2>2, <3>1
  <2>8. phase' = "collect" /\ phase' # "create_plan" /\ Collecting'
    BY <1>2 DEF Collecting
  <2>9. \E n \in Nat : \A e \in Loops : IdsBelow(ToSet(mg_ops'[e]), n)
    BY <2>4, <2>6
  <2> QED BY <1>4, <1>6, <2>1, <2>3, <2>4, <2>5, <2>6, <2>7, <2>8, <2>9
         DEF MiniGraphsInv, MiniGraphOK
<1>17. UsedInv'
  <2>1. Collecting /\ Collecting'
    BY <1>2 DEF Collecting
  <2>2. \A e \in Loops : mg_used[e] = <<>>
    BY <1>3, <2>1 DEF UsedInv
  <2>3. /\ mg_used \in [Loops -> Seq(MiniGraphs)] /\ mg_used[0] = <<>>
        /\ DOMAIN mg_bounded \subseteq Nat /\ indeedUsed \subseteq DOMAIN mg_bounded
        /\ Collecting => indeedUsed = {}
    BY <1>3 DEF UsedInv
  <2>4. \A e \in Loops : ToSet(mg_used[e]) = {}
    BY <2>2 DEF ToSet
  <2> QED BY <1>2, <1>6, <2>1, <2>2, <2>3, <2>4 DEF UsedInv
<1> QED BY <1>2, <1>3, <1>7, <1>16, <1>17 DEF PlanInv

(***************************************************************************)
(* What the mini graphs are used for.                                      *)
(***************************************************************************)
\* The mini graphs that have the row an operation needs.
Matching(op) ==
  {mg \in MiniGraphsTo(op.dep - 1) : MGSuperset(mg, iter_set[op.dep - 1], op)}

\* A mini graph in scope.
LEMMA InScope ==
  ASSUME PlanInv, NEW d \in Loops, NEW mg \in MiniGraphsTo(d)
  PROVE  /\ mg \in MiniGraphs /\ mg.id \in Nat /\ mg_dep(mg) \in 0..d
         /\ mg.vertices \in ToSet(set_ops[mg_dep(mg)])
         /\ ~Collecting => mg.id \in DOMAIN mg_bounded
         /\ mg \in ToSet(mg_ops[mg_dep(mg)])
<1>1. input \in Inputs /\ SetsInv /\ MiniGraphsInv
  BY DEF PlanInv
<1>2. PICK e \in 0..d : mg \in ToSet(mg_ops[e])
  BY DEF MiniGraphsTo
<1>3. e \in Loops
  BY <1>1, InputFacts
<1>4. /\ mg_ops[e] \in Seq(MiniGraphs) /\ MiniGraphOK(mg, e)
      /\ ~Collecting => mg.id \in DOMAIN mg_bounded
  BY <1>1, <1>2, <1>3 DEF MiniGraphsInv
<1>5. mg \in MiniGraphs
  BY <1>2, <1>4 DEF ToSet
<1>6. mg.vertices \in ToSet(set_ops[e]) /\ mg.vertices.dep = e
  BY <1>1, <1>3, <1>4 DEF MiniGraphOK, SetsInv, OpOK
<1> QED BY <1>2, <1>4, <1>5, <1>6 DEF MiniGraphs, mg_dep

\* A loop declares what the loops inside it have in scope, and an id stands for one.
LEMMA ScopeOfGraphs ==
  ASSUME PlanInv, NEW d \in Loops
  PROVE  /\ \A a, b \in MiniGraphsTo(d) : a.id = b.id => a = b
         /\ \A e \in 0..d : e \in Loops /\ ToSet(mg_ops[e]) \subseteq MiniGraphsTo(d)
         /\ \E n \in Nat : IdsBelow(MiniGraphsTo(d), n)
<1>1. input \in Inputs /\ SetsInv /\ MiniGraphsInv
  BY DEF PlanInv
<1>2. \A e \in 0..d : e \in Loops
  BY <1>1, InputFacts
<1>3. \A e \in 0..d : ToSet(mg_ops[e]) \subseteq MiniGraphsTo(d)
  BY DEF MiniGraphsTo
<1>4. ASSUME NEW a \in MiniGraphsTo(d), NEW b \in MiniGraphsTo(d), a.id = b.id PROVE a = b
  <2>1. PICK e \in 0..d : \E k \in DOMAIN mg_ops[e] : mg_ops[e][k] = a
    BY DEF MiniGraphsTo, ToSet
  <2>2. PICK f \in 0..d : \E k \in DOMAIN mg_ops[f] : mg_ops[f][k] = b
    BY DEF MiniGraphsTo, ToSet
  <2>3. DistinctIds(mg_ops)
    BY <1>1 DEF MiniGraphsInv
  <2> QED BY <1>2, <1>4, <2>1, <2>2, <2>3 DEF DistinctIds
<1>5. PICK n \in Nat : \A e \in Loops : IdsBelow(ToSet(mg_ops[e]), n)
  BY <1>1 DEF MiniGraphsInv
<1>6. IdsBelow(MiniGraphsTo(d), n)
  BY <1>2, <1>5 DEF IdsBelow, MiniGraphsTo
<1> QED BY <1>2, <1>3, <1>4, <1>6

\* get_parent_mg(vset) is the last of those that match.
LEMMA ParentMGFacts ==
  ASSUME PlanInv, NEW d \in Loops, NEW op \in ToSet(set_ops[d]), get_parent_mg(op) # None
  PROVE  /\ d # 0 /\ d - 1 \in Loops /\ op.dep = d
         /\ get_parent_mg(op) \in MiniGraphsTo(d - 1)
         /\ MGSuperset(get_parent_mg(op), iter_set[d - 1], op)
         /\ \A mg \in MiniGraphsTo(d - 1) :
              MGSuperset(mg, iter_set[d - 1], op) => mg.id <= get_parent_mg(op).id
<1>1. input \in Inputs /\ SetsInv
  BY DEF PlanInv
<1>2. op.dep = d
  BY <1>1 DEF SetsInv, OpOK
<1>3. op.dep # 0 /\ get_parent_mg(op) = LastOf(Matching(op))
  BY DEF get_parent_mg, Matching
<1>4. d # 0 /\ d - 1 \in Loops
  BY <1>1, <1>2, <1>3, InputFacts
<1>5. Matching(op) # {}
  BY <1>3 DEF LastOf
<1>6. PICK n \in Nat : IdsBelow(MiniGraphsTo(d - 1), n)
  BY <1>4, ScopeOfGraphs
<1>7. IdsBelow(Matching(op), n)
  BY <1>2, <1>6 DEF IdsBelow, Matching
<1>8. LastOf(Matching(op)) \in Matching(op)
      /\ \A mg \in Matching(op) : mg.id <= LastOf(Matching(op)).id
  BY <1>5, <1>7, LastOfFacts
<1> QED BY <1>2, <1>3, <1>4, <1>8 DEF Matching

\* get_parent_mg(child) too.
LEMMA MGParentFacts ==
  ASSUME PlanInv, NEW d \in Loops, NEW child \in ToSet(mg_ops[d]), MGParent(child) # None
  PROVE  /\ mg_dep(child) = d /\ MGParent(child) \in MiniGraphsTo(d)
         /\ MGSuperset(MGParent(child), child.vertices, child.intersect)
         /\ MGParent(child).id # child.id
<1>1. input \in Inputs /\ SetsInv /\ MiniGraphsInv
  BY DEF PlanInv
<1>2. mg_dep(child) = d
  BY <1>1 DEF MiniGraphsInv, MiniGraphOK, SetsInv, OpOK, mg_dep
<1> DEFINE P == {mg \in MiniGraphsTo(mg_dep(child)) :
                   /\ MGSuperset(mg, child.vertices, child.intersect) /\ mg.id # child.id
                   /\ (mg_bounded[mg.id] => mg_bounded[child.id])}
<1>3. MGParent(child) = LastOf(P)
  BY DEF MGParent
<1>4. P # {}
  BY <1>3 DEF LastOf
<1>5. PICK n \in Nat : IdsBelow(MiniGraphsTo(d), n)
  BY ScopeOfGraphs
<1>6. IdsBelow(P, n)
  BY <1>2, <1>5 DEF IdsBelow
<1> HIDE DEF P
<1>7. MGParent(child) \in P
  BY <1>3, <1>4, <1>6, LastOfFacts
<1> QED BY <1>2, <1>7 DEF P

\* create_plan_mg, when all mini graphs have been collected.
LEMMA PlanCollectEnds ==
  ASSUME PlanInv, EndCollect
  PROVE  PlanInv'
<1> DEFINE all == {mg.id : mg \in UNION {ToSet(mg_ops[d]) : d \in Loops}}
<1>1. /\ phase = "collect" /\ phase' = "mark" /\ cursor' = <<1, 1>>
      /\ mg_bounded' = [id \in all |-> TRUE]
      /\ UNCHANGED <<input, set_ops, iter_set, mg_ops, mg_used, indeedUsed>>
  BY DEF EndCollect
<1>2. /\ input \in Inputs /\ SetsInv /\ MiniGraphsInv /\ UsedInv
  BY DEF PlanInv
<1>3. Loops' = Loops /\ MaxDep' = MaxDep /\ (Pruning' <=> Pruning)
  BY <1>1, InputStays
<1>4. SetsInv'
  BY <1>1, SetsStay
<1>5. Collecting /\ ~Collecting' /\ phase' \in Phases
  BY <1>1 DEF Collecting, Phases
<1>6. MiniGraphsInv'
  <2>1. /\ mg_ops \in [Loops -> Seq(MiniGraphs)] /\ DistinctIds(mg_ops)
        /\ \A d \in Loops : \A mg \in ToSet(mg_ops[d]) : MiniGraphOK(mg, d)
        /\ \E n \in Nat : \A d \in Loops : IdsBelow(ToSet(mg_ops[d]), n)
        /\ Pruning
    BY <1>1, <1>2 DEF MiniGraphsInv
  <2>2. DistinctIds(mg_ops)'
    BY <1>1, <1>3, <2>1 DEF DistinctIds
  <2>3. \A d \in Loops : \A mg \in ToSet(mg_ops[d]) : mg.id \in DOMAIN mg_bounded'
    BY <1>1
  <2>4. \A d \in Loops : \A mg \in ToSet(mg_ops[d]) : MiniGraphOK(mg, d)'
    BY <1>1, <2>1 DEF MiniGraphOK
  <2> QED BY <1>1, <1>3, <2>1, <2>2, <2>3, <2>4 DEF MiniGraphsInv
<1>7. UsedInv'
  <2>1. /\ mg_used \in [Loops -> Seq(MiniGraphs)] /\ mg_used[0] = <<>> /\ indeedUsed = {}
        /\ \A d \in Loops : mg_used[d] = <<>>
    BY <1>2, <1>5 DEF UsedInv
  <2>2. \A d \in Loops : ToSet(mg_used[d]) = {}
    BY <2>1 DEF ToSet
  <2>3. all \subseteq Nat
    <3> SUFFICES ASSUME NEW d \in Loops, NEW mg \in ToSet(mg_ops[d]) PROVE mg.id \in Nat
      OBVIOUS
    <3>1. mg_ops[d] \in Seq(MiniGraphs)
      BY <1>2 DEF MiniGraphsInv
    <3>2. mg \in MiniGraphs
      BY <3>1 DEF ToSet
    <3> QED BY <3>2 DEF MiniGraphs
  <2>4. DOMAIN mg_bounded' \subseteq Nat
    BY <1>1, <2>3
  <2>5. MaxDep \in Nat /\ \A d \in Loops : d \in Nat
    BY <1>2, InputFacts
  <2>6. cursor'[1] = 1 /\ 1 \in 1..(MaxDep + 1)
    BY <1>1, <2>5
  <2>7. LoopMarked(0)
    <3>1. 0 \in Loops
      BY <1>2, InputFacts
    <3>2. \A op \in ToSet(set_ops[0]) : op.dep = 0
      BY <1>2, <3>1 DEF SetsInv, OpOK
    <3> QED BY <3>2 DEF LoopMarked, get_parent_mg
  <2>8. LoopMarked(0)'
    BY <1>1, <2>7, MarkedStays
  <2>9. \A d \in Loops : d < 1 => d = 0
    BY <2>5
  <2> QED BY <1>1, <1>3, <1>5, <2>1, <2>2, <2>4, <2>6, <2>8, <2>9 DEF UsedInv
<1> QED BY <1>1, <1>2, <1>4, <1>5, <1>6, <1>7 DEF PlanInv

\* create_plan_mg marks what one loop reads.
LEMMA PlanMarked ==
  ASSUME PlanInv, MarkUsed
  PROVE  PlanInv'
<1>1. PICK d, users, used, ids :
        /\ d = cursor[1]
        /\ users = Only(set_ops[d], {op \in ToSet(set_ops[d]) : get_parent_mg(op) # None})
        /\ used = [k \in DOMAIN users |-> get_parent_mg(users[k])]
        /\ ids = {mg.id : mg \in ToSet(used)}
  OBVIOUS
<1>2. /\ phase = "mark" /\ d <= MaxDep /\ cursor' = <<d + 1, 1>>
      /\ mg_used' = [mg_used EXCEPT ![d] = Distinct(used)]
      /\ DOMAIN mg_bounded' = DOMAIN mg_bounded
      /\ indeedUsed' = indeedUsed \union ids
      /\ UNCHANGED <<input, phase, set_ops, iter_set, mg_ops>>
  BY <1>1 DEF MarkUsed
<1>3. /\ input \in Inputs /\ phase \in Phases /\ SetsInv /\ MiniGraphsInv /\ UsedInv
  BY DEF PlanInv
<1>4. /\ Loops' = Loops /\ MaxDep' = MaxDep /\ (Pruning' <=> Pruning)
  BY <1>2, InputStays
<1>5. /\ ~Collecting /\ ~Collecting' /\ phase' = "mark"
  BY <1>2 DEF Collecting
<1>6. SetsInv' /\ MiniGraphsInv'
  BY <1>2, <1>5, SetsStay, MiniGraphsStay
<1>7. /\ MaxDep \in Nat /\ MaxDep <= input.size - 2 /\ input.size \in Nat
      /\ Loops = 0..(input.size - 2) /\ \A e \in Loops : e \in Nat
  BY <1>3, InputFacts
<1>8. d \in 1..(MaxDep + 1) /\ \A e \in Loops : e >= d => mg_used[e] = <<>>
  BY <1>1, <1>2, <1>3 DEF UsedInv
<1>9. d \in Loops /\ d \in Nat /\ d # 0 /\ d + 1 \in 1..(MaxDep + 1)
  BY <1>2, <1>7, <1>8
<1> DEFINE S == ToSet(set_ops[d])
<1>10. /\ users \in Seq(Ops) /\ ToSet(users) = {op \in S : get_parent_mg(op) # None}
  <2>1. set_ops[d] \in Seq(Ops)
    BY <1>3, <1>9 DEF SetsInv
  <2> DEFINE wanted == {op \in S : get_parent_mg(op) # None}
  <2>2. wanted \subseteq S
    OBVIOUS
  <2>3. users = Only(set_ops[d], wanted)
    BY <1>1
  <2> HIDE DEF wanted
  <2>4. users \in Seq(Ops) /\ ToSet(users) = S \intersect wanted
    BY <2>1, <2>3, OnlyFacts
  <2>5. ToSet(users) = wanted
    BY <2>2, <2>4
  <2> QED BY <2>4, <2>5 DEF wanted
<1>11. ToSet(used) = {get_parent_mg(op) : op \in ToSet(users)}
  <2>1. DOMAIN used = DOMAIN users /\ \A k \in DOMAIN users : used[k] = get_parent_mg(users[k])
    BY <1>1
  <2> HIDE <1>1
  <2>2. ASSUME NEW mg \in ToSet(used) PROVE \E op \in ToSet(users) : mg = get_parent_mg(op)
    <3>1. PICK k \in DOMAIN users : mg = used[k]
      BY <2>1, <2>2 DEF ToSet
    <3>2. users[k] \in ToSet(users) /\ mg = get_parent_mg(users[k])
      BY <2>1, <3>1 DEF ToSet
    <3> QED BY <3>2
  <2>3. ASSUME NEW op \in ToSet(users) PROVE get_parent_mg(op) \in ToSet(used)
    <3>1. PICK k \in DOMAIN users : op = users[k]
      BY <2>3 DEF ToSet
    <3>2. used[k] = get_parent_mg(op) /\ k \in DOMAIN used
      BY <2>1, <3>1
    <3>3. used[k] \in ToSet(used)
      BY <3>2 DEF ToSet
    <3> QED BY <3>2, <3>3
  <2> QED BY <2>2, <2>3
<1>12. \A op \in ToSet(users) :
         /\ get_parent_mg(op) \in MiniGraphsTo(d - 1) /\ d - 1 \in Loops
         /\ MGSuperset(get_parent_mg(op), iter_set[d - 1], op)
         /\ get_parent_mg(op) \in MiniGraphs /\ get_parent_mg(op).id \in DOMAIN mg_bounded
  <2> SUFFICES ASSUME NEW op \in S, get_parent_mg(op) # None
               PROVE  /\ get_parent_mg(op) \in MiniGraphsTo(d - 1) /\ d - 1 \in Loops
                      /\ MGSuperset(get_parent_mg(op), iter_set[d - 1], op)
                      /\ get_parent_mg(op) \in MiniGraphs
                      /\ get_parent_mg(op).id \in DOMAIN mg_bounded
    BY <1>10
  <2>1. /\ get_parent_mg(op) \in MiniGraphsTo(d - 1) /\ d - 1 \in Loops
        /\ MGSuperset(get_parent_mg(op), iter_set[d - 1], op)
    BY <1>9, ParentMGFacts
  <2>2. get_parent_mg(op) \in MiniGraphs /\ get_parent_mg(op).id \in DOMAIN mg_bounded
    BY <1>5, <2>1, InScope
  <2> QED BY <2>1, <2>2
<1>13. used \in Seq(MiniGraphs)
  <2>1. DOMAIN users = 1..Len(users) /\ Len(users) \in Nat
    BY <1>10
  <2>2. \A k \in 1..Len(users) : users[k] \in ToSet(users)
    BY <2>1 DEF ToSet
  <2>3. \A k \in 1..Len(users) : get_parent_mg(users[k]) \in MiniGraphs
    BY <1>12, <2>2
  <2> DEFINE c == [k \in 1..Len(users) |-> get_parent_mg(users[k])]
  <2>4. used = c
    BY <1>1, <2>1
  <2>5. c \in [1..Len(users) -> MiniGraphs]
    BY <2>3
  <2> HIDE DEF c
  <2>6. c \in Seq(MiniGraphs)
    BY <2>1, <2>5
  <2> QED BY <2>4, <2>6
<1> HIDE DEF S
<1>14. Distinct(used) \in Seq(MiniGraphs) /\ ToSet(Distinct(used)) = ToSet(used)
  BY <1>13, DistinctFacts
<1>15. /\ mg_used \in [Loops -> Seq(MiniGraphs)] /\ mg_used[0] = <<>>
       /\ DOMAIN mg_bounded \subseteq Nat /\ indeedUsed \subseteq DOMAIN mg_bounded
       /\ \A e \in Loops : \A mg \in ToSet(mg_used[e]) : UsedOK(mg, e)
       /\ \A e \in Loops : e <= MaxDep /\ e < d => LoopMarked(e)
       /\ ~Pruning => \A e \in Loops : mg_used[e] = <<>>
  BY <1>1, <1>2, <1>3, <1>5 DEF UsedInv
<1>16. /\ mg_used' \in [Loops -> Seq(MiniGraphs)] /\ mg_used'[d] = Distinct(used)
       /\ \A e \in Loops : e # d => mg_used'[e] = mg_used[e]
  BY <1>2, <1>9, <1>14, <1>15
<1>17. mg_used'[0] = <<>>
  <2>1. 0 \in Loops
    BY <1>7
  <2> QED BY <1>9, <1>15, <1>16, <2>1
<1>18. ids \subseteq DOMAIN mg_bounded
  BY <1>1, <1>11, <1>12
<1>19. indeedUsed' \subseteq DOMAIN mg_bounded' /\ indeedUsed \subseteq indeedUsed'
  BY <1>2, <1>15, <1>18
<1>20. ASSUME NEW e \in Loops, NEW mg \in ToSet(mg_used'[e]) PROVE UsedOK(mg, e)'
  <2>1. CASE e = d
    <3>1. PICK op \in ToSet(users) : mg = get_parent_mg(op)
      BY <1>11, <1>14, <1>16, <1>20, <2>1
    <3>2. /\ mg \in MiniGraphsTo(d - 1) /\ IsSuperset(mg.vertices, iter_set[d - 1])
      BY <1>12, <3>1 DEF MGSuperset
    <3>3. mg.id \in indeedUsed'
      BY <1>1, <1>2, <1>11, <3>1
    <3>4. PICK iter : iter = iter_set[d - 1]
      OBVIOUS
    <3>5. iter_set'[d - 1] = iter
      BY <1>2, <3>4
    <3>6. mg \in MiniGraphsTo(d - 1)' /\ IsSuperset(mg.vertices, iter)'
      BY <1>2, <3>2, <3>4, ParentStays
    <3> QED BY <2>1, <3>3, <3>4, <3>5, <3>6 DEF UsedOK
  <2>2. CASE e # d
    <3>1. UsedOK(mg, e)
      BY <1>15, <1>16, <1>20, <2>2
    <3> QED BY <1>2, <1>19, <3>1, UsedStays
  <2> QED BY <2>1, <2>2
<1>21. ASSUME NEW e \in Loops, e <= MaxDep, e < d + 1 PROVE LoopMarked(e)'
  <2>1. CASE e = d
    <3> SUFFICES ASSUME NEW op \in ToSet(set_ops[d]), get_parent_mg(op) # None
                 PROVE  get_parent_mg(op) \in ToSet(mg_used'[d])
      BY <1>2, <2>1, ParentStays DEF LoopMarked
    <3>1. op \in ToSet(users)
      BY <1>10 DEF S
    <3> QED BY <1>11, <1>14, <1>16, <3>1
  <2>2. CASE e # d
    <3>1. e < d
      BY <1>7, <1>9, <1>21, <2>2
    <3>2. LoopMarked(e)
      BY <1>15, <1>21, <3>1
    <3> QED BY <1>2, <1>16, <2>2, <3>2, MarkedStays
  <2> QED BY <2>1, <2>2
<1>22. \A e \in Loops : e >= d + 1 => mg_used'[e] = <<>>
  <2> SUFFICES ASSUME NEW e \in Loops, e >= d + 1 PROVE mg_used'[e] = <<>>
    OBVIOUS
  <2>1. e # d /\ e >= d
    BY <1>7, <1>9
  <2> QED BY <1>8, <1>16, <2>1
<1>23. UsedInv'
  <2>1. cursor'[1] = d + 1
    BY <1>2
  <2>2. Pruning
    BY <1>2, <1>3 DEF MiniGraphsInv
  <2> QED BY <1>2, <1>4, <1>5, <1>9, <1>15, <1>16, <1>17, <1>19, <1>20, <1>21, <1>22, <2>1, <2>2
          DEF UsedInv
<1> QED BY <1>2, <1>3, <1>6, <1>23 DEF PlanInv

\* create_plan_mg hands the use of a mini graph on to the one it is built from.
LEMMA PlanInherited ==
  ASSUME PlanInv, Inherit
  PROVE  PlanInv'
<1>1. PICK d, child, parent :
        d = cursor[1] /\ child = mg_ops[d][cursor[2]] /\ parent = MGParent(child)
  OBVIOUS
<1>2. /\ phase = "inherit" /\ d >= 0 /\ cursor[2] <= Len(mg_ops[d])
      /\ \/ indeedUsed' = indeedUsed
         \/ parent # None /\ indeedUsed' = indeedUsed \union {parent.id}
      /\ DOMAIN mg_bounded' = DOMAIN mg_bounded
      /\ cursor' = <<d, cursor[2] + 1>>
      /\ UNCHANGED <<input, phase, set_ops, iter_set, mg_ops, mg_used>>
  <2>1. /\ phase = "inherit" /\ d >= 0 /\ cursor[2] <= Len(mg_ops[d])
        /\ DOMAIN mg_bounded' = DOMAIN mg_bounded
        /\ cursor' = <<d, cursor[2] + 1>>
        /\ UNCHANGED <<input, phase, set_ops, iter_set, mg_ops, mg_used>>
    BY <1>1 DEF Inherit
  <2>2. indeedUsed' = indeedUsed \union
          (IF child.id \in indeedUsed /\ parent # None THEN {parent.id} ELSE {})
    BY <1>1 DEF Inherit
  <2> QED BY <2>1, <2>2
<1>3. /\ input \in Inputs /\ phase \in Phases /\ SetsInv /\ MiniGraphsInv /\ UsedInv
  BY DEF PlanInv
<1>4. /\ MaxDep \in Nat /\ MaxDep <= input.size - 2 /\ input.size \in Nat
      /\ Loops = 0..(input.size - 2)
  BY <1>3, InputFacts
<1>5. d \in -1..MaxDep /\ cursor[2] \in Nat \ {0}
  BY <1>1, <1>2, <1>3 DEF UsedInv
<1>6. d \in Loops /\ cursor[2] + 1 \in Nat \ {0}
  BY <1>2, <1>4, <1>5
<1>7. ~Collecting /\ ~Collecting' /\ phase' = "inherit"
  BY <1>2 DEF Collecting
<1>8. child \in ToSet(mg_ops[d])
  <2>1. mg_ops[d] \in Seq(MiniGraphs)
    BY <1>3, <1>6 DEF MiniGraphsInv
  <2>2. cursor[2] \in DOMAIN mg_ops[d]
    BY <1>2, <1>5, <2>1
  <2> QED BY <1>1, <2>2 DEF ToSet
<1>9. parent # None => parent.id \in DOMAIN mg_bounded
  <2> SUFFICES ASSUME parent # None PROVE parent.id \in DOMAIN mg_bounded
    OBVIOUS
  <2>1. MGParent(child) \in MiniGraphsTo(d)
    BY <1>1, <1>6, <1>8, MGParentFacts
  <2> QED BY <1>1, <1>6, <1>7, <2>1, InScope
<1>10. indeedUsed \subseteq indeedUsed' /\ indeedUsed' \subseteq DOMAIN mg_bounded
  <2>1. indeedUsed \subseteq DOMAIN mg_bounded
    BY <1>3 DEF UsedInv
  <2> QED BY <1>2, <1>9, <2>1
<1>11. SetsInv' /\ MiniGraphsInv'
  BY <1>2, <1>7, SetsStay, MiniGraphsStay
<1>12. cursor'[1] \in -1..MaxDep /\ cursor'[2] \in Nat \ {0}
  BY <1>2, <1>5, <1>6
<1>13. UsedInv'
  BY <1>2, <1>7, <1>10, <1>12, UsesStay
<1> QED BY <1>2, <1>3, <1>11, <1>13 DEF PlanInv

\* The steps between the loops of create_plan_mg, and all later ones, change no plan.
LEMMA PlanStays ==
  ASSUME PlanInv, ~Collecting, ~Collecting', phase' \in Phases, phase' # "mark",
         UNCHANGED <<input, set_ops, iter_set, mg_ops, mg_used, mg_bounded, indeedUsed>>,
         phase = "mark" => cursor[1] > MaxDep,
         phase' \in {"inherit", "erase"} => phase \in {"mark", "inherit", "erase"},
         phase' = "inherit" => cursor'[1] \in -1..MaxDep /\ cursor'[2] \in Nat \ {0},
         phase' = "erase" => cursor'[1] \in Loops /\ cursor'[2] \in Nat \ {0}
  PROVE  PlanInv'
<1>1. indeedUsed \subseteq DOMAIN mg_bounded /\ input \in Inputs
  BY DEF PlanInv, UsedInv
<1>2. SetsInv' /\ MiniGraphsInv'
  BY SetsStay, MiniGraphsStay DEF Collecting
<1>3. UsedInv'
  BY <1>1, UsesStay
<1> QED BY <1>1, <1>2, <1>3 DEF PlanInv

\* create_plan_mg between its loops.
LEMMA PlanPasses ==
  ASSUME PlanInv, EndMark \/ EndInherit \/ EndErase
  PROVE  PlanInv'
<1>1. /\ MaxDep \in Nat /\ MaxDep <= input.size - 2 /\ input.size \in Nat
      /\ Loops = 0..(input.size - 2)
  BY InputFacts DEF PlanInv
<1>2. CASE EndMark
  <2>1. /\ phase = "mark" /\ cursor[1] > MaxDep /\ phase' = "inherit" /\ cursor' = <<MaxDep, 1>>
        /\ UNCHANGED <<input, set_ops, iter_set, mg_ops, mg_used, mg_bounded, indeedUsed>>
    BY <1>2 DEF EndMark
  <2>2. cursor'[1] \in -1..MaxDep /\ cursor'[2] \in Nat \ {0}
    BY <1>1, <2>1
  <2> QED BY <2>1, <2>2, PlanStays DEF Collecting, Phases
<1>3. CASE EndInherit
  <2>1. /\ phase = "inherit"
        /\ \/ cursor[1] >= 0 /\ cursor' = <<cursor[1] - 1, 1>> /\ phase' = phase
           \/ cursor[1] < 0 /\ cursor' = <<0, 1>> /\ phase' = "erase"
        /\ UNCHANGED <<input, set_ops, iter_set, mg_ops, mg_used, mg_bounded, indeedUsed>>
    BY <1>3 DEF EndInherit
  <2>2. cursor[1] \in -1..MaxDep
    BY <2>1 DEF PlanInv, UsedInv
  <2>3. CASE phase' = phase /\ cursor[1] >= 0 /\ cursor' = <<cursor[1] - 1, 1>>
    <3>1. cursor'[1] \in -1..MaxDep /\ cursor'[2] \in Nat \ {0}
      BY <1>1, <2>2, <2>3
    <3> QED BY <2>1, <2>3, <3>1, PlanStays DEF Collecting, Phases
  <2>4. CASE cursor' = <<0, 1>> /\ phase' = "erase"
    <3>1. cursor'[1] \in Loops /\ cursor'[2] \in Nat \ {0}
      BY <1>1, <2>4
    <3> QED BY <2>1, <2>4, <3>1, PlanStays DEF Collecting, Phases
  <2> QED BY <2>1, <2>3, <2>4
<1>4. CASE EndErase
  <2>1. /\ phase = "erase" /\ phase' \in {"undefined", "erase", "gen_code"}
        /\ cursor' = <<IF cursor[1] + 1 \in Loops THEN cursor[1] + 1 ELSE 0, 1>>
        /\ UNCHANGED <<input, set_ops, iter_set, mg_ops, mg_used, mg_bounded, indeedUsed>>
    BY <1>4 DEF EndErase
  <2>2. cursor'[1] \in Loops /\ cursor'[2] \in Nat \ {0}
    BY <1>1, <2>1
  <2> QED BY <2>1, <2>2, PlanStays DEF Collecting, Phases
<1> QED BY <1>2, <1>3, <1>4

\* erase(itr): the elements before the position stay, those behind it move up.
Removed(r, s, k) ==
  /\ Len(r) = Len(s) - 1 /\ DOMAIN r = 1..(Len(s) - 1)
  /\ \A i \in 1..(Len(s) - 1) : r[i] = IF i < k THEN s[i] ELSE s[i + 1]

\* What is left of the list.
LEMMA RemoveAtFacts ==
  ASSUME NEW X, NEW s \in Seq(X), NEW k \in 1..Len(s), NEW r, r = RemoveAt(s, k)
  PROVE  r \in Seq(X) /\ Removed(r, s, k)
<1> DEFINE n == Len(s)
           a == SubSeq(s, 1, k - 1)
           b == SubSeq(s, k + 1, n)
<1>1. n \in Nat /\ k \in 1..n /\ DOMAIN s = 1..n
  OBVIOUS
<1>2. a \in Seq(X) /\ Len(a) = k - 1 /\ \A i \in 1..(k - 1) : a[i] = s[i]
  BY <1>1
<1>3. b \in Seq(X) /\ Len(b) = n - k /\ \A i \in 1..(n - k) : b[i] = s[k + i]
  OBVIOUS
<1>4. r = a \o b
  BY DEF RemoveAt
<1> HIDE DEF a, b, n
<1>5. r \in Seq(X) /\ Concatenated(r, a, b)
  BY ONLY <1>2, <1>3, <1>4, ConcatFacts
<1>6. /\ Len(r) = (k - 1) + (n - k) /\ \A i \in 1..(k - 1) : r[i] = a[i]
      /\ \A i \in 1..(n - k) : r[(k - 1) + i] = b[i]
  BY <1>2, <1>3, <1>5 DEF Concatenated
<1>7. Len(r) = n - 1 /\ DOMAIN r = 1..(n - 1)
  BY <1>1, <1>5, <1>6
<1>8. ASSUME NEW i \in 1..(n - 1) PROVE r[i] = IF i < k THEN s[i] ELSE s[i + 1]
  <2>1. CASE i < k
    <3>1. i \in 1..(k - 1)
      BY <1>1, <2>1
    <3> QED BY <1>2, <1>6, <2>1, <3>1
  <2>2. CASE ~(i < k)
    <3> DEFINE j == i - k + 1
    <3>1. j \in 1..(n - k) /\ (k - 1) + j = i /\ k + j = i + 1
      BY <1>1, <2>2
    <3> HIDE DEF j
    <3>2. r[(k - 1) + j] = b[j] /\ b[j] = s[k + j]
      BY <1>3, <1>6, <3>1
    <3> QED BY <2>2, <3>1, <3>2
  <2> QED BY <2>1, <2>2
<1> QED BY <1>5, <1>7, <1>8 DEF n, Removed

\* As sets, and the positions the elements had.
LEMMA RemovedFacts ==
  ASSUME NEW X, NEW s \in Seq(X), NEW k \in 1..Len(s), NEW r, Removed(r, s, k)
  PROVE  /\ ToSet(r) \subseteq ToSet(s) /\ ToSet(s) \subseteq ToSet(r) \union {s[k]}
         /\ \A i, j \in DOMAIN r : \E p, q \in DOMAIN s :
              r[i] = s[p] /\ r[j] = s[q] /\ (p = q => i = j)
<1> DEFINE n == Len(s)
           Old(i) == IF i < k THEN i ELSE i + 1
<1>1. n \in Nat /\ k \in 1..n /\ DOMAIN s = 1..n
  OBVIOUS
<1>2. DOMAIN r = 1..(n - 1) /\ \A i \in 1..(n - 1) : r[i] = IF i < k THEN s[i] ELSE s[i + 1]
  BY DEF Removed
<1> HIDE DEF n
<1>3. \A i \in 1..(n - 1) : Old(i) \in 1..n /\ r[i] = s[Old(i)]
  BY <1>1, <1>2
<1>4. \A i, j \in 1..(n - 1) : Old(i) = Old(j) => i = j
  BY <1>1
<1>5. ASSUME NEW p \in 1..n, p # k PROVE \E i \in 1..(n - 1) : r[i] = s[p]
  <2>1. CASE p < k
    <3>1. p \in 1..(n - 1)
      BY <1>1, <2>1
    <3> QED BY <1>2, <2>1, <3>1
  <2>2. CASE p > k
    <3>1. p - 1 \in 1..(n - 1) /\ (p - 1) + 1 = p /\ ~(p - 1 < k)
      BY <1>1, <2>2
    <3>2. r[p - 1] = s[p]
      BY <1>2, <3>1
    <3> QED BY <3>1, <3>2
  <2> QED BY <1>1, <1>5, <2>1, <2>2
<1> HIDE DEF Old
<1>6. ToSet(r) \subseteq ToSet(s)
  BY <1>1, <1>2, <1>3 DEF ToSet
<1>7. ToSet(s) \subseteq ToSet(r) \union {s[k]}
  <2> SUFFICES ASSUME NEW p \in 1..n PROVE s[p] \in ToSet(r) \union {s[k]}
    BY <1>1 DEF ToSet
  <2> QED BY <1>2, <1>5 DEF ToSet
<1>8. \A i, j \in DOMAIN r : \E p, q \in DOMAIN s :
        r[i] = s[p] /\ r[j] = s[q] /\ (p = q => i = j)
  BY <1>1, <1>2, <1>3, <1>4
<1> QED BY <1>6, <1>7, <1>8

\* A mini graph less, and not one that is used: the operations keep their rows.
LEMMA PlanErased ==
  ASSUME PlanInv, Erase
  PROVE  PlanInv'
<1>1. PICK d, k, list, rest :
        /\ d = cursor[1] /\ k = cursor[2] /\ list = mg_ops[d]
        /\ rest = IF list[k].id \in indeedUsed THEN list ELSE RemoveAt(list, k)
  OBVIOUS
<1>2. /\ phase = "erase" /\ d \in Loops /\ k <= Len(list)
      /\ mg_ops' = [mg_ops EXCEPT ![d] = rest] /\ cursor' = <<d, k + 1>>
      /\ UNCHANGED <<input, phase, set_ops, iter_set, mg_used, mg_bounded, indeedUsed>>
  BY <1>1 DEF Erase
<1>3. /\ input \in Inputs /\ phase \in Phases /\ SetsInv /\ MiniGraphsInv /\ UsedInv
  BY DEF PlanInv
<1>4. /\ MaxDep \in Nat /\ Loops = 0..(input.size - 2) /\ \A e \in Loops : e \in Nat
      /\ \A e \in Loops : \A f \in 0..e : f \in Loops
      /\ \A e \in Loops : e # 0 => e - 1 \in Loops
  BY <1>3, InputFacts
<1>5. /\ Loops' = Loops /\ MaxDep' = MaxDep /\ (Pruning' <=> Pruning) /\ (Vertex' <=> Vertex)
  BY <1>2, InputStays
<1>6. ~Collecting /\ ~Collecting'
  BY <1>2 DEF Collecting
<1>7. /\ mg_ops \in [Loops -> Seq(MiniGraphs)] /\ DistinctIds(mg_ops)
      /\ \A e \in Loops : \A mg \in ToSet(mg_ops[e]) : MiniGraphOK(mg, e)
      /\ \E n \in Nat : \A e \in Loops : IdsBelow(ToSet(mg_ops[e]), n)
      /\ \A e \in Loops : \A mg \in ToSet(mg_ops[e]) : mg.id \in DOMAIN mg_bounded
      /\ Pruning
  BY <1>2, <1>3, <1>6 DEF MiniGraphsInv
<1>8. list \in Seq(MiniGraphs) /\ k \in 1..Len(list)
  <2>1. k \in Nat \ {0}
    BY <1>1, <1>2, <1>3 DEF UsedInv
  <2>2. list \in Seq(MiniGraphs)
    BY <1>1, <1>2, <1>7
  <2>3. Len(list) \in Nat
    BY <2>2
  <2> QED BY <1>2, <2>1, <2>2, <2>3
<1>9. /\ rest \in Seq(MiniGraphs) /\ ToSet(rest) \subseteq ToSet(list)
      /\ \A mg \in ToSet(list) : mg.id \in indeedUsed => mg \in ToSet(rest)
      /\ \A i, j \in DOMAIN rest : \E p, q \in DOMAIN list :
           rest[i] = list[p] /\ rest[j] = list[q] /\ (p = q => i = j)
  <2>1. CASE list[k].id \in indeedUsed
    <3>1. rest = list
      BY <1>1, <2>1
    <3> QED BY <1>8, <3>1
  <2>2. CASE list[k].id \notin indeedUsed
    <3>1. rest \in Seq(MiniGraphs) /\ Removed(rest, list, k)
      BY <1>1, <1>8, <2>2, RemoveAtFacts
    <3>2. /\ ToSet(rest) \subseteq ToSet(list) /\ ToSet(list) \subseteq ToSet(rest) \union {list[k]}
          /\ \A i, j \in DOMAIN rest : \E p, q \in DOMAIN list :
               rest[i] = list[p] /\ rest[j] = list[q] /\ (p = q => i = j)
      BY <1>8, <3>1, RemovedFacts
    <3> QED BY <2>2, <3>1, <3>2
  <2> QED BY <2>1, <2>2
<1> HIDE <1>1
<1>10. /\ mg_ops' \in [Loops -> Seq(MiniGraphs)] /\ mg_ops'[d] = rest
       /\ \A e \in Loops : e # d => mg_ops'[e] = mg_ops[e]
  BY <1>2, <1>7, <1>9
<1>11. mg_ops[d] = list
  BY <1>1
<1>12. \A e \in Loops : ToSet(mg_ops'[e]) \subseteq ToSet(mg_ops[e])
  BY <1>9, <1>10, <1>11
<1>13. \A e \in Loops : \A mg \in ToSet(mg_ops[e]) :
         mg.id \in indeedUsed => mg \in ToSet(mg_ops'[e])
  BY <1>9, <1>10, <1>11
<1>14. SetsInv'
  BY <1>2, SetsStay
<1>15. MiniGraphsInv'
  <2>1. ASSUME NEW a \in Loops, NEW b \in Loops, NEW i \in DOMAIN mg_ops'[a],
               NEW j \in DOMAIN mg_ops'[b], mg_ops'[a][i].id = mg_ops'[b][j].id
        PROVE  a = b /\ i = j
    <3>1. CASE a = b
      <4>1. PICK p \in DOMAIN mg_ops[a], q \in DOMAIN mg_ops[a] :
              mg_ops'[a][i] = mg_ops[a][p] /\ mg_ops'[a][j] = mg_ops[a][q] /\ (p = q => i = j)
        BY <1>9, <1>10, <1>11, <2>1, <3>1
      <4> QED BY <1>7, <2>1, <3>1, <4>1 DEF DistinctIds
    <3>2. CASE a # b
      <4>1. mg_ops'[a][i] \in ToSet(mg_ops[a]) /\ mg_ops'[b][j] \in ToSet(mg_ops[b])
        BY <1>12, <2>1 DEF ToSet
      <4>2. PICK p \in DOMAIN mg_ops[a] : mg_ops[a][p] = mg_ops'[a][i]
        BY <4>1 DEF ToSet
      <4>3. PICK q \in DOMAIN mg_ops[b] : mg_ops[b][q] = mg_ops'[b][j]
        BY <4>1 DEF ToSet
      <4> QED BY <1>7, <2>1, <3>2, <4>2, <4>3 DEF DistinctIds
    <3> QED BY <3>1, <3>2
  <2>2. DistinctIds(mg_ops)'
    BY <1>5, <2>1 DEF DistinctIds
  <2>3. PICK n \in Nat : \A e \in Loops : IdsBelow(ToSet(mg_ops[e]), n)
    BY <1>7
  <2>4. \A e \in Loops : IdsBelow(ToSet(mg_ops'[e]), n)
    BY <1>12, <2>3 DEF IdsBelow
  <2>5. \E m \in Nat : \A e \in Loops : IdsBelow(ToSet(mg_ops'[e]), m)
    BY <2>4
  <2>6. \A e \in Loops : \A mg \in ToSet(mg_ops'[e]) :
          MiniGraphOK(mg, e)' /\ mg.id \in DOMAIN mg_bounded
    BY <1>2, <1>7, <1>12 DEF MiniGraphOK
  <2> QED BY <1>2, <1>5, <1>6, <1>7, <1>10, <2>2, <2>5, <2>6 DEF MiniGraphsInv
<1>16. \A e \in Loops : MiniGraphsTo(e)' \subseteq MiniGraphsTo(e)
  BY <1>4, <1>12 DEF MiniGraphsTo
<1>17. \A e \in Loops : \A mg \in MiniGraphsTo(e) :
         mg.id \in indeedUsed => mg \in MiniGraphsTo(e)'
  BY <1>4, <1>13 DEF MiniGraphsTo
<1>18. \A a, b : IsSuperset(a, b)' <=> IsSuperset(a, b)
  BY <1>5 DEF IsSuperset
<1>19. \A mg, v, i : MGSuperset(mg, v, i)' <=> MGSuperset(mg, v, i)
  BY <1>18 DEF MGSuperset
<1>20. /\ \A e \in Loops : \A mg \in ToSet(mg_used[e]) : UsedOK(mg, e)
       /\ \A e \in Loops : e <= MaxDep => LoopMarked(e)
       /\ mg_used \in [Loops -> Seq(MiniGraphs)] /\ mg_used[0] = <<>>
       /\ DOMAIN mg_bounded \subseteq Nat /\ indeedUsed \subseteq DOMAIN mg_bounded
  BY <1>2, <1>3, <1>6 DEF UsedInv
<1>21. ASSUME NEW e \in Loops, NEW mg \in ToSet(mg_used[e]) PROVE UsedOK(mg, e)'
  <2>1. PICK iter : iter = iter_set[e - 1]
    OBVIOUS
  <2>2. mg.id \in indeedUsed /\ mg \in MiniGraphsTo(e - 1) /\ IsSuperset(mg.vertices, iter)
    BY <1>20, <2>1 DEF UsedOK
  <2>3. e # 0
    <3>1. mg_used[0] = <<>> /\ ToSet(<<>>) = {}
      BY <1>20 DEF ToSet
    <3> QED BY <3>1
  <2>4. mg \in MiniGraphsTo(e - 1)' /\ IsSuperset(mg.vertices, iter)'
    BY <1>4, <1>17, <1>18, <2>2, <2>3
  <2>5. iter_set'[e - 1] = iter
    BY <1>2, <2>1
  <2> QED BY <1>2, <2>2, <2>4, <2>5 DEF UsedOK
<1>22. ASSUME NEW e \in Loops, e <= MaxDep, NEW op \in ToSet(set_ops[e]),
              get_parent_mg(op)' # None
       PROVE  get_parent_mg(op)' \in ToSet(mg_used[e])
  <2>1. PICK a, iter, S : a = get_parent_mg(op)' /\ iter = iter_set[e - 1] /\ S = Matching(op)'
    OBVIOUS
  <2>2. op.dep = e
    BY <1>3 DEF SetsInv, OpOK
  <2>3. /\ op.dep # 0 /\ (Vertex \/ IsEdge(op)) /\ a = LastOf(S) /\ a # None
    BY <1>2, <1>5, <1>22, <2>1 DEF get_parent_mg, Matching, IsEdge
  <2>4. e # 0 /\ e - 1 \in Loops
    BY <1>4, <2>2, <2>3
  <2>5. iter_set'[e - 1] = iter
    BY <1>2, <2>1
  <2>6. S = {mg \in MiniGraphsTo(e - 1)' : MGSuperset(mg, iter, op)}
    <3>1. \A mg : mg \in S <=>
                    mg \in MiniGraphsTo(op.dep - 1)' /\ MGSuperset(mg, iter_set[op.dep - 1], op)'
      BY <2>1 DEF Matching
    <3>2. \A mg : MGSuperset(mg, iter_set[op.dep - 1], op)' <=> MGSuperset(mg, iter, op)
      BY <1>2, <1>5, <2>1, <2>2 DEF MGSuperset, IsSuperset
    <3>3. \A mg : mg \in S <=> mg \in MiniGraphsTo(e - 1)' /\ MGSuperset(mg, iter, op)
      BY <2>2, <3>1, <3>2
    <3>4. S \subseteq MiniGraphsTo(e - 1)'
      BY <3>3
    <3> QED BY <3>3, <3>4
  <2>7. S # {}
    BY <2>3 DEF LastOf
  <2>8. PICK n \in Nat : IdsBelow(MiniGraphsTo(e - 1), n)
    BY <2>4, ScopeOfGraphs
  <2>9. S \subseteq MiniGraphsTo(e - 1)
    BY <1>16, <2>4, <2>6
  <2>10. IdsBelow(S, n)
    BY <2>8, <2>9 DEF IdsBelow
  <2>11. a \in S /\ \A mg \in S : mg.id <= a.id
    BY <2>3, <2>7, <2>10, LastOfFacts
  <2>12. a \in MiniGraphsTo(e - 1) /\ MGSuperset(a, iter, op)
    BY <2>6, <2>9, <2>11
  <2>13. PICK b : b = get_parent_mg(op)
    OBVIOUS
  <2>14. b # None
    <3>1. b = LastOf(Matching(op))
      BY <2>3, <2>13 DEF get_parent_mg, Matching
    <3>2. a \in Matching(op)
      BY <2>1, <2>2, <2>12 DEF Matching
    <3>3. IdsBelow(Matching(op), n)
      BY <2>2, <2>8 DEF IdsBelow, Matching
    <3>4. b \in Matching(op)
      BY <3>1, <3>2, <3>3, LastOfFacts
    <3>5. b.id \in Nat
      BY <3>3, <3>4 DEF IdsBelow
    <3> QED BY <3>5 DEF None
  <2>15. /\ b \in MiniGraphsTo(e - 1) /\ MGSuperset(b, iter, op)
         /\ \A mg \in MiniGraphsTo(e - 1) : MGSuperset(mg, iter, op) => mg.id <= b.id
    BY <2>1, <2>13, <2>14, ParentMGFacts
  <2>16. b \in ToSet(mg_used[e]) /\ b.id \in indeedUsed
    <3>1. b \in ToSet(mg_used[e])
      BY <1>20, <1>22, <2>13, <2>14 DEF LoopMarked
    <3> QED BY <1>20, <3>1 DEF UsedOK
  <2>17. b \in S
    BY <1>17, <2>4, <2>6, <2>15, <2>16
  <2>18. a.id <= b.id /\ b.id <= a.id /\ a.id \in Nat /\ b.id \in Nat
    BY <2>8, <2>11, <2>12, <2>15, <2>17 DEF IdsBelow
  <2>19. a = b
    <3>1. a.id = b.id
      BY <2>18
    <3> QED BY <2>4, <2>12, <2>15, <3>1, ScopeOfGraphs
  <2> QED BY <2>1, <2>16, <2>19
<1>23. \A e \in Loops : e <= MaxDep => LoopMarked(e)'
  BY <1>2, <1>22 DEF LoopMarked
<1>24. UsedInv'
  <2>1. cursor'[1] \in Loops /\ cursor'[2] \in Nat \ {0}
    BY <1>2, <1>8
  <2> QED BY <1>2, <1>5, <1>6, <1>7, <1>20, <1>21, <1>23, <2>1 DEF UsedInv
<1> QED BY <1>2, <1>3, <1>14, <1>15, <1>24 DEF PlanInv

\* A step that leaves the plan alone.
LEMMA PlanUnchanged ==
  ASSUME PlanInv, UNCHANGED planVars
  PROVE  PlanInv'
<1>1. UNCHANGED <<input, phase, set_ops, iter_set, mg_ops, mg_used, mg_bounded, indeedUsed, cursor>>
  BY DEF planVars
<1>2. input \in Inputs /\ phase \in Phases /\ SetsInv /\ MiniGraphsInv /\ UsedInv
  BY DEF PlanInv
<1>3. /\ Loops' = Loops /\ MaxDep' = MaxDep
      /\ (Pruning' <=> Pruning) /\ (Collecting' <=> Collecting)
  BY <1>1, InputStays DEF Collecting
<1>4. SetsInv'
  <2>1. DistinctIds(set_ops)'
    BY <1>1, <1>2, <1>3 DEF SetsInv, DistinctIds
  <2> QED BY <1>1, <1>2, <1>3, <2>1 DEF SetsInv, OpOK
<1>5. MiniGraphsInv'
  <2>1. DistinctIds(mg_ops)'
    BY <1>1, <1>2, <1>3 DEF MiniGraphsInv, DistinctIds
  <2>2. \A d \in Loops : \A mg \in ToSet(mg_ops[d]) : MiniGraphOK(mg, d)'
    BY <1>1, <1>2 DEF MiniGraphsInv, MiniGraphOK
  <2> QED BY <1>1, <1>2, <1>3, <2>1, <2>2 DEF MiniGraphsInv
<1>6. UsedInv'
  <2>1. \A d \in Loops : \A mg \in ToSet(mg_used[d]) : UsedOK(mg, d)'
    BY <1>1, <1>2, UsedStays DEF UsedInv
  <2>2. \A d \in Loops : LoopMarked(d) => LoopMarked(d)'
    BY <1>1, MarkedStays
  <2> QED BY <1>1, <1>2, <1>3, <2>1, <2>2 DEF UsedInv
<1> QED BY <1>1, <1>2, <1>4, <1>5, <1>6 DEF PlanInv

\* gen_code_omp reads the plan.
LEMMA PlanRead ==
  ASSUME PlanInv, gen_code \/ EndGenCode
  PROVE  PlanInv'
<1>1. /\ phase = "gen_code" /\ phase' \in {"gen_code", "aborted", "generated"}
      /\ UNCHANGED <<input, set_ops, iter_set, mg_ops, mg_used, mg_bounded, indeedUsed>>
  BY DEF gen_code, EndGenCode
<1> QED BY <1>1, PlanStays DEF Collecting, Phases

\* The inductive step.
LEMMA PlanStep ==
  ASSUME PlanInv, [Next]_vars
  PROVE  PlanInv'
<1>1. CASE Generate
  <2>1. GenNext
    BY <1>1 DEF Generate
  <2>2. CASE CreatePlan
    BY <2>2, PlanCreated
  <2>3. CASE EndCreatePlan
    BY <2>3, PlanEnds
  <2>4. CASE CollectMiniGraphs
    BY <2>4, PlanCollected
  <2>5. CASE EndCollect
    BY <2>5, PlanCollectEnds
  <2>6. CASE MarkUsed
    BY <2>6, PlanMarked
  <2>7. CASE Inherit
    BY <2>7, PlanInherited
  <2>8. CASE EndMark \/ EndInherit \/ EndErase
    BY <2>8, PlanPasses
  <2>9. CASE Erase
    BY <2>9, PlanErased
  <2>10. CASE gen_code \/ EndGenCode
    BY <2>10, PlanRead
  <2> QED BY <2>1, <2>2, <2>3, <2>4, <2>5, <2>6, <2>7, <2>8, <2>9, <2>10 DEF GenNext
<1>2. CASE Run \/ EnterRoot \/ EnterLoop \/ LeaveLoop \/ Stop \/ UNCHANGED vars
  <2>1. UNCHANGED planVars
    BY <1>2 DEF Run, EnterRoot, EnterLoop, LeaveLoop, Stop, vars, genVars
  <2> QED BY <2>1, PlanUnchanged
<1>3. CASE Return
  <2>1. /\ phase = "generated" /\ phase' = "returned"
        /\ UNCHANGED <<input, set_ops, iter_set, mg_ops, mg_used, mg_bounded, indeedUsed>>
    BY <1>3 DEF Return, Generated
  <2> QED BY <2>1, PlanStays DEF Collecting, Phases
<1> QED BY <1>1, <1>2, <1>3 DEF Next

\* The types of the plan follow.
LEMMA PlanTypes ==
  ASSUME PlanInv
  PROVE  PlanTypeOK
<1>1. input \in Inputs /\ phase \in Phases /\ SetsInv /\ MiniGraphsInv /\ UsedInv
  BY DEF PlanInv
<1>2. \A d \in Loops : d \in Nat /\ (d # 0 => d - 1 \in Loops)
  BY <1>1, InputFacts
<1>3. ASSUME NEW d \in Loops
      PROVE  iter_set[d] \in ToSet(set_ops[d]) \/ (iter_set[d] = None /\ phase = "create_plan")
  <2>1. CASE phase = "create_plan" => d < cursor[1]
    BY <1>1, <2>1 DEF SetsInv, LoopPlanned
  <2>2. CASE phase = "create_plan" /\ ~(d < cursor[1])
    <3>1. cursor[1] \in Nat
      BY <1>1, <2>2, InputFacts DEF SetsInv
    <3>2. d >= cursor[1]
      BY <1>2, <2>2, <3>1
    <3> QED BY <1>1, <2>2, <3>2 DEF SetsInv, NotPlanned
  <2> QED BY <2>1, <2>2
<1>4. ASSUME NEW d \in Loops, NEW mg \in ToSet(mg_used[d]) PROVE mg_dep(mg) < d
  <2>1. mg \in MiniGraphsTo(d - 1)
    BY <1>1 DEF UsedInv, UsedOK
  <2>2. d # 0
    <3>1. mg_used[0] = <<>> /\ ToSet(<<>>) = {}
      BY <1>1 DEF UsedInv, ToSet
    <3> QED BY <3>1
  <2>3. mg_dep(mg) \in 0..(d - 1)
    BY <1>2, <2>1, <2>2, InScope
  <2> QED BY <1>2, <2>3
<1> QED BY <1>1, <1>3, <1>4 DEF PlanTypeOK, SetsInv, MiniGraphsInv, UsedInv

\* Plans are typed, whatever the inputs: every operation belongs to its loop, every mini
\* graph to the loop that declares its two sets, ids are given once, no loop reads a mini
\* graph of its own or an inner loop (create_plan, create_plan_mg).
THEOREM PlanTyped == Spec => []PlanTypeOK
<1>1. LoopInit => PlanInv
  BY PlanInitially DEF LoopInit, GenInit
<1>2. PlanInv /\ [Next]_vars => PlanInv'
  BY PlanStep
<1>3. PlanInv => PlanTypeOK
  BY PlanTypes
<1> QED BY <1>1, <1>2, <1>3, PTL DEF Spec

=============================================================================
