-------------------------- MODULE MiniGraphPool_proofs --------------------------
(***************************************************************************)
(* The memory of mini graphs for any number of containers, buffers and     *)
(* sizes and every sequence of Resize, Reserve, moves and destruction: no  *)
(* buffer is lost or shared, every request is met, what was written is     *)
(* kept, the pool grows only when it must, and it implements BufferPool.   *)
(***************************************************************************)
EXTENDS MiniGraphPool, SequenceTheorems, WellFoundedInduction, TLAPS

(***************************************************************************)
(* Sequences.                                                              *)
(***************************************************************************)
\* The two ends of a sequence, cut before position i and behind position j.
LEMMA CutFacts ==
  ASSUME NEW S, NEW s \in Seq(S), NEW i \in Nat, NEW j \in Nat,
         1 <= i, i <= Len(s) + 1, 0 <= j, j <= Len(s)
  PROVE  /\ SubSeq(s, 1, i - 1) \in Seq(S) /\ Len(SubSeq(s, 1, i - 1)) = i - 1
         /\ \A k \in 1..(i - 1) : SubSeq(s, 1, i - 1)[k] = s[k]
         /\ SubSeq(s, j + 1, Len(s)) \in Seq(S) /\ Len(SubSeq(s, j + 1, Len(s))) = Len(s) - j
         /\ \A k \in 1..(Len(s) - j) : SubSeq(s, j + 1, Len(s))[k] = s[j + k]
<1>1. Len(s) \in Nat
  BY LenProperties
<1>2. (\A k \in 1..(i - 1) : s[k] \in S) /\ (\A k \in (j + 1)..Len(s) : s[k] \in S)
  BY <1>1, ElementOfSeq
<1>3. /\ SubSeq(s, 1, i - 1) \in Seq(S)
      /\ Len(SubSeq(s, 1, i - 1)) = IF 1 <= i - 1 THEN (i - 1) - 1 + 1 ELSE 0
      /\ \A k \in 1..((i - 1) - 1 + 1) : SubSeq(s, 1, i - 1)[k] = s[1 + k - 1]
  <2>1. i - 1 \in Int
    OBVIOUS
  <2> QED BY <1>2, <2>1, SubSeqProperties
<1>4. /\ SubSeq(s, j + 1, Len(s)) \in Seq(S)
      /\ Len(SubSeq(s, j + 1, Len(s))) = IF j + 1 <= Len(s) THEN Len(s) - (j + 1) + 1 ELSE 0
      /\ \A k \in 1..(Len(s) - (j + 1) + 1) : SubSeq(s, j + 1, Len(s))[k] = s[j + 1 + k - 1]
  <2>1. j + 1 \in Int /\ Len(s) \in Int
    BY <1>1
  <2> QED BY <1>2, <2>1, SubSeqProperties
<1>5. ASSUME NEW k \in 1..(i - 1) PROVE SubSeq(s, 1, i - 1)[k] = s[k]
  <2>1. 1 + k - 1 = k /\ k \in 1..((i - 1) - 1 + 1)
    OBVIOUS
  <2> QED BY <1>3, <2>1
<1>6. ASSUME NEW k \in 1..(Len(s) - j) PROVE SubSeq(s, j + 1, Len(s))[k] = s[j + k]
  <2>1. j + 1 + k - 1 = j + k /\ k \in 1..(Len(s) - (j + 1) + 1)
    BY <1>1
  <2> QED BY <1>4, <2>1
<1>7. Len(SubSeq(s, 1, i - 1)) = i - 1 /\ Len(SubSeq(s, j + 1, Len(s))) = Len(s) - j
  BY <1>1, <1>3, <1>4
<1> QED BY <1>3, <1>4, <1>5, <1>6, <1>7

\* Front drops the last element.
LEMMA FrontFacts ==
  ASSUME NEW S, NEW s \in Seq(S), s # << >>
  PROVE  /\ Len(s) \in Nat /\ 1 <= Len(s) /\ Last(s) = s[Len(s)]
         /\ Front(s) \in Seq(S) /\ Len(Front(s)) = Len(s) - 1
         /\ \A k \in 1..(Len(s) - 1) : Front(s)[k] = s[k]
<1>1. Len(s) \in Nat /\ 1 <= Len(s) /\ Len(s) <= Len(s) + 1 /\ 0 <= Len(s)
  <2>1. Len(s) \in Nat \ {0}
    BY EmptySeq
  <2>2. ASSUME NEW n \in Nat \ {0} PROVE n \in Nat /\ 1 <= n /\ n <= n + 1 /\ 0 <= n
    OBVIOUS
  <2> QED BY <2>1, <2>2
<1>2. 0 \in Nat /\ 0 <= 0
  OBVIOUS
<1>3. /\ SubSeq(s, 1, Len(s) - 1) \in Seq(S) /\ Len(SubSeq(s, 1, Len(s) - 1)) = Len(s) - 1
      /\ \A k \in 1..(Len(s) - 1) : SubSeq(s, 1, Len(s) - 1)[k] = s[k]
  BY <1>1, <1>2, CutFacts
<1> QED BY <1>1, <1>3 DEF Front, Last

\* RemoveAt closes the gap.
LEMMA RemoveAtFacts ==
  ASSUME NEW S, NEW s \in Seq(S), NEW i \in 1..Len(s)
  PROVE  /\ RemoveAt(s, i) \in Seq(S) /\ Len(RemoveAt(s, i)) = Len(s) - 1
         /\ \A k \in 1..(i - 1) : RemoveAt(s, i)[k] = s[k]
         /\ \A k \in i..(Len(s) - 1) : RemoveAt(s, i)[k] = s[k + 1]
<1> DEFINE a == SubSeq(s, 1, i - 1)
           b == SubSeq(s, i + 1, Len(s))
<1>1. Len(s) \in Nat /\ i \in Nat /\ 1 <= i /\ i <= Len(s)
  BY LenProperties
<1>2. /\ a \in Seq(S) /\ Len(a) = i - 1 /\ \A k \in 1..(i - 1) : a[k] = s[k]
      /\ b \in Seq(S) /\ Len(b) = Len(s) - i /\ \A k \in 1..(Len(s) - i) : b[k] = s[i + k]
  BY <1>1, CutFacts
<1>3. RemoveAt(s, i) = a \o b
  BY DEF RemoveAt
<1> HIDE DEF a, b
<1>4. /\ a \o b \in Seq(S) /\ Len(a \o b) = Len(a) + Len(b)
      /\ \A k \in 1..(Len(a) + Len(b)) :
           (a \o b)[k] = IF k <= Len(a) THEN a[k] ELSE b[k - Len(a)]
  BY <1>2, ConcatProperties
<1>5. ASSUME NEW k \in 1..(i - 1) PROVE (a \o b)[k] = s[k]
  <2>1. k \in 1..(Len(a) + Len(b)) /\ k <= Len(a)
    BY <1>1, <1>2
  <2> QED BY <1>2, <1>4, <2>1
<1>6. ASSUME NEW k \in i..(Len(s) - 1) PROVE (a \o b)[k] = s[k + 1]
  <2>1. k \in 1..(Len(a) + Len(b)) /\ ~(k <= Len(a)) /\ k - Len(a) \in 1..(Len(s) - i)
    BY <1>1, <1>2
  <2>2. i + (k - Len(a)) = k + 1
    BY <1>1, <1>2
  <2> QED BY <1>2, <1>4, <2>1, <2>2
<1>7. Len(a \o b) = Len(s) - 1
  BY <1>1, <1>2, <1>4
<1> QED BY <1>3, <1>4, <1>5, <1>6, <1>7

\* InsertAt makes room.
LEMMA InsertAtFacts ==
  ASSUME NEW S, NEW s \in Seq(S), NEW i \in 1..(Len(s) + 1), NEW e \in S
  PROVE  /\ InsertAt(s, i, e) \in Seq(S) /\ Len(InsertAt(s, i, e)) = Len(s) + 1
         /\ \A k \in 1..(i - 1) : InsertAt(s, i, e)[k] = s[k]
         /\ InsertAt(s, i, e)[i] = e
         /\ \A k \in (i + 1)..(Len(s) + 1) : InsertAt(s, i, e)[k] = s[k - 1]
<1> DEFINE a == SubSeq(s, 1, i - 1)
           b == SubSeq(s, i, Len(s))
           one == <<e>>
           m == a \o one
<1>1. Len(s) \in Nat /\ i \in Nat /\ 1 <= i /\ i <= Len(s) + 1
  BY LenProperties
<1>2. /\ a \in Seq(S) /\ Len(a) = i - 1 /\ \A k \in 1..(i - 1) : a[k] = s[k]
      /\ b \in Seq(S) /\ Len(b) = Len(s) - (i - 1)
      /\ \A k \in 1..(Len(s) - (i - 1)) : b[k] = s[(i - 1) + k]
  <2>1. i - 1 \in Nat /\ i - 1 <= Len(s) /\ (i - 1) + 1 = i
    BY <1>1
  <2>2. /\ SubSeq(s, (i - 1) + 1, Len(s)) \in Seq(S)
        /\ Len(SubSeq(s, (i - 1) + 1, Len(s))) = Len(s) - (i - 1)
        /\ \A k \in 1..(Len(s) - (i - 1)) : SubSeq(s, (i - 1) + 1, Len(s))[k] = s[(i - 1) + k]
    <3>1. s \in Seq(S) /\ 1 \in Nat /\ 1 <= 1 /\ 1 <= Len(s) + 1 /\ 0 <= i - 1
      BY <1>1
    <3> QED BY ONLY <2>1, <3>1, CutFacts
  <2>3. a \in Seq(S) /\ Len(a) = i - 1 /\ \A k \in 1..(i - 1) : a[k] = s[k]
    <3>1. s \in Seq(S) /\ 0 \in Nat /\ 0 <= 0 /\ 0 <= Len(s)
      BY <1>1
    <3> QED BY ONLY <1>1, <3>1, CutFacts
  <2> QED BY <2>1, <2>2, <2>3
<1>3. InsertAt(s, i, e) = m \o b
  BY DEF InsertAt
<1>4. one \in Seq(S) /\ Len(one) = 1 /\ one[1] = e
  OBVIOUS
<1> HIDE DEF a, b, one, m
<1>5. /\ m \in Seq(S) /\ Len(m) = Len(a) + Len(one)
      /\ \A k \in 1..(Len(a) + Len(one)) : m[k] = IF k <= Len(a) THEN a[k] ELSE one[k - Len(a)]
  BY <1>2, <1>4, ConcatProperties DEF m
<1>6. /\ m \o b \in Seq(S) /\ Len(m \o b) = Len(m) + Len(b)
      /\ \A k \in 1..(Len(m) + Len(b)) : (m \o b)[k] = IF k <= Len(m) THEN m[k] ELSE b[k - Len(m)]
  <2>1. m \in Seq(S) /\ b \in Seq(S)
    BY <1>2, <1>5
  <2> QED BY ONLY <2>1, ConcatProperties
<1>7. Len(m) = i /\ Len(m \o b) = Len(s) + 1
  BY <1>1, <1>2, <1>4, <1>5, <1>6
<1>8. ASSUME NEW k \in 1..(i - 1) PROVE (m \o b)[k] = s[k]
  <2>1. /\ k \in 1..(Len(m) + Len(b)) /\ k <= Len(m)
        /\ k \in 1..(Len(a) + Len(one)) /\ k <= Len(a)
    BY <1>1, <1>2, <1>4, <1>7
  <2> QED BY <1>2, <1>5, <1>6, <2>1
<1>9. (m \o b)[i] = e
  <2>1. /\ i \in 1..(Len(m) + Len(b)) /\ i <= Len(m)
        /\ i \in 1..(Len(a) + Len(one)) /\ ~(i <= Len(a)) /\ i - Len(a) = 1
    BY <1>1, <1>2, <1>4, <1>7
  <2> QED BY <1>4, <1>5, <1>6, <2>1
<1>10. ASSUME NEW k \in (i + 1)..(Len(s) + 1) PROVE (m \o b)[k] = s[k - 1]
  <2>1. /\ k \in 1..(Len(m) + Len(b)) /\ ~(k <= Len(m))
        /\ k - Len(m) \in 1..(Len(s) - (i - 1)) /\ (i - 1) + (k - Len(m)) = k - 1
    BY <1>1, <1>2, <1>7
  <2> QED BY <1>2, <1>6, <2>1
<1> QED BY <1>3, <1>6, <1>7, <1>8, <1>9, <1>10

\* A set of natural numbers has a minimum.
LEMMA MinFacts ==
  ASSUME NEW T, T \subseteq Nat, T # {}
  PROVE  Min(T) \in T /\ \A x \in T : Min(T) <= x
<1> DEFINE R == {ss \in Nat \X Nat : ss[1] < ss[2]}
<1>1. IsWellFoundedOn(R, Nat)
  BY NatLessThanWellFounded, Zenon DEF OpToRel
<1> HIDE DEF R
<1>2. PICK x \in T : \A y \in T : ~(<<y, x>> \in R)
  BY <1>1, WFMin
<1>3. ASSUME NEW y \in T PROVE x <= y
  <2>1. x \in Nat /\ y \in Nat /\ ~(<<y, x>> \in R)
    BY <1>2
  <2> QED BY <2>1 DEF R
<1> QED BY <1>3 DEF Min

(***************************************************************************)
(* What the pool's two lists have to be, and what each operation keeps.    *)
(***************************************************************************)
\* Every buffer has at least the capacity of a small one.
Capacities == capacity \in Seq(Nat) /\ \A b \in Buffers : capacity[b] >= SmallCap

SmallOnes == {b \in Buffers : IsSmall(b)}
LargeOnes == {b \in Buffers : ~IsSmall(b)}
AscendingCapacity(s) == \A i, j \in DOMAIN s : i < j => capacity[s[i]] <= capacity[s[j]]

Good(pool) ==
  /\ pool \in [small : Seq(SmallOnes), large : Seq(LargeOnes)]
  /\ IsInjective(pool.small) /\ IsInjective(pool.large)
  /\ AscendingCapacity(pool.large)

In(pool) == ToSet(pool.small) \union ToSet(pool.large)

\* Taking the last element of a list without repetitions.
LEMMA TakeLast ==
  ASSUME NEW S, NEW s \in Seq(S), s # << >>, IsInjective(s)
  PROVE  /\ Front(s) \in Seq(S) /\ IsInjective(Front(s))
         /\ Last(s) \in ToSet(s) /\ ToSet(Front(s)) = ToSet(s) \ {Last(s)}
<1> DEFINE f == Front(s)
<1>1. /\ Len(s) \in Nat /\ 1 <= Len(s) /\ Last(s) = s[Len(s)]
      /\ f \in Seq(S) /\ Len(f) = Len(s) - 1
      /\ \A k \in 1..(Len(s) - 1) : f[k] = s[k]
  BY FrontFacts
<1>2. DOMAIN s = 1..Len(s) /\ DOMAIN f = 1..(Len(s) - 1)
  BY <1>1, LenProperties
<1> HIDE DEF f
<1>3. \A i, j \in 1..Len(s) : s[i] = s[j] => i = j
  BY <1>2 DEF IsInjective
<1>4. IsInjective(f)
  BY <1>1, <1>2, <1>3 DEF IsInjective
<1>5. Last(s) \in ToSet(s)
  BY <1>1, <1>2 DEF ToSet
<1>6. ASSUME NEW x \in ToSet(f) PROVE x \in ToSet(s) /\ x # Last(s)
  <2>1. PICK k \in 1..(Len(s) - 1) : x = f[k]
    BY <1>2 DEF ToSet
  <2>2. k \in 1..Len(s) /\ k # Len(s) /\ Len(s) \in 1..Len(s) /\ x = s[k]
    BY <1>1, <2>1
  <2> QED BY <1>1, <1>2, <1>3, <2>2 DEF ToSet
<1>7. ASSUME NEW x \in ToSet(s), x # Last(s) PROVE x \in ToSet(f)
  <2>1. PICK k \in 1..Len(s) : x = s[k]
    BY <1>2 DEF ToSet
  <2>2. k \in 1..(Len(s) - 1)
    BY <1>1, <1>7, <2>1
  <2> QED BY <1>1, <1>2, <2>1, <2>2 DEF ToSet
<1> QED BY <1>1, <1>4, <1>5, <1>6, <1>7 DEF f

\* Taking one out of the middle of an ascending list without repetitions.
LEMMA TakeOut ==
  ASSUME NEW S, NEW s \in Seq(S), NEW i \in 1..Len(s), IsInjective(s), AscendingCapacity(s)
  PROVE  /\ RemoveAt(s, i) \in Seq(S) /\ IsInjective(RemoveAt(s, i))
         /\ AscendingCapacity(RemoveAt(s, i))
         /\ s[i] \in ToSet(s) /\ ToSet(RemoveAt(s, i)) = ToSet(s) \ {s[i]}
<1> DEFINE r == RemoveAt(s, i)
           From(k) == IF k < i THEN k ELSE k + 1
<1>1. /\ Len(s) \in Nat /\ i \in Nat /\ 1 <= i /\ i <= Len(s)
      /\ r \in Seq(S) /\ Len(r) = Len(s) - 1
      /\ \A k \in 1..(i - 1) : r[k] = s[k]
      /\ \A k \in i..(Len(s) - 1) : r[k] = s[k + 1]
  BY RemoveAtFacts, LenProperties
<1>2. DOMAIN s = 1..Len(s) /\ DOMAIN r = 1..(Len(s) - 1)
  BY <1>1, LenProperties
<1> HIDE DEF r
<1>3. \A j, k \in 1..Len(s) : s[j] = s[k] => j = k
  BY <1>2 DEF IsInjective
<1>4. \A j, k \in 1..Len(s) : j < k => capacity[s[j]] <= capacity[s[k]]
  BY <1>2 DEF AscendingCapacity
<1>5. ASSUME NEW k \in 1..(Len(s) - 1)
      PROVE  From(k) \in 1..Len(s) /\ From(k) # i /\ r[k] = s[From(k)]
  <2>1. CASE k < i
    BY <1>1, <2>1
  <2>2. CASE k >= i
    BY <1>1, <2>2
  <2>3. k < i \/ k >= i
    BY <1>1
  <2> QED BY <2>1, <2>2, <2>3
<1>6. \A j, k \in 1..(Len(s) - 1) : (j < k <=> From(j) < From(k)) /\ (From(j) = From(k) => j = k)
  BY <1>1
<1> HIDE DEF From
<1>7. IsInjective(r)
  BY <1>2, <1>3, <1>5, <1>6 DEF IsInjective
<1>8. AscendingCapacity(r)
  BY <1>2, <1>4, <1>5, <1>6 DEF AscendingCapacity
<1>9. s[i] \in ToSet(s)
  BY <1>1, <1>2 DEF ToSet
<1>10. ASSUME NEW x \in ToSet(r) PROVE x \in ToSet(s) /\ x # s[i]
  <2>1. PICK k \in 1..(Len(s) - 1) : x = r[k]
    BY <1>2 DEF ToSet
  <2> QED BY <1>1, <1>2, <1>3, <1>5, <2>1 DEF ToSet
<1>11. ASSUME NEW x \in ToSet(s), x # s[i] PROVE x \in ToSet(r)
  <2>1. PICK k \in 1..Len(s) : x = s[k]
    BY <1>2 DEF ToSet
  <2>2. CASE k < i
    <3>1. k \in 1..(i - 1) /\ k \in 1..(Len(s) - 1)
      BY <1>1, <2>2
    <3> QED BY <1>1, <1>2, <2>1, <3>1 DEF ToSet
  <2>3. CASE k > i
    <3>1. k - 1 \in i..(Len(s) - 1) /\ k - 1 \in 1..(Len(s) - 1) /\ (k - 1) + 1 = k
      BY <1>1, <2>3
    <3> QED BY <1>1, <1>2, <2>1, <3>1 DEF ToSet
  <2>4. k < i \/ k > i
    BY <1>1, <1>11, <2>1
  <2> QED BY <2>2, <2>3, <2>4
<1> QED BY <1>1, <1>7, <1>8, <1>9, <1>10, <1>11 DEF r

\* Appending what is not in the list.
LEMMA PutLast ==
  ASSUME NEW S, NEW s \in Seq(S), NEW e \in S, e \notin ToSet(s), IsInjective(s)
  PROVE  /\ Append(s, e) \in Seq(S) /\ IsInjective(Append(s, e))
         /\ ToSet(Append(s, e)) = ToSet(s) \union {e}
<1> DEFINE a == Append(s, e)
<1>1. /\ Len(s) \in Nat /\ a \in Seq(S) /\ Len(a) = Len(s) + 1
      /\ \A k \in 1..Len(s) : a[k] = s[k]
      /\ a[Len(s) + 1] = e
  BY AppendProperties, LenProperties
<1>2. DOMAIN s = 1..Len(s) /\ DOMAIN a = 1..(Len(s) + 1)
  BY <1>1, LenProperties
<1> HIDE DEF a
<1>3. \A j, k \in 1..Len(s) : s[j] = s[k] => j = k
  BY <1>2 DEF IsInjective
<1>4. \A k \in 1..Len(s) : s[k] # e
  BY <1>2 DEF ToSet
<1>5. \A k \in 1..(Len(s) + 1) : k \in 1..Len(s) \/ k = Len(s) + 1
  BY <1>1
<1>6. IsInjective(a)
  BY <1>1, <1>2, <1>3, <1>4, <1>5 DEF IsInjective
<1>7. ASSUME NEW x \in ToSet(a) PROVE x \in ToSet(s) \union {e}
  BY <1>1, <1>2, <1>5 DEF ToSet
<1>8. ASSUME NEW x \in ToSet(s) \union {e} PROVE x \in ToSet(a)
  <2>1. \A k \in 1..Len(s) : k \in 1..(Len(s) + 1)
    BY <1>1
  <2>2. Len(s) + 1 \in 1..(Len(s) + 1)
    BY <1>1
  <2> QED BY <1>1, <1>2, <2>1, <2>2 DEF ToSet
<1> QED BY <1>1, <1>6, <1>7, <1>8 DEF a

\* Inserting, at its place, what is not in an ascending list.
LEMMA PutIn ==
  ASSUME NEW S, NEW s \in Seq(S), NEW e \in S, NEW i \in 1..(Len(s) + 1),
         e \notin ToSet(s), IsInjective(s), AscendingCapacity(s), capacity[e] \in Nat,
         \A k \in 1..Len(s) : k < i => capacity[s[k]] <= capacity[e],
         \A k \in 1..Len(s) : k >= i => capacity[e] <= capacity[s[k]]
  PROVE  /\ InsertAt(s, i, e) \in Seq(S) /\ IsInjective(InsertAt(s, i, e))
         /\ AscendingCapacity(InsertAt(s, i, e))
         /\ ToSet(InsertAt(s, i, e)) = ToSet(s) \union {e}
<1> DEFINE a == InsertAt(s, i, e)
           To(k) == IF k < i THEN k ELSE k + 1
<1>1. /\ Len(s) \in Nat /\ i \in Nat /\ 1 <= i /\ i <= Len(s) + 1
      /\ a \in Seq(S) /\ Len(a) = Len(s) + 1
      /\ \A k \in 1..(i - 1) : a[k] = s[k]
      /\ a[i] = e
      /\ \A k \in (i + 1)..(Len(s) + 1) : a[k] = s[k - 1]
  <2>1. Len(s) \in Nat /\ i \in Nat /\ 1 <= i /\ i <= Len(s) + 1
    BY LenProperties
  <2>2. s \in Seq(S) /\ e \in S /\ i \in 1..(Len(s) + 1)
    OBVIOUS
  <2>3. /\ a \in Seq(S) /\ Len(a) = Len(s) + 1
        /\ \A k \in 1..(i - 1) : a[k] = s[k]
        /\ a[i] = e
        /\ \A k \in (i + 1)..(Len(s) + 1) : a[k] = s[k - 1]
    BY ONLY <2>2, InsertAtFacts
  <2> QED BY <2>1, <2>3
<1>2. DOMAIN s = 1..Len(s) /\ DOMAIN a = 1..(Len(s) + 1)
  BY <1>1, LenProperties
<1> HIDE DEF a
<1>3. \A j, k \in 1..Len(s) : s[j] = s[k] => j = k
  BY <1>2 DEF IsInjective
<1>4. \A j, k \in 1..Len(s) : j < k => capacity[s[j]] <= capacity[s[k]]
  BY <1>2 DEF AscendingCapacity
<1>5. \A k \in 1..Len(s) : s[k] # e
  BY <1>2 DEF ToSet
<1>6. ASSUME NEW k \in 1..Len(s)
      PROVE  To(k) \in 1..(Len(s) + 1) /\ To(k) # i /\ a[To(k)] = s[k]
  <2>1. CASE k < i
    BY <1>1, <2>1
  <2>2. CASE k >= i
    <3>1. k + 1 \in (i + 1)..(Len(s) + 1) /\ (k + 1) - 1 = k /\ To(k) = k + 1
      BY <1>1, <2>2
    <3> QED BY <1>1, <3>1
  <2>3. k < i \/ k >= i
    BY <1>1
  <2> QED BY <2>1, <2>2, <2>3
<1>7. ASSUME NEW k \in 1..(Len(s) + 1), k # i PROVE \E j \in 1..Len(s) : k = To(j)
  <2>1. CASE k < i
    BY <1>1, <2>1
  <2>2. CASE k > i
    <3>1. k - 1 \in 1..Len(s) /\ To(k - 1) = k
      BY <1>1, <2>2
    <3> QED BY <3>1
  <2>3. k < i \/ k > i
    BY <1>1, <1>7
  <2> QED BY <2>1, <2>2, <2>3
<1>8. \A j, k \in 1..Len(s) :
        (j < k <=> To(j) < To(k)) /\ (j < i <=> To(j) < i) /\ (j = k <=> To(j) = To(k))
  BY <1>1
<1>9. \A k \in 1..Len(s) : k < i \/ k >= i
  BY <1>1
<1> HIDE DEF To
<1>10. i \in 1..(Len(s) + 1)
  OBVIOUS
<1>11. IsInjective(a)
  <2> SUFFICES ASSUME NEW j \in 1..(Len(s) + 1), NEW k \in 1..(Len(s) + 1), a[j] = a[k]
               PROVE  j = k
    BY <1>2 DEF IsInjective
  <2>1. CASE j = i \/ k = i
    BY <1>1, <1>5, <1>6, <1>7, <2>1
  <2>2. CASE j # i /\ k # i
    <3>1. PICK m \in 1..Len(s), n \in 1..Len(s) : j = To(m) /\ k = To(n)
      BY <1>7, <2>2
    <3>2. s[m] = s[n]
      BY <1>6, <3>1
    <3> QED BY <1>3, <3>1, <3>2
  <2> QED BY <2>1, <2>2
<1>12. AscendingCapacity(a)
  <2> SUFFICES ASSUME NEW j \in 1..(Len(s) + 1), NEW k \in 1..(Len(s) + 1), j < k
               PROVE  capacity[a[j]] <= capacity[a[k]]
    BY <1>2 DEF AscendingCapacity
  <2>1. CASE j = i
    <3>1. k # i /\ ~(k < i)
      BY <1>1, <2>1
    <3>2. PICK n \in 1..Len(s) : k = To(n)
      BY <1>7, <3>1
    <3>3. n >= i
      BY <1>8, <1>9, <3>1, <3>2
    <3> QED BY <1>1, <1>6, <2>1, <3>2, <3>3
  <2>2. CASE k = i
    <3>1. j # i /\ j < i
      BY <1>1, <2>2
    <3>2. PICK m \in 1..Len(s) : j = To(m)
      BY <1>7, <3>1
    <3>3. m < i
      BY <1>8, <3>1, <3>2
    <3> QED BY <1>1, <1>6, <2>2, <3>2, <3>3
  <2>3. CASE j # i /\ k # i
    <3>1. PICK m \in 1..Len(s), n \in 1..Len(s) : j = To(m) /\ k = To(n)
      BY <1>7, <2>3
    <3> QED BY <1>4, <1>6, <1>8, <3>1
  <2> QED BY <2>1, <2>2, <2>3
<1>13. ASSUME NEW x \in ToSet(a) PROVE x \in ToSet(s) \union {e}
  <2>1. PICK k \in 1..(Len(s) + 1) : x = a[k]
    BY <1>2 DEF ToSet
  <2>2. CASE k = i
    BY <1>1, <2>1, <2>2
  <2>3. CASE k # i
    <3>1. PICK j \in 1..Len(s) : k = To(j)
      BY <1>7, <2>3
    <3> QED BY <1>2, <1>6, <2>1, <3>1 DEF ToSet
  <2> QED BY <2>2, <2>3
<1>14. ASSUME NEW x \in ToSet(s) \union {e} PROVE x \in ToSet(a)
  <2>1. CASE x = e
    BY <1>1, <1>2, <1>10, <2>1 DEF ToSet
  <2>2. CASE x \in ToSet(s)
    <3>1. PICK k \in 1..Len(s) : x = s[k]
      BY <1>2, <2>2 DEF ToSet
    <3> QED BY <1>2, <1>6, <3>1 DEF ToSet
  <2> QED BY <2>1, <2>2
<1> QED BY <1>1, <1>11, <1>12, <1>13, <1>14 DEF a

-----------------------------------------------------------------------------
\* What is free in one of the lists.
LEMMA Typing ==
  ASSUME Capacities, NEW pool, Good(pool)
  PROVE  /\ pool.small \in Seq(SmallOnes) /\ pool.large \in Seq(LargeOnes)
         /\ IsInjective(pool.small) /\ IsInjective(pool.large)
         /\ AscendingCapacity(pool.large)
         /\ pool = [small |-> pool.small, large |-> pool.large]
         /\ ToSet(pool.small) \subseteq SmallOnes /\ ToSet(pool.large) \subseteq LargeOnes
         /\ SmallOnes \subseteq Buffers /\ LargeOnes \subseteq Buffers
         /\ Len(pool.large) \in Nat /\ DOMAIN pool.large = 1..Len(pool.large)
         /\ \A i \in 1..Len(pool.large) : pool.large[i] \in LargeOnes
         /\ \A b \in Buffers : capacity[b] \in Nat /\ capacity[b] >= SmallCap
         /\ SmallCap \in Nat /\ 0 \notin Buffers
<1>1. /\ pool.small \in Seq(SmallOnes) /\ pool.large \in Seq(LargeOnes)
      /\ pool = [small |-> pool.small, large |-> pool.large]
  BY DEF Good
<1>2. /\ Len(pool.large) \in Nat /\ DOMAIN pool.large = 1..Len(pool.large)
      /\ DOMAIN pool.small = 1..Len(pool.small)
      /\ \A i \in 1..Len(pool.large) : pool.large[i] \in LargeOnes
      /\ \A i \in 1..Len(pool.small) : pool.small[i] \in SmallOnes
  BY <1>1, LenProperties, ElementOfSeq
<1>3. ToSet(pool.small) \subseteq SmallOnes /\ ToSet(pool.large) \subseteq LargeOnes
  BY <1>2 DEF ToSet
<1>4. Len(capacity) \in Nat /\ Buffers = 1..Len(capacity) /\ capacity \in [1..Len(capacity) -> Nat]
  BY LenProperties DEF Buffers, Capacities
<1>5. (\A b \in Buffers : capacity[b] \in Nat) /\ 0 \notin Buffers
  BY <1>4
<1> QED BY <1>1, <1>2, <1>3, <1>5, PoolAssumption DEF Good, SmallOnes, LargeOnes, Capacities

\* The element AllocateWorkSpace looks at is the one at the list's last position.
LEMMA LastOfLarge ==
  ASSUME Capacities, NEW pool, Good(pool), pool.large # << >>
  PROVE  /\ Len(pool.large) \in 1..Len(pool.large)
         /\ Last(pool.large) = pool.large[Len(pool.large)]
<1>1. pool.large \in Seq(LargeOnes)
  BY Typing
<1>2. Len(pool.large) \in Nat /\ 1 <= Len(pool.large) /\ Last(pool.large) = pool.large[Len(pool.large)]
  BY <1>1, FrontFacts
<1> QED BY <1>2

\* FreeWorkSpace keeps the lists in order and adds the buffer.
LEMMA FreedGood ==
  ASSUME Capacities, NEW pool, Good(pool),
         NEW b \in Buffers \union {None}, b \notin In(pool)
  PROVE  Good(Freed(pool, b)) /\ In(Freed(pool, b)) = In(pool) \union ({b} \ {None})
<1>1. CASE b = None
  BY <1>1 DEF Freed
<1>2. CASE b # None /\ IsSmall(b)
  <2>1. b \in SmallOnes /\ b \notin ToSet(pool.small)
    BY <1>2 DEF SmallOnes, In
  <2>2. Freed(pool, b) = [small |-> Append(pool.small, b), large |-> pool.large]
    <3>1. Freed(pool, b) = [pool EXCEPT !.small = Append(@, b)]
      BY <1>2 DEF Freed
    <3>2. [pool EXCEPT !.small = Append(@, b)]
            = [small |-> Append(pool.small, b), large |-> pool.large]
      <4>1. pool = [small |-> pool.small, large |-> pool.large]
        BY Typing
      <4> QED BY ONLY <4>1
    <3> QED BY <3>1, <3>2
  <2>3. /\ Append(pool.small, b) \in Seq(SmallOnes) /\ IsInjective(Append(pool.small, b))
        /\ ToSet(Append(pool.small, b)) = ToSet(pool.small) \union {b}
    BY <2>1, Typing, PutLast
  <2> QED BY <1>2, <2>2, <2>3, Typing DEF Good, In
<1>3. CASE b # None /\ ~IsSmall(b)
  <2> DEFINE large == pool.large
             larger == {i \in DOMAIN large : capacity[large[i]] >= capacity[b]}
             place == Min(larger \union {Len(large) + 1})
  <2>1. b \in LargeOnes /\ b \notin ToSet(large) /\ capacity[b] \in Nat
    BY <1>3, Typing DEF LargeOnes, In
  <2>2. /\ Len(large) \in Nat /\ DOMAIN large = 1..Len(large)
        /\ \A i \in 1..Len(large) : capacity[large[i]] \in Nat
        /\ \A i, j \in 1..Len(large) : i < j => capacity[large[i]] <= capacity[large[j]]
    BY Typing DEF AscendingCapacity
  <2> DEFINE places == larger \union {Len(large) + 1}
  <2>3. places \subseteq Nat /\ places # {}
    BY <2>2
  <2>4. place \in places /\ \A x \in places : place <= x
    BY <2>3, MinFacts
  <2>5. place \in 1..(Len(large) + 1)
    BY <2>2, <2>4
  <2> HIDE DEF place
  <2>6. ASSUME NEW k \in 1..Len(large), k < place PROVE capacity[large[k]] <= capacity[b]
    <3>1. k \notin places
      BY <2>4, <2>5, <2>6
    <3> QED BY <2>1, <2>2, <3>1
  <2>7. ASSUME NEW k \in 1..Len(large), k >= place PROVE capacity[b] <= capacity[large[k]]
    <3>1. place \in 1..Len(large) /\ capacity[large[place]] >= capacity[b]
      BY <2>2, <2>4, <2>5, <2>7
    <3>2. capacity[large[place]] <= capacity[large[k]]
      <4>1. k = place \/ place < k
        BY <2>5, <2>7
      <4> QED BY <2>2, <3>1, <4>1
    <3> QED BY <2>1, <2>2, <3>1, <3>2
  <2>8. /\ InsertAt(large, place, b) \in Seq(LargeOnes) /\ IsInjective(InsertAt(large, place, b))
        /\ AscendingCapacity(InsertAt(large, place, b))
        /\ ToSet(InsertAt(large, place, b)) = ToSet(large) \union {b}
    <3>1. large \in Seq(LargeOnes) /\ IsInjective(large) /\ AscendingCapacity(large)
      BY Typing
    <3> HIDE DEF large
    <3>2. /\ \A k \in 1..Len(large) : k < place => capacity[large[k]] <= capacity[b]
          /\ \A k \in 1..Len(large) : k >= place => capacity[b] <= capacity[large[k]]
      BY <2>6, <2>7
    <3> QED BY ONLY <2>1, <2>5, <3>1, <3>2, PutIn
  <2>9. Freed(pool, b) = [small |-> pool.small, large |-> InsertAt(large, place, b)]
    BY <1>3, Typing DEF Freed, place
  <2> QED BY <1>3, <2>8, <2>9, Typing DEF Good, In
<1> QED BY <1>1, <1>2, <1>3

\* AllocateWorkSpace takes a buffer that fits, and only that one.
LEMMA TakenGood ==
  ASSUME Capacities, NEW pool, Good(pool), NEW n \in Nat, Reuses(pool, n)
  PROVE  /\ Chosen(pool, n) \in In(pool) /\ Fits(capacity[Chosen(pool, n)], n)
         /\ Good(Without(pool, n)) /\ In(Without(pool, n)) = In(pool) \ {Chosen(pool, n)}
<1> DEFINE c == Chosen(pool, n)
<1>1. CASE n <= SmallCap
  <2>1. pool.small # << >> /\ c = Last(pool.small)
        /\ Without(pool, n) = [small |-> Front(pool.small), large |-> pool.large]
    BY <1>1, Typing DEF Reuses, Chosen, Without
  <2>2. /\ Front(pool.small) \in Seq(SmallOnes) /\ IsInjective(Front(pool.small))
        /\ c \in ToSet(pool.small) /\ ToSet(Front(pool.small)) = ToSet(pool.small) \ {c}
    BY <2>1, Typing, TakeLast
  <2>3. c \in SmallOnes /\ c \notin ToSet(pool.large)
    BY <2>2, Typing DEF SmallOnes, LargeOnes
  <2>4. Good(Without(pool, n)) /\ In(Without(pool, n)) = In(pool) \ {c}
    BY <2>1, <2>2, <2>3, Typing DEF Good, In
  <2>5. c \in In(pool) /\ capacity[c] \in Nat /\ capacity[c] <= SmallCap
                          /\ capacity[c] >= SmallCap
    BY <2>2, <2>3, Typing DEF In, SmallOnes, IsSmall
  <2> QED BY <1>1, <2>4, <2>5, PoolAssumption DEF Fits
<1>2. CASE n > SmallCap
  <2> DEFINE i == Min(Fitting(pool.large, n))
  <2>1. pool.large # << >> /\ capacity[Last(pool.large)] >= n /\ c = pool.large[i]
        /\ Without(pool, n) = [small |-> pool.small, large |-> RemoveAt(pool.large, i)]
    <3>1. ~(n <= SmallCap)
      BY <1>2, PoolAssumption
    <3>2. Without(pool, n) = [pool EXCEPT !.large = RemoveAt(@, i)]
      BY <3>1 DEF Without
    <3>3. [pool EXCEPT !.large = RemoveAt(@, i)]
            = [small |-> pool.small, large |-> RemoveAt(pool.large, i)]
      BY Typing
    <3> QED BY <3>1, <3>2, <3>3 DEF Reuses, Chosen
  <2>2. i \in Fitting(pool.large, n)
    <3>1. Len(pool.large) \in 1..Len(pool.large) /\ Last(pool.large) = pool.large[Len(pool.large)]
      BY <2>1, LastOfLarge
    <3>2. Fitting(pool.large, n) # {} /\ Fitting(pool.large, n) \subseteq Nat
      BY <2>1, <3>1, Typing DEF Fitting
    <3> QED BY <3>2, MinFacts
  <2>3. i \in 1..Len(pool.large) /\ capacity[c] >= n
    BY <2>1, <2>2, Typing DEF Fitting
  <2> HIDE DEF i
  <2>4. /\ RemoveAt(pool.large, i) \in Seq(LargeOnes) /\ IsInjective(RemoveAt(pool.large, i))
        /\ AscendingCapacity(RemoveAt(pool.large, i))
        /\ c \in ToSet(pool.large) /\ ToSet(RemoveAt(pool.large, i)) = ToSet(pool.large) \ {c}
    BY <2>1, <2>3, Typing, TakeOut
  <2>5. c \in LargeOnes /\ c \notin ToSet(pool.small)
    BY <2>4, Typing DEF SmallOnes, LargeOnes
  <2>6. Good(Without(pool, n)) /\ In(Without(pool, n)) = In(pool) \ {c}
    BY <2>1, <2>4, <2>5, Typing DEF Good, In
  <2>7. c \in In(pool)
    BY <2>4 DEF In
  <2> QED BY <1>2, <2>3, <2>6, <2>7, PoolAssumption DEF Fits
<1>3. n <= SmallCap \/ n > SmallCap
  BY PoolAssumption
<1> QED BY <1>1, <1>2, <1>3

\* A new buffer is made only if no buffer available fits.
LEMMA NoneFits ==
  ASSUME Capacities, NEW pool, Good(pool), NEW n \in Nat, ~Reuses(pool, n),
         NEW b \in In(pool)
  PROVE  ~Fits(capacity[b], n)
<1>1. CASE n <= SmallCap
  <2>1. pool.small = << >>
    BY <1>1 DEF Reuses
  <2>2. ToSet(pool.small) = {}
    BY <2>1 DEF ToSet
  <2>3. b \in LargeOnes
    BY <2>2, Typing DEF In
  <2> QED BY <1>1, <2>3, Typing DEF Fits, LargeOnes, IsSmall
<1>2. CASE n > SmallCap
  <2>1. CASE b \in ToSet(pool.small)
    <3>1. capacity[b] \in Nat /\ capacity[b] <= SmallCap /\ SmallCap \in Nat
      BY <2>1, Typing DEF SmallOnes, IsSmall
    <3> QED BY <1>2, <3>1 DEF Fits
  <2>2. CASE b \in ToSet(pool.large)
    <3> DEFINE large == pool.large
    <3>1. PICK i \in 1..Len(large) : b = large[i]
      BY <2>2, Typing DEF ToSet
    <3>2. large # << >>
      <4>1. Len(<< >>) = 0
        OBVIOUS
      <4> QED BY <3>1, <4>1
    <3>3. Len(large) \in 1..Len(large) /\ Last(large) = large[Len(large)]
      BY <3>2, LastOfLarge
    <3>4. capacity[b] <= capacity[Last(large)]
      <4>1. i = Len(large) \/ i < Len(large)
        BY <3>1, Typing
      <4> QED BY <3>1, <3>3, <4>1, Typing DEF AscendingCapacity
    <3>5. ~(capacity[Last(large)] >= n) /\ capacity[Last(large)] \in Nat /\ capacity[b] \in Nat
      BY <1>2, <3>1, <3>2, <3>3, Typing, PoolAssumption DEF Reuses
    <3>6. capacity[b] < n
      BY <3>4, <3>5
    <3> QED BY <3>5, <3>6 DEF Fits
  <2> QED BY <2>1, <2>2 DEF In
<1>3. n <= SmallCap \/ n > SmallCap
  BY PoolAssumption
<1> QED BY <1>1, <1>2, <1>3

-----------------------------------------------------------------------------
(***************************************************************************)
(* The inductive invariant: the containers' buffers and the free ones are  *)
(* the buffers made, each once, and large enough.                          *)
(***************************************************************************)
PoolInv ==
  /\ Capacities /\ Good(avail)
  /\ ctn \in [Containers -> Buffers \union {None}]
  /\ \A c, d \in Containers : ctn[c] = ctn[d] /\ ctn[c] # None => c = d
  /\ \A c \in Containers : ctn[c] \notin In(avail)
  /\ \A b \in Buffers : b \in In(avail) \/ \E c \in Containers : ctn[c] = b
  /\ asked \in [Containers -> Sizes \union {0}]
  /\ \A c \in Containers : CapacityOf(c) >= asked[c]

RowsInv ==
  /\ kept \in [Buffers -> Nat]
  /\ written \in [Containers -> Sizes \union {0}]
  /\ \A c \in Containers : ctn[c] = None => written[c] = 0
  /\ KeepsRows

Inv == PoolInv /\ RowsInv

\* The capacities of the buffers made before do not change.
LEMMA Grown ==
  ASSUME Capacities, NEW x \in Nat, x >= SmallCap, capacity' = Append(capacity, x)
  PROVE  /\ Capacities' /\ Buffers \subseteq Buffers' /\ \A b \in Buffers : capacity'[b] = capacity[b]
         /\ Buffers' = Buffers \union {Len(capacity) + 1} /\ Len(capacity) + 1 \notin Buffers
         /\ capacity'[Len(capacity) + 1] = x /\ Len(capacity) + 1 # None
<1>1. /\ Len(capacity) \in Nat /\ Buffers = 1..Len(capacity)
      /\ capacity' \in Seq(Nat) /\ Len(capacity') = Len(capacity) + 1
      /\ \A i \in 1..Len(capacity) : capacity'[i] = capacity[i]
      /\ capacity'[Len(capacity) + 1] = x
  BY AppendProperties, LenProperties DEF Capacities, Buffers
<1>2. Buffers' = 1..(Len(capacity) + 1)
  BY <1>1, LenProperties DEF Buffers
<1>3. Buffers' = Buffers \union {Len(capacity) + 1} /\ Len(capacity) + 1 \notin Buffers
  BY <1>1, <1>2
<1>4. Len(capacity) + 1 # None
  BY <1>1 DEF None
<1>5. \A b \in Buffers' : capacity'[b] >= SmallCap
  BY <1>1, <1>3 DEF Capacities
<1> QED BY <1>1, <1>3, <1>4, <1>5 DEF Capacities

\* Good lists remain good.
LEMMA StaysGood ==
  ASSUME Capacities, NEW pool, Good(pool),
         Buffers \subseteq Buffers', \A b \in Buffers : capacity'[b] = capacity[b]
  PROVE  /\ pool \in [small : Seq(SmallOnes'), large : Seq(LargeOnes')]
         /\ \A i, j \in DOMAIN pool.large : i < j => capacity'[pool.large[i]] <= capacity'[pool.large[j]]
<1>1. SmallOnes \subseteq SmallOnes' /\ LargeOnes \subseteq LargeOnes'
  BY DEF SmallOnes, LargeOnes, IsSmall
<1>2. pool.small \in Seq(SmallOnes') /\ pool.large \in Seq(LargeOnes')
  BY <1>1, Typing, SeqMonotonic
<1>3. pool \in [small : Seq(SmallOnes'), large : Seq(LargeOnes')]
  BY <1>2, Typing
<1>4. ASSUME NEW i \in DOMAIN pool.large, NEW j \in DOMAIN pool.large, i < j
      PROVE  capacity'[pool.large[i]] <= capacity'[pool.large[j]]
  BY <1>4, Typing DEF AscendingCapacity
<1> QED BY <1>3, <1>4

\* A new buffer fits.
LEMMA NewFits ==
  ASSUME NEW n \in Nat
  PROVE  NewCapacity(n) \in Nat /\ NewCapacity(n) >= SmallCap /\ Fits(NewCapacity(n), n)
<1>1. SmallCap \in Nat
  BY PoolAssumption
<1>2. (3 * n) \div 2 \in Nat /\ (3 * n) \div 2 >= n
  OBVIOUS
<1>3. CASE n <= SmallCap
  BY <1>1, <1>3 DEF NewCapacity, Fits
<1>4. CASE ~(n <= SmallCap)
  <2>1. NewCapacity(n) = (3 * n) \div 2 + SmallCap
    BY <1>4 DEF NewCapacity
  <2> QED BY <1>1, <1>2, <1>4, <2>1 DEF Fits
<1> QED BY <1>3, <1>4

\* A container is given a buffer: Obtain, whether the old buffer is freed before or after.
LEMMA Obtained ==
  ASSUME PoolInv, NEW c \in Containers, NEW n \in Sizes, NEW pool, NEW released, NEW had,
         Obtain(c, n, pool, released, had),
         Good(pool), released \in Buffers \union {None}, released \notin In(pool),
         In(pool) \union ({released} \ {None}) = In(avail) \union ({ctn[c]} \ {None})
  PROVE  /\ PoolInv'
         /\ ctn' = [ctn EXCEPT ![c] = ctn'[c]] /\ asked' = [asked EXCEPT ![c] = n]
         /\ ctn'[c] # None /\ ctn'[c] \in Buffers' /\ Buffers \subseteq Buffers'
         /\ \A d \in Containers \ {c} : ctn'[c] # ctn[d]
         /\ In(avail') = (In(pool) \ {ctn'[c]}) \union ({released} \ {None})
         /\ \/ capacity' = capacity /\ ctn'[c] \in In(pool) /\ Fits(capacity[ctn'[c]], n)
            \/ /\ capacity' = Append(capacity, NewCapacity(n)) /\ ctn'[c] = Len(capacity) + 1
               /\ Fits(NewCapacity(n), n) /\ \A b \in In(pool) : ~Fits(capacity[b], n)
<1> DEFINE b == IF Reuses(pool, n) THEN Chosen(pool, n) ELSE Len(capacity) + 1
           rest == IF Reuses(pool, n) THEN Without(pool, n) ELSE pool
<1>1. /\ n \in Nat /\ Capacities /\ Good(avail)
      /\ ctn \in [Containers -> Buffers \union {None}] /\ None \notin Buffers
      /\ Len(capacity) \in Nat /\ SmallCap \in Nat
      /\ In(pool) \subseteq Buffers /\ In(avail) \subseteq Buffers
  <2>1. Capacities /\ Good(avail) /\ ctn \in [Containers -> Buffers \union {None}]
    BY DEF PoolInv
  <2>2. In(pool) \subseteq Buffers /\ In(avail) \subseteq Buffers
    BY <2>1, Typing DEF In
  <2>3. Len(capacity) \in Nat
    BY <2>1, LenProperties DEF Capacities
  <2> QED BY <2>1, <2>2, <2>3, Typing, PoolAssumption DEF None
<1>2. /\ ctn' = [ctn EXCEPT ![c] = b] /\ avail' = Freed(rest, released)
      /\ capacity' = IF Reuses(pool, n) THEN capacity ELSE Append(capacity, NewCapacity(n))
      /\ asked' = [asked EXCEPT ![c] = n]
  BY DEF Obtain
<1>3. /\ Good(rest) /\ In(rest) = In(pool) \ {b} /\ b # None /\ b \in Buffers'
      /\ Capacities' /\ Buffers \subseteq Buffers' /\ Buffers' \subseteq Buffers \union {b}
      /\ \A x \in Buffers : capacity'[x] = capacity[x]
      /\ capacity'[b] \in Nat /\ Fits(capacity'[b], n)
      /\ b \in In(pool) \/ b \notin Buffers
      /\ \/ capacity' = capacity /\ b \in In(pool) /\ Fits(capacity[b], n)
         \/ /\ capacity' = Append(capacity, NewCapacity(n)) /\ b = Len(capacity) + 1
            /\ Fits(NewCapacity(n), n) /\ \A x \in In(pool) : ~Fits(capacity[x], n)
  <2>1. CASE Reuses(pool, n)
    <3>1. /\ b \in In(pool) /\ Fits(capacity[b], n) /\ Good(rest) /\ In(rest) = In(pool) \ {b}
      BY <1>1, <2>1, TakenGood
    <3>2. capacity' = capacity /\ Buffers' = Buffers /\ Capacities'
      BY <1>1, <1>2, <2>1 DEF Buffers, Capacities
    <3> HIDE DEF b, rest
    <3>3. b \in Buffers /\ capacity[b] \in Nat
      BY <1>1, <3>1, Typing
    <3> QED BY <1>1, <3>1, <3>2, <3>3
  <2>2. CASE ~Reuses(pool, n)
    <3>1. capacity' = Append(capacity, NewCapacity(n)) /\ b = Len(capacity) + 1 /\ rest = pool
      BY <1>2, <2>2
    <3> HIDE DEF b, rest
    <3>2. NewCapacity(n) \in Nat /\ NewCapacity(n) >= SmallCap /\ Fits(NewCapacity(n), n)
      BY <1>1, NewFits
    <3>3. /\ Capacities' /\ Buffers \subseteq Buffers' /\ \A x \in Buffers : capacity'[x] = capacity[x]
          /\ Buffers' = Buffers \union {b} /\ b \notin Buffers
          /\ capacity'[b] = NewCapacity(n) /\ b # None
      BY <1>1, <3>1, <3>2, Grown
    <3>4. \A x \in In(pool) : ~Fits(capacity[x], n)
      BY <1>1, <2>2, NoneFits
    <3>5. In(rest) = In(pool) \ {b}
      BY <1>1, <3>1, <3>3
    <3> QED BY <3>1, <3>2, <3>3, <3>4, <3>5
  <2> QED BY <2>1, <2>2
<1> HIDE DEF b, rest
<1>4. Good(avail') /\ In(avail') = In(rest) \union ({released} \ {None})
  <2>1. released \notin In(rest)
    BY <1>3
  <2> QED BY <1>1, <1>2, <1>3, <2>1, FreedGood
<1>5. Good(avail)'
  <2>1. /\ avail' \in [small : Seq(SmallOnes'), large : Seq(LargeOnes')]
        /\ \A i, j \in DOMAIN avail'.large :
             i < j => capacity'[avail'.large[i]] <= capacity'[avail'.large[j]]
    BY <1>1, <1>3, <1>4, StaysGood
  <2>2. IsInjective(avail'.small) /\ IsInjective(avail'.large)
    BY <1>4 DEF Good
  <2> QED BY <2>1, <2>2 DEF Good, AscendingCapacity
<1>6. ctn'[c] = b /\ \A d \in Containers \ {c} : ctn'[d] = ctn[d] /\ asked'[d] = asked[d]
  BY <1>1, <1>2 DEF PoolInv
<1>7. \A d \in Containers \ {c} : b # ctn[d]
  <2> SUFFICES ASSUME NEW d \in Containers \ {c}, b = ctn[d] PROVE FALSE
    OBVIOUS
  <2>1. b \in In(pool)
    BY <1>1, <1>3
  <2>2. b \in In(avail) \/ b = ctn[c]
    BY <2>1
  <2> QED BY <1>3, <2>2 DEF PoolInv
<1>8. ctn' \in [Containers -> Buffers' \union {None}]
  BY <1>1, <1>2, <1>3
<1>9. \A d, e \in Containers : ctn'[d] = ctn'[e] /\ ctn'[d] # None => d = e
  BY <1>6, <1>7 DEF PoolInv
<1>10. \A d \in Containers : ctn'[d] \notin In(avail')
  <2>1. b \notin In(avail')
    <3>1. b # released
      BY <1>1, <1>3
    <3> QED BY <1>3, <1>4, <3>1
  <2>2. ASSUME NEW d \in Containers \ {c} PROVE ctn[d] \notin In(avail')
    <3>1. ctn[d] \notin In(avail) /\ (ctn[d] # None => ctn[d] # ctn[c])
      BY DEF PoolInv
    <3>2. ctn[d] \notin In(avail) \union ({ctn[c]} \ {None})
      BY <3>1
    <3> QED BY <1>3, <1>4, <3>2
  <2> QED BY <1>6, <2>1, <2>2
<1>11. \A x \in Buffers' : x \in In(avail') \/ \E d \in Containers : ctn'[d] = x
  <2> SUFFICES ASSUME NEW x \in Buffers', x # b
               PROVE  x \in In(avail') \/ \E d \in Containers : ctn'[d] = x
    BY <1>6
  <2>1. x \in Buffers
    BY <1>3
  <2>2. CASE x \in In(avail) \union ({ctn[c]} \ {None})
    BY <1>3, <1>4, <2>2
  <2>3. CASE x \notin In(avail) /\ ~(x = ctn[c])
    <3>1. PICK d \in Containers : ctn[d] = x
      BY <2>1, <2>3 DEF PoolInv
    <3> QED BY <1>6, <2>3, <3>1
  <2> QED BY <1>1, <2>1, <2>2, <2>3
<1>12. asked' \in [Containers -> Sizes \union {0}]
  BY <1>2 DEF PoolInv
<1>13. ASSUME NEW d \in Containers PROVE CapacityOf(d)' >= asked'[d]
  <2>1. CASE d = c
    BY <1>2, <1>3, <1>6, <1>12, <2>1 DEF CapacityOf, Fits, PoolInv
  <2>2. CASE d # c
    <3>1. CapacityOf(d)' = CapacityOf(d)
      BY <1>1, <1>3, <1>6, <2>2 DEF CapacityOf
    <3> QED BY <1>6, <2>2, <3>1 DEF PoolInv
  <2> QED BY <2>1, <2>2
<1>14. In(avail)' = In(avail')
  BY DEF In
<1> QED BY <1>2, <1>3, <1>4, <1>5, <1>6, <1>7, <1>8, <1>9, <1>10, <1>11, <1>12, <1>13, <1>14
        DEF PoolInv

-----------------------------------------------------------------------------
(***************************************************************************)
(* Every step keeps the invariant.                                         *)
(***************************************************************************)
LEMMA InvTyping ==
  ASSUME Inv
  PROVE  /\ \A b \in Buffers : capacity[b] \in Nat /\ kept[b] \in Nat
         /\ None \notin Buffers /\ DOMAIN kept = Buffers
         /\ \A c \in Containers : /\ ctn[c] \in Buffers \union {None} /\ CapacityOf(c) \in Nat
                                  /\ asked[c] \in Sizes \union {0} /\ asked[c] \in Nat
                                  /\ written[c] \in Sizes \union {0} /\ written[c] \in Nat
         /\ \A n \in Sizes : n \in Nat
         /\ In(avail) \subseteq Buffers
<1>1. (\A b \in Buffers : capacity[b] \in Nat) /\ None \notin Buffers /\ In(avail) \subseteq Buffers
  BY Typing DEF Inv, PoolInv, None, In
<1>2. Sizes \subseteq Nat /\ 0 \in Nat
  BY PoolAssumption
<1>3. DOMAIN kept = Buffers /\ \A b \in Buffers : kept[b] \in Nat
  BY DEF Inv, RowsInv
<1>4. ASSUME NEW c \in Containers
      PROVE /\ ctn[c] \in Buffers \union {None} /\ CapacityOf(c) \in Nat
            /\ asked[c] \in Sizes \union {0} /\ asked[c] \in Nat
            /\ written[c] \in Sizes \union {0} /\ written[c] \in Nat
  <2>1. ctn[c] \in Buffers \union {None}
    BY DEF Inv, PoolInv
  <2>2. asked[c] \in Sizes \union {0} /\ written[c] \in Sizes \union {0}
    BY DEF Inv, PoolInv, RowsInv
  <2>3. asked[c] \in Nat /\ written[c] \in Nat
    BY <1>2, <2>2
  <2>4. CapacityOf(c) \in Nat
    BY <1>1, <1>2, <2>1 DEF CapacityOf
  <2> QED BY <2>1, <2>2, <2>3, <2>4
<1> QED BY <1>1, <1>2, <1>3, <1>4

\* The buffer a container holds is replaced by one that fits and that nobody holds.
LEMMA AssignOrResize ==
  ASSUME PoolInv, NEW c \in Containers, NEW n \in Sizes, NEW had,
         Obtain(c, n, avail, ctn[c], had)
  PROVE  /\ Good(avail) /\ ctn[c] \in Buffers \union {None} /\ ctn[c] \notin In(avail)
         /\ In(avail) \union ({ctn[c]} \ {None}) = In(avail) \union ({ctn[c]} \ {None})
BY DEF PoolInv

\* What Reserve allocates from: the lists once the container's buffer is freed.
LEMMA Reserved ==
  ASSUME PoolInv, NEW c \in Containers, NEW n \in Sizes,
         Obtain(c, n, Freed(avail, ctn[c]), None, 0)
  PROVE  LET pool == Freed(avail, ctn[c])
         IN /\ Good(pool) /\ None \in Buffers \union {None} /\ None \notin In(pool)
            /\ In(pool) \union ({None} \ {None}) = In(avail) \union ({ctn[c]} \ {None})
<1>1. /\ Capacities /\ Good(avail) /\ ctn[c] \in Buffers \union {None} /\ ctn[c] \notin In(avail)
  BY DEF PoolInv
<1>2. /\ Good(Freed(avail, ctn[c]))
      /\ In(Freed(avail, ctn[c])) = In(avail) \union ({ctn[c]} \ {None})
  BY <1>1, FreedGood
<1>3. None \notin In(avail)
  BY <1>1, Typing DEF In, None
<1> QED BY <1>2, <1>3

\* The rows of the other containers are where they were.
LEMMA RowsObtained ==
  ASSUME Inv, NEW c \in Containers, NEW n \in Sizes, NEW pool, NEW released,
         NEW had \in Nat, NEW w \in Sizes \union {0}, had >= w,
         Obtain(c, n, pool, released, had), written' = [written EXCEPT ![c] = w],
         PoolInv', ctn' = [ctn EXCEPT ![c] = ctn'[c]], ctn'[c] # None, ctn'[c] \in Buffers',
         Buffers \subseteq Buffers', \A d \in Containers \ {c} : ctn'[c] # ctn[d]
  PROVE  RowsInv'
<1> DEFINE b == IF Reuses(pool, n) THEN Chosen(pool, n) ELSE Len(capacity) + 1
<1>1. ctn' = [ctn EXCEPT ![c] = b]
      /\ kept' = [x \in Buffers' |-> IF x = b THEN had ELSE IF x \in DOMAIN kept THEN kept[x] ELSE 0]
  BY DEF Obtain, Buffers
<1> HIDE DEF b
<1>2. b = ctn'[c] /\ \A d \in Containers \ {c} : ctn'[d] = ctn[d]
  BY <1>1 DEF Inv, PoolInv
<1>3. kept' \in [Buffers' -> Nat] /\ kept'[b] = had
  BY <1>1, <1>2, InvTyping
<1>4. written' \in [Containers -> Sizes \union {0}] /\ written'[c] = w
      /\ \A d \in Containers \ {c} : written'[d] = written[d]
  BY DEF Inv, RowsInv
<1>5. ASSUME NEW d \in Containers
      PROVE (ctn'[d] = None => written'[d] = 0) /\ (ctn'[d] # None => kept'[ctn'[d]] >= written'[d])
  <2>1. CASE d = c
    BY <1>2, <1>3, <1>4, <2>1
  <2>2. CASE d # c
    <3>1. ctn'[d] = ctn[d] /\ ctn[d] # b /\ written'[d] = written[d]
      BY <1>2, <1>4, <2>2
    <3>2. ctn[d] # None => ctn[d] \in Buffers /\ kept[ctn[d]] >= written[d]
      BY InvTyping DEF Inv, RowsInv, KeepsRows
    <3>3. ctn[d] # None => kept'[ctn[d]] = kept[ctn[d]]
      BY <1>1, <3>1, <3>2, InvTyping
    <3> QED BY <3>1, <3>2, <3>3 DEF Inv, RowsInv
  <2> QED BY <2>1, <2>2
<1> QED BY <1>3, <1>4, <1>5 DEF RowsInv, KeepsRows

\* Assigning the result of indices(m_vertex) keeps the invariant.
LEMMA AssignInv == ASSUME Inv, NEW c \in Containers, NEW n \in Sizes, Assign(c, n) PROVE Inv'
<1>1. Obtain(c, n, avail, ctn[c], n) /\ written' = [written EXCEPT ![c] = n] /\ n \in Nat /\ n >= n
  BY InvTyping DEF Assign
<1> QED BY <1>1, AssignOrResize, Obtained, RowsObtained DEF Inv

\* A request a container can hold already keeps the invariant.
LEMMA SufficesInv ==
  ASSUME Inv, NEW c \in Containers, NEW n \in Sizes, CapacityOf(c) >= n, Suffices(c, n)
  PROVE  Inv'
<1> DEFINE m == Max({asked[c], n})
<1>1. n \in Nat /\ asked[c] \in Nat /\ CapacityOf(c) \in Nat /\ CapacityOf(c) >= asked[c]
  BY InvTyping DEF Inv, PoolInv
<1>2. m \in {asked[c], n}
  <2>1. \E x \in {asked[c], n} : \A y \in {asked[c], n} : x >= y
    BY <1>1
  <2> QED BY <2>1 DEF Max
<1> HIDE DEF m
<1>3. asked' = [asked EXCEPT ![c] = m] /\ UNCHANGED <<capacity, avail, ctn, written, kept>>
  BY DEF Suffices, m
<1>4. asked' \in [Containers -> Sizes \union {0}]
  BY <1>2, <1>3 DEF Inv, PoolInv
<1>5. \A d \in Containers : CapacityOf(d)' >= asked'[d]
  BY <1>1, <1>2, <1>3 DEF Inv, PoolInv, CapacityOf
<1>6. PoolInv'
  BY <1>3, <1>4, <1>5 DEF Inv, PoolInv, Capacities, Good, Buffers, SmallOnes, LargeOnes, IsSmall,
       AscendingCapacity, In
<1>7. RowsInv'
  BY <1>3 DEF Inv, RowsInv, KeepsRows, Buffers
<1> QED BY <1>6, <1>7 DEF Inv

\* ManagedContainer::Resize keeps the invariant.
LEMMA ResizeInv == ASSUME Inv, NEW c \in Containers, NEW n \in Sizes, Resize(c, n) PROVE Inv'
<1>1. CASE CapacityOf(c) < n
  <2> DEFINE had == IF ctn[c] = None THEN 0 ELSE kept[ctn[c]]
  <2>1. Obtain(c, n, avail, ctn[c], had) /\ written' = written
    BY <1>1 DEF Resize
  <2>2. had \in Nat /\ had >= written[c] /\ written[c] \in Sizes \union {0}
    BY InvTyping DEF Inv, RowsInv, KeepsRows
  <2>3. written' = [written EXCEPT ![c] = written[c]]
    BY <2>1 DEF Inv, RowsInv
  <2> HIDE DEF had
  <2> QED BY <2>1, <2>2, <2>3, AssignOrResize, Obtained, RowsObtained DEF Inv
<1>2. CASE ~(CapacityOf(c) < n)
  <2>1. CapacityOf(c) >= n /\ Suffices(c, n)
    BY <1>2, InvTyping DEF Resize
  <2> QED BY <2>1, SufficesInv
<1> QED BY <1>1, <1>2

\* ManagedContainer::Reserve keeps the invariant.
LEMMA ReserveInv == ASSUME Inv, NEW c \in Containers, NEW n \in Sizes, Reserve(c, n) PROVE Inv'
<1>1. CASE CapacityOf(c) < n
  <2>1. Obtain(c, n, Freed(avail, ctn[c]), None, 0) /\ written' = [written EXCEPT ![c] = 0]
    BY <1>1 DEF Reserve
  <2>2. 0 \in Nat /\ 0 >= 0 /\ 0 \in Sizes \union {0}
    OBVIOUS
  <2> DEFINE pool == Freed(avail, ctn[c])
  <2>3. /\ Good(pool) /\ None \in Buffers \union {None} /\ None \notin In(pool)
        /\ In(pool) \union ({None} \ {None}) = In(avail) \union ({ctn[c]} \ {None})
    BY <2>1, Reserved DEF Inv
  <2> HIDE DEF pool
  <2>4. Obtain(c, n, pool, None, 0)
    BY <2>1 DEF pool
  <2> QED BY <2>1, <2>2, <2>3, <2>4, Obtained, RowsObtained DEF Inv
<1>2. CASE ~(CapacityOf(c) < n)
  <2>1. CapacityOf(c) >= n /\ Suffices(c, n)
    BY <1>2, InvTyping DEF Reserve
  <2> QED BY <2>1, SufficesInv
<1> QED BY <1>1, <1>2

\* Writing rows keeps the invariant: no other container has the buffer.
LEMMA FillInv == ASSUME Inv, NEW c \in Containers, Fill(c) PROVE Inv'
<1>1. /\ ctn[c] # None /\ written' = [written EXCEPT ![c] = asked[c]]
      /\ kept' = [kept EXCEPT ![ctn[c]] = asked[c]]
      /\ UNCHANGED <<capacity, avail, ctn, asked>>
  BY DEF Fill
<1>2. PoolInv'
  BY <1>1 DEF Inv, PoolInv, Capacities, Good, Buffers, SmallOnes, LargeOnes, IsSmall,
       AscendingCapacity, In, CapacityOf
<1>3. kept' \in [Buffers' -> Nat] /\ written' \in [Containers -> Sizes \union {0}]
  BY <1>1, InvTyping DEF Inv, RowsInv, Buffers
<1>4. ASSUME NEW d \in Containers
      PROVE (ctn'[d] = None => written'[d] = 0) /\ (ctn'[d] # None => kept'[ctn'[d]] >= written'[d])
  <2>1. CASE d = c
    BY <1>1, <2>1, InvTyping DEF Inv, RowsInv
  <2>2. CASE d # c
    <3>1. ctn'[d] = ctn[d] /\ written'[d] = written[d] /\ (ctn[d] # None => ctn[d] # ctn[c])
      BY <1>1, <2>2 DEF Inv, PoolInv, RowsInv
    <3>2. ctn[d] # None => kept'[ctn[d]] = kept[ctn[d]]
      BY <1>1, <3>1, InvTyping DEF Inv, RowsInv
    <3> QED BY <3>1, <3>2 DEF Inv, RowsInv, KeepsRows
  <2> QED BY <2>1, <2>2
<1> QED BY <1>2, <1>3, <1>4 DEF Inv, RowsInv, KeepsRows

\* ~ManagedContainer keeps the invariant and gives the buffer back.
LEMMA DestroyInv == ASSUME Inv, NEW c \in Containers, Destroy(c)
  PROVE Inv' /\ In(avail)' = In(avail) \union {ctn[c]}
<1>1. /\ ctn[c] # None /\ avail' = Freed(avail, ctn[c]) /\ ctn' = [ctn EXCEPT ![c] = None]
      /\ asked' = [asked EXCEPT ![c] = 0] /\ written' = [written EXCEPT ![c] = 0]
      /\ capacity' = capacity /\ kept' = kept /\ Buffers' = Buffers
  BY DEF Destroy, Buffers
<1>2. /\ Capacities /\ Good(avail) /\ ctn[c] \in Buffers /\ ctn[c] \notin In(avail)
  BY <1>1, InvTyping DEF Inv, PoolInv
<1>3. Good(avail') /\ In(avail') = In(avail) \union {ctn[c]}
  BY <1>1, <1>2, FreedGood
<1>4. Good(avail)' /\ Capacities' /\ In(avail)' = In(avail')
  BY <1>1, <1>2, <1>3 DEF Good, Capacities, SmallOnes, LargeOnes, IsSmall, AscendingCapacity, In
<1>5. ctn'[c] = None /\ \A d \in Containers \ {c} : ctn'[d] = ctn[d]
  BY <1>1 DEF Inv, PoolInv
<1>6. ctn' \in [Containers -> Buffers' \union {None}]
  BY <1>1 DEF Inv, PoolInv
<1>7. \A d, e \in Containers : ctn'[d] = ctn'[e] /\ ctn'[d] # None => d = e
  BY <1>5 DEF Inv, PoolInv
<1>8. \A d \in Containers : ctn'[d] \notin In(avail')
  BY <1>1, <1>2, <1>3, <1>5, InvTyping DEF Inv, PoolInv
<1>9. \A x \in Buffers' : x \in In(avail') \/ \E d \in Containers : ctn'[d] = x
  <2> SUFFICES ASSUME NEW x \in Buffers, x \notin In(avail), x # ctn[c]
               PROVE  \E d \in Containers : ctn'[d] = x
    BY <1>1, <1>3
  <2> QED BY <1>5 DEF Inv, PoolInv
<1>10. asked' \in [Containers -> Sizes \union {0}] /\ written' \in [Containers -> Sizes \union {0}]
  BY <1>1 DEF Inv, PoolInv, RowsInv
<1>11. \A d \in Containers : CapacityOf(d)' >= asked'[d]
  BY <1>1, <1>5 DEF Inv, PoolInv, CapacityOf
<1>12. PoolInv'
  BY <1>3, <1>4, <1>6, <1>7, <1>8, <1>9, <1>10, <1>11 DEF PoolInv
<1>13. RowsInv'
  BY <1>1, <1>5, <1>10, InvTyping DEF Inv, RowsInv, KeepsRows
<1> QED BY <1>3, <1>4, <1>12, <1>13 DEF Inv

\* The invariant holds before the first request.
LEMMA InitInv == Init => Inv
<1> SUFFICES ASSUME Init PROVE Inv
  OBVIOUS
<1>1. /\ capacity = << >> /\ kept = << >> /\ avail = [small |-> << >>, large |-> << >>]
      /\ ctn = [c \in Containers |-> None]
      /\ asked = [c \in Containers |-> 0] /\ written = [c \in Containers |-> 0]
  BY DEF Init
<1>2. Buffers = {} /\ Capacities
  BY <1>1, EmptySeq DEF Buffers, Capacities
<1>3. Good(avail) /\ In(avail) = {}
  BY <1>1, EmptySeq DEF Good, IsInjective, AscendingCapacity, In, ToSet
<1>4. PoolInv
  BY <1>1, <1>2, <1>3 DEF PoolInv, CapacityOf
<1>5. kept \in [Buffers -> Nat]
  BY <1>1, <1>2
<1> QED BY <1>1, <1>4, <1>5 DEF Inv, RowsInv, KeepsRows

\* Every step of the pool and its containers keeps the invariant.
LEMMA NextInv == Inv /\ [Next]_vars => Inv'
<1> SUFFICES ASSUME Inv, [Next]_vars PROVE Inv'
  OBVIOUS
<1>1. CASE UNCHANGED vars
  BY <1>1 DEF vars, Inv, PoolInv, RowsInv, KeepsRows, Capacities, Good, Buffers, SmallOnes, LargeOnes,
       IsSmall, AscendingCapacity, In, CapacityOf
<1>2. ASSUME NEW c \in Containers, NEW n \in Sizes, Assign(c, n) \/ Resize(c, n) \/ Reserve(c, n)
      PROVE  Inv'
  BY <1>2, AssignInv, ResizeInv, ReserveInv
<1>3. ASSUME NEW c \in Containers, Fill(c) \/ Destroy(c) PROVE Inv'
  BY <1>3, FillInv, DestroyInv
<1> QED BY <1>1, <1>2, <1>3 DEF Next

\* Whatever the containers ask for in whatever order, the invariant holds.
THEOREM Invariance == Spec => []Inv
BY InitInv, NextInv, PTL DEF Spec

-----------------------------------------------------------------------------
(***************************************************************************)
(* The properties.                                                         *)
(***************************************************************************)
\* The invariant implies the types.
LEMMA InvTypeOK == Inv => TypeOK
<1> SUFFICES ASSUME Inv PROVE TypeOK
  OBVIOUS
<1>1. avail.small \in Seq(SmallOnes) /\ avail.large \in Seq(LargeOnes) /\ capacity \in Seq(Nat)
  BY DEF Inv, PoolInv, Good, Capacities
<1> QED BY <1>1 DEF TypeOK, Inv, PoolInv, RowsInv, SmallOnes, LargeOnes

\* A buffer is at one place: in one container, or once in one of the lists.
LEMMA InvOwnedOnce == Inv => OwnedOnce
<1> SUFFICES ASSUME Inv, NEW b \in Buffers
             PROVE  LET places == {<<"ctn", c>> : c \in {c \in Containers : ctn[c] = b}}
          \union {<<"small", i>> : i \in {i \in DOMAIN avail.small : avail.small[i] = b}}
          \union {<<"large", i>> : i \in {i \in DOMAIN avail.large : avail.large[i] = b}}
                    IN \E place \in places : places = {place}
  BY DEF OwnedOnce
<1> DEFINE inCtn == {c \in Containers : ctn[c] = b}
           inSmall == {i \in DOMAIN avail.small : avail.small[i] = b}
           inLarge == {i \in DOMAIN avail.large : avail.large[i] = b}
           places == {<<"ctn", c>> : c \in inCtn} \union {<<"small", i>> : i \in inSmall}
                       \union {<<"large", i>> : i \in inLarge}
<1>1. /\ ToSet(avail.small) \subseteq SmallOnes /\ ToSet(avail.large) \subseteq LargeOnes
      /\ IsInjective(avail.small) /\ IsInjective(avail.large)
  BY Typing DEF Inv, PoolInv
<1>2. /\ (b \in ToSet(avail.small) <=> inSmall # {}) /\ (b \in ToSet(avail.large) <=> inLarge # {})
      /\ (\A i, j \in inSmall : i = j) /\ (\A i, j \in inLarge : i = j)
  BY <1>1 DEF ToSet, IsInjective
<1>3. (\A c, d \in inCtn : c = d) /\ (b \in In(avail) => inCtn = {})
      /\ (b \notin In(avail) => inCtn # {})
  BY InvTyping DEF Inv, PoolInv
<1>4. b \in ToSet(avail.small) => b \notin ToSet(avail.large)
  BY <1>1 DEF SmallOnes, LargeOnes
<1> HIDE DEF inCtn, inSmall, inLarge
<1>5. CASE b \notin In(avail)
  <2>1. inSmall = {} /\ inLarge = {}
    BY <1>2, <1>5 DEF In
  <2>2. PICK c \in inCtn : inCtn = {c}
    BY <1>3, <1>5
  <2>3. places = {<<"ctn", c>>}
    BY <2>1, <2>2
  <2> QED BY <2>3 DEF inCtn, inSmall, inLarge
<1>6. CASE b \in ToSet(avail.small)
  <2>1. inCtn = {} /\ inLarge = {}
    BY <1>2, <1>3, <1>4, <1>6 DEF In
  <2>2. PICK i \in inSmall : inSmall = {i}
    BY <1>2, <1>6
  <2>3. places = {<<"small", i>>}
    BY <2>1, <2>2
  <2> QED BY <2>3 DEF inCtn, inSmall, inLarge
<1>7. CASE b \in ToSet(avail.large)
  <2>1. inCtn = {} /\ inSmall = {}
    BY <1>2, <1>3, <1>4, <1>7 DEF In
  <2>2. PICK i \in inLarge : inLarge = {i}
    BY <1>2, <1>7
  <2>3. places = {<<"large", i>>}
    BY <2>1, <2>2
  <2> QED BY <2>3 DEF inCtn, inSmall, inLarge
<1> QED BY <1>5, <1>6, <1>7 DEF In

\* The variables keep their types, and a small buffer is never among the large ones.
THEOREM PoolTypeCorrect == Spec => []TypeOK
BY Invariance, InvTypeOK, PTL

\* No buffer is lost or held twice, whatever is resized, moved and destroyed.
THEOREM PoolOwnedOnce == Spec => []OwnedOnce
BY Invariance, InvOwnedOnce, PTL

\* A container's buffer holds at least what it was asked for.
THEOREM PoolRequestMet == Spec => []RequestMet
<1>1. Inv => RequestMet
  BY DEF Inv, PoolInv, RequestMet
<1> QED BY <1>1, Invariance, PTL

\* What a container has written is there as long as it needs it.
THEOREM PoolKeepsRows == Spec => []KeepsRows
<1>1. Inv => KeepsRows
  BY DEF Inv, RowsInv
<1> QED BY <1>1, Invariance, PTL

\* What a step means for the pool: a request met with a free buffer that fits, one
\* met with a new buffer since none fits, a release, or nothing.
Served(c, n, before, after) ==
  /\ before \subseteq Held /\ after \subseteq Held \ before
  /\ n = asked'[c] /\ ctn'[c] \notin after
  /\ \A d \in Containers \ {c} : ctn'[d] = ctn[d] /\ ctn[d] # ctn'[c]
  /\ Free' = ((Free \union before) \ {ctn'[c]}) \union after
  /\ Held' = ((Held \ before) \union {ctn'[c]}) \ after
  /\ \/ /\ capacity' = capacity /\ ctn'[c] \in Free \union before /\ Fits(capacity[ctn'[c]], n)
     \/ /\ capacity' = Append(capacity, NewCapacity(n)) /\ ctn'[c] = Len(capacity) + 1
        /\ Fits(NewCapacity(n), n) /\ \A b \in Free \union before : ~Fits(capacity[b], n)

\* Held changes with the buffer of one container.
LEMMA HeldAfter ==
  ASSUME Inv, NEW c \in Containers, ctn' = [ctn EXCEPT ![c] = ctn'[c]], ctn'[c] # None,
         \A d \in Containers \ {c} : ctn'[c] # ctn[d]
  PROVE  /\ Held' = (Held \ {ctn[c]}) \union {ctn'[c]}
         /\ {ctn[c]} \ {None} \subseteq Held /\ Free = In(avail) /\ Free' = In(avail)'
         /\ \A d \in Containers \ {c} : ctn'[d] = ctn[d]
<1>1. \A d \in Containers \ {c} : ctn'[d] = ctn[d] /\ (ctn[d] # None => ctn[d] # ctn[c])
  BY DEF Inv, PoolInv
<1>2. \A x : x \in Held' <=> x \in (Held \ {ctn[c]}) \union {ctn'[c]}
  BY <1>1 DEF Held
<1>3. Free = In(avail) /\ Free' = In(avail)'
  BY DEF Free, In
<1> QED BY <1>1, <1>2, <1>3 DEF Held

\* A request that frees afterwards (assignment, Resize) is served from the free buffers.
LEMMA AssignServed ==
  ASSUME Inv, NEW c \in Containers, NEW n \in Sizes, NEW had, Obtain(c, n, avail, ctn[c], had)
  PROVE  Served(c, n, {}, {ctn[c]} \ {None})
<1>1. /\ ctn' = [ctn EXCEPT ![c] = ctn'[c]] /\ asked' = [asked EXCEPT ![c] = n]
      /\ ctn'[c] # None /\ \A d \in Containers \ {c} : ctn'[c] # ctn[d]
      /\ In(avail') = (In(avail) \ {ctn'[c]}) \union ({ctn[c]} \ {None})
      /\ \/ capacity' = capacity /\ ctn'[c] \in In(avail) /\ Fits(capacity[ctn'[c]], n)
         \/ /\ capacity' = Append(capacity, NewCapacity(n)) /\ ctn'[c] = Len(capacity) + 1
            /\ Fits(NewCapacity(n), n) /\ \A b \in In(avail) : ~Fits(capacity[b], n)
  BY AssignOrResize, Obtained DEF Inv
<1>2. /\ Held' = (Held \ {ctn[c]}) \union {ctn'[c]}
      /\ {ctn[c]} \ {None} \subseteq Held /\ Free = In(avail) /\ Free' = In(avail')
      /\ \A d \in Containers \ {c} : ctn'[d] = ctn[d]
  BY <1>1, HeldAfter DEF In
<1>3. ctn'[c] # ctn[c] /\ asked'[c] = n
  <2>1. Len(capacity) + 1 \notin Buffers
    BY LenProperties DEF Inv, PoolInv, Capacities, Buffers
  <2> QED BY <1>1, <2>1, InvTyping DEF Inv, PoolInv
<1>4. None \notin Held
  BY DEF Held
<1> QED BY <1>1, <1>2, <1>3, <1>4 DEF Served

\* A request that frees first (Reserve) is served from those and the one it had.
LEMMA ReserveServed ==
  ASSUME Inv, NEW c \in Containers, NEW n \in Sizes, Obtain(c, n, Freed(avail, ctn[c]), None, 0)
  PROVE  Served(c, n, {ctn[c]} \ {None}, {})
<1> DEFINE pool == Freed(avail, ctn[c])
<1>1. /\ Good(pool) /\ None \in Buffers \union {None} /\ None \notin In(pool)
      /\ In(pool) \union ({None} \ {None}) = In(avail) \union ({ctn[c]} \ {None})
  BY Reserved DEF Inv
<1> HIDE DEF pool
<1>2. Obtain(c, n, pool, None, 0)
  BY DEF pool
<1>3. /\ ctn' = [ctn EXCEPT ![c] = ctn'[c]] /\ asked' = [asked EXCEPT ![c] = n]
      /\ ctn'[c] # None /\ \A d \in Containers \ {c} : ctn'[c] # ctn[d]
      /\ In(avail') = (In(pool) \ {ctn'[c]}) \union ({None} \ {None})
      /\ \/ capacity' = capacity /\ ctn'[c] \in In(pool) /\ Fits(capacity[ctn'[c]], n)
         \/ /\ capacity' = Append(capacity, NewCapacity(n)) /\ ctn'[c] = Len(capacity) + 1
            /\ Fits(NewCapacity(n), n) /\ \A b \in In(pool) : ~Fits(capacity[b], n)
  BY <1>1, <1>2, Obtained DEF Inv
<1>4. /\ Held' = (Held \ {ctn[c]}) \union {ctn'[c]}
      /\ {ctn[c]} \ {None} \subseteq Held /\ Free = In(avail) /\ Free' = In(avail')
      /\ \A d \in Containers \ {c} : ctn'[d] = ctn[d]
  BY <1>3, HeldAfter DEF In
<1>5. None \notin Held /\ asked'[c] = n
  BY <1>3 DEF Held, Inv, PoolInv
<1>6. In(pool) = Free \union ({ctn[c]} \ {None})
  BY <1>1, <1>4
<1> QED BY <1>3, <1>4, <1>5, <1>6 DEF Served

\* A step serves a request, or buffers go back and none is made.
LEMMA StepMeans ==
  ASSUME Inv, [Next]_vars
  PROVE  \/ \E c \in Containers, n \in Sizes : \E before, after : Served(c, n, before, after)
         \/ /\ capacity' = capacity
            /\ \E gone \in SUBSET Held : Free' = Free \union gone /\ Held' = Held \ gone
<1>1. CASE UNCHANGED <<capacity, avail, ctn>>
  <2>1. Free' = Free /\ Held' = Held
    BY <1>1 DEF Free, Held
  <2>2. {} \in SUBSET Held /\ Free = Free \union {} /\ Held = Held \ {}
    OBVIOUS
  <2>3. \E gone \in SUBSET Held : Free' = Free \union gone /\ Held' = Held \ gone
    BY <2>1, <2>2, Zenon
  <2> QED BY <1>1, <2>3
<1>2. ASSUME NEW c \in Containers, NEW n \in Sizes, Assign(c, n)
      PROVE  Served(c, n, {}, {ctn[c]} \ {None})
  BY <1>2, AssignServed DEF Assign
<1>3. ASSUME NEW c \in Containers, NEW n \in Sizes, Resize(c, n), CapacityOf(c) < n
      PROVE  Served(c, n, {}, {ctn[c]} \ {None})
  BY <1>3, AssignServed DEF Resize
<1>4. ASSUME NEW c \in Containers, NEW n \in Sizes, Reserve(c, n), CapacityOf(c) < n
      PROVE  Served(c, n, {ctn[c]} \ {None}, {})
  BY <1>4, ReserveServed DEF Reserve
<1>5. ASSUME NEW c \in Containers, NEW n \in Sizes, Resize(c, n) \/ Reserve(c, n), ~(CapacityOf(c) < n)
      PROVE  UNCHANGED <<capacity, avail, ctn>>
  BY <1>5 DEF Resize, Reserve, Suffices
<1>6. ASSUME NEW c \in Containers, Fill(c) PROVE UNCHANGED <<capacity, avail, ctn>>
  BY <1>6 DEF Fill
<1>7. ASSUME NEW c \in Containers, Destroy(c)
      PROVE  /\ capacity' = capacity /\ {ctn[c]} \in SUBSET Held
             /\ Free' = Free \union {ctn[c]} /\ Held' = Held \ {ctn[c]}
  <2>1. capacity' = capacity /\ ctn[c] # None /\ ctn' = [ctn EXCEPT ![c] = None]
    BY <1>7 DEF Destroy
  <2>2. Free' = Free \union {ctn[c]}
    BY <1>7, DestroyInv DEF Free, In
  <2>3. ctn'[c] = None /\ \A d \in Containers \ {c} : ctn'[d] = ctn[d] /\ ctn[d] # ctn[c]
    BY <2>1 DEF Inv, PoolInv
  <2>4. \A x : x \in Held' <=> x \in Held \ {ctn[c]}
    BY <2>3 DEF Held
  <2> QED BY <2>1, <2>2, <2>4 DEF Held
<1> QED
  <2>1. CASE Next
    BY <1>1, <1>2, <1>3, <1>4, <1>5, <1>6, <1>7, <2>1 DEF Next
  <2>2. CASE UNCHANGED vars
    BY <1>1, <2>2 DEF vars
  <2> QED BY <2>1, <2>2

\* The pool makes a large buffer only if no available one can hold the request.
THEOREM PoolGrowsOnlyIfNoneFits == Spec => GrowsOnlyIfNoneFits
<1> DEFINE Growth ==
      \A b \in DOMAIN capacity' \ Buffers :
        capacity'[b] > SmallCap =>
          \A c \in Containers : ctn'[c] = b => Fitting(avail.large, asked'[c]) = {}
<1>1. ASSUME Inv, [Next]_vars PROVE Growth
  <2> SUFFICES ASSUME NEW b \in DOMAIN capacity' \ Buffers, capacity'[b] > SmallCap,
                      NEW c \in Containers, ctn'[c] = b
               PROVE  Fitting(avail.large, asked'[c]) = {}
    OBVIOUS
  <2>1. PICK d \in Containers, n \in Sizes : \E before, after : Served(d, n, before, after)
    BY <1>1, StepMeans DEF Buffers
  <2>2. PICK before, after : Served(d, n, before, after)
    BY <2>1
  <2>3. /\ capacity' = Append(capacity, NewCapacity(n)) /\ ctn'[d] = Len(capacity) + 1
        /\ Fits(NewCapacity(n), n) /\ \A x \in Free : ~Fits(capacity[x], n)
    BY <2>2 DEF Served, Buffers
  <2>4. n \in Nat /\ Capacities /\ NewCapacity(n) \in Nat /\ NewCapacity(n) >= SmallCap
    BY <1>1, InvTyping, NewFits DEF Inv, PoolInv
  <2>5. b = ctn'[d] /\ capacity'[b] = NewCapacity(n)
    BY <2>3, <2>4, Grown DEF Buffers
  <2>6. d = c /\ asked'[c] = n
    <3>1. d = c
      BY <1>1, <2>2, <2>3, <2>4, <2>5, Grown, InvTyping DEF Served, None
    <3> QED BY <2>2, <3>1 DEF Served
  <2>7. ~(n <= SmallCap)
    BY <2>3, <2>4, <2>5, PoolAssumption DEF Fits
  <2>8. ASSUME NEW i \in DOMAIN avail.large PROVE ~(capacity[avail.large[i]] >= n)
    <3>1. avail.large[i] \in Free
      BY DEF Free, ToSet
    <3> QED BY <2>3, <2>7, <3>1 DEF Fits
  <2> QED BY <2>6, <2>8 DEF Fitting
<1>2. Inv /\ [Next]_vars => [Growth]_vars
  BY <1>1
<1> HIDE DEF Growth
<1>3. Spec => [][Growth]_vars
  BY <1>2, Invariance, PTL DEF Spec
<1> QED BY <1>3 DEF Growth, GrowsOnlyIfNoneFits

\* The two lists implement BufferPool: every step hands out a free buffer that fits or
\* makes one since none does, takes buffers back, or leaves the pool alone.
THEOREM PoolRefinesBufferPool == Spec => IsBufferPool
<1>1. Init => Abstract!Init
  <2> SUFFICES ASSUME Init PROVE capacity = << >> /\ Free = {} /\ Held = {}
    BY DEF Abstract!Init
  <2> QED BY DEF Init, Free, Held, ToSet
<1>2. ASSUME Inv, NEW c \in Containers, NEW n \in Sizes, NEW before, NEW after,
             Served(c, n, before, after)
      PROVE  Abstract!Next
  <2>1. /\ before \in SUBSET Held /\ after \in SUBSET (Held \ before)
        /\ Free' = ((Free \union before) \ {ctn'[c]}) \union after
        /\ Held' = ((Held \ before) \union {ctn'[c]}) \ after
    BY <1>2 DEF Served
  <2>2. CASE capacity' = capacity
    <3>1. ctn'[c] \in Free \union before /\ Fits(capacity[ctn'[c]], n)
      <4>1. capacity # Append(capacity, NewCapacity(n))
        <5>1. Len(capacity) \in Nat /\ NewCapacity(n) \in Nat /\ capacity \in Seq(Nat)
          BY <1>2, InvTyping, NewFits, LenProperties DEF Inv, PoolInv, Capacities
        <5>2. Len(Append(capacity, NewCapacity(n))) = Len(capacity) + 1
          BY <5>1, AppendProperties
        <5> QED BY <5>1, <5>2
      <4> QED BY <1>2, <2>2, <4>1 DEF Served
    <3>2. Abstract!Reuse(n, before, after)
      BY <2>1, <2>2, <3>1 DEF Abstract!Reuse, Abstract!HandOut
    <3> QED BY <2>1, <3>2 DEF Abstract!Next
  <2>3. CASE capacity' = Append(capacity, NewCapacity(n)) /\ ctn'[c] = Len(capacity) + 1
             /\ Fits(NewCapacity(n), n) /\ \A b \in Free \union before : ~Fits(capacity[b], n)
    <3>1. Len(capacity) \in Nat /\ NewCapacity(n) \in Nat /\ capacity \in Seq(Nat)
      BY <1>2, InvTyping, NewFits, LenProperties DEF Inv, PoolInv, Capacities
    <3>2. /\ capacity' \in Seq(Nat) /\ Len(capacity') = Len(capacity) + 1
          /\ \A i \in 1..Len(capacity) : capacity'[i] = capacity[i]
          /\ capacity'[Len(capacity) + 1] = NewCapacity(n)
      BY <2>3, <3>1, AppendProperties
    <3>3. SubSeq(capacity', 1, Len(capacity)) = capacity
      <4>1. \A i \in 1..Len(capacity) : capacity'[i] \in Nat
        BY <3>1, <3>2, ElementOfSeq
      <4>2. /\ SubSeq(capacity', 1, Len(capacity)) \in Seq(Nat)
            /\ Len(SubSeq(capacity', 1, Len(capacity))) = Len(capacity)
            /\ \A i \in 1..Len(capacity) : SubSeq(capacity', 1, Len(capacity))[i] = capacity[i]
        <5>1. Len(capacity) + 1 \in Nat /\ 1 <= Len(capacity) + 1 /\ 0 \in Nat
              /\ Len(capacity) + 1 <= Len(capacity') + 1 /\ 0 <= Len(capacity') /\ 0 <= 0
              /\ (Len(capacity) + 1) - 1 = Len(capacity)
          BY <3>1, <3>2
        <5> QED BY <3>2, <5>1, CutFacts
      <4> QED BY <3>1, <4>2, SeqEqual
    <3>4. Abstract!Make(n, before, after)
      BY <2>1, <2>3, <3>2, <3>3 DEF Abstract!Make, Abstract!HandOut
    <3> QED BY <2>1, <3>4 DEF Abstract!Next
  <2> QED BY <1>2, <2>2, <2>3 DEF Served
<1>3. Inv /\ [Next]_vars => [Abstract!Next]_(Abstract!vars)
  <2> SUFFICES ASSUME Inv, [Next]_vars PROVE Abstract!Next
    OBVIOUS
  <2>1. ASSUME capacity' = capacity, NEW gone \in SUBSET Held,
               Free' = Free \union gone, Held' = Held \ gone
        PROVE  Abstract!Next
    BY <2>1 DEF Abstract!Next, Abstract!GiveBack
  <2> QED BY <1>2, <2>1, StepMeans
<1> QED BY <1>1, <1>3, Invariance, PTL DEF Spec, IsBufferPool, Abstract!Spec

=============================================================================
