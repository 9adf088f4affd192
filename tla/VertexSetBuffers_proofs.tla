------------------------ MODULE VertexSetBuffers_proofs ------------------------
(***************************************************************************)
(* The buffers of a worker's sets for loops of any depth, any number of    *)
(* sets and every sequence of statements: no buffer is lost or has two     *)
(* owners, and the pool implements BufferPool, whatever the generator      *)
(* chains; an owner outlives its views and a set keeps its elements if     *)
(* only subtractions are chained from the third loop on.                   *)
(***************************************************************************)
EXTENDS VertexSetBuffers, SequenceTheorems, FiniteSetTheorems, TLAPS

(***************************************************************************)
(* Sequences.                                                              *)
(***************************************************************************)
\* The elements of a part of a sequence.
LEMMA PartFacts ==
  ASSUME NEW S, NEW s \in Seq(S), NEW n \in 0..Len(s), NEW m \in n..Len(s)
  PROVE  /\ SubSeq(s, n + 1, m) \in Seq(S) /\ Len(SubSeq(s, n + 1, m)) = m - n
         /\ DOMAIN SubSeq(s, n + 1, m) = 1..(m - n)
         /\ \A k \in 1..(m - n) : SubSeq(s, n + 1, m)[k] = s[n + k] /\ n + k \in DOMAIN s
<1>1. Len(s) \in Nat /\ DOMAIN s = 1..Len(s) /\ n \in Nat /\ m \in Nat /\ n <= m /\ m <= Len(s)
  BY LenProperties
<1>2. \A k \in (n + 1)..m : s[k] \in S
  BY <1>1, ElementOfSeq
<1>3. n + 1 \in Int /\ m \in Int
  BY <1>1
<1>4. /\ SubSeq(s, n + 1, m) \in Seq(S)
      /\ Len(SubSeq(s, n + 1, m)) = IF n + 1 <= m THEN m - (n + 1) + 1 ELSE 0
      /\ \A k \in 1..(m - (n + 1) + 1) : SubSeq(s, n + 1, m)[k] = s[n + 1 + k - 1]
  BY <1>2, <1>3, SubSeqProperties
<1>5. ASSUME NEW k \in 1..(m - n)
      PROVE  SubSeq(s, n + 1, m)[k] = s[n + k] /\ n + k \in DOMAIN s
  <2>1. n + 1 + k - 1 = n + k /\ k \in 1..(m - (n + 1) + 1) /\ n + k \in 1..Len(s)
    BY <1>1
  <2> QED BY <1>1, <1>4, <2>1
<1>6. Len(SubSeq(s, n + 1, m)) = m - n
  BY <1>1, <1>4
<1>7. DOMAIN SubSeq(s, n + 1, m) = 1..(m - n)
  BY <1>4, <1>6, LenProperties
<1> QED BY <1>4, <1>5, <1>6, <1>7

(***************************************************************************)
(* What the operators return.                                              *)
(***************************************************************************)
VSet(made) == [depth : 0..MaxDepth, data : 0..made, pooled : BOOLEAN, intact : BOOLEAN]
Owners(s) == {s[i].data : i \in Owned(s)}
OnceOwned(s) == \A i, j \in Owned(s) : s[i].data = s[j].data => i = j

\* The places of the members of a finite set of numbers, counted from the largest.
LEMMA PlaceFacts ==
  ASSUME NEW T \in SUBSET Nat, IsFiniteSet(T)
  PROVE  /\ Cardinality(T) \in Nat
         /\ \A i \in T : Cardinality({j \in T : j >= i}) \in 1..Cardinality(T)
         /\ \A k \in 1..Cardinality(T) : \E i \in T : Cardinality({j \in T : j >= i}) = k
         /\ \A i, k \in T : Cardinality({j \in T : j >= i}) = Cardinality({j \in T : j >= k})
                              => i = k
<1> DEFINE n == Cardinality(T)
           Up(i) == {j \in T : j >= i}
           place == [i \in T |-> Cardinality(Up(i))]
<1>1. n \in Nat
  BY FS_CardinalityType
<1>2. ASSUME NEW i \in T PROVE IsFiniteSet(Up(i)) /\ Cardinality(Up(i)) \in 1..n
  <2>1. Up(i) \in SUBSET T /\ i \in Up(i)
    OBVIOUS
  <2>2. IsFiniteSet(Up(i)) /\ Cardinality(Up(i)) <= n
    BY <2>1, FS_Subset
  <2>3. Cardinality(Up(i)) \in Nat /\ Cardinality(Up(i)) # 0
    BY <2>1, <2>2, FS_CardinalityType, FS_EmptySet
  <2> HIDE DEF Up, n
  <2> QED BY <1>1, <2>2, <2>3
<1>3. ASSUME NEW i \in T, NEW k \in T, i < k PROVE Cardinality(Up(i)) # Cardinality(Up(k))
  <2>1. i \in Nat /\ k \in Nat /\ \A j \in T : j \in Nat
    OBVIOUS
  <2>2. \A j \in T : j >= k => j >= i
    BY <1>3, <2>1
  <2>3. i >= i /\ ~(i >= k)
    BY <1>3, <2>1
  <2>4. Up(k) \in SUBSET Up(i) /\ i \in Up(i) /\ i \notin Up(k)
    BY <2>2, <2>3
  <2> QED BY <1>2, <2>4, FS_Subset
<1>4. ASSUME NEW i \in T, NEW k \in T, Cardinality(Up(i)) = Cardinality(Up(k)) PROVE i = k
  <2>1. i < k \/ k < i \/ i = k
    OBVIOUS
  <2> QED BY <1>3, <1>4, <2>1
<1> HIDE DEF Up, n
<1>5. place \in Injection(T, 1..n)
  BY <1>2, <1>4 DEF Injection, IsInjective
<1>6. IsFiniteSet(1..n) /\ Cardinality(1..n) = n
  BY <1>1, FS_Interval
<1>7. place \in Surjection(T, 1..n)
  BY <1>5, <1>6, FS_Injection DEF n
<1>8. ASSUME NEW k \in 1..n PROVE \E i \in T : Cardinality(Up(i)) = k
  BY <1>7 DEF Surjection
<1> QED BY <1>1, <1>2, <1>4, <1>8 DEF Up, n

\* Freed lists the buffers the sets own, each once if no two sets own the same.
LEMMA FreedFacts ==
  ASSUME NEW made \in Nat, NEW s \in Seq(VSet(made))
  PROVE  /\ Freed(s) \in Seq(Owners(s)) /\ ToSet(Freed(s)) = Owners(s)
         /\ OnceOwned(s) => IsInjective(Freed(s))
<1> DEFINE own == Owned(s)
           n == Cardinality(own)
           Place(i) == Cardinality({j \in own : j >= i})
           At(k) == CHOOSE i \in own : Place(i) = k
           f == Freed(s)
<1>1. Len(s) \in Nat /\ DOMAIN s = 1..Len(s)
  BY LenProperties
<1>2. own \in SUBSET Nat /\ own \in SUBSET (1..Len(s))
  BY <1>1 DEF Owned
<1>3. IsFiniteSet(own)
  <2>1. 1 \in Int /\ Len(s) \in Int
    BY <1>1
  <2> QED BY <1>2, <2>1, FS_Interval, FS_Subset
<1>4. f = [k \in 1..n |-> s[At(k)].data]
  BY DEF Freed
<1> HIDE DEF own
<1>5. /\ n \in Nat
      /\ \A i \in own : Place(i) \in 1..n
      /\ \A k \in 1..n : \E i \in own : Place(i) = k
      /\ \A i, k \in own : Place(i) = Place(k) => i = k
  BY <1>2, <1>3, PlaceFacts
<1> HIDE DEF Place, n
<1>6. \A k \in 1..n : At(k) \in own /\ Place(At(k)) = k
  BY <1>5
<1>7. \A i \in own : Place(i) \in 1..n /\ At(Place(i)) = i
  BY <1>5, <1>6
<1> HIDE DEF At, f
<1>8. \A k \in 1..n : f[k] \in Owners(s)
  BY <1>4, <1>6 DEF Owners, own
<1>9. f \in Seq(Owners(s)) /\ DOMAIN f = 1..n
  <2>1. f \in [1..n -> Owners(s)]
    BY <1>4, <1>8
  <2> QED BY <1>5, <2>1, SeqDef
<1>10. Owners(s) \subseteq ToSet(f)
  <2> SUFFICES ASSUME NEW i \in own PROVE s[i].data \in ToSet(f)
    BY DEF Owners, own
  <2>1. Place(i) \in 1..n /\ f[Place(i)] = s[i].data
    BY <1>4, <1>7
  <2> QED BY <1>9, <2>1 DEF ToSet
<1>11. ToSet(f) \subseteq Owners(s)
  BY <1>8, <1>9 DEF ToSet
<1>12. ASSUME OnceOwned(s) PROVE IsInjective(f)
  <2> SUFFICES ASSUME NEW j \in 1..n, NEW k \in 1..n, f[j] = f[k] PROVE j = k
    BY <1>9 DEF IsInjective
  <2>1. At(j) = At(k)
    BY <1>4, <1>6, <1>12 DEF OnceOwned, own
  <2> QED BY <1>6, <2>1
<1> QED BY <1>9, <1>10, <1>11, <1>12 DEF f

\* What the elements of a sequence of sets are.
LEMMA SetFacts ==
  ASSUME NEW made \in Nat, NEW s \in Seq(VSet(made))
  PROVE  /\ Len(s) \in Nat /\ DOMAIN s = 1..Len(s) /\ Owned(s) \subseteq 1..Len(s)
         /\ \A i \in 1..Len(s) : /\ s[i] \in VSet(made) /\ s[i].depth \in 0..MaxDepth
                                 /\ s[i].data \in 0..made
                                 /\ s[i].pooled \in BOOLEAN /\ s[i].intact \in BOOLEAN
<1>1. Len(s) \in Nat /\ DOMAIN s = 1..Len(s)
  BY LenProperties
<1>2. \A i \in 1..Len(s) : s[i] \in VSet(made)
  BY ElementOfSeq
<1> QED BY <1>1, <1>2 DEF Owned, VSet

Spoiled(x, b) == [x EXCEPT !.intact = @ /\ x.data # b]

\* A set with one of its marks changed.
LEMMA IntactChanged ==
  ASSUME NEW made \in Nat, NEW x \in VSet(made), NEW e \in BOOLEAN
  PROVE  /\ [x EXCEPT !.intact = e] \in VSet(made) /\ [x EXCEPT !.intact = e].depth = x.depth
         /\ [x EXCEPT !.intact = e].data = x.data /\ [x EXCEPT !.intact = e].pooled = x.pooled
         /\ [x EXCEPT !.intact = e].intact = e
BY DEF VSet

\* A set after buffer b has been written over.
LEMMA SpoiledFacts ==
  ASSUME NEW made \in Nat, NEW x \in VSet(made), NEW b
  PROVE  /\ Spoiled(x, b) \in VSet(made) /\ Spoiled(x, b).data = x.data
         /\ Spoiled(x, b).pooled = x.pooled /\ Spoiled(x, b).depth = x.depth
         /\ x.data # b => Spoiled(x, b).intact = x.intact
<1> DEFINE y == Spoiled(x, b)
           e == x.intact /\ x.data # b
<1>1. x.intact \in BOOLEAN
  BY DEF VSet
<1>2. e \in BOOLEAN /\ (x.data # b => e = x.intact)
  BY <1>1, Zenon
<1>3. y = [x EXCEPT !.intact = e]
  BY Zenon DEF Spoiled
<1> HIDE DEF e, y
<1>4. /\ [x EXCEPT !.intact = e] \in VSet(made) /\ [x EXCEPT !.intact = e].depth = x.depth
      /\ [x EXCEPT !.intact = e].data = x.data /\ [x EXCEPT !.intact = e].pooled = x.pooled
      /\ [x EXCEPT !.intact = e].intact = e
  BY ONLY <1>2, made \in Nat, x \in VSet(made), IntactChanged, Zenon
<1> QED BY <1>2, <1>3, <1>4, Zenon DEF y

\* The copy constructor.
LEMMA PooledChanged ==
  ASSUME NEW made \in Nat, NEW x \in VSet(made)
  PROVE  /\ [x EXCEPT !.pooled = FALSE] \in VSet(made) /\ [x EXCEPT !.pooled = FALSE].data = x.data
         /\ [x EXCEPT !.pooled = FALSE].intact = x.intact /\ ~[x EXCEPT !.pooled = FALSE].pooled
<1>1. PICK e \in BOOLEAN : e = FALSE
  OBVIOUS
<1>2. /\ [x EXCEPT !.pooled = e] \in VSet(made) /\ [x EXCEPT !.pooled = e].data = x.data
      /\ [x EXCEPT !.pooled = e].intact = x.intact /\ [x EXCEPT !.pooled = e].pooled = e
  BY DEF VSet
<1> QED BY <1>1, <1>2, Zenon

\* A set handed to a deeper loop.
LEMMA DepthChanged ==
  ASSUME NEW made \in Nat, NEW x \in VSet(made), NEW d \in 0..MaxDepth
  PROVE  /\ [x EXCEPT !.depth = d] \in VSet(made) /\ [x EXCEPT !.depth = d].data = x.data
         /\ [x EXCEPT !.depth = d].intact = x.intact /\ [x EXCEPT !.depth = d].pooled = x.pooled
BY DEF VSet

\* Declaring a set that owns nothing.
LEMMA GrownFacts ==
  ASSUME NEW made \in Nat, NEW s \in Seq(VSet(made)), NEW x \in VSet(made), ~x.pooled
  PROVE  /\ Owned(Append(s, x)) = Owned(s) /\ Owners(Append(s, x)) = Owners(s)
         /\ OnceOwned(s) => OnceOwned(Append(s, x))
<1> DEFINE a == Append(s, x)
<1>1. /\ Len(s) \in Nat /\ DOMAIN s = 1..Len(s) /\ a \in Seq(VSet(made)) /\ Len(a) = Len(s) + 1
      /\ \A k \in 1..Len(s) : a[k] = s[k]
      /\ a[Len(s) + 1] = x
  BY AppendProperties, LenProperties
<1>2. DOMAIN a = 1..(Len(s) + 1)
  BY <1>1, LenProperties
<1> HIDE DEF a
<1>3. 1..(Len(s) + 1) = (1..Len(s)) \union {Len(s) + 1}
  BY <1>1
<1>4. Owned(a) = Owned(s) /\ \A i \in Owned(s) : a[i] = s[i]
  BY <1>1, <1>2, <1>3 DEF Owned
<1>5. Owners(a) = Owners(s)
  BY <1>4 DEF Owners
<1>6. OnceOwned(s) => OnceOwned(a)
  BY <1>4 DEF OnceOwned
<1> QED BY <1>4, <1>5, <1>6 DEF a

\* Declaring a set that owns a buffer no other set owns.
LEMMA GrownOwner ==
  ASSUME NEW made \in Nat, NEW s \in Seq(VSet(made)), NEW x \in VSet(made), x.pooled,
         x.data \notin Owners(s)
  PROVE  /\ Owners(Append(s, x)) = Owners(s) \union {x.data}
         /\ OnceOwned(s) => OnceOwned(Append(s, x))
<1> DEFINE a == Append(s, x)
<1>1. /\ Len(s) \in Nat /\ DOMAIN s = 1..Len(s) /\ a \in Seq(VSet(made)) /\ Len(a) = Len(s) + 1
      /\ \A k \in 1..Len(s) : a[k] = s[k]
      /\ a[Len(s) + 1] = x
  BY AppendProperties, LenProperties
<1>2. DOMAIN a = 1..(Len(s) + 1)
  BY <1>1, LenProperties
<1> HIDE DEF a
<1>3. 1..(Len(s) + 1) = (1..Len(s)) \union {Len(s) + 1}
  BY <1>1
<1>4. Owned(a) = Owned(s) \union {Len(s) + 1} /\ \A i \in Owned(s) : a[i] = s[i]
  BY <1>1, <1>2, <1>3 DEF Owned
<1>5. Owners(a) = Owners(s) \union {x.data}
  BY <1>1, <1>4 DEF Owners
<1>6. \A i \in Owned(s) : a[i].data # x.data
  BY <1>4 DEF Owners
<1>7. OnceOwned(s) => OnceOwned(a)
  BY <1>1, <1>4, <1>6 DEF OnceOwned
<1> QED BY <1>5, <1>7 DEF a

\* Overwriting a buffer leaves the sets where they point, and intact unless there.
LEMMA SpoilFacts ==
  ASSUME NEW made \in Nat, NEW s \in Seq(VSet(made)), NEW b
  PROVE  /\ Spoil(s, b) \in Seq(VSet(made)) /\ Len(Spoil(s, b)) = Len(s)
         /\ Owned(Spoil(s, b)) = Owned(s) /\ Owners(Spoil(s, b)) = Owners(s)
         /\ OnceOwned(s) => OnceOwned(Spoil(s, b))
         /\ \A i \in 1..Len(s) : /\ Spoil(s, b)[i].data = s[i].data
                                 /\ Spoil(s, b)[i].pooled = s[i].pooled
                                 /\ Spoil(s, b)[i].depth = s[i].depth
                                 /\ s[i].data # b => Spoil(s, b)[i].intact = s[i].intact
<1> DEFINE t == Spoil(s, b)
<1>1. /\ Len(s) \in Nat /\ DOMAIN s = 1..Len(s)
      /\ \A i \in 1..Len(s) : /\ s[i] \in VSet(made) /\ s[i].depth \in 0..MaxDepth
                              /\ s[i].data \in 0..made
                              /\ s[i].pooled \in BOOLEAN /\ s[i].intact \in BOOLEAN
  BY SetFacts
<1>2. t = [i \in 1..Len(s) |-> [s[i] EXCEPT !.intact = @ /\ s[i].data # b]]
  BY <1>1 DEF Spoil
<1>3. \A i \in 1..Len(s) : t[i] = Spoiled(s[i], b)
  BY <1>2, Zenon DEF Spoiled
<1>4. ASSUME NEW i \in 1..Len(s)
      PROVE  /\ t[i] \in VSet(made) /\ t[i].data = s[i].data /\ t[i].pooled = s[i].pooled
             /\ t[i].depth = s[i].depth /\ (s[i].data # b => t[i].intact = s[i].intact)
  <2>1. s[i] \in VSet(made) /\ t[i] = Spoiled(s[i], b)
    BY <1>1, <1>3, Zenon
  <2>2. /\ Spoiled(s[i], b) \in VSet(made) /\ Spoiled(s[i], b).data = s[i].data
        /\ Spoiled(s[i], b).pooled = s[i].pooled /\ Spoiled(s[i], b).depth = s[i].depth
        /\ s[i].data # b => Spoiled(s[i], b).intact = s[i].intact
    BY ONLY <2>1, made \in Nat, SpoiledFacts
  <2> QED BY ONLY <2>1, <2>2, Zenon
<1> HIDE DEF t
<1>5. t \in Seq(VSet(made)) /\ DOMAIN t = 1..Len(s)
  <2>1. t \in [1..Len(s) -> VSet(made)]
    BY <1>2, <1>4
  <2> QED BY <1>1, <2>1, SeqDef
<1>6. Len(t) = Len(s)
  BY <1>1, <1>5, LenProperties
<1>9. Owned(t) = Owned(s)
  BY <1>1, <1>4, <1>5, Zenon DEF Owned
<1>10. Owners(t) = Owners(s) /\ (OnceOwned(s) => OnceOwned(t))
  <2>1. \A i \in Owned(s) : t[i].data = s[i].data
    BY <1>1, <1>4 DEF Owned
  <2> QED BY <1>9, <2>1 DEF Owners, OnceOwned
<1> QED BY <1>4, <1>5, <1>6, <1>9, <1>10, Zenon DEF t

\* The sets that stay when those behind position n up to m go.
Kept(s, n, m) == SubSeq(s, 1, n) \o SubSeq(s, m + 1, Len(s))
Gone(s, n, m) == SubSeq(s, n + 1, m)

\* Where the sets that stay have been.
LEMMA KeptFacts ==
  ASSUME NEW S, NEW s \in Seq(S), NEW n \in 0..Len(s), NEW m \in n..Len(s)
  PROVE  /\ Kept(s, n, m) \in Seq(S) /\ DOMAIN Kept(s, n, m) = 1..(Len(s) - (m - n))
         /\ \A k \in 1..n : Kept(s, n, m)[k] = s[k]
         /\ \A k \in (n + 1)..(Len(s) - (m - n)) : Kept(s, n, m)[k] = s[k + (m - n)]
<1> DEFINE a == SubSeq(s, 1, n)
           b == SubSeq(s, m + 1, Len(s))
<1>1. Len(s) \in Nat /\ n \in Nat /\ m \in Nat /\ n <= m /\ m <= Len(s)
  BY LenProperties
<1>2. a \in Seq(S) /\ Len(a) = n /\ \A k \in 1..n : a[k] = s[k]
  <2>1. 0 \in 0..Len(s) /\ n \in 0..Len(s) /\ n - 0 = n /\ 0 + 1 = 1
    BY <1>1
  <2>2. \A k \in 1..n : 0 + k = k
    BY <1>1
  <2> QED BY <2>1, <2>2, PartFacts
<1>3. b \in Seq(S) /\ Len(b) = Len(s) - m /\ \A k \in 1..(Len(s) - m) : b[k] = s[m + k]
  <2>1. m \in 0..Len(s) /\ Len(s) \in m..Len(s)
    BY <1>1
  <2> QED BY <2>1, PartFacts
<1> HIDE DEF a, b
<1>4. /\ a \o b \in Seq(S) /\ Len(a \o b) = n + (Len(s) - m)
      /\ \A k \in 1..(n + (Len(s) - m)) : (a \o b)[k] = IF k <= n THEN a[k] ELSE b[k - n]
  <2>1. /\ a \o b \in Seq(S) /\ Len(a \o b) = Len(a) + Len(b)
        /\ \A k \in 1..(Len(a) + Len(b)) :
             (a \o b)[k] = IF k <= Len(a) THEN a[k] ELSE b[k - Len(a)]
    BY <1>2, <1>3, ConcatProperties
  <2> QED BY ONLY <1>2, <1>3, <2>1
<1>5. n + (Len(s) - m) = Len(s) - (m - n)
  BY <1>1
<1>6. ASSUME NEW k \in 1..n PROVE (a \o b)[k] = s[k]
  <2>1. k \in 1..(n + (Len(s) - m)) /\ k <= n
    BY <1>1
  <2> QED BY <1>2, <1>4, <2>1
<1>7. ASSUME NEW k \in (n + 1)..(Len(s) - (m - n)) PROVE (a \o b)[k] = s[k + (m - n)]
  <2>1. /\ k \in 1..(n + (Len(s) - m)) /\ ~(k <= n) /\ k - n \in 1..(Len(s) - m)
        /\ m + (k - n) = k + (m - n)
    BY <1>1
  <2> QED BY <1>3, <1>4, <2>1
<1>8. DOMAIN (a \o b) = 1..(Len(s) - (m - n))
  BY <1>4, <1>5, LenProperties
<1> QED BY <1>4, <1>6, <1>7, <1>8 DEF a, b, Kept

\* When sets go, each owner either stays or goes.
LEMMA DroppedFacts ==
  ASSUME NEW made \in Nat, NEW s \in Seq(VSet(made)), OnceOwned(s),
         NEW n \in 0..Len(s), NEW m \in n..Len(s)
  PROVE  /\ Kept(s, n, m) \in Seq(VSet(made)) /\ Gone(s, n, m) \in Seq(VSet(made))
         /\ OnceOwned(Kept(s, n, m)) /\ OnceOwned(Gone(s, n, m))
         /\ Owners(Kept(s, n, m)) \union Owners(Gone(s, n, m)) = Owners(s)
         /\ Owners(Kept(s, n, m)) \intersect Owners(Gone(s, n, m)) = {}
<1> DEFINE k == Kept(s, n, m)
           g == Gone(s, n, m)
           From(i) == IF i <= n THEN i ELSE i + (m - n)
<1>1. /\ Len(s) \in Nat /\ DOMAIN s = 1..Len(s)
      /\ n \in Nat /\ m \in Nat /\ n <= m /\ m <= Len(s)
  BY LenProperties
<1>2. /\ k \in Seq(VSet(made)) /\ DOMAIN k = 1..(Len(s) - (m - n))
      /\ \A i \in 1..n : k[i] = s[i]
      /\ \A i \in (n + 1)..(Len(s) - (m - n)) : k[i] = s[i + (m - n)]
  BY KeptFacts
<1>3. /\ g \in Seq(VSet(made)) /\ DOMAIN g = 1..(m - n)
      /\ \A i \in 1..(m - n) : g[i] = s[n + i]
  BY PartFacts DEF Gone
<1> HIDE DEF k, g
<1>4. ASSUME NEW i \in DOMAIN k
      PROVE  k[i] = s[From(i)] /\ From(i) \in DOMAIN s /\ From(i) \notin (n + 1)..m
  <2>1. i \in 1..n \/ i \in (n + 1)..(Len(s) - (m - n))
    BY <1>1, <1>2
  <2>2. CASE i \in 1..n
    <3>1. From(i) = i /\ i \in 1..Len(s) /\ i \notin (n + 1)..m
      BY <1>1, <2>2
    <3> QED BY <1>1, <1>2, <2>2, <3>1
  <2>3. CASE i \in (n + 1)..(Len(s) - (m - n))
    <3>1. /\ From(i) = i + (m - n) /\ i + (m - n) \in 1..Len(s)
          /\ i + (m - n) \notin (n + 1)..m
      BY <1>1, <2>3
    <3> QED BY <1>1, <1>2, <2>3, <3>1
  <2> QED BY <2>1, <2>2, <2>3
<1>5. ASSUME NEW i \in DOMAIN g
      PROVE  g[i] = s[n + i] /\ n + i \in DOMAIN s /\ n + i \in (n + 1)..m
  BY <1>1, <1>3
<1>6. \A i, j \in DOMAIN k : From(i) = From(j) => i = j
  BY <1>1, <1>2
<1>7. \A i, j \in DOMAIN g : n + i = n + j => i = j
  BY <1>1, <1>3
<1>8. ASSUME NEW p \in DOMAIN s
      PROVE  (\E i \in DOMAIN k : From(i) = p) \/ (\E i \in DOMAIN g : n + i = p)
  <2>1. CASE p <= n
    <3>1. p \in DOMAIN k /\ From(p) = p
      BY <1>1, <1>2, <2>1
    <3> QED BY <3>1
  <2>2. CASE n < p /\ p <= m
    <3>1. p - n \in DOMAIN g /\ n + (p - n) = p
      BY <1>1, <1>3, <2>2
    <3> QED BY <3>1
  <2>3. CASE m < p
    <3>1. p - (m - n) \in DOMAIN k /\ From(p - (m - n)) = p
      BY <1>1, <1>2, <2>3
    <3> QED BY <3>1
  <2>4. p <= n \/ (n < p /\ p <= m) \/ m < p
    BY <1>1
  <2> QED BY <2>1, <2>2, <2>3, <2>4
<1> HIDE DEF From
<1>9. OnceOwned(k)
  <2>1. \A i \in Owned(k) : From(i) \in Owned(s) /\ k[i] = s[From(i)] /\ i \in DOMAIN k
    BY <1>4 DEF Owned
  <2> QED BY <1>6, <2>1 DEF OnceOwned
<1>10. OnceOwned(g)
  <2>1. \A i \in Owned(g) : n + i \in Owned(s) /\ g[i] = s[n + i] /\ i \in DOMAIN g
    BY <1>5 DEF Owned
  <2> QED BY <1>7, <2>1 DEF OnceOwned
<1>11. Owners(k) \subseteq Owners(s) /\ Owners(g) \subseteq Owners(s)
  BY <1>4, <1>5 DEF Owners, Owned
<1>12. Owners(s) \subseteq Owners(k) \union Owners(g)
  <2> SUFFICES ASSUME NEW p \in Owned(s) PROVE s[p].data \in Owners(k) \union Owners(g)
    BY DEF Owners
  <2>1. p \in DOMAIN s /\ s[p].pooled
    BY DEF Owned
  <2>2. CASE \E i \in DOMAIN k : From(i) = p
    BY <1>4, <2>1, <2>2 DEF Owners, Owned
  <2>3. CASE \E i \in DOMAIN g : n + i = p
    BY <1>5, <2>1, <2>3 DEF Owners, Owned
  <2> QED BY <1>8, <2>1, <2>2, <2>3
<1>13. Owners(k) \intersect Owners(g) = {}
  <2> SUFFICES ASSUME NEW i \in Owned(k), NEW j \in Owned(g), k[i].data = g[j].data
               PROVE  FALSE
    BY DEF Owners
  <2>1. From(i) \in Owned(s) /\ n + j \in Owned(s) /\ From(i) # n + j
        /\ s[From(i)].data = s[n + j].data
    BY <1>4, <1>5 DEF Owned
  <2> QED BY <2>1 DEF OnceOwned
<1> QED BY <1>2, <1>3, <1>9, <1>10, <1>11, <1>12, <1>13 DEF k, g

\* A list without repetitions is extended by another that has none in common with it.
LEMMA JoinedFacts ==
  ASSUME NEW S, NEW s \in Seq(S), NEW t \in Seq(S), IsInjective(s), IsInjective(t),
         ToSet(s) \intersect ToSet(t) = {}
  PROVE  IsInjective(s \o t) /\ ToSet(s \o t) = ToSet(s) \union ToSet(t)
<1> DEFINE a == s \o t
<1>1. /\ Len(s) \in Nat /\ DOMAIN s = 1..Len(s) /\ Len(t) \in Nat /\ DOMAIN t = 1..Len(t)
  BY LenProperties
<1>2. /\ a \in Seq(S) /\ Len(a) = Len(s) + Len(t)
      /\ \A k \in 1..(Len(s) + Len(t)) : a[k] = IF k <= Len(s) THEN s[k] ELSE t[k - Len(s)]
  BY ConcatProperties
<1>3. DOMAIN a = 1..(Len(s) + Len(t))
  BY <1>2, LenProperties
<1> HIDE DEF a
<1>4. ASSUME NEW k \in DOMAIN a
      PROVE  \/ k \in DOMAIN s /\ a[k] = s[k] /\ a[k] \in ToSet(s)
             \/ k - Len(s) \in DOMAIN t /\ a[k] = t[k - Len(s)] /\ a[k] \in ToSet(t)
  <2>1. CASE k <= Len(s)
    BY <1>1, <1>2, <1>3, <2>1 DEF ToSet
  <2>2. CASE ~(k <= Len(s))
    <3>1. k - Len(s) \in 1..Len(t)
      BY <1>1, <1>3, <2>2
    <3> QED BY <1>1, <1>2, <1>3, <2>2, <3>1 DEF ToSet
  <2> QED BY <2>1, <2>2
<1>5. \A k \in DOMAIN s : k \in DOMAIN a /\ a[k] = s[k]
  BY <1>1, <1>2, <1>3
<1>6. ASSUME NEW k \in DOMAIN t PROVE Len(s) + k \in DOMAIN a /\ a[Len(s) + k] = t[k]
  <2>1. Len(s) + k \in DOMAIN a /\ ~(Len(s) + k <= Len(s)) /\ (Len(s) + k) - Len(s) = k
    BY <1>1, <1>3
  <2> QED BY <1>2, <1>3, <2>1
<1>7. ASSUME NEW j \in DOMAIN a, NEW k \in DOMAIN a, a[j] = a[k] PROVE j = k
  <2>1. CASE j \in DOMAIN s /\ a[j] = s[j] /\ a[j] \in ToSet(s)
    <3>1. a[k] \notin ToSet(t)
      BY <1>7, <2>1
    <3>2. k \in DOMAIN s /\ a[k] = s[k]
      BY <1>4, <3>1
    <3> QED BY <1>7, <2>1, <3>2 DEF IsInjective
  <2>2. CASE j - Len(s) \in DOMAIN t /\ a[j] = t[j - Len(s)] /\ a[j] \in ToSet(t)
    <3>1. a[k] \notin ToSet(s)
      BY <1>7, <2>2
    <3>2. k - Len(s) \in DOMAIN t /\ a[k] = t[k - Len(s)]
      BY <1>4, <3>1
    <3>3. j - Len(s) = k - Len(s)
      BY <1>7, <2>2, <3>2 DEF IsInjective
    <3> QED BY <1>1, <1>3, <3>3
  <2> QED BY <1>4, <2>1, <2>2
<1>8. ToSet(a) \subseteq ToSet(s) \union ToSet(t)
  BY <1>4 DEF ToSet
<1>9. ToSet(s) \subseteq ToSet(a) /\ ToSet(t) \subseteq ToSet(a)
  BY <1>5, <1>6 DEF ToSet
<1> QED BY <1>7, <1>8, <1>9 DEF IsInjective, a

\* The two parts of a concatenation, with the second cut before position c.
LEMMA JoinedParts ==
  ASSUME NEW S, NEW s \in Seq(S), NEW t \in Seq(S), NEW c \in 0..Len(t)
  PROVE  /\ SubSeq(s \o t, 1, Len(s)) = s
         /\ SubSeq(s \o t, Len(s) + 1, Len(s) + c) = SubSeq(t, 1, c)
         /\ SubSeq(s \o t, Len(s) + c + 1, Len(s \o t)) = SubSeq(t, c + 1, Len(t))
<1> DEFINE a == s \o t
<1>1. /\ Len(s) \in Nat /\ Len(t) \in Nat /\ c \in Nat /\ c <= Len(t)
      /\ a \in Seq(S) /\ Len(a) = Len(s) + Len(t)
      /\ \A k \in 1..(Len(s) + Len(t)) : a[k] = IF k <= Len(s) THEN s[k] ELSE t[k - Len(s)]
  BY ConcatProperties, LenProperties
<1> HIDE DEF a
<1>2. \A k \in 1..Len(s) : a[k] = s[k]
  BY <1>1
<1>3. ASSUME NEW k \in 1..Len(t) PROVE a[Len(s) + k] = t[k]
  <2>1. /\ Len(s) + k \in 1..(Len(s) + Len(t)) /\ ~(Len(s) + k <= Len(s))
        /\ (Len(s) + k) - Len(s) = k
    BY <1>1
  <2> QED BY <1>1, <2>1
<1>4. SubSeq(a, 1, Len(s)) = s
  <2>1. 0 \in 0..Len(a) /\ Len(s) \in 0..Len(a) /\ 0 + 1 = 1 /\ Len(s) - 0 = Len(s)
    BY <1>1
  <2>2. /\ SubSeq(a, 1, Len(s)) \in Seq(S) /\ Len(SubSeq(a, 1, Len(s))) = Len(s)
        /\ \A k \in 1..Len(s) : SubSeq(a, 1, Len(s))[k] = a[0 + k]
    BY <1>1, <2>1, PartFacts
  <2>3. \A k \in 1..Len(s) : 0 + k = k
    BY <1>1
  <2> QED BY <1>2, <2>2, <2>3, SeqEqual
<1>5. SubSeq(a, Len(s) + 1, Len(s) + c) = SubSeq(t, 1, c)
  <2>1. /\ Len(s) \in 0..Len(a) /\ Len(s) + c \in Len(s)..Len(a) /\ (Len(s) + c) - Len(s) = c
        /\ 0 \in 0..Len(t) /\ c \in 0..Len(t) /\ 0 + 1 = 1 /\ c - 0 = c
    BY <1>1
  <2>2. /\ SubSeq(a, Len(s) + 1, Len(s) + c) \in Seq(S)
        /\ Len(SubSeq(a, Len(s) + 1, Len(s) + c)) = c
        /\ \A k \in 1..c : SubSeq(a, Len(s) + 1, Len(s) + c)[k] = a[Len(s) + k]
    BY <1>1, <2>1, PartFacts
  <2>3. /\ SubSeq(t, 1, c) \in Seq(S) /\ Len(SubSeq(t, 1, c)) = c
        /\ \A k \in 1..c : SubSeq(t, 1, c)[k] = t[0 + k]
    BY <1>1, <2>1, PartFacts
  <2>4. \A k \in 1..c : 0 + k = k /\ k \in 1..Len(t)
    BY <1>1
  <2> QED BY <1>3, <2>2, <2>3, <2>4, SeqEqual
<1>6. SubSeq(a, Len(s) + c + 1, Len(a)) = SubSeq(t, c + 1, Len(t))
  <2>1. /\ Len(s) + c \in 0..Len(a) /\ Len(a) \in (Len(s) + c)..Len(a)
        /\ Len(a) - (Len(s) + c) = Len(t) - c
        /\ c \in 0..Len(t) /\ Len(t) \in c..Len(t)
    BY <1>1
  <2> DEFINE n == Len(s) + c
             x == SubSeq(a, n + 1, Len(a))
             y == SubSeq(t, c + 1, Len(t))
             l == Len(t) - c
  <2>2. /\ x \in Seq(S) /\ Len(x) = Len(a) - n
        /\ \A k \in 1..(Len(a) - n) : x[k] = a[n + k]
    <3>1. a \in Seq(S) /\ n \in 0..Len(a) /\ Len(a) \in n..Len(a)
      BY <1>1, <2>1
    <3> HIDE DEF n
    <3> QED BY ONLY <3>1, PartFacts
  <2>3. /\ y \in Seq(S) /\ Len(y) = l
        /\ \A k \in 1..l : y[k] = t[c + k]
    <3>1. t \in Seq(S) /\ c \in 0..Len(t) /\ Len(t) \in c..Len(t)
      BY <2>1
    <3> QED BY ONLY <3>1, PartFacts
  <2>4. /\ Len(a) - n = l
        /\ \A k \in 1..l : n + k = Len(s) + (c + k) /\ c + k \in 1..Len(t)
    BY <1>1
  <2> HIDE DEF x, y, l, n
  <2>5. ASSUME NEW k \in 1..l PROVE x[k] = y[k]
    <3>1. x[k] = a[n + k] /\ y[k] = t[c + k] /\ n + k = Len(s) + (c + k) /\ c + k \in 1..Len(t)
      BY <2>2, <2>3, <2>4
    <3>2. a[Len(s) + (c + k)] = t[c + k]
      BY <1>3, <3>1
    <3> QED BY <3>1, <3>2
  <2>6. x = y
    BY <2>2, <2>3, <2>4, <2>5, SeqEqual
  <2> QED BY <2>6 DEF x, y, n
<1> QED BY <1>4, <1>5, <1>6 DEF a

-----------------------------------------------------------------------------
(***************************************************************************)
(* What a step does to the sets, whatever statement it is.                 *)
(***************************************************************************)
\* What the variables' types say of the sequences.
LEMMA Typing ==
  ASSUME TypeOK
  PROVE  /\ exist \in Nat /\ depth \in 0..MaxDepth /\ MaxDepth \in Nat
         /\ avail \in Seq(1..exist)
         /\ scope \in Seq(VSet(exist)) /\ temps \in Seq(VSet(exist)) /\ Sets \in Seq(VSet(exist))
         /\ Len(Sets) = Len(scope) + Len(temps) /\ Len(scope) \in Nat /\ Len(temps) \in Nat
         /\ DOMAIN scope = 1..Len(scope) /\ DOMAIN temps = 1..Len(temps)
         /\ DOMAIN Sets = 1..Len(Sets)
         /\ \A i \in 1..Len(scope) : Sets[i] = scope[i]
         /\ \A i \in 1..Len(temps) : Sets[Len(scope) + i] = temps[i]
<1>1. /\ exist \in Nat /\ depth \in 0..MaxDepth /\ MaxDepth \in Nat /\ avail \in Seq(1..exist)
      /\ scope \in Seq(VSet(exist)) /\ temps \in Seq(VSet(exist))
  BY BuffersAssumption DEF TypeOK, VSet
<1>2. /\ Sets \in Seq(VSet(exist)) /\ Len(Sets) = Len(scope) + Len(temps)
      /\ \A k \in 1..(Len(scope) + Len(temps)) :
           Sets[k] = IF k <= Len(scope) THEN scope[k] ELSE temps[k - Len(scope)]
  BY <1>1, ConcatProperties DEF Sets
<1>3. /\ Len(scope) \in Nat /\ DOMAIN scope = 1..Len(scope)
      /\ Len(temps) \in Nat /\ DOMAIN temps = 1..Len(temps) /\ DOMAIN Sets = 1..Len(Sets)
  BY <1>1, <1>2, LenProperties
<1>4. \A i \in 1..Len(scope) : Sets[i] = scope[i]
  BY <1>2, <1>3
<1>5. ASSUME NEW i \in 1..Len(temps) PROVE Sets[Len(scope) + i] = temps[i]
  <2>1. /\ Len(scope) + i \in 1..(Len(scope) + Len(temps)) /\ ~(Len(scope) + i <= Len(scope))
        /\ (Len(scope) + i) - Len(scope) = i
    BY <1>3
  <2> QED BY <1>2, <2>1
<1> QED BY <1>1, <1>2, <1>3, <1>4, <1>5

\* A set that owns nothing and points to what the graph or another set points to.
Views(x) ==
  /\ x \in VSet(exist) /\ ~x.pooled
  /\ \/ x.data = External /\ x.intact
     \/ \E i \in DOMAIN Sets : x.data = Sets[i].data /\ x.intact = Sets[i].intact

\* A step declares a set that owns nothing or one that is handed a buffer; it ends
\* the lives of some sets, the latest ones or all temporaries but the last, which
\* becomes a named set; or it does nothing of the kind.
Declares == UNCHANGED <<exist, avail>> /\ \E x \in VSet(exist) : Views(x) /\ Sets' = Append(Sets, x)
Computes == Allocate /\ Sets' = Append(Spoil(Sets, NextBuffer), Buffer)
Drops(n, m) ==
  /\ Sets' = Kept(Sets, n, m) /\ avail' = avail \o Freed(Gone(Sets, n, m))
  /\ UNCHANGED exist
Unwinds ==
  \E n \in 0..Len(Sets) : Drops(n, Len(Sets)) /\ Sets' = SubSeq(Sets, 1, n)
Binds ==
  /\ temps # << >> /\ Bind /\ Drops(Len(scope), Len(Sets) - 1)
Stays == UNCHANGED <<exist, avail, Sets>>

\* View and Here leave what a set points to.
LEMMA ViewFacts ==
  ASSUME TypeOK, NEW i \in DOMAIN Sets
  PROVE  Views(View(Sets[i])) /\ Views(Here(View(Sets[i])))
<1> DEFINE s == Sets[i]
<1>1. /\ s \in VSet(exist) /\ s.depth \in 0..MaxDepth /\ s.data \in 0..exist
      /\ s.pooled \in BOOLEAN /\ s.intact \in BOOLEAN /\ depth \in 0..MaxDepth
  BY Typing, SetFacts
<1> HIDE DEF s
<1>2. exist \in Nat
  BY Typing
<1>3. /\ View(s) \in VSet(exist) /\ View(s).data = s.data /\ View(s).intact = s.intact
      /\ ~View(s).pooled
  BY <1>1, <1>2, PooledChanged, Zenon DEF View
<1>4. /\ Here(View(s)) \in VSet(exist) /\ Here(View(s)).data = View(s).data
      /\ Here(View(s)).intact = View(s).intact /\ Here(View(s)).pooled = View(s).pooled
  BY <1>1, <1>2, <1>3, DepthChanged, Zenon DEF Here
<1> QED BY <1>3, <1>4, Zenon DEF Views, s

\* The last element of a list and what is before it.
LEMMA LastFacts ==
  ASSUME NEW S, NEW s \in Seq(S), s # << >>
  PROVE  /\ Len(s) \in Nat /\ Len(s) \in 1..Len(s) /\ Len(s) - 1 \in 0..Len(s)
         /\ Last(s) = s[Len(s)] /\ Last(s) \in S
         /\ Front(s) = SubSeq(s, 1, Len(s) - 1) /\ Front(s) \in Seq(S)
         /\ DOMAIN Front(s) = 1..(Len(s) - 1)
         /\ \A k \in 1..(Len(s) - 1) : Front(s)[k] = s[k]
<1>1. Len(s) \in Nat \ {0}
  BY EmptySeq
<1> DEFINE n == Len(s)
<1> HIDE DEF n
<1>2. n \in Nat /\ n \in 1..n /\ n - 1 \in 0..n /\ 0 \in 0..n /\ 0 + 1 = 1 /\ (n - 1) - 0 = n - 1
  BY <1>1 DEF n
<1>3. s[n] \in S
  BY <1>2, ElementOfSeq DEF n
<1>4. /\ SubSeq(s, 1, n - 1) \in Seq(S) /\ DOMAIN SubSeq(s, 1, n - 1) = 1..(n - 1)
      /\ \A k \in 1..(n - 1) : SubSeq(s, 1, n - 1)[k] = s[0 + k]
  BY <1>2, PartFacts DEF n
<1>5. \A k \in 1..(n - 1) : 0 + k = k
  BY <1>2
<1> QED BY <1>2, <1>3, <1>4, <1>5 DEF n, Front, Last

\* The buffer handed out, and what is left.
LEMMA AllocateFacts ==
  ASSUME TypeOK, Allocate
  PROVE  /\ exist' \in Nat /\ exist <= exist' /\ avail' \in Seq(1..exist')
         /\ NextBuffer \in 1..exist' /\ Buffer \in VSet(exist') /\ VSet(exist) \subseteq VSet(exist')
         /\ Buffer.pooled /\ Buffer.intact /\ Buffer.data = NextBuffer
         /\ IF avail = << >>
              THEN exist' = exist + 1 /\ NextBuffer = exist + 1 /\ avail' = avail
              ELSE exist' = exist /\ NextBuffer \in ToSet(avail)
                   /\ (IsInjective(avail) =>
                         IsInjective(avail') /\ ToSet(avail') = ToSet(avail) \ {NextBuffer})
<1>1. exist \in Nat /\ depth \in 0..MaxDepth /\ avail \in Seq(1..exist)
  BY Typing
<1>2. CASE avail = << >>
  <2>1. exist' = exist + 1 /\ NextBuffer = exist + 1 /\ avail' = avail
    BY <1>2 DEF Allocate, NextBuffer
  <2>2. /\ exist' \in Nat /\ exist <= exist' /\ NextBuffer \in 1..exist'
        /\ 1..exist \subseteq 1..exist' /\ 0..exist \subseteq 0..exist' /\ NextBuffer \in 0..exist'
    BY <1>1, <2>1
  <2>3. avail' \in Seq(1..exist')
    BY <1>2, <2>1, EmptySeq
  <2>4. VSet(exist) \subseteq VSet(exist')
    BY <2>2 DEF VSet
  <2>5. Buffer \in VSet(exist') /\ Buffer.pooled /\ Buffer.intact /\ Buffer.data = NextBuffer
    BY <1>1, <2>2 DEF VSet, Buffer
  <2> QED BY <1>2, <2>1, <2>2, <2>3, <2>4, <2>5
<1>3. CASE avail # << >>
  <2>1. exist' = exist /\ NextBuffer = Last(avail) /\ avail' = Front(avail)
    BY <1>3 DEF Allocate, NextBuffer
  <2>2. /\ Len(avail) \in Nat /\ Len(avail) \in 1..Len(avail)
        /\ Last(avail) = avail[Len(avail)] /\ Last(avail) \in 1..exist
        /\ Front(avail) \in Seq(1..exist)
        /\ DOMAIN Front(avail) = 1..(Len(avail) - 1)
        /\ \A k \in 1..(Len(avail) - 1) : Front(avail)[k] = avail[k]
    BY <1>1, <1>3, LastFacts
  <2>3. DOMAIN avail = 1..Len(avail)
    BY <1>1, LenProperties
  <2>4. NextBuffer \in ToSet(avail)
    BY <2>1, <2>2, <2>3 DEF ToSet
  <2>5. 1..(Len(avail) - 1) = (1..Len(avail)) \ {Len(avail)}
    BY <2>2
  <2>6. ASSUME IsInjective(avail)
        PROVE  IsInjective(avail') /\ ToSet(avail') = ToSet(avail) \ {NextBuffer}
    BY <2>1, <2>2, <2>3, <2>5, <2>6 DEF IsInjective, ToSet
  <2>7. NextBuffer \in 0..exist' /\ exist <= exist'
    BY <1>1, <2>1, <2>2
  <2>8. Buffer \in VSet(exist') /\ Buffer.pooled /\ Buffer.intact /\ Buffer.data = NextBuffer
    BY <1>1, <2>7 DEF VSet, Buffer
  <2>9. VSet(exist) \subseteq VSet(exist') /\ NextBuffer \in 1..exist' /\ exist' \in Nat
        /\ avail' \in Seq(1..exist')
    BY <1>1, <2>1, <2>2
  <2> QED BY <1>3, <2>1, <2>4, <2>6, <2>7, <2>8, <2>9
<1> QED BY <1>2, <1>3

\* The sets have the type they should, after a step.
SetsTyped == scope \in Seq(VSet(exist)) /\ temps \in Seq(VSet(exist)) /\ depth \in 0..MaxDepth

\* Between statements the named sets are all there are.
LEMMA NoTemps ==
  ASSUME TypeOK, temps = << >> PROVE Sets = scope
BY Typing, ConcatEmptySeq DEF Sets

\* Declaring a set, named or temporary.
LEMMA DeclaresStep ==
  ASSUME TypeOK, UNCHANGED <<exist, avail, depth>>,
         NEW x, Views(x),
         \/ temps = << >> /\ temps' = temps /\ scope' = Append(scope, x)
         \/ scope' = scope /\ temps' = Append(temps, x)
  PROVE  SetsTyped' /\ Declares
<1>1. /\ x \in VSet(exist) /\ exist \in Nat /\ depth \in 0..MaxDepth
      /\ scope \in Seq(VSet(exist)) /\ temps \in Seq(VSet(exist))
  BY Typing DEF Views
<1>2. CASE temps = << >> /\ temps' = temps /\ scope' = Append(scope, x)
  <2>1. scope' \in Seq(VSet(exist))
    BY <1>1, <1>2, AppendProperties
  <2>2. Sets' = Append(Sets, x)
    BY <1>2, <2>1, NoTemps, ConcatEmptySeq DEF Sets
  <2> QED BY <1>1, <1>2, <2>1, <2>2 DEF SetsTyped, Declares
<1>3. CASE scope' = scope /\ temps' = Append(temps, x)
  <2>1. temps' \in Seq(VSet(exist))
    BY <1>1, <1>3, AppendProperties
  <2>2. Sets' = Append(Sets, x)
    <3>1. <<x>> \in Seq(VSet(exist))
      BY <1>1
    <3>2. Append(temps, x) = temps \o <<x>> /\ Append(Sets, x) = Sets \o <<x>>
      BY <1>1, Typing, AppendIsConcat
    <3>3. (scope \o temps) \o <<x>> = scope \o (temps \o <<x>>)
      BY <1>1, <3>1, ConcatAssociative
    <3> QED BY <1>3, <3>2, <3>3 DEF Sets
  <2> QED BY <1>1, <1>3, <2>1, <2>2 DEF SetsTyped, Declares
<1> QED BY <1>2, <1>3

\* Computing a set into a buffer, named or temporary.
LEMMA ComputesStep ==
  ASSUME TypeOK, Allocate, UNCHANGED depth,
         \/ /\ temps = << >> /\ temps' = temps
            /\ scope' = Append(Spoil(scope, NextBuffer), Buffer)
         \/ /\ scope' = Spoil(scope, NextBuffer)
            /\ temps' = Append(Spoil(temps, NextBuffer), Buffer)
  PROVE  SetsTyped' /\ Computes
<1> DEFINE b == NextBuffer
           u == Spoil(scope, b)
           v == Spoil(temps, b)
           w == Spoil(Sets, b)
<1>1. /\ exist \in Nat /\ exist' \in Nat /\ depth \in 0..MaxDepth
      /\ VSet(exist) \subseteq VSet(exist') /\ Buffer \in VSet(exist')
  BY Typing, AllocateFacts
<1>2. /\ scope \in Seq(VSet(exist)) /\ temps \in Seq(VSet(exist)) /\ Sets \in Seq(VSet(exist))
  BY Typing
<1>3. u \in Seq(VSet(exist)) /\ v \in Seq(VSet(exist)) /\ w \in Seq(VSet(exist))
      /\ Len(u) = Len(scope) /\ Len(v) = Len(temps) /\ Len(w) = Len(Sets)
  BY <1>1, <1>2, SpoilFacts
<1> HIDE DEF b
<1>4. w = u \o v
  <2>1. /\ u \o v \in Seq(VSet(exist)) /\ Len(u \o v) = Len(scope) + Len(temps)
        /\ \A k \in 1..(Len(scope) + Len(temps)) :
             (u \o v)[k] = IF k <= Len(scope) THEN u[k] ELSE v[k - Len(scope)]
    <3> HIDE DEF u, v
    <3>1. /\ u \o v \in Seq(VSet(exist)) /\ Len(u \o v) = Len(u) + Len(v)
          /\ \A k \in 1..(Len(u) + Len(v)) :
               (u \o v)[k] = IF k <= Len(u) THEN u[k] ELSE v[k - Len(u)]
      BY <1>3, ConcatProperties
    <3> QED BY ONLY <1>3, <3>1
  <2>2. /\ Len(scope) \in Nat /\ DOMAIN scope = 1..Len(scope)
        /\ Len(temps) \in Nat /\ DOMAIN temps = 1..Len(temps)
        /\ Len(Sets) = Len(scope) + Len(temps) /\ DOMAIN Sets = 1..Len(Sets)
        /\ \A i \in 1..Len(scope) : Sets[i] = scope[i]
        /\ \A i \in 1..Len(temps) : Sets[Len(scope) + i] = temps[i]
    BY Typing
  <2>3. /\ \A k \in 1..Len(scope) : u[k] = Spoiled(scope[k], b)
        /\ \A k \in 1..Len(temps) : v[k] = Spoiled(temps[k], b)
        /\ \A k \in 1..Len(Sets) : w[k] = Spoiled(Sets[k], b)
    BY <2>2, Zenon DEF Spoil, Spoiled
  <2> HIDE DEF u, v, w
  <2>4. ASSUME NEW k \in 1..Len(w) PROVE w[k] = (u \o v)[k]
    <3>1. CASE k <= Len(scope)
      <4>1. k \in 1..Len(scope) /\ k \in 1..Len(Sets) /\ k \in 1..(Len(scope) + Len(temps))
        BY <1>3, <2>2, <3>1
      <4>2. w[k] = u[k]
        BY <2>2, <2>3, <4>1
      <4> QED BY <2>1, <3>1, <4>1, <4>2
    <3>2. CASE ~(k <= Len(scope))
      <4>1. /\ k - Len(scope) \in 1..Len(temps) /\ k \in 1..Len(Sets)
            /\ k \in 1..(Len(scope) + Len(temps)) /\ Len(scope) + (k - Len(scope)) = k
        BY <1>3, <2>2, <3>2
      <4>2. Sets[k] = temps[k - Len(scope)]
        BY <2>2, <4>1
      <4>3. w[k] = v[k - Len(scope)]
        BY <2>3, <4>1, <4>2
      <4> QED BY <2>1, <3>2, <4>1, <4>3
    <3> QED BY <3>1, <3>2
  <2> QED BY <1>3, <2>1, <2>2, <2>4, SeqEqual
<1> HIDE DEF u, v, w
<1>5. u \in Seq(VSet(exist')) /\ v \in Seq(VSet(exist')) /\ w \in Seq(VSet(exist'))
      /\ temps \in Seq(VSet(exist'))
  BY <1>1, <1>2, <1>3, SeqMonotonic
<1>6. CASE temps = << >> /\ temps' = temps /\ scope' = Append(u, Buffer)
  <2>1. scope' \in Seq(VSet(exist')) /\ temps' \in Seq(VSet(exist'))
    BY <1>1, <1>5, <1>6, AppendProperties
  <2>2. Sets' = Append(w, Buffer)
    <3>1. v = << >>
      BY <1>3, <1>6, EmptySeq
    <3>2. w = u
      BY <1>3, <1>4, <3>1, ConcatEmptySeq
    <3> QED BY <1>6, <2>1, <3>2, ConcatEmptySeq DEF Sets
  <2> QED BY <1>1, <2>1, <2>2 DEF SetsTyped, Computes, w, b
<1>7. CASE scope' = u /\ temps' = Append(v, Buffer)
  <2>1. scope' \in Seq(VSet(exist')) /\ temps' \in Seq(VSet(exist'))
    BY <1>1, <1>5, <1>7, AppendProperties
  <2>2. Sets' = Append(w, Buffer)
    <3>1. <<Buffer>> \in Seq(VSet(exist'))
      BY <1>1
    <3>2. /\ v \in Seq(VSet(exist')) /\ w \in Seq(VSet(exist')) /\ u \in Seq(VSet(exist'))
          /\ Buffer \in VSet(exist')
      BY <1>1, <1>5
    <3>4. Append(v, Buffer) = v \o <<Buffer>> /\ Append(w, Buffer) = w \o <<Buffer>>
      BY ONLY <3>2, AppendIsConcat
    <3>3. (u \o v) \o <<Buffer>> = u \o (v \o <<Buffer>>)
      BY ONLY <3>1, <3>2, ConcatAssociative
    <3> QED BY <1>4, <1>7, <3>3, <3>4 DEF Sets
  <2> QED BY <1>1, <2>1, <2>2 DEF SetsTyped, Computes, w, b
<1> QED BY <1>6, <1>7 DEF u, v, b

\* Ending the lives of the latest named sets, or of all temporaries.
LEMMA UnwindsStep ==
  ASSUME TypeOK, UNCHANGED exist, depth' \in 0..MaxDepth, temps' = << >>, NEW n \in 0..Len(Sets),
         scope' = SubSeq(Sets, 1, n),
         avail' = avail \o Freed(SubSeq(Sets, n + 1, Len(Sets)))
  PROVE  SetsTyped' /\ Unwinds
<1>1. /\ exist \in Nat /\ Sets \in Seq(VSet(exist)) /\ Len(Sets) \in Nat
  BY Typing, LenProperties
<1>2. /\ 0 \in 0..Len(Sets) /\ n \in 0..Len(Sets) /\ 0 + 1 = 1
      /\ Len(Sets) \in n..Len(Sets) /\ Len(Sets) < Len(Sets) + 1
      /\ Len(Sets) + 1 \in Int /\ Len(Sets) \in Int
  BY <1>1
<1>3. SubSeq(Sets, 1, n) \in Seq(VSet(exist))
  BY <1>1, <1>2, PartFacts
<1>4. Sets' = scope'
  BY <1>1, <1>3, ConcatEmptySeq DEF Sets
<1>5. Kept(Sets, n, Len(Sets)) = SubSeq(Sets, 1, n)
  BY <1>2, <1>3, SubSeqEmpty, ConcatEmptySeq DEF Kept
<1>6. Drops(n, Len(Sets)) /\ Sets' = SubSeq(Sets, 1, n)
  BY <1>4, <1>5 DEF Drops, Gone
<1>7. temps' \in Seq(VSet(exist))
  BY EmptySeq
<1>8. SetsTyped'
  BY <1>3, <1>7 DEF SetsTyped
<1> QED BY <1>2, <1>6, <1>8 DEF Unwinds

\* Turning the last temporary into a named set.
LEMMA BindsStep ==
  ASSUME TypeOK, Bind
  PROVE  SetsTyped' /\ Binds
<1>1. /\ exist \in Nat /\ scope \in Seq(VSet(exist)) /\ temps \in Seq(VSet(exist))
      /\ depth \in 0..MaxDepth /\ Len(Sets) = Len(scope) + Len(temps)
      /\ Len(scope) \in Nat /\ Len(temps) \in Nat
  BY Typing
<1>2. temps # << >>
  <2>1. Len(temps) # 0
    BY <1>1 DEF Bind
  <2> QED BY <2>1, EmptySeq
<1>3. /\ Len(temps) - 1 \in 0..Len(temps) /\ Len(temps) \in 1..Len(temps)
      /\ Last(temps) = temps[Len(temps)] /\ Last(temps) \in VSet(exist)
      /\ Front(temps) = SubSeq(temps, 1, Len(temps) - 1)
  BY <1>1, <1>2, LastFacts
<1> DEFINE c == Len(temps) - 1
<1>4. /\ Len(scope) + c = Len(Sets) - 1 /\ c + 1 = Len(temps)
      /\ Len(scope) + c + 1 = (Len(Sets) - 1) + 1
  BY <1>1
<1>5. /\ SubSeq(Sets, 1, Len(scope)) = scope
      /\ SubSeq(Sets, Len(scope) + 1, Len(scope) + c) = SubSeq(temps, 1, c)
      /\ SubSeq(Sets, Len(scope) + c + 1, Len(Sets)) = SubSeq(temps, c + 1, Len(temps))
  <2>1. scope \in Seq(VSet(exist)) /\ temps \in Seq(VSet(exist)) /\ c \in 0..Len(temps)
    BY <1>1, <1>3
  <2> HIDE DEF c
  <2> QED BY ONLY <2>1, JoinedParts DEF Sets
<1>6. SubSeq(temps, c + 1, Len(temps)) = <<Last(temps)>>
  <2>1. Len(temps) \in c..Len(temps) /\ Len(temps) - c = 1 /\ c + 1 = Len(temps)
    BY <1>1
  <2>2. /\ SubSeq(temps, c + 1, Len(temps)) \in Seq(VSet(exist))
        /\ Len(SubSeq(temps, c + 1, Len(temps))) = 1
        /\ \A k \in 1..1 : SubSeq(temps, c + 1, Len(temps))[k] = temps[c + k]
    BY <1>1, <1>3, <2>1, PartFacts
  <2>3. <<Last(temps)>> \in Seq(VSet(exist)) /\ Len(<<Last(temps)>>) = 1
        /\ <<Last(temps)>>[1] = temps[c + 1]
    BY <1>3, <2>1
  <2>4. \A k \in 1..1 : k = 1
    OBVIOUS
  <2> QED BY <2>2, <2>3, <2>4, SeqEqual
<1>7. Kept(Sets, Len(scope), Len(Sets) - 1) = Append(scope, Last(temps))
  <2>1. Append(scope, Last(temps)) = scope \o <<Last(temps)>>
    BY <1>1, <1>3, AppendIsConcat
  <2> QED BY <1>4, <1>5, <1>6, <2>1 DEF Kept
<1>8. Gone(Sets, Len(scope), Len(Sets) - 1) = Front(temps)
  BY <1>3, <1>4, <1>5 DEF Gone
<1>9. scope' \in Seq(VSet(exist')) /\ temps' \in Seq(VSet(exist'))
  BY <1>1, <1>3, AppendProperties, EmptySeq DEF Bind
<1>10. Sets' = Append(scope, Last(temps))
  BY <1>9, ConcatEmptySeq DEF Bind, Sets
<1>11. Drops(Len(scope), Len(Sets) - 1)
  BY <1>7, <1>8, <1>10 DEF Bind, Drops
<1>12. SetsTyped'
  BY <1>1, <1>9 DEF SetsTyped, Bind
<1> QED BY <1>2, <1>11, <1>12 DEF Binds

\* Every statement is a step of one of these kinds.
LEMMA StepMeans ==
  ASSUME TypeOK, Next
  PROVE  SetsTyped' /\ (Declares \/ Computes \/ Unwinds \/ Binds \/ Stays)
<1>1. /\ exist \in Nat /\ depth \in 0..MaxDepth /\ MaxDepth \in Nat
      /\ scope \in Seq(VSet(exist)) /\ temps \in Seq(VSet(exist)) /\ Sets \in Seq(VSet(exist))
      /\ Len(Sets) = Len(scope) + Len(temps) /\ Len(scope) \in Nat /\ Len(temps) \in Nat
      /\ DOMAIN scope = 1..Len(scope)
  BY Typing
<1>2. \A p \in DOMAIN scope : p \in DOMAIN Sets /\ Sets[p] = scope[p]
  <2>1. \A p \in 1..Len(scope) : p \in 1..Len(Sets)
    BY <1>1
  <2> QED BY <1>1, <2>1, Typing
<1>3. CASE ReadAdj
  <2>1. Memory \in VSet(exist) /\ ~Memory.pooled /\ Memory.data = External /\ Memory.intact
    BY <1>1 DEF Memory, VSet, External
  <2>2. Views(Memory)
    BY <2>1 DEF Views
  <2> QED BY <1>3, <2>2, DeclaresStep DEF ReadAdj, Statement
<1>4. ASSUME NEW p \in DOMAIN scope, DeclareView(p)
      PROVE  SetsTyped' /\ Declares
  <2>1. Views(Here(View(scope[p])))
    BY <1>2, ViewFacts
  <2> QED BY <1>4, <2>1, DeclaresStep DEF DeclareView, Statement
<1>5. ASSUME NEW p \in DOMAIN scope, BeginExpression(p)
      PROVE  SetsTyped' /\ Declares
  <2>1. Views(Here(View(scope[p])))
    BY <1>2, ViewFacts
  <2>2. temps' = Append(temps, Here(View(scope[p])))
    BY <1>5 DEF BeginExpression, Statement
  <2> QED BY <1>5, <2>1, <2>2, DeclaresStep DEF BeginExpression
<1>6. ASSUME NEW p \in DOMAIN scope, DeclareResult(p)
      PROVE  SetsTyped' /\ Computes
  BY <1>6, ComputesStep DEF DeclareResult, Statement
<1>7. CASE LinkResult
  BY <1>7, ComputesStep DEF LinkResult
<1>8. CASE LinkView
  <2>1. temps # << >> /\ temps' = Append(temps, View(Last(temps)))
    BY <1>8 DEF LinkView
  <2>2. Len(temps) \in 1..Len(temps) /\ Last(temps) = temps[Len(temps)]
    BY <1>1, <2>1, LastFacts
  <2>3. Len(scope) + Len(temps) \in DOMAIN Sets /\ Last(temps) = Sets[Len(scope) + Len(temps)]
    <3>1. Len(scope) + Len(temps) \in 1..Len(Sets)
      BY <1>1, <2>2
    <3> QED BY <2>2, <3>1, Typing
  <2>4. Views(View(Last(temps)))
    BY <2>3, ViewFacts
  <2> QED BY <1>8, <2>1, <2>4, DeclaresStep DEF LinkView
<1>9. CASE Link
  BY <1>7, <1>8, <1>9 DEF Link
<1>10. CASE Bind
  BY <1>10, BindsStep
<1>11. CASE CountExpression
  <2>1. Len(temps) \in 0..Len(temps) /\ 0 \in 0..Len(temps) /\ Len(scope) + 0 = Len(scope)
        /\ 0 + 1 = 1 /\ Len(scope) \in 0..Len(Sets)
    BY <1>1
  <2>2. SubSeq(Sets, 1, Len(scope)) = scope
    BY <1>1, <2>1, JoinedParts DEF Sets
  <2>3. SubSeq(Sets, Len(scope) + 1, Len(Sets)) = SubSeq(temps, 1, Len(temps))
    <3>1. SubSeq(Sets, Len(scope) + 0 + 1, Len(Sets)) = SubSeq(temps, 0 + 1, Len(temps))
      BY <1>1, <2>1, JoinedParts DEF Sets
    <3> QED BY <2>1, <3>1
  <2>4. SubSeq(temps, 1, Len(temps)) = temps
    BY <1>1, SubSeqFull
  <2> QED BY <1>1, <1>11, <2>1, <2>2, <2>3, <2>4, UnwindsStep DEF CountExpression
<1>12. CASE EnterLoop
  <2>1. depth' \in 0..MaxDepth
    BY <1>1, <1>12 DEF EnterLoop
  <2> QED BY <1>1, <1>12, <2>1 DEF EnterLoop, SetsTyped, Stays, Sets
<1>13. CASE EndIteration
  <2> DEFINE outer == Cardinality({i \in DOMAIN scope : scope[i].depth < depth})
  <2>1. /\ temps = << >> /\ temps' = << >> /\ UNCHANGED exist
        /\ scope' = SubSeq(scope, 1, outer)
        /\ avail' = avail \o Freed(SubSeq(scope, outer + 1, Len(scope)))
        /\ depth' = IF depth > 0 THEN depth - 1 ELSE 0
    BY <1>13 DEF EndIteration
  <2>2. outer \in 0..Len(scope)
    <3> DEFINE T == {i \in DOMAIN scope : scope[i].depth < depth}
    <3>1. 1 \in Int /\ Len(scope) \in Int
      BY <1>1
    <3>2. IsFiniteSet(1..Len(scope)) /\ Cardinality(1..Len(scope)) = Len(scope)
      <4>1. /\ IsFiniteSet(1..Len(scope))
            /\ Cardinality(1..Len(scope)) = IF 1 > Len(scope) THEN 0 ELSE Len(scope) - 1 + 1
        BY <3>1, FS_Interval
      <4> QED BY <1>1, <4>1
    <3>3. T \in SUBSET (1..Len(scope))
      BY <1>1
    <3> HIDE DEF T
    <3>4. IsFiniteSet(T) /\ Cardinality(T) <= Len(scope)
      BY <3>2, <3>3, FS_Subset
    <3>5. Cardinality(T) \in Nat
      BY <3>4, FS_CardinalityType
    <3>6. Cardinality(T) \in 0..Len(scope)
      BY <1>1, <3>4, <3>5
    <3> QED BY <3>6 DEF T
  <2> HIDE DEF outer
  <2>3. depth' \in 0..MaxDepth
    BY <1>1, <2>1
  <2>4. Sets = scope
    BY <2>1, NoTemps
  <2> QED BY <2>1, <2>2, <2>3, <2>4, UnwindsStep
<1> QED BY <1>3, <1>4, <1>5, <1>6, <1>9, <1>10, <1>11, <1>12, <1>13 DEF Next

-----------------------------------------------------------------------------
(***************************************************************************)
(* Every buffer is available once or owned once.                           *)
(***************************************************************************)
\* OwnedOnce, in terms of the owners.
LEMMA OwnedOnceMeans ==
  OwnedOnce <=> /\ IsInjective(avail) /\ OnceOwned(Sets)
                /\ ToSet(avail) \intersect Owners(Sets) = {}
                /\ ToSet(avail) \union Owners(Sets) = 1..exist
BY DEF OwnedOnce, Free, Held, OnceOwned, Owners, IsInjective

\* The same of the next state.
LEMMA OwnedOnceMeansNext ==
  OwnedOnce' <=> /\ IsInjective(avail') /\ OnceOwned(Sets')
                 /\ ToSet(avail') \intersect Owners(Sets') = {}
                 /\ ToSet(avail') \union Owners(Sets') = 1..exist'
BY DEF OwnedOnce, Free, Held, OnceOwned, Owners, IsInjective, Owned

\* The buffer handed out is nobody's.
LEMMA HandedOut ==
  ASSUME TypeOK, OwnedOnce, Allocate
  PROVE  /\ NextBuffer \notin Owners(Sets) /\ NextBuffer # External
         /\ IsInjective(avail') /\ ToSet(avail') = ToSet(avail) \ {NextBuffer}
         /\ 1..exist' = (1..exist) \union {NextBuffer}
<1>1. exist \in Nat /\ avail \in Seq(1..exist)
  BY Typing
<1>2. /\ IsInjective(avail) /\ ToSet(avail) \intersect Owners(Sets) = {}
      /\ ToSet(avail) \union Owners(Sets) = 1..exist
  BY OwnedOnceMeans
<1>3. CASE avail = << >>
  <2>1. exist' = exist + 1 /\ NextBuffer = exist + 1 /\ avail' = avail
    BY <1>3, AllocateFacts
  <2>2. NextBuffer \notin 1..exist /\ NextBuffer # External
        /\ 1..exist' = (1..exist) \union {NextBuffer}
    BY <1>1, <2>1 DEF External
  <2> QED BY <1>2, <2>1, <2>2
<1>4. CASE avail # << >>
  <2>1. exist' = exist /\ NextBuffer \in ToSet(avail)
        /\ IsInjective(avail') /\ ToSet(avail') = ToSet(avail) \ {NextBuffer}
    BY <1>2, <1>4, AllocateFacts
  <2>2. NextBuffer \in 1..exist
    BY <1>2, <2>1
  <2>3. NextBuffer # External
    BY <1>1, <2>2 DEF External
  <2> QED BY <1>2, <2>1, <2>2, <2>3
<1> QED BY <1>3, <1>4

\* What a step does to the pool: it hands out a buffer, or some are returned.
HandsOut ==
  /\ Free' = Free \ {NextBuffer} /\ Held' = Held \union {NextBuffer}
  /\ IF avail = << >> THEN exist' = exist + 1 /\ NextBuffer = exist + 1
                      ELSE exist' = exist /\ NextBuffer \in Free
Returned(gone) ==
  /\ gone \in SUBSET Held
  /\ Free' = Free \union gone /\ Held' = Held \ gone
  /\ UNCHANGED exist

\* Sets that go return what they own, once.
LEMMA DropsReturn ==
  ASSUME TypeOK, OwnedOnce, NEW n \in 0..Len(Sets), NEW m \in n..Len(Sets), Drops(n, m)
  PROVE  OwnedOnce' /\ avail' \in Seq(1..exist') /\ Returned(Owners(Gone(Sets, n, m)))
<1> DEFINE k == Kept(Sets, n, m)
           g == Gone(Sets, n, m)
<1>1. exist \in Nat /\ avail \in Seq(1..exist) /\ Sets \in Seq(VSet(exist))
  BY Typing
<1>2. /\ IsInjective(avail) /\ OnceOwned(Sets) /\ ToSet(avail) \intersect Owners(Sets) = {}
      /\ ToSet(avail) \union Owners(Sets) = 1..exist
  BY OwnedOnceMeans
<1>3. /\ g \in Seq(VSet(exist)) /\ OnceOwned(k) /\ OnceOwned(g)
      /\ Owners(k) \union Owners(g) = Owners(Sets) /\ Owners(k) \intersect Owners(g) = {}
  BY <1>1, <1>2, DroppedFacts
<1>4. Sets' = k /\ avail' = avail \o Freed(g) /\ exist' = exist
  BY DEF Drops
<1> HIDE DEF k, g
<1>5. /\ Freed(g) \in Seq(Owners(g)) /\ ToSet(Freed(g)) = Owners(g) /\ IsInjective(Freed(g))
  BY <1>1, <1>3, FreedFacts
<1>6. Freed(g) \in Seq(1..exist)
  <2>1. Owners(g) \subseteq 1..exist
    BY <1>2, <1>3
  <2> QED BY <1>5, <2>1, SeqMonotonic
<1>7. avail \o Freed(g) \in Seq(1..exist)
  BY <1>1, <1>6, ConcatProperties
<1>8. /\ IsInjective(avail \o Freed(g))
      /\ ToSet(avail \o Freed(g)) = ToSet(avail) \union Owners(g)
  <2>1. ToSet(avail) \intersect ToSet(Freed(g)) = {}
    BY <1>2, <1>3, <1>5
  <2> QED BY <1>1, <1>2, <1>5, <1>6, <2>1, JoinedFacts
<1>9. OwnedOnce'
  <2>1. /\ (ToSet(avail) \union Owners(g)) \intersect Owners(k) = {}
        /\ (ToSet(avail) \union Owners(g)) \union Owners(k) = 1..exist
    BY <1>2, <1>3
  <2> QED BY <1>3, <1>4, <1>8, <2>1, OwnedOnceMeansNext
<1>10. Held = Owners(Sets) /\ Held' = Owners(Sets')
  BY DEF Held, Owners, Owned
<1>11. Returned(Owners(g))
  <2>1. Owners(g) \in SUBSET Owners(Sets) /\ Owners(k) = Owners(Sets) \ Owners(g)
    BY <1>3
  <2> QED BY <1>4, <1>8, <1>10, <2>1 DEF Returned, Free
<1> QED BY <1>4, <1>7, <1>9, <1>11 DEF g

\* Every step keeps the buffers accounted for, and uses the pool in one of those ways.
LEMMA OwnedStep ==
  ASSUME TypeOK, OwnedOnce, Declares \/ Computes \/ Unwinds \/ Binds \/ Stays
  PROVE  /\ OwnedOnce' /\ exist' \in Nat /\ avail' \in Seq(1..exist')
         /\ HandsOut \/ \E gone \in SUBSET Held : Returned(gone)
<1>1. exist \in Nat /\ avail \in Seq(1..exist) /\ Sets \in Seq(VSet(exist))
      /\ Len(Sets) \in Nat /\ Len(Sets) = Len(scope) + Len(temps)
      /\ Len(scope) \in Nat /\ Len(temps) \in Nat /\ temps \in Seq(VSet(exist))
  BY Typing, LenProperties
<1>2. /\ IsInjective(avail) /\ OnceOwned(Sets) /\ ToSet(avail) \intersect Owners(Sets) = {}
      /\ ToSet(avail) \union Owners(Sets) = 1..exist
  BY OwnedOnceMeans
<1>3. Held = Owners(Sets) /\ Held' = Owners(Sets')
  BY DEF Held, Owners, Owned
<1>4. ASSUME UNCHANGED <<exist, avail>>, OnceOwned(Sets'), Owners(Sets') = Owners(Sets)
      PROVE  /\ OwnedOnce' /\ exist' \in Nat /\ avail' \in Seq(1..exist')
             /\ \E gone \in SUBSET Held : Returned(gone)
  <2>1. OwnedOnce'
    BY <1>2, <1>4, OwnedOnceMeansNext
  <2>2. Returned({})
    BY <1>3, <1>4 DEF Returned, Free
  <2> QED BY <1>1, <1>4, <2>1, <2>2
<1>5. CASE Declares
  <2>1. PICK x \in VSet(exist) : ~x.pooled /\ Sets' = Append(Sets, x)
    BY <1>5 DEF Declares, Views
  <2>2. OnceOwned(Sets') /\ Owners(Sets') = Owners(Sets)
    BY <1>1, <1>2, <2>1, GrownFacts
  <2> QED BY <1>4, <1>5, <2>2 DEF Declares
<1>6. CASE Computes
  <2> DEFINE w == Spoil(Sets, NextBuffer)
  <2>1. Allocate /\ Sets' = Append(w, Buffer)
    BY <1>6 DEF Computes
  <2>2. /\ NextBuffer \notin Owners(Sets)
        /\ IsInjective(avail') /\ ToSet(avail') = ToSet(avail) \ {NextBuffer}
        /\ 1..exist' = (1..exist) \union {NextBuffer}
    BY <2>1, HandedOut
  <2>3. /\ exist' \in Nat /\ avail' \in Seq(1..exist') /\ Buffer \in VSet(exist')
        /\ VSet(exist) \subseteq VSet(exist') /\ Buffer.pooled /\ Buffer.data = NextBuffer
        /\ IF avail = << >> THEN exist' = exist + 1 /\ NextBuffer = exist + 1
                            ELSE exist' = exist /\ NextBuffer \in ToSet(avail)
    BY <2>1, AllocateFacts
  <2>4. /\ w \in Seq(VSet(exist)) /\ Owners(w) = Owners(Sets) /\ OnceOwned(w)
    BY <1>1, <1>2, SpoilFacts
  <2>5. w \in Seq(VSet(exist'))
    BY <2>3, <2>4, SeqMonotonic
  <2> HIDE DEF w
  <2>6. /\ OnceOwned(Sets') /\ Owners(Sets') = Owners(Sets) \union {NextBuffer}
    <3>1. Buffer.data \notin Owners(w)
      BY <2>2, <2>3, <2>4
    <3> QED BY <2>1, <2>3, <2>4, <2>5, <3>1, GrownOwner
  <2>7. OwnedOnce'
    <3>1. /\ (ToSet(avail) \ {NextBuffer}) \intersect (Owners(Sets) \union {NextBuffer}) = {}
          /\ (ToSet(avail) \ {NextBuffer}) \union (Owners(Sets) \union {NextBuffer})
               = (1..exist) \union {NextBuffer}
      BY <1>2
    <3> QED BY <2>2, <2>6, <3>1, OwnedOnceMeansNext
  <2>8. HandsOut
    BY <1>3, <2>2, <2>3, <2>6 DEF HandsOut, Free
  <2> QED BY <2>3, <2>7, <2>8
<1>7. CASE Unwinds
  <2>1. PICK n \in 0..Len(Sets) : Drops(n, Len(Sets))
    BY <1>7 DEF Unwinds
  <2>2. Len(Sets) \in n..Len(Sets)
    BY <1>1
  <2>3. OwnedOnce' /\ avail' \in Seq(1..exist') /\ Returned(Owners(Gone(Sets, n, Len(Sets))))
    BY <2>1, <2>2, DropsReturn
  <2> QED BY <1>1, <2>3 DEF Returned
<1>8. CASE Binds
  <2>1. Drops(Len(scope), Len(Sets) - 1) /\ temps # << >>
    BY <1>8 DEF Binds
  <2>2. Len(temps) \in 1..Len(temps)
    BY <1>1, <2>1, LastFacts
  <2>3. Len(scope) \in 0..Len(Sets) /\ Len(Sets) - 1 \in Len(scope)..Len(Sets)
    BY <1>1, <2>2
  <2>4. /\ OwnedOnce' /\ avail' \in Seq(1..exist')
        /\ Returned(Owners(Gone(Sets, Len(scope), Len(Sets) - 1)))
    BY <2>1, <2>3, DropsReturn
  <2> QED BY <1>1, <2>4 DEF Returned
<1>9. CASE Stays
  BY <1>2, <1>4, <1>9 DEF Stays
<1> QED BY <1>5, <1>6, <1>7, <1>8, <1>9

\* The inductive invariant: which buffers there are matters for the types, since what
\* is freed becomes available.
LEMMA OwnedInvariance == Spec => [](TypeOK /\ OwnedOnce)
<1>1. Init => TypeOK /\ OwnedOnce
  <2> SUFFICES ASSUME Init PROVE TypeOK /\ OwnedOnce
    OBVIOUS
  <2>1. exist = 0 /\ avail = << >> /\ scope = << >> /\ temps = << >> /\ depth = 0
    BY DEF Init
  <2>2. TypeOK
    BY <2>1, EmptySeq, BuffersAssumption DEF TypeOK
  <2>3. Sets = << >>
    BY <2>1, <2>2, NoTemps
  <2>4. OwnedOnce
    BY <2>1, <2>3 DEF OwnedOnce, Free, Held, Owned, ToSet
  <2> QED BY <2>2, <2>4
<1>2. TypeOK /\ OwnedOnce /\ [Next]_vars => (TypeOK /\ OwnedOnce)'
  <2> SUFFICES ASSUME TypeOK, OwnedOnce, [Next]_vars PROVE TypeOK' /\ OwnedOnce'
    OBVIOUS
  <2>1. CASE Next
    <3>1. SetsTyped' /\ OwnedOnce' /\ exist' \in Nat /\ avail' \in Seq(1..exist')
      BY <2>1, StepMeans, OwnedStep
    <3> QED BY <3>1 DEF TypeOK, SetsTyped, VSet
  <2>2. CASE UNCHANGED vars
    <3>1. TypeOK'
      BY <2>2 DEF vars, TypeOK
    <3>2. Sets' = Sets /\ exist' = exist /\ avail' = avail
      BY <2>2 DEF vars, Sets
    <3>3. OwnedOnce'
      BY <3>2, OwnedOnceMeans, OwnedOnceMeansNext
    <3> QED BY <3>1, <3>3
  <2> QED BY <2>1, <2>2
<1> QED BY <1>1, <1>2, PTL DEF Spec

\* The variables keep their types: only buffers of the pool are ever available.
THEOREM BuffersTyped == Spec => []TypeOK
BY OwnedInvariance, PTL

\* Every buffer of the pool is available once or owned by one set: no statement, end
\* of an iteration or of an expression loses a buffer or frees it twice, whatever the
\* generator chains.
THEOREM BuffersOwnedOnce == Spec => []OwnedOnce
BY OwnedInvariance, PTL

\* Copies, moves, temporaries and the ends of scopes use the pool as BufferPool says.
THEOREM SetsRefineBufferPool == Spec => IsBufferPool
<1> DEFINE sizes == [b \in 1..exist |-> 1]
<1>1. Init => Abstract!Init
  <2> SUFFICES ASSUME Init PROVE sizes = << >> /\ Free = {} /\ Held = {}
    BY DEF Abstract!Init
  <2>1. exist = 0 /\ avail = << >> /\ Sets = << >>
    BY ConcatEmptySeq, EmptySeq DEF Init, Sets
  <2>2. 1..exist = {}
    BY <2>1
  <2> QED BY <2>1, <2>2 DEF Free, Held, Owned, ToSet
<1>2. ASSUME TypeOK, HandsOut, 1..exist = Free \union Held PROVE Abstract!Next
  <2>1. exist \in Nat
    BY <1>2, Typing
  <2>2. Len(sizes) = exist
    BY <2>1
  <2>3. {} \in SUBSET Held /\ {} \in SUBSET (Held \ {}) /\ 1 \in {1}
    OBVIOUS
  <2>4. CASE avail = << >>
    <3>1. Free = {} /\ exist' = exist + 1 /\ NextBuffer = exist + 1
      BY <1>2, <2>4 DEF HandsOut, Free, ToSet
    <3>2. Len(sizes') = exist + 1 /\ sizes'[exist + 1] = 1
      BY <2>1, <3>1
    <3>3. SubSeq(sizes', 1, Len(sizes)) = sizes
      BY <2>1, <2>2, <3>1
    <3>4. Abstract!Make(1, {}, {})
      BY <1>2, <2>2, <3>1, <3>2, <3>3 DEF Abstract!Make, Abstract!HandOut, HandsOut, Same
    <3> QED BY <2>3, <3>4 DEF Abstract!Next
  <2>5. CASE avail # << >>
    <3>1. exist' = exist /\ NextBuffer \in Free
      BY <1>2, <2>5 DEF HandsOut
    <3>2. NextBuffer \in 1..exist /\ sizes[NextBuffer] = 1
      BY <1>2, <3>1
    <3>3. Abstract!Reuse(1, {}, {})
      BY <1>2, <3>1, <3>2 DEF Abstract!Reuse, Abstract!HandOut, HandsOut, Same
    <3> QED BY <2>3, <3>3 DEF Abstract!Next
  <2> QED BY <2>4, <2>5
<1>3. ASSUME NEW gone \in SUBSET Held, Returned(gone) PROVE Abstract!Next
  BY <1>3 DEF Returned, Abstract!Next, Abstract!GiveBack
<1>4. TypeOK /\ OwnedOnce /\ [Next]_vars => [Abstract!Next]_(Abstract!vars)
  <2> SUFFICES ASSUME TypeOK, OwnedOnce, [Next]_vars PROVE [Abstract!Next]_(Abstract!vars)
    OBVIOUS
  <2>1. CASE Next
    <3>1. HandsOut \/ \E gone \in SUBSET Held : Returned(gone)
      BY <2>1, StepMeans, OwnedStep
    <3>2. 1..exist = Free \union Held
      BY DEF OwnedOnce
    <3> QED BY <1>2, <1>3, <3>1, <3>2
  <2>2. CASE UNCHANGED vars
    BY <2>2 DEF vars, Abstract!vars, Free, Held, Owned, Sets
  <2> QED BY <2>1, <2>2
<1> QED BY <1>1, <1>4, OwnedInvariance, PTL DEF Spec, IsBufferPool, Abstract!Spec

-----------------------------------------------------------------------------
(***************************************************************************)
(* Views and elements.                                                     *)
(***************************************************************************)
\* From the third loop on only subtractions are chained: every vertex-induced plan,
\* and the outer two loops of an edge-induced one.
ChainsSubtract == \A d \in 2..MaxDepth : Chained[d] \subseteq {"subtract"}

\* A temporary owns its buffer or points to what the one before it points to; in the
\* third loop and deeper all but the first own theirs.
ChainInv ==
  /\ \A k \in 2..Len(temps) : temps[k].pooled \/ temps[k].data = temps[k - 1].data
  /\ depth >= 2 => \A k \in 2..Len(temps) : temps[k].pooled

ViewsInv == ChainInv /\ ViewsOutlived /\ KeepsElements

\* The step of a chain.
LEMMA ChainStep ==
  ASSUME TypeOK, ChainsSubtract, ChainInv, Next
  PROVE  ChainInv'
<1>1. /\ exist \in Nat /\ depth \in 0..MaxDepth /\ MaxDepth \in Nat
      /\ temps \in Seq(VSet(exist)) /\ Len(temps) \in Nat
  BY Typing
<1>2. ASSUME temps' = << >> PROVE ChainInv'
  <2>1. Len(temps') = 0 /\ 2..0 = {}
    BY <1>2
  <2> QED BY <2>1 DEF ChainInv
<1>3. CASE temps' = temps /\ depth' = depth
  BY <1>3 DEF ChainInv
<1>4. ASSUME NEW p \in DOMAIN scope, BeginExpression(p) PROVE ChainInv'
  <2>1. Len(temps') = 1 /\ 2..1 = {}
    BY <1>4 DEF BeginExpression
  <2> QED BY <2>1 DEF ChainInv
<1>5. CASE LinkResult
  <2> DEFINE v == Spoil(temps, NextBuffer)
  <2>1. Allocate /\ temps' = Append(v, Buffer) /\ depth' = depth
    BY <1>5 DEF LinkResult
  <2>2. VSet(exist) \subseteq VSet(exist') /\ Buffer \in VSet(exist') /\ Buffer.pooled
    BY <2>1, AllocateFacts
  <2>3. /\ v \in Seq(VSet(exist)) /\ Len(v) = Len(temps)
        /\ \A i \in 1..Len(temps) : v[i].data = temps[i].data /\ v[i].pooled = temps[i].pooled
    BY <1>1, SpoilFacts
  <2>4. v \in Seq(VSet(exist'))
    BY <2>2, <2>3, SeqMonotonic
  <2> HIDE DEF v
  <2>5. /\ Len(temps') = Len(temps) + 1 /\ temps'[Len(temps) + 1] = Buffer
        /\ \A i \in 1..Len(temps) : temps'[i] = v[i]
    BY <2>1, <2>2, <2>3, <2>4, AppendProperties
  <2>6. \A k \in 2..(Len(temps) + 1) :
          \/ k = Len(temps) + 1
          \/ k \in 2..Len(temps) /\ k \in 1..Len(temps) /\ k - 1 \in 1..Len(temps)
    BY <1>1
  <2>7. ASSUME NEW k \in 2..(Len(temps) + 1)
        PROVE  temps'[k].pooled \/ temps'[k].data = temps'[k - 1].data
    BY <2>2, <2>3, <2>5, <2>6 DEF ChainInv
  <2>8. ASSUME depth' >= 2, NEW k \in 2..(Len(temps) + 1) PROVE temps'[k].pooled
    BY <2>1, <2>2, <2>3, <2>5, <2>6, <2>8 DEF ChainInv
  <2> QED BY <2>5, <2>7, <2>8 DEF ChainInv
<1>6. CASE Chained[depth] \intersect {"bounded", "remove"} # {} /\ LinkView
  <2>1. temps # << >> /\ temps' = Append(temps, View(Last(temps))) /\ depth' = depth
    BY <1>6 DEF LinkView
  <2>2. ~(depth >= 2)
    <3>1. ASSUME depth >= 2 PROVE FALSE
      <4>1. depth \in 2..MaxDepth
        BY <1>1, <3>1
      <4> QED BY <1>6, <4>1 DEF ChainsSubtract
    <3> QED BY <3>1
  <2>3. /\ Len(temps) \in 1..Len(temps) /\ Last(temps) = temps[Len(temps)]
        /\ Last(temps) \in VSet(exist)
    BY <1>1, <2>1, LastFacts
  <2>4. View(Last(temps)) \in VSet(exist) /\ View(Last(temps)).data = Last(temps).data
    BY <2>3 DEF View, VSet
  <2>5. /\ Len(temps') = Len(temps) + 1 /\ temps'[Len(temps) + 1] = View(Last(temps))
        /\ \A i \in 1..Len(temps) : temps'[i] = temps[i]
    BY <1>1, <2>1, <2>4, AppendProperties
  <2>6. \A k \in 2..(Len(temps) + 1) :
          \/ k = Len(temps) + 1 /\ k - 1 = Len(temps)
          \/ k \in 2..Len(temps) /\ k \in 1..Len(temps) /\ k - 1 \in 1..Len(temps)
    BY <1>1
  <2>7. ASSUME NEW k \in 2..(Len(temps) + 1)
        PROVE  temps'[k].pooled \/ temps'[k].data = temps'[k - 1].data
    BY <2>3, <2>4, <2>5, <2>6 DEF ChainInv
  <2> QED BY <2>1, <2>2, <2>5, <2>7 DEF ChainInv
<1>7. CASE Link
  BY <1>5, <1>6, <1>7 DEF Link
<1>8. ASSUME NEW p \in DOMAIN scope, DeclareView(p) \/ DeclareResult(p) PROVE ChainInv'
  BY <1>3, <1>8 DEF DeclareView, DeclareResult, Statement
<1>9. CASE ReadAdj
  BY <1>3, <1>9 DEF ReadAdj
<1>10. CASE Bind \/ CountExpression \/ EnterLoop \/ EndIteration
  BY <1>2, <1>10 DEF Bind, CountExpression, EnterLoop, EndIteration
<1> QED BY <1>4, <1>7, <1>8, <1>9, <1>10 DEF Next

\* A sequence of sets in which every view comes after the set that owns its buffer,
\* and one in which every set has its elements.
OwnersFirst(s) ==
  \A i \in DOMAIN s : s[i].data # External =>
    \E j \in 1..i : s[j].pooled /\ s[j].data = s[i].data
AllIntact(s) == \A i \in DOMAIN s : s[i].intact

\* A part that keeps the beginning of the sequence keeps the owners.
LEMMA PrefixOwners ==
  ASSUME NEW made \in Nat, NEW s \in Seq(VSet(made)), NEW n \in 0..Len(s), OwnersFirst(s),
         NEW t, DOMAIN t = 1..n, \A i \in 1..n : t[i] = s[i]
  PROVE  OwnersFirst(t)
<1>1. Len(s) \in Nat /\ DOMAIN s = 1..Len(s)
  BY LenProperties
<1> SUFFICES ASSUME NEW i \in 1..n, t[i].data # External
             PROVE  \E j \in 1..i : t[j].pooled /\ t[j].data = t[i].data
  BY DEF OwnersFirst
<1>2. i \in DOMAIN s /\ s[i].data # External
  BY <1>1
<1>3. PICK j \in 1..i : s[j].pooled /\ s[j].data = s[i].data
  BY <1>2 DEF OwnersFirst
<1>4. j \in 1..n
  BY <1>1
<1> QED BY <1>3, <1>4

\* A step keeps the owners before their views, and every set's elements.
LEMMA ViewsStep ==
  ASSUME TypeOK, OwnedOnce, ChainInv, OwnersFirst(Sets), AllIntact(Sets),
         Declares \/ Computes \/ Unwinds \/ Binds \/ Stays
  PROVE  OwnersFirst(Sets') /\ AllIntact(Sets')
<1>1. /\ exist \in Nat /\ Sets \in Seq(VSet(exist)) /\ depth \in 0..MaxDepth /\ MaxDepth \in Nat
      /\ Len(Sets) \in Nat /\ DOMAIN Sets = 1..Len(Sets) /\ Len(Sets) = Len(scope) + Len(temps)
      /\ Len(scope) \in Nat /\ Len(temps) \in Nat /\ temps \in Seq(VSet(exist))
  BY Typing, LenProperties
<1>2. CASE Declares
  <2>1. PICK x \in VSet(exist) : Views(x) /\ Sets' = Append(Sets, x)
    BY <1>2 DEF Declares
  <2>2. /\ Sets' \in Seq(VSet(exist)) /\ Len(Sets') = Len(Sets) + 1
        /\ \A i \in 1..Len(Sets) : Sets'[i] = Sets[i]
        /\ Sets'[Len(Sets) + 1] = x
    BY <1>1, <2>1, AppendProperties
  <2>3. DOMAIN Sets' = 1..(Len(Sets) + 1)
    BY <2>2, LenProperties
  <2>4. \A i \in 1..(Len(Sets) + 1) : i \in 1..Len(Sets) \/ i = Len(Sets) + 1
    BY <1>1
  <2>5. x.intact
    BY <1>1, <2>1, Zenon DEF Views, AllIntact
  <2>6. AllIntact(Sets')
    BY <1>1, <2>2, <2>3, <2>4, <2>5, Zenon DEF AllIntact
  <2>7. ASSUME x.data # External
        PROVE  \E j \in 1..Len(Sets) : Sets[j].pooled /\ Sets[j].data = x.data
    <3>1. PICK i \in DOMAIN Sets : x.data = Sets[i].data
      BY <2>1, <2>7 DEF Views
    <3>2. PICK j \in 1..i : Sets[j].pooled /\ Sets[j].data = Sets[i].data
      BY <2>7, <3>1 DEF OwnersFirst
    <3>3. j \in 1..Len(Sets)
      BY <1>1, <3>1
    <3> QED BY <3>1, <3>2, <3>3
  <2>8. ASSUME NEW i \in 1..(Len(Sets) + 1), Sets'[i].data # External
        PROVE  \E j \in 1..i : Sets'[j].pooled /\ Sets'[j].data = Sets'[i].data
    <3>1. CASE i \in 1..Len(Sets)
      <4>1. PICK j \in 1..i : Sets[j].pooled /\ Sets[j].data = Sets[i].data
        BY <1>1, <2>2, <2>8, <3>1 DEF OwnersFirst
      <4>2. j \in 1..Len(Sets)
        BY <1>1, <3>1
      <4> QED BY <2>2, <3>1, <4>1, <4>2
    <3>2. CASE i = Len(Sets) + 1
      <4>1. PICK j \in 1..Len(Sets) : Sets[j].pooled /\ Sets[j].data = x.data
        BY <2>2, <2>7, <2>8, <3>2
      <4>2. j \in 1..i
        BY <1>1, <3>2
      <4> QED BY <2>2, <3>2, <4>1, <4>2
    <3> QED BY <2>4, <3>1, <3>2
  <2> QED BY <2>3, <2>6, <2>8 DEF OwnersFirst
<1>3. CASE Computes
  <2> DEFINE w == Spoil(Sets, NextBuffer)
  <2>1. Allocate /\ Sets' = Append(w, Buffer)
    BY <1>3 DEF Computes
  <2>2. NextBuffer \notin Owners(Sets) /\ NextBuffer # External
    BY <2>1, HandedOut
  <2>3. /\ VSet(exist) \subseteq VSet(exist') /\ Buffer \in VSet(exist')
        /\ Buffer.pooled /\ Buffer.intact
    BY <2>1, AllocateFacts
  <2>4. /\ w \in Seq(VSet(exist)) /\ Len(w) = Len(Sets)
        /\ \A i \in 1..Len(Sets) : /\ w[i].data = Sets[i].data /\ w[i].pooled = Sets[i].pooled
                                   /\ Sets[i].data # NextBuffer => w[i].intact = Sets[i].intact
    BY <1>1, SpoilFacts
  <2>5. w \in Seq(VSet(exist'))
    BY <2>3, <2>4, SeqMonotonic
  <2> HIDE DEF w
  <2>6. /\ Sets' \in Seq(VSet(exist')) /\ Len(Sets') = Len(Sets) + 1
        /\ \A i \in 1..Len(Sets) : Sets'[i] = w[i]
        /\ Sets'[Len(Sets) + 1] = Buffer
    BY <2>1, <2>3, <2>4, <2>5, AppendProperties
  <2>7. DOMAIN Sets' = 1..(Len(Sets) + 1)
    BY <2>6, LenProperties
  <2>8. \A i \in 1..(Len(Sets) + 1) : i \in 1..Len(Sets) \/ i = Len(Sets) + 1
    BY <1>1
  <2>9. ASSUME NEW i \in 1..Len(Sets) PROVE Sets[i].data # NextBuffer
    <3>1. CASE Sets[i].data = External
      BY <2>2, <3>1
    <3>2. CASE Sets[i].data # External
      <4>1. PICK j \in 1..i : Sets[j].pooled /\ Sets[j].data = Sets[i].data
        BY <1>1, <3>2 DEF OwnersFirst
      <4>2. j \in DOMAIN Sets
        BY <1>1
      <4>3. Sets[i].data \in Owners(Sets)
        BY <4>1, <4>2 DEF Owners, Owned
      <4> QED BY <2>2, <4>3
    <3> QED BY <3>1, <3>2
  <2>10. ASSUME NEW i \in 1..Len(Sets) PROVE Sets'[i].intact
    <3>1. Sets'[i].intact = Sets[i].intact
      BY <2>4, <2>6, <2>9
    <3> QED BY <1>1, <3>1, Zenon DEF AllIntact
  <2>11. AllIntact(Sets')
    BY <2>3, <2>6, <2>7, <2>8, <2>10, Zenon DEF AllIntact
  <2>12. ASSUME NEW i \in 1..(Len(Sets) + 1), Sets'[i].data # External
         PROVE  \E j \in 1..i : Sets'[j].pooled /\ Sets'[j].data = Sets'[i].data
    <3>1. CASE i \in 1..Len(Sets)
      <4>1. PICK j \in 1..i : Sets[j].pooled /\ Sets[j].data = Sets[i].data
        BY <1>1, <2>4, <2>6, <2>12, <3>1 DEF OwnersFirst
      <4>2. j \in 1..Len(Sets)
        BY <1>1, <3>1
      <4>3. Sets'[j].pooled = Sets[j].pooled
        BY <2>4, <2>6, <4>2
      <4>4. Sets'[j].pooled
        BY <4>1, <4>3, Zenon
      <4> QED BY <2>4, <2>6, <3>1, <4>1, <4>2, <4>4
    <3>2. CASE i = Len(Sets) + 1
      <4>1. i \in 1..i
        BY <1>1, <3>2
      <4> QED BY <2>3, <2>6, <3>2, <4>1
    <3> QED BY <2>8, <3>1, <3>2
  <2> QED BY <2>7, <2>11, <2>12 DEF OwnersFirst
<1>4. CASE Unwinds
  <2>1. PICK n \in 0..Len(Sets) : Sets' = SubSeq(Sets, 1, n)
    BY <1>4 DEF Unwinds
  <2>2. /\ 0 \in 0..Len(Sets) /\ n \in 0..Len(Sets) /\ 0 + 1 = 1 /\ n - 0 = n
        /\ \A i \in 1..n : 0 + i = i
    BY <1>1
  <2>3. DOMAIN Sets' = 1..n /\ \A i \in 1..n : Sets'[i] = Sets[i] /\ i \in DOMAIN Sets
    <3>1. /\ DOMAIN SubSeq(Sets, 0 + 1, n) = 1..(n - 0)
          /\ \A k \in 1..(n - 0) : SubSeq(Sets, 0 + 1, n)[k] = Sets[0 + k] /\ 0 + k \in DOMAIN Sets
      BY ONLY <1>1, <2>2, PartFacts
    <3> QED BY <2>1, <2>2, <3>1
  <2>4. AllIntact(Sets')
    BY <2>3, Zenon DEF AllIntact
  <2>5. OwnersFirst(Sets')
    BY <1>1, <2>3, PrefixOwners
  <2> QED BY <2>4, <2>5
<1>5. CASE Binds
  <2>1. temps # << >> /\ Bind /\ Sets' = Kept(Sets, Len(scope), Len(Sets) - 1)
    BY <1>5 DEF Binds, Drops
  <2>2. Len(temps) \in 1..Len(temps)
    BY <1>1, <2>1, LastFacts
  <2> DEFINE n == Len(scope)
             d == (Len(Sets) - 1) - n
  <2>3. /\ n \in 0..Len(Sets) /\ Len(Sets) - 1 \in n..Len(Sets)
        /\ Len(Sets) - d = n + 1 /\ (n + 1) + d = Len(Sets) /\ n + 1 \in (n + 1)..(n + 1)
        /\ d \in Int /\ \A i \in 1..(n + 1) : i \in 1..n \/ i = n + 1
    BY <1>1, <2>2
  <2>4. /\ DOMAIN Sets' = 1..(Len(Sets) - d)
        /\ \A k \in 1..n : Sets'[k] = Sets[k]
        /\ \A k \in (n + 1)..(Len(Sets) - d) : Sets'[k] = Sets[k + d]
    <3> DEFINE m == Len(Sets) - 1
    <3>1. /\ Sets \in Seq(VSet(exist)) /\ n \in 0..Len(Sets) /\ m \in n..Len(Sets)
          /\ Sets' = Kept(Sets, n, m) /\ d = m - n
      BY <1>1, <2>1, <2>3
    <3> HIDE DEF n, d, m
    <3> QED BY ONLY <3>1, KeptFacts
  <2>5. /\ DOMAIN Sets' = 1..(n + 1) /\ \A k \in 1..n : Sets'[k] = Sets[k]
        /\ Sets'[n + 1] = Sets[Len(Sets)]
    BY <2>3, <2>4
  <2>6. Len(Sets) \in DOMAIN Sets /\ Sets[Len(Sets)] = temps[Len(temps)]
    BY <1>1, <2>2, Typing
  <2>7. \A k \in 1..n : k \in DOMAIN Sets
    BY <1>1, <2>3
  <2> HIDE DEF n, d
  <2>8. AllIntact(Sets')
    <3>1. Sets'[n + 1].intact
      BY <2>5, <2>6, Zenon DEF AllIntact
    <3>2. \A k \in 1..n : Sets'[k].intact
      BY <2>5, <2>7, Zenon DEF AllIntact
    <3> QED BY <2>3, <2>5, <3>1, <3>2, Zenon DEF AllIntact
  <2>9. Sets'[n + 1].data = External \/ Sets'[n + 1].pooled
    <3>1. /\ depth > 0 /\ Len(temps) = depth + 1 /\ temps[1].data = External
      BY <2>1 DEF Bind
    <3>2. CASE depth >= 2
      <4>1. Len(temps) \in 2..Len(temps)
        BY <1>1, <3>1
      <4>2. temps[Len(temps)].pooled
        BY <3>2, <4>1 DEF ChainInv
      <4> QED BY <2>5, <2>6, <4>2
    <3>3. CASE depth = 1
      <4>1. Len(temps) = 2 /\ 2 \in 2..Len(temps) /\ 2 - 1 = 1
        BY <3>1, <3>3
      <4>2. temps[2].pooled \/ temps[2].data = External
        BY <3>1, <4>1 DEF ChainInv
      <4> QED BY <2>5, <2>6, <4>1, <4>2
    <3>4. depth >= 2 \/ depth = 1
      BY <1>1, <3>1
    <3> QED BY <3>2, <3>3, <3>4
  <2>10. ASSUME NEW i \in 1..(n + 1), Sets'[i].data # External
         PROVE  \E j \in 1..i : Sets'[j].pooled /\ Sets'[j].data = Sets'[i].data
    <3>1. CASE i \in 1..n
      <4>1. PICK j \in 1..i : Sets[j].pooled /\ Sets[j].data = Sets[i].data
        BY <2>5, <2>7, <2>10, <3>1 DEF OwnersFirst
      <4>2. j \in 1..n
        BY <2>3, <3>1
      <4> QED BY <2>5, <3>1, <4>1, <4>2
    <3>2. CASE i = n + 1
      <4>1. i \in 1..i
        BY <1>1, <2>3, <3>2
      <4> QED BY <2>9, <2>10, <3>2, <4>1
    <3> QED BY <2>3, <3>1, <3>2
  <2> QED BY <2>5, <2>8, <2>10 DEF OwnersFirst
<1>6. CASE Stays
  BY <1>6 DEF Stays
<1> QED BY <1>2, <1>3, <1>4, <1>5, <1>6

\* The inductive invariant of views, on top of that of buffers.
LEMMA ViewsInvariance ==
  ASSUME ChainsSubtract
  PROVE  Spec => []ViewsInv
<1>1. Init => ViewsInv
  <2> SUFFICES ASSUME Init PROVE ViewsInv
    OBVIOUS
  <2>1. temps = << >> /\ Sets = << >>
    BY ConcatEmptySeq, EmptySeq DEF Init, Sets
  <2>2. Len(temps) = 0 /\ 2..0 = {} /\ DOMAIN Sets = {}
    BY <2>1
  <2> QED BY <2>2 DEF ViewsInv, ChainInv, ViewsOutlived, KeepsElements
<1>2. TypeOK /\ OwnedOnce /\ ViewsInv /\ [Next]_vars => ViewsInv'
  <2> SUFFICES ASSUME TypeOK, OwnedOnce, ViewsInv, [Next]_vars PROVE ViewsInv'
    OBVIOUS
  <2>1. ChainInv /\ OwnersFirst(Sets) /\ AllIntact(Sets)
    BY DEF ViewsInv, ViewsOutlived, KeepsElements, OwnersFirst, AllIntact
  <2>2. CASE Next
    <3>1. ChainInv'
      BY <2>1, <2>2, ChainStep
    <3>2. OwnersFirst(Sets') /\ AllIntact(Sets')
      BY <2>1, <2>2, StepMeans, ViewsStep
    <3> QED BY <3>1, <3>2 DEF ViewsInv, ViewsOutlived, KeepsElements, OwnersFirst, AllIntact
  <2>3. CASE UNCHANGED vars
    BY <2>3 DEF vars, ViewsInv, ChainInv, ViewsOutlived, KeepsElements, Sets
  <2> QED BY <2>2, <2>3
<1> QED BY <1>1, <1>2, OwnedInvariance, PTL DEF Spec

\* If only subtractions are chained from the third loop on, the set that owns a buffer
\* is declared before every view of it, in the same body or outside, and outlives it.
THEOREM OwnersOutliveViews ==
  ASSUME ChainsSubtract
  PROVE  Spec => []ViewsOutlived
<1>1. ViewsInv => ViewsOutlived
  BY DEF ViewsInv
<1> QED BY <1>1, ViewsInvariance, PTL

\* Under the same condition no set loses its elements while it is in scope: a buffer
\* that is handed out again is one to which no set points.
THEOREM SetsKeepTheirElements ==
  ASSUME ChainsSubtract
  PROVE  Spec => []KeepsElements
<1>1. ViewsInv => KeepsElements
  BY DEF ViewsInv
<1> QED BY <1>1, ViewsInvariance, PTL
=============================================================================
