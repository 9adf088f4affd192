-------------------------- MODULE MiniGraphRows_proofs --------------------------
(***************************************************************************)
(* The rows of two mini graphs for every data graph, all arguments of the  *)
(* builds and every order of building and use.  No row needs more space    *)
(* than the buffer was made to hold.  If no mini graph that is built from  *)
(* the data graph under the cost model shares the begin of its sets, every *)
(* row is the one promised and stays once it has been handed out.          *)
(***************************************************************************)
EXTENDS MiniGraphRows, SequenceTheorems, FiniteSetTheorems, TLAPS

Row == [mode : {"pruned", "deferred", "unpruned", "unset"},
        pos : Nat \union {Unset}, len : Nat]
Buffers == [Positions -> Ids \union {Junk}]

\* The vertices of a mini graph built with arguments a, and the pruned row of one.
Order(a) == Ascending(a.vertex)
Part(a, v) == {x \in Adj[v] \intersect a.intersect : a.bounded => x < v}
Size(a, v) == Cardinality(Part(a, v))

\* The rows that have a place in the buffer, now or later.
Packs(row) == row.mode \in {"pruned", "deferred"}
End(a, r, i) == r[i].pos + Size(a, Order(a)[i])

(***************************************************************************)
(* Invariants.                                                             *)
(***************************************************************************)
\* Rows are handled one vertex after the other, those of "inner" after "outer".
InTurn ==
  /\ \A m \in MiniGraphs : Len(rows[m]) <= Cardinality(args[m].vertex)
  /\ rows["inner"] # << >> => Built("outer")

\* A pruned row of "outer" is as long as the part of the neighbourhood it holds.
OuterLens ==
  \A i \in DOMAIN rows["outer"] :
    rows["outer"][i].mode = "pruned" =>
      rows["outer"][i].len = Size(args["outer"], Order(args["outer"])[i])

\* The builds are those of a plan.
Planned ==
  args["outer"] \in Outers /\ args["inner"] \in Inners /\ Compatible(args["outer"], args["inner"])

SpaceInv == TypeOK /\ Planned /\ InTurn /\ OuterLens /\ WithinReserved

\* The elements of l cells.
Cells(c, pos, l) == {c[k] : k \in pos..(pos + l - 1)}
SameCells(c, d, pos, l) == \A k \in pos..(pos + l - 1) : d[k] = c[k]

\* The rows follow each other in the buffer, and fit into it.
Laid(a, r, u) ==
  /\ u \in Nat /\ u <= Len(r) * Cardinality(Ids)
  /\ \A i \in DOMAIN r : r[i].mode # "unset"
  /\ \A i \in DOMAIN r : Packs(r[i]) => r[i].pos \in Nat /\ End(a, r, i) <= u
  /\ \A i, j \in DOMAIN r : i < j /\ Packs(r[i]) /\ Packs(r[j]) => End(a, r, i) <= r[j].pos

\* A pruned row holds its part of the neighbourhood.
Filled(a, r, c) ==
  \A i \in DOMAIN r : r[i].mode = "pruned" =>
    /\ r[i].len = Size(a, Order(a)[i])
    /\ Cells(c, r[i].pos, r[i].len) = Part(a, Order(a)[i])

\* The rows of one mini graph.
Sound(a, r, u, c) == Laid(a, r, u) /\ Filled(a, r, c)

RowsInv == \A m \in MiniGraphs : Sound(args[m], rows[m], used[m], cells[m])

\* No build from the data graph under the cost model has sets with a shared begin.
NoSharedCostModel == \A arg \in Outers : arg.policy = "CostModel" => ~arg.shared


(***************************************************************************)
(* Sets of vertices.                                                       *)
(***************************************************************************)
\* Ascending lists every member of a finite set of numbers once.
LEMMA AscendingFacts ==
  ASSUME NEW T \in SUBSET Nat, IsFiniteSet(T)
  PROVE  /\ Cardinality(T) \in Nat /\ DOMAIN Ascending(T) = 1..Cardinality(T)
         /\ \A k \in 1..Cardinality(T) : Ascending(T)[k] \in T
         /\ \A x \in T : \E k \in 1..Cardinality(T) : Ascending(T)[k] = x
<1> DEFINE n == Cardinality(T)
           Low(i) == {j \in T : j <= i}
           place == [i \in T |-> Cardinality(Low(i))]
<1>1. n \in Nat
  BY FS_CardinalityType
<1>2. ASSUME NEW i \in T PROVE IsFiniteSet(Low(i)) /\ Cardinality(Low(i)) \in 1..n
  <2>1. Low(i) \in SUBSET T /\ i \in Low(i)
    OBVIOUS
  <2>2. IsFiniteSet(Low(i)) /\ Cardinality(Low(i)) <= n
    BY <2>1, FS_Subset
  <2>3. Cardinality(Low(i)) \in Nat /\ Cardinality(Low(i)) # 0
    BY <2>1, <2>2, FS_CardinalityType, FS_EmptySet
  <2> HIDE DEF Low, n
  <2> QED BY <1>1, <2>2, <2>3
<1>3. ASSUME NEW i \in T, NEW k \in T, i < k PROVE Cardinality(Low(i)) # Cardinality(Low(k))
  <2>1. i \in Nat /\ k \in Nat /\ \A j \in T : j \in Nat
    OBVIOUS
  <2>2. \A j \in T : j <= i => j <= k
    BY <1>3, <2>1
  <2>3. k <= k /\ ~(k <= i)
    BY <1>3, <2>1
  <2>4. Low(i) \in SUBSET Low(k) /\ k \in Low(k) /\ k \notin Low(i)
    BY <2>2, <2>3
  <2> QED BY <1>2, <2>4, FS_Subset
<1>4. ASSUME NEW i \in T, NEW k \in T, Cardinality(Low(i)) = Cardinality(Low(k)) PROVE i = k
  <2>1. i < k \/ k < i \/ i = k
    OBVIOUS
  <2> QED BY <1>3, <1>4, <2>1
<1> HIDE DEF Low, n
<1>5. place \in Injection(T, 1..n)
  BY <1>2, <1>4 DEF Injection, IsInjective
<1>6. IsFiniteSet(1..n) /\ Cardinality(1..n) = n
  BY <1>1, FS_Interval
<1>7. place \in Surjection(T, 1..n)
  BY <1>5, <1>6, FS_Injection DEF n
<1>8. \A k \in 1..n : \E i \in T : Cardinality(Low(i)) = k
  BY <1>7 DEF Surjection
<1> DEFINE At(k) == CHOOSE x \in T : Cardinality(Low(x)) = k
<1>9. Ascending(T) = [k \in 1..n |-> At(k)]
  BY DEF Ascending, Low, n
<1>10. \A k \in 1..n : At(k) \in T /\ Cardinality(Low(At(k))) = k
  BY <1>8
<1>11. ASSUME NEW x \in T PROVE Cardinality(Low(x)) \in 1..n /\ At(Cardinality(Low(x))) = x
  BY <1>2, <1>4, <1>10
<1> HIDE DEF At
<1>12. \A x \in T : \E k \in 1..n : Ascending(T)[k] = x
  BY <1>9, <1>11
<1> QED BY <1>1, <1>9, <1>10, <1>12 DEF n

\* The arguments of a build are sets of vertices.
LEMMA ArgumentFacts ==
  ASSUME NEW a \in Arguments
  PROVE  /\ a.vertex \in SUBSET Nat /\ IsFiniteSet(a.vertex) /\ a.vertex \subseteq Ids
         /\ a.intersect \subseteq Ids /\ IsFiniteSet(a.intersect)
         /\ Cardinality(a.intersect) \in Nat /\ Cardinality(a.vertex) \in Nat
         /\ Cardinality(Ids) \in Nat /\ Cardinality(a.intersect) <= Cardinality(Ids)
         /\ Cardinality(a.vertex) <= Cardinality(Ids)
<1>1. /\ a.vertex \in SUBSET Ids /\ a.intersect \in SUBSET Ids
      /\ Ids \subseteq Nat /\ IsFiniteSet(Ids)
  BY RowsAssumption DEF Arguments
<1>2. IsFiniteSet(a.vertex) /\ IsFiniteSet(a.intersect)
      /\ Cardinality(a.intersect) <= Cardinality(Ids)
      /\ Cardinality(a.vertex) <= Cardinality(Ids)
  BY <1>1, FS_Subset
<1> QED BY <1>1, <1>2, FS_CardinalityType

\* The vertices of the rows.
LEMMA OrderFacts ==
  ASSUME NEW a \in Arguments
  PROVE  /\ DOMAIN Order(a) = 1..Cardinality(a.vertex)
         /\ \A i \in 1..Cardinality(a.vertex) : Order(a)[i] \in a.vertex /\ Order(a)[i] \in Ids
         /\ \A v \in a.vertex : \E i \in 1..Cardinality(a.vertex) : Order(a)[i] = v
BY ArgumentFacts, AscendingFacts DEF Order

\* What of a neighbourhood a pruned row may hold.
LEMMA SubsetFacts ==
  ASSUME NEW a \in Arguments, NEW set \in SUBSET a.intersect
  PROVE  /\ set \in SUBSET Nat /\ IsFiniteSet(set) /\ set \subseteq Ids
         /\ Cardinality(set) \in Nat /\ Cardinality(set) <= Cardinality(a.intersect)
         /\ Cardinality(set) <= Cardinality(Ids)
<1>1. a.intersect \in SUBSET Ids /\ Ids \subseteq Nat /\ IsFiniteSet(a.intersect)
      /\ IsFiniteSet(Ids)
  BY RowsAssumption, ArgumentFacts
<1>2. set \in SUBSET Ids
  BY <1>1
<1> QED BY <1>1, <1>2, FS_Subset, FS_CardinalityType

(***************************************************************************)
(* Writing a row.                                                          *)
(***************************************************************************)
Region(pos, set) == pos..(pos + Cardinality(set) - 1)
Over(c, pos, set) ==
  [k \in DOMAIN c |-> IF k \in Region(pos, set) THEN Ascending(set)[k - pos + 1] ELSE c[k]]

\* The cells of a region are those written, the others stay.
LEMMA OverFacts ==
  ASSUME NEW a \in Arguments, NEW set \in SUBSET a.intersect, NEW c \in Buffers, NEW pos \in Int
  PROVE  /\ Over(c, pos, set) \in Buffers
         /\ \A k \in Positions \ Region(pos, set) : Over(c, pos, set)[k] = c[k]
         /\ Region(pos, set) \subseteq Positions =>
              Cells(Over(c, pos, set), pos, Cardinality(set)) = set
<1> DEFINE d == Over(c, pos, set)
           n == Cardinality(set)
<1>1. set \in SUBSET Nat /\ IsFiniteSet(set) /\ set \subseteq Ids /\ n \in Nat
  BY SubsetFacts
<1>2. /\ \A k \in 1..n : Ascending(set)[k] \in set
      /\ \A x \in set : \E k \in 1..n : Ascending(set)[k] = x
  BY <1>1, AscendingFacts
<1>3. c \in [Positions -> Ids \union {Junk}] /\ DOMAIN c = Positions
  BY DEF Buffers
<1>4. \A k \in Region(pos, set) : k - pos + 1 \in 1..n
  BY <1>1 DEF Region
<1>5. d = [k \in Positions |-> IF k \in Region(pos, set) THEN Ascending(set)[k - pos + 1]
                                                          ELSE c[k]]
  BY <1>3 DEF Over
<1> HIDE DEF d, n
<1>6. \A k \in Region(pos, set) : Ascending(set)[k - pos + 1] \in set
  BY <1>2, <1>4
<1>7. d \in Buffers
  <2> SUFFICES ASSUME NEW k \in Positions PROVE d[k] \in Ids \union {Junk}
    BY <1>5 DEF Buffers
  <2> QED BY <1>1, <1>3, <1>5, <1>6
<1>8. ASSUME Region(pos, set) \subseteq Positions
      PROVE  {d[k] : k \in Region(pos, set)} = set
  <2>1. \A k \in Region(pos, set) : d[k] = Ascending(set)[k - pos + 1]
    BY <1>5, <1>8
  <2>2. ASSUME NEW x \in set PROVE \E k \in Region(pos, set) : d[k] = x
    <3>1. PICK j \in 1..n : Ascending(set)[j] = x
      BY <1>2
    <3>2. pos + j - 1 \in Region(pos, set) /\ pos + j - 1 - pos + 1 = j
      BY <1>1 DEF Region, n
    <3> QED BY <2>1, <3>1, <3>2
  <2> QED BY <1>6, <2>1, <2>2
<1> QED BY <1>5, <1>7, <1>8 DEF d, Cells, Region

\* A row that has been pruned stays where it is and as it is.
Stays(r, s, c, d) ==
  \A i \in DOMAIN r : r[i].mode = "pruned" =>
    /\ i \in DOMAIN s /\ s[i] = r[i]
    /\ SameCells(c, d, r[i].pos, r[i].len)

\* The sizes of the rows of a mini graph.
LEMMA PartFacts ==
  ASSUME NEW a \in Arguments, NEW v
  PROVE  /\ Part(a, v) \in SUBSET a.intersect /\ Size(a, v) \in Nat
         /\ Size(a, v) <= Cardinality(a.intersect) /\ Size(a, v) <= Cardinality(Ids)
<1>1. Part(a, v) \in SUBSET a.intersect
  BY DEF Part
<1> QED BY <1>1, SubsetFacts DEF Size

\* What is laid out fits into the buffer.
LEMMA RoomFacts ==
  ASSUME NEW n \in Nat, NEW l \in 0..n, NEW u \in Nat, u <= l * n
  PROVE  u <= n * n /\ \A s \in 0..n : u + s <= (l + 1) * n
<1>1. l * n <= n * n
  <2>1. \A x, y, z \in Nat : x <= y => x * z <= y * z
    OBVIOUS
  <2> QED BY <2>1
<1>2. l * n \in Nat /\ n * n \in Nat /\ (l + 1) * n = l * n + n
  OBVIOUS
<1> QED BY <1>1, <1>2

\* Where the rows are.
LEMMA PlaceFacts ==
  ASSUME NEW a \in Arguments, NEW r \in Seq(Row), Len(r) <= Cardinality(a.vertex), NEW u,
         Laid(a, r, u)
  PROVE  /\ u \in Nat /\ u <= Cardinality(Ids) * Cardinality(Ids)
         /\ \A s \in 0..Cardinality(Ids) : u + s <= (Len(r) + 1) * Cardinality(Ids)
         /\ \A i \in DOMAIN r : Packs(r[i]) =>
              Region(r[i].pos, Part(a, Order(a)[i])) \subseteq Positions
<1> DEFINE n == Cardinality(Ids)
<1>1. n \in Nat /\ Cardinality(a.vertex) <= n /\ Cardinality(a.vertex) \in Nat /\ Len(r) \in Nat
  BY ArgumentFacts, LenProperties
<1>2. u \in Nat /\ u <= Len(r) * n
  BY DEF Laid
<1> HIDE DEF n
<1>3. Len(r) \in 0..n
  BY <1>1
<1>4. u <= n * n /\ \A s \in 0..n : u + s <= (Len(r) + 1) * n
  BY ONLY <1>1, <1>2, <1>3, RoomFacts
<1>5. n * n \in Nat
  BY <1>1
<1>6. ASSUME NEW i \in DOMAIN r, Packs(r[i])
      PROVE  Region(r[i].pos, Part(a, Order(a)[i])) \subseteq 0..(n * n)
  <2>1. Size(a, Order(a)[i]) \in Nat
    BY PartFacts
  <2>2. r[i].pos \in Nat /\ r[i].pos + Size(a, Order(a)[i]) <= u
    BY <1>6 DEF Laid, End
  <2> DEFINE p == r[i].pos
             s == Size(a, Order(a)[i])
             top == n * n
  <2> HIDE DEF p, s, top
  <2>3. p..(p + s - 1) \subseteq 0..top
    BY <1>2, <1>4, <1>5, <2>1, <2>2 DEF p, s, top
  <2> QED BY <2>3 DEF Region, Size, p, s, top
<1> QED BY <1>2, <1>4, <1>6 DEF n, Positions

\* Writing beside a region leaves it alone.
LEMMA BesideFacts ==
  ASSUME NEW a \in Arguments, NEW set \in SUBSET a.intersect, NEW c \in Buffers,
         NEW pos \in Nat, NEW lo \in Nat, NEW l \in Nat, lo..(lo + l - 1) \subseteq Positions,
         lo + l <= pos \/ pos + Cardinality(set) <= lo
  PROVE  SameCells(c, Over(c, pos, set), lo, l)
<1>1. Cardinality(set) \in Nat
  BY SubsetFacts
<1>2. \A k \in lo..(lo + l - 1) : k \notin Region(pos, set)
  BY <1>1 DEF Region
<1> QED BY <1>2, OverFacts DEF SameCells

\* Pruning a deferred row.
LEMMA PruneSound ==
  ASSUME NEW a \in Arguments, NEW r \in Seq(Row), Len(r) <= Cardinality(a.vertex), NEW u,
         NEW c \in Buffers, Sound(a, r, u, c), NEW i \in DOMAIN r, r[i].mode = "deferred"
  PROVE  LET set == Part(a, Order(a)[i])
             s == [r EXCEPT ![i] = Pruned(r[i].pos, set)]
             d == Over(c, r[i].pos, set)
         IN  Sound(a, s, u, d) /\ Stays(r, s, c, d)
<1> DEFINE set == Part(a, Order(a)[i])
           pos == r[i].pos
           s == [r EXCEPT ![i] = Pruned(pos, set)]
           d == Over(c, pos, set)
<1>1. /\ Len(r) \in Nat /\ DOMAIN r = 1..Len(r)
      /\ \A j \in DOMAIN r : r[j] \in Row
  BY LenProperties, ElementOfSeq
<1>2. Laid(a, r, u) /\ Filled(a, r, c)
  BY DEF Sound
<1>3. Packs(r[i]) /\ set \in SUBSET a.intersect /\ Cardinality(set) = Size(a, Order(a)[i])
      /\ \A j \in DOMAIN r : Size(a, Order(a)[j]) \in Nat
  BY PartFacts DEF Packs, Size
<1>4. pos \in Nat /\ Region(pos, set) \subseteq Positions
  BY <1>2, <1>3, PlaceFacts DEF Laid
<1>5. Cells(d, pos, Cardinality(set)) = set
  <2>1. pos \in Int
    BY <1>4
  <2> HIDE DEF set, pos
  <2>2. Region(pos, set) \subseteq Positions =>
          Cells(Over(c, pos, set), pos, Cardinality(set)) = set
    BY ONLY <1>3, <2>1, OverFacts, a \in Arguments, c \in Buffers
  <2> QED BY <1>4, <2>2
<1>6. DOMAIN s = DOMAIN r /\ s[i] = Pruned(pos, set) /\ \A j \in DOMAIN r \ {i} : s[j] = r[j]
  OBVIOUS
<1>7. Pruned(pos, set).mode = "pruned" /\ Pruned(pos, set).pos = pos
      /\ Pruned(pos, set).len = Cardinality(set)
  BY DEF Pruned
<1>8. ASSUME NEW j \in DOMAIN r, r[j].mode = "pruned"
      PROVE  /\ j # i /\ s[j] = r[j]
             /\ SameCells(c, d, r[j].pos, r[j].len)
  <2>1. j # i /\ s[j] = r[j]
    BY <1>6, <1>8
  <2>2. Packs(r[j]) /\ r[j].len = Size(a, Order(a)[j]) /\ r[j].len \in Nat
    BY <1>2, <1>3, <1>8 DEF Packs, Filled
  <2>3. /\ r[j].pos \in Nat
        /\ r[j].pos..(r[j].pos + r[j].len - 1) \subseteq Positions
    BY <1>2, <2>2, PlaceFacts DEF Laid, Region, Size
  <2>4. i < j \/ j < i
    BY <1>1, <2>1
  <2>5. r[j].pos + r[j].len <= pos \/ pos + Cardinality(set) <= r[j].pos
    BY <1>2, <1>3, <2>2, <2>4 DEF Laid, End
  <2>6. SameCells(c, d, r[j].pos, r[j].len)
    <3> DEFINE lo == r[j].pos
               l == r[j].len
    <3> HIDE DEF lo, l, set, pos
    <3>1. lo \in Nat /\ l \in Nat /\ lo..(lo + l - 1) \subseteq Positions
          /\ (lo + l <= pos \/ pos + Cardinality(set) <= lo)
      BY <2>2, <2>3, <2>5 DEF lo, l
    <3>2. SameCells(c, Over(c, pos, set), lo, l)
      BY ONLY <1>3, <1>4, <3>1, BesideFacts, a \in Arguments, c \in Buffers
    <3> QED BY <3>2 DEF lo, l
  <2> QED BY <2>1, <2>6
<1> HIDE DEF set, pos, s, d
<1>9. Stays(r, s, c, d)
  BY <1>6, <1>8 DEF Stays
<1>10. Filled(a, s, d)
  <2> SUFFICES ASSUME NEW j \in DOMAIN r, s[j].mode = "pruned"
               PROVE  /\ s[j].len = Size(a, Order(a)[j])
                      /\ Cells(d, s[j].pos, s[j].len) = Part(a, Order(a)[j])
    BY <1>6 DEF Filled
  <2>1. CASE j = i
    BY <1>3, <1>5, <1>6, <1>7, <2>1 DEF set
  <2>2. CASE j # i
    <3>1. s[j] = r[j] /\ r[j].mode = "pruned"
      BY <1>6, <2>2
    <3>2. SameCells(c, d, r[j].pos, r[j].len)
      BY <1>8, <3>1
    <3>3. /\ r[j].len = Size(a, Order(a)[j])
          /\ Cells(c, r[j].pos, r[j].len) = Part(a, Order(a)[j])
      BY <1>2, <3>1 DEF Filled
    <3> QED BY <3>1, <3>2, <3>3 DEF Cells, SameCells
  <2> QED BY <2>1, <2>2
<1>11. Laid(a, s, u)
  <2>1. \A j \in DOMAIN r : s[j].pos = r[j].pos /\ (Packs(s[j]) <=> Packs(r[j]))
                              /\ (s[j].mode = "unset" <=> r[j].mode = "unset")
    BY <1>3, <1>6, <1>7 DEF Packs, pos
  <2>2. \A j \in DOMAIN r : End(a, s, j) = End(a, r, j)
    BY <2>1 DEF End
  <2>3. Len(s) = Len(r)
    BY <1>1, <1>6 DEF s
  <2> QED BY <1>2, <1>6, <2>1, <2>2, <2>3 DEF Laid
<1> QED BY <1>9, <1>10, <1>11 DEF Sound, set, pos, s, d

\* Building the next row.
LEMMA GrowSound ==
  ASSUME NEW a \in Arguments, NEW r \in Seq(Row), Len(r) < Cardinality(a.vertex), NEW u,
         NEW c \in Buffers, Sound(a, r, u, c),
         NEW mode \in {"pruned", "deferred", "unpruned"}, NEW space \in 0..Cardinality(Ids),
         mode # "unpruned" => Size(a, Order(a)[Len(r) + 1]) <= space
  PROVE  LET set == Part(a, Order(a)[Len(r) + 1])
             row == IF mode = "pruned" THEN Pruned(u, set)
                                       ELSE [mode |-> mode, pos |-> u, len |-> 0]
             d == IF mode = "pruned" THEN Over(c, u, set) ELSE c
         IN  Sound(a, Append(r, row), u + space, d) /\ Stays(r, Append(r, row), c, d)
<1> DEFINE top == Len(r) + 1
           set == Part(a, Order(a)[top])
           row == IF mode = "pruned" THEN Pruned(u, set)
                                     ELSE [mode |-> mode, pos |-> u, len |-> 0]
           s == Append(r, row)
           d == IF mode = "pruned" THEN Over(c, u, set) ELSE c
           n == Cardinality(Ids)
<1>1. /\ Len(r) \in Nat /\ DOMAIN r = 1..Len(r) /\ Cardinality(a.vertex) \in Nat /\ n \in Nat
      /\ Len(r) <= Cardinality(a.vertex) /\ Cardinality(a.vertex) <= n
  BY LenProperties, ArgumentFacts
<1>2. Laid(a, r, u) /\ Filled(a, r, c)
  BY DEF Sound
<1>3. set \in SUBSET a.intersect /\ Cardinality(set) = Size(a, Order(a)[top])
      /\ Size(a, Order(a)[top]) \in Nat
      /\ \A j \in 1..Len(r) : Size(a, Order(a)[j]) \in Nat
  BY PartFacts DEF Size
<1>4. /\ u \in Nat /\ u + space <= top * n
      /\ \A i \in DOMAIN r : Packs(r[i]) =>
           Region(r[i].pos, Part(a, Order(a)[i])) \subseteq Positions
  BY <1>1, <1>2, PlaceFacts
<1>5. /\ row.pos = u /\ row.mode = mode
      /\ mode = "pruned" => row.len = Cardinality(set)
  BY DEF Pruned
<1>6. /\ Len(s) = top /\ DOMAIN s = 1..top
      /\ \A j \in 1..Len(r) : s[j] = r[j]
      /\ s[top] = row
  <2>1. r \in Seq(Row \union {row})
    BY <1>1, ElementOfSeq, SeqDef
  <2>2. /\ Append(r, row) \in Seq(Row \union {row}) /\ Len(Append(r, row)) = Len(r) + 1
        /\ \A i \in 1..Len(r) : Append(r, row)[i] = r[i]
        /\ Append(r, row)[Len(r) + 1] = row
    BY <2>1, AppendProperties
  <2> QED BY <1>1, <2>2, LenProperties
<1>7. 1..top = (1..Len(r)) \union {top} /\ top \in Nat
  BY <1>1
<1> HIDE DEF set, row, s, d, n, top
<1>8. ASSUME NEW j \in 1..Len(r), r[j].mode = "pruned"
      PROVE  SameCells(c, d, r[j].pos, r[j].len)
  <2>1. CASE mode = "pruned"
    <3>1. Packs(r[j]) /\ r[j].len = Size(a, Order(a)[j]) /\ r[j].len \in Nat
      BY <1>1, <1>2, <1>3, <1>8 DEF Packs, Filled
    <3>2. /\ r[j].pos \in Nat /\ r[j].pos + r[j].len <= u
          /\ r[j].pos..(r[j].pos + r[j].len - 1) \subseteq Positions
      BY <1>1, <1>2, <1>4, <3>1 DEF Laid, End, Region, Size
    <3> DEFINE lo == r[j].pos
               l == r[j].len
    <3> HIDE DEF lo, l
    <3>3. lo \in Nat /\ l \in Nat /\ lo..(lo + l - 1) \subseteq Positions /\ lo + l <= u
      BY <3>1, <3>2 DEF lo, l
    <3>4. SameCells(c, Over(c, u, set), lo, l)
      BY ONLY <1>3, <1>4, <3>3, BesideFacts, a \in Arguments, c \in Buffers
    <3> QED BY <2>1, <3>4 DEF lo, l, d
  <2>2. CASE mode # "pruned"
    BY <2>2 DEF d, SameCells
  <2> QED BY <2>1, <2>2
<1>9. Stays(r, s, c, d)
  BY <1>1, <1>6, <1>7, <1>8 DEF Stays
<1>10. ASSUME mode # "unpruned" PROVE u + Cardinality(set) <= u + space
  BY <1>3, <1>4, <1>10 DEF top
<1>11. ASSUME mode = "pruned" PROVE Cells(d, u, Cardinality(set)) = set
  <2>1. u + Cardinality(set) - 1 <= n * n
    <3>1. Len(r) \in 0..n /\ Len(r) + 1 <= n
      BY <1>1
    <3>2. \A x, y, z \in Nat : x <= y => x * z <= y * z
      OBVIOUS
    <3>3. top * n <= n * n /\ top * n \in Nat /\ n * n \in Nat
      BY <1>1, <3>1, <3>2 DEF top
    <3>4. Cardinality(set) \in Nat /\ Cardinality(set) <= space
      BY <1>3, <1>7, <1>11 DEF top
    <3> HIDE DEF Region
    <3> QED BY <1>4, <3>3, <3>4
  <2>2. Region(u, set) \subseteq Positions
    <3>1. Cardinality(set) \in Nat /\ n * n \in Nat
      BY <1>1, <1>3, <1>7
    <3> DEFINE p == n * n
               q == u + Cardinality(set) - 1
    <3>2. p \in Int /\ q \in Int /\ q <= p
      BY <1>4, <2>1, <3>1
    <3> HIDE DEF p, q
    <3>3. u..q \subseteq 0..p
      BY <1>4, <3>2
    <3> QED BY <3>3 DEF Region, Positions, p, q, n
  <2>3. Cells(Over(c, u, set), u, Cardinality(set)) = set
    <3>1. u \in Int
      BY <1>4
    <3>2. Region(u, set) \subseteq Positions =>
            Cells(Over(c, u, set), u, Cardinality(set)) = set
      BY ONLY <1>3, <3>1, OverFacts, a \in Arguments, c \in Buffers
    <3> QED BY <2>2, <3>2
  <2> QED BY <1>11, <2>3 DEF d
<1>12. Filled(a, s, d)
  <2> SUFFICES ASSUME NEW j \in 1..top, s[j].mode = "pruned"
               PROVE  /\ s[j].len = Size(a, Order(a)[j])
                      /\ Cells(d, s[j].pos, s[j].len) = Part(a, Order(a)[j])
    BY <1>6 DEF Filled
  <2>1. CASE j = top
    BY <1>3, <1>5, <1>6, <1>11, <2>1 DEF set
  <2>2. CASE j \in 1..Len(r)
    <3>1. s[j] = r[j] /\ r[j].mode = "pruned"
      BY <1>6, <2>2
    <3>2. SameCells(c, d, r[j].pos, r[j].len)
      BY <1>8, <2>2, <3>1
    <3>3. /\ r[j].len = Size(a, Order(a)[j])
          /\ Cells(c, r[j].pos, r[j].len) = Part(a, Order(a)[j])
      BY <1>1, <1>2, <2>2, <3>1 DEF Filled
    <3> QED BY <3>1, <3>2, <3>3 DEF Cells, SameCells
  <2> QED BY <1>7, <2>1, <2>2
<1>13. Laid(a, s, u + space)
  <2>1. /\ \A j \in 1..Len(r) : s[j] = r[j] /\ End(a, s, j) = End(a, r, j)
        /\ s[top].pos = u /\ s[top].mode = mode
    BY <1>5, <1>6 DEF End
  <2>2. mode # "unpruned" => End(a, s, top) <= u + space
    BY <1>3, <1>10, <2>1 DEF End
  <2>3. u + space \in Nat /\ u <= u + space
    BY <1>1, <1>4
  <2>4. ASSUME NEW j \in 1..top
        PROVE  s[j].mode # "unset"
               /\ (Packs(s[j]) => s[j].pos \in Nat /\ End(a, s, j) <= u + space)
    <3>1. CASE j = top
      BY <1>4, <2>1, <2>2, <3>1 DEF Packs
    <3>2. CASE j \in 1..Len(r)
      <4>1. /\ r[j].mode # "unset"
            /\ (Packs(r[j]) => r[j].pos \in Nat /\ End(a, r, j) <= u)
        BY <1>1, <1>2, <3>2 DEF Laid
      <4>2. Packs(r[j]) => End(a, r, j) \in Nat
        BY <1>3, <3>2, <4>1 DEF End
      <4> QED BY <1>4, <2>1, <2>3, <3>2, <4>1, <4>2
    <3> QED BY <1>7, <3>1, <3>2
  <2>5. ASSUME NEW i \in 1..top, NEW j \in 1..top, i < j, Packs(s[i]), Packs(s[j])
        PROVE  End(a, s, i) <= s[j].pos
    <3>1. i \in 1..Len(r)
      BY <1>1, <2>5 DEF top
    <3>2. s[i] = r[i] /\ End(a, s, i) = End(a, r, i)
      BY <2>1, <3>1
    <3>3. CASE j = top
      BY <1>1, <1>2, <2>1, <2>5, <3>1, <3>2, <3>3 DEF Laid
    <3>4. CASE j \in 1..Len(r)
      BY <1>1, <1>2, <2>1, <2>5, <3>1, <3>2, <3>4 DEF Laid
    <3> QED BY <1>7, <3>3, <3>4
  <2>6. u + space <= Len(s) * n
    BY <1>4, <1>6
  <2> QED BY <1>6, <2>3, <2>4, <2>5, <2>6 DEF Laid, n
<1> QED BY <1>9, <1>12, <1>13 DEF Sound, set, row, s, d, top

(***************************************************************************)
(* What a step does to one mini graph.                                     *)
(***************************************************************************)
\* The part of a row the source has for the vertex of row i.
Pruning(m, i) == Kept(m, Vertices(m)[i], Source(m, Vertices(m)[i]))

Same(m) ==
  rows'[m] = rows[m] /\ cells'[m] = cells[m] /\ used'[m] = used[m] /\ reserved'[m] = reserved[m]

Prunes(m, i) ==
  /\ rows[m][i].mode = "deferred"
  /\ rows'[m] = [rows[m] EXCEPT ![i] = Pruned(rows[m][i].pos, Pruning(m, i))]
  /\ cells'[m] = Over(cells[m], rows[m][i].pos, Pruning(m, i))
  /\ used'[m] = used[m] /\ reserved'[m] = reserved[m]

\* The next row is lost.
Loses(m) ==
  /\ rows'[m] = Append(rows[m], [mode |-> "unset", pos |-> Unset, len |-> 0])
  /\ cells'[m] = cells[m] /\ used'[m] = Unset /\ reserved'[m] = reserved[m]

\* The next row is built.
Grows(m, mode) ==
  LET i == Len(rows[m]) + 1
      v == Vertices(m)[i]
  IN /\ rows'[m] = Append(rows[m], IF mode = "pruned" THEN Pruned(used[m], Pruning(m, i))
                                   ELSE [mode |-> mode, pos |-> used[m], len |-> 0])
     /\ cells'[m] = IF mode = "pruned" THEN Over(cells[m], used[m], Pruning(m, i))
                                       ELSE cells[m]
     /\ used'[m] = used[m] + Space(m, v, mode, Pruning(m, i))
     /\ reserved'[m] = Max({reserved[m], used[m] + Demand(m, v, mode)})

Builds(m) ==
  /\ ~Built(m) /\ (m = "inner" => Built("outer"))
  /\ \E mode \in RowModes(m, Len(rows[m]) + 1) :
       \/ Loses(m) /\ (mode = "unset" \/ used[m] = Unset)
       \/ Grows(m, mode) /\ mode # "unset" /\ used[m] # Unset

\* The functions of the next state are functions of the mini graphs.
Total(f) == f = [m \in MiniGraphs |-> f[m]]
StaysTotal == Total(rows') /\ Total(cells') /\ Total(used') /\ Total(reserved')

\* The variables of one mini graph.
LEMMA StateFacts ==
  ASSUME TypeOK, NEW m \in MiniGraphs
  PROVE  /\ args[m] \in Arguments /\ rows[m] \in Seq(Row) /\ used[m] \in Nat \union {Unset}
         /\ reserved[m] \in Nat /\ cells[m] \in Buffers
         /\ Len(rows[m]) \in Nat /\ DOMAIN rows[m] = 1..Len(rows[m])
         /\ \A i \in DOMAIN rows[m] : /\ rows[m][i] \in Row
                                      /\ rows[m][i].len <= Cardinality(args[m].intersect)
         /\ Vertices(m) = Order(args[m])
         /\ \A v : Kept(m, v, Adj[v]) = Part(args[m], v)
         /\ \A v, set : Kept(m, v, set) \in SUBSET args[m].intersect
<1>1. /\ args[m] \in Arguments /\ rows[m] \in Seq(Row) /\ used[m] \in Nat \union {Unset}
      /\ reserved[m] \in Nat /\ cells[m] \in Buffers
      /\ \A i \in DOMAIN rows[m] : rows[m][i].len <= Cardinality(args[m].intersect)
  BY DEF TypeOK, Row, Buffers
<1>2. Len(rows[m]) \in Nat /\ DOMAIN rows[m] = 1..Len(rows[m])
      /\ \A i \in DOMAIN rows[m] : rows[m][i] \in Row
  BY <1>1, LenProperties, ElementOfSeq
<1> QED BY <1>1, <1>2 DEF Vertices, Order, Kept, Part

\* What reading the row of v leaves of "outer".
Left(v, after) ==
  LET i == IndexIn("outer", v)
  IN \/ after.rows = rows["outer"] /\ after.cells = cells["outer"]
     \/ /\ Defers("outer", i)
        /\ after.rows = [rows["outer"] EXCEPT ![i] = Pruned(rows["outer"][i].pos,
                                                            Kept("outer", v, Adj[v]))]
        /\ after.cells = Written("outer", rows["outer"][i].pos, Kept("outer", v, Adj[v]))

\* That is nothing or the pruned row.
LEMMA OuterAfterMeans ==
  ASSUME TypeOK, Built("outer"), NEW v \in args["outer"].vertex, NEW after, Left(v, after),
         rows'["outer"] = after.rows, cells'["outer"] = after.cells,
         used'["outer"] = used["outer"], reserved'["outer"] = reserved["outer"]
  PROVE  Same("outer") \/ \E i \in DOMAIN rows["outer"] : Prunes("outer", i)
<1> DEFINE i == IndexIn("outer", v)
<1>1. "outer" \in MiniGraphs
  BY DEF MiniGraphs
<1>2. args["outer"] \in Arguments /\ Vertices("outer") = Order(args["outer"])
      /\ DOMAIN rows["outer"] = 1..Len(rows["outer"])
  BY <1>1, StateFacts
<1>3. DOMAIN Vertices("outer") = DOMAIN rows["outer"]
  BY <1>2, OrderFacts DEF Built
<1>4. \E k \in DOMAIN Vertices("outer") : Vertices("outer")[k] = v
  <2> DEFINE a == args["outer"]
  <2>1. a \in Arguments /\ v \in a.vertex /\ Vertices("outer") = Order(a)
    BY <1>2
  <2> HIDE DEF a
  <2>2. DOMAIN Order(a) = 1..Cardinality(a.vertex)
        /\ \E k \in 1..Cardinality(a.vertex) : Order(a)[k] = v
    BY ONLY <2>1, OrderFacts
  <2> QED BY <2>1, <2>2
<1>5. i \in DOMAIN Vertices("outer") /\ Vertices("outer")[i] = v
  BY <1>4 DEF IndexIn
<1>6. Pruning("outer", i) = Kept("outer", v, Adj[v])
  BY <1>5 DEF Pruning, Source
<1> HIDE DEF i
<1>7. CASE after.rows = rows["outer"] /\ after.cells = cells["outer"]
  BY <1>7 DEF Same
<1>8. CASE /\ Defers("outer", i)
           /\ after.rows = [rows["outer"] EXCEPT ![i] = Pruned(rows["outer"][i].pos,
                                                               Kept("outer", v, Adj[v]))]
           /\ after.cells = Written("outer", rows["outer"][i].pos, Kept("outer", v, Adj[v]))
  <2>1. Prunes("outer", i)
    BY <1>6, <1>8 DEF Prunes, Defers, Written, Over, Region
  <2> QED BY <1>3, <1>5, <2>1
<1> QED BY <1>7, <1>8 DEF Left, i

\* Adding a row, whatever happens to the other mini graph.
LEMMA BuildRowMeans ==
  ASSUME TypeOK, NEW m \in MiniGraphs, NEW mode, BuildRow(m, mode), ~Built(m),
         m = "inner" => Built("outer")
  PROVE  Builds(m)
<1> DEFINE i == Len(rows[m]) + 1
           v == Vertices(m)[i]
           lost == mode = "unset" \/ used[m] = Unset
           kept == Pruning(m, i)
           row == IF lost THEN [mode |-> "unset", pos |-> Unset, len |-> 0]
                  ELSE IF mode = "pruned" THEN Pruned(used[m], kept)
                  ELSE [mode |-> mode, pos |-> used[m], len |-> 0]
           filled == IF row.mode = "pruned" THEN Written(m, used[m], kept) ELSE cells[m]
<1>1. m = "outer" \/ m = "inner"
  BY DEF MiniGraphs
<1>2. /\ DOMAIN rows = MiniGraphs /\ DOMAIN cells = MiniGraphs
      /\ DOMAIN used = MiniGraphs /\ DOMAIN reserved = MiniGraphs
  BY DEF TypeOK
<1>3. /\ mode \in RowModes(m, i)
      /\ rows' = IF m = "outer" THEN [rows EXCEPT !.outer = Append(@, row)]
                 ELSE [outer |-> OuterAfter(m = "inner" /\ mode = "pruned", v).rows,
                       inner |-> Append(rows.inner, row)]
      /\ cells' = IF m = "outer" THEN [cells EXCEPT !.outer = filled]
                  ELSE [outer |-> OuterAfter(m = "inner" /\ mode = "pruned", v).cells,
                        inner |-> filled]
      /\ used' = [used EXCEPT ![m] = IF lost THEN Unset ELSE @ + Space(m, v, mode, kept)]
      /\ reserved' =
           [reserved EXCEPT ![m] = IF lost THEN @ ELSE Max({@, used[m] + Demand(m, v, mode)})]
  BY Zenon DEF BuildRow, Pruning
<1> HIDE DEF i, v, lost, kept, row, filled
<1>4. rows'[m] = Append(rows[m], row) /\ cells'[m] = filled
  <2>1. CASE m = "outer"
    BY <1>2, <1>3, <2>1
  <2>2. CASE m = "inner"
    BY <1>2, <1>3, <2>2
  <2> QED BY <1>1, <2>1, <2>2
<1>5. /\ used'[m] = IF lost THEN Unset ELSE used[m] + Space(m, v, mode, kept)
      /\ reserved'[m] = IF lost THEN reserved[m]
                        ELSE Max({reserved[m], used[m] + Demand(m, v, mode)})
  BY <1>2, <1>3
<1>6. CASE lost
  <2>1. row = [mode |-> "unset", pos |-> Unset, len |-> 0] /\ filled = cells[m]
    BY <1>6 DEF row, filled
  <2>2. Loses(m)
    BY <1>4, <1>5, <1>6, <2>1 DEF Loses
  <2> QED BY <1>3, <1>6, <2>2 DEF Builds, lost, i
<1>7. CASE ~lost
  <2>1. row = IF mode = "pruned" THEN Pruned(used[m], kept)
              ELSE [mode |-> mode, pos |-> used[m], len |-> 0]
    BY <1>7 DEF row
  <2>2. row.mode = mode
    BY <2>1 DEF Pruned
  <2>3. filled = IF mode = "pruned" THEN Over(cells[m], used[m], kept) ELSE cells[m]
    BY <2>2 DEF filled, Written, Over, Region
  <2>4. Grows(m, mode)
    BY <1>4, <1>5, <1>7, <2>1, <2>3 DEF Grows, i, v, kept
  <2> QED BY <1>3, <1>7, <2>4 DEF Builds, lost, i
<1> QED BY <1>6, <1>7

\* Every step builds or prunes at most one row of each mini graph.
LEMMA StepMeans ==
  ASSUME TypeOK, Planned, InTurn, Next
  PROVE  /\ args' = args /\ StaysTotal
         /\ \A m \in MiniGraphs :
              Same(m) \/ Builds(m) \/ \E i \in DOMAIN rows[m] : Prunes(m, i)
<1> DEFINE Moves(m) == Same(m) \/ Builds(m) \/ \E i \in DOMAIN rows[m] : Prunes(m, i)
<1>1. MiniGraphs = {"outer", "inner"}
  BY DEF MiniGraphs
<1>2. /\ DOMAIN rows = MiniGraphs /\ DOMAIN cells = MiniGraphs
      /\ DOMAIN used = MiniGraphs /\ DOMAIN reserved = MiniGraphs
      /\ Total(rows) /\ Total(cells) /\ Total(used) /\ Total(reserved)
  BY DEF TypeOK, Total
<1>3. args["inner"].vertex \subseteq args["outer"].vertex
      /\ args["outer"] \in Arguments /\ args["inner"] \in Arguments
  BY <1>1, StateFacts DEF Planned, Compatible
<1>4. ASSUME NEW m \in MiniGraphs, NEW i \in 1..Cardinality(args[m].vertex)
      PROVE  Vertices(m)[i] \in args[m].vertex /\ Vertices(m)[i] \in args["outer"].vertex
  <2>1. Vertices(m) = Order(args[m]) /\ args[m] \in Arguments
    BY StateFacts
  <2>2. Order(args[m])[i] \in args[m].vertex
    BY <2>1, OrderFacts
  <2> QED BY <1>1, <1>3, <2>1, <2>2
<1>5. ASSUME BuildOuter
      PROVE  args' = args /\ StaysTotal /\ Builds("outer") /\ Same("inner")
  <2>1. PICK mode : ~Built("outer") /\ BuildRow("outer", mode)
    BY <1>5 DEF BuildOuter
  <2>2. Builds("outer")
    BY <1>1, <2>1, BuildRowMeans
  <2>3. args' = args /\ StaysTotal /\ Same("inner")
    <3>1. /\ args' = args
          /\ \E x : rows' = [rows EXCEPT !.outer = x]
          /\ \E x : cells' = [cells EXCEPT !.outer = x]
          /\ \E x : used' = [used EXCEPT !["outer"] = x]
          /\ \E x : reserved' = [reserved EXCEPT !["outer"] = x]
      BY <2>1, Zenon DEF BuildRow
    <3> QED BY <1>1, <1>2, <3>1 DEF Same, StaysTotal, Total
  <2> QED BY <2>2, <2>3
<1>6. ASSUME NEW rowsOut, NEW cellsOut, NEW rowsIn, NEW cellsIn,
             rows' = [outer |-> rowsOut, inner |-> rowsIn],
             cells' = [outer |-> cellsOut, inner |-> cellsIn]
      PROVE  Total(rows') /\ Total(cells') /\ rows'["outer"] = rowsOut /\ rows'["inner"] = rowsIn
             /\ cells'["outer"] = cellsOut /\ cells'["inner"] = cellsIn
  BY <1>1, <1>6 DEF Total
<1>7. ASSUME BuildInner
      PROVE  args' = args /\ StaysTotal /\ Builds("inner") /\ Moves("outer")
  <2>1. PICK mode : Built("outer") /\ ~Built("inner") /\ BuildRow("inner", mode)
    BY <1>7 DEF BuildInner
  <2>2. Builds("inner")
    BY <1>1, <2>1, BuildRowMeans
  <2> DEFINE v == Vertices("inner")[Len(rows["inner"]) + 1]
             after == OuterAfter("inner" = "inner" /\ mode = "pruned", v)
  <2>3. v \in args["outer"].vertex
    <3>1. Len(rows["inner"]) \in Nat /\ Len(rows["inner"]) <= Cardinality(args["inner"].vertex)
          /\ Len(rows["inner"]) # Cardinality(args["inner"].vertex)
          /\ Cardinality(args["inner"].vertex) \in Nat
      BY <1>1, <1>3, <2>1, StateFacts, ArgumentFacts DEF InTurn, Built
    <3>2. Len(rows["inner"]) + 1 \in 1..Cardinality(args["inner"].vertex)
      BY <3>1
    <3> QED BY <1>1, <1>4, <3>2
  <2>4. /\ args' = args
        /\ \E x : rows' = [outer |-> after.rows, inner |-> x]
        /\ \E x : cells' = [outer |-> after.cells, inner |-> x]
        /\ \E x : used' = [used EXCEPT !["inner"] = x]
        /\ \E x : reserved' = [reserved EXCEPT !["inner"] = x]
    BY <2>1 DEF BuildRow
  <2> HIDE DEF after, v
  <2>5. Total(rows') /\ Total(cells') /\ rows'["outer"] = after.rows /\ cells'["outer"] = after.cells
    BY <1>6, <2>4
  <2>6. Total(used') /\ Total(reserved') /\ used'["outer"] = used["outer"]
        /\ reserved'["outer"] = reserved["outer"]
    BY <1>1, <1>2, <2>4 DEF Total
  <2>7. Moves("outer")
    <3>1. Left(v, after)
      BY DEF Left, OuterAfter, after
    <3> QED BY <2>1, <2>3, <2>5, <2>6, <3>1, OuterAfterMeans
  <2> QED BY <2>2, <2>4, <2>5, <2>6, <2>7 DEF StaysTotal
<1>8. ASSUME NEW i \in DOMAIN rows["outer"], ReadOuter(i)
      PROVE  args' = args /\ StaysTotal /\ Moves("outer") /\ Same("inner")
  <2> DEFINE v == Vertices("outer")[i]
             after == OuterAfter(TRUE, v)
  <2>1. /\ Built("outer") /\ args' = args /\ used' = used /\ reserved' = reserved
        /\ rows' = [rows EXCEPT !.outer = after.rows]
        /\ cells' = [cells EXCEPT !.outer = after.cells]
    BY <1>8 DEF ReadOuter
  <2>2. v \in args["outer"].vertex
    BY <1>1, <1>4, <2>1, StateFacts DEF Built
  <2> HIDE DEF after, v
  <2>3. /\ Total(rows') /\ Total(cells') /\ rows'["outer"] = after.rows
        /\ cells'["outer"] = after.cells /\ rows'["inner"] = rows["inner"]
        /\ cells'["inner"] = cells["inner"]
    BY <1>1, <1>2, <2>1 DEF Total
  <2>4. Moves("outer")
    <3>1. Left(v, after)
      BY DEF Left, OuterAfter, after
    <3> QED BY <2>1, <2>2, <2>3, <3>1, OuterAfterMeans
  <2> QED BY <1>2, <2>1, <2>3, <2>4 DEF Same, StaysTotal
<1>9. ASSUME NEW i \in DOMAIN rows["inner"], ReadInner(i)
      PROVE  args' = args /\ StaysTotal /\ Moves("outer") /\ Moves("inner")
  <2> DEFINE v == Vertices("inner")[i]
             touched == rows["inner"][i].mode \in {"deferred", "unpruned"}
             after == OuterAfter(touched, v)
             kept == Kept("inner", v, OuterValue(v))
  <2>1. /\ Built("inner") /\ args' = args /\ used' = used /\ reserved' = reserved
        /\ rows' = [outer |-> after.rows,
                    inner |-> IF Defers("inner", i)
                              THEN [rows["inner"] EXCEPT ![i] = Pruned(rows["inner"][i].pos, kept)]
                              ELSE rows["inner"]]
        /\ cells' = [outer |-> after.cells,
                     inner |-> IF Defers("inner", i)
                               THEN Written("inner", rows["inner"][i].pos, kept)
                               ELSE cells["inner"]]
    BY <1>9 DEF ReadInner
  <2>2. v \in args["outer"].vertex
    BY <1>1, <1>4, <2>1, StateFacts DEF Built
  <2>3. Built("outer")
    <3>1. rows["inner"] # << >>
      BY <1>1, StateFacts
    <3> QED BY <3>1 DEF InTurn
  <2>4. kept = Pruning("inner", i)
    BY DEF Pruning, Source
  <2> HIDE DEF after, v, kept, touched
  <2>5. /\ Total(rows') /\ Total(cells') /\ rows'["outer"] = after.rows
        /\ cells'["outer"] = after.cells
        /\ rows'["inner"] = IF Defers("inner", i)
                            THEN [rows["inner"] EXCEPT ![i] = Pruned(rows["inner"][i].pos, kept)]
                            ELSE rows["inner"]
        /\ cells'["inner"] = IF Defers("inner", i)
                             THEN Written("inner", rows["inner"][i].pos, kept)
                             ELSE cells["inner"]
    BY <1>6, <2>1
  <2>6. Moves("outer")
    <3>1. Left(v, after)
      BY DEF Left, OuterAfter, after, touched
    <3> QED BY <2>1, <2>2, <2>3, <2>5, <3>1, OuterAfterMeans
  <2>7. Moves("inner")
    <3>1. CASE Defers("inner", i)
      BY <2>1, <2>4, <2>5, <3>1 DEF Defers, Prunes, Written, Over, Region
    <3>2. CASE ~Defers("inner", i)
      BY <2>1, <2>5, <3>2 DEF Same
    <3> QED BY <3>1, <3>2
  <2> QED BY <1>2, <2>1, <2>5, <2>6, <2>7 DEF StaysTotal
<1> HIDE DEF Moves
<1>10. Moves("outer") /\ Moves("inner") /\ args' = args /\ StaysTotal
  <2>1. CASE BuildOuter
    BY <1>5, <2>1 DEF Moves
  <2>2. CASE BuildInner
    BY <1>7, <2>2 DEF Moves
  <2>3. CASE \E i \in DOMAIN rows.outer : ReadOuter(i)
    BY <1>8, <2>3 DEF Moves
  <2>4. CASE \E i \in DOMAIN rows.inner : ReadInner(i)
    BY <1>9, <2>4
  <2> QED BY <2>1, <2>2, <2>3, <2>4 DEF Next
<1> QED BY <1>1, <1>10 DEF Moves

(***************************************************************************)
(* The space of a row.                                                     *)
(***************************************************************************)
\* The neighbours below a bound.
LEMMA DegreeFacts ==
  ASSUME NEW a \in Arguments, NEW v \in Ids
  PROVE  LET below == {x \in Adj[v] : a.bounded => x < v}
         IN  /\ Cardinality(below) \in Nat /\ Size(a, v) <= Cardinality(below)
             /\ Cardinality(Adj[v]) \in Nat /\ Size(a, v) <= Cardinality(Adj[v])
<1> DEFINE below == {x \in Adj[v] : a.bounded => x < v}
<1>1. Adj[v] \in SUBSET Ids /\ IsFiniteSet(Ids)
  BY RowsAssumption
<1>2. IsFiniteSet(Adj[v]) /\ Cardinality(Adj[v]) \in Nat
  BY <1>1, FS_Subset, FS_CardinalityType
<1>3. below \in SUBSET Adj[v] /\ Part(a, v) \in SUBSET below /\ Part(a, v) \in SUBSET Adj[v]
  BY DEF Part
<1> HIDE DEF below
<1>4. IsFiniteSet(below) /\ Cardinality(below) \in Nat
  BY <1>2, <1>3, FS_Subset, FS_CardinalityType
<1>5. Cardinality(Part(a, v)) <= Cardinality(below)
      /\ Cardinality(Part(a, v)) <= Cardinality(Adj[v])
  BY <1>2, <1>3, <1>4, FS_Subset
<1> QED BY <1>2, <1>4, <1>5 DEF below, Size

\* A row of "inner" is part of that of "outer".
LEMMA PartOfOuter ==
  ASSUME TypeOK, Planned, NEW v
  PROVE  /\ Part(args["inner"], v) \subseteq Part(args["outer"], v)
         /\ Size(args["inner"], v) <= Size(args["outer"], v)
         /\ \A set : set \in {Adj[v], Part(args["outer"], v)} =>
              Kept("inner", v, set) = Part(args["inner"], v)
<1>1. args["outer"] \in Arguments /\ args["inner"] \in Arguments
  BY StateFacts DEF MiniGraphs
<1>2. args["inner"].intersect \subseteq args["outer"].intersect
      /\ (args["outer"].bounded => args["inner"].bounded)
  BY DEF Planned, Compatible
<1>3. Part(args["inner"], v) \subseteq Part(args["outer"], v)
  BY <1>2 DEF Part
<1>4. Part(args["outer"], v) \in SUBSET args["outer"].intersect
  BY <1>1, PartFacts
<1>5. IsFiniteSet(Part(args["outer"], v))
  BY <1>1, <1>4, SubsetFacts
<1>6. Size(args["inner"], v) <= Size(args["outer"], v)
  BY <1>3, <1>5, FS_Subset DEF Size
<1>7. /\ Kept("inner", v, Adj[v]) = Part(args["inner"], v)
      /\ Kept("inner", v, Part(args["outer"], v)) = Part(args["inner"], v)
  BY <1>2 DEF Kept, Part
<1> QED BY <1>3, <1>6, <1>7

\* The row of "outer" from which a row of "inner" is built.
LEMMA IndexFacts ==
  ASSUME TypeOK, Planned, Built("outer"), NEW v \in args["outer"].vertex
  PROVE  LET i == IndexIn("outer", v)
         IN  i \in DOMAIN rows["outer"] /\ Order(args["outer"])[i] = v /\ v \in Ids
<1> DEFINE a == args["outer"]
           i == IndexIn("outer", v)
<1>1. a \in Arguments /\ Vertices("outer") = Order(a) /\ DOMAIN rows["outer"] = 1..Len(rows["outer"])
  BY StateFacts DEF MiniGraphs
<1>2. Len(rows["outer"]) = Cardinality(a.vertex)
  BY DEF Built
<1> HIDE DEF a
<1>3. v \in a.vertex
  BY DEF a
<1>4. /\ DOMAIN Order(a) = 1..Cardinality(a.vertex)
      /\ \E k \in 1..Cardinality(a.vertex) : Order(a)[k] = v
      /\ a.vertex \subseteq Ids
  BY ONLY <1>1, <1>3, OrderFacts, ArgumentFacts
<1>5. i \in DOMAIN Order(a) /\ Order(a)[i] = v
  BY <1>1, <1>4 DEF IndexIn
<1> QED BY <1>1, <1>2, <1>3, <1>4, <1>5 DEF a

\* The degree from which MiniGraphOnline estimates is at least the row's.
LEMMA SourceDegreeFacts ==
  ASSUME TypeOK, Planned, OuterLens, NEW m \in MiniGraphs, NEW v \in args[m].vertex,
         m = "inner" => Built("outer")
  PROVE  SourceDegree(m, v) \in Nat /\ Size(args[m], v) <= SourceDegree(m, v)
<1>1. /\ args[m] \in Arguments /\ v \in Ids /\ Cardinality(Ids) \in Nat
      /\ Size(args[m], v) <= Cardinality(Ids)
  BY StateFacts, ArgumentFacts, PartFacts
<1>2. CASE m = "outer"
  BY <1>1, <1>2, DegreeFacts DEF SourceDegree
<1>3. CASE m = "inner"
  <2> DEFINE i == IndexIn("outer", v)
             row == rows["outer"][i]
  <2>1. v \in args["outer"].vertex
    BY <1>3 DEF Planned, Compatible
  <2>2. i \in DOMAIN rows["outer"] /\ Order(args["outer"])[i] = v
    BY <1>3, <2>1, IndexFacts
  <2>3. row \in Row
    BY <2>2, StateFacts DEF MiniGraphs
  <2>4. SourceDegree(m, v) = IF row.mode = "pruned" THEN row.len ELSE Cardinality(Ids)
    BY <1>3 DEF SourceDegree
  <2>5. CASE row.mode = "pruned"
    <3>1. row.len = Size(args["outer"], v) /\ row.len \in Nat
      BY <2>2, <2>3, <2>5 DEF OuterLens, Row
    <3>2. Size(args["inner"], v) <= Size(args["outer"], v)
      BY PartOfOuter
    <3> QED BY <1>3, <2>4, <2>5, <3>1, <3>2
  <2>6. CASE row.mode # "pruned"
    BY <1>1, <2>4, <2>6
  <2> QED BY <2>5, <2>6
<1> QED BY <1>2, <1>3 DEF MiniGraphs

\* The space set aside for a row is at least what it needs.
LEMMA SpaceFacts ==
  ASSUME TypeOK, Planned, OuterLens, NEW m \in MiniGraphs, NEW v \in args[m].vertex,
         m = "inner" => Built("outer"), NEW mode, NEW kept \in SUBSET args[m].intersect
  PROVE  /\ Demand(m, v, mode) \in Nat /\ Space(m, v, mode, kept) \in 0..Cardinality(Ids)
         /\ mode \in {"pruned", "deferred"} => Size(args[m], v) <= Demand(m, v, mode)
         /\ mode \in {"pruned", "deferred"} /\ kept = Part(args[m], v) =>
              Size(args[m], v) <= Space(m, v, mode, kept)
<1> DEFINE a == args[m]
           size == Size(a, v)
           n == Cardinality(a.intersect)
           est == Estimate(m, v)
<1>1. /\ a \in Arguments /\ v \in Ids /\ n \in Nat /\ n <= Cardinality(Ids) /\ Cardinality(Ids) \in Nat
      /\ size \in Nat /\ size <= n
  BY StateFacts, ArgumentFacts, PartFacts
<1>2. /\ Cardinality(kept) \in Nat /\ Cardinality(kept) <= Cardinality(Ids)
      /\ kept = Part(a, v) => Cardinality(kept) = size
  BY <1>1, SubsetFacts DEF Size
<1>3. SourceDegree(m, v) \in Nat /\ size <= SourceDegree(m, v)
  BY SourceDegreeFacts
<1>4. Cardinality(Adj[v]) \in Nat /\ size <= Cardinality(Adj[v])
  BY <1>1, DegreeFacts
<1> HIDE DEF size, n, est, a
<1>5. est \in Nat /\ est <= n /\ size <= est
  BY <1>1, <1>3, <1>4 DEF est, n, a, Estimate, Smaller
<1>6. Demand(m, v, mode) = IF args[m].policy = "Online" \/ mode = "deferred" THEN est
                           ELSE IF mode = "pruned" THEN n ELSE 0
  BY DEF Demand, est, n, a
<1>7. Space(m, v, mode, kept) = IF args[m].policy = "Online" \/ mode = "deferred" THEN est
                                ELSE IF mode = "pruned" THEN Cardinality(kept) ELSE 0
  BY DEF Space, est
<1> QED BY <1>1, <1>2, <1>5, <1>6, <1>7 DEF size, a

(***************************************************************************)
(* Types and reserved space.                                               *)
(***************************************************************************)
Typed(a, r, u, n, c) ==
  /\ r \in Seq(Row) /\ Len(r) <= Cardinality(a.vertex)
  /\ \A i \in DOMAIN r : r[i].len <= Cardinality(a.intersect)
  /\ u \in Nat \union {Unset} /\ n \in Nat /\ c \in Buffers

Reserved(a, r, n) == \A i \in DOMAIN r : Packs(r[i]) => End(a, r, i) <= n
Lens(a, r) == \A i \in DOMAIN r : r[i].mode = "pruned" => r[i].len = Size(a, Order(a)[i])

Fits(m, a, r, u, n, c) ==
  Typed(a, r, u, n, c) /\ Reserved(a, r, n) /\ (m = "outer" => Lens(a, r))

\* The larger of two numbers.
LEMMA MaxFacts ==
  ASSUME NEW x \in Nat, NEW y \in Nat
  PROVE  Max({x, y}) \in Nat /\ x <= Max({x, y}) /\ y <= Max({x, y})
<1>1. \E z \in {x, y} : \A w \in {x, y} : z >= w
  <2>1. x >= y \/ y >= x
    OBVIOUS
  <2> QED BY <2>1
<1>2. Max({x, y}) \in {x, y} /\ \A w \in {x, y} : Max({x, y}) >= w
  BY <1>1 DEF Max
<1> QED BY <1>2

\* The row that is built next.
LEMMA BuildsFacts ==
  ASSUME TypeOK, InTurn, NEW m \in MiniGraphs, Builds(m)
  PROVE  LET i == Len(rows[m]) + 1
         IN  /\ Len(rows[m]) < Cardinality(args[m].vertex)
             /\ Vertices(m)[i] \in args[m].vertex /\ Vertices(m)[i] = Order(args[m])[i]
             /\ Pruning(m, i) \in SUBSET args[m].intersect
             /\ RowModes(m, i) \subseteq {"pruned", "deferred", "unpruned", "unset"}
             /\ SkipsIterated(m) \/ "unset" \notin RowModes(m, i)
<1> DEFINE i == Len(rows[m]) + 1
<1>1. /\ args[m] \in Arguments /\ Len(rows[m]) \in Nat /\ Vertices(m) = Order(args[m])
      /\ \A v, set : Kept(m, v, set) \in SUBSET args[m].intersect
  BY StateFacts
<1>2. Cardinality(args[m].vertex) \in Nat
  BY <1>1, ArgumentFacts
<1>3. Len(rows[m]) # Cardinality(args[m].vertex) /\ Len(rows[m]) <= Cardinality(args[m].vertex)
  BY DEF Builds, Built, InTurn
<1>4. i \in 1..Cardinality(args[m].vertex)
  BY <1>1, <1>2, <1>3
<1> HIDE DEF i
<1>5. Vertices(m)[i] \in args[m].vertex
  BY <1>1, <1>4, OrderFacts
<1>6. args[m].policy \in Policies
  BY <1>1 DEF Arguments
<1>7. Uniterated[args[m].policy] \subseteq {"pruned", "deferred", "unpruned"}
  BY <1>6 DEF Policies, Uniterated
<1>8. /\ RowModes(m, i) \subseteq {"pruned", "deferred", "unpruned", "unset"}
      /\ SkipsIterated(m) \/ "unset" \notin RowModes(m, i)
  BY <1>7 DEF RowModes
<1>9. Pruning(m, i) \in SUBSET args[m].intersect
  BY <1>1 DEF Pruning
<1>10. Len(rows[m]) < Cardinality(args[m].vertex)
  BY <1>1, <1>2, <1>3
<1> QED BY <1>1, <1>5, <1>8, <1>9, <1>10 DEF i

\* One more row.
LEMMA GrowFits ==
  ASSUME NEW m, NEW a \in Arguments, NEW r, NEW u, NEW n, NEW c, Fits(m, a, r, u, n, c),
         Len(r) < Cardinality(a.vertex),
         NEW row \in Row, row.len <= Cardinality(a.intersect),
         NEW uu \in Nat \union {Unset}, NEW nn \in Nat, n <= nn, NEW cc \in Buffers,
         Packs(row) => row.pos + Size(a, Order(a)[Len(r) + 1]) <= nn,
         m = "outer" /\ row.mode = "pruned" => row.len = Size(a, Order(a)[Len(r) + 1])
  PROVE  Fits(m, a, Append(r, row), uu, nn, cc)
<1> DEFINE s == Append(r, row)
           top == Len(r) + 1
<1>1. /\ r \in Seq(Row) /\ Len(r) \in Nat /\ DOMAIN r = 1..Len(r) /\ n \in Nat
      /\ Cardinality(a.vertex) \in Nat /\ \A i \in DOMAIN r : r[i] \in Row
  BY LenProperties, ElementOfSeq, ArgumentFacts DEF Fits, Typed
<1>2. /\ s \in Seq(Row) /\ Len(s) = top /\ DOMAIN s = 1..top
      /\ \A i \in 1..Len(r) : s[i] = r[i]
      /\ s[top] = row
  BY <1>1, AppendProperties, LenProperties
<1>3. 1..top = (1..Len(r)) \union {top}
  BY <1>1
<1> HIDE DEF s
<1>4. Typed(a, s, uu, nn, cc)
  <2>1. \A i \in 1..Len(r) : s[i].len <= Cardinality(a.intersect)
    BY <1>1, <1>2 DEF Fits, Typed
  <2>2. Len(s) <= Cardinality(a.vertex)
    BY <1>1, <1>2
  <2> QED BY <1>2, <1>3, <2>1, <2>2 DEF Typed
<1>5. Reserved(a, s, nn)
  <2> SUFFICES ASSUME NEW i \in 1..top, Packs(s[i]) PROVE End(a, s, i) <= nn
    BY <1>2 DEF Reserved
  <2>1. CASE i = top
    BY <1>2, <2>1 DEF End
  <2>2. CASE i \in 1..Len(r)
    <3>1. End(a, s, i) = End(a, r, i) /\ End(a, r, i) <= n
      BY <1>1, <1>2, <2>2 DEF Fits, Reserved, End
    <3>2. End(a, r, i) \in Int
      <4>1. r[i].pos \in Int /\ Size(a, Order(a)[i]) \in Nat
        BY <1>1, <2>2, PartFacts DEF Row, Unset
      <4> QED BY <4>1 DEF End
    <3> QED BY <1>1, <3>1, <3>2
  <2> QED BY <1>3, <2>1, <2>2
<1>6. ASSUME m = "outer" PROVE Lens(a, s)
  <2> SUFFICES ASSUME NEW i \in 1..top, s[i].mode = "pruned"
               PROVE  s[i].len = Size(a, Order(a)[i])
    BY <1>2 DEF Lens
  <2>1. CASE i = top
    BY <1>2, <1>6, <2>1
  <2>2. CASE i \in 1..Len(r)
    BY <1>1, <1>2, <1>6, <2>2 DEF Fits, Lens
  <2> QED BY <1>3, <2>1, <2>2
<1> QED BY <1>4, <1>5, <1>6 DEF Fits, s

\* A deferred row is pruned.
LEMMA PruneFits ==
  ASSUME NEW m, NEW a \in Arguments, NEW r, NEW u, NEW n, NEW c, Fits(m, a, r, u, n, c),
         NEW i \in DOMAIN r, r[i].mode = "deferred", NEW set \in SUBSET a.intersect,
         m = "outer" => set = Part(a, Order(a)[i])
  PROVE  Fits(m, a, [r EXCEPT ![i] = Pruned(r[i].pos, set)], u, n, Over(c, r[i].pos, set))
<1> DEFINE row == Pruned(r[i].pos, set)
           s == [r EXCEPT ![i] = row]
<1>1. /\ r \in Seq(Row) /\ Len(r) \in Nat /\ DOMAIN r = 1..Len(r)
      /\ r[i] \in Row /\ r[i].pos \in Nat \union {Unset} /\ r[i].pos \in Int
  <2>1. r \in Seq(Row)
    BY DEF Fits, Typed
  <2>2. r[i] \in Row /\ Len(r) \in Nat /\ DOMAIN r = 1..Len(r)
    BY <2>1, LenProperties, ElementOfSeq
  <2> QED BY <2>1, <2>2 DEF Row, Unset
<1>2. /\ Cardinality(set) \in Nat /\ Cardinality(set) <= Cardinality(a.intersect)
      /\ m = "outer" => Cardinality(set) = Size(a, Order(a)[i])
  BY SubsetFacts DEF Size
<1>3. row \in Row /\ row.mode = "pruned" /\ row.pos = r[i].pos /\ row.len = Cardinality(set)
  BY <1>1, <1>2 DEF Pruned, Row
<1> HIDE DEF row
<1>4. /\ DOMAIN s = DOMAIN r /\ s[i] = row /\ \A j \in DOMAIN r \ {i} : s[j] = r[j]
      /\ s \in Seq(Row) /\ Len(s) = Len(r)
  <2>1. s \in Seq(Row) /\ Len(s) = Len(r)
    BY <1>1, <1>3, ExceptSeq
  <2> QED BY <2>1
<1> HIDE DEF s
<1>5. Over(c, r[i].pos, set) \in Buffers
  <2>1. c \in Buffers
    BY DEF Fits, Typed
  <2> QED BY ONLY <1>1, <2>1, OverFacts, a \in Arguments, set \in SUBSET a.intersect
<1>6. Typed(a, s, u, n, Over(c, r[i].pos, set))
  BY <1>2, <1>3, <1>4, <1>5 DEF Fits, Typed
<1>7. Reserved(a, s, n)
  <2>1. \A j \in DOMAIN r : s[j].pos = r[j].pos /\ (Packs(s[j]) => Packs(r[j]))
    BY <1>3, <1>4 DEF Packs
  <2> QED BY <1>4, <2>1 DEF Fits, Reserved, End
<1>8. m = "outer" => Lens(a, s)
  BY <1>2, <1>3, <1>4 DEF Fits, Lens
<1> QED BY <1>6, <1>7, <1>8 DEF Fits, s, row

\* Each mini graph separately.
LEMMA SpaceMeans ==
  ASSUME TypeOK, InTurn, OuterLens, WithinReserved, NEW m \in MiniGraphs
  PROVE  Fits(m, args[m], rows[m], used[m], reserved[m], cells[m])
<1>1. /\ args[m] \in Arguments /\ rows[m] \in Seq(Row) /\ used[m] \in Nat \union {Unset}
      /\ reserved[m] \in Nat /\ cells[m] \in Buffers
      /\ \A i \in DOMAIN rows[m] : rows[m][i].len <= Cardinality(args[m].intersect)
      /\ Vertices(m) = Order(args[m])
      /\ \A v : Kept(m, v, Adj[v]) = Part(args[m], v)
  BY StateFacts
<1>2. Typed(args[m], rows[m], used[m], reserved[m], cells[m])
  BY <1>1 DEF Typed, InTurn
<1>3. Reserved(args[m], rows[m], reserved[m])
  BY <1>1 DEF Reserved, Packs, End, Size, WithinReserved
<1>4. m = "outer" => Lens(args[m], rows[m])
  BY DEF Lens, OuterLens
<1> QED BY <1>2, <1>3, <1>4 DEF Fits

\* The same of the next state.
LEMMA SpaceMeansNext ==
  ASSUME TypeOK, args' = args, StaysTotal,
         \A m \in MiniGraphs : Fits(m, args[m], rows'[m], used'[m], reserved'[m], cells'[m])
  PROVE  /\ TypeOK' /\ OuterLens' /\ WithinReserved'
         /\ \A m \in MiniGraphs : Len(rows'[m]) <= Cardinality(args'[m].vertex)
<1>1. args \in [MiniGraphs -> Arguments]
  BY DEF TypeOK
<1>2. \A m \in MiniGraphs : /\ Typed(args[m], rows'[m], used'[m], reserved'[m], cells'[m])
                            /\ Reserved(args[m], rows'[m], reserved'[m])
                            /\ (m = "outer" => Lens(args[m], rows'[m]))
  BY DEF Fits
<1>3. /\ rows' \in [MiniGraphs -> Seq(Row)] /\ used' \in [MiniGraphs -> Nat \union {Unset}]
      /\ reserved' \in [MiniGraphs -> Nat] /\ cells' \in [MiniGraphs -> Buffers]
  BY <1>2, Zenon DEF StaysTotal, Total, Typed
<1>4. TypeOK'
  BY <1>1, <1>2, <1>3 DEF TypeOK, Typed, Row, Buffers
<1>5. OuterLens'
  BY <1>2 DEF OuterLens, Lens, MiniGraphs
<1>6. ASSUME NEW m \in MiniGraphs, NEW i \in DOMAIN rows'[m],
             rows'[m][i].mode \in {"pruned", "deferred"}
      PROVE  rows'[m][i].pos
               + Cardinality(Kept(m, Vertices(m)[i], Adj[Vertices(m)[i]])') <= reserved'[m]
  <2>1. Vertices(m)' = Order(args[m])
    BY DEF Vertices, Order
  <2>2. Kept(m, Vertices(m)[i], Adj[Vertices(m)[i]])' = Part(args[m], Order(args[m])[i])
    BY <2>1 DEF Kept, Part
  <2> QED BY <1>2, <1>6, <2>2 DEF Reserved, Packs, End, Size
<1>7. WithinReserved'
  BY <1>6 DEF WithinReserved
<1> QED BY <1>2, <1>4, <1>5, <1>7 DEF Typed

\* The step of one mini graph.
LEMMA StepFits ==
  ASSUME SpaceInv, NEW m \in MiniGraphs,
         Same(m) \/ Builds(m) \/ \E i \in DOMAIN rows[m] : Prunes(m, i)
  PROVE  Fits(m, args[m], rows'[m], used'[m], reserved'[m], cells'[m])
<1> DEFINE a == args[m]
           r == rows[m]
           top == Len(r) + 1
           v == Vertices(m)[top]
<1>1. Fits(m, a, r, used[m], reserved[m], cells[m])
  BY SpaceMeans DEF SpaceInv
<1>2. /\ a \in Arguments /\ used[m] \in Nat \union {Unset} /\ reserved[m] \in Nat
      /\ cells[m] \in Buffers /\ Vertices(m) = Order(a)
      /\ \A w : Kept(m, w, Adj[w]) = Part(a, w)
      /\ \A w, set : Kept(m, w, set) \in SUBSET a.intersect
      /\ Cardinality(a.intersect) \in Nat
  BY StateFacts, ArgumentFacts DEF SpaceInv
<1>3. \A i : m = "outer" => Pruning(m, i) = Part(a, Order(a)[i])
  BY <1>2 DEF Pruning, Source
<1>4. CASE Same(m)
  BY <1>1, <1>4 DEF Same
<1>5. ASSUME NEW i \in DOMAIN r, Prunes(m, i)
      PROVE  Fits(m, a, rows'[m], used'[m], reserved'[m], cells'[m])
  <2> DEFINE set == Pruning(m, i)
  <2>1. set \in SUBSET a.intersect /\ (m = "outer" => set = Part(a, Order(a)[i]))
    BY <1>2, <1>3 DEF Pruning
  <2>2. /\ r[i].mode = "deferred" /\ rows'[m] = [r EXCEPT ![i] = Pruned(r[i].pos, set)]
        /\ cells'[m] = Over(cells[m], r[i].pos, set)
        /\ used'[m] = used[m] /\ reserved'[m] = reserved[m]
    BY <1>5 DEF Prunes
  <2> HIDE DEF set, a, r
  <2>3. Fits(m, a, [r EXCEPT ![i] = Pruned(r[i].pos, set)], used[m], reserved[m],
             Over(cells[m], r[i].pos, set))
    BY ONLY <1>1, <1>2, <1>5, <2>1, <2>2, PruneFits
  <2> QED BY <2>2, <2>3
<1>6. ASSUME Builds(m)
      PROVE  Fits(m, a, rows'[m], used'[m], reserved'[m], cells'[m])
  <2>1. /\ Len(r) < Cardinality(a.vertex) /\ v \in a.vertex /\ v = Order(a)[top]
        /\ Pruning(m, top) \in SUBSET a.intersect
        /\ RowModes(m, top) \subseteq {"pruned", "deferred", "unpruned", "unset"}
    BY <1>6, BuildsFacts DEF SpaceInv
  <2> HIDE DEF a, r, v, top
  <2>2. CASE Loses(m)
    <3> DEFINE row == [mode |-> "unset", pos |-> Unset, len |-> 0]
    <3>1. row \in Row /\ row.len <= Cardinality(a.intersect) /\ ~Packs(row) /\ row.mode # "pruned"
          /\ Unset \in Nat \union {Unset} /\ reserved[m] <= reserved[m]
      BY <1>2 DEF Row, Packs
    <3>2. /\ rows'[m] = Append(r, row) /\ cells'[m] = cells[m] /\ used'[m] = Unset
          /\ reserved'[m] = reserved[m]
      BY <2>2 DEF Loses, r
    <3> HIDE DEF row
    <3>3. Fits(m, a, Append(r, row), Unset, reserved[m], cells[m])
      BY ONLY <1>1, <1>2, <2>1, <3>1, GrowFits DEF top
    <3> QED BY <3>2, <3>3
  <2>3. CASE ~Loses(m)
    <3>1. PICK mode \in {"pruned", "deferred", "unpruned"} : Grows(m, mode) /\ used[m] \in Nat
      BY <1>2, <1>6, <2>1, <2>3 DEF Builds, r, top
    <3> DEFINE set == Pruning(m, top)
               row == IF mode = "pruned" THEN Pruned(used[m], set)
                                         ELSE [mode |-> mode, pos |-> used[m], len |-> 0]
               cc == IF mode = "pruned" THEN Over(cells[m], used[m], set) ELSE cells[m]
               uu == used[m] + Space(m, v, mode, set)
               need == Demand(m, v, mode)
               nn == Max({reserved[m], used[m] + need})
    <3>2. rows'[m] = Append(r, row) /\ cells'[m] = cc /\ used'[m] = uu /\ reserved'[m] = nn
      BY <3>1 DEF Grows, r, v, top
    <3>3. /\ need \in Nat /\ Space(m, v, mode, set) \in 0..Cardinality(Ids)
          /\ mode \in {"pruned", "deferred"} => Size(a, v) <= need
      BY <1>6, <2>1, SpaceFacts DEF SpaceInv, Builds, a
    <3>4. Cardinality(set) \in Nat /\ Cardinality(set) <= Cardinality(a.intersect)
          /\ (m = "outer" => Cardinality(set) = Size(a, v)) /\ Size(a, v) \in Nat
      BY <1>2, <1>3, <2>1, SubsetFacts, PartFacts DEF Size
    <3>5. Over(cells[m], used[m], set) \in Buffers
      <4>1. used[m] \in Int
        BY <3>1
      <4> DEFINE c == cells[m]
                 p == used[m]
      <4>2. c \in Buffers /\ p \in Int
        BY <1>2, <4>1
      <4> HIDE DEF set, c, p
      <4>3. set \in SUBSET a.intersect
        BY <2>1 DEF set
      <4>4. Over(c, p, set) \in Buffers
        BY ONLY <1>2, <4>2, <4>3, OverFacts
      <4> QED BY <4>4 DEF c, p
    <3> HIDE DEF need, set
    <3>6. uu \in Nat \union {Unset} /\ cc \in Buffers
      BY <1>2, <3>1, <3>3, <3>5, ArgumentFacts
    <3>7. nn \in Nat /\ reserved[m] <= nn /\ used[m] + need <= nn
      BY <1>2, <3>1, <3>3, MaxFacts
    <3>8. row \in Row /\ row.mode = mode /\ row.pos = used[m] /\ row.len <= Cardinality(a.intersect)
          /\ (mode = "pruned" => row.len = Cardinality(set))
      BY <1>2, <3>1, <3>4 DEF Row, Pruned
    <3> HIDE DEF row, cc, uu, nn
    <3>9. Packs(row) => row.pos + Size(a, Order(a)[top]) <= nn
      BY <2>1, <3>1, <3>3, <3>4, <3>7, <3>8 DEF Packs
    <3>10. m = "outer" /\ row.mode = "pruned" => row.len = Size(a, Order(a)[top])
      BY <2>1, <3>4, <3>8
    <3>11. Fits(m, a, Append(r, row), uu, nn, cc)
      BY ONLY <1>1, <1>2, <2>1, <3>6, <3>7, <3>8, <3>9, <3>10, GrowFits DEF top
    <3> QED BY <3>2, <3>11
  <2> QED BY <2>2, <2>3
<1> QED BY <1>4, <1>5, <1>6

\* A mini graph that is built stays built.
LEMMA BuiltStays ==
  ASSUME TypeOK, args' = args, NEW m \in MiniGraphs, Built(m),
         Same(m) \/ Builds(m) \/ \E i \in DOMAIN rows[m] : Prunes(m, i)
  PROVE  Built(m)'
<1>1. rows[m] \in Seq(Row)
  BY StateFacts
<1>2. Len(rows'[m]) = Len(rows[m])
  <2>1. CASE Same(m)
    BY <2>1 DEF Same
  <2>2. CASE \E i \in DOMAIN rows[m] : Prunes(m, i)
    <3>1. \A i, x : Len([rows[m] EXCEPT ![i] = x]) = Len(rows[m])
      <4> SUFFICES ASSUME NEW i, NEW x PROVE Len([rows[m] EXCEPT ![i] = x]) = Len(rows[m])
        OBVIOUS
      <4>1. DOMAIN [rows[m] EXCEPT ![i] = x] = 1..Len(rows[m]) /\ Len(rows[m]) \in Nat
        BY <1>1, LenProperties
      <4> QED BY <4>1, <1>1
    <3> QED BY <2>2, <3>1 DEF Prunes
  <2> QED BY <2>1, <2>2 DEF Builds
<1> QED BY <1>2 DEF Built

\* The inductive invariant of space.
LEMMA SpaceInvariance == Spec => []SpaceInv
<1>1. Init => SpaceInv
  <2> SUFFICES ASSUME Init PROVE SpaceInv
    OBVIOUS
  <2>1. /\ Cardinality(Ids) \in Nat
        /\ Outers \subseteq Arguments /\ Inners \subseteq Arguments
    BY RowsAssumption, FS_CardinalityType
  <2>2. PICK outer \in Outers, inner \in Inners : args = [outer |-> outer, inner |-> inner]
    BY DEF Init
  <2>3. /\ args["outer"] = outer /\ args["inner"] = inner /\ DOMAIN args = {"outer", "inner"}
        /\ args \in [MiniGraphs -> Arguments]
    BY <2>1, <2>2 DEF MiniGraphs
  <2>4. /\ rows = [m \in MiniGraphs |-> << >>] /\ used = [m \in MiniGraphs |-> 0]
        /\ reserved = [m \in MiniGraphs |-> 0]
        /\ cells = [m \in MiniGraphs |-> [k \in Positions |-> Junk]]
        /\ Compatible(args["outer"], args["inner"])
    BY DEF Init
  <2>5. TypeOK
    BY <2>3, <2>4 DEF TypeOK, Junk
  <2>6. \A m \in MiniGraphs : Cardinality(args[m].vertex) \in Nat
    BY <2>3, ArgumentFacts
  <2>7. InTurn
    BY <2>4, <2>6 DEF InTurn, MiniGraphs
  <2>8. OuterLens /\ WithinReserved
    BY <2>4 DEF OuterLens, WithinReserved, MiniGraphs
  <2>9. Planned
    BY <2>2, <2>3, <2>4 DEF Planned
  <2> QED BY <2>5, <2>7, <2>8, <2>9 DEF SpaceInv
<1>2. SpaceInv /\ [Next]_vars => SpaceInv'
  <2> SUFFICES ASSUME SpaceInv, [Next]_vars PROVE SpaceInv'
    OBVIOUS
  <2>1. CASE Next
    <3>1. /\ args' = args /\ StaysTotal
          /\ \A m \in MiniGraphs :
               Same(m) \/ Builds(m) \/ \E i \in DOMAIN rows[m] : Prunes(m, i)
      BY <2>1, StepMeans DEF SpaceInv
    <3>2. \A m \in MiniGraphs : Fits(m, args[m], rows'[m], used'[m], reserved'[m], cells'[m])
      BY <3>1, StepFits
    <3>3. /\ TypeOK' /\ OuterLens' /\ WithinReserved'
          /\ \A m \in MiniGraphs : Len(rows'[m]) <= Cardinality(args'[m].vertex)
      BY <3>1, <3>2, SpaceMeansNext DEF SpaceInv
    <3>4. ASSUME rows'["inner"] # << >> PROVE Built("outer")'
      <4>1. Built("outer")
        <5>1. CASE Builds("inner")
          BY <5>1 DEF Builds
        <5>2. CASE ~Builds("inner")
          <6>1. rows["inner"] # << >>
            <7>1. Same("inner") \/ \E i \in DOMAIN rows["inner"] : Prunes("inner", i)
              BY <3>1, <5>2 DEF MiniGraphs
            <7> QED BY <3>4, <7>1 DEF Same
          <6> QED BY <6>1 DEF SpaceInv, InTurn
        <5> QED BY <5>1, <5>2
      <4> QED BY <3>1, <4>1, BuiltStays DEF SpaceInv, MiniGraphs
    <3>5. Planned'
      BY <3>1 DEF SpaceInv, Planned
    <3> QED BY <3>3, <3>4, <3>5 DEF SpaceInv, InTurn
  <2>2. CASE UNCHANGED vars
    <3>1. UNCHANGED <<args, rows, used, reserved, cells>>
      BY <2>2 DEF vars
    <3>2. TypeOK' /\ Planned' /\ OuterLens'
      BY <3>1 DEF SpaceInv, TypeOK, Planned, OuterLens
    <3>3. InTurn'
      BY <3>1 DEF SpaceInv, InTurn, Built
    <3>4. WithinReserved'
      <4>1. \A m, v, set : Kept(m, v, set)' = Kept(m, v, set)
        BY <3>1 DEF Kept
      <4>2. \A m : Vertices(m)' = Vertices(m)
        BY <3>1 DEF Vertices
      <4> QED BY <3>1, <4>1, <4>2 DEF SpaceInv, WithinReserved
    <3> QED BY <3>2, <3>3, <3>4 DEF SpaceInv
  <2> QED BY <2>1, <2>2
<1> QED BY <1>1, <1>2, PTL DEF Spec

\* The variables keep their types, whatever the arguments of the builds.
THEOREM RowsTyped == Spec => []TypeOK
<1>1. SpaceInv => TypeOK
  BY DEF SpaceInv
<1> QED BY <1>1, SpaceInvariance, PTL

\* No row, pruned or deferred, is longer than the space its buffer was made to hold,
\* under every policy and whatever the arguments of the builds: the estimates of
\* MiniGraphOnline and of deferred rows are never too small.
THEOREM RowsWithinReserved == Spec => []WithinReserved
<1>1. SpaceInv => WithinReserved
  BY DEF SpaceInv
<1> QED BY <1>1, SpaceInvariance, PTL

(***************************************************************************)
(* What the rows hold.                                                     *)
(***************************************************************************)
\* Whatever the source of a row has for its vertex, deferred or not, a row pruned from
\* it is the one pruned from the data graph.
LEMMA PruningFacts ==
  ASSUME SpaceInv, RowsInv, NEW m \in MiniGraphs, NEW v \in args[m].vertex,
         m = "inner" => Built("outer")
  PROVE  Kept(m, v, Source(m, v)) = Part(args[m], v)
<1>1. CASE m = "outer"
  BY <1>1 DEF Source, Kept, Part
<1>2. CASE m = "inner"
  <2> DEFINE i == IndexIn("outer", v)
             row == rows["outer"][i]
  <2>1. v \in args["outer"].vertex
    BY <1>2 DEF SpaceInv, Planned, Compatible
  <2>2. i \in DOMAIN rows["outer"] /\ Order(args["outer"])[i] = v
    BY <1>2, <2>1, IndexFacts DEF SpaceInv
  <2>3. row \in Row /\ Vertices("outer") = Order(args["outer"])
        /\ Kept("outer", v, Adj[v]) = Part(args["outer"], v)
    BY <2>2, StateFacts DEF SpaceInv, MiniGraphs
  <2>4. row.mode \in {"pruned", "deferred", "unpruned"}
        /\ (row.mode = "pruned" => Cells(cells["outer"], row.pos, row.len) = Part(args["outer"], v))
    BY <2>2, <2>3 DEF RowsInv, Sound, Laid, Filled, MiniGraphs, Row
  <2>5. Source(m, v) = Value("outer", i, Adj[v])
    BY <1>2 DEF Source, OuterValue
  <2>6. Value("outer", i, Adj[v]) = CASE row.mode = "pruned" -> Stored("outer", row)
                                      [] row.mode = "deferred" -> Kept("outer", v, Adj[v])
                                      [] row.mode = "unpruned" -> Adj[v]
                                      [] OTHER -> {Junk}
    BY <2>2, <2>3 DEF Value
  <2>7. Stored("outer", row) = Cells(cells["outer"], row.pos, row.len)
    BY DEF Stored, Cells
  <2> HIDE DEF row, i
  <2>8. Source(m, v) \in {Adj[v], Part(args["outer"], v)}
    BY <2>3, <2>4, <2>5, <2>6, <2>7
  <2> QED BY <1>2, <2>8, PartOfOuter DEF SpaceInv
<1> QED BY <1>1, <1>2 DEF MiniGraphs

\* The same of a row handled so far or next.
LEMMA NextPruning ==
  ASSUME SpaceInv, RowsInv, NEW m \in MiniGraphs, m = "inner" => Built("outer"),
         NEW i \in 1..Cardinality(args[m].vertex)
  PROVE  Pruning(m, i) = Part(args[m], Order(args[m])[i])
<1>1. args[m] \in Arguments /\ Vertices(m) = Order(args[m])
  BY StateFacts DEF SpaceInv
<1>2. Order(args[m])[i] \in args[m].vertex
  BY <1>1, OrderFacts
<1> QED BY <1>1, <1>2, PruningFacts DEF Pruning

\* A row of a mini graph has its vertex; a row of "inner" has a source.
LEMMA RowFacts ==
  ASSUME SpaceInv, NEW m \in MiniGraphs, NEW i \in DOMAIN rows[m]
  PROVE  i \in 1..Cardinality(args[m].vertex) /\ (m = "inner" => Built("outer"))
<1>1. Len(rows[m]) \in Nat /\ DOMAIN rows[m] = 1..Len(rows[m]) /\ args[m] \in Arguments
      /\ rows[m] \in Seq(Row)
  BY StateFacts DEF SpaceInv
<1>2. Len(rows[m]) <= Cardinality(args[m].vertex) /\ Cardinality(args[m].vertex) \in Nat
  BY <1>1, ArgumentFacts DEF SpaceInv, InTurn
<1>3. rows[m] # << >>
  BY <1>1
<1> QED BY <1>1, <1>2, <1>3 DEF SpaceInv, InTurn

\* The step of one mini graph.
LEMMA StepSound ==
  ASSUME SpaceInv, RowsInv, NoSharedCostModel, NEW m \in MiniGraphs,
         Same(m) \/ Builds(m) \/ \E i \in DOMAIN rows[m] : Prunes(m, i)
  PROVE  /\ Sound(args[m], rows'[m], used'[m], cells'[m])
         /\ Stays(rows[m], rows'[m], cells[m], cells'[m])
<1> DEFINE a == args[m]
           r == rows[m]
           c == cells[m]
           u == used[m]
           top == Len(r) + 1
           v == Vertices(m)[top]
           Goal == Sound(a, rows'[m], used'[m], cells'[m]) /\ Stays(r, rows'[m], c, cells'[m])
<1>1. /\ a \in Arguments /\ r \in Seq(Row) /\ c \in Buffers /\ Sound(a, r, u, c)
      /\ Len(r) <= Cardinality(a.vertex) /\ Len(r) \in Nat /\ Cardinality(a.vertex) \in Nat
  BY StateFacts, ArgumentFacts DEF SpaceInv, RowsInv, InTurn
<1>2. CASE Same(m)
  BY <1>1, <1>2 DEF Same, Stays, SameCells
<1>3. ASSUME NEW i \in DOMAIN r, Prunes(m, i) PROVE Goal
  <2>1. Pruning(m, i) = Part(a, Order(a)[i])
    BY <1>3, RowFacts, NextPruning
  <2>2. /\ r[i].mode = "deferred"
        /\ rows'[m] = [r EXCEPT ![i] = Pruned(r[i].pos, Part(a, Order(a)[i]))]
        /\ cells'[m] = Over(c, r[i].pos, Part(a, Order(a)[i])) /\ used'[m] = u
    BY <1>3, <2>1 DEF Prunes
  <2> HIDE DEF a, r, c, u
  <2>3. LET set == Part(a, Order(a)[i])
            s == [r EXCEPT ![i] = Pruned(r[i].pos, set)]
            d == Over(c, r[i].pos, set)
        IN  Sound(a, s, u, d) /\ Stays(r, s, c, d)
    BY ONLY <1>1, <1>3, <2>2, PruneSound
  <2> QED BY <2>2, <2>3
<1>4. ASSUME Builds(m) PROVE Goal
  <2>1. /\ Len(r) < Cardinality(a.vertex) /\ v \in a.vertex /\ v = Order(a)[top]
        /\ RowModes(m, top) \subseteq {"pruned", "deferred", "unpruned", "unset"}
        /\ (SkipsIterated(m) \/ "unset" \notin RowModes(m, top))
    BY <1>4, BuildsFacts DEF SpaceInv
  <2>2. ~SkipsIterated(m)
    BY DEF SkipsIterated, NoSharedCostModel, SpaceInv, Planned
  <2>3. u # Unset /\ u \in Nat
    BY <1>1 DEF Sound, Laid, Unset
  <2>4. PICK mode \in {"pruned", "deferred", "unpruned"} : Grows(m, mode)
    BY <1>4, <2>1, <2>2, <2>3 DEF Builds
  <2>5. Pruning(m, top) = Part(a, Order(a)[top])
    <3>1. top \in 1..Cardinality(a.vertex)
      BY <1>1, <2>1
    <3> QED BY <1>4, <3>1, NextPruning DEF Builds
  <2> DEFINE set == Part(a, Order(a)[top])
             space == Space(m, v, mode, set)
             row == IF mode = "pruned" THEN Pruned(u, set)
                                       ELSE [mode |-> mode, pos |-> u, len |-> 0]
             d == IF mode = "pruned" THEN Over(c, u, set) ELSE c
  <2>6. /\ rows'[m] = Append(r, row) /\ cells'[m] = d /\ used'[m] = u + space
    BY <2>4, <2>5 DEF Grows
  <2>7. /\ space \in 0..Cardinality(Ids)
        /\ mode # "unpruned" => Size(a, Order(a)[top]) <= space
    <3>1. set \in SUBSET a.intersect
      BY <1>1, PartFacts
    <3>2. Space(m, v, mode, set) \in 0..Cardinality(Ids)
          /\ (mode \in {"pruned", "deferred"} /\ set = Part(args[m], v) =>
                Size(args[m], v) <= Space(m, v, mode, set))
      BY <1>4, <2>1, <3>1, SpaceFacts DEF SpaceInv, Builds
    <3> QED BY <2>1, <3>2
  <2> HIDE DEF a, r, c, u, space, v, top
  <2>8. Sound(a, Append(r, row), u + space, d) /\ Stays(r, Append(r, row), c, d)
    BY ONLY <1>1, <2>1, <2>7, GrowSound, mode \in {"pruned", "deferred", "unpruned"} DEF top
  <2> QED BY <2>6, <2>8
<1> QED BY <1>2, <1>3, <1>4

\* What a step does to the rows.
LEMMA RowsStep ==
  ASSUME SpaceInv, RowsInv, NoSharedCostModel, Next
  PROVE  /\ args' = args
         /\ \A m \in MiniGraphs : /\ Sound(args[m], rows'[m], used'[m], cells'[m])
                                  /\ Stays(rows[m], rows'[m], cells[m], cells'[m])
<1>1. /\ args' = args /\ StaysTotal
      /\ \A m \in MiniGraphs :
           Same(m) \/ Builds(m) \/ \E i \in DOMAIN rows[m] : Prunes(m, i)
  BY StepMeans DEF SpaceInv
<1> QED BY <1>1, StepSound

\* The inductive invariant of the rows, on top of that of space.
LEMMA RowsInvariance ==
  ASSUME NoSharedCostModel
  PROVE  Spec => [](SpaceInv /\ RowsInv)
<1>1. Init => RowsInv
  <2> SUFFICES ASSUME Init PROVE RowsInv
    OBVIOUS
  <2>1. /\ rows = [m \in MiniGraphs |-> << >>] /\ used = [m \in MiniGraphs |-> 0]
    BY DEF Init
  <2>2. Cardinality(Ids) \in Nat
    BY RowsAssumption, FS_CardinalityType
  <2>3. 0 <= 0 * Cardinality(Ids)
    BY <2>2
  <2> QED BY <2>1, <2>3 DEF RowsInv, Sound, Laid, Filled
<1>2. SpaceInv /\ RowsInv /\ [Next]_vars => RowsInv'
  <2> SUFFICES ASSUME SpaceInv, RowsInv, [Next]_vars PROVE RowsInv'
    OBVIOUS
  <2>1. CASE Next
    BY <2>1, RowsStep DEF RowsInv
  <2>2. CASE UNCHANGED vars
    BY <2>2 DEF vars, RowsInv
  <2> QED BY <2>1, <2>2
<1> QED BY <1>1, <1>2, SpaceInvariance, PTL DEF Spec

\* If no mini graph is built from the data graph under the cost model with sets that
\* begin at the same address, every row that is read has, in m_intersect and below the
\* vertex if bounded, the neighbourhood of its vertex in the data graph, whatever has
\* been read, pruned or deferred before.
THEOREM RowsAsPromised ==
  ASSUME NoSharedCostModel
  PROVE  Spec => []RowsPromised
<1>1. SpaceInv /\ RowsInv => RowsPromised
  <2> SUFFICES ASSUME SpaceInv, RowsInv, NEW m \in MiniGraphs, Built("outer"), Built(m),
                      NEW i \in DOMAIN rows[m]
               PROVE  Kept(m, Vertices(m)[i], N(m, i)) =
                        Kept(m, Vertices(m)[i], Adj[Vertices(m)[i]])
    BY DEF RowsPromised
  <2> DEFINE a == args[m]
             v == Vertices(m)[i]
             row == rows[m][i]
  <2>1. /\ a \in Arguments /\ Vertices(m) = Order(a) /\ row \in Row
        /\ Kept(m, v, Adj[v]) = Part(a, v)
    BY StateFacts DEF SpaceInv
  <2>2. i \in 1..Cardinality(a.vertex)
    BY RowFacts
  <2>3. v \in a.vertex
    BY <2>1, <2>2, OrderFacts
  <2>4. Kept(m, v, Source(m, v)) = Part(a, v)
    BY <2>3, PruningFacts
  <2>5. row.mode \in {"pruned", "deferred", "unpruned"}
        /\ (row.mode = "pruned" => Cells(cells[m], row.pos, row.len) = Part(a, v))
    BY <2>1 DEF RowsInv, Sound, Laid, Filled, Row
  <2>6. N(m, i) = CASE row.mode = "pruned" -> Stored(m, row)
                    [] row.mode = "deferred" -> Kept(m, v, Source(m, v))
                    [] row.mode = "unpruned" -> Source(m, v)
                    [] OTHER -> {Junk}
    BY DEF N, Value
  <2>7. Stored(m, row) = Cells(cells[m], row.pos, row.len)
    BY DEF Stored, Cells
  <2>8. Kept(m, v, Part(a, v)) = Part(a, v)
    BY DEF Kept, Part
  <2> HIDE DEF a, v, row
  <2>9. N(m, i) \in {Part(a, v), Source(m, v)}
    BY <2>4, <2>5, <2>6, <2>7
  <2>10. Kept(m, v, N(m, i)) = Part(a, v)
    BY <2>4, <2>8, <2>9
  <2> QED BY <2>1, <2>10 DEF v
<1> QED BY <1>1, RowsInvariance, PTL

\* Under the same condition a pruned row keeps its place and its elements: building and
\* pruning other rows does not write over it, since the space set aside for a deferred
\* row is at least what it needs and the rows do not overlap.
THEOREM PrunedRowsStay ==
  ASSUME NoSharedCostModel
  PROVE  Spec => RowsStay
<1> DEFINE Stay == \A m \in MiniGraphs : \A i \in DOMAIN rows[m] :
                     rows[m][i].mode = "pruned" =>
                       /\ rows'[m][i] = rows[m][i]
                       /\ \A k \in rows[m][i].pos..(rows[m][i].pos + rows[m][i].len - 1) :
                            cells'[m][k] = cells[m][k]
<1>1. SpaceInv /\ RowsInv /\ [Next]_vars => [Stay]_vars
  <2> SUFFICES ASSUME SpaceInv, RowsInv, Next PROVE Stay
    OBVIOUS
  <2> QED BY RowsStep DEF Stays, SameCells
<1> QED BY <1>1, RowsInvariance, PTL DEF Spec, RowsStay
===============================================================================
