---------------------------- MODULE Converter_proofs ----------------------------
(***************************************************************************)
(* Conversions that are killed and started again, texts that are replaced  *)
(* and a runner that loads meanwhile, for any texts, any number of runs    *)
(* and every interleaving: if a conversion that nothing disturbs writes    *)
(* the graph of its text, a runner loads that graph or refuses, and a      *)
(* completed conversion leaves nothing of what was there before.           *)
(***************************************************************************)
EXTENDS Converter, SequenceTheorems, FiniteSetTheorems, TLAPS

(***************************************************************************)
(* The files of a conversion.                                              *)
(***************************************************************************)
Files == [name : FileNames, data : Seq(Nat)]
Names(s) == {s[i].name : i \in DOMAIN s}
Distinct(s) == \A i, j \in DOMAIN s : s[i].name = s[j].name => i = j

\* Files behind others with other names.
LEMMA JoinFacts ==
  ASSUME NEW s \in Seq(Files), NEW t \in Seq(Files), Distinct(s), Distinct(t),
         Names(s) \intersect Names(t) = {}
  PROVE  s \o t \in Seq(Files) /\ Distinct(s \o t) /\ Names(s \o t) = Names(s) \union Names(t)
<1> DEFINE u == s \o t
<1>1. /\ Len(s) \in Nat /\ Len(t) \in Nat /\ DOMAIN s = 1..Len(s) /\ DOMAIN t = 1..Len(t)
      /\ u \in Seq(Files) /\ Len(u) = Len(s) + Len(t)
      /\ \A i \in 1..Len(s) + Len(t) : u[i] = IF i <= Len(s) THEN s[i] ELSE t[i - Len(s)]
  BY ConcatProperties, LenProperties
<1>2. DOMAIN u = 1..(Len(s) + Len(t))
  BY <1>1, LenProperties
<1> HIDE DEF u
<1>3. \A i \in DOMAIN u : \/ i \in DOMAIN s /\ u[i] = s[i]
                          \/ i - Len(s) \in DOMAIN t /\ u[i] = t[i - Len(s)]
  BY <1>1, <1>2
<1>4. /\ \A i \in DOMAIN s : i \in DOMAIN u /\ u[i] = s[i]
      /\ \A i \in DOMAIN t : Len(s) + i \in DOMAIN u /\ u[Len(s) + i] = t[i]
  <2>1. ASSUME NEW i \in 1..Len(t) PROVE u[Len(s) + i] = t[i]
    <3>1. Len(s) + i \in 1..(Len(s) + Len(t)) /\ ~(Len(s) + i <= Len(s)) /\ Len(s) + i - Len(s) = i
      BY <1>1
    <3> QED BY <1>1, <3>1
  <2> QED BY <1>1, <1>2, <2>1
<1>5. Names(u) = Names(s) \union Names(t)
  BY <1>3, <1>4 DEF Names
<1>6. ASSUME NEW i \in DOMAIN u, NEW j \in DOMAIN u, u[i].name = u[j].name
      PROVE  i = j
  <2>1. \A k \in DOMAIN s, l \in DOMAIN t : s[k].name # t[l].name
    BY DEF Names
  <2>2. CASE i \in DOMAIN s /\ u[i] = s[i] /\ j \in DOMAIN s /\ u[j] = s[j]
    BY <1>6, <2>2 DEF Distinct
  <2>3. CASE /\ i - Len(s) \in DOMAIN t /\ u[i] = t[i - Len(s)]
             /\ j - Len(s) \in DOMAIN t /\ u[j] = t[j - Len(s)]
    <3>1. i - Len(s) = j - Len(s)
      BY <1>6, <2>3 DEF Distinct
    <3>2. i \in Nat /\ j \in Nat
      BY <1>1, <1>2
    <3> QED BY <1>1, <3>1, <3>2
  <2> QED BY <1>3, <1>6, <2>1, <2>2, <2>3
<1> QED BY <1>1, <1>5, <1>6 DEF Distinct, u

\* An array of numbers, also cut to 32 bits.
LEMMA ArrayFacts ==
  ASSUME NEW name \in FileNames, NEW data \in Seq(Nat), NEW max \in Nat
  PROVE  /\ File(name, data) \in Files
         /\ IfFits(max, name, data) \in Seq(Files) /\ Distinct(IfFits(max, name, data))
         /\ Names(IfFits(max, name, data)) = IF max < MaxU32 THEN {name} ELSE {}
<1>1. /\ Len(data) \in Nat /\ DOMAIN data = 1..Len(data)
      /\ \A k \in DOMAIN data : data[k] \in Nat
  BY LenProperties, ElementOfSeq
<1>2. MaxU32 + 1 \in Nat /\ MaxU32 + 1 > 0
  BY ConverterAssumption
<1>3. \A k \in DOMAIN data : data[k] % (MaxU32 + 1) \in Nat
  BY <1>1, <1>2
<1>4. To32(data) \in Seq(Nat)
  <2>1. To32(data) \in [1..Len(data) -> Nat]
    BY <1>1, <1>3 DEF To32
  <2> QED BY <1>1, <2>1, SeqDef
<1>5. File(name, data) \in Files /\ File(name, To32(data)) \in Files
      /\ File(name, To32(data)).name = name
  BY <1>4 DEF File, Files
<1>6. CASE max < MaxU32
  <2> DEFINE file == File(name, To32(data))
  <2>1. IfFits(max, name, data) = <<file>>
    BY <1>6 DEF IfFits
  <2> HIDE DEF file
  <2>2. <<file>> \in Seq(Files) /\ DOMAIN <<file>> = {1} /\ <<file>>[1] = file
    BY <1>5 DEF file
  <2> QED BY <1>5, <1>6, <2>1, <2>2 DEF Distinct, Names, file
<1>7. CASE ~(max < MaxU32)
  BY <1>5, <1>7 DEF IfFits, Distinct, Names
<1> QED BY <1>5, <1>6, <1>7

\* What a conversion writes: files with different names, the first of them meta.txt, the
\* 32-bit indices if the vertices fit.
LEMMA FilesFacts ==
  ASSUME LoadsNumbers, NEW t \in Texts
  PROVE  /\ FilesOf[t] \in Seq(Files) /\ Distinct(FilesOf[t])
         /\ FilesOf[t] # << >> /\ FilesOf[t][1].name = "meta"
         /\ FilesOf[t][1].data = << load_txt(t).v_num, load_txt(t).e_num, load_txt(t).tri_num,
                                    load_txt(t).max_deg, load_txt(t).max_offset,
                                    load_txt(t).max_tri >>
         /\ {"indptr_u64", "offset_u64", "triangle_u64"} \subseteq Names(FilesOf[t])
         /\ "indices_u32" \in Names(FilesOf[t]) <=> load_txt(t).v_num < MaxU32
<1>1. PICK g : g = load_txt(t)
  OBVIOUS
<1>2. /\ g.v_num \in Nat /\ g.e_num \in Nat /\ g.tri_num \in Nat /\ g.max_deg \in Nat
      /\ g.max_offset \in Nat /\ g.max_tri \in Nat
      /\ g.indices \in Seq(Nat) /\ g.indptr \in Seq(Nat) /\ g.triangles \in Seq(Nat)
      /\ g.degrees \in Seq(Nat) /\ g.offsets \in Seq(Nat)
  BY <1>1 DEF LoadsNumbers
<1>3. FilesOf[t] = save_meta(g) \o save_bin(g)
  BY <1>1 DEF FilesOf
<1> DEFINE a == IfFits(g.v_num, "indices_u32", g.indices)
           b == IfFits(g.e_num, "indptr_u32", g.indptr)
           c == IfFits(g.max_deg, "degree_u32", g.degrees)
           d == IfFits(g.max_offset, "offset_u32", g.offsets)
           e == IfFits(g.max_tri, "triangle_u32", g.triangles)
<1>4. /\ a \in Seq(Files) /\ Distinct(a) /\ b \in Seq(Files) /\ Distinct(b)
      /\ c \in Seq(Files) /\ Distinct(c) /\ d \in Seq(Files) /\ Distinct(d)
      /\ e \in Seq(Files) /\ Distinct(e)
      /\ Names(a) = (IF g.v_num < MaxU32 THEN {"indices_u32"} ELSE {})
      /\ Names(b) \subseteq {"indptr_u32"} /\ Names(c) \subseteq {"degree_u32"}
      /\ Names(d) \subseteq {"offset_u32"} /\ Names(e) \subseteq {"triangle_u32"}
  BY <1>2, ArrayFacts DEF FileNames
<1>5. save_bin_u32(g) = a \o b \o c \o d \o e
  BY DEF save_bin_u32
<1> HIDE DEF a, b, c, d, e
<1> DEFINE ab == a \o b
           abc == ab \o c
           abcd == abc \o d
<1>6. ab \in Seq(Files) /\ Distinct(ab) /\ Names(ab) = Names(a) \union Names(b)
  <2>1. Names(a) \intersect Names(b) = {}
    BY <1>4
  <2> QED BY <1>4, <2>1, JoinFacts
<1> HIDE DEF ab
<1>7. abc \in Seq(Files) /\ Distinct(abc) /\ Names(abc) = Names(ab) \union Names(c)
  <2>1. Names(ab) \intersect Names(c) = {}
    BY <1>4, <1>6
  <2> QED BY <1>4, <1>6, <2>1, JoinFacts
<1> HIDE DEF abc
<1>8. abcd \in Seq(Files) /\ Distinct(abcd) /\ Names(abcd) = Names(abc) \union Names(d)
  <2>1. Names(abc) \intersect Names(d) = {}
    BY <1>4, <1>6, <1>7
  <2> QED BY <1>4, <1>7, <2>1, JoinFacts
<1> HIDE DEF abcd
<1>9. /\ save_bin_u32(g) \in Seq(Files) /\ Distinct(save_bin_u32(g))
      /\ Names(save_bin_u32(g)) =
           Names(a) \union Names(b) \union Names(c) \union Names(d) \union Names(e)
  <2>1. Names(abcd) \intersect Names(e) = {}
    BY <1>4, <1>6, <1>7, <1>8
  <2>2. /\ abcd \o e \in Seq(Files) /\ Distinct(abcd \o e)
        /\ Names(abcd \o e) = Names(abcd) \union Names(e)
    BY <1>4, <1>8, <2>1, JoinFacts
  <2>3. save_bin_u32(g) = abcd \o e
    BY <1>5 DEF ab, abc, abcd
  <2> QED BY <1>6, <1>7, <1>8, <2>2, <2>3
<1> DEFINE wide == << File("indices_u64", g.indices), File("indptr_u64", g.indptr),
                      File("triangle_u64", g.triangles), File("degree_u64", g.degrees),
                      File("offset_u64", g.offsets) >>
<1>10. /\ wide \in Seq(Files) /\ Distinct(wide)
       /\ Names(wide) = {"indices_u64", "indptr_u64", "triangle_u64", "degree_u64", "offset_u64"}
  <2>1. /\ File("indices_u64", g.indices) \in Files /\ File("indptr_u64", g.indptr) \in Files
        /\ File("triangle_u64", g.triangles) \in Files /\ File("degree_u64", g.degrees) \in Files
        /\ File("offset_u64", g.offsets) \in Files
    BY <1>2, ArrayFacts DEF FileNames
  <2>2. /\ wide \in Seq(Files) /\ DOMAIN wide = 1..5
    BY <2>1
  <2>3. /\ wide[1].name = "indices_u64" /\ wide[2].name = "indptr_u64"
        /\ wide[3].name = "triangle_u64" /\ wide[4].name = "degree_u64"
        /\ wide[5].name = "offset_u64"
    BY DEF File
  <2> HIDE DEF wide
  <2>4. 1..5 = {1, 2, 3, 4, 5}
    OBVIOUS
  <2> QED BY <2>2, <2>3, <2>4 DEF Distinct, Names
<1>11. save_bin(g) = wide \o save_bin_u32(g)
  BY DEF save_bin
<1> HIDE DEF wide
<1>12. /\ save_bin(g) \in Seq(Files) /\ Distinct(save_bin(g))
       /\ Names(save_bin(g)) = Names(wide) \union Names(save_bin_u32(g))
  <2>1. Names(wide) \intersect Names(save_bin_u32(g)) = {}
    BY <1>4, <1>9, <1>10
  <2> DEFINE narrow == save_bin_u32(g)
  <2> HIDE DEF narrow
  <2>2. /\ wide \o narrow \in Seq(Files) /\ Distinct(wide \o narrow)
        /\ Names(wide \o narrow) = Names(wide) \union Names(narrow)
    BY <1>9, <1>10, <2>1, JoinFacts DEF narrow
  <2> QED BY <1>11, <2>2 DEF narrow
<1> DEFINE data == <<g.v_num, g.e_num, g.tri_num, g.max_deg, g.max_offset, g.max_tri>>
           meta == File("meta", data)
<1>13. data \in Seq(Nat)
  BY <1>2
<1>14. meta \in Files /\ meta.name = "meta" /\ meta.data = data
  BY <1>13 DEF File, Files, FileNames
<1>15. save_meta(g) = <<meta>>
  BY DEF save_meta
<1> HIDE DEF meta, data
<1>16. /\ <<meta>> \in Seq(Files) /\ Distinct(<<meta>>) /\ Names(<<meta>>) = {"meta"}
       /\ <<meta>>[1] = meta /\ Len(<<meta>>) = 1
  <2>1. <<meta>> \in Seq(Files) /\ DOMAIN <<meta>> = {1} /\ <<meta>>[1] = meta /\ Len(<<meta>>) = 1
    BY <1>14
  <2> QED BY <1>14, <2>1 DEF Distinct, Names
<1>17. Names(<<meta>>) \intersect Names(save_bin(g)) = {}
  BY <1>4, <1>9, <1>10, <1>12, <1>16
<1>18. /\ FilesOf[t] \in Seq(Files) /\ Distinct(FilesOf[t])
       /\ Names(FilesOf[t]) = {"meta"} \union Names(save_bin(g))
  <2> DEFINE first == <<meta>>
             bin == save_bin(g)
  <2>1. /\ first \in Seq(Files) /\ Distinct(first) /\ bin \in Seq(Files) /\ Distinct(bin)
        /\ Names(first) \intersect Names(bin) = {}
    BY <1>12, <1>16, <1>17
  <2> HIDE DEF first, bin
  <2>2. /\ first \o bin \in Seq(Files) /\ Distinct(first \o bin)
        /\ Names(first \o bin) = Names(first) \union Names(bin)
    BY <2>1, JoinFacts
  <2> QED BY <1>3, <1>15, <1>16, <2>2 DEF first, bin
<1>19. FilesOf[t] # << >> /\ FilesOf[t][1] = meta
  <2>1. /\ Len(<<meta>> \o save_bin(g)) = 1 + Len(save_bin(g)) /\ Len(save_bin(g)) \in Nat
        /\ \A i \in 1..(1 + Len(save_bin(g))) :
             (<<meta>> \o save_bin(g))[i] =
               IF i <= 1 THEN <<meta>>[i] ELSE save_bin(g)[i - 1]
    BY <1>12, <1>16, ConcatProperties, LenProperties
  <2>2. 1 \in 1..(1 + Len(save_bin(g)))
    BY <2>1
  <2>3. (<<meta>> \o save_bin(g))[1] = meta
    BY <1>16, <2>1, <2>2
  <2>4. Len(FilesOf[t]) > 0
    BY <1>3, <1>15, <2>1
  <2> QED BY <1>3, <1>15, <2>3, <2>4
<1>20. "indices_u32" \in Names(FilesOf[t]) <=> g.v_num < MaxU32
  BY <1>4, <1>9, <1>10, <1>12, <1>18
<1>21. {"indptr_u64", "offset_u64", "triangle_u64"} \subseteq Names(FilesOf[t])
  BY <1>10, <1>12, <1>18
<1> QED BY <1>1, <1>14, <1>18, <1>19, <1>20, <1>21 DEF data

(***************************************************************************)
(* Invariants.                                                             *)
(***************************************************************************)
\* The first n numbers of a file.
Cut(content, data) == \E n \in 0..Len(data) : content = SubSeq(data, 1, n)

\* Every file of the directory is one of a converted text, as far as it was written;
\* meta.txt is empty or complete.
OnDisk(d, converted) ==
  /\ d = [f \in FileNames |-> d[f]]
  /\ \A f \in FileNames : d[f] # Absent =>
       \E t \in converted : \E k \in DOMAIN FilesOf[t] :
         /\ FilesOf[t][k].name = f /\ Cut(d[f], FilesOf[t][k].data)
         /\ f = "meta" => d[f] \in {<< >>, FilesOf[t][k].data}

\* A conversion of t that has yet to write the files of p.
Done(t, p) == Len(FilesOf[t]) - Len(p)
Behind(t, p, d) ==
  /\ Done(t, p) \in Nat
  /\ \A k \in 1..Len(p) : p[k] = FilesOf[t][Done(t, p) + k]
  /\ \A k \in 1..Done(t, p) : d[FilesOf[t][k].name] = FilesOf[t][k].data
  /\ p # << >> => Cut(d[p[1].name], p[1].data)

\* The conversion at work, or the last one.
AtWork ==
  /\ pending \in Seq(Files)
  /\ Converting => text \in sources /\ Behind(text, pending, disk)
  /\ current \in BOOLEAN
  /\ current => ~Converting /\ text \in sources /\ Behind(text, << >>, disk)

\* What has been read is the start of files of converted texts.
ReadSoFar(l, converted) ==
  /\ l = [step |-> l.step, meta |-> l.meta, arrays |-> l.arrays]
  /\ l.step \in {"meta", "arrays", "loaded", "refused"}
  /\ l.arrays \in Seq(Seq(Nat))
  /\ l.step = "meta" => l.arrays = << >>
  /\ l.step \in {"arrays", "loaded"} =>
       /\ \E t \in converted : l.meta = MetaOf(t)
       /\ Len(l.arrays) <= 4 /\ (l.step = "loaded" <=> Len(l.arrays) = 4)
       /\ \A k \in 1..Len(l.arrays) : \E t \in converted : \E j \in DOMAIN FilesOf[t] :
            /\ FilesOf[t][j].name = Wanted(l.meta)[k][1]
            /\ l.arrays[k] = Start(FilesOf[t][j].data, Wanted(l.meta)[k][2])
            /\ Wanted(l.meta)[k][2] <= Len(FilesOf[t][j].data)

ConverterInv ==
  /\ text \in Texts /\ sources \subseteq Texts /\ runs \in 0..MaxRuns
  /\ OnDisk(disk, sources) /\ AtWork /\ ReadSoFar(load, sources)

(***************************************************************************)
(* Prefixes.                                                               *)
(***************************************************************************)
\* What has been written of a file.
LEMMA CutFacts ==
  ASSUME NEW data \in Seq(Nat), NEW content, Cut(content, data)
  PROVE  /\ content \in Seq(Nat) /\ Len(content) \in 0..Len(data) /\ Len(data) \in Nat
         /\ content = SubSeq(data, 1, Len(content))
         /\ content # Absent /\ IsPrefix(content, data)
<1>1. PICK n \in 0..Len(data) : content = SubSeq(data, 1, n)
  BY DEF Cut
<1>2. Len(data) \in Nat /\ \A k \in 1..Len(data) : data[k] \in Nat
  BY LenProperties, ElementOfSeq
<1>3. \A k \in 1..n : data[k] \in Nat
  BY <1>1, <1>2
<1>4. /\ content \in Seq(Nat) /\ Len(content) = n
      /\ \A k \in 1..n : content[k] = data[k]
  <2>1. 1 \in Int /\ n \in Int
    BY <1>1, <1>2
  <2>2. /\ SubSeq(data, 1, n) \in Seq(Nat)
        /\ Len(SubSeq(data, 1, n)) = IF 1 <= n THEN n - 1 + 1 ELSE 0
        /\ \A i \in 1..(n - 1 + 1) : SubSeq(data, 1, n)[i] = data[1 + i - 1]
    BY <1>3, <2>1, SubSeqProperties
  <2>3. n - 1 + 1 = n /\ (IF 1 <= n THEN n - 1 + 1 ELSE 0) = n /\ \A i \in 1..n : 1 + i - 1 = i
    BY <1>1, <1>2
  <2> QED BY <1>1, <2>2, <2>3
<1>5. content # Absent
  <2> SUFFICES ASSUME content = <<-1>> PROVE FALSE
    BY DEF Absent
  <2>1. content[1] = -1 /\ Len(content) = 1
    OBVIOUS
  <2>2. content[1] \in Nat
    BY <1>4, <2>1, ElementOfSeq
  <2> QED BY <2>1, <2>2
<1>6. IsPrefix(content, data)
  <2>1. SubSeq(content, 1, n) = content
    BY <1>1, <1>2, <1>4
  <2> QED BY <1>1, <1>2, <1>4, <2>1 DEF IsPrefix
<1> QED BY <1>1, <1>2, <1>4, <1>5, <1>6

\* An empty, a partly written and a complete file.
LEMMA CutsOf ==
  ASSUME NEW data \in Seq(Nat)
  PROVE  /\ Cut(<< >>, data) /\ Cut(data, data)
         /\ \A n \in 0..Len(data) : Cut(SubSeq(data, 1, n), data)
<1>1. Len(data) \in Nat
  BY LenProperties
<1>2. SubSeq(data, 1, 0) = << >>
  BY <1>1
<1>3. SubSeq(data, 1, Len(data)) = data
  BY <1>1
<1>4. 0 \in 0..Len(data) /\ Len(data) \in 0..Len(data)
  BY <1>1
<1>5. Cut(<< >>, data)
  BY <1>2, <1>4, Zenon DEF Cut
<1>6. Cut(data, data)
  BY <1>3, <1>4, Zenon DEF Cut
<1>7. \A n \in 0..Len(data) : Cut(SubSeq(data, 1, n), data)
  BY Zenon DEF Cut
<1> QED BY <1>5, <1>6, <1>7

\* The smaller of two numbers.
LEMMA MinFacts ==
  ASSUME NEW x \in Nat, NEW y \in Nat
  PROVE  Min({x, y}) = IF x <= y THEN x ELSE y
<1>1. \E z \in {x, y} : \A w \in {x, y} : z <= w
  <2>1. x <= y \/ y <= x
    OBVIOUS
  <2> QED BY <2>1
<1>2. Min({x, y}) \in {x, y} /\ \A w \in {x, y} : Min({x, y}) <= w
  BY <1>1 DEF Min
<1> QED BY <1>2

\* The start of a file does not depend on how much more of it was written.
LEMMA StartFacts ==
  ASSUME NEW data \in Seq(Nat), NEW content, Cut(content, data), NEW num \in 0..Len(content)
  PROVE  /\ Start(content, num) = Start(data, num) /\ Start(content, num) \in Seq(Nat)
         /\ Len(Start(data, num)) = num /\ num <= Len(data)
<1>1. /\ content \in Seq(Nat) /\ Len(content) \in 0..Len(data) /\ Len(data) \in Nat
      /\ content = SubSeq(data, 1, Len(content))
  BY CutFacts
<1>2. num \in Nat /\ num <= Len(content) /\ num <= Len(data) /\ Len(content) \in Nat
  BY <1>1
<1>3. Start(content, num) = SubSeq(content, 1, num) /\ Start(data, num) = SubSeq(data, 1, num)
  BY <1>1, <1>2, MinFacts DEF Start
<1>4. Cut(SubSeq(data, 1, num), data) /\ Cut(SubSeq(content, 1, num), content)
  BY <1>1, <1>2, CutsOf
<1>5. SubSeq(content, 1, num) \in Seq(Nat) /\ SubSeq(data, 1, num) \in Seq(Nat)
  BY <1>1, <1>4, CutFacts
<1>6. Len(SubSeq(data, 1, num)) = num /\ Len(SubSeq(content, 1, num)) = num
      /\ \A k \in 1..num : /\ SubSeq(data, 1, num)[k] = data[k]
                           /\ SubSeq(content, 1, num)[k] = content[k]
  BY <1>1, <1>2
<1>7. \A k \in 1..num : content[k] = data[k]
  BY <1>1, <1>2
<1>8. SubSeq(content, 1, num) = SubSeq(data, 1, num)
  BY <1>5, <1>6, <1>7, SeqEqual
<1> QED BY <1>2, <1>3, <1>5, <1>6, <1>8

(***************************************************************************)
(* The files on disk.                                                      *)
(***************************************************************************)
\* The files of one text.
LEMMA FileFacts ==
  ASSUME LoadsNumbers, NEW t \in Texts
  PROVE  /\ FilesOf[t] \in Seq(Files) /\ Distinct(FilesOf[t]) /\ Len(FilesOf[t]) \in Nat
         /\ DOMAIN FilesOf[t] = 1..Len(FilesOf[t]) /\ 1 \in DOMAIN FilesOf[t]
         /\ FilesOf[t][1].name = "meta"
         /\ \A k \in DOMAIN FilesOf[t] : /\ FilesOf[t][k].name \in FileNames
                                         /\ FilesOf[t][k].data \in Seq(Nat)
                                         /\ FilesOf[t][k] \in Files
<1>1. FilesOf[t] \in Seq(Files) /\ Distinct(FilesOf[t]) /\ FilesOf[t] # << >>
      /\ FilesOf[t][1].name = "meta"
  BY FilesFacts
<1>2. Len(FilesOf[t]) \in Nat /\ DOMAIN FilesOf[t] = 1..Len(FilesOf[t])
      /\ \A k \in DOMAIN FilesOf[t] : FilesOf[t][k] \in Files
  BY <1>1, LenProperties, ElementOfSeq
<1>3. 1 \in DOMAIN FilesOf[t]
  <2>1. Len(FilesOf[t]) # 0
    BY <1>1, EmptySeq
  <2> QED BY <1>2, <2>1
<1> QED BY <1>1, <1>2, <1>3 DEF Files

\* The file a conversion is about to write.
LEMMA NextFile ==
  ASSUME LoadsNumbers, ConverterInv, Converting
  PROVE  LET k == Done(text, pending) + 1
             file == FilesOf[text][k]
         IN  /\ k \in DOMAIN FilesOf[text] /\ Head(pending) = file /\ pending[1] = file
             /\ file.name \in FileNames /\ file.data \in Seq(Nat)
             /\ Cut(disk[file.name], file.data)
             /\ Len(pending) \in Nat /\ Len(pending) > 0
             /\ Done(text, pending) = Len(FilesOf[text]) - Len(pending)
             /\ text \in sources /\ Behind(text, pending, disk)
<1>1. /\ pending \in Seq(Files) /\ pending # << >> /\ text \in Texts
      /\ text \in sources /\ Behind(text, pending, disk)
  BY DEF ConverterInv, AtWork, Converting
<1>2. Len(pending) \in Nat /\ Len(pending) > 0 /\ Head(pending) = pending[1]
  BY <1>1, LenProperties, EmptySeq
<1>3. Len(FilesOf[text]) \in Nat /\ DOMAIN FilesOf[text] = 1..Len(FilesOf[text])
  BY <1>1, FileFacts
<1>4. Done(text, pending) \in Nat /\ Done(text, pending) = Len(FilesOf[text]) - Len(pending)
  BY <1>1 DEF Behind, Done
<1>5. Done(text, pending) + 1 \in 1..Len(FilesOf[text])
  BY <1>2, <1>3, <1>4
<1>6. pending[1] = FilesOf[text][Done(text, pending) + 1]
  BY <1>1, <1>2 DEF Behind
<1> QED BY <1>1, <1>2, <1>3, <1>4, <1>5, <1>6, FileFacts DEF Behind

(***************************************************************************)
(* What a step does.                                                       *)
(***************************************************************************)
\* Writing files of converted texts.
LEMMA WritesFacts ==
  ASSUME LoadsNumbers, NEW S, NEW T, S \subseteq T, OnDisk(disk, S),
         NEW d, d = [f \in FileNames |-> d[f]],
         \A f \in FileNames :
           \/ d[f] = disk[f]
           \/ \E t \in T : \E k \in DOMAIN FilesOf[t] :
                /\ FilesOf[t][k].name = f /\ Cut(d[f], FilesOf[t][k].data)
                /\ f = "meta" => d[f] \in {<< >>, FilesOf[t][k].data}
  PROVE  OnDisk(d, T)
BY DEF OnDisk

\* The reader is not disturbed by further conversions.
LEMMA ReadMore ==
  ASSUME NEW S, NEW T, S \subseteq T, ReadSoFar(load, S)
  PROVE  ReadSoFar(load, T)
BY DEF ReadSoFar

\* convert starts.
LEMMA ConvertStep ==
  ASSUME LoadsNumbers, ConverterInv, Convert
  PROVE  ConverterInv'
<1>1. /\ text \in Texts /\ sources \subseteq Texts /\ runs \in 0..MaxRuns
      /\ OnDisk(disk, sources) /\ ReadSoFar(load, sources)
  BY DEF ConverterInv
<1>2. /\ runs < MaxRuns /\ pending' = FilesOf[text] /\ disk' = [disk EXCEPT !["meta"] = << >>]
      /\ current' = FALSE /\ sources' = sources \union {text} /\ runs' = runs + 1
      /\ text' = text /\ load' = load
  BY DEF Convert
<1>3. /\ FilesOf[text] \in Seq(Files) /\ Len(FilesOf[text]) \in Nat
      /\ DOMAIN FilesOf[text] = 1..Len(FilesOf[text]) /\ 1 \in DOMAIN FilesOf[text]
      /\ FilesOf[text][1].name = "meta" /\ FilesOf[text][1].data \in Seq(Nat)
  BY <1>1, FileFacts
<1>4. Cut(<< >>, FilesOf[text][1].data)
  BY <1>3, CutsOf
<1>5. /\ disk = [f \in FileNames |-> disk[f]] /\ "meta" \in FileNames
  BY <1>1 DEF OnDisk, FileNames
<1>6. /\ disk' = [f \in FileNames |-> disk'[f]] /\ disk'["meta"] = << >>
      /\ \A f \in FileNames : f # "meta" => disk'[f] = disk[f]
  BY <1>2, <1>5
<1>7. OnDisk(disk', sources')
  <2>1. ASSUME NEW f \in FileNames, f = "meta"
        PROVE  \E t \in sources' : \E k \in DOMAIN FilesOf[t] :
                 /\ FilesOf[t][k].name = f /\ Cut(disk'[f], FilesOf[t][k].data)
                 /\ f = "meta" => disk'[f] \in {<< >>, FilesOf[t][k].data}
    <3>1. text \in sources'
      BY <1>2
    <3> QED BY <1>3, <1>4, <1>6, <2>1, <3>1
  <2>2. sources \subseteq sources'
    BY <1>2
  <2> QED BY <1>1, <1>6, <2>1, <2>2, WritesFacts
<1>8. Behind(text, pending', disk')
  <2>1. Done(text, pending') = 0
    BY <1>2, <1>3 DEF Done
  <2>2. \A k \in 1..Len(pending') : 0 + k = k
    BY <1>2, <1>3
  <2> QED BY <1>2, <1>3, <1>4, <1>6, <2>1, <2>2 DEF Behind
<1>9. AtWork'
  BY <1>2, <1>3, <1>8 DEF AtWork, Converting
<1>10. ReadSoFar(load', sources')
  BY <1>1, <1>2, ReadMore
<1>11. runs' \in 0..MaxRuns
  BY <1>1, <1>2, ConverterAssumption
<1> QED BY <1>1, <1>2, <1>7, <1>9, <1>10, <1>11 DEF ConverterInv

\* Part of a file is written.
LEMMA FlushStep ==
  ASSUME LoadsNumbers, ConverterInv, Flush
  PROVE  ConverterInv'
<1> DEFINE k == Done(text, pending) + 1
           file == FilesOf[text][k]
<1>1. /\ text \in Texts /\ sources \subseteq Texts /\ runs \in 0..MaxRuns
      /\ OnDisk(disk, sources) /\ ReadSoFar(load, sources) /\ AtWork
  BY DEF ConverterInv
<1>2. Converting
  BY DEF Flush
<1>3. /\ k \in DOMAIN FilesOf[text] /\ Head(pending) = file /\ pending[1] = file
      /\ file.name \in FileNames /\ file.data \in Seq(Nat) /\ Cut(disk[file.name], file.data)
      /\ text \in sources /\ Behind(text, pending, disk)
  BY <1>2, NextFile
<1>4. PICK more \in 1..(Len(file.data) - Len(disk[file.name]) - 1) :
        disk' = [disk EXCEPT ![file.name] = SubSeq(file.data, 1, Len(disk[file.name]) + more)]
  BY <1>3 DEF Flush
<1>5. /\ file.name # "meta"
      /\ text' = text /\ pending' = pending /\ current' = current /\ sources' = sources
      /\ runs' = runs /\ load' = load
  BY <1>3 DEF Flush
<1>6. Len(disk[file.name]) + more \in 0..Len(file.data)
  <2> DEFINE content == disk[file.name]
             data == file.data
  <2>1. data \in Seq(Nat) /\ Cut(content, data) /\ more \in 1..(Len(data) - Len(content) - 1)
    BY <1>3, <1>4
  <2> HIDE DEF content, data
  <2>2. Len(content) \in 0..Len(data) /\ Len(data) \in Nat
    BY ONLY <2>1, CutFacts
  <2>3. Len(content) + more \in 0..Len(data)
    BY <2>1, <2>2
  <2> QED BY <2>3 DEF content, data
<1>7. disk = [f \in FileNames |-> disk[f]]
  BY <1>1 DEF OnDisk
<1>8. /\ disk' = [f \in FileNames |-> disk'[f]]
      /\ disk'[file.name] = SubSeq(file.data, 1, Len(disk[file.name]) + more)
      /\ \A f \in FileNames : f # file.name => disk'[f] = disk[f]
  BY <1>3, <1>4, <1>7
<1>9. Cut(disk'[file.name], file.data)
  BY <1>3, <1>6, <1>8, CutsOf
<1> HIDE DEF file, k
<1>10. OnDisk(disk', sources)
  <2>1. \E t \in sources : \E j \in DOMAIN FilesOf[t] :
          /\ FilesOf[t][j].name = file.name /\ Cut(disk'[file.name], FilesOf[t][j].data)
          /\ file.name = "meta" => disk'[file.name] \in {<< >>, FilesOf[t][j].data}
    BY <1>3, <1>5, <1>9 DEF file
  <2> QED BY <1>1, <1>8, <2>1, WritesFacts
<1>11. Behind(text, pending, disk')
  <2>1. \A j \in 1..Done(text, pending) :
          /\ FilesOf[text][j].name \in FileNames /\ FilesOf[text][j].name # file.name
    <3>1. /\ Distinct(FilesOf[text]) /\ DOMAIN FilesOf[text] = 1..Len(FilesOf[text])
          /\ \A j \in DOMAIN FilesOf[text] : FilesOf[text][j].name \in FileNames
      BY <1>1, FileFacts
    <3>2. \A j \in 1..Done(text, pending) : j \in DOMAIN FilesOf[text] /\ j # k
      BY <1>1, <1>3, <3>1, FileFacts DEF k, Behind
    <3> QED BY <1>3, <3>1, <3>2 DEF Distinct, file
  <2> QED BY <1>3, <1>8, <1>9, <2>1 DEF Behind
<1>12. AtWork'
  BY <1>1, <1>2, <1>3, <1>5, <1>11 DEF AtWork, Converting
<1> QED BY <1>1, <1>5, <1>10, <1>12 DEF ConverterInv

\* A file is complete, and the next one, if there is one, is opened.
LEMMA CloseStep ==
  ASSUME LoadsNumbers, ConverterInv, Close
  PROVE  ConverterInv'
<1> DEFINE n == Done(text, pending)
           k == n + 1
           file == FilesOf[text][k]
           rest == Tail(pending)
<1>1. /\ text \in Texts /\ sources \subseteq Texts /\ runs \in 0..MaxRuns
      /\ OnDisk(disk, sources) /\ ReadSoFar(load, sources) /\ AtWork
  BY DEF ConverterInv
<1>2. Converting
  BY DEF Close
<1>3. /\ k \in DOMAIN FilesOf[text] /\ Head(pending) = file
      /\ file.name \in FileNames /\ file.data \in Seq(Nat)
      /\ Len(pending) \in Nat /\ Len(pending) > 0 /\ n = Len(FilesOf[text]) - Len(pending)
      /\ text \in sources /\ Behind(text, pending, disk)
  BY <1>2, NextFile
<1>4. /\ disk' = [f \in FileNames |->
                   IF f = file.name THEN file.data
                   ELSE IF rest # << >> /\ f = Head(rest).name THEN << >> ELSE disk[f]]
      /\ pending' = rest /\ current' = (rest = << >>)
      /\ text' = text /\ sources' = sources /\ runs' = runs /\ load' = load
  BY <1>3, Zenon DEF Close
<1>5. /\ Distinct(FilesOf[text]) /\ Len(FilesOf[text]) \in Nat
      /\ DOMAIN FilesOf[text] = 1..Len(FilesOf[text])
      /\ \A j \in DOMAIN FilesOf[text] : /\ FilesOf[text][j].name \in FileNames
                                         /\ FilesOf[text][j].data \in Seq(Nat)
      /\ pending \in Seq(Files) /\ n \in Nat
      /\ FilesOf[text][1].name = "meta" /\ 1 \in DOMAIN FilesOf[text]
  BY <1>1, <1>3, FileFacts DEF AtWork, Behind
<1>6. /\ rest \in Seq(Files) /\ Len(rest) = Len(pending) - 1
      /\ \A j \in 1..Len(rest) : rest[j] = pending[j + 1]
  <2>1. pending # << >>
    BY <1>2 DEF Converting
  <2> QED BY <1>3, <1>5, <2>1, HeadTailProperties
<1>7. Done(text, rest) = k /\ k \in Nat
  BY <1>3, <1>5, <1>6 DEF Done
<1> DEFINE whole == Len(FilesOf[text])
           left == Len(pending)
           last == Len(rest)
<1>14. /\ k = n + 1 /\ n \in Nat /\ n = whole - left /\ left \in Nat /\ left > 0
       /\ whole \in Nat /\ last = left - 1 /\ Done(text, pending) = n
       /\ whole = Len(FilesOf[text]) /\ left = Len(pending) /\ last = Len(rest)
  BY <1>3, <1>5, <1>6
<1> HIDE DEF file, rest, n, k, whole, left, last
<1>15. ASSUME NEW j \in 1..last
       PROVE  j + 1 \in 1..left /\ n + (j + 1) = k + j /\ k + j \in 1..whole
  <2>1. /\ n \in Nat /\ left \in Nat /\ whole \in Nat /\ n = whole - left
        /\ last = left - 1 /\ k = n + 1 /\ j \in 1..last
    BY <1>14
  <2> QED BY ONLY <2>1
<1>16. \A j \in 1..k : j \in 1..whole /\ (j = k \/ (j \in 1..n /\ j # k /\ j # k + 1)) /\ k # k + 1
  BY ONLY <1>14
<1>8. \A j \in 1..Len(rest) : rest[j] = FilesOf[text][k + j] /\ k + j \in DOMAIN FilesOf[text]
  <2> SUFFICES ASSUME NEW j \in 1..Len(rest)
               PROVE  rest[j] = FilesOf[text][k + j] /\ k + j \in DOMAIN FilesOf[text]
    OBVIOUS
  <2>1. j + 1 \in 1..Len(pending) /\ n + (j + 1) = k + j /\ k + j \in 1..Len(FilesOf[text])
    BY <1>14, <1>15
  <2>2. pending[j + 1] = FilesOf[text][n + (j + 1)]
    BY <1>3, <1>14, <2>1 DEF Behind
  <2> QED BY <1>5, <1>6, <2>1, <2>2
<1>9. ASSUME rest # << >>
      PROVE  /\ Head(rest) = FilesOf[text][k + 1] /\ rest[1] = Head(rest)
             /\ k + 1 \in DOMAIN FilesOf[text]
  <2>1. Len(rest) \in Nat \ {0}
    BY <1>6, <1>9, EmptySeq
  <2>2. 1 \in 1..Len(rest) /\ Head(rest) = rest[1]
    BY <1>6, <1>9, <2>1
  <2> QED BY <1>8, <2>2
<1>10. /\ disk' = [f \in FileNames |-> disk'[f]] /\ disk'[file.name] = file.data
       /\ \A f \in FileNames : f # file.name =>
            \/ disk'[f] = disk[f] /\ (rest = << >> \/ f # Head(rest).name)
            \/ rest # << >> /\ f = Head(rest).name /\ disk'[f] = << >>
  BY <1>3, <1>4
<1>11. OnDisk(disk', sources)
  <2> SUFFICES ASSUME NEW f \in FileNames
               PROVE  \/ disk'[f] = disk[f]
                      \/ \E t \in sources : \E j \in DOMAIN FilesOf[t] :
                           /\ FilesOf[t][j].name = f /\ Cut(disk'[f], FilesOf[t][j].data)
                           /\ f = "meta" => disk'[f] \in {<< >>, FilesOf[t][j].data}
    BY <1>1, <1>10, WritesFacts
  <2>1. CASE f = file.name
    <3>1. Cut(disk'[f], FilesOf[text][k].data) /\ disk'[f] = FilesOf[text][k].data
      BY <1>3, <1>10, <2>1, CutsOf DEF file
    <3> QED BY <1>3, <2>1, <3>1 DEF file
  <2>2. CASE rest # << >> /\ f = Head(rest).name /\ disk'[f] = << >>
    <3>1. Cut(disk'[f], FilesOf[text][k + 1].data)
      BY <1>5, <1>9, <2>2, CutsOf
    <3> QED BY <1>3, <1>9, <2>2, <3>1
  <2> QED BY <1>10, <2>1, <2>2
<1>12. Behind(text, rest, disk')
  <2>1. ASSUME NEW j \in 1..k
        PROVE  disk'[FilesOf[text][j].name] = FilesOf[text][j].data
    <3>1. j \in DOMAIN FilesOf[text] /\ (j = k \/ (j \in 1..n /\ j # k /\ j # k + 1))
      BY <1>5, <1>14, <1>16
    <3>2. CASE j = k
      BY <1>10, <3>2 DEF file
    <3>3. CASE j \in 1..n
      <4>1. disk[FilesOf[text][j].name] = FilesOf[text][j].data
        BY <1>3, <1>14, <3>3 DEF Behind
      <4>2. j # k /\ j # k + 1
        BY <1>14, <3>3
      <4>4. FilesOf[text][j].name # file.name
        BY <1>3, <1>5, <3>1, <4>2 DEF Distinct, file
      <4>3. rest # << >> => FilesOf[text][j].name # Head(rest).name
        BY <1>5, <1>9, <3>1, <4>2 DEF Distinct
      <4> QED BY <1>5, <1>10, <3>1, <4>1, <4>3, <4>4
    <3> QED BY <3>1, <3>2, <3>3
  <2>2. ASSUME rest # << >> PROVE Cut(disk'[rest[1].name], rest[1].data)
    <3>1. FilesOf[text][k + 1].name # file.name
      <4>1. k # k + 1
        BY <1>14
      <4> QED BY <1>3, <1>5, <1>9, <2>2, <4>1 DEF Distinct, file
    <3>2. disk'[FilesOf[text][k + 1].name] = << >>
      BY <1>4, <1>5, <1>9, <2>2, <3>1
    <3>3. Cut(<< >>, FilesOf[text][k + 1].data)
      BY <1>5, <1>9, <2>2, CutsOf
    <3> QED BY <1>9, <2>2, <3>2, <3>3
  <2> QED BY <1>7, <1>8, <2>1, <2>2 DEF Behind
<1>13. AtWork'
  <2>1. current' \in BOOLEAN /\ (current' => rest = << >>)
    BY <1>4, Zenon
  <2>2. pending' = rest /\ text' = text /\ sources' = sources
    BY <1>4
  <2>3. (current' => pending' = << >> /\ text' \in sources' /\ Behind(text, << >>, disk)')
    <3> SUFFICES ASSUME current' PROVE pending' = << >> /\ text' \in sources' /\ Behind(text, << >>, disk)'
      OBVIOUS
    <3>1. rest = << >>
      BY <2>1
    <3>2. Behind(text, << >>, disk')
      BY <1>12, <3>1
    <3>3. Behind(text, << >>, disk)' = Behind(text, << >>, disk')
      BY <2>2 DEF Behind, Done
    <3> QED BY <1>3, <2>2, <3>1, <3>2, <3>3
  <2>4. pending' \in Seq(Files) /\ text' \in sources' /\ Behind(text, pending, disk)'
    BY <1>3, <1>6, <1>12, <2>2 DEF Behind, Done
  <2> QED BY <2>1, <2>3, <2>4 DEF AtWork, Converting
<1> QED BY <1>1, <1>4, <1>11, <1>13 DEF ConverterInv

\* Another text is put into the directory, or the conversion is killed.
LEMMA ReplaceCrashStep ==
  ASSUME LoadsNumbers, ConverterInv, Replace \/ Crash
  PROVE  ConverterInv'
<1>1. /\ text \in Texts /\ sources \subseteq Texts /\ runs \in 0..MaxRuns
      /\ OnDisk(disk, sources) /\ ReadSoFar(load, sources) /\ AtWork
  BY DEF ConverterInv
<1>2. CASE Replace
  <2>1. /\ ~Converting /\ text' \in Texts /\ current' = FALSE /\ disk' = disk
        /\ pending' = pending /\ sources' = sources /\ runs' = runs /\ load' = load
    BY <1>2 DEF Replace
  <2>2. AtWork'
    BY <1>1, <2>1 DEF AtWork, Converting
  <2> QED BY <1>1, <2>1, <2>2 DEF ConverterInv
<1>3. CASE Crash
  <2>1. /\ Converting /\ pending' = << >> /\ text' = text /\ current' = current /\ disk' = disk
        /\ sources' = sources /\ runs' = runs /\ load' = load
    BY <1>3 DEF Crash
  <2>2. ~current
    BY <1>1, <2>1 DEF AtWork
  <2>3. AtWork'
    BY <1>1, <2>1, <2>2, EmptySeq DEF AtWork, Converting
  <2> QED BY <1>1, <2>1, <2>3 DEF ConverterInv
<1> QED BY <1>2, <1>3

\* What load_bin wants of the files that a converted text describes.
LEMMA WantedFacts ==
  ASSUME LoadsNumbers, NEW t \in Texts
  PROVE  /\ MetaOf(t).num_vertex = load_txt(t).v_num /\ MetaOf(t).num_edge = load_txt(t).e_num
         /\ DOMAIN Wanted(MetaOf(t)) = 1..4 /\ Len(Wanted(MetaOf(t))) = 4
         /\ \A k \in 1..4 : /\ Wanted(MetaOf(t))[k][1] \in FileNames \ {"meta"}
                            /\ Wanted(MetaOf(t))[k][2] \in Nat
         /\ Wanted(MetaOf(t))[1][1] = "indptr_u64" /\ Wanted(MetaOf(t))[2][1] = "offset_u64"
         /\ Wanted(MetaOf(t))[3][1] = "triangle_u64" /\ Wanted(MetaOf(t))[4][1] = "indices_u32"
<1> DEFINE meta == MetaOf(t)
<1>1. /\ FilesOf[t][1].data = << load_txt(t).v_num, load_txt(t).e_num, load_txt(t).tri_num,
                                 load_txt(t).max_deg, load_txt(t).max_offset,
                                 load_txt(t).max_tri >>
      /\ load_txt(t).v_num \in Nat /\ load_txt(t).e_num \in Nat
  BY FilesFacts DEF LoadsNumbers
<1>2. meta.num_vertex = load_txt(t).v_num /\ meta.num_edge = load_txt(t).e_num
  BY <1>1 DEF MetaOf, Meta
<1>3. meta.num_vertex \in Nat /\ meta.num_edge \in Nat
  BY <1>1, <1>2
<1> HIDE DEF meta
<1>4. /\ Wanted(meta)[1] = <<"indptr_u64", meta.num_vertex + 1>>
      /\ Wanted(meta)[2] = <<"offset_u64", meta.num_vertex>>
      /\ Wanted(meta)[3] = <<"triangle_u64", meta.num_vertex>>
      /\ Wanted(meta)[4] = <<"indices_u32", meta.num_edge>>
      /\ DOMAIN Wanted(meta) = 1..4 /\ Len(Wanted(meta)) = 4
  BY DEF Wanted
<1>5. ASSUME NEW k \in 1..4
      PROVE  Wanted(meta)[k][1] \in FileNames \ {"meta"} /\ Wanted(meta)[k][2] \in Nat
  <2>1. k = 1 \/ k = 2 \/ k = 3 \/ k = 4
    OBVIOUS
  <2> QED BY <1>3, <1>4, <2>1 DEF FileNames
<1> QED BY <1>2, <1>4, <1>5 DEF meta

\* load_bin reads meta.txt.
LEMMA ReadMetaStep ==
  ASSUME LoadsNumbers, ConverterInv, ReadMeta
  PROVE  ConverterInv'
<1>1. /\ text \in Texts /\ sources \subseteq Texts /\ runs \in 0..MaxRuns
      /\ OnDisk(disk, sources) /\ ReadSoFar(load, sources) /\ AtWork
  BY DEF ConverterInv
<1>2. /\ load.step = "meta"
      /\ load' = IF disk["meta"] \in {Absent, << >>} THEN [load EXCEPT !.step = "refused"]
                 ELSE [load EXCEPT !.step = "arrays", !.meta = Meta(disk["meta"])]
      /\ text' = text /\ disk' = disk /\ pending' = pending /\ current' = current
      /\ sources' = sources /\ runs' = runs
  BY DEF ReadMeta
<1>3. /\ load = [step |-> load.step, meta |-> load.meta, arrays |-> load.arrays]
      /\ load.arrays = << >>
  BY <1>1, <1>2 DEF ReadSoFar
<1>4. << >> \in Seq(Seq(Nat)) /\ Len(<< >>) = 0
  BY EmptySeq
<1>5. CASE disk["meta"] \in {Absent, << >>}
  <2>1. load' = [step |-> "refused", meta |-> load.meta, arrays |-> << >>]
    BY <1>2, <1>3, <1>5
  <2>2. ReadSoFar(load', sources)
    BY <1>4, <2>1 DEF ReadSoFar
  <2> QED BY <1>1, <1>2, <2>2 DEF ConverterInv, AtWork, Behind, Converting, Done
<1>6. CASE ~(disk["meta"] \in {Absent, << >>})
  <2>1. load' = [step |-> "arrays", meta |-> Meta(disk["meta"]), arrays |-> << >>]
    BY <1>2, <1>3, <1>6
  <2>2. "meta" \in FileNames /\ disk["meta"] # Absent /\ disk["meta"] # << >>
    BY <1>6 DEF FileNames
  <2>3. PICK t \in sources : \E k \in DOMAIN FilesOf[t] :
          FilesOf[t][k].name = "meta" /\ disk["meta"] = FilesOf[t][k].data
    BY <1>1, <2>2 DEF OnDisk
  <2>4. disk["meta"] = FilesOf[t][1].data
    BY <1>1, <2>3, FileFacts DEF Distinct
  <2>5. load'.meta = MetaOf(t) /\ load'.step = "arrays" /\ load'.arrays = << >>
    BY <2>1, <2>4 DEF MetaOf
  <2>6. ReadSoFar(load', sources)
    <3>1. load' = [step |-> load'.step, meta |-> load'.meta, arrays |-> load'.arrays]
      BY <2>1
    <3>2. \A k \in 1..Len(load'.arrays) : FALSE
      BY <1>4, <2>5
    <3> QED BY <1>4, <2>3, <2>5, <3>1, <3>2 DEF ReadSoFar
  <2> QED BY <1>1, <1>2, <2>6 DEF ConverterInv, AtWork, Behind, Converting, Done
<1> QED BY <1>5, <1>6

\* load_bin reads an array, or refuses a file that is not there or too short.
LEMMA ReadFileStep ==
  ASSUME LoadsNumbers, ConverterInv, ReadFile
  PROVE  ConverterInv'
<1> DEFINE got == load.arrays
           k == Len(got) + 1
           wanted == Wanted(load.meta)[k]
           content == disk[wanted[1]]
           num == wanted[2]
<1>1. /\ text \in Texts /\ sources \subseteq Texts /\ runs \in 0..MaxRuns
      /\ OnDisk(disk, sources) /\ ReadSoFar(load, sources) /\ AtWork
  BY DEF ConverterInv
<1>2. /\ load.step = "arrays"
      /\ load' = IF Complete(content, num)
                 THEN [load EXCEPT
                         !.step = IF k = Len(Wanted(load.meta)) THEN "loaded" ELSE "arrays",
                         !.arrays = Append(@, Start(content, num))]
                 ELSE [load EXCEPT !.step = "refused"]
      /\ text' = text /\ disk' = disk /\ pending' = pending /\ current' = current
      /\ sources' = sources /\ runs' = runs
  BY DEF ReadFile
<1>3. /\ load = [step |-> load.step, meta |-> load.meta, arrays |-> got]
      /\ got \in Seq(Seq(Nat)) /\ Len(got) \in Nat /\ Len(got) <= 4 /\ Len(got) # 4
      /\ \A i \in 1..Len(got) : \E t \in sources : \E j \in DOMAIN FilesOf[t] :
            /\ FilesOf[t][j].name = Wanted(load.meta)[i][1]
            /\ got[i] = Start(FilesOf[t][j].data, Wanted(load.meta)[i][2])
            /\ Wanted(load.meta)[i][2] <= Len(FilesOf[t][j].data)
  BY <1>1, <1>2, LenProperties DEF ReadSoFar
<1>4. PICK from \in sources : load.meta = MetaOf(from)
  BY <1>1, <1>2 DEF ReadSoFar
<1>5. /\ k \in 1..4 /\ Len(Wanted(load.meta)) = 4
      /\ wanted[1] \in FileNames \ {"meta"} /\ num \in Nat
  <2>1. k \in 1..4
    <3> DEFINE last == Len(got)
    <3>1. last \in Nat /\ last <= 4 /\ last # 4
      BY <1>3
    <3> HIDE DEF last
    <3>2. last + 1 \in 1..4
      BY ONLY <3>1
    <3> QED BY <3>2 DEF last
  <2> HIDE DEF k
  <2> QED BY <1>1, <1>4, <2>1, WantedFacts
<1>6. CASE ~Complete(content, num)
  <2>1. load' = [step |-> "refused", meta |-> load.meta, arrays |-> got]
    BY <1>2, <1>3, <1>6
  <2>2. ReadSoFar(load', sources)
    BY <1>3, <2>1 DEF ReadSoFar
  <2> QED BY <1>1, <1>2, <2>2 DEF ConverterInv, AtWork, Behind, Converting, Done
<1>7. CASE Complete(content, num)
  <2>1. PICK t \in sources : \E j \in DOMAIN FilesOf[t] :
          FilesOf[t][j].name = wanted[1] /\ Cut(content, FilesOf[t][j].data)
    BY <1>1, <1>5, <1>7 DEF OnDisk, Complete
  <2>2. PICK j \in DOMAIN FilesOf[t] :
          FilesOf[t][j].name = wanted[1] /\ Cut(content, FilesOf[t][j].data)
    BY <2>1
  <2> DEFINE data == FilesOf[t][j].data
             start == Start(content, num)
             more == Append(got, start)
  <2>3. data \in Seq(Nat) /\ Cut(content, data)
    BY <1>1, <2>2, FileFacts
  <2>4. num <= Len(content)
    BY <1>7 DEF Complete
  <2>5. start = Start(data, num) /\ start \in Seq(Nat) /\ num <= Len(data)
    <3> HIDE DEF data, content, num
    <3>1. Len(content) \in Nat
      BY <2>3, CutFacts
    <3>2. num \in 0..Len(content)
      BY <1>5, <2>4, <3>1
    <3> QED BY <2>3, <3>2, StartFacts
  <2>6. /\ more \in Seq(Seq(Nat)) /\ Len(more) = k /\ more[k] = start
        /\ \A i \in 1..Len(got) : more[i] = got[i]
    <3>1. start \in Seq(Nat) /\ got \in Seq(Seq(Nat)) /\ Len(got) \in Nat
      BY <1>3, <2>5
    <3> HIDE DEF start, got
    <3>2. /\ more \in Seq(Seq(Nat)) /\ Len(more) = Len(got) + 1 /\ more[Len(got) + 1] = start
          /\ \A i \in 1..Len(got) : more[i] = got[i]
      BY ONLY <3>1, AppendProperties
    <3> QED BY <3>2
  <2>7. /\ load' = [step |-> load'.step, meta |-> load'.meta, arrays |-> load'.arrays]
        /\ load'.step = (IF k = 4 THEN "loaded" ELSE "arrays")
        /\ load'.meta = load.meta /\ load'.arrays = more
    BY <1>2, <1>3, <1>5, <1>7
  <2> HIDE DEF more, start, got, data
  <2>8. ASSUME NEW i \in 1..Len(more)
        PROVE  \E s \in sources : \E l \in DOMAIN FilesOf[s] :
                 /\ FilesOf[s][l].name = Wanted(load.meta)[i][1]
                 /\ more[i] = Start(FilesOf[s][l].data, Wanted(load.meta)[i][2])
                 /\ Wanted(load.meta)[i][2] <= Len(FilesOf[s][l].data)
    <3>1. i = k \/ i \in 1..Len(got)
      BY <1>3, <2>6
    <3>2. CASE i = k
      BY <2>2, <2>5, <2>6, <3>2 DEF data
    <3>3. CASE i \in 1..Len(got)
      <4>1. more[i] = got[i]
        BY <2>6, <3>3
      <4>2. \E s \in sources : \E l \in DOMAIN FilesOf[s] :
              /\ FilesOf[s][l].name = Wanted(load.meta)[i][1]
              /\ got[i] = Start(FilesOf[s][l].data, Wanted(load.meta)[i][2])
              /\ Wanted(load.meta)[i][2] <= Len(FilesOf[s][l].data)
        BY <1>3, <3>3, Zenon
      <4> QED BY <4>1, <4>2, Zenon
    <3> QED BY <3>1, <3>2, <3>3
  <2>9. Len(more) <= 4 /\ (load'.step = "loaded" <=> Len(more) = 4)
        /\ load'.step \in {"arrays", "loaded"}
    BY <1>5, <2>6, <2>7
  <2>10. ReadSoFar(load', sources)
    <3> DEFINE l == load'
    <3>1. /\ l = [step |-> l.step, meta |-> l.meta, arrays |-> l.arrays]
          /\ l.step \in {"arrays", "loaded"} /\ l.arrays \in Seq(Seq(Nat))
          /\ Len(l.arrays) <= 4 /\ (l.step = "loaded" <=> Len(l.arrays) = 4)
          /\ \E s \in sources : l.meta = MetaOf(s)
      BY <1>4, <2>6, <2>7, <2>9
    <3>2. \A i \in 1..Len(l.arrays) : \E s \in sources : \E m \in DOMAIN FilesOf[s] :
            /\ FilesOf[s][m].name = Wanted(l.meta)[i][1]
            /\ l.arrays[i] = Start(FilesOf[s][m].data, Wanted(l.meta)[i][2])
            /\ Wanted(l.meta)[i][2] <= Len(FilesOf[s][m].data)
      BY <2>7, <2>8
    <3> HIDE DEF l
    <3>3. l.step # "meta" /\ l.step \in {"meta", "arrays", "loaded", "refused"}
      BY <3>1
    <3>4. ReadSoFar(l, sources)
      BY <3>1, <3>2, <3>3, Zenon DEF ReadSoFar
    <3> QED BY <3>4 DEF l
  <2> QED BY <1>1, <1>2, <2>10 DEF ConverterInv, AtWork, Behind, Converting, Done
<1> QED BY <1>6, <1>7

(***************************************************************************)
(* Theorems.                                                               *)
(***************************************************************************)
\* The conjuncts of ConverterInv hold of every reachable state, whatever the texts are.
LEMMA ConverterInvariant ==
  ASSUME LoadsNumbers
  PROVE  Spec => []ConverterInv
<1>1. Init => ConverterInv
  <2> SUFFICES ASSUME Init PROVE ConverterInv
    OBVIOUS
  <2>1. /\ text \in Texts /\ sources = {} /\ runs = 0 /\ pending = << >> /\ current = FALSE
        /\ disk = [f \in FileNames |-> Absent]
        /\ load = [step |-> "meta", meta |-> << >>, arrays |-> << >>]
    BY DEF Init
  <2>2. OnDisk(disk, sources)
    BY <2>1 DEF OnDisk
  <2>3. << >> \in Seq(Files) /\ << >> \in Seq(Seq(Nat))
    BY EmptySeq
  <2>4. AtWork
    BY <2>1, <2>3 DEF AtWork, Converting
  <2>5. ReadSoFar(load, sources)
    BY <2>1, <2>3 DEF ReadSoFar
  <2> QED BY <2>1, <2>2, <2>4, <2>5, ConverterAssumption DEF ConverterInv
<1>2. ConverterInv /\ [Next]_vars => ConverterInv'
  <2> SUFFICES ASSUME ConverterInv, [Next]_vars PROVE ConverterInv'
    OBVIOUS
  <2>1. CASE Replace \/ Crash
    BY <2>1, ReplaceCrashStep
  <2>2. CASE Convert
    BY <2>2, ConvertStep
  <2>3. CASE Flush
    BY <2>3, FlushStep
  <2>4. CASE Close
    BY <2>4, CloseStep
  <2>5. CASE ReadMeta
    BY <2>5, ReadMetaStep
  <2>6. CASE ReadFile
    BY <2>6, ReadFileStep
  <2>7. CASE UNCHANGED vars
    BY <2>7 DEF vars, ConverterInv, AtWork, Behind, Converting, Done
  <2> QED BY <2>1, <2>2, <2>3, <2>4, <2>5, <2>6, <2>7 DEF Next
<1> QED BY <1>1, <1>2, PTL DEF Spec

\* A name tells one file of a text.
LEMMA DataFacts ==
  ASSUME LoadsNumbers, NEW t \in Texts, NEW j \in DOMAIN FilesOf[t]
  PROVE  DataOf(t, FilesOf[t][j].name) = FilesOf[t][j].data
<1> DEFINE files == FilesOf[t]
           file == CHOOSE f \in ToSet(files) : f.name = files[j].name
<1>1. Distinct(files)
  BY FileFacts
<1> HIDE DEF files
<1>2. j \in DOMAIN files
  BY DEF files
<1>3. files[j] \in ToSet(files)
  BY <1>2 DEF ToSet
<1>4. file \in ToSet(files) /\ file.name = files[j].name
  BY <1>3
<1>5. PICK i \in DOMAIN files : file = files[i]
  BY <1>4 DEF ToSet
<1>6. i = j
  BY <1>1, <1>2, <1>4, <1>5 DEF Distinct
<1> QED BY <1>5, <1>6 DEF DataOf, files

\* The graph of a text whose vertices fit is read from its files: what ConvertsAlone says
\* of the arrays, and that none of them is short.
LEMMA AloneFacts ==
  ASSUME LoadsNumbers, ConvertsAlone, NEW t \in Texts, load_txt(t).v_num < MaxU32
  PROVE  /\ IsGraphOf(MetaOf(t), ArraysOf(t), t)
         /\ \A k \in 1..4 : \E j \in DOMAIN FilesOf[t] :
              /\ FilesOf[t][j].name = Wanted(MetaOf(t))[k][1]
              /\ Wanted(MetaOf(t))[k][2] <= Len(FilesOf[t][j].data)
<1>1. load_txt(t).v_num = Len(idMap(Edges(t)))
  BY DEF load_txt
<1>2. IsGraphOf(MetaOf(t), ArraysOf(t), t)
  BY <1>1 DEF ConvertsAlone
<1>3. \A k \in 1..4 : Len(ArraysOf(t)[k]) = Wanted(MetaOf(t))[k][2]
  BY <1>2, WantedFacts DEF IsGraphOf
<1>4. ASSUME NEW k \in 1..4
      PROVE  \E j \in DOMAIN FilesOf[t] :
               /\ FilesOf[t][j].name = Wanted(MetaOf(t))[k][1]
               /\ Wanted(MetaOf(t))[k][2] <= Len(FilesOf[t][j].data)
  <2> DEFINE name == Wanted(MetaOf(t))[k][1]
             num == Wanted(MetaOf(t))[k][2]
  <2>1. name \in {"indptr_u64", "offset_u64", "triangle_u64", "indices_u32"} /\ num \in Nat
    <3>1. k = 1 \/ k = 2 \/ k = 3 \/ k = 4
      OBVIOUS
    <3> QED BY <3>1, WantedFacts
  <2>2. name \in Names(FilesOf[t])
    BY <2>1, FilesFacts
  <2>3. PICK j \in DOMAIN FilesOf[t] : FilesOf[t][j].name = name
    BY <2>2 DEF Names
  <2> DEFINE data == FilesOf[t][j].data
  <2>4. data \in Seq(Nat) /\ DataOf(t, name) = data
    BY <2>3, FileFacts, DataFacts
  <2>5. ArraysOf(t)[k] = Start(data, num)
    BY <2>4, WantedFacts DEF ArraysOf
  <2>6. Len(Start(data, num)) = num
    BY <1>3, <2>5
  <2> HIDE DEF data, num
  <2>7. Len(data) \in Nat
    BY <2>4, LenProperties
  <2>8. CASE num > Len(data)
    <3>1. Start(data, num) = SubSeq(data, 1, Len(data))
      <4>1. Min({num, Len(data)}) = Len(data)
        BY <2>1, <2>7, <2>8, MinFacts
      <4> QED BY <4>1 DEF Start
    <3>2. SubSeq(data, 1, Len(data)) = data
      BY <2>4, <2>7
    <3>3. Len(data) = num
      BY <2>6, <3>1, <3>2
    <3>4. FALSE
      BY <2>7, <2>8, <3>3
    <3> QED BY <3>4
  <2>9. CASE num <= Len(data)
    BY <2>3, <2>9 DEF data, num
  <2> QED BY <2>1, <2>7, <2>8, <2>9
<1> QED BY <1>2, <1>4

\* Every file of the directory is a prefix of what a conversion of some text would have
\* written under its name, however often conversions were killed and started again, and a
\* runner that has loaded has the arrays it asked for.
THEOREM ConverterTyped ==
  ASSUME LoadsNumbers
  PROVE  Spec => []TypeOK
<1>1. ConverterInv => TypeOK
  <2> SUFFICES ASSUME ConverterInv PROVE TypeOK
    OBVIOUS
  <2>1. /\ text \in Texts /\ sources \subseteq Texts /\ runs \in 0..MaxRuns
        /\ OnDisk(disk, sources) /\ ReadSoFar(load, sources)
    BY DEF ConverterInv
  <2>2. ASSUME NEW f \in FileNames, disk[f] # Absent
        PROVE  \E t \in sources : \E file \in ToSet(FilesOf[t]) :
                 file.name = f /\ IsPrefix(disk[f], file.data)
    <3>1. PICK t \in sources : \E k \in DOMAIN FilesOf[t] :
            FilesOf[t][k].name = f /\ Cut(disk[f], FilesOf[t][k].data)
      BY <2>1, <2>2 DEF OnDisk
    <3>2. PICK k \in DOMAIN FilesOf[t] :
            FilesOf[t][k].name = f /\ Cut(disk[f], FilesOf[t][k].data)
      BY <3>1
    <3>3. FilesOf[t][k].data \in Seq(Nat)
      BY <2>1, FileFacts
    <3>4. IsPrefix(disk[f], FilesOf[t][k].data)
      BY <3>2, <3>3, CutFacts
    <3>5. FilesOf[t][k] \in ToSet(FilesOf[t])
      BY DEF ToSet
    <3> QED BY <3>2, <3>4, <3>5
  <2>3. load.step = "loaded" => Len(load.arrays) = Len(Wanted(load.meta))
    BY <2>1, WantedFacts DEF ReadSoFar
  <2> QED BY <2>1, <2>2, <2>3 DEF TypeOK, ReadSoFar
<1> QED BY <1>1, ConverterInvariant, PTL

\* A runner that loads from a directory that has held one graph only gets that graph or
\* refuses, for every text, any number of killed and repeated conversions and every
\* interleaving with the one at work.
THEOREM LoaderGetsWholeGraph ==
  ASSUME LoadsNumbers, ConvertsAlone
  PROVE  Spec => []LoadsWholeGraph
<1>1. ConverterInv => LoadsWholeGraph
  <2> SUFFICES ASSUME ConverterInv, load.step = "loaded", NEW t \in sources, sources = {t}
               PROVE  IsGraphOf(load.meta, load.arrays, t)
    BY DEF LoadsWholeGraph
  <2>1. t \in Texts /\ load.meta = MetaOf(t) /\ load.arrays \in Seq(Seq(Nat))
        /\ Len(load.arrays) = 4
        /\ \A k \in 1..4 : \E j \in DOMAIN FilesOf[t] :
             /\ FilesOf[t][j].name = Wanted(MetaOf(t))[k][1]
             /\ load.arrays[k] = Start(FilesOf[t][j].data, Wanted(MetaOf(t))[k][2])
    <3>1. ReadSoFar(load, sources) /\ t \in Texts
      BY DEF ConverterInv
    <3>2. load.arrays \in Seq(Seq(Nat)) /\ Len(load.arrays) = 4 /\ load.meta = MetaOf(t)
      BY <3>1 DEF ReadSoFar
    <3> QED BY <3>1, <3>2 DEF ReadSoFar
  <2>2. "indices_u32" \in Names(FilesOf[t])
    <3>1. 4 \in 1..4
      OBVIOUS
    <3>2. PICK j \in DOMAIN FilesOf[t] : FilesOf[t][j].name = Wanted(MetaOf(t))[4][1]
      BY <2>1, <3>1
    <3> QED BY <2>1, <3>2, WantedFacts DEF Names
  <2>3. load_txt(t).v_num < MaxU32
    BY <2>1, <2>2, FilesFacts
  <2>4. load.arrays = ArraysOf(t)
    <3>1. DOMAIN Wanted(MetaOf(t)) = 1..4
      BY <2>1, WantedFacts
    <3>2. load.arrays = [k \in 1..4 |-> load.arrays[k]]
      <4> DEFINE arrays == load.arrays
      <4>1. arrays \in Seq(Seq(Nat)) /\ Len(arrays) = 4
        BY <2>1
      <4> HIDE DEF arrays
      <4>2. arrays \in [1..4 -> Seq(Nat)]
        BY <4>1, LenProperties
      <4>3. arrays = [k \in 1..4 |-> arrays[k]]
        BY <4>2
      <4> QED BY <4>3 DEF arrays
    <3>3. ASSUME NEW k \in 1..4
          PROVE  load.arrays[k] = Start(DataOf(t, Wanted(MetaOf(t))[k][1]), Wanted(MetaOf(t))[k][2])
      BY <2>1, DataFacts
    <3>4. ArraysOf(t) = [k \in 1..4 |->
                          Start(DataOf(t, Wanted(MetaOf(t))[k][1]), Wanted(MetaOf(t))[k][2])]
      BY <3>1 DEF ArraysOf
    <3> QED BY <3>2, <3>3, <3>4
  <2> QED BY <2>1, <2>3, <2>4, AloneFacts
<1> QED BY <1>1, ConverterInvariant, PTL

\* When a conversion has come to its end the directory holds the graph of snap.txt, whatever
\* conversions of other texts left there before, provided its vertices fit in 32 bits.
THEOREM ConversionReplaces ==
  ASSUME LoadsNumbers, ConvertsAlone
  PROVE  Spec => []CompletedReplaces
<1>1. ConverterInv => CompletedReplaces
  <2> SUFFICES ASSUME ConverterInv, current, Len(idMap(Edges(text))) < MaxU32
               PROVE  LET meta == Meta(disk["meta"])
                          wanted == Wanted(meta)
                      IN /\ \A k \in DOMAIN wanted : Complete(disk[wanted[k][1]], wanted[k][2])
                         /\ IsGraphOf(meta, [k \in DOMAIN wanted |->
                                               Start(disk[wanted[k][1]], wanted[k][2])], text)
    BY DEF CompletedReplaces
  <2>1. /\ text \in Texts /\ Behind(text, << >>, disk)
    BY DEF ConverterInv, AtWork
  <2>2. load_txt(text).v_num < MaxU32
    BY DEF load_txt
  <2>3. /\ Len(FilesOf[text]) \in Nat /\ DOMAIN FilesOf[text] = 1..Len(FilesOf[text])
        /\ 1 \in DOMAIN FilesOf[text] /\ FilesOf[text][1].name = "meta"
        /\ \A j \in DOMAIN FilesOf[text] : FilesOf[text][j].data \in Seq(Nat)
    BY <2>1, FileFacts
  <2>4. \A j \in DOMAIN FilesOf[text] : disk[FilesOf[text][j].name] = FilesOf[text][j].data
    <3>1. Done(text, << >>) = Len(FilesOf[text])
      BY <2>3 DEF Done
    <3> QED BY <2>1, <2>3, <3>1 DEF Behind
  <2>5. Meta(disk["meta"]) = MetaOf(text)
    BY <2>3, <2>4 DEF MetaOf
  <2> DEFINE wanted == Wanted(MetaOf(text))
  <2>6. DOMAIN wanted = 1..4
    BY <2>1, WantedFacts
  <2>7. /\ IsGraphOf(MetaOf(text), ArraysOf(text), text)
        /\ \A k \in 1..4 : \E j \in DOMAIN FilesOf[text] :
             FilesOf[text][j].name = wanted[k][1] /\ wanted[k][2] <= Len(FilesOf[text][j].data)
    BY <2>1, <2>2, AloneFacts
  <2>8. ASSUME NEW k \in 1..4
        PROVE  /\ Complete(disk[wanted[k][1]], wanted[k][2])
               /\ disk[wanted[k][1]] = DataOf(text, wanted[k][1])
    <3>1. PICK j \in DOMAIN FilesOf[text] :
            FilesOf[text][j].name = wanted[k][1] /\ wanted[k][2] <= Len(FilesOf[text][j].data)
      BY <2>7
    <3> DEFINE content == disk[wanted[k][1]]
    <3>2. content = FilesOf[text][j].data /\ content \in Seq(Nat)
      BY <2>3, <2>4, <3>1
    <3>3. Len(content) \in Nat /\ wanted[k][2] \in Nat
      BY <2>1, <3>2, LenProperties, WantedFacts
    <3>4. content # Absent
      <4> HIDE DEF content
      <4>1. Cut(content, content)
        BY <3>2, CutsOf
      <4> QED BY <3>2, <4>1, CutFacts
    <3>5. content = DataOf(text, wanted[k][1])
      BY <2>1, <3>1, <3>2, DataFacts
    <3> QED BY <3>1, <3>2, <3>3, <3>4, <3>5 DEF Complete
  <2>9. [k \in DOMAIN wanted |-> Start(disk[wanted[k][1]], wanted[k][2])] = ArraysOf(text)
    <3>1. \A k \in 1..4 : disk[wanted[k][1]] = DataOf(text, wanted[k][1])
      BY <2>8
    <3> QED BY <2>6, <3>1 DEF ArraysOf
  <2> QED BY <2>5, <2>6, <2>7, <2>8, <2>9
<1> QED BY <1>1, ConverterInvariant, PTL
===============================================================================
