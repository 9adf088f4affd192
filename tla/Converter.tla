------------------------------- MODULE Converter -------------------------------
(***************************************************************************)
(* Preparing and loading a data graph: GraphConverter::convert, which prep *)
(* runs on the directory of a dataset, and load_bin, with which a runner   *)
(* reads the result (src/src/preprocess/graph_converter.cpp,               *)
(* src/src/meta.cpp, src/src/runner.cpp).                                  *)
(*                                                                         *)
(* The directory is shared: snap.txt may be replaced by that of another    *)
(* graph, a conversion may be killed at any point and started again, and a *)
(* runner may load while a conversion writes.  A file is opened, which     *)
(* empties it, and then written piece by piece.                            *)
(***************************************************************************)
EXTENDS Integers, Sequences, SequencesExt, FiniteSetsExt

CONSTANTS
  Texts,       (* the contents snap.txt may have                           *)
  MaxU32,      (* std::numeric_limits<uint32_t>::max()                     *)
  MaxRuns      (* bound: conversions started                               *)

(* A text is the sequence of its lines, a line the numbers it begins with: *)
(* none for an empty line or a comment, two for an edge; a line that does  *)
(* not begin with two numbers has one.                                     *)
ASSUME ConverterAssumption ==
  /\ MaxU32 \in Nat /\ MaxRuns \in Nat
  /\ \A text \in Texts : \A k \in DOMAIN text : Len(text[k]) \in 0..2

VARIABLES
  text,        (* snap.txt                                                 *)
  disk,        (* the files of the directory written by conversions        *)
  pending,     (* what the conversion at work has yet to write, by file    *)
  current,     (* whether the last conversion finished and is of this text *)
  sources,     (* the texts that were converted in this directory          *)
  runs,        (* conversions started                                      *)
  load         (* the runner's load_bin: what it has read                  *)

vars == <<text, disk, pending, current, sources, runs, load>>

Ids(n) == [k \in 1..n |-> k - 1]       (* 0..n-1 in ascending order *)

(***************************************************************************)
(* load_txt.                                                               *)
(***************************************************************************)
\* nextSNAPline: the edges up to the first line that does not scan.
Edges(lines) ==
  LET bad == SelectInSeq(lines, LAMBDA line : Len(line) = 1)
      read == IF bad = 0 THEN lines ELSE SubSeq(lines, 1, bad - 1)
  IN SelectSeq(read, LAMBDA line : line # <<>> /\ line[1] # line[2])

\* getID: vertices are numbered in the order in which they appear.
idMap(edges) ==
  FoldLeft(LAMBDA seen, id : IF Contains(seen, id) THEN seen ELSE Append(seen, id),
           <<>>, FlattenSeq(edges))

Numbered(edges) ==
  LET Number(id) == SelectInSeq(idMap(edges), LAMBDA x : x = id) - 1
  IN {<<Number(e[1]), Number(e[2])>> : e \in ToSet(edges)}

\* edge_vec, sorted and without duplicates, is a set.
Arcs(edges) ==
  Numbered(edges) \union {<<p[2], p[1]>> : p \in Numbered(edges)}

parallel_prefix_sum(seq) ==
  FoldLeft(LAMBDA sums, x : Append(sums, Last(sums) + x), <<0>>, seq)

parallel_max(seq) == Max({0} \union ToSet(seq))

load_txt(lines) ==
  LET edges == Edges(lines)
      arcs == Arcs(edges)
      v_num == Len(idMap(edges))
      Adj(v) == {w \in 0..(v_num - 1) : <<v, w>> \in arcs}
      PerVertex(Op(_)) == [k \in 1..v_num |-> Op(k - 1)]
      degrees == PerVertex(LAMBDA v : Cardinality(Adj(v)))
      triangles == PerVertex(LAMBDA v :
                     MapThenSumSet(LAMBDA w : Cardinality(Adj(v) \intersect Adj(w)), Adj(v)))
      offsets == PerVertex(LAMBDA v : Cardinality({w \in Adj(v) : w < v}))
  IN [v_num |-> v_num, e_num |-> Cardinality(arcs),
      indices |-> FlattenSeq(PerVertex(LAMBDA v : SetToSortSeq(Adj(v), <))),
      indptr |-> parallel_prefix_sum(degrees),
      triangles |-> triangles, degrees |-> degrees, offsets |-> offsets,
      tri_num |-> FoldLeft(+, 0, triangles), max_deg |-> parallel_max(degrees),
      max_offset |-> parallel_max(offsets), max_tri |-> parallel_max(triangles)]

(***************************************************************************)
(* Writing: save_meta, save_bin, save_bin_u32.                             *)
(***************************************************************************)
File(name, data) == [name |-> name, data |-> data]

save_meta(g) ==
  <<File("meta", <<g.v_num, g.e_num, g.tri_num, g.max_deg, g.max_offset, g.max_tri>>)>>

\* to_32
To32(data) == [k \in DOMAIN data |-> data[k] % (MaxU32 + 1)]

\* A file whose numbers may not fit is not written.
IfFits(max, name, data) == IF max < MaxU32 THEN <<File(name, To32(data))>> ELSE <<>>

save_bin_u32(g) ==
  IfFits(g.v_num, "indices_u32", g.indices) \o IfFits(g.e_num, "indptr_u32", g.indptr)
    \o IfFits(g.max_deg, "degree_u32", g.degrees) \o IfFits(g.max_offset, "offset_u32", g.offsets)
    \o IfFits(g.max_tri, "triangle_u32", g.triangles)

save_bin(g) ==
  << File("indices_u64", g.indices), File("indptr_u64", g.indptr),
     File("triangle_u64", g.triangles), File("degree_u64", g.degrees),
     File("offset_u64", g.offsets) >> \o save_bin_u32(g)

\* What a conversion of each text writes, in this order.
FilesOf ==
  [t \in Texts |-> LET g == load_txt(t) IN save_meta(g) \o save_bin(g)]

FileNames ==
  {"meta", "indices_u64", "indptr_u64", "triangle_u64", "degree_u64", "offset_u64",
   "indices_u32", "indptr_u32", "degree_u32", "offset_u32", "triangle_u32"}

Absent == <<-1>>
Converting == pending # <<>>

Init ==
  /\ text \in Texts
  /\ disk = [f \in FileNames |-> Absent]
  /\ pending = <<>> /\ current = FALSE /\ sources = {} /\ runs = 0
  /\ load = [step |-> "meta", meta |-> <<>>, arrays |-> <<>>]

\* Somebody puts another graph into the directory.
Replace ==
  /\ ~Converting
  /\ text' \in Texts \ {text}
  /\ current' = FALSE
  /\ UNCHANGED <<disk, pending, sources, runs, load>>

\* Faulty variant: a directory whose meta.txt has been written is taken for converted.
ConvertOnce ==
  LET new == disk["meta"] \in {Absent, <<>>}
  IN /\ ~Converting /\ runs < MaxRuns
     /\ pending' = IF new THEN FilesOf[text] ELSE <<>>
     /\ disk' = IF new THEN [disk EXCEPT !["meta"] = <<>>] ELSE disk
     /\ current' = ~new
     /\ sources' = sources \union {text}
     /\ runs' = runs + 1
     /\ UNCHANGED <<text, load>>

\* convert: load_txt in memory, then the first file is opened.
Convert ==
  /\ ~Converting /\ runs < MaxRuns
  /\ pending' = FilesOf[text]
  /\ disk' = [disk EXCEPT !["meta"] = <<>>]
  /\ current' = FALSE
  /\ sources' = sources \union {text}
  /\ runs' = runs + 1
  /\ UNCHANGED <<text, load>>

\* Faulty variant: what was flushed before is written again.
FlushAgain ==
  /\ Converting /\ Head(pending).name # "meta"
  /\ \E more \in 1..Len(Head(pending).data) :
       disk' = [disk EXCEPT ![Head(pending).name] = @ \o SubSeq(Head(pending).data, 1, more)]
  /\ UNCHANGED <<text, pending, current, sources, runs, load>>

\* The buffer is flushed in between.  meta.txt is small and written in one piece.
Flush ==
  LET file == Head(pending)
      written == Len(disk[file.name])
  IN /\ Converting /\ file.name # "meta"
     /\ \E more \in 1..(Len(file.data) - written - 1) :
          disk' = [disk EXCEPT ![file.name] = SubSeq(file.data, 1, written + more)]
     /\ UNCHANGED <<text, pending, current, sources, runs, load>>

\* A file is complete, and the next one is opened.
Close ==
  LET file == Head(pending)
      rest == Tail(pending)
  IN /\ Converting
     /\ disk' = [f \in FileNames |->
                   IF f = file.name THEN file.data
                   ELSE IF rest # <<>> /\ f = Head(rest).name THEN <<>> ELSE disk[f]]
     /\ pending' = rest
     /\ current' = (rest = <<>>)
     /\ UNCHANGED <<text, sources, runs, load>>

\* The conversion is killed.
Crash ==
  /\ Converting
  /\ pending' = <<>>
  /\ UNCHANGED <<text, disk, current, sources, runs, load>>

(***************************************************************************)
(* load_bin.                                                               *)
(***************************************************************************)
\* m_meta.read: the fields load_bin uses.
Meta(content) ==
  [num_vertex |-> content[1], num_edge |-> content[2], num_triangle |-> content[3] \div 6]

\* An absent file fails a CHECK, meta.txt without its lines an assertion.
ReadMeta ==
  LET content == disk["meta"]
  IN /\ load.step = "meta"
     /\ load' = IF content \in {Absent, <<>>} THEN [load EXCEPT !.step = "refused"]
                ELSE [load EXCEPT !.step = "arrays", !.meta = Meta(content)]
     /\ UNCHANGED <<text, disk, pending, current, sources, runs>>

\* The arrays load_bin reads and how many elements it wants of each.
Wanted(meta) ==
  << <<"indptr_u64", meta.num_vertex + 1>>, <<"offset_u64", meta.num_vertex>>,
     <<"triangle_u64", meta.num_vertex>>, <<"indices_u32", meta.num_edge>> >>

\* Faulty variant: a short read passes.
Accepts(content, num_elements) == content # Absent

\* The CHECKs of read_file: a longer file passes.
Complete(content, num_elements) == content # Absent /\ Len(content) >= num_elements

\* file.read: as much as there is.
Start(content, num_elements) == SubSeq(content, 1, Min({num_elements, Len(content)}))

ReadFile ==
  LET k == Len(load.arrays) + 1
      wanted == Wanted(load.meta)[k]
      content == disk[wanted[1]]
  IN /\ load.step = "arrays"
     /\ load' = IF Complete(content, wanted[2])
                THEN [load EXCEPT
                        !.step = IF k = Len(Wanted(load.meta)) THEN "loaded" ELSE "arrays",
                        !.arrays = Append(@, Start(content, wanted[2]))]
                ELSE [load EXCEPT !.step = "refused"]
     /\ UNCHANGED <<text, disk, pending, current, sources, runs>>

Next ==
  \/ Replace \/ Convert \/ Flush \/ Close \/ Crash
  \/ ReadMeta \/ ReadFile

Spec == Init /\ [][Next]_vars

(***************************************************************************)
(* Properties.                                                             *)
(***************************************************************************)
\* Files hold what a conversion has written of them, the runner the arrays it asked for.
TypeOK ==
  /\ text \in Texts /\ sources \subseteq Texts /\ runs \in 0..MaxRuns
  /\ \A f \in FileNames :
       disk[f] # Absent =>
         \E t \in sources : \E file \in ToSet(FilesOf[t]) :
           file.name = f /\ IsPrefix(disk[f], file.data)
  /\ load.step \in {"meta", "arrays", "loaded", "refused"}
  /\ load.step = "loaded" => Len(load.arrays) = Len(Wanted(load.meta))

\* Whether meta and arrays are the graph a text describes, told from the text alone: no
\* loops, no direction, no multiple edges, under some numbering of the vertices; each
\* neighbourhood is ascending, with the offset of the vertex itself.
IsGraphOf(meta, arrays, t) ==
  LET edges == {{e[1], e[2]} : e \in ToSet(Edges(t))}
      Vertices == UNION edges
      Ix == 0..(meta.num_vertex - 1)
      N(v) == SubSeq(arrays[4], arrays[1][v + 1] + 1, arrays[1][v + 2])
      Triangles == {c \in SUBSET Vertices : Cardinality(c) = 3
                                            /\ \A a, b \in c : a # b => {a, b} \in edges}
  IN /\ \A k \in DOMAIN Wanted(meta) : Len(arrays[k]) = Wanted(meta)[k][2]
     /\ Cardinality(Vertices) = meta.num_vertex
     /\ 2 * Cardinality(edges) = meta.num_edge
     /\ Cardinality(Triangles) = meta.num_triangle
     /\ \E number \in [Vertices -> Ix] :
          /\ {number[a] : a \in Vertices} = Ix
          /\ \A a \in Vertices :
               ToSet(N(number[a])) = {number[b] : b \in {c \in Vertices : {a, c} \in edges}}
     /\ \A v \in Ix :
          /\ \A i, j \in DOMAIN N(v) : i < j => N(v)[i] < N(v)[j]
          /\ \A i \in DOMAIN N(v) : i <= arrays[2][v + 1] <=> N(v)[i] < v

\* A runner that loads from a directory that has held one graph only gets that whole
\* graph or refuses, however often conversions were killed and repeated and even if one
\* is writing (convert, save_bin, the CHECKs of read_file).
LoadsWholeGraph ==
  load.step = "loaded" =>
    \A t \in sources : sources = {t} => IsGraphOf(load.meta, load.arrays, t)

\* A completed conversion leaves nothing of what was there before: a load finds the
\* graph of snap.txt, provided its vertices fit in 32 bits; without the provision a
\* 32-bit file of another graph stays in place (save_bin_u32).
CompletedReplaces ==
  current /\ Len(idMap(Edges(text))) < MaxU32 =>
    LET meta == Meta(disk["meta"])
        wanted == Wanted(meta)
    IN /\ \A k \in DOMAIN wanted : Complete(disk[wanted[k][1]], wanted[k][2])
       /\ IsGraphOf(meta, [k \in DOMAIN wanted |-> Start(disk[wanted[k][1]], wanted[k][2])], text)

(***************************************************************************)
(* A conversion that nothing disturbs: hypotheses of the proofs.           *)
(***************************************************************************)
MetaOf(t) == Meta(FilesOf[t][1].data)
DataOf(t, name) == (CHOOSE file \in ToSet(FilesOf[t]) : file.name = name).data
ArraysOf(t) ==
  [k \in DOMAIN Wanted(MetaOf(t)) |->
     Start(DataOf(t, Wanted(MetaOf(t))[k][1]), Wanted(MetaOf(t))[k][2])]

\* load_txt returns numbers and arrays of numbers.
LoadsNumbers ==
  \A t \in Texts :
    load_txt(t) \in [v_num : Nat, e_num : Nat, indices : Seq(Nat), indptr : Seq(Nat),
                    triangles : Seq(Nat), degrees : Seq(Nat), offsets : Seq(Nat),
                    tri_num : Nat, max_deg : Nat, max_offset : Nat, max_tri : Nat]

\* The files of one complete conversion hold the graph of the text, provided its
\* vertices fit in 32 bits.
ConvertsAlone ==
  \A t \in Texts : Len(idMap(Edges(t))) < MaxU32 => IsGraphOf(MetaOf(t), ArraysOf(t), t)

=============================================================================
