# GraphMini in TLA+

GraphMini counts the embeddings of a small pattern in a large graph.  It turns
the pattern into a C++ program (a loop nest over sorted vertex sets, with
auxiliary pruned graphs, the *mini graphs*), compiles it and runs it with
OpenMP.  This directory holds TLA+ models of that program, the TLC
configurations that check them on small instances, and theorems about them
checked by TLAPS.  Paths are relative to the repository, whose own code is
`src/` and `include/`.

## 1. Inventory

| Component | State | Operations | Interacts with |
|---|---|---|---|
| **Vertex sets** `src/backend/vertex_set.h` | sorted id array, size, the vertex whose neighbourhood it is, owned or alias | `intersect`, `subtract`, `bounded`, `remove`, `indices`, counting variants, copy, move | every generated statement; rows of mini graphs; pool |
| **Pools** `vertex_set.h` (VertexSetPool), `minigraph.h` (MiniGraphPool, ManagedContainer) | per thread: existing and available buffers, the large ones sorted by capacity | allocate, free, `Resize`, `Reserve` | vertex sets, mini graph rows |
| **Mini graphs** `minigraph.h` | vertices, intersect set, row positions, row degrees (with sentinels), parent | `build` from the data graph or a parent, `N` (may prune lazily), `indices` | generated loop nest |
| **Plan generation** `codegen/ir.cpp`, `codegen/codegen.cpp` | set and mini graph operations per loop, parents, bounded flags, ids | `create_plan`, `create_plan_mg` | scheduler (input), code generation (output) |
| **Generated loop nest** `gen_code_omp` and the `gen_code_*` below it | per loop: the matched vertex, the sets and mini graphs in scope | the statements of a loop body, `gen_code_iep` | vertex sets, mini graphs, counters |
| **Generated plan** `gen_code_omp`, `backend.h` | per-thread counters, `iep_redundency`, times | parallel loop over the vertices, counting statements | runner reads the counters |
| **Runner** `runner.cpp` | condition variable, time-out flag, log record | start the plan thread, wait up to 24 h, read the result, log a row | plan, log file |
| **Converter and loader** `graph_converter.cpp`, `meta.cpp`, `load_bin` | CSR arrays, the files of a dataset directory | `convert`, `save_meta`, `save_bin`, `load_bin` | runner, through the directory |
| **Driver** `run.cpp` | plan.cpp, runner binary, binary per experiment | generate, build with retries, run | code generator, runner |
| Profiling copies, logging, timers, GraphPi scheduler (vendored) | | | not modelled |

What is hard here: worker threads that share counters and a schedule; a main
thread that waits on a condition variable without lock, flag or predicate and
reads the counters of workers that may still run; sets that alias pooled
buffers; rows whose space is reserved from an estimate and filled later;
bounds, restrictions and subset relations that the code generator must get
right because the generated loops do not check them; loops that write into
buffers without a bound check; a dataset directory that is written in pieces,
by a conversion that may be killed, while a runner may read it.

What makes each component correct:

- vertex sets: each operation returns exactly the promised set, ascending,
  within its buffer;
- pools: no buffer has two owners, a request gets at least its size;
- mini graphs: a row holds the intersection its consumer expects, whenever it
  is pruned, and rows do not overlap;
- plan generation: each operation is computed from operands that exist, and
  means the set its pattern vertex asks for;
- generated loop nest: each set holds the candidates of its pattern vertex, and
  the count is the number of subgraphs;
- plan: the counters sum up to the number of embeddings;
- runner: a row is the total or marked as timed out, and every run ends;
- converter: what loads is one whole graph, the one that was converted;
- driver: the binary run is the binary of this pattern.

## 2. Plan

Done, in this order:

1. `VertexSetArrays`, `VertexSetMerge`, `VertexSetSearch`: the set operations; every safety
   property proved.
2. `ParallelPlan`, `Runner`: counting in parallel and waiting for it; every safety
   property proved.
3. `VertexSetBuffers`, `MiniGraphPool`: who owns a pooled buffer, and `BufferPool`,
   the abstract specification both implement; every property and both refinements
   proved.
4. `MiniGraphRows`: the four pruning policies as one row machine; every property
   proved.
5. `PlanIR`, `GenCode`, `LoopNest`: generating a plan and executing it; proved for every
   input and every data graph that operands fit, that sets are the planned ones and that
   the result is the number of subgraphs, from hypotheses about the schedule and one about
   the plan that section 5 names.
6. `Converter`: preparing and loading a data graph; every property proved, given what
   one undisturbed conversion computes.

Open:

- A condition on schedules that implies `BoundedRowsSuffice`; the ones named so far do not
  (section 5).
- `ParallelPlan` takes what an iteration adds as given and `LoopNest` runs on one
  thread; stating that the increments of `LoopNest` are those of `ParallelPlan` would
  join the two.

Which module uses which: `VertexSetMerge` and `VertexSetSearch` extend
`VertexSetArrays`; `Runner` extends `ParallelPlan`; `LoopNest` extends
`GenCode`, which extends `PlanIR`; `VertexSetBuffers` and `MiniGraphPool` instantiate
`BufferPool`.  The others stand alone, and section 3 says which assumption of one is
what another establishes.

## 3. Modules

**VertexSetArrays** is what the next two share: ascending arrays, and the cursor, the
output and the place in the code of the operation at work.

**VertexSetMerge** models the merge loops of `intersect`, `subtract`,
`indices` and their counting variants.  `left` and `right` are
`this->m_data` and `other.m_data`, `vid` is `other.m_vid`, `idx_l`, `idx_r` and
`out` are the local variables, and an iteration of a loop is a step
(`MergeStep`, `TailStep`; `LeaveMerge`, `LeaveTail` leave the loops).  `NoUpper`
stands for the overload without a bound.  A counting variant returns
`Len(out)`.  `Proceed` feeds a result to the next operation as the left
operand, as generated code does.

**VertexSetSearch** models `bounded`, `remove` and their counting variants:
`BinaryStep` is an iteration of the bisection, `LinearStep` of the scan,
`LinearLimit` the 64 of the code.  Its specification is `SearchSpec`.

**VertexSetBuffers** models whose memory a set points to.  `scope` is the list of
named sets of the loop bodies a thread is in, `temps` the operands of the
expression it evaluates, `exist` and `avail` the pool's vectors.  `DeclareView`,
`DeclareResult`, `BeginExpression`/`Link`/`Bind` and `CountExpression` are the
forms of statement the generator emits; any of them may come next, so the module
covers the plan of every pattern (and sequences no pattern has).  `EndIteration`
destroys the sets of a body, latest first, so that the pool's list gets their buffers
in this order (`Freed` places each buffer by the number of sets that end after it).
Whether the elements of a set are
still those it was given is the field `intact`: `Spoil` clears it in every other
set that points to a buffer being written.

**MiniGraphPool** models the memory behind the rows.  `capacity` is `buffer_exist`,
`avail.small` the stack of small buffers and `avail.large` the list sorted by
capacity, `ctn[c]` the buffer of a `ManagedContainer`.  `Resize` allocates the new
buffer before it frees the old one and copies; `Reserve` frees first and does not
copy; `Assign` is the assignment of `indices(m_vertex)`; `Destroy` the end of an
iteration.  `asked` and `written` are what the callers rely on: the largest size
asked for and the elements they still need.  `kept` counts the elements of a
buffer that are as its holder wrote them.

**MiniGraphRows** models the four mini graph classes as one machine.  `args` are the
arguments of `build`, chosen once; a `BuildOuter` or `BuildInner` step handles one row
of the build loop, and `RowModes` says what a policy makes of a row: pruned now,
deferred to the first `N(i)` (with `Estimate` elements reserved), read from the
source each time, or left uninitialised.  `ReadOuter` and `ReadInner` are `N(i)`,
which may prune a deferred row, in any order and any number of times; a read of an
inner row may prune a row of the outer mini graph.  `cells` is the buffer, so that
rows which overlap would destroy each other; `Ascending` lists a set of ids the way
the vertex set operations leave it.  Which rows `MiniGraphCostModel` defers
depends on an estimated gain (`should_prune`); the model lets it decide either way for
each row.  Where the code compares addresses (`m_iter.vid() ==
m_vertex.vid()` and the like), the two sets begin with the same elements, so a shared
iteration set is a prefix of the vertices.

**BufferPool** is what both pools promise, without size classes, stacks, sorted lists
or copies: a buffer is free or held, a request is met with some free buffer that
fits, and a new one is made only if none does.  A request may give buffers back
before it looks (`Reserve`) or after (`Resize`, an assignment).  `VertexSetBuffers`
maps `Free` and `Held` to the pool's list and the buffers the sets own, with one size
for all; `MiniGraphPool` to both lists and the containers' buffers, where a large
buffer does not serve a small request.

**PlanIR** models `create_plan` and `create_plan_mg`.  An operation is a record of the
loop, the edges and the restrictions to the vertices matched so far, and its id;
`set_ops[d]` and `mg_ops[d]` are the vectors.  `CreatePlan` is the body of
`create_plan`'s loop for one pattern vertex: candidates, `std::sort`, `std::unique`,
numbering, `std::find`.  `VertexSetIR::operator<` compares position by position and is
no strict weak order, so what `std::sort` makes of a vector depends on its algorithm:
for up to 16 elements it is insertion sort, which the model performs, and no plan in
reach has more.  `Orderly` says of an input that `operator<` is a strict weak order on
the operations of every loop that may have more than two of them to sort
(`InputsOrderly`: all inputs are).  The helpers of the loops (`Only`, `Numbered`, `Distinct`,
`Sorted`, `LastOf`) are folds and choices, not RECURSIVE operators, so that they can be
proved about.  `CollectMiniGraphs`, `MarkUsed`, `Inherit` and `Erase` are the loops of
`create_plan_mg` one round at a time.  `Erase` skips the element behind an erased one,
as `erase(itr)` with `itr++` does; when the last one is erased the loop has run past
`end()`, and `phase` becomes `"undefined"`.  Order, restrictions and inclusion-exclusion
groups are what GraphPi returns, and inputs here.

**GenCode** models which statements `gen_code_omp` writes.  `code` is the program: for
every loop whether the neighbourhood is declared, the rows read, the sets computed (each
with the form of statement, its operand, whether it counts and whether an empty
result leaves the iteration) and the mini graphs built.  A failed `CHECK` ends in the
phase `"aborted"`.  `OperandsDeclared` says of every operand that it is declared before it
is used and that it is the right one: the operand of a set statement stands for the same
operation one loop further out or without its last restriction, and a row, or the
source of a mini graph, keeps what is asked for.

**LoopNest** executes `code` on a data graph.  A frame is an iteration of a loop with
what it has in scope; `EnterRoot`, `EnterLoop`, `LeaveLoop` and `Return` are the control of
the nest, and `Body` executes one body as a whole, since no other thread reads its
variables.  A vertex set is its set of vertices: that the operations compute it is what
`VertexSetMerge` and `VertexSetSearch` show, that it stays intact is what
`VertexSetBuffers` shows.  A mini graph is what `N` returns for its rows, as
`MiniGraphRows` shows for every policy; the uninitialised rows of the cost model are that
module's, and `LoopAssumption` excludes the policy here.  `Inclusion` is `gen_code_iep`.
What the program should count is said of an input and a graph, without the program:
`Matches` are the maps of the pattern, `Subgraphs` their images, and `Restricted` the matches
that respect the closed restrictions on the vertices the loops match (up to `Innermost`;
the others are left to inclusion-exclusion, which has no restrictions).  What is
expected of GraphPi's schedule is said of the input: `ScheduleFits` (a restriction is on a
later vertex, the vertices left to inclusion-exclusion are not connected, and the
signed partitions are those of inclusion-exclusion, `Alternating`) and `RedundancyFits` (the
restricted matches are as many times the subgraphs as the redundancy says).

**Converter** models the directory of a dataset.  `text` is snap.txt, a sequence of lines
of which a malformed one ends the reading.  `Convert` reads it and opens the first file;
`Flush` writes a piece of the file at hand; `Close` closes it and opens, and so
empties, the next.  `Crash` kills a conversion between any two pieces, `Replace` puts
another snap.txt into the directory, and another conversion may start.  `ReadMeta` and
`ReadFile` are the runner's `load_bin`, file by file and beside a conversion.  What a
file holds is `load_txt` as arrays: ids in order of appearance, both directions,
sorted, offsets, triangles.  `IsGraphOf` says independently of that, from the text
alone, what the arrays must be.  `LoadsNumbers` and `ConvertsAlone` say of one text
what its conversion gives when nothing disturbs it; the proofs start from them, and
`MCConverter` has TLC evaluate both on the texts of the run.

**ParallelPlan** models the parallel region of a generated plan.  `Claim` is
the dynamic schedule, `Enter` what a thread does on entry (all of them write
`iep_redundency`), `Add` one counting statement, `EndIteration` the `handled`
counter, `RecordTime` the statement behind the `nowait` loop, `Join` the barrier.
What an iteration finds is a constant, `Increments`.  Iterations that leave
through `continue` are in `Skipped`.

**Runner** extends it with `main` and `plan_24hrs`.  The condition variable is
modelled as the library defines it: `Notify` wakes a waiting `main` and is lost
otherwise; `Deadline` may come at any time after waiting has begun and a
`wait_for` that returns after it reports a timeout; `SpuriousWakeup` can be
switched off by a constant.  The lifetime of objects is left out.
`ReadCounter` reads one counter of `get_result()`, so the workers move between two reads.  The counters are read without
synchronisation; a read returns the value last stored, and since `Add` is the
store, a compiler that stores later only restricts the interleavings.  `woken`
(why the wait ended) and `answered` (whether the plan had returned by then) are
history variables.

## 4. Runs

| Run | Shows | Bounds |
|---|---|---|
| `vertex_set_merge` | `ReturnsPromised`, `ReturnsAscending`, `WithinCapacity`, `Returns` | all 16 ascending arrays over four ids as either operand, bounds 0..3 or none: every relative order of three elements, including both cursors at the bound |
| `vertex_set_search` | `FoundPosition`, `SearchReturnsPromised`, `SearchReturns` | all arrays over seven ids with the limit at 3: scans up to three elements, bisections of four to seven |
| `vertex_set_buffers` | `OwnedOnce`, `ViewsOutlived`, `KeepsElements`, `IsBufferPool` for vertex-induced plans and for the two outer loops of edge-induced ones | three nested loops, four sets in scope, chains of two: the shortest in which a temporary of a chain dies before its last operand |
| `vertex_set_buffers_edge` | violation: a set loses its elements while in use | three nested loops |
| `minigraph_pool` | `OwnedOnce`, `RequestMet`, `KeepsRows`, `GrowsOnlyIfNoneFits`, `IsBufferPool` | three containers, four buffers, one small and two large sizes: a `Resize` from the small class to the large one and between two large sizes, with a fitting buffer available or not; symmetric in the containers |
| `minigraph_rows` | `RowsPromised`, `WithinReserved`, `RowsStay` for every pair of policies a plan can have | two triangles with a common edge; bounded or not; iteration sets empty, a prefix, with a gap, and shared; every order of reads |
| `minigraph_rows_shared` | violation: rows that are iterated over are never built | one mini graph |
| `runner` | `CountConserved`, `ReturnsTotal`, `FinishedIsTotal`, `LateAnswerIsTotal`, `PartialIsLowerBound`, `ExitsWithOneRow` | two threads, three iterations of which one is skipped: two running at once and one thread claiming twice |
| `runner_lost_notification` | violation: `main` waits for a plan that has already ended | no spurious wakeups |
| `loop_nest` | `OperandsDeclared`, `BoundedRowsSuffice`, `BuildsProgram`, `CountsSubgraphs`, `SetsAsPlanned` | all connected patterns with three to five vertices as GraphPi orders and restricts them; vertex-induced, edge-induced and inclusion-exclusion; no mini graphs, static, eager, online; patterns with three and four vertices on all graphs of four vertices and two of five, with five vertices on the pattern itself and on a dense graph |
| `loop_nest_any_pattern` | violation: a connected pattern without a program that compiles and counts | eager pruning, patterns with five and six vertices |
| `converter` | `LoadsWholeGraph`, `CompletedReplaces` | two conversions, three texts of which one does not fit in the 32-bit files (`MaxU32` = 4), one with a comment, a loop, a repeated edge and a malformed line |

Every run also checks its module's `TypeOK`.  The bounds are chosen so that the
hazards occur: each property fails in its run when the code is changed as
PROJECT.json's `mutants` describe.

**The violations are real.**  In an edge-induced plan the set of a vertex whose first
matched neighbour is at loop 2 or deeper is declared as
`i2_adj.remove(i0_adj.vid()).remove(i1_adj.vid())` (`codegen.cpp:403-442`).
`remove` of a vertex the set does not hold returns a view (`vertex_set.h:360`), as
`bounded` always does (309); when the set it was called on is a temporary that
owns a buffer, the buffer is free at the end of the statement, and the pool
hands it out first.  The path of six vertices ordered 0-1, 0-2, 1-3, 2-4, 3-5
has such a set, read after the operations of loop 3.  Vertex-induced plans and
the two outer loops of edge-induced ones declare one operation at a time, and
`vertex_set_buffers` shows that they are not affected.

`MiniGraphCostModel::build` from the data graph wraps the loop over the iterated
rows in `if (m_vertex.size() == 0)` (`minigraph.h:684`), behind a return for that
very case (656).  When the iteration set begins at the vertices' address, the
rows the next loop reads keep whatever the containers held before.  Built from a
parent, the class has the loop without the guard (778).

In the runner, `runner.cpp:131` notifies without the mutex and without
a flag, and `runner.cpp:138` waits without a predicate.  What remains true:
`FinishedIsTotal`, of a run whose wait ended on the notification, and
`LateAnswerIsTotal`, of a run whose plan had returned when the wait ended, on whatever:
the row may be marked as timed out, because the notification was lost or the deadline
passed before `main` ran again, but its result is complete. The missing predicate
also lets a spurious wakeup end the wait before the plan has; the run `runner`
includes those wakeups, and `PartialIsLowerBound` is what can be said of the row
logged when the plan still runs. It is stated for plans whose increments are set
sizes: with inclusion-exclusion a partial sum can exceed the total. For the same
reason the run `runner` has no redundancy: that the total is divided by what every
worker has written on entry is proved (`PlanReturnsTotal`, `LateAnswerCorrect`) for
any redundancy, and `loop_nest` divides on one thread.

After a timeout the plan thread may go on to notify a condition variable that no longer
exists, since it holds `plan_24hrs`'s locals by reference (`runner.cpp:129`).  The
code does this, nothing in the repository promises that it does not, and `Runner` leaves
the lifetime of objects out: no property is stated about it.

`loop_nest_any_pattern` ends in the first of three disagreements with the README's
"arbitrary patterns"; `tlc -continue`, or the values of `Sizes` and `MCMatTypes`
given here, show the others.

- `gen_code_read_adj` declares `iN_adj` only if an operation of loop N needs it
  (`codegen.cpp:264`), but the operations of inner loops subtract the neighbourhoods of
  all outer vertices.  Two five-vertex patterns have a vertex-induced plan with
  mini graphs that names an undeclared `i1_adj`: it does not compile.
- `create_plan_mg` runs past the end of `mg_op` when it erases its last element
  (`codegen.cpp:250`).  A tree with six vertices (`Sizes = {6}`) leads there; what is
  read there is no mini graph, and `IndeedUsed.at` aborts the generator.
- `restricts_to_str` closes the restrictions transitively (`codegen.cpp:48-55`), but
  inclusion-exclusion divides by the redundancy GraphPi computed for the restrictions
  as they are.  For K(2,3) (`MCMatTypes = {"EdgeInducedIEP"}`, `Sizes = {5}`) the program
  counts 0 instead of 1 on K(2,3) itself.

`loop_nest` leaves out these inputs (`MCLoopNest!Fails`) and no others.

**Deadlock.**  `CHECK_DEADLOCK FALSE` is set where the process ends (`runner`,
`converter`).  `loop_nest` is checked for deadlock: plan generation and the loop nest
go on until the program has returned or generation has failed (`Stop`), and
`BuildsProgram` excludes the latter.

**Fairness.**  The set operations run on one thread without waiting, so their
loop steps are weakly fair (`Returns`).  In `Runner`, `main` is weakly fair and the
deadline comes eventually (the clock advances); nothing is assumed of the plan, which
may run longer than a day.  The other modules claim no liveness: the pools and rows
are called in any order or not at all, a conversion may be killed, and every loop of
`PlanIR` and `LoopNest` runs over finite data.

**Refinement.**  `IsBufferPool` in both pools is `Pool!Spec` of `BufferPool` under the
mapping given in the module, checked by TLC as a property and proved.

**What `Converter` assumes.**  `CompletedReplaces` has a provision: when the ids do
not fit, `save_bin_u32` writes nothing and leaves an older 32-bit file where it is
(`graph_converter.cpp:193`).  `LoadsWholeGraph` is about directories that have held one
graph: counts of one graph and arrays of another can fit each other by chance, and
nothing in the files tells them apart.  `dataset/prep.sh:15` skips a dataset whose
snap.txt exists, so running it again does not repair a killed conversion; `prep` has
to be run by hand.

## 5. Proofs

`VertexSet_proofs` proves about `VertexSetMerge` and `VertexSetSearch`, for arrays of any
length, every bound and every sequence of calls:

- `TypeCorrect`, `SearchTypeCorrect`: the cursors stay inside the arrays.
- `MergeCorrect`, `MergeAscending`, `MergeWithinCapacity`: `ReturnsPromised`,
  `ReturnsAscending`, `WithinCapacity`.  None is inductive alone.  The invariant
  says that every element already passed has been dealt with: what is in `out` is
  exactly what the operation promises of the elements before `idx_l`, the elements before
  `idx_r` are below those from `idx_l` on, and in the second loop of `subtract`
  no remaining element below the bound occurs on the right.
- `SearchFinds` and `SearchCorrect`: `FoundPosition`, `SearchReturnsPromised`.  The
  invariant is that all elements before `idx_l` are below the key and all from `idx_l + count` on are
  not (bisection), or the first half alone (scan).

The assumptions are those the modules name: operands are ascending arrays of
naturals (`ArraysAssumption`), bounds, keys and the limit are naturals
(`UppersAssumption`, `SearchAssumption`).  The
converter sorts and deduplicates the adjacency arrays (`graph_converter.cpp:102-110`),
and results are ascending again, which is what `ReturnsAscending` states.

`Runner_proofs` proves, about `ParallelPlan` and `Runner` and for every number of
threads and iterations, every sequence of increments, every redundancy, every
moment of the deadline and with or without spurious wakeups:

- `CountingCorrect` (`CountConserved`) and `PlanReturnsTotal` (`ReturnsTotal`).
  The invariant, `PlanInv`, adds that the iterations of running workers are
  claimed and different (`Claims`), so an increment changes the progress of one
  iteration by what it changes one counter by; that the handled counters match the
  ended iterations; and that a worker at the barrier has seen the last iteration
  and written the redundancy (`Barrier`).
- `LateAnswerCorrect` (`LateAnswerIsTotal`) and, from it, `FinishedCorrect`
  (`FinishedIsTotal`).  A plan that has returned has no thread that still moves a
  counter, so what `main` has added up is the sum of the counters it has read
  (`Reading`), and a notification reaches `main` only after the plan has returned
  (`Answered`).  `RunnerTypeCorrect` is `TypeOK`.
- `PartialCorrect` (`PartialIsLowerBound`), for increments that are set sizes
  (`SetSizes`).  The invariant, `BoundInv`, splits the counters into those `main` has
  read in this `get_result()` and those it has not: what it has summed up is at most
  what the first hold now, and what it logged the first time is at most what it has
  summed up the second time plus what the others hold.  Counters only grow, so
  every step of a worker keeps both.

The sums are folds of the community modules.  The first part of the module
proves by induction over the subsets of a finite set that the recursion behind a fold exists and that its
value does not depend on the order; a set takes the place of the predicate, so that
the library's theorem on well-founded relations applies.

Their assumptions are `PlanAssumption` (at least one thread, integer increments) and
`RunnerAssumption`.

`MiniGraphPool_proofs` proves, for any containers, sizes and limit between the classes
and any bound on the buffers, `PoolTypeCorrect`, `PoolOwnedOnce`,
`PoolRequestMet`, `PoolKeepsRows`, `PoolGrowsOnlyIfNoneFits` and
`PoolRefinesBufferPool`.  `OwnedOnce` is not inductive: what `Resize` hands out must be
a buffer that fits and that nobody else has, and both depend on the lists.  The
invariant (`PoolInv`) says that the lists hold each buffer at most once, the small and the
large ones apart (`Good`); that the lists and the containers divide the buffers among
them; that the list of large buffers is ascending, without which its last element
would not decide whether any of them fits, nor the first that fits be the one
`Min` names; and that no buffer is smaller than `SmallCap`, without which a small
buffer would not serve every small request (`Capacities`).  `RowsInv` adds that a buffer
keeps what its container has written.  The refinement follows from what a step means
(`StepMeans`): a request served with a free buffer that fits, or with a new one when
none does, or a release.  Its assumption is `PoolAssumption`.

`VertexSetBuffers_proofs` proves, for any number of loops, sets, links and buffers:

- `BuffersTyped`, `BuffersOwnedOnce` (`TypeOK`, `OwnedOnce`) and `SetsRefineBufferPool`
  (`IsBufferPool`), from the invariant `TypeOK /\ OwnedOnce`.  The hard steps are those that
  release several buffers at once, at the end of a body or of an expression: the list
  they extend must hold each of them once, which follows from the ranks in `Freed`
  being different.
- `OwnersOutliveViews` and `SetsKeepTheirElements` (`ViewsOutlived`, `KeepsElements`), from
  `ViewsInv`, which adds that a temporary owns its buffer or points to what the one
  before it points to, and from the third loop on always owns it (`ChainInv`).  Both
  have the hypothesis `ChainsSubtract`: from the third loop on, a chain consists of subtractions.
  Vertex-induced plans declare one operation at a time and satisfy it; an edge-induced
  plan that chains `remove` does not, and `vertex_set_buffers_edge` shows the set it loses,
  so the hypothesis cannot be left out.

`MiniGraphRows_proofs` proves, for every data graph, all iteration and vertex sets and
every order of reads:

- `RowsTyped` and `RowsWithinReserved` (`TypeOK`, `WithinReserved`), from `SpaceInv`: the
  two builds are ones a plan can have (`Planned`), the inner one starts when the outer
  one is complete (`InTurn`), and a pruned outer row has the length of the part of the
  neighbourhood it stands for (`OuterLens`), from which the space of the inner rows is
  estimated.
- `RowsAsPromised` and `PrunedRowsStay` (`RowsPromised`, `RowsStay`), from `RowsInv`: the rows
  of a mini graph follow each other without overlap (`Laid`), and the cells of a pruned
  row hold its neighbourhood (`Filled`).  That a deferred row, pruned later, does not
  run into the next one is `WithinReserved` again.  Both have the hypothesis
  `NoSharedCostModel`: no mini graph is built from the data graph under the cost model with
  an iteration set that begins where the vertices do.  Without it
  `minigraph_rows_shared` shows rows that are never built.

`Converter_proofs` proves `ConverterTyped`, `LoaderGetsWholeGraph` and `ConversionReplaces`
(`TypeOK`, `LoadsWholeGraph`, `CompletedReplaces`) for any texts, any number of
conversions and kills, every size of the pieces written and every interleaving with
the reader.  The invariant, `ConverterInv`, says that every file is the beginning of the
file of that name of some converted text (`OnDisk`); that the conversion at work has
completed the files before the one it writes and left what it has yet to write in
`pending` (`AtWork`); and that every array the reader has accepted is the full
beginning, of the length meta.txt asks for, of a converted text's file (`ReadSoFar`).  A text's
files have different names (`FilesFacts`), so with one text there is one file it can come
from.  Two hypotheses stand for what one conversion computes, which is folds over the
lines of a text and out of the provers' reach: `LoadsNumbers` (the arrays are arrays of
numbers; enough for `ConverterTyped`) and `ConvertsAlone` (the complete files of one text
hold its graph, if its vertices fit in 32 bits).  Both are about single texts and
constant; what the theorems add is every schedule of writers, kills and readers.

`Plan_proofs` and `LoopNest_proofs`, which extends it, are about `PlanIR`, `GenCode` and
`LoopNest` together: every input `PlanAssumption` allows (any pattern size, edges,
restrictions and groups), every data graph without loops and one-way edges, and every
pruning policy but the cost model.  The theorems rest on each other, and their hypotheses
grow.

| Theorem | States | Hypotheses |
|---|---|---|
| `PlanTyped` | `PlanTypeOK` | none |
| `OperandsFitted` | every operand, row and source of a generated program is one its statement can start from, declared by its loop or one around it | none |
| `OperandsOrdered` | operands come first among the statements of a loop (`InOrder`) | `InputsOrderly` |
| `OperandsCorrect` | `OperandsDeclared` | `InputsOrderly` |
| `OperandsInOrderCorrect` | `OperandsDeclared` | `[]InOrder` |
| `SetsCorrect` | `SetsAsPlanned` | `InputsOrderly`, `[]BoundedRowsSuffice` |
| `SetsInOrderCorrect` | `SetsAsPlanned` | `[]InOrder`, `[]BoundedRowsSuffice` |
| `LoopNestTyped` | `TypeOK` of `LoopNest` | as `SetsCorrect` |
| `MatchesCounted` | the counter of a program that has returned is `Cardinality(Restricted(input, graph))` | the same and `SchedulesFit` |
| `SubgraphsCounted` | `CountsSubgraphs` | the same and `RedundanciesFit` |

*The hypotheses.*  `InputsOrderly` is what `std::sort` itself asks of the comparison it is given.
`MCLoopNest` has TLC evaluate it for every input of the runs (`InputsAreOrderly`), so there
it costs nothing.  It cannot be dropped: with the edges 01, 02, 03, 13, 04 and the
restrictions 0-2, 0-4, 1-4 on five vertices, in loop 1 the operation with edge and
restriction to 0 precedes its unrestricted sibling and the other way round,
insertion leaves it in front, and its statement names a set that is not declared yet
(GraphPi produces no such schedule).  Nor is it necessary: schedules with six vertices
exist on which `operator<` is no order and the sort succeeds all the same; for these there
are the theorems with `[]InOrder`.  `[]BoundedRowsSuffice` is checked by `loop_nest` for every
plan it generates and depends on the plan alone, not on the data graph.  It does not follow
from the others: for the edges 01, 02, 03, 04, 12, 23, 24 and the restrictions 0-2, 1-3, 3-4,
which satisfy all of them with redundancy 1, a vertex-induced plan with eager mini graphs
has two operations in loop 1 that read one mini graph; the first is restricted to
vertices below that of loop 1 and makes its rows bounded (`codegen.cpp:226`), the second is
not and reads too little, so the program miscounts.  As the only element of `Patterns5` this
input makes TLC violate `BoundedRowsSuffice`, and `SetsAsPlanned` and `CountsSubgraphs` when
the data graphs are the pattern's renumberings with and without a sixth vertex.  GraphPi
orders and restricts this pattern differently.  `SchedulesFit`
and `RedundanciesFit` are what the generator trusts GraphPi for; TLC evaluates them for the
runs' inputs (`InputsFit`).  The one exception is K(2,3) in `loop_nest_any_pattern`: there
`RedundancyFits` fails, and the program's result is wrong, as section 4 says.
`MatchesCounted` still holds of it.

*The plan.*  `PlanInv` is the invariant of `create_plan` and `create_plan_mg`.  `SetsInv`: a loop
whose turn is over has exactly the candidates of the later vertices that have an edge to a
matched one (`LoopPlanned`), without which the parent that `get_parent_vset` looks for one
loop further out would not be there.  `MiniGraphsInv`: the two sets of a mini graph are of
the loop that declares it, ids are given once and are below the next one, and rounds of
`Erase` only remove mini graphs without a mark.  `UsedInv`: what `MarkUsed` and `Inherit` have
marked is declared by an outer loop, and every marked mini graph that has a parent has a
marked one when the loop over children is behind it, so what the code names survives the
erasure.  `CodeInv` says of every loop gone through that its statements, reads and builds
are those of its operations, with forms and operands that fit (`FitsOf`).  The alternatives
of `gen_code_op` and `gen_code_mg_op` exclude each other, as their proofs need.

*The order.*  Insertion into a sorted sequence keeps it sorted if the order is strict, and
then `std::unique` leaves no operation twice, although `operator==` is used on neighbours
only.  `PlanOrdered` carries this from loop to loop, to the mini graphs (ordered
lexicographically by their two sets) and through the erasure, which keeps the relative
order; and a larger operation never precedes the one it narrows.

*The sets.*  `LoopInv` adds to these invariants that every loop the thread is in has in scope
exactly the sets and mini graphs declared up to it (`FrameRight`), every set being the
candidates of its operation and every row of a mini graph lying between the part of the
neighbourhood it must keep and the neighbourhood itself (`RowRight`).  `SetsAsPlanned` alone
is not inductive: a body also reads rows, whose content was fixed several loops
further out for vertices matched since.

- The argument for one statement (`ValueRight`) goes by its form: an operation narrows
  the set of its parent by what its own loop adds (`PrefixNarrowed`, `SiblingNarrowed`), a
  row that keeps a superset may replace the neighbourhood (`SupersetContains`,
  `RowServes`), a row may replace the whole set (`ComputedAdds`), and the row found by
  index is that of the matched vertex because both sets are the same, in the same
  order (`AscendingFacts`, `ReadRight`).
- Bodies are lists of statements; `ExecutedInOrder` and `BuiltInOrder` say that the
  recursive functions behind `Executed` and `Built` are what they look like, by
  well-founded induction, and `ExecutedScope` and `BuiltRight` follow the list, each
  statement with the operands declared before it.

*The count.*  The maps of the pattern into the data graph pass in lexicographic order.
`CountInv` says that the counter is the number of restricted matches whose turn is over
(`PassedBy`): those before the matched vertices, and those that begin with them and go on
with a vertex that has had its turn in the innermost loop (`RightSoFar`).  Entering a loop
and leaving it change neither (`GoneIn`, `GoneOut`); an iteration that ends adds exactly
the restricted matches that begin with the vertices it has matched (`IterationCounts`):

- a body that leaves early found no candidates for some later vertex, and no match goes
  on (`MapFits`);
- the loop before the last vertex has one operation, by the order, and counts its set:
  one match for each candidate (`CountingLoop`, `LastCounted`);
- inclusion-exclusion reads, for every vertex no loop matches, the set of its candidates
  (`IepSets`).  The product of a group is the number of choices of candidates that agree
  within the parts (`ChoiceSum`), the signs add up to one for the choices of different
  vertices and to nothing for the others (`Alternating`, `PatternSum`), so the sum is the number
  of choices of different vertices (`InclusionCounts`), and these are the matches
  (`LastIncluded`).

The folds here go over sets with integer values; their induction goes through the
subsets of a finite set, as in `Runner_proofs`.  When loop 0 is over, all restricted matches
have had their turn (`AllCounted`), and dividing by the redundancy gives the subgraphs.

Only model-checked: termination (`Returns`, `SearchReturns`, `ExitsWithOneRow`), since liveness is outside the
proof system's reach; what `load_txt` computes of a text (above), which is folds over data;
`BoundedRowsSuffice`, which depends on the restrictions GraphPi chooses (above); and
`BuildsProgram`, which is false for some patterns (`loop_nest_any_pattern`) and so a statement
about the others one by one.

## 6. Not modelled

- **Driver** (`run.cpp`): it generates plan.cpp, builds and runs a binary through shell
  commands.  The step that moved the new binary to the place it is run from is
  commented out (128-138), so its order of steps promises nothing to check.
- **TBB and nested plans**: the same loop nest for other schedulers; the build
  compiles only OpenMP plans.
- **Several threads in one mini graph**: `should_prune` and lazy rows are used by the
  thread that built them; nested plans, which would share them, are not built.
- **Profiling backend**: a copy of the backend with counters added.
- **Sizes of pooled vertex sets**: all have the graph's maximal degree, which
  `get_maxdeg` takes from the number of triangles (`graph.h:40`); `VertexSetBuffers`
  abstracts sizes and `LoopNest` has values without buffers.
- **`get_indices`** chooses between bisection and merge at a 50-fold size ratio
  (`minigraph.h:226`), out of reach of sets that can be enumerated; `MiniGraphRows`
  takes the positions as what the search must find.
- **`mmap_file`**: the flag that selects it is never set.
- **Logging, timers, statistics**: formatting only; the row that is logged is part of
  `Runner`.
- **GraphPi** and the other vendored code under `src/dependency`: its order,
  restrictions and redundancy are inputs.
