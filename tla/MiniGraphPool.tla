----------------------------- MODULE MiniGraphPool -----------------------------
(***************************************************************************)
(* The memory of mini graphs: MiniGraphPool and ManagedContainer in        *)
(* src/src/backend/minigraph.h, on one worker thread.                      *)
(*                                                                         *)
(* Buffers of up to m_4k_cap elements are kept on a stack; larger ones in  *)
(* a list sorted by capacity, whose last element decides whether a new one *)
(* is allocated.  A ManagedContainer holds one buffer, or none before its  *)
(* first use.  The elements it holds are abstracted to how many it has     *)
(* written and how many of those its buffer still has.                     *)
(***************************************************************************)
EXTENDS Integers, Sequences, SequencesExt, FiniteSetsExt

CONSTANTS
  Containers,  (* the ManagedContainers of a thread                        *)
  SmallCap,    (* m_4k_cap and m_increment                                 *)
  Sizes,       (* the sizes asked for                                      *)
  MaxBuffers   (* bound on the buffers in existence                        *)

ASSUME PoolAssumption ==
  /\ SmallCap \in Nat \ {0} /\ Sizes \subseteq Nat /\ MaxBuffers \in Nat

VARIABLES
  capacity,    (* buffer_exist: the capacity of buffer 1, 2, ...           *)
  avail,       (* buffer_avail and m_4k_buffer_avail                       *)
  ctn,         (* m_ctn.data: a buffer, or None                            *)
  asked,       (* the largest size a container was made to hold            *)
  written,     (* the elements a container has written and still needs     *)
  kept         (* the elements of a buffer still as its holder wrote them  *)

vars == <<capacity, avail, ctn, asked, written, kept>>

None == 0
Buffers == DOMAIN capacity

IsSmall(b) == capacity[b] <= SmallCap

\* ManagedContainer::capacity.
CapacityOf(c) == IF ctn[c] = None THEN 0 ELSE capacity[ctn[c]]

(***************************************************************************)
(* The pool.                                                               *)
(***************************************************************************)
\* The capacity of a buffer newly made for n elements.
NewCapacity(n) == IF n <= SmallCap THEN SmallCap ELSE (3 * n) \div 2 + SmallCap

\* The positions of the large buffers that can hold n elements.
Fitting(large, n) == {i \in DOMAIN large : capacity[large[i]] >= n}

\* AllocateWorkSpace: whether an available buffer is handed out, which, and what
\* remains available in "pool".
Reuses(pool, n) ==
  IF n <= SmallCap THEN pool.small # << >>
  ELSE pool.large # << >> /\ capacity[Last(pool.large)] >= n

Chosen(pool, n) ==
  IF n <= SmallCap THEN Last(pool.small) ELSE pool.large[Min(Fitting(pool.large, n))]

\* Faulty variant: the buffer handed out stays available.
WithoutNone(pool, n) == pool

Without(pool, n) ==
  IF n <= SmallCap THEN [pool EXCEPT !.small = Front(@)]
  ELSE [pool EXCEPT !.large = RemoveAt(@, Min(Fitting(@, n)))]

\* Faulty variant: a large buffer is appended, as a small one is.
FreedUnsorted(pool, b) ==
  IF b = None THEN pool
  ELSE IF IsSmall(b) THEN [pool EXCEPT !.small = Append(@, b)]
  ELSE [pool EXCEPT !.large = Append(@, b)]

\* Faulty variant: the capacity is not looked at.
FreedAsSmall(pool, b) ==
  IF b = None THEN pool ELSE [pool EXCEPT !.small = Append(@, b)]

\* FreeWorkSpace: a large buffer goes before the first that is at least as large.
Freed(pool, b) ==
  LET place == Min({i \in DOMAIN pool.large : capacity[pool.large[i]] >= capacity[b]}
                     \union {Len(pool.large) + 1})
  IN IF b = None THEN pool
     ELSE IF IsSmall(b) THEN [pool EXCEPT !.small = Append(@, b)]
     ELSE [pool EXCEPT !.large = InsertAt(@, place, b)]

\* Container c gets a buffer for n elements from "pool"; if "released" is a buffer it
\* is freed afterwards.  "had" elements are copied into the new buffer.
Obtain(c, n, pool, released, had) ==
  LET b == IF Reuses(pool, n) THEN Chosen(pool, n) ELSE Len(capacity) + 1
      rest == IF Reuses(pool, n) THEN Without(pool, n) ELSE pool
  IN /\ Reuses(pool, n) \/ Len(capacity) < MaxBuffers
     /\ ctn' = [ctn EXCEPT ![c] = b]
     /\ avail' = Freed(rest, released)
     /\ capacity' = IF Reuses(pool, n) THEN capacity ELSE Append(capacity, NewCapacity(n))
     /\ kept' = [x \in DOMAIN capacity' |->
                   IF x = b THEN had ELSE IF x \in DOMAIN kept THEN kept[x] ELSE 0]
     /\ asked' = [asked EXCEPT ![c] = n]

(***************************************************************************)
(* ManagedContainer.                                                       *)
(***************************************************************************)
\* m_indices = m_mg->indices(m_vertex): a new container of the size is filled,
\* swapped in, and the one it replaces dies.
Assign(c, n) ==
  /\ Obtain(c, n, avail, ctn[c], n)
  /\ written' = [written EXCEPT ![c] = n]

\* Resize or Reserve of a container that is large enough.
Suffices(c, n) ==
  /\ asked' = [asked EXCEPT ![c] = Max({@, n})]
  /\ UNCHANGED <<capacity, avail, ctn, written, kept>>

\* Faulty variant: one element is thought to fit more.
ResizeLoose(c, n) ==
  IF CapacityOf(c) + 1 < n
  THEN /\ Obtain(c, n, avail, ctn[c], IF ctn[c] = None THEN 0 ELSE kept[ctn[c]])
       /\ UNCHANGED written
  ELSE Suffices(c, n)

\* Faulty variant: the contents are not copied, as in Reserve.
ResizeForgets(c, n) ==
  IF CapacityOf(c) < n
  THEN Obtain(c, n, avail, ctn[c], 0) /\ UNCHANGED written
  ELSE Suffices(c, n)

\* ManagedContainer::Resize.  The new buffer is allocated before the old one is freed.
Resize(c, n) ==
  IF CapacityOf(c) < n
  THEN /\ Obtain(c, n, avail, ctn[c], IF ctn[c] = None THEN 0 ELSE kept[ctn[c]])
       /\ UNCHANGED written
  ELSE Suffices(c, n)

\* ManagedContainer::Reserve.  The old buffer is freed first; nothing is copied, and
\* the caller has nothing in it that it still needs.
Reserve(c, n) ==
  IF CapacityOf(c) < n
  THEN /\ Obtain(c, n, Freed(avail, ctn[c]), None, 0)
       /\ written' = [written EXCEPT ![c] = 0]
  ELSE Suffices(c, n)

\* Rows are written up to the size asked for.
Fill(c) ==
  /\ ctn[c] # None
  /\ written' = [written EXCEPT ![c] = asked[c]]
  /\ kept' = [kept EXCEPT ![ctn[c]] = asked[c]]
  /\ UNCHANGED <<capacity, avail, ctn, asked>>

\* ~ManagedContainer, and the next iteration's container.
Destroy(c) ==
  /\ ctn[c] # None
  /\ avail' = Freed(avail, ctn[c])
  /\ ctn' = [ctn EXCEPT ![c] = None]
  /\ asked' = [asked EXCEPT ![c] = 0]
  /\ written' = [written EXCEPT ![c] = 0]
  /\ UNCHANGED <<capacity, kept>>

Init ==
  /\ capacity = << >> /\ kept = << >>
  /\ avail = [small |-> << >>, large |-> << >>]
  /\ ctn = [c \in Containers |-> None]
  /\ asked = [c \in Containers |-> 0] /\ written = [c \in Containers |-> 0]

Next ==
  \E c \in Containers :
    \/ \E n \in Sizes : Assign(c, n) \/ Resize(c, n) \/ Reserve(c, n)
    \/ Fill(c) \/ Destroy(c)

Spec == Init /\ [][Next]_vars

-----------------------------------------------------------------------------
(***************************************************************************)
(* Properties.                                                             *)
(***************************************************************************)
\* The variables keep their types; the two classes are kept apart.
TypeOK ==
  /\ capacity \in Seq(Nat) /\ DOMAIN kept = Buffers
  /\ avail.small \in Seq({b \in Buffers : IsSmall(b)})
  /\ avail.large \in Seq({b \in Buffers : ~IsSmall(b)})
  /\ ctn \in [Containers -> Buffers \union {None}]
  /\ asked \in [Containers -> Sizes \union {0}]
  /\ written \in [Containers -> Sizes \union {0}]

\* Every buffer is available once or held by one container: through Resize, Reserve,
\* moves and destruction none is lost, none is shared.
OwnedOnce ==
  \A b \in Buffers :
    LET places == {<<"ctn", c>> : c \in {c \in Containers : ctn[c] = b}}
          \union {<<"small", i>> : i \in {i \in DOMAIN avail.small : avail.small[i] = b}}
          \union {<<"large", i>> : i \in {i \in DOMAIN avail.large : avail.large[i] = b}}
    IN \E place \in places : places = {place}

\* A container's buffer can hold what it was asked for, whichever buffer it was given.
RequestMet == \A c \in Containers : CapacityOf(c) >= asked[c]

\* A container keeps the elements it has written and not given up: a Resize moves
\* them, and no other container writes into its buffer.
KeepsRows == \A c \in Containers : ctn[c] # None => kept[ctn[c]] >= written[c]

\* A large buffer is made only if none available can hold the request, although only
\* the last one is looked at: the pool does not grow while it has what is needed.
GrowsOnlyIfNoneFits ==
  [][\A b \in DOMAIN capacity' \ Buffers :
       capacity'[b] > SmallCap =>
         \A c \in Containers : ctn'[c] = b => Fitting(avail.large, asked'[c]) = {}]_vars

\* The pool behind its containers: which buffers are free, which are in use.
Fits(size, n) == size >= n /\ (n <= SmallCap => size <= SmallCap)
Free == ToSet(avail.small) \union ToSet(avail.large)
Held == {ctn[c] : c \in Containers} \ {None}

Abstract == INSTANCE BufferPool
  WITH Requests <- Sizes, size <- capacity, free <- Free, held <- Held

\* With its two lists, its choice by the last element, its moves and its order of
\* allocating and freeing the pool does what BufferPool says: a request is met with a
\* free buffer of its class that is large enough, a new one is made only if there is
\* none, and what is given back is free for the next (AllocateWorkSpace, FreeWorkSpace).
IsBufferPool == Abstract!Spec

=============================================================================
