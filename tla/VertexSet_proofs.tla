-------------------------- MODULE VertexSet_proofs --------------------------
(***************************************************************************)
(* The operations of VertexSet return what they promise, for every family  *)
(* of ascending arrays: the merge loops for every bound and every vid, the *)
(* searches of bounded and remove for every key and every limit between    *)
(* scan and bisection.                                                     *)
(***************************************************************************)
EXTENDS VertexSetMerge, VertexSetSearch, SequenceTheorems, TLAPS

(***************************************************************************)
(* The merge loops.  Cursors separates what has been passed from what      *)
(* remains; Collected says what "out" holds of what has been passed.       *)
(***************************************************************************)
Cursors ==
  /\ \A p \in 1..idx_l : ~AtUpper(left[p])
  /\ \A p \in 1..idx_l, q \in (idx_r + 1)..Len(right) : left[p] < right[q]
  /\ \A p \in (idx_l + 1)..Len(left), q \in 1..idx_r : right[q] < left[p]

Collected == Elems(out) = {Emitted(p) : p \in {q \in 1..idx_l : Kept(left[q])}}

MergeEnded == InBoth => AtUpper(L) \/ AtUpper(R)

Fresh == idx_l = 0 /\ idx_r = 0 /\ out = << >>

IInv ==
  /\ TypeOK
  /\ Ascending(out)
  /\ Len(out) <= idx_l
  /\ pc = "idle" => Fresh
  /\ pc \in {"merge", "tail"} => Cursors /\ Collected
  /\ pc = "tail" => op = "subtract" /\ MergeEnded
  /\ ReturnsPromised

-----------------------------------------------------------------------------
\* Appending one element to a sequence adds it to the set of its elements.
LEMMA ElemsAppend ==
  ASSUME NEW s \in Seq(Nat), NEW x \in Nat
  PROVE  Elems(Append(s, x)) = Elems(s) \union {x}
<1> DEFINE t == Append(s, x)
<1>1. DOMAIN t = 1..(Len(s) + 1) /\ DOMAIN s = 1..Len(s)
  OBVIOUS
<1>2. \A i \in 1..Len(s) : t[i] = s[i]
  OBVIOUS
<1>3. t[Len(s) + 1] = x
  OBVIOUS
<1> HIDE DEF t
<1>4. Elems(t) = Elems(s) \union {x}
  BY <1>1, <1>2, <1>3 DEF Elems
<1> QED BY <1>4 DEF t

\* Appending an element above all others keeps a sequence ascending.
LEMMA AscendingAppend ==
  ASSUME NEW s \in Seq(Nat), NEW x \in Nat, Ascending(s), \A y \in Elems(s) : y < x
  PROVE  Ascending(Append(s, x))
<1> DEFINE t == Append(s, x)
<1>1. DOMAIN t = 1..(Len(s) + 1) /\ DOMAIN s = 1..Len(s)
  OBVIOUS
<1>2. \A i \in 1..Len(s) : t[i] = s[i] /\ t[i] < x
  BY DEF Elems
<1>3. t[Len(s) + 1] = x
  OBVIOUS
<1> HIDE DEF t
<1>4. Ascending(t)
  BY <1>1, <1>2, <1>3 DEF Ascending
<1> QED BY <1>4 DEF t

\* The initial state satisfies the strengthening.
LEMMA InitIInv == Init => IInv
<1> SUFFICES ASSUME Init PROVE IInv
  OBVIOUS
<1>1. Ascending(<< >>)
  BY DEF Ascending
<1>2. TypeOK
  BY <1>1, ArraysAssumption DEF Init, TypeOK, Ops
<1> QED BY <1>1, <1>2 DEF Init, IInv, Fresh, ReturnsPromised

\* Appending the element at the left cursor, or not, keeps "out" ascending, in
\* step with the cursor, and complete for what the cursor has passed.
LEMMA EmitStep ==
  ASSUME TypeOK, Ascending(out), Len(out) <= idx_l, Collected,
         idx_l < Len(left), idx_l' = idx_l + 1, UNCHANGED args,
         NEW keep \in BOOLEAN, keep <=> Kept(L), Emit(keep)
  PROVE  /\ out' \in Seq(Nat) /\ Ascending(out)'
         /\ (Len(out) <= idx_l)'
         /\ Collected'
<1> DEFINE e == Emitted(idx_l + 1)
<1>1. e \in Nat
  BY DEF TypeOK, Emitted
<1>2. \A p \in 1..idx_l : Emitted(p) < e
  BY DEF TypeOK, Emitted, Ascending
<1>3. \A y \in Elems(out) : y < e
  BY <1>2 DEF Collected
<1>4. /\ \A p \in 1..(idx_l + 1) : Emitted(p)' = Emitted(p)
      /\ \A x : Kept(x)' <=> Kept(x)
  BY DEF Emitted, Kept, args, Elems
<1>5. 1..idx_l' = 1..idx_l \union {idx_l + 1}
  BY DEF TypeOK
<1>6. CASE keep
  <2>1. out' = Append(out, e)
    BY <1>6 DEF Emit
  <2>2. out' \in Seq(Nat) /\ Len(out') = Len(out) + 1
    BY <1>1, <2>1 DEF TypeOK
  <2>3. Ascending(out')
    BY <1>1, <1>3, <2>1, AscendingAppend DEF TypeOK
  <2>4. Elems(out') = Elems(out) \union {e}
    BY <1>1, <2>1, ElemsAppend DEF TypeOK
  <2>5. Elems(out') = {Emitted(p) : p \in {q \in 1..idx_l' : Kept(left[q])}}
    BY <1>5, <1>6, <2>4 DEF Collected, L
  <2>6. Collected'
    BY <1>4, <2>5, <1>5 DEF Collected, args, Elems
  <2> QED BY <2>2, <2>3, <2>6 DEF TypeOK, Ascending
<1>7. CASE ~keep
  <2>1. out' = out
    BY <1>7 DEF Emit
  <2>2. Elems(out') = {Emitted(p) : p \in {q \in 1..idx_l' : Kept(left[q])}}
    BY <1>5, <1>7, <2>1 DEF Collected, L
  <2>3. Collected'
    BY <1>4, <2>2, <1>5 DEF Collected, args, Elems
  <2> QED BY <2>1, <2>3 DEF TypeOK, Ascending
<1> QED BY <1>6, <1>7

\* A step that leaves the operands, the left cursor and "out" alone.
LEMMA CollectedFrame ==
  ASSUME Collected, UNCHANGED args, idx_l' = idx_l, out' = out
  PROVE  Collected'
<1>1. /\ \A p \in 1..idx_l : Emitted(p)' = Emitted(p)
      /\ \A x : Kept(x)' <=> Kept(x)
      /\ Elems(out)' = Elems(out) /\ left' = left
  BY DEF Emitted, Kept, args, Elems
<1>2. Elems(out)' = {Emitted(p) : p \in {q \in 1..idx_l : Kept(left[q])}}
  BY <1>1 DEF Collected
<1> QED BY <1>1, <1>2 DEF Collected

\* What the type invariant says of the cursors and the arrays, element by element.
LEMMA Typing ==
  ASSUME TypeOK
  PROVE  /\ idx_l \in Nat /\ Len(left) \in Nat /\ idx_l <= Len(left)
         /\ idx_r \in Nat /\ Len(right) \in Nat /\ idx_r <= Len(right)
         /\ DOMAIN left = 1..Len(left) /\ DOMAIN right = 1..Len(right)
         /\ \A p \in 1..Len(left) : left[p] \in Nat
         /\ \A q \in 1..Len(right) : right[q] \in Nat
         /\ \A p, q \in 1..Len(left) : p < q => left[p] < left[q]
         /\ \A p, q \in 1..Len(right) : p < q => right[p] < right[q]
<1>1. left \in Seq(Nat) /\ right \in Seq(Nat) /\ Ascending(left) /\ Ascending(right)
  BY DEF TypeOK
<1>2. /\ DOMAIN left = 1..Len(left) /\ DOMAIN right = 1..Len(right)
      /\ Len(left) \in Nat /\ Len(right) \in Nat
  BY <1>1
<1>3. /\ \A p \in 1..Len(left) : left[p] \in Nat
      /\ \A q \in 1..Len(right) : right[q] \in Nat
  BY <1>1
<1>4. /\ idx_l \in Nat /\ idx_l <= Len(left)
      /\ idx_r \in Nat /\ idx_r <= Len(right)
  BY <1>2 DEF TypeOK
<1>5. /\ \A p, q \in 1..Len(left) : p < q => left[p] < left[q]
      /\ \A p, q \in 1..Len(right) : p < q => right[p] < right[q]
  BY <1>1, <1>2 DEF Ascending
<1> QED BY <1>2, <1>3, <1>4, <1>5

\* Inside the loop both cursors point at an element.
LEMMA AtCursors ==
  ASSUME TypeOK, InBoth
  PROVE  /\ L \in Nat /\ R \in Nat
         /\ idx_l + 1 \in 1..Len(left) /\ idx_r + 1 \in 1..Len(right)
         /\ \A p \in 1..Len(left) : p > idx_l => L <= left[p]
         /\ \A p \in 1..Len(left) : p > idx_l + 1 => L < left[p]
         /\ \A q \in 1..Len(right) : q > idx_r => R <= right[q]
         /\ \A q \in 1..Len(right) : q > idx_r + 1 => R < right[q]
<1>1. /\ idx_l + 1 \in 1..Len(left) /\ idx_r + 1 \in 1..Len(right)
      /\ idx_l \in Nat /\ idx_r \in Nat
  BY Typing DEF InBoth
<1>2. L \in Nat /\ R \in Nat
  BY <1>1, Typing DEF L, R
<1>3. /\ \A p \in 1..Len(left) : p > idx_l + 1 => L < left[p]
      /\ \A q \in 1..Len(right) : q > idx_r + 1 => R < right[q]
  BY <1>1, Typing DEF L, R
<1>4. ASSUME NEW p \in 1..Len(left), p > idx_l PROVE L <= left[p]
  <2>1. p = idx_l + 1 \/ p > idx_l + 1
    BY <1>1, <1>4, Typing
  <2> QED BY <1>2, <1>3, <2>1, Typing DEF L
<1>5. ASSUME NEW q \in 1..Len(right), q > idx_r PROVE R <= right[q]
  <2>1. q = idx_r + 1 \/ q > idx_r + 1
    BY <1>1, <1>5, Typing
  <2> QED BY <1>2, <1>3, <2>1, Typing DEF R
<1> QED BY <1>1, <1>2, <1>3, <1>4, <1>5

\* Every kept element below the bound has been passed once the loops have ended.
LEMMA PromisedAtEnd ==
  ASSUME TypeOK, Cursors, MergeEnded,
         op = "subtract" => idx_l = Len(left)
  PROVE  Promised = {Emitted(p) : p \in {q \in 1..idx_l : Kept(left[q])}}
<1>1. \A p \in 1..idx_l : p \in DOMAIN left /\ ~AtUpper(left[p])
  BY Typing DEF Cursors
<1>2. ASSUME NEW p \in 1..Len(left), p > idx_l, Kept(left[p]), ~AtUpper(left[p])
      PROVE  FALSE
  <2>1. left[p] \in Elems(right)
    BY <1>2, Typing DEF TypeOK, Ops, Kept
  <2>2. PICK q \in 1..Len(right) : right[q] = left[p]
    BY <2>1, Typing DEF Elems
  <2>3. p \in (idx_l + 1)..Len(left)
    BY <1>2, Typing
  <2>4. ~(q \in 1..idx_r)
    BY <2>2, <2>3, Typing DEF Cursors
  <2>5. q > idx_r
    BY <2>4, Typing
  <2>6. InBoth
    BY <1>2, <2>5, Typing DEF InBoth
  <2>7. L <= left[p] /\ R <= left[p] /\ L \in Nat /\ R \in Nat /\ left[p] \in Nat
    BY <1>2, <2>2, <2>5, <2>6, AtCursors, Typing
  <2>8. upper # NoUpper /\ (L >= upper \/ R >= upper)
    BY <2>6 DEF MergeEnded, AtUpper
  <2>9. upper \in Nat
    BY <2>8, UppersAssumption DEF TypeOK
  <2> QED BY <1>2, <2>7, <2>8, <2>9 DEF AtUpper
<1>3. {q \in DOMAIN left : Kept(left[q]) /\ ~AtUpper(left[q])}
        = {q \in 1..idx_l : Kept(left[q])}
  BY <1>1, <1>2, Typing
<1> QED BY <1>3 DEF Promised

\* Before the left cursor passes its element: is the element among "right"?
LEMMA LeftInRight ==
  ASSUME TypeOK, Cursors, InBoth
  PROVE  /\ L < R => L \notin Elems(right)
         /\ L = R => L \in Elems(right)
<1>1. ASSUME L < R, NEW q \in 1..Len(right) PROVE right[q] # L
  <2>1. CASE q <= idx_r
    <3>1. q \in 1..idx_r /\ idx_l + 1 \in (idx_l + 1)..Len(left)
      BY <2>1, AtCursors, Typing
    <3>2. right[q] < L
      BY <3>1 DEF Cursors, L
    <3> QED BY <3>2, AtCursors, Typing
  <2>2. CASE q > idx_r
    BY <1>1, <2>2, AtCursors, Typing
  <2> QED BY <2>1, <2>2, Typing
<1>2. L = R => L \in Elems(right)
  BY AtCursors, Typing DEF Elems, R
<1> QED BY <1>1, <1>2, Typing DEF Elems

\* A loop iteration keeps the separation around both cursors.
LEMMA MergeStepCursors ==
  ASSUME TypeOK, Cursors, MergeStep
  PROVE  Cursors'
<1>1. /\ InBoth /\ ~AtUpper(L) /\ UNCHANGED args
      /\ idx_l' = IF L <= R THEN idx_l + 1 ELSE idx_l
      /\ idx_r' = IF R <= L THEN idx_r + 1 ELSE idx_r
  BY DEF MergeStep
<1>2. /\ L \in Nat /\ R \in Nat
      /\ left[idx_l + 1] = L /\ right[idx_r + 1] = R
  BY <1>1, AtCursors DEF L, R
<1>3. \A p \in 1..idx_l' : p \in 1..idx_l \/ (p = idx_l + 1 /\ L <= R)
  BY <1>1, <1>2, Typing
<1>4. \A q \in 1..idx_r' : q \in 1..idx_r \/ (q = idx_r + 1 /\ R <= L)
  BY <1>1, <1>2, Typing
<1>5. \A p \in 1..idx_l' : ~AtUpper(left[p])
  BY <1>1, <1>2, <1>3 DEF Cursors
<1>6. ASSUME NEW p \in 1..idx_l', NEW q \in (idx_r' + 1)..Len(right)
      PROVE  left[p] < right[q]
  <2>1. q \in (idx_r + 1)..Len(right) /\ q \in 1..Len(right) /\ q > idx_r
    BY <1>1, <1>2, Typing
  <2>2. R <= L => q > idx_r + 1
    BY <1>1, <1>2, Typing
  <2>3. CASE p \in 1..idx_l
    BY <2>1, <2>3 DEF Cursors
  <2>4. CASE p = idx_l + 1 /\ L <= R
    <3>1. R <= right[q] /\ (R <= L => R < right[q]) /\ right[q] \in Nat
      BY <1>1, <2>1, <2>2, AtCursors, Typing
    <3> QED BY <1>2, <2>4, <3>1
  <2> QED BY <1>3, <2>3, <2>4
<1>7. ASSUME NEW p \in (idx_l' + 1)..Len(left), NEW q \in 1..idx_r'
      PROVE  right[q] < left[p]
  <2>1. p \in (idx_l + 1)..Len(left) /\ p \in 1..Len(left) /\ p > idx_l
    BY <1>1, <1>2, Typing
  <2>2. L <= R => p > idx_l + 1
    BY <1>1, <1>2, Typing
  <2>3. CASE q \in 1..idx_r
    BY <2>1, <2>3 DEF Cursors
  <2>4. CASE q = idx_r + 1 /\ R <= L
    <3>1. L <= left[p] /\ (L <= R => L < left[p]) /\ left[p] \in Nat
      BY <1>1, <2>1, <2>2, AtCursors, Typing
    <3> QED BY <1>2, <2>4, <3>1
  <2> QED BY <1>4, <2>3, <2>4
<1> QED BY <1>1, <1>5, <1>6, <1>7 DEF Cursors, args, AtUpper

\* A loop iteration preserves the strengthening.
LEMMA MergeStepIInv == IInv /\ MergeStep => IInv'
<1> SUFFICES ASSUME IInv, MergeStep PROVE IInv'
  OBVIOUS
<1>1. /\ TypeOK /\ Ascending(out) /\ Len(out) <= idx_l
      /\ Cursors /\ Collected
      /\ InBoth /\ pc = "merge" /\ pc' = "merge" /\ UNCHANGED args
      /\ idx_l' = IF L <= R THEN idx_l + 1 ELSE idx_l
      /\ idx_r' = IF R <= L THEN idx_r + 1 ELSE idx_r
      /\ Emit(KeepsMerge(L, R))
  BY DEF IInv, MergeStep
<1>2. /\ L \in Nat /\ R \in Nat
      /\ idx_l + 1 \in 1..Len(left) /\ idx_r + 1 \in 1..Len(right)
  BY <1>1, AtCursors
<1>3. Cursors'
  BY <1>1, MergeStepCursors
<1>4. /\ out' \in Seq(Nat) /\ Ascending(out)'
      /\ (Len(out) <= idx_l)'
      /\ Collected'
  <2>1. CASE L <= R
    <3>1. KeepsMerge(L, R) <=> Kept(L)
      BY <1>1, <1>2, <2>1, LeftInRight DEF KeepsMerge, Kept, Survives, TypeOK, Ops
    <3>2. idx_l' = idx_l + 1 /\ KeepsMerge(L, R) \in BOOLEAN
      BY <1>1, <2>1 DEF KeepsMerge
    <3> QED BY <1>1, <3>1, <3>2, EmitStep DEF InBoth
  <2>2. CASE R < L
    <3>1. ~KeepsMerge(L, R)
      BY <1>2, <2>2 DEF KeepsMerge
    <3>2. out' = out /\ idx_l' = idx_l
      BY <1>1, <1>2, <2>2, <3>1 DEF Emit
    <3>3. Collected'
      BY <1>1, <3>2, CollectedFrame
    <3> QED BY <1>1, <3>2, <3>3 DEF TypeOK, Ascending
  <2> QED BY <1>2, <2>1, <2>2
<1>5. idx_l' \in 0..Len(left) /\ idx_r' \in 0..Len(right)
  BY <1>1, <1>2, Typing
<1>6. TypeOK'
  BY <1>1, <1>4, <1>5 DEF TypeOK, args, Ascending
<1> QED BY <1>1, <1>3, <1>4, <1>6 DEF IInv, ReturnsPromised

\* When an operation returns, "out" holds what was promised.
LEMMA ReturnIInv ==
  ASSUME TypeOK, Ascending(out), Len(out) <= idx_l, Cursors, Collected, MergeEnded,
         op = "subtract" => idx_l = Len(left),
         UNCHANGED <<args, idx_l, idx_r, out>>, pc' = "done"
  PROVE  IInv'
<1>1. Elems(out) = Promised
  BY PromisedAtEnd DEF Collected
<1>2. Promised' = Promised /\ Elems(out)' = Elems(out)
  BY DEF Promised, Emitted, Kept, AtUpper, Elems, args
<1>3. TypeOK'
  BY DEF TypeOK, args, Ascending
<1> QED BY <1>1, <1>2, <1>3 DEF IInv, ReturnsPromised, Ascending

\* Leaving the two-cursor loop preserves the strengthening.
LEMMA LeaveMergeIInv == IInv /\ LeaveMerge => IInv'
<1> SUFFICES ASSUME IInv, LeaveMerge PROVE IInv'
  OBVIOUS
<1>1. /\ TypeOK /\ Ascending(out) /\ Len(out) <= idx_l
      /\ Cursors /\ Collected /\ MergeEnded
      /\ UNCHANGED args /\ idx_l' = idx_l /\ idx_r' = idx_r /\ out' = out
  BY DEF IInv, LeaveMerge, MergeEnded
<1>2. CASE op = "subtract"
  <2>1. pc' = "tail" /\ op' = "subtract"
    BY <1>1, <1>2 DEF LeaveMerge, args
  <2>2. TypeOK'
    BY <1>1, <2>1 DEF TypeOK, args, Ascending
  <2>3. Cursors' /\ MergeEnded'
    BY <1>1 DEF Cursors, MergeEnded, InBoth, L, R, AtUpper, args
  <2>4. Collected'
    BY <1>1, CollectedFrame
  <2> QED BY <1>1, <2>1, <2>2, <2>3, <2>4 DEF IInv, ReturnsPromised, Ascending
<1>3. CASE op # "subtract"
  BY <1>1, <1>3, ReturnIInv DEF LeaveMerge
<1> QED BY <1>2, <1>3

\* An iteration of the second loop of subtract preserves the strengthening.
LEMMA TailStepIInv == IInv /\ TailStep => IInv'
<1> SUFFICES ASSUME IInv, TailStep PROVE IInv'
  OBVIOUS
<1>1. /\ TypeOK /\ Ascending(out) /\ Len(out) <= idx_l
      /\ Cursors /\ Collected /\ MergeEnded /\ op = "subtract"
      /\ UNCHANGED args /\ idx_l' = idx_l + 1 /\ idx_r' = idx_r
      /\ idx_l < Len(left)
  BY DEF IInv, TailStep
<1>2. /\ idx_l + 1 \in 1..Len(left) /\ L \in Nat /\ left[idx_l + 1] = L
      /\ idx_l' \in 0..Len(left)
  BY <1>1, Typing DEF L
<1>3. CASE AtUpper(L)
  <2>1. pc' = "done" /\ out' = out
    BY <1>3 DEF TailStep
  <2>2. TypeOK' /\ Ascending(out)' /\ (Len(out) <= idx_l)'
    BY <1>1, <1>2, <2>1 DEF TypeOK, args, Ascending
  <2>3. \A p \in 1..Len(left) : p > idx_l => AtUpper(left[p])
    <3> SUFFICES ASSUME NEW p \in 1..Len(left), p > idx_l PROVE AtUpper(left[p])
      OBVIOUS
    <3>1. upper \in Nat /\ upper # NoUpper /\ L >= upper
      BY <1>1, <1>3, UppersAssumption DEF AtUpper, TypeOK
    <3>2. L <= left[p] /\ left[p] \in Nat
      <4>1. p = idx_l + 1 \/ p > idx_l + 1
        BY <1>1, Typing
      <4> QED BY <1>1, <1>2, <4>1, Typing
    <3> QED BY <1>2, <3>1, <3>2 DEF AtUpper
  <2>4. {q \in DOMAIN left : Kept(left[q]) /\ ~AtUpper(left[q])}
          = {q \in 1..idx_l : Kept(left[q])}
    BY <1>1, <2>3, Typing DEF Cursors
  <2>5. Elems(out) = Promised
    BY <1>1, <2>4 DEF Collected, Promised
  <2>6. Promised' = Promised /\ Elems(out)' = Elems(out)
    BY <1>1, <2>1 DEF Promised, Emitted, Kept, AtUpper, Elems, args
  <2> QED BY <2>1, <2>2, <2>5, <2>6 DEF IInv, ReturnsPromised
<1>4. CASE ~AtUpper(L)
  <2>1. pc' = "tail" /\ Emit(Survives(L))
    BY <1>4 DEF TailStep, IInv
  <2>2. ~InBoth \/ AtUpper(R)
    BY <1>1, <1>4 DEF MergeEnded
  <2>3. \A q \in (idx_r + 1)..Len(right) : L < right[q]
    <3> SUFFICES ASSUME NEW q \in (idx_r + 1)..Len(right) PROVE L < right[q]
      OBVIOUS
    <3>1. q \in 1..Len(right) /\ q > idx_r /\ InBoth
      BY <1>1, Typing DEF InBoth
    <3>2. upper \in Nat /\ upper # NoUpper /\ R >= upper
      BY <1>1, <2>2, <3>1, UppersAssumption DEF AtUpper, TypeOK
    <3>3. L < upper
      BY <1>2, <1>4, <3>2 DEF AtUpper
    <3>4. R <= right[q] /\ R \in Nat /\ right[q] \in Nat
      BY <1>1, <3>1, AtCursors, Typing
    <3> QED BY <1>2, <3>2, <3>3, <3>4
  <2>4. Cursors'
    <3>1. \A p \in 1..idx_l' : p \in 1..idx_l \/ p = idx_l + 1
      BY <1>1, Typing
    <3>2. \A p \in (idx_l' + 1)..Len(left) : p \in (idx_l + 1)..Len(left)
      BY <1>1, Typing
    <3>3. \A p \in 1..idx_l' : ~AtUpper(left[p])
      BY <1>1, <1>2, <1>4, <3>1 DEF Cursors
    <3>4. \A p \in 1..idx_l', q \in (idx_r + 1)..Len(right) : left[p] < right[q]
      BY <1>1, <1>2, <2>3, <3>1 DEF Cursors
    <3>5. \A p \in (idx_l' + 1)..Len(left), q \in 1..idx_r : right[q] < left[p]
      BY <1>1, <3>2 DEF Cursors
    <3> QED BY <1>1, <3>3, <3>4, <3>5 DEF Cursors, args, AtUpper
  <2>5. L \notin Elems(right)
    <3> SUFFICES ASSUME NEW q \in 1..Len(right) PROVE right[q] # L
      BY <1>1, Typing DEF Elems
    <3>1. CASE q \in 1..idx_r
      <4>1. idx_l + 1 \in (idx_l + 1)..Len(left)
        BY <1>2, <1>1, Typing
      <4>2. right[q] < L
        BY <1>1, <1>2, <3>1, <4>1 DEF Cursors
      <4> QED BY <1>1, <1>2, <4>2, Typing
    <3>2. CASE q \in (idx_r + 1)..Len(right)
      BY <1>1, <1>2, <2>3, <3>2, Typing
    <3> QED BY <1>1, <3>1, <3>2, Typing
  <2>6. Kept(L) <=> Survives(L)
    BY <1>1, <2>5 DEF Kept, Survives
  <2>7. /\ out' \in Seq(Nat) /\ Ascending(out)'
        /\ (Len(out) <= idx_l)'
        /\ Collected'
    BY <1>1, <2>1, <2>6, EmitStep DEF Survives
  <2>8. TypeOK'
    BY <1>1, <1>2, <2>1, <2>7 DEF TypeOK, args, Ascending
  <2>9. MergeEnded'
    <3>1. CASE idx_r < Len(right)
      <4>1. InBoth /\ AtUpper(R)
        BY <1>1, <2>2, <3>1 DEF InBoth
      <4> QED BY <1>1, <4>1 DEF MergeEnded, AtUpper, R, args
    <3>2. CASE ~(idx_r < Len(right))
      BY <1>1, <3>2 DEF MergeEnded, InBoth, args
    <3> QED BY <3>1, <3>2
  <2> QED BY <1>1, <2>1, <2>4, <2>7, <2>8, <2>9 DEF IInv, ReturnsPromised, args
<1> QED BY <1>3, <1>4

\* Leaving the second loop of subtract preserves the strengthening.
LEMMA LeaveTailIInv == IInv /\ LeaveTail => IInv'
<1> SUFFICES ASSUME IInv, LeaveTail PROVE IInv'
  OBVIOUS
<1>1. /\ TypeOK /\ Ascending(out) /\ Len(out) <= idx_l
      /\ Cursors /\ Collected /\ MergeEnded /\ idx_l >= Len(left)
      /\ UNCHANGED <<args, idx_l, idx_r, out>> /\ pc' = "done"
  BY DEF IInv, LeaveTail
<1>2. idx_l = Len(left)
  BY <1>1, Typing
<1> QED BY <1>1, <1>2, ReturnIInv

\* Entering an operation preserves the strengthening.
LEMMA CallIInv == IInv /\ Call => IInv'
<1> SUFFICES ASSUME IInv, Call PROVE IInv'
  OBVIOUS
<1>1. /\ TypeOK /\ Fresh /\ pc' = "merge"
      /\ left' = left /\ idx_l' = 0 /\ idx_r' = 0 /\ out' = << >>
  BY DEF IInv, Call, Fresh
<1>2. right' \in Seq(Nat) /\ Ascending(right')
  BY ArraysAssumption DEF Call
<1>3. TypeOK'
  BY <1>1, <1>2 DEF TypeOK, Call, Ascending
<1>4. Cursors'
  BY <1>1 DEF Cursors
<1>5. Collected'
  BY <1>1 DEF Collected, Elems
<1> QED BY <1>1, <1>3, <1>4, <1>5 DEF IInv, ReturnsPromised, Ascending

\* Handing a result, or another array, to the next operation preserves it: a
\* result is an ascending array again.
LEMMA ProceedIInv == IInv /\ Proceed => IInv'
<1> SUFFICES ASSUME IInv, Proceed PROVE IInv'
  OBVIOUS
<1>1. left' \in Seq(Nat) /\ Ascending(left')
  BY ArraysAssumption DEF IInv, TypeOK, Proceed
<1>2. /\ pc' = "idle" /\ idx_l' = 0 /\ idx_r' = 0 /\ out' = << >>
      /\ UNCHANGED <<op, right, vid, upper>> /\ TypeOK
  BY DEF IInv, Proceed
<1>3. Len(left') \in Nat /\ Len(right') \in Nat
  BY <1>1, <1>2 DEF TypeOK
<1>4. TypeOK'
  BY <1>1, <1>2, <1>3 DEF TypeOK, Ascending
<1> QED BY <1>2, <1>4 DEF IInv, Fresh, ReturnsPromised, Ascending

\* The strengthening is an invariant of the operations.
THEOREM Invariance == Spec => []IInv
<1>1. IInv /\ [Next]_vars => IInv'
  <2> SUFFICES ASSUME IInv, [Next]_vars PROVE IInv'
    OBVIOUS
  <2>1. CASE Next
    BY <2>1, CallIInv, ProceedIInv, MergeStepIInv, LeaveMergeIInv, TailStepIInv,
       LeaveTailIInv DEF Next
  <2>2. CASE UNCHANGED vars
    <3>1. /\ op' = op /\ left' = left /\ right' = right /\ vid' = vid /\ upper' = upper
          /\ idx_l' = idx_l /\ idx_r' = idx_r /\ out' = out /\ pc' = pc
      BY <2>2 DEF vars
    <3>2. TypeOK' /\ Ascending(out)' /\ (Len(out) <= idx_l)' /\ (pc = "idle" => Fresh)'
      BY <3>1 DEF IInv, TypeOK, Ascending, Fresh
    <3>3. (pc \in {"merge", "tail"} => Cursors /\ Collected)'
      BY <3>1, CollectedFrame DEF IInv, Cursors, AtUpper, args
    <3>4. (pc = "tail" => op = "subtract" /\ MergeEnded)'
      BY <3>1 DEF IInv, MergeEnded, InBoth, AtUpper, L, R
    <3>5. ReturnsPromised'
      <4>1. UNCHANGED args
        BY <3>1 DEF args
      <4>2. Promised' = Promised /\ Elems(out)' = Elems(out)
        BY <3>1, <4>1 DEF Promised, Emitted, Kept, AtUpper, Elems, args
      <4> QED BY <3>1, <4>2 DEF IInv, ReturnsPromised
    <3> QED BY <3>2, <3>3, <3>4, <3>5 DEF IInv
  <2> QED BY <2>1, <2>2
<1> QED BY InitIInv, <1>1, PTL DEF Spec

\* The arrays and cursors keep their types: no loop reads outside its operands.
THEOREM TypeCorrect == Spec => []TypeOK
<1>1. IInv => TypeOK
  BY DEF IInv
<1> QED BY <1>1, Invariance, PTL

\* Every returned set is the promised one.
THEOREM MergeCorrect == Spec => []ReturnsPromised
<1>1. IInv => ReturnsPromised
  BY DEF IInv
<1> QED BY <1>1, Invariance, PTL

\* Every result is strictly ascending: it can be an operand again.
THEOREM MergeAscending == Spec => []ReturnsAscending
<1>1. IInv => ReturnsAscending
  BY DEF IInv, ReturnsAscending
<1> QED BY <1>1, Invariance, PTL

\* No loop writes beyond the buffer, which is as large as the left operand.
THEOREM MergeWithinCapacity == Spec => []WithinCapacity
<1>1. IInv => WithinCapacity
  <2> SUFFICES ASSUME IInv PROVE WithinCapacity
    OBVIOUS
  <2>1. Len(out) <= idx_l /\ idx_l <= Len(left)
    BY DEF IInv, TypeOK
  <2>2. idx_l \in Nat /\ Len(left) \in Nat /\ Len(out) \in Nat
    BY Typing DEF IInv
  <2> QED BY <2>1, <2>2 DEF WithinCapacity
<1> QED BY <1>1, Invariance, PTL

(***************************************************************************)
(* The strengthening: what lies left of the search is below the key, what  *)
(* lies right of it is not.                                                *)
(***************************************************************************)
LeftBelow == \A i \in 1..idx_l : data[i] < key
RightAbove == \A i \in (idx_l + count + 1)..Len(data) : data[i] >= key

SearchIInv ==
  /\ SearchTypeOK
  /\ pc = "idle" => idx_l = 0 /\ count = 0
  /\ pc \in {"binary", "linear", "found"} => LeftBelow
  /\ pc = "binary" => RightAbove
  /\ pc = "linear" => count = 0
  /\ FoundPosition
  /\ SearchReturnsPromised

-----------------------------------------------------------------------------
\* What the type invariant says of the array, element by element.
LEMMA SearchTyping ==
  ASSUME SearchTypeOK
  PROVE  /\ Len(data) \in Nat /\ DOMAIN data = 1..Len(data)
         /\ idx_l \in Nat /\ count \in Nat /\ idx_l + count <= Len(data)
         /\ key \in Nat
         /\ \A i \in 1..Len(data) : data[i] \in Nat
         /\ \A i, j \in 1..Len(data) : i < j => data[i] < data[j]
<1>1. data \in Seq(Nat) /\ Ascending(data) /\ key \in Nat
  BY ArraysAssumption, SearchAssumption DEF SearchTypeOK
<1>2. Len(data) \in Nat /\ DOMAIN data = 1..Len(data)
  BY <1>1
<1>3. \A i \in 1..Len(data) : data[i] \in Nat
  BY <1>1
<1> QED BY <1>1, <1>2, <1>3 DEF SearchTypeOK, Ascending

\* The initial state satisfies the strengthening.
LEMMA SearchInitIInv == SearchInit => SearchIInv
<1> SUFFICES ASSUME SearchInit PROVE SearchIInv
  OBVIOUS
<1>1. data \in Seq(Nat) /\ Ascending(data)
  BY ArraysAssumption, SearchAssumption DEF SearchInit
<1>2. Len(data) \in Nat
  BY <1>1
<1> QED BY <1>1, <1>2
        DEF SearchInit, SearchIInv, SearchTypeOK, FoundPosition, SearchReturnsPromised

\* Entering a search preserves the strengthening.
LEMMA SearchCallIInv == SearchIInv /\ SearchCall => SearchIInv'
<1> SUFFICES ASSUME SearchIInv, SearchCall PROVE SearchIInv'
  OBVIOUS
<1>1. /\ SearchTypeOK /\ idx_l = 0 /\ data' = data /\ idx_l' = 0 /\ out' = out
      /\ op' \in {"bounded", "remove"} /\ key' \in Keys
      /\ \/ pc' = "binary" /\ count' = Len(data)
         \/ pc' = "linear" /\ count' = 0
  BY DEF SearchIInv, SearchCall
<1>2. SearchTypeOK'
  BY <1>1, SearchTyping DEF SearchTypeOK, Ascending
<1>3. LeftBelow' /\ (pc' = "binary" => RightAbove')
  BY <1>1, SearchTyping DEF LeftBelow, RightAbove
<1> QED BY <1>1, <1>2, <1>3 DEF SearchIInv, FoundPosition, SearchReturnsPromised

\* Halving what is left to search preserves the strengthening.
LEMMA BinaryStepIInv == SearchIInv /\ BinaryStep => SearchIInv'
<1> SUFFICES ASSUME SearchIInv, BinaryStep PROVE SearchIInv'
  OBVIOUS
<1> DEFINE step == count \div 2
           it   == idx_l + step
<1>1. /\ SearchTypeOK /\ LeftBelow /\ RightAbove /\ count > 0 /\ pc = "binary" /\ pc' = "binary"
      /\ op' = op /\ data' = data /\ key' = key /\ out' = out
      /\ IF data[it + 1] < key
         THEN idx_l' = it + 1 /\ count' = count - (step + 1)
         ELSE count' = step /\ idx_l' = idx_l
  BY DEF SearchIInv, BinaryStep, searchArgs
<1>2. step \in Nat /\ step < count
  BY <1>1, SearchTyping
<1> HIDE DEF step
<1>3. it + 1 \in 1..Len(data) /\ it + 1 <= idx_l + count /\ it \in Nat
  BY <1>1, <1>2, SearchTyping
<1>4. CASE data[it + 1] < key
  <2>1. idx_l' = it + 1 /\ count' = count - (step + 1) /\ idx_l' + count' = idx_l + count
    BY <1>1, <1>2, <1>4, SearchTyping
  <2>2. \A i \in 1..(it + 1) : data[i] < key
    <3> SUFFICES ASSUME NEW i \in 1..(it + 1) PROVE data[i] < key
      OBVIOUS
    <3>1. i \in 1..Len(data) /\ (i < it + 1 \/ i = it + 1)
      BY <1>3, SearchTyping
    <3>2. i < it + 1 => data[i] < data[it + 1]
      BY <1>1, <1>3, <3>1, SearchTyping
    <3> QED BY <1>1, <1>3, <1>4, <3>1, <3>2, SearchTyping
  <2>3. SearchTypeOK'
    BY <1>1, <1>2, <1>3, <2>1, SearchTyping DEF SearchTypeOK, Ascending
  <2>4. LeftBelow' /\ RightAbove'
    BY <1>1, <2>1, <2>2 DEF LeftBelow, RightAbove
  <2> QED BY <1>1, <2>3, <2>4 DEF SearchIInv, FoundPosition, SearchReturnsPromised
<1>5. CASE ~(data[it + 1] < key)
  <2>1. idx_l' = idx_l /\ count' = step
    BY <1>1, <1>5
  <2>2. \A i \in (it + 1)..Len(data) : data[i] >= key
    <3> SUFFICES ASSUME NEW i \in (it + 1)..Len(data) PROVE data[i] >= key
      OBVIOUS
    <3>1. i \in 1..Len(data) /\ (it + 1 < i \/ i = it + 1)
      BY <1>3, SearchTyping
    <3>2. it + 1 < i => data[it + 1] < data[i]
      BY <1>1, <1>3, <3>1, SearchTyping
    <3> QED BY <1>1, <1>3, <1>5, <3>1, <3>2, SearchTyping
  <2>3. SearchTypeOK'
    BY <1>1, <1>2, <2>1, SearchTyping DEF SearchTypeOK, Ascending
  <2>4. LeftBelow' /\ RightAbove'
    BY <1>1, <2>1, <2>2 DEF LeftBelow, RightAbove
  <2> QED BY <1>1, <2>3, <2>4 DEF SearchIInv, FoundPosition, SearchReturnsPromised
<1> QED BY <1>4, <1>5

\* A step of the scan preserves the strengthening.
LEMMA LinearStepIInv == SearchIInv /\ LinearStep => SearchIInv'
<1> SUFFICES ASSUME SearchIInv, LinearStep PROVE SearchIInv'
  OBVIOUS
<1>1. /\ SearchTypeOK /\ LeftBelow /\ count = 0 /\ pc = "linear" /\ pc' = "linear"
      /\ op' = op /\ data' = data /\ key' = key /\ count' = count /\ out' = out
      /\ idx_l < Len(data) /\ data[idx_l + 1] < key /\ idx_l' = idx_l + 1
  BY DEF SearchIInv, LinearStep, searchArgs
<1>2. SearchTypeOK'
  BY <1>1, SearchTyping DEF SearchTypeOK, Ascending
<1>3. LeftBelow'
  <2>1. \A i \in 1..(idx_l + 1) : i \in 1..idx_l \/ i = idx_l + 1
    BY <1>1, SearchTyping
  <2> QED BY <1>1, <2>1 DEF LeftBelow
<1> QED BY <1>1, <1>2, <1>3 DEF SearchIInv, FoundPosition, SearchReturnsPromised

\* The search ends at the position that splits the array at the key.
LEMMA SearchEndIInv == SearchIInv /\ SearchEnd => SearchIInv'
<1> SUFFICES ASSUME SearchIInv, SearchEnd PROVE SearchIInv'
  OBVIOUS
<1>1. /\ SearchTypeOK /\ LeftBelow /\ pc' = "found" /\ UNCHANGED <<searchArgs, idx_l, count, out>>
      /\ \/ pc = "binary" /\ count = 0
         \/ pc = "linear" /\ ~(idx_l < Len(data) /\ data[idx_l + 1] < key)
  BY DEF SearchIInv, SearchEnd
<1>2. \A i \in (idx_l + 1)..Len(data) : data[i] >= key
  <2>1. CASE pc = "binary"
    <3>1. RightAbove /\ idx_l + count + 1 = idx_l + 1
      BY <1>1, <2>1, SearchTyping DEF SearchIInv
    <3> QED BY <3>1 DEF RightAbove
  <2>2. CASE pc = "linear"
    <3> SUFFICES ASSUME NEW i \in (idx_l + 1)..Len(data) PROVE data[i] >= key
      OBVIOUS
    <3>1. idx_l + 1 \in 1..Len(data) /\ i \in 1..Len(data)
          /\ (idx_l + 1 < i \/ i = idx_l + 1)
      BY <1>1, SearchTyping
    <3>2. data[idx_l + 1] >= key
      BY <1>1, <2>2, <3>1, SearchTyping
    <3>3. idx_l + 1 < i => data[idx_l + 1] < data[i]
      BY <1>1, <3>1, SearchTyping
    <3> QED BY <1>1, <3>1, <3>2, <3>3, SearchTyping
  <2> QED BY <1>1, <2>1, <2>2
<1>3. \A i \in DOMAIN data : data[i] < key <=> i <= idx_l
  <2> SUFFICES ASSUME NEW i \in 1..Len(data) PROVE data[i] < key <=> i <= idx_l
    BY <1>1, SearchTyping
  <2>1. i \in 1..idx_l \/ (i \in (idx_l + 1)..Len(data) /\ ~(i <= idx_l))
    BY <1>1, SearchTyping
  <2> QED BY <1>1, <1>2, <2>1, SearchTyping DEF LeftBelow
<1>4. SearchTypeOK' /\ LeftBelow'
  BY <1>1 DEF SearchTypeOK, Ascending, LeftBelow, searchArgs
<1>5. FoundPosition'
  BY <1>1, <1>3 DEF FoundPosition, searchArgs
<1> QED BY <1>1, <1>4, <1>5 DEF SearchIInv, SearchReturnsPromised

\* The prefix that bounded returns.
LEMMA BoundedResult ==
  ASSUME SearchTypeOK, FoundPosition, pc = "found", out' = SubSeq(data, 1, idx_l)
  PROVE  /\ out' \in Seq(Nat) /\ Ascending(out')
         /\ Elems(out') = {x \in Elems(data) : x < key}
<1>1. idx_l \in 0..Len(data) /\ \A i \in 1..idx_l : i \in 1..Len(data)
  BY SearchTyping
<1>2. out' \in Seq(Nat) /\ Len(out') = idx_l /\ \A i \in 1..idx_l : out'[i] = data[i]
  <2>1. \A i \in 1..idx_l : data[i] \in Nat
    BY <1>1, SearchTyping
  <2>2. /\ SubSeq(data, 1, idx_l) \in Seq(Nat)
        /\ Len(SubSeq(data, 1, idx_l)) = IF 1 <= idx_l THEN idx_l - 1 + 1 ELSE 0
        /\ \A i \in 1..(idx_l - 1 + 1) : SubSeq(data, 1, idx_l)[i] = data[1 + i - 1]
    BY <1>1, <2>1, SubSeqProperties, SearchTyping
  <2> QED BY <1>1, <2>2, SearchTyping
<1>3. DOMAIN out' = 1..idx_l
  BY <1>2
<1>4. Ascending(out')
  BY <1>1, <1>2, <1>3, SearchTyping DEF Ascending
<1>5. ASSUME NEW i \in 1..Len(data) PROVE data[i] < key <=> i \in 1..idx_l
  <2>1. data[i] < key <=> i <= idx_l
    BY SearchTyping DEF FoundPosition
  <2>2. i <= idx_l <=> i \in 1..idx_l
    BY <1>1
  <2> QED BY <2>1, <2>2
<1>6. Elems(out') = {x \in Elems(data) : x < key}
  BY <1>1, <1>2, <1>3, <1>5, SearchTyping DEF Elems
<1> QED BY <1>2, <1>4, <1>6

\* The copy without the key that remove returns.
LEMMA RemovedResult ==
  ASSUME SearchTypeOK, FoundPosition, pc = "found",
         idx_l < Len(data), data[idx_l + 1] = key, out' = WithoutIdx
  PROVE  /\ out' \in Seq(Nat) /\ Ascending(out')
         /\ Elems(out') = Elems(data) \ {key}
<1> DEFINE n == Len(data)
           s == SubSeq(data, 1, idx_l)
           t == SubSeq(data, idx_l + 2, n)
<1>1. idx_l \in Nat /\ n \in Nat /\ idx_l + 1 \in 1..n
  BY SearchTyping
<1>2. /\ s \in Seq(Nat) /\ Len(s) = idx_l
      /\ \A i \in 1..idx_l : s[i] = data[i]
  <2>1. \A i \in 1..idx_l : data[i] \in Nat
    BY <1>1, SearchTyping
  <2>2. /\ s \in Seq(Nat)
        /\ Len(s) = IF 1 <= idx_l THEN idx_l - 1 + 1 ELSE 0
        /\ \A i \in 1..(idx_l - 1 + 1) : s[i] = data[1 + i - 1]
    BY <1>1, <2>1, SubSeqProperties
  <2> HIDE DEF s
  <2> QED BY <1>1, <2>2
<1>3. /\ t \in Seq(Nat) /\ Len(t) = n - idx_l - 1
      /\ \A i \in 1..(n - idx_l - 1) : t[i] = data[idx_l + i + 1]
  <2>1. \A i \in (idx_l + 2)..n : data[i] \in Nat
    BY <1>1, SearchTyping
  <2>2. /\ t \in Seq(Nat)
        /\ Len(t) = IF idx_l + 2 <= n THEN n - (idx_l + 2) + 1 ELSE 0
        /\ \A i \in 1..(n - (idx_l + 2) + 1) : t[i] = data[(idx_l + 2) + i - 1]
    BY <1>1, <2>1, SubSeqProperties
  <2> HIDE DEF t, n
  <2>3. n - idx_l - 1 = IF idx_l + 2 <= n THEN n - (idx_l + 2) + 1 ELSE 0
    BY <1>1
  <2>4. ASSUME NEW i \in 1..(n - idx_l - 1) PROVE t[i] = data[idx_l + i + 1]
    <3>1. i \in 1..(n - (idx_l + 2) + 1) /\ (idx_l + 2) + i - 1 = idx_l + i + 1
      BY <1>1
    <3> QED BY <2>2, <3>1
  <2> QED BY <2>2, <2>3, <2>4
<1>4. out' = s \o t
  BY DEF WithoutIdx
<1> HIDE DEF s, t
<1>5. /\ out' \in Seq(Nat) /\ Len(out') = n - 1
      /\ \A i \in 1..(n - 1) : out'[i] = IF i <= idx_l THEN data[i] ELSE data[i + 1]
  <2>1. /\ s \o t \in Seq(Nat) /\ Len(s \o t) = Len(s) + Len(t)
        /\ \A i \in 1..(Len(s) + Len(t)) :
              (s \o t)[i] = IF i <= Len(s) THEN s[i] ELSE t[i - Len(s)]
    BY <1>2, <1>3, ConcatProperties
  <2> HIDE DEF n
  <2>2. Len(s) + Len(t) = n - 1
    BY <1>1, <1>2, <1>3
  <2>3. ASSUME NEW i \in 1..(n - 1)
        PROVE  (s \o t)[i] = IF i <= idx_l THEN data[i] ELSE data[i + 1]
    <3>1. CASE i <= idx_l
      BY <1>1, <1>2, <2>1, <2>2, <3>1
    <3>2. CASE ~(i <= idx_l)
      <4>1. i - idx_l \in 1..(n - idx_l - 1) /\ idx_l + (i - idx_l) + 1 = i + 1
        BY <1>1, <3>2
      <4>2. (s \o t)[i] = t[i - idx_l]
        BY <1>1, <1>2, <2>1, <2>2, <3>2
      <4> QED BY <1>3, <3>2, <4>1, <4>2
    <3> QED BY <3>1, <3>2
  <2> QED BY <1>4, <2>1, <2>2, <2>3
<1>6. DOMAIN out' = 1..(n - 1)
  BY <1>5
<1> HIDE DEF n
<1>7. Ascending(out')
  <2> SUFFICES ASSUME NEW i \in 1..(n - 1), NEW j \in 1..(n - 1), i < j
               PROVE  out'[i] < out'[j]
    BY <1>6 DEF Ascending
  <2> DEFINE at(k) == IF k <= idx_l THEN k ELSE k + 1
  <2>1. at(i) \in 1..n /\ at(j) \in 1..n /\ at(i) < at(j)
    BY <1>1
  <2>2. out'[i] = data[at(i)] /\ out'[j] = data[at(j)]
    BY <1>5
  <2> HIDE DEF at
  <2> QED BY <2>1, <2>2, SearchTyping DEF n
<1>8. ASSUME NEW i \in 1..n PROVE data[i] # key <=> i # idx_l + 1
  <2>1. i < idx_l + 1 \/ i = idx_l + 1 \/ idx_l + 1 < i
    BY <1>1
  <2> QED BY <1>1, <2>1, SearchTyping DEF n
<1>9. Elems(out') = Elems(data) \ {key}
  <2>1. ASSUME NEW i \in 1..(n - 1) PROVE out'[i] \in Elems(data) /\ out'[i] # key
    <3>1. CASE i <= idx_l
      <4>1. i \in 1..n /\ i # idx_l + 1 /\ out'[i] = data[i]
        BY <1>1, <1>5, <3>1
      <4> QED BY <1>8, <4>1, SearchTyping DEF Elems, n
    <3>2. CASE ~(i <= idx_l)
      <4>1. i + 1 \in 1..n /\ i + 1 # idx_l + 1 /\ out'[i] = data[i + 1]
        BY <1>1, <1>5, <3>2
      <4> QED BY <1>8, <4>1, SearchTyping DEF Elems, n
    <3> QED BY <3>1, <3>2
  <2>2. ASSUME NEW i \in 1..n, data[i] # key PROVE data[i] \in Elems(out')
    <3>1. i < idx_l + 1 \/ idx_l + 1 < i
      BY <1>1, <1>8, <2>2
    <3>2. CASE i < idx_l + 1
      <4>1. i \in 1..(n - 1) /\ out'[i] = data[i]
        BY <1>1, <1>5, <3>2
      <4> QED BY <1>6, <4>1 DEF Elems
    <3>3. CASE idx_l + 1 < i
      <4>1. i - 1 \in 1..(n - 1) /\ ~(i - 1 <= idx_l) /\ (i - 1) + 1 = i
        BY <1>1, <3>3
      <4>2. out'[i - 1] = data[i]
        BY <1>5, <4>1
      <4> QED BY <1>6, <4>1, <4>2 DEF Elems
    <3> QED BY <3>1, <3>2, <3>3
  <2>3. Elems(data) = {data[i] : i \in 1..n} /\ Elems(out') = {out'[i] : i \in 1..(n - 1)}
    BY <1>6, SearchTyping DEF Elems, n
  <2> QED BY <2>1, <2>2, <2>3
<1> QED BY <1>5, <1>7, <1>9

\* A key that is not at the position found is not in the array.
LEMMA KeyAbsent ==
  ASSUME SearchTypeOK, FoundPosition, pc = "found",
         ~(idx_l < Len(data) /\ data[idx_l + 1] = key)
  PROVE  key \notin Elems(data)
<1> SUFFICES ASSUME NEW i \in 1..Len(data), data[i] = key PROVE FALSE
  BY SearchTyping DEF Elems
<1>1. ~(i <= idx_l)
  BY SearchTyping DEF FoundPosition
<1>2. idx_l + 1 \in 1..Len(data) /\ (idx_l + 1 < i \/ i = idx_l + 1)
  BY <1>1, SearchTyping
<1>3. ~(data[idx_l + 1] < key)
  BY <1>2, SearchTyping DEF FoundPosition
<1> QED BY <1>2, <1>3, SearchTyping

\* Returning preserves the strengthening: the result is the promised set.
LEMMA FinishIInv == SearchIInv /\ Finish => SearchIInv'
<1> SUFFICES ASSUME SearchIInv, Finish PROVE SearchIInv'
  OBVIOUS
<1>1. /\ SearchTypeOK /\ FoundPosition /\ pc = "found" /\ pc' = "done"
      /\ op' = op /\ data' = data /\ key' = key /\ idx_l' = idx_l /\ count' = count
  BY DEF SearchIInv, Finish, searchArgs
<1>2. /\ out' \in Seq(Nat) /\ Ascending(out')
      /\ Elems(out') = IF op = "bounded" THEN {x \in Elems(data) : x < key}
                                         ELSE Elems(data) \ {key}
  <2>1. CASE op = "bounded"
    BY <1>1, <2>1, BoundedResult DEF Finish
  <2>2. CASE op # "bounded" /\ idx_l < Len(data) /\ data[idx_l + 1] = key
    BY <1>1, <2>2, RemovedResult DEF Finish
  <2>3. CASE op # "bounded" /\ ~(idx_l < Len(data) /\ data[idx_l + 1] = key)
    <3>1. out' = data
      BY <2>3 DEF Finish
    <3> QED BY <1>1, <2>3, <3>1, KeyAbsent DEF SearchTypeOK
  <2> QED BY <2>1, <2>2, <2>3
<1>3. SearchTypeOK'
  BY <1>1, <1>2 DEF SearchTypeOK, Ascending
<1>4. SearchReturnsPromised'
  BY <1>1, <1>2 DEF SearchReturnsPromised, Elems, Ascending
<1> QED BY <1>1, <1>3, <1>4 DEF SearchIInv, FoundPosition

\* Handing the result, or another array, on preserves the strengthening.
LEMMA SearchProceedIInv == SearchIInv /\ SearchProceed => SearchIInv'
<1> SUFFICES ASSUME SearchIInv, SearchProceed PROVE SearchIInv'
  OBVIOUS
<1>1. data' \in Seq(Nat) /\ Ascending(data')
  BY ArraysAssumption, SearchAssumption DEF SearchIInv, SearchTypeOK, SearchProceed, SearchReturnsPromised
<1>2. /\ pc' = "idle" /\ idx_l' = 0 /\ count' = 0 /\ out' = << >>
      /\ op' = op /\ key' = key /\ SearchTypeOK
  BY DEF SearchIInv, SearchProceed
<1>3. Len(data') \in Nat
  BY <1>1
<1>4. SearchTypeOK'
  BY <1>1, <1>2, <1>3 DEF SearchTypeOK, Ascending
<1> QED BY <1>2, <1>4 DEF SearchIInv, FoundPosition, SearchReturnsPromised

\* The strengthening is an invariant of the searches.
THEOREM SearchInvariance == SearchSpec => []SearchIInv
<1>1. SearchIInv /\ [SearchNext]_searchVars => SearchIInv'
  <2> SUFFICES ASSUME SearchIInv, [SearchNext]_searchVars PROVE SearchIInv'
    OBVIOUS
  <2>1. CASE SearchNext
    BY <2>1, SearchCallIInv, BinaryStepIInv, LinearStepIInv, SearchEndIInv, FinishIInv,
       SearchProceedIInv DEF SearchNext
  <2>2. CASE UNCHANGED searchVars
    <3>1. SearchTypeOK'
      BY <2>2 DEF searchVars, SearchIInv, SearchTypeOK, Ascending
    <3>2. UNCHANGED <<LeftBelow, RightAbove>>
      BY <2>2 DEF searchVars, LeftBelow, RightAbove
    <3>3. FoundPosition' /\ SearchReturnsPromised'
      BY <2>2 DEF searchVars, SearchIInv, FoundPosition, SearchReturnsPromised, Elems
    <3> QED BY <2>2, <3>1, <3>2, <3>3 DEF searchVars, SearchIInv
  <2> QED BY <2>1, <2>2
<1> QED BY SearchInitIInv, <1>1, PTL DEF SearchSpec

\* No probe of bisection or scan reads outside the array.
THEOREM SearchTypeCorrect == SearchSpec => []SearchTypeOK
<1>1. SearchIInv => SearchTypeOK
  BY DEF SearchIInv
<1> QED BY <1>1, SearchInvariance, PTL

\* Bisection and scan find the position that splits the array at the key.
THEOREM SearchFinds == SearchSpec => []FoundPosition
<1>1. SearchIInv => FoundPosition
  BY DEF SearchIInv
<1> QED BY <1>1, SearchInvariance, PTL

\* bounded and remove return the promised set, whichever search they use.
THEOREM SearchCorrect == SearchSpec => []SearchReturnsPromised
<1>1. SearchIInv => SearchReturnsPromised
  BY DEF SearchIInv
<1> QED BY <1>1, SearchInvariance, PTL

=============================================================================
