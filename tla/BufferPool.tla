------------------------------- MODULE BufferPool ------------------------------
(***************************************************************************)
(* What a thread's pool of buffers promises, whatever it is made of: the   *)
(* specification VertexSetPool (src/src/backend/vertex_set.h) and          *)
(* MiniGraphPool (src/src/backend/minigraph.h) both implement.             *)
(*                                                                         *)
(* A buffer is free or held.  A request is met with a free buffer that     *)
(* fits, whichever, and a new buffer is made only if there is none.  On    *)
(* its way a request may give buffers back: before it looks for a free     *)
(* one, so that it may be met with one of them, or after.                  *)
(***************************************************************************)
EXTENDS Naturals, Sequences

CONSTANTS
  Requests,    (* what can be asked for                                    *)
  Fits(_, _)   (* whether a buffer of some size meets a request            *)

VARIABLES
  size,        (* the sizes of the buffers 1, 2, ... made so far           *)
  free, held   (* the buffers available and those in use                   *)

vars == <<size, free, held>>

Made == DOMAIN size

Init == size = << >> /\ free = {} /\ held = {}

\* Buffer b is handed out of "available".
HandOut(b, available, before, after) ==
  /\ free' = (available \ {b}) \union after
  /\ held' = ((held \ before) \union {b}) \ after

Reuse(n, before, after) ==
  \E b \in free \union before :
    /\ Fits(size[b], n)
    /\ HandOut(b, free \union before, before, after)
    /\ UNCHANGED size

Make(n, before, after) ==
  /\ \A b \in free \union before : ~Fits(size[b], n)
  /\ Len(size') = Len(size) + 1 /\ SubSeq(size', 1, Len(size)) = size
  /\ Fits(size'[Len(size')], n)
  /\ HandOut(Len(size'), free \union before, before, after)

GiveBack(gone) ==
  /\ free' = free \union gone
  /\ held' = held \ gone
  /\ UNCHANGED size

Next ==
  \/ \E n \in Requests : \E before \in SUBSET held : \E after \in SUBSET (held \ before) :
       Reuse(n, before, after) \/ Make(n, before, after)
  \/ \E gone \in SUBSET held : GiveBack(gone)

Spec == Init /\ [][Next]_vars

=============================================================================
