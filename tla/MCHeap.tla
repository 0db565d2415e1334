------------------------------- MODULE MCHeap -------------------------------
(* A heap of twelve bytes: three or four small blocks fill it, so running *)
(* out, rewinding and saturating all happen.                               *)
EXTENDS Heap
MC_Lens == {0, 1, 3}
=============================================================================
