------------------------------ MODULE Allocator ------------------------------
(***************************************************************************)
(* What the reference-counted heap promises to the compiler and the VM,    *)
(* with nothing said about how: a block stays where it was put, with the   *)
(* size it was given, for as long as somebody holds a reference to it, and *)
(* no two such blocks overlap.                                             *)
(***************************************************************************)
EXTENDS Integers

CONSTANTS
  Space,    (* The addresses blocks are carved from.                       *)
  Sizes     (* The sizes, header included, that may be asked for.          *)

VARIABLE live   (* Start address of each held block -> its size and holds. *)

Span(off, size) == off .. (off + size - 1)

Free(off, size) ==
  /\ Span(off, size) \subseteq Space
  /\ \A o \in DOMAIN live : Span(o, live[o].size) \cap Span(off, size) = {}

Init == live = [o \in {} |-> [size |-> 0, refs |-> 0]]

(* A fresh block, held once, anywhere it overlaps nothing that is held. *)
Obtain(size) ==
  \E off \in Space :
    /\ Free(off, size)
    /\ live' = [o \in DOMAIN live \cup {off} |->
                 IF o = off THEN [size |-> size, refs |-> 1] ELSE live[o]]

Hold(off) == live' = [live EXCEPT ![off].refs = @ + 1]

(* Give back one reference; the last one frees the block. *)
Drop(off) ==
  IF live[off].refs = 1
  THEN live' = [o \in DOMAIN live \ {off} |-> live[o]]
  ELSE live' = [live EXCEPT ![off].refs = @ - 1]

(* The holders of a set of blocks disappear together. *)
Discard(gone) == live' = [o \in DOMAIN live \ gone |-> live[o]]

Next ==
  \/ \E size \in Sizes : Obtain(size)
  \/ \E off \in DOMAIN live : Hold(off) \/ Drop(off)
  \/ \E gone \in SUBSET DOMAIN live : Discard(gone)

Spec == Init /\ [][Next]_live
=============================================================================
