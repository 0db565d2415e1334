----------------------------- MODULE WindowSize -----------------------------
(* The source window's capacity, for SrcWin and the Compiler over it. *)
EXTENDS Naturals

CONSTANT Cap       (* w->cap, which is FILE_SRC_SIZE: bytes of the window. *)

ASSUME CapIsPositive == Cap \in Nat \ {0}
=============================================================================
