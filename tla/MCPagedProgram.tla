--------------------------- MODULE MCPagedProgram ---------------------------
(* Programs of up to four bytes, compiled through a two-byte buffer, moved *)
(* in chunks of two and run through a window of one longest instruction.   *)
EXTENDS PagedProgram
=============================================================================
