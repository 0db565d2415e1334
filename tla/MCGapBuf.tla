------------------------------ MODULE MCGapBuf ------------------------------
(* Every text of up to Cap bytes over a two-letter alphabet.               *)
EXTENDS GapBuf
=============================================================================
