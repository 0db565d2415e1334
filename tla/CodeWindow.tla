----------------------------- MODULE CodeWindow -----------------------------
(***************************************************************************)
(* src/compiler/bcbuf.c as the Family B Compiler builds it                 *)
(* (WITH_AUX_COMPILE): the bytecode of one program grows past the size of  *)
(* the buffer because the functions already finished are flushed to the    *)
(* aux store.  Offsets are absolute: s_buf holds those from s_win_base on. *)
(* The parser is any client that appends, patches the construct it is in   *)
(* and closes functions; it is modelled in Compiler.tla.                   *)
(***************************************************************************)
EXTENDS Integers, Sequences

CONSTANTS
  Byte,
  Zero,            (* What BSS and aux RAM hold before they are written.   *)
  FILE_BC_SIZE,    (* Bytes of s_buf.                                      *)
  AUX_BC_MAX       (* Bytes of the aux store: the parser's bc_cap.         *)

ASSUME WindowSizes == /\ Zero \in Byte
                      /\ FILE_BC_SIZE \in Nat \ {0}
                      /\ AUX_BC_MAX \in Nat \ {0}

VARIABLES
  s_buf,           (* Indexed from 0, like aux.                            *)
  s_arena_used,    (* Where the finished functions end.                    *)
  s_win_base,      (* Where the bytes flushed to aux end.                  *)
  bc_pos,          (* The parser's append position.                        *)
  func_start,      (* parse_func_decl's body_start_pos, -1 outside a func. *)
  status,          (* The compile under way, or how the last one ended.    *)
  aux              (* The aux store; it survives a change of program.      *)

compiler == <<s_buf, s_arena_used, s_win_base, bc_pos, func_start, status>>
windowVars == <<compiler, aux>>

Window == 0 .. FILE_BC_SIZE - 1
Store == 0 .. AUX_BC_MAX - 1

WindowInit ==
  /\ s_buf = [i \in Window |-> Zero]
  /\ s_arena_used = 0 /\ s_win_base = 0 /\ bc_pos = 0
  /\ func_start = -1
  /\ status = "idle"
  /\ aux = [i \in Store |-> Zero]

-----------------------------------------------------------------------------
Parsing == status = "parsing"

(* globals_reset, then the start of compile_inner. *)
Begin ==
  /\ status \in {"idle", "done"}
  /\ s_arena_used' = 0 /\ s_win_base' = 0     (* bcbuf_arena_reset *)
  /\ bc_pos' = 0 /\ func_start' = -1
  /\ status' = "parsing"
  /\ UNCHANGED <<s_buf, aux>>

(* Mutant: the check lets the position run one past the store. *)
BelowCeiling_off_by_one == bc_pos <= AUX_BC_MAX

BelowCeiling == bc_pos < AUX_BC_MAX

InWindow == bc_pos - s_win_base < FILE_BC_SIZE
Frozen == s_arena_used - s_win_base

(* emit_byte where bcbuf_put finds the position in the window. *)
EmitResident(b) ==
  /\ Parsing /\ BelowCeiling /\ InWindow
  /\ s_buf' = [s_buf EXCEPT ![bc_pos - s_win_base] = b]
  /\ bc_pos' = bc_pos + 1
  /\ UNCHANGED <<s_arena_used, s_win_base, func_start, status, aux>>

(* aux_store_write(s_win_base, s_buf, Frozen) *)
Flushed ==
  [i \in Store |-> IF s_win_base <= i /\ i < s_arena_used
                   THEN s_buf[i - s_win_base] ELSE aux[i]]

(* The scratch behind the frozen bytes slid down to s_buf[0]. *)
Slid ==
  [i \in Window |-> IF i < bc_pos - s_arena_used THEN s_buf[Frozen + i]
                    ELSE s_buf[i]]

(* Mutant: the window is re-based on the byte being written. *)
EmitFlush_rebased_on_pos(b) ==
  /\ Parsing /\ BelowCeiling /\ ~InWindow /\ Frozen > 0
  /\ aux' = Flushed
  /\ s_buf' = [Slid EXCEPT ![0] = b]
  /\ s_win_base' = bc_pos
  /\ bc_pos' = bc_pos + 1
  /\ UNCHANGED <<s_arena_used, func_start, status>>

(* emit_byte at the end of a full window that starts with finished         *)
(* functions.  After the slide the byte always fits: the window was full,  *)
(* not more than full (Resident), and something was frozen.                *)
EmitFlush(b) ==
  /\ Parsing /\ BelowCeiling /\ ~InWindow /\ Frozen > 0
  /\ aux' = Flushed
  /\ s_buf' = [Slid EXCEPT ![bc_pos - s_arena_used] = b]
  /\ s_win_base' = s_arena_used
  /\ bc_pos' = bc_pos + 1
  /\ UNCHANGED <<s_arena_used, func_start, status>>

(* "bytecode too big" and "program too big for memory". *)
EmitFails ==
  /\ Parsing
  /\ \/ ~BelowCeiling
     \/ ~InWindow /\ Frozen = 0
  /\ status' = "failed"
  /\ UNCHANGED <<s_buf, s_arena_used, s_win_base, bc_pos, func_start, aux>>

(* Where the construct being parsed starts: a placeholder is never older. *)
UnitStart == IF func_start >= 0 THEN func_start ELSE s_arena_used

(* patch_jump_to_here, for a placeholder at p. *)
patch_jump_to_here(p, lo, hi) ==
  /\ Parsing
  /\ UnitStart <= p /\ p + 1 < bc_pos
  /\ s_buf' = [s_buf EXCEPT ![p - s_win_base] = lo, ![p + 1 - s_win_base] = hi]
  /\ UNCHANGED <<s_arena_used, s_win_base, bc_pos, func_start, status, aux>>

(* parse_func_decl marks where the body begins. *)
BeginFunc ==
  /\ Parsing /\ func_start < 0
  /\ func_start' = bc_pos
  /\ UNCHANGED <<s_buf, s_arena_used, s_win_base, bc_pos, status, aux>>

reverse_range(buf, lo, hi) ==
  [i \in DOMAIN buf |-> IF lo <= i /\ i < hi THEN buf[lo + hi - 1 - i]
                        ELSE buf[i]]

(* Mutant: the whole range is not turned round at the end. *)
Rotation_two_reversals ==
  LET lo   == s_arena_used - s_win_base
      from == func_start - s_win_base
      hi   == bc_pos - s_win_base
  IN  reverse_range(reverse_range(s_buf, lo, from), from, hi)

(* The last function's body moved in front of the scratch it was compiled  *)
(* behind, by three reversals.                                             *)
Rotation ==
  LET lo   == s_arena_used - s_win_base
      from == func_start - s_win_base
      hi   == bc_pos - s_win_base
  IN  reverse_range(
        reverse_range(reverse_range(s_buf, lo, from), from, hi), lo, hi)

(* The end of parse_func_decl; a body holds at least its return. *)
bcbuf_rotate_func_into_arena ==
  /\ Parsing
  /\ func_start >= s_arena_used /\ func_start < bc_pos
  /\ bc_pos - s_win_base <= FILE_BC_SIZE
  /\ s_buf' = Rotation
  /\ s_arena_used' = s_arena_used + (bc_pos - func_start)
  /\ func_start' = -1
  /\ UNCHANGED <<s_win_base, bc_pos, status, aux>>

(* parser_fail, for whatever is wrong with the source. *)
parser_fail ==
  /\ Parsing
  /\ status' = "failed"
  /\ UNCHANGED <<s_buf, s_arena_used, s_win_base, bc_pos, func_start, aux>>

(* The end of compile_inner: the program is complete, or the arena is cut  *)
(* back and s_win_base left where it is.                                   *)
Finish ==
  /\ Parsing /\ func_start < 0
  /\ status' = "done"
  /\ UNCHANGED <<s_buf, s_arena_used, s_win_base, bc_pos, func_start, aux>>

Abandon ==
  /\ status = "failed"
  /\ s_arena_used' = 0                        (* bcbuf_arena_truncate(0) *)
  /\ func_start' = -1
  /\ status' = "idle"
  /\ UNCHANGED <<s_buf, s_win_base, bc_pos, aux>>

Compile ==
  \/ \E b \in Byte : EmitResident(b) \/ EmitFlush(b)
  \/ EmitFails
  \/ \E p \in Store, lo, hi \in Byte : patch_jump_to_here(p, lo, hi)
  \/ BeginFunc
  \/ bcbuf_rotate_func_into_arena
  \/ parser_fail
  \/ Finish
  \/ Abandon

WindowNext == Begin \/ Compile

WindowSpec == WindowInit /\ [][WindowNext]_windowVars

-----------------------------------------------------------------------------
(* Every pointer stays inside its memory. *)
WindowTypeOK ==
  /\ s_buf \in [Window -> Byte]
  /\ aux \in [Store -> Byte]
  /\ s_arena_used \in 0 .. AUX_BC_MAX
  /\ s_win_base \in 0 .. AUX_BC_MAX
  /\ bc_pos \in 0 .. AUX_BC_MAX
  /\ func_start \in -1 .. AUX_BC_MAX
  /\ status \in {"idle", "parsing", "failed", "done"}

(* Whatever the compiler may still read or patch is in main memory: only   *)
(* finished functions have been flushed, and what is left fits the buffer. *)
(* bcbuf_get and patch_jump_to_here rest on it, since neither looks.       *)
Resident ==
  status \in {"parsing", "done"} =>
    /\ s_win_base <= s_arena_used /\ s_arena_used <= bc_pos
    /\ bc_pos - s_win_base <= FILE_BC_SIZE
    /\ func_start >= 0 => s_arena_used <= func_start /\ func_start <= bc_pos

(* The bytecode of the program: flushed to aux up to s_win_base, in s_buf  *)
(* from there on.                                                          *)
Code ==
  [i \in 1 .. bc_pos |-> IF i <= s_win_base THEN aux[i - 1]
                         ELSE s_buf[i - 1 - s_win_base]]

Live == status \in {"parsing", "done"}

Draft == IF Live THEN Code ELSE <<>>
Arena == IF Live THEN s_arena_used ELSE 0

Flat == INSTANCE FlatCode WITH draft <- Draft, arena <- Arena

(* Flushing, sliding and rotating never show: the compiler has a flat      *)
(* buffer it appends to, in which the functions it has finished stay as    *)
(* they are.                                                               *)
KeepsCode == Flat!Spec
=============================================================================
