---------------------------- MODULE PagedProgram ----------------------------
(***************************************************************************)
(* A program's way from source to execution in Family B: the Compiler      *)
(* (main/compiler_main.c) compiles it through the window of CodeWindow and *)
(* streams it to a .swb file (swb/swb.c), the Runner (main/runner_main.c)  *)
(* stages the file into the same aux store and executes it through a       *)
(* window of its own (vm/bcwin.c).  Each program chains the next one over  *)
(* its memory; only aux and the disk survive.                              *)
(***************************************************************************)
EXTENDS CodeWindow

CONSTANTS
  SWB_CHUNK,       (* swb_write_stream's tmp[]: 128 bytes.                 *)
  BC_STAGE_CHUNK,  (* load_paged's s_chunk[]: 512 bytes.                   *)
  BC_WINDOW        (* bcwin_buf[]: 1,024 bytes.                            *)

MaxInstr == 3      (* The longest instruction: an opcode and two bytes.    *)

ASSUME PagedSizes == /\ SWB_CHUNK \in Nat \ {0}
                     /\ BC_STAGE_CHUNK \in Nat \ {0}
                     /\ BC_WINDOW \in Nat /\ BC_WINDOW >= MaxInstr

VARIABLES
  phase,           (* Which program has the machine, and what it is at.    *)
  file,            (* The .swb next to the source.                         *)
  off,             (* The streaming loops' offset.                         *)
  bcwin_buf, bcwin_base, bcwin_len,
  vm_pc,
  mapped,          (* BC_ENSURE has been called for vm_pc.                 *)
  program          (* History: the program the file was last opened for.   *)

disk == <<file, program>>
runner == <<bcwin_buf, bcwin_base, bcwin_len, vm_pc, mapped>>
vars == <<windowVars, phase, disk, off, runner>>

(* The header carries bc_len and program_start; tail stands for the heap   *)
(* constants and the function table behind the bytecode.                   *)
Absent == [there |-> FALSE, header |-> <<>>, body |-> <<>>, tail |-> FALSE]
Created == [Absent EXCEPT !.there = TRUE]
bc_len == file.header[1]
program_start == file.header[2]

NoProgram == [code |-> <<>>, start |-> 0]

(* pf_delete; the disk may refuse. *)
pf_delete ==
  \/ file' = Absent /\ program' = NoProgram
  \/ UNCHANGED disk

Least(a, b) == IF a < b THEN a ELSE b

Init ==
  /\ WindowInit
  /\ phase = "launcher"
  /\ file = Absent
  /\ program = NoProgram
  /\ off = 0
  /\ bcwin_buf = [i \in 0 .. BC_WINDOW - 1 |-> Zero]
  /\ bcwin_base = 0 /\ bcwin_len = 0
  /\ vm_pc = 0 /\ mapped = FALSE

(* The Compiler's memory as it is loaded, with a compile in state st. *)
Fresh(st) ==
  /\ s_buf' = [i \in Window |-> Zero]
  /\ s_arena_used' = 0 /\ s_win_base' = 0 /\ bc_pos' = 0
  /\ func_start' = -1
  /\ status' = st

(* Another program is read over the one that runs: its memory is gone. *)
Chain(next) ==
  /\ phase' = next /\ off' = 0
  /\ Fresh("idle")
  /\ bcwin_buf' = [i \in 0 .. BC_WINDOW - 1 |-> Zero]
  /\ bcwin_base' = 0 /\ bcwin_len' = 0
  /\ vm_pc' = 0 /\ mapped' = FALSE

-----------------------------------------------------------------------------
(* The Compiler.                                                           *)

(* compile_file removes the old .swb before it compiles. *)
ChainCompiler ==
  /\ phase = "launcher"
  /\ pf_delete
  /\ \/ phase' = "compile" /\ Fresh("parsing")
     \/ UNCHANGED <<phase, compiler>>          (* "cannot open source" *)
  /\ UNCHANGED <<aux, off, runner>>

CompileStep ==
  /\ phase = "compile" /\ Compile
  /\ UNCHANGED <<phase, disk, off, runner>>

CompileError ==
  /\ phase = "compile" /\ status = "idle"
  /\ Chain("launcher")
  /\ UNCHANGED <<aux, disk>>

(* pf_open_write deletes, creates and opens. *)
OpenOutput ==
  /\ phase = "compile" /\ status = "done"
  /\ phase' = "write"
  /\ file' = Created
  /\ program' = [code |-> Code, start |-> s_arena_used]
  /\ UNCHANGED <<windowVars, off, runner>>

CannotCreate ==
  /\ phase = "compile" /\ status = "done"
  /\ pf_delete
  /\ Chain("launcher")
  /\ UNCHANGED aux

WriteHeader ==
  /\ phase = "write" /\ file.header = <<>>
  /\ file' = [file EXCEPT !.header = <<bc_pos, s_arena_used>>]
  /\ UNCHANGED <<windowVars, phase, program, off, runner>>

Writing == phase = "write" /\ file.header # <<>> /\ Len(file.body) < bc_pos

(* Mutant: the flushed part is not written. *)
NextChunk_resident_only ==
  [i \in 1 .. bc_pos - s_win_base |-> s_buf[i - 1]]

(* What the next wr() of the bytecode is given: a chunk from aux as long   *)
(* as flushed bytes are left, then all of the resident bytes.              *)
NextChunk ==
  IF off < s_win_base
  THEN [i \in 1 .. Least(s_win_base - off, SWB_CHUNK) |-> aux[off + i - 1]]
  ELSE [i \in 1 .. bc_pos - s_win_base |-> s_buf[i - 1]]

WriteChunk ==
  /\ Writing
  /\ file' = [file EXCEPT !.body = @ \o NextChunk]
  /\ off' = off + Len(NextChunk)
  /\ UNCHANGED <<windowVars, phase, program, runner>>

(* The tail, pf_close, and the Runner, or the launcher if it is missing. *)
WriteTail ==
  /\ phase = "write" /\ file.header # <<>> /\ Len(file.body) = bc_pos
  /\ file' = [file EXCEPT !.tail = TRUE]
  /\ \E next \in {"load", "launcher"} : Chain(next)
  /\ UNCHANGED <<aux, program>>

(* "write error": the disk takes part of a chunk or nothing; what is       *)
(* written so far stays.                                                   *)
WriteError ==
  /\ phase = "write"
  /\ \/ UNCHANGED file
     \/ Writing /\ \E n \in 1 .. Len(NextChunk) - 1 :
          file' = [file EXCEPT !.body = @ \o SubSeq(NextChunk, 1, n)]
  /\ Chain("launcher")
  /\ UNCHANGED <<aux, program>>

-----------------------------------------------------------------------------
(* The Runner.                                                             *)

(* The launcher runs a .swb picked in the file selector. *)
ChainRunner ==
  /\ phase = "launcher" /\ file.there
  /\ Chain("load")
  /\ UNCHANGED <<aux, disk>>

(* load_paged, one chunk: bcwin_stage of the next bytes of the file. *)
StageChunk ==
  /\ phase = "load" /\ file.header # <<>> /\ off < bc_len
  /\ LET want == Least(bc_len - off, BC_STAGE_CHUNK)
     IN  /\ Len(file.body) - off >= want
         /\ aux' = [i \in Store |-> IF off <= i /\ i < off + want
                                   THEN file.body[i + 1] ELSE aux[i]]
         /\ off' = off + want
  /\ UNCHANGED <<compiler, phase, disk, runner>>

(* swb_load_tail, then vm_run with bcwin_begin. *)
BeginRun ==
  /\ phase = "load" /\ file.header # <<>> /\ off = bc_len /\ file.tail
  /\ phase' = "run"
  /\ vm_pc' = program_start
  /\ bcwin_base' = 65535 /\ bcwin_len' = 0
  /\ mapped' = FALSE
  /\ UNCHANGED <<windowVars, disk, off, bcwin_buf>>

(* "bad .swb image": the file ends early, or the disk cannot be read. *)
BadImage ==
  /\ phase = "load"
  /\ Chain("launcher")
  /\ UNCHANGED <<aux, disk>>

(* Mutant: only the opcode has to be in the window. *)
InstructionMapped_opcode_only ==
  LET win_end == bcwin_base + bcwin_len
  IN  vm_pc >= bcwin_base /\ (vm_pc + 1 <= win_end \/ win_end >= bc_len)

InstructionMapped ==
  LET win_end == bcwin_base + bcwin_len
  IN  vm_pc >= bcwin_base /\ (vm_pc + MaxInstr <= win_end \/ win_end >= bc_len)

(* The head of vm_run's loop. *)
bcwin_ensure ==
  /\ phase = "run" /\ ~mapped /\ vm_pc < bc_len
  /\ mapped' = TRUE
  /\ IF InstructionMapped
     THEN UNCHANGED <<bcwin_buf, bcwin_base, bcwin_len>>
     ELSE /\ bcwin_len' = Least(bc_len - vm_pc, BC_WINDOW)
          /\ bcwin_buf' = [i \in 0 .. BC_WINDOW - 1 |->
                             IF i < Least(bc_len - vm_pc, BC_WINDOW)
                             THEN aux[vm_pc + i] ELSE bcwin_buf[i]]
          /\ bcwin_base' = vm_pc
  /\ UNCHANGED <<windowVars, phase, disk, off, vm_pc>>

(* One instruction: on to the next one, a jump, a call or a return. *)
Execute ==
  /\ phase = "run" /\ mapped
  /\ vm_pc' \in 0 .. bc_len
  /\ mapped' = FALSE
  /\ UNCHANGED <<windowVars, phase, disk, off, bcwin_buf, bcwin_base, bcwin_len>>

(* The program ends: at its last byte, at OP_HALT, by an error or a break. *)
(* A test sweep then deletes the .swb.                                     *)
EndRun ==
  /\ phase = "run"
  /\ pf_delete
  /\ Chain("launcher")
  /\ UNCHANGED aux

(* The machine is reset, whatever it is at. *)
Reset ==
  /\ Chain("launcher")
  /\ UNCHANGED <<aux, disk>>

Next ==
  \/ ChainCompiler \/ CompileStep \/ CompileError
  \/ OpenOutput \/ CannotCreate
  \/ WriteHeader \/ WriteChunk \/ WriteTail \/ WriteError
  \/ ChainRunner \/ StageChunk \/ BeginRun \/ BadImage
  \/ bcwin_ensure \/ Execute \/ EndRun
  \/ Reset

Spec == Init /\ [][Next]_vars

-----------------------------------------------------------------------------
(* The program counters, streams and windows stay inside their memories. *)
TypeOK ==
  /\ WindowTypeOK
  /\ phase \in {"launcher", "compile", "write", "load", "run"}
  /\ file.there \in BOOLEAN /\ file.tail \in BOOLEAN
  /\ file.header \in {<<>>} \cup ((0 .. AUX_BC_MAX) \X (0 .. AUX_BC_MAX))
  /\ file.body \in Seq(Byte) /\ Len(file.body) <= AUX_BC_MAX
  /\ program.code \in Seq(Byte) /\ program.start \in 0 .. AUX_BC_MAX
  /\ off \in 0 .. AUX_BC_MAX
  /\ bcwin_buf \in [0 .. BC_WINDOW - 1 -> Byte]
  /\ bcwin_base \in 0 .. AUX_BC_MAX \cup {65535}
  /\ bcwin_len \in 0 .. BC_WINDOW
  /\ vm_pc \in 0 .. AUX_BC_MAX
  /\ mapped \in BOOLEAN

(* A run executes the program the compiler produced, never part of it: the *)
(* whole instruction at vm_pc is in the window and its bytes are those the *)
(* compiler emitted, whatever was flushed, streamed, staged and paged in   *)
(* between, and however an earlier compile or write ended.                 *)
FetchesProgram ==
  phase = "run" =>
    /\ bc_len = Len(program.code) /\ program_start = program.start
    /\ mapped => \A pc \in vm_pc .. Least(vm_pc + MaxInstr, bc_len) - 1 :
         /\ pc - bcwin_base \in 0 .. bcwin_len - 1
         /\ bcwin_buf[pc - bcwin_base] = program.code[pc + 1]
=============================================================================
