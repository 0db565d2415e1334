-------------------------------- MODULE Heap --------------------------------
(***************************************************************************)
(* The heap of src/runtime/heap.c driven the way its callers drive it: a   *)
(* holder (VM stack slot, global, array slot, constant pool) retains what  *)
(* it copies and releases what it drops, and compile_source rolls a line   *)
(* that does not compile back to its savepoint.                            *)
(***************************************************************************)
EXTENDS HeapOps

CONSTANTS
  Lens,      (* Payload lengths the callers ask for.                       *)
  MaxRefs    (* Bound: holders of one block at any time.  Every holder is  *)
             (* a stack slot, a global or three heap bytes, so config.h    *)
             (* keeps it far below RC_MAX.                                 *)

ASSUME ClientBounds == Lens \subseteq Nat /\ MaxRefs \in 1 .. RC_MAX

VARIABLES
  h,          (* The heap.                                                 *)
  refs,       (* Ghost: how many holders each offset has.                  *)
  compiling,  (* A line is being compiled, its savepoint taken.            *)
  before      (* Ghost: the heap when it began; empty when not compiling.  *)

vars == <<h, refs, compiling, before>>

NoRefs == [o \in Offsets |-> 0]

Init ==
  /\ h = heap_reset
  /\ refs = NoRefs
  /\ compiling = FALSE
  /\ before = heap_reset

(* A runtime value or, while compiling, a string literal. *)
Alloc(len) ==
  /\ HasRoom(h, len)
  /\ h' = heap_alloc(h, len)
  /\ refs' = [refs EXCEPT ![h.ptr] = 1]
  /\ UNCHANGED <<compiling, before>>

(* value_retain: a holder copies its reference into another slot. *)
Retain(off) ==
  /\ ~compiling
  /\ refs[off] \in 1 .. (MaxRefs - 1)
  /\ h' = heap_retain(h, off)
  /\ refs' = [refs EXCEPT ![off] = @ + 1]
  /\ UNCHANGED <<compiling, before>>

(* value_release: a holder drops its reference. *)
Release(off) ==
  /\ ~compiling
  /\ refs[off] > 0
  /\ h' = heap_release(h, off)
  /\ refs' = [refs EXCEPT ![off] = @ - 1]
  /\ UNCHANGED <<compiling, before>>

(* A holder vanishes without a release: OP_EQ and OP_NEQ pop their two     *)
(* operands, and vm_run starts by zeroing vm_sp over whatever a runtime    *)
(* error left on the stack.                                                *)
Forget(off) ==
  /\ ~compiling
  /\ refs[off] > 0
  /\ refs' = [refs EXCEPT ![off] = @ - 1]
  /\ UNCHANGED <<h, compiling, before>>

(* compile_source takes the savepoint. *)
BeginCompile ==
  /\ ~compiling
  /\ compiling' = TRUE
  /\ before' = h
  /\ UNCHANGED <<h, refs>>

CommitCompile ==
  /\ compiling
  /\ compiling' = FALSE
  /\ before' = heap_reset
  /\ UNCHANGED <<h, refs>>

(* The line does not compile: the literals' only holder was its bytecode. *)
AbortCompile ==
  /\ compiling
  /\ h' = heap_rollback(h, before.ptr)
  /\ refs' = [o \in Offsets |-> IF o < before.ptr THEN refs[o] ELSE 0]
  /\ compiling' = FALSE
  /\ before' = heap_reset

(* :reset, after vm_reset_globals and globals_reset emptied the holders. *)
Reset ==
  /\ ~compiling
  /\ h' = heap_reset
  /\ refs' = NoRefs
  /\ UNCHANGED <<compiling, before>>

Next ==
  \/ \E len \in Lens : Alloc(len)
  \/ \E off \in Offsets : Retain(off) \/ Release(off) \/ Forget(off)
  \/ BeginCompile \/ CommitCompile \/ AbortCompile
  \/ Reset

Spec == Init /\ [][Next]_vars

-----------------------------------------------------------------------------
Header == [rc : 0 .. RC_MAX, len : Nat]

HeapOK(x) ==
  /\ x.ptr \in STRING_POOL_SLOTS .. HEAP_SIZE
  /\ DOMAIN x.hdr \subseteq Offsets
  /\ x = [ptr |-> x.ptr, hdr |-> [o \in DOMAIN x.hdr |-> x.hdr[o]]]
  /\ \A o \in DOMAIN x.hdr : x.hdr[o] \in Header

TypeOK ==
  /\ HeapOK(h)
  /\ refs \in [Offsets -> 0 .. MaxRefs]
  /\ compiling \in BOOLEAN
  /\ HeapOK(before)

(* The blocks tile the used part of the heap: each one ends where the next *)
(* begins and the last one ends at s_heap_ptr.  The LIFO test of           *)
(* heap_release (heap.c:105) and the savepoints are only right on such a   *)
(* layout.                                                                 *)
Tiled(x) ==
  /\ x.ptr # STRING_POOL_SLOTS => STRING_POOL_SLOTS \in DOMAIN x.hdr
  /\ \A o \in DOMAIN x.hdr :
       /\ BlockEnd(x, o) <= x.ptr
       /\ BlockEnd(x, o) = x.ptr \/ BlockEnd(x, o) \in DOMAIN x.hdr
       /\ \A p \in DOMAIN x.hdr : o < p => BlockEnd(x, o) <= p
Tiling == Tiled(h)

(* No holder's block is ever taken back: an offset somebody still holds is *)
(* a block header below s_heap_ptr and its count covers every holder, even *)
(* after some holders vanished without releasing and after a rollback.     *)
HeldBlocksLive ==
  \A o \in Offsets :
    refs[o] > 0 => o \in DOMAIN h.hdr /\ h.hdr[o].rc >= refs[o]

(* Undoing the line being compiled would give back exactly the heap it     *)
(* found: nothing below the savepoint is disturbed while compiling, so     *)
(* heap_rollback in compile_source's error path is an exact undo.          *)
RollbackExact == compiling => heap_rollback(h, before.ptr) = before

(* The allocator's promise, with a block live while it has a holder. *)
Size(off) == IF off \in DOMAIN h.hdr THEN HEADER_SIZE + h.hdr[off].len ELSE 0

Live == [o \in {d \in Offsets : refs[d] > 0} |->
           [size |-> Size(o), refs |-> refs[o]]]

Promise == INSTANCE Allocator WITH
             Space <- Offsets,
             Sizes <- {HEADER_SIZE + len : len \in Lens},
             live  <- Live

(* The heap implements the allocator: held blocks neither move, nor shrink, *)
(* nor overlap a block heap_alloc hands out.                               *)
KeepsPromise == Promise!Spec
=============================================================================
