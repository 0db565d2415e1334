------------------------------- MODULE HeapOps -------------------------------
(***************************************************************************)
(* src/runtime/heap.c: a bump-pointer heap of reference-counted blocks.    *)
(*                                                                         *)
(* A heap value h is a record: h.ptr is s_heap_ptr and h.hdr maps the      *)
(* offset of every block header below s_heap_ptr to the two header words.  *)
(* Payload bytes are not kept.  The operators are the functions of heap.c. *)
(***************************************************************************)
EXTENDS Integers

CONSTANTS
  HEAP_SIZE,          (* Bytes in s_heap.                                  *)
  STRING_POOL_SLOTS,  (* First usable offset.                              *)
  HEADER_SIZE,        (* Refcount word + length word.                      *)
  RC_MAX              (* Where the refcount saturates (0xFFFF).            *)

ASSUME HeapSizes ==
  /\ HEAP_SIZE \in Nat /\ STRING_POOL_SLOTS \in Nat
  /\ STRING_POOL_SLOTS <= HEAP_SIZE
  /\ HEADER_SIZE \in Nat \ {0}
  /\ RC_MAX \in Nat \ {0}

Offsets == STRING_POOL_SLOTS .. (HEAP_SIZE - 1)

heap_reset == [ptr |-> STRING_POOL_SLOTS,
               hdr |-> [o \in {} |-> [rc |-> 0, len |-> 0]]]

ValidOff(h, off) ==
  /\ off >= STRING_POOL_SLOTS
  /\ off < h.ptr
  /\ off + HEADER_SIZE <= HEAP_SIZE

BlockEnd(h, off) == off + HEADER_SIZE + h.hdr[off].len

(* Mutant: the header is not counted. *)
HasRoom_payload_only(h, len) == h.ptr + len <= HEAP_SIZE

(* heap_alloc returns HEAP_NULL, changing nothing, when this is false. *)
HasRoom(h, len) == h.ptr + HEADER_SIZE + len <= HEAP_SIZE

(* Mutant: one header byte is not counted. *)
heap_alloc_short(h, len) ==
  [ptr |-> h.ptr + HEADER_SIZE - 1 + len,
   hdr |-> [o \in DOMAIN h.hdr \cup {h.ptr} |->
              IF o = h.ptr THEN [rc |-> 1, len |-> len] ELSE h.hdr[o]]]

(* heap_alloc; the block it returns is at h.ptr. *)
heap_alloc(h, len) ==
  [ptr |-> h.ptr + HEADER_SIZE + len,
   hdr |-> [o \in DOMAIN h.hdr \cup {h.ptr} |->
              IF o = h.ptr THEN [rc |-> 1, len |-> len] ELSE h.hdr[o]]]

(* write_u16 of a block's refcount word. *)
SetRc(h, off, rc) ==
  [ptr |-> h.ptr,
   hdr |-> [h.hdr EXCEPT ![off] = [rc |-> rc, len |-> h.hdr[off].len]]]

heap_retain(h, off) ==
  IF ~ValidOff(h, off) \/ h.hdr[off].rc = RC_MAX
  THEN h
  ELSE SetRc(h, off, h.hdr[off].rc + 1)

(* The bump pointer moves down to `off`; the headers above are forgotten. *)
Rewind(h, off) == [ptr |-> off,
                   hdr |-> [o \in {d \in DOMAIN h.hdr : d < off} |-> h.hdr[o]]]

(* Mutant: the last two holders count as none. *)
heap_release_early(h, off) ==
  IF ~ValidOff(h, off) \/ h.hdr[off].rc = 0 THEN h
  ELSE IF h.hdr[off].rc <= 2 /\ BlockEnd(h, off) = h.ptr THEN Rewind(h, off)
  ELSE SetRc(h, off, h.hdr[off].rc - 1)

(* Mutant: a dying block rewinds the pointer whether or not it is topmost. *)
heap_release_anywhere(h, off) ==
  IF ~ValidOff(h, off) \/ h.hdr[off].rc = 0 THEN h
  ELSE IF h.hdr[off].rc = 1 THEN Rewind(h, off)
  ELSE SetRc(h, off, h.hdr[off].rc - 1)

heap_release(h, off) ==
  IF ~ValidOff(h, off) \/ h.hdr[off].rc = 0 THEN h
  ELSE IF h.hdr[off].rc = 1 /\ BlockEnd(h, off) = h.ptr THEN Rewind(h, off)
  ELSE SetRc(h, off, h.hdr[off].rc - 1)

(* Mutant: a savepoint of the empty heap is taken for an invalid one. *)
heap_rollback_nonempty(h, saved) ==
  IF saved <= STRING_POOL_SLOTS \/ saved > h.ptr THEN h ELSE Rewind(h, saved)

(* heap_savepoint is h.ptr. *)
heap_rollback(h, saved) ==
  IF saved < STRING_POOL_SLOTS \/ saved > h.ptr THEN h ELSE Rewind(h, saved)
=============================================================================
