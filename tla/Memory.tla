------------------------------- MODULE Memory -------------------------------
(***************************************************************************)
(* Reference-counted values over the heap: src/runtime/value.c and         *)
(* src/runtime/array.c.                                                    *)
(*                                                                         *)
(* A memory m is a record: m.heap is the heap of HeapOps and m.payload     *)
(* maps each block header's offset to what its payload holds, the text of  *)
(* a string or the capacity and live elements of an array.  A value is a   *)
(* record [tag, p], p an offset for tags "str" and "arr".                  *)
(***************************************************************************)
EXTENDS HeapOps, SequencesExt

CONSTANTS
  SLOTS_OFF,            (* Bytes of the count and capacity words.          *)
  SLOT_BYTES,           (* Bytes of one array slot.                        *)
  ARRAY_INIT_CAPACITY

ASSUME ArraySizes == /\ SLOTS_OFF \in Nat
                     /\ SLOT_BYTES \in Nat
                     /\ ARRAY_INIT_CAPACITY \in Nat \ {0}

Nil      == [tag |-> "nil",  p |-> 0]
IntV(n)  == [tag |-> "int",  p |-> n]
BoolV(b) == [tag |-> "bool", p |-> IF b THEN 1 ELSE 0]
StrV(o)  == [tag |-> "str",  p |-> o]
ArrV(o)  == [tag |-> "arr",  p |-> o]

IsRef(v) == v.tag \in {"str", "arr"}

Text(t)       == [kind |-> "str", text |-> t]
Array(c, els) == [kind |-> "arr", cap |-> c, elems |-> els]

EmptyMemory == [heap |-> heap_reset, payload |-> <<>>]

(* The payloads of forgotten headers go with them. *)
WithHeap(m, h) ==
  [heap |-> h, payload |-> [o \in DOMAIN h.hdr |-> m.payload[o]]]

(* The block heap_alloc returns is at m.heap.ptr; the caller fills it in. *)
WithBlock(m, len, content) ==
  LET h == heap_alloc(m.heap, len)
  IN  [heap |-> h,
       payload |-> [o \in DOMAIN h.hdr |->
                      IF o = m.heap.ptr THEN content ELSE m.payload[o]]]

(* make_heap_str and array_new, once HasRoom holds. *)
NewStr(m, t)      == WithBlock(m, Len(t), Text(t))
ArrayLen(c)       == SLOTS_OFF + c * SLOT_BYTES
NewArray(m, c, els) == WithBlock(m, ArrayLen(c), Array(c, els))

StrRoom(m, t)   == HasRoom(m.heap, Len(t))
ArrayRoom(m, c) == HasRoom(m.heap, ArrayLen(c))

heap_refcount(h, off) == IF ValidOff(h, off) THEN h.hdr[off].rc ELSE 0

value_retain(m, v) ==
  IF IsRef(v) THEN WithHeap(m, heap_retain(m.heap, v.p)) ELSE m

release_block(m, off) == WithHeap(m, heap_release(m.heap, off))

(* value_release of an element.  Bound: no array holds an array. *)
array_release_elements(m, off) ==
  FoldLeft(LAMBDA mm, v : IF IsRef(v) THEN release_block(mm, v.p) ELSE mm,
           m, m.payload[off].elems)

value_release(m, v) ==
  IF ~IsRef(v) THEN m
  ELSE IF v.tag = "arr" /\ heap_refcount(m.heap, v.p) = 1
  THEN release_block(array_release_elements(m, v.p), v.p)
  ELSE release_block(m, v.p)

(* In the order of the sequence. *)
release_all(m, vs) == FoldLeft(value_release, m, vs)

Elems(m, off)    == m.payload[off].elems
InRange(m, off, i) == i >= 0 /\ i < Len(Elems(m, off))

SetElems(m, off, els) == [m EXCEPT !.payload[off].elems = els]

(* Written, then retained, then the old value released. *)
array_set(m, off, i, v) ==
  value_release(
    value_retain(SetElems(m, off, [Elems(m, off) EXCEPT ![i + 1] = v]), v),
    Elems(m, off)[i + 1])

IsFull(m, off) == Len(Elems(m, off)) >= m.payload[off].cap

GrownCap(m, off) ==
  IF 2 * m.payload[off].cap < ARRAY_INIT_CAPACITY
  THEN ARRAY_INIT_CAPACITY ELSE 2 * m.payload[off].cap

(* The result is a memory and the array's offset, moved if it grew: the    *)
(* elements are copied without a retain and the old block alone is         *)
(* released.  OOM is the caller's: AppendRoom.                             *)
AppendRoom(m, off) == IsFull(m, off) => ArrayRoom(m, GrownCap(m, off))

array_append(m, off, v) ==
  LET grown == release_block(NewArray(m, GrownCap(m, off), Elems(m, off)), off)
      to    == IF IsFull(m, off) THEN m.heap.ptr ELSE off
      m1    == IF IsFull(m, off) THEN grown ELSE m
  IN  [mem |-> value_retain(SetElems(m1, to, Append(Elems(m1, to), v)), v),
       arr |-> to]
=============================================================================
