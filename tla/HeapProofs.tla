----------------------------- MODULE HeapProofs -----------------------------
(***************************************************************************)
(* The heap's invariants and its refinement of Allocator, for every heap   *)
(* size, header size, saturation point and set of payload lengths.         *)
(***************************************************************************)
EXTENDS Heap, TLAPS

(* What compiling a line has left alone: the heap of the savepoint is the  *)
(* part of the present heap below the savepoint, and it is tiled, so that  *)
(* rolling back gives a tiled heap again.                                  *)
CompileInv ==
  /\ Tiled(before)
  /\ compiling =>
       /\ before.ptr <= h.ptr
       /\ before = Rewind(h, before.ptr)

IInv == TypeOK /\ Tiling /\ HeldBlocksLive /\ CompileInv

-----------------------------------------------------------------------------
(* Lemmas about the functions of heap.c, on any well-formed heap.          *)

LEMMA ResetOK == HeapOK(heap_reset) /\ Tiled(heap_reset)
  BY HeapSizes, ClientBounds DEF HeapOK, Tiled, heap_reset, BlockEnd, Offsets

(* heap_alloc leaves every older block where it was and puts the new one,  *)
(* held once, at the old bump pointer.                                     *)
LEMMA AllocFacts ==
  ASSUME NEW x, HeapOK(x), Tiled(x), NEW len \in Lens, HasRoom(x, len)
  PROVE  /\ HeapOK(heap_alloc(x, len))
         /\ Tiled(heap_alloc(x, len))
         /\ x.ptr \in Offsets
         /\ heap_alloc(x, len).ptr = x.ptr + HEADER_SIZE + len
         /\ DOMAIN heap_alloc(x, len).hdr = DOMAIN x.hdr \cup {x.ptr}
         /\ x.ptr \notin DOMAIN x.hdr
         /\ heap_alloc(x, len).hdr[x.ptr] = [rc |-> 1, len |-> len]
         /\ \A o \in DOMAIN x.hdr : heap_alloc(x, len).hdr[o] = x.hdr[o]
  <1> DEFINE y == heap_alloc(x, len)
  <1>1. len \in Nat
    BY HeapSizes, ClientBounds
  <1>2. x.ptr \in Offsets /\ y.ptr \in STRING_POOL_SLOTS .. HEAP_SIZE
    BY <1>1, HeapSizes, ClientBounds DEF HeapOK, HasRoom, heap_alloc, Offsets
  <1>3. y.ptr = x.ptr + HEADER_SIZE + len
    BY DEF heap_alloc
  <1>4. DOMAIN y.hdr = DOMAIN x.hdr \cup {x.ptr}
    BY DEF heap_alloc
  <1>5. \A o \in DOMAIN x.hdr : o \in Int /\ o < x.ptr /\ x.hdr[o] \in Header
    BY HeapSizes, ClientBounds DEF HeapOK, Tiled, BlockEnd, Offsets, Header
  <1>6. x.ptr \notin DOMAIN x.hdr
    BY <1>5, <1>2 DEF Offsets
  <1>7. y.hdr[x.ptr] = [rc |-> 1, len |-> len]
    BY DEF heap_alloc
  <1>8. \A o \in DOMAIN x.hdr : y.hdr[o] = x.hdr[o]
    BY <1>6 DEF heap_alloc
  <1>9. HeapOK(y)
    <2>1. DOMAIN y.hdr \subseteq Offsets
      BY <1>2, <1>4 DEF HeapOK
    <2>2. y = [ptr |-> y.ptr, hdr |-> [o \in DOMAIN y.hdr |-> y.hdr[o]]]
      BY DEF heap_alloc
    <2>3. [rc |-> 1, len |-> len] \in Header
      BY <1>1, HeapSizes, ClientBounds DEF Header
    <2>4. \A o \in DOMAIN y.hdr : y.hdr[o] \in Header
      BY <2>3, <1>4, <1>5, <1>7, <1>8
    <2>5. QED
      BY <1>2, <2>1, <2>2, <2>4 DEF HeapOK
  <1>10. Tiled(y)
    <2>1. \A o \in DOMAIN x.hdr : BlockEnd(y, o) = BlockEnd(x, o)
      BY <1>8 DEF BlockEnd
    <2>2. BlockEnd(y, x.ptr) = y.ptr
      BY <1>3, <1>7 DEF BlockEnd
    <2>3. \A o \in DOMAIN x.hdr : BlockEnd(x, o) \in Int /\ BlockEnd(x, o) <= x.ptr
      BY <1>5, HeapSizes, ClientBounds DEF Tiled, BlockEnd, Header
    <2>4. x.ptr \in Int /\ x.ptr < y.ptr
      BY <1>1, <1>2, <1>3, HeapSizes, ClientBounds DEF Offsets
    <2>5. STRING_POOL_SLOTS \in DOMAIN y.hdr
      BY <1>4 DEF Tiled
    <2>6. ASSUME NEW o \in DOMAIN y.hdr
          PROVE  /\ BlockEnd(y, o) <= y.ptr
                 /\ BlockEnd(y, o) = y.ptr \/ BlockEnd(y, o) \in DOMAIN y.hdr
                 /\ \A p \in DOMAIN y.hdr : o < p => BlockEnd(y, o) <= p
      <3>1. CASE o = x.ptr
        <4>1. \A p \in DOMAIN y.hdr : ~(x.ptr < p)
          BY <1>4, <1>5, <2>4
        <4>2. BlockEnd(y, o) = y.ptr /\ y.ptr \in Int
          BY <3>1, <2>2, <1>2
        <4>3. \A p \in DOMAIN y.hdr : o < p => BlockEnd(y, o) <= p
          BY <3>1, <4>1
        <4>4. QED
          BY <4>2, <4>3
      <3>2. CASE o \in DOMAIN x.hdr
        <4>1. BlockEnd(x, o) = x.ptr \/ BlockEnd(x, o) \in DOMAIN x.hdr
          BY <3>2 DEF Tiled
        <4>2. \A p \in DOMAIN x.hdr : o < p => BlockEnd(x, o) <= p
          BY <3>2 DEF Tiled
        <4>3. QED
          BY <3>2, <4>1, <4>2, <1>4, <2>1, <2>3, <2>4, <1>2
             DEF HeapOK
      <3>3. QED
        BY <1>4, <3>1, <3>2
    <2>7. QED
      BY <2>5, <2>6 DEF Tiled
  <1>11. QED
    BY <1>2, <1>3, <1>4, <1>6, <1>7, <1>8, <1>9, <1>10

(* Cutting the heap at a block, or at its end, leaves a tiled heap. *)
LEMMA RewindFacts ==
  ASSUME NEW x, HeapOK(x), Tiled(x),
         NEW off \in DOMAIN x.hdr
  PROVE  /\ HeapOK(Rewind(x, off))
         /\ Tiled(Rewind(x, off))
         /\ Rewind(x, off).ptr = off
         /\ DOMAIN Rewind(x, off).hdr = {d \in DOMAIN x.hdr : d < off}
         /\ \A o \in DOMAIN x.hdr : o < off => Rewind(x, off).hdr[o] = x.hdr[o]
  <1> DEFINE y == Rewind(x, off)
  <1>1. off \in Offsets /\ off \in Int
    BY HeapSizes, ClientBounds DEF HeapOK, Offsets
  <1>2. y.ptr = off /\ DOMAIN y.hdr = {d \in DOMAIN x.hdr : d < off}
    BY DEF Rewind
  <1>3. \A o \in DOMAIN x.hdr : o < off => y.hdr[o] = x.hdr[o]
    BY DEF Rewind
  <1>4. HeapOK(y)
    <2>1. off \in STRING_POOL_SLOTS .. HEAP_SIZE
      BY <1>1, HeapSizes, ClientBounds DEF Offsets
    <2>2. DOMAIN y.hdr \subseteq Offsets
      BY <1>2 DEF HeapOK
    <2>3. y = [ptr |-> y.ptr, hdr |-> [o \in DOMAIN y.hdr |-> y.hdr[o]]]
      BY DEF Rewind
    <2>4. \A o \in DOMAIN y.hdr : y.hdr[o] \in Header
      BY <1>2, <1>3 DEF HeapOK
    <2>5. QED
      BY <1>2, <2>1, <2>2, <2>3, <2>4 DEF HeapOK
  <1>5. Tiled(y)
    <2>1. \A o \in DOMAIN y.hdr : BlockEnd(y, o) = BlockEnd(x, o)
      BY <1>2, <1>3 DEF BlockEnd
    <2>2. \A o \in DOMAIN x.hdr : o \in Int /\ BlockEnd(x, o) \in Int
      BY HeapSizes, ClientBounds DEF HeapOK, BlockEnd, Header, Offsets
    <2>3. off < x.ptr /\ x.ptr \in Int
      BY HeapSizes, ClientBounds DEF HeapOK, Tiled, BlockEnd, Header, Offsets
    <2>4. off # STRING_POOL_SLOTS => STRING_POOL_SLOTS \in DOMAIN y.hdr
      BY <1>1, <1>2, <2>3, HeapSizes, ClientBounds DEF Tiled, HeapOK, Offsets
    <2>5. ASSUME NEW o \in DOMAIN y.hdr
          PROVE  /\ BlockEnd(y, o) <= off
                 /\ BlockEnd(y, o) = off \/ BlockEnd(y, o) \in DOMAIN y.hdr
                 /\ \A p \in DOMAIN y.hdr : o < p => BlockEnd(y, o) <= p
      <3>1. o \in DOMAIN x.hdr /\ o < off
        BY <1>2
      <3>2. BlockEnd(x, o) <= off
        BY <3>1 DEF Tiled
      <3>3. BlockEnd(x, o) = x.ptr \/ BlockEnd(x, o) \in DOMAIN x.hdr
        BY <3>1 DEF Tiled
      <3>4. \A p \in DOMAIN x.hdr : o < p => BlockEnd(x, o) <= p
        BY <3>1 DEF Tiled
      <3>5. QED
        BY <3>1, <3>2, <3>3, <3>4, <1>1, <1>2, <2>1, <2>2, <2>3
    <2>6. QED
      BY <1>2, <2>4, <2>5 DEF Tiled
  <1>6. QED
    BY <1>2, <1>3, <1>4, <1>5

(* Changing one block's refcount moves nothing. *)
LEMMA SetRcFacts ==
  ASSUME NEW x, HeapOK(x), Tiled(x), NEW off \in DOMAIN x.hdr,
         NEW n \in 0 .. RC_MAX, NEW y, y = SetRc(x, off, n)
  PROVE  /\ HeapOK(y)
         /\ Tiled(y)
         /\ y.ptr = x.ptr
         /\ DOMAIN y.hdr = DOMAIN x.hdr
         /\ \A o \in DOMAIN x.hdr : y.hdr[o].len = x.hdr[o].len
         /\ \A o \in DOMAIN x.hdr : o # off => y.hdr[o] = x.hdr[o]
         /\ y.hdr[off].rc = n
  <1>1. x = [ptr |-> x.ptr, hdr |-> [o \in DOMAIN x.hdr |-> x.hdr[o]]]
    BY DEF HeapOK
  <1>2. y.ptr = x.ptr
        /\ y.hdr = [x.hdr EXCEPT ![off] = [rc |-> n, len |-> x.hdr[off].len]]
    BY DEF SetRc
  <1>3. y = [ptr |-> y.ptr, hdr |-> y.hdr]
    BY DEF SetRc
  <1>4. x.hdr = [o \in DOMAIN x.hdr |-> x.hdr[o]]
    BY <1>1
  <1>5. \A o \in DOMAIN x.hdr : x.hdr[o] \in Header
    BY DEF HeapOK
  <1>6. DOMAIN y.hdr = DOMAIN x.hdr
    BY <1>2, <1>4
  <1>7. \A o \in DOMAIN x.hdr : o # off => y.hdr[o] = x.hdr[o]
    BY <1>2, <1>4
  <1>8. y.hdr[off] = [rc |-> n, len |-> x.hdr[off].len]
    BY <1>2, <1>4
  <1>9. y.hdr[off].rc = n /\ y.hdr[off].len = x.hdr[off].len
        /\ y.hdr[off] \in Header
    BY <1>5, <1>8 DEF Header
  <1>10. \A o \in DOMAIN x.hdr : y.hdr[o].len = x.hdr[o].len
    BY <1>7, <1>9
  <1>11. HeapOK(y)
    <2>1. y = [ptr |-> y.ptr, hdr |-> [o \in DOMAIN y.hdr |-> y.hdr[o]]]
      <3>1. y.hdr = [o \in DOMAIN y.hdr |-> y.hdr[o]]
        BY <1>2
      <3>2. QED
        BY <1>3, <3>1
    <2>2. \A o \in DOMAIN y.hdr : y.hdr[o] \in Header
      BY <1>5, <1>6, <1>7, <1>9
    <2>3. QED
      BY <1>2, <1>6, <2>1, <2>2 DEF HeapOK
  <1>12. Tiled(y)
    <2>1. \A o \in DOMAIN x.hdr : BlockEnd(y, o) = BlockEnd(x, o)
      BY <1>10 DEF BlockEnd
    <2>2. QED
      BY <1>2, <1>6, <2>1 DEF Tiled
  <1>13. QED
    BY <1>2, <1>6, <1>7, <1>9, <1>10, <1>11, <1>12

(* A block header passes heap.c's bounds check. *)
LEMMA HeaderIsValid ==
  ASSUME NEW x, HeapOK(x), Tiled(x), NEW off \in DOMAIN x.hdr
  PROVE  /\ ValidOff(x, off)
         /\ off \in Int
         /\ x.hdr[off].rc \in 0 .. RC_MAX
         /\ x.hdr[off].len \in Nat
  <1>1. off \in Offsets /\ x.hdr[off] \in Header
    BY DEF HeapOK
  <1>2. BlockEnd(x, off) <= x.ptr
    BY DEF Tiled
  <1>3. QED
    BY <1>1, <1>2, HeapSizes, ClientBounds
       DEF HeapOK, ValidOff, BlockEnd, Header, Offsets

(* heap_retain moves nothing and counts one holder more, up to RC_MAX. *)
LEMMA RetainFacts ==
  ASSUME NEW x, HeapOK(x), Tiled(x), NEW off \in DOMAIN x.hdr, NEW y,
         y = heap_retain(x, off)
  PROVE  /\ HeapOK(y)
         /\ Tiled(y)
         /\ y.ptr = x.ptr
         /\ DOMAIN y.hdr = DOMAIN x.hdr
         /\ \A o \in DOMAIN x.hdr : y.hdr[o].len = x.hdr[o].len
         /\ \A o \in DOMAIN x.hdr : o # off => y.hdr[o] = x.hdr[o]
         /\ y.hdr[off].rc =
              IF x.hdr[off].rc = RC_MAX THEN RC_MAX ELSE x.hdr[off].rc + 1
  <1>1. ValidOff(x, off) /\ x.hdr[off].rc \in 0 .. RC_MAX
    BY HeaderIsValid
  <1>2. CASE x.hdr[off].rc = RC_MAX
    BY <1>2 DEF heap_retain
  <1>3. CASE x.hdr[off].rc # RC_MAX
    <2>1. x.hdr[off].rc + 1 \in 0 .. RC_MAX
      BY <1>1, <1>3, HeapSizes, ClientBounds
    <2>2. y = SetRc(x, off, x.hdr[off].rc + 1)
      BY <1>1, <1>3 DEF heap_retain
    <2>3. QED
      BY <2>1, <2>2, <1>3, SetRcFacts
  <1>4. QED
    BY <1>2, <1>3

(* heap_release of a live block either only counts one holder less, or,    *)
(* when that was the last count of the topmost block, takes just it back.  *)
LEMMA ReleaseFacts ==
  ASSUME NEW x, HeapOK(x), Tiled(x), NEW off \in DOMAIN x.hdr,
         x.hdr[off].rc > 0, NEW y, y = heap_release(x, off)
  PROVE  /\ HeapOK(y)
         /\ Tiled(y)
         /\ \/ /\ y.ptr = x.ptr
               /\ DOMAIN y.hdr = DOMAIN x.hdr
               /\ \A o \in DOMAIN x.hdr : y.hdr[o].len = x.hdr[o].len
               /\ \A o \in DOMAIN x.hdr : o # off => y.hdr[o] = x.hdr[o]
               /\ y.hdr[off].rc = x.hdr[off].rc - 1
            \/ /\ x.hdr[off].rc = 1
               /\ DOMAIN y.hdr = DOMAIN x.hdr \ {off}
               /\ \A o \in DOMAIN x.hdr : o # off => y.hdr[o] = x.hdr[o]
  <1>1. ValidOff(x, off) /\ x.hdr[off].rc \in 0 .. RC_MAX
    BY HeaderIsValid
  <1>2. CASE x.hdr[off].rc = 1 /\ BlockEnd(x, off) = x.ptr
    <2>1. y = Rewind(x, off)
      BY <1>1, <1>2 DEF heap_release
    <2>2. \A o \in DOMAIN x.hdr : o \in Int /\ o < x.ptr
      BY HeaderIsValid DEF ValidOff
    <2>3. off \in Int /\ x.ptr \in Int
      BY HeaderIsValid, HeapSizes, ClientBounds DEF HeapOK
    <2>4. \A o \in DOMAIN x.hdr : ~(off < o)
      BY <1>2, <2>2, <2>3 DEF Tiled
    <2>5. \A o \in DOMAIN x.hdr : o # off => o < off
      BY <2>2, <2>3, <2>4
    <2>6. DOMAIN y.hdr = DOMAIN x.hdr \ {off}
      BY <2>1, <2>3, <2>5, RewindFacts
    <2>7. QED
      BY <1>2, <2>1, <2>5, <2>6, RewindFacts
  <1>3. CASE ~(x.hdr[off].rc = 1 /\ BlockEnd(x, off) = x.ptr)
    <2>1. x.hdr[off].rc - 1 \in 0 .. RC_MAX
      BY <1>1, HeapSizes, ClientBounds
    <2>2. y = SetRc(x, off, x.hdr[off].rc - 1)
      BY <1>1, <1>3 DEF heap_release
    <2>3. QED
      BY <2>1, <2>2, SetRcFacts
  <1>4. QED
    BY <1>2, <1>3

-----------------------------------------------------------------------------
(* The inductive invariant.                                                *)

LEMMA InitInv == Init => IInv
  <1> SUFFICES ASSUME Init PROVE IInv
    OBVIOUS
  <1>1. TypeOK
    <2>1. refs \in [Offsets -> 0 .. MaxRefs]
      BY HeapSizes, ClientBounds DEF Init, NoRefs
    <2>2. QED
      BY <2>1, ResetOK DEF Init, TypeOK
  <1>2. Tiling /\ CompileInv
    BY ResetOK DEF Init, Tiling, CompileInv
  <1>3. HeldBlocksLive
    BY DEF Init, HeldBlocksLive, NoRefs
  <1>4. QED
    BY <1>1, <1>2, <1>3 DEF IInv

(* While a line compiles, allocating above the savepoint leaves what is    *)
(* below it alone.                                                         *)
LEMMA AllocKeepsSavepoint ==
  ASSUME NEW x, HeapOK(x), Tiled(x), NEW len \in Lens, HasRoom(x, len),
         NEW saved \in STRING_POOL_SLOTS .. HEAP_SIZE, saved <= x.ptr
  PROVE  Rewind(heap_alloc(x, len), saved) = Rewind(x, saved)
  <1> DEFINE y == heap_alloc(x, len)
  <1>1. x.ptr \in Int /\ saved \in Int
    BY HeapSizes, ClientBounds DEF HeapOK
  <1>2. DOMAIN y.hdr = DOMAIN x.hdr \cup {x.ptr}
        /\ \A o \in DOMAIN x.hdr : y.hdr[o] = x.hdr[o]
    BY AllocFacts
  <1>3. {d \in DOMAIN y.hdr : d < saved} = {d \in DOMAIN x.hdr : d < saved}
    BY <1>1, <1>2
  <1>4. QED
    BY <1>2, <1>3 DEF Rewind

LEMMA NextInv == IInv /\ [Next]_vars => IInv'
  <1> SUFFICES ASSUME IInv, [Next]_vars PROVE IInv'
    OBVIOUS
  <1>a. /\ HeapOK(h) /\ Tiled(h) /\ HeapOK(before) /\ Tiled(before)
        /\ refs \in [Offsets -> 0 .. MaxRefs] /\ compiling \in BOOLEAN
    BY DEF IInv, TypeOK, Tiling, CompileInv
  <1>1. ASSUME NEW len \in Lens, Alloc(len) PROVE IInv'
    <2>1. /\ HeapOK(h') /\ Tiled(h') /\ h.ptr \in Offsets
          /\ DOMAIN h'.hdr = DOMAIN h.hdr \cup {h.ptr}
          /\ h'.hdr[h.ptr] = [rc |-> 1, len |-> len]
          /\ \A o \in DOMAIN h.hdr : h'.hdr[o] = h.hdr[o]
          /\ h.ptr \notin DOMAIN h.hdr
          /\ h'.ptr = h.ptr + HEADER_SIZE + len
      BY <1>1, <1>a, AllocFacts DEF Alloc
    <2>2. refs' = [refs EXCEPT ![h.ptr] = 1]
          /\ refs' \in [Offsets -> 0 .. MaxRefs]
      BY <1>1, <1>a, <2>1, HeapSizes, ClientBounds DEF Alloc
    <2>3. TypeOK' /\ Tiling'
      BY <1>1, <1>a, <2>1, <2>2 DEF Alloc, TypeOK, Tiling
    <2>4. HeldBlocksLive'
      BY <1>a, <2>1, <2>2 DEF HeldBlocksLive, IInv
    <2>5. CompileInv'
      <3>1. before' = before /\ compiling' = compiling
        BY <1>1 DEF Alloc
      <3>2. CASE compiling
        <4>1. before.ptr <= h.ptr /\ before = Rewind(h, before.ptr)
          BY <3>2 DEF IInv, CompileInv
        <4>2. before.ptr \in STRING_POOL_SLOTS .. HEAP_SIZE
          BY <1>a DEF HeapOK
        <4>3. Rewind(h', before.ptr) = Rewind(h, before.ptr)
          BY <1>1, <1>a, <4>1, <4>2, AllocKeepsSavepoint DEF Alloc
        <4>4. before.ptr <= h'.ptr
          BY <4>1, <4>2, <2>1, HeapSizes, ClientBounds DEF Offsets
        <4>5. QED
          BY <3>1, <4>1, <4>3, <4>4, <1>a DEF CompileInv
      <3>3. CASE ~compiling
        BY <3>1, <3>3, <1>a DEF CompileInv
      <3>4. QED
        BY <3>2, <3>3
    <2>6. QED
      BY <2>3, <2>4, <2>5 DEF IInv
  <1>2. ASSUME NEW off \in Offsets, Retain(off) PROVE IInv'
    <2>1. off \in DOMAIN h.hdr /\ h.hdr[off].rc >= refs[off]
      BY <1>2, <1>a DEF Retain, IInv, HeldBlocksLive
    <2>2. h.hdr[off].rc \in 0 .. RC_MAX
      BY <1>a, <2>1, HeaderIsValid
    <2>3. /\ HeapOK(h') /\ Tiled(h') /\ DOMAIN h'.hdr = DOMAIN h.hdr
          /\ \A o \in DOMAIN h.hdr : o # off => h'.hdr[o] = h.hdr[o]
          /\ h'.hdr[off].rc =
               IF h.hdr[off].rc = RC_MAX THEN RC_MAX ELSE h.hdr[off].rc + 1
      BY <1>2, <1>a, <2>1, RetainFacts DEF Retain
    <2>4. /\ refs' = [refs EXCEPT ![off] = refs[off] + 1]
          /\ refs[off] \in 1 .. (MaxRefs - 1)
          /\ refs' \in [Offsets -> 0 .. MaxRefs]
      BY <1>2, <1>a, HeapSizes, ClientBounds DEF Retain
    <2>5. h'.hdr[off].rc >= refs[off] + 1
      BY <2>1, <2>2, <2>3, <2>4, HeapSizes, ClientBounds
    <2>6. HeldBlocksLive'
      BY <1>a, <2>1, <2>3, <2>4, <2>5 DEF HeldBlocksLive, IInv
    <2>7. TypeOK' /\ Tiling' /\ CompileInv'
      BY <1>2, <1>a, <2>3, <2>4 DEF Retain, TypeOK, Tiling, CompileInv
    <2>8. QED
      BY <2>6, <2>7 DEF IInv
  <1>3. ASSUME NEW off \in Offsets, Release(off) PROVE IInv'
    <2>1. off \in DOMAIN h.hdr /\ h.hdr[off].rc >= refs[off]
          /\ refs[off] \in 1 .. MaxRefs
      BY <1>3, <1>a, HeapSizes, ClientBounds DEF Release, IInv, HeldBlocksLive
    <2>2. h.hdr[off].rc \in 1 .. RC_MAX
      BY <1>a, <2>1, HeaderIsValid, HeapSizes, ClientBounds
    <2>3. /\ HeapOK(h') /\ Tiled(h')
          /\ \/ /\ DOMAIN h'.hdr = DOMAIN h.hdr
                /\ \A o \in DOMAIN h.hdr : o # off => h'.hdr[o] = h.hdr[o]
                /\ h'.hdr[off].rc = h.hdr[off].rc - 1
             \/ /\ h.hdr[off].rc = 1
                /\ DOMAIN h'.hdr = DOMAIN h.hdr \ {off}
                /\ \A o \in DOMAIN h.hdr : o # off => h'.hdr[o] = h.hdr[o]
      BY <1>3, <1>a, <2>1, <2>2, ReleaseFacts DEF Release
    <2>4. /\ refs' = [refs EXCEPT ![off] = refs[off] - 1]
          /\ refs' \in [Offsets -> 0 .. MaxRefs]
      BY <1>3, <1>a, <2>1, HeapSizes, ClientBounds DEF Release
    <2>5. HeldBlocksLive'
      <3> SUFFICES ASSUME NEW o \in Offsets, refs'[o] > 0
                   PROVE  o \in DOMAIN h'.hdr /\ h'.hdr[o].rc >= refs'[o]
        BY DEF HeldBlocksLive
      <3>1. CASE o = off
        <4>1. refs'[off] = refs[off] - 1
          BY <1>a, <2>4
        <4>2. h.hdr[off].rc # 1
          BY <3>1, <4>1, <2>1, <2>2, HeapSizes, ClientBounds
        <4>3. QED
          BY <3>1, <4>1, <4>2, <2>1, <2>2, <2>3
      <3>2. CASE o # off
        BY <3>2, <1>a, <2>3, <2>4 DEF IInv, HeldBlocksLive
      <3>3. QED
        BY <3>1, <3>2
    <2>6. TypeOK' /\ Tiling' /\ CompileInv'
      BY <1>3, <1>a, <2>3, <2>4 DEF Release, TypeOK, Tiling, CompileInv
    <2>7. QED
      BY <2>5, <2>6 DEF IInv
  <1>4. ASSUME NEW off \in Offsets, Forget(off) PROVE IInv'
    <2>1. refs[off] \in 1 .. MaxRefs
      BY <1>4, <1>a, HeapSizes, ClientBounds DEF Forget
    <2>2. /\ refs' = [refs EXCEPT ![off] = refs[off] - 1]
          /\ refs' \in [Offsets -> 0 .. MaxRefs]
      BY <1>4, <1>a, <2>1, HeapSizes, ClientBounds DEF Forget
    <2>3. HeldBlocksLive'
      <3> SUFFICES ASSUME NEW o \in Offsets, refs'[o] > 0
                   PROVE  o \in DOMAIN h.hdr /\ h.hdr[o].rc >= refs'[o]
        BY <1>4 DEF HeldBlocksLive, Forget
      <3>1. refs[o] > 0 /\ refs'[o] <= refs[o] /\ refs[o] \in Int
        BY <1>a, <2>1, <2>2, HeapSizes, ClientBounds
      <3>2. o \in DOMAIN h.hdr /\ h.hdr[o].rc >= refs[o]
        BY <3>1 DEF IInv, HeldBlocksLive
      <3>3. h.hdr[o].rc \in Int /\ refs'[o] \in Int
        BY <3>2, <1>a, <2>2, HeaderIsValid, HeapSizes, ClientBounds
      <3>4. QED
        BY <3>1, <3>2, <3>3
    <2>4. TypeOK' /\ Tiling' /\ CompileInv'
      BY <1>4, <1>a, <2>2 DEF Forget, TypeOK, Tiling, CompileInv
    <2>5. QED
      BY <2>3, <2>4 DEF IInv
  <1>5. CASE BeginCompile
    <2>1. h = Rewind(h, h.ptr)
      <3>1. \A o \in DOMAIN h.hdr : o < h.ptr
        BY <1>a, HeaderIsValid DEF ValidOff
      <3>2. {d \in DOMAIN h.hdr : d < h.ptr} = DOMAIN h.hdr
        BY <3>1
      <3>3. QED
        BY <1>a, <3>2 DEF Rewind, HeapOK
    <2>2. h.ptr <= h.ptr
      BY <1>a, HeapSizes, ClientBounds DEF HeapOK
    <2>3. QED
      BY <1>5, <1>a, <2>1, <2>2
         DEF BeginCompile, IInv, TypeOK, Tiling, CompileInv, HeldBlocksLive
  <1>6. CASE CommitCompile
    BY <1>6, <1>a, ResetOK
       DEF CommitCompile, IInv, TypeOK, Tiling, CompileInv, HeldBlocksLive
  <1>7. CASE AbortCompile
    <2>1. compiling /\ before.ptr <= h.ptr /\ before = Rewind(h, before.ptr)
      BY <1>7 DEF AbortCompile, IInv, CompileInv
    <2>2. before.ptr \in STRING_POOL_SLOTS .. HEAP_SIZE
      BY <1>a DEF HeapOK
    <2>3. h' = before
      BY <1>7, <1>a, <2>1, <2>2, HeapSizes, ClientBounds
         DEF AbortCompile, heap_rollback, HeapOK
    <2>4. refs' = [o \in Offsets |-> IF o < before.ptr THEN refs[o] ELSE 0]
      BY <1>7 DEF AbortCompile
    <2>5. refs' \in [Offsets -> 0 .. MaxRefs]
      BY <1>a, <2>4, HeapSizes, ClientBounds
    <2>6. HeldBlocksLive'
      BY <2>1, <2>3, <2>4 DEF IInv, HeldBlocksLive, Rewind
    <2>7. QED
      BY <1>7, <1>a, <2>3, <2>5, <2>6, ResetOK
         DEF AbortCompile, IInv, TypeOK, Tiling, CompileInv
  <1>8. CASE Reset
    <2>1. refs' \in [Offsets -> 0 .. MaxRefs]
      BY <1>8, HeapSizes, ClientBounds DEF Reset, NoRefs
    <2>2. HeldBlocksLive'
      BY <1>8 DEF Reset, HeldBlocksLive, NoRefs
    <2>3. QED
      BY <1>8, <1>a, <2>1, <2>2, ResetOK
         DEF Reset, IInv, TypeOK, Tiling, CompileInv
  <1>9. CASE UNCHANGED vars
    BY <1>9
       DEF vars, IInv, TypeOK, Tiling, HeldBlocksLive, CompileInv
  <1>10. QED
    BY <1>1, <1>2, <1>3, <1>4, <1>5, <1>6, <1>7, <1>8, <1>9 DEF Next

LEMMA IInvariant == Spec => []IInv
  BY InitInv, NextInv, PTL DEF Spec

(* Every state of the heap, of its ghosts and of the savepoint is well     *)
(* formed: heap.c never moves s_heap_ptr outside its buffer.               *)
THEOREM TypeCorrect == Spec => []TypeOK
  BY IInvariant, PTL DEF IInv

(* The used part of the heap is always tiled by its blocks. *)
THEOREM TilingCorrect == Spec => []Tiling
  BY IInvariant, PTL DEF IInv

(* A block somebody holds is never taken back, whatever the order of       *)
(* retains, releases, vanished holders, failed compiles and resets.        *)
THEOREM HeldBlocksLiveCorrect == Spec => []HeldBlocksLive
  BY IInvariant, PTL DEF IInv

(* Rolling back the line being compiled always restores the heap exactly. *)
THEOREM RollbackExactCorrect == Spec => []RollbackExact
  <1>1. IInv => RollbackExact
    BY HeapSizes, ClientBounds
       DEF IInv, TypeOK, CompileInv, RollbackExact, heap_rollback, HeapOK
  <1>2. QED
    BY <1>1, IInvariant, PTL

-----------------------------------------------------------------------------
(* The refinement of Allocator.                                            *)

(* The step of the allocator each step of the heap stands for. *)
LEMMA StepKeepsPromise ==
  IInv /\ IInv' /\ [Next]_vars => [Promise!Next]_Live
  <1> SUFFICES ASSUME IInv, IInv', [Next]_vars
               PROVE  Promise!Next \/ Live' = Live
    OBVIOUS
  <1>a. /\ HeapOK(h) /\ Tiled(h)
        /\ refs \in [Offsets -> 0 .. MaxRefs]
        /\ DOMAIN h.hdr \subseteq Offsets
    BY DEF IInv, TypeOK, Tiling, HeapOK
  <1>h. /\ \A d \in Offsets : refs[d] > 0 => d \in DOMAIN h.hdr
        /\ \A d \in Offsets : refs'[d] > 0 => d \in DOMAIN h'.hdr
        /\ DOMAIN h'.hdr \subseteq Offsets
    BY DEF IInv, TypeOK, HeapOK, HeldBlocksLive
  <1>i. Live = [o \in {d \in DOMAIN h.hdr : refs[d] > 0} |->
                  [size |-> HEADER_SIZE + h.hdr[o].len, refs |-> refs[o]]]
    BY <1>a, <1>h DEF Live, Size
  <1>j. Live' = [o \in {d \in DOMAIN h'.hdr : refs'[d] > 0} |->
                   [size |-> HEADER_SIZE + h'.hdr[o].len, refs |-> refs'[o]]]
    BY <1>h DEF Live, Size
  <1>b. DOMAIN Live = {d \in DOMAIN h.hdr : refs[d] > 0}
    BY <1>i, <1>j
  <1>c. \A o \in DOMAIN Live :
          Live[o] = [size |-> HEADER_SIZE + h.hdr[o].len, refs |-> refs[o]]
    BY <1>i, <1>j
  <1>e. \A o \in DOMAIN Live : /\ Live[o].size = HEADER_SIZE + h.hdr[o].len
                              /\ Live[o].refs = refs[o]
    BY <1>c
  <1>1. ASSUME NEW len \in Lens, Alloc(len) PROVE Promise!Next
    <2> DEFINE size == HEADER_SIZE + len
    <2>1. /\ h.ptr \in Offsets /\ h.ptr \notin DOMAIN h.hdr
          /\ DOMAIN h'.hdr = DOMAIN h.hdr \cup {h.ptr}
          /\ h'.hdr[h.ptr] = [rc |-> 1, len |-> len]
          /\ \A o \in DOMAIN h.hdr : h'.hdr[o] = h.hdr[o]
      BY <1>1, <1>a, AllocFacts DEF Alloc
    <2>2. refs' = [refs EXCEPT ![h.ptr] = 1]
      BY <1>1 DEF Alloc
    <2>3. Promise!Free(h.ptr, size)
      <3>1. Promise!Span(h.ptr, size) \subseteq Offsets
        BY <1>1, <2>1, HeapSizes, ClientBounds
           DEF Promise!Span, Alloc, HasRoom, Offsets
      <3>2. ASSUME NEW o \in DOMAIN Live
            PROVE  Promise!Span(o, Live[o].size)
                     \cap Promise!Span(h.ptr, size) = {}
        <4>1. o \in DOMAIN h.hdr /\ Live[o].size = HEADER_SIZE + h.hdr[o].len
          BY <1>b, <1>e
        <4>2. o + Live[o].size <= h.ptr /\ o \in Int /\ h.hdr[o].len \in Nat
          BY <4>1, <1>a, HeaderIsValid, HeapSizes, ClientBounds DEF Tiled, BlockEnd
        <4>3. h.ptr \in Int /\ size \in Int /\ Live[o].size \in Int
          BY <4>1, <4>2, <2>1, HeapSizes, ClientBounds DEF Offsets
        <4>4. QED
          BY <4>2, <4>3 DEF Promise!Span
      <3>3. QED
        BY <3>1, <3>2 DEF Promise!Free
    <2>4. DOMAIN Live' = DOMAIN Live \cup {h.ptr}
      <3>1. \A d \in DOMAIN h.hdr : refs'[d] = refs[d]
        BY <1>a, <2>1, <2>2
      <3>2. refs'[h.ptr] = 1
        BY <1>a, <2>1, <2>2
      <3>3. DOMAIN Live' = {d \in DOMAIN h'.hdr : refs'[d] > 0}
        BY <1>i, <1>j
      <3>4. QED
        BY <1>b, <2>1, <3>1, <3>2, <3>3
    <2>5. Live' = [o \in DOMAIN Live \cup {h.ptr} |->
                     IF o = h.ptr THEN [size |-> size, refs |-> 1]
                     ELSE Live[o]]
      <3>1. Live' = [o \in DOMAIN Live' |->
                       [size |-> HEADER_SIZE + h'.hdr[o].len,
                        refs |-> refs'[o]]]
        BY <1>i, <1>j
      <3>2. HEADER_SIZE + h'.hdr[h.ptr].len = size /\ refs'[h.ptr] = 1
        BY <2>1, <2>2, <1>a
      <3>3. \A o \in DOMAIN Live :
              /\ o # h.ptr
              /\ Live[o] = [size |-> HEADER_SIZE + h'.hdr[o].len,
                            refs |-> refs'[o]]
        BY <1>a, <1>b, <1>c, <2>1, <2>2
      <3>4. QED
        BY <2>4, <3>1, <3>2, <3>3
    <2>6. Promise!Obtain(size)
      BY <2>1, <2>3, <2>5 DEF Promise!Obtain
    <2>7. QED
      BY <2>6 DEF Promise!Next
  <1>2. ASSUME NEW off \in Offsets, Retain(off) PROVE Promise!Next
    <2>1. off \in DOMAIN h.hdr /\ off \in DOMAIN Live
      BY <1>2, <1>a, <1>b DEF Retain, IInv, HeldBlocksLive
    <2>2. /\ DOMAIN h'.hdr = DOMAIN h.hdr
          /\ \A o \in DOMAIN h.hdr : h'.hdr[o].len = h.hdr[o].len
      BY <1>2, <1>a, <2>1, RetainFacts DEF Retain
    <2>3. refs' = [refs EXCEPT ![off] = refs[off] + 1] /\ refs[off] > 0
      BY <1>2, <1>a, HeapSizes, ClientBounds DEF Retain
    <2>4. refs[off] + 1 > 0 /\ \A o \in Offsets : refs[o] \in Int
      BY <1>a, <2>3, HeapSizes, ClientBounds
    <2>5. DOMAIN Live' = DOMAIN Live
      <3>1. DOMAIN Live' = {d \in DOMAIN h'.hdr : refs'[d] > 0}
        BY <1>i, <1>j
      <3>2. QED
        BY <1>a, <1>b, <2>2, <2>3, <2>4, <3>1
    <2>6. Live' = [Live EXCEPT ![off].refs = Live[off].refs + 1]
      <3>1. Live' = [o \in DOMAIN Live |->
                       [size |-> HEADER_SIZE + h.hdr[o].len,
                        refs |-> refs'[o]]]
        BY <1>b, <2>2, <2>5, <1>i, <1>j
      <3>2. \A o \in DOMAIN Live :
              refs'[o] = IF o = off THEN refs[o] + 1 ELSE refs[o]
        BY <1>a, <1>b, <2>3
      <3>3. [Live[off] EXCEPT !.refs = Live[off].refs + 1] =
              [size |-> HEADER_SIZE + h.hdr[off].len, refs |-> refs[off] + 1]
        BY <1>c, <2>1
      <3>4. Live' = [o \in DOMAIN Live |->
                       IF o = off
                       THEN [Live[off] EXCEPT !.refs = Live[off].refs + 1]
                       ELSE Live[o]]
        BY <1>c, <3>1, <3>2, <3>3
      <3>5. QED
        BY <2>1, <3>4, <1>i, <1>j
    <2>7. QED
      BY <2>1, <2>6 DEF Promise!Next, Promise!Hold
  <1>d. ASSUME NEW off \in Offsets, refs[off] > 0,
               refs' = [refs EXCEPT ![off] = refs[off] - 1],
               off \in DOMAIN h.hdr,
               \A o \in DOMAIN h.hdr : o # off =>
                  o \in DOMAIN h'.hdr /\ h'.hdr[o].len = h.hdr[o].len,
               DOMAIN h'.hdr \subseteq DOMAIN h.hdr,
               refs[off] # 1 => /\ off \in DOMAIN h'.hdr
                                /\ h'.hdr[off].len = h.hdr[off].len
        PROVE  Promise!Next
    <2>1. off \in DOMAIN Live /\ refs[off] \in Nat /\ Live[off].refs = refs[off]
      <3>1. off \in DOMAIN Live
        BY <1>b, <1>d
      <3>2. refs[off] \in Nat
        BY <1>a, HeapSizes, ClientBounds
      <3>3. QED
        BY <1>e, <3>1, <3>2
    <2>2. \A o \in Offsets :
            refs'[o] = IF o = off THEN refs[off] - 1 ELSE refs[o]
      BY <1>a, <1>d
    <2>3. DOMAIN Live' = {d \in DOMAIN h'.hdr : refs'[d] > 0}
          /\ Live' = [o \in DOMAIN Live' |->
                        [size |-> HEADER_SIZE + h'.hdr[o].len,
                         refs |-> refs'[o]]]
      BY <1>i, <1>j
    <2>4. CASE refs[off] = 1
      <3>1. DOMAIN Live' = DOMAIN Live \ {off}
        BY <1>a, <1>b, <1>d, <2>2, <2>3, <2>4
      <3>2. \A o \in DOMAIN Live \ {off} :
              Live[o] = [size |-> HEADER_SIZE + h'.hdr[o].len,
                         refs |-> refs'[o]]
        BY <1>a, <1>b, <1>c, <1>d, <2>2
      <3>3. Live' = [o \in DOMAIN Live \ {off} |-> Live[o]]
        BY <2>3, <3>1, <3>2
      <3>4. Promise!Drop(off)
        BY <2>1, <2>4, <3>3 DEF Promise!Drop
      <3>5. QED
        BY <2>1, <3>4 DEF Promise!Next
    <2>5. CASE refs[off] # 1
      <3>1. refs[off] - 1 > 0
        BY <2>1, <2>5, <1>d
      <3>2. DOMAIN Live' = DOMAIN Live
        BY <1>a, <1>b, <1>d, <2>2, <2>3, <2>5, <3>1
      <3>3. Live' = [Live EXCEPT ![off].refs = Live[off].refs - 1]
        <4>1. \A o \in DOMAIN Live : h'.hdr[o].len = h.hdr[o].len
          BY <1>b, <1>d, <2>5
        <4>2. Live' = [o \in DOMAIN Live |->
                         [size |-> HEADER_SIZE + h.hdr[o].len,
                          refs |-> refs'[o]]]
          BY <2>3, <3>2, <4>1
        <4>3. [Live[off] EXCEPT !.refs = Live[off].refs - 1] =
                [size |-> HEADER_SIZE + h.hdr[off].len, refs |-> refs[off] - 1]
          BY <1>c, <2>1
        <4>4. Live' = [o \in DOMAIN Live |->
                         IF o = off
                         THEN [Live[off] EXCEPT !.refs = Live[off].refs - 1]
                         ELSE Live[o]]
          BY <1>a, <1>b, <1>c, <2>2, <4>2, <4>3
        <4>5. QED
          BY <2>1, <4>4, <1>i, <1>j
      <3>4. Promise!Drop(off)
        BY <2>1, <2>5, <3>3 DEF Promise!Drop
      <3>5. QED
        BY <2>1, <3>4 DEF Promise!Next
    <2>6. QED
      BY <2>4, <2>5
  <1>3. ASSUME NEW off \in Offsets, Release(off) PROVE Promise!Next
    <2>1. /\ off \in DOMAIN h.hdr /\ h.hdr[off].rc >= refs[off]
          /\ refs[off] \in Nat /\ refs[off] > 0
      BY <1>3, <1>a, HeapSizes, ClientBounds DEF Release, IInv, HeldBlocksLive
    <2>2. h.hdr[off].rc \in Nat /\ h.hdr[off].rc > 0
      BY <1>a, <2>1, HeaderIsValid, HeapSizes, ClientBounds
    <2>3. \/ /\ DOMAIN h'.hdr = DOMAIN h.hdr
             /\ \A o \in DOMAIN h.hdr : h'.hdr[o].len = h.hdr[o].len
          \/ /\ h.hdr[off].rc = 1
             /\ DOMAIN h'.hdr = DOMAIN h.hdr \ {off}
             /\ \A o \in DOMAIN h.hdr : o # off => h'.hdr[o] = h.hdr[o]
      BY <1>3, <1>a, <2>1, <2>2, ReleaseFacts DEF Release
    <2>4. refs' = [refs EXCEPT ![off] = refs[off] - 1]
      BY <1>3, <1>a DEF Release
    <2>5. refs[off] # 1 => h.hdr[off].rc # 1
      BY <2>1, <2>2
    <2>6. QED
      BY <1>d, <2>1, <2>3, <2>4, <2>5
  <1>4. ASSUME NEW off \in Offsets, Forget(off) PROVE Promise!Next
    <2>1. off \in DOMAIN h.hdr /\ refs[off] > 0
      BY <1>4, <1>a DEF Forget, IInv, HeldBlocksLive
    <2>2. refs' = [refs EXCEPT ![off] = refs[off] - 1] /\ h' = h
      BY <1>4, <1>a DEF Forget
    <2>3. QED
      BY <1>d, <2>1, <2>2
  <1>5. CASE BeginCompile \/ CommitCompile
    BY <1>5 DEF BeginCompile, CommitCompile, Live, Size
  <1>6. CASE AbortCompile
    <2> DEFINE gone == {o \in DOMAIN Live : ~(o < before.ptr)}
    <2>1. before = Rewind(h, before.ptr) /\ before.ptr <= h.ptr
      BY <1>6 DEF AbortCompile, IInv, CompileInv
    <2>2. h' = before
      BY <1>6, <2>1, HeapSizes, ClientBounds
         DEF AbortCompile, heap_rollback, IInv, TypeOK, HeapOK
    <2>3. refs' = [o \in Offsets |-> IF o < before.ptr THEN refs[o] ELSE 0]
      BY <1>6 DEF AbortCompile
    <2>4. /\ DOMAIN h'.hdr = {d \in DOMAIN h.hdr : d < before.ptr}
          /\ \A o \in DOMAIN h'.hdr : h'.hdr[o] = h.hdr[o]
      BY <2>1, <2>2 DEF Rewind
    <2>5. DOMAIN Live' = DOMAIN Live \ gone
      <3>1. DOMAIN Live' = {d \in DOMAIN h'.hdr : refs'[d] > 0}
        BY <1>i, <1>j
      <3>2. QED
        BY <1>a, <1>b, <2>3, <2>4, <3>1
    <2>6. Live' = [o \in DOMAIN Live \ gone |-> Live[o]]
      <3>1. Live' = [o \in DOMAIN Live' |->
                       [size |-> HEADER_SIZE + h'.hdr[o].len,
                        refs |-> refs'[o]]]
        BY <1>i, <1>j
      <3>2. QED
        BY <1>a, <1>b, <1>c, <2>3, <2>4, <2>5, <3>1
    <2>7. gone \in SUBSET DOMAIN Live
      OBVIOUS
    <2>8. QED
      BY <2>6, <2>7 DEF Promise!Next, Promise!Discard
  <1>7. CASE Reset
    <2>1. Live' = [o \in DOMAIN Live \ DOMAIN Live |-> Live[o]]
      BY <1>7, <1>i, <1>j DEF Reset, NoRefs, heap_reset
    <2>2. QED
      BY <2>1 DEF Promise!Next, Promise!Discard
  <1>8. CASE UNCHANGED vars
    BY <1>8 DEF vars, Live, Size
  <1>9. QED
    BY <1>1, <1>2, <1>3, <1>4, <1>5, <1>6, <1>7, <1>8 DEF Next

(* The heap implements the allocator: held blocks stay put, keep their     *)
(* size, and never overlap a block handed out later.                       *)
THEOREM KeepsPromiseCorrect == Spec => KeepsPromise
  <1>1. Init => Promise!Init
    BY DEF Init, NoRefs, Promise!Init, Live, heap_reset
  <1>2. QED
    BY <1>1, StepKeepsPromise, IInvariant, PTL
       DEF Spec, KeepsPromise, Promise!Spec
=============================================================================
