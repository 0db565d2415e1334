------------------------- MODULE PagedProgramProofs -------------------------
(***************************************************************************)
(* The paged path, for every size of the buffers and of the aux store: the *)
(* compiler's paged buffer behaves as a flat one, alone and within the     *)
(* tool chain, and a run fetches exactly the program the compiler emitted. *)
(***************************************************************************)
EXTENDS PagedProgram, SequenceTheorems, TLAPS

-----------------------------------------------------------------------------
(* The buffer.                                                             *)
USE DEF Window, Store, Parsing, Live, Frozen, InWindow, BelowCeiling

(* Types and residence are inductive together: where a byte goes depends   *)
(* on what is resident, what is resident on where the pointers are.        *)
WindowInv == WindowTypeOK /\ Resident

LEMMA InitWindowInv == WindowInit => WindowInv
  BY WindowSizes DEF WindowInit, WindowInv, WindowTypeOK, Resident

LEMMA ReverseType ==
  ASSUME NEW buf \in [Window -> Byte],
         NEW lo \in Nat, NEW hi \in 0 .. FILE_BC_SIZE
  PROVE  reverse_range(buf, lo, hi) \in [Window -> Byte]
<1>1. ASSUME NEW i \in Window, lo <= i, i < hi
      PROVE  lo + hi - 1 - i \in Window
  BY <1>1, WindowSizes
<1> QED
  BY <1>1 DEF reverse_range

(* Where the scratch and the last function's body are in the window. *)
LEMMA RotationBounds ==
  ASSUME WindowInv, bcbuf_rotate_func_into_arena
  PROVE  /\ s_arena_used - s_win_base \in Nat
         /\ func_start - s_win_base \in 0 .. FILE_BC_SIZE
         /\ bc_pos - s_win_base \in 0 .. FILE_BC_SIZE
  BY WindowSizes
  DEF WindowInv, WindowTypeOK, Resident, bcbuf_rotate_func_into_arena

LEMMA RotationType ==
  ASSUME WindowInv, bcbuf_rotate_func_into_arena
  PROVE  Rotation \in [Window -> Byte]
<1> DEFINE lo == s_arena_used - s_win_base
           from == func_start - s_win_base
           hi == bc_pos - s_win_base
<1>1. lo \in Nat /\ from \in 0 .. FILE_BC_SIZE /\ hi \in 0 .. FILE_BC_SIZE
  BY RotationBounds
<1>2. s_buf \in [Window -> Byte]
  BY DEF WindowInv, WindowTypeOK
<1>3. from \in Nat
  BY <1>1, WindowSizes
<1> HIDE DEF lo, from, hi
<1>4. reverse_range(s_buf, lo, from) \in [Window -> Byte]
  BY <1>1, <1>2, ReverseType
<1>5. reverse_range(reverse_range(s_buf, lo, from), from, hi) \in [Window -> Byte]
  BY <1>1, <1>3, <1>4, ReverseType
<1>6. reverse_range(reverse_range(reverse_range(s_buf, lo, from), from, hi), lo, hi)
        \in [Window -> Byte]
  BY <1>1, <1>5, ReverseType
<1> QED
  BY <1>6 DEF Rotation, lo, from, hi

LEMMA NextWindowInv == WindowInv /\ [WindowNext]_windowVars => WindowInv'
<1> SUFFICES ASSUME WindowInv, [WindowNext]_windowVars PROVE WindowInv'
  OBVIOUS
<1> USE WindowSizes DEF WindowInv, WindowTypeOK, Resident
<1>1. CASE Begin
  BY <1>1 DEF Begin
<1>2. ASSUME NEW b \in Byte, EmitResident(b) PROVE WindowInv'
  <2>1. bc_pos - s_win_base \in Window
    BY <1>2 DEF EmitResident
  <2> QED
    BY <1>2, <2>1 DEF EmitResident
<1>3. ASSUME NEW b \in Byte, EmitFlush(b) PROVE WindowInv'
  <2>1. aux' \in [Store -> Byte]
    <3>1. ASSUME NEW i \in Store, s_win_base <= i, i < s_arena_used
          PROVE  i - s_win_base \in Window
      BY <1>3, <3>1 DEF EmitFlush
    <3> QED
      BY <1>3, <3>1 DEF EmitFlush, Flushed
  <2>2. bc_pos - s_arena_used \in Window
    BY <1>3 DEF EmitFlush
  <2>3. Slid \in [Window -> Byte]
    <3>1. ASSUME NEW i \in Window, i < bc_pos - s_arena_used
          PROVE  Frozen + i \in Window
      BY <1>3, <3>1 DEF EmitFlush
    <3> QED
      BY <3>1 DEF Slid
  <2>4. s_buf' \in [Window -> Byte]
    BY <1>3, <2>2, <2>3 DEF EmitFlush
  <2> QED
    BY <1>3, <2>1, <2>2, <2>4 DEF EmitFlush
<1>4. CASE EmitFails
  BY <1>4 DEF EmitFails
<1>5. ASSUME NEW p \in Store, NEW lo \in Byte, NEW hi \in Byte,
             patch_jump_to_here(p, lo, hi)
      PROVE  WindowInv'
  BY <1>5 DEF patch_jump_to_here
<1>6. CASE BeginFunc
  BY <1>6 DEF BeginFunc
<1>7. CASE bcbuf_rotate_func_into_arena
  <2>1. s_buf' \in [Window -> Byte]
    BY <1>7, RotationType DEF bcbuf_rotate_func_into_arena
  <2> QED
    BY <1>7, <2>1 DEF bcbuf_rotate_func_into_arena
<1>8. CASE parser_fail \/ Finish \/ Abandon
  BY <1>8 DEF parser_fail, Finish, Abandon
<1>9. CASE UNCHANGED windowVars
  BY <1>9 DEF windowVars, compiler
<1> QED
  BY <1>1, <1>2, <1>3, <1>4, <1>5, <1>6, <1>7, <1>8, <1>9
  DEF WindowNext, Compile

LEMMA WindowInvariant == WindowSpec => []WindowInv
  BY InitWindowInv, NextWindowInv, PTL DEF WindowSpec

(* Type correctness: no pointer leaves its memory and every byte is one.   *)
THEOREM WindowTypeCorrect == WindowSpec => []WindowTypeOK
  BY WindowInvariant, PTL DEF WindowInv

(* Only finished functions are ever flushed, and what is left fits the     *)
(* buffer: a backpatch always finds its placeholder in main memory.        *)
THEOREM StaysResident == WindowSpec => []Resident
  BY WindowInvariant, PTL DEF WindowInv

-----------------------------------------------------------------------------
(* The code the two memories hold together. *)
CodeTyped ==
  /\ bc_pos \in Nat
  /\ Code \in Seq(Byte)
  /\ Len(Code) = bc_pos
  /\ DOMAIN Code = 1 .. bc_pos

LEMMA CodeIsSeq == WindowInv /\ Live => CodeTyped
<1> SUFFICES ASSUME WindowInv, Live PROVE CodeTyped
  OBVIOUS
<1>1. bc_pos \in Nat
  BY WindowSizes DEF WindowInv, WindowTypeOK
<1>2. ASSUME NEW i \in 1 .. bc_pos
      PROVE  (IF i <= s_win_base THEN aux[i - 1] ELSE s_buf[i - 1 - s_win_base])
               \in Byte
  BY <1>2, WindowSizes DEF WindowInv, WindowTypeOK, Resident
<1> QED
  BY <1>1, <1>2 DEF Code, CodeTyped

LEMMA CodeIsSeqNext == WindowInv' /\ Live' => CodeTyped'
  BY CodeIsSeq, PTL

(* A byte emitted is a byte appended, wherever it goes. *)
LEMMA AppendsByte ==
  ASSUME WindowInv, WindowInv', Live, Live', NEW b \in Byte,
         bc_pos' = bc_pos + 1,
         \A i \in 1 .. bc_pos : Code'[i] = Code[i],
         Code'[bc_pos + 1] = b
  PROVE  Code' = Append(Code, b)
<1> USE DEF CodeTyped
<1>1. Code' \in Seq(Byte) /\ Len(Code') = bc_pos + 1
  BY CodeIsSeqNext
<1>2. Append(Code, b) \in Seq(Byte) /\ Len(Append(Code, b)) = bc_pos + 1
  BY CodeIsSeq, AppendProperties
<1>3. ASSUME NEW i \in 1 .. bc_pos + 1 PROVE Code'[i] = Append(Code, b)[i]
  <2>1. CASE i = bc_pos + 1
    BY <2>1, CodeIsSeq, AppendProperties
  <2>2. CASE i \in 1 .. bc_pos
    BY <2>2, CodeIsSeq, AppendProperties
  <2> QED
    BY <2>1, <2>2, CodeIsSeq
<1> QED
  BY <1>1, <1>2, <1>3, SeqEqual

LEMMA EmitAppends ==
  ASSUME WindowInv, WindowInv', NEW b \in Byte, EmitResident(b) \/ EmitFlush(b)
  PROVE  Flat!Append1(b)
<1> USE WindowSizes DEF WindowInv, WindowTypeOK, Resident
<1>1. Live /\ Live' /\ s_arena_used' = s_arena_used /\ bc_pos' = bc_pos + 1
  BY DEF EmitResident, EmitFlush
<1>2. CASE EmitResident(b)
  <2>1. bc_pos - s_win_base \in Window
    BY <1>2 DEF EmitResident
  <2>2. ASSUME NEW i \in 1 .. bc_pos PROVE Code'[i] = Code[i]
    BY <1>2, <2>1, <2>2 DEF EmitResident, Code
  <2>3. Code'[bc_pos + 1] = b
    BY <1>2, <2>1 DEF EmitResident, Code
  <2> QED
    BY <1>1, <2>2, <2>3, AppendsByte DEF Flat!Append1, Draft, Arena
<1>3. CASE EmitFlush(b)
  <2>1. bc_pos - s_arena_used \in Window /\ Frozen \in Nat
    BY <1>3 DEF EmitFlush
  <2>6. /\ s_win_base \in Nat /\ s_arena_used \in Nat /\ bc_pos \in Nat
        /\ s_win_base <= s_arena_used /\ s_arena_used <= bc_pos
    BY <1>1
  <2>2. ASSUME NEW i \in 1 .. s_arena_used PROVE Code'[i] = Code[i]
    <3>1. Code'[i] = aux'[i - 1]
      BY <1>3, <2>2 DEF EmitFlush, Code
    <3> QED
      BY <1>3, <2>2, <3>1 DEF EmitFlush, Flushed, Code
  <2>3. ASSUME NEW i \in s_arena_used + 1 .. bc_pos PROVE Code'[i] = Code[i]
    <3>1. Code'[i] = s_buf'[i - 1 - s_arena_used]
      BY <1>3, <2>3 DEF EmitFlush, Code
    <3>2. i - 1 - s_arena_used \in Window /\ i - 1 - s_arena_used < bc_pos - s_arena_used
      BY <2>1, <2>3
    <3>3. s_buf'[i - 1 - s_arena_used] = Slid[i - 1 - s_arena_used]
      BY <1>3, <2>1, <3>2 DEF EmitFlush, Slid
    <3>4. Slid[i - 1 - s_arena_used] = s_buf[Frozen + (i - 1 - s_arena_used)]
      BY <3>2 DEF Slid
    <3>5. Frozen + (i - 1 - s_arena_used) = i - 1 - s_win_base
      BY <2>6, <2>3
    <3>6. Code[i] = s_buf[i - 1 - s_win_base]
      BY <2>6, <2>3 DEF Code
    <3> QED
      BY <3>1, <3>3, <3>4, <3>5, <3>6
  <2>4. Code'[bc_pos + 1] = b
    <3>1. Code'[bc_pos + 1] = s_buf'[bc_pos - s_arena_used]
      BY <1>3 DEF EmitFlush, Code
    <3> QED
      BY <1>3, <2>1, <3>1 DEF EmitFlush, Slid
  <2>5. \A i \in 1 .. bc_pos : Code'[i] = Code[i]
    <3>1. \A i \in 1 .. bc_pos : i \in 1 .. s_arena_used \/ i \in s_arena_used + 1 .. bc_pos
      BY <2>6
    <3> QED
      BY <2>2, <2>3, <3>1, Zenon
  <2> QED
    BY <1>1, <2>4, <2>5, AppendsByte DEF Flat!Append1, Draft, Arena
<1> QED
  BY <1>2, <1>3

LEMMA PatchPatches ==
  ASSUME WindowInv, WindowInv', NEW p \in Store, NEW lo \in Byte, NEW hi \in Byte,
         patch_jump_to_here(p, lo, hi)
  PROVE  Flat!Patch(p + 1, lo, hi) /\ p + 1 \in 1 .. Len(Draft)
<1> USE WindowSizes DEF WindowInv, WindowTypeOK, Resident, CodeTyped
<1>1. Live /\ Live' /\ UNCHANGED <<s_arena_used, s_win_base, bc_pos, aux>>
  BY DEF patch_jump_to_here
<1>2. s_arena_used <= p /\ p + 1 < bc_pos
  BY DEF patch_jump_to_here, UnitStart
<1>3. p - s_win_base \in Window /\ p + 1 - s_win_base \in Window
  BY <1>1, <1>2
<1>4. ASSUME NEW i \in 1 .. bc_pos
      PROVE  Code'[i] = [Code EXCEPT ![p + 1] = lo, ![p + 2] = hi][i]
  <2>1. Code[i] = IF i <= s_win_base THEN aux[i - 1] ELSE s_buf[i - 1 - s_win_base]
    BY <1>4 DEF Code
  <2>2. Code'[i] = IF i <= s_win_base THEN aux[i - 1] ELSE s_buf'[i - 1 - s_win_base]
    BY <1>1, <1>4 DEF Code
  <2>3. [Code EXCEPT ![p + 1] = lo, ![p + 2] = hi][i]
          = IF i = p + 2 THEN hi ELSE IF i = p + 1 THEN lo ELSE Code[i]
    BY <1>1, <1>2, <1>4, CodeIsSeq
  <2>4. CASE i <= s_win_base
    <3>1. i # p + 1 /\ i # p + 2
      BY <1>1, <1>2, <1>4, <2>4
    <3> QED
      BY <2>1, <2>2, <2>3, <2>4, <3>1
  <2>5. CASE i > s_win_base
    <3>1. i - 1 - s_win_base \in Window
      BY <1>1, <1>4, <2>5
    <3>2. s_buf' = [s_buf EXCEPT ![p - s_win_base] = lo, ![p + 1 - s_win_base] = hi]
      BY DEF patch_jump_to_here
    <3>3. s_buf'[i - 1 - s_win_base]
            = IF i = p + 2 THEN hi ELSE IF i = p + 1 THEN lo
              ELSE s_buf[i - 1 - s_win_base]
      BY <1>1, <1>3, <1>4, <3>1, <3>2
    <3>4. ~(i <= s_win_base)
      BY <1>1, <1>4, <2>5
    <3> QED
      BY <2>1, <2>2, <2>3, <3>3, <3>4
  <2> QED
    BY <1>1, <1>4, <2>4, <2>5
<1>5. Code' = [Code EXCEPT ![p + 1] = lo, ![p + 2] = hi]
  BY <1>1, <1>4, CodeIsSeq, CodeIsSeqNext DEF Code
<1>6. p + 1 > s_arena_used /\ p + 1 < Len(Code) /\ (p + 1) + 1 = p + 2
  BY <1>1, <1>2, CodeIsSeq
<1> QED
  BY <1>1, <1>5, <1>6, CodeIsSeq DEF Flat!Patch, Draft, Arena

(* What lies at i once the parts lo .. from and from .. hi of a range have *)
(* changed places.                                                         *)
Swapped(buf, lo, from, hi, i) ==
  IF i < lo \/ i >= hi THEN buf[i]
  ELSE IF i < lo + (hi - from) THEN buf[i + (from - lo)]
  ELSE buf[i - (hi - from)]

(* Three reversals turn the two parts of a range round. *)
LEMMA ReversalsRotate ==
  ASSUME NEW buf \in [Window -> Byte],
         NEW lo \in Nat, NEW from \in Nat, NEW hi \in 0 .. FILE_BC_SIZE,
         lo <= from, from <= hi, NEW i \in Window
  PROVE  reverse_range(
           reverse_range(reverse_range(buf, lo, from), from, hi), lo, hi)[i]
         = Swapped(buf, lo, from, hi, i)
<1> USE DEF Swapped
<1> DEFINE first == reverse_range(buf, lo, from)
           second == reverse_range(first, from, hi)
           third == reverse_range(second, lo, hi)
<1>1. ASSUME NEW j \in Window
      PROVE  first[j] = IF lo <= j /\ j < from THEN buf[lo + from - 1 - j]
                        ELSE buf[j]
  BY DEF reverse_range
<1>2. DOMAIN first = Window
  BY DEF reverse_range
<1>3. ASSUME NEW j \in Window
      PROVE  second[j] = IF from <= j /\ j < hi THEN first[from + hi - 1 - j]
                         ELSE first[j]
  BY <1>2 DEF reverse_range
<1>4. DOMAIN second = Window
  BY <1>2 DEF reverse_range
<1>5. third[i] = IF lo <= i /\ i < hi THEN second[lo + hi - 1 - i] ELSE second[i]
  BY <1>4 DEF reverse_range
<1> HIDE DEF first, second, third
<1>6. CASE i < lo \/ i >= hi
  <2>1. third[i] = second[i]
    BY <1>5, <1>6, WindowSizes
  <2>2. second[i] = first[i]
    BY <1>3, <1>6, WindowSizes
  <2>3. first[i] = buf[i]
    BY <1>1, <1>6, WindowSizes
  <2> QED
    BY <1>6, <2>1, <2>2, <2>3 DEF first, second, third
<1>7. CASE lo <= i /\ i < lo + (hi - from)
  <2>1. lo + hi - 1 - i \in Window /\ from <= lo + hi - 1 - i /\ lo + hi - 1 - i < hi
    BY <1>7, WindowSizes
  <2>2. from + hi - 1 - (lo + hi - 1 - i) = i + (from - lo)
    OBVIOUS
  <2>3. i + (from - lo) \in Window /\ i + (from - lo) >= from
    BY <1>7, WindowSizes
  <2>4. third[i] = first[i + (from - lo)]
    BY <1>3, <1>5, <1>7, <2>1, <2>2
  <2> QED
    BY <1>1, <1>7, <2>3, <2>4 DEF first, second, third
<1>8. CASE lo + (hi - from) <= i /\ i < hi
  <2>1. lo + hi - 1 - i \in Window /\ lo <= lo + hi - 1 - i /\ lo + hi - 1 - i < from
    BY <1>8, WindowSizes
  <2>2. lo + from - 1 - (lo + hi - 1 - i) = i - (hi - from)
    OBVIOUS
  <2>3. third[i] = first[lo + hi - 1 - i]
    BY <1>3, <1>5, <1>8, <2>1
  <2>4. third[i] = buf[i - (hi - from)]
    BY <1>1, <2>1, <2>2, <2>3
  <2> QED
    BY <1>8, <2>4 DEF first, second, third
<1> QED
  BY <1>6, <1>7, <1>8

LEMMA RotationFreezes ==
  ASSUME WindowInv, WindowInv', bcbuf_rotate_func_into_arena
  PROVE  Flat!Freeze(func_start) /\ func_start \in 0 .. Len(Draft)
<1> USE WindowSizes DEF WindowInv, WindowTypeOK, Resident, CodeTyped
<1>1. /\ Live /\ Live' /\ UNCHANGED <<s_win_base, bc_pos, aux>>
      /\ s_arena_used' = s_arena_used + bc_pos - func_start
      /\ s_win_base <= s_arena_used /\ s_arena_used <= func_start
      /\ func_start < bc_pos /\ func_start \in Nat
  BY DEF bcbuf_rotate_func_into_arena
<1> DEFINE lo == s_arena_used - s_win_base
           from == func_start - s_win_base
           hi == bc_pos - s_win_base
           size == bc_pos - func_start
<1>2. lo \in Nat /\ from \in Nat /\ hi \in 0 .. FILE_BC_SIZE /\ lo <= from /\ from <= hi
  BY <1>1
<1>3. s_buf \in [Window -> Byte] /\ s_buf' = Rotation
  BY DEF bcbuf_rotate_func_into_arena
<1>4. ASSUME NEW j \in Window
      PROVE  s_buf'[j] = IF j < lo \/ j >= hi THEN s_buf[j]
                         ELSE IF j < lo + (hi - from) THEN s_buf[j + (from - lo)]
                         ELSE s_buf[j - (hi - from)]
  <2>1. s_buf'[j] = reverse_range(
           reverse_range(reverse_range(s_buf, lo, from), from, hi), lo, hi)[j]
    BY <1>3 DEF Rotation
  <2>2. from <= hi /\ hi \in 0 .. FILE_BC_SIZE /\ lo \in Nat /\ from \in Nat /\ lo <= from
    BY <1>2
  <2> HIDE DEF lo, from, hi
  <2>3. reverse_range(
           reverse_range(reverse_range(s_buf, lo, from), from, hi), lo, hi)[j]
          = Swapped(s_buf, lo, from, hi, j)
    BY <1>3, <2>2, ReversalsRotate
  <2> QED
    BY <2>1, <2>3 DEF Swapped
<1>5. ASSUME NEW i \in 1 .. bc_pos
      PROVE  Code'[i] = IF i <= s_arena_used THEN Code[i]
                        ELSE IF i <= s_arena_used + size
                        THEN Code[i + func_start - s_arena_used]
                        ELSE Code[i - size]
  <2>1. CASE i <= s_win_base
    BY <1>1, <1>5, <2>1 DEF Code
  <2>2. CASE i > s_win_base
    <3>1. i - 1 - s_win_base \in Window
      BY <1>1, <1>2, <1>5, <2>2
    <3>2. Code'[i] = s_buf'[i - 1 - s_win_base]
      BY <1>1, <1>5, <2>2 DEF Code
    <3>3. CASE i <= s_arena_used
      <4>1. s_buf'[i - 1 - s_win_base] = s_buf[i - 1 - s_win_base]
        BY <1>1, <1>4, <3>1, <3>3
      <4> QED
        BY <1>1, <1>5, <2>2, <3>2, <3>3, <4>1 DEF Code
    <3>4. CASE s_arena_used < i /\ i <= s_arena_used + size
      <4>1. /\ ~(i - 1 - s_win_base < lo \/ i - 1 - s_win_base >= hi)
            /\ i - 1 - s_win_base < lo + (hi - from)
            /\ i - 1 - s_win_base + (from - lo)
                  = (i + func_start - s_arena_used) - 1 - s_win_base
            /\ i + func_start - s_arena_used \in 1 .. bc_pos
            /\ i + func_start - s_arena_used > s_win_base
        BY <1>1, <1>5, <3>4
      <4>2. Code'[i] = s_buf[(i + func_start - s_arena_used) - 1 - s_win_base]
        BY <1>4, <3>1, <3>2, <4>1
      <4>3. Code[i + func_start - s_arena_used]
              = s_buf[(i + func_start - s_arena_used) - 1 - s_win_base]
        BY <4>1 DEF Code
      <4> QED
        BY <1>1, <3>4, <4>2, <4>3
    <3>5. CASE i > s_arena_used + size
      <4>1. /\ ~(i - 1 - s_win_base < lo \/ i - 1 - s_win_base >= hi)
            /\ ~(i - 1 - s_win_base < lo + (hi - from))
            /\ i - 1 - s_win_base - (hi - from) = (i - size) - 1 - s_win_base
            /\ i - size \in 1 .. bc_pos
            /\ i - size > s_win_base
        BY <1>1, <1>5, <3>5
      <4>2. Code'[i] = s_buf[(i - size) - 1 - s_win_base]
        BY <1>4, <3>1, <3>2, <4>1
      <4>3. Code[i - size] = s_buf[(i - size) - 1 - s_win_base]
        BY <4>1 DEF Code
      <4> QED
        BY <1>1, <3>5, <4>2, <4>3
    <3> QED
      BY <1>1, <1>5, <3>3, <3>4, <3>5
  <2> QED
    BY <1>1, <1>5, <2>1, <2>2
<1>6. Len(Code) = bc_pos /\ DOMAIN Code' = 1 .. bc_pos
  BY <1>1, CodeIsSeq, CodeIsSeqNext
<1>7. Code' = Flat!Rotated(func_start)
  <2>1. Flat!Rotated(func_start) =
          [i \in 1 .. bc_pos |->
             IF i <= s_arena_used THEN Code[i]
             ELSE IF i <= s_arena_used + size
             THEN Code[i + func_start - s_arena_used]
             ELSE Code[i - size]]
    BY <1>1, <1>6 DEF Flat!Rotated, Draft, Arena
  <2>2. Code' = [i \in 1 .. bc_pos |-> Code'[i]]
    BY <1>1 DEF Code
  <2> QED
    BY <1>5, <2>1, <2>2
<1> QED
  BY <1>1, <1>6, <1>7, SMTT(30) DEF Flat!Freeze, Draft, Arena

(* Every step of the window is a step of a flat buffer or leaves it alone. *)
LEMMA WindowStepIsFlat ==
  WindowInv /\ WindowInv' /\ [WindowNext]_windowVars
    => [Flat!Next]_<<Draft, Arena>>
<1> SUFFICES ASSUME WindowInv, WindowInv', [WindowNext]_windowVars
             PROVE  [Flat!Next]_<<Draft, Arena>>
  OBVIOUS
<1>1. CASE Begin
  <2>1. Live' /\ bc_pos' = 0 /\ s_arena_used' = 0
    BY <1>1 DEF Begin
  <2>2. Code' \in Seq(Byte) /\ Len(Code') = 0
    BY <2>1, CodeIsSeqNext DEF CodeTyped
  <2>3. Code' = <<>>
    BY <2>2, EmptySeq
  <2> QED
    BY <2>1, <2>3 DEF Flat!Next, Flat!Clear, Draft, Arena
<1>2. CASE EmitFails \/ parser_fail \/ Abandon
  <2>1. ~Live'
    BY <1>2 DEF EmitFails, parser_fail, Abandon
  <2> QED
    BY <2>1 DEF Flat!Next, Flat!Clear, Draft, Arena
<1>3. ASSUME NEW b \in Byte, EmitResident(b) \/ EmitFlush(b)
      PROVE  [Flat!Next]_<<Draft, Arena>>
  BY <1>3, EmitAppends DEF Flat!Next
<1>4. ASSUME NEW p \in Store, NEW lo \in Byte, NEW hi \in Byte,
             patch_jump_to_here(p, lo, hi)
      PROVE  [Flat!Next]_<<Draft, Arena>>
  BY <1>4, PatchPatches DEF Flat!Next
<1>5. CASE BeginFunc \/ Finish
  <2>1. /\ Live /\ Live'
        /\ UNCHANGED <<s_buf, aux, s_win_base, s_arena_used, bc_pos>>
    BY <1>5 DEF BeginFunc, Finish
  <2> QED
    BY <2>1 DEF Draft, Arena, Code
<1>6. CASE bcbuf_rotate_func_into_arena
  BY <1>6, RotationFreezes DEF Flat!Next
<1>7. CASE UNCHANGED windowVars
  BY <1>7 DEF windowVars, compiler, Draft, Arena, Code
<1> QED
  BY <1>1, <1>2, <1>3, <1>4, <1>5, <1>6, <1>7 DEF WindowNext, Compile

(* Implementation: flushing, sliding and rotating never show: the window   *)
(* holds what a flat buffer would hold.                                    *)
THEOREM ImplementsFlatCode == WindowSpec => KeepsCode
<1>1. WindowInit => Flat!Init
  BY DEF WindowInit, Flat!Init, Draft, Arena
<1> QED
  BY <1>1, WindowStepIsFlat, WindowInvariant, PTL
  DEF WindowSpec, KeepsCode, Flat!Spec

-----------------------------------------------------------------------------
(* The tool chain.                                                         *)
HIDE DEF Parsing, Frozen, InWindow, BelowCeiling
Position == 0 .. AUX_BC_MAX
Phase == {"launcher", "compile", "write", "load", "run"}

FileTyped ==
  /\ file \in [there : BOOLEAN, header : {<<>>} \cup (Position \X Position),
               body : Seq(Byte), tail : BOOLEAN]
  /\ program \in [code : Seq(Byte), start : Position]
  /\ Len(program.code) \in Position

(* However a write ended, what is in the file is the beginning of the      *)
(* program it was opened for, and a file with a tail holds all of it.      *)
FileHolds ==
  /\ file.header # <<>> => bc_len = Len(program.code) /\ program_start = program.start
  /\ file.header = <<>> => file.body = <<>>
  /\ Len(file.body) <= Len(program.code)
  /\ \A i \in 1 .. Len(file.body) : file.body[i] = program.code[i]
  /\ file.tail => file.header # <<>> /\ Len(file.body) = Len(program.code)

FileInv == FileTyped /\ FileHolds

RunnerTyped ==
  /\ bcwin_buf \in [0 .. BC_WINDOW - 1 -> Byte]
  /\ bcwin_base \in Position \cup {65535}
  /\ bcwin_len \in 0 .. BC_WINDOW
  /\ vm_pc \in Position
  /\ mapped \in BOOLEAN

(* Outside the Compiler nothing is compiled, and a stream starts at 0. *)
PhaseInv ==
  /\ phase \in Phase
  /\ off \in Position
  /\ phase \notin {"compile", "write"} => status = "idle"
  /\ phase \in {"launcher", "compile"} => off = 0

(* The stream stands at a position of the flushed part, or at the end. *)
WriteInv ==
  phase = "write" =>
    /\ status = "done"
    /\ program = [code |-> Code, start |-> s_arena_used]
    /\ ~file.tail
    /\ off = Len(file.body)
    /\ off <= s_win_base \/ off = bc_pos

(* What is staged is what has been read of the file. *)
LoadInv ==
  phase = "load" =>
    /\ off <= Len(file.body)
    /\ \A i \in 0 .. off - 1 : aux[i] = file.body[i + 1]

(* The whole program is staged, and the window shows a part of it; once    *)
(* it is mapped, the instruction at vm_pc is in that part.                 *)
RunInv ==
  phase = "run" =>
    /\ file.tail
    /\ \A i \in 0 .. bc_len - 1 : aux[i] = program.code[i + 1]
    /\ \A i \in 0 .. bcwin_len - 1 :
         /\ bcwin_base + i < bc_len
         /\ bcwin_buf[i] = program.code[bcwin_base + i + 1]
    /\ mapped => vm_pc < bc_len /\ InstructionMapped

IInv == /\ WindowInv /\ FileInv /\ RunnerTyped /\ PhaseInv
        /\ WriteInv /\ LoadInv /\ RunInv

-----------------------------------------------------------------------------
LEMMA InitIInv == Init => IInv
<1> SUFFICES ASSUME Init PROVE IInv
  OBVIOUS
<1>1. WindowInv
  BY InitWindowInv DEF Init
<1>2. FileInv
  BY WindowSizes
  DEF Init, Absent, NoProgram, FileInv, FileTyped, FileHolds, Position
<1>3. RunnerTyped
  <2>1. mapped \in BOOLEAN
    BY Zenon DEF Init
  <2> QED
    BY <2>1, WindowSizes, PagedSizes DEF Init, RunnerTyped, Position
<1>4. PhaseInv
  BY WindowSizes DEF Init, WindowInit, PhaseInv, Phase, Position
<1> QED
  BY <1>1, <1>2, <1>3, <1>4 DEF Init, IInv, WriteInv, LoadInv, RunInv

(* Deleting the file, or failing to, leaves a consistent disk. *)
LEMMA DeleteKeepsFileInv == FileInv /\ pf_delete => FileInv'
<1> SUFFICES ASSUME FileInv, pf_delete PROVE FileInv'
  OBVIOUS
<1>1. CASE file' = Absent /\ program' = NoProgram
  BY <1>1, WindowSizes
  DEF Absent, NoProgram, FileInv, FileTyped, FileHolds, Position
<1>2. CASE UNCHANGED disk
  BY <1>2 DEF disk, FileInv, FileTyped, FileHolds, bc_len, program_start
<1> QED
  BY <1>1, <1>2 DEF pf_delete

LEMMA DiskKeepsFileInv == FileInv /\ UNCHANGED disk => FileInv'
  BY DEF disk, FileInv, FileTyped, FileHolds, bc_len, program_start

LEMMA FreshWindowInv ==
  ASSUME WindowInv, Fresh("idle") \/ Fresh("parsing"), UNCHANGED aux
  PROVE  WindowInv'
  BY WindowSizes DEF Fresh, WindowInv, WindowTypeOK, Resident

(* Another program starts from its own memory: all it needs is the disk. *)
LEMMA ChainKeepsIInv ==
  ASSUME WindowInv, NEW next \in {"launcher", "load"}, Chain(next),
         UNCHANGED aux, FileInv'
  PROVE  IInv'
<1>1. WindowInv'
  BY FreshWindowInv DEF Chain
<1>2. RunnerTyped'
  <2>1. mapped' \in BOOLEAN
    <3>1. mapped' = FALSE
      BY DEF Chain
    <3> QED
      BY ONLY <3>1, Zenon
  <2> QED
    BY <2>1, WindowSizes, PagedSizes DEF Chain, RunnerTyped, Position
<1>3. PhaseInv'
  BY WindowSizes DEF Chain, Fresh, PhaseInv, Phase, Position
<1>4. WriteInv' /\ RunInv'
  BY DEF Chain, WriteInv, RunInv
<1>5. LoadInv'
  <2>1. off' = 0
    BY DEF Chain
  <2>2. Len(file'.body) \in Nat
    BY DEF FileInv, FileTyped
  <2> QED
    BY <2>1, <2>2 DEF LoadInv
<1> QED
  BY <1>1, <1>2, <1>3, <1>4, <1>5 DEF IInv

(* The Compiler's steps. *)
LEMMA ChainCompilerKeepsIInv == IInv /\ ChainCompiler => IInv'
<1> SUFFICES ASSUME IInv, ChainCompiler PROVE IInv'
  OBVIOUS
<1>1. FileInv'
  BY DeleteKeepsFileInv DEF IInv, ChainCompiler
<1>2. CASE phase' = "compile" /\ Fresh("parsing")
  <2>1. WindowInv'
    BY <1>2, FreshWindowInv DEF IInv, ChainCompiler
  <2>2. RunnerTyped'
    BY DEF IInv, ChainCompiler, runner, RunnerTyped
  <2>3. PhaseInv'
    BY <1>2 DEF IInv, ChainCompiler, PhaseInv, Phase
  <2> QED
    BY <1>1, <1>2, <2>1, <2>2, <2>3 DEF IInv, WriteInv, LoadInv, RunInv
<1>3. CASE UNCHANGED <<phase, compiler>>
  <2>1. WindowInv'
    BY <1>3 DEF IInv, ChainCompiler, WindowInv, WindowTypeOK, Resident, compiler
  <2>2. RunnerTyped'
    BY DEF IInv, ChainCompiler, runner, RunnerTyped
  <2>3. PhaseInv'
    BY <1>3 DEF IInv, ChainCompiler, PhaseInv, compiler
  <2>4. phase' = "launcher"
    BY <1>3 DEF ChainCompiler
  <2> QED
    BY <1>1, <2>1, <2>2, <2>3, <2>4 DEF IInv, WriteInv, LoadInv, RunInv
<1> QED
  BY <1>2, <1>3 DEF ChainCompiler

LEMMA CompileStepKeepsIInv == IInv /\ CompileStep => IInv'
<1> SUFFICES ASSUME IInv, CompileStep PROVE IInv'
  OBVIOUS
<1>1. WindowInv'
  BY NextWindowInv DEF IInv, CompileStep, WindowNext
<1>2. FileInv'
  BY DiskKeepsFileInv DEF IInv, CompileStep
<1>3. RunnerTyped'
  BY DEF IInv, CompileStep, runner, RunnerTyped
<1>4. PhaseInv' /\ phase' = "compile"
  BY DEF IInv, CompileStep, PhaseInv
<1> QED
  BY <1>1, <1>2, <1>3, <1>4 DEF IInv, WriteInv, LoadInv, RunInv

LEMMA OpenOutputKeepsIInv == IInv /\ OpenOutput => IInv'
<1> SUFFICES ASSUME IInv, OpenOutput PROVE IInv'
  OBVIOUS
<1>1. CodeTyped /\ UNCHANGED windowVars /\ Live
  BY CodeIsSeq DEF IInv, OpenOutput
<1>2. WindowInv'
  BY <1>1 DEF IInv, WindowInv, WindowTypeOK, Resident, windowVars, compiler
<1>3. file'.body = <<>> /\ file'.header = <<>> /\ file'.tail = FALSE
  BY DEF OpenOutput, Created, Absent
<1>4. FileInv'
  <2>1. bc_pos \in Position /\ s_arena_used \in Position
    BY DEF IInv, WindowInv, WindowTypeOK, Position
  <2>2. FileTyped'
    <3>1. file' = [there |-> TRUE, header |-> <<>>, body |-> <<>>, tail |-> FALSE]
      BY DEF OpenOutput, Created, Absent
    <3>2. program' = [code |-> Code, start |-> s_arena_used]
      BY DEF OpenOutput
    <3>3. Code \in Seq(Byte) /\ Len(Code) \in Position
      BY <1>1, <2>1 DEF CodeTyped
    <3> QED
      BY <2>1, <3>1, <3>2, <3>3 DEF FileTyped
  <2> QED
    BY <1>1, <1>3, <2>1, <2>2
    DEF OpenOutput, CodeTyped, FileInv, FileHolds, Position
<1>5. RunnerTyped'
  BY DEF IInv, OpenOutput, runner, RunnerTyped
<1>6. PhaseInv' /\ off' = 0 /\ phase' = "write" /\ status' = "done"
  BY DEF IInv, OpenOutput, PhaseInv, Phase, windowVars, compiler
<1>7. WriteInv'
  <2>1. Code' = Code /\ s_arena_used' = s_arena_used /\ s_win_base' \in Nat
    BY <1>1 DEF IInv, WindowInv, WindowTypeOK, windowVars, compiler, Code
  <2> QED
    BY <1>3, <1>6, <2>1 DEF OpenOutput, WriteInv
<1> QED
  BY <1>2, <1>4, <1>5, <1>6, <1>7 DEF IInv, LoadInv, RunInv

LEMMA WriteHeaderKeepsIInv == IInv /\ WriteHeader => IInv'
<1> SUFFICES ASSUME IInv, WriteHeader PROVE IInv'
  OBVIOUS
<1>1. WindowInv'
  BY DEF IInv, WriteHeader, WindowInv, WindowTypeOK, Resident, windowVars, compiler
<1>2. CodeTyped
  BY CodeIsSeq DEF IInv, WriteHeader, WriteInv
<1>3. /\ program.code = Code /\ program.start = s_arena_used
      /\ bc_pos \in Position /\ s_arena_used \in Position
  BY DEF IInv, WriteHeader, WriteInv, WindowInv, WindowTypeOK, Position
<1>4. /\ file'.header = <<bc_pos, s_arena_used>> /\ file'.body = file.body
      /\ file'.tail = file.tail /\ file'.there = file.there
      /\ file.body = <<>> /\ ~file.tail
  BY DEF IInv, FileInv, FileTyped, FileHolds, WriteHeader, WriteInv
<1>5. FileTyped'
  BY <1>3 DEF IInv, FileInv, FileTyped, WriteHeader
<1>6. FileHolds'
  BY <1>2, <1>3, <1>4
  DEF IInv, FileInv, FileHolds, WriteHeader, CodeTyped, bc_len, program_start
<1>7. RunnerTyped'
  BY DEF IInv, WriteHeader, runner, RunnerTyped
<1>8. PhaseInv'
  BY DEF IInv, WriteHeader, PhaseInv, windowVars, compiler
<1>9. WriteInv'
  BY <1>4 DEF IInv, WriteHeader, WriteInv, windowVars, compiler, Code
<1> QED
  BY <1>1, <1>5, <1>6, <1>7, <1>8, <1>9
  DEF IInv, FileInv, WriteHeader, LoadInv, RunInv

LEMMA CodeAt ==
  ASSUME NEW k \in 1 .. bc_pos
  PROVE  Code[k] = IF k <= s_win_base THEN aux[k - 1] ELSE s_buf[k - 1 - s_win_base]
  BY DEF Code

(* A finite stretch of bytes as a sequence. *)
LEMMA StretchIsSeq ==
  ASSUME NEW n \in Nat, NEW f, DOMAIN f = 1 .. n, f = [i \in 1 .. n |-> f[i]],
         \A i \in 1 .. n : f[i] \in Byte
  PROVE  f \in Seq(Byte) /\ Len(f) = n
  OBVIOUS

LEMMA LeastBounds ==
  ASSUME NEW a \in Nat, NEW b \in Nat
  PROVE  /\ Least(a, b) \in Nat /\ Least(a, b) <= a /\ Least(a, b) <= b
         /\ a > 0 /\ b > 0 => Least(a, b) > 0
         /\ Least(a, b) \in {a, b}
  BY DEF Least

(* What is written next are the bytes of the program that follow.          *)
LEMMA NextChunkFollows ==
  ASSUME IInv, Writing
  PROVE  /\ NextChunk \in Seq(Byte)
         /\ Len(NextChunk) \in 1 .. bc_pos - off
         /\ off + Len(NextChunk) <= s_win_base \/ off + Len(NextChunk) = bc_pos
         /\ \A i \in 1 .. Len(NextChunk) : NextChunk[i] = program.code[off + i]
<1>1. /\ WindowTypeOK /\ status = "done" /\ program.code = Code
      /\ off \in Nat /\ off < bc_pos
      /\ off <= s_win_base \/ off = bc_pos
  BY DEF IInv, WindowInv, WriteInv, PhaseInv, Position, Writing
<1>2. /\ s_win_base \in Nat /\ bc_pos \in Position /\ s_win_base <= bc_pos
      /\ bc_pos - s_win_base <= FILE_BC_SIZE
  BY <1>1, WindowSizes DEF IInv, WindowInv, WindowTypeOK, Resident, Position
<1>3. CASE off < s_win_base
  <2> DEFINE n == Least(s_win_base - off, SWB_CHUNK)
  <2>1. n \in Nat /\ 1 <= n /\ off + n <= s_win_base
    BY <1>1, <1>2, <1>3, PagedSizes DEF Least
  <2>2. NextChunk = [i \in 1 .. n |-> aux[off + i - 1]]
    BY <1>3 DEF NextChunk
  <2> HIDE DEF n
  <2>3. ASSUME NEW i \in 1 .. n
        PROVE  aux[off + i - 1] \in Byte /\ aux[off + i - 1] = Code[off + i]
    <3>1. off + i \in 1 .. bc_pos /\ off + i <= s_win_base /\ off + i - 1 \in Store
      BY <1>1, <1>2, <2>1, WindowSizes DEF Position
    <3>2. aux[off + i - 1] \in Byte
      BY <1>1, <3>1 DEF WindowTypeOK
    <3>3. Code[off + i] = aux[(off + i) - 1]
      BY <3>1, CodeAt
    <3> QED
      BY <1>1, <2>1, <3>2, <3>3
  <2>4. NextChunk \in Seq(Byte) /\ Len(NextChunk) = n
    BY <2>1, <2>2, <2>3, StretchIsSeq
  <2>5. \A i \in 1 .. n : NextChunk[i] = program.code[off + i]
    BY <1>1, <2>2, <2>3
  <2>6. Len(NextChunk) \in 1 .. bc_pos - off /\ off + Len(NextChunk) <= s_win_base
    BY <1>1, <1>2, <2>1, <2>4 DEF Position
  <2> QED
    BY <2>4, <2>5, <2>6
<1>4. CASE ~(off < s_win_base)
  <2> DEFINE n == bc_pos - s_win_base
  <2>1. n \in Nat /\ 1 <= n /\ off = s_win_base /\ n <= FILE_BC_SIZE
    BY <1>1, <1>2, <1>4 DEF Position
  <2>2. NextChunk = [i \in 1 .. n |-> s_buf[i - 1]]
    BY <1>4 DEF NextChunk
  <2>5. off + n = bc_pos
    BY <1>1, <1>2, <2>1 DEF Position
  <2> HIDE DEF n
  <2>3. ASSUME NEW i \in 1 .. n
        PROVE  s_buf[i - 1] \in Byte /\ s_buf[i - 1] = Code[off + i]
    <3>1. off + i \in 1 .. bc_pos /\ ~(off + i <= s_win_base) /\ i - 1 \in Window
          /\ off + i - 1 - s_win_base = i - 1
      BY <1>1, <1>2, <2>1, <2>5, WindowSizes DEF Position
    <3>2. s_buf[i - 1] \in Byte
      BY <1>1, <3>1 DEF WindowTypeOK
    <3>3. Code[off + i] = s_buf[(off + i) - 1 - s_win_base]
      BY <3>1, CodeAt
    <3> QED
      BY <1>1, <1>2, <2>1, <3>1, <3>2, <3>3
  <2>4. NextChunk \in Seq(Byte) /\ Len(NextChunk) = n
    BY <2>1, <2>2, <2>3, StretchIsSeq
  <2>6. \A i \in 1 .. n : NextChunk[i] = program.code[off + i]
    BY <1>1, <2>2, <2>3
  <2>7. Len(NextChunk) \in 1 .. bc_pos - off /\ off + Len(NextChunk) = bc_pos
    BY <1>1, <1>2, <2>1, <2>4, <2>5 DEF Position
  <2> QED
    BY <2>4, <2>6, <2>7
<1> QED
  BY <1>3, <1>4

(* A file stays the beginning of its program when bytes that follow are    *)
(* put behind it.                                                          *)
LEMMA AppendedFileInv ==
  ASSUME FileInv, file.header # <<>>, ~file.tail,
         NEW chunk \in Seq(Byte),
         Len(file.body) + Len(chunk) <= Len(program.code),
         \A i \in 1 .. Len(chunk) : chunk[i] = program.code[Len(file.body) + i],
         file' = [file EXCEPT !.body = @ \o chunk], UNCHANGED program
  PROVE  FileInv' /\ Len(file'.body) = Len(file.body) + Len(chunk)
<1> DEFINE old == file.body
<1>1. old \in Seq(Byte) /\ Len(old) \in Nat /\ Len(chunk) \in Nat
      /\ Len(program.code) \in Nat
  BY DEF FileInv, FileTyped
<1>2. /\ file'.body = old \o chunk /\ file'.header = file.header
      /\ file'.tail = file.tail /\ file'.there = file.there
  BY DEF FileInv, FileTyped
<1>3. old \o chunk \in Seq(Byte) /\ Len(old \o chunk) = Len(old) + Len(chunk)
  BY <1>1, ConcatProperties
<1>4. FileTyped'
  BY <1>3 DEF FileInv, FileTyped
<1>5. ASSUME NEW i \in 1 .. Len(old \o chunk)
      PROVE  (old \o chunk)[i] = program.code[i]
  <2>1. CASE i <= Len(old)
    <3>1. i \in 1 .. Len(old)
      BY <1>1, <1>3, <2>1
    <3>2. (old \o chunk)[i] = old[i]
      BY <1>1, <3>1, ConcatProperties
    <3> QED
      BY <3>1, <3>2 DEF FileInv, FileHolds
  <2>2. CASE i > Len(old)
    <3>1. i - Len(old) \in 1 .. Len(chunk) /\ Len(old) + (i - Len(old)) = i
      BY <1>1, <1>3, <2>2
    <3>2. (old \o chunk)[i] = chunk[i - Len(old)]
      BY <1>1, <1>3, <2>2, ConcatProperties
    <3> QED
      BY <3>1, <3>2
  <2> QED
    BY <1>1, <1>3, <2>1, <2>2
<1>6. FileHolds'
  BY <1>2, <1>3, <1>5 DEF FileInv, FileHolds, bc_len, program_start
<1> QED
  BY <1>2, <1>3, <1>4, <1>6 DEF FileInv

LEMMA WriteChunkKeepsIInv == IInv /\ WriteChunk => IInv'
<1> SUFFICES ASSUME IInv, WriteChunk PROVE IInv'
  OBVIOUS
<1>1. /\ Writing /\ UNCHANGED <<windowVars, phase, program, runner>>
      /\ file' = [file EXCEPT !.body = @ \o NextChunk]
      /\ off' = off + Len(NextChunk)
  BY DEF WriteChunk
<1>2. /\ phase = "write" /\ status = "done" /\ ~file.tail /\ file.header # <<>>
      /\ off = Len(file.body) /\ program.code = Code
  BY <1>1 DEF IInv, WriteInv, Writing
<1>3. CodeTyped /\ off \in Nat /\ bc_pos \in Position
  BY <1>2, CodeIsSeq DEF IInv, PhaseInv, Position, WindowInv, WindowTypeOK
<1>4. FileInv' /\ Len(file'.body) = off'
  <2>1. Len(file.body) + Len(NextChunk) <= Len(program.code)
    BY <1>1, <1>2, <1>3, NextChunkFollows DEF CodeTyped
  <2> QED
    BY <1>1, <1>2, <2>1, NextChunkFollows, AppendedFileInv DEF IInv
<1>5. WindowInv'
  BY <1>1 DEF IInv, WindowInv, WindowTypeOK, Resident, windowVars, compiler
<1>6. RunnerTyped'
  BY <1>1 DEF IInv, runner, RunnerTyped
<1>7. PhaseInv'
  <2>1. off' \in Position
    BY <1>1, <1>3, NextChunkFollows, WindowSizes DEF Position
  <2> QED
    BY <1>1, <1>2, <2>1 DEF IInv, PhaseInv, windowVars, compiler
<1>8. WriteInv'
  <2>1. off' <= s_win_base \/ off' = bc_pos
    BY <1>1, NextChunkFollows
  <2>2. ~file'.tail
    BY <1>1, <1>2 DEF IInv, FileInv, FileTyped
  <2>3. Code' = Code
    BY <1>1 DEF windowVars, compiler, Code
  <2> QED
    BY <1>1, <1>2, <1>4, <2>1, <2>2, <2>3
    DEF IInv, WriteInv, windowVars, compiler
<1> QED
  BY <1>1, <1>2, <1>4, <1>5, <1>6, <1>7, <1>8 DEF IInv, LoadInv, RunInv

(* The steps that end in another program. *)
LEMMA WriteTailKeepsIInv == IInv /\ WriteTail => IInv'
<1> SUFFICES ASSUME IInv, WriteTail PROVE IInv'
  OBVIOUS
<1>1. /\ phase = "write" /\ file.header # <<>> /\ Len(file.body) = bc_pos
      /\ file' = [file EXCEPT !.tail = TRUE] /\ UNCHANGED <<aux, program>>
  BY DEF WriteTail
<1>2. Len(program.code) = bc_pos
  BY <1>1, CodeIsSeq DEF IInv, WriteInv, CodeTyped
<1>3. FileInv'
  <2>1. file'.body = file.body /\ file'.header = file.header
        /\ file'.there = file.there
    BY <1>1 DEF IInv, FileInv, FileTyped
  <2>2. FileTyped'
    BY <1>1 DEF IInv, FileInv, FileTyped
  <2> QED
    BY <1>1, <1>2, <2>1, <2>2 DEF IInv, FileInv, FileHolds, bc_len, program_start
<1> QED
  BY <1>1, <1>3, ChainKeepsIInv DEF IInv, WriteTail

LEMMA WriteErrorKeepsIInv == IInv /\ WriteError => IInv'
<1> SUFFICES ASSUME IInv, WriteError PROVE IInv'
  OBVIOUS
<1>1. FileInv'
  <2>1. CASE UNCHANGED file
    BY <2>1, DiskKeepsFileInv DEF IInv, WriteError, disk
  <2>2. ASSUME Writing, NEW n \in 1 .. Len(NextChunk) - 1,
               file' = [file EXCEPT !.body = @ \o SubSeq(NextChunk, 1, n)]
        PROVE  FileInv'
    <3>1. /\ ~file.tail /\ file.header # <<>> /\ off = Len(file.body)
          /\ off \in Nat /\ bc_pos \in Nat /\ Len(program.code) = bc_pos
      BY <2>2, CodeIsSeq
      DEF IInv, WriteInv, PhaseInv, Position, Writing, CodeTyped
    <3>2. NextChunk \in Seq(Byte) /\ Len(NextChunk) \in Nat /\ n \in Nat
      BY <2>2, NextChunkFollows
    <3>3. /\ SubSeq(NextChunk, 1, n) \in Seq(Byte)
          /\ Len(SubSeq(NextChunk, 1, n)) = n
          /\ \A i \in 1 .. n : SubSeq(NextChunk, 1, n)[i] = NextChunk[i]
      BY <2>2, <3>2
    <3>4. off + n <= Len(program.code)
      BY <2>2, <3>1, <3>2, NextChunkFollows
    <3>5. \A i \in 1 .. n : SubSeq(NextChunk, 1, n)[i] = program.code[off + i]
      BY <2>2, <3>2, <3>3, NextChunkFollows
    <3> QED
      BY <2>2, <3>1, <3>3, <3>4, <3>5, AppendedFileInv DEF IInv, WriteError
  <2> QED
    BY <2>1, <2>2 DEF WriteError
<1> QED
  BY <1>1, ChainKeepsIInv DEF IInv, WriteError

LEMMA EndingsKeepIInv ==
  IInv /\ (CompileError \/ CannotCreate \/ ChainRunner \/ BadImage \/ EndRun \/ Reset)
    => IInv'
<1> SUFFICES ASSUME IInv,
                    CompileError \/ CannotCreate \/ ChainRunner \/ BadImage
                      \/ EndRun \/ Reset
             PROVE  IInv'
  OBVIOUS
<1>1. (UNCHANGED disk \/ pf_delete) /\ UNCHANGED aux
      /\ (Chain("launcher") \/ Chain("load"))
  BY DEF CompileError, CannotCreate, ChainRunner, BadImage, EndRun, Reset
<1>2. FileInv'
  BY <1>1, DiskKeepsFileInv, DeleteKeepsFileInv DEF IInv
<1> QED
  BY <1>1, <1>2, ChainKeepsIInv DEF IInv

(* The Runner's steps. *)
LEMMA StageChunkKeepsIInv == IInv /\ StageChunk => IInv'
<1> SUFFICES ASSUME IInv, StageChunk PROVE IInv'
  OBVIOUS
<1> DEFINE want == Least(bc_len - off, BC_STAGE_CHUNK)
<1>1. /\ phase = "load" /\ file.header # <<>> /\ off < bc_len
      /\ Len(file.body) - off >= want
      /\ aux' = [i \in Store |-> IF off <= i /\ i < off + want
                                THEN file.body[i + 1] ELSE aux[i]]
      /\ off' = off + want
      /\ UNCHANGED <<compiler, phase, disk, runner>>
  BY DEF StageChunk
<1> HIDE DEF want
<1>2. /\ off \in Nat /\ aux \in [Store -> Byte] /\ file.body \in Seq(Byte)
      /\ Len(file.body) \in Position /\ off <= Len(file.body)
      /\ bc_len \in Nat /\ status = "idle"
  <2>1. off \in Nat /\ aux \in [Store -> Byte] /\ status = "idle"
    BY <1>1 DEF IInv, PhaseInv, WindowInv, WindowTypeOK, Position
  <2>2. file.body \in Seq(Byte) /\ Len(program.code) \in Position
    BY DEF IInv, FileInv, FileTyped
  <2>3. /\ bc_len = Len(program.code) /\ Len(file.body) <= Len(program.code)
        /\ off <= Len(file.body)
    BY <1>1 DEF IInv, FileInv, FileHolds, LoadInv
  <2> QED
    BY <2>1, <2>2, <2>3, WindowSizes DEF Position
<1>3. want \in Nat /\ off + want \in Position /\ off + want <= Len(file.body)
  <2>1. bc_len - off \in Nat /\ BC_STAGE_CHUNK \in Nat
    BY <1>1, <1>2, PagedSizes
  <2>2. want \in Nat
    BY <2>1, LeastBounds DEF want
  <2> QED
    BY <1>1, <1>2, <2>2, WindowSizes DEF Position
<1>4. aux' \in [Store -> Byte]
  <2>1. ASSUME NEW i \in Store, off <= i, i < off + want
        PROVE  file.body[i + 1] \in Byte
    <3>1. i + 1 \in 1 .. Len(file.body)
      BY <1>2, <1>3, <2>1, WindowSizes DEF Position
    <3> QED
      BY <1>2, <3>1, ElementOfSeq
  <2> QED
    BY <1>1, <1>2, <2>1
<1>5. WindowInv'
  BY <1>1, <1>2, <1>4 DEF IInv, WindowInv, WindowTypeOK, Resident, compiler
<1>6. FileInv' /\ file' = file
  BY <1>1, DiskKeepsFileInv DEF IInv, disk
<1>7. RunnerTyped'
  BY <1>1 DEF IInv, runner, RunnerTyped
<1>8. PhaseInv'
  BY <1>1, <1>2, <1>3 DEF IInv, PhaseInv, Phase, compiler
<1>9. LoadInv'
  <2>1. off' = off + want /\ off' <= Len(file'.body)
    BY <1>1, <1>3, <1>6
  <2>2. ASSUME NEW i \in 0 .. off' - 1
        PROVE  aux'[i] = file'.body[i + 1]
    <3>1. i \in Store
      BY <1>2, <1>3, <2>2, <2>1, WindowSizes DEF Position
    <3>2. aux'[i] = IF off <= i /\ i < off + want THEN file.body[i + 1] ELSE aux[i]
      BY <1>1, <3>1
    <3>3. CASE off <= i
      BY <1>2, <1>3, <1>6, <2>2, <2>1, <3>2, <3>3
    <3>4. CASE i < off
      <4>1. i \in 0 .. off - 1
        BY <1>2, <1>3, <2>2, <2>1, <3>4
      <4>2. aux[i] = file.body[i + 1]
        BY <1>1, <4>1 DEF IInv, LoadInv
      <4> QED
        BY <1>2, <1>6, <3>2, <4>1, <4>2
    <3> QED
      BY <1>2, <1>3, <2>2, <2>1, <3>3, <3>4
  <2> QED
    BY <2>2, <2>1 DEF LoadInv
<1> QED
  BY <1>1, <1>5, <1>6, <1>7, <1>8, <1>9 DEF IInv, WriteInv, RunInv

LEMMA BeginRunKeepsIInv == IInv /\ BeginRun => IInv'
<1> SUFFICES ASSUME IInv, BeginRun PROVE IInv'
  OBVIOUS
<1>1. /\ phase = "load" /\ file.header # <<>> /\ off = bc_len /\ file.tail
      /\ phase' = "run" /\ vm_pc' = program_start
      /\ bcwin_base' = 65535 /\ bcwin_len' = 0 /\ mapped' = FALSE
      /\ UNCHANGED <<windowVars, disk, off, bcwin_buf>>
  BY DEF BeginRun
<1>2. WindowInv'
  BY <1>1 DEF IInv, WindowInv, WindowTypeOK, Resident, windowVars, compiler
<1>3. FileInv' /\ file' = file /\ program' = program
  BY <1>1, DiskKeepsFileInv DEF IInv, disk
<1>4. /\ bc_len = Len(program.code) /\ Len(file.body) = Len(program.code)
      /\ program_start \in Position
  BY <1>1 DEF IInv, FileInv, FileTyped, FileHolds
<1>5. RunnerTyped'
  <2>1. mapped' \in BOOLEAN
    <3>1. mapped' = FALSE
      BY <1>1
    <3> QED
      BY ONLY <3>1, Zenon
  <2>2. bcwin_buf' \in [0 .. BC_WINDOW - 1 -> Byte] /\ BC_WINDOW \in Nat
    BY <1>1, PagedSizes DEF IInv, RunnerTyped
  <2> QED
    BY <1>1, <1>4, <2>1, <2>2 DEF RunnerTyped
<1>6. PhaseInv'
  BY <1>1 DEF IInv, PhaseInv, Phase, windowVars, compiler
<1>7. RunInv'
  <2>1. ASSUME NEW i \in 0 .. bc_len - 1 PROVE aux[i] = program.code[i + 1]
    <3>1. aux[i] = file.body[i + 1]
      BY <1>1 DEF IInv, LoadInv
    <3>2. i + 1 \in 1 .. Len(file.body)
      BY <1>4 DEF IInv, FileInv, FileTyped, Position
    <3> QED
      BY <3>1, <3>2 DEF IInv, FileInv, FileHolds
  <2>2. aux' = aux /\ bc_len' = bc_len
    BY <1>1, <1>3 DEF windowVars, bc_len
  <2> QED
    BY <1>1, <1>3, <2>1, <2>2 DEF RunInv
<1> QED
  BY <1>1, <1>2, <1>3, <1>5, <1>6, <1>7 DEF IInv, WriteInv, LoadInv

(* What holds of a run under way. *)
Running ==
  /\ bc_len = Len(program.code) /\ bc_len \in Position
  /\ vm_pc \in Nat
  /\ bcwin_base \in Nat /\ bcwin_len \in 0 .. BC_WINDOW
  /\ bcwin_buf \in [0 .. BC_WINDOW - 1 -> Byte]

LEMMA RunIsRunning == IInv /\ phase = "run" => Running
  BY WindowSizes
  DEF IInv, RunInv, FileInv, FileHolds, FileTyped, RunnerTyped, Position, Running

(* Only what the window holds and where the program is changes in a run.   *)
LEMMA RunStepKeepsIInv ==
  ASSUME IInv, phase = "run", UNCHANGED <<windowVars, phase, disk, off>>,
         RunnerTyped',
         \A i \in 0 .. bcwin_len' - 1 :
           /\ bcwin_base' + i < bc_len
           /\ bcwin_buf'[i] = program.code[bcwin_base' + i + 1],
         mapped' => vm_pc' < bc_len /\ InstructionMapped'
  PROVE  IInv'
<1>1. WindowInv'
  BY DEF IInv, WindowInv, WindowTypeOK, Resident, windowVars, compiler
<1>2. FileInv' /\ file' = file /\ program' = program
  BY DiskKeepsFileInv DEF IInv, disk
<1>3. PhaseInv'
  BY DEF IInv, PhaseInv, windowVars, compiler
<1>4. RunInv'
  <2>1. aux' = aux /\ bc_len' = bc_len
    BY <1>2 DEF windowVars, bc_len
  <2> QED
    BY <1>2, <2>1 DEF IInv, RunInv
<1> QED
  BY <1>1, <1>2, <1>3, <1>4 DEF IInv, WriteInv, LoadInv

LEMMA EnsureKeepsIInv == IInv /\ bcwin_ensure => IInv'
<1> SUFFICES ASSUME IInv, bcwin_ensure PROVE IInv'
  OBVIOUS
<1>1. /\ phase = "run" /\ ~mapped /\ vm_pc < bc_len /\ mapped' = TRUE
      /\ UNCHANGED <<windowVars, phase, disk, off, vm_pc>>
  BY DEF bcwin_ensure
<1>2. Running
  BY <1>1, RunIsRunning
<1>3. mapped' \in BOOLEAN /\ vm_pc' \in Position
  <2>1. mapped' \in BOOLEAN
    <3>1. mapped' = TRUE
      BY DEF bcwin_ensure
    <3> QED
      BY ONLY <3>1, Zenon
  <2> QED
    BY <1>1, <2>1 DEF IInv, RunnerTyped
<1>4. bc_len' = bc_len
  BY <1>1 DEF disk, bc_len
<1>5. CASE InstructionMapped /\ UNCHANGED <<bcwin_buf, bcwin_base, bcwin_len>>
  <2>1. RunnerTyped'
    BY <1>3, <1>5 DEF IInv, RunnerTyped
  <2>2. vm_pc' < bc_len /\ InstructionMapped'
    BY <1>1, <1>4, <1>5 DEF InstructionMapped
  <2>3. \A i \in 0 .. bcwin_len - 1 :
           /\ bcwin_base + i < bc_len
           /\ bcwin_buf[i] = program.code[bcwin_base + i + 1]
    BY <1>1 DEF IInv, RunInv
  <2> QED
    BY <1>1, <1>5, <2>1, <2>2, <2>3, RunStepKeepsIInv
<1>6. ASSUME ~InstructionMapped PROVE IInv'
  <2> DEFINE got == Least(bc_len - vm_pc, BC_WINDOW)
  <2>1. /\ bcwin_len' = got /\ bcwin_base' = vm_pc
        /\ bcwin_buf' = [i \in 0 .. BC_WINDOW - 1 |->
                           IF i < got THEN aux[vm_pc + i] ELSE bcwin_buf[i]]
    BY <1>6 DEF bcwin_ensure
  <2>2. /\ got \in Nat /\ got <= BC_WINDOW /\ vm_pc + got <= bc_len
        /\ got \in {bc_len - vm_pc, BC_WINDOW}
    <3>1. bc_len - vm_pc \in Nat /\ BC_WINDOW \in Nat
      BY <1>1, <1>2, PagedSizes DEF Running, Position
    <3> HIDE DEF got
    <3>2. got \in Nat /\ got <= bc_len - vm_pc /\ got <= BC_WINDOW
          /\ got \in {bc_len - vm_pc, BC_WINDOW}
      BY <3>1, LeastBounds DEF got
    <3> QED
      BY <1>2, <3>2 DEF Running, Position
  <2> HIDE DEF got
  <2>3. ASSUME NEW i \in Nat, i < got
        PROVE  /\ vm_pc + i < bc_len /\ vm_pc + i \in Store
               /\ aux[vm_pc + i] = program.code[vm_pc + i + 1]
    <3>1. vm_pc + i \in 0 .. bc_len - 1 /\ vm_pc + i \in Store
      BY <1>2, <2>2, <2>3, WindowSizes DEF Running, Position
    <3> QED
      BY <1>1, <1>2, <3>1 DEF IInv, RunInv, Running, Position
  <2>4. bcwin_buf' \in [0 .. BC_WINDOW - 1 -> Byte]
    <3>1. ASSUME NEW i \in 0 .. BC_WINDOW - 1
          PROVE  (IF i < got THEN aux[vm_pc + i] ELSE bcwin_buf[i]) \in Byte
      <4>1. CASE i < got
        BY <2>3, <4>1 DEF IInv, WindowInv, WindowTypeOK
      <4>2. CASE ~(i < got)
        BY <1>2, <4>2 DEF Running
      <4> QED
        BY <4>1, <4>2
    <3> QED
      BY <2>1, <3>1
  <2>5. RunnerTyped'
    BY <1>1, <1>2, <1>3, <2>1, <2>2, <2>4, PagedSizes
    DEF IInv, RunnerTyped
  <2>6. ASSUME NEW i \in 0 .. bcwin_len' - 1
        PROVE  /\ bcwin_base' + i < bc_len
               /\ bcwin_buf'[i] = program.code[bcwin_base' + i + 1]
    <3>1. i \in Nat /\ i < got /\ i \in 0 .. BC_WINDOW - 1
      BY <2>1, <2>2, <2>6, PagedSizes
    <3> QED
      BY <2>1, <2>3, <3>1
  <2>7. vm_pc' < bc_len /\ InstructionMapped'
    BY <1>1, <1>2, <1>4, <2>1, <2>2, PagedSizes
    DEF InstructionMapped, Running, Position, MaxInstr
  <2> QED
    BY <1>1, <2>5, <2>6, <2>7, RunStepKeepsIInv
<1> QED
  BY <1>5, <1>6 DEF bcwin_ensure

LEMMA ExecuteKeepsIInv == IInv /\ Execute => IInv'
<1> SUFFICES ASSUME IInv, Execute PROVE IInv'
  OBVIOUS
<1>1. /\ phase = "run" /\ vm_pc' \in 0 .. bc_len /\ mapped' = FALSE
      /\ UNCHANGED <<windowVars, phase, disk, off, bcwin_buf, bcwin_base, bcwin_len>>
  BY DEF Execute
<1>2. RunnerTyped'
  <2>1. mapped' \in BOOLEAN
    <3>1. mapped' = FALSE
      BY DEF Execute
    <3> QED
      BY ONLY <3>1, Zenon
  <2>2. vm_pc' \in Position
    BY <1>1, RunIsRunning, WindowSizes DEF Running, Position
  <2> QED
    BY <1>1, <2>1, <2>2 DEF IInv, RunnerTyped
<1>3. \A i \in 0 .. bcwin_len' - 1 :
        /\ bcwin_base' + i < bc_len
        /\ bcwin_buf'[i] = program.code[bcwin_base' + i + 1]
  BY <1>1 DEF IInv, RunInv
<1> QED
  BY <1>1, <1>2, <1>3, RunStepKeepsIInv

LEMMA NextIInv == IInv /\ [Next]_vars => IInv'
<1>1. IInv /\ UNCHANGED vars => IInv'
  BY DEF vars, disk, runner, windowVars, compiler, IInv, WindowInv, WindowTypeOK,
         Resident, FileInv, FileTyped, FileHolds, RunnerTyped, PhaseInv, WriteInv,
         LoadInv, RunInv, Code, bc_len, program_start, InstructionMapped
<1> QED
  BY <1>1, ChainCompilerKeepsIInv, CompileStepKeepsIInv, OpenOutputKeepsIInv,
     WriteHeaderKeepsIInv, WriteChunkKeepsIInv, WriteTailKeepsIInv,
     WriteErrorKeepsIInv, EndingsKeepIInv, StageChunkKeepsIInv, BeginRunKeepsIInv,
     EnsureKeepsIInv, ExecuteKeepsIInv
  DEF Next

LEMMA PagedInvariant == Spec => []IInv
  BY InitIInv, NextIInv, PTL DEF Spec

(* Type correctness: no counter, stream or window leaves its memory in the *)
(* Compiler or the Runner, wherever the chain between them breaks off.     *)
THEOREM PagedTypeCorrect == Spec => []TypeOK
<1>1. IInv => TypeOK
  <2> SUFFICES ASSUME IInv PROVE TypeOK
    OBVIOUS
  <2>1. file.there \in BOOLEAN /\ file.tail \in BOOLEAN
    BY Zenon DEF IInv, FileInv, FileTyped
  <2>2. /\ file.header \in {<<>>} \cup (Position \X Position)
        /\ file.body \in Seq(Byte)
        /\ program.code \in Seq(Byte) /\ program.start \in Position
        /\ Len(program.code) \in Position
    BY DEF IInv, FileInv, FileTyped
  <2>3. Len(file.body) <= AUX_BC_MAX
    BY <2>2, WindowSizes DEF IInv, FileInv, FileHolds, Position
  <2> QED
    BY <2>1, <2>2, <2>3
    DEF IInv, WindowInv, RunnerTyped, PhaseInv, Phase, Position, TypeOK
<1> QED
  BY <1>1, PagedInvariant, PTL

(* Residence holds in the Compiler's memory whatever program runs next and *)
(* however the last compile ended.                                         *)
THEOREM PagedStaysResident == Spec => []Resident
<1>1. IInv => Resident
  BY DEF IInv, WindowInv
<1> QED
  BY <1>1, PagedInvariant, PTL

(* The paged path is transparent: the instruction a run is about to        *)
(* execute is in the window, byte for byte as the compiler emitted it,     *)
(* through flush, stream, stage and page, whatever failed before.          *)
THEOREM FetchesTheProgram == Spec => []FetchesProgram
<1>1. IInv => FetchesProgram
  <2> SUFFICES ASSUME IInv, phase = "run"
               PROVE  /\ bc_len = Len(program.code) /\ program_start = program.start
                      /\ mapped =>
                           \A pc \in vm_pc .. Least(vm_pc + MaxInstr, bc_len) - 1 :
                             /\ pc - bcwin_base \in 0 .. bcwin_len - 1
                             /\ bcwin_buf[pc - bcwin_base] = program.code[pc + 1]
    BY DEF FetchesProgram
  <2>1. bc_len = Len(program.code) /\ program_start = program.start
    BY DEF IInv, RunInv, FileInv, FileHolds
  <2>2. Running
    BY RunIsRunning
  <2>3. ASSUME mapped, NEW pc \in vm_pc .. Least(vm_pc + MaxInstr, bc_len) - 1
        PROVE  /\ pc - bcwin_base \in 0 .. bcwin_len - 1
               /\ bcwin_buf[pc - bcwin_base] = program.code[pc + 1]
    <3>1. vm_pc < bc_len /\ InstructionMapped
      BY <2>3 DEF IInv, RunInv
    <3>2. vm_pc <= pc /\ pc < vm_pc + MaxInstr /\ pc < bc_len /\ pc \in Nat
      <4>1. vm_pc + MaxInstr \in Nat /\ bc_len \in Nat
        BY <2>2 DEF Running, Position, MaxInstr
      <4>2. /\ Least(vm_pc + MaxInstr, bc_len) <= vm_pc + MaxInstr
            /\ Least(vm_pc + MaxInstr, bc_len) <= bc_len
            /\ Least(vm_pc + MaxInstr, bc_len) \in Nat
        BY <4>1, LeastBounds
      <4> QED
        BY <2>2, <2>3, <4>1, <4>2 DEF Running
    <3>3. pc - bcwin_base \in 0 .. bcwin_len - 1
      BY <2>2, <3>1, <3>2 DEF InstructionMapped, Running, Position, MaxInstr
    <3>4. bcwin_base + (pc - bcwin_base) + 1 = pc + 1
      BY <2>2, <3>2 DEF Running
    <3> QED
      BY <3>3, <3>4 DEF IInv, RunInv
  <2> QED
    BY <2>1, <2>3
<1> QED
  BY <1>1, PagedInvariant, PTL

(* Implementation: the programs that chain over the compiler's memory, and *)
(* the stages that write the aux store it flushes to, are no more than a   *)
(* cleared buffer to the compiler's flat view.                             *)
THEOREM PagedImplementsFlatCode == Spec => KeepsCode
<1>1. Init => Flat!Init
  BY DEF Init, WindowInit, Flat!Init, Draft, Arena
<1>2. IInv /\ IInv' /\ [Next]_vars => [Flat!Next]_<<Draft, Arena>>
  <2> SUFFICES ASSUME IInv, IInv', [Next]_vars
               PROVE  [Flat!Next]_<<Draft, Arena>>
    OBVIOUS
  <2>1. ASSUME Draft' = <<>>, Arena' = 0 PROVE [Flat!Next]_<<Draft, Arena>>
    BY <2>1 DEF Flat!Next, Flat!Clear
  <2>2. ASSUME NEW next \in {"launcher", "load"}, Chain(next)
        PROVE  [Flat!Next]_<<Draft, Arena>>
    BY <2>1, <2>2 DEF Chain, Fresh, Draft, Arena
  <2>3. CASE UNCHANGED windowVars
    BY <2>3 DEF windowVars, compiler, Draft, Arena, Code
  <2>4. CASE ChainCompiler
    <3>1. ASSUME Fresh("parsing") PROVE [Flat!Next]_<<Draft, Arena>>
      <4>1. Live' /\ bc_pos' = 0 /\ s_arena_used' = 0
        BY <3>1 DEF Fresh
      <4>2. Code' \in Seq(Byte) /\ Len(Code') = 0
        BY <4>1, CodeIsSeqNext DEF IInv, CodeTyped
      <4>3. Code' = <<>>
        BY <4>2, EmptySeq
      <4> QED
        BY <2>1, <4>1, <4>3 DEF Draft, Arena
    <3>2. UNCHANGED aux
      BY <2>4 DEF ChainCompiler
    <3> QED
      BY <2>3, <2>4, <3>1, <3>2 DEF ChainCompiler, windowVars
  <2>5. CASE CompileStep
    BY <2>5, WindowStepIsFlat DEF IInv, CompileStep, WindowNext
  <2>6. CASE StageChunk
    <3>1. ~Live /\ ~Live'
      BY <2>6 DEF IInv, PhaseInv, StageChunk
    <3> QED
      BY <3>1 DEF Draft, Arena
  <2>7. CASE OpenOutput \/ WriteHeader \/ WriteChunk \/ BeginRun
             \/ bcwin_ensure \/ Execute
    BY <2>3, <2>7
    DEF OpenOutput, WriteHeader, WriteChunk, BeginRun, bcwin_ensure, Execute
  <2>8. CASE CompileError \/ CannotCreate \/ WriteTail \/ WriteError
             \/ ChainRunner \/ BadImage \/ EndRun \/ Reset
    BY <2>2, <2>8
    DEF CompileError, CannotCreate, WriteTail, WriteError, ChainRunner,
        BadImage, EndRun, Reset
  <2>9. CASE UNCHANGED vars
    BY <2>3, <2>9 DEF vars
  <2> QED
    BY <2>4, <2>5, <2>6, <2>7, <2>8, <2>9 DEF Next
<1> QED
  BY <1>1, <1>2, PagedInvariant, PTL DEF Spec, KeepsCode, Flat!Spec
=============================================================================
