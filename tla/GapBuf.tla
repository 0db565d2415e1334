------------------------------- MODULE GapBuf -------------------------------
(***************************************************************************)
(* src/editor/gapbuf.c: the text on both sides of a gap that follows the   *)
(* cursor.  Moving the cursor copies bytes across the gap one at a time;   *)
(* the ranges overlap when the gap is shorter than the move, so the order  *)
(* of the copies is what keeps the text, and each copy is a step here.     *)
(***************************************************************************)
EXTENDS Integers, Sequences

CONSTANTS
  Bytes,
  Cap,         (* Bytes of storage: gb->cap.                               *)
  Blank        (* The byte the storage is cleared with (BSS).              *)

ASSUME Storage == Cap \in Nat /\ Blank \in Bytes

VARIABLES
  buf,         (* gb->buf, indexed from 0.                                 *)
  gap_start,
  gap_end,
  move         (* The copy loop under way: its direction, the number k of  *)
               (* bytes to carry and the number i already carried.         *)

vars == <<buf, gap_start, gap_end, move>>

Idle == [dir |-> "none", k |-> 0, i |-> 0]

gapbuf_len == gap_start + (Cap - gap_end)

Init ==
  /\ buf = [j \in 0 .. Cap - 1 |-> Blank]
  /\ gap_start = 0 /\ gap_end = Cap
  /\ move = Idle

-----------------------------------------------------------------------------
Ready == move.dir = "none"

(* gapbuf_init: the storage is reused as it is. *)
Reinit ==
  /\ Ready
  /\ gap_start' = 0 /\ gap_end' = Cap
  /\ UNCHANGED <<buf, move>>

(* Mutant: the last byte of the gap is not kept from being overrun. *)
Insert_unchecked(b) ==
  /\ Ready /\ gap_start < Cap
  /\ buf' = [buf EXCEPT ![gap_start] = b]
  /\ gap_start' = gap_start + 1
  /\ UNCHANGED <<gap_end, move>>

Insert(b) ==
  /\ Ready /\ gap_start # gap_end
  /\ buf' = [buf EXCEPT ![gap_start] = b]
  /\ gap_start' = gap_start + 1
  /\ UNCHANGED <<gap_end, move>>

DeleteLeft ==
  /\ Ready /\ gap_start # 0
  /\ gap_start' = gap_start - 1
  /\ UNCHANGED <<buf, gap_end, move>>

DeleteRight ==
  /\ Ready /\ gap_end # Cap
  /\ gap_end' = gap_end + 1
  /\ UNCHANGED <<buf, gap_start, move>>

(* gapbuf_move_left and gapbuf_move_right: at most what there is on that   *)
(* side of the gap.                                                        *)
BeginLeft(n) ==
  /\ Ready
  /\ move' = [dir |-> "left", k |-> IF n > gap_start THEN gap_start ELSE n,
              i |-> 0]
  /\ UNCHANGED <<buf, gap_start, gap_end>>

BeginRight(n) ==
  /\ Ready
  /\ move' = [dir |-> "right", k |-> IF n > Cap - gap_end THEN Cap - gap_end
                                     ELSE n,
              i |-> 0]
  /\ UNCHANGED <<buf, gap_start, gap_end>>

(* gapbuf_move_to: the position is clamped to the text. *)
BeginMoveTo(pos) ==
  LET to == IF pos > gapbuf_len THEN gapbuf_len ELSE pos
  IN  \/ to < gap_start /\ BeginLeft(gap_start - to)
      \/ to > gap_start /\ BeginRight(to - gap_start)

Copying(dir) == move.dir = dir /\ move.i < move.k
Carried(dir) == move.dir = dir /\ move.i = move.k

(* Mutant: the bytes are carried in the order they stand in. *)
CopyLeft_from_bottom ==
  /\ Copying("left")
  /\ buf' = [buf EXCEPT ![gap_end - move.k + move.i]
                          = buf[gap_start - move.k + move.i]]
  /\ move' = [move EXCEPT !.i = move.i + 1]
  /\ UNCHANGED <<gap_start, gap_end>>

(* From the byte next to the gap outwards. *)
CopyLeft ==
  /\ Copying("left")
  /\ buf' = [buf EXCEPT ![gap_end - 1 - move.i] = buf[gap_start - 1 - move.i]]
  /\ move' = [move EXCEPT !.i = move.i + 1]
  /\ UNCHANGED <<gap_start, gap_end>>

CopyRight ==
  /\ Copying("right")
  /\ buf' = [buf EXCEPT ![gap_start + move.i] = buf[gap_end + move.i]]
  /\ move' = [move EXCEPT !.i = move.i + 1]
  /\ UNCHANGED <<gap_start, gap_end>>

EndLeft ==
  /\ Carried("left")
  /\ gap_start' = gap_start - move.k
  /\ gap_end' = gap_end - move.k
  /\ move' = Idle
  /\ UNCHANGED buf

EndRight ==
  /\ Carried("right")
  /\ gap_start' = gap_start + move.k
  /\ gap_end' = gap_end + move.k
  /\ move' = Idle
  /\ UNCHANGED buf

(* gapbuf_load: the text goes to the top of the storage. *)
Load(src) ==
  /\ Ready /\ Len(src) <= Cap
  /\ gap_start' = 0 /\ gap_end' = Cap - Len(src)
  /\ buf' = [j \in 0 .. Cap - 1 |->
               IF j >= Cap - Len(src) THEN src[j - (Cap - Len(src)) + 1]
                                      ELSE buf[j]]
  /\ UNCHANGED move

Next ==
  \/ Reinit \/ DeleteLeft \/ DeleteRight
  \/ \E b \in Bytes : Insert(b)
  \/ \E n \in 0 .. Cap + 1 : BeginLeft(n) \/ BeginRight(n) \/ BeginMoveTo(n)
  \/ CopyLeft \/ CopyRight \/ EndLeft \/ EndRight
  \/ \E n \in 0 .. Cap : \E src \in [1 .. n -> Bytes] : Load(src)

Spec == Init /\ [][Next]_vars

-----------------------------------------------------------------------------
(* gapbuf_at, for a position in the text. *)
gapbuf_at(pos) ==
  IF pos < gap_start THEN buf[pos] ELSE buf[gap_end + (pos - gap_start)]

(* Mutant: the gap is measured from the front of the storage. *)
gapbuf_serialize_from_gap(n) ==
  LET pre  == IF n < gap_start THEN n ELSE gap_start
      post == IF n - pre < Cap - gap_end THEN n - pre ELSE Cap - gap_end
  IN  [j \in 1 .. pre |-> buf[j - 1]]
        \o [j \in 1 .. post |-> buf[gap_end - gap_start + j - 1]]

(* gapbuf_serialize into n bytes: what precedes the gap, what follows it. *)
gapbuf_serialize(n) ==
  LET pre  == IF n < gap_start THEN n ELSE gap_start
      post == IF n - pre < Cap - gap_end THEN n - pre ELSE Cap - gap_end
  IN  [j \in 1 .. pre |-> buf[j - 1]] \o [j \in 1 .. post |-> buf[gap_end + j - 1]]

-----------------------------------------------------------------------------
TypeOK ==
  /\ buf \in [0 .. Cap - 1 -> Bytes]
  /\ gap_start \in 0 .. Cap /\ gap_end \in gap_start .. Cap
  /\ move \in [dir : {"none", "left", "right"}, k : 0 .. Cap, i : 0 .. Cap]
  /\ move.dir = "none"  => move = Idle
  /\ move.dir = "left"  => move.i <= move.k /\ move.k <= gap_start
  /\ move.dir = "right" => move.i <= move.k /\ move.k <= Cap - gap_end

(* The bytes in front of the gap, with the copy loop part of the way:      *)
(* those already carried count as standing on the other side.              *)
FrontLen ==
  IF move.dir = "left" THEN gap_start - move.i
  ELSE IF move.dir = "right" THEN gap_start + move.i
  ELSE gap_start

Text == [p \in 1 .. gapbuf_len |->
           IF p <= FrontLen THEN buf[p - 1] ELSE buf[p - 1 + gap_end - gap_start]]

(* Saving writes and displaying shows the same text, wherever the cursor   *)
(* is: gapbuf_serialize gives the longest part of it that fits, byte for   *)
(* byte what gapbuf_at reads.                                              *)
ReadersAgree ==
  Ready =>
    /\ \A p \in 1 .. gapbuf_len : gapbuf_at(p - 1) = Text[p]
    /\ \A n \in 0 .. gapbuf_len : gapbuf_serialize(n) = SubSeq(Text, 1, n)
    /\ gapbuf_serialize(Cap) = Text

Promise == INSTANCE TextCursor WITH
             Capacity <- Cap, text <- Text, cursor <- gap_start

(* Editing through the gap is editing a text at its cursor; carrying bytes *)
(* across the gap never changes the text, not even halfway and not even    *)
(* when the two ranges overlap.                                            *)
KeepsText == Promise!Spec
=============================================================================
