------------------------------ MODULE FlatCode ------------------------------
(***************************************************************************)
(* What the compiler expects of its bytecode buffer: a sequence it appends *)
(* to, whose first `arena` bytes hold finished functions and never change, *)
(* and behind which the rest may still be patched or reordered.            *)
(***************************************************************************)
EXTENDS Naturals, Sequences

CONSTANT Byte

VARIABLES draft, arena

Init == draft = <<>> /\ arena = 0

(* A new program, or the one under construction given up. *)
Clear == draft' = <<>> /\ arena' = 0

Append1(b) == draft' = Append(draft, b) /\ UNCHANGED arena

(* Two adjacent bytes behind the finished functions are rewritten. *)
Patch(p, lo, hi) ==
  /\ p > arena /\ p < Len(draft)
  /\ draft' = [draft EXCEPT ![p] = lo, ![p + 1] = hi]
  /\ UNCHANGED arena

(* With the bytes from position s + 1 on moved in front of those between   *)
(* the finished functions and s.                                           *)
Rotated(s) ==
  LET size == Len(draft) - s
  IN  [i \in 1 .. Len(draft) |->
         IF i <= arena THEN draft[i]
         ELSE IF i <= arena + size THEN draft[i + s - arena]
         ELSE draft[i - size]]

(* The function behind position s is finished. *)
Freeze(s) ==
  /\ arena <= s /\ s < Len(draft)
  /\ draft' = Rotated(s)
  /\ arena' = arena + Len(draft) - s

Next == \/ Clear
        \/ \E b \in Byte : Append1(b)
        \/ \E p \in 1 .. Len(draft), lo, hi \in Byte : Patch(p, lo, hi)
        \/ \E s \in 0 .. Len(draft) : Freeze(s)

Spec == Init /\ [][Next]_<<draft, arena>>
=============================================================================
