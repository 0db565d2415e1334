----------------------------- MODULE TextCursor -----------------------------
(***************************************************************************)
(* What the editor's text buffer promises: a text of bounded length and a  *)
(* cursor between two of its bytes, edited at the cursor.                  *)
(***************************************************************************)
EXTENDS Naturals, Sequences

CONSTANTS Bytes, Capacity

VARIABLES text, cursor

Inserted(t, p, b) ==
  [i \in 1 .. Len(t) + 1 |-> IF i <= p THEN t[i]
                             ELSE IF i = p + 1 THEN b ELSE t[i - 1]]

(* Without the byte that follows position p. *)
Removed(t, p) ==
  [i \in 1 .. Len(t) - 1 |-> IF i <= p THEN t[i] ELSE t[i + 1]]

Init == text = <<>> /\ cursor = 0

Insert(b) ==
  /\ Len(text) < Capacity
  /\ text' = Inserted(text, cursor, b)
  /\ cursor' = cursor + 1

DeleteLeft ==
  /\ cursor > 0
  /\ text' = Removed(text, cursor - 1)
  /\ cursor' = cursor - 1

DeleteRight ==
  /\ cursor < Len(text)
  /\ text' = Removed(text, cursor)
  /\ UNCHANGED cursor

Move == text' = text /\ cursor' \in 0 .. Len(text)

(* The text is replaced, the cursor in front of it. *)
Load == /\ text' \in Seq(Bytes) /\ Len(text') <= Capacity
        /\ cursor' = 0

Next == \/ \E b \in Bytes : Insert(b)
        \/ DeleteLeft \/ DeleteRight \/ Move \/ Load

Spec == Init /\ [][Next]_<<text, cursor>>
=============================================================================
