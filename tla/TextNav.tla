------------------------------ MODULE TextNav ------------------------------
(* Lines and positions in a text (src/editor/textnav.c).  A text t is a    *)
(* sequence of characters, a position p in 0 .. Len(t) stands before       *)
(* character p + 1, and lines are counted from 0.                          *)
EXTENDS Naturals, Sequences, FiniteSets

Least(a, b) == IF a < b THEN a ELSE b

IsLineStart(t, p) == p = 0 \/ t[p] = "\n"
IsLineEnd(t, p) == p = Len(t) \/ t[p + 1] = "\n"

textnav_line_start(t, p) ==
  CHOOSE q \in 0 .. p : IsLineStart(t, q) /\ \A r \in q + 1 .. p : ~IsLineStart(t, r)
textnav_line_end(t, p) ==
  CHOOSE q \in p .. Len(t) : IsLineEnd(t, q) /\ \A r \in p .. q - 1 : ~IsLineEnd(t, r)

textnav_col(t, p) == p - textnav_line_start(t, p)

textnav_line_index(t, p) == Cardinality({i \in 1 .. p : t[i] = "\n"})
textnav_line_count(t) == textnav_line_index(t, Len(t)) + 1

(* Where a line begins; past the last line, where the last one does. *)
textnav_line_at(t, line) ==
  IF line < textnav_line_count(t)
  THEN CHOOSE p \in 0 .. Len(t) : IsLineStart(t, p) /\ textnav_line_index(t, p) = line
  ELSE textnav_line_start(t, Len(t))

pos_in_line(t, start, col) == Least(start + col, textnav_line_end(t, start))

textnav_up(t, p) ==
  IF textnav_line_start(t, p) = 0 THEN p
  ELSE pos_in_line(t, textnav_line_start(t, textnav_line_start(t, p) - 1),
                   textnav_col(t, p))

textnav_down(t, p) ==
  IF textnav_line_end(t, p) = Len(t) THEN p
  ELSE pos_in_line(t, textnav_line_end(t, p) + 1, textnav_col(t, p))

(* keymap.c: n lines up or down, as the page keys go. *)
Up(t, p, n) ==
  LET up[i \in 0 .. n] == IF i = 0 THEN p ELSE textnav_up(t, up[i - 1]) IN up[n]
Down(t, p, n) ==
  LET down[i \in 0 .. n] == IF i = 0 THEN p ELSE textnav_down(t, down[i - 1])
  IN  down[n]

(* Where a key that only moves the cursor may take it. *)
Moves(t, p, page) ==
  {IF p = 0 THEN 0 ELSE p - 1, Least(p + 1, Len(t)),
   Up(t, p, 1), Down(t, p, 1), Up(t, p, page), Down(t, p, page),
   textnav_line_start(t, p), textnav_line_end(t, p)}

Inserted(t, p, ch) == SubSeq(t, 1, p) \o <<ch>> \o SubSeq(t, p + 1, Len(t))
Deleted(t, p) == SubSeq(t, 1, p - 1) \o SubSeq(t, p + 1, Len(t))
=============================================================================
