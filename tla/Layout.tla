------------------------------- MODULE Layout -------------------------------
(***************************************************************************)
(* The editor's frame (src/editor/screen.c), in the WRAP mode it uses: how *)
(* a text is laid out in the rows between the status row and the message   *)
(* row.  A frame is a sequence of rows, a row a sequence of glyphs; row    *)
(* and column numbers count from 0.  The number in a line's gutter, and    *)
(* what the status and message rows say, are one glyph each.               *)
(*                                                                         *)
(* A page is the text with what its layout depends on: the width in        *)
(* columns, whether digraphs are expanded, and the number of lines the     *)
(* gutter is wide enough for.                                              *)
(***************************************************************************)
EXTENDS TextNav, TLC

CONSTANTS
  WORK_ROWS,       (* ED_WORK_ROWS: 22.                                    *)
  BASE             (* Of line numbers: 10.  A smaller one widens the       *)
                   (* gutter after fewer lines.                            *)

ASSUME LayoutSizes == WORK_ROWS \in Nat \ {0} /\ BASE \in Nat \ {0, 1}

STATUS_ROW == 0
WORK_TOP == 1
MSG_ROW == WORK_TOP + WORK_ROWS
Rows == STATUS_ROW .. MSG_ROW
NoRow == 255

Blank == " "

expand_glyph(ch, expand) ==
  CASE expand /\ ch = "{" -> <<"<", "%">>
    [] expand /\ ch = "}" -> <<"%", ">">>
    [] expand /\ ch = "|" -> <<"?", "?", "!">>
    [] OTHER              -> <<ch>>
editor_glyph_width(ch, expand) == Len(expand_glyph(ch, expand))

u16_digits(n) ==
  LET digits[k \in 0 .. n] == IF k < BASE THEN 1 ELSE digits[k \div BASE] + 1
  IN  digits[n]
editor_gutter_width(line_count) == u16_digits(line_count) + 1
Gutter(page) == editor_gutter_width(page.count)
TextWidth(page) == page.cols - Gutter(page)

(* Keeps the cursor's line in the work area, taking each line for one row. *)
editor_scroll(t, top_line, p) ==
  LET line == textnav_line_index(t, p)
  IN  CASE line < top_line              -> line
        [] line >= top_line + WORK_ROWS -> line - WORK_ROWS + 1
        [] OTHER                        -> top_line

-----------------------------------------------------------------------------
(* One line.  Flow[p] is the text area of its rows once the glyphs before  *)
(* position p are drawn.  Glyphs of a character go to the next row         *)
(* together if they do not fit.                                            *)
LastRow(rows) == rows[Len(rows)]

Draw(rows, glyphs, text_w) ==
  IF Len(LastRow(rows)) + Len(glyphs) <= text_w
  THEN SubSeq(rows, 1, Len(rows) - 1) \o <<LastRow(rows) \o glyphs>>
  ELSE Append(rows, glyphs)

Flow(page, start, p) ==
  LET text_w == TextWidth(page)
      flow[q \in start .. p] ==
        IF q = start THEN <<<<>>>>
        ELSE Draw(flow[q - 1], expand_glyph(page.text[q], page.expand), text_w)
  IN  flow[p]

LineRows(page, start) == Flow(page, start, textnav_line_end(page.text, start))
RowCount(page, start) == Len(LineRows(page, start))

Blanks(n) == [i \in 1 .. n |-> Blank]

(* The number, right-justified, and a blank; continuation rows have none. *)
render_gutter(page, line_no, k) ==
  IF k = 1 THEN Blanks(Gutter(page) - 2) \o <<ToString(line_no), Blank>>
  ELSE Blanks(Gutter(page))

WorkRow(page, line_no, rows, k) ==
  render_gutter(page, line_no, k) \o rows[k] \o Blanks(TextWidth(page) - Len(rows[k]))

Parked(page) == [row |-> WORK_TOP, col |-> Gutter(page), set |-> FALSE]

(* Where the cursor stands in the line drawn from work row row0 down, if   *)
(* that row is in the work area.                                           *)
CursorAfter(page, before, row0) ==
  IF row0 + Len(before) - 1 < WORK_ROWS
  THEN [row |-> WORK_TOP + row0 + Len(before) - 1,
        col |-> Gutter(page) + Len(LastRow(before)), set |-> TRUE]
  ELSE Parked(page)

CursorIn(page, start, row0, pos) == CursorAfter(page, Flow(page, start, pos), row0)

(* The rows of a line from work row row0 down; what does not fit is dropped. *)
WorkRows(page, line_no, rows, row0) ==
  [k \in 1 .. Least(Len(rows), WORK_ROWS - row0) |-> WorkRow(page, line_no, rows, k)]

editor_render_wrapped(page, start, line_no, row0, pos) ==
  [cells |-> WorkRows(page, line_no, LineRows(page, start), row0),
   cur   |-> IF pos \in start .. textnav_line_end(page.text, start)
             THEN CursorIn(page, start, row0, pos) ELSE Parked(page)]

-----------------------------------------------------------------------------
(* The work area: from line top_line on, each line below the one before,   *)
(* until the area or the text ends.  `starts` is the row each begins on.   *)
Below(area, line) ==
  [cells  |-> area.cells \o line.cells,
   starts |-> Append(area.starts, Len(area.cells)),
   cur    |-> IF line.cur.set THEN line.cur ELSE area.cur]

(* The rows below the last line are blank. *)
Padded(page, area) ==
  [cells |-> area.cells \o [i \in 1 .. WORK_ROWS - Len(area.cells) |-> Blanks(page.cols)],
   cur   |-> area.cur,
   line_row |-> area.starts \o [i \in 1 .. WORK_ROWS - Len(area.starts) |-> NoRow]]

render_work_wrap(page, top_line, pos) ==
  LET Line(n, row0) ==
        editor_render_wrapped(page, textnav_line_at(page.text, n), n + 1, row0, pos)
      Extended(area, n) ==
        IF Len(area.cells) < WORK_ROWS
           /\ (n = top_line \/ n < textnav_line_count(page.text))
        THEN Below(area, Line(n, Len(area.cells)))
        ELSE area
      after[i \in 0 .. WORK_ROWS] ==
        IF i = 0 THEN [cells |-> <<>>, starts |-> <<>>, cur |-> Parked(page)]
        ELSE Extended(after[i - 1], top_line + i - 1)
  IN  Padded(page, after[WORK_ROWS])

(* A row that says one thing. *)
Banner(page, what) == [i \in 1 .. page.cols |-> what]

(* The status row: the file's name, whether it is saved, the mode          *)
(* (stamp_mode_tag), and the cursor's line; its column is left out.        *)
render_status(page, pos, title, dirty) ==
  Banner(page, ToString(<<title, dirty, page.expand,
                          textnav_line_index(page.text, pos) + 1>>))

editor_render(page, top_line, pos, title, dirty, message) ==
  [render_work_wrap(page, top_line, pos) EXCEPT
     !.cells = <<render_status(page, pos, title, dirty)>> \o @ \o <<Banner(page, message)>>]
=============================================================================
