------------------------------- MODULE Screen -------------------------------
(***************************************************************************)
(* The screen of the editor (src/editor/editor.c): the frame it draws      *)
(* after each key, by one of two fast paths where it thinks it can, and    *)
(* the cursor it pokes into video RAM while it waits for the next key.     *)
(* All state is as of that wait.  What files hold and how they are read    *)
(* and written is Editor's matter; here a transfer only ends somehow.      *)
(***************************************************************************)
EXTENDS Layout

CONSTANTS
  COLS,            (* ED_COLS: 40.                                         *)
  WIDE,            (* ED_COLS_MAX on the //e: 80.                          *)
  THIRD,           (* Rows this far apart adjoin in video RAM: 8.          *)
  Cap,             (* GAPBUF_CAP.                                          *)
  Texts,           (* What the files hold.                                 *)
  Keys,            (* The printable keys the user strikes.                 *)
  MaxEdits         (* Bound: characters typed, over all sessions; Return   *)
                   (* and deletions count as two.                          *)

ASSUME ScreenSizes == /\ COLS \in Nat /\ WIDE \in Nat /\ COLS < WIDE
                      /\ THIRD \in Nat /\ Cap \in Nat /\ MaxEdits \in Nat

VARIABLES
  iie,             (* The build: the //e disk's, or the II+ disk's.        *)
  phase,           (* Who has the screen.                                  *)
  ed,              (* The text and editor_main's locals, see Fresh.        *)
  s_screen,        (* As many columns as the width has.                     *)
  cur,             (* s_screen.cur_row, cur_col and cur_set.               *)
  s_prev,
  g_ed_line_row,
  s_status_stale,
  video,           (* The text page without the cursor's block.            *)
  edits,
  stray,           (* Ghost: cells poked from outside their row since it   *)
                   (* was last drawn.                                      *)
  overdrawn,       (* Ghost: since the last full frame, a line was drawn   *)
                   (* alone that takes more rows than in that frame.       *)
  dropped          (* Ghost: the text was dropped, and its lines not       *)
                   (* counted since.                                       *)

grid == <<s_screen, cur, g_ed_line_row>>
display == <<s_prev, video, s_status_stale, stray, overdrawn>>
vars == <<iie, phase, ed, grid, display, edits, dropped>>

(* At 80 columns the last one is not drawn, and is left out. *)
Cols(wide) == IF wide THEN WIDE - 1 ELSE COLS
Cells(wide) == Rows \X (0 .. Cols(wide) - 1)
Filled(wide, with) == [r \in 1 .. MSG_ROW + 1 |-> [c \in 1 .. Cols(wide) |-> with]]
Zeroed(wide) == Filled(wide, "NUL")
Cleared(wide) == Filled(wide, Blank)

Untitled == "UNTITLED"
idle_help(wide) == IF wide THEN "LEGEND 80" ELSE "LEGEND"

(* The editor's state as it takes over the screen; `cooked` is s_cooked,   *)
(* `wide` is g_width80.                                                    *)
Fresh(wide) ==
  [text |-> <<>>, pos |-> 0, top_line |-> 0, dirty |-> FALSE, title |-> Untitled,
   cooked |-> TRUE, msg |-> idle_help(wide), line_count |-> 1, wide |-> wide]

Page(e) == [text   |-> e.text,
            cols   |-> Cols(e.wide),
            expand |-> ~iie /\ e.cooked,
            count  |-> e.line_count]

Counted(e) == [e EXCEPT !.line_count = textnav_line_count(e.text)]

screen_code(e, glyph) == IF ~iie /\ e.cooked /\ glyph = "a" THEN "A" ELSE glyph

(* What no one reads before it is written. *)
Unused(wide) == [cells |-> Filled(wide, "OLD"),
                 cur   |-> [row |-> 0, col |-> 0, set |-> FALSE],
                 line_row |-> [i \in 1 .. WORK_ROWS |-> NoRow]]

Init ==
  /\ iie \in BOOLEAN
  /\ phase = "browser"
  /\ \E wide \in {FALSE, iie} :
       /\ ed = Fresh(wide)
       /\ s_screen = Unused(wide).cells
       /\ s_prev = Filled(wide, "TABLE") /\ video = Filled(wide, "BROWSER")
  /\ cur = Unused(FALSE).cur /\ g_ed_line_row = Unused(FALSE).line_row
  /\ s_status_stale = FALSE
  /\ edits = 0
  /\ stray = {} /\ overdrawn = FALSE /\ dropped = FALSE

-----------------------------------------------------------------------------
(* Drawing.                                                                *)
Codes(e, row) == [i \in DOMAIN row |-> screen_code(e, row[i])]

(* blit_diff and blit_one_row: of the given rows, those that differ from   *)
(* the frame drawn last.  `from` is what the screen and the baseline are.  *)
Blit(e, rows, cells, from, lost) ==
  LET changed == {r \in rows : cells[r + 1] # from.prev[r + 1]}
      Else(old, new) == [i \in DOMAIN cells |-> IF i - 1 \in changed THEN new[i]
                                               ELSE old[i]]
  IN  /\ s_screen' = cells
      /\ s_prev' = Else(from.prev, cells)
      /\ video' = Else(from.video, [i \in DOMAIN cells |-> Codes(e, cells[i])])
      /\ stray' = {x \in lost : x[1] \notin changed}

(* The cursor's cell, and what the cursor is made to leave there.  Past    *)
(* its row's end is the next row of the II+ build's grid, and on the //e   *)
(* what a frame of another width left; in video RAM it is the row THIRD    *)
(* below, or for the last ones no row at all.                              *)
OffRow == cur.col >= Cols(ed.wide)
CellAt == IF ~OffRow THEN s_screen[cur.row + 1][cur.col + 1]
          ELSE IF ~iie THEN s_screen[cur.row + 2][cur.col - COLS + 1] ELSE "OLD"
PokedCell == IF OffRow /\ ~ed.wide THEN <<cur.row + THIRD, cur.col - COLS>>
             ELSE <<cur.row, cur.col>>

(* read_key_blink, when the key comes. *)
Restored ==
  IF PokedCell \notin Cells(ed.wide) THEN video
  ELSE [video EXCEPT ![PokedCell[1] + 1][PokedCell[2] + 1] = screen_code(ed, CellAt)]

Strayed == stray \cup (IF OffRow THEN {PokedCell} \cap Cells(ed.wide) ELSE {})

Waiting == [prev |-> s_prev, video |-> Restored]

(* A prompt is written over the message row; invalidate_screen drops the   *)
(* baseline.                                                               *)
Prompted ==
  [prev  |-> Zeroed(ed.wide),
   video |-> [Restored EXCEPT ![MSG_ROW + 1] = Banner(Page(ed), "PROMPT")]]

-----------------------------------------------------------------------------
(* The frame for the state `e` that the last key left, drawn on `from`.    *)

(* Every row; the view moves down until the cursor is in the work area, or *)
(* its line on top.                                                        *)
Drawn(e, top) == editor_render(Page(e), top, e.pos, e.title, e.dirty, e.msg)
Settled(top, frame) == [top_line |-> top, frame |-> frame]

SettledFrame(e) ==
  LET line == textnav_line_index(e.text, e.pos)
      Choose(top, frame, below) ==
        IF frame.cur.set \/ top >= line THEN Settled(top, frame) ELSE below
      from[top \in e.top_line .. e.top_line + line] ==
        Choose(top, Drawn(e, top), from[top + 1])
  IN  from[e.top_line]

Full(e, from) ==
  \E new \in {SettledFrame(e)} :
    /\ ed' = [e EXCEPT !.top_line = new.top_line]
    /\ cur' = new.frame.cur
    /\ g_ed_line_row' = new.frame.line_row
    /\ s_status_stale' = FALSE
    /\ overdrawn' = FALSE
    /\ Blit(e, Rows, new.frame.cells, from, Strayed)

(* Where the last full frame drew the cursor's line. *)
LineIndex(e) == textnav_line_index(e.text, e.pos) - e.top_line
OnTable(e) == LineIndex(e) \in 0 .. WORK_ROWS - 1 /\ g_ed_line_row[LineIndex(e) + 1] # NoRow
SameMessage(e) == e.msg = ed.msg

ed_disp_col(e, p) ==
  LET Sum[q \in textnav_line_start(e.text, p) .. p] ==
        IF q = textnav_line_start(e.text, p) THEN 0
        ELSE Sum[q - 1] + editor_glyph_width(e.text[q], Page(e).expand)
  IN  Sum[p]

(* Mutant: any line on the II+ is taken to fill its rows. *)
OneRow_not_checked(e) == TRUE

(* On the II+, the next line must be known to start one row below. *)
OneRow(e) ==
  LET i == LineIndex(e)
  IN  iie \/ /\ i + 1 < WORK_ROWS
             /\ g_ed_line_row[i + 2] = g_ed_line_row[i + 1] + 1

LocatedRow(e) ==
  g_ed_line_row[LineIndex(e) + 1] + (ed_disp_col(e, e.pos) \div TextWidth(Page(e)))

CanLocate(e) ==
  /\ SameMessage(e) /\ OnTable(e) /\ OneRow(e)
  /\ LocatedRow(e) < WORK_ROWS

(* The cursor-move fast path: nothing is drawn, the cursor is placed. *)
Locate(e, from) ==
  /\ cur' = [cur EXCEPT !.row = WORK_TOP + LocatedRow(e),
                        !.col = Gutter(Page(e)) + (ed_disp_col(e, e.pos)
                                                   % TextWidth(Page(e)))]
  /\ ed' = e
  /\ s_status_stale' = TRUE
  /\ s_prev' = from.prev /\ video' = from.video /\ stray' = Strayed
  /\ UNCHANGED <<s_screen, g_ed_line_row, overdrawn>>

(* The line with the cursor, drawn where it was. *)
Redrawn(e) ==
  editor_render_wrapped(Page(e), textnav_line_start(e.text, e.pos),
                        textnav_line_index(e.text, e.pos) + 1,
                        g_ed_line_row[LineIndex(e) + 1], e.pos)

RowsOfLine(e) == RowCount(Page(e), textnav_line_start(e.text, e.pos))

CanRedraw(e) == SameMessage(e) /\ OnTable(e) /\ Redrawn(e).cur.set

(* The typing fast path: only that line's rows are drawn. *)
OverScreen(row0, rows) ==
  [i \in DOMAIN s_screen |->
     IF i - row0 \in DOMAIN rows THEN rows[i - row0] ELSE s_screen[i]]

RedrawLine(e, from) ==
  \E line \in {Redrawn(e)}, row0 \in {WORK_TOP + g_ed_line_row[LineIndex(e) + 1]} :
    /\ cur' = line.cur
    /\ ed' = e
    /\ s_status_stale' = TRUE
    /\ overdrawn' = (overdrawn \/ RowsOfLine(e) # RowsOfLine(ed))
    /\ Blit(e, row0 .. row0 + Len(line.cells) - 1, OverScreen(row0, line.cells), from, Strayed)
    /\ UNCHANGED g_ed_line_row

-----------------------------------------------------------------------------
(* Keys.                                                                   *)
Editing == phase = "editing"

Followed(e) == [e EXCEPT !.top_line = editor_scroll(e.text, e.top_line, e.pos),
                         !.msg = idle_help(e.wide)]
Still(e) == e.top_line = ed.top_line

Move ==
  /\ Editing
  /\ \E p \in Moves(ed.text, ed.pos, WORK_ROWS - 2) :
     \E e \in {Followed([ed EXCEPT !.pos = p])} :
       IF Still(e) /\ CanLocate(e) THEN Locate(e, Waiting) ELSE Full(e, Waiting)
  /\ UNCHANGED <<iie, phase, edits, dropped>>

Spend(n) == edits + n <= MaxEdits /\ edits' = edits + n

(* Rows a line of this many columns takes if it fills them. *)
RowsFilled(e, columns) ==
  IF columns = 0 THEN 1
  ELSE (columns + TextWidth(Page(e)) - 1) \div TextWidth(Page(e))

(* Mutant: an insert never moves the line onto another row. *)
Arms_always(e) == TRUE

(* The row count with the character just typed is that without one column. *)
Arms(e) ==
  LET columns == ed_disp_col(e, textnav_line_end(e.text, e.pos))
  IN  RowsFilled(e, columns) = (IF columns > 1 THEN RowsFilled(e, columns - 1) ELSE 1)

(* Mutant: the buffer takes one character more than it holds. *)
Typed_beyond(ch) ==
  IF Len(ed.text) > Cap THEN ed
  ELSE [ed EXCEPT !.text = Inserted(@, ed.pos, ch), !.pos = @ + 1, !.dirty = TRUE]

(* A full buffer takes no more, but the key is treated alike. *)
Typed(ch) ==
  IF Len(ed.text) = Cap THEN ed
  ELSE [ed EXCEPT !.text = Inserted(@, ed.pos, ch), !.pos = @ + 1, !.dirty = TRUE]

Type(ch) ==
  /\ Editing /\ Spend(1)
  /\ \E e \in {Followed(Typed(ch))} :
       IF Still(e) /\ Arms(e) /\ CanRedraw(e) THEN RedrawLine(e, Waiting)
       ELSE Full(e, Waiting)
  /\ UNCHANGED <<iie, phase, dropped>>

Return ==
  /\ Editing /\ Spend(2)
  /\ Full(Counted(Followed(Typed("\n"))), Waiting)
  /\ dropped' = FALSE
  /\ UNCHANGED <<iie, phase>>

Erased ==
  IF ed.pos = 0 THEN ed
  ELSE [ed EXCEPT !.text = Deleted(@, ed.pos), !.pos = @ - 1, !.dirty = TRUE]

(* Mutant: only Return has the lines counted again. *)
Delete_not_counted ==
  /\ Editing /\ Spend(2)
  /\ Full(Followed(Erased), Waiting)
  /\ dropped' = FALSE
  /\ UNCHANGED <<iie, phase>>

Delete ==
  /\ Editing /\ Spend(2)
  /\ Full(Counted(Followed(Erased)), Waiting)
  /\ dropped' = FALSE
  /\ UNCHANGED <<iie, phase>>

(* The user pauses: ed_status_refresh_if_stale. *)
Pause ==
  /\ Editing /\ s_status_stale
  /\ s_status_stale' = FALSE
  /\ LET status == render_status(Page(ed), ed.pos, ed.title, ed.dirty)
     IN  Blit(ed, {STATUS_ROW}, [s_screen EXCEPT ![STATUS_ROW + 1] = status],
              [prev |-> s_prev, video |-> video], stray)
  /\ UNCHANGED <<iie, phase, ed, cur, g_ed_line_row, edits, overdrawn, dropped>>

-----------------------------------------------------------------------------
(* Keys that ask, save, or leave.                                          *)
Ending(result, e) == [result |-> result, ed |-> e]
Noted(e, msg) == [e EXCEPT !.msg = msg]

(* do_save, as the ways it ends. *)
do_save ==
  {Ending("saved", Noted([ed EXCEPT !.dirty = FALSE, !.title = "FILE"],
                         idle_help(ed.wide))),
   Ending("failed", Noted(ed, "WRITE ERROR"))}
  \cup (IF ed.title # Untitled THEN {}
        ELSE {Ending("failed", Noted(ed, idle_help(ed.wide)))})

(* confirm_save where the text has changed, and what follows from it. *)
Asked ==
  IF ~ed.dirty THEN {Ending("clean", ed)}
  ELSE {Ending("failed", Noted(ed, idle_help(ed.wide))), Ending("discarded", ed)}
       \cup do_save

Save ==
  /\ Editing
  /\ \E end \in do_save : Full(end.ed, Prompted)
  /\ UNCHANGED <<iie, phase, edits, dropped>>

(* The browser takes the screen back, and its tables the memory of s_prev. *)
Leave ==
  /\ phase' = "browser"
  /\ ed' = Fresh(ed.wide)
  /\ s_screen' = Unused(ed.wide).cells /\ cur' = Unused(ed.wide).cur
  /\ g_ed_line_row' = Unused(ed.wide).line_row
  /\ s_prev' = Filled(ed.wide, "TABLE") /\ video' = Filled(ed.wide, "BROWSER")
  /\ s_status_stale' = FALSE
  /\ stray' = {} /\ overdrawn' = FALSE /\ dropped' = FALSE

Quit ==
  /\ Editing
  /\ \E end \in Asked :
       IF end.result = "failed"
       THEN Full(end.ed, Prompted) /\ UNCHANGED <<phase, dropped>>
       ELSE Leave
  /\ UNCHANGED <<iie, edits>>

Run ==
  /\ Editing
  /\ \E end \in do_save :
       IF end.result = "failed"
       THEN Full(end.ed, Prompted) /\ UNCHANGED <<phase, dropped>>
       ELSE Leave
  /\ UNCHANGED <<iie, edits>>

(* Ctrl-G reads the file again in the other mode.  If it is too long for   *)
(* the buffer in that mode the text is gone; the view, the lines counted   *)
(* and the mark of a changed text stay as they are.                        *)
Reloads(e) ==
  IF e.title = Untitled THEN {Noted(e, idle_help(e.wide))}
  ELSE {Noted(e, "RELOAD ERROR"),
        Noted([e EXCEPT !.text = <<>>, !.pos = 0], "RELOAD ERROR")}
       \cup {Noted(Counted([e EXCEPT !.text = t, !.pos = 0, !.top_line = 0,
                                     !.dirty = FALSE]), idle_help(e.wide))
               : t \in Texts}

ToggleMode ==
  /\ Editing /\ ~iie
  /\ \E end \in Asked :
       IF end.result = "failed"
       THEN Full(end.ed, Prompted) /\ UNCHANGED dropped
       ELSE \E e \in Reloads([end.ed EXCEPT !.cooked = ~@]) :
              /\ Full(e, Prompted)
              /\ dropped' = (e.line_count # textnav_line_count(e.text))
  /\ UNCHANGED <<iie, phase, edits>>

(* Ctrl-W clears the screen at the other width. *)
SwitchWidth ==
  /\ Editing /\ iie
  /\ Full([ed EXCEPT !.wide = ~@], [prev |-> Zeroed(~ed.wide), video |-> Cleared(~ed.wide)])
  /\ UNCHANGED <<iie, phase, edits, dropped>>

(* editor_main up to its first key: a new text, a file, the file and the   *)
(* place that Ctrl-R left, or a file that cannot be opened.                *)
Opened(cooked) ==
  LET At(t, p) == Counted([Fresh(ed.wide) EXCEPT
        !.text = t, !.pos = p, !.top_line = editor_scroll(t, 0, p),
        !.title = "FILE", !.cooked = cooked])
      Refused == Noted([Fresh(ed.wide) EXCEPT !.cooked = cooked], "COULD NOT OPEN FILE")
  IN  {Fresh(ed.wide), Refused}
      \cup UNION {{At(t, 0), At(t, Len(t))} : t \in Texts}

Enter ==
  /\ phase = "browser" /\ phase' = "editing"
  /\ \E cooked \in {TRUE, iie} : \E e \in Opened(cooked) :
       Full(e, [prev |-> Zeroed(ed.wide), video |-> Cleared(ed.wide)])
  /\ UNCHANGED <<iie, edits, dropped>>

Next ==
  \/ Move \/ Return \/ Delete \/ Pause
  \/ \E ch \in Keys : Type(ch)
  \/ Save \/ Quit \/ Run \/ ToggleMode \/ SwitchWidth \/ Enter

Spec == Init /\ [][Next]_vars

-----------------------------------------------------------------------------
TypeOK ==
  /\ iie \in BOOLEAN /\ phase \in {"browser", "editing"}
  /\ ed.text \in Seq(Keys \cup {"a", "{", "}", "|", "\n"})
  /\ ed.pos \in 0 .. Len(ed.text) /\ Len(ed.text) <= Cap
  /\ ed.top_line \in Nat /\ ed.line_count \in Nat \ {0}
  /\ ed.wide => iie
  /\ Len(s_screen) = MSG_ROW + 1 /\ Len(s_prev) = MSG_ROW + 1
  /\ cur.row \in Rows /\ cur.col \in 0 .. WIDE - 1
  /\ \A i \in DOMAIN g_ed_line_row : g_ed_line_row[i] \in 0 .. WORK_ROWS - 1 \cup {NoRow}
  /\ stray \subseteq Cells(ed.wide)

(* What drawing everything anew would show. *)
Anew == editor_render(Page(ed), ed.top_line, ed.pos, ed.title, ed.dirty, ed.msg)

(* Cells a status row still to be refreshed or the cursor have changed. *)
Unsure ==
  stray \cup IF s_status_stale THEN {STATUS_ROW} \X (0 .. WIDE - 1) ELSE {}

Shown ==
  LET cells == Anew.cells
  IN  \A r \in Rows : \A c \in 0 .. Page(ed).cols - 1 :
        \/ <<r, c>> \in Unsure
        \/ video[r + 1][c + 1] = screen_code(ed, cells[r + 1][c + 1])

(* The screen shows the text, whichever path drew it: every cell is as a   *)
(* full frame would make it, but for a status row still to be refreshed,   *)
(* the cells the cursor strayed to, and what a line drawn over its         *)
(* neighbours hides, which needs digraphs: the row count by which the      *)
(* fast path is armed ignores the column one leaves unused.                *)
ShownIsText == Editing => (overdrawn => Page(ed).expand) /\ (overdrawn \/ Shown)

(* The cursor blinks where the next character goes: where a full frame     *)
(* would put it, or at the beginning of the next row if that is just past  *)
(* its row's end.  That is in view, unless the cursor's line alone is too  *)
(* long for the work area.                                                 *)
CursorAtText ==
  LET place == Anew.cur
  IN  Editing /\ ~overdrawn =>
        /\ \/ cur.row = place.row /\ cur.col = place.col
           \/ /\ place.col = Page(ed).cols
              /\ cur.row = place.row + 1 /\ cur.col = Gutter(Page(ed))
        /\ place.set \/ RowsOfLine(ed) > WORK_ROWS

(* The gutter fits the lines the text has. *)
LinesCounted ==
  Editing /\ ~dropped => ed.line_count = textnav_line_count(ed.text)
=============================================================================
