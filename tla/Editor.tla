------------------------------- MODULE Editor -------------------------------
(***************************************************************************)
(* A user's sessions with the editor (src/editor) as it is built for the   *)
(* II+ disk: open, edit, save, change mode, quit, and run, after which the *)
(* machine boots again and the launcher's note (boot_launcher.c) brings    *)
(* the user back.  The text is the one GapBuf keeps.  Every file operation *)
(* may fail where the code looks at its result.                            *)
(***************************************************************************)
EXTENDS Input, TextNav, Integers

CONSTANTS
  Files,           (* The names in use.                                    *)
  Swift,           (* Those that end in .swift.                            *)
  InitialDisks,    (* What the disk may hold when the sessions start.      *)
  Keys,            (* The printable keys the user strikes.                 *)
  Cap,             (* GAPBUF_CAP, in tokens.                               *)
  LINE_MAX,        (* The longest line fileio.c converts, in tokens.       *)
  ED_PAGE_LINES,
  MaxEvents        (* Bound: keys that change the text and errors of the   *)
                   (* disk, over all sessions.                             *)

ASSUME EditorSizes == /\ Cap \in Nat /\ LINE_MAX \in Nat \ {0}
                      /\ ED_PAGE_LINES \in Nat /\ MaxEvents \in Nat
ASSUME PrintableKeys == Keys \subseteq Token \ {"\n", "\r"}

Untitled == "untitled"

ASSUME FileNames == Swift \subseteq Files /\ Untitled \notin Files
ASSUME Disks ==
  \A d \in InitialDisks : /\ DOMAIN d \subseteq Files
                          /\ \A name \in DOMAIN d : d[name] \in Seq(Token)

VARIABLES
  phase,           (* Which program has the machine.                       *)
  disk,            (* The contents of the files that exist.                *)
  note,            (* LASTRUN, or NoNote.                                  *)
  s_fname,         (* Untitled, or the file's name.                        *)
  s_cooked,        (* Swift (digraph) mode; FALSE is raw mode.             *)
  text, cursor,
  dirty,
  failed,          (* Ghost: the last transfer of the text from or to the  *)
                   (* disk did not complete.                               *)
  last,            (* Ghost: the text Ctrl-R left and its mode, until the  *)
                   (* launcher is back; Nothing if the note was not kept.  *)
  events

session == <<s_fname, s_cooked, text, cursor, dirty, failed>>
vars == <<phase, disk, note, session, last, events>>

NoNote == [name |-> Untitled, editor |-> FALSE, cursor |-> 0]
Nothing == [text |-> <<>>, cooked |-> FALSE]

editor_path_is_swift(name) == name = Untitled \/ name \in Swift

Init ==
  /\ phase = "browser"
  /\ disk \in InitialDisks
  /\ note = NoNote
  /\ s_fname = Untitled /\ s_cooked = TRUE
  /\ text = <<>> /\ cursor = 0
  /\ dirty = FALSE /\ failed = FALSE
  /\ last = Nothing
  /\ events = 0

-----------------------------------------------------------------------------
(* fileio.c.  A text is converted line by line: `done` holds the lines     *)
(* finished, `line` the one under way and `len` how much of it was read.   *)
Reader == [done |-> <<>>, line |-> Start, len |-> 0, last_cr |-> FALSE]

NextLine(r, cr) == [Reader EXCEPT !.done = r.done \o Append(r.line.out, "\n"),
                                  !.last_cr = cr]

Whole(r) == r.done \o r.line.out

(* A line's tokens beyond LINE_MAX are dropped. *)
Fits(r) == r.len < LINE_MAX
Converted(r, s) == [r EXCEPT !.line = s, !.len = @ + 1, !.last_cr = FALSE]
Dropped(r) == [r EXCEPT !.last_cr = FALSE]

(* One byte of the loop that saves; in raw mode a line is only clamped. *)
SaveByte(r, t, cooked) ==
  IF t = "\n" THEN NextLine(r, FALSE)
  ELSE IF ~Fits(r) THEN Dropped(r)
  ELSE Converted(r, IF cooked THEN input_translate(r.line, t) ELSE Emit(r.line, t))

(* One byte of the cooked loop that loads. *)
LoadByte(r, t) ==
  IF t = "\n" /\ r.last_cr THEN Dropped(r)
  ELSE IF t \in {"\n", "\r"} THEN NextLine(r, t = "\r")
  ELSE IF ~Fits(r) THEN Dropped(r)
  ELSE Converted(r, input_untranslate(r.line, t, LINE_MAX))

(* Where the two loops are once they have read so many of a text's tokens. *)
Saving(t, cooked) ==
  LET after[i \in 0 .. Len(t)] ==
        IF i = 0 THEN Reader ELSE SaveByte(after[i - 1], t[i], cooked)
  IN  after
Loading(t) ==
  LET after[i \in 0 .. Len(t)] ==
        IF i = 0 THEN Reader ELSE LoadByte(after[i - 1], t[i])
  IN  after

Saved(t, cooked) == Whole(Saving(t, cooked)[Len(t)])
Loaded(t, cooked) == IF cooked THEN Whole(Loading(t)[Len(t)]) ELSE t

(* editor_file_load, as the ways it can end.  A read error passes for the  *)
(* end of the file.  `old` is what the buffer holds.                       *)
LoadEnd(result, t, error) == [result |-> result, text |-> t, error |-> error]

editor_file_load(d, name, cooked, old) ==
  IF name \notin DOMAIN d THEN {LoadEnd("NOTFOUND", old, FALSE)}
  ELSE {LoadEnd("NOTFOUND", old, TRUE)} \cup
       {LET t == Loaded(SubSeq(d[name], 1, k), cooked)
        IN  IF Len(t) > Cap THEN LoadEnd("TOOBIG", <<>>, k < Len(d[name]))
            ELSE LoadEnd("OK", t, k < Len(d[name]))
          : k \in 0 .. Len(d[name])}

Complete(l) == l.result = "OK" /\ ~l.error

(* The disk's errors draw on the same bound as the user's edits. *)
Spend(n) == events + n <= MaxEvents /\ events' = events + n
Cost(error) == IF error THEN 1 ELSE 0

With(name, content) ==
  [n \in DOMAIN disk \cup {name} |-> IF n = name THEN content ELSE disk[n]]
Without(name) == [n \in DOMAIN disk \ {name} |-> disk[n]]

(* editor_file_save to the file `name`.  The old file is destroyed first   *)
(* (unless the disk refuses even that), and an error leaves what has been  *)
(* written by then.                                                        *)
SaveEnd(result, name, d) == [result |-> result, name |-> name, disk |-> d]

editor_file_save(name) ==
  LET out == Saved(text, s_cooked)
  IN  {SaveEnd("saved", name, With(name, out)),
       SaveEnd("error", s_fname, disk), SaveEnd("error", s_fname, Without(name))}
      \cup {SaveEnd("error", s_fname, With(name, SubSeq(out, 1, k)))
              : k \in {0} \cup 1 .. Len(out) - 1}

(* do_save: an untitled text is given a name, or the prompt is cancelled. *)
do_save ==
  IF s_fname # Untitled THEN editor_file_save(s_fname)
  ELSE {SaveEnd("cancelled", Untitled, disk)} \cup
       UNION {editor_file_save(name) : name \in Files}

SaveEffect(e) ==
  /\ disk' = e.disk /\ s_fname' = e.name
  /\ dirty' = (dirty /\ e.result # "saved")
  /\ failed' = CASE e.result = "saved" -> FALSE
                 [] e.result = "error" -> TRUE
                 [] OTHER              -> failed
  /\ Spend(Cost(e.result = "error"))

-----------------------------------------------------------------------------
(* Entering and leaving.                                                   *)

(* Mutant: the note's cursor is taken as it is. *)
editor_main_unclamped(name, start_cursor, errors) ==
  /\ phase' = "editing"
  /\ s_cooked' = editor_path_is_swift(name)
  /\ dirty' = FALSE
  /\ IF name = Untitled
     THEN /\ s_fname' = Untitled /\ text' = <<>> /\ cursor' = 0
          /\ failed' = FALSE /\ Spend(errors)
     ELSE \E e \in editor_file_load(disk, name, editor_path_is_swift(name), <<>>) :
            /\ s_fname' = IF e.result = "OK" THEN name ELSE Untitled
            /\ text' = e.text
            /\ cursor' = start_cursor
            /\ failed' = ~Complete(e)
            /\ Spend(Cost(e.error) + errors)
  /\ UNCHANGED disk

(* Mutant: the clamp keeps the cursor off the end of the text. *)
editor_main_before_end(name, start_cursor, errors) ==
  /\ phase' = "editing"
  /\ s_cooked' = editor_path_is_swift(name)
  /\ dirty' = FALSE
  /\ IF name = Untitled
     THEN /\ s_fname' = Untitled /\ text' = <<>> /\ cursor' = 0
          /\ failed' = FALSE /\ Spend(errors)
     ELSE \E e \in editor_file_load(disk, name, editor_path_is_swift(name), <<>>) :
            /\ s_fname' = IF e.result = "OK" THEN name ELSE Untitled
            /\ text' = e.text
            /\ cursor' = IF start_cursor < Len(e.text) THEN start_cursor
                         ELSE IF e.text = <<>> THEN 0 ELSE Len(e.text) - 1
            /\ failed' = ~Complete(e)
            /\ Spend(Cost(e.error) + errors)
  /\ UNCHANGED disk

(* editor_main up to its loop. *)
editor_main(name, start_cursor, errors) ==
  /\ phase' = "editing"
  /\ s_cooked' = editor_path_is_swift(name)
  /\ dirty' = FALSE
  /\ IF name = Untitled
     THEN /\ s_fname' = Untitled /\ text' = <<>> /\ cursor' = 0
          /\ failed' = FALSE /\ Spend(errors)
     ELSE \E e \in editor_file_load(disk, name, editor_path_is_swift(name), <<>>) :
            /\ s_fname' = IF e.result = "OK" THEN name ELSE Untitled
            /\ text' = e.text
            /\ cursor' = Least(start_cursor, Len(e.text))
            /\ failed' = ~Complete(e)
            /\ Spend(Cost(e.error) + errors)
  /\ UNCHANGED disk

(* The file browser opens a file it lists, or a new one. *)
Open ==
  /\ phase = "browser"
  /\ \E name \in DOMAIN disk \cup {Untitled} : editor_main(name, 0, 0)
  /\ UNCHANGED <<note, last>>

(* The editor's memory is given up. *)
Left ==
  /\ s_fname' = Untitled /\ s_cooked' = TRUE
  /\ text' = <<>> /\ cursor' = 0
  /\ dirty' = FALSE /\ failed' = FALSE

Editing == phase = "editing"

(* confirm_save where there is something to confirm, as the ways it ends. *)
Asked ==
  IF ~dirty THEN {SaveEnd("clean", s_fname, disk)}
  ELSE {SaveEnd("cancelled", s_fname, disk), SaveEnd("discarded", s_fname, disk)}
       \cup do_save

GoesOn(e) == e.result \in {"clean", "discarded", "saved"}

(* Ctrl-Q *)
Quit ==
  /\ Editing
  /\ \E e \in Asked :
       IF GoesOn(e)
       THEN phase' = "browser" /\ disk' = e.disk /\ Left /\ UNCHANGED events
       ELSE SaveEffect(e) /\ UNCHANGED <<phase, s_cooked, text, cursor>>
  /\ UNCHANGED <<note, last>>

(* Ctrl-S, whether or not there is anything to save. *)
Save ==
  /\ Editing
  /\ \E e \in do_save : SaveEffect(e)
  /\ UNCHANGED <<phase, note, s_cooked, text, cursor, last>>

(* Ctrl-G: the text is read again in the other mode.  A file that has      *)
(* become too long for the buffer in that mode leaves it empty.            *)
ToggleMode ==
  /\ Editing
  /\ \E e \in Asked :
       IF ~GoesOn(e)
       THEN SaveEffect(e) /\ UNCHANGED <<s_cooked, text, cursor>>
       ELSE /\ disk' = e.disk /\ s_fname' = e.name
            /\ s_cooked' = ~s_cooked
            /\ IF e.name = Untitled
               THEN UNCHANGED <<text, cursor, dirty, failed, events>>
               ELSE \E l \in editor_file_load(e.disk, e.name, ~s_cooked, text) :
                      /\ text' = l.text
                      /\ cursor' = IF l.result = "NOTFOUND" THEN cursor ELSE 0
                      /\ dirty' = (l.result # "OK" /\ dirty /\ e.result # "saved")
                      /\ failed' = ~Complete(l)
                      /\ Spend(Cost(l.error))
  /\ UNCHANGED <<phase, note, last>>

-----------------------------------------------------------------------------
(* Running, and coming back.                                               *)

(* note_save: the old note is destroyed and a new one written, as far as   *)
(* the disk lets it; a shorter note has no cursor, or no origin either.    *)
note_save(new) ==
  {new, note, NoNote, [new EXCEPT !.cursor = 0],
   [new EXCEPT !.cursor = 0, !.editor = FALSE]}

(* Ctrl-R, then the launcher's run_abs_path: the interpreter is chained,   *)
(* or the file turns out to be unreadable and the browser comes back.      *)
Run ==
  /\ Editing
  /\ \E e \in do_save :
       IF e.result # "saved"
       THEN /\ SaveEffect(e)
            /\ UNCHANGED <<phase, note, s_cooked, text, cursor, last>>
       ELSE /\ disk' = e.disk /\ Left
            /\ LET new == [name |-> e.name, editor |-> TRUE, cursor |-> cursor]
               IN  \/ /\ phase' = "running"
                      /\ note' \in note_save(new)
                      /\ last' = IF note' = new
                                 THEN [text |-> text, cooked |-> s_cooked]
                                 ELSE Nothing
                      /\ Spend(Cost(note' # new))
                   \/ phase' = "browser" /\ Spend(1) /\ UNCHANGED <<note, last>>

(* stage_file: the browser runs a file. *)
RunFile ==
  /\ phase = "browser"
  /\ \E name \in DOMAIN disk :
       LET new == [name |-> name, editor |-> FALSE, cursor |-> 0]
       IN  note' \in note_save(new) /\ Spend(Cost(note' # new))
  /\ phase' = "running"
  /\ last' = Nothing
  /\ UNCHANGED <<disk, session>>

(* :quit boots the machine; so does its user at any time. *)
Boot ==
  /\ phase' = "boot"
  /\ last' = IF phase = "running" THEN last ELSE Nothing
  /\ Left
  /\ UNCHANGED <<disk, note, events>>

(* note_consume: the note is used once, if the disk lets it be destroyed,  *)
(* and only for a file that is still there.                                *)
Resume ==
  /\ phase = "boot"
  /\ last' = Nothing
  /\ \/ /\ note.name \in DOMAIN disk /\ note.editor
        /\ note' \in {note, NoNote}
        /\ editor_main(note.name, note.cursor, Cost(note' # NoNote))
     \/ /\ ~(note.name \in DOMAIN disk /\ note.editor)
        /\ note' \in {note, NoNote}
        /\ Spend(Cost(note' # NoNote))
        /\ phase' = "browser" /\ UNCHANGED <<disk, session>>
     \/ /\ note' \in {note, NoNote}    (* It cannot be opened, or not be read. *)
        /\ phase' = "browser" /\ Spend(1)
        /\ UNCHANGED <<disk, session>>

-----------------------------------------------------------------------------
(* Keys that edit, and those that move.                                    *)

(* editor_cook_key; the build has it in cooked mode only. *)
editor_cook_key(t) == IF t = "ctrl-w" THEN "underscore" ELSE to_lower(t)

Struck == events < MaxEvents /\ events' = events + 1
KeepsRest == UNCHANGED <<phase, disk, note, s_fname, s_cooked, failed, last>>

(* In raw mode Ctrl-W is a control byte and ignored. *)
Type(key) ==
  LET t == IF s_cooked THEN editor_cook_key(key) ELSE key
  IN  /\ Editing /\ Struck
      /\ t # "ctrl-w" /\ Len(text) < Cap
      /\ text' = Inserted(text, cursor, t)
      /\ cursor' = cursor + 1 /\ dirty' = TRUE
      /\ KeepsRest

Return ==
  /\ Editing /\ Struck
  /\ Len(text) < Cap
  /\ text' = Inserted(text, cursor, "\n")
  /\ cursor' = cursor + 1 /\ dirty' = TRUE
  /\ KeepsRest

(* Mutant: a deletion is not an edit. *)
Delete_stays_clean ==
  /\ Editing /\ Struck
  /\ cursor > 0
  /\ text' = Deleted(text, cursor)
  /\ cursor' = cursor - 1 /\ UNCHANGED dirty
  /\ KeepsRest

Delete ==
  /\ Editing /\ Struck
  /\ cursor > 0
  /\ text' = Deleted(text, cursor)
  /\ cursor' = cursor - 1 /\ dirty' = TRUE
  /\ KeepsRest

Move ==
  /\ Editing
  /\ cursor' \in Moves(text, cursor, ED_PAGE_LINES)
  /\ UNCHANGED <<phase, disk, note, s_fname, s_cooked, text, dirty, failed,
                 last, events>>

Next ==
  \/ Open \/ Quit \/ Save \/ ToggleMode
  \/ Run \/ RunFile \/ Boot \/ Resume
  \/ \E key \in Keys : Type(key)
  \/ Return \/ Delete \/ Move

Spec == Init /\ [][Next]_vars

-----------------------------------------------------------------------------
TypeOK ==
  /\ phase \in {"browser", "editing", "running", "boot"}
  /\ DOMAIN disk \subseteq Files
  /\ \A name \in DOMAIN disk : disk[name] \in Seq(Token)
  /\ note.name \in Files \cup {Untitled}
  /\ note.editor \in BOOLEAN /\ note.cursor \in 0 .. Cap
  /\ s_fname \in Files \cup {Untitled} /\ s_cooked \in BOOLEAN
  /\ text \in Seq(Token) /\ Len(text) <= Cap /\ cursor \in 0 .. Len(text)
  /\ dirty \in BOOLEAN /\ failed \in BOOLEAN
  /\ events \in 0 .. MaxEvents

(* A text shown as saved is the file's: saving it again would write the    *)
(* file as it is, or it is what opening the file shows.  Nothing is said   *)
(* of a text whose last transfer broke off.                                *)
CleanIsSaved ==
  Editing /\ s_fname # Untitled /\ ~dirty /\ ~failed =>
    /\ s_fname \in DOMAIN disk
    /\ \/ disk[s_fname] = Saved(text, s_cooked)
       \/ text = Loaded(disk[s_fname], s_cooked)

Capitals(t) == {i \in 1 .. Len(t) : t[i] = "A"}

(* The translator takes a backslash that was typed as ??/ for no escape,   *)
(* where whoever reads the file does.  It matters before a quote or a      *)
(* backslash.                                                              *)
EscapesAgree(t, source) ==
  \/ \A i \in 1 .. Len(t) : t[i] # "??/"
  \/ \A i \in 1 .. Len(source) - 1 :
       source[i] = "\\" => source[i + 1] \notin {"quote", "\\"}

(* What is saved in Swift mode, opened and saved again is the same file,   *)
(* whatever was typed, as long as opening it gave each capital a marker    *)
(* and cut no line short.                                                  *)
ResaveIsStable ==
  s_cooked =>
    LET source == Saved(text, TRUE)
        opened == Loaded(source, TRUE)
    IN  /\ EscapesAgree(text, source)
        /\ \A i \in 1 .. Len(source) : source[i] # "\r"
        /\ Len(opened) = Len(source) + Cardinality(Capitals(source))
        => Saved(opened, TRUE) = source

(* Tokens that mean themselves in both modes. *)
Plain(t) ==
  /\ \A i \in 1 .. Len(t) :
       t[i] \in {"a", "underscore", "space", "brace", "quote", "\\", "\n"}
  /\ Saved(t, FALSE) = t

(* Ctrl-R and back: the file opens with the text and the cursor that were  *)
(* left, if the disk kept the note, the mode is the file's own and the     *)
(* text plain.                                                             *)
ComesBack ==
  phase = "boot" /\ phase' = "editing" /\ ~failed'
  /\ last # Nothing /\ Plain(last.text)
  /\ last.cooked = editor_path_is_swift(note.name)
  => text' = last.text /\ cursor' = note.cursor /\ s_fname' = note.name

ResumeKeepsPlace == [][ComesBack]_vars
=============================================================================
