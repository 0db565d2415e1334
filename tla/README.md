# SwiftII in TLA+

SwiftII is a Swift interpreter for the Apple II: a single-pass compiler, a
bytecode VM with a reference-counted heap, a REPL, a text editor and the tools
of a compile-to-disk tool chain, in C for cc65 and for the host. These modules
model its core logic, TLC checks them on small instances, and TLAPS proves the
theorems listed below for every value of the constants.

Paths are relative to the repository's root.

## Inventory

| Part | State it keeps | Operations | What makes it correct |
|---|---|---|---|
| Heap (`src/runtime/heap.c`, `value.c`) | bump pointer, block headers (refcount, length) | alloc, retain, release, savepoint, rollback, reset | blocks tile the heap; a held block is never taken back; a rollback is an exact undo |
| Arrays (`src/runtime/array.c`) | count, capacity and slots in a heap block | new, get, set, append with growth, truncate, release of elements | every slot owns its reference exactly once, across growth and truncation |
| VM (`src/vm/vm.c`, `builtins_xlc.c`) | value stack, globals, call frames, pc, fp | one handler per opcode | references are counted exactly; the stack balances; strings never change under a variable; loops end |
| Statement compiler (`src/compiler/statements.c`, `emit.c`, `loops.c`) | bytecode position, locals, loops and break sites, patch stack | one parser per statement | jumps land on instructions; the depth the compiler assumes is the depth the VM has |
| Functions (`src/compiler/funcs.c`, `bcbuf.c`) | function table, arena/scratch split of the bytecode buffer, redefinition snapshot | declare, rebind, rotate the body into the arena, roll back | moving code keeps it right; a rejected line leaves no trace |
| Expressions (`pratt.c`, `strings.c`, `builtin_calls.c`, `types.c`) | parser position, types of the operands | one parser per precedence level | emits code that leaves exactly one value |
| Symbols (`globals.c`, `locals.c`) | names, types, defined flags | declare, look up, roll back | an index never outlives its name |
| REPL (`src/repl`) | input line, meta commands | compile and run a line, `:reset` | what survives a line is consistent |
| Paged tool chain (`bcbuf.c`, `bcwin.c`, `src/swb`, `src/main`) | windows over bytecode parked in auxiliary memory, the `.swb` file | flush, slide, stream, stage, page, chain | what is executed is what was compiled; a partial file never runs |
| Editor buffer (`src/editor/gapbuf.c`) | bytes, gap | insert, delete, move, load | it is a text with a cursor |
| Editor session (`editor.c`, `fileio.c`, `textnav.c`, `keymap.c`) | file name, mode, dirty flag | open, edit, save, reload, run, quit | unsaved work is not lost silently; buffer and mode agree |
| Editor screen (`editor.c`, `src/editor/screen.c`) | the frame, the frame drawn before it, a table of rows, the cached line count, video RAM | full frame, cursor move, redraw of one line, blink, switch of width | whatever path drew it, the screen shows the text and the cursor its place |
| Lexer (`src/lexer`) | offset, line, the current token | next token | one token after another, whole, each with its line |
| Source window (`src/compiler/srcwin.c`) | a stretch of the file, end-of-file flag | open, top up, slide | the compiler reads the file as if it were in memory |
| //+ input (`src/platform/apple2/input.c`) | none (pure) | translate, untranslate | a file survives load and save |
| Test sweep (`tools/apple2/testrun_sys`) | the note TESTRUN, the log TESTLOG, a two-byte marker | choose, start the next test, count down, show results | each test once, each verdict for the right test, other runs unaffected |
| Launcher (`tools/apple2/boot_launcher`) | directory listing, LASTRUN note | browse, preview, chain a program | returns where the user was |

Nothing here runs in parallel; what is hard is **sequences**: a session of
legal lines, each of which leaves something behind in the heap, the function
table and the arena; **partial failure**: a line that fails to compile halfway,
a runtime error, a full heap, a failed write; **moving code and data under
references to it**: the rotation of function bodies, the growth of arrays, the
sliding windows of the paged tool chain, the gap of the editor; **caches that
outlive what they were made from**: the editor's fast drawing paths, a marker in
memory, a note on the disk. Each hazard is
listed in `PROJECT.json` at the line where it bites, with the property that
watches it.

## Modules

```
HeapOps ── Heap ── HeapProofs            Allocator (what Heap promises)
   └────── Memory ──┐
        Statements ─┴─ Vm
Compiler ── CompilerProofs
CodeWindow ── PagedProgram ── PagedProgramProofs
                                         FlatCode (what CodeWindow promises)
Lexer ── Streaming ── StreamingProofs    SrcWin ── SrcWinProofs
                                         (the reader Streaming implements)
GapBuf ── GapBufProofs                   TextCursor (what GapBuf promises)
Input ─┬─ Editor ── EditorProofs
TextNav ─── Layout ── Screen
TestSweep ── TestSweepProofs
```

`M`, `MCM`, `MProofs` are a model, its instances for TLC and its proofs.
Operators carry the names of the C functions they translate (`heap_alloc`,
`patch_jump_to_here`, `gapbuf_serialize`); actions are named for the opcode,
statement or key they stand for. `PROJECT.json` maps each definition to its lines.

**HeapOps, Heap.** The heap as a bump pointer and the headers below it. `Heap`
drives it as its callers do: values are allocated, retained and released by
holders, the compiler takes a savepoint, allocates literals and either commits
or rolls back. The ghost `refs` counts the holders of each offset. `Forget` is
a holder that vanishes without a release, which the code does in two places (a
comparison's operands, a runtime error's stack).

**Memory, Statements, Vm.** `Memory` adds payloads (texts, array slots) to
`HeapOps`: `value.c` and `array.c`. `Statements` says what the compiler emits
for each statement and expression over heap values. `Vm` runs whole sessions:
a line is chosen at the prompt, its literals are allocated, its code executed
one opcode per step, and globals and literals stay for the lines after it.
Instructions are records; jump distances are counted in instructions. Every
overflow and out-of-memory exit of an opcode is an outcome of its action.

**Compiler.** The user types one statement per action, the compiler emits real
bytes into the bytecode buffer, patches jumps, rotates finished functions into
the arena, rolls rejected lines back, and the machine then executes the bytes
with free conditions. Values are left out: only the stack's depth is kept. Two
ghosts per byte say what the compiler assumed there: the stack depth, and which
function and which arms the byte belongs to. The configuration modelled has
`SWIFTII_EXT_COMPILER` (block scoping) and `SWIFTII_FUNC_REDEF` (//e REPL).

**CodeWindow, FlatCode, PagedProgram.** The tool chain for programs larger than
memory. `CodeWindow` is `bcbuf.c` in the //e Compiler: the parser is a client
that appends a byte, patches a placeholder of the unit it is in and closes
functions; a buffer that is full flushes the finished functions to aux memory
and slides (`EmitFlush`), and a finished body moves in front of the code before
it by three reversals. `FlatCode` is what the parser believes it has: one
sequence. `PagedProgram` adds what happens to that code: the .swb file is
created, its header, the bytecode in chunks (aux first, then the buffer) and its
tail are written, and each of these may fail; the Runner checks the header,
stages the body into aux in chunks of its own and executes it through a third
window, repaged before each instruction (`InstructionMapped`), with jumps to
anywhere. Programs chain one another over their own memory, so only the file
and aux survive; `Reset` does the same at any moment. A partial file can
therefore be loaded, over an aux memory that still holds the last program; that
it is never executed is part of `FetchesProgram`.

**Input, Editor.** `Input` holds the two translators of the II+ input model as
the step each takes for one token. A digraph or a comment's delimiter is one
token and letters are told apart by case only, so lengths and cursors count
tokens. `Editor` is the session around them in the II+ build: the browser opens
a file or a new text, keys edit, Ctrl-S saves, Ctrl-G reads the file again in
the other mode, Ctrl-R saves, leaves a note and runs, and the next boot reads
the note and comes back. The text is the sequence `TextCursor` has. Each file
operation is the set of ways it can end: not opened, read or written up to any
byte, the old file destroyed or not. Two ghosts: `failed` says that the last
transfer broke off, `last` what text Ctrl-R left behind. A program that runs is
taken to leave the source files alone, and all files are on one volume.

**TextNav, Layout, Screen.** `TextNav` is `textnav.c` and the moves of
`keymap.c` on a text as a sequence; `Editor` uses it too. `Layout` is the pure
renderer `screen.c`: how a line flows over rows with digraphs expanded, gutter,
status and message rows. `Screen` is the loop of `editor.c` as of the moment it
waits for a key. Each key is one action: it changes the text, arms one of the
fast paths or none, and the frame is drawn at once, by the path the code would
choose: `Locate` draws nothing and looks the cursor's row up in the table of the
last full frame, `RedrawLine` draws the cursor's line over the rows it had,
`Full` draws everything and compares it with the frame before. Both builds are
one model (`iie`), as are both widths. `video` is what is seen; a cursor beyond its
row's end is poked where the code pokes it, and the ghost `stray` remembers it.
The status and the message rows say one thing each, so a stale one shows. Files
are left to `Editor`: here a transfer ends well or does not.

**Lexer, SrcWin, Streaming.** `Lexer` is the scanner as operators on a buffer:
`lexer_next` takes its state to the next. `SrcWin` is `srcwin.c` under *any*
reader that scans forward, may put its lexer aside and come back, and lets the
window slide only when none is put aside. `Streaming` is the Compiler as such a
reader: the statement level of the parser, which decides when a token is read
and when the window may slide, over the real lexer and window; the property
`IsReader` says that it implements `SrcWin`. Two ghosts remember which tokens the parser took and which the
whole file has. Bytecode is left out here, expressions are runs of tokens.

**TestSweep.** Four programs that replace one another in memory: the launcher,
TESTRUN, the Compiler and the Runner, or a REPL disk's interpreter. An action is
what a program does between two waits or two disk operations; what it leaves
are a note, a log, .swb files and the marker. What becomes of a test is chosen
at the beginning (`fate`): passes, prints FAIL, stops, does not compile, cannot
be read, or is so long that reading it overwrites the marker. A reset, Esc and a
program of the user's may come in between any two actions, and every operation
on the disk with the tests may fail: note and log may not be destroyed (both
results are ignored: `NoteDestroyed`, `Begin`), created, written or read, a
folder may be read up to any entry only (`CutShort`), a letter may not be appended, a
.swb not be deleted or written. The ghost `sweep` remembers what was planned,
started, logged and named, and in `hurt` the failures a property leaves aside.

**GapBuf.** The gap buffer, the copy loops of a cursor move one byte per step.

### Forms left out of the passing instances

Four forms of program break properties of `Compiler`, and two kinds of line
break properties of `Vm`. The passing runs leave them out (the constant
`Avoided`, and the lines of `MCVm`); `break` and `vm_grow` let one in each, the
others are described under "Limits met while modelling".

## Runs

| Run | What it asks | Bounds, and why they are enough |
|---|---|---|
| `heap` | tiling, live blocks, exact rollback, refinement of `Allocator` | 12 bytes: three or four blocks, refcount saturating at 2, so exhaustion, rewinding under dead blocks and saturation all happen |
| `vm` | exact reference counts, nothing dangling, balanced stack, immutable strings, lines end | 28 kinds of lines in any order, heap of four or five blocks, 4 stack slots, 2 frames, one runtime error per session: heap, stack and frame exhaustion all happen |
| `compiler` | jumps land, depths agree, functions left only by return, arms exclusive, rejected lines leave no trace | two lines, five mixes of up to five statements, every nesting and order; tables of 2 functions, 2 loops, 1 break and 3 locals overflow |
| `gapbuf` | the buffer is a text with a cursor, readers agree | 5 bytes, two letters: every position of the gap against every text |
| `paged` | the paged buffer is a flat one, unfinished code stays in memory, what is executed is what was compiled | a window of 2 bytes over a store of 4, chunks of 2, a Runner window of 3: flush, slide, rotation, both chunk boundaries, repaging and the ceiling all happen, over any number of compiles and runs; the proof covers every size |
| `editor` | what is shown as saved is the file; saving what was opened changes nothing; the cursor comes back | texts and lines of 5 tokens, five initial disks chosen for the rules of the translators, and two keys that edit or disk errors in any number of sessions: two are what a run of capitals needs, and an edit next to an error |
| `screen` | the screen shows the text and the cursor its place, whichever path drew it; lines are counted | three rows of five or seven columns, line numbers to base 3 so that the gutter grows with the third line, three files (a digraph that leaves a column unused, more lines than rows, a line longer than the screen), two typed characters or one Return or deletion: wrapping, scrolling, both fast paths, stale status and stray cells all happen |
| `srcwin` | an accepted file was compiled whole; half a window is enough; line numbers; the Compiler is a reader `SrcWin` allows | a window of 18 bytes under files of three or four of seven pieces (2,744 of them) and fourteen, most of them wrong in one way each; the longest slide twice; any read may fail |
| `sweep` | each test once and in order; the results page names the failures; but for the failures the properties name | four tests in three folders, one with more entries than are read, one empty; two sweeps, one run of the user's, one reset, one failing operation: two sweeps are what a log left over needs, and each failure alone is what its handling is for (1.9 million states; the proof has no bounds) |
| `vm_grow` | *violated*: growth of an array of strings | two declarations and one append suffice |
| `break` | *violated*: a `break` out of a block with locals | as `compiler`, with the statements it needs |
| `marker` | *violated*: a run of the user's after a test that did not compile | one sweep, no failure and no reset |

`CHECK_DEADLOCK FALSE` in `MCHeap`, `MCPagedProgram`, `MCEditor`, `MCStreaming`,
`MCTestSweep` and `MCCompiler` and the runs derived from them: a bounded session ends when its budget of
references, statements, lines or events is used up, and a Runner that has
stopped waits for its user, a file that is compiled or rejected, a sweep with no reset left.

### Fairness

Only `Vm` states any: weak fairness of `Execute`, the VM's loop, which runs on
its own until the line ends; nothing else competes for the processor. Typing
a line is not fair: the user may leave. `LinesEnd` rests on it.

## Findings

1. **Growth of an array over-releases its elements** (`vm_grow`, `array.c:135`).
2. **`break` leaves a block's locals on the stack** (`break`, `statements.c:478`).
3. **The marker of a test outlives the test** (`marker`, `runner_main.c:273`): the
   user's own next run is logged as a test and its .swb deleted.

`PROJECT.json` quotes the documentation each contradicts.

### Limits met while modelling

The models contain these, and the properties are stated so that they hold
beside them; no run is devoted to them.

Compiler and VM:

- `OP_EQ` and `OP_NEQ` drop their operands without releasing them
  (`vm.c:616`), although design 002 (`002-heap-and-strings.md:102-103`) says a
  popped value's count is adjusted: comparing temporary strings in a loop fills
  the heap. The lines of the run `vm` compare no strings.
- `parse_func_decl` refuses a function only inside a function
  (`statements.c:555`), so one inside a top-level `if` is accepted, against
  `LANGUAGE.md:659`; the rotation then moves the block's unpatched jump.
- Whether a body ends in a return is read off its last *byte*
  (`statements.c:707`), which may be an operand: `func f() { let x = 98 }` runs on
  into the code behind it, against `LANGUAGE.md:674-679`.
- A line that redefines two functions and then fails restores only the second
  (`funcs.c:182`), against `LANGUAGE.md:49-51`.
- The patch stack has 24 entries and no bound check (`emit.c:113`).

Editor:

- A read error passes for the end of the file (`fileio.c:83`, `126`): a text cut
  short has the file's name and counts as saved. `CleanIsSaved` excludes a text
  whose last transfer broke off.
- Ctrl-G on a file that is too long in the other mode leaves an empty text under
  the file's name, marked as saved (`editor.c:897-905`), and the mode flips even
  if the file cannot be opened, although `editor.c:44-46` says that the buffer
  always matches the mode.
- Saving a text without edits and failing leaves it marked as saved while the
  file is destroyed (`editor.c:634-644`).
- A capital after a letter in a string, as in `"''max"`, loses its case on the
  second save; `input.c` says of it that it cannot be typed, but the run marker
  types it. `ResaveIsStable` excludes texts with such a capital.
- A backslash typed as `??/` in a string is written as a backslash
  (`input.c:232`), but only a backslash proper keeps the next byte from being
  looked at (`input.c:185`), although `input.c:30-33` says that `??/` serves for
  escapes. The line `" ??/"` ends its string for the save, and does
  not for the load, which then takes `''` or capitals behind it for a string's.
  `ResaveIsStable` excludes it (`EscapesAgree`); TLC showed it false without.
- `editor.c:744` says that the round trip reproduces the same buffer, so that the
  cursor's offset still lands. Digraphs and markers change the buffer's length;
  `ResumeKeepsPlace` is stated for texts without them.
- A block comment over several lines is a comment only up to the end of its
  first line for the translators, which start afresh on each line.
- The fast path for typing compares row counts without the column a digraph may
  leave unused at a row's end (`editor.c:962-974`), so a line may be drawn over the
  one below; design 006 (`006-editor.md:300-304`) says the count is
  digraph-aware. `ShownIsText` allows it only where digraphs are expanded.
- A cursor just past a full row is poked outside its row (`editor.c:471`, `873-875`),
  and leaves a glyph there, against `editor.c:432-436`. The ghost `stray` excludes these
  cells until their row is drawn again.
- A reload that drops the text keeps the line count and the top line
  (`editor.c:908`); `LinesCounted` excludes it (the ghost `dropped`).
- SAVE AS takes 63 characters (`editor.c:531`), a ProDOS name has 15.

Source window and lexer:

- A last statement longer than half the window that ends exactly where the full
  window does is rejected although it fits: the end of the file is not known yet.
  `HalfWindowIsEnough` is therefore about half a window.
- A read error passes for the end of the file here too (`srcwin.c:12-22`): the part
  read until then is accepted as the program.
- A carriage return and a line feed count as two lines; the lexer of an interpolated
  expression starts at line 1 again.

Test sweep:

- A note that was created but not written makes the launcher start TESTRUN
  at every start, and TESTRUN, which takes it for none, shows its first page;
  the menu is out of reach until a sweep has been run.
- A note that cannot be destroyed when it is to be saved anew (`testrun.c:257`) stays,
  since the create behind it is refused as a duplicate; the test is started all the
  same, and started again from the old cursor, although `testrun.c:563` says that the
  call persists the advanced cursor. Without the exclusion of `"note"` in
  `OnceInOrder`, TLC finds the first test started twice after one such failure.
- A test that leaves no verdict (it does not compile, the machine is reset, a
  letter cannot be appended, or the source is so long that it overwrites the marker at
  $1B08) shifts the verdicts behind it by one (`testrun.c:521`), and the results page names
  a test that did not print FAIL, although design 018
  (`018-on-target-test-harness.md:408-411`) has one letter per test and the failed tests
  listed by name. `FailuresNamed` is about logs without a gap; without that, TLC finds a
  wrong name with no operation failing and no reset.
- If the log of the last sweep cannot be destroyed, the new letters are appended to it
  (`testrun.c:693`), although design 018 (`018-on-target-test-harness.md:249-250`) has a
  stale log deleted; a log the results page cannot read, or a folder, is taken for an
  empty one (`testrun.c:489`, `517`); a .swb the Runner cannot load counts as passed.
  `FailuresNamed` excludes each (`hurt`).
- A note that cannot be read is none: the user may begin a sweep over one that was
  under way, whose note then comes back if the new one is not saved. `OnceInOrder`
  excludes such a sweep.
- A folder that cannot be read up to the cursor is taken for one that is done
  (`testrun.c:552`): the rest of the tier is skipped. `OnceInOrder` claims that all were
  started only if nothing failed.
- A note the results page cannot destroy (`testrun.c:477`) brings TESTRUN back at every
  start: to the same page, or after an Esc to the tests that were left.
- A program that stops on a runtime error without printing FAIL counts as passed.
- A test that is left with Esc, or skipped by a reset, during its countdown is
  counted as run; a failed write of the note ends the sweep silently.

## Proofs

Checked by TLAPS for every value of the constants that satisfies the named
assumptions (`HeapSizes`, `ClientBounds`, `Storage`, `WindowSizes`, `PagedSizes`,
`CapIsPositive`, `Folders`, `OnceOnDisk`, `CompilerSizes`, `AvoidedForms`,
`EditorSizes`, `PrintableKeys`, `FileNames`, `Disks`, `FileTexts`). Each says that sizes are sizes, and where the code compares two of them, that they are in the
order it is built with; `OnceOnDisk` says that a directory has a name once,
`AvoidedForms` which forms of program an instance may leave aside, `PrintableKeys`
that a key types no line end, `FileNames` that a .swift file is a file and the new
text's name is none, `Disks` that a disk holds texts under names of files, and `FileTexts` that a
file to compile is a text whose length its two-byte counter can hold.

**HeapProofs** proves every property the run `heap` checks. The inductive
invariant is `TypeOK`, `Tiling` and `HeldBlocksLive` together with the same
layout of the savepoint `before`: that every block of `before` is still where it
was and no block straddles the savepoint. Tiling is what makes
the LIFO rewind of `heap_release` safe; the claim about `before` is what makes
a rollback exact. The refinement of `Allocator` follows step by step: a
reclaimed block had no holder, so the abstract state does not see it go.

**GapBufProofs** proves the type invariant and that the gap buffer implements
`TextCursor`, with the text read through the gap while a copy is under way; and
that what is saved is what is shown (`ReadersAgree`): the two stretches of
`gapbuf_serialize`, one before and one behind the gap, put together are the text
byte by byte of `gapbuf_at`. That is a fact about every well-typed state, so the
type invariant carries it.

**PagedProgramProofs** first proves the type invariant of the paged bytecode buffer
(`CodeWindow`), `Resident`, and that it implements `FlatCode`. The inductive invariant is the
type invariant with `Resident`: the flushed part ends where finished functions
end or before it, so that nothing behind `s_arena_used` is ever in aux and every
patch finds its placeholder in the window. The refinement reads a byte of the
draft from aux or from the window, whichever holds it; a flush is then a stutter
followed by an append, and `ReversalsRotate` shows that reversing both parts
and then the whole exchanges them.

It then carries `Resident` and `KeepsCode` over to the whole tool chain and proves
that what is executed is what was compiled (`FetchesProgram`). The compiler's part
of the state keeps the invariant above: the stages around it either leave it alone
or clear it. `FetchesProgram` is three invariants that hand the code on, each with the place where a stage may break
off. `FileHolds`: however a write ended, the file is the beginning of the program
it was opened for, and only a file with a tail is all of it. `LoadInv`: aux holds
what was read so far. `RunInv`: a run needs a tail, so aux holds the program, and
the window a stretch of it that includes the instruction at `vm_pc` once it is
mapped. The write reads the code back from aux or the window; that a chunk of
either is the program's is where `Resident` is needed.

**SrcWinProofs** proves that the window always shows an unbroken stretch of the
file and holds at most its capacity (`WindowIsOfFile`, `WindowTypeCorrect`), and
that a slide never drops the current token, nor happens under a lexer that was
put aside (`NothingIsDropped`). The inductive invariant is `WinTypeOK` with
`WindowShowsFile`: a slide keeps a suffix of the window, so it needs both that
`tok_pos` lies inside it and what it shows. The theorems hold for every file,
every capacity and every reader `SrcWin` allows.

**StreamingProofs** proves that the Compiler is such a reader (`CompilerIsReader`),
with the lexer's real scans, and that it always knows its line in the file
(`LinesAreTheFiles`, `StreamingTyped`). What the scans return is proved first:
`skip_trivia` and `StringEnd` are recursive functions that exist because every
call goes on to a later offset (`RunDown`), so a token starts and ends where it
should (`LexAtIs`), and `lexer_next` adds to the line the end-of-line bytes it goes
over (`NextIs`). The inductive invariant `Inv` is then `TypeOK`, `WindowShowsFile`, and of
the lexer *and* of its copy that their line counts the file's end-of-line bytes up to
them: without the copy's, the return to it would lose the line. Each action is
one of `SrcWin`'s (`Reading`, `Standing`, `Sliding`, `PuttingAside`, `ComingBack`,
`GoingOn`), so `SrcWinProofs` gives the window's half of the invariant. A slide
is possible only where no copy is kept because `saved` is set only at "probe".

`AcceptedWasWhole` proves that a program that is accepted was compiled whole: the tokens read
through the window are those of the file lexed as one text (`Rest`, a recursive
function from each offset on). Two steps lead there. `TokenSame` compares the token
read in the window with the one at the same place of the file: they agree, unless the
token touches the window's edge (`Edge`, which takes one byte more for the
dot a number may end at) or a "\r\n" is cut in two (`CutFrom`), which the list, a run of
separators being one, cannot tell. The invariant `RightInv` then says of the lexer *and* of
its copy that the tokens read, joined with those from its place on, are the file's
(`Ahead`): for *every* place the file may yet end at, since a read that
fails makes an end where it comes (`MayEnd`), and a slide only takes such places away
(`RightSlides`). Or the lexer is `Lost`, at an error or at the edge of a window with more of the
file behind it. It stays lost (`EdgeStays`): the hook runs only at separators, and no
separator is an edge token, so the parser reaches the window's end without `eof`, and
`Verdict` rejects. That the end of the tokens is then the file's own is the other half
(`ReadToEnd`).

**TestSweepProofs** proves all the run `sweep` checks: the note on the disk
carries a sweep through any number of programs, resets and failing disk
operations. The inductive invariant says of the cursor (tier, ordinal) that no
test beyond it was started (`Within`) and, if nothing came between, that none it
has passed was left out (`Complete`): of TESTRUN's globals while it has the
machine (`LoopInv`), of the note at every moment (`NoteInv`), with one test still
due between the choice of a test and its start. The note may be older than the
sweep, never newer, so that a reset makes tests be skipped, not be repeated:
`NotePhase` is why, for while a note is saved the old one is gone before the new one
is there. A destroy that fails breaks just that, so `Within` is
claimed of a sweep without one (`Kept`), and of a sweep that did not begin over a note
it could not read (`Whole`). Every other failure is covered: a create or a write that
fails leaves no note or an empty one, a folder cut short or a source that cannot be
read takes the cursor over tests but never back (`LoopTurn`). The results page counts
letters, so `LogInv` keeps the letters of the log equal to the verdicts in the order
they were taken, and `PageInv` the names on the page those at the places of their
letters (`LettersInPlace`); both leave out the failures in `hurt` that put a wrong
letter there or hide one. That the n-th row `find_nth_swift` names is the n-th element
of the folder's tests is an induction over rows, made with the least-number
principle of the library (`LeastNumber`).

**CompilerProofs** proves, of the one pass of `Compiler` and any sizes of its tables,
the type invariant (`CompilerTyped`) and that a line that fails leaves no trace
(`RolledBackWhole`), for sessions without the four forms of program above
(`AllAvoided`, as in the run `compiler`; with them the properties fail). The
inductive invariant `Base` relates the parser's recursion to its tables.
`StackInv`: functions do not nest, a block's first local lies above its parents',
there is a row of break sites for every loop. `PlacesInv`: whatever is still to be
patched, and whatever a loop is to jump back to, lies in the code of the function
that is being compiled; so a patch never reaches a function that was finished, and
the rotation of a body moves nothing a patch is waiting for. `TraceInv`: the arena
only grows during a line, its old bytes and every entry of the function table but
the saved one are as they were. Without `PlacesInv` the last one is not
inductive: a patch below the savepoint would change a byte no rollback brings back.

Its second part proves under the same hypothesis what the run `compiler`
checks of the code's execution: control always sits on an instruction
(`JumpsAlwaysLand`), with the stack as deep as the compiler assumed
(`DepthAlwaysAgrees`), in the function the frames say was called
(`UnitIsCalled`), and no step of a run leads from one arm of an `if` into the other
(`OneArmOfEach`). None of the four is inductive: execution only follows what
compilation left behind. So the inductive invariant `FlowInv` speaks of the code while it
is being compiled. `Region`: every instruction of the stretch of code under
construction is whole, and each of its edges (to its successor, and to where it
jumps) leads to an instruction compiled for the depth the edge arrives with, in the
same function and not into the other arm, with two exceptions: jumps whose operand is
still a placeholder (`Pending`), and the end of the stretch, which is reached at the
depth the parser has just then or, behind a `return`, not at all. `SitesInv` says
of every placeholder which construct is to patch it and at what depth that one will
close. `Region` is what the compiler's operations preserve:
emitting (`RegionExtended`), patching to the end (`RegionPatched`), cutting the
tail off. Jumps are relative, so a finished region holds wherever it is moved to; that
is why the rotation of a body into the arena keeps it (`RegionShifted`). `SavedInv` claims the same of the savepoint, for the rollback. When a line is
complete its region has no exit and no placeholder left, and `RunInv` follows: from
then on a step along an edge keeps depth and function, and `FrameFits` relates each
frame to the call behind which it returns. TLC checked `FlowInv` as an invariant of the
instance of `compiler` before it was proved.

**EditorProofs** proves all the run `editor` checks, for every name, disk, key,
buffer and line length. The inductive invariant `EditorInv` of the session is
`TypeOK`, `CleanIsSaved` and `Awaited`: while a program has the machine, the file the
note names holds the text Ctrl-R left, in the mode it was in. `CleanTextIsSaved` and
`RunComesBack` (an action property) follow; for the latter the translators must
be the identity on a plain text, token by token over the two loops.

Its other half is `ResaveStable`: what a save wrote, opened and saved again is
the same file. It compares three runs of the two translators over texts of different
lengths, and goes in two steps. `Follows`, kept from token to token by each rule of
`input_translate` (`FollowStep`), says that a reader of the file is in a string, in a
comment, behind a letter or behind a backslash exactly when the writer was, except
behind a backslash typed as `??/`; hence the file is `Readable`: it has no digraph, no
apostrophe that would be a marker, no Ctrl-W outside a string. `Mirrors` then says
the same of the second save and the load it follows, with no case mark pending and as
many tokens in the line as the load wrote: of each token of the file the load makes one,
or a marker and a letter, and the save makes that token again (`MirrorStep`). That the
load dropped nothing *anywhere* follows from the one length `ResaveIsStable` compares:
each token can add at most its share to it (`LoadsAll`). The loops are recursive
functions over the tokens; the inductions over them use the least-number
principle (`Steps`), which needs no operator as a parameter.

Only model-checked, and why:

- `Vm`: what a line's opcodes do depends on the lines a session is given, which
  are data here (`Lines`): a proof would need the compiler's correctness for
  every line as its hypothesis.
- `Screen`: `Layout`'s flow of a line over rows is a recursive function over the
  text, what it computes for every input is not proved yet.
- `HalfWindowIsEnough` of `Streaming`: that no edge is ever reached follows from what the
  proof of `AcceptedIsWhole` shows only with a count, from the last slide on, of the
  distance to the next place to slide, which `Fits` takes from folds over the tokens.
- Liveness (`LinesEnd`): fairness and ENABLED are out of its reach.

## Not modelled, and why

Operator precedence and static types decide what is accepted, not
what accepted code does. Graphics, disk and memory builtins move no reference.
Keyboard polling, bank switching and the assembly drivers are
about the machine's addresses and timing. Of the launcher only the editor's
environment is modelled: its panes, directories and menus are user interface
over ProDOS calls. The flat Runner's whole-image
entry points and the constant heap inside a .swb are left out of `PagedProgram`,
the //e build out of `Editor` (not out of `Screen`), the truncating renderers,
which the program never selects, out of `Layout`. `TestSweep` has one data disk, which is
found (`find_test_vol`; if it is not, TESTRUN goes back to the menu, as by Esc), and
system files of the boot disk that can be opened; a .swb left in a tier's folder takes
none of the rows that are read of it.

## Plan

Done: the heap, the VM, the statement compiler, the gap buffer, the paged tool
chain, the editor's session and screen, the lexer under its window, the test
sweep. Next, most important first:

1. The patch stack and the nesting of expressions: which bound keeps 24 entries enough.
2. The constant heap image of the .swb and the flat Runner, with `HeapOps`.
3. The rest of the VM's opcodes: integer arithmetic at 16 bits, ranges, switch.
4. The REPL's line editor and its history ring (`keyboard.c`, `histring.c`).
