------------------------------ MODULE TestSweep ------------------------------
(***************************************************************************)
(* The test sweep: TESTRUN.SYSTEM (tools/apple2/testrun_sys/testrun.c)     *)
(* starts one test program after another, and as every program on this     *)
(* machine replaces the one that started it, nothing is left in memory     *)
(* between two tests but two bytes.  Where it stands it keeps in a file,   *)
(* the note TESTRUN, which the launcher looks for whenever it starts.      *)
(* On a Compiler disk the Runner leaves a verdict per test in the file     *)
(* TESTLOG.  The user may run programs of his own when no sweep is on.     *)
(* Any operation on the disk that holds these files may fail, and hardly   *)
(* one is looked at.                                                       *)
(* Tiers, and positions in a folder, count from one here.                  *)
(***************************************************************************)
EXTENDS Naturals, Sequences, FiniteSets, SequencesExt

CONSTANTS
  Tests,           (* The test programs.                                   *)
  Own,             (* A program of the user's.                             *)
  Other,           (* A directory entry that is no .swift file.            *)
  Folder,          (* The entries of each tier's folder, in disk order.    *)
  MAX_ROWS,        (* Entries read of a folder: 32.                        *)
  NOTE_BYTES,      (* Bytes read of a note, or of the log: 96.             *)
  None, Empty,     (* No note; a note that was created but not written.    *)
  Fates,           (* What becomes of each program when it is run.         *)
  MaxSweeps, MaxOwn, MaxResets, MaxFaults
                   (* Bounds: sweeps begun, own programs run, resets,      *)
                   (* disk operations that fail.                           *)

Programs == Tests \cup {Own}

(* A test that prints FAIL; one that stops without it; a source that does  *)
(* not compile, or cannot be read; one so long that it reaches the marker. *)
Fate == {"passes", "fails", "stops", "rejected", "unreadable", "long"}

ASSUME Folders == /\ Own \notin Tests /\ Other \notin Programs
                  /\ Folder \in Seq(Seq(Tests \cup {Other})) /\ Len(Folder) = 3
                  /\ MAX_ROWS \in Nat /\ None # Empty
                  /\ NOTE_BYTES \in Nat /\ 3 * MAX_ROWS <= NOTE_BYTES
                  /\ Fates \subseteq [Programs -> Fate]
                  /\ {MaxSweeps, MaxOwn, MaxResets, MaxFaults} \subseteq Nat

(* A directory has a file once, and a file is in one directory. *)
ASSUME OnceOnDisk ==
  \A t, u \in 1 .. 3 : \A i \in DOMAIN Folder[t], j \in DOMAIN Folder[u] :
    Folder[t][i] = Folder[u][j] /\ Folder[t][i] # Other => t = u /\ i = j

VARIABLES
  at,              (* Which program has the machine, and where it is.      *)
  after,           (* Where TESTRUN goes on once the note is saved.        *)
  boot_disk,       (* A disk with a REPL, with one with extras, or with    *)
                   (* the Compiler.                                        *)
  fate,
  note,            (* /VOL/TESTRUN.                                        *)
  log,             (* /VOL/TESTLOG.                                        *)
  swb,             (* The programs whose .swb file is on the disk.         *)
  marker,          (* The two bytes at TESTRUN_MODE_ADDR.                  *)
  g,               (* TESTRUN's globals, all that its note keeps.          *)
  program,         (* What the Compiler or the Runner was given.           *)
  sweep,           (* Ghost: what this sweep was to do, what it has done,  *)
                   (* what its page named, and which failures hurt it.     *)
  left             (* The bounds: what may still happen.                   *)

familyb == boot_disk = "compiler"
disk == <<note, log, swb>>
vars == <<at, after, boot_disk, fate, disk, marker, g, program, sweep, left>>

(* tier_name: CORE, XTESTS and FBTESTS, as many as this disk can run. *)
Tiers == 1 .. (CASE boot_disk = "repl" -> 1 [] boot_disk = "extras" -> 2 [] OTHER -> 3)

Unset == [selmask |-> {}, tier |-> 1, ord |-> 1, count |-> 0, total |-> 0]
NoSweep == [plan |-> <<>>, launched |-> <<>>, logged |-> <<>>, named |-> {},
            calm |-> TRUE, hurt |-> {}]

(* The failures a property is told of: a note that could not be destroyed  *)
(* before it is saved anew; one that could not be read, so that a new      *)
(* sweep began over it; a log that was not destroyed, or holds a letter of *)
(* a program that did not run; a results page that could not read.         *)
Kinds == {"note", "unread", "log", "page"}

(* The rows read_dir keeps of a tier's folder that are tests. *)
SwiftRows(t) ==
  {r \in 1 .. Min({Len(Folder[t]), MAX_ROWS}) : Folder[t][r] # Other}

(* The row with n tests in front of it. *)
find_nth_swift(t, n) ==
  CHOOSE r \in SwiftRows(t) : Cardinality({q \in SwiftRows(t) : q < r}) = n

Swift(t) ==
  [n \in 1 .. Cardinality(SwiftRows(t)) |-> Folder[t][find_nth_swift(t, n - 1)]]

Part(selmask, t) == IF t \in Tiers \cap selmask THEN Swift(t) ELSE <<>>

(* The tests of the chosen tiers, in the order they are run. *)
Selected(selmask) == Part(selmask, 1) \o Part(selmask, 2) \o Part(selmask, 3)

(* What is found of them if a folder can only be read up to some entry: a  *)
(* read that fails is taken for the folder's end.                          *)
CutShort(selmask, t, n) ==
  LET Found(u) == IF u = t THEN SubSeq(Part(selmask, u), 1, n) ELSE Part(selmask, u)
  IN  Found(1) \o Found(2) \o Found(3)

Shortened(selmask) ==
  UNION {{CutShort(selmask, t, n) : n \in 0 .. Len(Part(selmask, t))} : t \in 1 .. 3}

(* Every counter fits the byte it is kept in. *)
Globals == [selmask : SUBSET Tiers, tier : 1 .. 4, ord : 1 .. MAX_ROWS + 1,
            count : 0 .. 3 * MAX_ROWS, total : 0 .. 3 * MAX_ROWS]

TypeOK ==
  /\ at \in {"boot", "menu", "main", "intro", "select", "chosen", "counted", "destroy", "create",
             "write", "next", "countdown", "program", "compile", "error", "runner", "cleanup",
             "ending", "tally", "results"}
  /\ after \in {"next", "countdown"}
  /\ boot_disk \in {"repl", "extras", "compiler"} /\ marker \in BOOLEAN /\ fate \in Fates
  /\ g \in Globals
  /\ note \notin {None, Empty} =>
       /\ note \in Globals /\ note.selmask # {}
       /\ note.count <= Len(Selected(note.selmask))
  /\ log \in Seq({"P", "F"}) /\ swb \subseteq Programs
  /\ program \in Programs \cup {None}
  /\ sweep.named \subseteq Tests /\ sweep.hurt \subseteq Kinds
  /\ familyb \/ (~marker /\ swb = {} /\ log = <<>>)

Init ==
  /\ at = "boot" /\ after = "next" /\ boot_disk \in {"repl", "extras", "compiler"} /\ fate \in Fates
  /\ note = None /\ log = <<>> /\ swb = {} /\ marker = FALSE
  /\ g = Unset /\ program = None /\ sweep = NoSweep
  /\ left = [sweeps |-> MaxSweeps, own |-> MaxOwn, resets |-> MaxResets, faults |-> MaxFaults]

-----------------------------------------------------------------------------
(* Chaining: the next program is read over the one that asks for it. *)
chain_bin(to, what) ==
  /\ at' = to /\ program' = what /\ g' = Unset

ToLauncher == chain_bin("boot", None)

(* An operation on the disk fails: it is full, or the transfer breaks off. *)
Fails ==
  /\ left.faults > 0
  /\ left' = [left EXCEPT !.faults = @ - 1]

Hurt(s, kinds) == [s EXCEPT !.calm = FALSE, !.hurt = @ \cup kinds]

(* A failure of that kind, and no other trace of it in the sweep. *)
Fault(kinds) == Fails /\ sweep' = Hurt(sweep, kinds)

(* The launcher: a note, whatever it holds, goes before the menu, if it    *)
(* and TESTRUN.SYSTEM can be opened.                                       *)
note_consume ==
  /\ at = "boot"
  /\ \/ at' = (IF note = None THEN "menu" ELSE "main") /\ UNCHANGED <<sweep, left>>
     \/ note # None /\ Fault({}) /\ at' = "menu"
  /\ UNCHANGED <<after, boot_disk, fate, disk, marker, g, program>>

chain_testrun ==
  /\ at = "menu" /\ left.sweeps > 0
  /\ at' = "main"
  /\ UNCHANGED <<after, boot_disk, fate, disk, marker, g, program, sweep, left>>

(* The user picks his own program in the file selector. *)
RunOwn ==
  /\ at = "menu" /\ left.own > 0
  /\ left' = [left EXCEPT !.own = @ - 1]
  /\ chain_bin(IF familyb THEN "compile" ELSE "program", Own)
  /\ UNCHANGED <<after, boot_disk, fate, disk, marker, sweep>>

-----------------------------------------------------------------------------
(* TESTRUN.SYSTEM starts: a note it cannot read is none. *)
test_note_consume ==
  /\ at = "main"
  /\ \/ /\ note \notin {None, Empty} /\ g' = note /\ at' = "next"
        /\ UNCHANGED <<sweep, left>>
     \/ /\ note \in {None, Empty} /\ g' = Unset /\ at' = "intro"
        /\ UNCHANGED <<sweep, left>>
     \/ note \notin {None, Empty} /\ Fault({}) /\ g' = Unset /\ at' = "intro"
  /\ UNCHANGED <<after, boot_disk, fate, disk, marker, program>>

BackToMenu ==
  /\ ToLauncher
  /\ UNCHANGED <<after, boot_disk, fate, disk, marker, sweep, left>>

(* All tiers are chosen at first; with one tier there is no choice. *)
intro_screen ==
  /\ at = "intro"
  /\ \/ BackToMenu
     \/ /\ g' = [g EXCEPT !.selmask = Tiers]
        /\ at' = IF Cardinality(Tiers) >= 2 THEN "select" ELSE "chosen"
        /\ UNCHANGED <<after, boot_disk, fate, disk, marker, program, sweep, left>>

selection_screen ==
  /\ at = "select"
  /\ \/ BackToMenu
     \/ /\ g.selmask # {} /\ at' = "chosen"
        /\ UNCHANGED <<after, boot_disk, fate, disk, marker, g, program, sweep, left>>
     \/ \E t \in Tiers :
          /\ g' = [g EXCEPT !.selmask = IF t \in @ THEN @ \ {t} ELSE @ \cup {t}]
          /\ UNCHANGED <<at, after, boot_disk, fate, disk, marker, program, sweep, left>>

(* The tests of the chosen tiers are counted. *)
count_selected ==
  /\ at = "chosen" /\ at' = "counted"
  /\ \/ g' = [g EXCEPT !.total = Len(Selected(g.selmask))] /\ UNCHANGED <<sweep, left>>
     \/ /\ Fault({})
        /\ \E found \in Shortened(g.selmask) : g' = [g EXCEPT !.total = Len(found)]
  /\ UNCHANGED <<after, boot_disk, fate, disk, marker, program>>

NothingToRun ==
  /\ at = "counted" /\ g.total = 0
  /\ BackToMenu

(* The sweep that begins here.  Undisturbed is one over the right number   *)
(* of tests, and over no other's note.                                     *)
FreshSweep ==
  LET over == note \notin {None, Empty}
  IN  [NoSweep EXCEPT !.plan = Selected(g.selmask),
                      !.calm = ~over /\ g.total = Len(Selected(g.selmask)),
                      !.hurt = IF over THEN {"unread"} ELSE {}]

(* The log of the last sweep stays, for the results page to read. *)
Begin_log_kept ==
  /\ at = "counted" /\ g.total > 0 /\ left.sweeps > 0
  /\ left' = [left EXCEPT !.sweeps = @ - 1]
  /\ sweep' = FreshSweep
  /\ at' = "destroy" /\ after' = "next"
  /\ UNCHANGED <<boot_disk, fate, disk, marker, g, program>>

(* A fresh sweep: the log is destroyed if it can be, and the note saved. *)
Begin ==
  /\ at = "counted" /\ g.total > 0 /\ left.sweeps > 0
  /\ \/ /\ left' = [left EXCEPT !.sweeps = @ - 1]
        /\ log' = IF familyb THEN <<>> ELSE log
        /\ sweep' = FreshSweep
     \/ /\ familyb /\ left.faults > 0
        /\ left' = [left EXCEPT !.sweeps = @ - 1, !.faults = @ - 1]
        /\ log' = log
        /\ sweep' = Hurt(FreshSweep, {"log"})
  /\ at' = "destroy" /\ after' = "next"
  /\ UNCHANGED <<boot_disk, fate, note, swb, marker, g, program>>

-----------------------------------------------------------------------------
(* test_note_save, one operation on the disk at a time: the bytes reach it *)
(* with the close.  Nobody looks whether the old note went.                *)
NoteDestroyed ==
  /\ at = "destroy" /\ at' = "create"
  /\ \/ note' = None /\ UNCHANGED <<sweep, left>>
     \/ note # None /\ Fault({"note"}) /\ note' = note
  /\ UNCHANGED <<after, boot_disk, fate, log, swb, marker, g, program>>

(* No file is created over another. *)
NoteCreated ==
  /\ at = "create"
  /\ \/ note = None /\ note' = Empty /\ at' = "write" /\ UNCHANGED <<sweep, left>>
     \/ note # None /\ note' = note /\ at' = after /\ UNCHANGED <<sweep, left>>
     \/ note = None /\ Fault({}) /\ note' = note /\ at' = after
  /\ UNCHANGED <<after, boot_disk, fate, log, swb, marker, g, program>>

(* The note is taken before the test it is about is counted as started. *)
Body_before_advance == [g EXCEPT !.ord = IF after = "countdown" THEN @ - 1 ELSE @]

Body == g

NoteWritten ==
  /\ at = "write"
  /\ \/ note' = Body /\ UNCHANGED <<sweep, left>>
     \/ Fault({}) /\ note' = note
  /\ at' = after
  /\ UNCHANGED <<after, boot_disk, fate, log, swb, marker, g, program>>

test_note_save == NoteDestroyed \/ NoteCreated \/ NoteWritten

-----------------------------------------------------------------------------
(* results_page: the note is destroyed if it can be. *)
results_page == at' = "ending" /\ UNCHANGED <<after, boot_disk, fate, disk, marker, g, program, left>>

test_note_destroy ==
  /\ at = "ending" /\ at' = "tally"
  /\ \/ note' = None /\ UNCHANGED <<sweep, left>>
     \/ note # None /\ Fault({}) /\ note' = note
  /\ UNCHANGED <<after, boot_disk, fate, log, swb, marker, g, program>>

Verdicts == SubSeq(log, 1, Min({Len(log), NOTE_BYTES}))

(* The n-th verdict is taken for that of the n-th file found. *)
Listed(verdicts, found) ==
  {found[n] : n \in {k \in DOMAIN found \cap DOMAIN verdicts : verdicts[k] = "F"}}

(* Then, on a Compiler disk, the log is read, and the folders once more. *)
tally ==
  /\ at = "tally" /\ at' = "results"
  /\ \/ /\ familyb
        /\ sweep' = [sweep EXCEPT !.named = Listed(Verdicts, Selected(g.selmask))]
        /\ UNCHANGED left
     \/ ~familyb /\ UNCHANGED <<sweep, left>>
     \/ familyb /\ Fault({"page"})
     \/ /\ familyb /\ Fails
        /\ \E found \in Shortened(g.selmask) :
             sweep' = [Hurt(sweep, {"page"}) EXCEPT !.named = Listed(Verdicts, found)]
  /\ UNCHANGED <<after, boot_disk, fate, disk, marker, g, program>>

(* Where the cursor points, if its tier has so many tests. *)
AtTest ==
  /\ g.tier \in Tiers /\ g.tier \in g.selmask
  /\ g.ord <= Len(Swift(g.tier))

ThisTest == Swift(g.tier)[g.ord]

(* Family A reads the source itself; the Compiler is only told its name. *)
stage_only == familyb \/ fate[ThisTest] # "unreadable"

(* A turn of run_next's loop.  A folder that cannot be read up to the      *)
(* cursor is done with, and a source that cannot be read is left out.      *)
run_next ==
  /\ at = "next"
  /\ \/ g.tier \notin Tiers /\ results_page /\ UNCHANGED sweep
     \/ /\ g.tier \in Tiers
        /\ \/ ~AtTest /\ UNCHANGED <<sweep, left>>
           \/ AtTest /\ Fault({})
        /\ g' = [g EXCEPT !.tier = @ + 1, !.ord = 1]
        /\ UNCHANGED <<at, after, boot_disk, fate, disk, marker, program>>
     \/ /\ AtTest
        /\ \/ ~stage_only /\ UNCHANGED <<sweep, left>>
           \/ stage_only /\ ~familyb /\ Fault({})
        /\ g' = [g EXCEPT !.ord = @ + 1]
        /\ UNCHANGED <<at, after, boot_disk, fate, disk, marker, program>>
     \/ /\ AtTest /\ stage_only
        /\ g' = [g EXCEPT !.ord = @ + 1, !.count = @ + 1]
        /\ program' = ThisTest
        /\ at' = "destroy" /\ after' = "countdown"
        /\ UNCHANGED <<boot_disk, fate, disk, marker, sweep, left>>

(* Whatever disk it is: a REPL disk has no Runner to take the marker. *)
RunTest_any_disk ==
  /\ marker' = TRUE
  /\ sweep' = [sweep EXCEPT !.launched = Append(@, program)]
  /\ chain_bin(IF familyb THEN "compile" ELSE "program", program)
  /\ UNCHANGED <<after, boot_disk, fate, disk, left>>

(* Three seconds, or any key but Esc. *)
RunTest ==
  /\ marker' = (marker \/ familyb)
  /\ sweep' = [sweep EXCEPT !.launched = Append(@, program)]
  /\ chain_bin(IF familyb THEN "compile" ELSE "program", program)
  /\ UNCHANGED <<after, boot_disk, fate, disk, left>>

countdown ==
  /\ at = "countdown"
  /\ \/ RunTest
     \/ results_page /\ sweep' = [sweep EXCEPT !.calm = FALSE]

LeaveResults ==
  /\ at = "results"
  /\ BackToMenu

-----------------------------------------------------------------------------
(* The interpreter of a REPL disk runs the program, until the user types   *)
(* Ctrl-D, which restarts the machine.                                     *)
Interpreter ==
  /\ at = "program"
  /\ ToLauncher
  /\ UNCHANGED <<after, boot_disk, fate, disk, marker, sweep, left>>

Rejected == fate[program] \in {"rejected", "unreadable"}

(* compiler_main: the old .swb is deleted first, and the source is read    *)
(* over the marker if it is long enough.  Whatever fails on the way, the   *)
(* .swb may be the old one still, be gone, or be there in part.            *)
compile_file ==
  /\ at = "compile"
  /\ \/ /\ ~Rejected /\ swb' = swb \cup {program} /\ at' = "runner"
        /\ marker' = (marker /\ fate[program] # "long") /\ UNCHANGED <<sweep, left>>
     \/ /\ Rejected /\ swb' = swb \ {program} /\ at' = "error"
        /\ UNCHANGED <<marker, sweep, left>>
     \/ /\ Fault({}) /\ at' = "error"
        /\ \/ swb' \in {swb, swb \ {program}}
           \/ ~Rejected /\ swb' = swb \cup {program}
        /\ marker' \in {marker, marker /\ fate[program] # "long"}
  /\ UNCHANGED <<after, boot_disk, fate, note, log, g, program>>

(* The message stays until a key is struck. *)
wait_key ==
  /\ at = "error"
  /\ ToLauncher
  /\ UNCHANGED <<after, boot_disk, fate, disk, marker, sweep, left>>

testlog_failed == fate[program] = "fails"

(* runner_main, after the program's end: under the marker a verdict is     *)
(* logged, of a program it could not load too, and no key is waited for.   *)
Verdict(letter) ==
  log' = Append(log, letter) /\ program' = program /\ g' = g /\ at' = "cleanup"

run_file ==
  /\ at = "runner"
  /\ \/ /\ marker /\ Verdict(IF testlog_failed THEN "F" ELSE "P")
        /\ sweep' = [sweep EXCEPT !.logged = Append(@, program)]
        /\ UNCHANGED left
     \/ /\ marker /\ Fails /\ Verdict("P")
        /\ sweep' = [Hurt(sweep, {"log"}) EXCEPT !.logged = Append(@, program)]
     \/ marker /\ Fault({}) /\ at' = "cleanup" /\ UNCHANGED <<log, g, program>>
     \/ ~marker /\ ToLauncher /\ UNCHANGED <<log, sweep, left>>
  /\ UNCHANGED <<after, boot_disk, fate, note, swb, marker>>

(* Then its .swb is deleted, if it can be, and the marker taken. *)
CleanUp ==
  /\ at = "cleanup"
  /\ \/ swb' = swb \ {program} /\ UNCHANGED <<sweep, left>>
     \/ program \in swb /\ Fault({}) /\ swb' = swb
  /\ marker' = FALSE
  /\ ToLauncher
  /\ UNCHANGED <<after, boot_disk, fate, note, log>>

(* The machine is reset, or switched off and on: files stay. *)
Reset ==
  /\ left.resets > 0
  /\ left' = [left EXCEPT !.resets = @ - 1]
  /\ sweep' = [sweep EXCEPT !.calm = FALSE]
  /\ marker' \in {marker, FALSE}
  /\ ToLauncher
  /\ UNCHANGED <<after, boot_disk, fate, disk>>

Next ==
  \/ note_consume \/ chain_testrun \/ RunOwn
  \/ test_note_consume \/ intro_screen \/ selection_screen
  \/ count_selected \/ NothingToRun \/ Begin
  \/ test_note_save \/ run_next \/ countdown
  \/ test_note_destroy \/ tally \/ LeaveResults
  \/ Interpreter \/ compile_file \/ wait_key \/ run_file \/ CleanUp
  \/ Reset

Spec == Init /\ [][Next]_vars

-----------------------------------------------------------------------------
Position(test) == CHOOSE i \in DOMAIN sweep.plan : sweep.plan[i] = test

(* No test is started twice in a sweep and none out of turn, whatever      *)
(* resets and failing operations come between, but for two: a sweep that   *)
(* began over the note of another, which could not be read, and a note     *)
(* that could not be destroyed when it was to be saved anew: then the old  *)
(* one stays, and a test is started again.  What TESTRUN knows it wrote to *)
(* the note before it gave the machine away (test_note_save in run_next).  *)
(* And a sweep that nothing, nor the user, disturbed has by its results    *)
(* page run every test that can be read, and says so.                      *)
OnceInOrder ==
  "unread" \notin sweep.hurt =>
    /\ Range(sweep.launched) \subseteq Range(sweep.plan)
    /\ "note" \notin sweep.hurt =>
         \A i, j \in DOMAIN sweep.launched :
           i < j => Position(sweep.launched[i]) < Position(sweep.launched[j])
    /\ at = "results" /\ sweep.calm =>
         /\ g.count = Len(sweep.launched) /\ g.total = Len(sweep.plan)
         /\ Range(sweep.launched) =
              {t \in Range(sweep.plan) : familyb \/ fate[t] # "unreadable"}

(* The results page of a Compiler disk names the tests that printed FAIL,  *)
(* if every test up to the last one that left a verdict left one, once;    *)
(* the Runner appends a letter to TESTLOG, and results_page counts.  Not   *)
(* so if the log of the last sweep could not be destroyed, the sweep began *)
(* over a note that could not be read, the Runner could not load a test,   *)
(* or the page could not read the log or a folder.                         *)
FailuresNamed ==
  at = "results" /\ familyb /\ sweep.hurt \subseteq {"note"} /\ IsPrefix(sweep.logged, sweep.plan)
    => sweep.named = {t \in Range(sweep.logged) : fate[t] = "fails"}

(* The user's own program is never taken for a test: runner_main.c:285-286 *)
(* says "Only in TESTRUN mode - a normal [X] run keeps its saved .swb".    *)
OwnRunKept ==
  [][program = Own /\ at \in {"runner", "cleanup"} /\ left'.resets = left.resets
       => UNCHANGED disk]_vars
=============================================================================
