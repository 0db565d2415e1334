------------------------------- MODULE SrcWin -------------------------------
(***************************************************************************)
(* src/compiler/srcwin.c: the source window slides along an open file      *)
(* under a reader that knows only offsets into the window.  Here the       *)
(* reader is any that scans forward inside the window, may put a copy of   *)
(* its lexer aside and come back to it, and lets the window slide only     *)
(* while no copy is aside.  Streaming.tla has the compiler as that reader. *)
(***************************************************************************)
EXTENDS WindowSize, Integers, Sequences

CONSTANT Byte

VARIABLES
  file,            (* The file on the disk; a compile does not change it.  *)
  win,             (* The first L->len bytes of w->win.                    *)
  eof,             (* w->eof.                                              *)
  base,            (* Ghost: where in the file the window begins.          *)
  pos, tok_pos,    (* The lexer's.                                         *)
  held             (* The copy put aside, NotHeld for none.                *)

winVars == <<file, win, eof, base, pos, tok_pos, held>>

NotHeld == [pos |-> -1, tok_pos |-> -1]

(* w->rd: how much of the file has been read. *)
rd == base + Len(win)

Least(a, b) == IF a <= b THEN a ELSE b

-----------------------------------------------------------------------------
(* top_up, from `kept` bytes in the window on: pf_read is asked for what    *)
(* there is room for until there is no room or nothing more comes, which    *)
(* counts as the end of the file.  `fails` is the read that goes wrong.     *)
top_up(kept, fails) ==
  LET room == Cap - Len(kept)
      got == IF fails THEN 0 ELSE Least(room, Len(file) - rd)
  IN  /\ win' = kept \o SubSeq(file, rd + 1, rd + got)
      /\ eof' = (got < room)

(* Mutant: the slide waits until the window is nearly used up. *)
Slides_late == ~ eof /\ pos >= Cap - 2 /\ tok_pos # 0

(* The scan is past half the window, there is more to read, and something   *)
(* before the current token to drop.                                        *)
Slides == ~ eof /\ pos >= Cap \div 2 /\ tok_pos # 0

(* srcwin_refill, at a separator: what is before the current token is       *)
(* dropped, and the file read on.                                           *)
srcwin_refill(fails) ==
  \/ /\ Slides
     /\ base' = base + tok_pos
     /\ pos' = pos - tok_pos
     /\ tok_pos' = 0
     /\ top_up(SubSeq(win, tok_pos + 1, Len(win)), fails)
  \/ /\ ~ Slides
     /\ UNCHANGED <<win, eof, base, pos, tok_pos>>

-----------------------------------------------------------------------------
(* srcwin_open and lexer_init; a failing first read gives an empty window. *)
WinInit ==
  /\ file \in Seq(Byte)
  /\ \E got \in {0, Least(Cap, Len(file))} :
       /\ win = SubSeq(file, 1, got)
       /\ eof = (got < Cap)
  /\ base = 0 /\ pos = 0 /\ tok_pos = 0
  /\ held = NotHeld

(* lexer_next, as far as the window can tell. *)
Scan ==
  /\ pos' \in pos .. Len(win)
  /\ tok_pos' \in tok_pos .. pos'
  /\ UNCHANGED <<file, win, eof, base, held>>

(* saved = p->L *)
PutAside ==
  /\ held = NotHeld
  /\ held' = [pos |-> pos, tok_pos |-> tok_pos]
  /\ UNCHANGED <<file, win, eof, base, pos, tok_pos>>

(* p->L = saved *)
ComeBack ==
  /\ held # NotHeld
  /\ pos' = held.pos /\ tok_pos' = held.tok_pos
  /\ held' = NotHeld
  /\ UNCHANGED <<file, win, eof, base>>

(* The copy is not needed after all, and a token is read. *)
GoOn ==
  /\ held # NotHeld
  /\ held' = NotHeld
  /\ pos' \in pos .. Len(win)
  /\ tok_pos' \in tok_pos .. pos'
  /\ UNCHANGED <<file, win, eof, base>>

Refill ==
  /\ held = NotHeld
  /\ \E fails \in BOOLEAN : srcwin_refill(fails)
  /\ UNCHANGED <<file, held>>

WinNext == Scan \/ PutAside \/ ComeBack \/ GoOn \/ Refill

WinSpec == WinInit /\ [][WinNext]_winVars

-----------------------------------------------------------------------------
(* The window shows an unbroken stretch of the file, as much of it as has   *)
(* been read and is not yet behind: no byte is lost or read twice by a      *)
(* slide (srcwin.c:43-65).                                                  *)
WindowShowsFile ==
  /\ base + Len(win) <= Len(file)
  /\ win = SubSeq(file, base + 1, base + Len(win))

(* A place in the file is only left behind when the lexer is past its       *)
(* token: no slide drops the current token or anything after it, and none   *)
(* happens under a copy that was put aside (statements.c:1680-1686).        *)
NothingDropped ==
  [][ /\ base' <= base + tok_pos
      /\ held # NotHeld => base' = base ]_winVars

(* Type correctness, with the offsets inside the window. *)
WinTypeOK ==
  /\ file \in Seq(Byte) /\ win \in Seq(Byte) /\ Len(win) <= Cap
  /\ eof \in BOOLEAN /\ base \in Nat
  /\ pos \in 0 .. Len(win) /\ tok_pos \in 0 .. pos
  /\ \/ held = NotHeld
     \/ held \in [pos : 0 .. Len(win), tok_pos : 0 .. Len(win)]
        /\ held.tok_pos <= held.pos
=============================================================================
