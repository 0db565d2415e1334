---------------------------- MODULE SrcWinProofs ----------------------------
(***************************************************************************)
(* The source window of SrcWin shows the file it slides along, for every   *)
(* file, every size of the window and every reader.                        *)
(***************************************************************************)
EXTENDS SrcWin, SequenceTheorems, TLAPS

(* What is known of the window: its type, and that it shows the file. *)
WinInv == WinTypeOK /\ WindowShowsFile

(* A stretch of the file, read on by `got` bytes. *)
LEMMA ReadOn ==
  ASSUME NEW b \in Nat, NEW m \in Nat, NEW got \in Nat,
         file \in Seq(Byte), b <= m, m + got <= Len(file)
  PROVE  /\ SubSeq(file, b + 1, m) \o SubSeq(file, m + 1, m + got)
              = SubSeq(file, b + 1, m + got)
         /\ SubSeq(file, b + 1, m + got) \in Seq(Byte)
         /\ Len(SubSeq(file, b + 1, m + got)) = m + got - b
<1>1. \A i \in b + 1 .. m + got : file[i] \in Byte
  BY ElementOfSeq, LenProperties
<1>2. /\ SubSeq(file, b + 1, m + got) \in Seq(Byte)
      /\ Len(SubSeq(file, b + 1, m + got)) = m + got - b
  BY <1>1, SubSeqProperties
<1>3. SubSeq(file, b + 1, m) \o SubSeq(file, m + 1, m + got)
        = SubSeq(file, b + 1, m + got)
  <2>1. /\ Len(file) \in Nat
        /\ b + 1 \in 1 .. Len(file) + 1
        /\ m \in b + 1 - 1 .. Len(file)
        /\ m + got \in m .. Len(file)
    BY LenProperties
  <2> QED
    BY <2>1, ConcatAdjacentSubSeq
<1> QED
  BY <1>2, <1>3

(* What the window keeps when its first `gone` bytes go. *)
LEMMA Kept ==
  ASSUME WinInv, NEW gone \in 0 .. Len(win)
  PROVE  SubSeq(win, gone + 1, Len(win)) = SubSeq(file, base + gone + 1, base + Len(win))
<1> DEFINE n == Len(win)
<1>1. /\ file \in Seq(Byte) /\ win \in Seq(Byte) /\ base \in Nat /\ n \in Nat
      /\ base + n <= Len(file)
      /\ win = SubSeq(file, base + 1, base + n)
  BY LenProperties DEF WinInv, WinTypeOK, WindowShowsFile
<1>2. \A i \in base + 1 .. base + n : file[i] \in Byte
  BY <1>1, ElementOfSeq, LenProperties
<1>3. \A i \in 1 .. n : win[i] = file[base + i] /\ win[i] \in Byte
  BY <1>1, <1>2, SubSeqProperties
<1> DEFINE s == SubSeq(win, gone + 1, n)
           t == SubSeq(file, base + gone + 1, base + n)
<1>4. /\ s \in Seq(Byte) /\ Len(s) = n - gone
      /\ \A i \in 1 .. n - gone : s[i] = win[gone + i]
  <2>1. gone + 1 \in Int /\ n \in Int /\ gone \in 0 .. n
    BY <1>1
  <2>2. \A i \in gone + 1 .. n : win[i] \in Byte
    BY <1>3, <2>1
  <2> QED
    BY <2>1, <2>2, SubSeqProperties
<1>5. /\ t \in Seq(Byte) /\ Len(t) = n - gone
      /\ \A i \in 1 .. n - gone : t[i] = file[base + gone + i]
  BY <1>1, <1>2, SubSeqProperties, SMTT(30)
<1>6. \A i \in 1 .. Len(s) : s[i] = t[i]
  BY <1>1, <1>3, <1>4, <1>5
<1> HIDE DEF s, t
<1>7. s = t
  BY <1>4, <1>5, <1>6, SeqEqual
<1> QED
  BY <1>7 DEF s, t

(* The window after it slides: it is read on as far as there is room. *)
LEMMA AfterSlide ==
  ASSUME WinInv, NEW fails \in BOOLEAN, srcwin_refill(fails), Slides,
         UNCHANGED <<file, held>>, held = NotHeld
  PROVE  WinInv' /\ base' = base + tok_pos
<1> DEFINE n == Len(win)
           kept == SubSeq(win, tok_pos + 1, n)
           room == Cap - Len(kept)
           got == IF fails THEN 0 ELSE Least(room, Len(file) - rd)
<1>1. /\ file \in Seq(Byte) /\ win \in Seq(Byte) /\ base \in Nat /\ n \in Nat
      /\ n <= Cap /\ pos \in 0 .. n /\ tok_pos \in 0 .. pos
      /\ base + n <= Len(file) /\ Len(file) \in Nat /\ Cap \in Nat
  BY LenProperties, CapIsPositive DEF WinInv, WinTypeOK, WindowShowsFile
<1>2. kept = SubSeq(file, base + tok_pos + 1, base + n)
  BY <1>1, Kept
<1>3. Len(kept) = n - tok_pos
  <2>1. \A i \in tok_pos + 1 .. n : win[i] \in Byte
    BY <1>1, ElementOfSeq, LenProperties
  <2> QED
    BY <2>1, <1>1, SubSeqProperties
<1> HIDE DEF kept
<1>4. got \in 0 .. room /\ base + n + got <= Len(file)
  <2>1. room \in Nat /\ Len(file) - rd \in Nat /\ rd = base + n
    BY <1>1, <1>3 DEF rd
  <2>2. Least(room, Len(file) - rd) \in 0 .. room
        /\ Least(room, Len(file) - rd) <= Len(file) - rd
    BY <2>1 DEF Least
  <2>3. got = 0 \/ got = Least(room, Len(file) - rd)
    OBVIOUS
  <2> HIDE DEF room, got
  <2> QED
    BY <1>1, <2>1, <2>2, <2>3
<1>5. /\ base' = base + tok_pos /\ pos' = pos - tok_pos /\ tok_pos' = 0
      /\ win' = kept \o SubSeq(file, base + n + 1, base + n + got)
      /\ eof' = (got < room)
  BY DEF srcwin_refill, top_up, rd, kept
<1> HIDE DEF got
<1>6. /\ win' = SubSeq(file, base + tok_pos + 1, base + n + got)
      /\ win' \in Seq(Byte) /\ Len(win') = n + got - tok_pos
  <2> DEFINE b == base + tok_pos
             m == base + n
  <2>1. b \in Nat /\ m \in Nat /\ got \in Nat /\ b <= m /\ m + got <= Len(file)
    BY <1>1, <1>3, <1>4
  <2> HIDE DEF b, m
  <2>2. /\ SubSeq(file, b + 1, m) \o SubSeq(file, m + 1, m + got)
             = SubSeq(file, b + 1, m + got)
        /\ SubSeq(file, b + 1, m + got) \in Seq(Byte)
        /\ Len(SubSeq(file, b + 1, m + got)) = m + got - b
    BY <2>1, <1>1, ReadOn
  <2>3. win' = SubSeq(file, b + 1, m + got)
    BY <2>2, <1>2, <1>5 DEF b, m
  <2>4. m + got - b = n + got - tok_pos
    BY <1>1, <1>3, <1>4 DEF b, m
  <2> QED
    BY <2>2, <2>3, <2>4 DEF b, m
<1>7. base' + Len(win') = base + n + got
  <2>1. got \in Nat /\ n \in Nat /\ tok_pos \in Nat /\ base \in Nat
    BY <1>1, <1>3, <1>4
  <2>2. base' = base + tok_pos /\ Len(win') = n + got - tok_pos
    BY <1>5, <1>6
  <2> HIDE DEF n
  <2> QED
    BY <2>1, <2>2
<1>8. WindowShowsFile'
  BY <1>4, <1>5, <1>6, <1>7 DEF WindowShowsFile
<1>9. WinTypeOK'
  <2>1. held' = NotHeld /\ file' \in Seq(Byte) /\ win' \in Seq(Byte)
    BY <1>1, <1>6
  <2>2. eof' \in BOOLEAN
    BY <1>5
  <2>3. n \in Nat /\ got \in Nat /\ tok_pos \in 0 .. pos /\ pos \in 0 .. n /\ base \in Nat
    BY <1>1, <1>3, <1>4
  <2>4. n + got - tok_pos <= Cap /\ Len(win') = n + got - tok_pos
    <3> HIDE DEF n
    <3> QED
      BY <2>3, <1>1, <1>3, <1>4, <1>6
  <2>5. base' \in Nat /\ pos' \in 0 .. Len(win') /\ tok_pos' \in 0 .. pos'
    <3> HIDE DEF n
    <3> QED
      BY <1>5, <2>3, <2>4
  <2>6. Len(win') <= Cap
    BY <2>4
  <2> QED
    BY <2>1, <2>2, <2>5, <2>6 DEF WinTypeOK
<1> QED
  BY <1>5, <1>8, <1>9 DEF WinInv

LEMMA WinInit1 == WinInit => WinInv
<1> SUFFICES ASSUME WinInit PROVE WinInv
  OBVIOUS
<1>1. file \in Seq(Byte) /\ Len(file) \in Nat /\ Cap \in Nat
  BY LenProperties, CapIsPositive DEF WinInit
<1>2. PICK got \in {0, Least(Cap, Len(file))} :
             win = SubSeq(file, 1, got) /\ eof = (got < Cap)
  BY DEF WinInit
<1>3. got \in 0 .. Cap /\ got <= Len(file)
  BY <1>1, <1>2 DEF Least
<1>4. \A i \in 1 .. got : file[i] \in Byte
  BY <1>1, <1>3, ElementOfSeq
<1>5. win \in Seq(Byte) /\ Len(win) = got
  BY <1>2, <1>3, <1>4, SubSeqProperties
<1> QED
  BY <1>1, <1>2, <1>3, <1>5 DEF WinInit, WinInv, WinTypeOK, WindowShowsFile

LEMMA WinStep == WinInv /\ [WinNext]_winVars => WinInv'
<1> SUFFICES ASSUME WinInv, [WinNext]_winVars PROVE WinInv'
  OBVIOUS
<1> USE DEF WinInv, WinTypeOK, WindowShowsFile
<1>1. Len(win) \in Nat
  BY LenProperties
<1>2. CASE Scan
  BY <1>1, <1>2 DEF Scan
<1>3. CASE PutAside
  BY <1>1, <1>3 DEF PutAside, NotHeld
<1>4. CASE ComeBack
  BY <1>1, <1>4 DEF ComeBack, NotHeld
<1>5. CASE GoOn
  BY <1>1, <1>5 DEF GoOn
<1>6. CASE Refill
  <2>1. PICK fails \in BOOLEAN : srcwin_refill(fails)
    BY <1>6 DEF Refill
  <2>2. CASE Slides
    BY <1>6, <2>1, <2>2, AfterSlide DEF Refill
  <2>3. CASE ~ Slides
    BY <1>6, <2>1, <2>3 DEF Refill, srcwin_refill
  <2> QED
    BY <2>2, <2>3
<1>7. CASE UNCHANGED winVars
  BY <1>7 DEF winVars
<1> QED
  BY <1>2, <1>3, <1>4, <1>5, <1>6, <1>7 DEF WinNext

(* Type correctness: the lexer's offsets, and those of a copy put aside,   *)
(* are always inside the window.                                           *)
THEOREM WindowTypeCorrect == WinSpec => []WinTypeOK
<1>1. WinInv => WinTypeOK
  BY DEF WinInv
<1> QED
  BY <1>1, WinInit1, WinStep, PTL DEF WinSpec

(* No slide loses a byte of the file or shows one twice: at every moment   *)
(* the window is an unbroken stretch of the file.                          *)
THEOREM WindowIsOfFile == WinSpec => []WindowShowsFile
<1>1. WinInv => WindowShowsFile
  BY DEF WinInv
<1> QED
  BY <1>1, WinInit1, WinStep, PTL DEF WinSpec

(* No slide drops the current token or what is after it, and none happens  *)
(* under a copy of the lexer that may be gone back to.                     *)
THEOREM NothingIsDropped == WinSpec => NothingDropped
<1> DEFINE A == /\ base' <= base + tok_pos
                /\ held # NotHeld => base' = base
<1>1. WinInv /\ [WinNext]_winVars => [A]_winVars
  <2> SUFFICES ASSUME WinInv, WinNext PROVE A
    BY DEF winVars
  <2>1. base \in Nat /\ Len(win) \in Nat /\ tok_pos \in 0 .. pos /\ pos \in 0 .. Len(win)
    BY LenProperties DEF WinInv, WinTypeOK
  <2>2. CASE Scan \/ PutAside \/ ComeBack \/ GoOn
    BY <2>1, <2>2 DEF Scan, PutAside, ComeBack, GoOn
  <2>3. CASE Refill
    BY <2>1, <2>3 DEF Refill, srcwin_refill
  <2> QED
    BY <2>2, <2>3 DEF WinNext
<1> QED
  BY <1>1, WinInit1, WinStep, PTL DEF WinSpec, NothingDropped
=============================================================================
