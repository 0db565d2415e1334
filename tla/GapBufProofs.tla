---------------------------- MODULE GapBufProofs ----------------------------
(***************************************************************************)
(* The gap buffer of GapBuf keeps the text it is given, for every size of  *)
(* the storage and every alphabet.                                         *)
(***************************************************************************)
EXTENDS GapBuf, SequenceTheorems, TLAPS

USE DEF Idle, Ready, gapbuf_len

(* What a step that copies or edits does to its variables. *)
LEMMA InitTypeOK == Init => TypeOK
  BY Storage DEF Init, TypeOK

LEMMA NextTypeOK == TypeOK /\ [Next]_vars => TypeOK'
<1> SUFFICES ASSUME TypeOK, [Next]_vars PROVE TypeOK'
  OBVIOUS
<1> USE Storage DEF TypeOK
<1>1. CASE Reinit
  BY <1>1 DEF Reinit
<1>2. CASE DeleteLeft
  BY <1>2 DEF DeleteLeft
<1>3. CASE DeleteRight
  BY <1>3 DEF DeleteRight
<1>4. ASSUME NEW b \in Bytes, Insert(b) PROVE TypeOK'
  BY <1>4 DEF Insert
<1>5. ASSUME NEW n \in Nat, BeginLeft(n) PROVE TypeOK'
  BY <1>5 DEF BeginLeft
<1>6. ASSUME NEW n \in Nat, BeginRight(n) PROVE TypeOK'
  BY <1>6 DEF BeginRight
<1>7. ASSUME NEW n \in Nat, BeginMoveTo(n) PROVE TypeOK'
  BY <1>5, <1>6, <1>7 DEF BeginMoveTo
<1>8. CASE CopyLeft
  <2>1. /\ gap_start - 1 - move.i \in 0 .. Cap - 1
        /\ gap_end - 1 - move.i \in 0 .. Cap - 1
    BY <1>8 DEF CopyLeft, Copying
  <2>2. buf' \in [0 .. Cap - 1 -> Bytes]
    BY <1>8, <2>1 DEF CopyLeft
  <2>3. /\ move' \in [dir : {"none", "left", "right"}, k : 0 .. Cap, i : 0 .. Cap]
        /\ move'.dir = "left" /\ move'.i <= move'.k /\ move'.k <= gap_start
    BY <1>8, SMTT(30) DEF CopyLeft, Copying
  <2> QED
    BY <1>8, <2>2, <2>3 DEF CopyLeft
<1>9. CASE CopyRight
  BY <1>9 DEF CopyRight, Copying
<1>10. CASE EndLeft
  BY <1>10 DEF EndLeft, Carried
<1>11. CASE EndRight
  BY <1>11 DEF EndRight, Carried
<1>12. ASSUME NEW n \in 0 .. Cap, NEW src \in [1 .. n -> Bytes], Load(src)
       PROVE TypeOK'
  BY <1>12 DEF Load
<1>13. CASE UNCHANGED vars
  BY <1>13 DEF vars
<1> QED
  BY <1>1, <1>2, <1>3, <1>4, <1>5, <1>6, <1>7, <1>8, <1>9, <1>10, <1>11,
     <1>12, <1>13 DEF Next

(* Type correctness: the gap stays inside the storage and a copy loop      *)
(* never carries more bytes than there are on its side of the gap.         *)
THEOREM TypeCorrect == Spec => []TypeOK
  BY InitTypeOK, NextTypeOK, PTL DEF Spec

-----------------------------------------------------------------------------
(* The text the buffer stands for. *)
LEMMA TextLength ==
  ASSUME TypeOK
  PROVE  /\ gapbuf_len \in 0 .. Cap
         /\ Text \in Seq(Bytes)
         /\ Len(Text) = gapbuf_len
         /\ DOMAIN Text = 1 .. gapbuf_len
<1>1. gapbuf_len \in 0 .. Cap
  BY Storage DEF TypeOK
<1>2. ASSUME NEW p \in 1 .. gapbuf_len
      PROVE  (IF p <= FrontLen THEN buf[p - 1]
              ELSE buf[p - 1 + gap_end - gap_start]) \in Bytes
  BY Storage DEF TypeOK, FrontLen
<1> QED
  BY <1>1, <1>2 DEF Text

Bounded == Text \in Seq(Bytes) /\ Len(Text) <= Cap

LEMMA TextBounded == TypeOK => Bounded
  BY TextLength, Storage DEF Bounded

LEMMA TextBoundedNext == TypeOK' => Bounded'
  BY TextBounded, PTL

LEMMA InsertKeepsPromise ==
  ASSUME TypeOK, NEW b \in Bytes, Insert(b) PROVE Promise!Insert(b)
<1>1. TypeOK'
  BY NextTypeOK DEF Next
<1>2. gapbuf_len' = gapbuf_len + 1 /\ gapbuf_len \in 0 .. Cap - 1
  BY Storage DEF TypeOK, Insert
<1>3. FrontLen = gap_start /\ FrontLen' = gap_start + 1
  BY DEF FrontLen, Insert, TypeOK
<1>4. ASSUME NEW p \in 1 .. gapbuf_len + 1
      PROVE  Text'[p] = IF p <= gap_start THEN Text[p]
                        ELSE IF p = gap_start + 1 THEN b ELSE Text[p - 1]
  BY <1>2, <1>3, Storage DEF Text, TypeOK, Insert
<1>5. Text' = Promise!Inserted(Text, gap_start, b)
  BY <1>2, <1>4, TextLength DEF Promise!Inserted, Text
<1>6. Len(Text) < Cap
  BY <1>2, TextLength, Storage
<1>7. gap_start' = gap_start + 1
  BY DEF Insert
<1> QED
  BY <1>5, <1>6, <1>7 DEF Promise!Insert

LEMMA DeleteKeepsPromise ==
  ASSUME TypeOK
  PROVE  /\ DeleteLeft => Promise!DeleteLeft
         /\ DeleteRight => Promise!DeleteRight
<1>1. ASSUME DeleteLeft PROVE Promise!DeleteLeft
  <2>1. gapbuf_len' = gapbuf_len - 1 /\ gapbuf_len \in 1 .. Cap
    BY <1>1, Storage DEF TypeOK, DeleteLeft
  <2>2. FrontLen = gap_start /\ FrontLen' = gap_start - 1
    BY <1>1 DEF FrontLen, DeleteLeft, TypeOK
  <2>3. ASSUME NEW p \in 1 .. gapbuf_len - 1
        PROVE  Text'[p] = IF p <= gap_start - 1 THEN Text[p] ELSE Text[p + 1]
    BY <1>1, <2>1, <2>2, Storage DEF Text, TypeOK, DeleteLeft
  <2>4. Text' = Promise!Removed(Text, gap_start - 1)
    BY <2>1, <2>3, TextLength DEF Promise!Removed, Text
  <2> QED
    BY <1>1, <2>4, Storage DEF Promise!DeleteLeft, DeleteLeft, TypeOK
<1>2. ASSUME DeleteRight PROVE Promise!DeleteRight
  <2>1. gapbuf_len' = gapbuf_len - 1 /\ gapbuf_len \in 1 .. Cap
    BY <1>2, Storage DEF TypeOK, DeleteRight
  <2>2. FrontLen = gap_start /\ FrontLen' = gap_start
    BY <1>2 DEF FrontLen, DeleteRight, TypeOK
  <2>3. ASSUME NEW p \in 1 .. gapbuf_len - 1
        PROVE  Text'[p] = IF p <= gap_start THEN Text[p] ELSE Text[p + 1]
    BY <1>2, <2>1, <2>2, Storage DEF Text, TypeOK, DeleteRight
  <2>4. Text' = Promise!Removed(Text, gap_start)
    BY <2>1, <2>3, TextLength DEF Promise!Removed, Text
  <2>5. gap_start < Len(Text)
    BY <1>2, TextLength, Storage DEF DeleteRight, TypeOK
  <2> QED
    BY <1>2, <2>4, <2>5 DEF Promise!DeleteRight, DeleteRight
<1> QED
  BY <1>1, <1>2

(* Starting a copy loop changes neither text nor cursor. *)
LEMMA BeginKeepsText ==
  ASSUME TypeOK, NEW n \in Nat, BeginLeft(n) \/ BeginRight(n)
  PROVE  Text' = Text /\ gap_start' = gap_start
<1>1. FrontLen' = FrontLen
  BY DEF FrontLen, BeginLeft, BeginRight, TypeOK
<1>2. UNCHANGED <<buf, gap_start, gap_end>>
  BY DEF BeginLeft, BeginRight
<1> QED
  BY <1>1, <1>2 DEF Text

(* Carrying one byte across the gap leaves the text as it was: the byte it *)
(* overwrites has been carried already or is inside the gap.               *)
LEMMA CopyKeepsText ==
  ASSUME TypeOK, CopyLeft \/ CopyRight
  PROVE  Text' = Text /\ gap_start' = gap_start
<1>1. CASE CopyLeft
  <2>1. UNCHANGED <<gap_start, gap_end>>
    BY <1>1 DEF CopyLeft
  <2>2. FrontLen = gap_start - move.i /\ FrontLen' = FrontLen - 1
    BY <1>1 DEF CopyLeft, Copying, FrontLen, TypeOK
  <2>3. buf' = [buf EXCEPT ![gap_end - 1 - move.i] = buf[gap_start - 1 - move.i]]
    BY <1>1 DEF CopyLeft
  <2>4. move.i \in 0 .. gap_start - 1
    BY <1>1 DEF CopyLeft, Copying, TypeOK
  <2>5. gap_end - 1 - move.i \in 0 .. Cap - 1
    BY <2>4, Storage DEF TypeOK
  <2>6. ASSUME NEW p \in 1 .. gapbuf_len PROVE Text'[p] = Text[p]
    <3>1. CASE p <= FrontLen'
      BY <2>1, <2>2, <2>3, <2>4, <2>5, <3>1, Storage, SMTT(30) DEF Text, TypeOK
    <3>2. CASE p = FrontLen
      <4>1. Text[p] = buf[gap_start - 1 - move.i]
        <5>1. p - 1 = gap_start - 1 - move.i
          BY <2>2, <2>4, <3>2, Storage DEF TypeOK
        <5> QED
          BY <3>2, <5>1, <2>2, <2>4, Storage DEF Text, TypeOK
      <4>2. Text'[p] = buf'[gap_end - 1 - move.i]
        <5>1. p - 1 + gap_end - gap_start = gap_end - 1 - move.i
          <6>1. gap_start \in Int /\ gap_end \in Int /\ move.i \in Int
            BY Storage DEF TypeOK
          <6>2. p = gap_start - move.i
            BY <2>2, <3>2
          <6>3. (gap_start - move.i) - 1 + gap_end - gap_start = gap_end - 1 - move.i
            BY <6>1, SMT
          <6> QED
            BY <6>2, <6>3
        <5>2. ~(p <= FrontLen')
          BY <2>2, <2>4, <3>2, Storage DEF TypeOK
        <5> QED
          BY <5>1, <5>2, <2>1 DEF Text
      <4>3. buf'[gap_end - 1 - move.i] = buf[gap_start - 1 - move.i]
        BY <2>3, <2>5 DEF TypeOK
      <4> QED
        BY <4>1, <4>2, <4>3
    <3>3. CASE p > FrontLen
      BY <2>1, <2>2, <2>3, <2>4, <2>5, <3>3, Storage, SMTT(30) DEF Text, TypeOK
    <3> QED
      BY <2>2, <2>4, <3>1, <3>2, <3>3, Storage DEF TypeOK
  <2> QED
    BY <2>1, <2>6 DEF Text
<1>2. CASE CopyRight
  <2>1. UNCHANGED <<gap_start, gap_end>>
    BY <1>2 DEF CopyRight
  <2>2. FrontLen = gap_start + move.i /\ FrontLen' = FrontLen + 1
    BY <1>2 DEF CopyRight, Copying, FrontLen, TypeOK
  <2>3. buf' = [buf EXCEPT ![gap_start + move.i] = buf[gap_end + move.i]]
    BY <1>2 DEF CopyRight
  <2>4. move.i \in 0 .. Cap - gap_end - 1
    BY <1>2, Storage DEF CopyRight, Copying, TypeOK
  <2>5. gap_start + move.i \in 0 .. Cap - 1
    BY <2>4, Storage DEF TypeOK
  <2>6. ASSUME NEW p \in 1 .. gapbuf_len PROVE Text'[p] = Text[p]
    <3>1. CASE p <= FrontLen
      BY <2>1, <2>2, <2>3, <2>4, <2>5, <3>1, Storage DEF Text, TypeOK
    <3>2. CASE p = FrontLen + 1
      <4>1. Text[p] = buf[gap_end + move.i]
        <5>1. p - 1 + gap_end - gap_start = gap_end + move.i
          BY <2>2, <2>4, <3>2, Storage, SMTT(30) DEF TypeOK
        <5>2. ~(p <= FrontLen)
          BY <2>2, <2>4, <3>2, Storage DEF TypeOK
        <5> QED
          BY <5>1, <5>2 DEF Text
      <4>2. Text'[p] = buf'[gap_start + move.i]
        <5>1. p - 1 = gap_start + move.i /\ p <= FrontLen'
          BY <2>2, <2>4, <3>2, Storage DEF TypeOK
        <5> QED
          BY <5>1, <2>1 DEF Text
      <4>3. buf'[gap_start + move.i] = buf[gap_end + move.i]
        BY <2>3, <2>5 DEF TypeOK
      <4> QED
        BY <4>1, <4>2, <4>3
    <3>3. CASE p > FrontLen + 1
      BY <2>1, <2>2, <2>3, <2>4, <2>5, <3>3, Storage DEF Text, TypeOK
    <3> QED
      BY <2>2, <2>4, <3>1, <3>2, <3>3, Storage DEF TypeOK
  <2> QED
    BY <2>1, <2>6 DEF Text
<1> QED
  BY <1>1, <1>2

LEMMA EndKeepsPromise ==
  ASSUME TypeOK, EndLeft \/ EndRight PROVE Promise!Move
<1>1. FrontLen' = FrontLen /\ gap_start' \in 0 .. gapbuf_len
  BY Storage DEF EndLeft, EndRight, Carried, FrontLen, TypeOK
<1>2. /\ gapbuf_len' = gapbuf_len /\ buf' = buf
      /\ gap_end' - gap_start' = gap_end - gap_start
  BY Storage DEF EndLeft, EndRight, Carried, TypeOK
<1>3. ASSUME NEW p \in 1 .. gapbuf_len
      PROVE  p - 1 + gap_end' - gap_start' = p - 1 + gap_end - gap_start
  BY Storage DEF EndLeft, EndRight, Carried, TypeOK
<1>4. Text' = Text
  BY <1>1, <1>2, <1>3 DEF Text
<1> QED
  BY <1>1, <1>4, TextLength DEF Promise!Move

LEMMA LoadKeepsPromise ==
  ASSUME TypeOK, TypeOK',
         Reinit \/ \E n \in 0 .. Cap : \E src \in [1 .. n -> Bytes] : Load(src)
  PROVE  Promise!Load
<1>1. gap_start' = 0
  BY DEF Reinit, Load
<1>2. Text' \in Seq(Bytes) /\ Len(Text') <= Cap
  BY TextBoundedNext DEF Bounded
<1> QED
  BY <1>1, <1>2 DEF Promise!Load

(* Editing through the gap implements editing a text at its cursor: every  *)
(* operation of gapbuf.c maps to one edit, and the steps of its copy loops *)
(* to none, whatever the size of the gap.                                  *)
THEOREM KeepsTextCorrect == Spec => KeepsText
<1>1. Init => Promise!Init
  <2> SUFFICES ASSUME Init PROVE Promise!Init
    OBVIOUS
  <2>1. gapbuf_len = 0
    BY Storage DEF Init
  <2>2. Text = <<>>
    BY <2>1 DEF Text
  <2> QED
    BY <2>2 DEF Init, Promise!Init
<1>2. TypeOK /\ [Next]_vars => [Promise!Next]_<<Text, gap_start>>
  <2> SUFFICES ASSUME TypeOK, [Next]_vars
               PROVE  [Promise!Next]_<<Text, gap_start>>
    OBVIOUS
  <2>1. CASE Reinit \/ \E n \in 0 .. Cap : \E src \in [1 .. n -> Bytes] : Load(src)
    BY <2>1, NextTypeOK, LoadKeepsPromise DEF Promise!Next
  <2>2. CASE DeleteLeft \/ DeleteRight
    BY <2>2, DeleteKeepsPromise DEF Promise!Next
  <2>3. ASSUME NEW b \in Bytes, Insert(b)
        PROVE  [Promise!Next]_<<Text, gap_start>>
    BY <2>3, InsertKeepsPromise DEF Promise!Next
  <2>4. ASSUME NEW n \in Nat, BeginLeft(n) \/ BeginRight(n)
        PROVE  UNCHANGED <<Text, gap_start>>
    BY <2>4, BeginKeepsText
  <2>5. ASSUME NEW n \in 0 .. Cap + 1, BeginMoveTo(n)
        PROVE  UNCHANGED <<Text, gap_start>>
    <3>1. \E k \in Nat : BeginLeft(k) \/ BeginRight(k)
      BY <2>5, Storage DEF BeginMoveTo, TypeOK
    <3> QED
      BY <3>1, <2>4
  <2>6. CASE CopyLeft \/ CopyRight
    BY <2>6, CopyKeepsText
  <2>7. CASE EndLeft \/ EndRight
    BY <2>7, EndKeepsPromise DEF Promise!Next
  <2>8. CASE UNCHANGED vars
    BY <2>8 DEF vars, Text, FrontLen
  <2> QED
    BY <2>1, <2>2, <2>3, <2>4, <2>5, <2>6, <2>7, <2>8, Storage DEF Next
<1> QED
  BY <1>1, <1>2, TypeCorrect, PTL DEF Spec, KeepsText, Promise!Spec

-----------------------------------------------------------------------------
(* The two stretches gapbuf_serialize copies, one behind the other, are    *)
(* the beginning of the text.                                              *)
LEMMA StretchesAreText ==
  ASSUME TypeOK, Ready, NEW pre \in 0 .. gap_start, NEW post \in 0 .. Cap - gap_end,
         post > 0 => pre = gap_start
  PROVE  [j \in 1 .. pre |-> buf[j - 1]] \o [j \in 1 .. post |-> buf[gap_end + j - 1]]
           = SubSeq(Text, 1, pre + post)
<1> DEFINE front == [j \in 1 .. pre |-> buf[j - 1]]
           back == [j \in 1 .. post |-> buf[gap_end + j - 1]]
<1>1. /\ gap_start \in Nat /\ gap_end \in Nat /\ gap_start <= gap_end /\ gap_end <= Cap
      /\ pre \in Nat /\ post \in Nat /\ pre + post <= gapbuf_len
      /\ gapbuf_len \in Nat
  BY Storage DEF TypeOK
<1>2. /\ front \in Seq(Bytes) /\ Len(front) = pre
      /\ \A j \in 1 .. pre : front[j] = buf[j - 1]
  <2>1. \A j \in 1 .. pre : buf[j - 1] \in Bytes
    BY <1>1, Storage DEF TypeOK
  <2> QED
    BY <1>1, <2>1
<1>3. /\ back \in Seq(Bytes) /\ Len(back) = post
      /\ \A j \in 1 .. post : back[j] = buf[gap_end + j - 1]
  <2>1. \A j \in 1 .. post : buf[gap_end + j - 1] \in Bytes
    BY <1>1, Storage DEF TypeOK
  <2> QED
    BY <1>1, <2>1
<1> HIDE DEF front, back
<1>4. /\ front \o back \in Seq(Bytes) /\ Len(front \o back) = pre + post
      /\ \A j \in 1 .. pre + post :
           (front \o back)[j] = IF j <= pre THEN front[j] ELSE back[j - pre]
  BY <1>1, <1>2, <1>3, ConcatProperties, ZenonT(60)
<1>5. /\ SubSeq(Text, 1, pre + post) \in Seq(Bytes)
      /\ Len(SubSeq(Text, 1, pre + post)) = pre + post
      /\ \A j \in 1 .. pre + post : SubSeq(Text, 1, pre + post)[j] = Text[j]
  BY <1>1, TextLength
<1>6. ASSUME NEW j \in 1 .. pre + post PROVE (front \o back)[j] = Text[j]
  <2>1. FrontLen = gap_start /\ j \in 1 .. gapbuf_len
    BY <1>1 DEF FrontLen
  <2>2. Text[j] = IF j <= gap_start THEN buf[j - 1]
                  ELSE buf[j - 1 + gap_end - gap_start]
    BY <2>1 DEF Text
  <2>3. CASE j <= pre
    <3>1. j \in 1 .. pre /\ j <= gap_start
      BY <1>1, <2>3
    <3> QED
      BY <1>2, <1>4, <2>2, <3>1
  <2>4. CASE ~(j <= pre)
    <3>1. /\ j - pre \in 1 .. post /\ pre = gap_start /\ ~(j <= gap_start)
          /\ gap_end + (j - pre) - 1 = j - 1 + gap_end - gap_start
      BY <1>1, <2>4
    <3>2. (front \o back)[j] = back[j - pre]
      BY <1>4, <2>4
    <3> QED
      BY <1>3, <2>2, <3>1, <3>2
  <2> QED
    BY <2>3, <2>4
<1>7. front \o back = SubSeq(Text, 1, pre + post)
  BY <1>1, <1>4, <1>5, <1>6, SeqEqual
<1> QED
  BY <1>7 DEF front, back

(* Saving writes what is shown: for every size of the storage and every    *)
(* place of the gap, gapbuf_serialize gives the longest beginning of the   *)
(* text that fits, byte for byte what gapbuf_at reads.                     *)
THEOREM ReadersAgreeCorrect == Spec => []ReadersAgree
<1>1. TypeOK => ReadersAgree
  <2> SUFFICES ASSUME TypeOK, Ready
               PROVE  /\ \A p \in 1 .. gapbuf_len : gapbuf_at(p - 1) = Text[p]
                      /\ \A n \in 0 .. gapbuf_len :
                           gapbuf_serialize(n) = SubSeq(Text, 1, n)
                      /\ gapbuf_serialize(Cap) = Text
    BY DEF ReadersAgree
  <2>1. /\ gap_start \in Nat /\ gap_end \in Nat /\ gap_start <= gap_end /\ gap_end <= Cap
        /\ gapbuf_len \in 0 .. Cap
    BY Storage DEF TypeOK
  <2>2. ASSUME NEW p \in 1 .. gapbuf_len PROVE gapbuf_at(p - 1) = Text[p]
    <3>1. gap_end + (p - 1 - gap_start) = p - 1 + gap_end - gap_start
      BY <2>1
    <3>2. p - 1 < gap_start <=> p <= gap_start
      BY <2>1
    <3>3. Text[p] = IF p <= gap_start THEN buf[p - 1]
                    ELSE buf[p - 1 + gap_end - gap_start]
      BY DEF Text, FrontLen
    <3> QED
      BY <3>1, <3>2, <3>3 DEF gapbuf_at
  <2>3. ASSUME NEW n \in 0 .. gapbuf_len
        PROVE  gapbuf_serialize(n) = SubSeq(Text, 1, n)
    <3> DEFINE pre == IF n < gap_start THEN n ELSE gap_start
               post == IF n - pre < Cap - gap_end THEN n - pre ELSE Cap - gap_end
    <3>1. /\ pre \in 0 .. gap_start /\ post \in 0 .. Cap - gap_end
          /\ post > 0 => pre = gap_start
          /\ pre + post = n
      BY <2>1, Storage
    <3>2. gapbuf_serialize(n) = [j \in 1 .. pre |-> buf[j - 1]]
                                  \o [j \in 1 .. post |-> buf[gap_end + j - 1]]
      BY DEF gapbuf_serialize
    <3> HIDE DEF pre, post
    <3> QED
      BY <3>1, <3>2, StretchesAreText
  <2>4. gapbuf_serialize(Cap) = Text
    <3>1. gapbuf_serialize(Cap) = gapbuf_serialize(gapbuf_len)
      <4>1. (IF Cap < gap_start THEN Cap ELSE gap_start)
              = (IF gapbuf_len < gap_start THEN gapbuf_len ELSE gap_start)
        BY <2>1, Storage
      <4>2. (IF Cap - gap_start < Cap - gap_end THEN Cap - gap_start
             ELSE Cap - gap_end) = Cap - gap_end
        BY <2>1, Storage
      <4>3. (IF gapbuf_len - gap_start < Cap - gap_end THEN gapbuf_len - gap_start
             ELSE Cap - gap_end) = Cap - gap_end
        BY <2>1, Storage
      <4>4. (IF Cap < gap_start THEN Cap ELSE gap_start) = gap_start
        BY <2>1, Storage
      <4> QED
        BY <4>1, <4>2, <4>3, <4>4 DEF gapbuf_serialize
    <3>2. SubSeq(Text, 1, Len(Text)) = Text
      BY TextLength, SubSeqFull
    <3> QED
      BY <2>1, <2>3, <3>1, <3>2, TextLength
  <2> QED
    BY <2>2, <2>3, <2>4
<1> QED
  BY <1>1, TypeCorrect, PTL
=============================================================================
