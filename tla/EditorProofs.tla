---------------------------- MODULE EditorProofs ----------------------------
(***************************************************************************)
(* The editor's sessions, for every name, disk, key and size: a text shown *)
(* as saved is the file's, a text goes through the two translators and     *)
(* back unchanged, and Ctrl-R brings the user back.                        *)
(***************************************************************************)
EXTENDS Editor, SequenceTheorems, FiniteSetTheorems, WellFoundedInduction, TLAPS

-----------------------------------------------------------------------------
(* Induction over the tokens of a text.                                    *)
LEMMA LeastNumber ==
  ASSUME NEW T \in SUBSET Nat, T # {}
  PROVE  \E x \in T : \A y \in T : x <= y
<1> DEFINE R == OpToRel(<, Nat)
<1>1. IsWellFoundedOn(R, Nat)
  BY NatLessThanWellFounded
<1>2. PICK x \in T : \A y \in T : ~(<<y, x>> \in R)
  <2> HIDE DEF R
  <2> QED
    BY <1>1, WFMin
<1>3. \A y \in T : ~(y < x)
  BY <1>2 DEF OpToRel
<1> QED
  BY <1>3

LEMMA Steps ==
  ASSUME NEW n \in Nat, NEW S, 0 \in S,
         \A i \in 0 .. n - 1 : i \in S => i + 1 \in S
  PROVE  \A i \in 0 .. n : i \in S
<1> DEFINE T == {i \in 0 .. n : i \notin S}
<1> SUFFICES ASSUME T # {} PROVE FALSE
  OBVIOUS
<1>1. PICK x \in T : \A y \in T : x <= y
  <2>1. T \in SUBSET Nat
    OBVIOUS
  <2> HIDE DEF T
  <2> QED
    BY <2>1, LeastNumber
<1>2. x \in 0 .. n /\ x \notin S /\ x # 0
  OBVIOUS
<1>3. x - 1 \in 0 .. n - 1 /\ (x - 1) + 1 = x /\ ~(x <= x - 1)
  BY <1>2
<1>4. x - 1 \in S
  BY <1>1, <1>3
<1> QED
  BY <1>2, <1>3, <1>4

-----------------------------------------------------------------------------
(* Types of the converters.                                                *)
State == {"normal", "line", "block", "string"}
Prev == Token \cup {"none"}
LineState == [out : Seq(Token), prev : Prev, state : State,
              case_pending : {"none", "single", "run"}, escape : BOOLEAN, full : BOOLEAN]
ReaderState == [done : Seq(Token), line : LineState, len : Nat, last_cr : BOOLEAN]

LEMMA CasesOf ==
  ASSUME NEW t \in Token
  PROVE  to_lower(t) \in Token /\ to_upper(t) \in Token
  BY DEF Token, Letter, to_lower, to_upper

LEMMA EmitType ==
  ASSUME NEW s \in LineState, NEW t \in Token
  PROVE  /\ Emit(s, t) \in LineState
         /\ Emit(s, t).out = Append(s.out, t) /\ Emit(s, t).prev = t
         /\ Emit(s, t).state = s.state /\ Emit(s, t).escape = s.escape
         /\ Emit(s, t).case_pending = s.case_pending /\ Emit(s, t).full = s.full
<1>1. s.out \in Seq(Token)
  BY DEF LineState
<1>2. Append(s.out, t) \in Seq(Token) /\ t \in Prev
  BY <1>1, AppendProperties DEF Prev
<1>3. PICK o : o = Append(s.out, t)
  OBVIOUS
<1>4. Emit(s, t) = [s EXCEPT !.out = o, !.prev = t]
  BY <1>3 DEF Emit
<1> QED
  BY <1>2, <1>3, <1>4 DEF LineState

LEMMA EnteredType ==
  ASSUME NEW s \in LineState, NEW t
  PROVE  /\ Entered(s, t) \in LineState
         /\ Entered(s, t).out = s.out /\ Entered(s, t).prev = s.prev
         /\ Entered(s, t).escape = s.escape /\ Entered(s, t).full = s.full
         /\ Entered(s, t).case_pending = s.case_pending
  BY DEF Entered, LineState, State

LEMMA MeaningType ==
  ASSUME NEW s, NEW t \in Token
  PROVE  Meaning(s, t) \in Token
  BY DEF Meaning, Token

LEMMA TranslateType ==
  ASSUME NEW s \in LineState, NEW t \in Token
  PROVE  input_translate(s, t) \in LineState
<1>1. /\ "'" \in Token /\ to_lower(t) \in Token /\ to_upper(t) \in Token
      /\ Meaning(s, t) \in Token
  BY CasesOf, MeaningType DEF Token
<1>2. CASE InComment(s)
  BY <1>1, <1>2, EmitType, EnteredType DEF input_translate
<1>3. CASE ~InComment(s) /\ s.escape
  <2>1. Emit(s, to_lower(t)) \in LineState
    BY <1>1, EmitType
  <2> QED
    BY <1>3, <2>1 DEF input_translate, LineState
<1>4. CASE ~InComment(s) /\ ~s.escape /\ t = "'"
  <2>1. Emit(s, "'") \in LineState
    BY <1>1, EmitType
  <2>2. Marker(s) \in LineState
    BY <2>1 DEF Marker, LineState
  <2> QED
    BY <1>4, <2>2 DEF input_translate
<1>5. CASE ~InComment(s) /\ ~s.escape /\ t \in Letter
  <2>1. \A x \in {to_lower(t), to_upper(t)} : Emit(s, x) \in LineState
    BY <1>1, EmitType
  <2>2. Cased(s, t) \in LineState
    BY <2>1 DEF Cased, LineState
  <2>3. t # "'"
    BY <1>5 DEF Letter
  <2> QED
    BY <1>5, <2>2, <2>3 DEF input_translate
<1>6. CASE ~InComment(s) /\ ~s.escape /\ t # "'" /\ t \notin Letter
  <2>1. Entered(Emit(s, Meaning(s, t)), t) \in LineState
    BY <1>1, EmitType, EnteredType
  <2>2. Escaping(s, t) \in BOOLEAN
    BY DEF Escaping
  <2>3. input_translate(s, t) = [Entered(Emit(s, Meaning(s, t)), t)
                                   EXCEPT !.escape = Escaping(s, t), !.case_pending = "none"]
    BY <1>6, Zenon DEF input_translate, Other
  <2> QED
    BY <2>1, <2>2, <2>3 DEF LineState
<1>7. s.escape \in BOOLEAN
  BY DEF LineState
<1> QED
  BY <1>2, <1>3, <1>4, <1>5, <1>6, <1>7

LEMMA UntranslateType ==
  ASSUME NEW s \in LineState, NEW t \in Token, NEW max
  PROVE  input_untranslate(s, t, max) \in LineState
<1>1. Emit(s, t) \in LineState /\ "a" \in Token /\ "'" \in Token /\ "A" \in Token
  BY EmitType DEF Token, Letter
<1>2. Entered(Emit(s, t), t) \in LineState
  BY <1>1, EnteredType
<1>3. Marked(s, max) \in LineState
  <2>1. Emit(s, "A") \in LineState /\ Emit(Emit(s, "'"), "a") \in LineState
    BY <1>1, EmitType
  <2> QED
    BY <2>1 DEF Marked, LineState
<1>4. Escaping(s, t) \in BOOLEAN
  BY DEF Escaping
<1>5. [Emit(s, t) EXCEPT !.escape = FALSE] \in LineState
  BY <1>1 DEF LineState
<1>6. [Entered(Emit(s, t), t) EXCEPT !.escape = Escaping(s, t)] \in LineState
  BY <1>2, <1>4 DEF LineState
<1> QED
  BY <1>2, <1>3, <1>5, <1>6 DEF input_untranslate

LEMMA StartType == Start \in LineState /\ Reader \in ReaderState
<1>1. Start \in LineState
  BY DEF Start, LineState, State, Prev
<1> QED
  BY <1>1 DEF Reader, ReaderState

LEMMA RunExists ==
  ASSUME NEW X, NEW a \in X, NEW n \in Nat, NEW g \in [1 .. n -> [X -> X]]
  PROVE  \E f \in [0 .. n -> X] :
           f[0] = a /\ \A i \in 1 .. n : f[i] = g[i][f[i - 1]]
<1> DEFINE Chain(m, f) == f[0] = a /\ \A i \in 1 .. m : f[i] = g[i][f[i - 1]]
           S == {m \in 0 .. n : \E f \in [0 .. m -> X] : Chain(m, f)}
<1>1. 0 \in S
  <2>1. [i \in 0 .. 0 |-> a] \in [0 .. 0 -> X] /\ Chain(0, [i \in 0 .. 0 |-> a])
    OBVIOUS
  <2> QED
    <3> HIDE DEF Chain
    <3> QED
      BY <2>1
<1>2. ASSUME NEW m \in 0 .. n - 1, m \in S
      PROVE  m + 1 \in S
  <2>1. PICK f \in [0 .. m -> X] : Chain(m, f)
    BY <1>2
  <2> DEFINE h == [i \in 0 .. m + 1 |-> IF i = m + 1 THEN g[m + 1][f[m]] ELSE f[i]]
  <2>2. h \in [0 .. m + 1 -> X]
    <3>1. g[m + 1] \in [X -> X] /\ f[m] \in X
      OBVIOUS
    <3>2. g[m + 1][f[m]] \in X
      BY <3>1
    <3> QED
      BY <3>2
  <2>3. h[0] = a
    BY <2>1
  <2>4. ASSUME NEW i \in 1 .. m + 1
        PROVE  h[i] = g[i][h[i - 1]]
    <3>1. i - 1 \in 0 .. m /\ i - 1 \in 0 .. m + 1 /\ i - 1 # m + 1
      OBVIOUS
    <3>2. h[i - 1] = f[i - 1]
      BY <3>1
    <3>3. CASE i = m + 1
      BY <3>2, <3>3
    <3>4. CASE i # m + 1
      <4>1. i \in 1 .. m
        BY <3>4
      <4> QED
        BY <2>1, <3>2, <3>4, <4>1
    <3> QED
      BY <3>3, <3>4
  <2>5. m + 1 \in 0 .. n
    OBVIOUS
  <2> HIDE DEF h
  <2> QED
    BY <2>2, <2>3, <2>4, <2>5
<1>3. \A i \in 0 .. n : i \in S
  <2> HIDE DEF S
  <2> QED
    BY <1>1, <1>2, Steps
<1>4. n \in 0 .. n
  OBVIOUS
<1> QED
  BY <1>3, <1>4

LEMMA NextLineType ==
  ASSUME NEW r \in ReaderState, NEW cr \in BOOLEAN
  PROVE  /\ NextLine(r, cr) \in ReaderState
         /\ NextLine(r, cr).done = r.done \o Append(r.line.out, "\n")
         /\ NextLine(r, cr).line = Start /\ NextLine(r, cr).len = 0
         /\ NextLine(r, cr).last_cr = cr
<1>1. r.done \in Seq(Token) /\ r.line.out \in Seq(Token) /\ "\n" \in Token
  BY DEF ReaderState, LineState, Token
<1>2. Append(r.line.out, "\n") \in Seq(Token)
  BY <1>1, AppendProperties
<1>3. r.done \o Append(r.line.out, "\n") \in Seq(Token)
  BY <1>1, <1>2, ConcatProperties
<1>4. PICK d : d = r.done \o Append(r.line.out, "\n")
  OBVIOUS
<1>5. NextLine(r, cr) = [Reader EXCEPT !.done = d, !.last_cr = cr]
  BY <1>4 DEF NextLine
<1>6. Reader \in ReaderState
  BY StartType
<1>7. NextLine(r, cr) = [done |-> d, line |-> Start, len |-> 0, last_cr |-> cr]
  BY <1>5 DEF Reader
<1>8. Start \in LineState /\ d \in Seq(Token)
  BY <1>3, <1>4, StartType
<1>9. NextLine(r, cr) \in ReaderState
  BY <1>7, <1>8 DEF ReaderState
<1>10. /\ NextLine(r, cr).done = d /\ NextLine(r, cr).line = Start
       /\ NextLine(r, cr).len = 0
  BY <1>7
<1>11. NextLine(r, cr).last_cr = cr
  <2>1. cr = TRUE \/ cr = FALSE
    OBVIOUS
  <2>2. CASE cr = TRUE
    <3>1. NextLine(r, cr) = [done |-> d, line |-> Start, len |-> 0, last_cr |-> TRUE]
      BY <1>7, <2>2, Zenon
    <3>2. NextLine(r, cr).last_cr = TRUE
      BY <3>1
    <3> QED
      BY <2>2, <3>2, Zenon
  <2>3. CASE cr = FALSE
    <3>1. NextLine(r, cr) = [done |-> d, line |-> Start, len |-> 0, last_cr |-> FALSE]
      BY <1>7, <2>3, Zenon
    <3>2. NextLine(r, cr).last_cr = FALSE
      BY <3>1
    <3> QED
      BY <2>3, <3>2, Zenon
  <2> QED
    BY <2>1, <2>2, <2>3
<1> QED
  BY <1>4, <1>9, <1>10, <1>11, Zenon

LEMMA ConvertedType ==
  ASSUME NEW r \in ReaderState, NEW s \in LineState
  PROVE  /\ Converted(r, s) \in ReaderState
         /\ Converted(r, s).done = r.done /\ Converted(r, s).line = s
         /\ Converted(r, s).len = r.len + 1 /\ Converted(r, s).last_cr = FALSE
<1>1. PICK k : k = r.len + 1
  OBVIOUS
<1>2. Converted(r, s) = [r EXCEPT !.line = s, !.len = k, !.last_cr = FALSE]
  BY <1>1, Zenon DEF Converted
<1>3. r.len \in Nat
  BY DEF ReaderState
<1>4. k \in Nat
  BY <1>1, <1>3
<1> QED
  BY <1>1, <1>2, <1>4 DEF ReaderState

LEMMA DroppedType ==
  ASSUME NEW r \in ReaderState
  PROVE  /\ Dropped(r) \in ReaderState
         /\ Dropped(r).done = r.done /\ Dropped(r).line = r.line
         /\ Dropped(r).len = r.len /\ Dropped(r).last_cr = FALSE
  BY DEF Dropped, ReaderState

LEMMA SaveByteType ==
  ASSUME NEW r \in ReaderState, NEW t \in Token, NEW cooked \in BOOLEAN
  PROVE  SaveByte(r, t, cooked) \in ReaderState
<1>1. r.line \in LineState
  BY DEF ReaderState
<1>2. input_translate(r.line, t) \in LineState /\ Emit(r.line, t) \in LineState
  BY <1>1, TranslateType, EmitType
<1>3. /\ Converted(r, input_translate(r.line, t)) \in ReaderState
      /\ Converted(r, Emit(r.line, t)) \in ReaderState
  BY <1>2, ConvertedType
<1>4. NextLine(r, FALSE) \in ReaderState /\ Dropped(r) \in ReaderState
  BY NextLineType, DroppedType
<1> QED
  BY <1>3, <1>4 DEF SaveByte

LEMMA LoadByteType ==
  ASSUME NEW r \in ReaderState, NEW t \in Token
  PROVE  LoadByte(r, t) \in ReaderState
<1>1. r.line \in LineState
  BY DEF ReaderState
<1>2. input_untranslate(r.line, t, LINE_MAX) \in LineState
  BY <1>1, UntranslateType
<1>3. Converted(r, input_untranslate(r.line, t, LINE_MAX)) \in ReaderState
  BY <1>2, ConvertedType
<1>4. NextLine(r, t = "\r") \in ReaderState /\ Dropped(r) \in ReaderState
  BY NextLineType, DroppedType
<1> QED
  BY <1>3, <1>4 DEF LoadByte

(* What the two recursive functions are, token by token. *)
LEMMA SavingIs ==
  ASSUME NEW t \in Seq(Token), NEW cooked, cooked \in BOOLEAN
  PROVE  /\ Saving(t, cooked) \in [0 .. Len(t) -> ReaderState]
         /\ Saving(t, cooked)[0] = Reader
         /\ \A i \in 1 .. Len(t) :
              Saving(t, cooked)[i] = SaveByte(Saving(t, cooked)[i - 1], t[i], cooked)
<1> DEFINE n == Len(t)
           Is(f) == f = [i \in 0 .. n |-> IF i = 0 THEN Reader
                                          ELSE SaveByte(f[i - 1], t[i], cooked)]
           g == [i \in 1 .. n |-> [r \in ReaderState |-> SaveByte(r, t[i], cooked)]]
<1>1. n \in Nat
  OBVIOUS
<1>2. \A i \in 1 .. n : t[i] \in Token
  OBVIOUS
<1>3. \A i \in 1 .. n : \A r \in ReaderState : SaveByte(r, t[i], cooked) \in ReaderState
  BY <1>2, SaveByteType
<1>4. g \in [1 .. n -> [ReaderState -> ReaderState]]
  BY <1>3
<1>5. Reader \in ReaderState
  BY StartType
<1>6. PICK f \in [0 .. n -> ReaderState] :
        f[0] = Reader /\ \A i \in 1 .. n : f[i] = g[i][f[i - 1]]
  <2> HIDE DEF n, g
  <2> QED
    BY ONLY <1>1, <1>4, <1>5, RunExists, SMTT(30)
<1>7. Is(f)
  <2>1. ASSUME NEW i \in 0 .. n, i # 0
        PROVE  f[i] = SaveByte(f[i - 1], t[i], cooked)
    <3>1. i \in 1 .. n /\ i - 1 \in 0 .. n
      BY <1>1, <2>1
    <3>2. f[i - 1] \in ReaderState
      BY <3>1
    <3>3. f[i] = g[i][f[i - 1]]
      BY <1>6, <3>1
    <3>4. g[i] = [r \in ReaderState |-> SaveByte(r, t[i], cooked)]
      BY <3>1
    <3> QED
      BY <3>2, <3>3, <3>4
  <2> QED
    BY <1>6, <2>1
<1>8. Is(Saving(t, cooked))
  <2>1. Saving(t, cooked) = CHOOSE h : Is(h)
    BY DEF Saving
  <2> HIDE DEF Is
  <2> QED
    BY <1>7, <2>1
<1>9. PICK s : s = Saving(t, cooked)
  OBVIOUS
<1>10. Is(s)
  BY <1>8, <1>9
<1>11. s[0] = Reader
  BY <1>1, <1>10
<1>12. \A i \in 1 .. n : s[i] = SaveByte(s[i - 1], t[i], cooked)
  BY <1>1, <1>10
<1>13. \A i \in 0 .. n : s[i] \in ReaderState
  <2> DEFINE S == {i \in 0 .. n : s[i] \in ReaderState}
  <2>1. 0 \in S
    BY <1>1, <1>5, <1>11
  <2>2. ASSUME NEW i \in 0 .. n - 1, i \in S
        PROVE  i + 1 \in S
    <3>1. i + 1 \in 1 .. n /\ (i + 1) - 1 = i /\ i + 1 \in 0 .. n
      BY <1>1
    <3>2. s[i + 1] = SaveByte(s[i], t[i + 1], cooked)
      BY <1>12, <3>1
    <3>3. s[i + 1] \in ReaderState
      BY <1>3, <2>2, <3>1, <3>2
    <3> QED
      BY <3>1, <3>3
  <2>3. \A i \in 0 .. n : i \in S
    <3> HIDE DEF S, n
    <3> QED
      BY <1>1, <2>1, <2>2, Steps
  <2> QED
    BY <2>3
<1>14. s \in [0 .. n -> ReaderState]
  BY <1>10, <1>13
<1> QED
  BY <1>9, <1>11, <1>12, <1>14

LEMMA LoadingIs ==
  ASSUME NEW t \in Seq(Token)
  PROVE  /\ Loading(t) \in [0 .. Len(t) -> ReaderState]
         /\ Loading(t)[0] = Reader
         /\ \A i \in 1 .. Len(t) : Loading(t)[i] = LoadByte(Loading(t)[i - 1], t[i])
<1> DEFINE n == Len(t)
           Is(f) == f = [i \in 0 .. n |-> IF i = 0 THEN Reader
                                          ELSE LoadByte(f[i - 1], t[i])]
           g == [i \in 1 .. n |-> [r \in ReaderState |-> LoadByte(r, t[i])]]
<1>1. n \in Nat
  OBVIOUS
<1>2. \A i \in 1 .. n : t[i] \in Token
  OBVIOUS
<1>3. \A i \in 1 .. n : \A r \in ReaderState : LoadByte(r, t[i]) \in ReaderState
  BY <1>2, LoadByteType
<1>4. g \in [1 .. n -> [ReaderState -> ReaderState]]
  BY <1>3
<1>5. Reader \in ReaderState
  BY StartType
<1>6. PICK f \in [0 .. n -> ReaderState] :
        f[0] = Reader /\ \A i \in 1 .. n : f[i] = g[i][f[i - 1]]
  <2> HIDE DEF n, g
  <2> QED
    BY <1>1, <1>4, <1>5, RunExists
<1>7. Is(f)
  <2>1. ASSUME NEW i \in 0 .. n, i # 0
        PROVE  f[i] = LoadByte(f[i - 1], t[i])
    <3>1. i \in 1 .. n /\ i - 1 \in 0 .. n
      BY <1>1, <2>1
    <3>2. f[i - 1] \in ReaderState
      BY <3>1
    <3>3. f[i] = g[i][f[i - 1]]
      BY <1>6, <3>1
    <3>4. g[i] = [r \in ReaderState |-> LoadByte(r, t[i])]
      BY <3>1
    <3> QED
      BY <3>2, <3>3, <3>4
  <2> QED
    BY <1>6, <2>1
<1>8. Is(Loading(t))
  <2>1. Loading(t) = CHOOSE h : Is(h)
    BY DEF Loading
  <2> HIDE DEF Is
  <2> QED
    BY <1>7, <2>1
<1>9. PICK s : s = Loading(t)
  OBVIOUS
<1>10. Is(s)
  BY <1>8, <1>9
<1>11. s[0] = Reader
  BY <1>1, <1>10
<1>12. \A i \in 1 .. n : s[i] = LoadByte(s[i - 1], t[i])
  BY <1>1, <1>10
<1>13. \A i \in 0 .. n : s[i] \in ReaderState
  <2> DEFINE S == {i \in 0 .. n : s[i] \in ReaderState}
  <2>1. 0 \in S
    BY <1>1, <1>5, <1>11
  <2>2. ASSUME NEW i \in 0 .. n - 1, i \in S
        PROVE  i + 1 \in S
    <3>1. i + 1 \in 1 .. n /\ (i + 1) - 1 = i /\ i + 1 \in 0 .. n
      BY <1>1
    <3>2. s[i + 1] = LoadByte(s[i], t[i + 1])
      BY <1>12, <3>1
    <3>3. s[i + 1] \in ReaderState
      BY <1>3, <2>2, <3>1, <3>2
    <3> QED
      BY <3>1, <3>3
  <2>3. \A i \in 0 .. n : i \in S
    <3> HIDE DEF S, n
    <3> QED
      BY <1>1, <2>1, <2>2, Steps
  <2> QED
    BY <2>3
<1>14. s \in [0 .. n -> ReaderState]
  BY <1>10, <1>13
<1> QED
  BY <1>9, <1>11, <1>12, <1>14

LEMMA WholeType ==
  ASSUME NEW r \in ReaderState
  PROVE  Whole(r) \in Seq(Token)
  BY ConcatProperties DEF Whole, ReaderState, LineState

LEMMA SavedType ==
  ASSUME NEW t \in Seq(Token), NEW cooked \in BOOLEAN
  PROVE  Saved(t, cooked) \in Seq(Token)
<1>1. Len(t) \in 0 .. Len(t)
  BY LenProperties
<1>2. Saving(t, cooked)[Len(t)] \in ReaderState
  BY <1>1, SavingIs
<1> QED
  BY <1>2, WholeType DEF Saved

LEMMA LoadedType ==
  ASSUME NEW t \in Seq(Token), NEW cooked \in BOOLEAN
  PROVE  Loaded(t, cooked) \in Seq(Token)
<1>1. Len(t) \in 0 .. Len(t)
  BY LenProperties
<1>2. Loading(t)[Len(t)] \in ReaderState
  BY <1>1, LoadingIs
<1>3. Whole(Loading(t)[Len(t)]) \in Seq(Token)
  BY <1>2, WholeType
<1> QED
  BY <1>3 DEF Loaded

-----------------------------------------------------------------------------
(* The keys that move keep to the text.                                    *)
LEMMA LineStartIs ==
  ASSUME NEW t \in Seq(Token), NEW p \in 0 .. Len(t)
  PROVE  textnav_line_start(t, p) \in 0 .. p
<1> DEFINE T == {d \in 0 .. p : IsLineStart(t, p - d)}
           Is(q) == IsLineStart(t, q) /\ \A r \in q + 1 .. p : ~IsLineStart(t, r)
<1>1. Len(t) \in Nat /\ p \in Nat
  OBVIOUS
<1>2. T \in SUBSET Nat /\ p \in T
  BY <1>1 DEF IsLineStart
<1>3. PICK d \in T : \A e \in T : d <= e
  <2> HIDE DEF T
  <2> QED
    BY <1>2, LeastNumber
<1>4. p - d \in 0 .. p /\ IsLineStart(t, p - d) /\ d \in 0 .. p
  BY <1>1, <1>3
<1>5. ASSUME NEW r \in (p - d) + 1 .. p, IsLineStart(t, r)
      PROVE  FALSE
  <2>1. p - r \in 0 .. p /\ p - (p - r) = r /\ ~(d <= p - r)
    BY <1>1, <1>4
  <2>2. p - r \in T
    BY <1>5, <2>1
  <2> QED
    BY <1>3, <2>1, <2>2
<1>6. \E q \in 0 .. p : Is(q)
  BY <1>4, <1>5
<1>7. textnav_line_start(t, p) = CHOOSE q \in 0 .. p : Is(q)
  BY DEF textnav_line_start
<1> HIDE DEF Is
<1> QED
  BY <1>6, <1>7

LEMMA LineEndIs ==
  ASSUME NEW t \in Seq(Token), NEW p \in 0 .. Len(t)
  PROVE  textnav_line_end(t, p) \in p .. Len(t)
<1> DEFINE T == {q \in p .. Len(t) : IsLineEnd(t, q)}
           Is(q) == IsLineEnd(t, q) /\ \A r \in p .. q - 1 : ~IsLineEnd(t, r)
<1>1. Len(t) \in Nat /\ p \in Nat
  OBVIOUS
<1>2. T \in SUBSET Nat /\ Len(t) \in T
  BY <1>1 DEF IsLineEnd
<1>3. PICK q \in T : \A e \in T : q <= e
  <2> HIDE DEF T
  <2> QED
    BY <1>2, LeastNumber
<1>4. q \in p .. Len(t) /\ IsLineEnd(t, q)
  BY <1>1, <1>3
<1>5. ASSUME NEW r \in p .. q - 1, IsLineEnd(t, r)
      PROVE  FALSE
  <2>1. r \in p .. Len(t) /\ ~(q <= r)
    BY <1>1, <1>4
  <2>2. r \in T
    BY <1>5, <2>1
  <2> QED
    BY <1>3, <2>1, <2>2
<1>6. \E x \in p .. Len(t) : Is(x)
  BY <1>4, <1>5
<1>7. textnav_line_end(t, p) = CHOOSE x \in p .. Len(t) : Is(x)
  BY DEF textnav_line_end
<1> HIDE DEF Is
<1> QED
  BY <1>6, <1>7

LEMMA PosInLineIs ==
  ASSUME NEW t \in Seq(Token), NEW p \in 0 .. Len(t), NEW col \in Nat
  PROVE  pos_in_line(t, p, col) \in 0 .. Len(t)
<1>1. PICK e : e = textnav_line_end(t, p)
  OBVIOUS
<1>2. e \in p .. Len(t)
  BY <1>1, LineEndIs
<1>3. pos_in_line(t, p, col) = Least(p + col, e)
  BY <1>1 DEF pos_in_line
<1> QED
  BY <1>2, <1>3 DEF Least

LEMMA ColIs ==
  ASSUME NEW t \in Seq(Token), NEW p \in 0 .. Len(t)
  PROVE  textnav_col(t, p) \in Nat
<1>1. PICK q : q = textnav_line_start(t, p)
  OBVIOUS
<1>2. q \in 0 .. p
  BY <1>1, LineStartIs
<1>3. textnav_col(t, p) = p - q
  BY <1>1 DEF textnav_col
<1> QED
  BY <1>2, <1>3

LEMMA LineUp ==
  ASSUME NEW t \in Seq(Token), NEW p \in 0 .. Len(t)
  PROVE  textnav_up(t, p) \in 0 .. Len(t)
<1>1. PICK q : q = textnav_line_start(t, p)
  OBVIOUS
<1>2. q \in 0 .. p
  BY <1>1, LineStartIs
<1>3. CASE q = 0
  BY <1>1, <1>3 DEF textnav_up
<1>4. CASE q # 0
  <2>1. q - 1 \in 0 .. Len(t)
    BY <1>2, <1>4
  <2>2. PICK s : s = textnav_line_start(t, q - 1)
    OBVIOUS
  <2>3. s \in 0 .. q - 1
    BY <2>1, <2>2, LineStartIs
  <2>4. s \in 0 .. Len(t)
    BY <2>1, <2>3
  <2>5. textnav_up(t, p) = pos_in_line(t, s, textnav_col(t, p))
    BY <1>1, <1>4, <2>2, Zenon DEF textnav_up
  <2>6. textnav_col(t, p) \in Nat
    BY ColIs
  <2> QED
    BY <2>4, <2>5, <2>6, PosInLineIs
<1> QED
  BY <1>3, <1>4

LEMMA LineDown ==
  ASSUME NEW t \in Seq(Token), NEW p \in 0 .. Len(t)
  PROVE  textnav_down(t, p) \in 0 .. Len(t)
<1>1. PICK e : e = textnav_line_end(t, p)
  OBVIOUS
<1>2. e \in p .. Len(t)
  BY <1>1, LineEndIs
<1>3. CASE e = Len(t)
  BY <1>1, <1>3 DEF textnav_down
<1>4. CASE e # Len(t)
  <2>1. e + 1 \in 0 .. Len(t)
    BY <1>2, <1>4
  <2>2. textnav_down(t, p) = pos_in_line(t, e + 1, textnav_col(t, p))
    BY <1>1, <1>4, Zenon DEF textnav_down
  <2>3. textnav_col(t, p) \in Nat
    BY ColIs
  <2> QED
    BY <2>1, <2>2, <2>3, PosInLineIs
<1> QED
  BY <1>3, <1>4

LEMMA UpIs ==
  ASSUME NEW t, NEW p, NEW n, t \in Seq(Token), p \in 0 .. Len(t), n \in Nat
  PROVE  Up(t, p, n) \in 0 .. Len(t)
<1> DEFINE X == 0 .. Len(t)
           Is(f) == f = [i \in 0 .. n |-> IF i = 0 THEN p ELSE textnav_up(t, f[i - 1])]
           g == [i \in 1 .. n |-> [q \in X |-> textnav_up(t, q)]]
<1>1. g \in [1 .. n -> [X -> X]]
  BY LineUp
<1>2. PICK f \in [0 .. n -> X] : f[0] = p /\ \A i \in 1 .. n : f[i] = g[i][f[i - 1]]
  <2>1. p \in X
    OBVIOUS
  <2>2. n \in Nat
    OBVIOUS
  <2> HIDE DEF X, g
  <2> QED
    BY ONLY <1>1, <2>1, <2>2, RunExists
<1>3. ASSUME NEW i \in 0 .. n, i # 0
      PROVE  f[i] = textnav_up(t, f[i - 1])
  <2>1. i \in 1 .. n /\ i - 1 \in 0 .. n
    BY <1>3
  <2>2. f[i - 1] \in X
    BY <2>1
  <2>3. f[i] = g[i][f[i - 1]] /\ g[i] = [q \in X |-> textnav_up(t, q)]
    BY <1>2, <2>1
  <2> QED
    BY <2>2, <2>3
<1>4. Is(f)
  BY <1>2, <1>3
<1>5. PICK up : Is(up) /\ up[n] = Up(t, p, n)
  <2> DEFINE h == CHOOSE h : Is(h)
  <2>1. Is(h)
    <3> HIDE DEF Is
    <3> QED
      BY <1>4
  <2>2. h[n] = Up(t, p, n)
    BY Zenon DEF Up
  <2> HIDE DEF h, Is
  <2> QED
    BY <2>1, <2>2
<1> DEFINE S == {i \in 0 .. n : up[i] \in 0 .. Len(t)}
<1>6. 0 \in S
  BY <1>5
<1>7. ASSUME NEW i \in 0 .. n - 1, i \in S
      PROVE  i + 1 \in S
  <2>1. i + 1 \in 0 .. n /\ i + 1 # 0 /\ (i + 1) - 1 = i
    OBVIOUS
  <2>2. up[i + 1] = textnav_up(t, up[i])
    BY <1>5, <2>1
  <2>3. up[i] \in 0 .. Len(t)
    BY <1>7
  <2>4. up[i + 1] \in 0 .. Len(t)
    BY <2>2, <2>3, LineUp
  <2> QED
    BY <2>1, <2>4
<1>8. \A i \in 0 .. n : i \in S
  <2> HIDE DEF S
  <2> QED
    BY <1>6, <1>7, Steps
<1>9. up[n] \in 0 .. Len(t)
  BY <1>8
<1> QED
  BY <1>5, <1>9

LEMMA DownIs ==
  ASSUME NEW t, NEW p, NEW n, t \in Seq(Token), p \in 0 .. Len(t), n \in Nat
  PROVE  Down(t, p, n) \in 0 .. Len(t)
<1> DEFINE X == 0 .. Len(t)
           Is(f) == f = [i \in 0 .. n |-> IF i = 0 THEN p ELSE textnav_down(t, f[i - 1])]
           g == [i \in 1 .. n |-> [q \in X |-> textnav_down(t, q)]]
<1>1. g \in [1 .. n -> [X -> X]]
  BY LineDown
<1>2. PICK f \in [0 .. n -> X] : f[0] = p /\ \A i \in 1 .. n : f[i] = g[i][f[i - 1]]
  <2>1. p \in X
    OBVIOUS
  <2>2. n \in Nat
    OBVIOUS
  <2> HIDE DEF X, g
  <2> QED
    BY ONLY <1>1, <2>1, <2>2, RunExists
<1>3. ASSUME NEW i \in 0 .. n, i # 0
      PROVE  f[i] = textnav_down(t, f[i - 1])
  <2>1. i \in 1 .. n /\ i - 1 \in 0 .. n
    BY <1>3
  <2>2. f[i - 1] \in X
    BY <2>1
  <2>3. f[i] = g[i][f[i - 1]] /\ g[i] = [q \in X |-> textnav_down(t, q)]
    BY <1>2, <2>1
  <2> QED
    BY <2>2, <2>3
<1>4. Is(f)
  BY <1>2, <1>3
<1>5. PICK down : Is(down) /\ down[n] = Down(t, p, n)
  <2> DEFINE h == CHOOSE h : Is(h)
  <2>1. Is(h)
    <3> HIDE DEF Is
    <3> QED
      BY <1>4
  <2>2. h[n] = Down(t, p, n)
    BY Zenon DEF Down
  <2> HIDE DEF h, Is
  <2> QED
    BY <2>1, <2>2
<1> DEFINE S == {i \in 0 .. n : down[i] \in 0 .. Len(t)}
<1>6. 0 \in S
  BY <1>5
<1>7. ASSUME NEW i \in 0 .. n - 1, i \in S
      PROVE  i + 1 \in S
  <2>1. i + 1 \in 0 .. n /\ i + 1 # 0 /\ (i + 1) - 1 = i
    OBVIOUS
  <2>2. down[i + 1] = textnav_down(t, down[i])
    BY <1>5, <2>1
  <2>3. down[i] \in 0 .. Len(t)
    BY <1>7
  <2>4. down[i + 1] \in 0 .. Len(t)
    BY <2>2, <2>3, LineDown
  <2> QED
    BY <2>1, <2>4
<1>8. \A i \in 0 .. n : i \in S
  <2> HIDE DEF S
  <2> QED
    BY <1>6, <1>7, Steps
<1>9. down[n] \in 0 .. Len(t)
  BY <1>8
<1> QED
  BY <1>5, <1>9

LEMMA MovesKeep ==
  ASSUME NEW t \in Seq(Token), NEW p \in 0 .. Len(t), NEW page \in Nat
  PROVE  Moves(t, p, page) \subseteq 0 .. Len(t)
<1>1. /\ Up(t, p, 1) \in 0 .. Len(t) /\ Up(t, p, page) \in 0 .. Len(t)
      /\ Down(t, p, 1) \in 0 .. Len(t) /\ Down(t, p, page) \in 0 .. Len(t)
  BY UpIs, DownIs
<1>2. PICK s : s = textnav_line_start(t, p)
  OBVIOUS
<1>3. PICK e : e = textnav_line_end(t, p)
  OBVIOUS
<1>4. s \in 0 .. p /\ e \in p .. Len(t)
  BY <1>2, <1>3, LineStartIs, LineEndIs
<1>5. s \in 0 .. Len(t) /\ e \in 0 .. Len(t)
  BY <1>4
<1>6. Least(p + 1, Len(t)) \in 0 .. Len(t) /\ (IF p = 0 THEN 0 ELSE p - 1) \in 0 .. Len(t)
  BY DEF Least
<1> QED
  BY <1>1, <1>2, <1>3, <1>5, <1>6 DEF Moves

-----------------------------------------------------------------------------
(* A plain text means the same to every converter.                         *)
PlainToken == {"a", "underscore", "space", "brace", "quote", "\\", "\n"}
Quiet(s) == s.state \in {"normal", "string"} /\ s.case_pending = "none" /\ ~s.full

LEMMA PlainIsToken == PlainToken \subseteq Token
  BY DEF PlainToken, Token, Letter

LEMMA PlainEntered ==
  ASSUME NEW s \in LineState, NEW t \in PlainToken, Quiet(s)
  PROVE  Quiet(Entered(s, t))
<1>1. Entered(s, t).case_pending = s.case_pending /\ Entered(s, t).full = s.full
  BY EnteredType
<1>2. t # "//" /\ t # "/*" /\ t # "*/"
  BY DEF PlainToken
<1>3. Entered(s, t).state \in {"normal", "string"}
  <2>1. s.state \in {"normal", "string"} /\ s \in LineState
    BY DEF Quiet
  <2> QED
    BY <1>2, <2>1 DEF Entered, LineState
<1> QED
  BY <1>1, <1>3 DEF Quiet

LEMMA PlainTranslate ==
  ASSUME NEW s \in LineState, NEW t \in PlainToken, Quiet(s)
  PROVE  /\ input_translate(s, t).out = Append(s.out, t)
         /\ Quiet(input_translate(s, t))
<1>1. t \in Token
  BY PlainIsToken
<1>2. to_lower(t) = t /\ t # "'" /\ Meaning(s, t) = t
  BY DEF PlainToken, to_lower, Meaning
<1>3. ~InComment(s) /\ s.state \in {"normal", "string"} /\ s.case_pending = "none" /\ ~s.full
  BY DEF Quiet, InComment
<1>4. /\ Emit(s, t) \in LineState
      /\ Emit(s, t).out = Append(s.out, t)
      /\ Emit(s, t).state = s.state
      /\ Emit(s, t).case_pending = s.case_pending /\ Emit(s, t).full = s.full
  BY <1>1, EmitType
<1>5. Quiet(Emit(s, t))
  BY <1>3, <1>4 DEF Quiet
<1>6. PICK m : m = Emit(s, t)
  OBVIOUS
<1>7. m \in LineState /\ Quiet(m) /\ m.out = Append(s.out, t)
  BY <1>4, <1>5, <1>6
<1>8. CASE s.escape
  <2>1. input_translate(s, t) = [m EXCEPT !.escape = FALSE]
    BY <1>2, <1>3, <1>6, <1>8, Zenon DEF input_translate
  <2> QED
    BY <1>7, <2>1 DEF LineState, Quiet
<1>9. CASE ~s.escape /\ t \in Letter
  <2>1. input_translate(s, t) = Cased(s, t)
    BY <1>2, <1>3, <1>9, Zenon DEF input_translate
  <2>2. Cased(s, t) = [m EXCEPT !.case_pending = IF m.case_pending = "run" THEN "run" ELSE "none"]
    BY <1>2, <1>3, <1>6, Zenon DEF Cased
  <2> QED
    BY <1>7, <2>1, <2>2 DEF LineState, Quiet
<1>10. CASE ~s.escape /\ t \notin Letter
  <2>1. input_translate(s, t) = Other(s, t)
    BY <1>2, <1>3, <1>10, Zenon DEF input_translate
  <2>2. PICK x : x = Escaping(s, t)
    OBVIOUS
  <2>3. PICK e : e = Entered(m, t)
    OBVIOUS
  <2>4. Other(s, t) = [e EXCEPT !.escape = x, !.case_pending = "none"]
    BY <1>2, <1>6, <2>2, <2>3, Zenon DEF Other
  <2>5. e \in LineState /\ e.out = m.out /\ Quiet(e)
    BY <1>7, <2>3, EnteredType, PlainEntered
  <2> QED
    BY <1>7, <2>1, <2>4, <2>5 DEF LineState, Quiet
<1> QED
  BY <1>8, <1>9, <1>10

LEMMA PlainUntranslate ==
  ASSUME NEW s \in LineState, NEW t \in PlainToken, Quiet(s), Len(s.out) < LINE_MAX
  PROVE  /\ input_untranslate(s, t, LINE_MAX).out = Append(s.out, t)
         /\ Quiet(input_untranslate(s, t, LINE_MAX))
<1>1. t \in Token /\ t # "A"
  BY PlainIsToken DEF PlainToken
<1>2. ~InComment(s) /\ s.state \in {"normal", "string"} /\ s.case_pending = "none" /\ ~s.full
  BY DEF Quiet, InComment
<1>3. /\ Emit(s, t) \in LineState
      /\ Emit(s, t).out = Append(s.out, t)
      /\ Emit(s, t).state = s.state
      /\ Emit(s, t).case_pending = s.case_pending /\ Emit(s, t).full = s.full
  BY <1>1, EmitType
<1>4. Quiet(Emit(s, t))
  BY <1>2, <1>3 DEF Quiet
<1>5. PICK m : m = Emit(s, t)
  OBVIOUS
<1>6. m \in LineState /\ Quiet(m) /\ m.out = Append(s.out, t)
  BY <1>3, <1>4, <1>5
<1>7. ~(s.full \/ Len(s.out) >= LINE_MAX)
  <2>1. Len(s.out) \in Nat /\ LINE_MAX \in Nat
    BY EditorSizes, LenProperties DEF LineState
  <2> QED
    BY <1>2, <2>1
<1>8. CASE s.escape
  <2>1. input_untranslate(s, t, LINE_MAX) = [m EXCEPT !.escape = FALSE]
    BY <1>2, <1>5, <1>7, <1>8, Zenon DEF input_untranslate
  <2> QED
    BY <1>6, <2>1 DEF LineState, Quiet
<1>9. CASE ~s.escape
  <2>1. PICK x : x = Escaping(s, t)
    OBVIOUS
  <2>2. PICK e : e = Entered(m, t)
    OBVIOUS
  <2>3. input_untranslate(s, t, LINE_MAX) = [e EXCEPT !.escape = x]
    BY <1>1, <1>2, <1>5, <1>7, <1>9, <2>1, <2>2, Zenon DEF input_untranslate
  <2>4. e \in LineState /\ e.out = m.out /\ Quiet(e)
    BY <1>6, <2>2, EnteredType, PlainEntered
  <2> QED
    BY <1>6, <2>3, <2>4 DEF LineState, Quiet
<1> QED
  BY <1>8, <1>9

(* Where a plain text's readers stand. *)
Level(r) == Quiet(r.line) /\ r.len = Len(r.line.out) /\ ~r.last_cr
Alike(r, s) == r.done = s.done /\ r.line.out = s.line.out

LEMMA PlainSave ==
  ASSUME NEW r \in ReaderState, NEW t \in PlainToken, NEW cooked \in BOOLEAN, Level(r)
  PROVE  /\ Level(SaveByte(r, t, cooked))
         /\ SaveByte(r, t, cooked).done =
              IF t = "\n" THEN r.done \o Append(r.line.out, "\n") ELSE r.done
         /\ SaveByte(r, t, cooked).line.out =
              IF t = "\n" THEN <<>>
              ELSE IF Len(r.line.out) < LINE_MAX THEN Append(r.line.out, t)
              ELSE r.line.out
<1>1. r.line \in LineState /\ r.line.out \in Seq(Token) /\ t \in Token /\ r.len \in Nat
  BY PlainIsToken DEF ReaderState, LineState
<1>2. Quiet(r.line) /\ r.len = Len(r.line.out) /\ ~r.last_cr
  BY DEF Level
<1>3. CASE t = "\n"
  <2>1. SaveByte(r, t, cooked) = NextLine(r, FALSE)
    BY <1>3 DEF SaveByte
  <2>2. PICK d : d = r.done \o Append(r.line.out, "\n")
    OBVIOUS
  <2>3. PICK n : n = NextLine(r, FALSE)
    OBVIOUS
  <2>4. n.done = d /\ n.line = Start /\ n.len = 0 /\ n.last_cr = FALSE
    BY <2>2, <2>3, NextLineType
  <2>5. Level(n) /\ n.line.out = <<>>
    BY <2>4 DEF Level, Quiet, Start
  <2> QED
    BY <1>3, <2>1, <2>2, <2>3, <2>4, <2>5
<1>4. CASE t # "\n" /\ ~Fits(r)
  <2>1. SaveByte(r, t, cooked) = Dropped(r)
    BY <1>4 DEF SaveByte
  <2>2. PICK n : n = Dropped(r)
    OBVIOUS
  <2>3. n.done = r.done /\ n.line = r.line /\ n.len = r.len /\ n.last_cr = FALSE
    BY <2>2, DroppedType
  <2>4. Level(n)
    BY <1>2, <2>3 DEF Level
  <2>5. ~(Len(r.line.out) < LINE_MAX)
    BY <1>2, <1>4 DEF Fits
  <2> QED
    BY <1>4, <2>1, <2>2, <2>3, <2>4, <2>5
<1>5. CASE t # "\n" /\ Fits(r)
  <2>1. PICK s : s = IF cooked THEN input_translate(r.line, t) ELSE Emit(r.line, t)
    OBVIOUS
  <2>2. s \in LineState /\ s.out = Append(r.line.out, t) /\ Quiet(s)
    <3>1. CASE cooked
      <4>1. s = input_translate(r.line, t)
        BY <2>1, <3>1
      <4> QED
        BY <1>1, <1>2, <4>1, PlainTranslate, TranslateType
    <3>2. CASE ~cooked
      <4>1. s = Emit(r.line, t)
        BY <2>1, <3>2
      <4>2. /\ s \in LineState /\ s.out = Append(r.line.out, t)
            /\ s.state = r.line.state /\ s.case_pending = r.line.case_pending
            /\ s.full = r.line.full
        BY <1>1, <4>1, EmitType
      <4> QED
        BY <1>2, <4>2 DEF Quiet
    <3> QED
      BY <3>1, <3>2
  <2>3. SaveByte(r, t, cooked) = Converted(r, s)
    BY <1>5, <2>1, Zenon DEF SaveByte
  <2>4. PICK n : n = Converted(r, s)
    OBVIOUS
  <2>5. n.done = r.done /\ n.line = s /\ n.len = r.len + 1 /\ n.last_cr = FALSE
    BY <2>2, <2>4, ConvertedType
  <2>6. Len(Append(r.line.out, t)) = Len(r.line.out) + 1
    BY <1>1, AppendProperties
  <2>7. Level(n)
    BY <1>2, <2>2, <2>5, <2>6 DEF Level
  <2>8. Len(r.line.out) < LINE_MAX
    BY <1>2, <1>5 DEF Fits
  <2> QED
    BY <1>5, <2>2, <2>3, <2>4, <2>5, <2>7, <2>8
<1> QED
  BY <1>3, <1>4, <1>5

LEMMA PlainLoad ==
  ASSUME NEW r \in ReaderState, NEW t \in PlainToken, Level(r)
  PROVE  /\ Level(LoadByte(r, t))
         /\ LoadByte(r, t).done =
              IF t = "\n" THEN r.done \o Append(r.line.out, "\n") ELSE r.done
         /\ LoadByte(r, t).line.out =
              IF t = "\n" THEN <<>>
              ELSE IF Len(r.line.out) < LINE_MAX THEN Append(r.line.out, t)
              ELSE r.line.out
<1>1. r.line \in LineState /\ r.line.out \in Seq(Token) /\ t \in Token /\ r.len \in Nat
  BY PlainIsToken DEF ReaderState, LineState
<1>2. Quiet(r.line) /\ r.len = Len(r.line.out) /\ ~r.last_cr /\ t # "\r"
  BY DEF Level, PlainToken
<1>3. CASE t = "\n"
  <2>1. LoadByte(r, t) = NextLine(r, FALSE)
    BY <1>2, <1>3 DEF LoadByte
  <2>2. PICK d : d = r.done \o Append(r.line.out, "\n")
    OBVIOUS
  <2>3. PICK n : n = NextLine(r, FALSE)
    OBVIOUS
  <2>4. n.done = d /\ n.line = Start /\ n.len = 0 /\ n.last_cr = FALSE
    BY <2>2, <2>3, NextLineType
  <2>5. Level(n) /\ n.line.out = <<>>
    BY <2>4 DEF Level, Quiet, Start
  <2> QED
    BY <1>3, <2>1, <2>2, <2>3, <2>4, <2>5
<1>4. CASE t # "\n" /\ ~Fits(r)
  <2>1. LoadByte(r, t) = Dropped(r)
    BY <1>2, <1>4 DEF LoadByte
  <2>2. PICK n : n = Dropped(r)
    OBVIOUS
  <2>3. n.done = r.done /\ n.line = r.line /\ n.len = r.len /\ n.last_cr = FALSE
    BY <2>2, DroppedType
  <2>4. Level(n)
    BY <1>2, <2>3 DEF Level
  <2>5. ~(Len(r.line.out) < LINE_MAX)
    BY <1>2, <1>4 DEF Fits
  <2> QED
    BY <1>4, <2>1, <2>2, <2>3, <2>4, <2>5
<1>5. CASE t # "\n" /\ Fits(r)
  <2>1. Len(r.line.out) < LINE_MAX
    BY <1>2, <1>5 DEF Fits
  <2>2. PICK s : s = input_untranslate(r.line, t, LINE_MAX)
    OBVIOUS
  <2>3. s \in LineState /\ s.out = Append(r.line.out, t) /\ Quiet(s)
    BY <1>1, <1>2, <2>1, <2>2, PlainUntranslate, UntranslateType
  <2>4. LoadByte(r, t) = Converted(r, s)
    BY <1>2, <1>5, <2>2, Zenon DEF LoadByte
  <2>5. PICK n : n = Converted(r, s)
    OBVIOUS
  <2>6. n.done = r.done /\ n.line = s /\ n.len = r.len + 1 /\ n.last_cr = FALSE
    BY <2>3, <2>5, ConvertedType
  <2>7. Len(Append(r.line.out, t)) = Len(r.line.out) + 1
    BY <1>1, AppendProperties
  <2>8. Level(n)
    BY <1>2, <2>3, <2>6, <2>7 DEF Level
  <2> QED
    BY <1>5, <2>1, <2>3, <2>4, <2>5, <2>6, <2>8
<1> QED
  BY <1>3, <1>4, <1>5

LEMMA ReaderIsLevel == Level(Reader)
<1>1. Reader.line = Start /\ Reader.len = 0 /\ ~Reader.last_cr
  BY DEF Reader
<1>2. Start.out = <<>> /\ Quiet(Start)
  BY DEF Start, Quiet
<1>3. Len(<<>>) = 0
  OBVIOUS
<1> QED
  BY <1>1, <1>2, <1>3 DEF Level

LEMMA PlainSavesAlike ==
  ASSUME NEW t, t \in Seq(Token), \A i \in 1 .. Len(t) : t[i] \in PlainToken
  PROVE  Saved(t, TRUE) = Saved(t, FALSE) /\ Loaded(t, TRUE) = Saved(t, FALSE)
<1> DEFINE n == Len(t)
<1>1. PICK T : T = Saving(t, TRUE)
  OBVIOUS
<1>2. PICK R : R = Saving(t, FALSE)
  OBVIOUS
<1>3. PICK L : L = Loading(t)
  OBVIOUS
<1>4. /\ n \in Nat
      /\ \A i \in 0 .. n : T[i] \in ReaderState /\ R[i] \in ReaderState /\ L[i] \in ReaderState
      /\ T[0] = Reader /\ R[0] = Reader /\ L[0] = Reader
      /\ \A i \in 1 .. n : T[i] = SaveByte(T[i - 1], t[i], TRUE)
      /\ \A i \in 1 .. n : R[i] = SaveByte(R[i - 1], t[i], FALSE)
      /\ \A i \in 1 .. n : L[i] = LoadByte(L[i - 1], t[i])
  BY <1>1, <1>2, <1>3, SavingIs, LoadingIs, LenProperties
<1> DEFINE Same(i) == /\ Level(T[i]) /\ Level(R[i]) /\ Level(L[i])
                      /\ Alike(T[i], R[i]) /\ Alike(L[i], R[i])
           S == {i \in 0 .. n : Same(i)}
<1>5. 0 \in S
  BY <1>4, ReaderIsLevel DEF Alike
<1>6. ASSUME NEW i \in 0 .. n - 1, i \in S
      PROVE  i + 1 \in S
  <2>1. i + 1 \in 1 .. n /\ (i + 1) - 1 = i /\ i + 1 \in 0 .. n /\ i \in 0 .. n
    BY <1>4
  <2>2. PICK x : x = t[i + 1]
    OBVIOUS
  <2>3. x \in PlainToken
    BY <2>1, <2>2
  <2>4. PICK a : a = T[i]
    OBVIOUS
  <2>5. PICK b : b = R[i]
    OBVIOUS
  <2>6. PICK c : c = L[i]
    OBVIOUS
  <2>7. /\ a \in ReaderState /\ b \in ReaderState /\ c \in ReaderState
        /\ Level(a) /\ Level(b) /\ Level(c) /\ Alike(a, b) /\ Alike(c, b)
    BY <1>4, <1>6, <2>1, <2>4, <2>5, <2>6
  <2>8. /\ T[i + 1] = SaveByte(a, x, TRUE) /\ R[i + 1] = SaveByte(b, x, FALSE)
        /\ L[i + 1] = LoadByte(c, x)
    BY <1>4, <2>1, <2>2, <2>4, <2>5, <2>6
  <2>9. a.done = b.done /\ c.done = b.done /\ a.line.out = b.line.out /\ c.line.out = b.line.out
    BY <2>7 DEF Alike
  <2>10. /\ Level(SaveByte(a, x, TRUE)) /\ Level(SaveByte(b, x, FALSE))
         /\ Level(LoadByte(c, x))
    BY <2>3, <2>7, PlainSave, PlainLoad
  <2> DEFINE D == IF x = "\n" THEN b.done \o Append(b.line.out, "\n") ELSE b.done
             O == IF x = "\n" THEN <<>>
                  ELSE IF Len(b.line.out) < LINE_MAX THEN Append(b.line.out, x)
                  ELSE b.line.out
  <2>11. SaveByte(a, x, TRUE).done = D /\ SaveByte(a, x, TRUE).line.out = O
    <3>1. /\ SaveByte(a, x, TRUE).done =
               IF x = "\n" THEN a.done \o Append(a.line.out, "\n") ELSE a.done
          /\ SaveByte(a, x, TRUE).line.out =
               IF x = "\n" THEN <<>>
               ELSE IF Len(a.line.out) < LINE_MAX THEN Append(a.line.out, x)
               ELSE a.line.out
      BY <2>3, <2>7, PlainSave
    <3> QED
      BY <2>9, <3>1, Zenon
  <2>12. SaveByte(b, x, FALSE).done = D /\ SaveByte(b, x, FALSE).line.out = O
    BY <2>3, <2>7, PlainSave
  <2>13. LoadByte(c, x).done = D /\ LoadByte(c, x).line.out = O
    <3>1. /\ LoadByte(c, x).done =
               IF x = "\n" THEN c.done \o Append(c.line.out, "\n") ELSE c.done
          /\ LoadByte(c, x).line.out =
               IF x = "\n" THEN <<>>
               ELSE IF Len(c.line.out) < LINE_MAX THEN Append(c.line.out, x)
               ELSE c.line.out
      BY <2>3, <2>7, PlainLoad
    <3> QED
      BY <2>9, <3>1, Zenon
  <2> HIDE DEF D, O
  <2>14. /\ Alike(SaveByte(a, x, TRUE), SaveByte(b, x, FALSE))
         /\ Alike(LoadByte(c, x), SaveByte(b, x, FALSE))
    BY <2>11, <2>12, <2>13 DEF Alike
  <2> QED
    BY <2>1, <2>8, <2>10, <2>14
<1>7. \A i \in 0 .. n : i \in S
  <2> HIDE DEF S, n
  <2> QED
    BY <1>4, <1>5, <1>6, Steps
<1>8. n \in 0 .. n
  BY <1>4
<1>9. Alike(T[n], R[n]) /\ Alike(L[n], R[n])
  BY <1>7, <1>8
<1>10. Whole(T[n]) = Whole(R[n]) /\ Whole(L[n]) = Whole(R[n])
  BY <1>9 DEF Alike, Whole
<1>11. /\ Saved(t, TRUE) = Whole(T[n]) /\ Saved(t, FALSE) = Whole(R[n])
       /\ Loaded(t, TRUE) = Whole(L[n])
  BY <1>1, <1>2, <1>3 DEF Saved, Loaded
<1> QED
  BY <1>10, <1>11

(* Such a text, saved and opened in its mode, is the text again. *)
LEMMA PlainKept ==
  ASSUME NEW t, t \in Seq(Token), NEW cooked, cooked \in BOOLEAN, Plain(t)
  PROVE  Loaded(Saved(t, cooked), cooked) = t
<1>1. \A i \in 1 .. Len(t) : t[i] \in PlainToken
  BY DEF Plain, PlainToken
<1>2. Saved(t, FALSE) = t
  BY DEF Plain
<1>3. Saved(t, TRUE) = t /\ Loaded(t, TRUE) = t
  BY <1>1, <1>2, PlainSavesAlike
<1>4. Loaded(t, FALSE) = t
  BY DEF Loaded
<1>5. cooked = TRUE \/ cooked = FALSE
  OBVIOUS
<1> QED
  BY <1>2, <1>3, <1>4, <1>5

-----------------------------------------------------------------------------
(* Types of the session's steps.                                           *)
DiskOK(d) == /\ DOMAIN d \subseteq Files
             /\ \A name \in DOMAIN d : d[name] \in Seq(Token)
NoteOK(n) == /\ n.name \in Files \cup {Untitled}
             /\ n.editor \in BOOLEAN /\ n.cursor \in 0 .. Cap
TextOK == /\ s_fname \in Files \cup {Untitled} /\ s_cooked \in BOOLEAN
          /\ text \in Seq(Token) /\ Len(text) <= Cap /\ cursor \in 0 .. Len(text)
          /\ dirty \in BOOLEAN /\ failed \in BOOLEAN
PhaseOK == phase \in {"browser", "editing", "running", "boot"}
EventsOK == events \in 0 .. MaxEvents

LEMMA TypeParts == TypeOK <=> PhaseOK /\ DiskOK(disk) /\ NoteOK(note) /\ TextOK /\ EventsOK
  BY DEF TypeOK, PhaseOK, DiskOK, NoteOK, TextOK, EventsOK

LEMMA TypePartsAfter ==
  ASSUME PhaseOK', DiskOK(disk)', NoteOK(note)', TextOK', EventsOK'
  PROVE  TypeOK'
  BY DEF TypeOK, PhaseOK, DiskOK, NoteOK, TextOK, EventsOK

(* What a save may leave, and what a load may. *)
SaveOK(e) ==
  /\ e.name \in Files \cup {Untitled} /\ DiskOK(e.disk)
  /\ e.result \in {"clean", "cancelled", "discarded", "saved", "error"}
  /\ e.result = "saved" => /\ e.name \in Files /\ e.name \in DOMAIN e.disk
                           /\ e.disk[e.name] = Saved(text, s_cooked)
  /\ e.result \in {"clean", "cancelled", "discarded"} => e.name = s_fname /\ e.disk = disk
  /\ e.result = "clean" => ~dirty

LoadOK(l, d, name, cooked, old) ==
  /\ l.text \in Seq(Token) /\ Len(l.text) <= Cap
  /\ l.result \in {"OK", "TOOBIG", "NOTFOUND"} /\ l.error \in BOOLEAN
  /\ l.result = "NOTFOUND" => l.text = old
  /\ Complete(l) => name \in DOMAIN d /\ l.text = Loaded(d[name], cooked)

LEMMA PrefixType ==
  ASSUME NEW t \in Seq(Token), NEW k \in 0 .. Len(t)
  PROVE  SubSeq(t, 1, k) \in Seq(Token) /\ (k = Len(t) => SubSeq(t, 1, k) = t)
<1>1. \A i \in 1 .. k : t[i] \in Token
  OBVIOUS
<1>2. k \in Nat /\ 1 \in Nat
  OBVIOUS
<1>3. SubSeq(t, 1, k) \in Seq(Token)
  OBVIOUS
<1>4. k = Len(t) => SubSeq(t, 1, k) = t
  OBVIOUS
<1> QED
  BY <1>3, <1>4

LEMMA LoadIsOK ==
  ASSUME NEW d, DiskOK(d), NEW name, NEW cooked, cooked \in BOOLEAN,
         NEW old, old \in Seq(Token), Len(old) <= Cap,
         NEW l, l \in editor_file_load(d, name, cooked, old)
  PROVE  LoadOK(l, d, name, cooked, old)
<1>1. ASSUME l.result = "NOTFOUND", l.text = old, l.error \in BOOLEAN
      PROVE  LoadOK(l, d, name, cooked, old)
  BY <1>1 DEF LoadOK, Complete
<1>2. CASE name \notin DOMAIN d
  <2>1. l = LoadEnd("NOTFOUND", old, FALSE)
    BY <1>2 DEF editor_file_load
  <2> QED
    BY <1>1, <2>1 DEF LoadEnd
<1>3. CASE name \in DOMAIN d /\ l = LoadEnd("NOTFOUND", old, TRUE)
  BY <1>1, <1>3 DEF LoadEnd
<1>4. CASE name \in DOMAIN d /\ l # LoadEnd("NOTFOUND", old, TRUE)
  <2>1. PICK f : f = d[name]
    OBVIOUS
  <2>2. f \in Seq(Token)
    BY <1>4, <2>1 DEF DiskOK
  <2>3. PICK k \in 0 .. Len(f) :
          l = LET t == Loaded(SubSeq(f, 1, k), cooked)
              IN  IF Len(t) > Cap THEN LoadEnd("TOOBIG", <<>>, k < Len(f))
                  ELSE LoadEnd("OK", t, k < Len(f))
    BY <1>4, <2>1 DEF editor_file_load
  <2>4. PICK t : t = Loaded(SubSeq(f, 1, k), cooked)
    OBVIOUS
  <2>5. t \in Seq(Token) /\ Len(t) \in Nat
    <3>1. SubSeq(f, 1, k) \in Seq(Token)
      BY <2>2, PrefixType
    <3> QED
      BY <2>4, <3>1, LoadedType, LenProperties
  <2>6. \E b \in BOOLEAN :
          /\ l = IF Len(t) > Cap THEN LoadEnd("TOOBIG", <<>>, b) ELSE LoadEnd("OK", t, b)
          /\ ~b => k = Len(f)
    <3>1. CASE k < Len(f)
      <4>1. (k < Len(f)) = TRUE
        BY <3>1, Zenon
      <4> QED
        BY <2>3, <2>4, <4>1, Zenon
    <3>2. CASE ~(k < Len(f))
      <4>1. (k < Len(f)) = FALSE
        BY <3>2, <2>2, LenProperties, SMT
      <4>2. k = Len(f)
        BY <2>2, <3>2, LenProperties
      <4> QED
        BY <2>3, <2>4, <4>1, <4>2, Zenon
    <3> QED
      BY <3>1, <3>2
  <2>7. PICK b \in BOOLEAN :
          /\ l = IF Len(t) > Cap THEN LoadEnd("TOOBIG", <<>>, b) ELSE LoadEnd("OK", t, b)
          /\ ~b => k = Len(f)
    BY <2>6
  <2>8. CASE Len(t) > Cap
    <3>1. l = LoadEnd("TOOBIG", <<>>, b)
      BY <2>7, <2>8
    <3>2. l.result = "TOOBIG" /\ l.text = <<>> /\ l.error = b
      BY <2>7, <3>1 DEF LoadEnd
    <3>3. <<>> \in Seq(Token) /\ Len(<<>>) <= Cap
      BY EditorSizes
    <3> QED
      BY <2>7, <3>2, <3>3 DEF LoadOK, Complete
  <2>9. CASE ~(Len(t) > Cap)
    <3>1. l = LoadEnd("OK", t, b)
      BY <2>7, <2>9
    <3>2. l.result = "OK" /\ l.text = t /\ l.error = b
      BY <2>7, <3>1 DEF LoadEnd
    <3>3. Len(t) <= Cap
      BY <2>5, <2>9, EditorSizes
    <3>4. ~b => t = Loaded(d[name], cooked)
      <4>1. SUFFICES ASSUME ~b PROVE t = Loaded(f, cooked)
        BY <2>1
      <4>2. SubSeq(f, 1, k) = f
        BY <2>2, <2>7, <4>1, PrefixType
      <4> QED
        BY <2>4, <4>2
    <3> QED
      BY <1>4, <2>5, <2>7, <3>2, <3>3, <3>4 DEF LoadOK, Complete
  <2> QED
    BY <2>8, <2>9
<1> QED
  BY <1>2, <1>3, <1>4

LEMMA WithIsOK ==
  ASSUME DiskOK(disk), NEW name \in Files, NEW content \in Seq(Token)
  PROVE  /\ DiskOK(With(name, content))
         /\ name \in DOMAIN With(name, content) /\ With(name, content)[name] = content
  BY DEF DiskOK, With

LEMMA WithoutIsOK ==
  ASSUME DiskOK(disk), NEW name
  PROVE  DiskOK(Without(name))
  BY DEF DiskOK, Without

LEMMA FileSaveIsOK ==
  ASSUME DiskOK(disk), TextOK, NEW name, name \in Files,
         NEW e, e \in editor_file_save(name)
  PROVE  SaveOK(e)
<1>1. PICK out : out = Saved(text, s_cooked)
  OBVIOUS
<1>2. out \in Seq(Token) /\ Len(out) \in Nat
  BY <1>1, SavedType, LenProperties DEF TextOK
<1>3. \/ e = SaveEnd("saved", name, With(name, out))
      \/ e = SaveEnd("error", s_fname, disk)
      \/ e = SaveEnd("error", s_fname, Without(name))
      \/ \E k \in {0} \cup 1 .. Len(out) - 1 :
           e = SaveEnd("error", s_fname, With(name, SubSeq(out, 1, k)))
  BY <1>1 DEF editor_file_save
<1>4. ASSUME NEW d, DiskOK(d), e = SaveEnd("error", s_fname, d)
      PROVE  SaveOK(e)
  <2>1. e.result = "error" /\ e.name = s_fname /\ e.disk = d
    BY <1>4 DEF SaveEnd
  <2> QED
    BY <1>4, <2>1 DEF SaveOK, TextOK
<1>5. CASE e = SaveEnd("saved", name, With(name, out))
  <2>1. PICK d : d = With(name, out)
    OBVIOUS
  <2>2. DiskOK(d) /\ name \in DOMAIN d /\ d[name] = out
    BY <1>2, <2>1, WithIsOK
  <2>3. e.result = "saved" /\ e.name = name /\ e.disk = d
    BY <1>5, <2>1 DEF SaveEnd
  <2> QED
    BY <1>1, <2>2, <2>3 DEF SaveOK
<1>6. CASE \E k \in {0} \cup 1 .. Len(out) - 1 :
             e = SaveEnd("error", s_fname, With(name, SubSeq(out, 1, k)))
  <2>1. PICK k \in {0} \cup 1 .. Len(out) - 1 :
          e = SaveEnd("error", s_fname, With(name, SubSeq(out, 1, k)))
    BY <1>6
  <2>2. k \in 0 .. Len(out)
    BY <1>2, <2>1
  <2>3. SubSeq(out, 1, k) \in Seq(Token)
    BY <1>2, <2>2, PrefixType
  <2>4. DiskOK(With(name, SubSeq(out, 1, k)))
    BY <2>3, WithIsOK
  <2> QED
    BY <1>4, <2>1, <2>4
<1>7. DiskOK(Without(name))
  BY WithoutIsOK
<1> QED
  BY <1>3, <1>4, <1>5, <1>6, <1>7

LEMMA DoSaveIsOK ==
  ASSUME DiskOK(disk), TextOK, NEW e, e \in do_save
  PROVE  SaveOK(e) /\ e.result \in {"saved", "error", "cancelled"}
<1>1. ASSUME NEW name, e \in editor_file_save(name)
      PROVE  e.result \in {"saved", "error"}
  <2>1. e.result = "saved" \/ e.result = "error"
    BY <1>1 DEF editor_file_save, SaveEnd
  <2> QED
    BY <2>1
<1>2. CASE s_fname # Untitled
  <2>1. e \in editor_file_save(s_fname) /\ s_fname \in Files
    BY <1>2 DEF do_save, TextOK
  <2> QED
    BY <1>1, <2>1, FileSaveIsOK
<1>3. CASE s_fname = Untitled
  <2>1. \/ e = SaveEnd("cancelled", Untitled, disk)
        \/ \E name \in Files : e \in editor_file_save(name)
    BY <1>3 DEF do_save
  <2>2. CASE e = SaveEnd("cancelled", Untitled, disk)
    <3>1. e.result = "cancelled" /\ e.name = Untitled /\ e.disk = disk
      BY <2>2 DEF SaveEnd
    <3> QED
      BY <1>3, <3>1 DEF SaveOK
  <2>3. CASE \E name \in Files : e \in editor_file_save(name)
    BY <1>1, <2>3, FileSaveIsOK
  <2> QED
    BY <2>1, <2>2, <2>3
<1> QED
  BY <1>2, <1>3

LEMMA AskedIsOK ==
  ASSUME DiskOK(disk), TextOK, NEW e, e \in Asked
  PROVE  SaveOK(e)
<1>1. ASSUME NEW result, result \in {"clean", "cancelled", "discarded"},
             result = "clean" => ~dirty, e = SaveEnd(result, s_fname, disk)
      PROVE  SaveOK(e)
  <2>1. e.result = result /\ e.name = s_fname /\ e.disk = disk
    BY <1>1 DEF SaveEnd
  <2> QED
    BY <1>1, <2>1 DEF SaveOK, TextOK
<1>2. CASE ~dirty
  <2>1. e = SaveEnd("clean", s_fname, disk)
    BY <1>2 DEF Asked
  <2> QED
    BY <1>1, <1>2, <2>1
<1>3. CASE dirty
  <2>1. \/ e = SaveEnd("cancelled", s_fname, disk)
        \/ e = SaveEnd("discarded", s_fname, disk)
        \/ e \in do_save
    BY <1>3 DEF Asked
  <2> QED
    BY <1>1, <2>1, DoSaveIsOK
<1> QED
  BY <1>2, <1>3

LEMMA SpendIsOK ==
  ASSUME EventsOK, NEW n \in Nat, Spend(n)
  PROVE  EventsOK'
  BY EditorSizes DEF EventsOK, Spend

LEMMA CostIs ==
  ASSUME NEW error
  PROVE  Cost(error) \in Nat
  BY DEF Cost

LEMMA CostsAre ==
  ASSUME NEW error, NEW n \in Nat
  PROVE  Cost(error) + n \in Nat
  BY CostIs

-----------------------------------------------------------------------------
(* The text Ctrl-R left waits for its user in the file the note names.     *)
Awaited ==
  phase \in {"running", "boot"} /\ last # Nothing =>
    /\ last.text \in Seq(Token) /\ last.cooked \in BOOLEAN
    /\ note.editor /\ note.name \in Files /\ note.name \in DOMAIN disk
    /\ disk[note.name] = Saved(last.text, last.cooked)
    /\ note.cursor <= Len(last.text)

EditorInv == TypeOK /\ CleanIsSaved /\ Awaited

LEMMA NoText ==
  /\ <<>> \in Seq(Token) /\ Len(<<>>) <= Cap
  /\ 0 \in 0 .. Len(<<>>)
  BY EditorSizes

LEMMA EditorMainStep ==
  ASSUME DiskOK(disk), EventsOK, NEW name, name \in Files \cup {Untitled},
         NEW start, start \in 0 .. Cap, NEW errors, errors \in Nat,
         editor_main(name, start, errors)
  PROVE  /\ phase' = "editing" /\ disk' = disk /\ TextOK' /\ EventsOK' /\ CleanIsSaved'
         /\ name # Untitled /\ ~failed' =>
              /\ text' = Loaded(disk[name], editor_path_is_swift(name))
              /\ cursor' = Least(start, Len(text')) /\ s_fname' = name
<1>1. PICK cooked : cooked = editor_path_is_swift(name)
  OBVIOUS
<1>2. cooked \in BOOLEAN
  BY <1>1, Zenon DEF editor_path_is_swift
<1>3. /\ phase' = "editing" /\ disk' = disk /\ s_cooked' = cooked /\ dirty' = FALSE
  BY <1>1 DEF editor_main
<1>4. CASE name = Untitled
  <2>1. /\ s_fname' = Untitled /\ text' = <<>> /\ cursor' = 0
        /\ failed' = FALSE /\ Spend(errors)
    BY <1>4 DEF editor_main
  <2>2. EventsOK'
    BY <2>1, SpendIsOK
  <2>3. TextOK'
    <3>1. text' \in Seq(Token) /\ Len(text') <= Cap /\ cursor' \in 0 .. Len(text')
      BY <2>1, NoText
    <3>2. s_fname' \in Files \cup {Untitled} /\ dirty' \in BOOLEAN /\ failed' \in BOOLEAN
      BY <1>3, <2>1
    <3> QED
      BY <1>2, <1>3, <3>1, <3>2 DEF TextOK
  <2>4. CleanIsSaved'
    BY <2>1 DEF CleanIsSaved
  <2> QED
    BY <1>3, <1>4, <2>2, <2>3, <2>4
<1>5. CASE name # Untitled
  <2>1. \E e \in editor_file_load(disk, name, cooked, <<>>) :
          /\ s_fname' = IF e.result = "OK" THEN name ELSE Untitled
          /\ text' = e.text
          /\ cursor' = Least(start, Len(e.text))
          /\ failed' = ~Complete(e)
          /\ Spend(Cost(e.error) + errors)
    BY <1>1, <1>5, Zenon DEF editor_main
  <2>2. PICK e \in editor_file_load(disk, name, cooked, <<>>) :
          /\ s_fname' = IF e.result = "OK" THEN name ELSE Untitled
          /\ text' = e.text
          /\ cursor' = Least(start, Len(e.text))
          /\ failed' = ~Complete(e)
          /\ Spend(Cost(e.error) + errors)
    BY <2>1
  <2>3. <<>> \in Seq(Token) /\ Len(<<>>) <= Cap
    BY EditorSizes
  <2>4. LoadOK(e, disk, name, cooked, <<>>)
    BY <1>2, <2>3, LoadIsOK
  <2>5. EventsOK'
    BY <2>2, CostsAre, SpendIsOK
  <2>6. text' \in Seq(Token) /\ Len(text') <= Cap
    BY <2>2, <2>4 DEF LoadOK
  <2>7. cursor' \in 0 .. Len(text')
    <3>1. PICK n : n = Len(text')
      OBVIOUS
    <3>2. n \in Nat
      BY <2>6, <3>1, LenProperties
    <3>3. cursor' = Least(start, n)
      BY <2>2, <3>1
    <3>4. cursor' \in 0 .. n
      BY <3>2, <3>3, EditorSizes DEF Least
    <3> QED
      BY <3>1, <3>4
  <2>8. s_fname' \in Files \cup {Untitled} /\ (Complete(e) => s_fname' = name)
    BY <2>2 DEF Complete
  <2>9. failed' \in BOOLEAN /\ (~failed' => Complete(e))
    <3>1. Complete(e) \in BOOLEAN
      BY Zenon DEF Complete
    <3> QED
      BY <2>2, <3>1
  <2>10. TextOK'
    BY <1>2, <1>3, <2>6, <2>7, <2>8, <2>9 DEF TextOK
  <2>11. Complete(e) => name \in DOMAIN disk /\ text' = Loaded(disk[name], cooked)
    BY <2>2, <2>4 DEF LoadOK
  <2>12. CleanIsSaved'
    BY <1>3, <2>8, <2>9, <2>11 DEF CleanIsSaved
  <2>13. cursor' = Least(start, Len(text'))
    BY <2>2
  <2> QED
    BY <1>1, <1>3, <2>5, <2>8, <2>9, <2>10, <2>11, <2>12, <2>13
<1> QED
  BY <1>4, <1>5

LEMMA LeftStep ==
  ASSUME Left
  PROVE  TextOK' /\ CleanIsSaved'
<1>1. TextOK'
  <2>1. text' \in Seq(Token) /\ Len(text') <= Cap /\ cursor' \in 0 .. Len(text')
    BY NoText DEF Left
  <2>2. /\ s_fname' \in Files \cup {Untitled} /\ s_cooked' \in BOOLEAN
        /\ dirty' \in BOOLEAN /\ failed' \in BOOLEAN
    BY DEF Left
  <2> QED
    BY <2>1, <2>2 DEF TextOK
<1>2. CleanIsSaved'
  BY DEF Left, CleanIsSaved
<1> QED
  BY <1>1, <1>2

LEMMA SaveStep ==
  ASSUME TextOK, EventsOK, CleanIsSaved, Editing, NEW e, SaveOK(e),
         e.result \in {"saved", "cancelled", "error"}, SaveEffect(e),
         UNCHANGED <<s_cooked, text, cursor>>
  PROVE  TextOK' /\ EventsOK' /\ CleanIsSaved' /\ DiskOK(disk')
<1>1. /\ disk' = e.disk /\ s_fname' = e.name
      /\ dirty' = (dirty /\ e.result # "saved")
      /\ Spend(Cost(e.result = "error"))
  BY DEF SaveEffect
<1>2. /\ e.result = "saved" => failed' = FALSE
      /\ e.result = "error" => failed' = TRUE
      /\ e.result = "cancelled" => failed' = failed
  BY DEF SaveEffect
<1>3. EventsOK'
  BY <1>1, CostIs, SpendIsOK
<1>4. DiskOK(disk') /\ s_fname' \in Files \cup {Untitled}
  BY <1>1 DEF SaveOK
<1>5. dirty \in BOOLEAN /\ failed \in BOOLEAN
  BY DEF TextOK
<1>6. dirty' \in BOOLEAN /\ (~dirty' => ~dirty \/ e.result = "saved")
  BY <1>1, <1>5
<1>7. failed' \in BOOLEAN
  BY <1>2, <1>5
<1>8. TextOK'
  BY <1>4, <1>6, <1>7 DEF TextOK
<1>9. CASE e.result = "saved"
  <2>1. s_fname' \in DOMAIN disk' /\ disk'[s_fname'] = Saved(text', s_cooked')
    BY <1>1, <1>9 DEF SaveOK
  <2> QED
    BY <1>3, <1>4, <1>8, <2>1 DEF CleanIsSaved
<1>10. CASE e.result = "error"
  <2>1. failed'
    BY <1>2, <1>10
  <2>2. CleanIsSaved'
    BY <2>1 DEF CleanIsSaved
  <2> QED
    BY <1>3, <1>4, <1>8, <2>2
<1>11. CASE e.result = "cancelled"
  <2>1. s_fname' = s_fname /\ disk' = disk /\ failed' = failed
    BY <1>1, <1>2, <1>11 DEF SaveOK
  <2>2. ~dirty' => ~dirty
    BY <1>6, <1>11
  <2>3. CleanIsSaved'
    BY <2>1, <2>2 DEF CleanIsSaved, Editing
  <2> QED
    BY <1>3, <1>4, <1>8, <2>3
<1> QED
  BY <1>9, <1>10, <1>11

LEMMA OpenStep ==
  ASSUME EditorInv, Open
  PROVE  EditorInv'
<1>1. PhaseOK /\ DiskOK(disk) /\ NoteOK(note) /\ TextOK /\ EventsOK
  BY TypeParts DEF EditorInv
<1>2. PICK name \in DOMAIN disk \cup {Untitled} : editor_main(name, 0, 0)
  BY DEF Open
<1>3. name \in Files \cup {Untitled} /\ 0 \in 0 .. Cap /\ 0 \in Nat
  BY <1>1, <1>2, EditorSizes DEF DiskOK
<1>4. phase' = "editing" /\ disk' = disk /\ TextOK' /\ EventsOK' /\ CleanIsSaved'
  BY <1>1, <1>2, <1>3, EditorMainStep
<1>5. NoteOK(note)' /\ DiskOK(disk)' /\ PhaseOK'
  BY <1>1, <1>4 DEF Open, NoteOK, DiskOK, PhaseOK
<1>6. TypeOK'
  BY <1>4, <1>5, TypePartsAfter
<1>7. Awaited'
  BY <1>4 DEF Awaited
<1> QED
  BY <1>4, <1>6, <1>7 DEF EditorInv

LEMMA QuitStep ==
  ASSUME EditorInv, Quit
  PROVE  EditorInv'
<1>1. PhaseOK /\ DiskOK(disk) /\ NoteOK(note) /\ TextOK /\ EventsOK /\ CleanIsSaved
  BY TypeParts DEF EditorInv
<1>2. Editing /\ note' = note
  BY DEF Quit
<1>3. PICK e \in Asked :
        IF GoesOn(e)
        THEN phase' = "browser" /\ disk' = e.disk /\ Left /\ UNCHANGED events
        ELSE SaveEffect(e) /\ UNCHANGED <<phase, s_cooked, text, cursor>>
  BY DEF Quit
<1>4. SaveOK(e)
  BY <1>1, AskedIsOK
<1>5. NoteOK(note)'
  BY <1>1, <1>2 DEF NoteOK
<1>6. CASE GoesOn(e)
  <2>1. phase' = "browser" /\ disk' = e.disk /\ Left /\ events' = events
    BY <1>3, <1>6
  <2>2. TextOK' /\ CleanIsSaved'
    BY <2>1, LeftStep
  <2>3. PhaseOK' /\ EventsOK' /\ DiskOK(disk)'
    BY <1>1, <1>4, <2>1 DEF PhaseOK, EventsOK, SaveOK, DiskOK
  <2>4. Awaited'
    BY <2>1 DEF Awaited
  <2>5. TypeOK'
    BY <1>5, <2>2, <2>3, TypePartsAfter
  <2> QED
    BY <2>2, <2>4, <2>5 DEF EditorInv
<1>7. CASE ~GoesOn(e)
  <2>1. SaveEffect(e) /\ phase' = phase /\ UNCHANGED <<s_cooked, text, cursor>>
    BY <1>3, <1>7
  <2>2. e.result \in {"saved", "cancelled", "error"}
    BY <1>4, <1>7 DEF SaveOK, GoesOn
  <2>3. TextOK' /\ EventsOK' /\ CleanIsSaved' /\ DiskOK(disk')
    BY <1>1, <1>2, <1>4, <2>1, <2>2, SaveStep
  <2>4. PhaseOK' /\ DiskOK(disk)'
    BY <1>1, <2>1, <2>3 DEF PhaseOK, DiskOK
  <2>5. Awaited'
    BY <1>2, <2>1 DEF Awaited, Editing
  <2>6. TypeOK'
    BY <1>5, <2>3, <2>4, TypePartsAfter
  <2> QED
    BY <2>3, <2>5, <2>6 DEF EditorInv
<1> QED
  BY <1>6, <1>7

LEMMA SaveKeyStep ==
  ASSUME EditorInv, Save
  PROVE  EditorInv'
<1>1. PhaseOK /\ DiskOK(disk) /\ NoteOK(note) /\ TextOK /\ EventsOK /\ CleanIsSaved
  BY TypeParts DEF EditorInv
<1>2. Editing /\ note' = note /\ phase' = phase /\ UNCHANGED <<s_cooked, text, cursor>>
  BY DEF Save
<1>3. PICK e \in do_save : SaveEffect(e)
  BY DEF Save
<1>4. SaveOK(e) /\ e.result \in {"saved", "cancelled", "error"}
  BY <1>1, DoSaveIsOK
<1>5. TextOK' /\ EventsOK' /\ CleanIsSaved' /\ DiskOK(disk')
  BY <1>1, <1>2, <1>3, <1>4, SaveStep
<1>6. PhaseOK' /\ DiskOK(disk)' /\ NoteOK(note)'
  BY <1>1, <1>2, <1>5 DEF PhaseOK, DiskOK, NoteOK
<1>7. Awaited'
  BY <1>2 DEF Awaited, Editing
<1>8. TypeOK'
  BY <1>5, <1>6, TypePartsAfter
<1> QED
  BY <1>5, <1>7, <1>8 DEF EditorInv

LEMMA ToggleModeStep ==
  ASSUME EditorInv, ToggleMode
  PROVE  EditorInv'
<1>1. PhaseOK /\ DiskOK(disk) /\ NoteOK(note) /\ TextOK /\ EventsOK /\ CleanIsSaved
  BY TypeParts DEF EditorInv
<1>2. Editing /\ note' = note /\ phase' = phase
  BY DEF ToggleMode
<1>3. PhaseOK' /\ NoteOK(note)' /\ Awaited'
  BY <1>1, <1>2 DEF PhaseOK, NoteOK, Awaited, Editing
<1>4. SUFFICES TextOK' /\ EventsOK' /\ CleanIsSaved' /\ DiskOK(disk')
  <2>1. ASSUME TextOK', EventsOK', CleanIsSaved', DiskOK(disk')
        PROVE  EditorInv'
    <3>1. DiskOK(disk)'
      BY <2>1 DEF DiskOK
    <3>2. TypeOK'
      BY <1>3, <2>1, <3>1, TypePartsAfter
    <3> QED
      BY <1>3, <2>1, <3>2 DEF EditorInv
  <2> QED
    BY <2>1
<1>5. PICK e \in Asked :
        IF ~GoesOn(e)
        THEN SaveEffect(e) /\ UNCHANGED <<s_cooked, text, cursor>>
        ELSE /\ disk' = e.disk /\ s_fname' = e.name
             /\ s_cooked' = ~s_cooked
             /\ IF e.name = Untitled
                THEN UNCHANGED <<text, cursor, dirty, failed, events>>
                ELSE \E l \in editor_file_load(e.disk, e.name, ~s_cooked, text) :
                       /\ text' = l.text
                       /\ cursor' = IF l.result = "NOTFOUND" THEN cursor ELSE 0
                       /\ dirty' = (l.result # "OK" /\ dirty /\ e.result # "saved")
                       /\ failed' = ~Complete(l)
                       /\ Spend(Cost(l.error))
  BY DEF ToggleMode
<1>6. SaveOK(e)
  BY <1>1, AskedIsOK
<1>7. CASE ~GoesOn(e)
  <2>1. SaveEffect(e) /\ UNCHANGED <<s_cooked, text, cursor>>
    BY <1>5, <1>7
  <2>2. e.result \in {"saved", "cancelled", "error"}
    BY <1>6, <1>7 DEF SaveOK, GoesOn
  <2> QED
    BY <1>1, <1>2, <1>6, <2>1, <2>2, SaveStep
<1>8. CASE GoesOn(e)
  <2>1. disk' = e.disk /\ s_fname' = e.name
    BY <1>5, <1>8
  <2>2. PICK cooked \in BOOLEAN : cooked = ~s_cooked
    BY <1>1 DEF TextOK
  <2>3. s_cooked' = cooked
    BY <1>5, <1>8, <2>2
  <2>4. DiskOK(disk') /\ DiskOK(e.disk) /\ s_fname' \in Files \cup {Untitled}
    BY <1>6, <2>1 DEF SaveOK
  <2>5. CASE e.name = Untitled
    <3>1. UNCHANGED <<text, cursor, dirty, failed, events>>
      BY <1>5, <1>8, <2>5
    <3>2. TextOK' /\ EventsOK'
      BY <1>1, <2>3, <2>4, <3>1 DEF TextOK, EventsOK
    <3>3. CleanIsSaved'
      BY <2>1, <2>5 DEF CleanIsSaved
    <3> QED
      BY <2>4, <3>2, <3>3
  <2>6. CASE e.name # Untitled
    <3>1. \E l \in editor_file_load(e.disk, e.name, cooked, text) :
            /\ text' = l.text
            /\ cursor' = IF l.result = "NOTFOUND" THEN cursor ELSE 0
            /\ dirty' = (l.result # "OK" /\ dirty /\ e.result # "saved")
            /\ failed' = ~Complete(l)
            /\ Spend(Cost(l.error))
      BY <1>5, <1>8, <2>2, <2>6
    <3>2. PICK l \in editor_file_load(e.disk, e.name, cooked, text) :
            /\ text' = l.text
            /\ cursor' = IF l.result = "NOTFOUND" THEN cursor ELSE 0
            /\ dirty' = (l.result # "OK" /\ dirty /\ e.result # "saved")
            /\ failed' = ~Complete(l)
            /\ Spend(Cost(l.error))
      BY <3>1
    <3>3. LoadOK(l, e.disk, e.name, cooked, text)
      <4>1. text \in Seq(Token) /\ Len(text) <= Cap
        BY <1>1 DEF TextOK
      <4> QED
        BY <2>4, <4>1, LoadIsOK
    <3>4. EventsOK'
      BY <1>1, <3>2, CostIs, SpendIsOK
    <3>5. text' \in Seq(Token) /\ Len(text') <= Cap
      BY <3>2, <3>3 DEF LoadOK
    <3>6. cursor' \in 0 .. Len(text')
      <4>1. CASE l.result = "NOTFOUND"
        <5>1. text' = text /\ cursor' = cursor
          BY <3>2, <3>3, <4>1 DEF LoadOK
        <5> QED
          BY <1>1, <5>1 DEF TextOK
      <4>2. CASE l.result # "NOTFOUND"
        <5>1. cursor' = 0 /\ Len(text') \in Nat
          BY <3>2, <3>5, <4>2, LenProperties
        <5> QED
          BY <5>1
      <4> QED
        BY <4>1, <4>2
    <3>7. dirty' \in BOOLEAN
      BY <1>1, <3>2 DEF TextOK
    <3>8. failed' \in BOOLEAN /\ (~failed' => Complete(l))
      <4>1. Complete(l) \in BOOLEAN
        BY Zenon DEF Complete
      <4> QED
        BY <3>2, <4>1
    <3>9. TextOK'
      BY <2>3, <2>4, <3>5, <3>6, <3>7, <3>8 DEF TextOK
    <3>10. Complete(l) => s_fname' \in DOMAIN disk' /\ text' = Loaded(disk'[s_fname'], s_cooked')
      BY <2>1, <2>3, <3>2, <3>3 DEF LoadOK
    <3>11. CleanIsSaved'
      BY <3>8, <3>10 DEF CleanIsSaved
    <3> QED
      BY <2>4, <3>4, <3>9, <3>11
  <2> QED
    BY <2>5, <2>6
<1> QED
  BY <1>7, <1>8

LEMMA NotesAre ==
  ASSUME NoteOK(note), NEW name, name \in Files \cup {Untitled}, NEW editor,
         editor \in BOOLEAN, NEW place, place \in 0 .. Cap, NEW n,
         n \in note_save([name |-> name, editor |-> editor, cursor |-> place])
  PROVE  NoteOK(n)
<1>1. PICK new : new = [name |-> name, editor |-> editor, cursor |-> place]
  OBVIOUS
<1>2. \/ n = new \/ n = note \/ n = NoNote \/ n = [new EXCEPT !.cursor = 0]
      \/ n = [new EXCEPT !.cursor = 0, !.editor = FALSE]
  BY <1>1 DEF note_save
<1>3. 0 \in 0 .. Cap
  BY EditorSizes
<1>4. NoteOK(NoNote)
  BY <1>3 DEF NoNote, NoteOK
<1>5. /\ new.name \in Files \cup {Untitled} /\ new.editor \in BOOLEAN /\ new.cursor \in 0 .. Cap
      /\ new \in [name : Files \cup {Untitled}, editor : BOOLEAN, cursor : 0 .. Cap]
  BY <1>1
<1>6. \A m \in {new, [new EXCEPT !.cursor = 0], [new EXCEPT !.cursor = 0, !.editor = FALSE]} :
        m \in [name : Files \cup {Untitled}, editor : BOOLEAN, cursor : 0 .. Cap]
  BY <1>3, <1>5
<1>7. \A m \in [name : Files \cup {Untitled}, editor : BOOLEAN, cursor : 0 .. Cap] : NoteOK(m)
  BY DEF NoteOK
<1> QED
  BY <1>2, <1>4, <1>6, <1>7

LEMMA RunStep ==
  ASSUME EditorInv, Run
  PROVE  EditorInv'
<1>1. PhaseOK /\ DiskOK(disk) /\ NoteOK(note) /\ TextOK /\ EventsOK /\ CleanIsSaved
  BY TypeParts DEF EditorInv
<1>2. Editing
  BY DEF Run
<1>3. PICK e \in do_save :
        IF e.result # "saved"
        THEN /\ SaveEffect(e)
             /\ UNCHANGED <<phase, note, s_cooked, text, cursor, last>>
        ELSE /\ disk' = e.disk /\ Left
             /\ LET new == [name |-> e.name, editor |-> TRUE, cursor |-> cursor]
                IN  \/ /\ phase' = "running"
                       /\ note' \in note_save(new)
                       /\ last' = IF note' = new
                                  THEN [text |-> text, cooked |-> s_cooked]
                                  ELSE Nothing
                       /\ Spend(Cost(note' # new))
                    \/ phase' = "browser" /\ Spend(1) /\ UNCHANGED <<note, last>>
  BY DEF Run
<1>4. SaveOK(e) /\ e.result \in {"saved", "cancelled", "error"}
  BY <1>1, DoSaveIsOK
<1>5. CASE e.result # "saved"
  <2>1. SaveEffect(e) /\ UNCHANGED <<phase, note, s_cooked, text, cursor, last>>
    BY <1>3, <1>5
  <2>2. TextOK' /\ EventsOK' /\ CleanIsSaved' /\ DiskOK(disk')
    BY <1>1, <1>2, <1>4, <2>1, SaveStep
  <2>3. PhaseOK' /\ DiskOK(disk)' /\ NoteOK(note)' /\ Awaited'
    BY <1>1, <1>2, <2>1, <2>2 DEF PhaseOK, DiskOK, NoteOK, Awaited, Editing
  <2>4. TypeOK'
    BY <2>2, <2>3, TypePartsAfter
  <2> QED
    BY <2>2, <2>3, <2>4 DEF EditorInv
<1>6. CASE e.result = "saved"
  <2>1. PICK new : new = [name |-> e.name, editor |-> TRUE, cursor |-> cursor]
    OBVIOUS
  <2>2. /\ disk' = e.disk /\ Left
        /\ \/ /\ phase' = "running"
              /\ note' \in note_save(new)
              /\ last' = IF note' = new THEN [text |-> text, cooked |-> s_cooked]
                         ELSE Nothing
              /\ Spend(Cost(note' # new))
           \/ phase' = "browser" /\ Spend(1) /\ UNCHANGED <<note, last>>
    BY <1>3, <1>6, <2>1
  <2>3. TextOK' /\ CleanIsSaved'
    BY <2>2, LeftStep
  <2>4. DiskOK(disk)' /\ e.name \in Files /\ e.name \in DOMAIN disk'
        /\ disk'[e.name] = Saved(text, s_cooked)
    BY <1>4, <1>6, <2>2 DEF SaveOK, DiskOK
  <2>5. cursor \in 0 .. Cap /\ cursor <= Len(text) /\ text \in Seq(Token) /\ s_cooked \in BOOLEAN
    <3>1. Len(text) \in Nat /\ Len(text) <= Cap /\ cursor \in 0 .. Len(text)
      BY <1>1, LenProperties DEF TextOK
    <3> QED
      BY <1>1, <3>1, EditorSizes DEF TextOK
  <2>6. CASE phase' = "browser" /\ Spend(1) /\ UNCHANGED <<note, last>>
    <3>1. PhaseOK' /\ NoteOK(note)' /\ Awaited'
      BY <1>1, <2>6 DEF PhaseOK, NoteOK, Awaited
    <3>2. EventsOK'
      BY <1>1, <2>6, SpendIsOK
    <3>3. TypeOK'
      BY <2>3, <2>4, <3>1, <3>2, TypePartsAfter
    <3> QED
      BY <2>3, <3>1, <3>3 DEF EditorInv
  <2>7. CASE /\ phase' = "running"
             /\ note' \in note_save(new)
             /\ last' = IF note' = new THEN [text |-> text, cooked |-> s_cooked]
                        ELSE Nothing
             /\ Spend(Cost(note' # new))
    <3>1. PhaseOK'
      BY <2>7 DEF PhaseOK
    <3>2. EventsOK'
      BY <1>1, <2>7, CostIs, SpendIsOK
    <3>3. NoteOK(note')
      BY <1>1, <2>1, <2>4, <2>5, <2>7, NotesAre
    <3>4. NoteOK(note)'
      BY <3>3 DEF NoteOK
    <3>5. Awaited'
      <4>1. CASE note' = new
        <5>1. last' = [text |-> text, cooked |-> s_cooked]
          BY <2>7, <4>1
        <5>2. last'.text = text /\ last'.cooked = s_cooked
          BY <2>5, <5>1
        <5>3. note'.name = e.name /\ note'.editor /\ note'.cursor = cursor
          BY <2>1, <4>1
        <5> QED
          BY <2>4, <2>5, <5>2, <5>3 DEF Awaited
      <4>2. CASE note' # new
        <5>1. last' = Nothing
          BY <2>7, <4>2
        <5> QED
          BY <5>1 DEF Awaited, Nothing
      <4> QED
        BY <4>1, <4>2
    <3>6. TypeOK'
      BY <2>3, <2>4, <3>1, <3>2, <3>4, TypePartsAfter
    <3> QED
      BY <2>3, <3>5, <3>6 DEF EditorInv
  <2> QED
    BY <2>2, <2>6, <2>7
<1> QED
  BY <1>5, <1>6

LEMMA RunFileStep ==
  ASSUME EditorInv, RunFile
  PROVE  EditorInv'
<1>1. PhaseOK /\ DiskOK(disk) /\ NoteOK(note) /\ TextOK /\ EventsOK /\ CleanIsSaved
  BY TypeParts DEF EditorInv
<1>2. phase' = "running" /\ last' = Nothing /\ UNCHANGED <<disk, session>>
  BY DEF RunFile
<1>3. PICK name \in DOMAIN disk :
        LET new == [name |-> name, editor |-> FALSE, cursor |-> 0]
        IN  note' \in note_save(new) /\ Spend(Cost(note' # new))
  BY DEF RunFile
<1>4. NoteOK(note')
  <2>1. name \in Files /\ 0 \in 0 .. Cap /\ FALSE \in BOOLEAN
    BY <1>1, EditorSizes DEF DiskOK
  <2> QED
    BY <1>1, <1>3, <2>1, NotesAre
<1>5. EventsOK'
  BY <1>1, <1>3, CostIs, SpendIsOK
<1>6. PhaseOK' /\ NoteOK(note)' /\ DiskOK(disk)' /\ TextOK'
  BY <1>1, <1>2, <1>4 DEF PhaseOK, NoteOK, DiskOK, TextOK, session
<1>7. TypeOK'
  BY <1>5, <1>6, TypePartsAfter
<1>8. CleanIsSaved' /\ Awaited'
  BY <1>2 DEF CleanIsSaved, Editing, Awaited, Nothing
<1> QED
  BY <1>7, <1>8 DEF EditorInv

LEMMA BootStep ==
  ASSUME EditorInv, Boot
  PROVE  EditorInv'
<1>1. PhaseOK /\ DiskOK(disk) /\ NoteOK(note) /\ TextOK /\ EventsOK /\ Awaited
  BY TypeParts DEF EditorInv
<1>2. /\ phase' = "boot" /\ last' = IF phase = "running" THEN last ELSE Nothing
      /\ Left /\ UNCHANGED <<disk, note, events>>
  BY DEF Boot
<1>3. TextOK' /\ CleanIsSaved'
  BY <1>2, LeftStep
<1>4. PhaseOK' /\ NoteOK(note)' /\ DiskOK(disk)' /\ EventsOK'
  BY <1>1, <1>2 DEF PhaseOK, NoteOK, DiskOK, EventsOK
<1>5. TypeOK'
  BY <1>3, <1>4, TypePartsAfter
<1>6. Awaited'
  <2>1. CASE phase = "running"
    <3>1. last' = last /\ disk' = disk /\ note' = note
      BY <1>2, <2>1
    <3> QED
      BY <1>1, <2>1, <3>1 DEF Awaited
  <2>2. CASE phase # "running"
    <3>1. last' = Nothing
      BY <1>2, <2>2
    <3> QED
      BY <3>1 DEF Awaited, Nothing
  <2> QED
    BY <2>1, <2>2
<1> QED
  BY <1>3, <1>5, <1>6 DEF EditorInv

(* What the launcher does with a note, and what its user gets back. *)
LEMMA ResumeStep ==
  ASSUME EditorInv, Resume
  PROVE  EditorInv' /\ ComesBack
<1>1. /\ PhaseOK /\ DiskOK(disk) /\ NoteOK(note) /\ TextOK /\ EventsOK
      /\ CleanIsSaved /\ Awaited
  BY TypeParts DEF EditorInv
<1>2. phase = "boot" /\ last' = Nothing
  BY DEF Resume
<1>3. ASSUME phase' = "browser", UNCHANGED <<disk, session>>, NoteOK(note'), EventsOK'
      PROVE  EditorInv' /\ ComesBack
  <2>1. PhaseOK' /\ NoteOK(note)' /\ DiskOK(disk)' /\ TextOK'
    BY <1>1, <1>3 DEF PhaseOK, NoteOK, DiskOK, TextOK, session
  <2>2. TypeOK'
    BY <1>3, <2>1, TypePartsAfter
  <2>3. CleanIsSaved' /\ Awaited' /\ ComesBack
    BY <1>3 DEF CleanIsSaved, Editing, Awaited, ComesBack
  <2> QED
    BY <2>2, <2>3 DEF EditorInv
<1>4. NoteOK(NoNote)
  BY EditorSizes DEF NoteOK, NoNote
<1>5. CASE /\ note' \in {note, NoNote}
           /\ phase' = "browser" /\ Spend(1) /\ UNCHANGED <<disk, session>>
  <2>1. EventsOK' /\ NoteOK(note')
    BY <1>1, <1>4, <1>5, SpendIsOK
  <2> QED
    BY <1>3, <1>5, <2>1
<1>6. CASE /\ note' \in {note, NoNote} /\ Spend(Cost(note' # NoNote))
           /\ phase' = "browser" /\ UNCHANGED <<disk, session>>
  <2>1. EventsOK' /\ NoteOK(note')
    BY <1>1, <1>4, <1>6, CostIs, SpendIsOK
  <2> QED
    BY <1>3, <1>6, <2>1
<1>7. CASE /\ note.name \in DOMAIN disk /\ note.editor
           /\ note' \in {note, NoNote}
           /\ editor_main(note.name, note.cursor, Cost(note' # NoNote))
  <2>1. note.name \in Files \cup {Untitled} /\ note.cursor \in 0 .. Cap
        /\ note.name \in Files
    BY <1>1, <1>7 DEF NoteOK, DiskOK
  <2>2. Cost(note' # NoNote) \in Nat
    BY CostIs
  <2>3. /\ phase' = "editing" /\ disk' = disk /\ TextOK' /\ EventsOK' /\ CleanIsSaved'
        /\ note.name # Untitled /\ ~failed' =>
             /\ text' = Loaded(disk[note.name], editor_path_is_swift(note.name))
             /\ cursor' = Least(note.cursor, Len(text')) /\ s_fname' = note.name
    BY <1>1, <1>7, <2>1, <2>2, EditorMainStep
  <2>4. PhaseOK' /\ DiskOK(disk)' /\ NoteOK(note)'
    BY <1>1, <1>4, <1>7, <2>3 DEF PhaseOK, DiskOK, NoteOK
  <2>5. TypeOK'
    BY <2>3, <2>4, TypePartsAfter
  <2>6. Awaited'
    BY <1>2 DEF Awaited, Nothing
  <2>7. ComesBack
    <3> SUFFICES ASSUME ~failed', last # Nothing, Plain(last.text),
                        last.cooked = editor_path_is_swift(note.name)
                 PROVE  text' = last.text /\ cursor' = note.cursor /\ s_fname' = note.name
      BY DEF ComesBack
    <3>1. /\ last.text \in Seq(Token) /\ last.cooked \in BOOLEAN
          /\ disk[note.name] = Saved(last.text, last.cooked)
          /\ note.cursor <= Len(last.text)
      BY <1>1, <1>2 DEF Awaited
    <3>2. note.name # Untitled
      BY <2>1, FileNames
    <3>3. /\ text' = Loaded(disk[note.name], editor_path_is_swift(note.name))
          /\ cursor' = Least(note.cursor, Len(text')) /\ s_fname' = note.name
      BY <2>3, <3>2
    <3>4. Loaded(Saved(last.text, last.cooked), last.cooked) = last.text
      BY <3>1, PlainKept
    <3>5. text' = last.text
      BY <3>1, <3>3, <3>4
    <3>6. PICK n : n = Len(last.text)
      OBVIOUS
    <3>7. n \in Nat /\ note.cursor <= n /\ note.cursor \in Nat
      BY <2>1, <3>1, <3>6, LenProperties
    <3>8. cursor' = Least(note.cursor, n)
      BY <3>3, <3>5, <3>6
    <3>9. cursor' = note.cursor
      BY <3>7, <3>8 DEF Least
    <3> QED
      BY <3>3, <3>5, <3>9
  <2> QED
    BY <2>3, <2>5, <2>6, <2>7 DEF EditorInv
<1> QED
  BY <1>5, <1>6, <1>7 DEF Resume

LEMMA Parts ==
  ASSUME NEW t \in Seq(Token), NEW i \in Nat, NEW j \in Nat,
         1 <= i, i <= j + 1, j <= Len(t)
  PROVE  SubSeq(t, i, j) \in Seq(Token) /\ Len(SubSeq(t, i, j)) = j + 1 - i
<1>1. Len(t) \in Nat
  BY LenProperties
<1>2. \A k \in i .. j : t[k] \in Token
  BY <1>1
<1>3. SubSeq(t, i, j) \in Seq(Token)
  BY <1>2, <1>1, SubSeqProperties
<1>4. Len(SubSeq(t, i, j)) = j + 1 - i
  BY <1>1, SubSeqProperties
<1> QED
  BY <1>3, <1>4

LEMMA InsertedType ==
  ASSUME NEW t \in Seq(Token), NEW p \in 0 .. Len(t), NEW ch \in Token
  PROVE  Inserted(t, p, ch) \in Seq(Token) /\ Len(Inserted(t, p, ch)) = Len(t) + 1
<1>1. Len(t) \in Nat /\ p \in Nat /\ p <= Len(t)
  BY LenProperties
<1>2. PICK a : a = SubSeq(t, 1, p)
  OBVIOUS
<1>3. PICK b : b = SubSeq(t, p + 1, Len(t))
  OBVIOUS
<1>4. a \in Seq(Token) /\ Len(a) = p
  <2>1. SubSeq(t, 1, p) \in Seq(Token) /\ Len(SubSeq(t, 1, p)) = p + 1 - 1
    BY <1>1, Parts
  <2> QED
    BY <1>1, <1>2, <2>1
<1>5. b \in Seq(Token) /\ Len(b) = Len(t) - p
  <2>1. p + 1 \in Nat /\ 1 <= p + 1 /\ p + 1 <= Len(t) + 1 /\ Len(t) <= Len(t)
    BY <1>1
  <2>2. SubSeq(t, p + 1, Len(t)) \in Seq(Token)
        /\ Len(SubSeq(t, p + 1, Len(t))) = Len(t) + 1 - (p + 1)
    BY <1>1, <2>1, Parts
  <2> QED
    BY <1>1, <1>3, <2>2
<1>6. <<ch>> \in Seq(Token) /\ Len(<<ch>>) = 1
  OBVIOUS
<1>7. a \o <<ch>> \in Seq(Token) /\ Len(a \o <<ch>>) = p + 1
  BY <1>4, <1>6, ConcatProperties
<1>8. PICK c : c = a \o <<ch>>
  OBVIOUS
<1>9. c \o b \in Seq(Token) /\ Len(c \o b) = Len(c) + Len(b)
  BY <1>5, <1>7, <1>8, ConcatProperties
<1>10. Inserted(t, p, ch) = c \o b
  BY <1>2, <1>3, <1>8 DEF Inserted
<1>11. Len(c) = p + 1
  BY <1>7, <1>8
<1>12. Len(c) + Len(b) = Len(t) + 1
  BY <1>1, <1>5, <1>11
<1> QED
  BY <1>9, <1>10, <1>12

LEMMA DeletedType ==
  ASSUME NEW t \in Seq(Token), NEW p \in 1 .. Len(t)
  PROVE  Deleted(t, p) \in Seq(Token) /\ Len(Deleted(t, p)) = Len(t) - 1
<1>1. Len(t) \in Nat /\ p \in Nat /\ p <= Len(t) /\ 1 <= p
  BY LenProperties
<1>2. PICK a : a = SubSeq(t, 1, p - 1)
  OBVIOUS
<1>3. PICK b : b = SubSeq(t, p + 1, Len(t))
  OBVIOUS
<1>4. a \in Seq(Token) /\ Len(a) = p - 1
  <2>1. p - 1 \in Nat /\ 1 <= (p - 1) + 1 /\ p - 1 <= Len(t)
    BY <1>1
  <2>2. SubSeq(t, 1, p - 1) \in Seq(Token) /\ Len(SubSeq(t, 1, p - 1)) = (p - 1) + 1 - 1
    BY <2>1, Parts
  <2> QED
    BY <1>1, <1>2, <2>2
<1>5. b \in Seq(Token) /\ Len(b) = Len(t) - p
  <2>1. p + 1 \in Nat /\ 1 <= p + 1 /\ p + 1 <= Len(t) + 1 /\ Len(t) <= Len(t)
    BY <1>1
  <2>2. SubSeq(t, p + 1, Len(t)) \in Seq(Token)
        /\ Len(SubSeq(t, p + 1, Len(t))) = Len(t) + 1 - (p + 1)
    BY <1>1, <2>1, Parts
  <2> QED
    BY <1>1, <1>3, <2>2
<1>6. a \o b \in Seq(Token) /\ Len(a \o b) = Len(a) + Len(b)
  BY <1>4, <1>5, ConcatProperties
<1>7. Deleted(t, p) = a \o b
  BY <1>2, <1>3 DEF Deleted
<1>8. Len(a) + Len(b) = Len(t) - 1
  BY <1>1, <1>4, <1>5
<1> QED
  BY <1>6, <1>7, <1>8

(* A key that changes the text. *)
LEMMA EditStep ==
  ASSUME EditorInv, Editing, Struck, KeepsRest, dirty' = TRUE,
         text' \in Seq(Token), Len(text') <= Cap, cursor' \in 0 .. Len(text')
  PROVE  EditorInv'
<1>1. PhaseOK /\ DiskOK(disk) /\ NoteOK(note) /\ TextOK /\ EventsOK
  BY TypeParts DEF EditorInv
<1>2. UNCHANGED <<phase, disk, note, s_fname, s_cooked, failed, last>>
  BY DEF KeepsRest
<1>3. PhaseOK' /\ NoteOK(note)' /\ DiskOK(disk)' /\ TextOK'
  BY <1>1, <1>2 DEF PhaseOK, NoteOK, DiskOK, TextOK
<1>4. EventsOK'
  BY <1>1, EditorSizes DEF EventsOK, Struck
<1>5. TypeOK'
  BY <1>3, <1>4, TypePartsAfter
<1>6. CleanIsSaved' /\ Awaited'
  BY <1>2 DEF CleanIsSaved, Awaited, Editing
<1> QED
  BY <1>5, <1>6 DEF EditorInv

LEMMA InsertStep ==
  ASSUME EditorInv, Editing, Struck, KeepsRest, NEW ch \in Token, Len(text) < Cap,
         text' = Inserted(text, cursor, ch), cursor' = cursor + 1, dirty' = TRUE
  PROVE  EditorInv'
<1>1. text \in Seq(Token) /\ cursor \in 0 .. Len(text) /\ Len(text) \in Nat
  BY TypeParts, LenProperties DEF EditorInv, TextOK
<1>2. text' \in Seq(Token) /\ Len(text') = Len(text) + 1
  BY <1>1, InsertedType
<1>3. Len(text') <= Cap /\ cursor' \in 0 .. Len(text')
  <2>1. PICK n : n = Len(text)
    OBVIOUS
  <2>2. n \in Nat /\ n < Cap /\ cursor \in 0 .. n /\ Len(text') = n + 1
    BY <1>1, <1>2, <2>1
  <2>3. n + 1 <= Cap /\ cursor + 1 \in 0 .. n + 1
    BY <2>2, EditorSizes
  <2> QED
    BY <2>2, <2>3
<1> QED
  BY <1>2, <1>3, EditStep

LEMMA TypeStep ==
  ASSUME EditorInv, NEW key \in Keys, Type(key)
  PROVE  EditorInv'
<1>1. PICK t : t = IF s_cooked THEN editor_cook_key(key) ELSE key
  OBVIOUS
<1>2. /\ Editing /\ Struck /\ KeepsRest /\ Len(text) < Cap
      /\ text' = Inserted(text, cursor, t) /\ cursor' = cursor + 1 /\ dirty' = TRUE
  BY <1>1 DEF Type
<1>3. t \in Token
  <2>1. key \in Token
    BY PrintableKeys
  <2>2. to_lower(key) \in Token /\ "underscore" \in Token
    BY <2>1, CasesOf DEF Token
  <2> QED
    BY <1>1, <2>1, <2>2 DEF editor_cook_key
<1> QED
  BY <1>2, <1>3, InsertStep

LEMMA ReturnStep ==
  ASSUME EditorInv, Return
  PROVE  EditorInv'
<1>1. "\n" \in Token
  BY DEF Token
<1>2. /\ Editing /\ Struck /\ KeepsRest /\ Len(text) < Cap
      /\ text' = Inserted(text, cursor, "\n") /\ cursor' = cursor + 1 /\ dirty' = TRUE
  BY DEF Return
<1> QED
  BY <1>1, <1>2, InsertStep

LEMMA DeleteStep ==
  ASSUME EditorInv, Delete
  PROVE  EditorInv'
<1>1. /\ text \in Seq(Token) /\ cursor \in 0 .. Len(text) /\ Len(text) \in Nat
      /\ Len(text) <= Cap
  BY TypeParts, LenProperties DEF EditorInv, TextOK
<1>2. /\ Editing /\ Struck /\ KeepsRest /\ cursor > 0
      /\ text' = Deleted(text, cursor) /\ cursor' = cursor - 1 /\ dirty' = TRUE
  BY DEF Delete
<1>3. cursor \in 1 .. Len(text)
  BY <1>1, <1>2
<1>4. text' \in Seq(Token) /\ Len(text') = Len(text) - 1
  BY <1>1, <1>2, <1>3, DeletedType
<1>5. Len(text') <= Cap /\ cursor' \in 0 .. Len(text')
  <2>1. PICK n : n = Len(text)
    OBVIOUS
  <2>2. n \in Nat /\ n <= Cap /\ cursor \in 1 .. n /\ Len(text') = n - 1 /\ cursor' = cursor - 1
    BY <1>1, <1>2, <1>3, <1>4, <2>1
  <2>3. n - 1 <= Cap /\ cursor - 1 \in 0 .. n - 1
    BY <2>2, EditorSizes
  <2> QED
    BY <2>2, <2>3
<1> QED
  BY <1>2, <1>4, <1>5, EditStep

LEMMA MoveStep ==
  ASSUME EditorInv, Move
  PROVE  EditorInv'
<1>1. PhaseOK /\ DiskOK(disk) /\ NoteOK(note) /\ TextOK /\ EventsOK /\ CleanIsSaved /\ Awaited
  BY TypeParts DEF EditorInv
<1>2. /\ UNCHANGED <<phase, disk, note, s_fname, s_cooked, text, dirty, failed, last, events>>
      /\ cursor' \in Moves(text, cursor, ED_PAGE_LINES)
  BY DEF Move
<1>3. cursor' \in 0 .. Len(text)
  <2>1. /\ text \in Seq(Token) /\ cursor \in 0 .. Len(text) /\ ED_PAGE_LINES \in Nat
    BY <1>1, EditorSizes DEF TextOK
  <2>2. Moves(text, cursor, ED_PAGE_LINES) \subseteq 0 .. Len(text)
    BY <2>1, MovesKeep
  <2> QED
    BY <1>2, <2>2
<1>4. PhaseOK' /\ NoteOK(note)' /\ DiskOK(disk)' /\ TextOK' /\ EventsOK'
  BY <1>1, <1>2, <1>3 DEF PhaseOK, NoteOK, DiskOK, TextOK, EventsOK
<1>5. TypeOK'
  BY <1>4, TypePartsAfter
<1>6. CleanIsSaved' /\ Awaited'
  BY <1>1, <1>2 DEF CleanIsSaved, Awaited, Editing
<1> QED
  BY <1>5, <1>6 DEF EditorInv

-----------------------------------------------------------------------------
(* What the two translators do with one token, field by field.             *)
StateAfter(state, t) ==
  CASE state = "block"  /\ t = "*/" -> "normal"
    [] state = "line"   /\ t \in {"\n", "\r"} -> "normal"
    [] state = "normal" /\ t = "//" -> "line"
    [] state = "normal" /\ t = "/*" -> "block"
    [] state = "normal" /\ t = "quote" -> "string"
    [] state = "string" /\ t = "quote" -> "normal"
    [] OTHER -> state

LEMMA EnteredState ==
  ASSUME NEW s \in LineState, NEW t
  PROVE  Entered(s, t).state = StateAfter(s.state, t)
<1>1. PICK x : x = StateAfter(s.state, t)
  OBVIOUS
<1>2. Entered(s, t) = [s EXCEPT !.state = x]
  BY <1>1, Zenon DEF Entered, StateAfter
<1> QED
  BY <1>1, <1>2 DEF LineState

(* What the translator writes for a token, and where that leaves it. *)
Writes(s, u, x) ==
  /\ x \in Token /\ u.out = Append(s.out, x) /\ u.prev = x

InCommentWrites(s, t, u) ==
  /\ Writes(s, u, to_lower(t)) /\ u.state = StateAfter(s.state, t)
  /\ u.escape = s.escape /\ u.case_pending = s.case_pending

EscapedWrites(s, t, u) ==
  /\ Writes(s, u, to_lower(t)) /\ u.state = s.state
  /\ ~u.escape /\ u.case_pending = s.case_pending

IsLiteral(s) == s.state = "string" /\ s.prev \in Letter

LiteralWrites(s, t, u) ==
  /\ Writes(s, u, "'") /\ u.state = s.state
  /\ ~u.escape /\ u.case_pending = s.case_pending

MarkerWrites(s, u) ==
  /\ u.out = s.out /\ u.prev = s.prev /\ u.state = s.state /\ ~u.escape
  /\ s.case_pending = "none" => u.case_pending = "single"

LetterWrites(s, t, u) ==
  /\ Writes(s, u, IF s.case_pending = "none" THEN to_lower(t) ELSE to_upper(t))
  /\ u.state = s.state /\ ~u.escape
  /\ s.case_pending # "run" => u.case_pending = "none"

OtherWrites(s, t, u) ==
  /\ Writes(s, u, Meaning(s, t)) /\ u.state = StateAfter(s.state, t)
  /\ u.escape = Escaping(s, t) /\ u.case_pending = "none"

Translates(s, t, u) ==
  /\ InComment(s) => InCommentWrites(s, t, u)
  /\ ~InComment(s) /\ s.escape => EscapedWrites(s, t, u)
  /\ ~InComment(s) /\ ~s.escape /\ t = "'" /\ IsLiteral(s) => LiteralWrites(s, t, u)
  /\ ~InComment(s) /\ ~s.escape /\ t = "'" /\ ~IsLiteral(s) => MarkerWrites(s, u)
  /\ ~InComment(s) /\ ~s.escape /\ t \in Letter => LetterWrites(s, t, u)
  /\ ~InComment(s) /\ ~s.escape /\ t # "'" /\ t \notin Letter => OtherWrites(s, t, u)

LEMMA TranslateFields ==
  ASSUME NEW s \in LineState, NEW t \in Token
  PROVE  Translates(s, t, input_translate(s, t))
<1>1. PICK u : u = input_translate(s, t)
  OBVIOUS
<1>2. /\ "'" \in Token /\ to_lower(t) \in Token /\ to_upper(t) \in Token
      /\ Meaning(s, t) \in Token /\ ("'" \notin Letter)
  BY CasesOf, MeaningType DEF Token, Letter
<1>3. ASSUME InComment(s)
      PROVE  InCommentWrites(s, t, u)
  <2>1. PICK m : m = Emit(s, to_lower(t))
    OBVIOUS
  <2>2. u = Entered(m, t)
    BY <1>1, <1>3, <2>1 DEF input_translate
  <2>3. /\ m \in LineState /\ m.out = Append(s.out, to_lower(t)) /\ m.prev = to_lower(t)
        /\ m.state = s.state /\ m.escape = s.escape /\ m.case_pending = s.case_pending
    BY <1>2, <2>1, EmitType
  <2>4. /\ u.out = m.out /\ u.prev = m.prev /\ u.escape = m.escape
        /\ u.case_pending = m.case_pending /\ u.state = StateAfter(m.state, t)
    BY <2>2, <2>3, EnteredType, EnteredState
  <2> QED
    BY <1>2, <2>3, <2>4, Zenon DEF InCommentWrites, Writes
<1>4. ASSUME ~InComment(s), s.escape
      PROVE  EscapedWrites(s, t, u)
  <2>1. PICK m : m = Emit(s, to_lower(t))
    OBVIOUS
  <2>2. u = [m EXCEPT !.escape = FALSE]
    BY <1>1, <1>4, <2>1, Zenon DEF input_translate
  <2>3. /\ m \in LineState /\ m.out = Append(s.out, to_lower(t)) /\ m.prev = to_lower(t)
        /\ m.state = s.state /\ m.case_pending = s.case_pending
    BY <1>2, <2>1, EmitType
  <2>4. /\ u.out = m.out /\ u.prev = m.prev /\ ~u.escape
        /\ u.case_pending = m.case_pending /\ u.state = m.state
    BY <2>2, <2>3 DEF LineState
  <2> QED
    BY <1>2, <2>3, <2>4, Zenon DEF EscapedWrites, Writes
<1>5. ASSUME ~InComment(s), ~s.escape, t = "'", IsLiteral(s)
      PROVE  LiteralWrites(s, t, u)
  <2>1. u = Emit(s, "'")
    BY <1>1, <1>5, Zenon DEF input_translate, Marker, IsLiteral
  <2>2. /\ u.out = Append(s.out, "'") /\ u.prev = "'" /\ u.state = s.state
        /\ u.escape = s.escape /\ u.case_pending = s.case_pending
    BY <1>2, <2>1, EmitType
  <2> QED
    BY <1>2, <1>5, <2>2 DEF LiteralWrites, Writes
<1>6. ASSUME ~InComment(s), ~s.escape, t = "'", ~IsLiteral(s)
      PROVE  MarkerWrites(s, u)
  <2>1. PICK c : c = IF s.case_pending = "single" THEN "run" ELSE "single"
    OBVIOUS
  <2>2. u = [s EXCEPT !.case_pending = c]
    BY <1>1, <1>6, <2>1, Zenon DEF input_translate, Marker, IsLiteral
  <2>3. u.out = s.out /\ u.prev = s.prev /\ u.state = s.state /\ u.escape = s.escape
        /\ u.case_pending = c
    BY <2>2 DEF LineState
  <2> QED
    BY <1>6, <2>1, <2>3 DEF MarkerWrites
<1>7. ASSUME ~InComment(s), ~s.escape, t \in Letter
      PROVE  LetterWrites(s, t, u)
  <2>1. PICK x : x = IF s.case_pending = "none" THEN to_lower(t) ELSE to_upper(t)
    OBVIOUS
  <2>2. PICK m : m = Emit(s, x)
    OBVIOUS
  <2>3. PICK c : c = IF m.case_pending = "run" THEN "run" ELSE "none"
    OBVIOUS
  <2>4. u = Cased(s, t)
    BY <1>1, <1>2, <1>7, Zenon DEF input_translate
  <2>5. u = [m EXCEPT !.case_pending = c]
    BY <2>1, <2>2, <2>3, <2>4, Zenon DEF Cased
  <2>6. x \in Token
    BY <1>2, <2>1
  <2>7. /\ m \in LineState /\ m.out = Append(s.out, x) /\ m.prev = x
        /\ m.state = s.state /\ m.escape = s.escape /\ m.case_pending = s.case_pending
    BY <2>2, <2>6, EmitType
  <2>8. /\ u.out = m.out /\ u.prev = m.prev /\ u.escape = m.escape
        /\ u.case_pending = c /\ u.state = m.state
    BY <2>5, <2>7 DEF LineState
  <2>9. Writes(s, u, x)
    BY <2>6, <2>7, <2>8, Zenon DEF Writes
  <2> QED
    BY <1>7, <2>1, <2>3, <2>7, <2>8, <2>9 DEF LetterWrites
<1>8. ASSUME ~InComment(s), ~s.escape, t # "'", t \notin Letter
      PROVE  OtherWrites(s, t, u)
  <2>1. PICK x : x = Meaning(s, t)
    OBVIOUS
  <2>2. PICK m : m = Emit(s, x)
    OBVIOUS
  <2>3. PICK e : e = Entered(m, t)
    OBVIOUS
  <2>4. PICK c : c = Escaping(s, t)
    OBVIOUS
  <2>5. u = [e EXCEPT !.escape = c, !.case_pending = "none"]
    BY <1>1, <1>8, <2>1, <2>2, <2>3, <2>4, Zenon DEF input_translate, Other
  <2>6. x \in Token
    BY <1>2, <2>1
  <2>7. m \in LineState /\ m.out = Append(s.out, x) /\ m.prev = x /\ m.state = s.state
    BY <2>2, <2>6, EmitType
  <2>8. e \in LineState /\ e.out = m.out /\ e.prev = m.prev /\ e.state = StateAfter(m.state, t)
    BY <2>3, <2>7, EnteredType, EnteredState
  <2>9. /\ u.out = e.out /\ u.prev = e.prev /\ u.case_pending = "none" /\ u.state = e.state
    BY <2>5, <2>8 DEF LineState
  <2>10. u.escape = c
    <3>1. c = TRUE \/ c = FALSE
      BY <2>4, Zenon DEF Escaping
    <3>2. CASE c = TRUE
      <4>1. u = [e EXCEPT !.escape = TRUE, !.case_pending = "none"]
        BY <2>5, <3>2, Zenon
      <4>2. u.escape = TRUE
        BY <2>8, <4>1 DEF LineState
      <4> QED
        BY <3>2, <4>2, Zenon
    <3>3. CASE c = FALSE
      <4>1. u = [e EXCEPT !.escape = FALSE, !.case_pending = "none"]
        BY <2>5, <3>3, Zenon
      <4>2. u.escape = FALSE
        BY <2>8, <4>1 DEF LineState
      <4> QED
        BY <3>3, <4>2, Zenon
    <3> QED
      BY <3>1, <3>2, <3>3
  <2>11. Writes(s, u, x)
    BY <2>6, <2>7, <2>8, <2>9, Zenon DEF Writes
  <2> QED
    BY <2>1, <2>4, <2>7, <2>8, <2>9, <2>10, <2>11, Zenon DEF OtherWrites
<1> QED
  BY <1>1, <1>3, <1>4, <1>5, <1>6, <1>7, <1>8 DEF Translates

(* What the reader does with one: a capital becomes two tokens. *)
Gain(t) == IF t = "A" THEN 2 ELSE 1

CommentReads(s, t, u) ==
  /\ t # "A" /\ Writes(s, u, t) /\ u.state = StateAfter(s.state, t)
  /\ u.escape = s.escape

EscapedReads(s, t, u) ==
  t # "A" /\ Writes(s, u, t) /\ u.state = s.state /\ ~u.escape

CapitalReads(s, u) ==
  /\ ~IsLiteral(s) /\ u.out = Append(Append(s.out, "'"), "a")
  /\ u.prev = "a" /\ u.state = s.state /\ ~u.escape

OtherReads(s, t, u) ==
  Writes(s, u, t) /\ u.state = StateAfter(s.state, t) /\ u.escape = Escaping(s, t)

Reads(s, t, u) ==
  /\ Len(s.out) + Gain(t) <= LINE_MAX
  /\ InComment(s) => CommentReads(s, t, u)
  /\ ~InComment(s) /\ s.escape => EscapedReads(s, t, u)
  /\ ~InComment(s) /\ ~s.escape /\ t = "A" => CapitalReads(s, u)
  /\ ~InComment(s) /\ ~s.escape /\ t # "A" => OtherReads(s, t, u)

LEMMA UntranslateFields ==
  ASSUME NEW s \in LineState, NEW t \in Token, NEW u, u = input_untranslate(s, t, LINE_MAX)
  PROVE  \/ u.out = s.out
         \/ t = "A" /\ u.out = Append(s.out, t)
         \/ Reads(s, t, u)
<1>1. s.out \in Seq(Token) /\ Len(s.out) \in Nat /\ LINE_MAX \in Nat
  BY EditorSizes, LenProperties DEF LineState
<1>2. PICK m : m = Emit(s, t)
  OBVIOUS
<1>3. /\ m \in LineState /\ m.out = Append(s.out, t) /\ m.prev = t
      /\ m.state = s.state /\ m.escape = s.escape
  BY <1>2, EmitType
<1>4. CASE s.full \/ Len(s.out) >= LINE_MAX
  BY <1>4, Zenon DEF input_untranslate
<1>5. CASE ~(s.full \/ Len(s.out) >= LINE_MAX) /\ t = "A" /\ (InComment(s) \/ s.escape)
  <2>1. u.out = m.out
    <3>1. CASE InComment(s)
      <4>1. u = Entered(m, t)
        BY <1>2, <1>5, <3>1, Zenon DEF input_untranslate
      <4> QED
        BY <1>3, <4>1, EnteredType
    <3>2. CASE ~InComment(s)
      <4>1. u = [m EXCEPT !.escape = FALSE]
        BY <1>2, <1>5, <3>2, Zenon DEF input_untranslate
      <4> QED
        BY <1>3, <4>1 DEF LineState
    <3> QED
      BY <3>1, <3>2
  <2> QED
    BY <1>3, <1>5, <2>1
<1>6. CASE ~(s.full \/ Len(s.out) >= LINE_MAX) /\ t = "A" /\ ~InComment(s) /\ ~s.escape
  <2>1. u = Marked(s, LINE_MAX)
    BY <1>6, Zenon DEF input_untranslate
  <2>2. CASE IsLiteral(s)
    <3>1. u = Emit(s, "A")
      BY <2>1, <2>2, Zenon DEF Marked, IsLiteral
    <3> QED
      BY <1>2, <1>3, <1>6, <3>1
  <2>3. CASE ~IsLiteral(s) /\ Len(s.out) + 1 < LINE_MAX
    <3>1. u = Emit(Emit(s, "'"), "a")
      BY <2>1, <2>3, Zenon DEF Marked, IsLiteral
    <3>2. PICK n : n = Emit(s, "'")
      OBVIOUS
    <3>3. "'" \in Token /\ "a" \in Token
      BY DEF Token, Letter
    <3>4. /\ n \in LineState /\ n.out = Append(s.out, "'")
          /\ n.state = s.state /\ n.escape = s.escape
      BY <3>2, <3>3, EmitType
    <3>5. /\ u.out = Append(n.out, "a") /\ u.prev = "a" /\ u.state = n.state
          /\ u.escape = n.escape
      BY <3>1, <3>2, <3>3, <3>4, EmitType, SMTT(30)
    <3>6. CapitalReads(s, u)
      BY <1>6, <2>3, <3>4, <3>5 DEF CapitalReads
    <3>7. Len(s.out) + Gain(t) <= LINE_MAX
      BY <1>1, <1>6, <2>3 DEF Gain
    <3> QED
      BY <1>6, <3>6, <3>7 DEF Reads
  <2>4. CASE ~IsLiteral(s) /\ ~(Len(s.out) + 1 < LINE_MAX)
    <3>1. u = [s EXCEPT !.full = TRUE]
      BY <2>1, <2>4, Zenon DEF Marked, IsLiteral
    <3> QED
      BY <3>1 DEF LineState
  <2> QED
    BY <2>2, <2>3, <2>4
<1>7. CASE ~(s.full \/ Len(s.out) >= LINE_MAX) /\ t # "A"
  <2>1. Len(s.out) + Gain(t) <= LINE_MAX
    BY <1>1, <1>7 DEF Gain
  <2>2. ASSUME InComment(s)
        PROVE  CommentReads(s, t, u)
    <3>1. u = Entered(m, t)
      BY <1>2, <1>7, <2>2, Zenon DEF input_untranslate
    <3>2. /\ u.out = m.out /\ u.prev = m.prev /\ u.escape = m.escape
          /\ u.state = StateAfter(m.state, t)
      BY <1>3, <3>1, EnteredType, EnteredState
    <3> QED
      BY <1>3, <1>7, <3>2, Zenon DEF CommentReads, Writes
  <2>3. ASSUME ~InComment(s), s.escape
        PROVE  EscapedReads(s, t, u)
    <3>1. u = [m EXCEPT !.escape = FALSE]
      BY <1>2, <1>7, <2>3, Zenon DEF input_untranslate
    <3>2. u.out = m.out /\ u.prev = m.prev /\ ~u.escape /\ u.state = m.state
      BY <1>3, <3>1 DEF LineState
    <3> QED
      BY <1>3, <1>7, <3>2, Zenon DEF EscapedReads, Writes
  <2>4. ASSUME ~InComment(s), ~s.escape
        PROVE  OtherReads(s, t, u)
    <3>1. PICK e : e = Entered(m, t)
      OBVIOUS
    <3>2. PICK c : c = Escaping(s, t)
      OBVIOUS
    <3>3. u = [e EXCEPT !.escape = c]
      BY <1>2, <1>7, <2>4, <3>1, <3>2, Zenon DEF input_untranslate
    <3>4. e \in LineState /\ e.out = m.out /\ e.prev = m.prev /\ e.state = StateAfter(m.state, t)
      BY <1>3, <3>1, EnteredType, EnteredState
    <3>5. u.out = e.out /\ u.prev = e.prev /\ u.state = e.state
      BY <3>3, <3>4 DEF LineState
    <3>6. u.escape = c
      <4>1. c = TRUE \/ c = FALSE
        BY <3>2, Zenon DEF Escaping
      <4>2. CASE c = TRUE
        <5>1. u = [e EXCEPT !.escape = TRUE]
          BY <3>3, <4>2, Zenon
        <5>2. u.escape = TRUE
          BY <3>4, <5>1 DEF LineState
        <5> QED
          BY <4>2, <5>2, Zenon
      <4>3. CASE c = FALSE
        <5>1. u = [e EXCEPT !.escape = FALSE]
          BY <3>3, <4>3, Zenon
        <5>2. u.escape = FALSE
          BY <3>4, <5>1 DEF LineState
        <5> QED
          BY <4>3, <5>2, Zenon
      <4> QED
        BY <4>1, <4>2, <4>3
    <3> QED
      BY <1>3, <3>2, <3>4, <3>5, <3>6, Zenon DEF OtherReads, Writes
  <2> QED
    BY <1>7, <2>1, <2>2, <2>3, <2>4 DEF Reads
<1> QED
  BY <1>4, <1>5, <1>6, <1>7

-----------------------------------------------------------------------------
(* What the two loops add to a text with one token.                        *)
LEMMA AppendWhole ==
  ASSUME NEW a \in Seq(Token), NEW b \in Seq(Token), NEW x \in Token
  PROVE  a \o Append(b, x) = Append(a \o b, x)
<1>1. <<x>> \in Seq(Token)
  OBVIOUS
<1>2. Append(b, x) = b \o <<x>>
  BY AppendIsConcat
<1>3. a \o b \in Seq(Token)
  BY ConcatProperties
<1>4. Append(a \o b, x) = (a \o b) \o <<x>>
  BY <1>3, AppendIsConcat
<1>5. (a \o b) \o <<x>> = a \o (b \o <<x>>)
  BY <1>1, ConcatAssociative
<1> QED
  BY <1>2, <1>4, <1>5

LEMMA WritesWhole ==
  ASSUME NEW r \in ReaderState, NEW v, v.done = r.done, NEW x \in Token,
         v.line.out = Append(r.line.out, x)
  PROVE  Whole(v) = Append(Whole(r), x)
<1>1. PICK a : a = r.done
  OBVIOUS
<1>2. PICK b : b = r.line.out
  OBVIOUS
<1>3. a \in Seq(Token) /\ b \in Seq(Token)
  BY <1>1, <1>2 DEF ReaderState, LineState
<1>4. Whole(r) = a \o b /\ Whole(v) = a \o Append(b, x)
  BY <1>1, <1>2 DEF Whole
<1> QED
  BY <1>3, <1>4, AppendWhole

LEMMA NextLineWhole ==
  ASSUME NEW r \in ReaderState
  PROVE  LET v == NextLine(r, FALSE)
         IN  /\ Whole(v) = Append(Whole(r), "\n") /\ v.line = Start
             /\ v.len = 0 /\ ~v.last_cr
<1>1. PICK v : v = NextLine(r, FALSE)
  OBVIOUS
<1>2. "\n" \in Token
  BY DEF Token
<1>3. PICK a : a = r.done
  OBVIOUS
<1>4. PICK b : b = r.line.out
  OBVIOUS
<1>5. a \in Seq(Token) /\ b \in Seq(Token)
  BY <1>3, <1>4 DEF ReaderState, LineState
<1>6. PICK c : c = a \o Append(b, "\n")
  OBVIOUS
<1>7. v.done = c /\ v.line = Start /\ v.len = 0 /\ v.last_cr = FALSE
  BY <1>1, <1>3, <1>4, <1>6, NextLineType
<1>8. v.line.out = <<>>
  BY <1>7 DEF Start
<1>9. c = Append(a \o b, "\n") /\ c \in Seq(Token)
  <2>1. a \o b \in Seq(Token)
    BY <1>5, ConcatProperties
  <2>2. Append(a \o b, "\n") \in Seq(Token)
    BY <1>2, <2>1, AppendProperties
  <2> QED
    BY <1>2, <1>5, <1>6, <2>2, AppendWhole
<1>10. Whole(v) = c
  BY <1>7, <1>8, <1>9, ConcatEmptySeq DEF Whole
<1>11. Whole(r) = a \o b
  BY <1>3, <1>4 DEF Whole
<1> QED
  BY <1>1, <1>7, <1>9, <1>10, <1>11

LEMMA SaveCases ==
  ASSUME NEW r \in ReaderState, NEW t \in Token, NEW v, v = SaveByte(r, t, TRUE)
  PROVE  \/ /\ t = "\n" /\ Whole(v) = Append(Whole(r), t)
            /\ v.line = Start /\ v.len = 0
         \/ t # "\n" /\ ~Fits(r) /\ Whole(v) = Whole(r) /\ v.line = r.line
         \/ /\ t # "\n" /\ Fits(r) /\ Translates(r.line, t, v.line)
            /\ v.done = r.done /\ v.len = r.len + 1
<1>1. r.line \in LineState
  BY DEF ReaderState
<1>2. CASE t = "\n"
  <2>1. v = NextLine(r, FALSE)
    BY <1>2 DEF SaveByte
  <2> QED
    BY <1>2, <2>1, NextLineWhole
<1>3. CASE t # "\n" /\ ~Fits(r)
  <2>1. v = Dropped(r)
    BY <1>3 DEF SaveByte
  <2>2. v.done = r.done /\ v.line = r.line
    BY <2>1, DroppedType
  <2> QED
    BY <1>3, <2>2 DEF Whole
<1>4. CASE t # "\n" /\ Fits(r)
  <2>1. PICK u : u = input_translate(r.line, t)
    OBVIOUS
  <2>2. u \in LineState /\ Translates(r.line, t, u)
    BY <1>1, <2>1, TranslateType, TranslateFields
  <2>3. v = Converted(r, u)
    BY <1>4, <2>1, Zenon DEF SaveByte
  <2>4. v.done = r.done /\ v.line = u /\ v.len = r.len + 1
    <3>1. /\ Converted(r, u).done = r.done /\ Converted(r, u).line = u
          /\ Converted(r, u).len = r.len + 1
      BY <2>2, ConvertedType
    <3> QED
      BY <2>3, <3>1
  <2> QED
    BY <1>4, <2>2, <2>4
<1> QED
  BY <1>2, <1>3, <1>4

Loads(r, t, v) ==
  /\ t = "\n" => Whole(v) = Append(Whole(r), t) /\ v.line = Start
  /\ t # "\n" => Reads(r.line, t, v.line)
  /\ t # "\n" /\ t # "A" => Whole(v) = Append(Whole(r), t)
  /\ t = "A" => Whole(v) = Append(Append(Whole(r), "'"), "a")

LEMMA LoadCases ==
  ASSUME NEW r \in ReaderState, ~r.last_cr, NEW t \in Token, t # "\r",
         NEW v, v = LoadByte(r, t)
  PROVE  /\ ~v.last_cr
         /\ \/ Whole(v) = Whole(r)
            \/ t = "A" /\ Whole(v) = Append(Whole(r), t)
            \/ Loads(r, t, v)
<1>1. r.line \in LineState
  BY DEF ReaderState
<1>2. CASE t = "\n"
  <2>1. v = NextLine(r, FALSE)
    BY <1>2 DEF LoadByte
  <2> QED
    BY <1>2, <2>1, NextLineWhole DEF Loads
<1>3. CASE t # "\n" /\ ~Fits(r)
  <2>1. v = Dropped(r)
    BY <1>3 DEF LoadByte
  <2>2. v.done = r.done /\ v.line = r.line /\ v.last_cr = FALSE
    BY <2>1, DroppedType
  <2> QED
    BY <1>3, <2>2 DEF Whole
<1>4. CASE t # "\n" /\ Fits(r)
  <2>1. PICK u : u = input_untranslate(r.line, t, LINE_MAX)
    OBVIOUS
  <2>2. u \in LineState
    BY <1>1, <2>1, UntranslateType
  <2>3. v = Converted(r, u)
    BY <1>4, <2>1, Zenon DEF LoadByte
  <2>4. v.done = r.done /\ v.line = u /\ v.last_cr = FALSE
    <3>1. /\ Converted(r, u).done = r.done /\ Converted(r, u).line = u
          /\ Converted(r, u).last_cr = FALSE
      BY <2>2, ConvertedType
    <3> QED
      BY <2>3, <3>1, Zenon
  <2>5. \/ u.out = r.line.out
        \/ t = "A" /\ u.out = Append(r.line.out, t)
        \/ Reads(r.line, t, u)
    BY <1>1, <2>1, UntranslateFields
  <2>6. CASE u.out = r.line.out
    BY <2>4, <2>6 DEF Whole
  <2>7. CASE t = "A" /\ u.out = Append(r.line.out, t)
    BY <2>4, <2>7, WritesWhole
  <2>8. CASE Reads(r.line, t, u)
    <3>1. t # "A" => Writes(r.line, u, t)
      BY <2>8 DEF Reads, CommentReads, EscapedReads, OtherReads
    <3>2. t # "A" => Whole(v) = Append(Whole(r), t)
      <4>1. SUFFICES ASSUME t # "A" PROVE Whole(v) = Append(Whole(r), t)
        OBVIOUS
      <4>2. v.line.out = Append(r.line.out, t)
        BY <2>4, <3>1, <4>1 DEF Writes
      <4> QED
        BY <2>4, <4>2, WritesWhole
    <3>3. t = "A" => Whole(v) = Append(Append(Whole(r), "'"), "a")
      <4>1. SUFFICES ASSUME t = "A" PROVE Whole(v) = Append(Append(Whole(r), "'"), "a")
        OBVIOUS
      <4>2. v.line.out = Append(Append(r.line.out, "'"), "a")
        BY <2>4, <2>8, <4>1 DEF Reads, CommentReads, EscapedReads, CapitalReads
      <4>3. PICK w : w = [r EXCEPT !.line = Emit(r.line, "'")]
        OBVIOUS
      <4>4. "'" \in Token /\ "a" \in Token
        BY DEF Token, Letter
      <4>5. PICK m : m = Emit(r.line, "'")
        OBVIOUS
      <4>6. m \in LineState /\ m.out = Append(r.line.out, "'")
        BY <1>1, <4>4, <4>5, EmitType
      <4>7. w \in ReaderState /\ w.done = r.done /\ w.line = m
        BY <4>3, <4>5, <4>6 DEF ReaderState
      <4>8. Whole(w) = Append(Whole(r), "'")
        BY <4>4, <4>6, <4>7, WritesWhole
      <4>9. v.done = w.done /\ v.line.out = Append(w.line.out, "a")
        BY <2>4, <4>2, <4>6, <4>7
      <4>10. Whole(v) = Append(Whole(w), "a")
        BY <4>4, <4>7, <4>9, WritesWhole
      <4> QED
        BY <4>8, <4>10
    <3> QED
      BY <1>4, <2>4, <2>8, <3>2, <3>3 DEF Loads
  <2> QED
    BY <2>4, <2>5, <2>6, <2>7, <2>8
<1> QED
  BY <1>2, <1>3, <1>4

(* Texts that begin like another. *)
Begins(a, b) == Len(a) <= Len(b) /\ \A i \in 1 .. Len(a) : a[i] = b[i]

LEMMA AppendBegins ==
  ASSUME NEW a \in Seq(Token), NEW x \in Token
  PROVE  Begins(a, Append(a, x)) /\ Begins(a, a)
<1>1. Len(a) \in Nat
  BY LenProperties
<1>2. Len(Append(a, x)) = Len(a) + 1 /\ \A i \in 1 .. Len(a) : Append(a, x)[i] = a[i]
  BY AppendProperties
<1> QED
  BY <1>1, <1>2 DEF Begins

LEMMA BeginsOn ==
  ASSUME NEW a \in Seq(Token), NEW b \in Seq(Token), NEW c \in Seq(Token),
         Begins(a, b), Begins(b, c)
  PROVE  Begins(a, c)
<1>1. Len(a) \in Nat /\ Len(b) \in Nat /\ Len(c) \in Nat
  BY LenProperties
<1>2. Len(a) <= Len(b) /\ Len(b) <= Len(c)
  BY DEF Begins
<1>3. \A i \in 1 .. Len(a) : i \in 1 .. Len(b)
  BY <1>1, <1>2
<1> QED
  BY <1>1, <1>2, <1>3 DEF Begins

LEMMA ChainBegins ==
  ASSUME NEW n \in Nat, NEW w \in [0 .. n -> Seq(Token)],
         \A i \in 0 .. n - 1 : Begins(w[i], w[i + 1])
  PROVE  \A i \in 0 .. n : Begins(w[i], w[n])
<1> DEFINE S == {k \in 0 .. n : Begins(w[n - k], w[n])}
<1>1. 0 \in S
  <2>1. n - 0 = n /\ w[n] \in Seq(Token) /\ "a" \in Token
    BY DEF Token, Letter
  <2>2. Begins(w[n], w[n])
    BY <2>1, AppendBegins
  <2> QED
    BY <2>1, <2>2
<1>2. ASSUME NEW k \in 0 .. n - 1, k \in S
      PROVE  k + 1 \in S
  <2>1. PICK i : i = n - (k + 1)
    OBVIOUS
  <2>2. i \in 0 .. n - 1 /\ i + 1 = n - k /\ k + 1 \in 0 .. n /\ i \in 0 .. n /\ i + 1 \in 0 .. n
    BY <2>1
  <2>3. Begins(w[i], w[i + 1]) /\ Begins(w[i + 1], w[n])
    BY <1>2, <2>2
  <2>4. w[i] \in Seq(Token) /\ w[i + 1] \in Seq(Token) /\ w[n] \in Seq(Token)
    BY <2>2
  <2>5. Begins(w[i], w[n])
    BY <2>3, <2>4, BeginsOn
  <2> QED
    BY <2>1, <2>2, <2>5
<1>3. \A k \in 0 .. n : k \in S
  <2> HIDE DEF S
  <2> QED
    BY <1>1, <1>2, Steps
<1>4. ASSUME NEW i \in 0 .. n
      PROVE  Begins(w[i], w[n])
  <2>1. n - i \in 0 .. n /\ n - (n - i) = i
    OBVIOUS
  <2>2. n - i \in S
    BY <1>3, <2>1
  <2> QED
    BY <2>1, <2>2
<1> QED
  BY <1>4

LEMMA BeginsIsEqual ==
  ASSUME NEW a \in Seq(Token), NEW b \in Seq(Token), Begins(a, b), Len(a) = Len(b)
  PROVE  a = b
  BY SeqEqual DEF Begins

LEMMA LevelPath ==
  ASSUME NEW n \in Nat, NEW d \in [0 .. n -> Int], d[0] = 0, d[n] = 0,
         \A i \in 0 .. n - 1 : d[i] <= d[i + 1]
  PROVE  \A i \in 0 .. n : d[i] = 0
<1> DEFINE S == {i \in 0 .. n : d[i] >= 0}
           R == {k \in 0 .. n : d[n - k] <= 0}
<1>1. 0 \in S
  OBVIOUS
<1>2. ASSUME NEW i \in 0 .. n - 1, i \in S
      PROVE  i + 1 \in S
  <2>1. i \in 0 .. n /\ i + 1 \in 0 .. n
    OBVIOUS
  <2>2. d[i] \in Int /\ d[i + 1] \in Int /\ d[i] <= d[i + 1] /\ d[i] >= 0
    BY <1>2, <2>1
  <2>3. d[i + 1] >= 0
    BY <2>2
  <2> QED
    BY <2>1, <2>3
<1>3. \A i \in 0 .. n : i \in S
  <2> HIDE DEF S
  <2> QED
    BY <1>1, <1>2, Steps
<1>4. 0 \in R
  <2>1. n - 0 = n
    OBVIOUS
  <2> QED
    BY <2>1
<1>5. ASSUME NEW k \in 0 .. n - 1, k \in R
      PROVE  k + 1 \in R
  <2>1. PICK i : i = n - (k + 1)
    OBVIOUS
  <2>2. i \in 0 .. n - 1 /\ i + 1 = n - k /\ k + 1 \in 0 .. n /\ i \in 0 .. n /\ i + 1 \in 0 .. n
    BY <2>1
  <2>3. d[i] \in Int /\ d[i + 1] \in Int /\ d[i] <= d[i + 1] /\ d[i + 1] <= 0
    BY <1>5, <2>2
  <2>4. d[i] <= 0
    BY <2>3
  <2> QED
    BY <2>1, <2>2, <2>4
<1>6. \A k \in 0 .. n : k \in R
  <2> HIDE DEF R
  <2> QED
    BY <1>4, <1>5, Steps
<1>7. ASSUME NEW i \in 0 .. n
      PROVE  d[i] = 0
  <2>1. n - i \in 0 .. n /\ n - (n - i) = i
    OBVIOUS
  <2>2. n - i \in R /\ i \in S
    BY <1>3, <1>6, <2>1
  <2>3. d[i] \in Int /\ d[i] >= 0 /\ d[i] <= 0
    BY <2>1, <2>2
  <2> QED
    BY <2>3
<1> QED
  BY <1>7

CapitalsTo(t, j) == {i \in 1 .. j : t[i] = "A"}

LEMMA CapitalsCount ==
  ASSUME NEW t, NEW j \in Nat
  PROVE  /\ Cardinality(CapitalsTo(t, j)) \in Nat
         /\ Cardinality(CapitalsTo(t, 0)) = 0
         /\ Cardinality(CapitalsTo(t, j + 1)) = Cardinality(CapitalsTo(t, j)) + (Gain(t[j + 1]) - 1)
<1>1. IsFiniteSet(1 .. j)
  BY FS_Interval
<1>2. CapitalsTo(t, j) \subseteq 1 .. j
  BY DEF CapitalsTo
<1>3. IsFiniteSet(CapitalsTo(t, j))
  BY <1>1, <1>2, FS_Subset
<1>4. Cardinality(CapitalsTo(t, j)) \in Nat
  BY <1>3, FS_CardinalityType
<1>5. CapitalsTo(t, 0) = {}
  BY DEF CapitalsTo
<1>6. Cardinality(CapitalsTo(t, 0)) = 0
  BY <1>5, FS_EmptySet
<1>7. CASE t[j + 1] = "A"
  <2>1. CapitalsTo(t, j + 1) = CapitalsTo(t, j) \cup {j + 1}
    BY <1>7 DEF CapitalsTo
  <2>2. j + 1 \notin CapitalsTo(t, j)
    BY DEF CapitalsTo
  <2>3. Cardinality(CapitalsTo(t, j) \cup {j + 1}) = Cardinality(CapitalsTo(t, j)) + 1
    BY <1>3, <2>2, FS_AddElement
  <2>4. Gain(t[j + 1]) - 1 = 1
    BY <1>7 DEF Gain
  <2> QED
    BY <1>4, <1>6, <2>1, <2>3, <2>4
<1>8. CASE t[j + 1] # "A"
  <2>1. CapitalsTo(t, j + 1) = CapitalsTo(t, j)
    BY <1>8 DEF CapitalsTo
  <2>2. Gain(t[j + 1]) - 1 = 0
    BY <1>8 DEF Gain
  <2> QED
    BY <1>4, <1>6, <2>1, <2>2
<1> QED
  BY <1>7, <1>8

LEMMA Balance ==
  ASSUME NEW i, NEW a, NEW b, NEW p, NEW q, NEW g, i \in Int, a \in Nat, b \in Nat,
         p \in Nat, q \in Nat, g \in Nat, b = a + (g - 1), q <= p + g
  PROVE  /\ (i + a) - p <= ((i + 1) + b) - q
         /\ (i + a) - p = 0 /\ ((i + 1) + b) - q = 0 => q = p + g
  OBVIOUS

LEMMA LoadGrows ==
  ASSUME NEW r \in ReaderState, ~r.last_cr, NEW t \in Token, t # "\r",
         NEW v \in ReaderState, v = LoadByte(r, t)
  PROVE  /\ ~v.last_cr /\ Begins(Whole(r), Whole(v))
         /\ Len(Whole(v)) \in Nat /\ Len(Whole(r)) \in Nat
         /\ Len(Whole(v)) <= Len(Whole(r)) + Gain(t)
         /\ Len(Whole(v)) = Len(Whole(r)) + Gain(t) => Loads(r, t, v)
<1>1. PICK a : a = Whole(r)
  OBVIOUS
<1>2. PICK b : b = Whole(v)
  OBVIOUS
<1>3. a \in Seq(Token) /\ b \in Seq(Token) /\ Len(a) \in Nat /\ Len(b) \in Nat
  BY <1>1, <1>2, WholeType, LenProperties
<1>4. /\ ~v.last_cr
      /\ \/ b = a
         \/ t = "A" /\ b = Append(a, t)
         \/ Loads(r, t, v)
  BY <1>1, <1>2, LoadCases
<1>5. "'" \in Token /\ "a" \in Token /\ "\n" # "A"
  BY DEF Token, Letter
<1>6. CASE b = a
  <2>1. Begins(a, b) /\ Len(b) = Len(a)
    BY <1>3, <1>5, <1>6, AppendBegins
  <2>2. Len(b) <= Len(a) + Gain(t) /\ ~(Len(b) = Len(a) + Gain(t))
    BY <1>3, <2>1 DEF Gain
  <2> QED
    BY <1>1, <1>2, <1>3, <1>4, <2>1, <2>2
<1>7. CASE t = "A" /\ b = Append(a, t)
  <2>1. Begins(a, b) /\ Len(b) = Len(a) + 1
    BY <1>3, <1>7, AppendBegins, AppendProperties
  <2>2. Len(b) <= Len(a) + Gain(t) /\ ~(Len(b) = Len(a) + Gain(t))
    BY <1>3, <1>7, <2>1 DEF Gain
  <2> QED
    BY <1>1, <1>2, <1>3, <1>4, <2>1, <2>2
<1>8. CASE Loads(r, t, v) /\ t # "A"
  <2>1. b = Append(a, t)
    BY <1>1, <1>2, <1>8 DEF Loads
  <2>2. Begins(a, b) /\ Len(b) = Len(a) + 1
    BY <1>3, <2>1, AppendBegins, AppendProperties
  <2>3. Len(b) <= Len(a) + Gain(t)
    BY <1>3, <1>8, <2>2 DEF Gain
  <2> QED
    BY <1>1, <1>2, <1>3, <1>4, <1>8, <2>2, <2>3
<1>9. CASE Loads(r, t, v) /\ t = "A"
  <2>1. b = Append(Append(a, "'"), "a")
    BY <1>1, <1>2, <1>9 DEF Loads
  <2>2. PICK c : c = Append(a, "'")
    OBVIOUS
  <2>3. c \in Seq(Token) /\ Len(c) = Len(a) + 1 /\ Begins(a, c)
    BY <1>3, <1>5, <2>2, AppendBegins, AppendProperties
  <2>4. b = Append(c, "a")
    BY <2>1, <2>2
  <2>5. Len(b) = Len(c) + 1 /\ Begins(c, b)
    BY <1>5, <2>3, <2>4, AppendBegins, AppendProperties
  <2>6. Begins(a, b)
    BY <1>3, <2>3, <2>5, BeginsOn
  <2>7. Len(b) <= Len(a) + Gain(t)
    BY <1>3, <1>9, <2>3, <2>5 DEF Gain
  <2> QED
    BY <1>1, <1>2, <1>3, <1>4, <1>9, <2>6, <2>7
<1> QED
  BY <1>4, <1>6, <1>7, <1>8, <1>9

(* A file that opens with a marker for each capital, and nothing cut,      *)
(* opens that way token by token.                                          *)
LEMMA LoadsAll ==
  ASSUME NEW x, x \in Seq(Token), \A i \in 1 .. Len(x) : x[i] # "\r",
         Len(Loaded(x, TRUE)) = Len(x) + Cardinality(Capitals(x)),
         NEW L, L = Loading(x)
  PROVE  /\ L \in [0 .. Len(x) -> ReaderState] /\ L[0] = Reader
         /\ \A j \in 1 .. Len(x) : Loads(L[j - 1], x[j], L[j])
         /\ \A j \in 0 .. Len(x) : Begins(Whole(L[j]), Loaded(x, TRUE))
<1> DEFINE n == Len(x)
           w == [j \in 0 .. n |-> Whole(L[j])]
           c == [j \in 0 .. n |-> Cardinality(CapitalsTo(x, j))]
           d == [j \in 0 .. n |-> (j + c[j]) - Len(w[j])]
<1>1. n \in Nat /\ (\A i \in 1 .. n : x[i] \in Token)
  BY LenProperties
<1>2. /\ L \in [0 .. n -> ReaderState] /\ L[0] = Reader
      /\ \A j \in 1 .. n : L[j] = LoadByte(L[j - 1], x[j])
  BY LoadingIs
<1>3. \A j \in 0 .. n : ~L[j].last_cr
  <2> DEFINE S == {j \in 0 .. n : ~L[j].last_cr}
  <2>1. 0 \in S
    BY <1>1, <1>2 DEF Reader
  <2>2. ASSUME NEW j \in 0 .. n - 1, j \in S
        PROVE  j + 1 \in S
    <3>1. j + 1 \in 1 .. n /\ j + 1 \in 0 .. n /\ (j + 1) - 1 = j /\ j \in 0 .. n
      BY <1>1
    <3>2. L[j] \in ReaderState /\ L[j + 1] \in ReaderState /\ L[j + 1] = LoadByte(L[j], x[j + 1])
          /\ x[j + 1] \in Token /\ x[j + 1] # "\r" /\ ~L[j].last_cr
      BY <1>1, <1>2, <2>2, <3>1
    <3>3. ~L[j + 1].last_cr
      BY <3>2, LoadGrows
    <3> QED
      BY <3>1, <3>3
  <2>3. \A j \in 0 .. n : j \in S
    <3> HIDE DEF S, n
    <3> QED
      BY <1>1, <2>1, <2>2, Steps
  <2> QED
    BY <2>3
<1>4. w \in [0 .. n -> Seq(Token)]
  BY <1>2, WholeType
<1>5. ASSUME NEW j \in 0 .. n - 1
      PROVE  /\ j + 1 \in 0 .. n /\ j \in 0 .. n
             /\ Begins(w[j], w[j + 1])
             /\ Len(w[j]) \in Nat /\ Len(w[j + 1]) \in Nat
             /\ Len(w[j + 1]) <= Len(w[j]) + Gain(x[j + 1])
             /\ Len(w[j + 1]) = Len(w[j]) + Gain(x[j + 1]) => Loads(L[j], x[j + 1], L[j + 1])
  <2>1. j + 1 \in 1 .. n /\ j + 1 \in 0 .. n /\ (j + 1) - 1 = j /\ j \in 0 .. n
    BY <1>1
  <2>2. L[j] \in ReaderState /\ L[j + 1] \in ReaderState /\ L[j + 1] = LoadByte(L[j], x[j + 1])
        /\ x[j + 1] \in Token /\ x[j + 1] # "\r" /\ ~L[j].last_cr
    BY <1>1, <1>2, <1>3, <2>1
  <2>3. w[j] = Whole(L[j]) /\ w[j + 1] = Whole(L[j + 1])
    BY <2>1
  <2> HIDE DEF w
  <2> QED
    BY <2>1, <2>2, <2>3, LoadGrows
<1>6. ASSUME NEW j \in 0 .. n
      PROVE  c[j] \in Nat /\ Len(w[j]) \in Nat /\ d[j] \in Int
  <2>1. j \in Nat
    BY <1>1
  <2>2. c[j] \in Nat
    BY <2>1, CapitalsCount
  <2>3. w[j] \in Seq(Token)
    BY <1>4
  <2>4. Len(w[j]) \in Nat
    BY <2>3, LenProperties
  <2> HIDE DEF c, w
  <2> QED
    BY <2>1, <2>2, <2>4
<1>7. ASSUME NEW j \in 0 .. n - 1
      PROVE  c[j + 1] = c[j] + (Gain(x[j + 1]) - 1)
  <2>1. j \in Nat /\ j \in 0 .. n /\ j + 1 \in 0 .. n
    BY <1>1
  <2>2. c[j] = Cardinality(CapitalsTo(x, j)) /\ c[j + 1] = Cardinality(CapitalsTo(x, j + 1))
    BY <2>1
  <2> HIDE DEF c
  <2> QED
    BY <2>1, <2>2, CapitalsCount
<1>8. d[0] = 0
  <2>1. Whole(Reader) = <<>>
    <3>1. Reader.done = <<>> /\ Reader.line = Start /\ Start.out = <<>>
      BY DEF Reader, Start
    <3>2. <<>> \in Seq(Token)
      OBVIOUS
    <3> QED
      BY <3>1, <3>2, ConcatEmptySeq DEF Whole
  <2>2. 0 \in 0 .. n
    BY <1>1
  <2>3. w[0] = <<>>
    BY <1>2, <2>1, <2>2
  <2>4. Len(<<>>) = 0
    OBVIOUS
  <2>5. c[0] = 0
    BY <2>2, CapitalsCount
  <2>6. d[0] = (0 + c[0]) - Len(w[0])
    BY <2>2
  <2>7. Len(w[0]) = 0
    BY <2>3, <2>4
  <2>8. d[0] = (0 + 0) - 0
    <3> HIDE DEF c, w, d
    <3> QED
      BY <2>5, <2>6, <2>7, Zenon
  <2> QED
    BY <2>8
<1>9. w[n] = Loaded(x, TRUE)
  BY <1>1 DEF Loaded
<1>10. d[n] = 0
  <2>1. n \in 0 .. n
    BY <1>1
  <2>2. Capitals(x) = CapitalsTo(x, n)
    BY DEF Capitals, CapitalsTo
  <2>3. c[n] = Cardinality(Capitals(x))
    BY <2>1, <2>2
  <2>4. d[n] = (n + c[n]) - Len(w[n])
    BY <2>1
  <2>5. Len(w[n]) = n + c[n]
    BY <1>9, <2>3
  <2>6. c[n] \in Nat /\ n \in Nat
    BY <1>1, <1>6, <2>1
  <2> HIDE DEF c, w, d
  <2> QED
    BY <2>4, <2>5, <2>6
<1>11. ASSUME NEW j \in 0 .. n - 1
       PROVE  d[j] <= d[j + 1]
  <2>1. j \in 0 .. n /\ j + 1 \in 0 .. n /\ j \in Int
    BY <1>1
  <2>2. d[j] = (j + c[j]) - Len(w[j]) /\ d[j + 1] = ((j + 1) + c[j + 1]) - Len(w[j + 1])
    BY <2>1
  <2>3. /\ c[j] \in Nat /\ c[j + 1] \in Nat /\ Len(w[j]) \in Nat /\ Len(w[j + 1]) \in Nat
        /\ c[j + 1] = c[j] + (Gain(x[j + 1]) - 1)
        /\ Len(w[j + 1]) <= Len(w[j]) + Gain(x[j + 1])
        /\ Gain(x[j + 1]) \in Nat
    BY <1>5, <1>6, <1>7, <2>1 DEF Gain
  <2>4. (j + c[j]) - Len(w[j]) <= ((j + 1) + c[j + 1]) - Len(w[j + 1])
    <3> HIDE DEF c, w, d
    <3> QED
      BY <2>1, <2>3, Balance
  <2> HIDE DEF c, w, d
  <2> QED
    BY <2>2, <2>4, Zenon
<1>12. \A j \in 0 .. n : d[j] = 0
  <2>1. d \in [0 .. n -> Int]
    BY <1>6
  <2> HIDE DEF d, n
  <2> QED
    BY <1>1, <1>8, <1>10, <1>11, <2>1, LevelPath
<1>13. ASSUME NEW j \in 1 .. n
       PROVE  Loads(L[j - 1], x[j], L[j])
  <2>1. PICK i : i = j - 1
    OBVIOUS
  <2>2. i \in 0 .. n - 1 /\ i + 1 = j /\ i \in 0 .. n /\ j \in 0 .. n /\ i \in Int
    BY <1>1, <2>1
  <2>3. d[i] = (i + c[i]) - Len(w[i]) /\ d[j] = (j + c[j]) - Len(w[j]) /\ d[i] = 0 /\ d[j] = 0
    BY <1>12, <2>2
  <2>4. /\ c[i] \in Nat /\ c[j] \in Nat /\ Len(w[i]) \in Nat /\ Len(w[j]) \in Nat
        /\ c[j] = c[i] + (Gain(x[j]) - 1) /\ Gain(x[j]) \in Nat
    BY <1>6, <1>7, <2>2 DEF Gain
  <2>5. /\ Len(w[j]) <= Len(w[i]) + Gain(x[j])
        /\ Len(w[j]) = Len(w[i]) + Gain(x[j]) => Loads(L[i], x[j], L[j])
    BY <1>5, <2>2
  <2>6. Len(w[j]) = Len(w[i]) + Gain(x[j])
    <3>1. (i + c[i]) - Len(w[i]) = 0 /\ ((i + 1) + c[j]) - Len(w[j]) = 0
      <4> HIDE DEF c, w, d
      <4> QED
        BY <2>2, <2>3, Zenon
    <3>2. PICK a : a = c[i]
      OBVIOUS
    <3>3. PICK b : b = c[j]
      OBVIOUS
    <3>4. PICK p : p = Len(w[i])
      OBVIOUS
    <3>5. PICK q : q = Len(w[j])
      OBVIOUS
    <3>6. PICK g : g = Gain(x[j])
      OBVIOUS
    <3>7. /\ i \in Int /\ a \in Nat /\ b \in Nat /\ p \in Nat /\ q \in Nat /\ g \in Nat
          /\ b = a + (g - 1) /\ q <= p + g
      BY <2>2, <2>4, <2>5, <3>2, <3>3, <3>4, <3>5, <3>6, Zenon
    <3>8. (i + a) - p = 0 /\ ((i + 1) + b) - q = 0
      BY <3>1, <3>2, <3>3, <3>4, <3>5, Zenon
    <3>9. q = p + g
      BY <3>7, <3>8, Balance
    <3> QED
      BY <3>4, <3>5, <3>6, <3>9, Zenon
  <2> QED
    BY <2>1, <2>5, <2>6
<1>14. \A j \in 0 .. n : Begins(w[j], w[n])
  <2>1. \A j \in 0 .. n - 1 : Begins(w[j], w[j + 1])
    BY <1>5
  <2> HIDE DEF w, n
  <2> QED
    BY <1>1, <1>4, <2>1, ChainBegins
<1>15. \A j \in 0 .. n : w[j] = Whole(L[j])
  OBVIOUS
<1>16. \A j \in 0 .. n : Begins(Whole(L[j]), Loaded(x, TRUE))
  <2> HIDE DEF w
  <2> QED
    BY <1>9, <1>14, <1>15
<1> QED
  BY <1>2, <1>13, <1>16

-----------------------------------------------------------------------------
(* Whoever reads what the translator wrote knows where it was: in a        *)
(* comment or a string, behind a letter, behind a backslash, unless that   *)
(* was typed as ??/.                                                       *)
Unescaped(source) ==
  \A i \in 1 .. Len(source) - 1 : source[i] = "\\" => source[i + 1] \notin {"quote", "\\"}

Behind(t, r, source, p) ==
  /\ t.state = "string" /\ ~t.escape /\ r.escape /\ t.prev \notin Letter
  /\ p >= 1 /\ source[p] = "\\" /\ Unescaped(source)

Follows(t, r, source, p) ==
  /\ r.state = t.state /\ (r.prev \in Letter <=> t.prev \in Letter)
  /\ (r.escape <=> t.escape) \/ Behind(t, r, source, p)

(* What a line holds where the reader is; `x` is the next token. *)
Readable(r, x) ==
  x # "\n" /\ ~InComment(r) /\ ~r.escape =>
    /\ x \notin {"<%", "??/"}
    /\ r.state = "normal" => x \notin {"ctrl-w", "'"}
    /\ x = "'" => IsLiteral(r)

LEMMA StateKept ==
  ASSUME NEW state, NEW t
  PROVE  /\ t \notin {"*/", "//", "/*", "quote", "\n", "\r"} => StateAfter(state, t) = state
         /\ state = "string" /\ t # "quote" => StateAfter(state, t) = "string"
  BY DEF StateAfter

LEMMA CaseAfter ==
  ASSUME NEW state, NEW t \in Token
  PROVE  StateAfter(state, to_lower(t)) = StateAfter(state, t)
<1>1. CASE t = "A"
  <2>1. to_lower(t) = "a"
    BY <1>1 DEF to_lower
  <2> QED
    BY <1>1, <2>1, StateKept
<1>2. CASE t # "A"
  BY <1>2 DEF to_lower
<1> QED
  BY <1>1, <1>2

LEMMA MeaningAfter ==
  ASSUME NEW s, NEW state, NEW t \in Token
  PROVE  StateAfter(state, Meaning(s, t)) = StateAfter(state, t)
<1>1. CASE t \in {"<%", "??/", "ctrl-w"}
  <2>1. Meaning(s, t) \in {"brace", "\\", "underscore", "ctrl-w"}
    BY <1>1 DEF Meaning
  <2> QED
    BY <1>1, <2>1, StateKept
<1>2. CASE t \notin {"<%", "??/", "ctrl-w"}
  BY <1>2 DEF Meaning
<1> QED
  BY <1>1, <1>2

NextFollows(r, source, p, u, x) ==
  \A k : p < Len(source) /\ source[p + 1] = x /\ Reads(r, x, k)
           => Readable(r, x) /\ Follows(u, k, source, p + 1)

LEMMA FollowComment ==
  ASSUME NEW t, NEW r, NEW source, NEW p, Follows(t, r, source, p),
         NEW y \in Token, NEW u, InComment(t), InCommentWrites(t, y, u)
  PROVE  NextFollows(r, source, p, u, to_lower(y))
<1>1. PICK x : x = to_lower(y)
  OBVIOUS
<1>2. InComment(r) /\ (r.escape <=> t.escape) /\ r.state = t.state
  BY DEF Follows, Behind, InComment
<1>3. u.state = StateAfter(t.state, y) /\ u.prev = x /\ (u.escape <=> t.escape)
  BY <1>1 DEF InCommentWrites, Writes
<1>4. ASSUME NEW k, Reads(r, x, k)
      PROVE  Readable(r, x) /\ Follows(u, k, source, p + 1)
  <2>1. k.prev = x /\ k.state = StateAfter(r.state, x) /\ (k.escape <=> r.escape)
    BY <1>2, <1>4 DEF Reads, CommentReads, Writes
  <2>2. k.state = u.state
    BY <1>1, <1>2, <1>3, <2>1, CaseAfter
  <2> QED
    BY <1>2, <1>3, <2>1, <2>2 DEF Readable, Follows
<1> QED
  BY <1>1, <1>4 DEF NextFollows

LEMMA FollowEscaped ==
  ASSUME NEW t, NEW r, NEW source, NEW p, Follows(t, r, source, p),
         NEW y, NEW u, ~InComment(t), t.escape, EscapedWrites(t, y, u)
  PROVE  NextFollows(r, source, p, u, to_lower(y))
<1>1. PICK x : x = to_lower(y)
  OBVIOUS
<1>2. ~InComment(r) /\ r.escape /\ r.state = t.state
  BY DEF Follows, Behind, InComment
<1>3. u.state = t.state /\ u.prev = x /\ ~u.escape
  BY <1>1 DEF EscapedWrites, Writes
<1>4. ASSUME NEW k, Reads(r, x, k)
      PROVE  Readable(r, x) /\ Follows(u, k, source, p + 1)
  <2>1. k.prev = x /\ k.state = r.state /\ ~k.escape
    BY <1>2, <1>4 DEF Reads, EscapedReads, Writes
  <2> QED
    BY <1>2, <1>3, <2>1 DEF Readable, Follows
<1> QED
  BY <1>1, <1>4 DEF NextFollows

LEMMA FollowLiteral ==
  ASSUME NEW t, NEW r, NEW source, NEW p, Follows(t, r, source, p),
         NEW y, NEW u, ~InComment(t), ~t.escape, IsLiteral(t), LiteralWrites(t, y, u)
  PROVE  NextFollows(r, source, p, u, "'")
<1>1. IsLiteral(r) /\ ~InComment(r) /\ ~r.escape /\ r.state = t.state /\ r.state = "string"
  BY DEF Follows, Behind, InComment, IsLiteral
<1>2. u.state = t.state /\ u.prev = "'" /\ ~u.escape
  BY DEF LiteralWrites, Writes
<1>3. ASSUME NEW k, Reads(r, "'", k)
      PROVE  Readable(r, "'") /\ Follows(u, k, source, p + 1)
  <2>1. OtherReads(r, "'", k)
    BY <1>1, <1>3 DEF Reads
  <2>2. k.prev = "'" /\ k.state = StateAfter(r.state, "'") /\ ~k.escape
    BY <2>1 DEF OtherReads, Writes, Escaping
  <2>3. k.state = r.state
    BY <2>2, StateKept
  <2>4. Readable(r, "'")
    BY <1>1 DEF Readable
  <2> QED
    BY <1>1, <1>2, <2>2, <2>3, <2>4 DEF Follows
<1> QED
  BY <1>3 DEF NextFollows

LEMMA FollowMarker ==
  ASSUME NEW t, NEW r, NEW source, NEW p, Follows(t, r, source, p),
         NEW u, ~t.escape, MarkerWrites(t, u)
  PROVE  Follows(u, r, source, p)
  BY DEF Follows, Behind, MarkerWrites

LEMMA FollowLetter ==
  ASSUME NEW t, NEW r, NEW source, NEW p, Follows(t, r, source, p),
         NEW u, ~InComment(t), ~t.escape, u.state = t.state, ~u.escape,
         NEW x, x \in Letter, u.prev = x
  PROVE  NextFollows(r, source, p, u, x)
<1>1. ~InComment(r) /\ r.state = t.state
  BY DEF Follows, Behind, InComment
<1>2. x = "a" \/ x = "A"
  BY DEF Letter
<1>3. Readable(r, x)
  BY <1>2 DEF Readable
<1>4. ASSUME NEW k, Reads(r, x, k)
      PROVE  Follows(u, k, source, p + 1)
  <2>1. CASE r.escape
    <3>1. k.prev = x /\ k.state = r.state /\ ~k.escape
      BY <1>1, <1>4, <2>1 DEF Reads, EscapedReads, Writes
    <3> QED
      BY <1>1, <3>1 DEF Follows
  <2>2. CASE ~r.escape /\ x = "a"
    <3>1. OtherReads(r, x, k)
      BY <1>1, <1>4, <2>2 DEF Reads
    <3>2. k.prev = x /\ k.state = StateAfter(r.state, x) /\ ~k.escape
      BY <2>2, <3>1 DEF OtherReads, Writes, Escaping
    <3>3. k.state = r.state
      BY <2>2, <3>2, StateKept
    <3> QED
      BY <1>1, <3>2, <3>3 DEF Follows
  <2>3. CASE ~r.escape /\ x = "A"
    <3>1. k.prev = "a" /\ k.state = r.state /\ ~k.escape
      BY <1>1, <1>4, <2>3 DEF Reads, CapitalReads
    <3> QED
      BY <1>1, <3>1 DEF Follows, Letter
  <2> QED
    BY <1>2, <2>1, <2>2, <2>3
<1> QED
  BY <1>3, <1>4 DEF NextFollows

LEMMA FollowOther ==
  ASSUME NEW t, NEW r, NEW source, NEW p, source \in Seq(Token), p \in 0 .. Len(source),
         Follows(t, r, source, p), NEW y \in Token, y = "??/" => Unescaped(source),
         NEW u, ~InComment(t), ~t.escape, y # "'", y \notin Letter, y # "\n",
         OtherWrites(t, y, u), t.state \in State
  PROVE  NextFollows(r, source, p, u, Meaning(t, y)) /\ Meaning(t, y) # "\n"
<1>1. PICK x : x = Meaning(t, y)
  OBVIOUS
<1>2. /\ x \notin Letter /\ x # "'" /\ x \notin {"<%", "??/"} /\ x # "\n"
      /\ x = "quote" <=> y = "quote"
      /\ x = "\\" <=> y \in {"\\", "??/"}
      /\ t.state = "normal" => x # "ctrl-w"
  BY <1>1 DEF Meaning, Letter
<1>3. ~InComment(r) /\ r.state = t.state
  BY DEF Follows, Behind, InComment
<1>4. u.state = StateAfter(t.state, y) /\ u.prev = x /\ (u.escape <=> Escaping(t, y))
  BY <1>1 DEF OtherWrites, Writes
<1>5. Readable(r, x)
  BY <1>2, <1>3 DEF Readable
<1>6. ASSUME NEW k, p < Len(source), source[p + 1] = x, Reads(r, x, k)
      PROVE  Follows(u, k, source, p + 1)
  <2>1. x # "A"
    BY <1>2 DEF Letter
  <2>2. CASE ~r.escape
    <3>1. OtherReads(r, x, k)
      BY <1>3, <1>6, <2>1, <2>2 DEF Reads
    <3>2. k.prev = x /\ k.state = StateAfter(r.state, x) /\ (k.escape <=> Escaping(r, x))
      BY <3>1 DEF OtherReads, Writes
    <3>3. k.state = u.state
      BY <1>1, <1>3, <1>4, <3>2, MeaningAfter
    <3>4. CASE y = "??/" /\ t.state = "string"
      <4>1. ~u.escape /\ k.escape /\ x = "\\"
        BY <1>2, <1>3, <1>4, <3>2, <3>4 DEF Escaping
      <4>2. u.state = "string"
        BY <1>4, <3>4, StateKept
      <4>3. p + 1 >= 1
        BY LenProperties
      <4>4. Behind(u, k, source, p + 1)
        BY <1>2, <1>4, <1>6, <3>4, <4>1, <4>2, <4>3 DEF Behind
      <4> QED
        BY <1>2, <1>4, <3>2, <3>3, <4>4 DEF Follows
    <3>5. CASE ~(y = "??/" /\ t.state = "string")
      <4>1. k.escape <=> u.escape
        BY <1>2, <1>3, <1>4, <3>2, <3>5 DEF Escaping
      <4> QED
        BY <1>2, <1>4, <3>2, <3>3, <4>1 DEF Follows
    <3> QED
      BY <3>4, <3>5
  <2>3. CASE r.escape
    <3>1. Behind(t, r, source, p)
      BY <2>3 DEF Follows
    <3>2. p >= 1 /\ source[p] = "\\" /\ Unescaped(source) /\ t.state = "string"
      BY <3>1 DEF Behind
    <3>3. p \in 1 .. Len(source) - 1
      <4>1. Len(source) \in Nat
        BY LenProperties
      <4> QED
        BY <1>6, <3>2, <4>1
    <3>4. x \notin {"quote", "\\"}
      BY <1>6, <3>2, <3>3 DEF Unescaped
    <3>5. u.state = "string" /\ ~u.escape
      BY <1>2, <1>4, <3>2, <3>4, StateKept DEF Escaping
    <3>6. k.prev = x /\ k.state = r.state /\ ~k.escape
      BY <1>3, <1>6, <2>3 DEF Reads, EscapedReads, Writes
    <3> QED
      BY <1>3, <1>4, <3>2, <3>5, <3>6 DEF Follows
  <2> QED
    BY <2>2, <2>3
<1> QED
  BY <1>1, <1>2, <1>5, <1>6 DEF NextFollows

LEMMA FollowStep ==
  ASSUME NEW a \in ReaderState, NEW y \in Token, NEW v, v = SaveByte(a, y, TRUE),
         NEW r, NEW source, NEW p, source \in Seq(Token), p \in 0 .. Len(source),
         Follows(a.line, r, source, p), y = "??/" => Unescaped(source)
  PROVE  \/ Whole(v) = Whole(a) /\ Follows(v.line, r, source, p)
         \/ \E x \in Token :
              /\ Whole(v) = Append(Whole(a), x)
              /\ x = "\n" => v.line = Start
              /\ x # "\n" => NextFollows(r, source, p, v.line, x)
<1>1. PICK t : t = a.line
  OBVIOUS
<1>2. PICK u : u = v.line
  OBVIOUS
<1>3. t \in LineState /\ t.state \in State /\ t.escape \in BOOLEAN /\ Follows(t, r, source, p)
  BY <1>1 DEF ReaderState, LineState
<1>4. CASE y = "\n" /\ Whole(v) = Append(Whole(a), y) /\ v.line = Start /\ v.len = 0
  BY <1>4
<1>5. CASE y # "\n" /\ ~Fits(a) /\ Whole(v) = Whole(a) /\ v.line = a.line
  BY <1>5
<1>6. CASE /\ y # "\n" /\ Fits(a) /\ Translates(a.line, y, v.line)
           /\ v.done = a.done /\ v.len = a.len + 1
  <2>1. y # "\n" /\ Translates(t, y, u) /\ v.done = a.done
    BY <1>1, <1>2, <1>6
  <2>2. ASSUME NEW x, Writes(t, u, x), x # "\n", NextFollows(r, source, p, u, x)
        PROVE  \E z \in Token :
                 /\ Whole(v) = Append(Whole(a), z)
                 /\ z = "\n" => v.line = Start
                 /\ z # "\n" => NextFollows(r, source, p, v.line, z)
    <3>1. x \in Token /\ v.line.out = Append(a.line.out, x)
      BY <1>1, <1>2, <2>2 DEF Writes
    <3>2. Whole(v) = Append(Whole(a), x)
      BY <2>1, <3>1, WritesWhole
    <3>3. NextFollows(r, source, p, v.line, x)
      BY <1>2, <2>2
    <3> QED
      BY <2>2, <3>1, <3>2, <3>3
  <2>3. to_lower(y) # "\n"
    BY <2>1 DEF to_lower
  <2>4. CASE InComment(t)
    <3>1. InCommentWrites(t, y, u)
      BY <2>1, <2>4 DEF Translates
    <3>2. NextFollows(r, source, p, u, to_lower(y))
      BY <1>3, <2>4, <3>1, FollowComment
    <3>3. Writes(t, u, to_lower(y))
      BY <3>1 DEF InCommentWrites
    <3> QED
      BY <2>2, <2>3, <3>2, <3>3
  <2>5. CASE ~InComment(t) /\ t.escape
    <3>1. EscapedWrites(t, y, u)
      BY <2>1, <2>5 DEF Translates
    <3>2. NextFollows(r, source, p, u, to_lower(y))
      BY <1>3, <2>5, <3>1, FollowEscaped
    <3>3. Writes(t, u, to_lower(y))
      BY <3>1 DEF EscapedWrites
    <3> QED
      BY <2>2, <2>3, <3>2, <3>3
  <2>6. CASE ~InComment(t) /\ ~t.escape /\ y = "'" /\ IsLiteral(t)
    <3>1. LiteralWrites(t, y, u)
      BY <2>1, <2>6 DEF Translates
    <3>2. NextFollows(r, source, p, u, "'")
      BY <1>3, <2>6, <3>1, FollowLiteral
    <3>3. Writes(t, u, "'")
      BY <3>1 DEF LiteralWrites
    <3> QED
      BY <2>2, <3>2, <3>3
  <2>7. CASE ~InComment(t) /\ ~t.escape /\ y = "'" /\ ~IsLiteral(t)
    <3>1. MarkerWrites(t, u)
      BY <2>1, <2>7 DEF Translates
    <3>2. Follows(u, r, source, p)
      BY <1>3, <2>7, <3>1, FollowMarker
    <3>3. v.line.out = a.line.out
      BY <1>1, <1>2, <3>1 DEF MarkerWrites
    <3>4. Whole(v) = Whole(a)
      BY <2>1, <3>3 DEF Whole
    <3> QED
      BY <1>2, <3>2, <3>4
  <2>8. CASE ~InComment(t) /\ ~t.escape /\ y \in Letter
    <3>1. LetterWrites(t, y, u)
      BY <2>1, <2>8 DEF Translates
    <3>2. PICK x : x = IF t.case_pending = "none" THEN to_lower(y) ELSE to_upper(y)
      OBVIOUS
    <3>3. x \in Letter /\ x # "\n"
      BY <2>8, <3>2 DEF Letter, to_lower, to_upper
    <3>4. Writes(t, u, x) /\ u.state = t.state /\ ~u.escape
      BY <3>1, <3>2 DEF LetterWrites
    <3>5. u.prev = x
      BY <3>4 DEF Writes
    <3>6. NextFollows(r, source, p, u, x)
      BY <1>3, <2>8, <3>3, <3>4, <3>5, FollowLetter
    <3> QED
      BY <2>2, <3>3, <3>4, <3>6
  <2>9. CASE ~InComment(t) /\ ~t.escape /\ y # "'" /\ y \notin Letter
    <3>1. OtherWrites(t, y, u)
      BY <2>1, <2>9 DEF Translates
    <3>2. NextFollows(r, source, p, u, Meaning(t, y)) /\ Meaning(t, y) # "\n"
      BY <1>3, <2>1, <2>9, <3>1, FollowOther
    <3>3. Writes(t, u, Meaning(t, y))
      BY <3>1 DEF OtherWrites
    <3> QED
      BY <2>2, <3>2, <3>3
  <2> QED
    BY <2>4, <2>5, <2>6, <2>7, <2>8, <2>9
<1>7. \/ /\ y = "\n" /\ Whole(v) = Append(Whole(a), y)
         /\ v.line = Start /\ v.len = 0
      \/ y # "\n" /\ ~Fits(a) /\ Whole(v) = Whole(a) /\ v.line = a.line
      \/ /\ y # "\n" /\ Fits(a) /\ Translates(a.line, y, v.line)
         /\ v.done = a.done /\ v.len = a.len + 1
  BY SaveCases
<1> QED
  BY <1>4, <1>5, <1>6, <1>7

LEMMA SaveGrows ==
  ASSUME NEW a \in ReaderState, NEW y \in Token, NEW v, v = SaveByte(a, y, TRUE)
  PROVE  Begins(Whole(a), Whole(v))
<1>1. Whole(a) \in Seq(Token)
  BY WholeType
<1>2. ASSUME NEW x \in Token, Whole(v) = Append(Whole(a), x)
      PROVE  Begins(Whole(a), Whole(v))
  BY <1>1, <1>2, AppendBegins
<1>3. ASSUME Whole(v) = Whole(a)
      PROVE  Begins(Whole(a), Whole(v))
  <2>1. "a" \in Token
    BY DEF Token, Letter
  <2> QED
    BY <1>1, <1>3, <2>1, AppendBegins
<1>4. CASE Translates(a.line, y, v.line) /\ v.done = a.done
  <2>1. a.line.escape \in BOOLEAN
    BY DEF ReaderState, LineState
  <2>2. v.line.out = a.line.out \/ \E x : Writes(a.line, v.line, x)
    BY <1>4, <2>1 DEF Translates, InCommentWrites, EscapedWrites, LiteralWrites, MarkerWrites,
                      LetterWrites, OtherWrites
  <2>3. CASE v.line.out = a.line.out
    BY <1>3, <1>4, <2>3 DEF Whole
  <2>4. CASE \E x : Writes(a.line, v.line, x)
    <3>1. PICK x : Writes(a.line, v.line, x)
      BY <2>4
    <3>2. x \in Token /\ v.line.out = Append(a.line.out, x)
      BY <3>1 DEF Writes
    <3>3. Whole(v) = Append(Whole(a), x)
      BY <1>4, <3>2, WritesWhole
    <3> QED
      BY <1>2, <3>2, <3>3
  <2> QED
    BY <2>2, <2>3, <2>4
<1>5. \/ /\ y = "\n" /\ Whole(v) = Append(Whole(a), y)
         /\ v.line = Start /\ v.len = 0
      \/ y # "\n" /\ ~Fits(a) /\ Whole(v) = Whole(a) /\ v.line = a.line
      \/ /\ y # "\n" /\ Fits(a) /\ Translates(a.line, y, v.line)
         /\ v.done = a.done /\ v.len = a.len + 1
  BY SaveCases
<1> QED
  BY <1>2, <1>3, <1>4, <1>5

LEMMA SavesAll ==
  ASSUME NEW t, t \in Seq(Token), NEW T, T = Saving(t, TRUE)
  PROVE  /\ T \in [0 .. Len(t) -> ReaderState] /\ T[0] = Reader
         /\ \A i \in 1 .. Len(t) : T[i] = SaveByte(T[i - 1], t[i], TRUE)
         /\ Whole(T[Len(t)]) = Saved(t, TRUE)
         /\ \A i \in 0 .. Len(t) : Begins(Whole(T[i]), Saved(t, TRUE))
<1> DEFINE n == Len(t)
           w == [i \in 0 .. n |-> Whole(T[i])]
<1>1. n \in Nat /\ (\A i \in 1 .. n : t[i] \in Token) /\ TRUE \in BOOLEAN
  BY LenProperties
<1>2. /\ T \in [0 .. n -> ReaderState] /\ T[0] = Reader
      /\ \A i \in 1 .. n : T[i] = SaveByte(T[i - 1], t[i], TRUE)
  BY <1>1, SavingIs
<1>3. w \in [0 .. n -> Seq(Token)]
  BY <1>2, WholeType
<1>4. ASSUME NEW i \in 0 .. n - 1
      PROVE  Begins(w[i], w[i + 1])
  <2>1. i + 1 \in 1 .. n /\ i + 1 \in 0 .. n /\ (i + 1) - 1 = i /\ i \in 0 .. n
    BY <1>1
  <2>2. T[i] \in ReaderState /\ T[i + 1] = SaveByte(T[i], t[i + 1], TRUE) /\ t[i + 1] \in Token
    BY <1>1, <1>2, <2>1
  <2>3. w[i] = Whole(T[i]) /\ w[i + 1] = Whole(T[i + 1])
    BY <2>1
  <2> HIDE DEF w
  <2> QED
    BY <2>2, <2>3, SaveGrows
<1>5. Whole(T[n]) = Saved(t, TRUE) /\ w[n] = Saved(t, TRUE)
  BY <1>1 DEF Saved
<1>6. \A i \in 0 .. n : Begins(w[i], w[n])
  <2> HIDE DEF w, n
  <2> QED
    BY <1>1, <1>3, <1>4, ChainBegins
<1>7. \A i \in 0 .. n : w[i] = Whole(T[i])
  OBVIOUS
<1>8. \A i \in 0 .. n : Begins(Whole(T[i]), Saved(t, TRUE))
  <2> HIDE DEF w
  <2> QED
    BY <1>5, <1>6, <1>7
<1> QED
  BY <1>2, <1>5, <1>8

-----------------------------------------------------------------------------
(* What the translator wrote is readable from its first token to its last: *)
(* the reader follows it, one token of the text after the other.           *)
Along(L, source, t, p) ==
  /\ p \in 0 .. Len(source) /\ Follows(t, L[p].line, source, p)
  /\ \A j \in 1 .. p : Readable(L[j - 1].line, source[j])

LEMMA AlongStep ==
  ASSUME NEW source, source \in Seq(Token), NEW L,
         \A j \in 1 .. Len(source) : Loads(L[j - 1], source[j], L[j]),
         NEW a \in ReaderState, NEW y \in Token, y = "??/" => Unescaped(source),
         NEW v, v = SaveByte(a, y, TRUE), Begins(Whole(v), source),
         Along(L, source, a.line, Len(Whole(a)))
  PROVE  Along(L, source, v.line, Len(Whole(v)))
<1>1. PICK p : p = Len(Whole(a))
  OBVIOUS
<1>2. PICK q : q = Len(Whole(v))
  OBVIOUS
<1>3. PICK r : r = L[p].line
  OBVIOUS
<1>4. Whole(a) \in Seq(Token) /\ p \in Nat /\ Len(source) \in Nat
  BY <1>1, WholeType, LenProperties
<1>5. p \in 0 .. Len(source) /\ Follows(a.line, r, source, p)
  BY <1>1, <1>3 DEF Along
<1>6. \A j \in 1 .. p : Readable(L[j - 1].line, source[j])
  BY <1>1 DEF Along
<1>7. CASE Whole(v) = Whole(a) /\ Follows(v.line, r, source, p)
  <2>1. q = p
    BY <1>1, <1>2, <1>7
  <2> QED
    BY <1>2, <1>3, <1>5, <1>6, <1>7, <2>1 DEF Along
<1>8. CASE \E x \in Token :
             /\ Whole(v) = Append(Whole(a), x)
             /\ x = "\n" => v.line = Start
             /\ x # "\n" => NextFollows(r, source, p, v.line, x)
  <2>1. PICK x \in Token :
             /\ Whole(v) = Append(Whole(a), x)
             /\ x = "\n" => v.line = Start
             /\ x # "\n" => NextFollows(r, source, p, v.line, x)
    BY <1>8
  <2>2. Len(Append(Whole(a), x)) = p + 1 /\ Append(Whole(a), x)[p + 1] = x
    BY <1>1, <1>4, AppendProperties
  <2>3. q = p + 1 /\ Whole(v)[p + 1] = x
    BY <1>2, <2>1, <2>2
  <2>4. q <= Len(source) /\ \A i \in 1 .. q : Whole(v)[i] = source[i]
    BY <1>2 DEF Begins
  <2>5. q \in 1 .. Len(source) /\ q \in 1 .. q /\ p < Len(source) /\ q - 1 = p
    BY <1>4, <2>3, <2>4
  <2>6. source[q] = x
    BY <2>3, <2>4, <2>5
  <2>7. Loads(L[p], x, L[q])
    BY <2>5, <2>6
  <2>8. Readable(r, x) /\ Follows(v.line, L[q].line, source, q)
    <3>1. CASE x = "\n"
      <4>1. v.line = Start /\ L[q].line = Start
        BY <2>1, <2>7, <3>1 DEF Loads
      <4>2. Follows(v.line, L[q].line, source, q)
        BY <4>1 DEF Follows
      <4> QED
        BY <3>1, <4>2 DEF Readable
    <3>2. CASE x # "\n"
      <4>1. NextFollows(r, source, p, v.line, x)
        BY <2>1, <3>2
      <4>2. Reads(r, x, L[q].line)
        BY <1>3, <2>7, <3>2 DEF Loads
      <4>3. source[p + 1] = x
        BY <2>3, <2>6
      <4> QED
        BY <2>3, <2>5, <4>1, <4>2, <4>3 DEF NextFollows
    <3> QED
      BY <3>1, <3>2
  <2>9. ASSUME NEW j \in 1 .. q
        PROVE  Readable(L[j - 1].line, source[j])
    <3>1. CASE j = q
      BY <1>3, <2>5, <2>6, <2>8, <3>1
    <3>2. CASE j # q
      <4>1. j \in 1 .. p
        BY <1>4, <2>3, <3>2
      <4> QED
        BY <1>6, <4>1
    <3> QED
      BY <3>1, <3>2
  <2>10. q \in 0 .. Len(source)
    BY <2>5
  <2> QED
    BY <1>2, <2>8, <2>9, <2>10 DEF Along
<1>9. \/ Whole(v) = Whole(a) /\ Follows(v.line, r, source, p)
      \/ \E x \in Token :
           /\ Whole(v) = Append(Whole(a), x)
           /\ x = "\n" => v.line = Start
           /\ x # "\n" => NextFollows(r, source, p, v.line, x)
  BY <1>5, FollowStep, ZenonT(60)
<1> QED
  BY <1>7, <1>8, <1>9

LEMMA SavedIsReadable ==
  ASSUME NEW t, t \in Seq(Token), NEW source, source = Saved(t, TRUE), source \in Seq(Token),
         EscapesAgree(t, source), NEW L, L[0] = Reader,
         \A j \in 1 .. Len(source) : Loads(L[j - 1], source[j], L[j])
  PROVE  \A j \in 1 .. Len(source) : Readable(L[j - 1].line, source[j])
<1> DEFINE n == Len(t)
<1>1. n \in Nat /\ Len(source) \in Nat /\ \A i \in 1 .. n : t[i] \in Token
  BY LenProperties
<1>2. PICK T : T = Saving(t, TRUE)
  OBVIOUS
<1>3. /\ T \in [0 .. n -> ReaderState] /\ T[0] = Reader
      /\ \A i \in 1 .. n : T[i] = SaveByte(T[i - 1], t[i], TRUE)
      /\ Whole(T[n]) = source
      /\ \A i \in 0 .. n : Begins(Whole(T[i]), source)
  BY <1>2, SavesAll
<1>4. ASSUME NEW i \in 1 .. n, t[i] = "??/"
      PROVE  Unescaped(source)
  BY <1>4 DEF EscapesAgree, Unescaped
<1> DEFINE S == {i \in 0 .. n : Along(L, source, T[i].line, Len(Whole(T[i])))}
<1>5. 0 \in S
  <2>1. Reader.done = <<>> /\ Reader.line = Start /\ Start.out = <<>>
    BY DEF Reader, Start
  <2>2. <<>> \in Seq(Token) /\ Len(<<>>) = 0
    OBVIOUS
  <2>3. Whole(Reader) = <<>>
    BY <2>1, <2>2, ConcatEmptySeq DEF Whole
  <2>4. Whole(T[0]) = <<>> /\ T[0].line = Start /\ L[0].line = Start
    BY <1>3, <2>1, <2>3
  <2>5. Len(Whole(T[0])) = 0
    BY <2>2, <2>4
  <2>6. Follows(Start, Start, source, 0)
    BY DEF Follows
  <2>7. 0 \in 0 .. Len(source) /\ (\A j \in 1 .. 0 : FALSE) /\ 0 \in 0 .. n
    <3>1. Len(source) \in Nat /\ n \in Nat
      BY <1>1
    <3>2. \A m \in Nat : 0 \in 0 .. m
      OBVIOUS
    <3>3. \A j \in 1 .. 0 : FALSE
      OBVIOUS
    <3> QED
      BY <3>1, <3>2, <3>3
  <2>8. Follows(Start, L[0].line, source, 0)
    BY <2>4, <2>6, Zenon
  <2>9. Along(L, source, Start, 0)
    BY <2>7, <2>8 DEF Along
  <2>10. Along(L, source, T[0].line, Len(Whole(T[0])))
    BY <2>4, <2>5, <2>9, Zenon
  <2> QED
    BY <2>7, <2>10
<1>6. ASSUME NEW i \in 0 .. n - 1, i \in S
      PROVE  i + 1 \in S
  <2>1. i + 1 \in 1 .. n /\ i + 1 \in 0 .. n /\ (i + 1) - 1 = i /\ i \in 0 .. n
    BY <1>1
  <2>2. PICK a : a = T[i]
    OBVIOUS
  <2>3. PICK v : v = T[i + 1]
    OBVIOUS
  <2>4. PICK y : y = t[i + 1]
    OBVIOUS
  <2>5. /\ a \in ReaderState /\ y \in Token /\ v = SaveByte(a, y, TRUE)
        /\ Begins(Whole(v), source) /\ (y = "??/" => Unescaped(source))
    BY <1>1, <1>3, <1>4, <2>1, <2>2, <2>3, <2>4
  <2>6. Along(L, source, a.line, Len(Whole(a)))
    BY <1>6, <2>2
  <2>7. Along(L, source, v.line, Len(Whole(v)))
    BY <2>5, <2>6, AlongStep
  <2> QED
    BY <2>1, <2>3, <2>7
<1>7. \A i \in 0 .. n : i \in S
  <2> HIDE DEF S, n
  <2> QED
    BY <1>1, <1>5, <1>6, Steps
<1>8. Along(L, source, T[n].line, Len(Whole(T[n])))
  <2>1. n \in 0 .. n
    BY <1>1
  <2>2. n \in S
    BY ONLY <1>7, <2>1
  <2> QED
    BY <2>2, Zenon
<1> QED
  BY <1>3, <1>8 DEF Along

-----------------------------------------------------------------------------
(* What the reader made of it goes back through the translator: where the  *)
(* reader is behind a token of the file, the translator is behind what the *)
(* reader made of it.                                                      *)
Mirrors(s, r) ==
  /\ s.line.state = r.line.state /\ (s.line.escape <=> r.line.escape)
  /\ (s.line.prev \in Letter <=> r.line.prev \in Letter)
  /\ s.line.case_pending = "none" /\ s.len = Len(r.line.out)

LEMMA MirrorEnd ==
  ASSUME NEW s \in ReaderState, NEW r \in ReaderState, NEW k, Loads(r, "\n", k),
         NEW v, v = SaveByte(s, "\n", TRUE)
  PROVE  Whole(v) = Append(Whole(s), "\n") /\ Mirrors(v, k)
<1>1. "\n" \in Token
  BY DEF Token
<1>2. Whole(v) = Append(Whole(s), "\n") /\ v.line = Start /\ v.len = 0
  BY <1>1, SaveCases
<1>3. k.line = Start
  BY DEF Loads
<1>4. Start.case_pending = "none" /\ Start.out = <<>> /\ Len(<<>>) = 0
  BY DEF Start
<1> QED
  BY <1>2, <1>3, <1>4 DEF Mirrors

LEMMA MirrorToken ==
  ASSUME NEW s \in ReaderState, NEW r \in ReaderState, Mirrors(s, r),
         NEW x \in Token, x # "A", x # "\n", Readable(r.line, x),
         NEW k, Loads(r, x, k), NEW v, v = SaveByte(s, x, TRUE)
  PROVE  Whole(v) = Append(Whole(s), x) /\ Mirrors(v, k)
<1>1. PICK t : t = s.line
  OBVIOUS
<1>2. PICK u : u = v.line
  OBVIOUS
<1>3. PICK a : a = r.line
  OBVIOUS
<1>4. PICK b : b = k.line
  OBVIOUS
<1>5. Reads(a, x, b) /\ Readable(a, x)
  BY <1>3, <1>4 DEF Loads
<1>6. /\ t.state = a.state /\ (t.escape <=> a.escape)
      /\ (t.prev \in Letter <=> a.prev \in Letter)
      /\ t.case_pending = "none" /\ s.len = Len(a.out)
  BY <1>1, <1>3 DEF Mirrors
<1>7. a.out \in Seq(Token) /\ Len(a.out) \in Nat /\ LINE_MAX \in Nat
  BY <1>3, EditorSizes, LenProperties DEF ReaderState, LineState
<1>8. Len(a.out) + 1 <= LINE_MAX
  BY <1>5 DEF Reads, Gain
<1>9. Fits(s)
  BY <1>6, <1>7, <1>8 DEF Fits
<1>10. Translates(t, x, u) /\ v.done = s.done /\ v.len = s.len + 1
  BY <1>1, <1>2, <1>9, SaveCases
<1>11. /\ InComment(a) => CommentReads(a, x, b)
       /\ ~InComment(a) /\ a.escape => EscapedReads(a, x, b)
       /\ ~InComment(a) /\ ~a.escape => OtherReads(a, x, b)
  BY <1>5 DEF Reads
<1>12. to_lower(x) = x
  BY DEF to_lower
<1>13. InComment(t) <=> InComment(a)
  BY <1>6 DEF InComment
<1>14. ASSUME Writes(t, u, x), Writes(a, b, x), u.state = b.state, u.escape <=> b.escape,
              u.case_pending = "none"
       PROVE  Whole(v) = Append(Whole(s), x) /\ Mirrors(v, k)
  <2>1. u.out = Append(t.out, x) /\ u.prev = x /\ b.out = Append(a.out, x) /\ b.prev = x
    BY <1>14 DEF Writes
  <2>2. Whole(v) = Append(Whole(s), x)
    BY <1>1, <1>2, <1>10, <2>1, WritesWhole
  <2>3. Len(b.out) = Len(a.out) + 1
    BY <1>7, <2>1, AppendProperties
  <2>4. v.len = Len(b.out)
    BY <1>6, <1>10, <2>3
  <2> QED
    BY <1>2, <1>4, <1>14, <2>1, <2>2, <2>4 DEF Mirrors
<1>15. CASE InComment(a)
  <2>1. InCommentWrites(t, x, u) /\ CommentReads(a, x, b)
    BY <1>10, <1>11, <1>13, <1>15 DEF Translates
  <2> QED
    BY <1>6, <1>12, <1>14, <2>1 DEF InCommentWrites, CommentReads
<1>16. CASE ~InComment(a) /\ a.escape
  <2>1. EscapedWrites(t, x, u) /\ EscapedReads(a, x, b)
    BY <1>6, <1>10, <1>11, <1>13, <1>16 DEF Translates
  <2> QED
    BY <1>6, <1>12, <1>14, <2>1 DEF EscapedWrites, EscapedReads
<1>17. CASE ~InComment(a) /\ ~a.escape /\ x = "'"
  <2>1. IsLiteral(a) /\ IsLiteral(t)
    BY <1>5, <1>6, <1>17 DEF Readable, IsLiteral
  <2>2. LiteralWrites(t, x, u) /\ OtherReads(a, x, b)
    BY <1>6, <1>10, <1>11, <1>13, <1>17, <2>1 DEF Translates
  <2>3. b.state = a.state /\ ~b.escape
    BY <1>17, <2>2, StateKept DEF OtherReads, Escaping
  <2> QED
    BY <1>6, <1>14, <1>17, <2>2, <2>3 DEF LiteralWrites, OtherReads
<1>18. CASE ~InComment(a) /\ ~a.escape /\ x \in Letter
  <2>1. x = "a"
    BY <1>18 DEF Letter
  <2>2. LetterWrites(t, x, u) /\ OtherReads(a, x, b)
    BY <1>6, <1>10, <1>11, <1>13, <1>18 DEF Translates
  <2>3. b.state = a.state /\ ~b.escape
    BY <2>1, <2>2, StateKept DEF OtherReads, Escaping
  <2> QED
    BY <1>6, <1>12, <1>14, <2>2, <2>3 DEF LetterWrites, OtherReads
<1>19. CASE ~InComment(a) /\ ~a.escape /\ x # "'" /\ x \notin Letter
  <2>1. OtherWrites(t, x, u) /\ OtherReads(a, x, b)
    BY <1>6, <1>10, <1>11, <1>13, <1>19 DEF Translates
  <2>2. Meaning(t, x) = x
    BY <1>5, <1>6, <1>19 DEF Readable, Meaning
  <2>3. u.escape <=> b.escape
    BY <1>6, <2>1 DEF OtherWrites, OtherReads, Escaping
  <2> QED
    BY <1>6, <1>14, <2>1, <2>2, <2>3 DEF OtherWrites, OtherReads
<1> QED
  BY <1>15, <1>16, <1>17, <1>18, <1>19

LEMMA MirrorCapital ==
  ASSUME NEW s \in ReaderState, NEW r \in ReaderState, Mirrors(s, r), NEW k, Loads(r, "A", k),
         NEW m, m = SaveByte(s, "'", TRUE), NEW v, v = SaveByte(m, "a", TRUE)
  PROVE  Whole(v) = Append(Whole(s), "A") /\ Mirrors(v, k)
<1>1. PICK t : t = s.line
  OBVIOUS
<1>2. PICK n : n = m.line
  OBVIOUS
<1>3. PICK u : u = v.line
  OBVIOUS
<1>4. PICK a : a = r.line
  OBVIOUS
<1>5. PICK b : b = k.line
  OBVIOUS
<1>6. "'" \in Token /\ "a" \in Token /\ "A" \in Token /\ "a" \in Letter /\ "A" \in Letter
      /\ "A" # "\n" /\ "a" # "\n" /\ "'" # "\n" /\ "a" # "'"
  BY DEF Token, Letter
<1>7. Reads(a, "A", b)
  BY <1>4, <1>5, <1>6 DEF Loads
<1>8. /\ t.state = a.state /\ (t.escape <=> a.escape)
      /\ (t.prev \in Letter <=> a.prev \in Letter)
      /\ t.case_pending = "none" /\ s.len = Len(a.out)
  BY <1>1, <1>4 DEF Mirrors
<1>9. a.out \in Seq(Token) /\ Len(a.out) \in Nat /\ LINE_MAX \in Nat
  BY <1>4, EditorSizes, LenProperties DEF ReaderState, LineState
<1>10. Len(a.out) + 2 <= LINE_MAX
  BY <1>7 DEF Reads, Gain
<1>11. ~InComment(a) /\ ~a.escape /\ CapitalReads(a, b)
  BY <1>7 DEF Reads, CommentReads, EscapedReads
<1>12. ~InComment(t) /\ ~t.escape /\ ~IsLiteral(t)
  BY <1>8, <1>11 DEF InComment, CapitalReads, IsLiteral
<1>13. Fits(s)
  BY <1>8, <1>9, <1>10 DEF Fits
<1>14. Translates(t, "'", n) /\ m.done = s.done /\ m.len = s.len + 1
  BY <1>1, <1>2, <1>6, <1>13, SaveCases
<1>15. MarkerWrites(t, n)
  BY <1>12, <1>14 DEF Translates
<1>16. n.out = t.out /\ n.state = t.state /\ ~n.escape /\ n.case_pending = "single"
  BY <1>8, <1>15 DEF MarkerWrites
<1>17. ~InComment(n)
  BY <1>12, <1>16 DEF InComment
<1>18. m \in ReaderState
  BY <1>6, SaveByteType
<1>19. Fits(m) /\ m.len + 1 = Len(a.out) + 2
  <2>1. PICK l : l = Len(a.out)
    OBVIOUS
  <2>2. l \in Nat /\ LINE_MAX \in Nat /\ l + 2 <= LINE_MAX /\ m.len = l + 1
    BY <1>8, <1>9, <1>10, <1>14, <2>1, Zenon
  <2>3. m.len < LINE_MAX /\ m.len + 1 = l + 2
    BY ONLY <2>2
  <2> QED
    BY <2>1, <2>3, Zenon DEF Fits
<1>20. Translates(n, "a", u) /\ v.done = m.done /\ v.len = m.len + 1
  BY <1>2, <1>3, <1>6, <1>18, <1>19, SaveCases
<1>21. LetterWrites(n, "a", u)
  BY <1>6, <1>16, <1>17, <1>20 DEF Translates
<1>22. to_upper("a") = "A"
  BY DEF to_upper
<1>23. /\ u.out = Append(n.out, "A") /\ u.prev = "A" /\ u.state = n.state /\ ~u.escape
       /\ u.case_pending = "none"
  BY <1>16, <1>21, <1>22 DEF LetterWrites, Writes
<1>24. Whole(v) = Append(Whole(s), "A")
  <2>1. v.done = s.done /\ v.line.out = Append(s.line.out, "A")
    BY <1>1, <1>3, <1>14, <1>16, <1>20, <1>23
  <2> QED
    BY <1>6, <2>1, WritesWhole
<1>25. Len(b.out) = Len(a.out) + 2
  <2>1. PICK c : c = Append(a.out, "'")
    OBVIOUS
  <2>2. c \in Seq(Token) /\ Len(c) = Len(a.out) + 1
    BY <1>6, <1>9, <2>1, AppendProperties
  <2>3. b.out = Append(c, "a")
    BY <1>11, <2>1 DEF CapitalReads
  <2>4. Len(b.out) = Len(c) + 1
    BY <1>6, <2>2, <2>3, AppendProperties
  <2> QED
    BY <1>9, <2>2, <2>4
<1>26. v.len = Len(b.out)
  BY <1>19, <1>20, <1>25, Zenon
<1>27. b.prev = "a" /\ b.state = a.state /\ ~b.escape
  BY <1>11 DEF CapitalReads
<1> QED
  BY <1>3, <1>5, <1>6, <1>8, <1>16, <1>23, <1>24, <1>26, <1>27 DEF Mirrors

Back(w, source, j) == Len(w) = j /\ \A i \in 1 .. j : w[i] = source[i]

LEMMA BackOn ==
  ASSUME NEW source, NEW j \in Nat, NEW w \in Seq(Token), Back(w, source, j),
         NEW x \in Token, x = source[j + 1]
  PROVE  Back(Append(w, x), source, j + 1)
<1>1. /\ Len(Append(w, x)) = j + 1 /\ Append(w, x)[j + 1] = x
      /\ \A i \in 1 .. j : Append(w, x)[i] = w[i]
  BY AppendProperties DEF Back
<1>2. ASSUME NEW i \in 1 .. j + 1
      PROVE  Append(w, x)[i] = source[i]
  <2>1. CASE i = j + 1
    BY <1>1, <2>1
  <2>2. CASE i # j + 1
    <3>1. i \in 1 .. j
      BY <2>2
    <3> QED
      BY <1>1, <3>1 DEF Back
  <2> QED
    BY <2>1, <2>2
<1> QED
  BY <1>1, <1>2 DEF Back

(* The states of the translator on its way through a text. *)
Passes(Z, opened) ==
  /\ opened \in Seq(Token) /\ Z \in [0 .. Len(opened) -> ReaderState]
  /\ \A i \in 1 .. Len(opened) : Z[i] = SaveByte(Z[i - 1], opened[i], TRUE)

(* One token of the file, one or two of the text it opens as. *)
LEMMA MirrorStep ==
  ASSUME NEW opened, NEW Z, Passes(Z, opened),
         NEW r \in ReaderState, NEW k \in ReaderState, NEW x \in Token,
         Loads(r, x, k), Readable(r.line, x), Begins(Whole(k), opened),
         NEW q, q = Len(Whole(r)), NEW e, e = Len(Whole(k)),
         q \in 0 .. Len(opened), Mirrors(Z[q], r)
  PROVE  e \in 0 .. Len(opened) /\ Whole(Z[e]) = Append(Whole(Z[q]), x) /\ Mirrors(Z[e], k)
<1>1. PICK w : w = Whole(r)
  OBVIOUS
<1>2. w \in Seq(Token) /\ q \in Nat /\ q = Len(w) /\ Len(opened) \in Nat
  BY <1>1, WholeType, LenProperties DEF Passes
<1>3. "'" \in Token /\ "a" \in Token
  BY DEF Token, Letter
<1>4. e <= Len(opened) /\ \A i \in 1 .. e : Whole(k)[i] = opened[i]
  BY DEF Begins
<1>5. Z[q] \in ReaderState
  BY DEF Passes
<1>6. CASE x # "A"
  <2>1. Whole(k) = Append(w, x)
    BY <1>1, <1>6 DEF Loads
  <2>2. Len(Append(w, x)) = q + 1 /\ Append(w, x)[q + 1] = x
    BY <1>2, AppendProperties
  <2>3. e = q + 1 /\ Whole(k)[e] = x
    BY <2>1, <2>2
  <2>4. e \in 1 .. e /\ e \in 1 .. Len(opened) /\ e - 1 = q /\ e \in 0 .. Len(opened)
    BY <1>2, <1>4, <2>3
  <2>5. opened[e] = x
    BY <1>4, <2>3, <2>4
  <2>6. Z[e] = SaveByte(Z[q], x, TRUE)
    BY <2>4, <2>5 DEF Passes
  <2>7. CASE x = "\n"
    BY <1>5, <2>4, <2>6, <2>7, MirrorEnd
  <2>8. CASE x # "\n"
    BY <1>5, <1>6, <2>4, <2>6, <2>8, MirrorToken
  <2> QED
    BY <2>7, <2>8
<1>7. CASE x = "A"
  <2>1. PICK c : c = Append(w, "'")
    OBVIOUS
  <2>2. /\ c \in Seq(Token) /\ Len(c) = q + 1 /\ c[q + 1] = "'"
    BY <1>2, <1>3, <2>1, AppendProperties
  <2>3. Whole(k) = Append(c, "a")
    BY <1>1, <1>7, <2>1 DEF Loads
  <2>4. /\ Len(Append(c, "a")) = (q + 1) + 1 /\ Append(c, "a")[(q + 1) + 1] = "a"
        /\ \A i \in 1 .. q + 1 : Append(c, "a")[i] = c[i]
    BY <1>3, <2>2, AppendProperties
  <2>5. PICK d : d = q + 1
    OBVIOUS
  <2>6. d \in Nat /\ e = d + 1 /\ d \in 1 .. d
    BY <1>2, <2>3, <2>4, <2>5
  <2>7. Whole(k)[e] = "a" /\ Whole(k)[d] = "'"
    BY <2>2, <2>3, <2>4, <2>5, <2>6
  <2>8. /\ d \in 1 .. e /\ e \in 1 .. e /\ d \in 1 .. Len(opened) /\ e \in 1 .. Len(opened)
        /\ d - 1 = q /\ e - 1 = d /\ e \in 0 .. Len(opened)
    BY <1>2, <1>4, <2>5, <2>6
  <2>9. opened[d] = "'" /\ opened[e] = "a"
    BY <1>4, <2>7, <2>8
  <2>10. Z[d] = SaveByte(Z[q], "'", TRUE) /\ Z[e] = SaveByte(Z[d], "a", TRUE)
    BY <2>8, <2>9 DEF Passes
  <2>11. Loads(r, "A", k)
    BY <1>7
  <2>12. Whole(Z[e]) = Append(Whole(Z[q]), "A") /\ Mirrors(Z[e], k)
    BY <1>5, <2>10, <2>11, MirrorCapital
  <2> QED
    BY <1>7, <2>8, <2>12
<1> QED
  BY <1>6, <1>7

LEMMA SavesBack ==
  ASSUME NEW source, source \in Seq(Token), NEW opened, opened \in Seq(Token),
         NEW L, L \in [0 .. Len(source) -> ReaderState], L[0] = Reader,
         \A j \in 1 .. Len(source) : Loads(L[j - 1], source[j], L[j]),
         \A j \in 1 .. Len(source) : Readable(L[j - 1].line, source[j]),
         \A j \in 0 .. Len(source) : Begins(Whole(L[j]), opened),
         Whole(L[Len(source)]) = opened
  PROVE  Saved(opened, TRUE) = source
<1> DEFINE n == Len(source)
<1>1. /\ n \in Nat /\ Len(opened) \in Nat /\ \A i \in 1 .. n : source[i] \in Token
  BY LenProperties
<1>2. PICK Z : Z = Saving(opened, TRUE)
  OBVIOUS
<1>3. /\ Z \in [0 .. Len(opened) -> ReaderState] /\ Z[0] = Reader
      /\ \A i \in 1 .. Len(opened) : Z[i] = SaveByte(Z[i - 1], opened[i], TRUE)
      /\ Whole(Z[Len(opened)]) = Saved(opened, TRUE)
  BY <1>2, SavesAll
<1> DEFINE at(j) == Len(Whole(L[j]))
           S == {j \in 0 .. n : /\ at(j) \in 0 .. Len(opened) /\ Mirrors(Z[at(j)], L[j])
                                /\ Back(Whole(Z[at(j)]), source, j)}
<1>4. 0 \in S
  <2>1. Reader.done = <<>> /\ Reader.line = Start /\ Start.out = <<>> /\ Reader.len = 0
        /\ Start.case_pending = "none"
    BY DEF Reader, Start
  <2>2. <<>> \in Seq(Token) /\ Len(<<>>) = 0
    OBVIOUS
  <2>3. Whole(Reader) = <<>>
    BY <2>1, <2>2, ConcatEmptySeq DEF Whole
  <2>4. at(0) = 0
    BY <1>3, <2>2, <2>3
  <2>5. Mirrors(Reader, Reader)
    BY <2>1, <2>2 DEF Mirrors
  <2>6. \A i \in 1 .. 0 : FALSE
    OBVIOUS
  <2>7. Back(<<>>, source, 0)
    BY <2>2, <2>6 DEF Back
  <2>8. 0 \in 0 .. n /\ 0 \in 0 .. Len(opened)
    <3>1. \A m \in Nat : 0 \in 0 .. m
      OBVIOUS
    <3> QED
      BY <1>1, <3>1
  <2>9. Mirrors(Z[at(0)], L[0]) /\ Back(Whole(Z[at(0)]), source, 0)
    BY <1>3, <2>3, <2>4, <2>5, <2>7, Zenon
  <2> QED
    BY <2>4, <2>8, <2>9
<1>5. ASSUME NEW j \in 0 .. n - 1, j \in S
      PROVE  j + 1 \in S
  <2>1. j + 1 \in 1 .. n /\ j + 1 \in 0 .. n /\ (j + 1) - 1 = j /\ j \in 0 .. n /\ j \in Nat
    BY <1>1
  <2>2. PICK r : r = L[j]
    OBVIOUS
  <2>3. PICK k : k = L[j + 1]
    OBVIOUS
  <2>4. PICK x : x = source[j + 1]
    OBVIOUS
  <2>5. /\ r \in ReaderState /\ k \in ReaderState /\ x \in Token /\ Loads(r, x, k)
        /\ Readable(r.line, x) /\ Begins(Whole(k), opened)
    BY <1>1, <2>1, <2>2, <2>3, <2>4
  <2>6. PICK q : q = Len(Whole(r))
    OBVIOUS
  <2>7. PICK e : e = Len(Whole(k))
    OBVIOUS
  <2>8. q \in 0 .. Len(opened) /\ Mirrors(Z[q], r) /\ Back(Whole(Z[q]), source, j)
    BY <1>5, <2>2, <2>6
  <2>9. e \in 0 .. Len(opened) /\ Whole(Z[e]) = Append(Whole(Z[q]), x) /\ Mirrors(Z[e], k)
    <3>1. Passes(Z, opened)
      BY <1>3 DEF Passes
    <3>2. q \in 0 .. Len(opened) /\ Mirrors(Z[q], r)
      BY ONLY <2>8
    <3> QED
      BY ONLY <2>5, <2>6, <2>7, <3>1, <3>2, MirrorStep
  <2>10. Whole(Z[q]) \in Seq(Token)
    BY <1>3, <2>8, WholeType
  <2>11. Back(Append(Whole(Z[q]), x), source, j + 1)
    BY <2>1, <2>4, <2>5, <2>8, <2>10, BackOn
  <2>12. Back(Whole(Z[e]), source, j + 1)
    BY <2>9, <2>11, Zenon
  <2>13. e = at(j + 1)
    BY <2>3, <2>7
  <2> QED
    BY <2>1, <2>3, <2>9, <2>12, <2>13
<1>6. \A j \in 0 .. n : j \in S
  <2> HIDE DEF S, n
  <2> QED
    BY <1>1, <1>4, <1>5, Steps
<1>7. n \in S
  <2>1. n \in 0 .. n
    BY <1>1
  <2> QED
    BY ONLY <1>6, <2>1
<1>8. Back(Whole(Z[Len(opened)]), source, n)
  <2>1. Back(Whole(Z[at(n)]), source, n)
    BY <1>7, Zenon
  <2> QED
    BY <2>1, Zenon
<1>9. PICK b : b = Saved(opened, TRUE)
  OBVIOUS
<1>10. Back(b, source, n) /\ b \in Seq(Token)
  <2>1. Len(opened) \in 0 .. Len(opened)
    BY <1>1
  <2>2. Whole(Z[Len(opened)]) \in Seq(Token)
    BY <1>3, <2>1, WholeType
  <2> QED
    BY <1>3, <1>8, <1>9, <2>2, Zenon
<1>11. b = source
  <2>1. Len(b) = Len(source) /\ \A i \in 1 .. Len(b) : b[i] = source[i]
    BY <1>10 DEF Back
  <2> QED
    BY <1>10, <2>1, SeqEqual
<1> QED
  BY <1>9, <1>11

LEMMA ResavesSame ==
  ASSUME NEW t, t \in Seq(Token), NEW source, source = Saved(t, TRUE),
         NEW opened, opened = Loaded(source, TRUE), EscapesAgree(t, source),
         \A i \in 1 .. Len(source) : source[i] # "\r",
         Len(opened) = Len(source) + Cardinality(Capitals(source))
  PROVE  Saved(opened, TRUE) = source
<1>1. TRUE \in BOOLEAN
  OBVIOUS
<1>2. source \in Seq(Token)
  BY <1>1, SavedType
<1>3. opened \in Seq(Token)
  BY <1>1, <1>2, LoadedType
<1>4. PICK L : L = Loading(source)
  OBVIOUS
<1>5. Len(Loaded(source, TRUE)) = Len(source) + Cardinality(Capitals(source))
  OBVIOUS
<1>6. /\ L \in [0 .. Len(source) -> ReaderState] /\ L[0] = Reader
      /\ \A j \in 1 .. Len(source) : Loads(L[j - 1], source[j], L[j])
      /\ \A j \in 0 .. Len(source) : Begins(Whole(L[j]), Loaded(source, TRUE))
  BY <1>2, <1>4, <1>5, LoadsAll
<1>7. \A j \in 1 .. Len(source) : Readable(L[j - 1].line, source[j])
  BY <1>2, <1>6, SavedIsReadable
<1>8. Whole(L[Len(source)]) = opened
  BY <1>4 DEF Loaded
<1>9. \A j \in 0 .. Len(source) : Begins(Whole(L[j]), opened)
  BY <1>6
<1> QED
  BY <1>2, <1>3, <1>6, <1>7, <1>8, <1>9, SavesBack

-----------------------------------------------------------------------------
LEMMA EditorInit == Init => EditorInv
<1> SUFFICES ASSUME Init PROVE EditorInv
  OBVIOUS
<1>1. DiskOK(disk)
  BY Disks DEF Init, DiskOK
<1>2. NoteOK(note)
  BY EditorSizes DEF Init, NoteOK, NoNote
<1>3. TextOK
  BY NoText DEF Init, TextOK
<1>4. PhaseOK /\ EventsOK
  BY EditorSizes DEF Init, PhaseOK, EventsOK
<1>5. TypeOK
  BY <1>1, <1>2, <1>3, <1>4, TypeParts
<1>6. CleanIsSaved /\ Awaited
  BY DEF Init, CleanIsSaved, Awaited, Editing
<1> QED
  BY <1>5, <1>6 DEF EditorInv

LEMMA EditorStep == EditorInv /\ [Next]_vars => EditorInv' /\ [ComesBack]_vars
<1> SUFFICES ASSUME EditorInv, [Next]_vars PROVE EditorInv' /\ (ComesBack \/ UNCHANGED vars)
  OBVIOUS
<1>1. ASSUME phase = "editing" \/ phase = "browser" \/ phase' # "editing"
      PROVE  ComesBack
  BY <1>1 DEF ComesBack
<1>2. CASE Open
  BY <1>1, <1>2, OpenStep DEF Open
<1>3. CASE Quit
  BY <1>1, <1>3, QuitStep DEF Quit, Editing
<1>4. CASE Save
  BY <1>1, <1>4, SaveKeyStep DEF Save, Editing
<1>5. CASE ToggleMode
  BY <1>1, <1>5, ToggleModeStep DEF ToggleMode, Editing
<1>6. CASE Run
  BY <1>1, <1>6, RunStep DEF Run, Editing
<1>7. CASE RunFile
  BY <1>1, <1>7, RunFileStep DEF RunFile
<1>8. CASE Boot
  BY <1>1, <1>8, BootStep DEF Boot
<1>9. CASE Resume
  BY <1>9, ResumeStep
<1>10. CASE \E key \in Keys : Type(key)
  BY <1>1, <1>10, TypeStep DEF Type, Editing
<1>11. CASE Return
  BY <1>1, <1>11, ReturnStep DEF Return, Editing
<1>12. CASE Delete
  BY <1>1, <1>12, DeleteStep DEF Delete, Editing
<1>13. CASE Move
  BY <1>1, <1>13, MoveStep DEF Move, Editing
<1>14. CASE UNCHANGED vars
  <2>1. UNCHANGED <<phase, disk, note, last, events, s_fname, s_cooked, text, cursor, dirty, failed>>
    BY <1>14 DEF vars, session
  <2>2. EditorInv'
    BY <2>1 DEF EditorInv, TypeOK, CleanIsSaved, Awaited, Editing
  <2> QED
    BY <1>14, <2>2
<1> QED
  BY <1>2, <1>3, <1>4, <1>5, <1>6, <1>7, <1>8, <1>9, <1>10, <1>11, <1>12, <1>13, <1>14
     DEF Next

LEMMA EditorAlways == Spec => []EditorInv /\ [][ComesBack]_vars
<1>1. EditorInv /\ [Next]_vars => EditorInv'
  BY EditorStep
<1>2. EditorInv /\ [Next]_vars => [ComesBack]_vars
  BY EditorStep
<1> QED
  BY <1>1, <1>2, EditorInit, PTL DEF Spec

(* Every session keeps its types: the cursor stays in the text, the text   *)
(* in the buffer, and what the disk holds are texts, whichever transfer    *)
(* breaks off.                                                             *)
THEOREM EditorTyped == Spec => []TypeOK
<1>1. EditorInv => TypeOK
  BY DEF EditorInv
<1> QED
  BY <1>1, EditorAlways, PTL

(* A text that the editor shows as saved is the file's (confirm_save asks  *)
(* nothing then, and Ctrl-Q and Ctrl-G let the text go).                   *)
THEOREM CleanTextIsSaved == Spec => []CleanIsSaved
<1>1. EditorInv => CleanIsSaved
  BY DEF EditorInv
<1> QED
  BY <1>1, EditorAlways, PTL

(* Ctrl-R and back, through the interpreter, a boot and the launcher's     *)
(* note: the user gets the text and the place back.                        *)
THEOREM RunComesBack == Spec => ResumeKeepsPlace
  BY EditorAlways, PTL DEF ResumeKeepsPlace

(* What a save writes opens to a text whose own save writes the same: a    *)
(* file that went through the editor once is not altered by being opened   *)
(* and saved again, whatever case marks, digraphs, comments and strings    *)
(* it holds, as long as nothing is cut at a line's end, and the text has   *)
(* no ??/ or the file no backslash before a quote or another backslash.    *)
THEOREM ResaveStable == Spec => []ResaveIsStable
<1>1. EditorInv => text \in Seq(Token)
  BY DEF EditorInv, TypeOK
<1>2. ASSUME text \in Seq(Token)
      PROVE  ResaveIsStable
  BY <1>2, ResavesSame DEF ResaveIsStable
<1> QED
  BY <1>1, <1>2, EditorAlways, PTL
=============================================================================
