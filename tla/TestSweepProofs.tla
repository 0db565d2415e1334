--------------------------- MODULE TestSweepProofs ---------------------------
(***************************************************************************)
(* The note on the disk carries a sweep through any number of programs     *)
(* that replace each other: for every disk, every choice of tests and      *)
(* every fate of theirs, none is started twice, none out of turn, and none *)
(* is left out unless something came between.                              *)
(***************************************************************************)
EXTENDS TestSweep, SequenceTheorems, FiniteSetTheorems, WellFoundedInduction, TLAPS

(* How many of the chosen tests a cursor has behind it. *)
Base(selmask, t) ==
  (IF t > 1 THEN Len(Part(selmask, 1)) ELSE 0)
    + (IF t > 2 THEN Len(Part(selmask, 2)) ELSE 0)
    + (IF t > 3 THEN Len(Part(selmask, 3)) ELSE 0)

Passed(s) == Base(s.selmask, s.tier) + s.ord - 1

(* TESTRUN's globals, or its note, as a cursor over the tests it chose. *)
Placed(s) ==
  /\ s \in Globals /\ s.selmask # {}
  /\ s.ord - 1 <= IF s.tier \in Tiers THEN Len(Part(s.selmask, s.tier)) ELSE 0
  /\ s.count <= Passed(s)

(* The sweep did not begin over another's note; nor did a note of its own  *)
(* outlive the next.                                                       *)
Whole == "unread" \notin sweep.hurt
Kept == Whole /\ "note" \notin sweep.hurt

(* A cursor of the sweep under way. *)
Cursor(s) == Placed(s) /\ (Whole => sweep.plan = Selected(s.selmask))

Readable(test) == familyb \/ fate[test] # "unreadable"

(* What is started is started in turn, and only if it can be read. *)
InTurn ==
  /\ \A i \in DOMAIN sweep.launched : Readable(sweep.launched[i])
  /\ Whole => \A i \in DOMAIN sweep.launched :
       /\ sweep.launched[i] \in Range(sweep.plan)
       /\ Position(sweep.launched[i]) \in Nat
  /\ Kept => \A i, j \in DOMAIN sweep.launched :
       i < j => Position(sweep.launched[i]) < Position(sweep.launched[j])

Within(k) == \A i \in DOMAIN sweep.launched : Position(sweep.launched[i]) <= k

Complete(k) ==
  \A p \in 1 .. k : Readable(sweep.plan[p]) => sweep.plan[p] \in Range(sweep.launched)

(* A cursor that says of a sweep nothing disturbed all that is done. *)
Tells(s, due) ==
  /\ s.count = Len(sweep.launched) + due /\ s.total = Len(sweep.plan)
  /\ Complete(Passed(s) - due)

Page == {"ending", "tally", "results"}
Loop == {"destroy", "create", "write", "next", "countdown"} \cup Page
Away == {"boot", "main", "compile", "error", "runner", "cleanup", "program"}

(* The cursor is past a test that is still to be started. *)
Pending == after = "countdown" /\ at \in {"destroy", "create", "write", "countdown"}
Due == IF Pending THEN 1 ELSE 0

(* TESTRUN has the machine and a sweep under way. *)
LoopInv ==
  at \in Loop =>
    /\ Cursor(g) /\ Due <= Passed(g)
    /\ Kept => Within(Passed(g) - Due)
    /\ Pending => program = Selected(g.selmask)[Passed(g)] /\ Readable(program)
    /\ sweep.calm => Tells(g, Due)
    /\ sweep.calm /\ at \in Page => g.tier \notin Tiers

(* What a valid note says is so, whichever program has the machine; and if *)
(* nothing came between, all it says is done is done once TESTRUN has left *)
(* the machine.                                                            *)
NoteInv ==
  note \notin {None, Empty} =>
    /\ Cursor(note)
    /\ Kept => Within(Passed(note))
    /\ at \in Away /\ sweep.calm => Tells(note, 0)

(* Where the note stands while it is saved, and where there is none. *)
NotePhase ==
  /\ Kept /\ at = "create" => note = None
  /\ at = "write" => note = Empty
  /\ at = "countdown" => after = "countdown"
  /\ Kept /\ at = "countdown" => note \in {None, Empty, g}
  /\ sweep.calm /\ at \in {"menu", "intro", "select", "chosen", "counted", "tally", "results"} =>
       note \in {None, Empty}

(* TESTRUN's globals before a sweep: nothing but the choice is made. *)
ChoiceInv ==
  /\ at \notin Loop => g \in Globals /\ g.tier = 1 /\ g.ord = 1 /\ g.count = 0
  /\ at \in {"chosen", "counted"} => g.selmask # {}

(* The log has a letter for each program whose verdict was taken. *)
LogInv ==
  /\ log \in Seq({"P", "F"})
  /\ familyb /\ "log" \notin sweep.hurt =>
       /\ Len(log) = Len(sweep.logged)
       /\ \A k \in DOMAIN log : log[k] = "F" <=> fate[sweep.logged[k]] = "fails"

(* The page names tests by the place of their letters. *)
PageInv ==
  at = "results" /\ familyb /\ "page" \notin sweep.hurt =>
    sweep.named = Listed(Verdicts, Selected(g.selmask))

ProgramInv ==
  /\ program \in Programs \cup {None}
  /\ at \in {"compile", "error", "runner", "cleanup", "program"} => program \in Programs
  /\ at \in {"compile", "error", "runner", "cleanup"} => familyb
  /\ swb \subseteq Programs /\ marker \in BOOLEAN
  /\ familyb \/ (~marker /\ swb = {} /\ log = <<>>)

Places == {"boot", "menu", "main", "intro", "select", "chosen", "counted", "destroy",
           "create", "write", "next", "countdown", "program", "compile", "error",
           "runner", "cleanup", "ending", "tally", "results"}

Sweeps == [plan : Seq(Tests), launched : Seq(Tests), logged : Seq(Programs),
           named : SUBSET Tests, calm : BOOLEAN, hurt : SUBSET Kinds]

PlaceInv ==
  /\ at \in Places /\ after \in {"next", "countdown"}
  /\ boot_disk \in {"repl", "extras", "compiler"} /\ fate \in Fates
  /\ sweep \in Sweeps /\ (sweep.calm => sweep.hurt = {})

IInv == /\ PlaceInv /\ ProgramInv /\ LogInv /\ ChoiceInv /\ NotePhase
        /\ InTurn /\ NoteInv /\ LoopInv /\ PageInv

-----------------------------------------------------------------------------
(* Counting rows.  The least-number principle is what the library has of   *)
(* induction that needs no operator for a parameter.                       *)
Less == {p \in Nat \X Nat : p[1] < p[2]}

LEMMA LeastNumber ==
  ASSUME NEW T \in SUBSET Nat, T # {}
  PROVE  \E x \in T : \A y \in T : x <= y
<1>1. IsWellFoundedOn(Less, Nat)
  BY NatLessThanWellFounded DEF OpToRel, Less
<1>2. PICK x \in T : \A y \in T : ~(<<y, x>> \in Less)
  BY <1>1, WFMin
<1>3. \A y \in T : ~(y < x)
  BY <1>2 DEF Less
<1> QED
  BY <1>3

LEMMA LesserOfTwo ==
  ASSUME NEW a \in Nat, NEW b \in Nat
  PROVE  Min({a, b}) \in Nat /\ Min({a, b}) <= a /\ Min({a, b}) <= b
<1>1. \E x \in {a, b} : \A y \in {a, b} : x =< y
  OBVIOUS
<1> QED
  BY <1>1 DEF Min

LEMMA RowsBounded ==
  ASSUME NEW t \in 1 .. 3
  PROVE  /\ Folder[t] \in Seq(Tests \cup {Other})
         /\ SwiftRows(t) \subseteq DOMAIN Folder[t]
         /\ SwiftRows(t) \subseteq 1 .. MAX_ROWS
         /\ IsFiniteSet(SwiftRows(t))
         /\ Cardinality(SwiftRows(t)) \in Nat
         /\ Cardinality(SwiftRows(t)) <= MAX_ROWS
         /\ \A r \in SwiftRows(t) : Folder[t][r] \in Tests
<1>1. Folder[t] \in Seq(Tests \cup {Other}) /\ Len(Folder[t]) \in Nat
  BY Folders
<1>2. MAX_ROWS \in Nat
  BY Folders
<1> DEFINE m == Min({Len(Folder[t]), MAX_ROWS})
<1>3. m \in Nat /\ m <= Len(Folder[t]) /\ m <= MAX_ROWS
  BY <1>1, <1>2, LesserOfTwo
<1> HIDE DEF m
<1>4. SwiftRows(t) = {r \in 1 .. m : Folder[t][r] # Other}
  BY DEF SwiftRows, m
<1>5. SwiftRows(t) \subseteq DOMAIN Folder[t] /\ SwiftRows(t) \subseteq 1 .. MAX_ROWS
  BY <1>1, <1>2, <1>3, <1>4
<1>6. IsFiniteSet(1 .. MAX_ROWS) /\ Cardinality(1 .. MAX_ROWS) = MAX_ROWS
  BY <1>2, FS_Interval
<1>7. /\ IsFiniteSet(SwiftRows(t)) /\ Cardinality(SwiftRows(t)) \in Nat
      /\ Cardinality(SwiftRows(t)) <= MAX_ROWS
  BY <1>5, <1>6, FS_Subset, FS_CardinalityType
<1>8. \A r \in SwiftRows(t) : Folder[t][r] \in Tests
  BY <1>1, <1>4, <1>5
<1> QED
  BY <1>1, <1>5, <1>7, <1>8

(* Those of S in front of r; one more than r's has r, if it is one. *)
InFront(S, r) == {q \in S : q < r}

LEMMA InFrontGrows ==
  ASSUME NEW m \in Nat, NEW S \in SUBSET (1 .. m), NEW r \in Nat
  PROVE  /\ InFront(S, 1) = {} /\ InFront(S, m + 1) = S
         /\ IsFiniteSet(S) /\ IsFiniteSet(InFront(S, r))
         /\ Cardinality(InFront(S, r)) \in Nat
         /\ r \notin S => InFront(S, r + 1) = InFront(S, r)
         /\ r \in S => Cardinality(InFront(S, r + 1)) = Cardinality(InFront(S, r)) + 1
<1>1. \A q \in S : q \in Int /\ 1 <= q /\ q <= m
  OBVIOUS
<1>2. InFront(S, 1) = {} /\ InFront(S, m + 1) = S
  <2>1. \A q \in S : ~(q < 1) /\ q < m + 1
    BY <1>1
  <2> QED
    BY <2>1, Zenon DEF InFront
<1>3. IsFiniteSet(1 .. m)
  BY FS_Interval
<1>4. IsFiniteSet(S)
  BY <1>3, FS_Subset
<1>5. InFront(S, r) \in SUBSET S
  BY DEF InFront
<1>6. IsFiniteSet(InFront(S, r)) /\ Cardinality(InFront(S, r)) \in Nat
  BY <1>4, <1>5, FS_Subset, FS_CardinalityType
<1>7. \A q \in S : (q < r + 1 <=> q < r \/ q = r) /\ ~(q = r /\ q < r)
  BY <1>1
<1>8. r \notin S => InFront(S, r + 1) = InFront(S, r)
  BY <1>7, Zenon DEF InFront
<1>9. ASSUME r \in S
      PROVE  Cardinality(InFront(S, r + 1)) = Cardinality(InFront(S, r)) + 1
  <2>1. InFront(S, r + 1) = InFront(S, r) \cup {r} /\ r \notin InFront(S, r)
    BY <1>7, <1>9, Zenon DEF InFront
  <2> QED
    BY <1>6, <2>1, FS_AddElement
<1> QED
  BY <1>2, <1>4, <1>6, <1>8, <1>9

(* There is a row with n of them in front of it, for every n there can be. *)
LEMMA NthExists ==
  ASSUME NEW m \in Nat, NEW S \in SUBSET (1 .. m), NEW n \in Nat, n < Cardinality(S)
  PROVE  \E r \in S : Cardinality(InFront(S, r)) = n
<1> DEFINE c == [r \in Nat |-> Cardinality(InFront(S, r))]
           T == {r \in 1 .. m + 1 : c[r] > n}
<1>1. c \in [Nat -> Nat] /\ c[1] = 0 /\ c[m + 1] = Cardinality(S)
  BY InFrontGrows, FS_EmptySet
<1>2. ASSUME NEW r \in Nat
      PROVE  c[r + 1] = IF r \in S THEN c[r] + 1 ELSE c[r]
  BY InFrontGrows
<1> HIDE DEF c
<1>3. m + 1 \in T /\ T \in SUBSET Nat
  BY <1>1
<1>4. PICK x \in T : \A y \in T : x <= y
  <2> HIDE DEF T
  <2> QED
    BY <1>3, LeastNumber
<1>5. x \in Nat /\ x > 1 /\ c[x] > n
  BY <1>1, <1>4
<1>6. x - 1 \in Nat /\ x - 1 \in 1 .. m + 1 /\ c[x - 1] <= n
  BY <1>1, <1>4, <1>5
<1>7. x = (x - 1) + 1
  BY <1>5
<1>8. x - 1 \in S /\ c[x - 1] = n
  BY <1>1, <1>2, <1>5, <1>6, <1>7
<1> QED
  BY <1>6, <1>8 DEF c

(* Swift is the tests of a folder, each once. *)
LEMMA SwiftTests ==
  ASSUME NEW t \in 1 .. 3
  PROVE  /\ Swift(t) \in Seq(Tests) /\ Len(Swift(t)) <= MAX_ROWS
         /\ \A n \in 1 .. Len(Swift(t)) :
              /\ find_nth_swift(t, n - 1) \in SwiftRows(t)
              /\ Cardinality(InFront(SwiftRows(t), find_nth_swift(t, n - 1))) = n - 1
              /\ Swift(t)[n] = Folder[t][find_nth_swift(t, n - 1)]
<1> DEFINE c == Cardinality(SwiftRows(t))
<1>1. c \in Nat /\ c <= MAX_ROWS /\ SwiftRows(t) \subseteq 1 .. MAX_ROWS /\ MAX_ROWS \in Nat
  BY RowsBounded, Folders
<1>2. ASSUME NEW n \in 1 .. c
      PROVE  /\ find_nth_swift(t, n - 1) \in SwiftRows(t)
             /\ Cardinality(InFront(SwiftRows(t), find_nth_swift(t, n - 1))) = n - 1
  <2>1. n - 1 \in Nat /\ n - 1 < c
    BY <1>1
  <2>2. \E r \in SwiftRows(t) : Cardinality(InFront(SwiftRows(t), r)) = n - 1
    BY <1>1, <2>1, NthExists
  <2> QED
    BY <2>2 DEF find_nth_swift, InFront
<1>3. \A n \in 1 .. c : Folder[t][find_nth_swift(t, n - 1)] \in Tests
  BY <1>2, RowsBounded
<1>4. Swift(t) = [n \in 1 .. c |-> Folder[t][find_nth_swift(t, n - 1)]]
  BY DEF Swift
<1> HIDE DEF c
<1>5. Swift(t) \in Seq(Tests) /\ Len(Swift(t)) = c
  BY <1>1, <1>3, <1>4
<1> QED
  BY <1>1, <1>2, <1>4, <1>5

LEMMA SwiftOnce ==
  ASSUME NEW t \in 1 .. 3, NEW u \in 1 .. 3,
         NEW i \in 1 .. Len(Swift(t)), NEW j \in 1 .. Len(Swift(u)),
         Swift(t)[i] = Swift(u)[j]
  PROVE  t = u /\ i = j
<1> DEFINE r == find_nth_swift(t, i - 1)
           q == find_nth_swift(u, j - 1)
<1>1. r \in DOMAIN Folder[t] /\ q \in DOMAIN Folder[u] /\ r \in SwiftRows(t)
  BY SwiftTests, RowsBounded
<1>2. Folder[t][r] = Folder[u][q] /\ Folder[t][r] \in Tests
  BY <1>1, SwiftTests, RowsBounded
<1>3. Folder[t][r] # Other
  BY <1>2, Folders DEF Programs
<1>4. t = u /\ r = q
  BY <1>1, <1>2, <1>3, OnceOnDisk
<1>5. i - 1 = j - 1
  BY <1>4, SwiftTests
<1>6. i \in Int /\ j \in Int
  OBVIOUS
<1> QED
  BY <1>4, <1>5, <1>6

-----------------------------------------------------------------------------
(* The plan: the chosen tiers' tests one after another, each once, and a   *)
(* cursor that points at one of them.                                      *)
LEMMA ThreeParts ==
  ASSUME NEW S, NEW a \in Seq(S), NEW b \in Seq(S), NEW c \in Seq(S),
         NEW s, s = a \o b \o c
  PROVE  /\ s \in Seq(S) /\ Len(s) = Len(a) + Len(b) + Len(c)
         /\ \A i \in 1 .. Len(a) : s[i] = a[i]
         /\ \A i \in 1 .. Len(b) : s[Len(a) + i] = b[i]
         /\ \A i \in 1 .. Len(c) : s[Len(a) + Len(b) + i] = c[i]
<1>1. /\ a \o b \in Seq(S) /\ Len(a \o b) = Len(a) + Len(b)
      /\ \A i \in 1 .. Len(a) : (a \o b)[i] = a[i]
      /\ \A i \in 1 .. Len(b) : (a \o b)[Len(a) + i] = b[i]
  OBVIOUS
<1> DEFINE d == a \o b
<1> HIDE DEF d
<1>2. d \in Seq(S) /\ Len(d) \in Nat /\ Len(a) \in Nat /\ Len(b) \in Nat
  BY <1>1 DEF d
<1>3. /\ d \o c \in Seq(S) /\ Len(d \o c) = Len(d) + Len(c)
      /\ \A i \in 1 .. Len(d) : (d \o c)[i] = d[i]
      /\ \A i \in 1 .. Len(c) : (d \o c)[Len(d) + i] = c[i]
  BY <1>2
<1>4. \A i \in 1 .. Len(a) : i \in 1 .. Len(d)
  BY <1>1, <1>2 DEF d
<1>5. \A i \in 1 .. Len(b) : Len(a) + i \in 1 .. Len(d)
  BY <1>1, <1>2 DEF d
<1> QED
  BY <1>1, <1>3, <1>4, <1>5 DEF d

LEMMA TiersOfDisk ==
  ASSUME boot_disk \in {"repl", "extras", "compiler"}
  PROVE  /\ Tiers \in SUBSET (1 .. 3) /\ 1 \in Tiers
         /\ \A t, u \in 1 .. 3 : t \notin Tiers /\ t <= u => u \notin Tiers
<1>1. CASE boot_disk = "repl"
  BY <1>1 DEF Tiers
<1>2. CASE boot_disk = "extras"
  BY <1>2 DEF Tiers
<1>3. CASE boot_disk = "compiler"
  BY <1>3 DEF Tiers
<1> QED
  BY <1>1, <1>2, <1>3

LEMMA PartTests ==
  ASSUME NEW sel, NEW t \in 1 .. 3
  PROVE  /\ Part(sel, t) \in Seq(Tests)
         /\ Len(Part(sel, t)) \in Nat /\ Len(Part(sel, t)) <= MAX_ROWS
         /\ \A i \in 1 .. Len(Part(sel, t)) :
              i \in 1 .. Len(Swift(t)) /\ Part(sel, t)[i] = Swift(t)[i]
<1>1. CASE t \in Tiers \cap sel
  BY <1>1, SwiftTests DEF Part
<1>2. CASE t \notin Tiers \cap sel
  <2>1. Part(sel, t) = << >> /\ MAX_ROWS \in Nat
    BY <1>2, Folders DEF Part
  <2> QED
    BY <2>1
<1> QED
  BY <1>1, <1>2

LEMMA PlanOfParts ==
  ASSUME NEW sel
  PROVE  /\ Selected(sel) \in Seq(Tests) /\ Len(Selected(sel)) <= 3 * MAX_ROWS
         /\ \A t \in 1 .. 3 :
              /\ Base(sel, t) \in Nat /\ Base(sel, t + 1) \in Nat
              /\ Base(sel, t + 1) = Base(sel, t) + Len(Part(sel, t))
              /\ Base(sel, t + 1) <= Len(Selected(sel))
              /\ \A i \in 1 .. Len(Part(sel, t)) :
                   Selected(sel)[Base(sel, t) + i] = Part(sel, t)[i]
         /\ Base(sel, 1) = 0 /\ Base(sel, 4) = Len(Selected(sel))
<1> DEFINE a == Part(sel, 1)
           b == Part(sel, 2)
           c == Part(sel, 3)
           s == Selected(sel)
<1>1. a \in Seq(Tests) /\ b \in Seq(Tests) /\ c \in Seq(Tests)
  BY PartTests
<1>2. /\ Len(a) \in Nat /\ Len(b) \in Nat /\ Len(c) \in Nat /\ MAX_ROWS \in Nat
      /\ Len(a) <= MAX_ROWS /\ Len(b) <= MAX_ROWS /\ Len(c) <= MAX_ROWS
  BY PartTests, Folders
<1>0. s = a \o b \o c
  BY DEF Selected
<1> HIDE DEF a, b, c, s
<1>3. /\ s \in Seq(Tests) /\ Len(s) = Len(a) + Len(b) + Len(c)
      /\ \A i \in 1 .. Len(a) : s[i] = a[i]
      /\ \A i \in 1 .. Len(b) : s[Len(a) + i] = b[i]
      /\ \A i \in 1 .. Len(c) : s[Len(a) + Len(b) + i] = c[i]
  BY <1>0, <1>1, ThreeParts
<1>4. /\ Base(sel, 1) = 0 /\ Base(sel, 2) = Len(a) /\ Base(sel, 3) = Len(a) + Len(b)
      /\ Base(sel, 4) = Len(a) + Len(b) + Len(c)
  BY <1>2 DEF Base, a, b, c
<1>5. ASSUME NEW t \in 1 .. 3
      PROVE  /\ Base(sel, t) \in Nat /\ Base(sel, t + 1) \in Nat
             /\ Base(sel, t + 1) = Base(sel, t) + Len(Part(sel, t))
             /\ Base(sel, t + 1) <= Len(s)
             /\ \A i \in 1 .. Len(Part(sel, t)) : s[Base(sel, t) + i] = Part(sel, t)[i]
  <2>1. CASE t = 1
    <3>1. t + 1 = 2 /\ Part(sel, t) = a
      BY <2>1 DEF a
    <3>2. \A i \in 1 .. Len(a) : s[Base(sel, 1) + i] = a[i]
      BY <1>2, <1>3, <1>4
    <3>3. /\ Base(sel, 1) \in Nat /\ Base(sel, 2) \in Nat
          /\ Base(sel, 2) = Base(sel, 1) + Len(a) /\ Base(sel, 2) <= Len(s)
      BY <1>2, <1>3, <1>4
    <3> QED
      BY <2>1, <3>1, <3>2, <3>3
  <2>2. CASE t = 2
    <3>1. t + 1 = 3 /\ Part(sel, t) = b
      BY <2>2 DEF b
    <3>2. \A i \in 1 .. Len(b) : s[Base(sel, 2) + i] = b[i]
      BY <1>2, <1>3, <1>4
    <3>3. /\ Base(sel, 2) \in Nat /\ Base(sel, 3) \in Nat
          /\ Base(sel, 3) = Base(sel, 2) + Len(b) /\ Base(sel, 3) <= Len(s)
      BY <1>2, <1>3, <1>4
    <3> QED
      BY <2>2, <3>1, <3>2, <3>3
  <2>3. CASE t = 3
    <3>1. t + 1 = 4 /\ Part(sel, t) = c
      BY <2>3 DEF c
    <3>2. \A i \in 1 .. Len(c) : s[Base(sel, 3) + i] = c[i]
      BY <1>2, <1>3, <1>4
    <3>3. /\ Base(sel, 3) \in Nat /\ Base(sel, 4) \in Nat
          /\ Base(sel, 4) = Base(sel, 3) + Len(c) /\ Base(sel, 4) <= Len(s)
      BY <1>2, <1>3, <1>4
    <3> QED
      BY <2>3, <3>1, <3>2, <3>3
  <2> QED
    BY <2>1, <2>2, <2>3
<1> QED
  BY <1>2, <1>3, <1>4, <1>5 DEF s

(* A test is in the plan once: its place there says which it is. *)
LEMMA PlanOnce ==
  ASSUME NEW sel, NEW p \in 1 .. Len(Selected(sel)), NEW q \in 1 .. Len(Selected(sel)),
         Selected(sel)[p] = Selected(sel)[q]
  PROVE  p = q
<1> DEFINE len(t) == Len(Part(sel, t))
<1>1. \A t \in 1 .. 3 : len(t) \in Nat /\ Base(sel, t) \in Nat
  BY PartTests, PlanOfParts
<1>2. /\ Base(sel, 1) = 0 /\ Base(sel, 2) = len(1) /\ Base(sel, 3) = len(1) + len(2)
      /\ Len(Selected(sel)) = len(1) + len(2) + len(3)
  <2>1. /\ Base(sel, 1) = 0 /\ Base(sel, 4) = Len(Selected(sel))
        /\ Base(sel, 1 + 1) = Base(sel, 1) + len(1)
        /\ Base(sel, 2 + 1) = Base(sel, 2) + len(2)
        /\ Base(sel, 3 + 1) = Base(sel, 3) + len(3)
    BY PlanOfParts
  <2>2. 1 + 1 = 2 /\ 2 + 1 = 3 /\ 3 + 1 = 4
    OBVIOUS
  <2> HIDE DEF len
  <2> QED
    BY <1>1, <2>1, <2>2
<1>3. ASSUME NEW k \in 1 .. Len(Selected(sel))
      PROVE  \E t \in 1 .. 3 : \E i \in 1 .. len(t) : k = Base(sel, t) + i
  <2> HIDE DEF len
  <2>1. k \in Int /\ len(1) \in Nat /\ len(2) \in Nat /\ len(3) \in Nat
    BY <1>1, <1>2
  <2>2. CASE k <= len(1)
    <3>1. k \in 1 .. len(1) /\ k = Base(sel, 1) + k
      BY <1>2, <2>1, <2>2
    <3> QED
      BY <3>1
  <2>3. CASE len(1) < k /\ k <= len(1) + len(2)
    <3>1. k - len(1) \in 1 .. len(2) /\ k = Base(sel, 2) + (k - len(1))
      BY <1>2, <2>1, <2>3
    <3> QED
      BY <3>1
  <2>4. CASE len(1) + len(2) < k
    <3>1. k - (len(1) + len(2)) \in 1 .. len(3) /\ k = Base(sel, 3) + (k - (len(1) + len(2)))
      BY <1>2, <2>1, <2>4
    <3> QED
      BY <3>1
  <2> QED
    BY <2>1, <2>2, <2>3, <2>4
<1>4. PICK t \in 1 .. 3 : \E i \in 1 .. len(t) : p = Base(sel, t) + i
  BY <1>3
<1>5. PICK i \in 1 .. len(t) : p = Base(sel, t) + i
  BY <1>4
<1>6. PICK u \in 1 .. 3 : \E j \in 1 .. len(u) : q = Base(sel, u) + j
  BY <1>3
<1>7. PICK j \in 1 .. len(u) : q = Base(sel, u) + j
  BY <1>6
<1>8. Selected(sel)[p] = Part(sel, t)[i] /\ Selected(sel)[q] = Part(sel, u)[j]
  BY <1>5, <1>7, PlanOfParts
<1>9. /\ i \in 1 .. Len(Swift(t)) /\ j \in 1 .. Len(Swift(u))
      /\ Swift(t)[i] = Swift(u)[j]
  BY <1>5, <1>7, <1>8, PartTests
<1>10. t = u /\ i = j
  BY <1>9, SwiftOnce
<1> QED
  BY <1>5, <1>7, <1>10

LEMMA PositionInPlan ==
  ASSUME NEW sel, sweep.plan = Selected(sel), NEW p \in 1 .. Len(sweep.plan)
  PROVE  Position(sweep.plan[p]) = p /\ sweep.plan[p] \in Range(sweep.plan)
<1>1. Selected(sel) \in Seq(Tests)
  BY PlanOfParts
<1>2. DOMAIN sweep.plan = 1 .. Len(sweep.plan)
  BY <1>1
<1>3. \E i \in DOMAIN sweep.plan : sweep.plan[i] = sweep.plan[p]
  BY <1>2
<1> DEFINE q == Position(sweep.plan[p])
<1>4. q \in 1 .. Len(sweep.plan) /\ sweep.plan[q] = sweep.plan[p]
  BY <1>2, <1>3 DEF Position
<1> HIDE DEF q
<1>5. q = p
  BY <1>4, PlanOnce
<1> QED
  BY <1>2, <1>5 DEF q, Range

LEMMA OneTier ==
  ASSUME NEW b \in Nat, NEW l \in Nat, NEW o \in Nat \ {0}, NEW q, q = b + o - 1, o - 1 <= l
  PROVE  /\ q \in Nat /\ q <= b + l /\ q + 1 = b + o
         /\ o > l => b + l = q
         /\ o <= l => q + 1 <= b + l /\ o \in 1 .. l
OBVIOUS

(* Where a cursor stands, and where run_next takes it. *)
LEMMA CursorPlace ==
  ASSUME boot_disk \in {"repl", "extras", "compiler"}, NEW s, Placed(s)
  PROVE  /\ s.tier \in 1 .. 4 /\ s.ord \in Nat \ {0} /\ s.count \in Nat /\ s.total \in Nat
         /\ Len(Selected(s.selmask)) \in Nat /\ Len(Selected(s.selmask)) <= 3 * MAX_ROWS
         /\ Passed(s) \in Nat /\ Passed(s) <= Len(Selected(s.selmask))
         /\ s.tier \notin Tiers => Passed(s) = Len(Selected(s.selmask))
         /\ s.tier \in Tiers =>
              /\ s.tier + 1 \in 1 .. 4 /\ Base(s.selmask, s.tier + 1) \in Nat
              /\ Passed(s) <= Base(s.selmask, s.tier + 1)
              /\ Base(s.selmask, s.tier + 1) <= Len(Selected(s.selmask))
         /\ s.tier \in Tiers /\ (s.tier \in s.selmask => s.ord > Len(Swift(s.tier))) =>
              Base(s.selmask, s.tier + 1) = Passed(s)
         /\ s.tier \in Tiers /\ s.tier \in s.selmask /\ s.ord <= Len(Swift(s.tier)) =>
              /\ s.ord \in 1 .. MAX_ROWS /\ s.ord <= Len(Part(s.selmask, s.tier))
              /\ Passed(s) + 1 <= Len(Selected(s.selmask))
              /\ Selected(s.selmask)[Passed(s) + 1] = Swift(s.tier)[s.ord]
<1> DEFINE sel == s.selmask
           t == s.tier
           o == s.ord
           n == Len(Selected(sel))
<1>1. /\ t \in 1 .. 4 /\ o \in 1 .. MAX_ROWS + 1 /\ s.count \in Nat /\ s.total \in Nat
      /\ MAX_ROWS \in Nat
  BY Folders DEF Placed, Globals
<1>2. /\ n \in Nat /\ n <= 3 * MAX_ROWS /\ Base(sel, 4) = n
      /\ o - 1 <= IF t \in Tiers THEN Len(Part(sel, t)) ELSE 0
      /\ Passed(s) = Base(sel, t) + o - 1
  BY <1>1, PlanOfParts DEF Placed, Passed
<1>3. Tiers \in SUBSET (1 .. 3) /\ \A a, b \in 1 .. 3 : a \notin Tiers /\ a <= b => b \notin Tiers
  BY TiersOfDisk
<1> HIDE DEF sel, t, o, n
<1>4. CASE t \in Tiers
  <2>1. t \in 1 .. 3 /\ t + 1 \in 1 .. 4
    BY <1>3, <1>4
  <2>2. /\ Base(sel, t) \in Nat /\ Len(Part(sel, t)) \in Nat /\ Base(sel, t + 1) \in Nat
        /\ Base(sel, t + 1) = Base(sel, t) + Len(Part(sel, t)) /\ Base(sel, t + 1) <= n
        /\ Len(Part(sel, t)) <= MAX_ROWS
    BY <1>1, <2>1, PlanOfParts, PartTests DEF n
  <2>3. Part(sel, t) = IF t \in sel THEN Swift(t) ELSE << >>
    BY <1>4 DEF Part
  <2>4. /\ Passed(s) \in Nat /\ Passed(s) <= Base(sel, t + 1) /\ Passed(s) + 1 = Base(sel, t) + o
        /\ o > Len(Part(sel, t)) => Base(sel, t + 1) = Passed(s)
        /\ o <= Len(Part(sel, t)) => Passed(s) + 1 <= Base(sel, t + 1)
    <3>1. o \in Nat \ {0} /\ o - 1 <= Len(Part(sel, t))
      BY <1>1, <1>2, <1>4
    <3> QED
      BY ONLY <1>2, <2>2, <3>1, OneTier
  <2>5. ASSUME t \in sel => o > Len(Swift(t))
        PROVE  Base(sel, t + 1) = Passed(s)
    <3>1. CASE t \in sel
      BY <2>3, <2>4, <2>5, <3>1
    <3>2. CASE t \notin sel
      <4>1. Len(Part(sel, t)) = 0
        BY <2>3, <3>2
      <4>2. o > 0
        BY <1>1
      <4> QED
        BY <2>4, <4>1, <4>2
    <3> QED
      BY <3>1, <3>2
  <2>6. ASSUME t \in sel, o <= Len(Swift(t))
        PROVE  /\ o \in 1 .. MAX_ROWS /\ o <= Len(Part(sel, t)) /\ Passed(s) + 1 <= n
               /\ Selected(sel)[Passed(s) + 1] = Swift(t)[o]
    <3>1. o <= Len(Part(sel, t)) /\ o \in 1 .. MAX_ROWS /\ o \in 1 .. Len(Part(sel, t))
      <4>1. Part(sel, t) = Swift(t)
        BY <2>3, <2>6
      <4>2. o <= Len(Part(sel, t))
        BY <2>6, <4>1
      <4> QED
        BY ONLY <1>1, <2>2, <4>2, MAX_ROWS \in Nat
    <3>2. Selected(sel)[Base(sel, t) + o] = Swift(t)[o]
      BY <1>1, <2>1, <2>3, <2>6, <3>1, PlanOfParts, ZenonT(60)
    <3>3. Passed(s) + 1 <= n /\ Selected(sel)[Passed(s) + 1] = Swift(t)[o]
      <4>1. Passed(s) + 1 <= Base(sel, t + 1) /\ Base(sel, t + 1) <= n
        BY <2>2, <2>4, <3>1
      <4> QED
        BY <1>2, <2>2, <2>4, <3>2, <4>1
    <3> QED
      BY <3>1, <3>3
  <2>7. Passed(s) <= n
    BY ONLY <1>2, <2>2, <2>4
  <2> QED
    <3>1. /\ t \in 1 .. 4 /\ o \in Nat \ {0} /\ s.count \in Nat /\ s.total \in Nat
          /\ n \in Nat /\ n <= 3 * MAX_ROWS
      BY <1>1, <1>2
    <3> QED
      BY ONLY <1>4, <2>1, <2>2, <2>4, <2>5, <2>6, <2>7, <3>1, ZenonT(60) DEF t, sel, o, n
<1>5. CASE t \notin Tiers
  <2>1. o = 1
    BY <1>1, <1>2, <1>5
  <2>2. Base(sel, t) = n
    <3>1. CASE t = 4
      BY <1>2, <3>1
    <3>2. CASE t \in 1 .. 3
      <4>1. \A u \in 1 .. 3 : t <= u => Len(Part(sel, u)) = 0
        BY <1>3, <1>5, <3>2 DEF Part
      <4>2. /\ Base(sel, 4) = Base(sel, 3) + Len(Part(sel, 3)) /\ Base(sel, 3) \in Nat
            /\ Base(sel, 3) = Base(sel, 2) + Len(Part(sel, 2)) /\ Base(sel, 2) \in Nat
            /\ Base(sel, 2) = Base(sel, 1) + Len(Part(sel, 1)) /\ Base(sel, 1) \in Nat
        <5>1. 1 + 1 = 2 /\ 2 + 1 = 3 /\ 3 + 1 = 4 /\ 1 \in 1 .. 3 /\ 2 \in 1 .. 3 /\ 3 \in 1 .. 3
          OBVIOUS
        <5> QED
          BY <5>1, PlanOfParts
      <4>3. CASE t = 1
        BY <1>2, <4>1, <4>2, <4>3
      <4>4. CASE t = 2
        BY <1>2, <4>1, <4>2, <4>4
      <4>5. CASE t = 3
        BY <1>2, <4>1, <4>2, <4>5
      <4> QED
        BY <3>2, <4>3, <4>4, <4>5
    <3> QED
      BY <1>1, <3>1, <3>2
  <2> QED
    BY <1>1, <1>2, <1>5, <2>1, <2>2 DEF t, sel, o, n
<1> QED
  BY <1>4, <1>5


-----------------------------------------------------------------------------
(* What holds of the disk and of the sweep is not disturbed by a step that *)
(* starts no test and no sweep, whether it fails or not.                   *)
Steady ==
  /\ boot_disk' = boot_disk /\ fate' = fate
  /\ sweep' \in Sweeps /\ (sweep'.calm => sweep'.hurt = {})
  /\ sweep'.plan = sweep.plan /\ sweep'.launched = sweep.launched
  /\ sweep'.logged = sweep.logged
  /\ (sweep'.calm => sweep.calm) /\ sweep.hurt \subseteq sweep'.hurt

LEMMA HurtFits ==
  ASSUME NEW s \in Sweeps, NEW kinds \in SUBSET Kinds
  PROVE  /\ Hurt(s, kinds) \in Sweeps /\ ~Hurt(s, kinds).calm
         /\ Hurt(s, kinds).hurt = s.hurt \cup kinds
         /\ Hurt(s, kinds).plan = s.plan /\ Hurt(s, kinds).launched = s.launched
         /\ Hurt(s, kinds).logged = s.logged /\ Hurt(s, kinds).named = s.named
<1>1. s.hurt \cup kinds \in SUBSET Kinds
  BY DEF Sweeps
<1> QED
  BY <1>1 DEF Hurt, Sweeps

LEMMA SteadyCases ==
  ASSUME PlaceInv, boot_disk' = boot_disk, fate' = fate,
         sweep' = sweep \/ \E kinds \in SUBSET Kinds : Fault(kinds)
  PROVE  /\ Steady /\ sweep'.named = sweep.named
         /\ sweep'.calm => sweep' = sweep
<1>1. sweep \in Sweeps /\ (sweep.calm => sweep.hurt = {})
  BY DEF PlaceInv
<1>2. CASE sweep' = sweep
  BY <1>1, <1>2 DEF Steady
<1>3. ASSUME NEW kinds \in SUBSET Kinds, Fault(kinds)
      PROVE  Steady /\ sweep'.named = sweep.named /\ ~sweep'.calm
  <2>1. sweep' = Hurt(sweep, kinds)
    BY <1>3 DEF Fault
  <2>2. /\ sweep' \in Sweeps /\ ~sweep'.calm /\ sweep'.hurt = sweep.hurt \cup kinds
        /\ sweep'.plan = sweep.plan /\ sweep'.launched = sweep.launched
        /\ sweep'.logged = sweep.logged /\ sweep'.named = sweep.named
    BY <1>1, <2>1, HurtFits
  <2> QED
    BY <2>2 DEF Steady
<1> QED
  BY <1>2, <1>3

(* Of the kinds of failure: the empty set of them is one, too. *)
LEMMA KindSets == {} \in SUBSET Kinds /\ {"note"} \in SUBSET Kinds /\ {"page"} \in SUBSET Kinds
                  /\ {"log"} \in SUBSET Kinds /\ {"unread"} \in SUBSET Kinds
BY DEF Kinds

LEMMA SamePlan ==
  ASSUME boot_disk' = boot_disk, fate' = fate, sweep'.plan = sweep.plan, Whole' => Whole
  PROVE  /\ \A s : (Placed(s)' <=> Placed(s)) /\ (Cursor(s) => Cursor(s)')
         /\ \A s : Passed(s)' = Passed(s)
         /\ \A x : (Readable(x)' <=> Readable(x)) /\ Position(x)' = Position(x)
         /\ \A x : Selected(x)' = Selected(x)
         /\ Tiers' = Tiers /\ Globals' = Globals /\ familyb' = familyb
<1>1. Tiers' = Tiers /\ Globals' = Globals /\ familyb' = familyb
  BY DEF Tiers, Globals, familyb
<1>2. \A x : Selected(x)' = Selected(x)
  BY DEF Selected, Part, Tiers
<1>3. \A s : (Placed(s)' <=> Placed(s)) /\ Passed(s)' = Passed(s)
  BY DEF Placed, Passed, Base, Part, Tiers, Globals
<1>4. \A s : Cursor(s) => Cursor(s)'
  BY <1>2, <1>3, Zenon DEF Cursor
<1>5. \A x : Readable(x)' <=> Readable(x)
  BY DEF Readable, familyb
<1>6. \A x : Position(x)' = Position(x)
  BY DEF Position
<1> QED
  BY <1>1, <1>2, <1>3, <1>4, <1>5, <1>6

LEMMA PlanKeeps ==
  ASSUME boot_disk' = boot_disk, fate' = fate, sweep'.plan = sweep.plan,
         sweep'.launched = sweep.launched, sweep.hurt \subseteq sweep'.hurt
  PROVE  /\ (Whole' => Whole) /\ (Kept' => Kept)
         /\ \A s : (Placed(s)' <=> Placed(s)) /\ (Cursor(s) => Cursor(s)')
         /\ \A s : Passed(s)' = Passed(s)
         /\ \A k : (Within(k)' <=> Within(k)) /\ (Complete(k)' <=> Complete(k))
         /\ \A s, k : Tells(s, k)' <=> Tells(s, k)
         /\ \A x : (Readable(x)' <=> Readable(x)) /\ Position(x)' = Position(x)
         /\ \A x : Selected(x)' = Selected(x)
         /\ InTurn => InTurn'
         /\ Tiers' = Tiers /\ Globals' = Globals /\ familyb' = familyb
<1>1. (Whole' => Whole) /\ (Kept' => Kept)
  BY DEF Whole, Kept
<1>2. /\ \A x : Readable(x)' <=> Readable(x)
      /\ \A x : Position(x)' = Position(x)
      /\ \A s : Passed(s)' = Passed(s)
  BY <1>1, SamePlan, Zenon
<1>3. \A k : (Within(k)' <=> Within(k)) /\ (Complete(k)' <=> Complete(k))
  BY <1>2 DEF Within, Complete
<1>4. \A s, k : Tells(s, k)' <=> Tells(s, k)
  BY <1>2, <1>3, Zenon DEF Tells
<1>5. InTurn => InTurn'
  BY <1>1, <1>2 DEF InTurn
<1> QED
  BY <1>1, <1>3, <1>4, <1>5, SamePlan, Zenon

(* The letters' meaning lasts as long as the log and the sweep's record of *)
(* it.                                                                     *)
LEMMA LogKeeps ==
  ASSUME LogInv, Steady, log' = log
  PROVE  LogInv'
<1>1. familyb' <=> familyb
  BY DEF Steady, familyb
<1>2. "log" \notin sweep'.hurt => "log" \notin sweep.hurt
  BY DEF Steady
<1> QED
  BY <1>1, <1>2 DEF LogInv, Steady

LEMMA CalmIsWhole ==
  ASSUME PlaceInv, sweep.calm
  PROVE  Whole /\ Kept
BY DEF PlaceInv, Whole, Kept

(* A note the step leaves alone says still what is so. *)
LEMMA NoteKeeps ==
  ASSUME NoteInv, Steady, note' = note,
         at' \in Away /\ sweep'.calm => at \in Away \/ note \in {None, Empty}
  PROVE  NoteInv'
<1>1. /\ (Kept' => Kept) /\ (sweep'.calm => sweep.calm)
      /\ \A s : (Cursor(s) => Cursor(s)') /\ Passed(s)' = Passed(s)
      /\ \A k : Within(k)' <=> Within(k)
      /\ \A s, k : Tells(s, k)' <=> Tells(s, k)
  BY PlanKeeps, Zenon DEF Steady
<1> SUFFICES ASSUME note' \notin {None, Empty}
             PROVE  /\ Cursor(note)' /\ (Kept' => Within(Passed(note))')
                    /\ at' \in Away /\ sweep'.calm => Tells(note, 0)'
  BY Zenon DEF NoteInv
<1>2. /\ Cursor(note) /\ (Kept => Within(Passed(note)))
      /\ at \in Away /\ sweep.calm => Tells(note, 0)
  BY Zenon DEF NoteInv
<1>3. Cursor(note)' /\ Passed(note)' = Passed(note) /\ (Tells(note, 0)' <=> Tells(note, 0))
  BY <1>1, <1>2, Zenon
<1>4. Kept' => Within(Passed(note))'
  BY <1>1, <1>2, <1>3, Zenon
<1> QED
  BY <1>1, <1>2, <1>3, <1>4, Zenon

(* A step by which no sweep is, or comes to be, in TESTRUN's hands. *)
LEMMA OutsideStep ==
  ASSUME IInv, Steady, note' = note, log' = log,
         at' \in Places \ Loop, after' = after,
         ChoiceInv', NotePhase', ProgramInv',
         at' \in Away /\ sweep'.calm => at \in Away \/ note \in {None, Empty}
  PROVE  IInv'
<1>1. /\ PlaceInv /\ LogInv /\ InTurn /\ NoteInv
  BY DEF IInv
<1>2. InTurn'
  BY <1>1, PlanKeeps, Zenon DEF Steady
<1>3. PlaceInv'
  BY <1>1, Zenon DEF PlaceInv, Steady
<1>4. LogInv'
  BY <1>1, LogKeeps
<1>5. NoteInv'
  BY <1>1, NoteKeeps
<1>6. LoopInv' /\ PageInv'
  BY DEF LoopInv, PageInv, Loop, Page
<1> QED
  BY <1>2, <1>3, <1>4, <1>5, <1>6 DEF IInv

LEMMA UnsetFits == Unset \in Globals
<1>1. MAX_ROWS \in Nat
  BY Folders
<1> QED
  BY <1>1 DEF Unset, Globals

LEMMA SteadyTypes ==
  ASSUME Steady
  PROVE  Globals' = Globals /\ familyb' = familyb /\ Tiers' = Tiers
BY DEF Steady, Globals, familyb, Tiers

(* The launcher is started again. *)
LEMMA BootStep ==
  ASSUME IInv, Steady, note' = note, log' = log, after' = after, ToLauncher,
         swb' \subseteq Programs, marker' \in BOOLEAN, familyb \/ (~marker' /\ swb' = {}),
         sweep'.calm => at \in Away \/ note \in {None, Empty}
  PROVE  IInv'
<1>1. /\ PlaceInv /\ ProgramInv /\ familyb' = familyb /\ Globals' = Globals
  BY SteadyTypes, Zenon DEF IInv
<1>2. at' = "boot" /\ program' = None /\ g' = Unset
  BY DEF ToLauncher, chain_bin
<1>3. ChoiceInv'
  BY <1>1, <1>2, UnsetFits DEF ChoiceInv, Unset
<1>4. NotePhase'
  BY <1>2 DEF NotePhase
<1>5. ProgramInv'
  BY <1>1, <1>2, Zenon DEF ProgramInv
<1>6. at' \in Places \ Loop
  BY <1>2 DEF Places, Loop, Page
<1> QED
  BY <1>3, <1>4, <1>5, <1>6, OutsideStep, Zenon

(* A step to a place without a program, the disk's files as they were. *)
LEMMA FilesKept ==
  ASSUME ProgramInv, Steady, UNCHANGED <<program, swb, marker, log>>,
         at' \notin {"compile", "error", "runner", "cleanup", "program"}
  PROVE  ProgramInv'
<1>1. familyb' = familyb
  BY SteadyTypes
<1> QED
  BY <1>1, Zenon DEF ProgramInv

LEMMA LauncherSteps ==
  ASSUME IInv, note_consume \/ chain_testrun \/ RunOwn \/ Interpreter \/ wait_key
  PROVE  IInv'
<1> USE DEF IInv
<1>1. CASE note_consume
  <2>1. /\ at = "boot" /\ at' \in {"menu", "main"} /\ g' = g /\ after' = after
        /\ UNCHANGED <<boot_disk, fate, note, program, swb, marker, log>>
    BY <1>1 DEF note_consume, disk
  <2>2. Steady /\ (sweep'.calm => sweep' = sweep)
    BY <1>1, <2>1, SteadyCases, KindSets DEF note_consume
  <2>3. sweep'.calm /\ at' = "menu" => note = None
    <3>1. CASE UNCHANGED <<sweep, left>> /\ at' = (IF note = None THEN "menu" ELSE "main")
      BY <3>1
    <3>2. CASE Fault({})
      BY <3>2, HurtFits, KindSets DEF Fault, PlaceInv
    <3> QED
      BY <1>1, <3>1, <3>2 DEF note_consume
  <2>4. ChoiceInv'
    BY <2>1, <2>2, SteadyTypes DEF ChoiceInv, Loop, Page
  <2>5. NotePhase'
    BY <2>1, <2>3 DEF NotePhase
  <2>6. ProgramInv'
    BY <2>1, <2>2, FilesKept
  <2> QED
    BY <2>1, <2>2, <2>4, <2>5, <2>6, OutsideStep DEF Places, Loop, Page, Away
<1>2. CASE chain_testrun
  <2>1. /\ at = "menu" /\ at' = "main" /\ g' = g /\ after' = after
        /\ UNCHANGED <<boot_disk, fate, note, program, swb, marker, log, sweep>>
    BY <1>2 DEF chain_testrun, disk
  <2>2. Steady
    BY <2>1, SteadyCases
  <2>3. sweep'.calm => note \in {None, Empty}
    BY <2>1 DEF NotePhase
  <2>4. ChoiceInv'
    BY <2>1, <2>2, SteadyTypes DEF ChoiceInv, Loop, Page
  <2>5. NotePhase'
    BY <2>1 DEF NotePhase
  <2>6. ProgramInv'
    BY <2>1, <2>2, FilesKept
  <2>7. at' \in Places \ Loop
    BY <2>1 DEF Places, Loop, Page
  <2> QED
    BY <2>1, <2>2, <2>3, <2>4, <2>5, <2>6, <2>7, OutsideStep
<1>3. CASE RunOwn
  <2>1. /\ at = "menu" /\ after' = after
        /\ UNCHANGED <<boot_disk, fate, note, swb, marker, log, sweep>>
        /\ at' = (IF familyb THEN "compile" ELSE "program")
        /\ program' = Own /\ g' = Unset
    BY <1>3 DEF RunOwn, disk, chain_bin
  <2>2. Steady
    BY <2>1, SteadyCases
  <2>3. sweep'.calm => note \in {None, Empty}
    BY <2>1 DEF NotePhase
  <2>4. Globals' = Globals /\ familyb' = familyb
    BY <2>2, SteadyTypes
  <2>5. ChoiceInv'
    BY <2>1, <2>4, UnsetFits DEF ChoiceInv, Unset
  <2>6. NotePhase'
    BY <2>1 DEF NotePhase
  <2>7. ProgramInv'
    <3>1. Own \in Programs
      BY DEF Programs
    <3>2. at' \in {"compile", "error", "runner", "cleanup"} => familyb
      BY <2>1
    <3> QED
      BY <2>1, <2>4, <3>1, <3>2, Zenon DEF ProgramInv
  <2>8. at' \in Places \ Loop
    BY <2>1 DEF Places, Loop, Page
  <2> QED
    BY <2>1, <2>2, <2>3, <2>5, <2>6, <2>7, <2>8, OutsideStep
<1>4. CASE Interpreter \/ wait_key
  <2>1. /\ note' = note /\ log' = log /\ after' = after /\ ToLauncher
        /\ UNCHANGED <<boot_disk, fate, swb, marker, sweep>> /\ at \in Away
    BY <1>4 DEF Interpreter, wait_key, disk, Away
  <2>2. Steady
    BY <2>1, SteadyCases
  <2>3. swb' \subseteq Programs /\ marker' \in BOOLEAN /\ (familyb \/ (~marker' /\ swb' = {}))
    BY <2>1, Zenon DEF ProgramInv
  <2> QED
    BY <2>1, <2>2, <2>3, BootStep, Zenon
<1> QED
  BY <1>1, <1>2, <1>3, <1>4

(* TESTRUN takes the sweep up where the note says it is. *)
LEMMA TakeUpNote ==
  ASSUME IInv, test_note_consume, at' = "next"
  PROVE  IInv'
<1>1. /\ PlaceInv /\ ProgramInv /\ LogInv /\ InTurn /\ NoteInv
  BY DEF IInv
<1>2. at = "main" /\ note \notin {None, Empty} /\ g' = note
  BY DEF test_note_consume
<1>3. UNCHANGED <<after, boot_disk, fate, note, log, swb, marker, program, sweep>>
  BY DEF test_note_consume, disk
<1>4. Steady
  BY <1>1, <1>3, SteadyCases
<1>5. /\ (Kept' => Kept)
      /\ \A s : (Cursor(s) => Cursor(s)') /\ Passed(s)' = Passed(s)
      /\ \A k : (Within(k)' <=> Within(k))
      /\ \A s, k : Tells(s, k)' <=> Tells(s, k)
      /\ (InTurn => InTurn')
  BY <1>4, PlanKeeps, Zenon DEF Steady
<1>6. /\ Cursor(note) /\ (Kept => Within(Passed(note)))
      /\ sweep.calm => Tells(note, 0)
  BY <1>1, <1>2 DEF NoteInv, Away
<1>7. Passed(note) \in Nat
  BY <1>1, <1>6, CursorPlace DEF PlaceInv, Cursor
<1>8. PlaceInv'
  BY <1>1, <1>3, <1>4 DEF PlaceInv, Places, Steady
<1>9. LogInv' /\ ProgramInv' /\ NoteInv'
  <2>1. at' \notin {"compile", "error", "runner", "cleanup", "program"} /\ at' \notin Away
    BY DEF Away
  <2> QED
    BY <1>1, <1>3, <1>4, <2>1, LogKeeps, FilesKept, NoteKeeps
<1>10. ChoiceInv' /\ NotePhase' /\ PageInv'
  BY DEF ChoiceInv, NotePhase, PageInv, Loop
<1>11. LoopInv'
  <2>1. ~Pending' /\ at' \notin Page
    BY DEF Pending, Page
  <2>2. Due' = 0
    BY <2>1 DEF Due
  <2>3. Passed(g)' = Passed(note)
    BY <1>2, <1>5
  <2>4. Due' <= Passed(g)' /\ Passed(g)' - Due' = Passed(note)
    BY <1>7, <2>2, <2>3
  <2>5. Cursor(g)' /\ (Kept' => Within(Passed(g) - Due)')
    BY <1>2, <1>5, <1>6, <2>4
  <2>6. sweep'.calm => Tells(g, Due)'
    BY <1>2, <1>3, <1>5, <1>6, <2>2
  <2> QED
    BY <2>1, <2>4, <2>5, <2>6 DEF LoopInv
<1> QED
  BY <1>1, <1>5, <1>8, <1>9, <1>10, <1>11 DEF IInv

(* However short a folder is read: what is found fits the counter. *)
LEMMA FoundFits ==
  ASSUME NEW sel, NEW found \in Shortened(sel)
  PROVE  /\ found \in Seq(Tests) /\ Len(found) \in 0 .. 3 * MAX_ROWS
<1>0. PICK t \in 1 .. 3 : \E n \in 0 .. Len(Part(sel, t)) : found = CutShort(sel, t, n)
  BY DEF Shortened
<1>1. PICK n \in 0 .. Len(Part(sel, t)) : found = CutShort(sel, t, n)
  BY <1>0
<1> DEFINE Found(u) == IF u = t THEN SubSeq(Part(sel, u), 1, n) ELSE Part(sel, u)
<1>2. ASSUME NEW u \in 1 .. 3
      PROVE  Found(u) \in Seq(Tests) /\ Len(Found(u)) \in Nat /\ Len(Found(u)) <= MAX_ROWS
  <2>1. /\ Part(sel, u) \in Seq(Tests) /\ Len(Part(sel, u)) \in Nat
        /\ Len(Part(sel, u)) <= MAX_ROWS /\ MAX_ROWS \in Nat
    BY PartTests, Folders
  <2>2. CASE u = t
    <3>1. PICK m \in Nat : m = Len(Part(sel, u))
      BY <2>1
    <3>2. n \in 0 .. m
      BY <2>2, <3>1
    <3>3. SubSeq(Part(sel, u), 1, n) \in Seq(Tests) /\ Len(SubSeq(Part(sel, u), 1, n)) = n
      <4>1. \A i \in 1 .. n : i \in 1 .. m
        BY <3>2
      <4> QED
        BY <2>1, <3>1, <3>2, <4>1, SubSeqProperties
    <3> QED
      BY <2>1, <2>2, <3>1, <3>2, <3>3
  <2>3. CASE u # t
    BY <2>1, <2>3
  <2> QED
    BY <2>2, <2>3
<1>3. found = Found(1) \o Found(2) \o Found(3)
  BY <1>1 DEF CutShort
<1> HIDE DEF Found
<1>4. /\ 1 \in 1 .. 3 /\ 2 \in 1 .. 3 /\ 3 \in 1 .. 3 /\ MAX_ROWS \in Nat
  BY Folders
<1>5. found \in Seq(Tests) /\ Len(found) = Len(Found(1)) + Len(Found(2)) + Len(Found(3))
  BY <1>2, <1>3, <1>4, ThreeParts
<1> QED
  BY <1>2, <1>4, <1>5

LEMMA ChoiceSteps ==
  ASSUME IInv,
         \/ test_note_consume /\ at' # "next"
         \/ intro_screen \/ selection_screen \/ count_selected \/ NothingToRun \/ LeaveResults
  PROVE  IInv'
<1> USE DEF IInv
<1>1. CASE BackToMenu /\ at \in {"intro", "select", "counted", "results"}
  <2>1. /\ note' = note /\ log' = log /\ after' = after /\ ToLauncher
        /\ UNCHANGED <<boot_disk, fate, swb, marker, sweep>>
    BY <1>1 DEF BackToMenu, disk
  <2>2. Steady
    BY <2>1, SteadyCases
  <2>3. sweep'.calm => note \in {None, Empty}
    BY <1>1, <2>1 DEF NotePhase
  <2>4. swb' \subseteq Programs /\ marker' \in BOOLEAN /\ (familyb \/ (~marker' /\ swb' = {}))
    BY <2>1, Zenon DEF ProgramInv
  <2> QED
    BY <2>1, <2>2, <2>3, <2>4, BootStep, Zenon
<1>2. ASSUME UNCHANGED <<after, boot_disk, fate, disk, marker, program>>, Steady,
             at' \in {"intro", "select", "chosen", "counted"},
             sweep'.calm => note \in {None, Empty},
             g' \in Globals, g'.tier = 1, g'.ord = 1, g'.count = 0,
             at' \in {"chosen", "counted"} => g'.selmask # {}
      PROVE  IInv'
  <2>1. UNCHANGED <<note, log, swb>>
    BY <1>2 DEF disk
  <2>2. Globals' = Globals
    BY <1>2, SteadyTypes
  <2>3. ChoiceInv' /\ NotePhase'
    BY <1>2, <2>1, <2>2 DEF ChoiceInv, NotePhase
  <2>4. ProgramInv'
    BY <1>2, <2>1, FilesKept
  <2>5. at' \in Places \ Loop /\ at' \notin Away
    BY <1>2 DEF Places, Loop, Page, Away
  <2> QED
    BY <1>2, <2>1, <2>3, <2>4, <2>5, OutsideStep
<1>3. /\ at \notin Loop => g \in Globals /\ g.tier = 1 /\ g.ord = 1 /\ g.count = 0
      /\ at \in {"chosen", "counted"} => g.selmask # {}
  BY DEF ChoiceInv
<1>4. sweep.calm /\ at \in {"intro", "select", "chosen", "counted"} => note \in {None, Empty}
  BY DEF NotePhase
<1>5. CASE test_note_consume /\ at' # "next"
  <2>1. /\ at' = "intro" /\ g' = Unset
        /\ UNCHANGED <<after, boot_disk, fate, disk, marker, program>>
        /\ \/ note \in {None, Empty} /\ sweep' = sweep
           \/ Fault({})
    BY <1>5 DEF test_note_consume
  <2>2. Steady
    BY <2>1, SteadyCases, KindSets
  <2>3. sweep'.calm => note \in {None, Empty}
    BY <2>1, HurtFits, KindSets DEF Fault, PlaceInv
  <2> QED
    BY <1>2, <2>1, <2>2, <2>3, UnsetFits DEF Unset
<1>6. CASE intro_screen
  <2>1. CASE BackToMenu
    BY <1>1, <1>6, <2>1 DEF intro_screen
  <2>2. CASE g' = [g EXCEPT !.selmask = Tiers] /\ ~BackToMenu
    <3>1. at = "intro" /\ at' \in {"select", "chosen"}
      BY <1>6, <2>2 DEF intro_screen
    <3>2. g' \in Globals /\ g'.tier = 1 /\ g'.ord = 1 /\ g'.count = 0 /\ g'.selmask # {}
      <4>1. Tiers # {}
        BY TiersOfDisk DEF PlaceInv
      <4> QED
        BY <1>3, <2>2, <3>1, <4>1 DEF Globals, Loop, Page
    <3>3. UNCHANGED <<after, boot_disk, fate, disk, marker, program, sweep>>
      BY <1>6, <2>2 DEF intro_screen
    <3>4. Steady
      BY <3>3, SteadyCases
    <3> QED
      BY <1>2, <1>4, <3>1, <3>2, <3>3, <3>4
  <2> QED
    BY <1>6, <2>1, <2>2, Zenon DEF intro_screen
<1>7. CASE selection_screen
  <2>1. CASE BackToMenu
    BY <1>1, <1>7, <2>1 DEF selection_screen
  <2>2. CASE UNCHANGED <<after, boot_disk, fate, disk, marker, g, program, sweep, left>>
             /\ at' = "chosen" /\ ~BackToMenu
    <3>1. at = "select" /\ g.selmask # {}
      BY <1>7, <2>2 DEF selection_screen
    <3>2. g' \in Globals /\ g'.tier = 1 /\ g'.ord = 1 /\ g'.count = 0 /\ g'.selmask # {}
      BY <1>3, <2>2, <3>1 DEF Loop, Page
    <3>3. Steady
      BY <2>2, SteadyCases
    <3> QED
      BY <1>2, <1>4, <2>2, <3>1, <3>2, <3>3
  <2>3. ASSUME NEW t \in Tiers,
               g' = [g EXCEPT !.selmask = IF t \in @ THEN @ \ {t} ELSE @ \cup {t}],
               UNCHANGED <<at, after, boot_disk, fate, disk, marker, program, sweep, left>>
        PROVE  IInv'
    <3>1. at = "select" /\ at' = "select"
      BY <1>7, <2>3 DEF selection_screen
    <3>2. g' \in Globals /\ g'.tier = 1 /\ g'.ord = 1 /\ g'.count = 0
      BY <1>3, <2>3, <3>1 DEF Globals, Loop, Page
    <3>3. Steady
      BY <2>3, SteadyCases
    <3> QED
      BY <1>2, <1>4, <2>3, <3>1, <3>2, <3>3
  <2> QED
    BY <1>7, <2>1, <2>2, <2>3, Zenon DEF selection_screen
<1>8. CASE count_selected
  <2>1. /\ at = "chosen" /\ at' = "counted"
        /\ UNCHANGED <<after, boot_disk, fate, disk, marker, program>>
        /\ sweep' = sweep \/ Fault({})
    BY <1>8 DEF count_selected
  <2>2. Steady
    BY <2>1, SteadyCases, KindSets
  <2>3. PICK m \in 0 .. 3 * MAX_ROWS : g' = [g EXCEPT !.total = m]
    <3>1. CASE g' = [g EXCEPT !.total = Len(Selected(g.selmask))]
      <4>1. /\ Len(Selected(g.selmask)) \in Nat /\ MAX_ROWS \in Nat
            /\ Len(Selected(g.selmask)) <= 3 * MAX_ROWS
        BY PlanOfParts, Folders
      <4>2. Len(Selected(g.selmask)) \in 0 .. 3 * MAX_ROWS
        BY <4>1
      <4> QED
        BY <3>1, <4>2
    <3>2. ASSUME NEW found \in Shortened(g.selmask), g' = [g EXCEPT !.total = Len(found)]
          PROVE  \E m \in 0 .. 3 * MAX_ROWS : g' = [g EXCEPT !.total = m]
      BY <3>2, FoundFits
    <3> QED
      BY <1>8, <3>1, <3>2 DEF count_selected
  <2>4. g' \in Globals /\ g'.tier = 1 /\ g'.ord = 1 /\ g'.count = 0 /\ g'.selmask # {}
    BY <1>3, <2>1, <2>3 DEF Globals, Loop, Page
  <2>5. sweep'.calm => note \in {None, Empty}
    BY <1>4, <2>1, <2>2 DEF Steady
  <2> QED
    BY <1>2, <2>1, <2>2, <2>4, <2>5
<1>9. CASE NothingToRun
  BY <1>1, <1>9 DEF NothingToRun
<1>10. CASE LeaveResults
  BY <1>1, <1>10 DEF LeaveResults
<1> QED
  BY <1>5, <1>6, <1>7, <1>8, <1>9, <1>10

LEMMA RunnerSteps ==
  ASSUME IInv, compile_file \/ run_file \/ CleanUp \/ Reset
  PROVE  IInv'
<1> USE DEF IInv
(* The machine stays with the program, and the log as it is. *)
<1>0. ASSUME Steady, UNCHANGED <<after, note, log, g, program>>,
             at \in {"compile", "runner"}, at' \in {"runner", "error", "cleanup"},
             swb' \subseteq Programs, marker' \in BOOLEAN
      PROVE  IInv'
  <2>1. Globals' = Globals /\ familyb' = familyb
    BY <1>0, SteadyTypes
  <2>2. program \in Programs /\ familyb
    BY <1>0 DEF ProgramInv
  <2>3. ChoiceInv'
    BY <1>0, <2>1 DEF ChoiceInv, Loop, Page
  <2>4. NotePhase'
    BY <1>0 DEF NotePhase
  <2>5. ProgramInv'
    BY <1>0, <2>1, <2>2, Zenon DEF ProgramInv
  <2>6. at' \in Places \ Loop /\ at \in Away
    BY <1>0 DEF Places, Loop, Page, Away
  <2> QED
    BY <1>0, <2>3, <2>4, <2>5, <2>6, OutsideStep
<1>1. CASE compile_file
  <2>1. /\ at = "compile" /\ at' \in {"runner", "error"}
        /\ UNCHANGED <<after, boot_disk, fate, note, log, g, program>>
        /\ sweep' = sweep \/ Fault({})
    BY <1>1 DEF compile_file
  <2>2. Steady
    BY <2>1, SteadyCases, KindSets
  <2>3. program \in Programs /\ marker \in BOOLEAN
    BY <2>1 DEF ProgramInv
  <2>4. marker' \in BOOLEAN
    <3>1. /\ marker' \in {marker, marker /\ fate[program] # "long"}
      BY <1>1, Zenon DEF compile_file
    <3>2. (marker /\ fate[program] # "long") \in BOOLEAN
      BY Zenon
    <3> QED
      BY <2>3, <3>1, <3>2, Zenon
  <2>5. swb' \subseteq Programs
    <3>1. swb' = swb \cup {program} \/ swb' = swb \ {program} \/ swb' = swb
      BY <1>1 DEF compile_file
    <3>2. swb \subseteq Programs
      BY Zenon DEF ProgramInv
    <3> QED
      BY <2>3, <3>1, <3>2
  <2> QED
    BY <1>0, <2>1, <2>2, <2>4, <2>5
<1>2. CASE Reset
  <2>1. /\ note' = note /\ log' = log /\ after' = after /\ ToLauncher /\ swb' = swb
        /\ boot_disk' = boot_disk /\ fate' = fate /\ sweep' = [sweep EXCEPT !.calm = FALSE]
    BY <1>2 DEF Reset, disk
  <2>2. Steady /\ ~sweep'.calm
    BY <2>1 DEF Steady, PlaceInv, Sweeps
  <2>3. marker' = marker \/ marker' = FALSE
    BY <1>2, Zenon DEF Reset
  <2>4. swb' \subseteq Programs /\ marker' \in BOOLEAN /\ (familyb \/ (~marker' /\ swb' = {}))
    <3>1. CASE marker' = marker
      BY <2>1, <3>1, Zenon DEF ProgramInv
    <3>2. CASE marker' = FALSE
      BY <2>1, <3>2, Zenon DEF ProgramInv
    <3> QED
      BY <2>3, <3>1, <3>2, Zenon
  <2> QED
    BY <2>1, <2>2, <2>4, BootStep, Zenon
<1>3. CASE CleanUp
  <2>1. /\ at = "cleanup" /\ note' = note /\ log' = log /\ after' = after /\ ToLauncher
        /\ boot_disk' = boot_disk /\ fate' = fate
        /\ swb' = swb \ {program} \/ swb' = swb
        /\ sweep' = sweep \/ Fault({})
    BY <1>3 DEF CleanUp
  <2>2. marker' = FALSE
    BY <1>3, Zenon DEF CleanUp
  <2>3. Steady
    BY <2>1, SteadyCases, KindSets
  <2>4. familyb /\ at \in Away
    BY <2>1 DEF ProgramInv, Away
  <2>5. swb' \subseteq Programs
    <3>1. swb \subseteq Programs
      BY Zenon DEF ProgramInv
    <3> QED
      BY <2>1, <3>1
  <2> QED
    BY <2>1, <2>2, <2>3, <2>4, <2>5, BootStep, Zenon
<1>4. CASE run_file
  <2>1. /\ at = "runner" /\ UNCHANGED <<after, boot_disk, fate, note, swb>>
        /\ program \in Programs /\ familyb
    BY <1>4 DEF run_file, ProgramInv
  <2>2. marker' = marker /\ swb' \subseteq Programs /\ marker' \in BOOLEAN
    BY <1>4, <2>1, Zenon DEF ProgramInv, run_file
  <2>3. CASE ~marker /\ ToLauncher /\ UNCHANGED <<log, sweep, left>>
    <3>1. Steady
      BY <2>1, <2>3, SteadyCases
    <3>2. at \in Away
      BY <2>1 DEF Away
    <3> QED
      BY <2>1, <2>2, <2>3, <3>1, <3>2, BootStep, Zenon
  <2>4. CASE Fault({}) /\ at' = "cleanup" /\ UNCHANGED <<log, g, program>>
    <3>1. Steady
      BY <2>1, <2>4, SteadyCases, KindSets
    <3> QED
      BY <1>0, <2>1, <2>2, <2>4, <3>1
(* A letter more, or one of a program that did not run. *)
  <2>5. ASSUME NEW letter, Verdict(letter),
               sweep'.logged = Append(sweep.logged, program),
               sweep' \in Sweeps, sweep'.calm => sweep'.hurt = {}, sweep'.calm => sweep.calm,
               sweep'.plan = sweep.plan, sweep'.launched = sweep.launched,
               sweep.hurt \subseteq sweep'.hurt, letter \in {"P", "F"},
               "log" \notin sweep'.hurt => (letter = "F" <=> fate[program] = "fails")
        PROVE  IInv'
    <3>1. at' = "cleanup" /\ program' = program /\ g' = g /\ log' = Append(log, letter)
      BY <2>5 DEF Verdict
    <3>2. /\ (Whole' => Whole) /\ (Kept' => Kept) /\ InTurn'
          /\ \A s : (Cursor(s) => Cursor(s)') /\ Passed(s)' = Passed(s)
          /\ \A k : (Within(k)' <=> Within(k))
          /\ \A s, k : Tells(s, k)' <=> Tells(s, k)
          /\ Globals' = Globals /\ familyb' = familyb
      BY <2>1, <2>5, PlanKeeps, Zenon
    <3>3. PlaceInv'
      BY <2>1, <2>5, <3>1 DEF PlaceInv, Places
    <3>4. ChoiceInv' /\ NotePhase' /\ LoopInv' /\ PageInv'
      <4>1. at \notin Loop
        BY <2>1 DEF Loop, Page
      <4> QED
        BY <3>1, <3>2, <4>1 DEF ChoiceInv, NotePhase, LoopInv, PageInv, Loop, Page
    <3>5. ProgramInv'
      BY <2>1, <2>2, <3>1, <3>2, Zenon DEF ProgramInv
    <3>6. LogInv'
      <4>1. log \in Seq({"P", "F"}) /\ sweep.logged \in Seq(Programs)
        BY DEF LogInv, PlaceInv, Sweeps
      <4>2. /\ log' \in Seq({"P", "F"}) /\ Len(log) \in Nat /\ Len(log') = Len(log) + 1
            /\ DOMAIN log' = 1 .. Len(log) + 1 /\ log'[Len(log) + 1] = letter
            /\ \A k \in 1 .. Len(log) : log'[k] = log[k]
        BY <2>5, <3>1, <4>1
      <4>3. ASSUME "log" \notin sweep'.hurt
            PROVE  /\ Len(log') = Len(sweep'.logged)
                   /\ \A k \in DOMAIN log' : log'[k] = "F" <=> fate[sweep'.logged[k]] = "fails"
        <5>1. /\ Len(log) = Len(sweep.logged)
              /\ \A k \in DOMAIN log : log[k] = "F" <=> fate[sweep.logged[k]] = "fails"
          BY <2>1, <2>5, <4>3 DEF LogInv
        <5>2. /\ Len(sweep'.logged) = Len(log) + 1 /\ sweep'.logged[Len(log) + 1] = program
              /\ \A k \in 1 .. Len(log) : sweep'.logged[k] = sweep.logged[k]
          BY <2>1, <2>5, <4>1, <5>1
        <5>3. ASSUME NEW k \in 1 .. Len(log) + 1
              PROVE  log'[k] = "F" <=> fate[sweep'.logged[k]] = "fails"
          <6>1. CASE k = Len(log) + 1
            BY <2>5, <4>2, <4>3, <5>2, <6>1
          <6>2. CASE k \in 1 .. Len(log)
            BY <4>1, <4>2, <5>1, <5>2, <6>2
          <6> QED
            BY <4>2, <6>1, <6>2
        <5> QED
          BY <4>2, <5>2, <5>3
      <4>4. fate' = fate
        BY <2>1
      <4> QED
        BY <4>2, <4>3, <4>4 DEF LogInv
    <3>7. NoteInv'
      <4> SUFFICES ASSUME note \notin {None, Empty}
                   PROVE  /\ Cursor(note)' /\ (Kept' => Within(Passed(note))')
                          /\ sweep'.calm => Tells(note, 0)'
        BY <2>1 DEF NoteInv
      <4>1. /\ Cursor(note) /\ (Kept => Within(Passed(note)))
            /\ sweep.calm => Tells(note, 0)
        BY <2>1 DEF NoteInv, Away
      <4>2. Passed(note)' = Passed(note) /\ Cursor(note)' /\ (Tells(note, 0)' <=> Tells(note, 0))
        BY <2>1, <3>2, <4>1
      <4> QED
        BY <2>5, <3>2, <4>1, <4>2
    <3> QED
      BY <3>2, <3>3, <3>4, <3>5, <3>6, <3>7
  <2> DEFINE more == Append(sweep.logged, program)
  <2>6. more \in Seq(Programs) /\ sweep \in Sweeps /\ (sweep.calm => sweep.hurt = {})
    BY <2>1 DEF PlaceInv, Sweeps
  <2>7. CASE /\ Verdict(IF testlog_failed THEN "F" ELSE "P")
             /\ sweep' = [sweep EXCEPT !.logged = Append(@, program)]
    <3> DEFINE letter == IF testlog_failed THEN "F" ELSE "P"
    <3>1. letter \in {"P", "F"} /\ (letter = "F" <=> fate[program] = "fails")
      BY DEF testlog_failed
    <3>2. Verdict(letter) /\ sweep' = [sweep EXCEPT !.logged = more]
      BY <2>7
    <3> HIDE DEF letter, more
    <3>3. /\ sweep' \in Sweeps /\ sweep'.calm = sweep.calm /\ sweep'.hurt = sweep.hurt
          /\ sweep'.plan = sweep.plan /\ sweep'.launched = sweep.launched
          /\ sweep'.logged = more
      BY <2>6, <3>2 DEF Sweeps
    <3> QED
      BY <2>5, <2>6, <3>1, <3>2, <3>3 DEF more
  <2>8. CASE /\ Verdict("P")
             /\ sweep' = [Hurt(sweep, {"log"}) EXCEPT !.logged = Append(@, program)]
    <3> DEFINE s == Hurt(sweep, {"log"})
    <3>1. /\ s \in Sweeps /\ ~s.calm /\ s.hurt = sweep.hurt \cup {"log"}
          /\ s.plan = sweep.plan /\ s.launched = sweep.launched /\ s.logged = sweep.logged
      BY <2>6, HurtFits, KindSets
    <3> HIDE DEF s
    <3>2. sweep' = [s EXCEPT !.logged = more]
      BY <2>8, <3>1 DEF s
    <3> HIDE DEF more
    <3>3. /\ sweep' \in Sweeps /\ ~sweep'.calm /\ sweep'.hurt = sweep.hurt \cup {"log"}
          /\ sweep'.plan = sweep.plan /\ sweep'.launched = sweep.launched
          /\ sweep'.logged = more
      BY <2>6, <3>1, <3>2 DEF Sweeps
    <3> QED
      BY <2>5, <2>8, <3>3 DEF more
  <2> QED
    BY <1>4, <2>3, <2>4, <2>7, <2>8 DEF run_file
<1> QED
  BY <1>1, <1>2, <1>3, <1>4

(* A sweep begins with nothing behind its cursor. *)
LEMMA SweepBegins ==
  ASSUME IInv, Begin
  PROVE  IInv'
<1> USE DEF IInv
<1> DEFINE plan == Selected(g.selmask)
           fresh == FreshSweep
<1>1. /\ at = "counted" /\ at' = "destroy" /\ after' = "next" /\ g.total > 0
      /\ UNCHANGED <<boot_disk, fate, note, swb, marker, g, program>>
      /\ log' = log \/ (familyb /\ log' = <<>>)
      /\ \/ sweep' = fresh /\ log' = (IF familyb THEN <<>> ELSE log)
         \/ sweep' = Hurt(fresh, {"log"})
  BY DEF Begin
<1>2. /\ plan \in Seq(Tests) /\ Len(plan) \in Nat /\ Base(g.selmask, 1) = 0
  BY PlanOfParts
<1>3. << >> \in Seq(Tests) /\ << >> \in Seq(Programs) /\ Len(<< >>) = 0 /\ DOMAIN << >> = {}
  OBVIOUS
<1>4. /\ fresh \in Sweeps /\ fresh.plan = plan /\ fresh.launched = << >>
      /\ fresh.logged = << >>
      /\ "unread" \notin fresh.hurt => note \in {None, Empty} /\ fresh.hurt = {}
      /\ fresh.calm => /\ note \in {None, Empty} /\ g.total = Len(plan)
                       /\ fresh.hurt = {}
  <2> DEFINE over == note \notin {None, Empty}
             calm == ~over /\ g.total = Len(plan)
             hurt == IF over THEN {"unread"} ELSE {}
  <2>1. hurt \in SUBSET Kinds /\ calm \in BOOLEAN /\ {} \in SUBSET Tests
    BY KindSets
  <2>2. fresh = [NoSweep EXCEPT !.plan = plan, !.calm = calm, !.hurt = hurt]
    BY DEF FreshSweep
  <2> HIDE DEF plan, fresh, calm, hurt
  <2>3. fresh = [plan |-> plan, launched |-> << >>, logged |-> << >>, named |-> {},
                 calm |-> calm, hurt |-> hurt]
    BY <2>2 DEF NoSweep
  <2>4. /\ fresh \in Sweeps /\ fresh.plan = plan /\ fresh.launched = << >>
        /\ fresh.logged = << >> /\ fresh.calm = calm /\ fresh.hurt = hurt
    BY <1>2, <1>3, <2>1, <2>3 DEF Sweeps
  <2> QED
    BY <2>4 DEF calm, hurt
<1> HIDE DEF fresh
<1>5. /\ sweep' \in Sweeps /\ sweep'.plan = plan /\ sweep'.launched = << >>
      /\ sweep'.logged = << >>
      /\ (sweep'.calm => g.total = Len(plan) /\ sweep'.hurt = {})
      /\ (Whole' => note \in {None, Empty})
      /\ ("log" \notin sweep'.hurt => (log' = IF familyb THEN <<>> ELSE log))
  <2>1. CASE sweep' = fresh /\ log' = (IF familyb THEN <<>> ELSE log)
    BY <1>4, <2>1 DEF Whole
  <2>2. CASE sweep' = Hurt(fresh, {"log"})
    <3>1. /\ sweep' \in Sweeps /\ ~sweep'.calm /\ sweep'.hurt = fresh.hurt \cup {"log"}
          /\ sweep'.plan = plan /\ sweep'.launched = << >> /\ sweep'.logged = << >>
      BY <1>4, <2>2, HurtFits, KindSets
    <3> QED
      BY <1>4, <3>1 DEF Whole
  <2> QED
    BY <1>1, <2>1, <2>2
<1>6. /\ g \in Globals /\ g.tier = 1 /\ g.ord = 1 /\ g.count = 0 /\ g.selmask # {}
  BY <1>1 DEF ChoiceInv, Loop, Page
<1>7. /\ Globals' = Globals /\ (familyb' = familyb) /\ Tiers' = Tiers
      /\ \A x : Selected(x)' = Selected(x) /\ \A y, t : Part(y, t)' = Part(y, t)
  BY <1>1 DEF Globals, familyb, Tiers, Selected, Part
<1>8. PlaceInv'
  <2> HIDE DEF plan
  <2> QED
    BY <1>1, <1>5 DEF PlaceInv, Places
<1>9. ProgramInv'
  <2>1. at' \notin {"compile", "error", "runner", "cleanup", "program"}
    BY <1>1
  <2>2. familyb \/ (~marker /\ swb = {} /\ log = <<>>)
    BY DEF ProgramInv
  <2>3. familyb \/ log' = <<>>
    BY <1>1, <2>2
  <2> QED
    BY <1>1, <1>7, <2>1, <2>3, Zenon DEF ProgramInv
<1>10. LogInv'
  <2>1. << >> \in Seq({"P", "F"}) /\ log \in Seq({"P", "F"})
    BY DEF LogInv
  <2>2. log' \in Seq({"P", "F"})
    BY <1>1, <2>1
  <2>3. ASSUME familyb', "log" \notin sweep'.hurt
        PROVE  Len(log') = Len(sweep'.logged) /\ DOMAIN log' = {}
    BY <1>3, <1>5, <1>7, <2>3
  <2> QED
    BY <2>2, <2>3 DEF LogInv
<1>11. ChoiceInv' /\ NotePhase' /\ PageInv'
  BY <1>1 DEF ChoiceInv, NotePhase, PageInv, Loop
<1>12. InTurn'
  BY <1>3, <1>5 DEF InTurn
<1>13. Passed(g)' = 0 /\ Cursor(g)'
  <2>1. Len(Part(g.selmask, 1)) \in Nat
    BY PartTests
  <2>2. Passed(g)' = 0
    BY <1>1, <1>6 DEF Passed, Base
  <2>3. g'.ord - 1 <= IF g'.tier \in Tiers' THEN Len(Part(g.selmask, g.tier)') ELSE 0
    BY <1>1, <1>6, <1>7, <2>1
  <2>4. Placed(g)'
    BY <1>1, <1>6, <1>7, <2>2, <2>3 DEF Placed
  <2>5. sweep'.plan = Selected(g.selmask)'
    BY <1>1, <1>5, <1>7
  <2> QED
    BY <2>2, <2>4, <2>5 DEF Cursor
<1>14. NoteInv'
  <2> SUFFICES ASSUME note \notin {None, Empty}
               PROVE  /\ Cursor(note)' /\ (Kept' => Within(Passed(note))')
                      /\ at' \in Away /\ sweep'.calm => Tells(note, 0)'
    BY <1>1 DEF NoteInv
  <2>1. ~Whole' /\ ~Kept' /\ at' \notin Away
    BY <1>1, <1>5 DEF Away, Kept
  <2>2. Placed(note)
    BY DEF NoteInv, Cursor
  <2>3. Placed(note)'
    BY <1>1, <1>7, <2>2 DEF Placed, Passed, Base
  <2> QED
    BY <2>1, <2>3 DEF Cursor
<1>15. LoopInv'
  <2>1. ~Pending' /\ Due' = 0 /\ at' \notin Page
    BY <1>1 DEF Pending, Due, Page
  <2>2. Due' <= Passed(g)' /\ Within(Passed(g) - Due)'
    BY <1>3, <1>5, <1>13, <2>1 DEF Within
  <2>3. sweep'.calm => Tells(g, Due)'
    <3> HIDE DEF plan
    <3>1. 1 .. Passed(g)' - Due' = {} /\ Len(sweep'.launched) + Due' = 0
      BY <1>3, <1>5, <1>13, <2>1
    <3>2. Complete(Passed(g) - Due)'
      BY <3>1 DEF Complete
    <3> QED
      BY <1>1, <1>5, <1>6, <3>1, <3>2 DEF Tells
  <2> QED
    BY <1>13, <2>1, <2>2, <2>3 DEF LoopInv
<1> QED
  BY <1>8, <1>9, <1>10, <1>11, <1>12, <1>14, <1>15

(* What is within a part of the plan is within a longer one. *)
LEMMA WithinMore ==
  ASSUME InTurn, Whole, NEW j \in Int, NEW k \in Int, j <= k, Within(j)
  PROVE  Within(k)
BY DEF InTurn, Within

(* A step of TESTRUN's that leaves the cursor and what is due alone. *)
LEMMA LoopKeeps ==
  ASSUME IInv, Steady, at \in Loop, Pending' <=> Pending, g' = g, program' = program,
         at' \in Page /\ sweep'.calm => g.tier \notin Tiers
  PROVE  LoopInv'
<1>1. LoopInv
  BY DEF IInv
<1>2. /\ (Kept' => Kept) /\ (sweep'.calm => sweep.calm) /\ Tiers' = Tiers
      /\ \A s : (Cursor(s) => Cursor(s)') /\ Passed(s)' = Passed(s)
      /\ \A k : (Within(k)' <=> Within(k))
      /\ \A s, k : Tells(s, k)' <=> Tells(s, k)
      /\ \A x : (Readable(x)' <=> Readable(x)) /\ Selected(x)' = Selected(x)
  BY PlanKeeps, Zenon DEF Steady
<1>3. Due' = Due
  BY Zenon DEF Due
<1>4. /\ Cursor(g) /\ Due <= Passed(g)
      /\ Kept => Within(Passed(g) - Due)
      /\ Pending => program = Selected(g.selmask)[Passed(g)] /\ Readable(program)
      /\ sweep.calm => Tells(g, Due)
  BY <1>1, Zenon DEF LoopInv
<1>5. Passed(g)' = Passed(g) /\ Cursor(g)' /\ Due' <= Passed(g)'
  <2>1. Passed(g)' = Passed(g)
    BY <1>2
  <2> QED
    BY <1>2, <1>3, <1>4, <2>1
<1>6. Kept' => Within(Passed(g) - Due)'
  <2>1. (Passed(g) - Due)' = Passed(g) - Due
    BY <1>3, <1>5
  <2> QED
    BY <1>2, <1>4, <2>1
<1>7. Pending' => (program = Selected(g.selmask)[Passed(g)])' /\ Readable(program)'
  <2>1. Selected(g.selmask)' = Selected(g.selmask)
    BY <1>2
  <2>2. Readable(program)' <=> Readable(program)
    BY <1>2
  <2> QED
    BY <1>4, <1>5, <2>1, <2>2
<1>8. sweep'.calm => Tells(g, Due)'
  <2>1. Tells(g, Due)' <=> Tells(g, Due)
    BY <1>2, <1>3
  <2> QED
    BY <1>2, <1>4, <2>1
<1>9. sweep'.calm /\ at' \in Page => g'.tier \notin Tiers'
  BY <1>2
<1> QED
  BY <1>5, <1>6, <1>7, <1>8, <1>9 DEF LoopInv

(* The note is saved, or one of three operations fails. *)
LEMMA SaveSteps ==
  ASSUME IInv, test_note_save
  PROVE  IInv'
<1> USE DEF IInv
<1>1. /\ at \in {"destroy", "create", "write"}
      /\ UNCHANGED <<after, boot_disk, fate, log, swb, marker, g, program>>
      /\ sweep' = sweep \/ \E kinds \in SUBSET Kinds : Fault(kinds)
  <2>1. CASE NoteDestroyed
    BY <2>1, KindSets DEF NoteDestroyed
  <2>2. CASE NoteCreated
    BY <2>2, KindSets DEF NoteCreated
  <2>3. CASE NoteWritten
    BY <2>3, KindSets DEF NoteWritten
  <2> QED
    BY <2>1, <2>2, <2>3 DEF test_note_save
<1>2. /\ at' \in {"create", "write", "next", "countdown"}
      /\ at' \in {"next", "countdown"} => at' = after
  BY DEF test_note_save, NoteDestroyed, NoteCreated, NoteWritten, PlaceInv
<1>3. Steady
  BY <1>1, SteadyCases
<1>4. /\ (Kept' => Kept) /\ (Whole' => Whole) /\ InTurn'
      /\ \A s : (Cursor(s) => Cursor(s)') /\ Passed(s)' = Passed(s)
      /\ \A k : (Within(k)' <=> Within(k))
  BY <1>3, PlanKeeps, Zenon DEF Steady
<1>5. /\ Kept /\ at = "create" => note = None
      /\ at = "write" => note = Empty
  BY DEF NotePhase
<1>6. /\ Kept' => note' \in {None, Empty, g}
      /\ note' \in {None, Empty, g, note}
      /\ Kept' /\ at' = "create" => note' = None
      /\ at' = "write" => note' = Empty
  <2>1. CASE NoteDestroyed
    <3>1. at' = "create" /\ (note' = None \/ (Fault({"note"}) /\ note' = note))
      BY <2>1 DEF NoteDestroyed
    <3>2. ASSUME Fault({"note"})
          PROVE  ~Kept'
      <4>1. sweep \in Sweeps /\ sweep' = Hurt(sweep, {"note"})
        BY <3>2 DEF Fault, PlaceInv
      <4>2. sweep'.hurt = sweep.hurt \cup {"note"}
        BY <4>1, HurtFits, KindSets
      <4> QED
        BY <4>2 DEF Kept
    <3> QED
      BY <3>1, <3>2
  <2>2. CASE NoteCreated
    BY <1>4, <1>5, <2>2 DEF NoteCreated, PlaceInv
  <2>3. CASE NoteWritten
    BY <1>5, <2>3 DEF NoteWritten, Body, PlaceInv
  <2> QED
    BY <2>1, <2>2, <2>3 DEF test_note_save
<1>7. at \in Loop /\ at' \in Loop /\ at' \notin Page /\ at' \notin Away
  BY <1>1, <1>2 DEF Loop, Page, Away
<1>8. Pending' <=> Pending
  BY <1>1, <1>2 DEF Pending, PlaceInv
<1>9. LoopInv' /\ PageInv'
  BY <1>1, <1>3, <1>7, <1>8, LoopKeeps DEF PageInv, Page
<1>10. PlaceInv'
  BY <1>1, <1>2, <1>3 DEF PlaceInv, Places, Steady
<1>11. ProgramInv' /\ LogInv'
  <2>1. at' \notin {"compile", "error", "runner", "cleanup", "program"}
    BY <1>2
  <2> QED
    BY <1>1, <1>3, <2>1, FilesKept, LogKeeps
<1>12. ChoiceInv'
  BY <1>2, <1>7 DEF ChoiceInv
<1>13. NotePhase'
  BY <1>1, <1>2, <1>6 DEF NotePhase
<1>14. NoteInv'
  <2>1. CASE note' = note
    BY <1>3, <1>7, <2>1, NoteKeeps
  <2>2. CASE note' \in {None, Empty}
    BY <2>2 DEF NoteInv
  <2>3. CASE note' = g
    <3>1. Cursor(g) /\ Due <= Passed(g) /\ (Kept => Within(Passed(g) - Due))
      BY <1>7 DEF LoopInv
    <3>2. Passed(g) \in Nat
      BY <3>1, CursorPlace DEF PlaceInv, Cursor
    <3>3. Passed(g) - Due \in Int /\ Passed(g) - Due <= Passed(g) /\ Passed(g) \in Int
      BY <3>2 DEF Due
    <3>4. Kept => Within(Passed(g))
      BY <3>1, <3>3, WithinMore DEF Kept
    <3>5. Cursor(note)' /\ (Kept' => Within(Passed(note))')
      BY <1>4, <2>3, <3>1, <3>4
    <3> QED
      BY <1>7, <3>5 DEF NoteInv
  <2> QED
    BY <1>6, <2>1, <2>2, <2>3
<1> QED
  BY <1>4, <1>9, <1>10, <1>11, <1>12, <1>13, <1>14

(* Esc at the countdown: the results so far. *)
LEMMA SweepStops ==
  ASSUME IInv, at = "countdown", results_page, sweep' = [sweep EXCEPT !.calm = FALSE]
  PROVE  IInv'
<1> USE DEF IInv
<1>1. Pending /\ Due = 1 /\ at \in Loop
  BY DEF NotePhase, Pending, Due, Loop, Page
<1>2. /\ at' = "ending"
      /\ UNCHANGED <<after, boot_disk, fate, note, log, swb, marker, g, program>>
  BY DEF results_page, disk
<1>3. Steady /\ ~sweep'.calm
  BY <1>2 DEF Steady, PlaceInv, Sweeps
<1>4. /\ (Kept' => Kept) /\ InTurn'
      /\ \A s : (Cursor(s) => Cursor(s)') /\ Passed(s)' = Passed(s)
      /\ \A k : (Within(k)' <=> Within(k))
  BY <1>3, PlanKeeps, Zenon DEF Steady
<1>5. Cursor(g) /\ (Kept => Within(Passed(g) - 1))
  BY <1>1 DEF LoopInv
<1>6. Passed(g) \in Nat
  BY <1>5, CursorPlace DEF PlaceInv, Cursor
<1>7. PlaceInv'
  BY <1>2, <1>3 DEF PlaceInv, Places, Steady
<1>8. ProgramInv' /\ LogInv' /\ NoteInv'
  <2>1. at' \notin {"compile", "error", "runner", "cleanup", "program"} /\ at' \notin Away
    BY <1>2 DEF Away
  <2> QED
    BY <1>2, <1>3, <2>1, FilesKept, LogKeeps, NoteKeeps
<1>9. ChoiceInv' /\ NotePhase' /\ PageInv'
  BY <1>2 DEF ChoiceInv, NotePhase, PageInv, Loop, Page
<1>10. LoopInv'
  <2>1. ~Pending' /\ Due' = 0 /\ Passed(g)' = Passed(g)
    BY <1>2, <1>4 DEF Pending, Due
  <2>2. /\ Passed(g) - 0 = Passed(g) /\ 0 <= Passed(g)
        /\ Passed(g) - 1 \in Int /\ Passed(g) - 1 <= Passed(g) /\ Passed(g) \in Int
    BY <1>6
  <2>3. Kept => Within(Passed(g))
    BY <1>5, <2>2, WithinMore DEF Kept
  <2>4. Cursor(g)' /\ Due' <= Passed(g)' /\ (Kept' => Within(Passed(g) - Due)')
    BY <1>2, <1>4, <1>5, <2>1, <2>2, <2>3
  <2> QED
    BY <1>3, <2>1, <2>4 DEF LoopInv
<1> QED
  BY <1>4, <1>7, <1>8, <1>9, <1>10

(* The page: the note goes, and the log is read against the folders. *)
LEMMA PageSteps ==
  ASSUME IInv, test_note_destroy \/ tally
  PROVE  IInv'
<1> USE DEF IInv
(* What both steps leave alone. *)
<1>1. ASSUME Steady, UNCHANGED <<after, log, swb, marker, g, program>>,
             at \in Page, at' \in {"tally", "results"},
             note' = note \/ note' = None,
             sweep'.calm => note' \in {None, Empty}, PageInv'
      PROVE  IInv'
  <2>1. at \in Loop /\ at' \in Page /\ at' \in Loop /\ at' \notin Away
    BY <1>1 DEF Loop, Page, Away
  <2>2. InTurn' /\ (sweep'.calm => sweep.calm)
    BY <1>1, PlanKeeps, Zenon DEF Steady
  <2>3. PlaceInv'
    BY <1>1 DEF PlaceInv, Places, Steady
  <2>4. ProgramInv' /\ LogInv'
    <3>1. at' \notin {"compile", "error", "runner", "cleanup", "program"}
      BY <1>1
    <3> QED
      BY <1>1, <3>1, FilesKept, LogKeeps
  <2>5. ChoiceInv' /\ NotePhase'
    BY <1>1, <2>1 DEF ChoiceInv, NotePhase
  <2>6. NoteInv'
    <3>1. CASE note' = note
      BY <1>1, <2>1, <3>1, NoteKeeps
    <3>2. CASE note' = None
      BY <3>2 DEF NoteInv
    <3> QED
      BY <1>1, <3>1, <3>2
  <2>7. ~Pending /\ ~Pending'
    BY <1>1 DEF Pending, Page
  <2>8. sweep'.calm => g.tier \notin Tiers
    BY <1>1, <2>1, <2>2 DEF LoopInv
  <2>9. LoopInv'
    BY <1>1, <2>1, <2>7, <2>8, LoopKeeps
  <2> QED
    BY <1>1, <2>2, <2>3, <2>4, <2>5, <2>6, <2>9
<1>2. CASE test_note_destroy
  <2>1. /\ at = "ending" /\ at' = "tally"
        /\ UNCHANGED <<after, boot_disk, fate, log, swb, marker, g, program>>
        /\ \/ note' = None /\ sweep' = sweep
           \/ note' = note /\ Fault({})
    BY <1>2 DEF test_note_destroy
  <2>2. Steady
    BY <2>1, SteadyCases, KindSets
  <2>3. sweep'.calm => note' \in {None, Empty}
    BY <2>1, HurtFits, KindSets DEF Fault, PlaceInv
  <2>4. PageInv'
    BY <2>1 DEF PageInv
  <2> QED
    BY <1>1, <2>1, <2>2, <2>3, <2>4 DEF Page
<1>3. CASE tally
  <2>1. /\ at = "tally" /\ at' = "results"
        /\ UNCHANGED <<after, boot_disk, fate, note, log, swb, marker, g, program>>
    BY <1>3 DEF tally, disk
  <2>2. /\ sweep \in Sweeps /\ (sweep.calm => sweep.hurt = {})
        /\ sweep.calm => note \in {None, Empty}
    BY <2>1 DEF PlaceInv, NotePhase
  <2>3. /\ familyb' = familyb /\ Verdicts' = Verdicts
        /\ \A v, x : Listed(v, x)' = Listed(v, x)
        /\ Selected(g.selmask)' = Selected(g.selmask)
    BY <2>1 DEF familyb, Verdicts, Listed, Selected, Part, Tiers
  <2>4. ASSUME NEW found \in Seq(Tests)
        PROVE  Listed(Verdicts, found) \in SUBSET Tests
    BY DEF Listed
  <2>5. CASE familyb /\ sweep' = [sweep EXCEPT !.named = Listed(Verdicts, Selected(g.selmask))]
    <3>1. Selected(g.selmask) \in Seq(Tests)
      BY PlanOfParts
    <3>2. PICK names \in SUBSET Tests : names = Listed(Verdicts, Selected(g.selmask))
      BY <2>4, <3>1
    <3>3. sweep' = [sweep EXCEPT !.named = names]
      BY <2>5, <3>2
    <3>4. Steady /\ sweep'.named = names /\ sweep'.calm = sweep.calm
      BY <2>1, <2>2, <3>3 DEF Steady, Sweeps
    <3>5. PageInv'
      BY <2>3, <3>2, <3>4 DEF PageInv
    <3> QED
      BY <1>1, <2>1, <2>2, <3>4, <3>5 DEF Page
  <2>6. CASE ~familyb /\ UNCHANGED <<sweep, left>>
    <3>1. Steady /\ PageInv'
      BY <2>1, <2>3, <2>6, SteadyCases DEF PageInv
    <3> QED
      BY <1>1, <2>1, <2>2, <2>6, <3>1 DEF Page
  <2>7. CASE familyb /\ Fault({"page"})
    <3>1. Steady /\ sweep' = Hurt(sweep, {"page"})
      BY <2>1, <2>7, SteadyCases, KindSets DEF Fault
    <3>2. ~sweep'.calm /\ "page" \in sweep'.hurt
      BY <2>2, <3>1, HurtFits, KindSets
    <3>3. PageInv'
      BY <3>2 DEF PageInv
    <3> QED
      BY <1>1, <2>1, <3>1, <3>2, <3>3 DEF Page
  <2>8. ASSUME NEW found \in Shortened(g.selmask),
               sweep' = [Hurt(sweep, {"page"}) EXCEPT !.named = Listed(Verdicts, found)]
        PROVE  IInv'
    <3> DEFINE s == Hurt(sweep, {"page"})
    <3>1. /\ s \in Sweeps /\ ~s.calm /\ s.hurt = sweep.hurt \cup {"page"}
          /\ s.plan = sweep.plan /\ s.launched = sweep.launched /\ s.logged = sweep.logged
      BY <2>2, HurtFits, KindSets
    <3>2. PICK names \in SUBSET Tests : names = Listed(Verdicts, found)
      BY <2>4, FoundFits
    <3> HIDE DEF s
    <3>3. sweep' = [s EXCEPT !.named = names]
      BY <2>8, <3>2 DEF s
    <3>4. Steady /\ ~sweep'.calm /\ "page" \in sweep'.hurt
      BY <2>1, <3>1, <3>3 DEF Steady, Sweeps
    <3>5. PageInv'
      BY <3>4 DEF PageInv
    <3> QED
      BY <1>1, <2>1, <3>4, <3>5 DEF Page
  <2> QED
    BY <1>3, <2>5, <2>6, <2>7, <2>8 DEF tally
<1> QED
  BY <1>2, <1>3

(* A turn of run_next's loop takes the cursor over one test, over none, or *)
(* over all that are left of a folder that could not be read.              *)
LEMMA LoopTurn ==
  ASSUME IInv, run_next
  PROVE  IInv'
<1> USE DEF IInv
<1> DEFINE p == Passed(g)
           test == ThisTest
           plan == Selected(g.selmask)
<1>1. /\ at = "next" /\ at \in Loop /\ ~Pending /\ Due = 0
      /\ UNCHANGED <<boot_disk, fate, note, log, swb, marker>>
      /\ sweep' = sweep \/ Fault({})
  BY DEF run_next, results_page, Loop, Pending, Due, disk
<1>2. Steady /\ (sweep'.calm => sweep' = sweep)
  BY <1>1, SteadyCases, KindSets
<1>3. /\ \A s : (Cursor(s) => Cursor(s)') /\ (Placed(s)' <=> Placed(s)) /\ Passed(s)' = Passed(s)
      /\ \A k : (Within(k)' <=> Within(k)) /\ (Complete(k)' <=> Complete(k))
      /\ \A s, k : Tells(s, k)' <=> Tells(s, k)
      /\ \A x : (Readable(x)' <=> Readable(x)) /\ Selected(x)' = Selected(x)
      /\ (Kept' => Kept) /\ (Whole' => Whole)
      /\ InTurn' /\ Tiers' = Tiers
  BY <1>2, PlanKeeps, Zenon DEF Steady
<1>4. /\ Cursor(g) /\ Placed(g) /\ g \in Globals /\ g.selmask # {} /\ g.count <= p
      /\ Kept => Within(p - 0)
      /\ sweep.calm => Tells(g, 0)
      /\ Whole => sweep.plan = plan
  BY <1>1 DEF LoopInv, Cursor, Placed
<1>5. /\ g.tier \in 1 .. 4 /\ g.ord \in Nat \ {0} /\ g.count \in Nat /\ g.total \in Nat
      /\ Len(plan) \in Nat /\ Len(plan) <= 3 * MAX_ROWS
      /\ p \in Nat /\ p <= Len(plan)
      /\ g.tier \in Tiers =>
           /\ g.tier + 1 \in 1 .. 4 /\ Base(g.selmask, g.tier + 1) \in Nat
           /\ p <= Base(g.selmask, g.tier + 1) /\ Base(g.selmask, g.tier + 1) <= Len(plan)
      /\ g.tier \in Tiers /\ (g.tier \in g.selmask => g.ord > Len(Swift(g.tier))) =>
           Base(g.selmask, g.tier + 1) = p
      /\ g.tier \in Tiers /\ g.tier \in g.selmask /\ g.ord <= Len(Swift(g.tier)) =>
           /\ g.ord \in 1 .. MAX_ROWS /\ g.ord <= Len(Part(g.selmask, g.tier))
           /\ p + 1 <= Len(plan) /\ plan[p + 1] = Swift(g.tier)[g.ord]
  BY <1>4, CursorPlace, Zenon DEF PlaceInv
<1>6. /\ Kept => Whole /\ Within(p)
      /\ sweep.calm => /\ Whole /\ g.count = Len(sweep.launched) /\ Complete(p)
                       /\ g.total = Len(sweep.plan)
  <2>1. p - 0 = p /\ Len(sweep.launched) \in Nat
    BY <1>5 DEF PlaceInv, Sweeps
  <2>2. sweep.calm => Whole
    BY CalmIsWhole
  <2> QED
    BY <1>4, <2>1, <2>2 DEF Tells, Kept
<1>7. /\ MAX_ROWS \in Nat /\ Tiers \in SUBSET (1 .. 3) /\ Len(sweep.launched) \in Nat
      /\ plan \in Seq(Tests)
  BY TiersOfDisk, PlanOfParts, Folders DEF PlaceInv, Sweeps
<1>8. sweep'.plan = sweep.plan /\ sweep'.launched = sweep.launched
  BY <1>2 DEF Steady
<1> HIDE DEF p, test, plan
(* What is the same for every turn. *)
<1>9. ASSUME at' \in {"next", "destroy", "ending"}, after' \in {"next", "countdown"},
             program' \in Programs \cup {None}, LoopInv'
      PROVE  IInv'
  <2>1. at' \in Loop /\ at' \notin Away
    BY <1>9 DEF Loop, Page, Away
  <2>2. PlaceInv'
    BY <1>1, <1>2, <1>9 DEF PlaceInv, Places, Steady
  <2>3. ProgramInv'
    <3>1. at' \notin {"compile", "error", "runner", "cleanup", "program"}
      BY <1>9
    <3>2. familyb' = familyb
      BY <1>2, SteadyTypes
    <3> QED
      BY <1>1, <1>9, <3>1, <3>2, Zenon DEF ProgramInv
  <2>4. LogInv' /\ NoteInv'
    BY <1>1, <1>2, <2>1, LogKeeps, NoteKeeps
  <2>5. ChoiceInv' /\ NotePhase' /\ PageInv'
    BY <1>9, <2>1 DEF ChoiceInv, NotePhase, PageInv
  <2> QED
    BY <1>3, <1>9, <2>2, <2>3, <2>4, <2>5
<1>10. program \in Programs \cup {None} /\ after \in {"next", "countdown"}
  BY DEF ProgramInv, PlaceInv
(* The cursor it leaves. *)
<1>11. ASSUME NEW t \in 1 .. 4, NEW o \in 1 .. MAX_ROWS + 1, NEW c \in Nat,
              g' = [selmask |-> g.selmask, tier |-> t, ord |-> o, count |-> c,
                    total |-> g.total],
              NEW q \in Nat, q <= Len(plan), Base(g.selmask, t) + o - 1 = q, c <= q,
              o - 1 <= IF t \in Tiers THEN Len(Part(g.selmask, t)) ELSE 0
       PROVE  /\ Cursor(g)' /\ Passed(g)' = q /\ g'.selmask = g.selmask
              /\ g'.count = c /\ g'.total = g.total
  <2>1. c \in 0 .. 3 * MAX_ROWS
    BY <1>5, <1>7, <1>11
  <2>2. g' \in Globals /\ g'.selmask = g.selmask /\ g'.total = g.total
        /\ g'.tier = t /\ g'.ord = o /\ g'.count = c
    BY <1>4, <1>11, <2>1 DEF Globals
  <2>3. Passed(g') = q
    BY <1>11, <2>2 DEF Passed
  <2>4. Cursor(g')
    BY <1>4, <1>11, <2>2, <2>3 DEF Cursor, Placed, plan
  <2> QED
    BY <1>3, <2>2, <2>3, <2>4
(* The tiers are done. *)
<1>12. CASE g.tier \notin Tiers /\ results_page /\ UNCHANGED sweep
  <2>1. /\ at' = "ending" /\ g' = g /\ after' = after /\ program' = program
    BY <1>12 DEF results_page
  <2>2. Pending' <=> Pending
    BY <1>1, <2>1 DEF Pending
  <2>3. LoopInv'
    BY <1>1, <1>2, <1>12, <2>1, <2>2, LoopKeeps
  <2> QED
    BY <1>9, <1>10, <2>1, <2>3
(* The loop is turned, nothing is to be started. *)
<1>13. ASSUME at' = at, after' = after, program' = program,
              Cursor(g)', NEW q \in Nat, p <= q, Passed(g)' = q,
              g'.count = g.count, g'.total = g.total, sweep'.calm => Complete(q)
       PROVE  IInv'
  <2>1. at' = "next" /\ ~Pending' /\ Due' = 0 /\ at' \notin Page
    BY <1>1, <1>13 DEF Pending, Due, Page
  <2>2. q - 0 = q /\ 0 <= q /\ Len(sweep.launched) + 0 = Len(sweep.launched)
    BY <1>7
  <2>3. Kept => Within(q)
    <3>1. p \in Int /\ q \in Int
      BY <1>5
    <3> QED
      BY <1>6, <1>13, <3>1, WithinMore
  <2>4. Due' <= Passed(g)' /\ (Kept' => Within(Passed(g) - Due)')
    BY <1>3, <1>13, <2>1, <2>2, <2>3
  <2>5. sweep'.calm => Tells(g, Due)'
    <3> SUFFICES ASSUME sweep'.calm
                 PROVE  Tells(g, Due)'
      OBVIOUS
    <3>1. sweep' = sweep /\ sweep.calm
      BY <1>2
    <3>2. Complete(q)' /\ Passed(g)' - Due' = q
      BY <1>3, <1>13, <2>1, <2>2, <3>1
    <3>3. Complete(Passed(g) - Due)'
      BY <3>2
    <3> QED
      BY <1>6, <1>13, <2>1, <2>2, <3>1, <3>3 DEF Tells
  <2>6. LoopInv'
    BY <1>13, <2>1, <2>4, <2>5 DEF LoopInv
  <2> QED
    BY <1>9, <1>10, <1>13, <2>1, <2>6
(* The tier is done, was not chosen, or cannot be read. *)
<1>14. CASE /\ g.tier \in Tiers
            /\ \/ ~AtTest /\ UNCHANGED <<sweep, left>>
               \/ AtTest /\ Fault({})
            /\ g' = [g EXCEPT !.tier = @ + 1, !.ord = 1]
            /\ UNCHANGED <<at, after, boot_disk, fate, disk, marker, program>>
  <2> DEFINE q == Base(g.selmask, g.tier + 1)
  <2>1. /\ q \in Nat /\ p <= q /\ q <= Len(plan) /\ g.tier + 1 \in 1 .. 4
    BY <1>5, <1>14
  <2>2. sweep'.calm => q = p
    <3>1. CASE ~AtTest
      <4>1. g.tier \in g.selmask => g.ord > Len(Swift(g.tier))
        <5>1. g.tier \in 1 .. 3
          BY <1>7, <1>14
        <5>2. Len(Swift(g.tier)) \in Nat
          BY <5>1, SwiftTests
        <5> QED
          BY <1>5, <1>14, <3>1, <5>2 DEF AtTest
      <4> QED
        BY <1>5, <1>14, <4>1
    <3>2. CASE Fault({})
      BY <3>2, HurtFits, KindSets DEF Fault, PlaceInv
    <3> QED
      BY <1>14, <3>1, <3>2
  <2> HIDE DEF q
  <2>3. g' = [selmask |-> g.selmask, tier |-> g.tier + 1, ord |-> 1, count |-> g.count,
              total |-> g.total]
    BY <1>4, <1>14 DEF Globals
  <2>4. 1 - 1 <= IF g.tier + 1 \in Tiers THEN Len(Part(g.selmask, g.tier + 1)) ELSE 0
    <3>1. CASE g.tier + 1 \in Tiers
      <4>1. g.tier + 1 \in 1 .. 3
        BY <1>7, <3>1
      <4>2. Len(Part(g.selmask, g.tier + 1)) \in Nat
        BY <4>1, PartTests
      <4> QED
        BY <3>1, <4>2
    <3> QED
      BY <3>1
  <2>5. Base(g.selmask, g.tier + 1) + 1 - 1 = q /\ g.count <= q /\ 1 \in 1 .. MAX_ROWS + 1
    <3>1. q + 1 - 1 = q
      BY <2>1
    <3>2. g.count <= q
      BY ONLY <1>4, <1>5, <2>1, g.count <= p, p \in Nat, g.count \in Nat
    <3>3. 1 \in 1 .. MAX_ROWS + 1
      BY <1>7
    <3> QED
      BY <3>1, <3>2, <3>3 DEF q
  <2>6. Cursor(g)' /\ Passed(g)' = q /\ g'.count = g.count /\ g'.total = g.total
    <3>1. /\ g.tier + 1 \in 1 .. 4 /\ 1 \in 1 .. MAX_ROWS + 1 /\ g.count \in Nat
          /\ q \in Nat /\ q <= Len(plan)
      BY <1>5, <2>1, <2>5
    <3> QED
      BY ONLY <1>11, <2>3, <2>4, <2>5, <3>1, ZenonT(60)
  <2>7. sweep'.calm => Complete(q)
    BY <1>2, <1>6, <2>2
  <2> QED
    BY <1>13, <1>14, <2>1, <2>6, <2>7
(* The test under the cursor. *)
<1>15. ASSUME AtTest, NEW c \in Nat, c <= p + 1,
              g' = [selmask |-> g.selmask, tier |-> g.tier, ord |-> g.ord + 1, count |-> c,
                    total |-> g.total]
       PROVE  /\ Cursor(g)' /\ Passed(g)' = p + 1 /\ g'.selmask = g.selmask
              /\ g'.count = c /\ g'.total = g.total
              /\ p + 1 \in 1 .. Len(plan) /\ plan[p + 1] = test
              /\ test \in Programs /\ (stage_only <=> Readable(test))
  <2>1. /\ g.tier \in Tiers /\ g.ord \in 1 .. MAX_ROWS /\ g.ord <= Len(Part(g.selmask, g.tier))
        /\ p + 1 <= Len(plan) /\ plan[p + 1] = test
    BY <1>5, <1>15 DEF AtTest, ThisTest, test
  <2>2. Base(g.selmask, g.tier) + g.ord - 1 = p /\ Base(g.selmask, g.tier) \in Nat
    <3>1. g.tier \in 1 .. 3
      BY <1>7, <2>1
    <3> QED
      BY <3>1, PlanOfParts DEF p, Passed
  <2>3. Cursor(g)' /\ Passed(g)' = p + 1 /\ g'.selmask = g.selmask
        /\ g'.count = c /\ g'.total = g.total
    <3>1. g.ord \in Nat /\ p \in Nat /\ MAX_ROWS \in Nat
      BY <1>5, <1>7
    <3>2. (g.ord + 1) - 1 = g.ord /\ g.ord + 1 \in 1 .. MAX_ROWS + 1 /\ p + 1 \in Nat
      BY <2>1, <3>1
    <3>3. Base(g.selmask, g.tier) + (g.ord + 1) - 1 = p + 1
      BY <2>2, <3>1
    <3> QED
      BY <1>5, <1>11, <1>15, <2>1, <3>2, <3>3
  <2>4. p + 1 \in 1 .. Len(plan)
    BY <1>5, <2>1
  <2>5. test \in Programs
    BY <1>7, <2>1, <2>4 DEF Programs
  <2>6. stage_only <=> Readable(test)
    BY DEF stage_only, Readable, test
  <2> QED
    BY <2>1, <2>3, <2>4, <2>5, <2>6
(* It cannot be read: it is passed over. *)
<1>16. CASE /\ AtTest
            /\ \/ ~stage_only /\ UNCHANGED <<sweep, left>>
               \/ stage_only /\ ~familyb /\ Fault({})
            /\ g' = [g EXCEPT !.ord = @ + 1]
            /\ UNCHANGED <<at, after, boot_disk, fate, disk, marker, program>>
  <2>1. /\ g' = [selmask |-> g.selmask, tier |-> g.tier, ord |-> g.ord + 1,
                 count |-> g.count, total |-> g.total]
    BY <1>4, <1>16 DEF Globals
  <2>2. g.count <= p + 1 /\ p + 1 \in Nat /\ p <= p + 1
    BY <1>4, <1>5
  <2>3. /\ Cursor(g)' /\ Passed(g)' = p + 1 /\ g'.count = g.count /\ g'.total = g.total
        /\ plan[p + 1] = test /\ (stage_only <=> Readable(test))
    BY <1>5, <1>15, <1>16, <2>1, <2>2
  <2>4. sweep'.calm => Complete(p + 1)
    <3> SUFFICES ASSUME sweep'.calm
                 PROVE  Complete(p + 1)
      OBVIOUS
    <3>1. ~Fault({})
      BY HurtFits, KindSets DEF Fault, PlaceInv
    <3>2. Complete(p) /\ sweep.plan = plan /\ ~Readable(sweep.plan[p + 1])
      BY <1>2, <1>4, <1>6, <1>16, <2>3, <3>1
    <3> QED
      BY <1>5, <3>2, SMTT(30) DEF Complete
  <2> QED
    BY <1>13, <1>16, <2>2, <2>3, <2>4
(* It is to be started once the note is saved. *)
<1>17. CASE /\ AtTest /\ stage_only
            /\ g' = [g EXCEPT !.ord = @ + 1, !.count = @ + 1]
            /\ program' = ThisTest
            /\ at' = "destroy" /\ after' = "countdown"
            /\ UNCHANGED <<boot_disk, fate, disk, marker, sweep, left>>
  <2>1. /\ g' = [selmask |-> g.selmask, tier |-> g.tier, ord |-> g.ord + 1,
                 count |-> g.count + 1, total |-> g.total]
    BY <1>4, <1>17 DEF Globals
  <2>2. g.count + 1 \in Nat /\ g.count + 1 <= p + 1
    BY <1>4, <1>5
  <2>3. /\ Cursor(g)' /\ Passed(g)' = p + 1 /\ g'.selmask = g.selmask
        /\ g'.count = g.count + 1 /\ g'.total = g.total
        /\ plan[p + 1] = test /\ Readable(test) /\ test \in Programs
    BY <1>15, <1>17, <2>1, <2>2
  <2>4. program' = test
    BY <1>17 DEF test
  <2>5. Pending' /\ Due' = 1 /\ at' \notin Page
    BY <1>17 DEF Pending, Due, Page
  <2>6. (p + 1) - 1 = p /\ 1 <= p + 1
    BY <1>5
  <2>7. Due' <= Passed(g)' /\ (Kept' => Within(Passed(g) - Due)')
    BY <1>3, <1>6, <2>3, <2>5, <2>6
  <2>8. (program = Selected(g.selmask)[Passed(g)])' /\ Readable(program)'
    BY <1>3, <2>3, <2>4 DEF plan
  <2>9. sweep'.calm => Tells(g, Due)'
    <3> SUFFICES ASSUME sweep'.calm
                 PROVE  Tells(g, Due)'
      OBVIOUS
    <3>1. sweep' = sweep /\ sweep.calm
      BY <1>2
    <3>2. Complete(p) /\ Passed(g)' - Due' = p
      BY <1>6, <2>3, <2>5, <2>6, <3>1
    <3>3. Complete(Passed(g) - Due)'
      BY <1>3, <3>2
    <3> QED
      BY <1>6, <1>17, <2>3, <2>5, <3>1, <3>3 DEF Tells
  <2>10. LoopInv'
    BY <2>3, <2>5, <2>7, <2>8, <2>9 DEF LoopInv
  <2> QED
    BY <1>9, <1>17, <2>3, <2>4, <2>10
<1> QED
  BY <1>12, <1>14, <1>16, <1>17, Zenon DEF run_next

(* The test whose turn it is replaces TESTRUN. *)
LEMMA TestStarts ==
  ASSUME IInv, at = "countdown", RunTest
  PROVE  IInv'
<1> USE DEF IInv
<1> DEFINE p == Passed(g)
           n == Len(sweep.launched)
           more == Append(sweep.launched, program)
           plan == Selected(g.selmask)
<1>1. /\ Pending /\ Due = 1 /\ at \in Loop /\ (Kept => note \in {None, Empty, g})
  BY DEF NotePhase, Pending, Due, Loop
<1>2. /\ Cursor(g) /\ Placed(g) /\ 1 <= p /\ program = plan[p] /\ Readable(program)
      /\ Kept => Within(p - 1)
      /\ sweep.calm => Tells(g, 1)
      /\ Whole => sweep.plan = plan
  BY <1>1 DEF LoopInv, Cursor
<1>3. p \in Nat /\ p <= Len(plan) /\ Len(plan) \in Nat
  BY <1>2, CursorPlace DEF PlaceInv
<1>0. plan \in Seq(Tests)
  BY PlanOfParts
<1> HIDE DEF p, plan
<1>4. /\ p \in 1 .. Len(plan) /\ plan \in Seq(Tests) /\ n \in Nat
      /\ sweep \in Sweeps /\ sweep.launched \in Seq(Tests) /\ (sweep.calm => sweep.hurt = {})
  <2>1. sweep \in Sweeps /\ (sweep.calm => sweep.hurt = {})
    BY DEF PlaceInv
  <2>2. sweep.launched \in Seq(Tests) /\ n \in Nat
    BY <2>1 DEF Sweeps
  <2>3. p \in 1 .. Len(plan)
    <3>1. 1 <= p
      BY <1>2, Zenon
    <3> QED
      BY ONLY <1>3, <3>1
  <2> QED
    BY <1>0, <2>1, <2>2, <2>3
<1>5. program \in Tests
  BY <1>2, <1>4
<1>6. Whole => Position(program) = p /\ program \in Range(sweep.plan)
  BY <1>2, <1>4, PositionInPlan DEF plan
<1>7. /\ more \in Seq(Tests) /\ Len(more) = n + 1 /\ more[n + 1] = program
      /\ \A i \in 1 .. n : more[i] = sweep.launched[i]
      /\ DOMAIN more = 1 .. n + 1 /\ DOMAIN sweep.launched = 1 .. n
  BY <1>4, <1>5
<1>8. /\ UNCHANGED <<after, boot_disk, fate, note, log, swb>> /\ marker' = (marker \/ familyb)
      /\ sweep' = [sweep EXCEPT !.launched = more]
      /\ at' = (IF familyb THEN "compile" ELSE "program") /\ program' = program /\ g' = Unset
  BY Zenon DEF RunTest, chain_bin, disk
<1> HIDE DEF more, n
<1>9. /\ sweep' \in Sweeps /\ sweep'.plan = sweep.plan /\ sweep'.launched = more
      /\ sweep'.calm = sweep.calm /\ sweep'.logged = sweep.logged
      /\ sweep'.hurt = sweep.hurt
  BY <1>4, <1>7, <1>8 DEF Sweeps
<1>10. (Whole' <=> Whole) /\ (Kept' <=> Kept) /\ (Kept => Whole)
  BY <1>9 DEF Whole, Kept
<1>11. /\ Globals' = Globals /\ familyb' = familyb
       /\ \A s : (Cursor(s) => Cursor(s)') /\ Passed(s)' = Passed(s)
       /\ \A x : (Readable(x)' <=> Readable(x)) /\ Position(x)' = Position(x)
  BY <1>8, <1>9, <1>10, SamePlan, Zenon
<1>12. ASSUME NEW i \in DOMAIN more
       PROVE  \/ i \in 1 .. n /\ i \in DOMAIN sweep.launched /\ more[i] = sweep.launched[i]
              \/ i = n + 1 /\ more[i] = program
  BY <1>4, <1>7
<1>13. ASSUME Whole, NEW i \in DOMAIN more
       PROVE  /\ more[i] \in Range(sweep.plan) /\ Position(more[i]) \in Nat
              /\ Kept => Position(more[i]) <= p
  <2>1. CASE i = n + 1 /\ more[i] = program
    BY <1>3, <1>6, <1>13, <2>1
  <2>2. CASE i \in DOMAIN sweep.launched /\ more[i] = sweep.launched[i]
    <3>1. Position(more[i]) \in Nat /\ more[i] \in Range(sweep.plan)
      BY <1>13, <2>2 DEF InTurn
    <3>2. Kept => Position(more[i]) <= p - 1
      BY <1>2, <2>2 DEF Within
    <3> QED
      BY <1>3, <3>1, <3>2
  <2> QED
    BY <1>12, <2>1, <2>2
<1>14. ASSUME Kept, NEW i \in DOMAIN more, NEW j \in DOMAIN more, i < j
       PROVE  Position(more[i]) < Position(more[j])
  <2>1. i \in DOMAIN sweep.launched /\ more[i] = sweep.launched[i]
    <3>1. i # n + 1
      BY <1>4, <1>7, <1>14
    <3> QED
      BY <1>12, <3>1
  <2>2. CASE j = n + 1 /\ more[j] = program
    <3>1. Position(more[i]) <= p - 1
      BY <1>2, <1>14, <2>1 DEF Within
    <3>2. Position(more[i]) \in Nat /\ Position(more[j]) = p
      BY <1>6, <1>10, <1>13, <1>14, <2>2
    <3> QED
      BY <1>3, <3>1, <3>2
  <2>3. CASE j \in DOMAIN sweep.launched /\ more[j] = sweep.launched[j]
    BY <1>14, <2>1, <2>3 DEF InTurn
  <2> QED
    BY <1>12, <2>2, <2>3
<1>15. \A i \in DOMAIN more : Readable(more[i])
  <2> SUFFICES ASSUME NEW i \in DOMAIN more
               PROVE  Readable(more[i])
    OBVIOUS
  <2>1. \A k \in DOMAIN sweep.launched : Readable(sweep.launched[k])
    BY DEF InTurn
  <2> QED
    BY <1>2, <1>12, <2>1
<1>16. PlaceInv'
  BY <1>4, <1>8, <1>9 DEF PlaceInv, Places
<1>17. ProgramInv'
  <2>1. marker' \in BOOLEAN /\ (familyb \/ (~marker' /\ swb' = {} /\ log' = <<>>))
    BY <1>8, Zenon DEF ProgramInv
  <2>2. program' \in Programs
    BY <1>5, <1>8 DEF Programs
  <2>3. at' \in {"compile", "error", "runner", "cleanup"} => familyb
    BY <1>8
  <2> QED
    BY <1>8, <1>11, <2>1, <2>2, <2>3, Zenon DEF ProgramInv
<1>18. LogInv'
  BY <1>8, <1>9, <1>11 DEF LogInv
<1>19. at' \in Away /\ at' \notin Loop
  BY <1>8 DEF Away, Loop, Page
<1>20. ChoiceInv' /\ NotePhase' /\ LoopInv' /\ PageInv'
  BY <1>8, <1>11, <1>19, UnsetFits DEF ChoiceInv, Unset, NotePhase, LoopInv, PageInv
<1>21. InTurn'
  BY <1>9, <1>10, <1>11, <1>13, <1>14, <1>15 DEF InTurn
<1>22. NoteInv'
  <2> SUFFICES ASSUME note \notin {None, Empty}
               PROVE  /\ Cursor(note)' /\ (Kept' => Within(Passed(note))')
                      /\ sweep'.calm => Tells(note, 0)'
    BY <1>8 DEF NoteInv
  <2>1. Cursor(note)' /\ Passed(note)' = Passed(note)
    BY <1>8, <1>11 DEF NoteInv
  <2>2. Kept' => Within(Passed(note))'
    <3> SUFFICES ASSUME Kept
                 PROVE  Within(Passed(note))'
      BY <1>10
    <3>1. Passed(note) = p
      BY <1>1 DEF p
    <3>2. \A i \in DOMAIN more : Position(more[i]) <= p
      BY <1>10, <1>13
    <3> QED
      BY <1>9, <1>11, <2>1, <3>1, <3>2 DEF Within
  <2>3. ASSUME sweep.calm
        PROVE  Tells(note, 0)'
    <3>1. note = g /\ Passed(note) = p /\ Tells(g, 1)
      BY <1>1, <1>2, <2>3, CalmIsWhole DEF p
    <3>2. /\ g.count = n + 1 /\ g.total = Len(sweep.plan) /\ Complete(p - 1)
      BY <3>1 DEF Tells, n, p
    <3>3. ASSUME NEW q \in 1 .. p, Readable(sweep.plan[q])
          PROVE  sweep.plan[q] \in Range(more)
      <4>1. CASE q = p
        <5>1. sweep.plan[q] = program
          BY <1>2, <2>3, <4>1, CalmIsWhole
        <5> QED
          BY <1>4, <1>7, <5>1 DEF Range
      <4>2. CASE q # p
        <5>1. q \in 1 .. p - 1
          BY <1>3, <4>2
        <5>2. sweep.plan[q] \in Range(sweep.launched)
          BY <3>2, <3>3, <5>1 DEF Complete
        <5>3. PICK i \in 1 .. n : sweep.plan[q] = sweep.launched[i]
          BY <1>7, <5>2 DEF Range
        <5>4. i \in DOMAIN more /\ more[i] = sweep.plan[q]
          BY <1>4, <1>7, <5>3
        <5> QED
          BY <5>4 DEF Range
      <4> QED
        BY <4>1, <4>2
    <3>4. (Passed(note) - 0)' = p /\ Len(sweep'.launched) + 0 = n + 1
      BY <1>3, <1>4, <1>7, <1>9, <2>1, <3>1
    <3>5. Complete(Passed(note) - 0)'
      BY <1>9, <1>11, <3>3, <3>4 DEF Complete
    <3> QED
      BY <1>8, <1>9, <3>1, <3>2, <3>4, <3>5 DEF Tells
  <2> QED
    BY <1>9, <2>1, <2>2, <2>3
<1> QED
  BY <1>16, <1>17, <1>18, <1>20, <1>21, <1>22

-----------------------------------------------------------------------------
LEMMA InitIInv == Init => IInv
<1> SUFFICES ASSUME Init
             PROVE  IInv
  OBVIOUS
<1>1. /\ at = "boot" /\ after = "next" /\ boot_disk \in {"repl", "extras", "compiler"}
      /\ fate \in Fates /\ note = None /\ log = <<>> /\ swb = {} /\ marker = FALSE
      /\ g = Unset /\ program = None /\ sweep = NoSweep
  BY DEF Init
<1>2. /\ << >> \in Seq(Tests) /\ << >> \in Seq(Programs) /\ << >> \in Seq({"P", "F"})
      /\ {} \in SUBSET Tests /\ {} \in SUBSET Kinds
  OBVIOUS
<1>3. /\ sweep \in Sweeps /\ sweep.launched = << >> /\ sweep.logged = << >> /\ sweep.hurt = {}
  BY <1>1, <1>2 DEF NoSweep, Sweeps
<1>4. PlaceInv
  BY <1>1, <1>3 DEF PlaceInv, Places
<1>5. ProgramInv
  BY <1>1 DEF ProgramInv
<1>6. LogInv
  BY <1>1, <1>2, <1>3 DEF LogInv
<1>7. ChoiceInv /\ NotePhase
  BY <1>1, UnsetFits DEF ChoiceInv, NotePhase, Unset
<1>8. InTurn
  BY <1>2, <1>3 DEF InTurn
<1>9. NoteInv /\ LoopInv /\ PageInv
  BY <1>1 DEF NoteInv, LoopInv, PageInv, Loop, Page
<1> QED
  BY <1>4, <1>5, <1>6, <1>7, <1>8, <1>9 DEF IInv

LEMMA StepIInv == IInv /\ [Next]_vars => IInv'
<1> SUFFICES ASSUME IInv, [Next]_vars
             PROVE  IInv'
  OBVIOUS
<1>1. CASE note_consume \/ chain_testrun \/ RunOwn \/ Interpreter \/ wait_key
  BY <1>1, LauncherSteps
<1>2. CASE test_note_consume
  BY <1>2, TakeUpNote, ChoiceSteps
<1>3. CASE \/ intro_screen \/ selection_screen \/ count_selected \/ NothingToRun
           \/ LeaveResults
  BY <1>3, ChoiceSteps
<1>4. CASE Begin
  BY <1>4, SweepBegins
<1>5. CASE test_note_save
  BY <1>5, SaveSteps
<1>6. CASE run_next
  BY <1>6, LoopTurn
<1>7. CASE countdown
  BY <1>7, TestStarts, SweepStops DEF countdown
<1>8. CASE test_note_destroy \/ tally
  BY <1>8, PageSteps
<1>9. CASE compile_file \/ run_file \/ CleanUp \/ Reset
  BY <1>9, RunnerSteps
<1>10. CASE UNCHANGED vars
  <2>1. UNCHANGED <<at, after, boot_disk, fate, note, log, swb, marker, g, program, sweep>>
    BY <1>10 DEF vars, disk
  <2>2. Steady
    BY <2>1, SteadyCases DEF IInv
  <2>3. /\ \A s : (Cursor(s) => Cursor(s)') /\ Passed(s)' = Passed(s)
        /\ \A k : (Within(k)' <=> Within(k))
        /\ \A s, k : Tells(s, k)' <=> Tells(s, k)
        /\ \A x : (Readable(x)' <=> Readable(x)) /\ Selected(x)' = Selected(x)
        /\ (InTurn => InTurn')
        /\ Tiers' = Tiers /\ Globals' = Globals /\ familyb' = familyb
    BY <2>2, PlanKeeps, Zenon DEF Steady
  <2>4. PlaceInv' /\ NotePhase'
    BY <2>1 DEF IInv, PlaceInv, NotePhase, Kept, Whole
  <2>5. ProgramInv'
    BY <2>1, <2>3, Zenon DEF IInv, ProgramInv
  <2>6. LogInv' /\ ChoiceInv'
    BY <2>1, <2>3 DEF IInv, LogInv, ChoiceInv
  <2>7. NoteInv'
    BY <2>1, <2>2, NoteKeeps DEF IInv
  <2>8. CASE at \in Loop
    <3>1. Pending' <=> Pending
      BY <2>1 DEF Pending
    <3>2. at' \in Page /\ sweep'.calm => g.tier \notin Tiers
      BY <2>1, <2>8 DEF IInv, LoopInv
    <3> QED
      <4>1. LoopInv'
        BY <2>1, <2>2, <2>8, <3>1, <3>2, LoopKeeps
      <4>2. PageInv'
        <5>1. Listed(Verdicts, Selected(g.selmask))' = Listed(Verdicts, Selected(g.selmask))
          BY <2>1, <2>3 DEF Listed, Verdicts
        <5> QED
          BY <2>1, <2>3, <5>1 DEF IInv, PageInv
      <4> QED
        BY <2>3, <2>4, <2>5, <2>6, <2>7, <4>1, <4>2 DEF IInv
  <2>9. CASE at \notin Loop
    <3>1. LoopInv' /\ PageInv'
      BY <2>1, <2>9 DEF LoopInv, PageInv, Loop, Page
    <3> QED
      BY <2>3, <2>4, <2>5, <2>6, <2>7, <3>1 DEF IInv
  <2> QED
    BY <2>8, <2>9
<1> QED
  BY <1>1, <1>2, <1>3, <1>4, <1>5, <1>6, <1>7, <1>8, <1>9, <1>10, Zenon DEF Next

LEMMA AlwaysIInv == Spec => []IInv
BY InitIInv, StepIInv, PTL DEF Spec

(* Every counter of TESTRUN's, and every byte of its note, has a value it  *)
(* can have, whatever is on the disk and whatever fails.                   *)
THEOREM SweepTypeCorrect == Spec => []TypeOK
<1>1. IInv => TypeOK
  <2> SUFFICES ASSUME IInv
               PROVE  TypeOK
    OBVIOUS
  <2> USE DEF IInv
  <2>1. /\ at \in Places /\ after \in {"next", "countdown"}
        /\ boot_disk \in {"repl", "extras", "compiler"} /\ fate \in Fates
        /\ sweep \in Sweeps
    BY DEF PlaceInv
  <2>2. g \in Globals
    BY Zenon DEF LoopInv, ChoiceInv, Cursor, Placed
  <2>3. ASSUME note \notin {None, Empty}
        PROVE  /\ note \in Globals /\ note.selmask # {}
               /\ note.count <= Len(Selected(note.selmask))
    <3>1. Placed(note)
      BY <2>3 DEF NoteInv, Cursor
    <3>2. /\ Passed(note) <= Len(Selected(note.selmask)) /\ Passed(note) \in Nat
          /\ Len(Selected(note.selmask)) \in Nat /\ note.count \in Nat
      BY <2>1, <3>1, CursorPlace
    <3>3. note \in Globals /\ note.selmask # {} /\ note.count <= Passed(note)
      BY <3>1 DEF Placed
    <3> QED
      BY <3>2, <3>3
  <2>4. sweep.named \subseteq Tests /\ sweep.hurt \subseteq Kinds
    BY <2>1 DEF Sweeps
  <2>5. log \in Seq({"P", "F"})
    BY DEF LogInv
  <2>6. /\ marker \in BOOLEAN /\ swb \subseteq Programs /\ program \in Programs \cup {None}
        /\ (familyb \/ (~marker /\ swb = {} /\ log = <<>>))
    BY Zenon DEF ProgramInv
  <2> QED
    BY <2>1, <2>2, <2>3, <2>4, <2>5, <2>6, Zenon DEF TypeOK, Places
<1> QED
  BY <1>1, AlwaysIInv, PTL

(* For any disk, any choice of tiers and any fate of the tests: whatever   *)
(* resets and failing operations come between, run_next starts only tests  *)
(* of the sweep, none twice and none out of turn, unless the note of an    *)
(* earlier sweep, or the one before the last of this, outlived its save;   *)
(* and a sweep nothing came between starts every test that can be read and *)
(* counts them right.                                                      *)
THEOREM SweepOnceInOrder == Spec => []OnceInOrder
<1>1. IInv => OnceInOrder
  <2> SUFFICES ASSUME IInv, "unread" \notin sweep.hurt
               PROVE  /\ Range(sweep.launched) \subseteq Range(sweep.plan)
                      /\ "note" \notin sweep.hurt =>
                           \A i, j \in DOMAIN sweep.launched :
                             i < j => Position(sweep.launched[i]) < Position(sweep.launched[j])
                      /\ at = "results" /\ sweep.calm =>
                           /\ g.count = Len(sweep.launched) /\ g.total = Len(sweep.plan)
                           /\ Range(sweep.launched) =
                                {t \in Range(sweep.plan) : familyb \/ fate[t] # "unreadable"}
    BY DEF OnceInOrder
  <2> USE DEF IInv
  <2>1. /\ \A i \in DOMAIN sweep.launched :
             sweep.launched[i] \in Range(sweep.plan) /\ Readable(sweep.launched[i])
        /\ "note" \notin sweep.hurt =>
             \A i, j \in DOMAIN sweep.launched :
               i < j => Position(sweep.launched[i]) < Position(sweep.launched[j])
    BY DEF InTurn, Whole, Kept
  <2>2. Range(sweep.launched) \subseteq Range(sweep.plan)
    BY <2>1 DEF Range
  <2>3. ASSUME at = "results", sweep.calm
        PROVE  /\ g.count = Len(sweep.launched) /\ g.total = Len(sweep.plan)
               /\ Range(sweep.launched) =
                    {t \in Range(sweep.plan) : familyb \/ fate[t] # "unreadable"}
    <3>1. Due = 0
      BY <2>3 DEF Pending, Due
    <3>2. /\ Cursor(g) /\ Tells(g, 0) /\ g.tier \notin Tiers
      BY <2>3, <3>1 DEF LoopInv, Loop, Page
    <3>3. Placed(g) /\ sweep.plan = Selected(g.selmask)
      BY <3>2 DEF Cursor, Whole
    <3>4. Passed(g) = Len(sweep.plan) /\ Len(sweep.plan) \in Nat
      BY <3>2, <3>3, CursorPlace DEF PlaceInv
    <3>5. /\ Complete(Len(sweep.plan)) /\ g.count = Len(sweep.launched)
          /\ g.total = Len(sweep.plan)
      <4>1. Len(sweep.launched) \in Nat
        BY DEF PlaceInv, Sweeps
      <4>2. Passed(g) - 0 = Len(sweep.plan)
        BY <3>4
      <4> QED
        BY <3>2, <4>1, <4>2 DEF Tells
    <3>6. sweep.plan \in Seq(Tests)
      BY DEF PlaceInv, Sweeps
    <3>7. \A t \in Range(sweep.plan) : Readable(t) => t \in Range(sweep.launched)
      BY <3>5, <3>6 DEF Complete, Range
    <3>8. \A t \in Range(sweep.launched) : Readable(t)
      BY <2>1 DEF Range
    <3> QED
      BY <2>2, <3>5, <3>7, <3>8, Zenon DEF Readable
  <2> QED
    BY <2>1, <2>2, <2>3, Zenon
<1> QED
  BY <1>1, AlwaysIInv, PTL

(* The letters of a log that begins the plan are those of its first tests. *)
LEMMA LettersInPlace ==
  ASSUME NEW s \in Seq(Programs), NEW plan \in Seq(Tests), IsPrefix(s, plan)
  PROVE  /\ Len(s) \in Nat /\ Len(plan) \in Nat /\ Len(s) <= Len(plan)
         /\ \A k \in 1 .. Len(s) : s[k] = plan[k]
<1>1. Len(s) \in Nat /\ Len(plan) \in Nat
  OBVIOUS
<1>2. Len(s) <= Len(plan) /\ SubSeq(s, 1, Len(s)) = SubSeq(plan, 1, Len(s))
  BY DEF IsPrefix
<1>3. \A k \in 1 .. Len(s) : SubSeq(s, 1, Len(s))[k] = s[k] /\ SubSeq(plan, 1, Len(s))[k] = plan[k]
  BY <1>1
<1> QED
  BY <1>1, <1>2, <1>3

(* The results page, which goes by the order of the letters alone, names   *)
(* the tests that printed FAIL, if no verdict before the last is missing,  *)
(* the log was begun anew and holds no other program's letter, and the     *)
(* page could read it and the folders.                                     *)
THEOREM SweepFailuresNamed == Spec => []FailuresNamed
<1>1. IInv => FailuresNamed
  <2> SUFFICES ASSUME IInv, at = "results", familyb, sweep.hurt \subseteq {"note"},
                      IsPrefix(sweep.logged, sweep.plan)
               PROVE  sweep.named = {t \in Range(sweep.logged) : fate[t] = "fails"}
    BY DEF FailuresNamed
  <2> USE DEF IInv
  <2>1. /\ Whole /\ "log" \notin sweep.hurt /\ "page" \notin sweep.hurt
    BY DEF Whole
  <2>2. Cursor(g) /\ Placed(g) /\ sweep.plan = Selected(g.selmask)
    BY <2>1 DEF LoopInv, Loop, Page, Cursor
  <2>3. PICK n \in Nat, m \in Nat : n = Len(sweep.logged) /\ m = Len(sweep.plan)
    BY DEF PlaceInv, Sweeps
  <2>4. /\ n <= m /\ m <= 3 * MAX_ROWS
        /\ \A k \in 1 .. n : sweep.logged[k] = sweep.plan[k]
    <3>1. sweep.logged \in Seq(Programs) /\ sweep.plan \in Seq(Tests)
      BY DEF PlaceInv, Sweeps
    <3>2. m <= 3 * MAX_ROWS
      BY <2>2, <2>3, PlanOfParts
    <3> QED
      BY <2>3, <3>1, <3>2, LettersInPlace
  <2>5. n <= NOTE_BYTES /\ NOTE_BYTES \in Nat
    <3>1. MAX_ROWS \in Nat /\ NOTE_BYTES \in Nat /\ 3 * MAX_ROWS <= NOTE_BYTES
      BY Folders
    <3> QED
      BY <2>4, <3>1
  <2>6. /\ log \in Seq({"P", "F"}) /\ Len(log) = n
        /\ \A k \in 1 .. n : log[k] = "F" <=> fate[sweep.logged[k]] = "fails"
    BY <2>1, <2>3 DEF LogInv
  <2>7. /\ DOMAIN Verdicts = 1 .. n
        /\ \A k \in 1 .. n : Verdicts[k] = log[k]
    <3>1. Min({n, NOTE_BYTES}) = n
      <4>1. \E x \in {n, NOTE_BYTES} : \A y \in {n, NOTE_BYTES} : x =< y
        BY <2>5
      <4>2. PICK x \in {n, NOTE_BYTES} :
              x = Min({n, NOTE_BYTES}) /\ \A y \in {n, NOTE_BYTES} : x =< y
        BY <4>1 DEF Min
      <4> QED
        BY <2>5, <4>2
    <3>2. Verdicts = SubSeq(log, 1, n)
      BY <2>6, <3>1 DEF Verdicts
    <3> QED
      BY <2>3, <2>6, <3>2
  <2>8. DOMAIN sweep.plan = 1 .. m /\ DOMAIN sweep.logged = 1 .. n
    BY <2>3 DEF PlaceInv, Sweeps
  <2> DEFINE failed == {k \in 1 .. n : fate[sweep.logged[k]] = "fails"}
  <2>9. {k \in DOMAIN sweep.plan \cap DOMAIN Verdicts : Verdicts[k] = "F"} = failed
    <3>1. DOMAIN sweep.plan \cap DOMAIN Verdicts = 1 .. n
      BY <2>4, <2>7, <2>8
    <3>2. \A k \in 1 .. n : Verdicts[k] = "F" <=> fate[sweep.logged[k]] = "fails"
      BY <2>6, <2>7
    <3> QED
      BY <3>1, <3>2
  <2>10. sweep.named = {sweep.plan[k] : k \in failed}
    <3>1. sweep.named = Listed(Verdicts, sweep.plan)
      BY <2>1, <2>2 DEF PageInv
    <3> HIDE DEF failed
    <3> QED
      BY <2>9, <3>1, Zenon DEF Listed
  <2>11. \A k \in failed : sweep.plan[k] = sweep.logged[k]
    BY <2>4
  <2>12. sweep.named = {sweep.logged[k] : k \in failed}
    <3> HIDE DEF failed
    <3> QED
      BY <2>10, <2>11, Zenon
  <2> QED
    BY <2>8, <2>12, Zenon DEF Range
<1> QED
  BY <1>1, AlwaysIInv, PTL
=============================================================================
