--------------------------- MODULE CompilerProofs ---------------------------
(***************************************************************************)
(* What the compiler's one pass keeps in order while it parses, for every  *)
(* size of its tables: the types, where the jumps to be patched are, how   *)
(* the blocks share the locals, and what a rolled back line restores.      *)
(***************************************************************************)
EXTENDS Compiler, SequenceTheorems, FiniteSetTheorems, WellFoundedInduction, TLAPS

AllAvoided == Avoided = {"break_over_locals", "func_in_block", "last_byte",
                         "two_redefinitions"}

-----------------------------------------------------------------------------
(* Types. *)
Path == Seq(Nat \cup ({"then", "else", "while", "for"} \X Nat))
Byte == 0 .. 255
CellType == [b : Byte, at : Nat \cup {Operand}, path : Path]
IsCode(c) == c \in Seq(CellType)

LoopKinds == {"while", "for"}
ArmKinds  == {"then", "else"}
Arm  == [kind : ArmKinds, id : Nat, base : Nat, patch : Nat]
Loop == [kind : LoopKinds, id : Nat, base : Nat, start : Nat, exit : Nat]
Func == [kind : {"func"}, id : Nat, base : {0}, start : Nat]
Construct == Arm \cup Loop \cup Func
IsStack(s) == s \in Seq(Construct)
IsTable(l) == l \in Seq(Seq(Nat))

FuncType == [start : Nat, params : 0 .. MAX_LOCALS, ret : BOOLEAN]

Typed ==
  /\ phase \in {"prompt", "parse", "run"}
  /\ IsCode(code) /\ Len(code) <= FILE_BC_SIZE /\ arena \in 0 .. Len(code)
  /\ funcs \in Seq(FuncType) /\ Len(funcs) <= MAX_FUNCS
  /\ IsStack(open)
  /\ IsTable(loops) /\ Len(loops) <= LOOPS_MAX_DEPTH
  /\ \A i \in DOMAIN loops : Len(loops[i]) <= LOOPS_MAX_BREAKS_LOOP
  /\ locals \in 0 .. MAX_LOCALS
  /\ frames \in Seq(Range(frames)) /\ Len(frames) <= VM_CALL_FRAMES
  /\ typed \in Nat

-----------------------------------------------------------------------------
(* The parser's recursion. *)
Count(K, s, k) == Cardinality({i \in 1 .. k : s[i].kind \in K})

Within(s) == s # <<>> /\ s[1].kind = "func"
Nested == Within(open)
Lo == IF Nested THEN open[1].start ELSE arena

Slot(o) == IF o.kind = "for" THEN 1 ELSE 0

(* Functions do not nest; the blocks of a function share its locals, and   *)
(* those at the prompt have none; no two constructs have the same name;    *)
(* there is a row of breaks for every loop.                                *)
StackInv ==
  /\ \A k \in DOMAIN open : open[k].kind = "func" => k = 1
  /\ ~Nested => locals = 0 /\ \A k \in DOMAIN open : open[k].base = 0
  /\ Nested => /\ \A k \in DOMAIN open : open[k].base <= locals
               /\ \A j, k \in DOMAIN open :
                    j < k => open[j].base + Slot(open[k]) <= open[k].base
  /\ \A k \in DOMAIN open : open[k].kind # "func" => open[k].id < typed
  /\ \A j, k \in DOMAIN open :
       j # k /\ open[j].kind # "func" /\ open[k].kind # "func" => open[j].id # open[k].id
  /\ Len(loops) = Count(LoopKinds, open, Len(open))

(* Where the operands are that construct k parks until it ends. *)
ParkedIn(s, l, k) ==
  IF s[k].kind \in ArmKinds THEN {s[k].patch}
  ELSE IF s[k].kind \in LoopKinds
       THEN {s[k].exit} \cup Range(l[Count(LoopKinds, s, k)])
       ELSE {}
Parked(k) == ParkedIn(open, loops, k)
Pending == UNION {Parked(k) : k \in DOMAIN open}

(* They, and the loops that are still to jump back, are in the code of the *)
(* function that is being compiled.                                        *)
PlacesInv ==
  /\ \A k \in DOMAIN open :
       /\ \A s \in Parked(k) : s \in Lo + 2 .. Len(code) - 1
       /\ open[k].kind \in LoopKinds => open[k].start \in Lo + 1 .. Len(code)
  /\ Nested => open[1].start \in arena .. Len(code) /\ open[1].id \in DOMAIN funcs

(* What a rollback needs of the line so far. *)
TraceInv ==
  /\ saved.count = Len(saved.funcs) /\ saved.count <= Len(funcs)
  /\ saved.funcs \in Seq(FuncType)
  /\ saved.arena \in 0 .. arena
  /\ saved.bytes \in Seq(CellType) /\ Len(saved.bytes) = saved.arena
  /\ \A i \in 1 .. saved.arena : code[i] = saved.bytes[i]
  /\ \A f \in 1 .. saved.count : saved.funcs[f].start <= saved.arena
  /\ \A f \in 1 .. saved.count :
       IF f = replaced.idx THEN replaced.entry = saved.funcs[f] ELSE funcs[f] = saved.funcs[f]
  /\ Nested => open[1].id > saved.count \/ open[1].id = replaced.idx

Base ==
  /\ Typed /\ StackInv
  /\ phase # "parse" => open = <<>>
  /\ phase = "prompt" => Len(code) = arena /\ replaced = NoReplacement
  /\ phase = "parse" => PlacesInv /\ TraceInv
  /\ \A f \in DOMAIN funcs : funcs[f].start <= arena

-----------------------------------------------------------------------------
(* Constructs, and stacks of them. *)
LEMMA FrontOf ==
  ASSUME NEW S, NEW s \in Seq(S), s # <<>>
  PROVE  /\ Front(s) \in Seq(S) /\ Len(Front(s)) = Len(s) - 1
         /\ \A k \in 1 .. Len(s) - 1 : Front(s)[k] = s[k]
<1>1. Len(s) \in Nat \ {0} /\ \A i \in 1 .. Len(s) : s[i] \in S
  OBVIOUS
<1>2. \A i \in 1 .. Len(s) - 1 : s[i] \in S
  BY <1>1
<1>3. PICK n \in Nat : Len(s) = n + 1
  BY <1>1
<1>4. /\ SubSeq(s, 1, n) \in Seq(S)
      /\ Len(SubSeq(s, 1, n)) = IF 1 <= n THEN n - 1 + 1 ELSE 0
      /\ \A i \in 1 .. n - 1 + 1 : SubSeq(s, 1, n)[i] = s[1 + i - 1]
  BY <1>2, <1>3, SubSeqProperties
<1>5. Front(s) = SubSeq(s, 1, n) /\ Len(s) - 1 = n /\ n - 1 + 1 = n
  BY <1>3 DEF Front
<1>6. \A i \in 1 .. n : 1 + i - 1 = i
  OBVIOUS
<1> QED
  BY ONLY <1>4, <1>5, <1>6, n \in Nat

LEMMA ConstructFacts ==
  ASSUME NEW o \in Construct
  PROVE  /\ o.kind \in ArmKinds \cup LoopKinds \cup {"func"}
         /\ o.id \in Nat /\ o.base \in Nat
         /\ o.kind \in ArmKinds => o.patch \in Nat
         /\ o.kind \in LoopKinds => o.start \in Nat /\ o.exit \in Nat
         /\ o.kind = "func" => o.start \in Nat /\ o.base = 0
  BY DEF Construct, Arm, Loop, Func, ArmKinds, LoopKinds

LEMMA StackFacts ==
  ASSUME NEW s, IsStack(s)
  PROVE  /\ Len(s) \in Nat /\ DOMAIN s = 1 .. Len(s)
         /\ \A k \in 1 .. Len(s) : s[k] \in Construct
         /\ s = <<>> <=> Len(s) = 0
         /\ Last(s) = s[Len(s)]
  BY DEF IsStack, Last

LEMMA Pushed ==
  ASSUME NEW s, IsStack(s), NEW o \in Construct, NEW t, t = Append(s, o)
  PROVE  /\ IsStack(t) /\ Len(t) = Len(s) + 1
         /\ \A k \in 1 .. Len(s) : t[k] = s[k]
         /\ t[Len(s) + 1] = o
  BY DEF IsStack

LEMMA Popped ==
  ASSUME NEW s, IsStack(s), s # <<>>, NEW t, t = Front(s)
  PROVE  /\ IsStack(t) /\ Len(t) = Len(s) - 1
         /\ \A k \in 1 .. Len(t) : t[k] = s[k]
  BY FrontOf, StackFacts DEF IsStack

LEMMA TableFacts ==
  ASSUME NEW l, IsTable(l)
  PROVE  /\ Len(l) \in Nat /\ DOMAIN l = 1 .. Len(l)
         /\ \A k \in 1 .. Len(l) : l[k] \in Seq(Nat) /\ Len(l[k]) \in Nat
         /\ l = <<>> <=> Len(l) = 0
         /\ Last(l) = l[Len(l)]
  BY DEF IsTable, Last

LEMMA RowAdded ==
  ASSUME NEW l, IsTable(l), NEW m, m = Append(l, <<>>)
  PROVE  /\ IsTable(m) /\ Len(m) = Len(l) + 1
         /\ \A k \in 1 .. Len(l) : m[k] = l[k]
         /\ m[Len(l) + 1] = <<>>
  BY DEF IsTable

LEMMA RowDropped ==
  ASSUME NEW l, IsTable(l), l # <<>>, NEW m, m = Front(l)
  PROVE  /\ IsTable(m) /\ Len(m) = Len(l) - 1
         /\ \A k \in 1 .. Len(m) : m[k] = l[k]
  BY FrontOf, TableFacts DEF IsTable

LEMMA RowExtended ==
  ASSUME NEW l, IsTable(l), l # <<>>, NEW at \in Nat, NEW m,
         m = Append(Front(l), Append(Last(l), at))
  PROVE  /\ IsTable(m) /\ Len(m) = Len(l)
         /\ \A k \in 1 .. Len(l) - 1 : m[k] = l[k]
         /\ Len(m[Len(l)]) = Len(l[Len(l)]) + 1
         /\ Range(m[Len(l)]) = Range(l[Len(l)]) \cup {at}
<1>1. IsTable(Front(l)) /\ Len(Front(l)) = Len(l) - 1
      /\ \A k \in 1 .. Len(l) - 1 : Front(l)[k] = l[k]
  BY RowDropped
<1>2. Last(l) = l[Len(l)] /\ Last(l) \in Seq(Nat) /\ Len(l) \in Nat \ {0}
  BY TableFacts
<1>3. Append(Last(l), at) \in Seq(Nat) /\ Len(Append(Last(l), at)) = Len(Last(l)) + 1
  BY <1>2
<1>4. IsTable(m) /\ Len(m) = Len(l) /\ m[Len(l)] = Append(Last(l), at)
      /\ \A k \in 1 .. Len(l) - 1 : m[k] = l[k]
  BY <1>1, <1>2, <1>3 DEF IsTable
<1>5. Range(Append(Last(l), at)) = Range(Last(l)) \cup {at}
  <2> DEFINE r == Last(l)
  <2>1. r \in Seq(Nat)
    BY <1>2
  <2> HIDE DEF r
  <2>2. /\ Len(Append(r, at)) = Len(r) + 1 /\ Append(r, at) \in Seq(Nat)
        /\ \A i \in 1 .. Len(r) : Append(r, at)[i] = r[i]
        /\ Append(r, at)[Len(r) + 1] = at
    BY <2>1, AppendProperties
  <2>3. Len(r) \in Nat
    BY <2>1
  <2>4. 1 .. Len(r) + 1 = 1 .. Len(r) \cup {Len(r) + 1}
    BY <2>3
  <2>5. /\ Range(r) = {r[i] : i \in 1 .. Len(r)}
        /\ Range(Append(r, at)) = {Append(r, at)[i] : i \in 1 .. Len(r) + 1}
    BY <2>1, <2>2, RangeEquality
  <2>6. Range(Append(r, at)) = Range(r) \cup {at}
    BY <2>2, <2>4, <2>5
  <2> QED
    BY <2>6 DEF r
<1> QED
  BY <1>2, <1>3, <1>4, <1>5

-----------------------------------------------------------------------------
(* Counting. *)
LEMMA Picked ==
  ASSUME NEW K, NEW s, NEW k \in Nat
  PROVE  IsFiniteSet({i \in 1 .. k : s[i].kind \in K})
<1>1. IsFiniteSet(1 .. k)
  BY FS_Interval
<1>2. {i \in 1 .. k : s[i].kind \in K} \in SUBSET (1 .. k)
  OBVIOUS
<1> QED
  BY <1>1, <1>2, FS_Subset

LEMMA CountNat ==
  ASSUME NEW K, NEW s, NEW k \in Nat
  PROVE  Count(K, s, k) \in Nat /\ Count(K, s, 0) = 0
<1>1. IsFiniteSet({i \in 1 .. k : s[i].kind \in K})
  BY Picked
<1>2. {i \in 1 .. 0 : s[i].kind \in K} = {}
  OBVIOUS
<1> QED
  BY <1>1, <1>2, FS_CardinalityType, FS_EmptySet DEF Count

LEMMA CountStep ==
  ASSUME NEW K, NEW s, NEW k \in Nat
  PROVE  Count(K, s, k + 1) = Count(K, s, k) + (IF s[k + 1].kind \in K THEN 1 ELSE 0)
<1> DEFINE S == {i \in 1 .. k : s[i].kind \in K}
<1>1. IsFiniteSet(S)
  BY Picked
<1>2. k + 1 \notin S
  OBVIOUS
<1>3. /\ s[k + 1].kind \in K => {i \in 1 .. k + 1 : s[i].kind \in K} = S \cup {k + 1}
      /\ s[k + 1].kind \notin K => {i \in 1 .. k + 1 : s[i].kind \in K} = S
  OBVIOUS
<1>6. Count(K, s, k) = Cardinality(S)
  BY DEF Count
<1>7. /\ s[k + 1].kind \in K => Count(K, s, k + 1) = Cardinality(S \cup {k + 1})
      /\ s[k + 1].kind \notin K => Count(K, s, k + 1) = Cardinality(S)
  BY <1>3 DEF Count
<1> HIDE DEF S
<1>4. Cardinality(S \cup {k + 1}) = Cardinality(S) + 1
  BY <1>1, <1>2, FS_AddElement
<1>5. Cardinality(S) \in Nat
  BY <1>1, FS_CardinalityType
<1> QED
  BY <1>4, <1>5, <1>6, <1>7

LEMMA CountAgrees ==
  ASSUME NEW K, NEW s, NEW t, NEW k \in Nat, \A i \in 1 .. k : s[i].kind = t[i].kind
  PROVE  Count(K, s, k) = Count(K, t, k)
<1>1. {i \in 1 .. k : s[i].kind \in K} = {i \in 1 .. k : t[i].kind \in K}
  OBVIOUS
<1> QED
  BY <1>1 DEF Count

LEMMA CountUpTo ==
  ASSUME NEW K, NEW s, NEW k \in Nat, NEW j \in 0 .. k
  PROVE  /\ Count(K, s, j) <= Count(K, s, k)
         /\ \A i \in 1 .. j : s[i].kind \in K => 1 <= Count(K, s, j)
         /\ \A i \in j + 1 .. k : s[i].kind \in K => Count(K, s, j) < Count(K, s, k)
<1> DEFINE S == {i \in 1 .. k : s[i].kind \in K}
           T == {i \in 1 .. j : s[i].kind \in K}
<1>1. IsFiniteSet(S) /\ T \in SUBSET S
  BY Picked
<1>6. /\ \A i \in 1 .. j : s[i].kind \in K => i \in T
      /\ \A i \in j + 1 .. k : s[i].kind \in K => i \in S /\ i \notin T
  OBVIOUS
<1>7. Count(K, s, j) = Cardinality(T) /\ Count(K, s, k) = Cardinality(S)
  BY DEF Count
<1> HIDE DEF S, T
<1>2. IsFiniteSet(T) /\ Cardinality(T) <= Cardinality(S) /\ (Cardinality(S) = Cardinality(T) => S = T)
  BY <1>1, FS_Subset
<1>3. Cardinality(S) \in Nat /\ Cardinality(T) \in Nat
  BY <1>1, <1>2, FS_CardinalityType
<1>4. ASSUME NEW i \in T PROVE 1 <= Cardinality(T)
  BY <1>2, <1>3, <1>4, FS_EmptySet
<1>5. ASSUME NEW i \in S, i \notin T PROVE Cardinality(T) < Cardinality(S)
  BY <1>2, <1>3, <1>5
<1> QED
  BY <1>2, <1>4, <1>5, <1>6, <1>7

-----------------------------------------------------------------------------
(* Where the parser is. *)
LEMMA FuncAtIs ==
  ASSUME NEW s, IsStack(s), \A k \in DOMAIN s : s[k].kind = "func" => k = 1
  PROVE  FuncAt(s) = IF Within(s) THEN 1 ELSE 0
<1>1. Len(s) \in Nat /\ DOMAIN s = 1 .. Len(s) /\ (s = <<>> <=> Len(s) = 0)
  BY StackFacts
<1>2. CASE Within(s)
  <2>1. {k \in DOMAIN s : s[k].kind = "func"} = {1}
    BY <1>1, <1>2 DEF Within
  <2>2. Max({1}) = 1
    BY DEF Max
  <2> QED
    BY <1>2, <2>1, <2>2 DEF FuncAt
<1>3. CASE ~Within(s)
  <2>1. {k \in DOMAIN s : s[k].kind = "func"} = {}
    BY <1>1, <1>3 DEF Within
  <2> QED
    BY <1>3, <2>1 DEF FuncAt
<1> QED
  BY <1>2, <1>3

UnitOf(s) == IF Within(s) THEN s[1].id ELSE 0

LEMMA PathFacts ==
  ASSUME NEW s, IsStack(s), \A k \in DOMAIN s : s[k].kind = "func" => k = 1
  PROVE  /\ PathOf(s) \in Path
         /\ PathOf(s)[1] = UnitOf(s) /\ UnitOf(s) \in Nat
         /\ Len(PathOf(s)) = 1 + Len(s) - FuncAt(s)
         /\ \A i \in 1 .. Len(s) - FuncAt(s) :
              PathOf(s)[i + 1] = <<s[FuncAt(s) + i].kind, s[FuncAt(s) + i].id>>
<1> DEFINE f == FuncAt(s)
           T == Nat \cup ({"then", "else", "while", "for"} \X Nat)
           n == Len(s) - f
           g == [i \in 1 .. n |-> <<s[f + i].kind, s[f + i].id>>]
           u == IF f = 0 THEN 0 ELSE s[f].id
<1>1. Len(s) \in Nat /\ DOMAIN s = 1 .. Len(s) /\ (s = <<>> <=> Len(s) = 0)
      /\ \A k \in 1 .. Len(s) : s[k] \in Construct
  BY StackFacts
<1>2. f \in {0, 1} /\ (f = 1 <=> Within(s)) /\ f <= Len(s)
  BY <1>1, FuncAtIs DEF Within
<1>3. n \in Nat
  BY <1>1, <1>2
<1>4. u \in Nat /\ u = UnitOf(s)
  BY <1>1, <1>2, ConstructFacts DEF UnitOf, Within
<1>5. ASSUME NEW i \in 1 .. n PROVE <<s[f + i].kind, s[f + i].id>> \in T
  <2>1. f + i \in 1 .. Len(s)
    BY <1>1, <1>2
  <2>2. s[f + i].kind # "func"
    BY <1>1, <1>2, <2>1 DEF Within
  <2>3. s[f + i].kind \in {"then", "else", "while", "for"} /\ s[f + i].id \in Nat
    BY <1>1, <2>1, <2>2, ConstructFacts DEF ArmKinds, LoopKinds
  <2> QED
    BY <2>3
<1>6. PathOf(s) = <<u>> \o g
  BY DEF PathOf
<1> HIDE DEF T, n, u, f
<1>7. g \in Seq(T) /\ Len(g) = n
  BY <1>3, <1>5
<1>8. u \in T
  BY <1>4 DEF T
<1> HIDE DEF g
<1>9. /\ <<u>> \o g \in Seq(T) /\ Len(<<u>> \o g) = 1 + n
      /\ (<<u>> \o g)[1] = u
      /\ \A i \in 1 .. n : (<<u>> \o g)[i + 1] = g[i]
  <2>1. <<u>> \in Seq(T) /\ Len(<<u>>) = 1 /\ <<u>>[1] = u
    BY <1>8
  <2>2. /\ <<u>> \o g \in Seq(T) /\ Len(<<u>> \o g) = 1 + n
        /\ \A i \in 1 .. 1 + n : (<<u>> \o g)[i] = IF i <= 1 THEN <<u>>[i] ELSE g[i - 1]
    BY <1>3, <1>7, <2>1, ConcatProperties
  <2> HIDE DEF g
  <2>3. \A i \in 1 .. n : i + 1 \in 1 .. 1 + n /\ ~(i + 1 <= 1) /\ (i + 1) - 1 = i
    BY <1>3
  <2> QED
    BY <1>3, <2>1, <2>2, <2>3
<1>10. 1 + Len(s) - f = 1 + n /\ Len(s) - f = n
  BY <1>1, <1>2 DEF n
<1>11. \A i \in 1 .. n : g[i] = <<s[f + i].kind, s[f + i].id>>
  BY DEF g
<1> QED
  BY <1>4, <1>6, <1>8, <1>9, <1>10, <1>11 DEF Path, T, f

LEMMA InFunctionIs ==
  ASSUME IsStack(open), StackInv
  PROVE  /\ InFunction <=> Nested
         /\ Nested => Function = open[1]
         /\ OpenFors = Count({"for"}, open, Len(open)) /\ OpenFors \in Nat
         /\ PathOf(open) \in Path
<1>1. FuncAt(open) = IF Nested THEN 1 ELSE 0
  BY FuncAtIs DEF StackInv, Nested
<1>2. Len(open) \in Nat /\ DOMAIN open = 1 .. Len(open)
  BY StackFacts
<1>3. {k \in DOMAIN open : open[k].kind = "for"} = {k \in 1 .. Len(open) : open[k].kind \in {"for"}}
  BY <1>2
<1>4. OpenFors = Count({"for"}, open, Len(open))
  BY <1>3 DEF OpenFors, Count
<1>5. PathOf(open) \in Path
  BY PathFacts DEF StackInv
<1> QED
  BY <1>1, <1>2, <1>4, <1>5, CountNat DEF InFunction, Function

(* How deep the stack is, and how deep it is once the innermost block's    *)
(* locals are gone.                                                        *)
Level(k) == IF Nested THEN open[k].base ELSE Count({"for"}, open, k)

LEMMA Depths ==
  ASSUME IsStack(open), StackInv, locals \in Nat
  PROVE  /\ Depth \in Nat /\ (Nested => Depth = locals)
         /\ ~Nested => Depth = Count({"for"}, open, Len(open))
         /\ \A k \in DOMAIN open : Level(k) \in Nat
         /\ open # <<>> =>
              /\ Innermost = open[Len(open)] /\ Innermost \in Construct
              /\ Innermost.base <= locals
              /\ DepthLeft = Level(Len(open))
              /\ Depth = DepthLeft + (locals - Innermost.base)
<1>1. /\ Len(open) \in Nat /\ DOMAIN open = 1 .. Len(open)
      /\ \A k \in 1 .. Len(open) : open[k] \in Construct
      /\ open = <<>> <=> Len(open) = 0
      /\ Innermost = open[Len(open)]
  BY StackFacts DEF Innermost
<1>2. InFunction <=> Nested
  BY InFunctionIs
<1>3. OpenFors = Count({"for"}, open, Len(open)) /\ OpenFors \in Nat
  BY InFunctionIs
<1>4. \A k \in 1 .. Len(open) : Count({"for"}, open, k) \in Nat /\ open[k].base \in Nat
  BY <1>1, CountNat, ConstructFacts
<1>5. Depth \in Nat /\ (Nested => Depth = locals) /\ (~Nested => Depth = OpenFors)
  BY <1>2, <1>3 DEF Depth
<1>6. ASSUME open # <<>>
      PROVE  /\ Innermost \in Construct /\ Innermost.base <= locals
             /\ DepthLeft = Level(Len(open)) /\ Depth = DepthLeft + (locals - Innermost.base)
  <2>1. Len(open) \in 1 .. Len(open) /\ Innermost \in Construct /\ Innermost.base \in Nat
    BY <1>1, <1>4, <1>6
  <2>2. Nested => Innermost.base <= locals
    BY <1>1, <2>1 DEF StackInv
  <2>3. ~Nested => locals = 0 /\ Innermost.base = 0
    BY <1>1, <2>1 DEF StackInv
  <2> QED
    BY <1>1, <1>3, <1>5, <2>1, <2>2, <2>3 DEF DepthLeft, Level
<1> QED
  BY <1>1, <1>3, <1>4, <1>5, <1>6 DEF Level

-----------------------------------------------------------------------------
(* The code. *)
LEMMA CodeFacts ==
  ASSUME NEW c, IsCode(c)
  PROVE  /\ Len(c) \in Nat /\ DOMAIN c = 1 .. Len(c)
         /\ \A i \in 1 .. Len(c) : c[i] \in CellType
  BY DEF IsCode

(* c2 is c, but for bytes of operands parked at S, and more. *)
Grown(c, c2, S) ==
  /\ IsCode(c2) /\ Len(c) <= Len(c2)
  /\ \A i \in 1 .. Len(c) :
       /\ c2[i].at = c[i].at /\ c2[i].path = c[i].path
       /\ (i \notin S /\ i - 1 \notin S) => c2[i] = c[i]

LEMMA GrownSelf ==
  ASSUME NEW c, IsCode(c), NEW S
  PROVE  Grown(c, c, S)
  BY CodeFacts DEF Grown

Begins(c, e) == \A i \in 1 .. Len(c) : e[i] = c[i]

LEMMA Extended ==
  ASSUME NEW c, IsCode(c), NEW n \in Nat, NEW g \in [1 .. n -> CellType]
  PROVE  /\ IsCode(c \o g) /\ Len(c \o g) = Len(c) + n
         /\ Begins(c, c \o g)
         /\ \A i \in 1 .. n : (c \o g)[Len(c) + i] = g[i]
<1>1. g \in Seq(CellType) /\ Len(g) = n
  OBVIOUS
<1>2. /\ c \o g \in Seq(CellType)
      /\ Len(c \o g) = Len(c) + Len(g)
      /\ \A i \in 1 .. Len(c) + Len(g) :
           (c \o g)[i] = IF i <= Len(c) THEN c[i] ELSE g[i - Len(c)]
  BY <1>1, ConcatProperties DEF IsCode
<1> HIDE DEF CellType
<1>3. Len(c) \in Nat
  BY CodeFacts
<1>4. \A i \in 1 .. n : Len(c) + i \in 1 .. Len(c) + n /\ ~(Len(c) + i <= Len(c))
                        /\ (Len(c) + i) - Len(c) = i
  BY <1>3
<1>5. \A i \in 1 .. Len(c) : i \in 1 .. Len(c) + n /\ i <= Len(c)
  BY <1>3
<1> QED
  BY <1>1, <1>2, <1>4, <1>5 DEF IsCode, Begins

LEMMA GrownExtended ==
  ASSUME NEW c, IsCode(c), NEW S, NEW c1, Grown(c, c1, S), NEW c2, IsCode(c2),
         Len(c1) <= Len(c2), Begins(c1, c2)
  PROVE  Grown(c, c2, S)
<1>1. Len(c) \in Nat /\ Len(c1) \in Nat /\ Len(c2) \in Nat /\ Len(c) <= Len(c1)
  BY CodeFacts DEF Grown
<1>2. \A i \in 1 .. Len(c) : c2[i] = c1[i]
  BY <1>1 DEF Begins
<1> QED
  BY <1>1, <1>2 DEF Grown

IsBytes(ins) == ins \in Seq(Byte)

LEMMA BytesFacts ==
  ASSUME NEW ins, IsBytes(ins)
  PROVE  Len(ins) \in Nat /\ \A i \in 1 .. Len(ins) : ins[i] \in Byte
  BY LenProperties, ElementOfSeq DEF IsBytes

EmittedCells(c, d, ins, e) ==
  \A i \in 1 .. Len(ins) : e[Len(c) + i] = Cell(ins[i], IF i = 1 THEN d ELSE Operand)

LEMMA Emitted ==
  ASSUME NEW c, IsCode(c), PathOf(open) \in Path, NEW d \in Nat, NEW ins, IsBytes(ins),
         NEW e, e = Emit(c, d, ins)
  PROVE  /\ IsCode(e) /\ Len(e) = Len(c) + Len(ins)
         /\ Begins(c, e)
         /\ EmittedCells(c, d, ins, e)
<1> DEFINE g == [i \in 1 .. Len(ins) |-> Cell(ins[i], IF i = 1 THEN d ELSE Operand)]
<1>1. Len(ins) \in Nat /\ \A i \in 1 .. Len(ins) : ins[i] \in Byte
  BY BytesFacts
<1>2. ASSUME NEW i \in 1 .. Len(ins)
      PROVE  Cell(ins[i], IF i = 1 THEN d ELSE Operand) \in CellType
  BY <1>1 DEF Cell, CellType
<1>3. g \in [1 .. Len(ins) -> CellType]
  BY <1>2
<1>4. Emit(c, d, ins) = c \o g
  BY DEF Emit
<1>5. \A i \in 1 .. Len(ins) : g[i] = Cell(ins[i], IF i = 1 THEN d ELSE Operand)
  OBVIOUS
<1> HIDE DEF g
<1> DEFINE n == Len(ins)
<1>6. n \in Nat /\ g \in [1 .. n -> CellType]
  BY <1>1, <1>3
<1> HIDE DEF n
<1>7. /\ IsCode(c \o g) /\ Len(c \o g) = Len(c) + n
      /\ Begins(c, c \o g)
      /\ \A i \in 1 .. n : (c \o g)[Len(c) + i] = g[i]
  BY ONLY <1>6, Extended, IsCode(c)
<1> USE DEF n
<1>8. \A i \in 1 .. Len(ins) : (c \o g)[Len(c) + i] = Cell(ins[i], IF i = 1 THEN d ELSE Operand)
  BY ONLY <1>5, <1>7 DEF n
<1> QED
  BY ONLY <1>4, <1>7, <1>8, e = Emit(c, d, ins) DEF n, EmittedCells

(* e is c1 and n more cells, and grown from c. *)
Adds(c, c1, e, S, n) == Grown(c, e, S) /\ Len(e) = Len(c1) + n

LEMMA AddsGrown ==
  ASSUME NEW c, NEW c1, NEW e, NEW S, NEW n, Adds(c, c1, e, S, n)
  PROVE  Grown(c, e, S)
  BY DEF Adds

LEMMA GrownEmit ==
  ASSUME NEW c, IsCode(c), NEW S, NEW c1, Grown(c, c1, S),
         PathOf(open) \in Path, NEW d \in Nat, NEW ins, IsBytes(ins), NEW n, Len(ins) = n,
         NEW e, e = Emit(c1, d, ins)
  PROVE  Adds(c, c1, e, S, n)
<1>1. IsCode(c1)
  BY DEF Grown
<1>2. IsCode(e) /\ Len(e) = Len(c1) + Len(ins) /\ Begins(c1, e)
  BY <1>1, Emitted, ZenonT(60)
<1>3. Len(ins) \in Nat /\ Len(c1) \in Nat
  BY <1>1, CodeFacts, BytesFacts
<1>4. Len(c1) <= Len(e)
  BY <1>2, <1>3
<1> QED
  BY <1>2, <1>4, GrownExtended DEF Adds

LEMMA OffsetBytes ==
  /\ \A x \in Int : x % 256 \in Byte
  /\ \A x \in Nat : x < 65536 => x \div 256 \in Byte
  BY SMTT(30) DEF Byte

LEMMA PatchedCell ==
  ASSUME NEW x \in CellType, NEW b \in Byte, NEW y, y = [x EXCEPT !.b = b]
  PROVE  y \in CellType /\ y.b = b /\ y.at = x.at /\ y.path = x.path
  BY DEF CellType

LEMMA Patched ==
  ASSUME NEW c, IsCode(c), NEW n, n = Len(c), n < 65536, NEW S,
         NEW p, p = patch_jump_to_here(c, S)
  PROVE  /\ IsCode(p) /\ Len(p) = n
         /\ \A i \in 1 .. n :
              /\ p[i] \in CellType /\ p[i].at = c[i].at /\ p[i].path = c[i].path
              /\ i \in S => p[i].b = ((n + 1) - (i + 2)) % 256
              /\ (i \notin S /\ i - 1 \in S) => p[i].b = ((n + 1) - ((i - 1) + 2)) \div 256
              /\ (i \notin S /\ i - 1 \notin S) => p[i] = c[i]
<1>1. n \in Nat /\ DOMAIN c = 1 .. n /\ \A i \in 1 .. n : c[i] \in CellType
  BY CodeFacts
<1>2. p = [i \in DOMAIN c |->
             IF i \in S THEN [c[i] EXCEPT !.b = ((Len(c) + 1) - (i + 2)) % 256]
             ELSE IF i - 1 \in S
                  THEN [c[i] EXCEPT !.b = ((Len(c) + 1) - ((i - 1) + 2)) \div 256]
                  ELSE c[i]]
  BY ONLY p = patch_jump_to_here(c, S) DEF patch_jump_to_here, Here
<1>3. ASSUME NEW i \in 1 .. n
      PROVE  /\ i \in S => p[i] = [c[i] EXCEPT !.b = ((n + 1) - (i + 2)) % 256]
             /\ (i \notin S /\ i - 1 \in S)
                  => p[i] = [c[i] EXCEPT !.b = ((n + 1) - ((i - 1) + 2)) \div 256]
             /\ (i \notin S /\ i - 1 \notin S) => p[i] = c[i]
  <2>1. i \in DOMAIN c
    BY ONLY <1>1, <1>3
  <2>2. p[i] = IF i \in S THEN [c[i] EXCEPT !.b = ((Len(c) + 1) - (i + 2)) % 256]
               ELSE IF i - 1 \in S
                    THEN [c[i] EXCEPT !.b = ((Len(c) + 1) - ((i - 1) + 2)) \div 256]
                    ELSE c[i]
    BY ONLY <1>2, <2>1, Zenon
  <2> QED
    BY ONLY <2>2, n = Len(c), Zenon
<1>4. ASSUME NEW i \in 1 .. n
      PROVE  /\ ((n + 1) - (i + 2)) % 256 \in Byte
             /\ ((n + 1) - ((i - 1) + 2)) \div 256 \in Byte
  <2>1. (n + 1) - (i + 2) \in Int /\ (n + 1) - ((i - 1) + 2) \in Nat
        /\ (n + 1) - ((i - 1) + 2) < 65536
    BY ONLY <1>1, n < 65536, <1>4
  <2> QED
    BY ONLY <2>1, OffsetBytes
<1>5. ASSUME NEW i \in 1 .. n
      PROVE  /\ p[i] \in CellType /\ p[i].at = c[i].at /\ p[i].path = c[i].path
             /\ i \in S => p[i].b = ((n + 1) - (i + 2)) % 256
             /\ (i \notin S /\ i - 1 \in S) => p[i].b = ((n + 1) - ((i - 1) + 2)) \div 256
             /\ (i \notin S /\ i - 1 \notin S) => p[i] = c[i]
  <2> DEFINE low == ((n + 1) - (i + 2)) % 256
             high == ((n + 1) - ((i - 1) + 2)) \div 256
  <2>1. c[i] \in CellType /\ low \in Byte /\ high \in Byte
    BY ONLY <1>1, <1>4, <1>5
  <2>2. /\ i \in S => p[i] = [c[i] EXCEPT !.b = low]
        /\ (i \notin S /\ i - 1 \in S) => p[i] = [c[i] EXCEPT !.b = high]
        /\ (i \notin S /\ i - 1 \notin S) => p[i] = c[i]
    BY <1>3
  <2> HIDE DEF low, high
  <2>3. CASE i \in S
    BY ONLY <2>1, <2>2, <2>3, PatchedCell DEF low
  <2>4. CASE i \notin S /\ i - 1 \in S
    BY ONLY <2>1, <2>2, <2>4, PatchedCell DEF high
  <2>5. CASE i \notin S /\ i - 1 \notin S
    BY ONLY <2>1, <2>2, <2>5
  <2> QED
    BY ONLY <2>3, <2>4, <2>5
<1>6. p \in [1 .. n -> CellType]
  <2>1. p = [i \in DOMAIN c |-> p[i]]
    BY ONLY <1>2, Zenon
  <2> QED
    BY ONLY <1>1, <1>5, <2>1
<1>7. IsCode(p) /\ Len(p) = n
  BY ONLY <1>1, <1>6 DEF IsCode
<1> QED
  BY ONLY <1>5, <1>7

LEMMA GrownPatched ==
  ASSUME NEW c, IsCode(c), NEW S, NEW c1, Grown(c, c1, {}), Len(c1) < 65536
  PROVE  /\ Grown(c, patch_jump_to_here(c1, S), S)
         /\ Len(patch_jump_to_here(c1, S)) = Len(c1)
<1>1. IsCode(c1) /\ Len(c) <= Len(c1) /\ \A i \in 1 .. Len(c) : c1[i] = c[i]
  BY DEF Grown
<1>2. Len(c) \in Nat /\ Len(c1) \in Nat
  BY <1>1, CodeFacts
<1>3. \A i \in 1 .. Len(c) : i \in 1 .. Len(c1)
  BY <1>1, <1>2
<1> DEFINE p == patch_jump_to_here(c1, S)
<1>4. /\ IsCode(p) /\ Len(p) = Len(c1)
      /\ \A i \in 1 .. Len(c1) :
           /\ p[i].at = c1[i].at /\ p[i].path = c1[i].path
           /\ (i \notin S /\ i - 1 \notin S) => p[i] = c1[i]
  <2> HIDE DEF p
  <2>1. p = patch_jump_to_here(c1, S)
    BY DEF p
  <2> DEFINE n == Len(c1)
  <2>2. n = Len(c1) /\ n < 65536
    OBVIOUS
  <2> HIDE DEF n
  <2>3. /\ IsCode(p) /\ Len(p) = n
        /\ \A i \in 1 .. n :
             /\ p[i].at = c1[i].at /\ p[i].path = c1[i].path
             /\ (i \notin S /\ i - 1 \notin S) => p[i] = c1[i]
    BY ONLY <1>1, <2>1, <2>2, Patched
  <2> QED
    BY ONLY <2>2, <2>3
<1> HIDE DEF p
<1>5. Grown(c, p, S)
  BY <1>1, <1>3, <1>4 DEF Grown
<1> QED
  BY <1>4, <1>5 DEF p

-----------------------------------------------------------------------------
(* What is emitted. *)
LEMMA Opcodes ==
  /\ OP_POP \in Byte /\ OP_SWAP \in Byte /\ OP_OVER \in Byte /\ OP_INC \in Byte
  /\ OP_LT \in Byte /\ OP_JUMP \in Byte /\ OP_JUMP_IF_FALSE \in Byte /\ OP_HALT \in Byte
  /\ OP_RETURN \in Byte /\ OP_RETURN_V \in Byte /\ OP_IF_LET \in Byte
  /\ OP_INT_U8 \in Byte /\ OP_LOOP \in Byte /\ OP_CALL \in Byte
  BY DEF Byte, OP_POP, OP_SWAP, OP_OVER, OP_INC, OP_LT, OP_JUMP, OP_JUMP_IF_FALSE, OP_HALT,
         OP_RETURN, OP_RETURN_V, OP_IF_LET, OP_INT_U8, OP_CALL, OP_LOOP

LEMMA OneByte ==
  ASSUME NEW op \in Byte
  PROVE  IsBytes(<<op>>) /\ Len(<<op>>) = 1
  BY DEF IsBytes

LEMMA TwoBytes ==
  ASSUME NEW op \in Byte, NEW b \in Byte
  PROVE  IsBytes(<<op, b>>) /\ Len(<<op, b>>) = 2
  BY DEF IsBytes

LEMMA ThreeBytes ==
  ASSUME NEW op \in Byte, NEW b \in Byte, NEW b2 \in Byte
  PROVE  IsBytes(<<op, b, b2>>) /\ Len(<<op, b, b2>>) = 3
  BY DEF IsBytes

LEMMA PushIntBytes ==
  ASSUME NEW k \in Byte
  PROVE  IsBytes(PushInt(k)) /\ Len(PushInt(k)) = 2
  BY Opcodes, TwoBytes DEF PushInt

LEMMA CallBytes ==
  ASSUME NEW f \in Byte, NEW n \in Byte
  PROVE  IsBytes(Call(f, n)) /\ Len(Call(f, n)) = 3
  BY Opcodes, ThreeBytes DEF Call

LEMMA PlaceholderBytes ==
  ASSUME NEW op \in Byte
  PROVE  IsBytes(Placeholder(op)) /\ Len(Placeholder(op)) = 3
<1>1. 255 \in Byte
  BY DEF Byte
<1> QED
  BY <1>1, ThreeBytes DEF Placeholder

LEMMA GlobalBytes ==
  /\ IsBytes(GetGlobal) /\ Len(GetGlobal) = 2
  /\ IsBytes(SetGlobal) /\ Len(SetGlobal) = 2
  /\ IsBytes(DefineGlobal) /\ Len(DefineGlobal) = 2
<1>1. /\ 0 \in Byte /\ OP_GET_GLOBAL \in Byte /\ OP_SET_GLOBAL \in Byte
      /\ OP_DEFINE_GLOBAL \in Byte
  BY DEF Byte, OP_GET_GLOBAL, OP_SET_GLOBAL, OP_DEFINE_GLOBAL
<1> QED
  BY <1>1, TwoBytes DEF GetGlobal, SetGlobal, DefineGlobal

LEMMA BackJumpBytes ==
  ASSUME NEW from \in Nat, NEW to \in Nat, to <= from, from + 3 - to < 65536
  PROVE  IsBytes(BackJump(from, to)) /\ Len(BackJump(from, to)) = 3
<1> DEFINE off == from + 3 - to
           low == off % 256
           high == off \div 256
<1>1. off \in Nat /\ off < 65536
  OBVIOUS
<1> HIDE DEF off
<1>2. low \in Byte /\ high \in Byte
  BY <1>1, OffsetBytes
<1>3. OP_LOOP \in Byte
  BY DEF OP_LOOP, Byte
<1>4. BackJump(from, to) = <<OP_LOOP, low, high>>
  BY DEF BackJump, off, low, high
<1> HIDE DEF low, high
<1>5. <<OP_LOOP, low, high>> \in Seq(Byte) /\ Len(<<OP_LOOP, low, high>>) = 3
  BY <1>2, <1>3
<1> QED
  BY <1>4, <1>5 DEF IsBytes

LEMMA CellTyped ==
  ASSUME PathOf(open) \in Path, NEW b \in Byte, NEW d \in Nat \cup {Operand}
  PROVE  Cell(b, d) \in CellType
  BY DEF Cell, CellType

(* e is c and n POPs; e is c and n arguments. *)
PopsBehind(e, c, n) == \A i \in 1 .. n : e[Len(c) + i] = Cell(OP_POP, Depth - i + 1)
PushesBehind(e, c, n) ==
  \E k \in Literals : \A i \in 1 .. 2 * n : e[Len(c) + i] =
    IF i % 2 = 1 THEN Cell(OP_INT_U8, Depth + i \div 2) ELSE Cell(k, Operand)

LEMMA BlockLeft ==
  ASSUME NEW c, IsCode(c), IsStack(open), StackInv, locals \in Nat, open # <<>>,
         NEW e, e = LeaveBlock(c), NEW n, n = locals - Innermost.base
  PROVE  /\ IsCode(e) /\ Begins(c, e) /\ n \in Nat /\ Len(e) = Len(c) + n
         /\ PopsBehind(e, c, n)
<1> DEFINE g == [i \in 1 .. n |-> Cell(OP_POP, Depth - i + 1)]
<1>1. Innermost \in Construct /\ Innermost.base \in Nat /\ Innermost.base <= locals
  BY Depths, ConstructFacts
<1>2. n \in Nat
  BY <1>1
<1>3. DepthLeft \in Nat /\ Depth = DepthLeft + n
  <2>1. Len(open) \in DOMAIN open
    BY StackFacts
  <2> QED
    BY <2>1, Depths
<1>4. PathOf(open) \in Path /\ OP_POP \in Byte
  BY InFunctionIs, Opcodes
<1>5. ASSUME NEW i \in 1 .. n PROVE Cell(OP_POP, Depth - i + 1) \in CellType
  <2>1. Depth - i + 1 \in Nat
    BY <1>2, <1>3
  <2> QED
    BY <1>4, <2>1, CellTyped
<1>6. g \in [1 .. n -> CellType] /\ \A i \in 1 .. n : g[i] = Cell(OP_POP, Depth - i + 1)
  BY <1>5
<1>7. e = c \o g
  BY DEF LeaveBlock
<1> HIDE DEF g
<1>8. /\ IsCode(e) /\ Begins(c, e) /\ Len(e) = Len(c) + n
      /\ \A i \in 1 .. n : e[Len(c) + i] = g[i]
  BY ONLY <1>2, <1>6, <1>7, Extended, IsCode(c)
<1> QED
  BY ONLY <1>2, <1>6, <1>8 DEF PopsBehind

LEMMA ArgumentsPassed ==
  ASSUME NEW c, IsCode(c), PathOf(open) \in Path, Depth \in Nat, NEW n \in Nat,
         NEW e, e = c \o Arguments(n)
  PROVE  /\ IsCode(e) /\ Begins(c, e) /\ Len(e) = Len(c) + 2 * n
         /\ PushesBehind(e, c, n)
<1>1. PICK k \in Literals : k = CHOOSE l \in Literals : TRUE
  <2>1. Literals # {}
    BY CompilerSizes
  <2>2. \E l : l \in Literals
    BY ONLY <2>1, Zenon
  <2>3. (CHOOSE l \in Literals : TRUE) \in Literals
    BY ONLY <2>2, Zenon
  <2> QED
    BY ONLY <2>3, Zenon
<1>2. k \in Byte
  BY CompilerSizes DEF Byte
<1> DEFINE m == 2 * n
           g == [i \in 1 .. m |->
                   IF i % 2 = 1 THEN Cell(OP_INT_U8, Depth + i \div 2) ELSE Cell(k, Operand)]
<1>3. m \in Nat
  OBVIOUS
<1>4. ASSUME NEW i \in 1 .. m
      PROVE  (IF i % 2 = 1 THEN Cell(OP_INT_U8, Depth + i \div 2) ELSE Cell(k, Operand)) \in CellType
  <2>1. Depth + i \div 2 \in Nat
    OBVIOUS
  <2>2. OP_INT_U8 \in Byte
    BY Opcodes
  <2>3. Cell(OP_INT_U8, Depth + i \div 2) \in CellType /\ Cell(k, Operand) \in CellType
    BY <1>2, <2>1, <2>2, CellTyped
  <2> QED
    BY <2>3
<1>5. g \in [1 .. m -> CellType]
  BY <1>4
<1>6. c \o g = e
  BY <1>1 DEF Arguments
<1>7. \A i \in 1 .. m : g[i] =
         IF i % 2 = 1 THEN Cell(OP_INT_U8, Depth + i \div 2) ELSE Cell(k, Operand)
  OBVIOUS
<1> HIDE DEF g, m
<1>8. /\ IsCode(e) /\ Begins(c, e) /\ Len(e) = Len(c) + m
      /\ \A i \in 1 .. m : e[Len(c) + i] = g[i]
  BY ONLY <1>3, <1>5, <1>6, Extended, IsCode(c)
<1>9. \A i \in 1 .. m : e[Len(c) + i] =
         IF i % 2 = 1 THEN Cell(OP_INT_U8, Depth + i \div 2) ELSE Cell(k, Operand)
  BY <1>7, <1>8, Zenon
<1> QED
  BY ONLY <1>8, <1>9, k \in Literals, Zenon DEF m, PushesBehind

-----------------------------------------------------------------------------
(* What a statement does to the code: it only grows, but for the operands  *)
(* that are patched.                                                       *)
Grew == Grown(code, code', Pending) /\ Len(code') <= FILE_BC_SIZE

LEMMA GrownMore ==
  ASSUME NEW c, NEW e, NEW S, NEW T, Grown(c, e, S), S \subseteq T
  PROVE  Grown(c, e, T)
  BY DEF Grown

LEMMA Parsing ==
  ASSUME Base
  PROVE  /\ IsCode(code) /\ Len(code) \in Nat /\ IsStack(open) /\ StackInv /\ IsTable(loops)
         /\ PathOf(open) \in Path /\ Depth \in Nat /\ locals \in Nat /\ typed \in Nat
         /\ Grown(code, code, {})
<1>1. IsCode(code) /\ IsStack(open) /\ StackInv /\ IsTable(loops) /\ locals \in Nat
      /\ typed \in Nat
  BY DEF Base, Typed
<1>2. PathOf(open) \in Path /\ Depth \in Nat
  BY <1>1, InFunctionIs, Depths
<1>3. Len(code) \in Nat /\ Grown(code, code, {})
  BY <1>1, CodeFacts, GrownSelf
<1> QED
  BY <1>1, <1>2, <1>3

LEMMA GrownTest ==
  ASSUME Base, NEW S, NEW c, Grown(code, c, S), NEW d \in Nat, NEW op \in Byte,
         NEW e, e = Test(c, d, op)
  PROVE  Grown(code, e, S) /\ Len(e) = Len(c) + 5
<1>1. IsCode(code) /\ PathOf(open) \in Path
  BY Parsing
<1> DEFINE c1 == Emit(c, d, GetGlobal)
<1>2. Adds(code, c, c1, S, 2)
  BY <1>1, GlobalBytes, GrownEmit, Zenon
<1>6. Grown(code, c1, S) /\ Len(c1) = Len(c) + 2
  BY <1>2 DEF Adds
<1>3. e = Emit(c1, d + 1, Placeholder(op)) /\ d + 1 \in Nat
  BY DEF Test
<1> HIDE DEF c1
<1>4. Adds(code, c1, e, S, 3)
  BY <1>1, <1>3, <1>6, PlaceholderBytes, GrownEmit, Zenon
<1>5. Len(c) \in Nat
  BY CodeFacts DEF Grown
<1> QED
  BY <1>4, <1>5, <1>6 DEF Adds

LEMMA LiteralByte ==
  ASSUME NEW k \in Literals
  PROVE  k \in Byte
  BY CompilerSizes DEF Byte

LEMMA VarDeclGrows ==
  ASSUME Base, NEW k \in Literals, VarDecl(k)
  PROVE  Grew
<1>1. IsCode(code) /\ PathOf(open) \in Path /\ Depth \in Nat /\ Grown(code, code, {})
  BY Parsing
<1>2. k \in Byte
  BY LiteralByte
<1> DEFINE c1 == Emit(code, Depth, PushInt(k))
           c2 == Emit(c1, Depth + 1, DefineGlobal)
<1>3. code' \in {c1, c2} /\ Len(code') <= FILE_BC_SIZE
  BY DEF VarDecl, Emits
<1>4. Grown(code, c1, {})
  BY <1>1, <1>2, PushIntBytes, GrownEmit, Zenon DEF Adds
<1>8. Depth + 1 \in Nat
  BY <1>1
<1> HIDE DEF c1
<1>5. Grown(code, c2, {})
  BY <1>1, <1>4, <1>8, GlobalBytes, GrownEmit, Zenon DEF Adds
<1> HIDE DEF c2
<1> QED
  BY <1>3, <1>4, <1>5, GrownMore DEF Grew

LEMMA CallGrows ==
  ASSUME Base, NEW f \in DOMAIN funcs, CallStatement(f)
  PROVE  Grew
<1>1. IsCode(code) /\ PathOf(open) \in Path /\ Depth \in Nat /\ Grown(code, code, {})
  BY Parsing
<1> DEFINE n == funcs[f].params
<1>2. n \in Byte /\ f \in Byte /\ n \in Nat
  <2>1. funcs \in Seq(FuncType) /\ Len(funcs) <= MAX_FUNCS
    BY DEF Base, Typed
  <2>4. MAX_FUNCS \in 0 .. 255 /\ MAX_LOCALS \in 0 .. 255
    BY CompilerSizes
  <2>5. funcs[f] \in FuncType /\ f \in 1 .. Len(funcs) /\ Len(funcs) \in Nat
    BY ONLY <2>1, f \in DOMAIN funcs, LenProperties, ElementOfSeq
  <2>2. funcs[f] \in FuncType /\ f \in Nat /\ f <= MAX_FUNCS
    BY ONLY <2>1, <2>4, <2>5
  <2>3. funcs[f].params \in 0 .. MAX_LOCALS
    BY <2>2 DEF FuncType
  <2> QED
    BY ONLY <2>2, <2>3, <2>4, SMTT(30) DEF Byte
<1> DEFINE c1 == code \o Arguments(n)
           c2 == Emit(c1, Depth + n, Call(f, n))
           c3 == Emit(c2, Depth + 1, <<OP_POP>>)
<1>3. code' = c3 /\ Len(code') <= FILE_BC_SIZE
  BY DEF CallStatement, Emits
<1> HIDE DEF n
<1>4. Grown(code, c1, {})
  <2>1. IsCode(c1) /\ Begins(code, c1) /\ Len(c1) = Len(code) + 2 * n
    BY <1>1, <1>2, ArgumentsPassed
  <2>2. Len(code) <= Len(c1)
    BY <1>1, <1>2, <2>1, CodeFacts
  <2> QED
    BY <1>1, <2>1, <2>2, GrownExtended
<1> HIDE DEF c1
<1>7. Depth + n \in Nat /\ Depth + 1 \in Nat
  BY <1>1, <1>2
<1>5. Grown(code, c2, {})
  BY <1>1, <1>2, <1>4, <1>7, CallBytes, GrownEmit, Zenon DEF Adds
<1> HIDE DEF c2
<1>6. Grown(code, c3, {})
  BY <1>1, <1>5, <1>7, Opcodes, OneByte, GrownEmit, Zenon DEF Adds
<1> HIDE DEF c3
<1> QED
  BY <1>3, <1>6, GrownMore DEF Grew

LEMMA ReturnGrows ==
  ASSUME Base, NEW k \in Literals, Return(k)
  PROVE  Grew
<1>1. IsCode(code) /\ PathOf(open) \in Path /\ Depth \in Nat /\ Grown(code, code, {})
  BY Parsing
<1>2. k \in Byte
  BY LiteralByte
<1> DEFINE c1 == Emit(code, Depth, PushInt(k))
           c2 == Emit(c1, Depth + 1, <<OP_RETURN>>)
           c3 == Emit(code, Depth, <<OP_RETURN_V>>)
<1>3. code' \in {c2, c3} /\ Len(code') <= FILE_BC_SIZE
  BY DEF Return, Emits
<1>4. Grown(code, c1, {})
  BY <1>1, <1>2, PushIntBytes, GrownEmit, Zenon DEF Adds
<1>8. Depth + 1 \in Nat
  BY <1>1
<1>6. Grown(code, c3, {})
  BY <1>1, Opcodes, OneByte, GrownEmit, Zenon DEF Adds
<1> HIDE DEF c1
<1>5. Grown(code, c2, {})
  BY <1>1, <1>4, <1>8, Opcodes, OneByte, GrownEmit, Zenon DEF Adds
<1> HIDE DEF c2, c3
<1> QED
  BY <1>3, <1>5, <1>6, GrownMore DEF Grew

LEMMA BreakGrows ==
  ASSUME Base, Break
  PROVE  /\ Grew /\ Len(code') = Len(code) + 3
         /\ loops' = Append(Front(loops), Append(Last(loops), Len(code) + 2))
<1>1. /\ IsCode(code) /\ PathOf(open) \in Path /\ Depth \in Nat /\ Grown(code, code, {})
      /\ Len(code) \in Nat
  BY Parsing
<1> DEFINE c1 == Emit(code, Depth, Placeholder(OP_JUMP))
<1>2. code' = c1 /\ Len(code') <= FILE_BC_SIZE
      /\ loops' = Append(Front(loops), Append(Last(loops), Len(c1) - 1))
  BY DEF Break, Emits, RecordBreak
<1>5. Adds(code, code, c1, {}, 3)
  BY <1>1, Opcodes, PlaceholderBytes, GrownEmit, Zenon
<1>3. Grown(code, c1, {}) /\ Len(c1) = Len(code) + 3
  BY <1>5 DEF Adds
<1> HIDE DEF c1
<1>4. Len(c1) - 1 = Len(code) + 2
  BY <1>1, <1>3
<1> QED
  BY <1>2, <1>3, <1>4, GrownMore DEF Grew

(* The length of what may not be code. *)
Sized(c, m) == m \in Nat /\ \E S : c \in Seq(S) /\ Len(c) = m

LEMMA SizedCode ==
  ASSUME NEW c, IsCode(c)
  PROVE  Sized(c, Len(c))
<1>1. Len(c) \in Nat
  BY CodeFacts
<1> QED
  BY <1>1, Zenon DEF Sized, IsCode

LEMMA SizedConcat ==
  ASSUME NEW c, NEW m, Sized(c, m), NEW n \in Nat, NEW g, DOMAIN g = 1 .. n,
         g = [i \in 1 .. n |-> g[i]]
  PROVE  Sized(c \o g, m + n)
<1>1. PICK S : c \in Seq(S) /\ Len(c) = m /\ m \in Nat
  BY DEF Sized
<1> DEFINE G == {g[i] : i \in 1 .. n}
           T == S \cup G
<1>2. g \in [1 .. n -> T]
  BY Zenon
<1>3. c \in Seq(T)
  <2>1. S \subseteq T
    OBVIOUS
  <2> HIDE DEF T
  <2> QED
    BY ONLY <1>1, <2>1, SeqMonotonic, Zenon
<1> HIDE DEF T
<1>4. g \in Seq(T) /\ Len(g) = n
  BY ONLY <1>2, n \in Nat
<1>5. c \o g \in Seq(T) /\ Len(c \o g) = Len(c) + Len(g)
  BY ONLY <1>3, <1>4, ConcatProperties
<1>6. m + n \in Nat /\ Len(c \o g) = m + n
  BY ONLY <1>1, <1>4, <1>5, n \in Nat
<1> QED
  BY ONLY <1>5, <1>6, Zenon DEF Sized

LEMMA SizedEmit ==
  ASSUME NEW c, NEW m, Sized(c, m), NEW d, NEW ins, NEW n \in Nat, Len(ins) = n,
         NEW e, e = Emit(c, d, ins)
  PROVE  Sized(e, m + n)
<1> DEFINE g == [i \in 1 .. n |-> Cell(ins[i], IF i = 1 THEN d ELSE Operand)]
<1>1. e = c \o g
  BY DEF Emit
<1>2. DOMAIN g = 1 .. n /\ g = [i \in 1 .. n |-> g[i]]
  BY Zenon
<1> HIDE DEF g
<1> QED
  BY <1>1, <1>2, SizedConcat, Zenon

LEMMA SizedPatch ==
  ASSUME NEW c, NEW m, Sized(c, m), NEW S, NEW e, e = patch_jump_to_here(c, S)
  PROVE  Sized(e, m)
<1>1. PICK T : c \in Seq(T) /\ Len(c) = m /\ m \in Nat
  BY DEF Sized
<1>2. DOMAIN c = 1 .. m
  BY <1>1
<1>3. DOMAIN e = DOMAIN c /\ e = [i \in DOMAIN c |-> e[i]]
  BY Zenon DEF patch_jump_to_here
<1> DEFINE G == {e[i] : i \in 1 .. m}
<1>4. e \in [1 .. m -> G]
  BY ONLY <1>2, <1>3, Zenon
<1> HIDE DEF G
<1>5. e \in Seq(G) /\ Len(e) = m
  BY ONLY <1>1, <1>4
<1> QED
  BY ONLY <1>1, <1>5, Zenon DEF Sized

LEMMA SizeIs ==
  ASSUME NEW c, NEW m, Sized(c, m)
  PROVE  Len(c) = m /\ m \in Nat
  BY DEF Sized

LEMMA SizedBackJump ==
  ASSUME NEW from, NEW to
  PROVE  Len(BackJump(from, to)) = 3
<1> DEFINE x == (from + 3 - to) % 256
           y == (from + 3 - to) \div 256
<1>1. BackJump(from, to) = <<OP_LOOP, x, y>>
  BY Zenon DEF BackJump
<1> HIDE DEF x, y
<1> QED
  BY <1>1

LEMMA IfGrows ==
  ASSUME Base, If
  PROVE  /\ Grew /\ Len(code') = Len(code) + 5
         /\ open' = Append(open, [kind |-> "then", id |-> typed, base |-> locals,
                                  patch |-> Len(code) + 4])
<1>1. Depth \in Nat /\ Grown(code, code, {}) /\ Len(code) \in Nat /\ OP_JUMP_IF_FALSE \in Byte
  BY Parsing, Opcodes
<1> DEFINE c == Test(code, Depth, OP_JUMP_IF_FALSE)
<1>2. /\ code' = c /\ Len(code') <= FILE_BC_SIZE
      /\ open' = Append(open, [kind |-> "then", id |-> typed, base |-> locals,
                               patch |-> Len(c) - 1])
  BY DEF If, Emits, Opens
<1>3. Grown(code, c, {}) /\ Len(c) = Len(code) + 5
  BY <1>1, GrownTest, Zenon
<1> HIDE DEF c
<1>4. Len(c) - 1 = Len(code) + 4
  BY <1>1, <1>3
<1> QED
  BY <1>2, <1>3, <1>4, GrownMore DEF Grew

LEMMA IfLetGrows ==
  ASSUME Base, IfLet
  PROVE  /\ Grew /\ Len(code') >= Len(code) + 5
         /\ open' = Append(open, [kind |-> "then", id |-> typed, base |-> locals,
                                  patch |-> Len(code) + 4])
<1>1. Depth \in Nat /\ Grown(code, code, {}) /\ Len(code) \in Nat /\ OP_IF_LET \in Byte
      /\ IsCode(code) /\ PathOf(open) \in Path
  BY Parsing, Opcodes
<1> DEFINE c == Test(code, Depth, OP_IF_LET)
           c2 == Emit(c, Depth + 1, DefineGlobal)
<1>2. /\ code' \in {c, c2} /\ Len(code') <= FILE_BC_SIZE
      /\ open' = Append(open, [kind |-> "then", id |-> typed, base |-> locals,
                               patch |-> Len(c) - 1])
  BY DEF IfLet, Emits, Opens
<1>3. Grown(code, c, {}) /\ Len(c) = Len(code) + 5
  BY <1>1, GrownTest, Zenon
<1> HIDE DEF c
<1>4. Len(c) - 1 = Len(code) + 4 /\ Depth + 1 \in Nat
  BY <1>1, <1>3
<1>5. Adds(code, c, c2, {}, 2)
  BY <1>1, <1>3, <1>4, GlobalBytes, GrownEmit, Zenon
<1> HIDE DEF c2
<1>6. Grown(code, c2, {}) /\ Len(c2) = Len(code) + 7
  BY <1>1, <1>3, <1>5 DEF Adds
<1>7. Grew
  BY <1>2, <1>3, <1>6, GrownMore DEF Grew
<1>8. Len(code') >= Len(code) + 5
  BY <1>1, <1>2, <1>3, <1>6
<1> QED
  BY <1>2, <1>4, <1>7, <1>8

LEMMA WhileGrows ==
  ASSUME Base, While
  PROVE  /\ Grew /\ Len(code') = Len(code) + 5
         /\ open' = Append(open, [kind |-> "while", id |-> typed, base |-> locals,
                                  start |-> Len(code) + 1, exit |-> Len(code) + 4])
<1>1. Depth \in Nat /\ Grown(code, code, {}) /\ Len(code) \in Nat /\ OP_JUMP_IF_FALSE \in Byte
  BY Parsing, Opcodes
<1> DEFINE c == Test(code, Depth, OP_JUMP_IF_FALSE)
<1>2. /\ code' = c /\ Len(code') <= FILE_BC_SIZE
      /\ open' = Append(open, [kind |-> "while", id |-> typed, base |-> locals,
                               start |-> Len(code) + 1, exit |-> Len(c) - 1])
  BY DEF While, Emits, Opens, Here
<1>3. Grown(code, c, {}) /\ Len(c) = Len(code) + 5
  BY <1>1, GrownTest, Zenon
<1> HIDE DEF c
<1>4. Len(c) - 1 = Len(code) + 4
  BY <1>1, <1>3
<1> QED
  BY <1>2, <1>3, <1>4, GrownMore DEF Grew

LEMMA ForInGrows ==
  ASSUME Base, NEW k \in Literals, ForIn(k)
  PROVE  /\ Grew /\ Len(code') = Len(code) + 14
         /\ open' = Append(open, [kind |-> "for", id |-> typed,
                                  base |-> locals + (IF InFunction THEN 1 ELSE 0),
                                  start |-> Len(code) + 8, exit |-> Len(code) + 13])
<1>1. /\ Depth \in Nat /\ Grown(code, code, {}) /\ Len(code) \in Nat
      /\ IsCode(code) /\ PathOf(open) \in Path /\ k \in Byte
  BY Parsing, LiteralByte
<1>2. Depth + 1 \in Nat /\ Depth + 2 \in Nat /\ Depth + 3 \in Nat
  BY <1>1
<1> DEFINE c1 == Emit(code, Depth, PushInt(k))
           c2 == Emit(c1, Depth + 1, PushInt(k))
           c3 == Emit(c2, Depth + 2, <<OP_SWAP>>)
           c4 == Emit(c3, Depth + 2, DefineGlobal)
           c5 == Emit(c4, Depth + 1, GetGlobal)
           c6 == Emit(c5, Depth + 2, <<OP_OVER>>)
           c7 == Emit(c6, Depth + 3, <<OP_LT>>)
           c8 == Emit(c7, Depth + 2, Placeholder(OP_JUMP_IF_FALSE))
<1>3. /\ code' = c8 /\ Len(code') <= FILE_BC_SIZE
      /\ open' = Append(open, [kind |-> "for", id |-> typed,
                               base |-> locals + (IF InFunction THEN 1 ELSE 0),
                               start |-> Len(c4) + 1, exit |-> Len(c8) - 1])
  BY DEF ForIn, Emits, Opens, Here
<1>4. Adds(code, code, c1, {}, 2)
  BY <1>1, PushIntBytes, GrownEmit, Zenon
<1> HIDE DEF c1
<1>5. Adds(code, c1, c2, {}, 2)
  BY <1>1, <1>2, <1>4, PushIntBytes, GrownEmit, AddsGrown, Zenon
<1> HIDE DEF c2
<1>6. Adds(code, c2, c3, {}, 1)
  BY <1>1, <1>2, <1>5, Opcodes, OneByte, GrownEmit, AddsGrown, Zenon
<1> HIDE DEF c3
<1>7. Adds(code, c3, c4, {}, 2)
  BY <1>1, <1>2, <1>6, GlobalBytes, GrownEmit, AddsGrown, Zenon
<1> HIDE DEF c4
<1>8. Adds(code, c4, c5, {}, 2)
  BY <1>1, <1>2, <1>7, GlobalBytes, GrownEmit, AddsGrown, Zenon
<1> HIDE DEF c5
<1>9. Adds(code, c5, c6, {}, 1)
  BY <1>1, <1>2, <1>8, Opcodes, OneByte, GrownEmit, AddsGrown, Zenon
<1> HIDE DEF c6
<1>10. Adds(code, c6, c7, {}, 1)
  BY <1>1, <1>2, <1>9, Opcodes, OneByte, GrownEmit, AddsGrown, Zenon
<1> HIDE DEF c7
<1>11. Adds(code, c7, c8, {}, 3)
  BY <1>1, <1>2, <1>10, Opcodes, PlaceholderBytes, GrownEmit, AddsGrown, Zenon
<1> HIDE DEF c8
<1>12. Len(c4) = Len(code) + 7 /\ Len(c8) = Len(code) + 14
  BY <1>1, <1>4, <1>5, <1>6, <1>7, <1>8, <1>9, <1>10, <1>11 DEF Adds
<1>13. Len(c4) + 1 = Len(code) + 8 /\ Len(c8) - 1 = Len(code) + 13
  BY <1>1, <1>12
<1>14. Grown(code, c8, {})
  BY <1>11 DEF Adds
<1> QED
  BY <1>3, <1>12, <1>13, <1>14, GrownMore DEF Grew

LEMMA ParkedTop ==
  ASSUME Base, open # <<>>
  PROVE  /\ Parked(Len(open)) \subseteq Pending
         /\ Innermost.kind \in ArmKinds => Parked(Len(open)) = {Innermost.patch}
         /\ Innermost.kind \in LoopKinds =>
              /\ loops # <<>>
              /\ Parked(Len(open)) = {Innermost.exit} \cup Breaks
<1>1. IsStack(open) /\ IsTable(loops) /\ Len(loops) = Count(LoopKinds, open, Len(open))
  BY Parsing DEF StackInv
<1>2. Len(open) \in DOMAIN open /\ Innermost = open[Len(open)] /\ Len(open) \in Nat \ {0}
      /\ DOMAIN open = 1 .. Len(open)
  BY <1>1, StackFacts DEF Innermost
<1>3. Parked(Len(open)) \subseteq Pending
  BY <1>2, Zenon DEF Pending
<1>4. ArmKinds \cap LoopKinds = {}
  BY DEF ArmKinds, LoopKinds
<1>5. Innermost.kind \in ArmKinds => Parked(Len(open)) = {Innermost.patch}
  BY <1>2 DEF Parked, ParkedIn
<1>6. ASSUME Innermost.kind \in LoopKinds
      PROVE  loops # <<>> /\ Parked(Len(open)) = {Innermost.exit} \cup Breaks
  <2>1. 1 <= Count(LoopKinds, open, Len(open))
    <3> DEFINE n == Len(open)
    <3>1. n \in Nat /\ n \in 0 .. n /\ n \in 1 .. n
      BY <1>2
    <3>2. open[n].kind \in LoopKinds
      BY <1>2, <1>6
    <3> HIDE DEF n
    <3>3. 1 <= Count(LoopKinds, open, n)
      BY <3>1, <3>2, CountUpTo
    <3> QED
      BY <3>3 DEF n
  <2>2. loops # <<>> /\ Last(loops) = loops[Len(loops)]
    BY <1>1, <2>1, TableFacts
  <2>3. Parked(Len(open)) = {open[Len(open)].exit} \cup Range(loops[Count(LoopKinds, open, Len(open))])
    BY <1>2, <1>4, <1>6 DEF Parked, ParkedIn
  <2> QED
    BY <1>1, <1>2, <2>2, <2>3 DEF Breaks
<1> QED
  BY <1>3, <1>5, <1>6

LEMMA BlockGrows ==
  ASSUME Base, open # <<>>, NEW body, body = LeaveBlock(code)
  PROVE  /\ Grown(code, body, {}) /\ IsCode(body) /\ Len(code) <= Len(body) /\ Len(body) \in Nat
         /\ DepthLeft \in Nat /\ Len(open) \in DOMAIN open
<1>1. /\ IsCode(code) /\ IsStack(open) /\ StackInv /\ locals \in Nat /\ Len(code) \in Nat
      /\ Grown(code, code, {})
  BY Parsing
<1> DEFINE n == locals - Innermost.base
<1>2. IsCode(body) /\ Begins(code, body) /\ n \in Nat /\ Len(body) = Len(code) + n
  BY <1>1, BlockLeft
<1>3. Len(code) <= Len(body) /\ Len(body) \in Nat
  BY <1>1, <1>2
<1>4. Grown(code, body, {})
  BY <1>1, <1>2, <1>3, GrownExtended
<1>5. Len(open) \in DOMAIN open
  BY <1>1, StackFacts
<1>6. DepthLeft \in Nat
  BY <1>1, <1>5, Depths
<1> QED
  BY <1>2, <1>3, <1>4, <1>5, <1>6

LEMMA FitsInBytes == ASSUME NEW n \in Nat, n <= FILE_BC_SIZE PROVE n < 65536
  BY CompilerSizes

LEMMA EndIfGrows ==
  ASSUME Base, EndIf
  PROVE  Grown(code, code', Parked(Len(open))) /\ Grew
<1>1. /\ open # <<>> /\ Innermost.kind \in ArmKinds
      /\ code' = patch_jump_to_here(LeaveBlock(code), {Innermost.patch})
      /\ Len(code') <= FILE_BC_SIZE
  BY DEF EndIf, Closing, Emits, ArmKinds
<1> DEFINE c == LeaveBlock(code)
           S == {Innermost.patch}
<1>2. Grown(code, c, {}) /\ IsCode(c) /\ Len(c) \in Nat
  BY <1>1, BlockGrows
<1>3. IsCode(code)
  BY Parsing
<1>4. code' = patch_jump_to_here(c, S)
  BY <1>1
<1> HIDE DEF c, S
<1>5. Len(code') = Len(c)
  BY <1>2, <1>4, SizedCode, SizedPatch, SizeIs
<1>6. Len(c) < 65536
  BY <1>1, <1>2, <1>5, FitsInBytes
<1>7. Grown(code, code', S)
  BY <1>2, <1>3, <1>4, <1>6, GrownPatched
<1>8. Parked(Len(open)) = S /\ Parked(Len(open)) \subseteq Pending
  BY <1>1, ParkedTop DEF S
<1> QED
  BY <1>1, <1>7, <1>8, GrownMore DEF Grew

LEMMA ElseGrows ==
  ASSUME Base, Else
  PROVE  /\ Grown(code, code', Parked(Len(open))) /\ Grew
         /\ Len(code') >= Len(code) + 3
         /\ open' = Append(Front(open),
                      [Innermost EXCEPT !.kind = "else", !.patch = Len(code') - 1])
<1> DEFINE body == LeaveBlock(code)
           c == Emit(body, DepthLeft, Placeholder(OP_JUMP))
           S == {Innermost.patch}
<1>1. /\ open # <<>> /\ Innermost.kind \in ArmKinds
      /\ code' = patch_jump_to_here(c, S)
      /\ Len(code') <= FILE_BC_SIZE
      /\ open' = Append(Front(open),
                   [Innermost EXCEPT !.kind = "else", !.patch = Len(c) - 1])
  BY DEF Else, Closing, Emits, ArmKinds
<1>2. /\ Grown(code, body, {}) /\ IsCode(body) /\ Len(body) \in Nat /\ Len(code) <= Len(body)
      /\ DepthLeft \in Nat
  BY <1>1, BlockGrows
<1>3. IsCode(code) /\ PathOf(open) \in Path /\ Len(code) \in Nat
  BY Parsing
<1> HIDE DEF body
<1>4. Adds(code, body, c, {}, 3)
  BY <1>2, <1>3, Opcodes, PlaceholderBytes, GrownEmit, Zenon
<1> HIDE DEF c, S
<1>5. Grown(code, c, {}) /\ Len(c) = Len(body) + 3 /\ IsCode(c)
  BY <1>4 DEF Adds, Grown
<1>6. Len(code') = Len(c) /\ Len(c) \in Nat
  BY <1>1, <1>5, SizedCode, SizedPatch, SizeIs
<1>7. Len(c) < 65536
  BY <1>1, <1>6, FitsInBytes
<1>8. Grown(code, code', S)
  BY <1>1, <1>3, <1>5, <1>7, GrownPatched
<1>9. Parked(Len(open)) = S /\ Parked(Len(open)) \subseteq Pending
  BY <1>1, ParkedTop DEF S
<1>10. Len(code') >= Len(code) + 3
  BY <1>2, <1>3, <1>5, <1>6
<1>11. Grown(code, code', Parked(Len(open))) /\ Grew
  BY <1>1, <1>8, <1>9, GrownMore DEF Grew
<1> QED
  BY <1>1, <1>6, <1>10, <1>11

LEMMA BackJumpFits ==
  ASSUME Base, open # <<>>, phase = "parse", Innermost.kind \in LoopKinds,
         NEW body, Len(body) \in Nat, Len(code) <= Len(body), Len(body) + 3 <= FILE_BC_SIZE
  PROVE  LET j == BackJump(Here(body), Innermost.start) IN IsBytes(j) /\ Len(j) = 3
<1>1. Len(body) \in Nat /\ Len(code) <= Len(body) /\ Len(open) \in DOMAIN open
  BY Parsing, StackFacts
<1>2. IsStack(open) /\ Innermost = open[Len(open)] /\ IsCode(code)
  BY Parsing, StackFacts DEF Innermost
<1>3. Innermost.start \in Lo + 1 .. Len(code)
  BY <1>1, <1>2 DEF Base, PlacesInv
<1>4. Innermost \in Construct
  BY <1>1, <1>2, StackFacts
<1>5. Innermost.start \in Nat
  BY <1>4, ConstructFacts
<1>7. Lo \in Nat
  <2>1. arena \in Nat
    BY DEF Base, Typed
  <2>2. Nested => open[1].start \in Nat
    <3>1. Nested => open[1] \in Construct /\ open[1].kind = "func"
      BY <1>2, StackFacts DEF Nested, Within
    <3> QED
      BY <3>1, ConstructFacts
  <2> QED
    BY <2>1, <2>2 DEF Lo
<1> DEFINE from == Here(body)
           to == Innermost.start
<1>6. from \in Nat /\ to \in Nat /\ to <= from /\ from + 3 - to < 65536
  <2>1. Len(code) \in Nat
    BY <1>2, CodeFacts
  <2>2. Len(body) + 3 < 65536
    BY <1>1, FitsInBytes
  <2>3. to >= 1 /\ to <= Len(code)
    BY <1>3, <1>5, <1>7, <2>1
  <2>4. from = Len(body) + 1
    BY DEF Here
  <2> HIDE DEF from, to
  <2>5. to \in Nat
    BY <1>5 DEF to
  <2> QED
    BY ONLY <1>1, <2>1, <2>2, <2>3, <2>4, <2>5
<1> HIDE DEF from, to
<1>8. IsBytes(BackJump(from, to)) /\ Len(BackJump(from, to)) = 3
  BY <1>6, BackJumpBytes
<1> QED
  BY <1>8 DEF from, to

LEMMA EndWhileGrows ==
  ASSUME Base, EndWhile
  PROVE  Grown(code, code', Parked(Len(open))) /\ Grew
<1> DEFINE body == LeaveBlock(code)
           jump == BackJump(Here(body), Innermost.start)
           c == Emit(body, DepthLeft, jump)
           S == {Innermost.exit} \cup Breaks
<1>1. /\ open # <<>> /\ phase = "parse" /\ Innermost.kind \in LoopKinds
      /\ code' = patch_jump_to_here(c, S)
      /\ Len(code') <= FILE_BC_SIZE
  BY DEF EndWhile, Closing, Emits, LoopKinds
<1>2. /\ Grown(code, body, {}) /\ IsCode(body) /\ Len(body) \in Nat /\ DepthLeft \in Nat
      /\ Len(code) <= Len(body)
  BY <1>1, BlockGrows
<1>3. IsCode(code) /\ PathOf(open) \in Path
  BY Parsing
<1>4. Len(jump) = 3
  BY SizedBackJump
<1>5. Sized(c, Len(body) + 3)
  <2> HIDE DEF body, jump
  <2>1. Sized(body, Len(body)) /\ 3 \in Nat
    BY <1>2, SizedCode
  <2> QED
    BY ONLY <1>4, <2>1, SizedEmit
<1> HIDE DEF c
<1>6. Len(code') = Len(body) + 3 /\ Len(c) = Len(body) + 3 /\ Len(body) + 3 \in Nat
  BY <1>1, <1>5, SizedPatch, SizeIs
<1>7. IsBytes(jump)
  BY <1>1, <1>2, <1>6, BackJumpFits
<1> HIDE DEF jump, S, body
<1>8. Adds(code, body, c, {}, 3)
  BY <1>2, <1>3, <1>4, <1>7, GrownEmit, Zenon DEF c
<1>9. Grown(code, c, {})
  BY <1>8, AddsGrown
<1>10. Len(c) < 65536
  BY <1>1, <1>6, FitsInBytes
<1>11. Grown(code, code', S)
  BY <1>1, <1>3, <1>9, <1>10, GrownPatched
<1>12. Parked(Len(open)) = S /\ Parked(Len(open)) \subseteq Pending
  BY <1>1, ParkedTop DEF S
<1> QED
  BY <1>1, <1>11, <1>12, GrownMore DEF Grew

LEMMA EndForGrows ==
  ASSUME Base, EndFor
  PROVE  Grown(code, code', Parked(Len(open))) /\ Grew
<1> DEFINE body == LeaveBlock(code)
           d == DepthLeft
           c1 == Emit(body, d, GetGlobal)
           c2 == Emit(c1, d + 1, <<OP_INC>>)
           c3 == Emit(c2, d + 1, SetGlobal)
           jump == BackJump(Here(c3), Innermost.start)
           c4 == Emit(c3, d, jump)
           S == {Innermost.exit} \cup Breaks
           c5 == patch_jump_to_here(c4, S)
           c6 == Emit(c5, d, <<OP_POP>>)
<1>1. /\ open # <<>> /\ phase = "parse" /\ Innermost.kind \in LoopKinds
      /\ code' = c6 /\ Len(code') <= FILE_BC_SIZE
  BY DEF EndFor, Closing, Emits, LoopKinds
<1>2. /\ Grown(code, body, {}) /\ IsCode(body) /\ Len(body) \in Nat /\ d \in Nat
      /\ Len(code) <= Len(body) /\ Len(open) \in DOMAIN open
  BY <1>1, BlockGrows
<1>3. IsCode(code) /\ PathOf(open) \in Path /\ d + 1 \in Nat
  BY <1>2, Parsing
<1> HIDE DEF d, body
<1>4. Adds(code, body, c1, {}, 2)
  BY <1>2, <1>3, GlobalBytes, GrownEmit, Zenon
<1> HIDE DEF c1
<1>5. Adds(code, c1, c2, {}, 1)
  BY <1>2, <1>3, <1>4, Opcodes, OneByte, GrownEmit, AddsGrown, Zenon
<1> HIDE DEF c2
<1>6. Adds(code, c2, c3, {}, 2)
  BY <1>2, <1>3, <1>5, GlobalBytes, GrownEmit, AddsGrown, Zenon
<1> HIDE DEF c3
<1>7. Len(c3) = Len(body) + 5 /\ Grown(code, c3, {}) /\ IsCode(c3) /\ Len(c3) \in Nat
  BY <1>2, <1>4, <1>5, <1>6 DEF Adds, Grown
<1>8. Len(jump) = 3
  BY SizedBackJump
<1> HIDE DEF jump
<1>9. Sized(c4, Len(c3) + 3)
  <2>1. Sized(c3, Len(c3)) /\ 3 \in Nat
    BY <1>7, SizedCode
  <2> QED
    BY ONLY <1>8, <2>1, SizedEmit
<1> HIDE DEF c4
<1>10. Sized(c5, Len(c3) + 3)
  BY ONLY <1>9, SizedPatch
<1> HIDE DEF c5
<1>11. Sized(c6, (Len(c3) + 3) + 1)
  BY ONLY <1>10, Opcodes, OneByte, SizedEmit
<1> HIDE DEF c6
<1>12. Len(c4) = Len(c3) + 3 /\ Len(code') = Len(c3) + 4
  BY <1>1, <1>7, <1>9, <1>11, SizeIs
<1>13. IsBytes(jump)
  <2>1. Len(code) \in Nat
    BY <1>3, CodeFacts
  <2>2. Len(code) <= Len(c3) /\ Len(c3) + 3 <= FILE_BC_SIZE
    <3>1. FILE_BC_SIZE \in Nat
      BY CompilerSizes
    <3> QED
      BY <1>1, <1>2, <1>7, <1>12, <2>1, <3>1
  <2> QED
    BY <1>1, <1>7, <2>2, BackJumpFits DEF jump
<1>14. Adds(code, c3, c4, {}, 3)
  BY <1>2, <1>3, <1>7, <1>8, <1>13, GrownEmit, Zenon DEF c4
<1>15. Len(c4) < 65536
  BY <1>1, <1>7, <1>12, FitsInBytes
<1>16. Grown(code, c5, S)
  BY <1>3, <1>14, <1>15, AddsGrown, GrownPatched DEF c5
<1>17. Grown(code, c6, S)
  BY <1>2, <1>3, <1>16, Opcodes, OneByte, GrownEmit, AddsGrown, Zenon DEF c6
<1>18. Parked(Len(open)) = S /\ Parked(Len(open)) \subseteq Pending
  BY <1>1, ParkedTop
<1> QED
  BY <1>1, <1>17, <1>18, GrownMore DEF Grew

-----------------------------------------------------------------------------
(* What a statement does to the parser's stack. *)
LEMMA ParkedSame ==
  ASSUME NEW s, NEW t, NEW l, NEW m, NEW k \in Nat \ {0}, \A i \in 1 .. k : s[i] = t[i],
         s[k].kind \in LoopKinds => l[Count(LoopKinds, s, k)] = m[Count(LoopKinds, s, k)]
  PROVE  ParkedIn(s, l, k) = ParkedIn(t, m, k)
<1>1. s[k] = t[k]
  OBVIOUS
<1>2. Count(LoopKinds, s, k) = Count(LoopKinds, t, k)
  BY CountAgrees
<1> QED
  BY ONLY <1>1, <1>2, s[k].kind \in LoopKinds => l[Count(LoopKinds, s, k)] = m[Count(LoopKinds, s, k)]
     DEF ParkedIn

(* The row of breaks of a loop. *)
LEMMA RowOf ==
  ASSUME IsStack(open), IsTable(loops), StackInv, NEW k \in DOMAIN open
  PROVE  /\ Count(LoopKinds, open, k) \in 0 .. Len(loops)
         /\ open[k].kind \in LoopKinds => Count(LoopKinds, open, k) \in 1 .. Len(loops)
         /\ \A j \in k + 1 .. Len(open) :
              open[j].kind \in LoopKinds => Count(LoopKinds, open, k) \in 0 .. Len(loops) - 1
<1> DEFINE n == Len(open)
<1>1. n \in Nat /\ k \in 1 .. n /\ k \in Nat /\ k \in 0 .. n
  BY StackFacts
<1>2. Len(loops) = Count(LoopKinds, open, n) /\ Len(loops) \in Nat
  BY TableFacts DEF StackInv
<1> HIDE DEF n
<1>3. Count(LoopKinds, open, k) \in Nat /\ Count(LoopKinds, open, n) \in Nat
  BY <1>1, CountNat
<1>4. Count(LoopKinds, open, k) <= Count(LoopKinds, open, n)
  BY <1>1, CountUpTo
<1>5. open[k].kind \in LoopKinds => 1 <= Count(LoopKinds, open, k)
  <2>1. k \in 1 .. k /\ k \in 0 .. n
    BY <1>1
  <2> QED
    BY <1>1, <2>1, CountUpTo
<1>6. \A j \in k + 1 .. n : open[j].kind \in LoopKinds
        => Count(LoopKinds, open, k) < Count(LoopKinds, open, n)
  BY <1>1, CountUpTo
<1> QED
  BY <1>2, <1>3, <1>4, <1>5, <1>6 DEF n

LEMMA LoType ==
  ASSUME Base
  PROVE  /\ Lo \in Nat /\ arena \in Nat
         /\ phase = "parse" => arena <= Lo /\ Lo <= Len(code) /\ saved.arena <= arena
                               /\ saved.arena \in Nat
<1>1. arena \in 0 .. Len(code) /\ IsStack(open) /\ Len(code) \in Nat
  BY Parsing DEF Base, Typed
<1>2. Nested => open[1].start \in Nat
  <2>1. Nested => open[1] \in Construct /\ open[1].kind = "func"
    BY <1>1, StackFacts DEF Nested, Within
  <2> QED
    BY <2>1, ConstructFacts
<1>3. phase = "parse" => (Nested => open[1].start \in arena .. Len(code)) /\ saved.arena \in 0 .. arena
  BY DEF Base, PlacesInv, TraceInv
<1> QED
  BY <1>1, <1>2, <1>3 DEF Lo

(* What is below the function being compiled does not change.              *)
LEMMA Unharmed ==
  ASSUME Base, phase = "parse", Grown(code, code', Pending)
  PROVE  \A i \in 1 .. Lo : code'[i] = code[i]
<1>1. \A k \in DOMAIN open : \A s \in Parked(k) : s \in Lo + 2 .. Len(code) - 1
  BY DEF Base, PlacesInv
<1>2. \A s \in Pending : s \in Lo + 2 .. Len(code) - 1
  BY <1>1, Zenon DEF Pending
<1>3. Lo \in Nat /\ Lo <= Len(code) /\ Len(code) \in Nat
  BY LoType, Parsing
<1>4. \A i \in 1 .. Lo : i \notin Pending /\ i - 1 \notin Pending /\ i \in 1 .. Len(code)
  BY <1>2, <1>3
<1> QED
  BY <1>4 DEF Grown

LEMMA StackKept ==
  ASSUME Base, open' = open, arena' = arena, Len(loops') = Len(loops), locals' \in Nat,
         Nested => locals <= locals', ~Nested => locals' = locals,
         typed' \in Nat, typed <= typed'
  PROVE  StackInv' /\ Lo' = Lo /\ (Nested' <=> Nested)
<1>1. IsStack(open) /\ StackInv /\ typed \in Nat /\ locals \in Nat
  BY Parsing
<1>2. DOMAIN open = 1 .. Len(open) /\ \A k \in DOMAIN open : open[k].id \in Nat /\ open[k].base \in Nat
  BY <1>1, StackFacts, ConstructFacts
<1>3. (Nested' <=> Nested) /\ Lo' = Lo
  BY DEF Nested, Lo
<1>4. /\ \A k \in DOMAIN open' : open'[k].kind = "func" => k = 1
      /\ \A j, k \in DOMAIN open' : j # k /\ open'[j].kind # "func" /\ open'[k].kind # "func"
           => open'[j].id # open'[k].id
      /\ Len(loops') = Count(LoopKinds, open', Len(open'))
  BY <1>1 DEF StackInv
<1>5. ~Nested' => locals' = 0 /\ \A k \in DOMAIN open' : open'[k].base = 0
  BY <1>1, <1>3 DEF StackInv
<1>6. Nested' => /\ \A k \in DOMAIN open' : open'[k].base <= locals'
                 /\ \A j, k \in DOMAIN open' :
                      j < k => open'[j].base + Slot(open'[k]) <= open'[k].base
  BY <1>1, <1>2, <1>3 DEF StackInv
<1>7. \A k \in DOMAIN open' : open'[k].kind # "func" => open'[k].id < typed'
  BY <1>1, <1>2 DEF StackInv
<1> QED
  BY <1>3, <1>4, <1>5, <1>6, <1>7 DEF StackInv

IsPushed(s, o, t) ==
  /\ IsStack(t) /\ Len(t) = Len(s) + 1
  /\ \A k \in 1 .. Len(s) : t[k] = s[k]
  /\ t[Len(s) + 1] = o

LEMMA PushedIs ==
  ASSUME NEW s, IsStack(s), NEW o \in Construct, NEW t, t = Append(s, o)
  PROVE  IsPushed(s, o, t)
BY DEF IsPushed, IsStack

LEMMA StackPushed ==
  ASSUME Base, NEW o \in Construct, o.kind # "func", open' = Append(open, o), arena' = arena,
         o.id = typed, typed' = typed + 1,
         loops' = IF o.kind \in LoopKinds THEN Append(loops, <<>>) ELSE loops,
         locals' \in Nat, ~Nested => o.base = 0 /\ locals' = 0,
         Nested => o.base = locals + Slot(o) /\ o.base <= locals'
  PROVE  /\ StackInv' /\ IsStack(open') /\ Lo' = Lo /\ (Nested' <=> Nested)
         /\ Nested => open'[1] = open[1]
         /\ Len(open') = Len(open) + 1 /\ Len(open) \in Nat
         /\ \A k \in 1 .. Len(open) : open'[k] = open[k] /\ ParkedIn(open', loops', k) = Parked(k)
         /\ open'[Len(open) + 1] = o
         /\ ParkedIn(open', loops', Len(open) + 1)
              = {IF o.kind \in LoopKinds THEN o.exit ELSE o.patch}
<1> DEFINE n == Len(open)
<1>1. IsStack(open) /\ IsTable(loops) /\ StackInv /\ typed \in Nat /\ locals \in Nat
  BY Parsing
<1>2. /\ n \in Nat /\ DOMAIN open = 1 .. n /\ (open = <<>> <=> n = 0)
      /\ \A k \in 1 .. n : open[k] \in Construct /\ open[k].id \in Nat /\ open[k].base \in Nat
  BY <1>1, StackFacts, ConstructFacts
<1>3. /\ IsStack(open') /\ Len(open') = n + 1 /\ open'[n + 1] = o
      /\ \A k \in 1 .. n : open'[k] = open[k]
  <2>1. IsPushed(open, o, open')
    BY <1>1, PushedIs, Zenon
  <2> QED
    BY <2>1 DEF IsPushed
<1>4. DOMAIN open' = 1 .. n + 1 /\ open' # <<>>
  BY <1>2, <1>3, StackFacts, SMTT(30)
<1> HIDE DEF n
<1>5. (Nested' <=> Nested) /\ (Nested => open'[1] = open[1] /\ 1 \in 1 .. n)
  BY <1>2, <1>3, <1>4 DEF Nested, Within
<1>6. Lo' = Lo
  BY <1>5 DEF Lo
<1>7. /\ \A k \in 1 .. n : open[k].kind = "func" => k = 1
      /\ \A k \in 1 .. n : open[k].kind # "func" => open[k].id < typed
      /\ \A j, k \in 1 .. n :
           j # k /\ open[j].kind # "func" /\ open[k].kind # "func" => open[j].id # open[k].id
      /\ Len(loops) = Count(LoopKinds, open, n)
  BY <1>1, <1>2, ZenonT(60) DEF StackInv, n
<1>8. ~Nested => \A k \in 1 .. n : open[k].base = 0
  BY <1>1, <1>2 DEF StackInv
<1>9. Nested => /\ \A k \in 1 .. n : open[k].base <= locals
                /\ \A j, k \in 1 .. n : j < k => open[j].base + Slot(open[k]) <= open[k].base
  BY <1>1, <1>2 DEF StackInv
<1>10. \A k \in 1 .. n + 1 : k \in 1 .. n \/ k = n + 1
  BY <1>2
<1>11. \A k \in DOMAIN open' : open'[k].kind = "func" => k = 1
  BY <1>3, <1>4, <1>7, <1>10
<1>12. ~Nested' => locals' = 0 /\ \A k \in DOMAIN open' : open'[k].base = 0
  BY <1>3, <1>4, <1>5, <1>8, <1>10
<1>13. Slot(o) \in {0, 1} /\ o.base \in Nat /\ \A k \in 1 .. n : Slot(open[k]) \in {0, 1}
  BY ConstructFacts DEF Slot
<1>14. Nested' => \A k \in DOMAIN open' : open'[k].base <= locals'
  BY <1>1, <1>2, <1>3, <1>4, <1>5, <1>9, <1>10, <1>13
<1>15. Nested' => \A j, k \in DOMAIN open' :
                    j < k => open'[j].base + Slot(open'[k]) <= open'[k].base
  <2> SUFFICES ASSUME Nested, NEW j \in 1 .. n + 1, NEW k \in 1 .. n + 1, j < k
               PROVE  open'[j].base + Slot(open'[k]) <= open'[k].base
    BY <1>4, <1>5
  <2>1. j \in 1 .. n /\ open'[j] = open[j]
    BY <1>2, <1>3
  <2>2. CASE k \in 1 .. n
    BY <1>3, <1>9, <2>1, <2>2
  <2>3. CASE k = n + 1
    BY <1>1, <1>2, <1>3, <1>9, <1>13, <2>1, <2>3
  <2> QED
    BY <1>10, <2>2, <2>3
<1>16. \A k \in DOMAIN open' : open'[k].kind # "func" => open'[k].id < typed'
  BY <1>1, <1>2, <1>3, <1>4, <1>7, <1>10
<1>17. \A j, k \in DOMAIN open' : j # k /\ open'[j].kind # "func" /\ open'[k].kind # "func"
         => open'[j].id # open'[k].id
  BY <1>1, <1>2, <1>3, <1>4, <1>7, <1>10
<1>18. Count(LoopKinds, open', n) = Count(LoopKinds, open, n)
  BY <1>2, <1>3, CountAgrees
<1>19. Count(LoopKinds, open', n + 1)
         = Count(LoopKinds, open, n) + (IF o.kind \in LoopKinds THEN 1 ELSE 0)
  <2>1. Count(LoopKinds, open', n + 1)
          = Count(LoopKinds, open', n) + (IF open'[n + 1].kind \in LoopKinds THEN 1 ELSE 0)
    BY ONLY <1>2, CountStep, ZenonT(60)
  <2> QED
    BY <1>3, <1>18, <2>1, Zenon
<1>20. /\ Len(loops) \in Nat
       /\ o.kind \in LoopKinds => /\ Len(loops') = Len(loops) + 1
                                  /\ loops'[Len(loops) + 1] = <<>>
                                  /\ \A i \in 1 .. Len(loops) : loops'[i] = loops[i]
       /\ o.kind \notin LoopKinds => loops' = loops
  BY <1>1, TableFacts, RowAdded
<1>21. Len(loops') = Count(LoopKinds, open', Len(open'))
  BY <1>3, <1>7, <1>19, <1>20
<1>22. StackInv'
  BY <1>11, <1>12, <1>14, <1>15, <1>16, <1>17, <1>21 DEF StackInv
<1>23. ASSUME NEW k \in 1 .. n PROVE ParkedIn(open', loops', k) = Parked(k)
  <2>1. k \in DOMAIN open /\ k \in Nat \ {0} /\ \A i \in 1 .. k : open[i] = open'[i]
    BY <1>2, <1>3
  <2>2. open[k].kind \in LoopKinds => Count(LoopKinds, open, k) \in 1 .. Len(loops)
    BY <1>1, <2>1, RowOf
  <2>3. open[k].kind \in LoopKinds
          => loops[Count(LoopKinds, open, k)] = loops'[Count(LoopKinds, open, k)]
    BY <1>20, <2>2
  <2>4. ParkedIn(open, loops, k) = ParkedIn(open', loops', k)
    BY ONLY <2>1, <2>3, ParkedSame
  <2> QED
    BY <2>4 DEF Parked
<1>24. ParkedIn(open', loops', n + 1) = {IF o.kind \in LoopKinds THEN o.exit ELSE o.patch}
  <2>1. CASE o.kind \in LoopKinds
    <3>1. o.kind \notin ArmKinds
      BY <2>1 DEF ArmKinds, LoopKinds
    <3>2. Count(LoopKinds, open', n + 1) = Len(loops) + 1
      BY <1>7, <1>19, <2>1
    <3>3. Range(loops'[Count(LoopKinds, open', n + 1)]) = {}
      BY <1>20, <2>1, <3>2 DEF Range
    <3> QED
      BY <1>3, <2>1, <3>1, <3>3 DEF ParkedIn
  <2>2. CASE o.kind \notin LoopKinds
    <3>1. o.kind \in ArmKinds
      BY <2>2, ConstructFacts
    <3> QED
      BY <1>3, <2>2, <3>1 DEF ParkedIn
  <2> QED
    BY <2>1, <2>2
<1> QED
  BY <1>2, <1>3, <1>5, <1>6, <1>22, <1>23, <1>24 DEF n

LEMMA StackPopped ==
  ASSUME Base, open # <<>>, Innermost.kind # "func", open' = Front(open), arena' = arena,
         typed' = typed,
         loops' = IF Innermost.kind \in LoopKinds THEN Front(loops) ELSE loops,
         Nested => locals' = Innermost.base - Slot(Innermost), ~Nested => locals' = 0
  PROVE  /\ StackInv' /\ IsStack(open') /\ Lo' = Lo /\ (Nested' <=> Nested)
         /\ Nested => open'[1] = open[1] /\ 1 \in DOMAIN open
         /\ Len(open) \in Nat /\ Len(open') = Len(open) - 1
         /\ \A k \in 1 .. Len(open) - 1 : open'[k] = open[k] /\ ParkedIn(open', loops', k) = Parked(k)
         /\ locals' \in 0 .. locals
<1> DEFINE n == Len(open)
           o == open[n]
<1>1. IsStack(open) /\ IsTable(loops) /\ StackInv /\ typed \in Nat /\ locals \in Nat
  BY Parsing
<1>2. /\ n \in Nat \ {0} /\ DOMAIN open = 1 .. n /\ Innermost = o
      /\ \A k \in 1 .. n : open[k] \in Construct /\ open[k].id \in Nat /\ open[k].base \in Nat
  BY <1>1, StackFacts, ConstructFacts DEF Innermost
<1>3. /\ IsStack(open') /\ Len(open') = n - 1
      /\ \A k \in 1 .. n - 1 : open'[k] = open[k]
  <2>1. /\ IsStack(open') /\ Len(open') = n - 1
        /\ \A k \in 1 .. Len(open') : open'[k] = open[k]
    BY <1>1, Popped
  <2> QED
    BY <2>1
<1>4. DOMAIN open' = 1 .. n - 1 /\ (open' = <<>> <=> n = 1)
  <2>1. DOMAIN open' = 1 .. Len(open') /\ (open' = <<>> <=> Len(open') = 0)
    BY <1>3, StackFacts
  <2> QED
    BY <1>2, <1>3, <2>1
<1>5. /\ \A k \in 1 .. n : open[k].kind = "func" => k = 1
      /\ \A k \in 1 .. n : open[k].kind # "func" => open[k].id < typed
      /\ \A j, k \in 1 .. n :
           j # k /\ open[j].kind # "func" /\ open[k].kind # "func" => open[j].id # open[k].id
      /\ Len(loops) = Count(LoopKinds, open, n)
  BY <1>1, <1>2 DEF StackInv
<1>6. ~Nested => locals = 0 /\ \A k \in 1 .. n : open[k].base = 0
  BY <1>1, <1>2 DEF StackInv
<1>7. Nested => /\ \A k \in 1 .. n : open[k].base <= locals
                /\ \A j, k \in 1 .. n : j < k => open[j].base + Slot(open[k]) <= open[k].base
  BY <1>1, <1>2 DEF StackInv
<1>8. o.kind # "func" /\ Slot(o) \in {0, 1} /\ o \in Construct
  BY <1>2 DEF Slot
<1> HIDE DEF n
<1>9. Nested => n > 1
  BY <1>2, <1>8 DEF Nested, Within
<1>10. (Nested' <=> Nested) /\ (Nested => open'[1] = open[1] /\ 1 \in 1 .. n - 1)
  <2>1. n > 1 => 1 \in 1 .. n - 1 /\ open'[1] = open[1] /\ open' # <<>>
    BY <1>2, <1>3, <1>4
  <2>2. n = 1 => open' = <<>>
    BY <1>4
  <2>3. n = 1 \/ n > 1
    BY <1>2
  <2>4. Nested => open'[1].kind = "func" /\ open' # <<>>
    BY <1>9, <2>1 DEF Nested, Within
  <2>5. n > 1 /\ open'[1].kind = "func" => Nested
    BY <2>1 DEF Nested, Within
  <2> QED
    BY <1>9, <2>1, <2>2, <2>3, <2>4, <2>5 DEF Nested, Within
<1>11. Lo' = Lo
  BY <1>10 DEF Lo
<1>12. \A k \in 1 .. n - 1 : k \in 1 .. n
  BY <1>2
<1>13. Nested => 1 \in 1 .. n /\ 1 < n
  BY <1>2, <1>9
<1> HIDE DEF o
<1>14. locals' \in 0 .. locals
  <2>1. CASE Nested
    <3>1. open[1].base + Slot(o) <= o.base /\ o.base <= locals
      BY <1>2, <1>7, <1>13, <2>1 DEF o
    <3>2. open[1].base \in Nat /\ o.base \in Nat
      BY <1>2, <1>13, <2>1 DEF o
    <3> QED
      BY <1>1, <1>2, <1>8, <2>1, <3>1, <3>2
  <2>2. CASE ~Nested
    BY <1>6, <2>2
  <2> QED
    BY <2>1, <2>2
<1>15. \A k \in DOMAIN open' : open'[k].kind = "func" => k = 1
  BY <1>3, <1>4, <1>5, <1>12
<1>16. ~Nested' => locals' = 0 /\ \A k \in DOMAIN open' : open'[k].base = 0
  BY <1>3, <1>4, <1>6, <1>10, <1>12
<1>17. Nested' => \A k \in DOMAIN open' : open'[k].base <= locals'
  <2> SUFFICES ASSUME Nested, NEW k \in 1 .. n - 1
               PROVE  open[k].base <= locals'
    BY <1>3, <1>4, <1>10
  <2>1. k \in 1 .. n /\ n \in 1 .. n /\ k < n
    BY <1>2
  <2>2. open[k].base + Slot(o) <= o.base
    BY <1>7, <2>1 DEF o
  <2>3. open[k].base \in Nat /\ o.base \in Nat
    BY <1>2, <2>1 DEF o
  <2> QED
    BY <1>2, <1>8, <2>2, <2>3
<1>18. Nested' => \A j, k \in DOMAIN open' :
                    j < k => open'[j].base + Slot(open'[k]) <= open'[k].base
  BY <1>3, <1>4, <1>7, <1>10, <1>12
<1>19. /\ \A k \in DOMAIN open' : open'[k].kind # "func" => open'[k].id < typed'
       /\ \A j, k \in DOMAIN open' : j # k /\ open'[j].kind # "func" /\ open'[k].kind # "func"
            => open'[j].id # open'[k].id
  BY <1>3, <1>4, <1>5, <1>12
<1>20. Count(LoopKinds, open', n - 1) = Count(LoopKinds, open, n - 1)
  BY <1>2, <1>3, CountAgrees
<1>21. Count(LoopKinds, open, n)
         = Count(LoopKinds, open, n - 1) + (IF o.kind \in LoopKinds THEN 1 ELSE 0)
  <2> DEFINE m == n - 1
  <2>1. m \in Nat /\ m + 1 = n
    BY <1>2
  <2> HIDE DEF m
  <2>2. Count(LoopKinds, open, m + 1)
          = Count(LoopKinds, open, m) + (IF open[m + 1].kind \in LoopKinds THEN 1 ELSE 0)
    BY ONLY <2>1, CountStep, Zenon
  <2>3. Count(LoopKinds, open, n)
          = Count(LoopKinds, open, m) + (IF o.kind \in LoopKinds THEN 1 ELSE 0)
    BY ONLY <2>1, <2>2, Zenon DEF o
  <2> QED
    BY <2>3 DEF m
<1>22. Count(LoopKinds, open, n - 1) \in Nat
  BY <1>2, CountNat
<1>23. /\ Len(loops) \in Nat
       /\ o.kind \in LoopKinds => /\ Len(loops') = Len(loops) - 1
                                  /\ \A i \in 1 .. Len(loops) - 1 : loops'[i] = loops[i]
       /\ o.kind \notin LoopKinds => loops' = loops
  <2>1. Len(loops) \in Nat /\ (loops = <<>> <=> Len(loops) = 0)
    BY <1>1, TableFacts
  <2>2. CASE o.kind \in LoopKinds
    <3>1. loops # <<>>
      BY <1>5, <1>21, <1>22, <2>1, <2>2
    <3>2. loops' = Front(loops)
      BY <1>2, <2>2
    <3>3. /\ Len(loops') = Len(loops) - 1
          /\ \A i \in 1 .. Len(loops') : loops'[i] = loops[i]
      BY <1>1, <3>1, <3>2, RowDropped
    <3> QED
      BY <2>1, <2>2, <3>3
  <2>3. CASE o.kind \notin LoopKinds
    BY <1>2, <2>1, <2>3
  <2> QED
    BY <2>2, <2>3
<1>24. Len(loops') = Count(LoopKinds, open', Len(open'))
  BY <1>3, <1>5, <1>20, <1>21, <1>22, <1>23
<1>25. StackInv'
  BY <1>15, <1>16, <1>17, <1>18, <1>19, <1>24 DEF StackInv
<1>26. ASSUME NEW k \in 1 .. n - 1 PROVE ParkedIn(open', loops', k) = Parked(k)
  <2>1. k \in DOMAIN open /\ k \in Nat \ {0} /\ \A i \in 1 .. k : open[i] = open'[i]
    BY <1>2, <1>3
  <2>2. n \in k + 1 .. Len(open) /\ open[n] = o
    BY <1>2 DEF n, o
  <2>3. /\ open[k].kind \in LoopKinds => Count(LoopKinds, open, k) \in 1 .. Len(loops)
        /\ o.kind \in LoopKinds => Count(LoopKinds, open, k) \in 0 .. Len(loops) - 1
    BY <1>1, <2>1, <2>2, RowOf
  <2>4. open[k].kind \in LoopKinds
          => loops[Count(LoopKinds, open, k)] = loops'[Count(LoopKinds, open, k)]
    BY <1>23, <2>3
  <2>5. ParkedIn(open, loops, k) = ParkedIn(open', loops', k)
    BY ONLY <2>1, <2>4, ParkedSame
  <2> QED
    BY <2>5 DEF Parked
<1> QED
  BY <1>2, <1>3, <1>10, <1>11, <1>14, <1>25, <1>26, <1>12 DEF n

LEMMA ConstructKinds ==
  ASSUME NEW o \in Construct
  PROVE  o.kind \in ArmKinds => o.kind # "func" /\ o.kind \notin LoopKinds /\ Slot(o) = 0
  BY DEF ArmKinds, LoopKinds, Slot

LEMMA StackReplaced ==
  ASSUME Base, open # <<>>, Innermost.kind \in ArmKinds, NEW o \in Construct,
         o.kind \in ArmKinds, o.id = Innermost.id, o.base = Innermost.base,
         open' = Append(Front(open), o), arena' = arena, typed' = typed, loops' = loops,
         locals' = Innermost.base
  PROVE  /\ StackInv' /\ IsStack(open') /\ Lo' = Lo /\ (Nested' <=> Nested)
         /\ Nested => open'[1] = open[1]
         /\ Len(open) \in Nat \ {0} /\ Len(open') = Len(open)
         /\ \A k \in 1 .. Len(open) - 1 : open'[k] = open[k] /\ ParkedIn(open', loops', k) = Parked(k)
         /\ open'[Len(open)] = o /\ ParkedIn(open', loops', Len(open)) = {o.patch}
         /\ locals' \in 0 .. locals
<1> DEFINE n == Len(open)
<1>1. IsStack(open) /\ IsTable(loops) /\ StackInv /\ typed \in Nat /\ locals \in Nat
  BY Parsing
<1>2. /\ n \in Nat \ {0} /\ DOMAIN open = 1 .. n /\ Innermost = open[n]
      /\ \A k \in 1 .. n : open[k] \in Construct /\ open[k].id \in Nat /\ open[k].base \in Nat
  BY <1>1, StackFacts, ConstructFacts DEF Innermost
<1>3. /\ IsStack(open') /\ Len(open') = n /\ open'[n] = o
      /\ \A k \in 1 .. n - 1 : open'[k] = open[k]
  <2> DEFINE f == Front(open)
  <2>1. IsStack(f) /\ Len(f) = n - 1 /\ \A k \in 1 .. Len(f) : f[k] = open[k]
    BY <1>1, Popped
  <2>2. open' = Append(f, o)
    OBVIOUS
  <2> HIDE DEF f
  <2>3. IsPushed(f, o, open')
    BY <2>1, <2>2, PushedIs, Zenon
  <2>4. (n - 1) + 1 = n
    BY <1>2, SMTT(30)
  <2> QED
    BY <1>2, <2>1, <2>3, <2>4 DEF IsPushed
<1>4. DOMAIN open' = 1 .. n /\ open' # <<>>
  BY <1>2, <1>3, StackFacts
<1>5. /\ \A k \in 1 .. n : open[k].kind = "func" => k = 1
      /\ \A k \in 1 .. n : open[k].kind # "func" => open[k].id < typed
      /\ \A j, k \in 1 .. n :
           j # k /\ open[j].kind # "func" /\ open[k].kind # "func" => open[j].id # open[k].id
      /\ Len(loops) = Count(LoopKinds, open, n)
  BY <1>1, <1>2 DEF StackInv
<1>6. ~Nested => locals = 0 /\ \A k \in 1 .. n : open[k].base = 0
  BY <1>1, <1>2 DEF StackInv
<1>7. Nested => /\ \A k \in 1 .. n : open[k].base <= locals
                /\ \A j, k \in 1 .. n : j < k => open[j].base + Slot(open[k]) <= open[k].base
  BY <1>1, <1>2 DEF StackInv
<1>8. /\ open[n].kind # "func" /\ o.kind # "func" /\ o.id = open[n].id /\ o.base = open[n].base
      /\ Slot(o) = 0 /\ Slot(open[n]) = 0
      /\ open[n].kind \notin LoopKinds /\ o.kind \notin LoopKinds
  BY <1>2, ConstructKinds
<1> HIDE DEF n
<1>9. ASSUME NEW k \in 1 .. n
      PROVE  k \in 1 .. n - 1 \/ k = n
  BY <1>2
<1>20. \A k \in 1 .. n : open'[k].id = open[k].id /\ open'[k].base = open[k].base
  BY <1>3, <1>8, <1>9
<1>21. \A k \in 1 .. n : Slot(open'[k]) = Slot(open[k])
  BY <1>3, <1>8, <1>9
<1>22. \A k \in 1 .. n : open'[k].kind = "func" => open[k].kind = "func"
  BY <1>3, <1>8, <1>9
<1>23. \A k \in 1 .. n : open'[k].kind # "func" => open[k].kind # "func"
  BY <1>3, <1>8, <1>9
<1>10. (Nested' <=> Nested) /\ (Nested => open'[1] = open[1])
  <2>1. 1 \in 1 .. n /\ open # <<>>
    BY <1>2
  <2>2. open[1].kind = "func" => 1 \in 1 .. n - 1
    BY <1>2, <1>8
  <2> QED
    BY <1>3, <1>4, <1>22, <1>23, <2>1, <2>2 DEF Nested, Within
<1>11. Lo' = Lo
  BY <1>10 DEF Lo
<1>12. locals' \in 0 .. locals /\ \A k \in 1 .. n : Nested => open[k].base <= locals'
  <2>1. n \in 1 .. n /\ locals' = open[n].base /\ locals' \in Nat
    BY <1>2
  <2>2. locals' <= locals
    BY <1>6, <1>7, <2>1
  <2>3. ASSUME Nested, NEW k \in 1 .. n PROVE open[k].base <= locals'
    <3>1. k = n \/ k < n
      BY <1>2
    <3>2. k < n => open[k].base + Slot(open[n]) <= open[n].base
      BY <1>7, <2>1, <2>3
    <3> QED
      BY <1>2, <1>8, <2>1, <3>1, <3>2
  <2> QED
    BY <1>1, <2>1, <2>2, <2>3
<1>13. /\ \A k \in DOMAIN open' : open'[k].kind = "func" => k = 1
       /\ \A k \in DOMAIN open' : open'[k].kind # "func" => open'[k].id < typed'
  BY <1>4, <1>5, <1>20, <1>22, <1>23
<1>24. \A j, k \in DOMAIN open' : j # k /\ open'[j].kind # "func" /\ open'[k].kind # "func"
         => open'[j].id # open'[k].id
  BY ONLY <1>4, <1>5, <1>20, <1>23
<1>14. ~Nested' => locals' = 0 /\ \A k \in DOMAIN open' : open'[k].base = 0
  BY ONLY <1>4, <1>6, <1>10, <1>12, <1>20
<1>15. Nested' => \A k \in DOMAIN open' : open'[k].base <= locals'
  BY ONLY <1>4, <1>10, <1>12, <1>20
<1>25. Nested' => \A j, k \in DOMAIN open' :
                    j < k => open'[j].base + Slot(open'[k]) <= open'[k].base
  BY ONLY <1>4, <1>7, <1>10, <1>20, <1>21
<1>16. Len(loops') = Count(LoopKinds, open', Len(open'))
  <2> DEFINE m == n - 1
  <2>1. m \in Nat
    BY <1>2
  <2>6. m + 1 = n
    BY <1>2
  <2>2. Count(LoopKinds, open', m) = Count(LoopKinds, open, m)
    BY ONLY <1>3, <2>1, CountAgrees
  <2> HIDE DEF m
  <2>3. Count(LoopKinds, open, m + 1)
          = Count(LoopKinds, open, m) + (IF open[m + 1].kind \in LoopKinds THEN 1 ELSE 0)
    BY ONLY <2>1, CountStep, Zenon
  <2>4. Count(LoopKinds, open', m + 1)
          = Count(LoopKinds, open', m) + (IF open'[m + 1].kind \in LoopKinds THEN 1 ELSE 0)
    BY ONLY <2>1, CountStep, Zenon
  <2>5. Count(LoopKinds, open, n) = Count(LoopKinds, open', n)
    BY ONLY <1>3, <1>8, <2>2, <2>3, <2>4, <2>6
  <2> QED
    BY <1>3, <1>5, <2>5
<1>17. StackInv'
  BY <1>13, <1>14, <1>15, <1>16, <1>24, <1>25 DEF StackInv
<1>18. ASSUME NEW k \in 1 .. n - 1 PROVE ParkedIn(open', loops', k) = Parked(k)
  <2>1. k \in Nat \ {0} /\ \A i \in 1 .. k : open[i] = open'[i]
    <3>1. k \in Nat \ {0} /\ \A i \in 1 .. k : i \in 1 .. n - 1
      BY ONLY <1>2, k \in 1 .. n - 1
    <3> QED
      BY ONLY <1>3, <3>1
  <2>2. open[k].kind \in LoopKinds
          => loops[Count(LoopKinds, open, k)] = loops'[Count(LoopKinds, open, k)]
    OBVIOUS
  <2>3. ParkedIn(open, loops, k) = ParkedIn(open', loops', k)
    BY ONLY <2>1, <2>2, ParkedSame
  <2> QED
    BY <2>3 DEF Parked
<1>19. ParkedIn(open', loops', n) = {o.patch}
  BY <1>3 DEF ParkedIn
<1> QED
  BY <1>2, <1>3, <1>10, <1>11, <1>12, <1>17, <1>18, <1>19 DEF n

-----------------------------------------------------------------------------
(* The invariant after a statement that leaves the functions alone. *)
Placed(o, P, lo, n) ==
  /\ \A s \in P : s \in lo + 2 .. n - 1
  /\ o.kind \in LoopKinds => o.start \in lo + 1 .. n

LEMMA PlacedMore ==
  ASSUME NEW o, NEW P, NEW lo, NEW n \in Nat, NEW m \in Nat, n <= m, Placed(o, P, lo, n)
  PROVE  Placed(o, P, lo, m)
  BY DEF Placed

LEMMA PlacesOf ==
  ASSUME Base, phase = "parse", NEW k \in DOMAIN open
  PROVE  Placed(open[k], Parked(k), Lo, Len(code))
  BY DEF Base, PlacesInv, Placed

LEMMA ParsedOn ==
  ASSUME Base, phase = "parse", phase' = phase, Grew,
         arena' = arena, funcs' = funcs, replaced' = replaced, saved' = saved, frames' = frames,
         typed' \in Nat, locals' \in 0 .. MAX_LOCALS, IsStack(open'),
         IsTable(loops'), Len(loops') <= LOOPS_MAX_DEPTH,
         \A i \in DOMAIN loops' : Len(loops'[i]) <= LOOPS_MAX_BREAKS_LOOP,
         StackInv', Lo' = Lo, Nested' <=> Nested, Nested => open'[1] = open[1],
         \A k \in DOMAIN open' : Placed(open'[k], ParkedIn(open', loops', k), Lo, Len(code'))
  PROVE  Base'
<1>1. IsCode(code) /\ Len(code) \in Nat
  BY Parsing
<1>2. /\ IsCode(code') /\ Len(code) <= Len(code') /\ Len(code') \in Nat
      /\ Len(code') <= FILE_BC_SIZE /\ Grown(code, code', Pending)
  <2>1. IsCode(code') /\ Len(code) <= Len(code') /\ Len(code') <= FILE_BC_SIZE
    BY DEF Grew, Grown
  <2> QED
    BY <2>1, CodeFacts DEF Grew
<1>3. Typed /\ arena \in 0 .. Len(code) /\ \A f \in DOMAIN funcs : funcs[f].start <= arena
  BY DEF Base, Typed
<1>4. Typed'
  <2>1. arena' \in 0 .. Len(code')
    BY <1>1, <1>2, <1>3
  <2> QED
    BY <1>2, <1>3, <2>1 DEF Typed
<1>5. Lo \in Nat /\ arena \in Nat /\ saved.arena \in Nat /\ saved.arena <= Lo
  BY LoType
<1>6. PlacesInv'
  <2>1. ASSUME NEW k \in DOMAIN open'
        PROVE  /\ \A s \in ParkedIn(open', loops', k) : s \in Lo + 2 .. Len(code') - 1
               /\ open'[k].kind \in LoopKinds => open'[k].start \in Lo + 1 .. Len(code')
    BY DEF Placed
  <2>2. \A k \in DOMAIN open' :
          /\ \A s \in ParkedIn(open', loops', k) : s \in Lo' + 2 .. Len(code') - 1
          /\ open'[k].kind \in LoopKinds => open'[k].start \in Lo' + 1 .. Len(code')
    BY <2>1
  <2>3. Nested => open[1].start \in arena .. Len(code) /\ open[1].id \in DOMAIN funcs
    BY DEF Base, PlacesInv
  <2>4. Nested' => open'[1].start \in arena' .. Len(code') /\ open'[1].id \in DOMAIN funcs'
    BY <1>1, <1>2, <1>5, <2>3
  <2> QED
    BY ONLY <2>2, <2>4 DEF PlacesInv, Parked
<1>7. TraceInv'
  <2>1. TraceInv
    BY DEF Base
  <2>2. \A i \in 1 .. saved.arena : code'[i] = code[i]
    <3>1. \A i \in 1 .. Lo : code'[i] = code[i]
      BY <1>2, Unharmed
    <3> QED
      BY <1>5, <3>1
  <2>3. \A i \in 1 .. saved'.arena : code'[i] = saved'.bytes[i]
    BY <2>1, <2>2 DEF TraceInv
  <2>4. Nested' => open'[1].id > saved'.count \/ open'[1].id = replaced'.idx
    BY <2>1 DEF TraceInv
  <2> QED
    BY <2>1, <2>3, <2>4 DEF TraceInv
<1> QED
  BY <1>3, <1>4, <1>6, <1>7 DEF Base

LEMMA Tables ==
  ASSUME Base
  PROVE  /\ IsTable(loops) /\ Len(loops) <= LOOPS_MAX_DEPTH /\ Len(loops) \in Nat
         /\ \A i \in DOMAIN loops : Len(loops[i]) <= LOOPS_MAX_BREAKS_LOOP
         /\ locals \in 0 .. MAX_LOCALS /\ MAX_LOCALS \in Nat /\ LOOPS_MAX_BREAKS_LOOP \in Nat
<1>1. IsTable(loops)
  BY Parsing
<1> QED
  BY <1>1, TableFacts, CompilerSizes DEF Base, Typed

(* The same, when the constructs open stay the same. *)
LEMMA FlatStep ==
  ASSUME Base, phase = "parse", phase' = phase, Grew,
         arena' = arena, funcs' = funcs, replaced' = replaced, saved' = saved, frames' = frames,
         typed' = typed + 1, open' = open, loops' = loops, locals' \in 0 .. MAX_LOCALS,
         Nested => locals <= locals', ~Nested => locals' = locals
  PROVE  Base'
<1>1. IsStack(open) /\ Len(code) \in Nat /\ typed \in Nat
  BY Parsing
<1>2. Len(code) <= Len(code') /\ Len(code') \in Nat
  BY CodeFacts DEF Grew, Grown
<1>3. IsTable(loops) /\ Len(loops) <= LOOPS_MAX_DEPTH /\ MAX_LOCALS \in Nat
      /\ \A i \in DOMAIN loops : Len(loops[i]) <= LOOPS_MAX_BREAKS_LOOP
  BY Tables
<1>4. StackInv' /\ Lo' = Lo /\ (Nested' <=> Nested)
  <2>1. locals' \in Nat /\ typed' \in Nat /\ typed <= typed' /\ Len(loops') = Len(loops)
    BY <1>1, <1>3
  <2> QED
    BY ONLY StackKept, <2>1, Base, open' = open, arena' = arena, Nested => locals <= locals',
            ~Nested => locals' = locals
<1>5. \A k \in DOMAIN open' : Placed(open'[k], ParkedIn(open', loops', k), Lo, Len(code'))
  <2>1. \A k \in DOMAIN open : Placed(open[k], Parked(k), Lo, Len(code))
    BY PlacesOf
  <2>2. \A k \in DOMAIN open : Placed(open[k], Parked(k), Lo, Len(code'))
    BY <1>1, <1>2, <2>1, PlacedMore
  <2> QED
    BY <2>2 DEF Parked
<1>6. typed' \in Nat
  BY <1>1
<1> QED
  BY <1>1, <1>3, <1>4, <1>5, <1>6, ParsedOn

(* The same, when a construct opens. *)
LEMMA PushStep ==
  ASSUME Base, phase = "parse", phase' = phase, Grew,
         arena' = arena, funcs' = funcs, replaced' = replaced, saved' = saved, frames' = frames,
         typed' = typed + 1, NEW o \in Construct, o.kind # "func", open' = Append(open, o),
         o.id = typed,
         loops' = IF o.kind \in LoopKinds THEN Append(loops, <<>>) ELSE loops,
         o.kind \in LoopKinds => Len(loops) < LOOPS_MAX_DEPTH,
         locals' \in 0 .. MAX_LOCALS, ~Nested => o.base = 0 /\ locals' = 0,
         Nested => o.base = locals + Slot(o) /\ o.base <= locals',
         o.kind \in LoopKinds => o.start \in Len(code) + 1 .. Len(code') /\ o.exit \in Len(code) + 2 .. Len(code') - 1,
         o.kind \notin LoopKinds => o.patch \in Len(code) + 2 .. Len(code') - 1
  PROVE  Base'
<1> DEFINE n == Len(open)
<1>1. IsStack(open) /\ Len(code) \in Nat /\ typed \in Nat /\ typed' \in Nat
  BY Parsing, SMTT(30)
<1>2. Len(code) <= Len(code') /\ Len(code') \in Nat
  BY CodeFacts DEF Grew, Grown
<1>3. IsTable(loops) /\ Len(loops) <= LOOPS_MAX_DEPTH /\ Len(loops) \in Nat /\ MAX_LOCALS \in Nat
      /\ (\A i \in DOMAIN loops : Len(loops[i]) <= LOOPS_MAX_BREAKS_LOOP)
      /\ LOOPS_MAX_BREAKS_LOOP \in Nat /\ LOOPS_MAX_DEPTH \in Nat
  BY Tables, CompilerSizes
<1>4. /\ StackInv' /\ IsStack(open') /\ Lo' = Lo /\ (Nested' <=> Nested)
      /\ Nested => open'[1] = open[1]
      /\ Len(open') = n + 1 /\ n \in Nat
      /\ \A k \in 1 .. n : open'[k] = open[k] /\ ParkedIn(open', loops', k) = Parked(k)
      /\ open'[n + 1] = o
      /\ ParkedIn(open', loops', n + 1) = {IF o.kind \in LoopKinds THEN o.exit ELSE o.patch}
  <2>1. locals' \in Nat
    BY <1>3
  <2> QED
    BY <2>1, StackPushed
<1>5. Lo \in Nat /\ Lo <= Len(code)
  BY LoType
<1>6. DOMAIN open' = 1 .. n + 1 /\ DOMAIN open = 1 .. n
  BY <1>1, <1>4, StackFacts
<1> HIDE DEF n
<1>7. ASSUME NEW k \in 1 .. n + 1
      PROVE  Placed(open'[k], ParkedIn(open', loops', k), Lo, Len(code'))
  <2>1. CASE k \in 1 .. n
    <3>1. Placed(open[k], Parked(k), Lo, Len(code))
      BY <1>6, <2>1, PlacesOf
    <3>2. Placed(open[k], Parked(k), Lo, Len(code'))
      BY <1>1, <1>2, <3>1, PlacedMore
    <3> QED
      BY <1>4, <2>1, <3>2
  <2>2. CASE k = n + 1
    <3>1. open'[k] = o
      BY <1>4, <2>2
    <3>2. ParkedIn(open', loops', k) = {IF o.kind \in LoopKinds THEN o.exit ELSE o.patch}
      BY <1>4, <2>2
    <3>3. /\ o.kind \in LoopKinds => o.exit \in Lo + 2 .. Len(code') - 1 /\ o.start \in Lo + 1 .. Len(code')
          /\ o.kind \notin LoopKinds => o.patch \in Lo + 2 .. Len(code') - 1
      BY <1>1, <1>2, <1>5, SMTT(30)
    <3> QED
      BY ONLY <3>1, <3>2, <3>3 DEF Placed
  <2> QED
    BY <1>4, <2>1, <2>2
<1>8. /\ IsTable(loops') /\ Len(loops') <= LOOPS_MAX_DEPTH
      /\ \A i \in DOMAIN loops' : Len(loops'[i]) <= LOOPS_MAX_BREAKS_LOOP
  <2>1. CASE o.kind \in LoopKinds
    <3>1. loops' = Append(loops, <<>>)
      BY <2>1
    <3>2. /\ IsTable(loops') /\ Len(loops') = Len(loops) + 1
          /\ \A i \in 1 .. Len(loops) : loops'[i] = loops[i]
          /\ loops'[Len(loops) + 1] = <<>>
      BY <1>3, <3>1, RowAdded
    <3>3. DOMAIN loops' = 1 .. Len(loops) + 1 /\ DOMAIN loops = 1 .. Len(loops)
      BY <1>3, <3>2, TableFacts
    <3>4. Len(loops') <= LOOPS_MAX_DEPTH
      BY <1>3, <2>1, <3>2
    <3>5. \A i \in 1 .. Len(loops) + 1 : i \in 1 .. Len(loops) \/ i = Len(loops) + 1
      BY <1>3
    <3>6. Len(<<>>) <= LOOPS_MAX_BREAKS_LOOP
      BY <1>3
    <3> QED
      BY <1>3, <3>2, <3>3, <3>4, <3>5, <3>6
  <2>2. CASE o.kind \notin LoopKinds
    BY <1>3, <2>2
  <2> QED
    BY <2>1, <2>2
<1> QED
  BY <1>1, <1>4, <1>6, <1>7, <1>8, ParsedOn

(* The same, when one ends. *)
LEMMA PopStep ==
  ASSUME Base, phase = "parse", phase' = phase, Grew,
         arena' = arena, funcs' = funcs, replaced' = replaced, saved' = saved, frames' = frames,
         typed' = typed, open # <<>>, Innermost.kind # "func", open' = Front(open),
         loops' = IF Innermost.kind \in LoopKinds THEN Front(loops) ELSE loops,
         Nested => locals' = Innermost.base - Slot(Innermost), ~Nested => locals' = 0
  PROVE  Base'
<1> DEFINE n == Len(open)
<1>1. IsStack(open) /\ Len(code) \in Nat /\ typed' \in Nat
  BY Parsing
<1>2. Len(code) <= Len(code') /\ Len(code') \in Nat
  BY CodeFacts DEF Grew, Grown
<1>3. IsTable(loops) /\ Len(loops) <= LOOPS_MAX_DEPTH /\ Len(loops) \in Nat /\ MAX_LOCALS \in Nat
      /\ (\A i \in DOMAIN loops : Len(loops[i]) <= LOOPS_MAX_BREAKS_LOOP)
      /\ LOOPS_MAX_BREAKS_LOOP \in Nat /\ LOOPS_MAX_DEPTH \in Nat /\ locals \in 0 .. MAX_LOCALS
  BY Tables, CompilerSizes
<1>4. /\ StackInv' /\ IsStack(open') /\ Lo' = Lo /\ (Nested' <=> Nested)
      /\ Nested => open'[1] = open[1]
      /\ n \in Nat /\ Len(open') = n - 1
      /\ \A k \in 1 .. n - 1 : open'[k] = open[k] /\ ParkedIn(open', loops', k) = Parked(k)
      /\ locals' \in 0 .. locals
  BY StackPopped
<1>5. locals' \in 0 .. MAX_LOCALS
  BY <1>3, <1>4
<1>6. DOMAIN open' = 1 .. n - 1 /\ DOMAIN open = 1 .. n /\ \A k \in 1 .. n - 1 : k \in 1 .. n
  BY <1>1, <1>4, StackFacts
<1> HIDE DEF n
<1>7. ASSUME NEW k \in 1 .. n - 1
      PROVE  Placed(open'[k], ParkedIn(open', loops', k), Lo, Len(code'))
  <2>1. Placed(open[k], Parked(k), Lo, Len(code))
    BY <1>6, PlacesOf
  <2>2. Placed(open[k], Parked(k), Lo, Len(code'))
    BY <1>1, <1>2, <2>1, PlacedMore
  <2> QED
    BY <1>4, <2>2
<1>8. /\ IsTable(loops') /\ Len(loops') <= LOOPS_MAX_DEPTH
      /\ \A i \in DOMAIN loops' : Len(loops'[i]) <= LOOPS_MAX_BREAKS_LOOP
  <2>1. CASE Innermost.kind \in LoopKinds
    <3>1. loops' = Front(loops) /\ loops # <<>>
      BY <2>1, ParkedTop
    <3>2. /\ IsTable(loops') /\ Len(loops') = Len(loops) - 1
          /\ \A i \in 1 .. Len(loops') : loops'[i] = loops[i]
      BY <1>3, <3>1, RowDropped
    <3>3. DOMAIN loops' = 1 .. Len(loops') /\ DOMAIN loops = 1 .. Len(loops)
      BY <1>3, <3>2, TableFacts
    <3>4. Len(loops') <= LOOPS_MAX_DEPTH /\ \A i \in 1 .. Len(loops') : i \in 1 .. Len(loops)
      BY <1>3, <3>2
    <3> QED
      BY ONLY <1>3, <3>2, <3>3, <3>4
  <2>2. CASE Innermost.kind \notin LoopKinds
    BY <1>3, <2>2
  <2> QED
    BY <2>1, <2>2
<1> QED
  BY <1>1, <1>4, <1>5, <1>6, <1>7, <1>8, ParsedOn

-----------------------------------------------------------------------------
(* Every statement. *)
LEMMA VarDeclStep ==
  ASSUME Base, NEW k \in Literals, VarDecl(k)
  PROVE  Base'
<1>1. Grew
  BY VarDeclGrows
<1>2. /\ phase = "parse" /\ phase' = phase /\ arena' = arena /\ funcs' = funcs
      /\ replaced' = replaced /\ saved' = saved /\ frames' = frames
      /\ typed' = typed + 1 /\ open' = open /\ loops' = loops
      /\ IF InFunction THEN locals < MAX_LOCALS /\ locals' = locals + 1 ELSE locals' = locals
  BY DEF VarDecl, Typing, running
<1>3. InFunction <=> Nested
  BY Parsing, InFunctionIs
<1>4. locals \in 0 .. MAX_LOCALS /\ MAX_LOCALS \in Nat
  BY Tables
<1>5. locals' \in 0 .. MAX_LOCALS /\ (Nested => locals <= locals') /\ (~Nested => locals' = locals)
  BY <1>2, <1>3, <1>4
<1> QED
  BY <1>1, <1>2, <1>5, FlatStep

LEMMA CallStep ==
  ASSUME Base, NEW f \in DOMAIN funcs, CallStatement(f)
  PROVE  Base'
<1>1. Grew
  BY CallGrows
<1>2. /\ phase = "parse" /\ phase' = phase /\ arena' = arena /\ funcs' = funcs
      /\ replaced' = replaced /\ saved' = saved /\ frames' = frames
      /\ typed' = typed + 1 /\ open' = open /\ loops' = loops /\ locals' = locals
  BY DEF CallStatement, Typing, running
<1>3. locals' \in 0 .. MAX_LOCALS /\ locals <= locals'
  BY <1>2, Tables
<1> QED
  BY <1>1, <1>2, <1>3, FlatStep

LEMMA ReturnStep ==
  ASSUME Base, NEW k \in Literals, Return(k)
  PROVE  Base'
<1>1. Grew
  BY ReturnGrows
<1>2. /\ phase = "parse" /\ phase' = phase /\ arena' = arena /\ funcs' = funcs
      /\ replaced' = replaced /\ saved' = saved /\ frames' = frames
      /\ typed' = typed + 1 /\ open' = open /\ loops' = loops /\ locals' = locals
  BY DEF Return, Typing, running
<1>3. locals' \in 0 .. MAX_LOCALS /\ locals <= locals'
  BY <1>2, Tables
<1> QED
  BY <1>1, <1>2, <1>3, FlatStep

LEMMA Bases ==
  ASSUME Base
  PROVE  /\ locals \in Nat /\ typed \in Nat /\ (InFunction <=> Nested)
         /\ ~Nested => locals = 0
         /\ open # <<>> /\ ~Nested => Innermost.base = 0
         /\ Len(code) \in Nat
<1>1. IsStack(open) /\ StackInv /\ locals \in Nat /\ typed \in Nat /\ Len(code) \in Nat
  BY Parsing
<1>2. open # <<>> => Len(open) \in DOMAIN open /\ Innermost = open[Len(open)]
  BY <1>1, StackFacts DEF Innermost
<1> QED
  BY <1>1, <1>2, InFunctionIs DEF StackInv

LEMMA ThenOpens ==
  ASSUME NEW i \in Nat, NEW b \in Nat, NEW p \in Nat, NEW o,
         o = [kind |-> "then", id |-> i, base |-> b, patch |-> p]
  PROVE  /\ o \in Construct /\ o.kind # "func" /\ o.kind \notin LoopKinds
         /\ o.id = i /\ o.base = b /\ o.patch = p /\ Slot(o) = 0
  BY DEF Construct, Arm, ArmKinds, LoopKinds, Slot

LEMMA LoopOpens ==
  ASSUME NEW k \in LoopKinds, NEW i \in Nat, NEW b \in Nat, NEW s \in Nat, NEW e \in Nat, NEW o,
         o = [kind |-> k, id |-> i, base |-> b, start |-> s, exit |-> e]
  PROVE  /\ o \in Construct /\ o.kind # "func" /\ o.kind = k
         /\ o.id = i /\ o.base = b /\ o.start = s /\ o.exit = e
         /\ Slot(o) = (IF k = "for" THEN 1 ELSE 0)
  BY DEF Construct, Loop, LoopKinds, Slot

LEMMA IfStep ==
  ASSUME Base, If
  PROVE  Base'
<1> DEFINE o == [kind |-> "then", id |-> typed, base |-> locals, patch |-> Len(code) + 4]
<1>1. Grew /\ Len(code') = Len(code) + 5 /\ open' = Append(open, o)
  BY IfGrows
<1>2. locals \in Nat /\ typed \in Nat /\ Len(code) \in Nat /\ (~Nested => locals = 0)
  BY Bases
<1>3. /\ o \in Construct /\ o.kind # "func" /\ o.kind \notin LoopKinds
      /\ o.id = typed /\ o.base = locals /\ o.patch = Len(code) + 4 /\ Slot(o) = 0
  BY <1>2, ThenOpens
<1>4. /\ phase = "parse" /\ phase' = phase /\ arena' = arena /\ funcs' = funcs
      /\ replaced' = replaced /\ saved' = saved /\ frames' = frames
      /\ typed' = typed + 1 /\ loops' = loops /\ locals' = locals
  BY DEF If, Typing, running
<1> HIDE DEF o
<1>5. locals' \in 0 .. MAX_LOCALS
  BY <1>4, Tables
<1>6. o.patch \in Len(code) + 2 .. Len(code') - 1
  BY <1>1, <1>2, <1>3
<1>7. (~Nested => o.base = 0 /\ locals' = 0) /\ (Nested => o.base = locals + Slot(o) /\ o.base <= locals')
  BY <1>2, <1>3, <1>4
<1> QED
  BY <1>1, <1>3, <1>4, <1>5, <1>6, <1>7, PushStep

LEMMA IfLetStep ==
  ASSUME Base, IfLet
  PROVE  Base'
<1> DEFINE o == [kind |-> "then", id |-> typed, base |-> locals, patch |-> Len(code) + 4]
<1>1. Grew /\ Len(code') >= Len(code) + 5 /\ open' = Append(open, o)
  BY IfLetGrows
<1>2. locals \in Nat /\ typed \in Nat /\ Len(code) \in Nat /\ (~Nested => locals = 0)
      /\ (InFunction <=> Nested)
  BY Bases
<1>3. /\ o \in Construct /\ o.kind # "func" /\ o.kind \notin LoopKinds
      /\ o.id = typed /\ o.base = locals /\ o.patch = Len(code) + 4 /\ Slot(o) = 0
  BY <1>2, ThenOpens
<1>4. /\ phase = "parse" /\ phase' = phase /\ arena' = arena /\ funcs' = funcs
      /\ replaced' = replaced /\ saved' = saved /\ frames' = frames
      /\ typed' = typed + 1 /\ loops' = loops
      /\ IF InFunction THEN locals < MAX_LOCALS /\ locals' = locals + 1 ELSE locals' = locals
  BY DEF IfLet, Typing, running
<1> HIDE DEF o
<1>5. locals \in 0 .. MAX_LOCALS /\ MAX_LOCALS \in Nat
  BY Tables
<1>6. locals' \in 0 .. MAX_LOCALS /\ (Nested => locals <= locals') /\ (~Nested => locals' = locals)
  BY <1>2, <1>4, <1>5
<1>7. o.patch \in Len(code) + 2 .. Len(code') - 1
  <2>1. Len(code') \in Nat
    BY <1>1, CodeFacts DEF Grew, Grown
  <2> QED
    BY <1>1, <1>2, <1>3, <2>1
<1>8. (~Nested => o.base = 0 /\ locals' = 0) /\ (Nested => o.base = locals + Slot(o) /\ o.base <= locals')
  BY <1>2, <1>3, <1>6
<1> QED
  BY <1>1, <1>3, <1>4, <1>6, <1>7, <1>8, PushStep

LEMMA WhileStep ==
  ASSUME Base, While
  PROVE  Base'
<1> DEFINE o == [kind |-> "while", id |-> typed, base |-> locals,
                 start |-> Len(code) + 1, exit |-> Len(code) + 4]
<1>1. Grew /\ Len(code') = Len(code) + 5 /\ open' = Append(open, o)
  BY WhileGrows
<1>2. locals \in Nat /\ typed \in Nat /\ Len(code) \in Nat /\ (~Nested => locals = 0)
  BY Bases
<1>3. /\ o \in Construct /\ o.kind # "func" /\ o.kind \in LoopKinds
      /\ o.id = typed /\ o.base = locals /\ o.start = Len(code) + 1 /\ o.exit = Len(code) + 4
      /\ Slot(o) = 0
  <2>1. "while" \in LoopKinds /\ Len(code) + 1 \in Nat /\ Len(code) + 4 \in Nat
    BY <1>2 DEF LoopKinds
  <2> QED
    BY <1>2, <2>1, LoopOpens
<1>4. /\ phase = "parse" /\ phase' = phase /\ arena' = arena /\ funcs' = funcs
      /\ replaced' = replaced /\ saved' = saved /\ frames' = frames
      /\ typed' = typed + 1 /\ loops' = Append(loops, <<>>) /\ locals' = locals
      /\ Len(loops) < LOOPS_MAX_DEPTH
  BY DEF While, Typing, running
<1> HIDE DEF o
<1>5. locals' \in 0 .. MAX_LOCALS
  BY <1>4, Tables
<1>6. o.start \in Len(code) + 1 .. Len(code') /\ o.exit \in Len(code) + 2 .. Len(code') - 1
  BY <1>1, <1>2, <1>3
<1>7. (~Nested => o.base = 0 /\ locals' = 0) /\ (Nested => o.base = locals + Slot(o) /\ o.base <= locals')
  BY <1>2, <1>3, <1>4
<1> QED
  BY <1>1, <1>3, <1>4, <1>5, <1>6, <1>7, PushStep

LEMMA ForInStep ==
  ASSUME Base, NEW k \in Literals, ForIn(k)
  PROVE  Base'
<1> DEFINE slots == IF InFunction THEN 1 ELSE 0
           o == [kind |-> "for", id |-> typed, base |-> locals + slots,
                 start |-> Len(code) + 8, exit |-> Len(code) + 13]
<1>1. Grew /\ Len(code') = Len(code) + 14 /\ open' = Append(open, o)
  BY ForInGrows
<1>2. locals \in Nat /\ typed \in Nat /\ Len(code) \in Nat /\ (~Nested => locals = 0)
      /\ (InFunction <=> Nested)
  BY Bases
<1>3. /\ o \in Construct /\ o.kind # "func" /\ o.kind \in LoopKinds
      /\ o.id = typed /\ o.base = locals + slots /\ o.start = Len(code) + 8 /\ o.exit = Len(code) + 13
      /\ Slot(o) = 1
  <2>1. "for" \in LoopKinds /\ Len(code) + 8 \in Nat /\ Len(code) + 13 \in Nat /\ locals + slots \in Nat
    BY <1>2 DEF LoopKinds
  <2> QED
    BY <1>2, <2>1, LoopOpens
<1>4. /\ phase = "parse" /\ phase' = phase /\ arena' = arena /\ funcs' = funcs
      /\ replaced' = replaced /\ saved' = saved /\ frames' = frames
      /\ typed' = typed + 1 /\ loops' = Append(loops, <<>>)
      /\ locals + slots <= MAX_LOCALS /\ locals' = locals + slots
      /\ Len(loops) < LOOPS_MAX_DEPTH
  BY DEF ForIn, Typing, running
<1>5. slots = (IF Nested THEN 1 ELSE 0)
  BY <1>2
<1> HIDE DEF o, slots
<1>6. locals' \in 0 .. MAX_LOCALS
  BY <1>2, <1>4, <1>5, Tables
<1>7. o.start \in Len(code) + 1 .. Len(code') /\ o.exit \in Len(code) + 2 .. Len(code') - 1
  BY <1>1, <1>2, <1>3
<1>8. (~Nested => o.base = 0 /\ locals' = 0) /\ (Nested => o.base = locals + Slot(o) /\ o.base <= locals')
  BY <1>2, <1>3, <1>4, <1>5
<1> QED
  BY <1>1, <1>3, <1>4, <1>6, <1>7, <1>8, PushStep

LEMMA Tops ==
  ASSUME Base, open # <<>>
  PROVE  /\ Innermost \in Construct /\ (InFunction <=> Nested)
         /\ ~Nested => Innermost.base = 0 /\ locals = 0
         /\ Innermost.base \in Nat /\ Innermost.id \in Nat
<1>1. IsStack(open)
  BY Parsing
<1>2. Innermost \in Construct
  BY <1>1, StackFacts DEF Innermost
<1> QED
  BY <1>2, Bases, ConstructFacts

LEMMA EndIfStep ==
  ASSUME Base, EndIf
  PROVE  Base'
<1>1. Grew
  BY EndIfGrows
<1>2. /\ phase = "parse" /\ phase' = phase /\ arena' = arena /\ funcs' = funcs
      /\ replaced' = replaced /\ saved' = saved /\ frames' = frames
      /\ typed' = typed /\ open # <<>> /\ open' = Front(open) /\ loops' = loops
      /\ locals' = Innermost.base /\ Innermost.kind \in ArmKinds
  BY DEF EndIf, Closing, running, ArmKinds
<1>3. Innermost \in Construct /\ (~Nested => Innermost.base = 0) /\ Innermost.base \in Nat
  BY <1>2, Tops
<1>4. Innermost.kind # "func" /\ Innermost.kind \notin LoopKinds /\ Slot(Innermost) = 0
  BY <1>2, <1>3, ConstructKinds
<1>5. Nested => locals' = Innermost.base - Slot(Innermost)
  BY <1>2, <1>3, <1>4
<1>6. loops' = IF Innermost.kind \in LoopKinds THEN Front(loops) ELSE loops
  BY <1>2, <1>4
<1> QED
  BY <1>1, <1>2, <1>3, <1>4, <1>5, <1>6, PopStep

LEMMA EndWhileStep ==
  ASSUME Base, EndWhile
  PROVE  Base'
<1>1. Grew
  BY EndWhileGrows
<1>2. /\ phase = "parse" /\ phase' = phase /\ arena' = arena /\ funcs' = funcs
      /\ replaced' = replaced /\ saved' = saved /\ frames' = frames
      /\ typed' = typed /\ open # <<>> /\ open' = Front(open) /\ loops' = Front(loops)
      /\ locals' = Innermost.base /\ Innermost.kind = "while"
  BY DEF EndWhile, Closing, running
<1>3. (~Nested => Innermost.base = 0) /\ Innermost.base \in Nat
  BY <1>2, Tops
<1>4. Innermost.kind # "func" /\ Innermost.kind \in LoopKinds /\ Slot(Innermost) = 0
  BY <1>2 DEF LoopKinds, Slot
<1>5. Nested => locals' = Innermost.base - Slot(Innermost)
  BY <1>2, <1>3, <1>4
<1>6. loops' = IF Innermost.kind \in LoopKinds THEN Front(loops) ELSE loops
  BY <1>2, <1>4
<1> QED
  BY <1>1, <1>2, <1>3, <1>4, <1>5, <1>6, PopStep

LEMMA EndForStep ==
  ASSUME Base, EndFor
  PROVE  Base'
<1>1. Grew
  BY EndForGrows
<1>2. /\ phase = "parse" /\ phase' = phase /\ arena' = arena /\ funcs' = funcs
      /\ replaced' = replaced /\ saved' = saved /\ frames' = frames
      /\ typed' = typed /\ open # <<>> /\ open' = Front(open) /\ loops' = Front(loops)
      /\ locals' = (IF InFunction THEN Innermost.base - 1 ELSE locals) /\ Innermost.kind = "for"
  BY DEF EndFor, Closing, running
<1>3. (~Nested => locals = 0) /\ (InFunction <=> Nested)
  BY <1>2, Tops
<1>4. Innermost.kind # "func" /\ Innermost.kind \in LoopKinds /\ Slot(Innermost) = 1
  BY <1>2 DEF LoopKinds, Slot
<1>5. (Nested => locals' = Innermost.base - Slot(Innermost)) /\ (~Nested => locals' = 0)
  BY <1>2, <1>3, <1>4
<1>6. loops' = IF Innermost.kind \in LoopKinds THEN Front(loops) ELSE loops
  BY <1>2, <1>4
<1> QED
  BY <1>1, <1>2, <1>4, <1>5, <1>6, PopStep

LEMMA ElseTop ==
  ASSUME NEW a \in Arm, NEW p \in Nat, NEW o, o = [a EXCEPT !.kind = "else", !.patch = p]
  PROVE  /\ o \in Construct /\ o.kind \in ArmKinds /\ o.id = a.id /\ o.base = a.base
         /\ o.patch = p
  BY DEF Construct, Arm, ArmKinds

LEMMA ArmIs ==
  ASSUME NEW o \in Construct, o.kind \in ArmKinds
  PROVE  o \in Arm
  BY DEF Construct, Arm, ArmKinds, Loop, LoopKinds, Func

LEMMA ElseStep ==
  ASSUME Base, Else
  PROVE  Base'
<1> DEFINE n == Len(open)
           o == [Innermost EXCEPT !.kind = "else", !.patch = Len(code') - 1]
<1>1. Grew /\ Len(code') >= Len(code) + 3 /\ open' = Append(Front(open), o)
  BY ElseGrows
<1>2. /\ phase = "parse" /\ phase' = phase /\ arena' = arena /\ funcs' = funcs
      /\ replaced' = replaced /\ saved' = saved /\ frames' = frames
      /\ typed' = typed /\ open # <<>> /\ loops' = loops
      /\ locals' = Innermost.base /\ Innermost.kind \in ArmKinds
  BY DEF Else, Closing, running, ArmKinds
<1>3. IsStack(open) /\ Len(code) \in Nat /\ typed' \in Nat
  BY <1>2, Parsing
<1>4. Len(code) <= Len(code') /\ Len(code') \in Nat
  BY <1>1, CodeFacts DEF Grew, Grown
<1>5. /\ o \in Construct /\ o.kind \in ArmKinds /\ o.id = Innermost.id /\ o.base = Innermost.base
      /\ o.patch = Len(code') - 1
  <2>1. Innermost \in Arm
    BY <1>2, Tops, ArmIs
  <2>2. Len(code') - 1 \in Nat
    BY <1>1, <1>3, <1>4
  <2> QED
    BY <2>1, <2>2, ElseTop, ZenonT(60)
<1> HIDE DEF o
<1>6. /\ StackInv' /\ IsStack(open') /\ Lo' = Lo /\ (Nested' <=> Nested)
      /\ Nested => open'[1] = open[1]
      /\ n \in Nat \ {0} /\ Len(open') = n
      /\ \A k \in 1 .. n - 1 : open'[k] = open[k] /\ ParkedIn(open', loops', k) = Parked(k)
      /\ open'[n] = o /\ ParkedIn(open', loops', n) = {o.patch}
      /\ locals' \in 0 .. locals
  BY <1>1, <1>2, <1>5, StackReplaced
<1>7. locals' \in 0 .. MAX_LOCALS
  BY <1>6, Tables
<1>8. DOMAIN open' = 1 .. n /\ DOMAIN open = 1 .. n
  BY <1>3, <1>6, StackFacts
<1>9. Lo \in Nat /\ Lo <= Len(code)
  BY <1>2, LoType
<1> HIDE DEF n
<1>10. ASSUME NEW k \in 1 .. n
       PROVE  Placed(open'[k], ParkedIn(open', loops', k), Lo, Len(code'))
  <2>1. k \in 1 .. n - 1 \/ k = n
    BY <1>6
  <2>2. CASE k \in 1 .. n - 1
    <3>1. Placed(open[k], Parked(k), Lo, Len(code))
      BY <1>2, <1>8, PlacesOf
    <3>2. Placed(open[k], Parked(k), Lo, Len(code'))
      BY <1>3, <1>4, <3>1, PlacedMore
    <3> QED
      BY <1>6, <2>2, <3>2
  <2>3. CASE k = n
    <3>1. open'[k] = o /\ ParkedIn(open', loops', k) = {o.patch}
      BY <1>6, <2>3
    <3>2. o.patch \in Lo + 2 .. Len(code') - 1
      BY <1>1, <1>3, <1>4, <1>5, <1>9
    <3>3. o.kind \notin LoopKinds
      BY <1>5, ConstructKinds
    <3> QED
      BY ONLY <3>1, <3>2, <3>3 DEF Placed
  <2> QED
    BY <2>1, <2>2, <2>3
<1>11. /\ IsTable(loops') /\ Len(loops') <= LOOPS_MAX_DEPTH
       /\ \A i \in DOMAIN loops' : Len(loops'[i]) <= LOOPS_MAX_BREAKS_LOOP
  BY <1>2, Tables
<1> QED
  BY <1>1, <1>2, <1>3, <1>6, <1>7, <1>8, <1>10, <1>11, ParsedOn

LEMMA ParkedBreak ==
  ASSUME NEW s, NEW k, NEW l, NEW m, NEW at, NEW c, c = Count(LoopKinds, s, k),
         s[k].kind \in LoopKinds => m[c] = l[c] \/ Range(m[c]) = Range(l[c]) \cup {at}
  PROVE  ParkedIn(s, m, k) \subseteq ParkedIn(s, l, k) \cup {at}
  BY DEF ParkedIn

RowWith(l, at, m) ==
  /\ IsTable(m) /\ Len(m) = Len(l)
  /\ \A k \in 1 .. Len(l) - 1 : m[k] = l[k]
  /\ Len(m[Len(l)]) = Len(l[Len(l)]) + 1
  /\ Range(m[Len(l)]) = Range(l[Len(l)]) \cup {at}

LEMMA RowWithIs ==
  ASSUME NEW l, IsTable(l), l # <<>>, NEW at \in Nat, NEW m,
         m = Append(Front(l), Append(Last(l), at))
  PROVE  RowWith(l, at, m)
BY RowExtended, ZenonT(60) DEF RowWith

LEMMA BreakStep ==
  ASSUME Base, Break
  PROVE  Base'
<1> DEFINE at == Len(code) + 2
           n == Len(loops)
<1>1. Grew /\ Len(code') = Len(code) + 3 /\ loops' = Append(Front(loops), Append(Last(loops), at))
  BY BreakGrows
<1>2. /\ phase = "parse" /\ phase' = phase /\ arena' = arena /\ funcs' = funcs
      /\ replaced' = replaced /\ saved' = saved /\ frames' = frames
      /\ typed' = typed + 1 /\ open' = open /\ locals' = locals
      /\ loops # <<>> /\ Len(Last(loops)) < LOOPS_MAX_BREAKS_LOOP
  BY DEF Break, Typing, running, InLoop
<1>3. IsStack(open) /\ StackInv /\ IsTable(loops) /\ Len(code) \in Nat /\ typed \in Nat /\ at \in Nat
  BY Parsing
<1>4. /\ n <= LOOPS_MAX_DEPTH /\ n \in Nat \ {0} /\ DOMAIN loops = 1 .. n
      /\ \A i \in 1 .. n : Len(loops[i]) <= LOOPS_MAX_BREAKS_LOOP /\ Len(loops[i]) \in Nat
      /\ locals \in 0 .. MAX_LOCALS /\ LOOPS_MAX_BREAKS_LOOP \in Nat /\ Last(loops) = loops[n]
  BY <1>2, <1>3, Tables, TableFacts
<1>5. /\ IsTable(loops') /\ Len(loops') = n
      /\ \A k \in 1 .. n - 1 : loops'[k] = loops[k]
      /\ Len(loops'[n]) = Len(loops[n]) + 1
      /\ Range(loops'[n]) = Range(loops[n]) \cup {at}
  <2> HIDE DEF at
  <2>1. RowWith(loops, at, loops')
    BY <1>1, <1>2, <1>3, RowWithIs, Zenon
  <2> QED
    BY <2>1 DEF RowWith
<1>6. DOMAIN loops' = 1 .. n
  BY <1>5, TableFacts
<1> HIDE DEF at, n
<1>7. \A i \in 1 .. n : i \in 1 .. n - 1 \/ i = n
  BY <1>4
<1>8. \A i \in DOMAIN loops' : Len(loops'[i]) <= LOOPS_MAX_BREAKS_LOOP
  BY <1>2, <1>4, <1>5, <1>6, <1>7
<1>9. StackInv' /\ Lo' = Lo /\ (Nested' <=> Nested)
  <2>1. locals' \in Nat /\ typed' \in Nat /\ typed <= typed' /\ Len(loops') = Len(loops)
        /\ locals <= locals'
    BY <1>2, <1>3, <1>4, <1>5 DEF n
  <2> QED
    BY <1>2, <2>1, StackKept
<1>10. Lo \in Nat /\ Lo <= Len(code)
  BY <1>2, LoType
<1>11. ASSUME NEW k \in DOMAIN open'
       PROVE  Placed(open'[k], ParkedIn(open', loops', k), Lo, Len(code'))
  <2>1. k \in DOMAIN open /\ open'[k] = open[k]
    BY <1>2
  <2> DEFINE c == Count(LoopKinds, open, k)
  <2>2. open[k].kind \in LoopKinds => c \in 1 .. n
    BY <1>3, <2>1, RowOf DEF n
  <2>3. c = Count(LoopKinds, open, k)
    OBVIOUS
  <2> HIDE DEF c
  <2>4. open[k].kind \in LoopKinds
          => loops'[c] = loops[c] \/ Range(loops'[c]) = Range(loops[c]) \cup {at}
    BY <1>5, <1>7, <2>2
  <2>5. ParkedIn(open, loops', k) \subseteq Parked(k) \cup {at}
    <3>1. ParkedIn(open, loops', k) \subseteq ParkedIn(open, loops, k) \cup {at}
      BY ONLY <2>3, <2>4, ParkedBreak
    <3> QED
      BY <3>1 DEF Parked
  <2>6. Placed(open[k], Parked(k), Lo, Len(code))
    BY <1>2, <2>1, PlacesOf
  <2>7. Len(code') \in Nat /\ Len(code) <= Len(code') /\ at \in Lo + 2 .. Len(code') - 1
    BY <1>1, <1>3, <1>10 DEF at
  <2>8. Placed(open[k], Parked(k), Lo, Len(code'))
    BY <1>3, <2>6, <2>7, PlacedMore
  <2>9. ParkedIn(open', loops', k) = ParkedIn(open, loops', k)
    BY <1>2
  <2> QED
    BY ONLY <2>1, <2>5, <2>7, <2>8, <2>9 DEF Placed
<1> QED
  <2>1. typed' \in Nat /\ locals' \in 0 .. MAX_LOCALS /\ IsStack(open') /\ Len(loops') <= LOOPS_MAX_DEPTH
    BY <1>2, <1>3, <1>4, <1>5
  <2> QED
    BY <1>1, <1>2, <1>5, <1>8, <1>9, <1>11, <2>1, ParsedOn

-----------------------------------------------------------------------------
(* Functions. *)
LEMMA Prefix ==
  ASSUME NEW S, NEW s \in Seq(S), NEW m \in 0 .. Len(s)
  PROVE  /\ SubSeq(s, 1, m) = [i \in 1 .. m |-> s[i]]
         /\ SubSeq(s, 1, m) \in Seq(S) /\ Len(SubSeq(s, 1, m)) = m
<1>1. SubSeq(s, 1, m) = [i \in 1 .. m |-> s[i]]
  BY DEF SubSeq
<1>2. \A i \in 1 .. m : s[i] \in S /\ m \in Nat
  BY ElementOfSeq
<1>3. m \in Nat /\ [i \in 1 .. m |-> s[i]] \in Seq(S) /\ Len([i \in 1 .. m |-> s[i]]) = m
  BY <1>2
<1> QED
  BY <1>1, <1>3

LEMMA SeqIs ==
  ASSUME NEW S, NEW s \in Seq(S)
  PROVE  s = [i \in 1 .. Len(s) |-> s[i]] /\ Len(s) \in Nat
  OBVIOUS

LEMMA NoLoops ==
  ASSUME Base, \A k \in DOMAIN open : open[k].kind \notin LoopKinds
  PROVE  loops = <<>> /\ Len(loops) = 0
<1>1. IsStack(open) /\ IsTable(loops) /\ Len(loops) = Count(LoopKinds, open, Len(open))
  BY Parsing DEF StackInv
<1>2. {i \in 1 .. Len(open) : open[i].kind \in LoopKinds} = {}
  BY <1>1, StackFacts
<1>3. Count(LoopKinds, open, Len(open)) = 0
  BY <1>2, FS_EmptySet DEF Count
<1> QED
  BY <1>1, <1>3, TableFacts

(* The stack at the prompt, and while a function's own block is all that   *)
(* is open.                                                                *)
LEMMA EmptyStack ==
  ASSUME NEW s, s = <<>>
  PROVE  /\ IsStack(s) /\ DOMAIN s = {} /\ Len(s) = 0 /\ ~Within(s)
         /\ Count(LoopKinds, s, Len(s)) = 0
<1>1. IsStack(s) /\ DOMAIN s = {} /\ Len(s) = 0 /\ ~Within(s)
  BY DEF IsStack, Within
<1> QED
  BY <1>1, CountNat

OneFunc(s, o) ==
  /\ IsStack(s) /\ DOMAIN s = {1} /\ Len(s) = 1 /\ Within(s) /\ s[1] = o
  /\ Count(LoopKinds, s, Len(s)) = 0

LEMMA FuncStack ==
  ASSUME NEW f \in Nat, NEW b \in Nat, NEW o, o = [kind |-> "func", id |-> f, base |-> 0, start |-> b],
         NEW s, s = Append(<<>>, o)
  PROVE  OneFunc(s, o)
<1>1. o \in Construct /\ o.kind = "func"
  BY DEF Construct, Func
<1>2. s = <<o>>
  OBVIOUS
<1>3. DOMAIN s = {1} /\ Len(s) = 1 /\ s[1] = o /\ s # <<>>
  BY <1>2
<1>4. IsStack(s)
  BY <1>1, <1>2 DEF IsStack
<1>5. {i \in 1 .. Len(s) : s[i].kind \in LoopKinds} = {}
  BY <1>1, <1>3 DEF LoopKinds
<1>6. Count(LoopKinds, s, Len(s)) = 0
  BY <1>5, FS_EmptySet DEF Count
<1> QED
  BY <1>1, <1>3, <1>4, <1>6 DEF Within, OneFunc

LEMMA StackInvEmpty ==
  ASSUME open' = <<>>, loops' = <<>>, locals' = 0
  PROVE  /\ StackInv' /\ IsStack(open') /\ ~Nested' /\ DOMAIN open' = {}
         /\ IsTable(loops') /\ Len(loops') = 0 /\ DOMAIN loops' = {}
<1>1. /\ IsStack(open') /\ DOMAIN open' = {} /\ Len(open') = 0 /\ ~Within(open')
      /\ Count(LoopKinds, open', Len(open')) = 0
  BY EmptyStack
<1>2. IsTable(loops') /\ Len(loops') = 0 /\ DOMAIN loops' = {}
  BY DEF IsTable
<1>3. ~Nested'
  BY <1>1 DEF Nested
<1> QED
  BY <1>1, <1>2, <1>3 DEF StackInv

LEMMA FuncTyped ==
  ASSUME NEW t \in FuncType, NEW s \in Nat, NEW n \in 0 .. MAX_LOCALS, NEW r \in BOOLEAN
  PROVE  /\ [t EXCEPT !.start = s] \in FuncType /\ [t EXCEPT !.start = s].start = s
         /\ [start |-> s, params |-> n, ret |-> r] \in FuncType
         /\ t.start \in Nat
  BY DEF FuncType

LEMMA EntrySet ==
  ASSUME NEW F \in Seq(FuncType), NEW f \in DOMAIN F, NEW e \in FuncType, NEW G,
         G = [F EXCEPT ![f] = e]
  PROVE  /\ G \in Seq(FuncType) /\ Len(G) = Len(F) /\ DOMAIN G = DOMAIN F /\ G[f] = e
         /\ \A g \in DOMAIN F : g # f => G[g] = F[g]
  OBVIOUS

LEMMA EntryAdded ==
  ASSUME NEW F \in Seq(FuncType), NEW e \in FuncType, NEW G, G = Append(F, e)
  PROVE  /\ G \in Seq(FuncType) /\ Len(G) = Len(F) + 1 /\ DOMAIN G = 1 .. Len(F) + 1
         /\ G[Len(F) + 1] = e
         /\ \A g \in 1 .. Len(F) : G[g] = F[g]
  OBVIOUS

LEMMA TypedFacts ==
  ASSUME Base
  PROVE  /\ IsCode(code) /\ Len(code) \in Nat /\ Len(code) <= FILE_BC_SIZE
         /\ arena \in 0 .. Len(code) /\ arena \in Nat
         /\ funcs \in Seq(FuncType) /\ Len(funcs) \in Nat /\ Len(funcs) <= MAX_FUNCS
         /\ DOMAIN funcs = 1 .. Len(funcs)
         /\ \A f \in DOMAIN funcs : funcs[f] \in FuncType /\ funcs[f].start \in Nat
                                    /\ funcs[f].start <= arena
         /\ frames \in Seq(Range(frames)) /\ Len(frames) <= VM_CALL_FRAMES /\ typed \in Nat
<1>1. /\ IsCode(code) /\ Len(code) <= FILE_BC_SIZE /\ arena \in 0 .. Len(code)
      /\ funcs \in Seq(FuncType) /\ Len(funcs) <= MAX_FUNCS
      /\ frames \in Seq(Range(frames)) /\ Len(frames) <= VM_CALL_FRAMES /\ typed \in Nat
  BY DEF Base, Typed
<1>2. Len(code) \in Nat
  BY <1>1, CodeFacts
<1>3. Len(funcs) \in Nat /\ DOMAIN funcs = 1 .. Len(funcs) /\ \A f \in DOMAIN funcs : funcs[f] \in FuncType
  BY <1>1
<1>4. \A f \in DOMAIN funcs : funcs[f].start \in Nat /\ funcs[f].start <= arena
  BY <1>3 DEF Base, FuncType
<1> QED
  BY <1>1, <1>2, <1>3, <1>4

LEMMA BeginFuncStep ==
  ASSUME Base, AllAvoided, NEW f \in 1 .. MAX_FUNCS, NEW n \in Params, NEW ret \in BOOLEAN,
         BeginFunc(f, n, ret)
  PROVE  Base'
<1> DEFINE rebound == f \in DOMAIN funcs
           start == IF rebound THEN funcs[f].start ELSE 0
           entry == [start |-> start, params |-> n, ret |-> ret]
           o == [kind |-> "func", id |-> f, base |-> 0, start |-> Len(code)]
<1>1. "func_in_block" \in Avoided /\ "two_redefinitions" \in Avoided
  BY DEF AllAvoided
<1>2. /\ phase = "parse" /\ phase' = phase /\ saved' = saved /\ frames' = frames
      /\ typed' = typed + 1 /\ code' = code /\ arena' = arena /\ loops' = loops
      /\ f \in 1 .. Len(funcs) + 1 /\ f <= MAX_FUNCS /\ locals' = n /\ open' = Append(open, o)
  BY DEF BeginFunc, Typing, running, Opens
<1>3. open = <<>>
  BY <1>1 DEF BeginFunc
<1>4. /\ rebound => replaced.idx = 0
      /\ replaced' = IF rebound THEN [idx |-> f, entry |-> funcs[f]] ELSE replaced
      /\ funcs' = IF rebound THEN [funcs EXCEPT ![f] = entry] ELSE Append(funcs, entry)
  BY <1>1 DEF BeginFunc
<1>5. /\ IsCode(code) /\ Len(code) \in Nat /\ Len(code) <= FILE_BC_SIZE
      /\ arena \in 0 .. Len(code) /\ arena \in Nat
      /\ funcs \in Seq(FuncType) /\ Len(funcs) \in Nat /\ Len(funcs) <= MAX_FUNCS
      /\ DOMAIN funcs = 1 .. Len(funcs)
      /\ \A g \in DOMAIN funcs : funcs[g] \in FuncType /\ funcs[g].start \in Nat
                                 /\ funcs[g].start <= arena
      /\ frames \in Seq(Range(frames)) /\ Len(frames) <= VM_CALL_FRAMES /\ typed \in Nat
  BY TypedFacts
<1>6. n \in 0 .. MAX_LOCALS /\ n \in Nat /\ f \in Nat /\ MAX_LOCALS \in Nat
  BY CompilerSizes
<1>7. loops = <<>> /\ Len(loops) = 0
  BY <1>3, NoLoops
<1>8. /\ IsStack(open') /\ DOMAIN open' = {1} /\ Len(open') = 1 /\ Within(open') /\ open'[1] = o
      /\ Count(LoopKinds, open', Len(open')) = 0
  <2>1. o = [kind |-> "func", id |-> f, base |-> 0, start |-> Len(code)]
    OBVIOUS
  <2> HIDE DEF o
  <2>2. open' = Append(<<>>, o)
    BY <1>2, <1>3
  <2>3. OneFunc(open', o)
    BY <1>5, <1>6, <2>1, <2>2, FuncStack, Zenon
  <2> QED
    BY <2>3 DEF OneFunc
<1>9. start \in Nat /\ start <= arena
  BY <1>5
<1> HIDE DEF start
<1>10. entry \in FuncType /\ entry.start = start
  BY <1>6, <1>9 DEF FuncType
<1> HIDE DEF entry
<1>11. /\ funcs' \in Seq(FuncType) /\ Len(funcs) <= Len(funcs') /\ Len(funcs') <= MAX_FUNCS
       /\ Len(funcs') \in Nat /\ f \in DOMAIN funcs' /\ funcs'[f] = entry
       /\ \A g \in DOMAIN funcs' : g # f => g \in DOMAIN funcs /\ funcs'[g] = funcs[g]
       /\ \A g \in DOMAIN funcs : g # f => funcs'[g] = funcs[g]
  <2>1. CASE rebound
    <3>1. funcs' = [funcs EXCEPT ![f] = entry]
      BY <1>4, <2>1
    <3>2. /\ funcs' \in Seq(FuncType) /\ Len(funcs') = Len(funcs) /\ DOMAIN funcs' = DOMAIN funcs
          /\ funcs'[f] = entry /\ \A g \in DOMAIN funcs : g # f => funcs'[g] = funcs[g]
      BY <1>5, <1>10, <2>1, <3>1, EntrySet
    <3> QED
      BY ONLY <1>5, <2>1, <3>2
  <2>2. CASE ~rebound
    <3>1. funcs' = Append(funcs, entry) /\ f = Len(funcs) + 1
      BY <1>2, <1>4, <1>5, <2>2
    <3>2. /\ funcs' \in Seq(FuncType) /\ Len(funcs') = Len(funcs) + 1
          /\ DOMAIN funcs' = 1 .. Len(funcs) + 1
          /\ funcs'[Len(funcs) + 1] = entry
          /\ \A g \in 1 .. Len(funcs) : funcs'[g] = funcs[g]
      BY <1>5, <1>10, <3>1, EntryAdded
    <3> QED
      BY ONLY <1>2, <1>5, <3>1, <3>2
  <2> QED
    BY <2>1, <2>2
<1>12. \A g \in DOMAIN funcs' : funcs'[g].start <= arena'
  BY <1>2, <1>5, <1>9, <1>10, <1>11
<1> HIDE DEF o
<1>13. o.kind = "func" /\ o.base = 0 /\ o.id = f /\ o.start = Len(code)
  BY DEF o
<1>14. Typed'
  <2>1. Len(loops) <= LOOPS_MAX_DEPTH /\ \A i \in DOMAIN loops : Len(loops[i]) <= LOOPS_MAX_BREAKS_LOOP
    BY Tables
  <2>2. Typed /\ IsTable(loops)
    BY Parsing DEF Base
  <2> QED
    BY <1>2, <1>5, <1>6, <1>8, <1>11, <2>1, <2>2 DEF Typed
<1>15. StackInv'
  <2>1. \A k \in DOMAIN open' : open'[k] = o /\ k = 1
    BY <1>8
  <2>2. Nested' /\ Slot(o) = 0
    BY <1>8, <1>13 DEF Nested, Slot
  <2>3. Len(loops') = Count(LoopKinds, open', Len(open'))
    BY <1>2, <1>7, <1>8
  <2> QED
    BY <1>2, <1>6, <1>13, <2>1, <2>2, <2>3 DEF StackInv
<1>16. PlacesInv'
  <2>1. \A k \in DOMAIN open' : ParkedIn(open', loops', k) = {} /\ open'[k].kind \notin LoopKinds
    BY <1>8, <1>13 DEF ParkedIn, LoopKinds, ArmKinds
  <2>2. open'[1].start \in arena' .. Len(code') /\ open'[1].id \in DOMAIN funcs'
    BY <1>2, <1>5, <1>8, <1>11, <1>13
  <2> QED
    BY ONLY <2>1, <2>2 DEF PlacesInv, Parked
<1>17. TraceInv'
  <2>1. TraceInv
    BY <1>2 DEF Base
  <2>2. saved.count <= Len(funcs') /\ saved.count \in Nat /\ saved.count <= Len(funcs)
    BY <1>5, <1>11, <2>1 DEF TraceInv
  <2>3. \A g \in 1 .. saved.count :
          IF g = replaced'.idx THEN replaced'.entry = saved.funcs[g] ELSE funcs'[g] = saved.funcs[g]
    <3>1. \A g \in 1 .. saved.count :
            IF g = replaced.idx THEN replaced.entry = saved.funcs[g] ELSE funcs[g] = saved.funcs[g]
      BY <2>1 DEF TraceInv
    <3>2. \A g \in 1 .. saved.count : g \in DOMAIN funcs
      BY <1>5, <2>2
    <3>3. CASE rebound
      <4>1. replaced'.idx = f /\ replaced'.entry = funcs[f]
        BY <1>4, <3>3
      <4>2. \A g \in 1 .. saved.count : funcs[g] = saved.funcs[g]
        BY <1>4, <2>2, <3>1, <3>3
      <4> QED
        BY ONLY <1>11, <3>2, <4>1, <4>2
    <3>4. CASE ~rebound
      <4>1. replaced' = replaced
        BY <1>4, <3>4
      <4> QED
        BY ONLY <1>11, <3>1, <3>2, <3>4, <4>1
    <3> QED
      BY <3>3, <3>4
  <2>4. open'[1].id > saved.count \/ open'[1].id = replaced'.idx
    <3>1. CASE rebound
      BY <1>4, <1>8, <1>13, <3>1
    <3>2. CASE ~rebound
      <4>1. f > saved.count
        BY <1>2, <1>5, <2>2, <3>2
      <4> QED
        BY <1>8, <1>13, <4>1
    <3> QED
      BY <3>1, <3>2
  <2> QED
    BY <1>2, <2>1, <2>2, <2>3, <2>4 DEF TraceInv
<1> QED
  BY <1>2, <1>12, <1>14, <1>15, <1>16, <1>17 DEF Base

IsSlice(s, c, p, q) ==
  IsCode(s) /\ Len(s) = q - p /\ \A i \in 1 .. q - p : s[i] = c[p + i]

LEMMA Slice ==
  ASSUME NEW c, IsCode(c), NEW p \in Nat, NEW q \in Nat, p <= q, q <= Len(c), NEW s,
         s = SubSeq(c, p + 1, q)
  PROVE  IsSlice(s, c, p, q)
<1>1. \A i \in 1 .. q - p : c[i + (p + 1) - 1] = c[p + i] /\ c[p + i] \in CellType
  <2>1. \A i \in 1 .. q - p : i + (p + 1) - 1 = p + i /\ p + i \in 1 .. Len(c)
    BY CodeFacts
  <2> QED
    BY <2>1, CodeFacts
<1>2. q - (p + 1) + 1 = q - p /\ q - p \in Nat
  OBVIOUS
<1>3. s = [i \in 1 .. q - p |-> c[p + i]]
  <2>1. s = [i \in 1 .. q - (p + 1) + 1 |-> c[i + (p + 1) - 1]]
    BY DEF SubSeq
  <2> QED
    BY <1>1, <1>2, <2>1
<1> QED
  BY <1>1, <1>2, <1>3 DEF IsCode, IsSlice

IsChain(e, c, d) ==
  /\ IsCode(e) /\ Len(e) = Len(c) + Len(d)
  /\ \A i \in 1 .. Len(c) : e[i] = c[i]
  /\ \A i \in 1 .. Len(d) : e[Len(c) + i] = d[i]

LEMMA Chained ==
  ASSUME NEW c, IsCode(c), NEW d, IsCode(d), NEW e, e = c \o d
  PROVE  IsChain(e, c, d)
<1>1. c \in Seq(CellType) /\ d \in Seq(CellType)
  BY DEF IsCode
<1>2. e \in Seq(CellType) /\ Len(e) = Len(c) + Len(d)
  BY <1>1
<1>3. \A i \in 1 .. Len(c) : e[i] = c[i]
  BY <1>1
<1>4. \A i \in 1 .. Len(d) : e[Len(c) + i] = d[i]
  BY <1>1
<1> QED
  BY <1>2, <1>3, <1>4 DEF IsCode, IsChain

(* The body goes below what was in front of it, and nothing else moves. *)
LEMMA Rotated ==
  ASSUME NEW c, IsCode(c), NEW b \in Nat, arena \in Nat, arena <= b, b <= Len(c),
         NEW r, r = Rotate(c, b)
  PROVE  /\ IsCode(r) /\ Len(r) = Len(c)
         /\ \A i \in 1 .. arena : r[i] = c[i]
         /\ \A i \in 1 .. Len(c) - b : r[arena + i] = c[b + i]
         /\ \A i \in 1 .. b - arena : r[(arena + (Len(c) - b)) + i] = c[arena + i]
<1> DEFINE n == Len(c)
           s1 == SubSeq(c, 1, arena)
           s2 == SubSeq(c, b + 1, n)
           s3 == SubSeq(c, arena + 1, b)
           t == s1 \o s2
<1>1. n \in Nat /\ n = Len(c)
  BY CodeFacts
<1>2. s1 = SubSeq(c, 0 + 1, arena) /\ s2 = SubSeq(c, b + 1, n) /\ s3 = SubSeq(c, arena + 1, b)
  OBVIOUS
<1>3. r = t \o s3 /\ t = s1 \o s2
  BY DEF Rotate
<1> HIDE DEF s1, s2, s3, n, t
<1>4. IsSlice(s1, c, 0, arena) /\ IsSlice(s2, c, b, n) /\ IsSlice(s3, c, arena, b)
  <2>1. 0 \in Nat /\ 0 <= arena /\ arena <= Len(c) /\ n <= Len(c) /\ b <= n
    BY <1>1
  <2>2. IsSlice(s1, c, 0, arena)
    BY <1>2, <2>1, Slice, Zenon
  <2>3. IsSlice(s2, c, b, n)
    BY <1>1, <1>2, <2>1, Slice, Zenon
  <2>4. IsSlice(s3, c, arena, b)
    BY <1>2, Slice, Zenon
  <2> QED
    BY <2>2, <2>3, <2>4
<1>5. IsChain(t, s1, s2)
  <2>1. IsCode(s1) /\ IsCode(s2)
    BY <1>4 DEF IsSlice
  <2> QED
    BY <1>3, <2>1, Chained, Zenon
<1>6. /\ IsCode(t) /\ Len(t) = arena + (n - b)
      /\ \A i \in 1 .. arena : t[i] = c[i]
      /\ \A i \in 1 .. n - b : t[arena + i] = c[b + i]
  <2>1. Len(s1) = arena /\ \A i \in 1 .. arena : s1[i] = c[i]
    BY <1>4 DEF IsSlice
  <2>2. Len(s2) = n - b /\ \A i \in 1 .. n - b : s2[i] = c[b + i]
    BY <1>4 DEF IsSlice
  <2> QED
    BY <1>5, <2>1, <2>2 DEF IsChain
<1>7. /\ IsCode(r) /\ Len(r) = Len(t) + Len(s3) /\ Len(s3) = b - arena
      /\ \A i \in 1 .. Len(t) : r[i] = t[i]
      /\ \A i \in 1 .. b - arena : r[Len(t) + i] = c[arena + i]
  <2>1. IsCode(s3)
    BY <1>4 DEF IsSlice
  <2>2. IsChain(r, t, s3)
    BY <1>3, <1>6, <2>1, Chained, Zenon
  <2> QED
    BY <1>4, <2>2 DEF IsSlice, IsChain
<1>8. Len(r) = n
  BY <1>1, <1>6, <1>7
<1>9. \A i \in 1 .. arena : r[i] = c[i]
  BY <1>1, <1>6, <1>7
<1>10. \A i \in 1 .. n - b : r[arena + i] = c[b + i]
  <2>1. \A i \in 1 .. n - b : arena + i \in 1 .. Len(t)
    BY <1>1, <1>6
  <2> QED
    BY <1>6, <1>7, <2>1
<1>11. \A i \in 1 .. b - arena : r[(arena + (n - b)) + i] = c[arena + i]
  BY <1>6, <1>7
<1> QED
  BY <1>1, <1>7, <1>8, <1>9, <1>10, <1>11

(* A function ends where its block is all that is open. *)
LEMMA FunctionBlock ==
  ASSUME Base, open # <<>>, Innermost.kind = "func"
  PROVE  /\ DOMAIN open = {1} /\ Len(open) = 1 /\ Innermost = open[1] /\ Nested
         /\ Innermost.start \in Nat /\ Innermost.id \in Nat
         /\ loops = <<>> /\ Front(open) = <<>>
<1>1. IsStack(open) /\ StackInv
  BY Parsing
<1>2. Len(open) \in Nat \ {0} /\ DOMAIN open = 1 .. Len(open) /\ Innermost = open[Len(open)]
      /\ Innermost \in Construct
  BY <1>1, StackFacts DEF Innermost
<1>3. Len(open) = 1
  BY <1>1, <1>2 DEF StackInv
<1>4. DOMAIN open = {1} /\ Innermost = open[1]
  BY <1>2, <1>3
<1>5. Nested
  BY <1>4 DEF Nested, Within
<1>6. loops = <<>>
  <2>1. \A k \in DOMAIN open : open[k].kind \notin LoopKinds
    BY <1>4 DEF LoopKinds
  <2> QED
    BY <2>1, NoLoops
<1>7. Front(open) = <<>>
  <2>1. IsStack(Front(open)) /\ Len(Front(open)) = 0
    BY <1>1, <1>3, Popped, SMTT(30)
  <2> QED
    BY <2>1, StackFacts
<1> QED
  BY <1>2, <1>3, <1>4, <1>5, <1>6, <1>7, ConstructFacts

LEMMA EndFuncGrows ==
  ASSUME Base, EndFunc, NEW c,
         c = IF EndsInReturn THEN code ELSE Emit(code, Depth, <<OP_RETURN_V>>)
  PROVE  /\ Grown(code, c, {}) /\ IsCode(c) /\ Len(c) \in Nat /\ Len(code) <= Len(c)
<1>1. IsCode(code) /\ PathOf(open) \in Path /\ Depth \in Nat /\ Grown(code, code, {})
      /\ Len(code) \in Nat
  BY Parsing
<1>2. CASE EndsInReturn
  BY <1>1, <1>2
<1>3. CASE ~EndsInReturn
  <2>1. IsBytes(<<OP_RETURN_V>>) /\ Len(<<OP_RETURN_V>>) = 1
    BY Opcodes, OneByte
  <2>2. c = Emit(code, Depth, <<OP_RETURN_V>>)
    BY <1>3
  <2>3. Adds(code, code, c, {}, 1)
    BY <1>1, <2>1, <2>2, GrownEmit, Zenon
  <2>4. Grown(code, c, {}) /\ Len(c) = Len(code) + 1
    BY <2>3 DEF Adds
  <2> QED
    BY <1>1, <2>4 DEF Grown
<1> QED
  BY <1>2, <1>3

LEMMA EndFuncStep ==
  ASSUME Base, EndFunc
  PROVE  Base'
<1> DEFINE f == Innermost.id
           b == Innermost.start
           c == IF EndsInReturn THEN code ELSE Emit(code, Depth, <<OP_RETURN_V>>)
           entry == [funcs[f] EXCEPT !.start = arena]
<1>1. /\ phase = "parse" /\ phase' = phase /\ saved' = saved /\ frames' = frames
      /\ typed' = typed /\ replaced' = replaced /\ loops' = loops /\ locals' = 0
      /\ open # <<>> /\ Innermost.kind = "func" /\ open' = Front(open)
      /\ code' = Rotate(c, b) /\ Len(code') <= FILE_BC_SIZE
      /\ funcs' = [funcs EXCEPT ![f].start = arena] /\ arena' = arena + Len(c) - b
  BY DEF EndFunc, Closing, running, Emits
<1>2. /\ DOMAIN open = {1} /\ Innermost = open[1] /\ Nested
      /\ b \in Nat /\ f \in Nat /\ loops = <<>> /\ Front(open) = <<>>
  BY <1>1, FunctionBlock
<1>3. Grown(code, c, {}) /\ IsCode(c) /\ Len(c) \in Nat /\ Len(code) <= Len(c)
  BY EndFuncGrows
<1>4. /\ IsCode(code) /\ Len(code) \in Nat
      /\ arena \in 0 .. Len(code) /\ arena \in Nat
      /\ funcs \in Seq(FuncType) /\ Len(funcs) \in Nat /\ Len(funcs) <= MAX_FUNCS
      /\ \A g \in DOMAIN funcs : funcs[g] \in FuncType /\ funcs[g].start \in Nat
                                 /\ funcs[g].start <= arena
      /\ frames \in Seq(Range(frames)) /\ Len(frames) <= VM_CALL_FRAMES /\ typed \in Nat
  BY TypedFacts
<1>5. b \in arena .. Len(code) /\ f \in DOMAIN funcs
  BY <1>1, <1>2 DEF Base, PlacesInv
<1> HIDE DEF c
<1>6. /\ IsCode(code') /\ Len(code') = Len(c)
      /\ \A i \in 1 .. arena : code'[i] = code[i]
  <2>1. /\ IsCode(code') /\ Len(code') = Len(c)
        /\ \A i \in 1 .. arena : code'[i] = c[i]
    <3>1. arena <= b /\ b <= Len(c)
      BY <1>3, <1>4, <1>5
    <3> QED
      BY <1>1, <1>2, <1>3, <1>4, <3>1, Rotated
  <2>2. \A i \in 1 .. arena : c[i] = code[i]
    BY <1>3, <1>4 DEF Grown
  <2> QED
    BY <2>1, <2>2
<1>7. arena' \in 0 .. Len(code') /\ arena <= arena'
  BY <1>1, <1>2, <1>3, <1>4, <1>5, <1>6
<1> HIDE DEF b
<1>8. entry \in FuncType /\ entry.start = arena
  BY <1>4, <1>5, FuncTyped, SMTT(30) DEF FuncType
<1>9. /\ funcs' \in Seq(FuncType) /\ Len(funcs') = Len(funcs) /\ DOMAIN funcs' = DOMAIN funcs
      /\ funcs'[f] = entry /\ \A g \in DOMAIN funcs : g # f => funcs'[g] = funcs[g]
  <2>1. funcs' = [funcs EXCEPT ![f] = entry]
    BY <1>1
  <2> HIDE DEF entry, f
  <2> QED
    BY <1>4, <1>5, <1>8, <2>1, EntrySet
<1> HIDE DEF entry
<1>10. \A g \in DOMAIN funcs' : funcs'[g].start <= arena'
  <2>1. \A g \in DOMAIN funcs : funcs'[g].start \in Nat /\ funcs'[g].start <= arena
    BY <1>4, <1>8, <1>9
  <2>2. arena' \in Nat
    BY <1>7
  <2> QED
    BY <1>4, <1>7, <1>9, <2>1, <2>2
<1>11. open' = <<>> /\ loops' = <<>>
  BY <1>1, <1>2
<1>12. /\ StackInv' /\ IsStack(open') /\ ~Nested' /\ DOMAIN open' = {}
       /\ IsTable(loops') /\ Len(loops') = 0 /\ DOMAIN loops' = {}
  BY <1>1, <1>11, StackInvEmpty
<1>13. Typed'
  <2>1. locals' \in 0 .. MAX_LOCALS /\ LOOPS_MAX_DEPTH \in Nat
    <3>1. MAX_LOCALS \in Nat /\ LOOPS_MAX_DEPTH \in Nat
      BY Tables, CompilerSizes
    <3> QED
      BY ONLY <1>1, <3>1
  <2>2. Typed
    BY DEF Base
  <2> QED
    BY <1>1, <1>4, <1>6, <1>7, <1>9, <1>12, <2>1, <2>2 DEF Typed
<1>14. PlacesInv'
  BY <1>12 DEF PlacesInv
<1>15. TraceInv'
  <2>1. TraceInv
    BY <1>1 DEF Base
  <2>2. saved.arena \in 0 .. arena' /\ saved.arena \in 0 .. arena
    <3>1. saved.arena \in 0 .. arena /\ arena' \in Int
      BY <1>7, <2>1 DEF TraceInv
    <3> QED
      BY <1>4, <1>7, <3>1
  <2>3. \A i \in 1 .. saved.arena : code'[i] = saved.bytes[i]
    <3>1. \A i \in 1 .. saved.arena : i \in 1 .. arena /\ code[i] = saved.bytes[i]
      BY <1>4, <2>1, <2>2 DEF TraceInv
    <3> QED
      BY <1>6, <3>1
  <2>4. \A g \in 1 .. saved.count :
          IF g = replaced.idx THEN replaced.entry = saved.funcs[g] ELSE funcs'[g] = saved.funcs[g]
    <3>1. f > saved.count \/ f = replaced.idx
      BY <1>2, <2>1 DEF TraceInv
    <3>2. \A g \in 1 .. saved.count :
            IF g = replaced.idx THEN replaced.entry = saved.funcs[g] ELSE funcs[g] = saved.funcs[g]
      BY <2>1 DEF TraceInv
    <3>3. saved.count <= Len(funcs) /\ saved.count \in Nat
      BY <2>1 DEF TraceInv
    <3>4. \A g \in 1 .. saved.count : g \in DOMAIN funcs
      BY <1>4, <3>3
    <3>5. \A g \in 1 .. saved.count : g = f => g = replaced.idx
      BY <1>2, <3>1, <3>3
    <3> QED
      BY ONLY <1>9, <3>2, <3>4, <3>5
  <2> QED
    BY <1>1, <1>9, <1>12, <2>1, <2>2, <2>3, <2>4 DEF TraceInv
<1> QED
  BY <1>1, <1>10, <1>12, <1>13, <1>14, <1>15 DEF Base

-----------------------------------------------------------------------------
(* Lines, and the machine. *)
LEMMA Statements ==
  ASSUME Base, AllAvoided, Statement
  PROVE  Base'
<1>1. ASSUME NEW k \in Literals, VarDecl(k) PROVE Base'
  BY <1>1, VarDeclStep
<1>2. ASSUME NEW k \in Literals, Return(k) PROVE Base'
  BY <1>2, ReturnStep
<1>3. ASSUME NEW k \in Literals, ForIn(k) PROVE Base'
  BY <1>3, ForInStep
<1>4. ASSUME NEW f \in DOMAIN funcs, CallStatement(f) PROVE Base'
  BY <1>4, CallStep
<1>5. CASE If
  BY <1>5, IfStep
<1>6. CASE IfLet
  BY <1>6, IfLetStep
<1>7. CASE Else
  BY <1>7, ElseStep
<1>8. CASE EndIf
  BY <1>8, EndIfStep
<1>9. CASE While
  BY <1>9, WhileStep
<1>10. CASE EndWhile
  BY <1>10, EndWhileStep
<1>11. CASE EndFor
  BY <1>11, EndForStep
<1>12. CASE Break
  BY <1>12, BreakStep
<1>13. ASSUME NEW f \in 1 .. MAX_FUNCS, NEW n \in Params, NEW ret \in BOOLEAN, BeginFunc(f, n, ret)
       PROVE  Base'
  BY <1>13, BeginFuncStep
<1>14. CASE EndFunc
  BY <1>14, EndFuncStep
<1> QED
  BY <1>1, <1>2, <1>3, <1>4, <1>5, <1>6, <1>7, <1>8, <1>9, <1>10, <1>11, <1>12, <1>13, <1>14,
     Zenon DEF Statement

LEMMA CodePrefix ==
  ASSUME NEW c, IsCode(c), NEW m \in 0 .. Len(c)
  PROVE  /\ SubSeq(c, 1, m) = [i \in 1 .. m |-> c[i]]
         /\ IsCode(SubSeq(c, 1, m)) /\ Len(SubSeq(c, 1, m)) = m
BY Prefix DEF IsCode

LEMMA BeginLineStep ==
  ASSUME Base, BeginLine
  PROVE  Base'
<1>1. /\ phase = "prompt" /\ phase' = "parse"
      /\ saved' = [count |-> Len(funcs), arena |-> arena,
                   funcs |-> funcs, bytes |-> SubSeq(code, 1, arena)]
      /\ code' = code /\ arena' = arena /\ funcs' = funcs /\ replaced' = replaced
      /\ open' = open /\ loops' = loops /\ locals' = locals /\ frames' = frames /\ typed' = typed
  BY DEF BeginLine, running
<1>2. open = <<>> /\ replaced = NoReplacement /\ Typed /\ StackInv
      /\ \A f \in DOMAIN funcs : funcs[f].start <= arena
  BY <1>1 DEF Base
<1>3. /\ IsCode(code) /\ arena \in 0 .. Len(code) /\ funcs \in Seq(FuncType) /\ arena \in Nat
      /\ Len(funcs) \in Nat /\ DOMAIN funcs = 1 .. Len(funcs)
  BY TypedFacts
<1>4. Typed'
  BY <1>1, <1>2 DEF Typed
<1>5. StackInv' /\ ~Nested' /\ DOMAIN open' = {}
  <2>1. StackInv'
    BY <1>1, <1>2 DEF StackInv, Nested, Within, Slot, Count
  <2>2. ~Nested'
    BY <1>1, <1>2 DEF Nested, Within
  <2> QED
    BY <1>1, <1>2, <2>1, <2>2
<1>6. PlacesInv'
  BY <1>5 DEF PlacesInv
<1>7. TraceInv'
  <2>1. /\ saved'.count = Len(funcs) /\ saved'.arena = arena /\ saved'.funcs = funcs
        /\ saved'.bytes = SubSeq(code, 1, arena)
    BY <1>1
  <2>2. /\ SubSeq(code, 1, arena) = [i \in 1 .. arena |-> code[i]]
        /\ IsCode(SubSeq(code, 1, arena)) /\ Len(SubSeq(code, 1, arena)) = arena
    BY <1>3, CodePrefix
  <2>3. saved'.bytes \in Seq(CellType) /\ Len(saved'.bytes) = arena
        /\ \A i \in 1 .. arena : saved'.bytes[i] = code[i]
    BY ONLY <2>1, <2>2 DEF IsCode
  <2>4. replaced'.idx = 0
    BY <1>1, <1>2 DEF NoReplacement
  <2>5. \A g \in 1 .. Len(funcs) : g # replaced'.idx /\ funcs[g].start <= arena
    BY <1>2, <1>3, <2>4
  <2> QED
    BY <1>1, <1>3, <1>5, <2>1, <2>3, <2>5 DEF TraceInv
<1> QED
  BY <1>1, <1>2, <1>4, <1>5, <1>6, <1>7 DEF Base

(* The functions are those of the savepoint again. *)
LEMMA RolledBack ==
  ASSUME Base, phase = "parse"
  PROVE  /\ funcs_rollback = saved.funcs
         /\ SubSeq(code, 1, saved.arena) = saved.bytes
         /\ saved.arena \in 0 .. Len(code) /\ saved.funcs \in Seq(FuncType)
         /\ Len(saved.funcs) <= MAX_FUNCS
         /\ \A f \in DOMAIN saved.funcs : saved.funcs[f].start <= saved.arena
<1> DEFINE n == saved.count
           kept == SubSeq(funcs, 1, n)
<1>1. TraceInv
  BY DEF Base
<1>2. /\ IsCode(code) /\ Len(code) \in Nat /\ arena \in 0 .. Len(code)
      /\ funcs \in Seq(FuncType) /\ Len(funcs) \in Nat /\ Len(funcs) <= MAX_FUNCS
  BY TypedFacts
<1>3. /\ saved.funcs \in Seq(FuncType) /\ n = Len(saved.funcs) /\ n \in 0 .. Len(funcs)
      /\ saved.funcs = [i \in 1 .. n |-> saved.funcs[i]] /\ DOMAIN saved.funcs = 1 .. n
  <2>1. saved.funcs \in Seq(FuncType) /\ n = Len(saved.funcs) /\ n <= Len(funcs)
    BY <1>1 DEF TraceInv
  <2>2. saved.funcs = [i \in 1 .. Len(saved.funcs) |-> saved.funcs[i]] /\ Len(saved.funcs) \in Nat
    BY <2>1, SeqIs
  <2> QED
    BY ONLY <1>2, <2>1, <2>2
<1>4. kept = [i \in 1 .. n |-> funcs[i]]
  BY <1>2, <1>3, Prefix
<1>5. \A f \in 1 .. n :
        IF f = replaced.idx THEN replaced.entry = saved.funcs[f] ELSE funcs[f] = saved.funcs[f]
  BY <1>1 DEF TraceInv
<1>6. funcs_rollback = IF replaced.idx \in DOMAIN kept
                       THEN [kept EXCEPT ![replaced.idx] = replaced.entry] ELSE kept
  BY DEF funcs_rollback
<1> HIDE DEF n, kept
<1>7. funcs_rollback = [i \in 1 .. n |-> saved.funcs[i]]
  BY ONLY <1>4, <1>5, <1>6
<1>8. saved.arena \in 0 .. Len(code)
  BY <1>1, <1>2 DEF TraceInv
<1>9. SubSeq(code, 1, saved.arena) = saved.bytes
  <2>1. SubSeq(code, 1, saved.arena) = [i \in 1 .. saved.arena |-> code[i]]
    BY <1>2, <1>8, CodePrefix
  <2>2. saved.bytes = [i \in 1 .. saved.arena |-> saved.bytes[i]]
    BY <1>1, SeqIs DEF TraceInv
  <2> QED
    BY <1>1, <2>1, <2>2 DEF TraceInv
<1>10. \A f \in DOMAIN saved.funcs : saved.funcs[f].start <= saved.arena
  BY <1>1, <1>3 DEF TraceInv, n
<1>11. Len(saved.funcs) <= MAX_FUNCS
  <2>1. MAX_FUNCS \in Int
    BY CompilerSizes
  <2> QED
    BY <1>2, <1>3, <2>1
<1> QED
  BY <1>3, <1>7, <1>8, <1>9, <1>10, <1>11

LEMMA NoFrames ==
  ASSUME NEW s, s = <<>>
  PROVE  s \in Seq(Range(s)) /\ Len(s) = 0
  OBVIOUS

LEMMA PromptStep ==
  ASSUME Base, NEW used \in 0 .. Len(code), BackToPrompt(used),
         funcs' \in Seq(FuncType), Len(funcs') <= MAX_FUNCS,
         \A f \in DOMAIN funcs' : funcs'[f].start <= used
  PROVE  Base'
<1>1. /\ phase' = "prompt" /\ arena' = used /\ code' = SubSeq(code, 1, used)
      /\ open' = <<>> /\ loops' = <<>> /\ locals' = 0 /\ replaced' = NoReplacement
      /\ frames' = <<>> /\ typed' = typed
  BY DEF BackToPrompt
<1>2. IsCode(code) /\ Len(code) \in Nat /\ Len(code) <= FILE_BC_SIZE /\ typed \in Nat
  BY TypedFacts
<1>3. IsCode(code') /\ Len(code') = used
  BY <1>1, <1>2, CodePrefix
<1>4. /\ StackInv' /\ IsStack(open') /\ ~Nested' /\ DOMAIN open' = {}
      /\ IsTable(loops') /\ Len(loops') = 0 /\ DOMAIN loops' = {}
  BY <1>1, StackInvEmpty
<1>5. frames' \in Seq(Range(frames')) /\ Len(frames') = 0
  BY <1>1, NoFrames
<1>6. /\ FILE_BC_SIZE \in Nat /\ LOOPS_MAX_DEPTH \in Nat /\ VM_CALL_FRAMES \in Nat
      /\ MAX_LOCALS \in Nat
  BY Tables, CompilerSizes
<1>7. Typed'
  <2>1. Len(code') <= FILE_BC_SIZE /\ arena' \in 0 .. Len(code') /\ locals' \in 0 .. MAX_LOCALS
    BY <1>1, <1>2, <1>3, <1>6
  <2> QED
    BY <1>1, <1>2, <1>3, <1>4, <1>5, <1>6, <2>1 DEF Typed
<1> QED
  BY <1>1, <1>3, <1>4, <1>7 DEF Base

LEMMA RejectStep ==
  ASSUME Base, Reject
  PROVE  Base'
<1>1. phase = "parse" /\ funcs' = saved.funcs /\ BackToPrompt(saved.arena)
  BY RolledBack DEF Reject
<1> QED
  BY <1>1, RolledBack, PromptStep

LEMMA EndLineStep ==
  ASSUME Base, EndLine
  PROVE  Base'
<1>1. /\ phase' = "run" /\ open = <<>> /\ open' = open /\ frames' = <<>>
      /\ code' = Emit(code, 0, <<OP_HALT>>) /\ Len(code') <= FILE_BC_SIZE
      /\ arena' = arena /\ funcs' = funcs /\ loops' = loops /\ locals' = locals /\ typed' = typed
  BY DEF EndLine
<1>2. IsCode(code) /\ PathOf(open) \in Path /\ Len(code) \in Nat /\ Grown(code, code, {}) /\ StackInv
  BY Parsing
<1>3. IsCode(code') /\ Len(code') = Len(code) + 1
  <2>1. IsBytes(<<OP_HALT>>) /\ Len(<<OP_HALT>>) = 1 /\ 0 \in Nat
    BY Opcodes, OneByte
  <2>2. Adds(code, code, code', {}, 1)
    BY <1>1, <1>2, <2>1, GrownEmit, Zenon
  <2> QED
    BY <2>2 DEF Adds, Grown
<1>4. frames' \in Seq(Range(frames')) /\ Len(frames') = 0
  BY <1>1, NoFrames
<1>5. Typed'
  <2>1. arena' \in 0 .. Len(code') /\ Len(frames') <= VM_CALL_FRAMES
    BY <1>1, <1>2, <1>3, <1>4, TypedFacts, CompilerSizes
  <2>2. Typed
    BY DEF Base
  <2> QED
    BY <1>1, <1>3, <1>4, <2>1, <2>2 DEF Typed
<1>6. StackInv'
  BY <1>1, <1>2 DEF StackInv, Nested, Within, Slot, Count
<1>7. \A f \in DOMAIN funcs' : funcs'[f].start <= arena'
  BY <1>1 DEF Base
<1> QED
  BY <1>1, <1>5, <1>6, <1>7 DEF Base

LEMMA FramesPushed ==
  ASSUME NEW s, s \in Seq(Range(s)), Len(s) < VM_CALL_FRAMES, VM_CALL_FRAMES \in Nat, NEW x,
         NEW t, t = Append(s, x)
  PROVE  t \in Seq(Range(t)) /\ Len(t) <= VM_CALL_FRAMES
<1>1. Len(s) \in Nat
  OBVIOUS
<1>2. t \in Seq(Range(s) \cup {x}) /\ Len(t) = Len(s) + 1
  OBVIOUS
<1>3. t = [i \in 1 .. Len(t) |-> t[i]] /\ DOMAIN t = 1 .. Len(t) /\ Len(t) \in Nat
  BY <1>2, SeqIs
<1>4. \A i \in 1 .. Len(t) : t[i] \in Range(t)
  BY <1>3 DEF Range
<1> QED
  BY <1>1, <1>2, <1>3, <1>4

LEMMA FramesPopped ==
  ASSUME NEW s, s \in Seq(Range(s)), s # <<>>, Len(s) <= VM_CALL_FRAMES, VM_CALL_FRAMES \in Nat,
         NEW t, t = Front(s)
  PROVE  t \in Seq(Range(t)) /\ Len(t) <= VM_CALL_FRAMES
<1>1. Len(s) \in Nat
  OBVIOUS
<1>2. t \in Seq(Range(s)) /\ Len(t) = Len(s) - 1
  BY FrontOf
<1>3. t = [i \in 1 .. Len(t) |-> t[i]] /\ DOMAIN t = 1 .. Len(t) /\ Len(t) \in Nat
  BY <1>2, SeqIs
<1>4. \A i \in 1 .. Len(t) : t[i] \in Range(t)
  BY <1>3 DEF Range
<1> QED
  BY <1>1, <1>2, <1>3, <1>4

(* The machine changes none of what was compiled. *)
LEMMA MachineStep ==
  ASSUME Base, phase = "run", phase' = phase, compiling' = compiling, typed' = typed,
         frames' \in Seq(Range(frames')), Len(frames') <= VM_CALL_FRAMES
  PROVE  Base'
<1>1. /\ code' = code /\ arena' = arena /\ funcs' = funcs /\ replaced' = replaced
      /\ saved' = saved /\ open' = open /\ loops' = loops /\ locals' = locals
  BY DEF compiling
<1>2. Typed'
  <2>1. Typed
    BY DEF Base
  <2> QED
    BY <1>1, <2>1 DEF Typed
<1>3. StackInv'
  <2>1. StackInv
    BY DEF Base
  <2> QED
    BY <1>1, <2>1 DEF StackInv, Nested, Within, Slot, Count
<1> QED
  BY <1>1, <1>2, <1>3 DEF Base

LEMMA ExecuteStep ==
  ASSUME Base, Execute
  PROVE  Base'
<1>1. frames \in Seq(Range(frames)) /\ Len(frames) <= VM_CALL_FRAMES /\ VM_CALL_FRAMES \in Nat
  BY TypedFacts, CompilerSizes
<1>2. ASSUME Running, NEW next, NEW deep, GoTo(next, deep)
      PROVE  Base'
  BY <1>1, <1>2, MachineStep DEF Running, GoTo
<1>3. CASE StraightOn
  BY <1>2, <1>3 DEF StraightOn
<1>4. CASE Jump
  BY <1>2, <1>4 DEF Jump
<1>5. CASE LoopBack
  BY <1>2, <1>5 DEF LoopBack
<1>6. CASE JumpIfFalse
  BY <1>2, <1>6 DEF JumpIfFalse
<1>7. CASE IfLetOp
  BY <1>2, <1>7 DEF IfLetOp
<1>8. CASE CallOp
  <2>1. /\ phase = "run" /\ phase' = phase /\ compiling' = compiling /\ typed' = typed
        /\ Len(frames) < VM_CALL_FRAMES
        /\ frames' = Append(frames, [pc |-> pc + 3, fp |-> fp])
    BY <1>8 DEF CallOp, Running, Callable
  <2>2. frames' \in Seq(Range(frames')) /\ Len(frames') <= VM_CALL_FRAMES
    BY <1>1, <2>1, FramesPushed
  <2> QED
    BY <2>1, <2>2, MachineStep
<1>9. CASE ReturnOp
  <2>1. /\ phase = "run" /\ phase' = phase /\ compiling' = compiling /\ typed' = typed
        /\ frames # <<>> /\ frames' = Front(frames)
    BY <1>9 DEF ReturnOp, Running
  <2>2. frames' \in Seq(Range(frames')) /\ Len(frames') <= VM_CALL_FRAMES
    BY <1>1, <2>1, FramesPopped
  <2> QED
    BY <2>1, <2>2, MachineStep
<1>10. CASE Stop
  <2>1. BackToPrompt(arena) /\ funcs' = funcs
    BY <1>10 DEF Stop
  <2> QED
    BY <2>1, TypedFacts, PromptStep
<1> QED
  BY <1>3, <1>4, <1>5, <1>6, <1>7, <1>8, <1>9, <1>10 DEF Execute

LEMMA BaseInit == Init => Base
<1> SUFFICES ASSUME Init PROVE Base
  OBVIOUS
<1>1. /\ phase = "prompt" /\ code = <<>> /\ arena = 0 /\ funcs = <<>> /\ replaced = NoReplacement
      /\ open = <<>> /\ loops = <<>> /\ locals = 0 /\ frames = <<>> /\ typed = 0
  BY DEF Init
<1>2. /\ IsStack(open) /\ DOMAIN open = {} /\ Len(open) = 0 /\ ~Within(open)
      /\ Count(LoopKinds, open, Len(open)) = 0
  BY <1>1, EmptyStack
<1>3. IsTable(loops) /\ Len(loops) = 0 /\ DOMAIN loops = {} /\ IsCode(code) /\ Len(code) = 0
      /\ funcs \in Seq(FuncType) /\ Len(funcs) = 0 /\ DOMAIN funcs = {}
  BY <1>1 DEF IsTable, IsCode
<1>4. frames \in Seq(Range(frames)) /\ Len(frames) = 0
  BY <1>1, NoFrames
<1>5. /\ FILE_BC_SIZE \in Nat /\ LOOPS_MAX_DEPTH \in Nat /\ VM_CALL_FRAMES \in Nat
      /\ MAX_LOCALS \in 0 .. 255 /\ MAX_FUNCS \in 0 .. 255
  BY CompilerSizes
<1>6. Typed
  BY <1>1, <1>2, <1>3, <1>4, <1>5 DEF Typed
<1>7. StackInv
  BY <1>1, <1>2, <1>3 DEF StackInv, Nested
<1> QED
  BY <1>1, <1>2, <1>3, <1>6, <1>7 DEF Base

LEMMA BaseNext == Base /\ AllAvoided /\ [Next]_vars => Base'
<1> SUFFICES ASSUME Base, AllAvoided, [Next]_vars PROVE Base'
  OBVIOUS
<1>1. CASE BeginLine
  BY <1>1, BeginLineStep
<1>2. CASE Statement
  BY <1>2, Statements
<1>3. CASE EndLine
  BY <1>3, EndLineStep
<1>4. CASE Reject
  BY <1>4, RejectStep
<1>5. CASE Execute
  BY <1>5, ExecuteStep
<1>6. CASE UNCHANGED vars
  <2>1. /\ phase' = phase /\ code' = code /\ arena' = arena /\ funcs' = funcs
        /\ replaced' = replaced /\ saved' = saved /\ open' = open /\ loops' = loops
        /\ locals' = locals /\ frames' = frames /\ typed' = typed
    BY <1>6 DEF vars, compiling, running
  <2>2. Typed'
    BY <2>1 DEF Base, Typed
  <2>3. StackInv'
    BY <2>1 DEF Base, StackInv, Nested, Within, Slot, Count
  <2>4. phase = "parse" => PlacesInv'
    BY <2>1 DEF Base, PlacesInv, Parked, ParkedIn, Count, Lo, Nested, Within
  <2>5. phase = "parse" => TraceInv'
    BY <2>1 DEF Base, TraceInv, Nested, Within
  <2> QED
    BY <2>1, <2>2, <2>3, <2>4, <2>5 DEF Base
<1> QED
  BY <1>1, <1>2, <1>3, <1>4, <1>5, <1>6 DEF Next

-----------------------------------------------------------------------------
(* The parse keeps its tables within their sizes: no sequence of           *)
(* statements, ends of blocks, rejected lines and runs overfills them or   *)
(* leaves a function starting above the arena.                             *)
THEOREM CompilerTyped ==
  ASSUME AllAvoided
  PROVE  Spec => []TypeOK
<1>1. Base => TypeOK
  <2> SUFFICES ASSUME Base PROVE TypeOK
    OBVIOUS
  <2>1. /\ phase \in {"prompt", "parse", "run"}
        /\ Len(code) <= FILE_BC_SIZE /\ arena \in 0 .. Len(code)
        /\ Len(funcs) <= MAX_FUNCS /\ locals \in 0 .. MAX_LOCALS
        /\ Len(loops) <= LOOPS_MAX_DEPTH
        /\ \A i \in DOMAIN loops : Len(loops[i]) <= LOOPS_MAX_BREAKS_LOOP
        /\ Len(frames) <= VM_CALL_FRAMES
    BY DEF Base, Typed
  <2>2. \A i \in DOMAIN code : code[i].b \in 0 .. 255
    <3>1. \A i \in DOMAIN code : code[i] \in CellType
      BY TypedFacts, CodeFacts
    <3> QED
      BY <3>1 DEF CellType, Byte
  <2>3. \A f \in DOMAIN funcs : funcs[f].start \in 0 .. arena
    BY TypedFacts
  <2> QED
    BY <2>1, <2>2, <2>3 DEF TypeOK
<1>2. Base /\ [Next]_vars => Base'
  BY BaseNext
<1> QED
  BY <1>1, <1>2, BaseInit, PTL DEF Spec

(* Whatever a line declared, redefined or emitted before it failed, its    *)
(* rollback leaves the functions and the code they run as the line found   *)
(* them.                                                                   *)
THEOREM RolledBackWhole ==
  ASSUME AllAvoided
  PROVE  Spec => RejectedLineLeavesNoTrace
<1>1. Base /\ [Next]_vars
        => [phase = "parse" /\ phase' = "prompt"
              => /\ funcs' = saved.funcs
                 /\ SubSeq(code', 1, arena') = saved.bytes]_vars
  <2> SUFFICES ASSUME Base, [Next]_vars, phase = "parse", phase' = "prompt"
               PROVE  funcs' = saved.funcs /\ SubSeq(code', 1, arena') = saved.bytes
    OBVIOUS
  <2>1. Reject
    <3>1. ~BeginLine /\ ~EndLine /\ ~Execute /\ ~UNCHANGED vars
      BY DEF BeginLine, EndLine, Execute, StraightOn, Jump, LoopBack, JumpIfFalse, IfLetOp,
             CallOp, ReturnOp, Stop, Running, vars
    <3>2. ~Statement
      BY DEF Statement, VarDecl, Return, ForIn, CallStatement, If, IfLet, Else, EndIf, While,
             EndWhile, EndFor, Break, BeginFunc, EndFunc, Typing, Closing
    <3> QED
      BY <3>1, <3>2 DEF Next
  <2>2. funcs' = saved.funcs /\ arena' = saved.arena /\ code' = SubSeq(code, 1, saved.arena)
    BY <2>1, RolledBack DEF Reject, BackToPrompt
  <2>3. IsCode(code) /\ saved.arena \in 0 .. Len(code) /\ SubSeq(code, 1, saved.arena) = saved.bytes
    BY TypedFacts, RolledBack
  <2>4. SubSeq(code', 1, saved.arena) = code'
    <3> DEFINE c == SubSeq(code, 1, saved.arena)
    <3>1. IsCode(c) /\ Len(c) = saved.arena
      BY <2>3, CodePrefix
    <3>2. code' = c
      BY <2>2
    <3> HIDE DEF c
    <3>3. SubSeq(c, 1, Len(c)) = [i \in 1 .. Len(c) |-> c[i]] /\ c = [i \in 1 .. Len(c) |-> c[i]]
      <4>1. Len(c) \in 0 .. Len(c)
        BY <3>1, CodeFacts
      <4>2. SubSeq(c, 1, Len(c)) = [i \in 1 .. Len(c) |-> c[i]]
        BY <3>1, <4>1, CodePrefix
      <4>3. c = [i \in 1 .. Len(c) |-> c[i]]
        BY <3>1, SeqIs DEF IsCode
      <4> QED
        BY <4>2, <4>3
    <3> QED
      BY <3>1, <3>2, <3>3
  <2> QED
    BY <2>2, <2>3, <2>4
<1>2. Base /\ [Next]_vars => Base'
  BY BaseNext
<1> QED
  BY <1>1, <1>2, BaseInit, PTL DEF Spec, RejectedLineLeavesNoTrace

-----------------------------------------------------------------------------
(***************************************************************************)
(* What the compiler emits runs as it was meant to, for every program      *)
(* without the four forms of Avoided and every size of its tables: at any  *)
(* moment the code so far flows from instruction to instruction at the     *)
(* depths the compiler assumed, except for the jumps that are still to be  *)
(* patched and for what falls off its end.                                 *)
(***************************************************************************)
Straight == Wide \cup Narrow
Forward  == {OP_JUMP, OP_JUMP_IF_FALSE, OP_IF_LET}
Ending   == {OP_RETURN, OP_RETURN_V, OP_HALT}
Triple   == Forward \cup {OP_LOOP, OP_CALL}
Falls    == Straight \cup {OP_JUMP_IF_FALSE, OP_IF_LET, OP_CALL}

Size(b) == IF b \in Wide THEN 2 ELSE IF b \in Triple THEN 3 ELSE 1

WordOf(c, i) == c[i].b + 256 * c[i + 1].b

(* The depth behind the instruction at i, and where it jumps to. *)
NearDepth(c, i) ==
  c[i].at + (IF c[i].b \in Straight THEN Effect(c[i].b)
             ELSE IF c[i].b = OP_JUMP_IF_FALSE THEN -1
             ELSE IF c[i].b = OP_CALL THEN 1 - c[i + 2].b ELSE 0)

FarDepth(c, i) == c[i].at - (IF c[i].b = OP_JUMP THEN 0 ELSE 1)

(* From code with path p to code with path q: the function stays the same, *)
(* and no step leads from one arm of an if into the other.                 *)
Follows(p, q) == p[1] = q[1] /\ Arms(p, "then") \cap Arms(q, "else") = {}

Exit(d, p) == [d |-> d, path |-> p]

(* An edge leads from a cell with path p to j, where the stack is e deep.  *)
(* There it meets an instruction of the region (lo, hi] compiled for that  *)
(* depth, or the end of the region, if that is one of its exits E.         *)
Meets(c, lo, hi, E, j, e, p) ==
  /\ e \in Nat
  /\ \/ j \in lo + 1 .. hi /\ c[j].at = e /\ Follows(p, c[j].path)
     \/ j = hi + 1 /\ \E x \in E : x.d = e /\ Follows(p, x.path)

(* The instruction at i is whole and leads where it may; P are the operands *)
(* that are still placeholders, n the functions there are.                 *)
Leads(c, lo, hi, E, P, n, i) ==
  /\ i + Size(c[i].b) - 1 <= hi
  /\ \A m \in i + 1 .. i + Size(c[i].b) - 1 : c[m].at = Operand
  /\ c[i].b \in Falls => Meets(c, lo, hi, E, i + Size(c[i].b), NearDepth(c, i), c[i].path)
  /\ c[i].b \in Forward =>
       i + 1 \in P \/ Meets(c, lo, hi, E, i + 3 + WordOf(c, i + 1), FarDepth(c, i), c[i].path)
  /\ c[i].b = OP_LOOP =>
       Meets(c, lo, hi, E, i + 3 - WordOf(c, i + 1), c[i].at, c[i].path)
  /\ c[i].b = OP_CALL => c[i + 1].b \in 1 .. n

Flow(c, lo, hi, E, P, n) ==
  \A i \in lo + 1 .. hi : c[i].at # Operand => Leads(c, lo, hi, E, P, n, i)

(* A region that is entered at its first cell, by function u, d deep. *)
Region(c, lo, hi, E, P, n, d, u) ==
  /\ Flow(c, lo, hi, E, P, n)
  /\ Meets(c, lo, hi, E, lo + 1, d, <<u>>)

(* Closed code flows nowhere else. *)
Closed(c, lo, hi, n) == Flow(c, lo, hi, {}, {}, n)

(* Function f begins on an instruction, at the depth of its parameters. *)
Enters(c, hi, g, f) ==
  /\ g.start + 1 \in 1 .. hi
  /\ c[g.start + 1].at = g.params /\ c[g.start + 1].path[1] = f

-----------------------------------------------------------------------------
(* Where a jump with path p may land: behind the constructs of stack s. *)
Lands(p, s, k) ==
  /\ p[1] = UnitOf(s)
  /\ \A j \in 1 .. k : s[j].kind = "else" => s[j].id \notin Arms(p, "then")

Site(c, s, d) ==
  /\ c[s - 1].at # Operand /\ c[s - 1].b \in Forward
  /\ FarDepth(c, s - 1) = d

(* A parked jump will land behind its construct, at the construct's depth; *)
(* the jump that ends a then-arm's test, also in the else-arm.  A loop     *)
(* begins at its depth, in no arm but those it is in.                      *)
SitesInv ==
  \A k \in DOMAIN open :
    /\ \A s \in Parked(k) :
         /\ Site(code, s, Level(k))
         /\ Lands(code[s - 1].path, open, k - 1)
         /\ open[k].kind = "then" => open[k].id \notin Arms(code[s - 1].path, "then")
    /\ open[k].kind \in LoopKinds =>
         LET h == code[open[k].start]
         IN  /\ h.at = Level(k) /\ h.path[1] = UnitOf(open)
             /\ \A i \in 1 .. k : open[i].kind = "then" => open[i].id \notin Arms(h.path, "else")

(* Inside a construct of a function, the last instruction is not one of    *)
(* the function's own level.                                               *)
TailInv ==
  Nested /\ Len(open) > 1 =>
    /\ Len(code) > Lo
    /\ code[Len(code)].at = Operand \/ Len(code[Len(code)].path) > 1

(* The function's last instruction is a return that is always taken. *)
Returned(c) ==
  /\ Nested /\ Len(c) > Lo
  /\ c[Len(c)].at # Operand /\ c[Len(c)].b \in {OP_RETURN, OP_RETURN_V}
  /\ Len(c[Len(c)].path) = 1

Exits == IF Returned(code) THEN {} ELSE {Exit(Depth, PathOf(open))}
EntryDepth == IF Nested THEN funcs[open[1].id].params ELSE 0

ParseInv ==
  /\ Closed(code, 0, arena, Len(funcs))
  /\ Nested => Region(code, arena, open[1].start, {Exit(0, <<0>>)}, {}, Len(funcs), 0, 0)
  /\ Region(code, Lo, Len(code), Exits, Pending, Len(funcs), EntryDepth, UnitOf(open))
  /\ \A f \in DOMAIN funcs :
       (Nested /\ f = open[1].id) \/ Enters(code, arena, funcs[f], f)

(* What a rolled back line leaves flows too. *)
SavedInv ==
  /\ Closed(saved.bytes, 0, saved.arena, saved.count)
  /\ \A f \in 1 .. saved.count : Enters(saved.bytes, saved.arena, saved.funcs[f], f)

(* Between lines. *)
PromptInv ==
  /\ frames = <<>>
  /\ Closed(code, 0, arena, Len(funcs))
  /\ \A f \in DOMAIN funcs : Enters(code, arena, funcs[f], f)

(* The function that runs above k frames, by the call the last of them    *)
(* returns to, and where the stack of frame k's callee begins.             *)
Called(c, s, k) == IF k = 0 THEN 0 ELSE c[s[k].pc - 2].b
FpAbove(s, f, k) == IF k = Len(s) THEN f ELSE s[k + 1].fp

(* Frame k returns behind a call, in the function that made it, to the     *)
(* depth that call leaves.                                                 *)
FrameFits(c, s, f, k) ==
  LET j == s[k].pc - 3
  IN  /\ j \in 1 .. Len(c) /\ c[j].at # Operand /\ c[j].b = OP_CALL
      /\ s[k].pc \in Int /\ s[k].fp \in Int
      /\ FpAbove(s, f, k) + 1 - s[k].fp = NearDepth(c, j)
      /\ c[j].path[1] = Called(c, s, k - 1)

RunInv ==
  /\ Closed(code, 0, arena, Len(funcs)) /\ Closed(code, 0, Len(code), Len(funcs))
  /\ \A f \in DOMAIN funcs : Enters(code, arena, funcs[f], f)
  /\ pc \in 1 .. Len(code) /\ code[pc].at # Operand
  /\ sp \in Int /\ fp \in Int /\ sp - fp = code[pc].at
  /\ code[pc].path[1] = Called(code, frames, Len(frames))
  /\ \A k \in DOMAIN frames : FrameFits(code, frames, fp, k)

FlowInv ==
  /\ phase = "prompt" => PromptInv
  /\ phase = "parse" => SitesInv /\ TailInv /\ ParseInv /\ SavedInv
  /\ phase = "run" => RunInv

-----------------------------------------------------------------------------
(* Codes. *)
LEMMA Codes ==
  ASSUME NEW b
  PROVE  /\ Size(b) \in 1 .. 3
         /\ b \in Forward => Size(b) = 3 /\ b \notin Straight /\ b # OP_LOOP /\ b # OP_CALL
         /\ b \in Ending => /\ Size(b) = 1 /\ b \notin Falls /\ b \notin Forward
                            /\ b # OP_LOOP /\ b # OP_CALL
         /\ b \in Wide => Size(b) = 2
         /\ b \in Narrow => Size(b) = 1
         /\ b \in Straight => /\ b \in Falls /\ b \notin Forward
                                      /\ b # OP_LOOP /\ b # OP_CALL
         /\ b = OP_LOOP => Size(b) = 3 /\ b \notin Falls /\ b \notin Forward /\ b # OP_CALL
         /\ b = OP_CALL => /\ Size(b) = 3 /\ b \in Falls /\ b \notin Forward
                           /\ b \notin Straight
  BY DEF Size, Straight, Forward, Ending, Wide, Narrow, Triple, Falls, OP_INT_U8, OP_POP, OP_SWAP,
         OP_OVER, OP_GET_GLOBAL, OP_SET_GLOBAL, OP_DEFINE_GLOBAL, OP_INC, OP_LT, OP_JUMP,
         OP_JUMP_IF_FALSE, OP_LOOP, OP_HALT, OP_CALL, OP_RETURN, OP_RETURN_V, OP_IF_LET

LEMMA Effects ==
  ASSUME NEW b \in Straight
  PROVE  Effect(b) \in {-1, 0, 1}
  BY DEF Effect, Straight, Wide, Narrow, OP_INT_U8, OP_POP, OP_SWAP, OP_OVER, OP_GET_GLOBAL,
         OP_SET_GLOBAL, OP_DEFINE_GLOBAL, OP_INC, OP_LT

Cells(c, hi) == \A i \in 1 .. hi : c[i] \in CellType

LEMMA CellFacts ==
  ASSUME NEW c, NEW hi, Cells(c, hi)
  PROVE  \A i \in 1 .. hi :
           /\ c[i].b \in 0 .. 255 /\ c[i].at \in Int /\ c[i].path \in Path
           /\ c[i].at # Operand => c[i].at \in Nat
<1>1. ASSUME NEW x \in CellType
      PROVE  /\ x.b \in 0 .. 255 /\ x.at \in Int /\ x.path \in Path
             /\ x.at # Operand => x.at \in Nat
  BY DEF CellType, Operand, Byte
<1> QED
  BY <1>1 DEF Cells

LEMMA CellsOf ==
  ASSUME NEW c, IsCode(c), NEW hi \in 0 .. Len(c)
  PROVE  Cells(c, hi)
<1>1. \A i \in 1 .. Len(c) : c[i] \in CellType
  BY CodeFacts
<1>2. Len(c) \in Nat
  BY CodeFacts
<1> QED
  BY <1>1, <1>2 DEF Cells

(* Whatever an edge with path p may meet in c, it meets k further on.      *)
Carries(c, lo, hi, E, c2, lo2, hi2, E2, k, p) ==
  \A j, e \in Int : Meets(c, lo, hi, E, j, e, p) => Meets(c2, lo2, hi2, E2, j + k, e, p)

Copied(c, c2, i, s, k) == \A m \in i .. i + s - 1 : c2[m + k] = c[m]

(* What is computed from an instruction's bytes and depth. *)
LEMMA SameCells ==
  ASSUME NEW c, NEW c2, NEW i, NEW j, c2[j] = c[i]
  PROVE  /\ FarDepth(c2, j) = FarDepth(c, i)
         /\ c2[j + 1] = c[i + 1] => WordOf(c2, j) = WordOf(c, i)
         /\ (c[i].b = OP_CALL => c2[j + 2] = c[i + 2])
              => NearDepth(c2, j) = NearDepth(c, i)
  BY DEF FarDepth, WordOf, NearDepth

LEMMA WholeNumbers ==
  ASSUME NEW c, NEW i, c[i].at \in Int, c[i].b \in Int
  PROVE  /\ FarDepth(c, i) \in Int
         /\ c[i + 1].b \in Int => WordOf(c, i) \in Int
         /\ (c[i].b = OP_CALL => c[i + 2].b \in Int) => NearDepth(c, i) \in Int
<1>1. FarDepth(c, i) \in Int /\ (c[i + 1].b \in Int => WordOf(c, i) \in Int)
  BY DEF FarDepth, WordOf
<1>2. ASSUME c[i].b = OP_CALL => c[i + 2].b \in Int PROVE NearDepth(c, i) \in Int
  <2>1. CASE c[i].b \in Straight
    BY <2>1, Effects DEF NearDepth
  <2>2. CASE c[i].b \notin Straight
    BY <2>2, <1>2 DEF NearDepth
  <2> QED
    BY <2>1, <2>2
<1> QED
  BY <1>1, <1>2

(* An instruction that is not changed, but for where it is, leads where it *)
(* did if the cells it leads to are still there.                           *)
LEMMA LeadsMoves ==
  ASSUME NEW c, NEW lo \in Nat, NEW hi \in Nat, Cells(c, hi), NEW E, NEW P,
         NEW n \in Nat, NEW c2, NEW lo2 \in Nat, NEW hi2 \in Nat,
         NEW E2, NEW P2, NEW n2 \in Nat, NEW i \in lo + 1 .. hi, NEW k \in Int,
         hi + k <= hi2, lo2 <= lo + k, n <= n2,
         c[i].at # Operand, Leads(c, lo, hi, E, P, n, i),
         Copied(c, c2, i, Size(c[i].b), k),
         Carries(c, lo, hi, E, c2, lo2, hi2, E2, k, c[i].path),
         i + 1 \in P => (i + 1) + k \in P2
  PROVE  Leads(c2, lo2, hi2, E2, P2, n2, i + k)
<1> DEFINE b == c[i].b
           s == Size(b)
<1>1. s \in 1 .. 3
  BY Codes
<1>b. i + s - 1 <= hi
  BY DEF Leads
<1>c. \A m \in i + 1 .. i + s - 1 : c[m].at = Operand
  BY DEF Leads
<1>d. b \in Falls => Meets(c, lo, hi, E, i + s, NearDepth(c, i), c[i].path)
  BY DEF Leads
<1>e. b \in Forward =>
        i + 1 \in P \/ Meets(c, lo, hi, E, i + 3 + WordOf(c, i + 1), FarDepth(c, i), c[i].path)
  BY DEF Leads
<1>f. b = OP_LOOP => Meets(c, lo, hi, E, i + 3 - WordOf(c, i + 1), c[i].at, c[i].path)
  BY DEF Leads
<1>g. b = OP_CALL => c[i + 1].b \in 1 .. n
  BY DEF Leads
<1>h. \A m \in i .. i + s - 1 : c2[m + k] = c[m]
  BY DEF Copied
<1>i. s = Size(b) /\ b = c[i].b
  OBVIOUS
<1>k. /\ (b \in Forward \/ b = OP_LOOP \/ b = OP_CALL) => s = 3
      /\ b \in Straight => b # OP_CALL
  BY Codes
<1>j. \A m \in 1 .. hi : c[m].b \in 0 .. 255 /\ c[m].at \in Int
  BY CellFacts
<1> HIDE DEF b, s
<1>2. i \in 1 .. hi /\ i + s - 1 \in 1 .. hi /\ b \in 0 .. 255 /\ c[i].at \in Int
  BY <1>1, <1>b, <1>i, <1>j
<1>3. c2[i + k] = c[i]
  BY <1>1, <1>h
<1>4. s >= 2 => c2[(i + 1) + k] = c[i + 1]
  BY <1>1, <1>h
<1>5. s = 3 => c2[(i + 2) + k] = c[i + 2]
  BY <1>1, <1>h
<1>6. s = 3 => c[i + 1].b \in 0 .. 255 /\ c[i + 2].b \in 0 .. 255
  BY <1>1, <1>2, <1>j
<1>7. i + k + s - 1 <= hi2
  BY <1>1, <1>b
<1>8. ASSUME NEW m \in (i + k) + 1 .. (i + k) + s - 1
      PROVE  c2[m].at = Operand
  <2>1. m - k \in i + 1 .. i + s - 1 /\ m - k \in i .. i + s - 1 /\ (m - k) + k = m
    BY <1>1
  <2>2. c[m - k].at = Operand
    BY <2>1, <1>c
  <2>3. c2[(m - k) + k] = c[m - k]
    BY <2>1, <1>h
  <2> QED
    BY <2>1, <2>2, <2>3
<1>l. /\ (i + k) + 1 = (i + 1) + k /\ (i + k) + 2 = (i + 2) + k
      /\ ((i + k) + 1) + 1 = (i + 2) + k /\ (i + 1) + 1 = i + 2
  OBVIOUS
<1>9. b \in Falls => Meets(c2, lo2, hi2, E2, (i + k) + s, NearDepth(c2, i + k), c[i].path)
  <2>1. b = OP_CALL => c2[(i + k) + 2] = c[i + 2] /\ c[i + 2].b \in Int
    BY <1>5, <1>6, <1>k, <1>l
  <2>2. c[i].b \in Int /\ c[i].at \in Int
    BY <1>2, <1>i
  <2>3. NearDepth(c, i) \in Int
    BY ONLY <1>i, <2>1, <2>2, WholeNumbers
  <2>4. NearDepth(c2, i + k) = NearDepth(c, i)
    BY ONLY <1>i, <1>3, <2>1, SameCells
  <2>5. i + s \in Int /\ (i + s) + k = (i + k) + s
    BY <1>1
  <2>6. Meets(c, lo, hi, E, i + s, NearDepth(c, i), c[i].path)
          => Meets(c2, lo2, hi2, E2, (i + s) + k, NearDepth(c, i), c[i].path)
    BY <2>3, <2>5, Zenon DEF Carries
  <2> QED
    BY ONLY <1>d, <2>4, <2>5, <2>6
<1>10. s = 3 => WordOf(c2, (i + k) + 1) = WordOf(c, i + 1) /\ WordOf(c, i + 1) \in Int
  <2> SUFFICES ASSUME s = 3
               PROVE  WordOf(c2, (i + k) + 1) = WordOf(c, i + 1) /\ WordOf(c, i + 1) \in Int
    OBVIOUS
  <2>1. c2[(i + k) + 1] = c[i + 1] /\ c2[((i + k) + 1) + 1] = c[(i + 1) + 1]
    BY <1>4, <1>5, <1>l
  <2>2. c[i + 1].b \in Int /\ c[(i + 1) + 1].b \in Int
    BY <1>6, <1>l
  <2>3. WordOf(c2, (i + k) + 1) = WordOf(c, i + 1)
    BY ONLY <2>1, SameCells
  <2> QED
    BY ONLY <2>2, <2>3 DEF WordOf
<1>11. (b \in Forward /\ i + 1 \notin P)
         => Meets(c2, lo2, hi2, E2, (i + k) + 3 + WordOf(c2, (i + k) + 1),
                  FarDepth(c2, i + k), c[i].path)
  <2>1. c[i].b \in Int /\ c[i].at \in Int
    BY <1>2, <1>i
  <2>2. FarDepth(c2, i + k) = FarDepth(c, i)
    BY ONLY <1>3, SameCells
  <2>3. FarDepth(c, i) \in Int
    BY ONLY <2>1, WholeNumbers
  <2>4. b \in Forward =>
          /\ i + 3 + WordOf(c, i + 1) \in Int
          /\ (i + 3 + WordOf(c, i + 1)) + k = (i + k) + 3 + WordOf(c2, (i + k) + 1)
    BY <1>10, <1>k
  <2>5. b \in Forward /\ Meets(c, lo, hi, E, i + 3 + WordOf(c, i + 1), FarDepth(c, i), c[i].path)
          => Meets(c2, lo2, hi2, E2, (i + 3 + WordOf(c, i + 1)) + k, FarDepth(c, i), c[i].path)
    BY <2>3, <2>4, Zenon DEF Carries
  <2> QED
    BY ONLY <1>e, <2>2, <2>4, <2>5
<1>12. b = OP_LOOP =>
         Meets(c2, lo2, hi2, E2, (i + k) + 3 - WordOf(c2, (i + k) + 1), c[i].at, c[i].path)
  <2>1. b = OP_LOOP =>
          /\ i + 3 - WordOf(c, i + 1) \in Int
          /\ (i + 3 - WordOf(c, i + 1)) + k = (i + k) + 3 - WordOf(c2, (i + k) + 1)
    BY <1>10, <1>k
  <2>2. b = OP_LOOP /\ Meets(c, lo, hi, E, i + 3 - WordOf(c, i + 1), c[i].at, c[i].path)
          => Meets(c2, lo2, hi2, E2, (i + 3 - WordOf(c, i + 1)) + k, c[i].at, c[i].path)
    BY <1>2, <2>1, Zenon DEF Carries
  <2> QED
    BY ONLY <1>f, <2>1, <2>2
<1>13. b = OP_CALL => c2[(i + k) + 1].b \in 1 .. n2
  <2>1. b = OP_CALL => c2[(i + k) + 1] = c[i + 1]
    BY <1>4, <1>k, <1>l
  <2> QED
    BY <1>g, <2>1
<1>14. i + 1 \in P => (i + k) + 1 \in P2
  BY ONLY i + 1 \in P => (i + 1) + k \in P2, <1>l
<1>15. c2[i + k].b = b /\ c2[i + k].at = c[i].at /\ c2[i + k].path = c[i].path /\ Size(b) = s
  BY <1>3, <1>i
<1> QED
  BY ONLY <1>7, <1>8, <1>9, <1>11, <1>12, <1>13, <1>14, <1>15 DEF Leads

-----------------------------------------------------------------------------
(* Flow under what the compiler does to code. *)
LEMMA FlowMoves ==
  ASSUME NEW c, NEW lo \in Nat, NEW hi \in Nat, Cells(c, hi), NEW E, NEW P,
         NEW n \in Nat, NEW c2, NEW lo2 \in Nat, NEW hi2 \in Nat,
         NEW E2, NEW P2, NEW n2 \in Nat, NEW k \in Int,
         hi + k <= hi2, lo2 <= lo + k, n <= n2,
         \A i \in lo + 1 .. hi : c2[i + k] = c[i],
         \A p : Carries(c, lo, hi, E, c2, lo2, hi2, E2, k, p),
         \A i \in lo + 1 .. hi : i + 1 \in P => (i + 1) + k \in P2,
         Flow(c, lo, hi, E, P, n)
  PROVE  \A i \in lo + 1 .. hi :
           c[i].at # Operand => Leads(c2, lo2, hi2, E2, P2, n2, i + k)
<1> SUFFICES ASSUME NEW i \in lo + 1 .. hi, c[i].at # Operand
             PROVE  Leads(c2, lo2, hi2, E2, P2, n2, i + k)
  OBVIOUS
<1>1. Leads(c, lo, hi, E, P, n, i)
  BY DEF Flow
<1>2. Copied(c, c2, i, Size(c[i].b), k)
  <2>1. i + Size(c[i].b) - 1 <= hi /\ Size(c[i].b) \in 1 .. 3
    BY <1>1, Codes DEF Leads
  <2> QED
    BY <2>1 DEF Copied
<1>3. i + 1 \in P => (i + 1) + k \in P2
  OBVIOUS
<1> QED
  BY <1>1, <1>2, <1>3, LeadsMoves

Widens(E, E2) ==
  \A x \in E : \A p : Follows(p, x.path) => \E y \in E2 : y.d = x.d /\ Follows(p, y.path)

LEMMA MeetsFramed ==
  ASSUME NEW c, NEW lo, NEW hi, NEW E, NEW c2, NEW E2,
         \A i \in lo + 1 .. hi : c2[i] = c[i], Widens(E, E2),
         NEW j, NEW e, NEW p, Meets(c, lo, hi, E, j, e, p)
  PROVE  Meets(c2, lo, hi, E2, j, e, p)
<1>1. CASE j \in lo + 1 .. hi /\ c[j].at = e /\ Follows(p, c[j].path)
  BY <1>1 DEF Meets
<1>2. CASE j = hi + 1 /\ \E x \in E : x.d = e /\ Follows(p, x.path)
  <2>1. PICK x \in E : x.d = e /\ Follows(p, x.path)
    BY <1>2
  <2>2. \E y \in E2 : y.d = e /\ Follows(p, y.path)
    BY <2>1 DEF Widens
  <2> QED
    BY <1>2, <2>2 DEF Meets
<1> QED
  BY <1>1, <1>2 DEF Meets

(* Nothing that is said of a region changes with what is outside of it. *)
LEMMA FlowFramed ==
  ASSUME NEW c, NEW lo \in Nat, NEW hi \in Nat, Cells(c, hi), NEW E, NEW P,
         NEW n \in Nat, NEW c2, NEW E2, NEW P2, NEW n2 \in Nat, n <= n2,
         \A i \in lo + 1 .. hi : c2[i] = c[i], Widens(E, E2),
         P \subseteq P2, Flow(c, lo, hi, E, P, n)
  PROVE  Flow(c2, lo, hi, E2, P2, n2)
<1>1. \A j, e \in Int : \A p : Meets(c, lo, hi, E, j, e, p) => Meets(c2, lo, hi, E2, j + 0, e, p)
  <2>1. \A j, e \in Int : \A p : Meets(c, lo, hi, E, j, e, p) => Meets(c2, lo, hi, E2, j, e, p)
    BY MeetsFramed
  <2>2. \A j \in Int : j + 0 = j
    OBVIOUS
  <2> QED
    BY <2>1, <2>2
<1>2. \A p : Carries(c, lo, hi, E, c2, lo, hi, E2, 0, p)
  BY <1>1 DEF Carries
<1>3. \A i \in lo + 1 .. hi : i + 0 = i /\ (i + 1) + 0 = i + 1
  OBVIOUS
<1>4. /\ \A i \in lo + 1 .. hi : c2[i + 0] = c[i]
      /\ \A i \in lo + 1 .. hi : i + 1 \in P => (i + 1) + 0 \in P2
  BY <1>3
<1>5. 0 \in Int /\ hi + 0 <= hi /\ lo <= lo + 0
  OBVIOUS
<1>6. \A i \in lo + 1 .. hi : c[i].at # Operand => Leads(c2, lo, hi, E2, P2, n2, i + 0)
  BY ONLY <1>2, <1>4, <1>5, FlowMoves, lo \in Nat, hi \in Nat, Cells(c, hi), n \in Nat,
          n2 \in Nat, n <= n2, Flow(c, lo, hi, E, P, n)
<1> QED
  BY <1>3, <1>6 DEF Flow

LEMMA RegionFramed ==
  ASSUME NEW c, NEW lo \in Nat, NEW hi \in Nat, Cells(c, hi), NEW E, NEW P,
         NEW n \in Nat, NEW c2, NEW E2, NEW P2, NEW n2 \in Nat, n <= n2,
         \A i \in lo + 1 .. hi : c2[i] = c[i], Widens(E, E2),
         P \subseteq P2, NEW d, NEW u, Region(c, lo, hi, E, P, n, d, u)
  PROVE  Region(c2, lo, hi, E2, P2, n2, d, u)
  BY FlowFramed, MeetsFramed DEF Region

LEMMA Narrower == ASSUME NEW E, NEW E2, E \subseteq E2 PROVE Widens(E, E2)
  BY DEF Widens

(* What falls off the end of a region meets what is emitted behind it. *)
LEMMA RegionExtended ==
  ASSUME NEW c, NEW lo \in Nat, NEW hi \in Nat, Cells(c, hi), NEW E, NEW P,
         NEW n \in Nat, NEW c2, NEW hi2 \in Nat, NEW E2, NEW P2,
         lo <= hi, hi < hi2,
         \A i \in lo + 1 .. hi : c2[i] = c[i],
         \A x \in E : x.d = c2[hi + 1].at /\ x.path = c2[hi + 1].path,
         P \subseteq P2, NEW d, NEW u,
         Region(c, lo, hi, E, P, n, d, u),
         \A i \in hi + 1 .. hi2 : c2[i].at # Operand => Leads(c2, lo, hi2, E2, P2, n, i)
  PROVE  Region(c2, lo, hi2, E2, P2, n, d, u)
<1>1. ASSUME NEW j, NEW e, NEW p, Meets(c, lo, hi, E, j, e, p)
      PROVE  Meets(c2, lo, hi2, E2, j, e, p)
  <2>1. CASE j \in lo + 1 .. hi /\ c[j].at = e /\ Follows(p, c[j].path)
    <3>1. j \in lo + 1 .. hi2
      BY <2>1
    <3> QED
      BY <1>1, <2>1, <3>1 DEF Meets
  <2>2. CASE j = hi + 1 /\ \E x \in E : x.d = e /\ Follows(p, x.path)
    <3>1. hi + 1 \in lo + 1 .. hi2
      OBVIOUS
    <3>2. c2[hi + 1].at = e /\ Follows(p, c2[hi + 1].path)
      BY <2>2
    <3> QED
      BY <1>1, <2>2, <3>1, <3>2 DEF Meets
  <2> QED
    BY <1>1, <2>1, <2>2 DEF Meets
<1>2. \A j, e \in Int : \A p : Meets(c, lo, hi, E, j, e, p) => Meets(c2, lo, hi2, E2, j + 0, e, p)
  <2>1. \A j \in Int : j + 0 = j
    OBVIOUS
  <2> QED
    BY <1>1, <2>1
<1>3. \A p : Carries(c, lo, hi, E, c2, lo, hi2, E2, 0, p)
  BY <1>2 DEF Carries
<1>4. \A i \in lo + 1 .. hi : i + 0 = i /\ (i + 1) + 0 = i + 1
  OBVIOUS
<1>5. /\ \A i \in lo + 1 .. hi : c2[i + 0] = c[i]
      /\ \A i \in lo + 1 .. hi : i + 1 \in P => (i + 1) + 0 \in P2
  BY <1>4
<1>6. 0 \in Int /\ hi + 0 <= hi2 /\ lo <= lo + 0 /\ n <= n
  OBVIOUS
<1>7. Flow(c, lo, hi, E, P, n)
  BY DEF Region
<1>8. \A i \in lo + 1 .. hi : c[i].at # Operand => Leads(c2, lo, hi2, E2, P2, n, i + 0)
  BY ONLY <1>3, <1>5, <1>6, <1>7, FlowMoves, lo \in Nat, hi \in Nat, Cells(c, hi), n \in Nat,
          hi2 \in Nat
<1>9. ASSUME NEW i \in lo + 1 .. hi2, c2[i].at # Operand
      PROVE  Leads(c2, lo, hi2, E2, P2, n, i)
  <2>1. CASE i \in lo + 1 .. hi
    BY <1>4, <1>8, <1>9, <2>1
  <2>2. CASE i \notin lo + 1 .. hi
    <3>1. i \in hi + 1 .. hi2
      BY <2>2
    <3> QED
      BY <1>9, <3>1
  <2> QED
    BY <2>1, <2>2
<1> QED
  BY <1>1, <1>9 DEF Region, Flow

(* Code that is moved as a whole. *)
LEMMA RegionShifted ==
  ASSUME NEW c, NEW lo \in Nat, NEW hi \in Nat, Cells(c, hi), NEW E, NEW n \in Nat,
         NEW c2, NEW k \in Int, NEW lo2 \in Nat, NEW hi2 \in Nat, lo2 = lo + k, hi2 = hi + k,
         \A i \in lo + 1 .. hi : c2[i + k] = c[i],
         NEW d, NEW u, Region(c, lo, hi, E, {}, n, d, u)
  PROVE  Region(c2, lo2, hi2, E, {}, n, d, u)
<1>1. ASSUME NEW j \in Int, NEW e, NEW p, Meets(c, lo, hi, E, j, e, p)
      PROVE  Meets(c2, lo2, hi2, E, j + k, e, p)
  <2>1. CASE j \in lo + 1 .. hi /\ c[j].at = e /\ Follows(p, c[j].path)
    <3>1. j + k \in lo2 + 1 .. hi2
      BY <2>1
    <3> QED
      BY <1>1, <2>1, <3>1 DEF Meets
  <2>2. CASE j = hi + 1 /\ \E x \in E : x.d = e /\ Follows(p, x.path)
    <3>1. j + k = hi2 + 1
      BY <2>2
    <3> QED
      BY <1>1, <2>2, <3>1 DEF Meets
  <2> QED
    BY <1>1, <2>1, <2>2 DEF Meets
<1>2. \A p : Carries(c, lo, hi, E, c2, lo2, hi2, E, k, p)
  BY <1>1 DEF Carries
<1>3. hi + k <= hi2 /\ lo2 <= lo + k /\ n <= n
  OBVIOUS
<1>4. Flow(c, lo, hi, E, {}, n)
  BY DEF Region
<1>5. \A i \in lo + 1 .. hi : i + 1 \in {} => (i + 1) + k \in {}
  OBVIOUS
<1>6. \A i \in lo + 1 .. hi : c[i].at # Operand => Leads(c2, lo2, hi2, E, {}, n, i + k)
  BY ONLY <1>2, <1>3, <1>4, <1>5, FlowMoves, lo \in Nat, hi \in Nat, Cells(c, hi), n \in Nat,
          hi2 \in Nat, lo2 \in Nat, k \in Int, \A i \in lo + 1 .. hi : c2[i + k] = c[i]
<1>7. ASSUME NEW i \in lo2 + 1 .. hi2, c2[i].at # Operand
      PROVE  Leads(c2, lo2, hi2, E, {}, n, i)
  <2>1. i - k \in lo + 1 .. hi /\ (i - k) + k = i
    OBVIOUS
  <2>2. c[i - k].at # Operand
    BY <1>7, <2>1
  <2> QED
    BY <1>6, <2>1, <2>2
<1>8. Meets(c2, lo2, hi2, E, lo2 + 1, d, <<u>>)
  <2>1. Meets(c, lo, hi, E, lo + 1, d, <<u>>) /\ lo + 1 \in Int /\ (lo + 1) + k = lo2 + 1
    BY DEF Region
  <2> QED
    BY <1>1, <2>1
<1> QED
  BY <1>7, <1>8 DEF Region, Flow

LEMMA FlowJoined ==
  ASSUME NEW c, NEW mid \in Nat, NEW hi \in Nat, mid <= hi, Cells(c, hi), NEW n \in Nat,
         Closed(c, 0, mid, n), Closed(c, mid, hi, n)
  PROVE  Closed(c, 0, hi, n)
<1>1. ASSUME NEW lo \in {0, mid}, NEW h \in {mid, hi}, NEW j, NEW e, NEW p,
             Meets(c, lo, h, {}, j, e, p)
      PROVE  Meets(c, 0, hi, {}, j, e, p)
  <2>1. j \in lo + 1 .. h
    BY <1>1 DEF Meets
  <2>2. j \in 0 + 1 .. hi
    BY <2>1
  <2> QED
    BY <1>1, <2>2 DEF Meets
<1>2. \A i \in 1 .. hi : c[i].at # Operand =>
        \E lo \in {0, mid}, h \in {mid, hi} : i \in lo + 1 .. h /\ Leads(c, lo, h, {}, {}, n, i)
  <2> SUFFICES ASSUME NEW i \in 1 .. hi, c[i].at # Operand
               PROVE  \E lo \in {0, mid}, h \in {mid, hi} :
                        i \in lo + 1 .. h /\ Leads(c, lo, h, {}, {}, n, i)
    OBVIOUS
  <2>1. CASE i <= mid
    <3>1. i \in 0 + 1 .. mid
      BY <2>1
    <3> QED
      BY <3>1 DEF Closed, Flow
  <2>2. CASE i > mid
    <3>1. i \in mid + 1 .. hi
      BY <2>2
    <3> QED
      BY <3>1 DEF Closed, Flow
  <2> QED
    BY <2>1, <2>2
<1>3. ASSUME NEW i \in 1 .. hi, c[i].at # Operand
      PROVE  Leads(c, 0, hi, {}, {}, n, i)
  <2>1. PICK lo \in {0, mid}, h \in {mid, hi} : i \in lo + 1 .. h /\ Leads(c, lo, h, {}, {}, n, i)
    BY <1>2, <1>3
  <2>2. i + Size(c[i].b) - 1 <= hi
    <3>1. i + Size(c[i].b) - 1 <= h /\ h <= hi /\ h \in Nat /\ Size(c[i].b) \in 1 .. 3
      BY <2>1, Codes DEF Leads
    <3> QED
      BY <3>1
  <2>3. \A j, e, p : Meets(c, lo, h, {}, j, e, p) => Meets(c, 0, hi, {}, j, e, p)
    BY <1>1
  <2> QED
    BY <2>1, <2>2, <2>3 DEF Leads
<1>4. \A i \in 0 + 1 .. hi : c[i].at # Operand => Leads(c, 0, hi, {}, {}, n, i)
  BY <1>3
<1> QED
  BY <1>4 DEF Closed, Flow

-----------------------------------------------------------------------------
(* Patching. *)
LEMMA Bytes16 ==
  ASSUME NEW x \in Nat
  PROVE  (x % 256) + 256 * (x \div 256) = x
  OBVIOUS

(* A placeholder's operand is an operand, both bytes of it. *)
LEMMA Placeholders ==
  ASSUME NEW c, NEW lo \in Nat, NEW hi \in Nat, NEW E, NEW P, NEW n, NEW s \in Nat,
         s - 1 \in lo + 1 .. hi, c[s - 1].at # Operand, c[s - 1].b \in Forward,
         Flow(c, lo, hi, E, P, n)
  PROVE  s + 1 <= hi /\ c[s].at = Operand /\ c[s + 1].at = Operand
<1>1. Leads(c, lo, hi, E, P, n, s - 1) /\ Size(c[s - 1].b) = 3
  BY Codes DEF Flow
<1>2. (s - 1) + 3 - 1 <= hi /\ \A m \in (s - 1) + 1 .. (s - 1) + 3 - 1 : c[m].at = Operand
  BY <1>1 DEF Leads
<1>3. s \in (s - 1) + 1 .. (s - 1) + 3 - 1 /\ s + 1 \in (s - 1) + 1 .. (s - 1) + 3 - 1
  OBVIOUS
<1> QED
  BY <1>2, <1>3

(* The jump parked at s may leave the region (lo, h] by one of the exits E. *)
FitsEnd(c, lo, h, E, s) ==
  /\ s \in Nat /\ s - 1 \in lo + 1 .. h
  /\ c[s - 1].at # Operand /\ c[s - 1].b \in Forward
  /\ FarDepth(c, s - 1) \in Nat
  /\ \E x \in E : x.d = FarDepth(c, s - 1) /\ Follows(c[s - 1].path, x.path)

LEMMA RegionPatched ==
  ASSUME NEW c, IsCode(c), NEW h, h = Len(c), h < 65536, NEW lo \in 0 .. h, NEW E, NEW P,
         NEW n \in Nat, NEW E2, NEW P2, NEW S, NEW d, NEW u,
         \A s \in S : FitsEnd(c, lo, h, E2, s),
         Widens(E, E2), P \subseteq P2 \cup S,
         Region(c, lo, h, E, P, n, d, u),
         NEW p, p = patch_jump_to_here(c, S)
  PROVE  Region(p, lo, h, E2, P2, n, d, u)
<1>0. \A s \in S : /\ s \in Nat /\ s - 1 \in lo + 1 .. h
                   /\ c[s - 1].at # Operand /\ c[s - 1].b \in Forward
                   /\ FarDepth(c, s - 1) \in Nat
                   /\ \E x \in E2 : x.d = FarDepth(c, s - 1) /\ Follows(c[s - 1].path, x.path)
  BY DEF FitsEnd
<1> USE <1>0
<1>1. h \in Nat /\ lo \in Nat /\ Cells(c, h)
  BY CodeFacts, CellsOf
<1>2. /\ IsCode(p) /\ Len(p) = h
      /\ \A i \in 1 .. h :
           /\ p[i].at = c[i].at /\ p[i].path = c[i].path
           /\ i \in S => p[i].b = ((h + 1) - (i + 2)) % 256
           /\ (i \notin S /\ i - 1 \in S) => p[i].b = ((h + 1) - ((i - 1) + 2)) \div 256
           /\ (i \notin S /\ i - 1 \notin S) => p[i] = c[i]
  <2>1. /\ IsCode(p) /\ Len(p) = h
        /\ \A i \in 1 .. h :
             /\ p[i] \in CellType /\ p[i].at = c[i].at /\ p[i].path = c[i].path
             /\ i \in S => p[i].b = ((h + 1) - (i + 2)) % 256
             /\ (i \notin S /\ i - 1 \in S) => p[i].b = ((h + 1) - ((i - 1) + 2)) \div 256
             /\ (i \notin S /\ i - 1 \notin S) => p[i] = c[i]
    BY ONLY Patched, IsCode(c), h = Len(c), h < 65536, p = patch_jump_to_here(c, S)
  <2> QED
    BY ONLY <2>1
<1>3. Flow(c, lo, h, E, P, n) /\ Meets(c, lo, h, E, lo + 1, d, <<u>>)
  BY DEF Region
<1>4. \A s \in S : s + 1 <= h /\ c[s].at = Operand /\ c[s + 1].at = Operand
  BY <1>1, <1>3, Placeholders, SMTT(30)
<1>5. ASSUME NEW j, NEW e, NEW q, Meets(c, lo, h, E, j, e, q)
      PROVE  Meets(p, lo, h, E2, j, e, q)
  <2>1. CASE j \in lo + 1 .. h /\ c[j].at = e /\ Follows(q, c[j].path)
    <3>1. j \in 1 .. h
      BY <1>1, <2>1
    <3>2. p[j].at = e /\ Follows(q, p[j].path)
      BY <1>2, <2>1, <3>1
    <3> QED
      BY <1>5, <2>1, <3>2 DEF Meets
  <2>2. CASE j = h + 1 /\ \E x \in E : x.d = e /\ Follows(q, x.path)
    BY <1>5, <2>2 DEF Meets, Widens
  <2> QED
    BY <1>5, <2>1, <2>2 DEF Meets
<1>6. ASSUME NEW i \in lo + 1 .. h, p[i].at # Operand
      PROVE  Leads(p, lo, h, E2, P2, n, i)
  <2>1. i \in 1 .. h /\ c[i].at # Operand
    BY <1>1, <1>2, <1>6
  <2>2. Leads(c, lo, h, E, P, n, i)
    BY <1>3, <2>1 DEF Flow
  <2>3. i \notin S /\ i - 1 \notin S
    <3>1. i \notin S
      BY <1>4, <2>1
    <3>2. i - 1 \in S => c[(i - 1) + 1].at = Operand
      BY <1>4
    <3>3. (i - 1) + 1 = i
      OBVIOUS
    <3> QED
      BY <2>1, <3>1, <3>2, <3>3
  <2>4. p[i] = c[i]
    BY <1>2, <2>1, <2>3
  <2> DEFINE z == Size(c[i].b)
  <2>5. z \in 1 .. 3 /\ i + z - 1 <= h /\ \A m \in i + 1 .. i + z - 1 : c[m].at = Operand
    BY <2>2, Codes DEF Leads
  <2>6. CASE i + 1 \in S
    <3>1. c[i].b \in Forward /\ c[i].at \in Int
      <4>1. (i + 1) - 1 = i
        OBVIOUS
      <4>2. c[(i + 1) - 1].b \in Forward
        BY <2>6
      <4> QED
        BY <1>1, <2>1, <4>1, <4>2, CellFacts
    <3>2. z = 3 /\ c[i].b # OP_LOOP /\ c[i].b # OP_CALL
      BY <3>1, Codes
    <3>3. i + 2 <= h /\ c[i + 1].at = Operand /\ c[i + 2].at = Operand
      BY <2>5, <3>2
    <3>4. i + 2 \notin S
      <4>1. i + 2 \in S => c[(i + 2) - 1].at # Operand
        OBVIOUS
      <4>2. (i + 2) - 1 = i + 1
        OBVIOUS
      <4> QED
        BY <3>3, <4>1, <4>2
    <3>5. p[i + 1].b = ((h + 1) - ((i + 1) + 2)) % 256
      BY <1>2, <2>1, <2>6, <3>3
    <3>6. p[i + 2].b = ((h + 1) - ((i + 1) + 2)) \div 256
      <4>1. i + 2 \in 1 .. h /\ (i + 2) - 1 = i + 1
        BY <2>1, <3>3
      <4>2. i + 2 \notin S /\ (i + 2) - 1 \in S
        BY <2>6, <3>4, <4>1
      <4>3. p[i + 2].b = ((h + 1) - (((i + 2) - 1) + 2)) \div 256
        BY <1>2, <4>1, <4>2
      <4> QED
        BY <4>1, <4>3
    <3>7. WordOf(p, i + 1) = (h + 1) - ((i + 1) + 2)
      <4> DEFINE x == (h + 1) - ((i + 1) + 2)
      <4>1. x \in Nat
        BY <1>1, <2>1, <3>3
      <4>2. (i + 1) + 1 = i + 2
        OBVIOUS
      <4>3. p[i + 1].b = x % 256 /\ p[(i + 1) + 1].b = x \div 256
        BY <3>5, <3>6, <4>2
      <4> HIDE DEF x
      <4>4. WordOf(p, i + 1) = (x % 256) + 256 * (x \div 256)
        BY <4>3 DEF WordOf
      <4>5. (x % 256) + 256 * (x \div 256) = x
        BY <4>1, Bytes16
      <4> QED
        BY <4>4, <4>5 DEF x
    <3>8. i + 3 + WordOf(p, i + 1) = h + 1
      BY <1>1, <3>7
    <3>9. PICK x \in E2 : x.d = FarDepth(c, i) /\ Follows(c[i].path, x.path)
      <4>1. (i + 1) - 1 = i
        OBVIOUS
      <4>2. \E x \in E2 : x.d = FarDepth(c, (i + 1) - 1) /\ Follows(c[(i + 1) - 1].path, x.path)
        BY <2>6
      <4> QED
        BY <4>1, <4>2
    <3>10. FarDepth(p, i) = FarDepth(c, i) /\ NearDepth(p, i) = NearDepth(c, i)
      <4>1. FarDepth(p, i) = FarDepth(c, i)
        BY ONLY <2>4, SameCells
      <4>2. NearDepth(p, i) = NearDepth(c, i)
        BY ONLY <2>4, <3>2, SameCells
      <4> QED
        BY ONLY <4>1, <4>2
    <3>11. Meets(p, lo, h, E2, i + 3 + WordOf(p, i + 1), FarDepth(p, i), p[i].path)
      <4>1. (i + 1) - 1 = i
        OBVIOUS
      <4>2. FarDepth(c, (i + 1) - 1) \in Nat
        BY <2>6
      <4> QED
        BY <2>4, <3>8, <3>9, <3>10, <4>1, <4>2 DEF Meets
    <3>12. c[i].b \in Falls => Meets(p, lo, h, E2, i + z, NearDepth(p, i), p[i].path)
      <4>1. c[i].b \in Falls => Meets(c, lo, h, E, i + z, NearDepth(c, i), c[i].path)
        BY <2>2 DEF Leads
      <4> QED
        BY <1>5, <2>4, <3>10, <4>1
    <3>13. \A m \in i + 1 .. i + z - 1 : p[m].at = Operand
      BY <1>2, <2>1, <2>5, SMTT(30)
    <3> HIDE DEF z
    <3> QED
      BY <2>4, <2>5, <3>2, <3>11, <3>12, <3>13 DEF Leads, z
  <2>7. CASE i + 1 \notin S
    <3>1. ASSUME NEW m \in i + 1 .. i + z - 1
          PROVE  p[m] = c[m]
      <4>1. m \in 1 .. h /\ m \in Nat
        BY <2>1, <2>5
      <4>2. m \notin S
        <5>1. m \in S => c[m - 1].at # Operand
          OBVIOUS
        <5>2. m - 1 = i \/ m - 1 \in i + 1 .. i + z - 1
          BY <2>5
        <5>3. m - 1 = i => m = i + 1
          BY <4>1
        <5> QED
          BY <2>5, <2>7, <5>1, <5>2, <5>3, SMTT(30)
      <4>3. m - 1 \notin S
        <5>1. m - 1 \in S => c[(m - 1) - 1].at # Operand
          OBVIOUS
        <5>2. (m - 1) - 1 = i - 1 \/ (m - 1) - 1 = i \/ (m - 1) - 1 \in i + 1 .. i + z - 1
          BY <2>5
        <5>3. /\ (m - 1) - 1 = i - 1 => m - 1 = i
              /\ (m - 1) - 1 = i => m - 1 = i + 1
          BY <4>1
        <5> QED
          BY <2>3, <2>5, <2>7, <5>1, <5>2, <5>3, SMTT(30)
      <4> QED
        BY <1>2, <4>1, <4>2, <4>3
    <3>2. Copied(c, p, i, Size(c[i].b), 0)
      <4>1. \A m \in i .. i + z - 1 : m = i \/ m \in i + 1 .. i + z - 1
        OBVIOUS
      <4>2. \A m \in i .. i + z - 1 : p[m] = c[m] /\ m + 0 = m
        BY <2>4, <3>1, <4>1
      <4> QED
        BY <4>2 DEF Copied
    <3>3. Carries(c, lo, h, E, p, lo, h, E2, 0, c[i].path)
      <4>1. \A j \in Int : j + 0 = j
        OBVIOUS
      <4> QED
        BY <1>5, <4>1 DEF Carries
    <3>4. i + 1 \in P => (i + 1) + 0 \in P2
      <4>1. (i + 1) + 0 = i + 1
        OBVIOUS
      <4> QED
        BY <2>7, <4>1
    <3>5. h + 0 <= h /\ lo <= lo + 0 /\ n <= n /\ 0 \in Int /\ i + 0 = i
      BY <1>1
    <3>6. Leads(p, lo, h, E2, P2, n, i + 0)
      BY ONLY <1>1, <2>1, <2>2, <3>2, <3>3, <3>4, <3>5, LeadsMoves, n \in Nat, i \in lo + 1 .. h
    <3> QED
      BY <3>5, <3>6
  <2> QED
    BY <2>6, <2>7
<1> QED
  BY <1>3, <1>5, <1>6 DEF Region, Flow

-----------------------------------------------------------------------------
(* Paths. *)
Plain(s) == IsStack(s) /\ \A k \in DOMAIN s : s[k].kind = "func" => k = 1

LEMMA ArmsOf ==
  ASSUME NEW s, Plain(s), NEW kind \in ArmKinds
  PROVE  Arms(PathOf(s), kind) = {s[k].id : k \in {j \in DOMAIN s : s[j].kind = kind}}
<1> DEFINE p == PathOf(s)
           f == FuncAt(s)
<1>1. /\ Len(s) \in Nat /\ DOMAIN s = 1 .. Len(s)
      /\ f = IF Within(s) THEN 1 ELSE 0
      /\ s = <<>> <=> Len(s) = 0
  BY StackFacts, FuncAtIs DEF Plain
<1>2. /\ Len(p) = 1 + Len(s) - f
      /\ \A i \in 1 .. Len(s) - f : p[i + 1] = <<s[f + i].kind, s[f + i].id>>
  BY PathFacts DEF Plain
<1>3. kind # "func"
  BY DEF ArmKinds
<1>4. Arms(p, kind) = {p[i][2] : i \in {j \in 2 .. Len(p) : p[j][1] = kind}}
  BY DEF Arms
<1>5. f \in {0, 1} /\ (f = 1 => s[1].kind = "func" /\ Len(s) >= 1)
  BY <1>1 DEF Within
<1> HIDE DEF p, f
<1>6. ASSUME NEW j \in 2 .. Len(p)
      PROVE  /\ f + (j - 1) \in 1 .. Len(s)
             /\ p[j][1] = s[f + (j - 1)].kind /\ p[j][2] = s[f + (j - 1)].id
  <2>1. j - 1 \in 1 .. Len(s) - f /\ (j - 1) + 1 = j /\ f + (j - 1) \in 1 .. Len(s)
    BY <1>1, <1>2, <1>5
  <2>2. p[j] = <<s[f + (j - 1)].kind, s[f + (j - 1)].id>>
    BY <1>2, <2>1
  <2> QED
    BY <2>1, <2>2
<1>7. ASSUME NEW k \in 1 .. Len(s), s[k].kind = kind
      PROVE  (k - f) + 1 \in 2 .. Len(p) /\ f + (((k - f) + 1) - 1) = k
  <2>1. f = 1 => k # 1
    BY <1>3, <1>5, <1>7
  <2> QED
    BY <1>1, <1>2, <1>5, <2>1
<1>8. ASSUME NEW x \in {p[i][2] : i \in {j \in 2 .. Len(p) : p[j][1] = kind}}
      PROVE  x \in {s[k].id : k \in {j \in DOMAIN s : s[j].kind = kind}}
  <2>1. PICK i \in 2 .. Len(p) : p[i][1] = kind /\ x = p[i][2]
    OBVIOUS
  <2> QED
    BY <1>1, <1>6, <2>1
<1>9. ASSUME NEW x \in {s[k].id : k \in {j \in DOMAIN s : s[j].kind = kind}}
      PROVE  x \in {p[i][2] : i \in {j \in 2 .. Len(p) : p[j][1] = kind}}
  <2>1. PICK k \in 1 .. Len(s) : s[k].kind = kind /\ x = s[k].id
    BY <1>1
  <2>2. (k - f) + 1 \in 2 .. Len(p) /\ f + (((k - f) + 1) - 1) = k
    BY <1>7, <2>1
  <2>3. p[(k - f) + 1][1] = kind /\ p[(k - f) + 1][2] = x
    BY <1>6, <2>1, <2>2
  <2> QED
    BY <2>2, <2>3
<1> QED
  BY <1>4, <1>8, <1>9 DEF p

(* Code may be followed by what is emitted at stack s if it is of the same *)
(* function and in none of the then-arms whose else-arms s is in.          *)
LEMMA FollowsPath ==
  ASSUME NEW s, Plain(s), NEW p
  PROVE  Follows(p, PathOf(s)) <=> Lands(p, s, Len(s))
<1>1. "else" \in ArmKinds
  BY DEF ArmKinds
<1>2. Arms(PathOf(s), "else") = {s[k].id : k \in {j \in DOMAIN s : s[j].kind = "else"}}
  BY <1>1, ArmsOf
<1>3. PathOf(s)[1] = UnitOf(s) /\ DOMAIN s = 1 .. Len(s)
  BY PathFacts, StackFacts DEF Plain
<1>4. Arms(p, "then") \cap Arms(PathOf(s), "else") = {}
        <=> \A k \in 1 .. Len(s) : s[k].kind = "else" => s[k].id \notin Arms(p, "then")
  BY <1>2, <1>3
<1> QED
  BY <1>3, <1>4 DEF Follows, Lands

LEMMA PlainOpen == ASSUME Base PROVE Plain(open)
  BY Parsing DEF Plain, StackInv

LEMMA OwnPath ==
  ASSUME Base
  PROVE  /\ Lands(PathOf(open), open, Len(open))
         /\ Follows(PathOf(open), PathOf(open))
         /\ \A k \in DOMAIN open :
              open[k].kind = "then" => open[k].id \notin Arms(PathOf(open), "else")
<1>1. Plain(open) /\ "else" \in ArmKinds /\ "then" \in ArmKinds
  BY PlainOpen DEF ArmKinds
<1>2. PathOf(open)[1] = UnitOf(open) /\ DOMAIN open = 1 .. Len(open)
  BY <1>1, PathFacts, StackFacts DEF Plain
<1>3. /\ Arms(PathOf(open), "else") = {open[k].id : k \in {j \in DOMAIN open : open[j].kind = "else"}}
      /\ Arms(PathOf(open), "then") = {open[k].id : k \in {j \in DOMAIN open : open[j].kind = "then"}}
  BY <1>1, ArmsOf
<1>4. \A j, k \in DOMAIN open : open[j].kind = "then" /\ open[k].kind = "else" => open[j].id # open[k].id
  BY Parsing DEF StackInv
<1>5. Lands(PathOf(open), open, Len(open))
  BY <1>2, <1>3, <1>4 DEF Lands
<1> QED
  BY <1>1, <1>3, <1>4, <1>5, FollowsPath

LEMMA LandsOn ==
  ASSUME NEW s, NEW t, NEW k \in Nat, \A j \in 1 .. k : s[j] = t[j], UnitOf(s) = UnitOf(t), NEW p,
         Lands(p, s, k)
  PROVE  Lands(p, t, k)
  BY DEF Lands

LEMMA LandsUpTo ==
  ASSUME NEW s, NEW k \in Nat, NEW j \in 0 .. k, NEW p, Lands(p, s, k)
  PROVE  Lands(p, s, j)
<1>1. \A i \in 1 .. j : i \in 1 .. k
  OBVIOUS
<1> QED
  BY <1>1 DEF Lands

-----------------------------------------------------------------------------
(* Emitting.  The code of the function being compiled, up to where the     *)
(* next instruction goes: what falls off its end does so as E says.        *)
Ready(c, P, E) ==
  /\ IsCode(c) /\ Lo <= Len(c)
  /\ Region(c, Lo, Len(c), E, P, Len(funcs), EntryDepth, UnitOf(open))

At(d) == {Exit(d, PathOf(open))}

LEMMA Frame ==
  ASSUME Base, phase = "parse"
  PROVE  /\ Lo \in Nat /\ Len(funcs) \in Nat
         /\ PathOf(open) \in Path /\ Follows(PathOf(open), PathOf(open))
         /\ PathOf(open)[1] = UnitOf(open)
<1>1. Lo \in Nat
  BY LoType
<1>2. Len(funcs) \in Nat
  BY TypedFacts
<1>3. PathOf(open)[1] = UnitOf(open)
  BY PlainOpen, PathFacts DEF Plain
<1> QED
  BY <1>1, <1>2, <1>3, Parsing, OwnPath

LEMMA CellIs ==
  ASSUME NEW b, NEW d
  PROVE  Cell(b, d).b = b /\ Cell(b, d).at = d /\ Cell(b, d).path = PathOf(open)
  BY DEF Cell

LEMMA ReadyIs ==
  ASSUME NEW c, NEW P, NEW E, Ready(c, P, E)
  PROVE  /\ IsCode(c) /\ Len(c) \in Nat /\ Cells(c, Len(c)) /\ Lo <= Len(c)
         /\ Region(c, Lo, Len(c), E, P, Len(funcs), EntryDepth, UnitOf(open))
<1>1. IsCode(c) /\ Len(c) \in Nat
  BY CodeFacts DEF Ready
<1>2. Cells(c, Len(c))
  BY <1>1, CellsOf
<1> QED
  BY <1>1, <1>2 DEF Ready

(* e is c with instruction ins, of z bytes, behind it. *)
IsEmitted(e, c, d, ins, z) ==
  /\ IsCode(e) /\ Len(c) \in Nat /\ Len(e) = Len(c) + z /\ Begins(c, e)
  /\ e[Len(c) + 1].b = ins[1] /\ e[Len(c) + 1].at = d /\ e[Len(c) + 1].path = PathOf(open)
  /\ \A i \in 2 .. z : e[Len(c) + i].b = ins[i] /\ e[Len(c) + i].at = Operand

(* One more instruction, and what is left to say of it. *)
LEMMA Emits1 ==
  ASSUME Base, phase = "parse", NEW c, NEW P, NEW E, Ready(c, P, E), NEW d \in Nat, E \subseteq At(d),
         NEW ins, IsBytes(ins), NEW z \in 1 .. 3, Len(ins) = z, NEW e, e = Emit(c, d, ins),
         NEW E2, NEW P2, P \subseteq P2
  PROVE  /\ IsEmitted(e, c, d, ins, z)
         /\ Leads(e, Lo, Len(e), E2, P2, Len(funcs), Len(c) + 1) => Ready(e, P2, E2)
<1>1. /\ IsCode(c) /\ Len(c) \in Nat /\ Cells(c, Len(c)) /\ Lo <= Len(c)
      /\ Region(c, Lo, Len(c), E, P, Len(funcs), EntryDepth, UnitOf(open))
  BY ReadyIs
<1>2. Lo \in Nat /\ Len(funcs) \in Nat /\ PathOf(open) \in Path
  BY Frame
<1>3. IsCode(e) /\ Len(e) = Len(c) + Len(ins) /\ Begins(c, e) /\ EmittedCells(c, d, ins, e)
  BY ONLY <1>1, <1>2, Emitted, d \in Nat, IsBytes(ins), e = Emit(c, d, ins)
<1>4. Len(e) = Len(c) + z /\ Len(e) \in Nat /\ Len(c) < Len(e)
  BY <1>1, <1>3
<1>5. \A i \in 1 .. z : e[Len(c) + i] = Cell(ins[i], IF i = 1 THEN d ELSE Operand)
  BY <1>3 DEF EmittedCells
<1>6. e[Len(c) + 1] = Cell(ins[1], d)
  BY <1>5
<1>7. \A i \in 2 .. z : e[Len(c) + i] = Cell(ins[i], Operand)
  BY <1>5
<1>8. /\ e[Len(c) + 1].b = ins[1] /\ e[Len(c) + 1].at = d /\ e[Len(c) + 1].path = PathOf(open)
      /\ \A i \in 2 .. z : e[Len(c) + i].b = ins[i] /\ e[Len(c) + i].at = Operand
  BY <1>6, <1>7, CellIs, SMTT(30)
<1>9. ASSUME Leads(e, Lo, Len(e), E2, P2, Len(funcs), Len(c) + 1)
      PROVE  Ready(e, P2, E2)
  <2>1. \A i \in Lo + 1 .. Len(c) : e[i] = c[i]
    BY <1>1, <1>2, <1>3 DEF Begins
  <2>2. \A x \in E : x.d = e[Len(c) + 1].at /\ x.path = e[Len(c) + 1].path
    BY <1>8 DEF At, Exit
  <2>3. ASSUME NEW i \in Len(c) + 1 .. Len(e), e[i].at # Operand
        PROVE  Leads(e, Lo, Len(e), E2, P2, Len(funcs), i)
    <3>1. i - Len(c) \in 1 .. z /\ Len(c) + (i - Len(c)) = i
      BY <1>1, <1>4
    <3>2. i - Len(c) \notin 2 .. z
      BY <1>8, <2>3, <3>1
    <3>3. i = Len(c) + 1
      BY <1>1, <3>1, <3>2
    <3> QED
      BY <1>9, <3>3
  <2>4. Region(e, Lo, Len(e), E2, P2, Len(funcs), EntryDepth, UnitOf(open))
    <3>1. Lo \in Nat /\ Len(c) \in Nat /\ Len(e) \in Nat /\ Len(funcs) \in Nat
      BY ONLY <1>1, <1>2, <1>4
    <3>2. Cells(c, Len(c)) /\ Lo <= Len(c) /\ Len(c) < Len(e)
      BY ONLY <1>1, <1>4
    <3>3. Region(c, Lo, Len(c), E, P, Len(funcs), EntryDepth, UnitOf(open))
      BY ONLY <1>1
    <3>4. \A i \in Len(c) + 1 .. Len(e) :
             e[i].at # Operand => Leads(e, Lo, Len(e), E2, P2, Len(funcs), i)
      BY ONLY <2>3
    <3> QED
      BY ONLY <2>1, <2>2, <3>1, <3>2, <3>3, <3>4, RegionExtended, P \subseteq P2, SMTT(30)
  <2>5. Lo <= Len(e)
    BY <1>1, <1>2, <1>4
  <2> QED
    BY <1>3, <2>4, <2>5 DEF Ready
<1> QED
  BY <1>1, <1>3, <1>4, <1>8, <1>9 DEF IsEmitted

LEMMA EffectIs ==
  /\ Effect(OP_INT_U8) = 1 /\ Effect(OP_GET_GLOBAL) = 1 /\ Effect(OP_OVER) = 1
  /\ Effect(OP_SET_GLOBAL) = -1 /\ Effect(OP_DEFINE_GLOBAL) = -1
  /\ Effect(OP_POP) = -1 /\ Effect(OP_LT) = -1
  /\ Effect(OP_SWAP) = 0 /\ Effect(OP_INC) = 0
  /\ {OP_INT_U8, OP_GET_GLOBAL, OP_SET_GLOBAL, OP_DEFINE_GLOBAL} \subseteq Wide \cap Straight
  /\ {OP_OVER, OP_POP, OP_LT, OP_SWAP, OP_INC} \subseteq Narrow \cap Straight
  BY DEF Effect, Wide, Narrow, Straight, OP_INT_U8, OP_POP, OP_SWAP, OP_OVER, OP_GET_GLOBAL,
         OP_SET_GLOBAL, OP_DEFINE_GLOBAL, OP_INC, OP_LT

(* What is behind the end is met by what falls there. *)
LEMMA MeetsEnd ==
  ASSUME Base, phase = "parse", NEW c, NEW h \in Nat, NEW d \in Nat
  PROVE  Meets(c, Lo, h, At(d), h + 1, d, PathOf(open))
  BY Frame DEF Meets, At, Exit

LEMMA EmitsStraight ==
  ASSUME Base, phase = "parse", NEW c, NEW P, NEW d \in Nat, NEW E, E \subseteq At(d), Ready(c, P, E),
         NEW ins, IsBytes(ins), ins[1] \in Straight, Len(ins) = Size(ins[1]),
         NEW d2 \in Nat, d2 = d + Effect(ins[1]), NEW e, e = Emit(c, d, ins)
  PROVE  Ready(e, P, At(d2)) /\ IsEmitted(e, c, d, ins, Size(ins[1]))
<1> DEFINE z == Size(ins[1])
           i == Len(c) + 1
           b == ins[1]
<1>1. z \in 1 .. 3 /\ Len(ins) = z
  BY Codes
<1>2. /\ IsEmitted(e, c, d, ins, z)
      /\ Leads(e, Lo, Len(e), At(d2), P, Len(funcs), i) => Ready(e, P, At(d2))
  <2>1. P \subseteq P
    OBVIOUS
  <2> HIDE DEF z
  <2> QED
    BY <1>1, <2>1, Emits1, Zenon
<1>3. b \in Straight /\ b \notin Forward /\ b # OP_LOOP /\ b # OP_CALL /\ Size(b) = z
  BY Codes
<1>4. NearDepth(e, i) = d2
  BY <1>2, <1>3 DEF NearDepth, IsEmitted
<1> HIDE DEF z, b
<1>5. Len(e) \in Nat /\ i + z = Len(e) + 1 /\ i + z - 1 <= Len(e) /\ Len(c) \in Nat
  BY <1>1, <1>2 DEF IsEmitted
<1>6. \A m \in i + 1 .. i + z - 1 : e[m].at = Operand
  <2> SUFFICES ASSUME NEW m \in i + 1 .. i + z - 1 PROVE e[m].at = Operand
    OBVIOUS
  <2>1. m - Len(c) \in 2 .. z /\ Len(c) + (m - Len(c)) = m
    BY <1>1, <1>5
  <2> QED
    BY <1>2, <2>1 DEF IsEmitted
<1>7. Meets(e, Lo, Len(e), At(d2), i + z, NearDepth(e, i), e[i].path)
  BY <1>2, <1>4, <1>5, MeetsEnd DEF IsEmitted
<1>8. e[i].b = b
  BY <1>2 DEF IsEmitted, b
<1> HIDE DEF i
<1>9. Leads(e, Lo, Len(e), At(d2), P, Len(funcs), i)
  BY ONLY <1>3, <1>5, <1>6, <1>7, <1>8 DEF Leads
<1> QED
  BY <1>2, <1>9 DEF z

LEMMA EmitsEnd ==
  ASSUME Base, phase = "parse", NEW c, NEW P, NEW d \in Nat, NEW E, E \subseteq At(d), Ready(c, P, E),
         NEW op \in Ending, op \in Byte, NEW e, e = Emit(c, d, <<op>>)
  PROVE  Ready(e, P, {}) /\ IsEmitted(e, c, d, <<op>>, 1)
<1> DEFINE ins == <<op>>
           i == Len(c) + 1
<1>1. IsBytes(ins) /\ Len(ins) = 1 /\ ins[1] = op /\ 1 \in 1 .. 3
  BY OneByte
<1>2. e = Emit(c, d, ins) /\ P \subseteq P
  OBVIOUS
<1> HIDE DEF ins
<1>3. /\ IsEmitted(e, c, d, ins, 1)
      /\ Leads(e, Lo, Len(e), {}, P, Len(funcs), i) => Ready(e, P, {})
  BY <1>1, <1>2, Emits1, Zenon
<1>4. /\ op \notin Falls /\ op \notin Forward /\ op # OP_LOOP /\ op # OP_CALL
      /\ Size(op) = 1
  BY Codes
<1>5. e[i].b = op /\ i \in Nat /\ i = Len(e)
  BY <1>1, <1>3 DEF IsEmitted
<1> HIDE DEF i
<1>6. i + 1 - 1 = i
  BY <1>5
<1>7. \A m \in i + 1 .. i : FALSE
  BY <1>5
<1>8. Leads(e, Lo, Len(e), {}, P, Len(funcs), i)
  BY ONLY <1>4, <1>5, <1>6, <1>7 DEF Leads
<1> QED
  BY <1>3, <1>8 DEF ins

(* The cells of an instruction with a 16-bit operand or two operands. *)
Three(e, d, ins, i) ==
  /\ i \in Nat /\ Len(e) \in Nat /\ i + 3 = Len(e) + 1
  /\ e[i].b = ins[1] /\ e[i].at = d /\ e[i].path = PathOf(open)
  /\ e[i + 1].b = ins[2] /\ e[i + 2].b = ins[3]
  /\ \A m \in i + 1 .. i + 2 : e[m].at = Operand
  /\ WordOf(e, i + 1) = ins[2] + 256 * ins[3]

LEMMA Emitted3 ==
  ASSUME NEW e, NEW c, NEW d, NEW ins, IsEmitted(e, c, d, ins, 3), NEW i, i = Len(c) + 1
  PROVE  Three(e, d, ins, i)
<1>1. i \in Nat /\ Len(e) \in Nat /\ i + 3 = Len(e) + 1 /\ Len(c) \in Nat
  BY CodeFacts DEF IsEmitted
<1>2. e[i].b = ins[1] /\ e[i].at = d /\ e[i].path = PathOf(open)
  BY DEF IsEmitted
<1>3. \A k \in 2 .. 3 : e[Len(c) + k].b = ins[k] /\ e[Len(c) + k].at = Operand
  BY DEF IsEmitted
<1>4. i + 1 = Len(c) + 2 /\ i + 2 = Len(c) + 3 /\ (i + 1) + 1 = i + 2
  BY <1>1
<1>5. e[i + 1].b = ins[2] /\ e[i + 2].b = ins[3] /\ e[i + 1].at = Operand /\ e[i + 2].at = Operand
  BY <1>3, <1>4
<1>6. \A m \in i + 1 .. i + 2 : m = i + 1 \/ m = i + 2
  BY <1>1
<1>7. WordOf(e, i + 1) = ins[2] + 256 * ins[3]
  BY <1>4, <1>5 DEF WordOf
<1> QED
  BY <1>1, <1>2, <1>5, <1>6, <1>7 DEF Three

LEMMA LeadsTriple ==
  ASSUME NEW e, NEW lo, NEW hi, NEW E, NEW P, NEW n, NEW i \in Nat, Size(e[i].b) = 3,
         i + 3 = hi + 1, hi \in Nat,
         \A m \in i + 1 .. i + 2 : e[m].at = Operand,
         e[i].b \in Falls => Meets(e, lo, hi, E, i + 3, NearDepth(e, i), e[i].path),
         e[i].b \in Forward =>
           i + 1 \in P \/ Meets(e, lo, hi, E, i + 3 + WordOf(e, i + 1), FarDepth(e, i), e[i].path),
         e[i].b = OP_LOOP =>
           Meets(e, lo, hi, E, i + 3 - WordOf(e, i + 1), e[i].at, e[i].path),
         e[i].b = OP_CALL => e[i + 1].b \in 1 .. n
  PROVE  Leads(e, lo, hi, E, P, n, i)
<1>1. i + 3 - 1 <= hi /\ i + 3 - 1 = i + 2
  OBVIOUS
<1> QED
  BY <1>1 DEF Leads

(* The depth at which a jump's other way goes on. *)
Ahead(op, d) == IF op = OP_JUMP_IF_FALSE THEN d - 1 ELSE d
Beyond(op, d) == d - (IF op = OP_JUMP THEN 0 ELSE 1)

(* e is c with a jump behind it that is still to be patched. *)
JumpsOn(e, c, P, d, op) ==
  /\ Ready(e, P \cup {Len(c) + 2}, IF op = OP_JUMP THEN {} ELSE At(Ahead(op, d)))
  /\ Site(e, Len(c) + 2, Beyond(op, d))
  /\ e[Len(c) + 1].path = PathOf(open)
  /\ IsEmitted(e, c, d, Placeholder(op), 3)

LEMMA EmitsForward ==
  ASSUME Base, phase = "parse", NEW c, NEW P, NEW d \in Nat, NEW E, E \subseteq At(d), Ready(c, P, E),
         NEW op \in Forward, op \in Byte, Ahead(op, d) \in Nat,
         NEW e, e = Emit(c, d, Placeholder(op))
  PROVE  JumpsOn(e, c, P, d, op)
<1> DEFINE ins == Placeholder(op)
           i == Len(c) + 1
           E2 == IF op = OP_JUMP THEN {} ELSE At(Ahead(op, d))
           P2 == P \cup {Len(c) + 2}
<1>1. IsBytes(ins) /\ Len(ins) = 3 /\ 3 \in 1 .. 3
  BY PlaceholderBytes
<1>2. ins[1] = op /\ e = Emit(c, d, ins) /\ P \subseteq P2
  BY DEF Placeholder
<1>3. i = Len(c) + 1 /\ P2 = P \cup {Len(c) + 2} /\ E2 = IF op = OP_JUMP THEN {} ELSE At(Ahead(op, d))
  OBVIOUS
<1> HIDE DEF ins, E2, P2
<1>4. /\ IsEmitted(e, c, d, ins, 3)
      /\ Leads(e, Lo, Len(e), E2, P2, Len(funcs), i) => Ready(e, P2, E2)
  BY <1>1, <1>2, Emits1, Zenon
<1> HIDE DEF i
<1>5. /\ i \in Nat /\ Len(e) \in Nat /\ i + 3 = Len(e) + 1
      /\ e[i].b = op /\ e[i].at = d /\ e[i].path = PathOf(open)
      /\ \A m \in i + 1 .. i + 2 : e[m].at = Operand
  <2>1. IsEmitted(e, c, d, ins, 3) /\ i = Len(c) + 1
    BY <1>3, <1>4
  <2>2. Three(e, d, ins, i)
    BY ONLY <2>1, Emitted3
  <2> QED
    BY <1>2, <2>2 DEF Three
<1>6. op \notin Straight /\ op # OP_LOOP /\ op # OP_CALL /\ Size(op) = 3
  BY Codes
<1>7. op \in Falls => op # OP_JUMP
  BY DEF Falls, Straight, Wide, Narrow, OP_JUMP, OP_JUMP_IF_FALSE, OP_IF_LET, OP_CALL, OP_INT_U8,
         OP_POP, OP_SWAP, OP_OVER, OP_GET_GLOBAL, OP_SET_GLOBAL, OP_DEFINE_GLOBAL, OP_INC, OP_LT
<1>8. NearDepth(e, i) = Ahead(op, d)
  BY <1>5, <1>6 DEF NearDepth, Ahead
<1>9. op # OP_JUMP => Meets(e, Lo, Len(e), E2, i + 3, NearDepth(e, i), e[i].path)
  BY <1>3, <1>5, <1>8, MeetsEnd
<1>10. Len(c) + 2 = i + 1 /\ i + 1 \in P2 /\ (i + 1) - 1 = i
  <2>1. Len(c) \in Nat
    BY <1>4 DEF IsEmitted
  <2> QED
    BY <1>3, <2>1
<1>11. Leads(e, Lo, Len(e), E2, P2, Len(funcs), i)
  BY <1>5, <1>6, <1>7, <1>9, <1>10, LeadsTriple
<1>12. Site(e, i + 1, Beyond(op, d))
  BY <1>5, <1>10 DEF Site, FarDepth, Beyond, Operand
<1> QED
  BY <1>3, <1>4, <1>5, <1>10, <1>11, <1>12 DEF ins, JumpsOn

LEMMA EmitsLoop ==
  ASSUME Base, phase = "parse", NEW c, NEW P, NEW d \in Nat, NEW E, E \subseteq At(d), Ready(c, P, E),
         NEW start \in Nat, start \in Lo + 1 .. Len(c), (Len(c) + 1) + 3 - start < 65536,
         c[start].at = d, Follows(PathOf(open), c[start].path),
         NEW e, e = Emit(c, d, BackJump(Here(c), start))
  PROVE  Ready(e, P, {}) /\ IsEmitted(e, c, d, BackJump(Here(c), start), 3)
<1> DEFINE ins == BackJump(Here(c), start)
           i == Len(c) + 1
           off == (Len(c) + 1) + 3 - start
<1>0. Len(c) \in Nat /\ Lo \in Nat
  BY ReadyIs, Frame
<1>1. IsBytes(ins) /\ Len(ins) = 3 /\ 3 \in 1 .. 3
  <2>1. Here(c) \in Nat /\ start <= Here(c) /\ Here(c) + 3 - start < 65536
    BY <1>0 DEF Here
  <2> QED
    BY <2>1, BackJumpBytes
<1>2. /\ ins[1] = OP_LOOP /\ ins[2] = off % 256 /\ ins[3] = off \div 256
      /\ e = Emit(c, d, ins) /\ P \subseteq P
  BY DEF BackJump, Here
<1>3. i = Len(c) + 1 /\ off \in Nat /\ i + 3 - off = start
  BY <1>0
<1> HIDE DEF ins, off
<1>4. /\ IsEmitted(e, c, d, ins, 3)
      /\ Leads(e, Lo, Len(e), {}, P, Len(funcs), i) => Ready(e, P, {})
  <2>1. e = Emit(c, d, ins)
    BY <1>2
  <2> QED
    BY ONLY <1>1, <1>2, <2>1, Emits1, Base, phase = "parse", Ready(c, P, E), d \in Nat,
            E \subseteq At(d), Zenon
<1> HIDE DEF i
<1>5. /\ i \in Nat /\ Len(e) \in Nat /\ i + 3 = Len(e) + 1
      /\ e[i].b = OP_LOOP /\ e[i].at = d /\ e[i].path = PathOf(open)
      /\ \A m \in i + 1 .. i + 2 : e[m].at = Operand
      /\ WordOf(e, i + 1) = ins[2] + 256 * ins[3]
  <2>1. IsEmitted(e, c, d, ins, 3) /\ i = Len(c) + 1
    BY <1>3, <1>4
  <2>2. Three(e, d, ins, i)
    BY ONLY <2>1, Emitted3
  <2> QED
    BY <1>2, <2>2 DEF Three
<1>6. WordOf(e, i + 1) = off
  <2>1. off \in Nat
    BY ONLY <1>3
  <2>2. (off % 256) + 256 * (off \div 256) = off
    BY ONLY <2>1, Bytes16
  <2> QED
    BY ONLY <1>2, <1>5, <2>2
<1>7. e[start] = c[start]
  <2>0. IsEmitted(e, c, d, ins, 3)
    BY <1>4
  <2>1. Begins(c, e)
    BY ONLY <2>0 DEF IsEmitted
  <2>2. start \in 1 .. Len(c)
    BY <1>0
  <2>3. PICK h : h = start
    OBVIOUS
  <2>4. h \in 1 .. Len(c)
    BY ONLY <2>2, <2>3
  <2>5. e[h] = c[h]
    BY ONLY <2>1, <2>4 DEF Begins
  <2> QED
    BY ONLY <2>3, <2>5
<1>8. start \in Lo + 1 .. Len(e)
  BY <1>0, <1>3, <1>5
<1>9. Meets(e, Lo, Len(e), {}, i + 3 - WordOf(e, i + 1), e[i].at, e[i].path)
  <2>1. i + 3 - WordOf(e, i + 1) = start
    BY ONLY <1>3, <1>6
  <2>2. e[start].at = d /\ Follows(PathOf(open), e[start].path)
    BY <1>7
  <2> QED
    BY ONLY <1>5, <1>8, <2>1, <2>2, d \in Nat DEF Meets
<1>10. /\ OP_LOOP \notin Falls /\ OP_LOOP \notin Forward /\ OP_LOOP # OP_CALL
       /\ Size(OP_LOOP) = 3
  BY Codes
<1>11. Leads(e, Lo, Len(e), {}, P, Len(funcs), i)
  <2>1. i \in Nat /\ Len(e) \in Nat
    BY ONLY <1>5
  <2>2. i + 3 = Len(e) + 1
    BY ONLY <1>5
  <2>3. Size(e[i].b) = 3
    BY ONLY <1>5, <1>10
  <2>4. \A m \in i + 1 .. i + 2 : e[m].at = Operand
    BY ONLY <1>5
  <2>5. e[i].b \notin Falls /\ e[i].b \notin Forward /\ e[i].b # OP_CALL
    BY ONLY <1>5, <1>10
  <2> QED
    BY ONLY <1>9, <2>1, <2>2, <2>3, <2>4, <2>5, LeadsTriple
<1> QED
  BY <1>4, <1>11 DEF ins

LEMMA EmitsCall ==
  ASSUME Base, phase = "parse", NEW c, NEW P, NEW d \in Nat, NEW E, E \subseteq At(d), Ready(c, P, E),
         NEW f \in 1 .. Len(funcs), f \in Byte, NEW n \in Byte, NEW d2 \in Nat, d2 = d + 1 - n,
         NEW e, e = Emit(c, d, Call(f, n))
  PROVE  Ready(e, P, At(d2))
<1> DEFINE ins == Call(f, n)
           i == Len(c) + 1
<1>1. IsBytes(ins) /\ Len(ins) = 3 /\ 3 \in 1 .. 3
  BY CallBytes
<1>2. ins[1] = OP_CALL /\ ins[2] = f /\ ins[3] = n /\ e = Emit(c, d, ins) /\ P \subseteq P
  BY DEF Call
<1>3. i = Len(c) + 1
  OBVIOUS
<1> HIDE DEF ins
<1>4. /\ IsEmitted(e, c, d, ins, 3)
      /\ Leads(e, Lo, Len(e), At(d2), P, Len(funcs), i) => Ready(e, P, At(d2))
  BY <1>1, <1>2, Emits1, Zenon
<1> HIDE DEF i
<1>5. /\ i \in Nat /\ Len(e) \in Nat /\ i + 3 = Len(e) + 1
      /\ e[i].b = OP_CALL /\ e[i].at = d /\ e[i].path = PathOf(open)
      /\ e[i + 1].b = f /\ e[i + 2].b = n
      /\ \A m \in i + 1 .. i + 2 : e[m].at = Operand
  <2>1. IsEmitted(e, c, d, ins, 3) /\ i = Len(c) + 1
    BY <1>3, <1>4
  <2>2. Three(e, d, ins, i)
    BY ONLY <2>1, Emitted3
  <2> QED
    BY <1>2, <2>2 DEF Three
<1>6. OP_CALL \notin Forward /\ OP_CALL \notin Straight /\ OP_CALL # OP_LOOP /\ Size(OP_CALL) = 3
  BY Codes DEF OP_CALL, OP_LOOP
<1>7. NearDepth(e, i) = d2
  <2>1. OP_CALL # OP_JUMP_IF_FALSE
    BY DEF OP_CALL, OP_JUMP_IF_FALSE
  <2>2. NearDepth(e, i) = d + (1 - n)
    BY <1>5, <1>6, <2>1 DEF NearDepth
  <2>3. n \in Nat
    BY DEF Byte
  <2> QED
    BY <2>2, <2>3
<1>8. Meets(e, Lo, Len(e), At(d2), i + 3, NearDepth(e, i), e[i].path)
  BY <1>5, <1>7, MeetsEnd
<1>9. Leads(e, Lo, Len(e), At(d2), P, Len(funcs), i)
  BY <1>5, <1>6, <1>8, LeadsTriple
<1> QED
  BY <1>4, <1>9

LEMMA ReadyMore ==
  ASSUME Base, phase = "parse", NEW c, NEW P, NEW E, Ready(c, P, E), NEW P2, P \subseteq P2,
         NEW E2, E \subseteq E2
  PROVE  Ready(c, P2, E2)
<1>1. /\ IsCode(c) /\ Len(c) \in Nat /\ Cells(c, Len(c)) /\ Lo <= Len(c)
      /\ Region(c, Lo, Len(c), E, P, Len(funcs), EntryDepth, UnitOf(open))
  BY ReadyIs
<1>2. Lo \in Nat /\ Len(funcs) \in Nat /\ Len(funcs) <= Len(funcs) /\ Widens(E, E2)
  BY Frame, Narrower
<1>3. \A i \in Lo + 1 .. Len(c) : c[i] = c[i]
  OBVIOUS
<1>4. Region(c, Lo, Len(c), E2, P2, Len(funcs), EntryDepth, UnitOf(open))
  BY ONLY <1>1, <1>2, <1>3, RegionFramed, P \subseteq P2
<1> QED
  BY <1>1, <1>4 DEF Ready

(* A run of cells behind c. *)
LEMMA ReadyExtended ==
  ASSUME Base, phase = "parse", NEW c, NEW P, NEW E, Ready(c, P, E),
         NEW e, IsCode(e), Begins(c, e), Len(c) < Len(e), NEW E2,
         E \subseteq {Exit(e[Len(c) + 1].at, e[Len(c) + 1].path)},
         \A i \in Len(c) + 1 .. Len(e) :
           e[i].at # Operand => Leads(e, Lo, Len(e), E2, P, Len(funcs), i)
  PROVE  Ready(e, P, E2)
<1>1. /\ IsCode(c) /\ Len(c) \in Nat /\ Cells(c, Len(c)) /\ Lo <= Len(c)
      /\ Region(c, Lo, Len(c), E, P, Len(funcs), EntryDepth, UnitOf(open))
  BY ReadyIs
<1>2. Lo \in Nat /\ Len(funcs) \in Nat /\ Len(e) \in Nat
  BY Frame, CodeFacts
<1>3. \A i \in Lo + 1 .. Len(c) : e[i] = c[i]
  BY <1>1, <1>2 DEF Begins
<1>4. \A x \in E : x.d = e[Len(c) + 1].at /\ x.path = e[Len(c) + 1].path
  BY DEF Exit
<1>5. Region(e, Lo, Len(e), E2, P, Len(funcs), EntryDepth, UnitOf(open))
  <2>1. P \subseteq P
    OBVIOUS
  <2> QED
    BY ONLY <1>1, <1>2, <1>3, <1>4, <2>1, RegionExtended, Len(c) < Len(e),
       \A i \in Len(c) + 1 .. Len(e) :
           e[i].at # Operand => Leads(e, Lo, Len(e), E2, P, Len(funcs), i)
<1> QED
  BY <1>1, <1>2, <1>5 DEF Ready

(* Straight code within a region or at its end. *)
LEMMA LeadsStraight ==
  ASSUME NEW e, NEW lo, NEW hi \in Nat, NEW E, NEW P, NEW n, NEW i \in Nat, NEW b \in Straight, e[i].b = b,
         NEW z \in Nat, z = Size(b), i + z - 1 <= hi,
         \A m \in i + 1 .. i + z - 1 : e[m].at = Operand,
         NEW d, d = e[i].at + Effect(b), Meets(e, lo, hi, E, i + z, d, e[i].path)
  PROVE  Leads(e, lo, hi, E, P, n, i)
<1>1. b \notin Forward /\ b # OP_LOOP /\ b # OP_CALL
  BY Codes
<1>2. NearDepth(e, i) = d
  BY DEF NearDepth
<1> QED
  BY <1>1, <1>2 DEF Leads

LEMMA PopsReady ==
  ASSUME Base, phase = "parse", open # <<>>, NEW c, NEW P, NEW E, E \subseteq At(Depth), Ready(c, P, E),
         NEW e, e = LeaveBlock(c)
  PROVE  Ready(e, P, At(DepthLeft))
<1>0. PICK n : n = locals - Innermost.base
  OBVIOUS
<1>1. IsCode(c) /\ Len(c) \in Nat /\ Lo <= Len(c)
  BY ReadyIs
<1>2. IsStack(open) /\ StackInv /\ locals \in Nat /\ Depth \in Nat
  BY Parsing
<1>3. /\ IsCode(e) /\ Begins(c, e) /\ n \in Nat /\ Len(e) = Len(c) + n
      /\ PopsBehind(e, c, n)
  BY ONLY <1>0, <1>1, <1>2, BlockLeft, open # <<>>, e = LeaveBlock(c)
<1>4. DepthLeft \in Nat /\ Depth = DepthLeft + n
  <2>1. DepthLeft = Level(Len(open)) /\ Depth = DepthLeft + (locals - Innermost.base)
    BY <1>2, Depths
  <2>4. DepthLeft = Level(Len(open)) /\ Depth = DepthLeft + n
    BY <1>0, <2>1
  <2>2. Len(open) \in DOMAIN open
    BY <1>2, StackFacts
  <2>3. Level(Len(open)) \in Nat
    BY <1>2, <2>2, Depths
  <2> QED
    BY <2>4, <2>3
<1>5. CASE n = 0
  <2>1. Depth = DepthLeft /\ Len(e) = Len(c)
    BY <1>1, <1>4, <1>5, <1>3
  <2>2. Region(c, Lo, Len(c), E, P, Len(funcs), EntryDepth, UnitOf(open)) /\ Cells(c, Len(c))
    BY ReadyIs
  <2>3. Lo \in Nat /\ Len(funcs) \in Nat /\ Len(funcs) <= Len(funcs) /\ Widens(E, At(Depth))
    BY Frame, Narrower
  <2>4. (\A i \in Lo + 1 .. Len(c) : e[i] = c[i]) /\ P \subseteq P
    BY <1>3, <2>3 DEF Begins
  <2>5. Region(e, Lo, Len(c), At(Depth), P, Len(funcs), EntryDepth, UnitOf(open))
    BY ONLY <1>1, <2>2, <2>3, <2>4, RegionFramed
  <2> QED
    BY <1>1, <1>3, <2>1, <2>5 DEF Ready
<1>6. CASE n > 0
  <2>1. ASSUME NEW i \in 1 .. n
        PROVE  /\ e[Len(c) + i].b = OP_POP /\ e[Len(c) + i].at = Depth - i + 1
               /\ e[Len(c) + i].path = PathOf(open)
    <3>1. e[Len(c) + i] = Cell(OP_POP, Depth - i + 1)
      BY <1>3 DEF PopsBehind
    <3> QED
      BY ONLY <3>1, CellIs
  <2>2. OP_POP \in Straight /\ Size(OP_POP) = 1 /\ Effect(OP_POP) = -1
    BY EffectIs, Codes
  <2>3. ASSUME NEW i \in Len(c) + 1 .. Len(e)
        PROVE  Leads(e, Lo, Len(e), At(DepthLeft), P, Len(funcs), i)
    <3> DEFINE k == i - Len(c)
               dk == Depth - k
    <3>1. k \in 1 .. n /\ Len(c) + k = i /\ i \in Nat /\ Len(e) \in Nat /\ dk \in Nat
      BY <1>1, <1>3, <1>4
    <3>2. e[i].b = OP_POP /\ e[i].at = Depth - k + 1 /\ e[i].path = PathOf(open)
      BY <2>1, <3>1
    <3>3. Meets(e, Lo, Len(e), At(DepthLeft), i + 1, dk, PathOf(open))
      <4>1. CASE k = n
        <5>1. i + 1 = Len(e) + 1 /\ dk = DepthLeft
          BY <1>3, <1>4, <3>1, <4>1, <1>1
        <5>2. Meets(e, Lo, Len(e), At(DepthLeft), Len(e) + 1, DepthLeft, PathOf(open))
          BY <1>4, <3>1, MeetsEnd
        <5> QED
          BY ONLY <5>1, <5>2
      <4>2. CASE k # n
        <5>1. k + 1 \in 1 .. n /\ Len(c) + (k + 1) = i + 1 /\ Depth - (k + 1) + 1 = dk
          BY <1>2, <1>3, <3>1, <4>2, <1>1
        <5>2. e[i + 1].at = dk /\ e[i + 1].path = PathOf(open)
          BY <2>1, <5>1
        <5>3. i + 1 \in Lo + 1 .. Len(e)
          BY <1>1, <1>3, <3>1, <5>1, Frame
        <5>4. Follows(PathOf(open), PathOf(open))
          BY Frame
        <5> HIDE DEF dk
        <5> QED
          BY ONLY <3>1, <5>2, <5>3, <5>4 DEF Meets
      <4> QED
        BY <4>1, <4>2
    <3>4. dk = e[i].at + Effect(OP_POP)
      BY <1>2, <2>2, <3>1, <3>2
    <3>5. i + 1 - 1 <= Len(e) /\ \A m \in i + 1 .. i + 1 - 1 : FALSE
      BY <3>1
    <3> HIDE DEF dk, k
    <3> QED
      BY ONLY <2>2, <3>1, <3>2, <3>3, <3>4, <3>5, LeadsStraight, SMTT(30)
  <2>4. Len(c) < Len(e)
    BY <1>1, <1>3, <1>6
  <2>5. E \subseteq {Exit(e[Len(c) + 1].at, e[Len(c) + 1].path)}
    <3>1. 1 \in 1 .. n /\ Depth - 1 + 1 = Depth
      BY <1>2, <1>3, <1>6
    <3>2. e[Len(c) + 1].at = Depth - 1 + 1 /\ e[Len(c) + 1].path = PathOf(open)
      BY <2>1, <3>1
    <3> QED
      BY <3>1, <3>2 DEF At
  <2> QED
    BY <1>3, <2>3, <2>4, <2>5, ReadyExtended
<1> QED
  BY <1>3, <1>5, <1>6

LEMMA Odd ==
  ASSUME NEW n \in Nat, NEW i \in 1 .. 2 * n, i % 2 = 1
  PROVE  /\ i \div 2 \in 0 .. n - 1 /\ i = 2 * (i \div 2) + 1
         /\ (i + 2) \div 2 = i \div 2 + 1 /\ (i + 1) % 2 = 0 /\ (i + 2) % 2 = 1
         /\ i + 1 <= 2 * n
  OBVIOUS

LEMMA ArgumentsReady ==
  ASSUME Base, phase = "parse", NEW c, NEW P, NEW E, E \subseteq At(Depth), Ready(c, P, E),
         NEW n \in Nat, NEW e, e = c \o Arguments(n)
  PROVE  Ready(e, P, At(Depth + n))
<1>1. IsCode(c) /\ Len(c) \in Nat /\ Lo <= Len(c)
  BY ReadyIs
<1>2. Depth \in Nat /\ PathOf(open) \in Path /\ Lo \in Nat
  BY Parsing, Frame
<1>3. IsCode(e) /\ Begins(c, e) /\ Len(e) = Len(c) + 2 * n /\ PushesBehind(e, c, n)
  BY ONLY <1>1, <1>2, ArgumentsPassed, e = c \o Arguments(n), n \in Nat
<1>4. CASE n = 0
  <2>1. Depth + n = Depth /\ Len(e) = Len(c)
    BY <1>1, <1>2, <1>4, <1>3
  <2>2. Region(c, Lo, Len(c), E, P, Len(funcs), EntryDepth, UnitOf(open)) /\ Cells(c, Len(c))
    BY ReadyIs
  <2>3. Lo \in Nat /\ Len(funcs) \in Nat /\ Len(funcs) <= Len(funcs) /\ Widens(E, At(Depth))
    BY Frame, Narrower
  <2>4. (\A i \in Lo + 1 .. Len(c) : e[i] = c[i]) /\ P \subseteq P
    BY <1>3, <2>3 DEF Begins
  <2>5. Region(e, Lo, Len(c), At(Depth), P, Len(funcs), EntryDepth, UnitOf(open))
    BY ONLY <1>1, <2>2, <2>3, <2>4, RegionFramed
  <2> QED
    BY <1>1, <1>3, <2>1, <2>5 DEF Ready
<1>5. CASE n > 0
  <2>1. PICK k \in Literals : \A i \in 1 .. 2 * n : e[Len(c) + i] =
           IF i % 2 = 1 THEN Cell(OP_INT_U8, Depth + i \div 2) ELSE Cell(k, Operand)
    BY <1>3 DEF PushesBehind
  <2>2. ASSUME NEW i \in 1 .. 2 * n, i % 2 = 1
        PROVE  /\ e[Len(c) + i].b = OP_INT_U8 /\ e[Len(c) + i].at = Depth + i \div 2
               /\ e[Len(c) + i].path = PathOf(open)
    <3>1. e[Len(c) + i] = Cell(OP_INT_U8, Depth + i \div 2)
      BY <2>1, <2>2
    <3> QED
      BY ONLY <3>1, CellIs
  <2>3. ASSUME NEW i \in 1 .. 2 * n, i % 2 # 1 PROVE e[Len(c) + i].at = Operand
    <3>1. e[Len(c) + i] = Cell(k, Operand)
      BY <2>1, <2>3
    <3> QED
      BY ONLY <3>1, CellIs
  <2>4. OP_INT_U8 \in Straight /\ Size(OP_INT_U8) = 2 /\ Effect(OP_INT_U8) = 1
    BY EffectIs, Codes
  <2>5. ASSUME NEW j \in Len(c) + 1 .. Len(e), e[j].at # Operand
        PROVE  Leads(e, Lo, Len(e), At(Depth + n), P, Len(funcs), j)
    <3>1. PICK i : i = j - Len(c)
      OBVIOUS
    <3>2. i \in 1 .. 2 * n /\ Len(c) + i = j /\ j \in Nat /\ Len(e) \in Nat
      BY <1>1, <1>3, <3>1
    <3>3. i % 2 = 1
      BY <2>3, <2>5, <3>2
    <3>4. /\ i \div 2 \in 0 .. n - 1 /\ i = 2 * (i \div 2) + 1
          /\ (i + 2) \div 2 = i \div 2 + 1 /\ (i + 1) % 2 = 0 /\ (i + 2) % 2 = 1
          /\ i + 1 <= 2 * n
      BY <3>2, <3>3, Odd
    <3>5. PICK m \in Nat : m = i \div 2 /\ i = 2 * m + 1 /\ m < n
      BY <3>4
    <3>11. i = 2 * m + 1 /\ m <= n - 1 /\ m \in Nat /\ n \in Nat
      BY <3>5
    <3>6. e[j].b = OP_INT_U8 /\ e[j].at = Depth + m /\ e[j].path = PathOf(open)
      BY <2>2, <3>2, <3>3, <3>5
    <3>7. PICK d \in Nat : d = Depth + m + 1
      BY <1>2, <3>5
    <3>8. Meets(e, Lo, Len(e), At(Depth + n), j + 2, d, PathOf(open))
      <4>1. CASE m = n - 1
        <5>1. j + 2 = Len(e) + 1 /\ d = Depth + n /\ Depth + n \in Nat
          <6>1. Len(e) = Len(c) + 2 * n /\ Len(c) \in Nat /\ Depth \in Nat /\ j = Len(c) + i
            BY <1>1, <1>2, <1>3, <3>2
          <6> QED
            BY ONLY <6>1, <3>7, <3>11, <4>1
        <5>2. Meets(e, Lo, Len(e), At(Depth + n), Len(e) + 1, Depth + n, PathOf(open))
          BY <3>2, <5>1, MeetsEnd
        <5> QED
          BY ONLY <5>1, <5>2
      <4>2. CASE m # n - 1
        <5>1. i + 2 \in 1 .. 2 * n /\ Len(c) + (i + 2) = j + 2
          <6>1. Len(c) \in Nat /\ j = Len(c) + i
            BY <1>1, <3>2
          <6> QED
            BY ONLY <6>1, <3>11, <4>2
        <5>2. e[Len(c) + (i + 2)].at = Depth + (i + 2) \div 2 /\ e[Len(c) + (i + 2)].path = PathOf(open)
          BY <2>2, <3>4, <5>1
        <5>3. Depth + (i + 2) \div 2 = d
          BY <1>2, <3>4, <3>5, <3>7
        <5>4. e[j + 2].at = d /\ e[j + 2].path = PathOf(open)
          BY ONLY <5>1, <5>2, <5>3
        <5>5. j + 2 \in Lo + 1 .. Len(e)
          BY <1>1, <1>2, <1>3, <3>2, <5>1
        <5>6. Follows(PathOf(open), PathOf(open))
          BY Frame
        <5> QED
          BY ONLY d \in Nat, <5>4, <5>5, <5>6 DEF Meets
      <4> QED
        BY <4>1, <4>2
    <3>9. d = e[j].at + Effect(OP_INT_U8)
      BY <1>2, <2>4, <3>5, <3>6, <3>7
    <3>10. j + 2 - 1 <= Len(e) /\ \A l \in j + 1 .. j + 2 - 1 : e[l].at = Operand
      <4>1. i + 1 \in 1 .. 2 * n /\ Len(c) + (i + 1) = j + 1 /\ j + 2 - 1 = j + 1
        <5>1. Len(c) \in Nat /\ j = Len(c) + i
          BY <1>1, <3>2
        <5> QED
          BY ONLY <3>11, <5>1
      <4>2. (i + 1) % 2 # 1
        BY <3>4
      <4>3. e[j + 1].at = Operand
        <5>1. e[Len(c) + (i + 1)].at = Operand
          BY <2>3, <4>1, <4>2
        <5> QED
          BY ONLY <4>1, <5>1
      <4>4. j + 1 <= Len(e)
        BY <1>1, <1>3, <4>1, <3>2
      <4>5. \A l \in j + 1 .. j + 1 : l = j + 1
        BY <3>2
      <4> QED
        BY ONLY <4>1, <4>3, <4>4, <4>5
    <3> QED
      BY ONLY <2>4, <3>2, <3>6, <3>8, <3>9, <3>10, LeadsStraight
  <2>6. Len(c) < Len(e)
    BY <1>1, <1>3, <1>5
  <2>7. E \subseteq {Exit(e[Len(c) + 1].at, e[Len(c) + 1].path)}
    <3>1. 1 \in 1 .. 2 * n /\ 1 % 2 = 1 /\ 1 \div 2 = 0 /\ Depth + 0 = Depth
      BY <1>2, <1>5
    <3>2. e[Len(c) + 1].at = Depth /\ e[Len(c) + 1].path = PathOf(open)
      BY <2>2, <3>1
    <3> QED
      BY <3>1, <3>2 DEF At
  <2> QED
    BY <1>3, <2>5, <2>6, <2>7, ReadyExtended
<1> QED
  BY <1>4, <1>5
(* Instructions that move the stack by k. *)
Moves(ins, k) ==
  IsBytes(ins) /\ ins[1] \in Straight /\ Len(ins) = Size(ins[1]) /\ Effect(ins[1]) = k

LEMMA MovesOf ==
  /\ Moves(GetGlobal, 1) /\ Moves(SetGlobal, -1) /\ Moves(DefineGlobal, -1)
  /\ Moves(<<OP_POP>>, -1) /\ Moves(<<OP_SWAP>>, 0) /\ Moves(<<OP_OVER>>, 1)
  /\ Moves(<<OP_INC>>, 0) /\ Moves(<<OP_LT>>, -1)
  /\ \A k \in Byte : Moves(PushInt(k), 1)
<1>1. \A op \in {OP_OVER, OP_POP, OP_LT, OP_SWAP, OP_INC} :
        op \in Straight /\ op \in Byte /\ Size(op) = 1 /\ IsBytes(<<op>>) /\ Len(<<op>>) = 1
  <2> SUFFICES ASSUME NEW op \in {OP_OVER, OP_POP, OP_LT, OP_SWAP, OP_INC}
               PROVE  op \in Straight /\ op \in Byte /\ Size(op) = 1 /\ IsBytes(<<op>>) /\ Len(<<op>>) = 1
    OBVIOUS
  <2>1. op \in Narrow /\ op \in Straight
    BY EffectIs
  <2>2. op \in Byte
    BY Opcodes
  <2>3. IsBytes(<<op>>) /\ Len(<<op>>) = 1
    BY <2>2, OneByte, Zenon
  <2>4. Size(op) = 1
    BY <2>1, Codes, Zenon
  <2> QED
    BY <2>1, <2>2, <2>3, <2>4
<1>2. \A op \in {OP_INT_U8, OP_GET_GLOBAL, OP_SET_GLOBAL, OP_DEFINE_GLOBAL} :
        op \in Straight /\ Size(op) = 2
  BY EffectIs, Codes
<1>3. Moves(<<OP_POP>>, -1) /\ Moves(<<OP_SWAP>>, 0) /\ Moves(<<OP_OVER>>, 1)
      /\ Moves(<<OP_INC>>, 0) /\ Moves(<<OP_LT>>, -1)
  BY <1>1, EffectIs DEF Moves
<1>4. /\ GetGlobal[1] = OP_GET_GLOBAL /\ SetGlobal[1] = OP_SET_GLOBAL
      /\ DefineGlobal[1] = OP_DEFINE_GLOBAL
  BY DEF GetGlobal, SetGlobal, DefineGlobal
<1>5. Moves(GetGlobal, 1) /\ Moves(SetGlobal, -1) /\ Moves(DefineGlobal, -1)
  BY <1>2, <1>4, EffectIs, GlobalBytes DEF Moves
<1>6. ASSUME NEW k \in Byte PROVE Moves(PushInt(k), 1)
  <2>1. PushInt(k)[1] = OP_INT_U8
    BY DEF PushInt
  <2> QED
    BY <1>2, <2>1, EffectIs, PushIntBytes DEF Moves
<1> QED
  BY <1>3, <1>5, <1>6

(* e is c with an instruction behind it that leaves the stack d2 deep. *)
Moved(e, c, P, d, ins, d2) ==
  /\ Ready(e, P, At(d2)) /\ IsEmitted(e, c, d, ins, Len(ins)) /\ Len(e) = Len(c) + Len(ins)

LEMMA Goes ==
  ASSUME Base, phase = "parse", NEW c, NEW P, NEW E, Ready(c, P, E), NEW d \in Nat, E \subseteq At(d),
         NEW k \in Int, NEW ins, Moves(ins, k), NEW d2 \in Nat, d2 = d + k, NEW e, e = Emit(c, d, ins)
  PROVE  Moved(e, c, P, d, ins, d2)
<1>1. IsBytes(ins) /\ ins[1] \in Straight /\ Len(ins) = Size(ins[1]) /\ d2 = d + Effect(ins[1])
  BY DEF Moves
<1>2. Ready(e, P, At(d2)) /\ IsEmitted(e, c, d, ins, Len(ins))
  BY <1>1, EmitsStraight
<1>3. Len(e) = Len(c) + Len(ins)
  BY <1>2 DEF IsEmitted
<1> QED
  BY <1>2, <1>3 DEF Moved

(* Cells of instructions stay, whatever else is patched or added. *)
Keeps(c, e) ==
  Len(c) <= Len(e) /\ \A i \in 1 .. Len(c) : c[i].at # Operand => e[i] = c[i]

(* e is c with a condition and its jump behind it. *)
TestedOn(e, c, P, d, op) ==
  /\ Ready(e, P \cup {Len(c) + 4}, At(Ahead(op, d + 1)))
  /\ Site(e, Len(c) + 4, d) /\ e[Len(c) + 3].path = PathOf(open)
  /\ Len(e) = Len(c) + 5
  /\ e[Len(c) + 1].at = d /\ e[Len(c) + 1].path = PathOf(open)
  /\ e[Len(c) + 5].at = Operand

LEMMA TestReady ==
  ASSUME Base, phase = "parse", NEW c, NEW P, NEW d \in Nat, NEW E, E \subseteq At(d), Ready(c, P, E),
         NEW op \in {OP_JUMP_IF_FALSE, OP_IF_LET}, NEW e, e = Test(c, d, op)
  PROVE  TestedOn(e, c, P, d, op)
<1>0. PICK c1 : c1 = Emit(c, d, GetGlobal)
  OBVIOUS
<1>1. Moves(GetGlobal, 1) /\ IsBytes(GetGlobal) /\ Len(GetGlobal) = 2 /\ d + 1 \in Nat /\ 1 \in Int
  BY MovesOf, GlobalBytes
<1>e. PICK d1 : d1 = d + 1
  OBVIOUS
<1>2. Ready(c1, P, At(d1)) /\ Len(c1) = Len(c) + 2 /\ d1 \in Nat
  <2>1. d1 \in Nat /\ 1 \in Int
    BY <1>e
  <2>k. PICK k : k = 1
    OBVIOUS
  <2>3. Moves(GetGlobal, k)
    BY <1>1, <2>k
  <2>4. d1 \in Nat
    BY <2>1
  <2>5. k \in Int
    BY <2>k
  <2>6. d1 = d + k
    BY <1>e, <2>k
  <2>2. Moved(c1, c, P, d, GetGlobal, d1)
    BY ONLY <1>0, <2>3, <2>4, <2>5, <2>6, Goes, Base, phase = "parse", E \subseteq At(d), Ready(c, P, E), d \in Nat
  <2> QED
    BY <1>1, <2>1, <2>2 DEF Moved
<1>3. op \in Forward /\ op \in Byte /\ op # OP_JUMP
  BY Opcodes DEF Forward, OP_JUMP, OP_JUMP_IF_FALSE, OP_IF_LET
<1>4. Ahead(op, d1) \in Nat /\ Beyond(op, d1) = d
  BY <1>2, <1>3, <1>e DEF Ahead, Beyond
<1>5. e = Emit(c1, d1, Placeholder(op)) /\ At(d1) \subseteq At(d1)
  BY <1>0, <1>e DEF Test
<1>6. /\ Ready(e, P \cup {Len(c1) + 2}, IF op = OP_JUMP THEN {} ELSE At(Ahead(op, d1)))
      /\ Site(e, Len(c1) + 2, Beyond(op, d1))
      /\ e[Len(c1) + 1].path = PathOf(open)
      /\ IsEmitted(e, c1, d1, Placeholder(op), 3)
  <2>0. PICK E1 : E1 = At(d1)
    OBVIOUS
  <2>1. Ready(c1, P, E1)
    BY <1>2, <2>0
  <2>2. d1 \in Nat
    BY <1>2
  <2>3. op \in Forward
    BY <1>3
  <2>4. op \in Byte
    BY <1>3
  <2>5. Ahead(op, d1) \in Nat
    BY <1>4
  <2>6. e = Emit(c1, d1, Placeholder(op))
    BY <1>5
  <2>7. E1 \subseteq At(d1)
    BY <2>0
  <2>8. JumpsOn(e, c1, P, d1, op)
    BY ONLY <2>1, <2>2, <2>3, <2>4, <2>5, <2>6, <2>7, EmitsForward, Base, phase = "parse"
  <2> QED
    BY ONLY <2>8 DEF JumpsOn
<1>7. Len(c) \in Nat
  BY ReadyIs
<1>8. /\ Len(c1) + 2 = Len(c) + 4 /\ Len(c1) + 1 = Len(c) + 3 /\ Len(c1) + 3 = Len(c) + 5
      /\ 1 <= Len(c1) /\ Len(c) + 1 \in 1 .. Len(c1)
  BY <1>2, <1>7
<1>9. Len(e) = Len(c1) + 3 /\ Begins(c1, e) /\ e[Len(c1) + 3].at = Operand
  BY <1>6 DEF IsEmitted
<1>10. c1[Len(c) + 1] = Cell(GetGlobal[1], d)
  <2>1. IsCode(c) /\ PathOf(open) \in Path
    BY ReadyIs, Frame
  <2>2. EmittedCells(c, d, GetGlobal, c1)
    BY ONLY <1>0, <1>1, <2>1, Emitted, d \in Nat
  <2> QED
    BY ONLY <1>1, <2>2 DEF EmittedCells
<1>11. e[Len(c) + 1].at = d /\ e[Len(c) + 1].path = PathOf(open)
  <2>1. e[Len(c) + 1] = Cell(GetGlobal[1], d)
    BY <1>8, <1>9, <1>10 DEF Begins
  <2> QED
    BY ONLY <2>1, CellIs
<1> QED
  BY ONLY <1>e, <1>3, <1>4, <1>6, <1>8, <1>9, <1>11 DEF TestedOn
-----------------------------------------------------------------------------
(* How deep the stack is, by the parser's stack. *)
LevelIn(s, k) == IF Within(s) THEN s[k].base ELSE Count({"for"}, s, k)

DepthFacts ==
  /\ Depth = IF Within(open) THEN locals ELSE Count({"for"}, open, Len(open))
  /\ Depth \in Nat /\ Plain(open) /\ IsStack(open)
  /\ \A k \in DOMAIN open : Level(k) = LevelIn(open, k) /\ Level(k) \in Nat

LEMMA DepthIs == Base => DepthFacts
<1> SUFFICES ASSUME Base PROVE DepthFacts
  OBVIOUS
<1>1. IsStack(open) /\ StackInv /\ locals \in Nat
  BY Parsing
<1>2. Plain(open)
  BY PlainOpen
<1> QED
  BY <1>1, <1>2, Depths DEF Nested, Level, LevelIn, DepthFacts

LEMMA DepthThen == Base' => DepthFacts'
  BY DepthIs, PTL

(* What is known while parsing. *)
ParsingFacts ==
  /\ locals \in Nat /\ typed \in Nat /\ IsCode(code) /\ Len(code) \in Nat
  /\ Lo \in Nat /\ StackInv
  /\ phase = "parse" => Lo <= Len(code)

LEMMA ParsingIs == Base => ParsingFacts
  BY Parsing, LoType DEF ParsingFacts

LEMMA ParsingThen == Base' => ParsingFacts'
  BY ParsingIs, PTL

-----------------------------------------------------------------------------
(* What is parked stays where it is. *)
SiteFits(c, s, k, x) ==
  /\ Site(c, x, LevelIn(s, k))
  /\ Lands(c[x - 1].path, s, k - 1)
  /\ s[k].kind = "then" => s[k].id \notin Arms(c[x - 1].path, "then")

HeadFits(c, s, k) ==
  s[k].kind \in LoopKinds =>
    LET h == c[s[k].start]
    IN  /\ h.at = LevelIn(s, k) /\ h.path[1] = UnitOf(s)
        /\ \A i \in 1 .. k : s[i].kind = "then" => s[i].id \notin Arms(h.path, "else")

SitesFit ==
  \A k \in DOMAIN open :
    (\A x \in Parked(k) : SiteFits(code, open, k, x)) /\ HeadFits(code, open, k)

LEMMA SitesAre == Base => (SitesInv <=> SitesFit)
<1> SUFFICES ASSUME Base PROVE SitesInv <=> SitesFit
  OBVIOUS
<1>1. \A k \in DOMAIN open : Level(k) = LevelIn(open, k)
  BY DepthIs DEF DepthFacts
<1> QED
  BY <1>1 DEF SitesInv, SitesFit, SiteFits, HeadFits

LEMMA SitesThen == Base' => (SitesInv' <=> SitesFit')
  BY SitesAre, PTL

LEMMA Operands ==
  ASSUME Base, phase = "parse", SitesInv, ParseInv, NEW s \in Pending
  PROVE  /\ s \in Nat /\ s \in Lo + 2 .. Len(code) - 1
         /\ code[s].at = Operand /\ code[s + 1].at = Operand
         /\ code[s - 1].at # Operand /\ code[s - 1].b \in Forward
<1>1. Lo \in Nat /\ Len(code) \in Nat
  BY LoType, Parsing
<1>2. PICK k \in DOMAIN open : s \in Parked(k)
  BY DEF Pending
<1>3. s \in Lo + 2 .. Len(code) - 1
  BY <1>2, PlacesOf DEF Placed
<1>4. Site(code, s, Level(k))
  BY <1>2 DEF SitesInv
<1>5. code[s - 1].at # Operand /\ code[s - 1].b \in Forward
  BY <1>4 DEF Site
<1>6. Flow(code, Lo, Len(code), Exits, Pending, Len(funcs))
  BY DEF ParseInv, Region
<1>7. s \in Nat /\ s - 1 \in Lo + 1 .. Len(code)
  BY <1>1, <1>3
<1>8. s + 1 <= Len(code) /\ code[s].at = Operand /\ code[s + 1].at = Operand
  BY ONLY <1>1, <1>5, <1>6, <1>7, Placeholders
<1> QED
  BY <1>3, <1>5, <1>7, <1>8

LEMMA Kept ==
  ASSUME Base, phase = "parse", SitesInv, ParseInv, NEW c, Grown(code, c, Pending)
  PROVE  Keeps(code, c)
<1>1. ASSUME NEW i \in 1 .. Len(code), code[i].at # Operand
      PROVE  c[i] = code[i]
  <2>1. i \notin Pending
    BY <1>1, Operands
  <2>2. i - 1 \notin Pending
    <3>1. ASSUME i - 1 \in Pending PROVE FALSE
      <4>1. code[(i - 1) + 1].at = Operand
        BY <3>1, Operands
      <4>2. (i - 1) + 1 = i
        BY Parsing
      <4> QED
        BY <1>1, <4>1, <4>2
    <3> QED
      BY <3>1
  <2> QED
    BY <2>1, <2>2 DEF Grown
<1> QED
  BY <1>1 DEF Keeps, Grown

LEMMA LevelStays ==
  ASSUME NEW s, NEW t, NEW k \in Nat, \A j \in 1 .. k : t[j] = s[j], k > 0, Within(s) <=> Within(t)
  PROVE  LevelIn(t, k) = LevelIn(s, k)
<1>1. \A j \in 1 .. k : t[j].kind = s[j].kind
  OBVIOUS
<1>2. Count({"for"}, t, k) = Count({"for"}, s, k)
  BY <1>1, CountAgrees
<1> QED
  BY <1>2 DEF LevelIn

Alike(s, t, m) ==
  /\ \A j \in 1 .. m : t[j] = s[j]
  /\ Within(s) <=> Within(t)
  /\ UnitOf(s) = UnitOf(t)

LEMMA SiteStays ==
  ASSUME NEW c, NEW e, Keeps(c, e), Len(c) \in Nat, NEW s, NEW t, NEW k \in Nat, k > 0,
         Alike(s, t, k), NEW x \in Int, x - 1 \in 1 .. Len(c), SiteFits(c, s, k, x)
  PROVE  SiteFits(e, t, k, x)
<1>1. LevelIn(t, k) = LevelIn(s, k)
  BY LevelStays DEF Alike
<1>2. c[x - 1].at # Operand
  BY DEF SiteFits, Site
<1>3. e[x - 1] = c[x - 1]
  BY <1>2 DEF Keeps
<1>4. FarDepth(e, x - 1) = FarDepth(c, x - 1)
  BY <1>3, SameCells
<1>5. t[k] = s[k]
  BY DEF Alike
<1>6. Lands(e[x - 1].path, t, k - 1)
  <2>1. k - 1 \in Nat /\ \A j \in 1 .. k - 1 : s[j] = t[j]
    BY DEF Alike
  <2>2. Lands(c[x - 1].path, s, k - 1) /\ UnitOf(s) = UnitOf(t)
    BY DEF SiteFits, Alike
  <2> QED
    BY <1>3, <2>1, <2>2, LandsOn
<1> QED
  BY <1>1, <1>3, <1>4, <1>5, <1>6 DEF SiteFits, Site

LEMMA HeadStays ==
  ASSUME NEW c, NEW e, Keeps(c, e), Len(c) \in Nat, NEW s, NEW t, NEW k \in Nat, k > 0,
         Alike(s, t, k), s[k].kind \in LoopKinds => s[k].start \in 1 .. Len(c),
         LevelIn(s, k) \in Nat, HeadFits(c, s, k)
  PROVE  HeadFits(e, t, k)
<1>1. LevelIn(t, k) = LevelIn(s, k)
  BY LevelStays DEF Alike
<1>2. SUFFICES ASSUME s[k].kind \in LoopKinds PROVE HeadFits(e, t, k)
  BY DEF HeadFits, Alike
<1>3. c[s[k].start].at # Operand
  BY <1>2 DEF HeadFits, Operand
<1>4. e[s[k].start] = c[s[k].start]
  BY <1>2, <1>3 DEF Keeps
<1> QED
  BY <1>1, <1>2, <1>4 DEF HeadFits, Alike

LEMMA SitesOn ==
  ASSUME Base, phase = "parse", SitesInv, ParseInv, Grown(code, code', Pending), Base',
         NEW m \in 0 .. Len(open), m <= Len(open'), Alike(open, open', m),
         \A k \in 1 .. m : \A x \in ParkedIn(open', loops', k) :
           x \in Parked(k) \/ SiteFits(code', open', k, x),
         \A k \in m + 1 .. Len(open') :
           /\ \A x \in ParkedIn(open', loops', k) : SiteFits(code', open', k, x)
           /\ HeadFits(code', open', k)
  PROVE  SitesInv'
<1>1. Keeps(code, code')
  BY Kept
<1>2. SitesFit
  BY SitesAre
<1>3. /\ Len(code) \in Nat /\ Len(open) \in Nat /\ DOMAIN open = 1 .. Len(open)
      /\ Len(open') \in Nat /\ DOMAIN open' = 1 .. Len(open')
  BY Parsing, DepthThen, StackFacts DEF DepthFacts
<1>l. Lo \in Nat
  BY LoType
<1>4. ASSUME NEW k \in 1 .. m
      PROVE  (\A x \in ParkedIn(open', loops', k) : SiteFits(code', open', k, x)) /\ HeadFits(code', open', k)
  <2>1. k \in DOMAIN open /\ k \in Nat /\ k > 0
    BY <1>3
  <2>2. Alike(open, open', k)
    BY <2>1 DEF Alike
  <2>3. HeadFits(code, open, k) /\ \A x \in Parked(k) : SiteFits(code, open, k, x)
    BY <1>2, <2>1 DEF SitesFit
  <2>4. LevelIn(open, k) \in Nat
    BY <2>1, DepthIs DEF DepthFacts
  <2>5. Placed(open[k], Parked(k), Lo, Len(code))
    BY <2>1, PlacesOf
  <2>6. open[k].kind \in LoopKinds => open[k].start \in 1 .. Len(code)
    BY <1>l, <1>3, <2>5 DEF Placed
  <2>7. HeadFits(code', open', k)
    BY <1>1, <1>3, <2>1, <2>2, <2>3, <2>4, <2>6, HeadStays
  <2>8. ASSUME NEW x \in Parked(k) PROVE SiteFits(code', open', k, x)
    <3>1. x \in Int /\ x - 1 \in 1 .. Len(code)
      BY <1>l, <1>3, <2>5 DEF Placed
    <3> QED
      BY <1>1, <1>3, <2>1, <2>2, <2>3, <3>1, SiteStays
  <2> QED
    BY <2>7, <2>8
<1>5. \A k \in 1 .. Len(open') :
        (\A x \in ParkedIn(open', loops', k) : SiteFits(code', open', k, x)) /\ HeadFits(code', open', k)
  <2> SUFFICES ASSUME NEW k \in 1 .. Len(open')
               PROVE  (\A x \in ParkedIn(open', loops', k) : SiteFits(code', open', k, x)) /\ HeadFits(code', open', k)
    OBVIOUS
  <2>1. k \in 1 .. m \/ k \in m + 1 .. Len(open')
    BY <1>3
  <2> QED
    BY <1>4, <2>1
<1>6. SitesFit'
  BY <1>3, <1>5 DEF SitesFit, Parked
<1> QED
  BY <1>6, SitesThen

(* The code is whole after a statement that leaves the functions alone. *)
Stays ==
  /\ arena' = arena /\ funcs' = funcs /\ Lo' = Lo /\ (Nested' <=> Nested)
  /\ Nested => open'[1] = open[1]

LEMMA UnitStays ==
  ASSUME Stays
  PROVE  UnitOf(open') = UnitOf(open) /\ EntryDepth' = EntryDepth
BY DEF Stays, UnitOf, EntryDepth, Nested

LEMMA ParseOn ==
  ASSUME Base, phase = "parse", ParseInv, Base', Grown(code, code', Pending), Stays,
         NEW P, NEW E, Ready(code', P, E), P \subseteq Pending', Widens(E, Exits')
  PROVE  ParseInv'
<1>1. \A i \in 1 .. Lo : code'[i] = code[i]
  BY Unharmed
<1>2. /\ Len(code) \in Nat /\ arena \in Nat /\ Lo \in Nat /\ arena <= Lo /\ Lo <= Len(code)
      /\ Len(funcs) \in Nat /\ DOMAIN funcs = 1 .. Len(funcs)
  BY TypedFacts, LoType
<1>3. Cells(code, Len(code)) /\ Cells(code, arena) /\ Cells(code, Lo)
  <2>1. IsCode(code) /\ Len(code) \in 0 .. Len(code) /\ arena \in 0 .. Len(code) /\ Lo \in 0 .. Len(code)
    BY <1>2, TypedFacts
  <2> QED
    BY <2>1, CellsOf
<1>4. /\ \A i \in 0 + 1 .. arena : code'[i] = code[i]
      /\ \A i \in arena + 1 .. Lo : code'[i] = code[i]
  BY <1>1, <1>2
<1>5. /\ Closed(code, 0, arena, Len(funcs))
      /\ Nested => Region(code, arena, open[1].start, {Exit(0, <<0>>)}, {}, Len(funcs), 0, 0)
      /\ \A f \in DOMAIN funcs : (Nested /\ f = open[1].id) \/ Enters(code, arena, funcs[f], f)
  BY DEF ParseInv
<1>6. Closed(code', 0, arena, Len(funcs))
  <2>1. Widens({}, {}) /\ {} \subseteq {} /\ Len(funcs) <= Len(funcs) /\ 0 \in Nat
    BY <1>2 DEF Widens
  <2> QED
    BY ONLY <1>2, <1>3, <1>4, <1>5, <2>1, FlowFramed DEF Closed
<1>7. ASSUME Nested
      PROVE  Region(code', arena, open[1].start, {Exit(0, <<0>>)}, {}, Len(funcs), 0, 0)
  <2>1. Lo = open[1].start
    BY <1>7 DEF Lo
  <2>2. PICK E0 : E0 = {Exit(0, <<0>>)}
    OBVIOUS
  <2>3. Widens(E0, E0) /\ {} \subseteq {} /\ Len(funcs) <= Len(funcs)
    BY <1>2 DEF Widens
  <2>4. Region(code, arena, Lo, E0, {}, Len(funcs), 0, 0)
    BY <1>5, <1>7, <2>1, <2>2
  <2>5. Region(code', arena, Lo, E0, {}, Len(funcs), 0, 0)
    BY ONLY <1>2, <1>3, <1>4, <2>3, <2>4, RegionFramed
  <2> QED
    BY <2>1, <2>2, <2>5
<1>8. ASSUME NEW f \in DOMAIN funcs PROVE (Nested /\ f = open[1].id) \/ Enters(code', arena, funcs[f], f)
  <2>1. CASE Enters(code, arena, funcs[f], f)
    <3>1. funcs[f].start + 1 \in 1 .. arena
      BY <2>1 DEF Enters
    <3>2. funcs[f].start + 1 \in 1 .. Lo
      BY <1>2, <3>1
    <3> QED
      BY <1>1, <2>1, <3>2 DEF Enters
  <2> QED
    BY <1>5, <2>1
<1>9. Region(code', Lo, Len(code'), Exits', Pending', Len(funcs), EntryDepth, UnitOf(open))
  <2>1. /\ IsCode(code') /\ Len(code') \in Nat /\ Cells(code', Len(code')) /\ Lo <= Len(code')
        /\ Region(code', Lo, Len(code'), E, P, Len(funcs), EntryDepth, UnitOf(open))
    BY ReadyIs
  <2>2. (\A i \in Lo + 1 .. Len(code') : code'[i] = code'[i]) /\ Len(funcs) <= Len(funcs)
    BY <1>2
  <2> QED
    BY ONLY <1>2, <2>1, <2>2, RegionFramed, P \subseteq Pending', Widens(E, Exits')
<1>10. UnitOf(open') = UnitOf(open) /\ EntryDepth' = EntryDepth
  BY UnitStays
<1> QED
  BY <1>6, <1>7, <1>8, <1>9, <1>10 DEF ParseInv, Stays

(* What falls off the end falls to where the next statement goes. *)
Tailed ==
  Nested => /\ Len(code) > Lo
            /\ code[Len(code)].at = Operand \/ Len(code[Len(code)].path) > 1

LEMMA TailedIs == Tailed => TailInv /\ ~Returned(code)
<1>1. PICK n : n = Len(code[Len(code)].path)
  OBVIOUS
<1>2. n = 1 => ~(n > 1)
  OBVIOUS
<1> QED
  BY <1>1, <1>2, Zenon DEF Tailed, TailInv, Returned

LEMMA TailedThen == Tailed' => TailInv' /\ ~Returned(code)'
  BY TailedIs, PTL

LEMMA ExitsThen ==
  ASSUME Base, Base', ~Returned(code)', NEW d, d = Depth', NEW E, E \subseteq At(d),
         \A p : Lands(p, open, Len(open)) => Lands(p, open', Len(open'))
  PROVE  Widens(E, Exits')
<1>1. Plain(open) /\ Plain(open')
  BY DepthIs, DepthThen DEF DepthFacts
<1>2. Exits' = {Exit(d, PathOf(open'))}
  BY DEF Exits
<1>3. ASSUME NEW x \in E, NEW p, Follows(p, x.path)
      PROVE  \E y \in Exits' : y.d = x.d /\ Follows(p, y.path)
  <2>1. x = Exit(d, PathOf(open))
    BY DEF At
  <2>2. x.d = d /\ x.path = PathOf(open)
    BY <2>1 DEF Exit
  <2>3. Follows(p, PathOf(open'))
    BY <1>1, <1>3, <2>2, FollowsPath
  <2> DEFINE y == Exit(d, PathOf(open'))
  <2>4. y \in Exits'
    BY <1>2
  <2>5. y.d = d /\ y.path = PathOf(open')
    BY DEF Exit
  <2> QED
    BY <2>2, <2>3, <2>4, <2>5
<1> QED
  BY <1>3 DEF Widens

LEMMA LongPath == ASSUME Base, Nested, Len(open) > 1 PROVE Len(PathOf(open)) > 1
<1>1. Plain(open)
  BY PlainOpen
<1>2. Len(PathOf(open)) = 1 + Len(open) - FuncAt(open)
  BY <1>1, PathFacts DEF Plain
<1>3. FuncAt(open) = 1 /\ Len(open) \in Nat
  BY <1>1, FuncAtIs, StackFacts DEF Plain, Nested
<1> QED
  BY <1>2, <1>3

InParse == phase = "parse" /\ SitesInv /\ TailInv /\ ParseInv /\ SavedInv

LEMMA Starts ==
  ASSUME Base, InParse
  PROVE  /\ Ready(code, Pending, Exits) /\ Exits \subseteq At(Depth)
         /\ phase = "parse" /\ SitesInv /\ TailInv /\ ParseInv /\ SavedInv
         /\ Depth \in Nat /\ IsCode(code) /\ Len(code) \in Nat /\ Lo \in Nat /\ Lo <= Len(code)
         /\ \A p : Lands(p, open, Len(open)) => Lands(p, open, Len(open))
<1>1. phase = "parse" /\ SitesInv /\ TailInv /\ ParseInv /\ SavedInv
  BY DEF InParse
<1>2. IsCode(code) /\ Lo <= Len(code) /\ Depth \in Nat /\ Len(code) \in Nat /\ Lo \in Nat
  BY <1>1, Parsing, LoType
<1>3. Region(code, Lo, Len(code), Exits, Pending, Len(funcs), EntryDepth, UnitOf(open))
  BY <1>1 DEF ParseInv
<1>4. Exits \subseteq At(Depth)
  BY DEF Exits, At
<1> QED
  BY <1>1, <1>2, <1>3, <1>4 DEF Ready

(* A statement that opens and closes nothing. *)
LEMMA FlatSites ==
  ASSUME Base, InParse, Base', Grown(code, code', Pending), open' = open, loops' = loops
  PROVE  SitesInv' /\ Pending' = Pending
<1>1. phase = "parse" /\ SitesInv /\ ParseInv
  BY DEF InParse
<1>2. /\ Len(open) \in 0 .. Len(open) /\ Len(open) <= Len(open') /\ Alike(open, open', Len(open))
      /\ \A k \in Len(open) + 1 .. Len(open') : FALSE
  <2>1. Len(open) \in Nat
    BY DepthIs, StackFacts DEF DepthFacts
  <2> QED
    BY <2>1 DEF Alike
<1>3. \A k \in 1 .. Len(open) : \A x \in ParkedIn(open', loops', k) : x \in Parked(k)
  BY DEF Parked
<1>4. SitesInv'
  BY <1>1, <1>2, <1>3, SitesOn
<1>5. Pending' = Pending
  BY DEF Pending, Parked
<1> QED
  BY <1>4, <1>5

LEMMA FlatFlow ==
  ASSUME Base, InParse, Base', phase' = phase, saved' = saved, Grown(code, code', Pending),
         arena' = arena, funcs' = funcs, open' = open, loops' = loops,
         NEW E, Ready(code', Pending, E), Widens(E, Exits'), TailInv'
  PROVE  InParse'
<1>1. phase = "parse" /\ ParseInv /\ SavedInv
  BY DEF InParse
<1>2. SitesInv' /\ Pending' = Pending
  BY FlatSites
<1>3. Stays
  BY DEF Stays, Nested, Lo
<1>4. Pending \subseteq Pending'
  BY <1>2
<1>5. ParseInv'
  BY <1>1, <1>3, <1>4, ParseOn
<1>6. SavedInv'
  BY <1>1 DEF SavedInv
<1> QED
  BY <1>1, <1>2, <1>5, <1>6 DEF InParse

-----------------------------------------------------------------------------
(* Statements in a row. *)
LEMMA GoesUp ==
  ASSUME Base, phase = "parse", NEW c, NEW P, NEW d \in Nat, NEW E, Ready(c, P, E), E \subseteq At(d),
         NEW ins, Moves(ins, 1), NEW e, e = Emit(c, d, ins), NEW d2, d2 = d + 1
  PROVE  Moved(e, c, P, d, ins, d2) /\ d2 \in Nat
<1>1. PICK k : k = 1
  OBVIOUS
<1>2. Moves(ins, k)
  BY <1>1
<1>3. d2 \in Nat
  OBVIOUS
<1>4. k \in Int
  BY <1>1
<1>5. d2 = d + k
  BY <1>1
<1>6. Moved(e, c, P, d, ins, d2)
  BY ONLY <1>2, <1>3, <1>4, <1>5, Goes, Base, phase = "parse", E \subseteq At(d), Ready(c, P, E),
          d \in Nat, e = Emit(c, d, ins)
<1> QED
  BY <1>3, <1>6

LEMMA GoesDown ==
  ASSUME Base, phase = "parse", NEW c, NEW P, NEW d \in Nat, NEW E, Ready(c, P, E), E \subseteq At(d),
         NEW ins, Moves(ins, -1), NEW e, e = Emit(c, d, ins), NEW d2 \in Nat, d = d2 + 1
  PROVE  Moved(e, c, P, d, ins, d2)
<1>1. PICK k : k = -1
  OBVIOUS
<1>2. Moves(ins, k)
  BY <1>1
<1>4. k \in Int
  BY <1>1
<1>5. d2 = d + k
  BY <1>1
<1> QED
  BY ONLY <1>2, <1>4, <1>5, Goes, Base, phase = "parse", E \subseteq At(d), Ready(c, P, E),
          d \in Nat, d2 \in Nat, e = Emit(c, d, ins)

LEMMA GoesLevel ==
  ASSUME Base, phase = "parse", NEW c, NEW P, NEW d \in Nat, NEW E, Ready(c, P, E), E \subseteq At(d),
         NEW ins, Moves(ins, 0), NEW e, e = Emit(c, d, ins)
  PROVE  Moved(e, c, P, d, ins, d)
<1>1. PICK k : k = 0
  OBVIOUS
<1>2. Moves(ins, k)
  BY <1>1
<1>4. k \in Int
  BY <1>1
<1>5. d = d + k
  BY <1>1
<1> QED
  BY ONLY <1>2, <1>4, <1>5, Goes, Base, phase = "parse", E \subseteq At(d), Ready(c, P, E),
          d \in Nat, e = Emit(c, d, ins)

LEMMA MovedIs ==
  ASSUME NEW e, NEW c, NEW P, NEW d, NEW ins, NEW d2, Moved(e, c, P, d, ins, d2)
  PROVE  /\ Ready(e, P, At(d2)) /\ At(d2) \subseteq At(d2)
         /\ IsEmitted(e, c, d, ins, Len(ins)) /\ Len(e) = Len(c) + Len(ins)
BY DEF Moved

(* The last cell of what was emitted. *)
LEMMA NewTail ==
  ASSUME NEW e, NEW c, NEW d, NEW ins, NEW z \in 1 .. 3, IsEmitted(e, c, d, ins, z)
  PROVE  /\ Len(e) = Len(c) + z /\ Len(c) < Len(e)
         /\ z > 1 => e[Len(e)].at = Operand
         /\ z = 1 => e[Len(e)].b = ins[1] /\ e[Len(e)].path = PathOf(open) /\ e[Len(e)].at = d
<1>1. Len(c) \in Nat /\ Len(e) = Len(c) + z
  BY DEF IsEmitted
<1>2. z > 1 => z \in 2 .. z /\ Len(c) + z = Len(e)
  BY <1>1
<1> QED
  BY <1>1, <1>2 DEF IsEmitted

LEMMA VarDeclFlow ==
  ASSUME Base, InParse, NEW k \in Literals, VarDecl(k)
  PROVE  InParse'
<1>1. Base' /\ Grown(code, code', Pending)
  BY VarDeclStep, VarDeclGrows DEF Grew
<1>2. /\ Ready(code, Pending, Exits) /\ Exits \subseteq At(Depth) /\ Depth \in Nat /\ phase = "parse"
      /\ Lo \in Nat /\ Lo <= Len(code) /\ Len(code) \in Nat
  BY Starts
<1>3. /\ phase' = phase /\ saved' = saved /\ arena' = arena /\ funcs' = funcs
      /\ open' = open /\ loops' = loops
  BY DEF VarDecl, Typing
<1>4. k \in Byte
  BY LiteralByte
<1>5. Moves(PushInt(k), 1) /\ Moves(DefineGlobal, -1) /\ Len(PushInt(k)) = 2
  BY <1>4, MovesOf, PushIntBytes
<1>6. PICK d1 : d1 = Depth + 1
  OBVIOUS
<1>7. PICK c : c = Emit(code, Depth, PushInt(k))
  OBVIOUS
<1>8. Moved(c, code, Pending, Depth, PushInt(k), d1) /\ d1 \in Nat
  BY ONLY <1>2, <1>5, <1>6, <1>7, GoesUp, Base
<1>9. InFunction <=> Nested
  BY Bases
<1>10. Depth' = IF Within(open) THEN locals' ELSE Count({"for"}, open, Len(open))
  BY <1>1, <1>3, DepthThen DEF DepthFacts
<1>11. Depth = IF Within(open) THEN locals ELSE Count({"for"}, open, Len(open))
  BY DepthIs DEF DepthFacts
<1>l. \A p : Lands(p, open, Len(open)) => Lands(p, open', Len(open'))
  BY <1>3
<1>12. CASE Nested
  <2>1. code' = c /\ locals' = locals + 1
    BY <1>7, <1>9, <1>12 DEF VarDecl, Emits
  <2>2. d1 = Depth'
    BY <1>6, <1>10, <1>11, <1>12, <2>1 DEF Nested
  <2>3. IsEmitted(code', code, Depth, PushInt(k), 2) /\ 2 \in 1 .. 3
    <3>1. IsEmitted(c, code, Depth, PushInt(k), Len(PushInt(k)))
      BY <1>8, MovedIs, Zenon
    <3> QED
      BY <1>5, <2>1, <3>1
  <2>4. Len(code') > Lo /\ code'[Len(code')].at = Operand
    BY <1>2, <2>3, NewTail
  <2>5. Lo' = Lo
    BY <1>3 DEF Lo, Nested
  <2>6. Tailed'
    BY <2>4, <2>5 DEF Tailed
  <2>7. TailInv' /\ ~Returned(code)'
    BY <2>6, TailedThen
  <2>8. Ready(code', Pending, At(d1)) /\ At(d1) \subseteq At(d1)
    BY <1>8, <2>1, MovedIs
  <2>9. Widens(At(d1), Exits')
    BY <1>1, <1>l, <2>2, <2>7, <2>8, ExitsThen
  <2> QED
    BY <1>1, <1>3, <2>7, <2>8, <2>9, FlatFlow
<1>13. CASE ~Nested
  <2>1. code' = Emit(c, d1, DefineGlobal) /\ locals' = locals
    BY <1>6, <1>7, <1>9, <1>13 DEF VarDecl, Emits
  <2>2. Depth' = Depth
    BY <1>10, <1>11, <2>1
  <2>3. Ready(c, Pending, At(d1)) /\ At(d1) \subseteq At(d1)
    BY <1>8, MovedIs
  <2>4. Moved(code', c, Pending, d1, DefineGlobal, Depth)
    BY ONLY <1>2, <1>5, <1>6, <1>8, <2>1, <2>3, GoesDown, Base
  <2>5. ~Nested'
    BY <1>3, <1>13 DEF Nested
  <2>7. TailInv' /\ ~Returned(code)'
    BY <2>5, TailedThen DEF Tailed
  <2>8. Ready(code', Pending, At(Depth)) /\ At(Depth) \subseteq At(Depth)
    BY <2>4, MovedIs
  <2>9. Widens(At(Depth), Exits')
    BY <1>1, <1>l, <2>2, <2>7, <2>8, ExitsThen
  <2> QED
    BY <1>1, <1>3, <2>7, <2>8, <2>9, FlatFlow
<1> QED
  BY <1>12, <1>13

LEMMA FlatOn ==
  ASSUME Base, InParse, Base', phase' = phase, saved' = saved, Grown(code, code', Pending),
         arena' = arena, funcs' = funcs, open' = open, loops' = loops,
         NEW d, d = Depth', Ready(code', Pending, At(d)), TailInv', ~Returned(code)'
  PROVE  InParse'
<1>1. \A p : Lands(p, open, Len(open)) => Lands(p, open', Len(open'))
  OBVIOUS
<1>2. At(d) \subseteq At(d)
  OBVIOUS
<1>3. Widens(At(d), Exits')
  BY <1>1, <1>2, ExitsThen
<1> QED
  BY <1>3, FlatFlow

LEMMA OneByteIs ==
  ASSUME NEW n \in Nat, NEW m \in 0 .. 255, n <= m, NEW f \in 1 .. n
  PROVE  f \in 0 .. 255
OBVIOUS

LEMMA CallFlow ==
  ASSUME Base, InParse, NEW f \in DOMAIN funcs, CallStatement(f)
  PROVE  InParse'
<1>1. Base' /\ Grown(code, code', Pending)
  BY CallStep, CallGrows DEF Grew
<1>2. /\ Ready(code, Pending, Exits) /\ Exits \subseteq At(Depth) /\ Depth \in Nat /\ phase = "parse"
      /\ Lo \in Nat /\ Lo <= Len(code) /\ Len(code) \in Nat
  BY Starts
<1>3. /\ phase' = phase /\ saved' = saved /\ arena' = arena /\ funcs' = funcs
      /\ open' = open /\ loops' = loops /\ locals' = locals
  BY DEF CallStatement, Typing
<1>4. PICK n : n = funcs[f].params
  OBVIOUS
<1>5. n \in Nat /\ n \in Byte /\ f \in 1 .. Len(funcs) /\ f \in Byte
  <2>1. funcs[f] \in FuncType /\ DOMAIN funcs = 1 .. Len(funcs) /\ Len(funcs) \in Nat /\ Len(funcs) <= MAX_FUNCS
    BY TypedFacts
  <2>2. n \in 0 .. MAX_LOCALS
    BY <1>4, <2>1 DEF FuncType
  <2>3. MAX_LOCALS \in 0 .. 255 /\ MAX_FUNCS \in 0 .. 255
    BY CompilerSizes
  <2>4. f \in 1 .. Len(funcs)
    BY <2>1
  <2>5. n \in Nat /\ n \in 0 .. 255
    BY ONLY <2>2, <2>3, SMTT(30)
  <2>6. f \in 0 .. 255
    <3>1. f \in 1 .. Len(funcs)
      BY <2>1
    <3>2. Len(funcs) \in Nat /\ Len(funcs) <= MAX_FUNCS
      BY <2>1
    <3>3. MAX_FUNCS \in 0 .. 255
      BY <2>3
    <3> QED
      BY ONLY <3>1, <3>2, <3>3, OneByteIs
  <2> QED
    BY <2>4, <2>5, <2>6 DEF Byte
<1>6. PICK c : c = code \o Arguments(n)
  OBVIOUS
<1>7. PICK d1 : d1 = Depth + n
  OBVIOUS
<1>8. PICK d2 : d2 = Depth + 1
  OBVIOUS
<1>9. PICK e : e = Emit(c, d1, Call(f, n))
  OBVIOUS
<1>10. code' = Emit(e, d2, <<OP_POP>>)
  BY <1>4, <1>6, <1>7, <1>8, <1>9 DEF CallStatement, Emits
<1>11. d1 \in Nat /\ d2 \in Nat /\ d2 = d1 + 1 - n
  BY <1>2, <1>5, <1>7, <1>8
<1>12. Ready(c, Pending, At(d1)) /\ At(d1) \subseteq At(d1)
  BY <1>2, <1>5, <1>6, <1>7, ArgumentsReady
<1>13. Ready(e, Pending, At(d2)) /\ At(d2) \subseteq At(d2)
  BY <1>2, <1>5, <1>9, <1>11, <1>12, EmitsCall
<1>14. Moves(<<OP_POP>>, -1) /\ Len(<<OP_POP>>) = 1
  BY MovesOf
<1>15. Moved(code', e, Pending, d2, <<OP_POP>>, Depth)
  BY ONLY <1>2, <1>8, <1>10, <1>11, <1>13, <1>14, GoesDown, Base
<1>16. Depth' = Depth
  <2>1. Depth' = IF Within(open) THEN locals ELSE Count({"for"}, open, Len(open))
    BY <1>1, <1>3, DepthThen DEF DepthFacts
  <2> QED
    BY <2>1, DepthIs DEF DepthFacts
<1>17. IsEmitted(code', e, d2, <<OP_POP>>, 1)
  <2>1. IsEmitted(code', e, d2, <<OP_POP>>, Len(<<OP_POP>>))
    BY <1>15, MovedIs, Zenon
  <2> QED
    BY <1>14, <2>1
<1>18. Len(code') > Lo /\ code'[Len(code')].b = OP_POP /\ code'[Len(code')].path = PathOf(open)
  <2>1. 1 \in 1 .. 3 /\ <<OP_POP>>[1] = OP_POP
    OBVIOUS
  <2>2. Lo <= Len(e)
    BY <1>13, ReadyIs
  <2>3. Len(e) \in Nat
    BY <1>17 DEF IsEmitted
  <2> QED
    BY <1>2, <1>17, <2>1, <2>2, <2>3, NewTail
<1>19. Lo' = Lo /\ (Nested' <=> Nested)
  BY <1>3 DEF Lo, Nested
<1>20. ~Returned(code)'
  <2>1. OP_POP \notin {OP_RETURN, OP_RETURN_V}
    BY DEF OP_POP, OP_RETURN, OP_RETURN_V
  <2> QED
    BY <1>18, <2>1 DEF Returned
<1>21. TailInv'
  <2>1. Nested /\ Len(open) > 1 => Len(PathOf(open)) > 1
    BY LongPath
  <2> QED
    BY <1>3, <1>18, <1>19, <2>1 DEF TailInv
<1> QED
  BY <1>1, <1>3, <1>15, <1>16, <1>20, <1>21, FlatOn, MovedIs


LEMMA ReturnFlow ==
  ASSUME Base, InParse, NEW k \in Literals, Return(k)
  PROVE  InParse'
<1>1. Base' /\ Grown(code, code', Pending)
  BY ReturnStep, ReturnGrows DEF Grew
<1>2. /\ Ready(code, Pending, Exits) /\ Exits \subseteq At(Depth) /\ Depth \in Nat /\ phase = "parse"
      /\ Lo \in Nat /\ Lo <= Len(code) /\ Len(code) \in Nat
  BY Starts
<1>3. /\ phase' = phase /\ saved' = saved /\ arena' = arena /\ funcs' = funcs
      /\ open' = open /\ loops' = loops
  BY DEF Return, Typing
<1>4. OP_RETURN \in Ending /\ OP_RETURN \in Byte /\ OP_RETURN_V \in Ending /\ OP_RETURN_V \in Byte
  BY Opcodes DEF Ending
<1>5. k \in Byte
  BY LiteralByte
<1>6. PICK d1 : d1 = Depth + 1
  OBVIOUS
<1>7. PICK c : c = Emit(code, Depth, PushInt(k))
  OBVIOUS
<1>8. \E e, d, op : Lo <= Len(e) /\ Ready(code', Pending, {}) /\ IsEmitted(code', e, d, <<op>>, 1)
  <2>1. CASE funcs[Function.id].ret
    <3>1. Moves(PushInt(k), 1)
      BY <1>5, MovesOf
    <3>2. Moved(c, code, Pending, Depth, PushInt(k), d1) /\ d1 \in Nat
      BY ONLY <1>2, <3>1, <1>6, <1>7, GoesUp, Base
    <3>3. Ready(c, Pending, At(d1)) /\ At(d1) \subseteq At(d1)
      BY <3>2, MovedIs
    <3>4. code' = Emit(c, d1, <<OP_RETURN>>)
      BY <1>6, <1>7, <2>1 DEF Return, Emits
    <3>5. Ready(code', Pending, {}) /\ IsEmitted(code', c, d1, <<OP_RETURN>>, 1)
      BY <1>2, <1>4, <3>2, <3>3, <3>4, EmitsEnd
    <3>6. Lo <= Len(c)
      BY <3>3, ReadyIs
    <3> QED
      BY <3>5, <3>6
  <2>2. CASE ~funcs[Function.id].ret
    <3>1. code' = Emit(code, Depth, <<OP_RETURN_V>>)
      BY <2>2 DEF Return, Emits
    <3>2. Ready(code', Pending, {}) /\ IsEmitted(code', code, Depth, <<OP_RETURN_V>>, 1)
      BY <1>2, <1>4, <3>1, EmitsEnd
    <3> QED
      BY <1>2, <3>2
  <2> QED
    BY <2>1, <2>2
<1>9. PICK e, d, op : Lo <= Len(e) /\ Ready(code', Pending, {}) /\ IsEmitted(code', e, d, <<op>>, 1)
  BY <1>8
<1>10. Len(code') > Lo /\ code'[Len(code')].path = PathOf(open)
  <2>1. 1 \in 1 .. 3
    OBVIOUS
  <2>2. Len(e) \in Nat
    BY <1>9 DEF IsEmitted
  <2> QED
    BY <1>2, <1>9, <2>1, <2>2, NewTail
<1>11. TailInv'
  <2>1. Nested /\ Len(open) > 1 => Len(PathOf(open)) > 1
    BY LongPath
  <2>2. Lo' = Lo /\ (Nested' <=> Nested)
    BY <1>3 DEF Lo, Nested
  <2> QED
    BY <1>3, <1>10, <2>1, <2>2 DEF TailInv
<1>12. Widens({}, Exits')
  BY DEF Widens
<1> QED
  BY <1>1, <1>3, <1>9, <1>11, <1>12, FlatFlow
(* The largest of some numbers. *)
LEMMA LargestIs ==
  ASSUME NEW n \in Nat, NEW S, S \subseteq 1 .. n, S # {}
  PROVE  Max(S) \in S /\ \A k \in S : k <= Max(S)
<1> DEFINE R == OpToRel(<, Nat)
           T == {n - k : k \in S}
<1>1. IsWellFoundedOn(R, Nat)
  BY NatLessThanWellFounded
<1>2. T \subseteq Nat /\ T # {}
  <2>1. \A k \in S : n - k \in Nat
    OBVIOUS
  <2>2. PICK k \in S : TRUE
    OBVIOUS
  <2>3. n - k \in T
    OBVIOUS
  <2> QED
    BY <2>1, <2>3
<1>3. PICK x \in T : \A y \in T : ~(<<y, x>> \in R)
  <2> HIDE DEF R, T
  <2> QED
    BY <1>1, <1>2, WFMin
<1>4. \A y \in T : ~(y < x)
  <2> SUFFICES ASSUME NEW y \in T, y < x PROVE FALSE
    OBVIOUS
  <2>1. <<y, x>> \in Nat \X Nat
    BY <1>2, <1>3
  <2>2. <<y, x>>[1] < <<y, x>>[2]
    OBVIOUS
  <2>3. <<y, x>> \in R
    BY <2>1, <2>2 DEF OpToRel
  <2> QED
    BY <1>3, <2>3
<1>5. PICK k \in S : x = n - k
  BY <1>3
<1>6. \A j \in S : k >= j
  <2> SUFFICES ASSUME NEW j \in S PROVE k >= j
    OBVIOUS
  <2>1. n - j \in T
    OBVIOUS
  <2>2. ~(n - j < n - k)
    BY <1>4, <1>5, <2>1
  <2> QED
    BY <2>2
<1>7. Max(S) \in S /\ \A j \in S : Max(S) >= j
  BY <1>6 DEF Max
<1>8. S \subseteq Int
  OBVIOUS
<1> QED
  BY <1>7, <1>8

LEMMA CountTop ==
  ASSUME NEW K, NEW s, NEW n \in Nat, NEW k \in 0 .. n, \A i \in k + 1 .. n : s[i].kind \notin K
  PROVE  Count(K, s, k) = Count(K, s, n)
<1>1. {i \in 1 .. k : s[i].kind \in K} = {i \in 1 .. n : s[i].kind \in K}
  OBVIOUS
<1> QED
  BY <1>1 DEF Count

IsInnermostLoop(m) ==
  /\ m \in DOMAIN open /\ open[m].kind \in LoopKinds
  /\ \A i \in m + 1 .. Len(open) : open[i].kind \notin LoopKinds
  /\ Count(LoopKinds, open, m) = Len(loops)

LEMMA InnermostLoop == ASSUME Base, loops # <<>> PROVE IsInnermostLoop(LoopBase)
<1> DEFINE S == {k \in DOMAIN open : open[k].kind \in {"while", "for"}}
<1>1. IsStack(open) /\ StackInv /\ IsTable(loops) /\ Len(open) \in Nat /\ DOMAIN open = 1 .. Len(open)
  BY Parsing, StackFacts
<1>2. Len(loops) \in Nat /\ Len(loops) # 0
  BY <1>1, TableFacts
<1>3. Len(loops) = Count(LoopKinds, open, Len(open))
  BY <1>1 DEF StackInv
<1>4. S # {}
  <2> SUFFICES ASSUME S = {} PROVE FALSE
    OBVIOUS
  <2>1. \A i \in 0 + 1 .. Len(open) : open[i].kind \notin LoopKinds
    BY <1>1 DEF LoopKinds
  <2>2. Count(LoopKinds, open, 0) = Count(LoopKinds, open, Len(open))
    BY <1>1, <2>1, CountTop
  <2>3. Count(LoopKinds, open, 0) = 0
    BY CountNat
  <2> QED
    BY <1>2, <1>3, <2>2, <2>3
<1>5. S \subseteq 1 .. Len(open)
  BY <1>1
<1>6. PICK m : m = Max(S)
  OBVIOUS
<1>7. m \in S /\ \A k \in S : k <= m
  <2> HIDE DEF S
  <2> QED
    BY <1>1, <1>4, <1>5, <1>6, LargestIs
<1>8. m \in 1 .. Len(open) /\ open[m].kind \in LoopKinds
  BY <1>5, <1>7 DEF LoopKinds
<1>9. \A i \in m + 1 .. Len(open) : open[i].kind \notin LoopKinds
  <2> SUFFICES ASSUME NEW i \in m + 1 .. Len(open), open[i].kind \in LoopKinds PROVE FALSE
    OBVIOUS
  <2>1. i \in S
    BY <1>1, <1>8 DEF LoopKinds
  <2> QED
    BY <1>7, <1>8, <2>1
<1>10. Count(LoopKinds, open, m) = Len(loops)
  <2>1. m \in 0 .. Len(open)
    BY <1>8
  <2> QED
    BY <1>1, <1>3, <1>9, <2>1, CountTop
<1> QED
  BY <1>1, <1>6, <1>8, <1>9, <1>10 DEF IsInnermostLoop, LoopBase

LEMMA BreakRows ==
  ASSUME Base, loops # <<>>, NEW at \in Nat, open' = open, RowWith(loops, at, loops')
  PROVE  /\ \A k \in DOMAIN open :
              /\ Parked(k) \subseteq ParkedIn(open', loops', k)
              /\ k # LoopBase => ParkedIn(open', loops', k) = Parked(k)
              /\ k = LoopBase => ParkedIn(open', loops', k) = Parked(k) \cup {at}
         /\ Pending \cup {at} \subseteq Pending'
<1>1. IsInnermostLoop(LoopBase)
  BY InnermostLoop
<1>2. /\ IsStack(open) /\ StackInv /\ IsTable(loops) /\ Len(open) \in Nat /\ DOMAIN open = 1 .. Len(open)
      /\ Len(loops) \in Nat
  BY Parsing, StackFacts, TableFacts
<1>3. PICK m : m = LoopBase
  OBVIOUS
<1>4. PICK n : n = Len(loops)
  OBVIOUS
<1>5. /\ m \in 1 .. Len(open) /\ open[m].kind \in LoopKinds
      /\ \A i \in m + 1 .. Len(open) : open[i].kind \notin LoopKinds
      /\ Count(LoopKinds, open, m) = n
  BY <1>1, <1>2, <1>3, <1>4 DEF IsInnermostLoop
<1>6. /\ \A c \in 1 .. n - 1 : loops'[c] = loops[c]
      /\ Range(loops'[n]) = Range(loops[n]) \cup {at}
  BY <1>4 DEF RowWith
<1>7. "func" \notin LoopKinds /\ \A x \in ArmKinds : x \notin LoopKinds
  BY DEF LoopKinds, ArmKinds
<1>8. ASSUME NEW k \in 1 .. Len(open)
      PROVE  /\ k # m => ParkedIn(open', loops', k) = Parked(k)
             /\ k = m => ParkedIn(open', loops', k) = Parked(k) \cup {at}
  <2>1. CASE k = m
    <3>1. Parked(k) = {open[k].exit} \cup Range(loops[n])
      BY <1>5, <1>7, <2>1 DEF Parked, ParkedIn
    <3>2. ParkedIn(open', loops', k) = {open[k].exit} \cup Range(loops'[n])
      BY <1>5, <1>7, <2>1 DEF ParkedIn
    <3> QED
      BY <1>6, <2>1, <3>1, <3>2
  <2>2. CASE k # m /\ open[k].kind \in LoopKinds
    <3>1. k < m
      BY <1>5, <2>2
    <3>2. m \in k + 1 .. Len(open)
      BY <1>5, <3>1
    <3>3. /\ Count(LoopKinds, open, k) \in 0 .. Len(loops) - 1
          /\ Count(LoopKinds, open, k) \in 1 .. Len(loops)
      BY <1>2, <1>5, <2>2, <3>2, RowOf
    <3>4. Count(LoopKinds, open, k) \in 1 .. n - 1
      BY <1>2, <1>4, <3>3
    <3>5. loops'[Count(LoopKinds, open, k)] = loops[Count(LoopKinds, open, k)]
      BY <1>6, <3>4
    <3> QED
      BY <1>7, <2>2, <3>5 DEF Parked, ParkedIn
  <2>3. CASE open[k].kind \notin LoopKinds
    <3>1. k # m
      BY <1>5, <2>3
    <3> QED
      BY <2>3, <3>1 DEF Parked, ParkedIn
  <2> QED
    BY <2>1, <2>2, <2>3
<1>9. \A k \in DOMAIN open :
              /\ Parked(k) \subseteq ParkedIn(open', loops', k)
              /\ k # m => ParkedIn(open', loops', k) = Parked(k)
              /\ k = m => ParkedIn(open', loops', k) = Parked(k) \cup {at}
  BY <1>2, <1>8
<1>10. Pending \cup {at} \subseteq Pending'
  <2>1. Pending' = UNION {ParkedIn(open', loops', k) : k \in DOMAIN open}
    BY DEF Pending, Parked
  <2>2. m \in DOMAIN open
    BY <1>2, <1>5
  <2> QED
    BY <1>9, <2>1, <2>2 DEF Pending
<1> QED
  BY <1>3, <1>9, <1>10

LEMMA BreakFlow ==
  ASSUME Base, AllAvoided, InParse, Break
  PROVE  InParse'
<1>1. /\ Base' /\ Grown(code, code', Pending) /\ Len(code') = Len(code) + 3
      /\ loops' = Append(Front(loops), Append(Last(loops), Len(code) + 2))
  BY BreakStep, BreakGrows DEF Grew
<1>2. /\ Ready(code, Pending, Exits) /\ Exits \subseteq At(Depth) /\ Depth \in Nat /\ phase = "parse"
      /\ Lo \in Nat /\ Lo <= Len(code) /\ Len(code) \in Nat
      /\ SitesInv /\ ParseInv /\ SavedInv
  BY Starts
<1>3. /\ phase' = phase /\ saved' = saved /\ arena' = arena /\ funcs' = funcs
      /\ open' = open /\ loops # <<>> /\ locals' = locals
      /\ locals = open[LoopBase].base /\ code' = Emit(code, Depth, Placeholder(OP_JUMP))
  BY DEF Break, Typing, AllAvoided, Emits, InLoop
<1>4. OP_JUMP \in Forward /\ OP_JUMP \in Byte /\ Ahead(OP_JUMP, Depth) \in Nat
      /\ Beyond(OP_JUMP, Depth) = Depth
  BY <1>2, Opcodes DEF Forward, Ahead, Beyond, OP_JUMP, OP_JUMP_IF_FALSE
<1>5. JumpsOn(code', code, Pending, Depth, OP_JUMP)
  BY <1>2, <1>3, <1>4, EmitsForward
<1>6. PICK at : at = Len(code) + 2
  OBVIOUS
<1>7. /\ Ready(code', Pending \cup {at}, {})
      /\ Site(code', at, Depth)
      /\ code'[at - 1].path = PathOf(open)
      /\ IsEmitted(code', code, Depth, Placeholder(OP_JUMP), 3)
  <2>1. at - 1 = Len(code) + 1
    BY <1>2, <1>6
  <2> QED
    BY <1>4, <1>5, <1>6, <2>1 DEF JumpsOn
<1>8. IsStack(open) /\ StackInv /\ IsTable(loops) /\ Len(open) \in Nat /\ DOMAIN open = 1 .. Len(open)
  BY Parsing, StackFacts
<1>9. RowWith(loops, at, loops') /\ at \in Nat
  <2>1. at \in Nat
    BY <1>2, <1>6
  <2>2. loops' = Append(Front(loops), Append(Last(loops), at))
    BY <1>1, <1>6
  <2>3. IsTable(loops)
    BY <1>8
  <2> QED
    BY <1>3, <2>1, <2>2, <2>3, RowWithIs, Zenon
<1>10. PICK m : m = LoopBase
  OBVIOUS
<1>11. /\ \A k \in DOMAIN open :
              /\ k # m => ParkedIn(open', loops', k) = Parked(k)
              /\ k = m => ParkedIn(open', loops', k) = Parked(k) \cup {at}
       /\ Pending \cup {at} \subseteq Pending'
  BY <1>3, <1>9, <1>10, BreakRows
<1>12. IsInnermostLoop(m)
  BY <1>3, <1>10, InnermostLoop
<1>13. /\ m \in 1 .. Len(open) /\ open[m].kind \in LoopKinds
       /\ \A i \in m + 1 .. Len(open) : open[i].kind \notin LoopKinds
  BY <1>8, <1>12 DEF IsInnermostLoop
<1>14. LevelIn(open, m) = Depth
  <2>1. CASE Within(open)
    BY <1>3, <1>10, <2>1, DepthIs DEF LevelIn, DepthFacts
  <2>2. CASE ~Within(open)
    <3>1. \A i \in m + 1 .. Len(open) : open[i].kind \notin {"for"}
      BY <1>13 DEF LoopKinds
    <3>2. m \in 0 .. Len(open)
      BY <1>13
    <3>3. Count({"for"}, open, m) = Count({"for"}, open, Len(open))
      BY <1>8, <3>1, <3>2, CountTop
    <3> QED
      BY <2>2, <3>3, DepthIs DEF LevelIn, DepthFacts
  <2> QED
    BY <2>1, <2>2
<1>15. SiteFits(code', open', m, at)
  <2>1. Lands(PathOf(open), open, m - 1)
    <3>1. Lands(PathOf(open), open, Len(open)) /\ m - 1 \in 0 .. Len(open)
      BY <1>8, <1>13, OwnPath
    <3> QED
      BY <1>8, <3>1, LandsUpTo
  <2>2. open[m].kind # "then"
    BY <1>13 DEF LoopKinds
  <2> QED
    BY <1>3, <1>7, <1>14, <2>1, <2>2 DEF SiteFits
<1>16. SitesInv'
  <2>1. Len(open) \in 0 .. Len(open) /\ Len(open) <= Len(open') /\ Alike(open, open', Len(open))
    BY <1>3, <1>8 DEF Alike
  <2>2. \A k \in 1 .. Len(open) : \A x \in ParkedIn(open', loops', k) :
           x \in Parked(k) \/ SiteFits(code', open', k, x)
    BY <1>8, <1>11, <1>15
  <2>3. \A k \in Len(open) + 1 .. Len(open') : FALSE
    BY <1>3, <1>8
  <2> QED
    BY <1>1, <1>2, <2>1, <2>2, <2>3, SitesOn
<1>17. Tailed'
  <2>1. Len(code') > Lo /\ code'[Len(code')].at = Operand
    <3>1. 3 \in 1 .. 3 /\ 3 > 1
      OBVIOUS
    <3> QED
      BY <1>2, <1>7, <3>1, NewTail
  <2>2. Lo' = Lo
    BY <1>3 DEF Lo, Nested
  <2> QED
    BY <2>1, <2>2 DEF Tailed
<1>18. Stays
  BY <1>3 DEF Stays, Lo, Nested
<1>19. Widens({}, Exits')
  BY DEF Widens
<1>20. ParseInv'
  BY <1>1, <1>2, <1>7, <1>11, <1>18, <1>19, ParseOn
<1>21. SavedInv'
  BY <1>2, <1>3 DEF SavedInv
<1> QED
  BY <1>2, <1>3, <1>16, <1>17, <1>20, <1>21, TailedThen DEF InParse

-----------------------------------------------------------------------------
(* A construct opens. *)
PushedOn(o, x) ==
  /\ IsStack(open') /\ Stays
  /\ Len(open') = Len(open) + 1 /\ Len(open) \in Nat
  /\ \A k \in 1 .. Len(open) : open'[k] = open[k] /\ ParkedIn(open', loops', k) = Parked(k)
  /\ open'[Len(open) + 1] = o
  /\ ParkedIn(open', loops', Len(open) + 1) = {x}

LEMMA PushedAlike ==
  ASSUME NEW o, NEW x, PushedOn(o, x)
  PROVE  /\ Alike(open, open', Len(open)) /\ UnitOf(open') = UnitOf(open)
         /\ Within(open') <=> Within(open)
<1>1. UnitOf(open') = UnitOf(open)
  BY UnitStays DEF PushedOn
<1>2. Within(open') <=> Within(open)
  BY DEF PushedOn, Stays, Nested
<1> QED
  BY <1>1, <1>2 DEF Alike, PushedOn

LEMMA PushedCount ==
  ASSUME NEW o, NEW x, PushedOn(o, x), NEW n, n = Len(open) + 1
  PROVE  Count({"for"}, open', n) = Count({"for"}, open, Len(open)) + Slot(o)
<1>1. Len(open) \in Nat /\ \A i \in 1 .. Len(open) : open'[i].kind = open[i].kind
  BY DEF PushedOn
<1>2. Count({"for"}, open', Len(open)) = Count({"for"}, open, Len(open))
  BY <1>1, CountAgrees
<1>3. Count({"for"}, open', Len(open) + 1)
        = Count({"for"}, open', Len(open)) + (IF open'[Len(open) + 1].kind \in {"for"} THEN 1 ELSE 0)
  BY <1>1, CountStep
<1> QED
  BY <1>2, <1>3 DEF PushedOn, Slot

LEMMA NewName ==
  ASSUME Base
  PROVE  typed \notin Arms(PathOf(open), "then")
<1>1. Plain(open) /\ "then" \in ArmKinds
  BY PlainOpen DEF ArmKinds
<1>2. Arms(PathOf(open), "then") = {open[k].id : k \in {j \in DOMAIN open : open[j].kind = "then"}}
  BY <1>1, ArmsOf
<1>3. \A k \in DOMAIN open : open[k].kind = "then" => open[k].id < typed
  BY Parsing DEF StackInv
<1>4. typed \in Nat
  BY Parsing
<1> QED
  BY <1>2, <1>3, <1>4

LEMMA PushLands ==
  ASSUME NEW o, NEW x, PushedOn(o, x), o.kind # "else"
  PROVE  \A p : Lands(p, open, Len(open)) => Lands(p, open', Len(open'))
<1> SUFFICES ASSUME NEW p, Lands(p, open, Len(open)) PROVE Lands(p, open', Len(open'))
  OBVIOUS
<1>1. UnitOf(open') = UnitOf(open)
  BY PushedAlike
<1>2. ASSUME NEW j \in 1 .. Len(open'), open'[j].kind = "else" PROVE open'[j].id \notin Arms(p, "then")
  <2>1. j # Len(open) + 1
    BY <1>2 DEF PushedOn
  <2>2. j \in 1 .. Len(open) /\ open'[j] = open[j]
    BY <2>1 DEF PushedOn
  <2> QED
    BY <1>2, <2>2 DEF Lands
<1> QED
  BY <1>1, <1>2 DEF Lands

LEMMA PushSites ==
  ASSUME Base, InParse, Base', Grown(code, code', Pending),
         NEW o, NEW x, PushedOn(o, x), o.id = typed, o.kind # "else",
         NEW d, LevelIn(open', Len(open) + 1) = d,
         Site(code', x, d), code'[x - 1].path = PathOf(open),
         o.kind \in LoopKinds => code'[o.start].at = d /\ code'[o.start].path = PathOf(open)
  PROVE  SitesInv' /\ Pending \cup {x} \subseteq Pending'
<1>1. phase = "parse" /\ SitesInv /\ ParseInv
  BY DEF InParse
<1>2. PICK n : n = Len(open)
  OBVIOUS
<1>3. /\ n \in Nat /\ Len(open') = n + 1 /\ DOMAIN open' = 1 .. n + 1 /\ DOMAIN open = 1 .. n
      /\ \A k \in 1 .. n : open'[k] = open[k] /\ ParkedIn(open', loops', k) = Parked(k)
      /\ open'[n + 1] = o /\ ParkedIn(open', loops', n + 1) = {x}
  <2>1. IsStack(open) /\ IsStack(open')
    BY Parsing DEF PushedOn
  <2> QED
    BY <1>2, <2>1, StackFacts DEF PushedOn
<1>4. Alike(open, open', n) /\ UnitOf(open') = UnitOf(open)
  BY <1>2, PushedAlike
<1>5. Lands(PathOf(open), open', n)
  <2>1. Lands(PathOf(open), open, n)
    BY <1>2, OwnPath
  <2> QED
    BY <1>3, <1>4, <2>1, LandsOn DEF Alike
<1>6. SiteFits(code', open', n + 1, x)
  <2>1. (n + 1) - 1 = n
    BY <1>3
  <2>2. typed \notin Arms(PathOf(open), "then")
    BY NewName
  <2> QED
    BY <1>2, <1>3, <1>5, <2>1, <2>2 DEF SiteFits
<1>7. HeadFits(code', open', n + 1)
  <2> SUFFICES ASSUME o.kind \in LoopKinds PROVE HeadFits(code', open', n + 1)
    BY <1>3 DEF HeadFits
  <2>1. PathOf(open)[1] = UnitOf(open)
    BY <1>1, Frame
  <2>2. ASSUME NEW i \in 1 .. n + 1, open'[i].kind = "then"
        PROVE  open'[i].id \notin Arms(PathOf(open), "else")
    <3>1. i # n + 1
      BY <1>3, <2>2 DEF LoopKinds
    <3>2. i \in 1 .. n
      BY <1>3, <3>1
    <3>3. open'[i] = open[i] /\ i \in DOMAIN open
      BY <1>3, <3>2
    <3> QED
      BY <2>2, <3>3, OwnPath
  <2> QED
    BY <1>2, <1>3, <1>4, <2>1, <2>2 DEF HeadFits
<1>8. SitesInv'
  <2>1. n \in 0 .. Len(open) /\ n <= Len(open')
    BY <1>2, <1>3
  <2>2. \A k \in 1 .. n : \A y \in ParkedIn(open', loops', k) :
           y \in Parked(k) \/ SiteFits(code', open', k, y)
    BY <1>3
  <2>3. \A k \in n + 1 .. Len(open') :
           /\ \A y \in ParkedIn(open', loops', k) : SiteFits(code', open', k, y)
           /\ HeadFits(code', open', k)
    <3> SUFFICES ASSUME NEW k \in n + 1 .. Len(open')
                 PROVE  /\ \A y \in ParkedIn(open', loops', k) : SiteFits(code', open', k, y)
                        /\ HeadFits(code', open', k)
      OBVIOUS
    <3>1. k = n + 1
      BY <1>3
    <3> QED
      BY <1>3, <1>6, <1>7, <3>1
  <2> QED
    BY <1>1, <1>4, <2>1, <2>2, <2>3, SitesOn
<1>9. Pending \cup {x} \subseteq Pending'
  <2>1. Pending' = UNION {ParkedIn(open', loops', k) : k \in DOMAIN open'}
    BY DEF Pending, Parked
  <2>2. n + 1 \in DOMAIN open' /\ \A k \in DOMAIN open : k \in DOMAIN open' /\ k \in 1 .. n
    BY <1>3
  <2> QED
    BY <1>3, <2>1, <2>2, SMTT(30) DEF Pending
<1> QED
  BY <1>8, <1>9

LEMMA PushFlow ==
  ASSUME Base, InParse, Base', phase' = phase, saved' = saved, Grown(code, code', Pending),
         NEW o, NEW x, PushedOn(o, x), o.id = typed, o.kind # "else",
         NEW d, LevelIn(open', Len(open) + 1) = d,
         Site(code', x, d), code'[x - 1].path = PathOf(open),
         o.kind \in LoopKinds => code'[o.start].at = d /\ code'[o.start].path = PathOf(open),
         NEW d2, d2 = Depth', Ready(code', Pending \cup {x}, At(d2)),
         Nested => Len(code') > Lo /\ code'[Len(code')].at = Operand
  PROVE  InParse'
<1>1. phase = "parse" /\ ParseInv /\ SavedInv
  BY DEF InParse
<1>2. SitesInv' /\ Pending \cup {x} \subseteq Pending'
  BY PushSites
<1>3. Stays
  BY DEF PushedOn
<1>4. Tailed'
  BY <1>3 DEF Tailed, Stays
<1>5. TailInv' /\ ~Returned(code)'
  BY <1>4, TailedThen
<1>6. At(d2) \subseteq At(d2)
  OBVIOUS
<1>7. \A p : Lands(p, open, Len(open)) => Lands(p, open', Len(open'))
  BY PushLands
<1>8. Widens(At(d2), Exits')
  BY <1>5, <1>6, <1>7, ExitsThen
<1>9. ParseInv'
  BY <1>1, <1>2, <1>3, <1>8, ParseOn
<1>10. SavedInv'
  BY <1>1 DEF SavedInv
<1> QED
  BY <1>1, <1>2, <1>5, <1>9, <1>10 DEF InParse

LEMMA Pushes ==
  ASSUME Base, Base', arena' = arena, funcs' = funcs, NEW o \in Construct, o.kind # "func",
         open' = Append(open, o), o.id = typed, typed' = typed + 1,
         loops' = IF o.kind \in LoopKinds THEN Append(loops, <<>>) ELSE loops,
         NEW n \in Nat, Nested => o.base = locals + Slot(o) /\ locals' = locals + Slot(o) + n,
         ~Nested => o.base = 0 /\ locals' = 0 /\ n = 0,
         NEW x, x = IF o.kind \in LoopKinds THEN o.exit ELSE o.patch
  PROVE  /\ PushedOn(o, x) /\ LevelIn(open', Len(open) + 1) = Depth + Slot(o)
         /\ Depth' = Depth + Slot(o) + n
<1>1. locals' \in Nat /\ locals \in Nat /\ Slot(o) \in Nat /\ typed \in Nat
  BY Parsing, ParsingThen DEF ParsingFacts, Slot
<1>2. Nested => o.base = locals + Slot(o) /\ o.base <= locals'
  BY <1>1
<1>3. ~Nested => o.base = 0 /\ locals' = 0
  OBVIOUS
<1>4. /\ IsStack(open') /\ Lo' = Lo /\ (Nested' <=> Nested)
      /\ Nested => open'[1] = open[1]
      /\ Len(open') = Len(open) + 1 /\ Len(open) \in Nat
      /\ \A k \in 1 .. Len(open) : open'[k] = open[k] /\ ParkedIn(open', loops', k) = Parked(k)
      /\ open'[Len(open) + 1] = o
      /\ ParkedIn(open', loops', Len(open) + 1) = {x}
  BY <1>1, <1>2, <1>3, StackPushed
<1>5. PushedOn(o, x)
  BY <1>4 DEF PushedOn, Stays
<1>6. PICK m : m = Len(open) + 1
  OBVIOUS
<1>7. Count({"for"}, open', m) = Count({"for"}, open, Len(open)) + Slot(o)
  BY <1>5, <1>6, PushedCount
<1>8. Within(open') <=> Within(open)
  BY <1>5, PushedAlike
<1>9. /\ Depth' = IF Within(open') THEN locals' ELSE Count({"for"}, open', Len(open'))
      /\ Depth = IF Within(open) THEN locals ELSE Count({"for"}, open, Len(open))
      /\ Depth \in Nat
  BY DepthIs, DepthThen DEF DepthFacts
<1>10. LevelIn(open', m) = IF Within(open') THEN o.base ELSE Count({"for"}, open', m)
  BY <1>4, <1>6 DEF LevelIn
<1>11. Nested <=> Within(open)
  BY DEF Nested
<1>12. LevelIn(open', m) = Depth + Slot(o)
  BY <1>7, <1>8, <1>9, <1>10, <1>11
<1>13. Depth' = Depth + Slot(o) + n
  BY <1>1, <1>4, <1>6, <1>7, <1>8, <1>9, <1>11
<1> QED
  BY <1>5, <1>6, <1>12, <1>13

LEMMA SiteBegins ==
  ASSUME NEW c, NEW e, Begins(c, e), NEW x, x - 1 \in 1 .. Len(c), NEW d, Site(c, x, d)
  PROVE  Site(e, x, d) /\ e[x - 1] = c[x - 1]
<1>1. e[x - 1] = c[x - 1]
  BY DEF Begins
<1>2. FarDepth(e, x - 1) = FarDepth(c, x - 1)
  BY <1>1, SameCells
<1> QED
  BY <1>1, <1>2 DEF Site

LEMMA IfFlow ==
  ASSUME Base, InParse, If
  PROVE  InParse'
<1>1. PICK x : x = Len(code) + 4
  OBVIOUS
<1>2. PICK o : o = [kind |-> "then", id |-> typed, base |-> locals, patch |-> x]
  OBVIOUS
<1>3. Base' /\ Grown(code, code', Pending) /\ open' = Append(open, o)
  BY <1>1, <1>2, IfStep, IfGrows DEF Grew
<1>4. locals \in Nat /\ typed \in Nat /\ x \in Nat /\ (~Nested => locals = 0)
  BY <1>1, Bases
<1>5. /\ o \in Construct /\ o.kind # "func" /\ o.kind \notin LoopKinds
      /\ o.id = typed /\ o.base = locals /\ o.patch = x /\ Slot(o) = 0
  BY <1>2, <1>4, ThenOpens
<1>6. o.kind # "else"
  BY <1>2
<1>7. /\ phase' = phase /\ arena' = arena /\ funcs' = funcs /\ saved' = saved
      /\ typed' = typed + 1 /\ loops' = loops /\ locals' = locals
      /\ code' = Test(code, Depth, OP_JUMP_IF_FALSE)
  BY DEF If, Typing, Emits
<1>8. /\ Ready(code, Pending, Exits) /\ Exits \subseteq At(Depth) /\ Depth \in Nat /\ phase = "parse"
      /\ Lo \in Nat /\ Lo <= Len(code) /\ Len(code) \in Nat
  BY Starts
<1>9. TestedOn(code', code, Pending, Depth, OP_JUMP_IF_FALSE)
  BY <1>7, <1>8, TestReady
<1>10. Ahead(OP_JUMP_IF_FALSE, Depth + 1) = Depth /\ x - 1 = Len(code) + 3
  BY <1>1, <1>8 DEF Ahead
<1>11. /\ Ready(code', Pending \cup {x}, At(Depth)) /\ Site(code', x, Depth)
       /\ code'[x - 1].path = PathOf(open)
       /\ Len(code') = Len(code) + 5 /\ code'[Len(code')].at = Operand
  BY <1>1, <1>9, <1>10 DEF TestedOn
<1>12. /\ PushedOn(o, x) /\ LevelIn(open', Len(open) + 1) = Depth + Slot(o)
       /\ Depth' = Depth + Slot(o) + 0
  BY <1>3, <1>4, <1>5, <1>7, Pushes
<1>13. LevelIn(open', Len(open) + 1) = Depth /\ Depth' = Depth
  BY <1>5, <1>8, <1>12
<1>14. Len(code') > Lo
  BY <1>8, <1>11
<1> QED
  BY <1>3, <1>5, <1>6, <1>7, <1>11, <1>12, <1>13, <1>14, PushFlow

LEMMA IfLetFlow ==
  ASSUME Base, InParse, IfLet
  PROVE  InParse'
<1>1. PICK x : x = Len(code) + 4
  OBVIOUS
<1>2. PICK o : o = [kind |-> "then", id |-> typed, base |-> locals, patch |-> x]
  OBVIOUS
<1>3. Base' /\ Grown(code, code', Pending) /\ open' = Append(open, o)
  BY <1>1, <1>2, IfLetStep, IfLetGrows DEF Grew
<1>4. locals \in Nat /\ typed \in Nat /\ x \in Nat /\ (~Nested => locals = 0)
      /\ (InFunction <=> Nested)
  BY <1>1, Bases
<1>5. /\ o \in Construct /\ o.kind # "func" /\ o.kind \notin LoopKinds
      /\ o.id = typed /\ o.base = locals /\ o.patch = x /\ Slot(o) = 0
  BY <1>2, <1>4, ThenOpens
<1>6. o.kind # "else"
  BY <1>2
<1>7. /\ phase' = phase /\ arena' = arena /\ funcs' = funcs /\ saved' = saved
      /\ typed' = typed + 1 /\ loops' = loops
  BY DEF IfLet, Typing
<1>8. /\ Ready(code, Pending, Exits) /\ Exits \subseteq At(Depth) /\ Depth \in Nat /\ phase = "parse"
      /\ Lo \in Nat /\ Lo <= Len(code) /\ Len(code) \in Nat
  BY Starts
<1>c. PICK c : c = Test(code, Depth, OP_IF_LET)
  OBVIOUS
<1>d. PICK d1 : d1 = Depth + 1
  OBVIOUS
<1>9. TestedOn(c, code, Pending, Depth, OP_IF_LET)
  BY <1>8, <1>c, TestReady
<1>10. Ahead(OP_IF_LET, Depth + 1) = d1 /\ x - 1 = Len(code) + 3 /\ d1 \in Nat
  BY <1>1, <1>8, <1>d DEF Ahead, OP_IF_LET, OP_JUMP_IF_FALSE
<1>11. /\ Ready(c, Pending \cup {x}, At(d1)) /\ At(d1) \subseteq At(d1) /\ Site(c, x, Depth)
       /\ c[x - 1].path = PathOf(open)
       /\ Len(c) = Len(code) + 5 /\ c[Len(c)].at = Operand
  BY <1>1, <1>9, <1>10 DEF TestedOn
<1>12. CASE Nested
  <2>1. code' = c /\ locals' = locals + 1
    BY <1>4, <1>c, <1>12 DEF IfLet, Emits
  <2>2. /\ PushedOn(o, x) /\ LevelIn(open', Len(open) + 1) = Depth + Slot(o)
        /\ Depth' = Depth + Slot(o) + 1
    BY <1>3, <1>4, <1>5, <1>7, <1>12, <2>1, Pushes
  <2>3. LevelIn(open', Len(open) + 1) = Depth /\ Depth' = d1
    BY <1>5, <1>8, <1>d, <2>2
  <2>4. Len(code') > Lo /\ code'[Len(code')].at = Operand
    BY <1>8, <1>11, <2>1
  <2> QED
    BY <1>3, <1>5, <1>6, <1>7, <1>11, <2>1, <2>2, <2>3, <2>4, PushFlow
<1>13. CASE ~Nested
  <2>1. code' = Emit(c, d1, DefineGlobal) /\ locals' = locals
    BY <1>4, <1>c, <1>d, <1>13 DEF IfLet, Emits
  <2>2. /\ PushedOn(o, x) /\ LevelIn(open', Len(open) + 1) = Depth + Slot(o)
        /\ Depth' = Depth + Slot(o) + 0
    BY <1>3, <1>4, <1>5, <1>7, <1>13, <2>1, Pushes
  <2>3. LevelIn(open', Len(open) + 1) = Depth /\ Depth' = Depth
    BY <1>5, <1>8, <2>2
  <2>4. Moves(DefineGlobal, -1)
    BY MovesOf
  <2>p. PICK P : P = Pending \cup {x}
    OBVIOUS
  <2>r. Ready(c, P, At(d1))
    BY <1>11, <2>p
  <2>5. Moved(code', c, P, d1, DefineGlobal, Depth)
    BY ONLY <1>8, <1>d, <1>10, <1>11, <2>1, <2>4, <2>r, GoesDown, Base
  <2>6. Ready(code', P, At(Depth)) /\ IsEmitted(code', c, d1, DefineGlobal, Len(DefineGlobal))
    BY <2>5, MovedIs
  <2>7. Begins(c, code')
    BY <2>6 DEF IsEmitted
  <2>8. x - 1 \in 1 .. Len(c)
    BY <1>8, <1>10, <1>11
  <2>9. Site(code', x, Depth) /\ code'[x - 1].path = PathOf(open)
    BY <1>11, <2>7, <2>8, SiteBegins
  <2>10. Ready(code', Pending \cup {x}, At(Depth))
    BY <2>6, <2>p
  <2> QED
    BY <1>3, <1>5, <1>6, <1>7, <1>13, <2>2, <2>3, <2>9, <2>10, PushFlow
<1> QED
  BY <1>12, <1>13

LEMMA WhileFlow ==
  ASSUME Base, InParse, While
  PROVE  InParse'
<1>1. PICK x : x = Len(code) + 4
  OBVIOUS
<1>b. PICK b : b = Len(code) + 1
  OBVIOUS
<1>2. PICK o : o = [kind |-> "while", id |-> typed, base |-> locals, start |-> b, exit |-> x]
  OBVIOUS
<1>3. Base' /\ Grown(code, code', Pending) /\ open' = Append(open, o)
  BY <1>1, <1>b, <1>2, WhileStep, WhileGrows DEF Grew
<1>4. locals \in Nat /\ typed \in Nat /\ x \in Nat /\ b \in Nat /\ (~Nested => locals = 0)
  BY <1>1, <1>b, Bases
<1>5. /\ o \in Construct /\ o.kind # "func" /\ o.kind \in LoopKinds
      /\ o.id = typed /\ o.base = locals /\ o.exit = x /\ o.start = b /\ Slot(o) = 0
  <2>1. "while" \in LoopKinds
    BY DEF LoopKinds
  <2> QED
    BY <1>2, <1>4, <2>1, LoopOpens
<1>6. o.kind # "else"
  BY <1>2
<1>7. /\ phase' = phase /\ arena' = arena /\ funcs' = funcs /\ saved' = saved
      /\ typed' = typed + 1 /\ loops' = Append(loops, <<>>) /\ locals' = locals
      /\ code' = Test(code, Depth, OP_JUMP_IF_FALSE)
  BY DEF While, Typing, Emits
<1>8. /\ Ready(code, Pending, Exits) /\ Exits \subseteq At(Depth) /\ Depth \in Nat /\ phase = "parse"
      /\ Lo \in Nat /\ Lo <= Len(code) /\ Len(code) \in Nat
  BY Starts
<1>9. TestedOn(code', code, Pending, Depth, OP_JUMP_IF_FALSE)
  BY <1>7, <1>8, TestReady
<1>10. Ahead(OP_JUMP_IF_FALSE, Depth + 1) = Depth /\ x - 1 = Len(code) + 3
  BY <1>1, <1>8 DEF Ahead
<1>11. /\ Ready(code', Pending \cup {x}, At(Depth)) /\ Site(code', x, Depth)
       /\ code'[x - 1].path = PathOf(open)
       /\ code'[b].at = Depth /\ code'[b].path = PathOf(open)
       /\ Len(code') = Len(code) + 5 /\ code'[Len(code')].at = Operand
  BY <1>1, <1>b, <1>9, <1>10 DEF TestedOn
<1>12. /\ PushedOn(o, x) /\ LevelIn(open', Len(open) + 1) = Depth + Slot(o)
       /\ Depth' = Depth + Slot(o) + 0
  BY <1>3, <1>4, <1>5, <1>7, Pushes
<1>13. LevelIn(open', Len(open) + 1) = Depth /\ Depth' = Depth
  BY <1>5, <1>8, <1>12
<1>14. Len(code') > Lo
  BY <1>8, <1>11
<1> QED
  BY <1>3, <1>5, <1>6, <1>7, <1>11, <1>12, <1>13, <1>14, PushFlow

(* The head of a for loop: both ends, the lower one into the variable, and *)
(* the test the loop comes back to.                                        *)
ForOn(e, c, P, d) ==
  /\ Ready(e, P \cup {Len(c) + 13}, At(d + 1)) /\ Site(e, Len(c) + 13, d + 1)
  /\ e[Len(c) + 12].path = PathOf(open)
  /\ e[Len(c) + 8].at = d + 1 /\ e[Len(c) + 8].path = PathOf(open)
  /\ Len(e) = Len(c) + 14 /\ e[Len(c) + 14].at = Operand

LEMMA ForReady ==
  ASSUME Base, phase = "parse", NEW c, NEW P, NEW d \in Nat, NEW E, Ready(c, P, E), E \subseteq At(d),
         NEW k \in Byte,
         NEW c1, c1 = Emit(c, d, PushInt(k)),
         NEW c2, c2 = Emit(c1, d + 1, PushInt(k)),
         NEW c3, c3 = Emit(c2, d + 2, <<OP_SWAP>>),
         NEW c4, c4 = Emit(c3, d + 2, DefineGlobal),
         NEW c5, c5 = Emit(c4, d + 1, GetGlobal),
         NEW c6, c6 = Emit(c5, d + 2, <<OP_OVER>>),
         NEW c7, c7 = Emit(c6, d + 3, <<OP_LT>>),
         NEW c8, c8 = Emit(c7, d + 2, Placeholder(OP_JUMP_IF_FALSE))
  PROVE  ForOn(c8, c, P, d) /\ Len(c4) = Len(c) + 7
<1>1. PICK d1 : d1 = d + 1
  OBVIOUS
<1>2. PICK d2 : d2 = d + 2
  OBVIOUS
<1>3. PICK d3 : d3 = d + 3
  OBVIOUS
<1>4. d1 \in Nat /\ d2 \in Nat /\ d3 \in Nat /\ d2 = d1 + 1 /\ d3 = d2 + 1
  BY <1>1, <1>2, <1>3
<1>n1. d1 \in Nat
  BY <1>4
<1>n2. d2 \in Nat
  BY <1>4
<1>n3. d3 \in Nat
  BY <1>4
<1>s2. d2 = d1 + 1
  BY <1>4
<1>s3. d3 = d2 + 1
  BY <1>4
<1>m1. Moves(PushInt(k), 1)
  BY MovesOf
<1>m2. Moves(<<OP_SWAP>>, 0)
  BY MovesOf
<1>m3. Moves(DefineGlobal, -1)
  BY MovesOf
<1>m4. Moves(GetGlobal, 1)
  BY MovesOf
<1>m5. Moves(<<OP_OVER>>, 1)
  BY MovesOf
<1>m6. Moves(<<OP_LT>>, -1)
  BY MovesOf
<1>5. Moved(c1, c, P, d, PushInt(k), d1)
  BY ONLY <1>1, <1>m1, GoesUp, Base, phase = "parse", d \in Nat, Ready(c, P, E), E \subseteq At(d),
          c1 = Emit(c, d, PushInt(k))
<1>r1. Ready(c1, P, At(d1)) /\ At(d1) \subseteq At(d1)
  BY <1>5, MovedIs
<1>e2. c2 = Emit(c1, d1, PushInt(k))
  BY <1>1
<1>6. Moved(c2, c1, P, d1, PushInt(k), d2)
  BY ONLY <1>n1, <1>s2, <1>e2, <1>m1, <1>r1, GoesUp, Base, phase = "parse"
<1>r2. Ready(c2, P, At(d2)) /\ At(d2) \subseteq At(d2)
  BY <1>6, MovedIs
<1>e3. c3 = Emit(c2, d2, <<OP_SWAP>>)
  BY <1>2
<1>7. Moved(c3, c2, P, d2, <<OP_SWAP>>, d2)
  BY ONLY <1>n2, <1>e3, <1>m2, <1>r2, GoesLevel, Base, phase = "parse"
<1>r3. Ready(c3, P, At(d2)) /\ At(d2) \subseteq At(d2)
  BY <1>7, MovedIs
<1>e4. c4 = Emit(c3, d2, DefineGlobal)
  BY <1>2
<1>8. Moved(c4, c3, P, d2, DefineGlobal, d1)
  BY ONLY <1>n1, <1>n2, <1>s2, <1>e4, <1>m3, <1>r3, GoesDown, Base, phase = "parse"
<1>r4. Ready(c4, P, At(d1)) /\ At(d1) \subseteq At(d1)
  BY <1>8, MovedIs
<1>e5. c5 = Emit(c4, d1, GetGlobal)
  BY <1>1
<1>9. Moved(c5, c4, P, d1, GetGlobal, d2)
  BY ONLY <1>n1, <1>s2, <1>e5, <1>m4, <1>r4, GoesUp, Base, phase = "parse"
<1>r5. Ready(c5, P, At(d2)) /\ At(d2) \subseteq At(d2)
  BY <1>9, MovedIs
<1>e6. c6 = Emit(c5, d2, <<OP_OVER>>)
  BY <1>2
<1>10. Moved(c6, c5, P, d2, <<OP_OVER>>, d3)
  BY ONLY <1>n2, <1>s3, <1>e6, <1>m5, <1>r5, GoesUp, Base, phase = "parse"
<1>r6. Ready(c6, P, At(d3)) /\ At(d3) \subseteq At(d3)
  BY <1>10, MovedIs
<1>e7. c7 = Emit(c6, d3, <<OP_LT>>)
  BY <1>3
<1>11. Moved(c7, c6, P, d3, <<OP_LT>>, d2)
  BY ONLY <1>n2, <1>n3, <1>s3, <1>e7, <1>m6, <1>r6, GoesDown, Base, phase = "parse"
<1>r7. Ready(c7, P, At(d2)) /\ At(d2) \subseteq At(d2)
  BY <1>11, MovedIs
<1>e8. c8 = Emit(c7, d2, Placeholder(OP_JUMP_IF_FALSE))
  BY <1>2
<1>12. OP_JUMP_IF_FALSE \in Forward /\ OP_JUMP_IF_FALSE \in Byte /\ OP_JUMP_IF_FALSE # OP_JUMP
  BY Opcodes DEF Forward, OP_JUMP, OP_JUMP_IF_FALSE
<1>13. Ahead(OP_JUMP_IF_FALSE, d2) = d1 /\ Beyond(OP_JUMP_IF_FALSE, d2) = d1
  BY <1>4, <1>12 DEF Ahead, Beyond
<1>14. JumpsOn(c8, c7, P, d2, OP_JUMP_IF_FALSE)
  <2>1. Ahead(OP_JUMP_IF_FALSE, d2) \in Nat
    BY <1>4, <1>13
  <2> QED
    BY ONLY <1>n2, <1>e8, <1>r7, <1>12, <2>1, EmitsForward, Base, phase = "parse"
<1>15. /\ Ready(c8, P \cup {Len(c7) + 2}, At(d1)) /\ Site(c8, Len(c7) + 2, d1)
       /\ c8[Len(c7) + 1].path = PathOf(open)
       /\ IsEmitted(c8, c7, d2, Placeholder(OP_JUMP_IF_FALSE), 3)
  BY <1>12, <1>13, <1>14 DEF JumpsOn
<1>16. /\ Len(PushInt(k)) = 2 /\ Len(<<OP_SWAP>>) = 1 /\ Len(DefineGlobal) = 2 /\ Len(GetGlobal) = 2
       /\ Len(<<OP_OVER>>) = 1 /\ Len(<<OP_LT>>) = 1
  BY PushIntBytes, GlobalBytes
<1>17. /\ Len(c) \in Nat /\ Len(c1) = Len(c) + 2 /\ Len(c2) = Len(c1) + 2 /\ Len(c3) = Len(c2) + 1
       /\ Len(c4) = Len(c3) + 2 /\ Len(c5) = Len(c4) + 2 /\ Len(c6) = Len(c5) + 1
       /\ Len(c7) = Len(c6) + 1 /\ Len(c8) = Len(c7) + 3
  <2>1. Len(c) \in Nat
    BY ReadyIs
  <2>2. Len(c8) = Len(c7) + 3
    BY <1>15 DEF IsEmitted
  <2>3. Len(c1) = Len(c) + 2
    BY <1>5, <1>16 DEF Moved
  <2>4. Len(c2) = Len(c1) + 2
    BY <1>6, <1>16 DEF Moved
  <2>5. Len(c3) = Len(c2) + 1
    BY <1>7, <1>16 DEF Moved
  <2>6. Len(c4) = Len(c3) + 2
    BY <1>8, <1>16 DEF Moved
  <2>7. Len(c5) = Len(c4) + 2
    BY <1>9, <1>16 DEF Moved
  <2>8. Len(c6) = Len(c5) + 1
    BY <1>10, <1>16 DEF Moved
  <2>9. Len(c7) = Len(c6) + 1
    BY <1>11, <1>16 DEF Moved
  <2> QED
    BY ONLY <2>1, <2>2, <2>3, <2>4, <2>5, <2>6, <2>7, <2>8, <2>9
<1>18. /\ Len(c4) = Len(c) + 7 /\ Len(c5) = Len(c) + 9 /\ Len(c6) = Len(c) + 10 /\ Len(c7) = Len(c) + 11
       /\ Len(c8) = Len(c) + 14
  BY ONLY <1>17
<1>19. c5[Len(c) + 8].at = d1 /\ c5[Len(c) + 8].path = PathOf(open)
  <2>1. IsEmitted(c5, c4, d1, GetGlobal, Len(GetGlobal))
    BY <1>9, MovedIs, Zenon
  <2>2. Len(c4) + 1 = Len(c) + 8
    BY ONLY <1>17, <1>18
  <2> QED
    BY <2>1, <2>2 DEF IsEmitted
<1>20. c8[Len(c) + 8] = c5[Len(c) + 8]
  <2>1. Begins(c5, c6)
    BY <1>10, Zenon DEF Moved, IsEmitted
  <2>2. Begins(c6, c7)
    BY <1>11, Zenon DEF Moved, IsEmitted
  <2>3. Begins(c7, c8)
    BY <1>15, Zenon DEF IsEmitted
  <2>4. PICK h : h = Len(c) + 8
    OBVIOUS
  <2>5. h \in 1 .. Len(c5) /\ h \in 1 .. Len(c6) /\ h \in 1 .. Len(c7)
    BY ONLY <1>17, <1>18, <2>4
  <2>6. c6[h] = c5[h]
    BY ONLY <2>1, <2>5 DEF Begins
  <2>7. c7[h] = c6[h]
    BY ONLY <2>2, <2>5 DEF Begins
  <2>8. c8[h] = c7[h]
    BY ONLY <2>3, <2>5 DEF Begins
  <2> QED
    BY <2>4, <2>6, <2>7, <2>8
<1>21. c8[Len(c) + 14].at = Operand
  <2>1. 3 \in 2 .. 3 /\ Len(c7) + 3 = Len(c) + 14
    BY ONLY <1>17, <1>18
  <2> QED
    BY <1>15, <2>1 DEF IsEmitted
<1>22. Len(c7) + 2 = Len(c) + 13 /\ Len(c7) + 1 = Len(c) + 12
  BY ONLY <1>17, <1>18
<1> QED
  BY <1>1, <1>15, <1>18, <1>19, <1>20, <1>21, <1>22 DEF ForOn

LEMMA ForInFlow ==
  ASSUME Base, InParse, NEW k \in Literals, ForIn(k)
  PROVE  InParse'
<1>1. PICK x : x = Len(code) + 13
  OBVIOUS
<1>b. PICK b : b = Len(code) + 8
  OBVIOUS
<1>c. PICK t : t = locals + (IF InFunction THEN 1 ELSE 0)
  OBVIOUS
<1>2. PICK o : o = [kind |-> "for", id |-> typed, base |-> t, start |-> b, exit |-> x]
  OBVIOUS
<1>3. Base' /\ Grown(code, code', Pending) /\ open' = Append(open, o)
  BY <1>1, <1>b, <1>c, <1>2, ForInStep, ForInGrows DEF Grew
<1>4. locals \in Nat /\ typed \in Nat /\ x \in Nat /\ b \in Nat /\ (~Nested => locals = 0)
      /\ (InFunction <=> Nested) /\ t \in Nat
  BY <1>1, <1>b, <1>c, Bases
<1>5. /\ o \in Construct /\ o.kind # "func" /\ o.kind \in LoopKinds
      /\ o.id = typed /\ o.base = t /\ o.exit = x /\ o.start = b /\ Slot(o) = 1
  <2>1. "for" \in LoopKinds
    BY DEF LoopKinds
  <2> QED
    BY <1>2, <1>4, <2>1, LoopOpens
<1>6. o.kind # "else"
  BY <1>2
<1>7. /\ phase' = phase /\ arena' = arena /\ funcs' = funcs /\ saved' = saved
      /\ typed' = typed + 1 /\ loops' = Append(loops, <<>>) /\ locals' = t
  BY <1>c DEF ForIn, Typing
<1>8. /\ Ready(code, Pending, Exits) /\ Exits \subseteq At(Depth) /\ Depth \in Nat /\ phase = "parse"
      /\ Lo \in Nat /\ Lo <= Len(code) /\ Len(code) \in Nat
  BY Starts
<1>9. ForOn(code', code, Pending, Depth)
  <2>0. k \in Byte
    BY LiteralByte
  <2>1. PICK c1 : c1 = Emit(code, Depth, PushInt(k))
    OBVIOUS
  <2>2. PICK c2 : c2 = Emit(c1, Depth + 1, PushInt(k))
    OBVIOUS
  <2>3. PICK c3 : c3 = Emit(c2, Depth + 2, <<OP_SWAP>>)
    OBVIOUS
  <2>4. PICK c4 : c4 = Emit(c3, Depth + 2, DefineGlobal)
    OBVIOUS
  <2>5. PICK c5 : c5 = Emit(c4, Depth + 1, GetGlobal)
    OBVIOUS
  <2>6. PICK c6 : c6 = Emit(c5, Depth + 2, <<OP_OVER>>)
    OBVIOUS
  <2>7. PICK c7 : c7 = Emit(c6, Depth + 3, <<OP_LT>>)
    OBVIOUS
  <2>8. PICK c8 : c8 = Emit(c7, Depth + 2, Placeholder(OP_JUMP_IF_FALSE))
    OBVIOUS
  <2>9. code' = c8
    BY ONLY <2>1, <2>2, <2>3, <2>4, <2>5, <2>6, <2>7, <2>8, ForIn(k) DEF ForIn, Emits
  <2>10. ForOn(c8, code, Pending, Depth) /\ Len(c4) = Len(code) + 7
    BY ONLY <1>8, <2>0, <2>1, <2>2, <2>3, <2>4, <2>5, <2>6, <2>7, <2>8, ForReady, Base, SMTT(30)
  <2> QED
    BY <2>9, <2>10
<1>10. x - 1 = Len(code) + 12
  BY <1>1, <1>8
<1>d. PICK d1 : d1 = Depth + 1
  OBVIOUS
<1>11. /\ Ready(code', Pending \cup {x}, At(d1)) /\ Site(code', x, d1)
       /\ code'[x - 1].path = PathOf(open)
       /\ code'[b].at = d1 /\ code'[b].path = PathOf(open)
       /\ Len(code') = Len(code) + 14 /\ code'[Len(code')].at = Operand
  BY <1>1, <1>b, <1>9, <1>10, <1>d DEF ForOn
<1>12. /\ PushedOn(o, x) /\ LevelIn(open', Len(open) + 1) = Depth + Slot(o)
       /\ Depth' = Depth + Slot(o) + 0
  <2>1. Nested => o.base = locals + Slot(o) /\ locals' = locals + Slot(o) + 0
    BY <1>c, <1>4, <1>5, <1>7
  <2>2. ~Nested => o.base = 0 /\ locals' = 0
    BY <1>c, <1>4, <1>5, <1>7
  <2> QED
    BY <1>3, <1>4, <1>5, <1>7, <2>1, <2>2, Pushes
<1>13. LevelIn(open', Len(open) + 1) = d1 /\ Depth' = d1
  BY <1>5, <1>8, <1>12, <1>d
<1>14. Len(code') > Lo
  BY <1>8, <1>11
<1> QED
  BY <1>3, <1>5, <1>6, <1>7, <1>11, <1>12, <1>13, <1>14, PushFlow

-----------------------------------------------------------------------------
(* A construct ends. *)
PoppedOn ==
  /\ IsStack(open') /\ Stays
  /\ Len(open) \in Nat \ {0} /\ Len(open') = Len(open) - 1
  /\ \A k \in 1 .. Len(open) - 1 : open'[k] = open[k] /\ ParkedIn(open', loops', k) = Parked(k)

LEMMA PopAlike ==
  ASSUME PoppedOn
  PROVE  /\ Alike(open, open', Len(open) - 1) /\ UnitOf(open') = UnitOf(open)
         /\ Within(open') <=> Within(open)
<1>1. Within(open') <=> Within(open)
  BY DEF PoppedOn, Stays, Nested
<1>2. UnitOf(open') = UnitOf(open)
  BY UnitStays DEF PoppedOn
<1> QED
  BY <1>1, <1>2 DEF PoppedOn, Alike

LEMMA TopFacts ==
  ASSUME Base, open # <<>>, NEW n, n = Len(open)
  PROVE  /\ n \in Nat \ {0} /\ n \in DOMAIN open /\ Innermost = open[n] /\ Innermost \in Construct
         /\ DepthLeft = LevelIn(open, n) /\ DepthLeft \in Nat
<1>1. IsStack(open) /\ StackInv /\ locals \in Nat
  BY Parsing
<1>2. n \in Nat \ {0} /\ n \in DOMAIN open
  BY <1>1, StackFacts
<1>3. Innermost = open[n] /\ Innermost \in Construct /\ DepthLeft = Level(n)
  BY <1>1, Depths
<1>4. Level(n) = LevelIn(open, n) /\ Level(n) \in Nat
  BY <1>2, DepthIs DEF DepthFacts
<1> QED
  BY <1>2, <1>3, <1>4

LEMMA Pops ==
  ASSUME Base, Base', open # <<>>, Innermost.kind # "func", open' = Front(open), arena' = arena,
         typed' = typed, funcs' = funcs,
         loops' = IF Innermost.kind \in LoopKinds THEN Front(loops) ELSE loops,
         Nested => locals' = Innermost.base - Slot(Innermost), ~Nested => locals' = 0
  PROVE  /\ PoppedOn /\ DepthLeft = Depth' + Slot(Innermost)
<1>1. /\ IsStack(open') /\ Lo' = Lo /\ (Nested' <=> Nested)
      /\ Nested => open'[1] = open[1]
      /\ Len(open) \in Nat /\ Len(open') = Len(open) - 1
      /\ \A k \in 1 .. Len(open) - 1 : open'[k] = open[k] /\ ParkedIn(open', loops', k) = Parked(k)
  BY StackPopped
<1>2. PICK n : n = Len(open)
  OBVIOUS
<1>3. /\ n \in Nat \ {0} /\ n \in DOMAIN open /\ Innermost = open[n] /\ Innermost \in Construct
      /\ DepthLeft = LevelIn(open, n) /\ DepthLeft \in Nat
  BY <1>2, TopFacts
<1>4. PoppedOn
  BY <1>1, <1>2, <1>3 DEF PoppedOn, Stays
<1>5. PICK m : m = n - 1
  OBVIOUS
<1>6. m \in Nat /\ n = m + 1 /\ Len(open') = m
  BY <1>1, <1>2, <1>3, <1>5
<1>7. Within(open') <=> Within(open)
  BY <1>4, PopAlike
<1>8. Depth' = IF Within(open') THEN locals' ELSE Count({"for"}, open', Len(open'))
  BY DepthThen DEF DepthFacts
<1>9. LevelIn(open, n) = IF Within(open) THEN Innermost.base ELSE Count({"for"}, open, n)
  BY <1>3 DEF LevelIn
<1>10. Count({"for"}, open, n) = Count({"for"}, open, m) + Slot(Innermost)
  <2>1. Count({"for"}, open, m + 1) = Count({"for"}, open, m) + (IF open[m + 1].kind \in {"for"} THEN 1 ELSE 0)
    BY <1>6, CountStep
  <2> QED
    BY <1>3, <1>6, <2>1 DEF Slot
<1>11. Count({"for"}, open', m) = Count({"for"}, open, m)
  <2>1. \A i \in 1 .. m : open'[i].kind = open[i].kind
    BY <1>1, <1>2, <1>5
  <2> QED
    BY <1>6, <2>1, CountAgrees
<1>12. Innermost.base \in Nat /\ Slot(Innermost) \in Nat
  BY <1>3, ConstructFacts DEF Slot
<1>13. Nested <=> Within(open)
  BY DEF Nested
<1>14. DepthLeft = Depth' + Slot(Innermost)
  <2>1. CASE Within(open)
    BY <1>3, <1>7, <1>8, <1>9, <1>12, <1>13, <2>1
  <2>2. CASE ~Within(open)
    BY <1>3, <1>6, <1>7, <1>8, <1>9, <1>10, <1>11, <2>2
  <2> QED
    BY <2>1, <2>2
<1> QED
  BY <1>4, <1>14

(* The jumps that construct parked are patched to what comes next. *)
EndsAt(q) ==
  \A p : (/\ Lands(p, open, Len(open) - 1)
          /\ Innermost.kind = "then" => Innermost.id \notin Arms(p, "then"))
            => Follows(p, q)

LEMMA ReadyPatched ==
  ASSUME Base, InParse, open # <<>>, NEW S, S = Parked(Len(open)),
         NEW c, NEW P, NEW E, Ready(c, P, E), Keeps(code, c), Len(c) < 65536,
         NEW d, d = DepthLeft, NEW q, EndsAt(q), NEW E2, Exit(d, q) \in E2, Widens(E, E2),
         NEW P2, P \subseteq P2 \cup S, NEW p, p = patch_jump_to_here(c, S)
  PROVE  Ready(p, P2, E2)
<1>1. phase = "parse" /\ SitesInv /\ ParseInv
  BY DEF InParse
<1>2. PICK n : n = Len(open)
  OBVIOUS
<1>3. /\ n \in Nat \ {0} /\ n \in DOMAIN open /\ Innermost = open[n]
      /\ d = LevelIn(open, n) /\ d \in Nat
  BY <1>2, TopFacts
<1>4. \A x \in S : SiteFits(code, open, n, x)
  BY <1>1, <1>2, <1>3, SitesAre DEF SitesFit
<1>5. /\ IsCode(c) /\ Len(c) \in Nat /\ Lo <= Len(c)
      /\ Region(c, Lo, Len(c), E, P, Len(funcs), EntryDepth, UnitOf(open))
  BY ReadyIs
<1>6. Lo \in Nat /\ Len(funcs) \in Nat
  BY <1>1, Frame
<1>7. Placed(open[n], S, Lo, Len(code))
  BY <1>1, <1>2, <1>3, PlacesOf
<1>8. Len(code) \in Nat /\ Len(code) <= Len(c)
  BY Parsing DEF Keeps
<1>9. ASSUME NEW x \in S
      PROVE  /\ x \in Nat /\ x - 1 \in Lo + 1 .. Len(c)
             /\ c[x - 1].at # Operand /\ c[x - 1].b \in Forward
             /\ FarDepth(c, x - 1) \in Nat
             /\ \E y \in E2 : y.d = FarDepth(c, x - 1) /\ Follows(c[x - 1].path, y.path)
  <2>1. x \in Lo + 2 .. Len(code) - 1
    BY <1>7 DEF Placed
  <2>2. x \in Nat /\ x - 1 \in Lo + 1 .. Len(c) /\ x - 1 \in 1 .. Len(code)
    BY <1>5, <1>6, <1>8, <2>1
  <2>3. Site(code, x, d) /\ Lands(code[x - 1].path, open, n - 1)
        /\ (open[n].kind = "then" => open[n].id \notin Arms(code[x - 1].path, "then"))
    BY <1>3, <1>4 DEF SiteFits
  <2>4. code[x - 1].at # Operand /\ code[x - 1].b \in Forward /\ FarDepth(code, x - 1) = d
    BY <2>3 DEF Site
  <2>5. c[x - 1] = code[x - 1]
    BY <2>2, <2>4 DEF Keeps
  <2>6. FarDepth(c, x - 1) = d
    BY <2>4, <2>5, SameCells
  <2>7. Follows(c[x - 1].path, q)
    BY <1>2, <1>3, <2>3, <2>5 DEF EndsAt
  <2>8. Exit(d, q).d = d /\ Exit(d, q).path = q
    BY DEF Exit
  <2> QED
    BY <1>3, <2>2, <2>4, <2>5, <2>6, <2>7, <2>8
<1>10. PICK h : h = Len(c)
  OBVIOUS
<1>11. Lo \in 0 .. h /\ h < 65536
  BY <1>5, <1>6, <1>10
<1>12. Region(p, Lo, h, E2, P2, Len(funcs), EntryDepth, UnitOf(open))
  <2>1. Region(c, Lo, h, E, P, Len(funcs), EntryDepth, UnitOf(open))
    BY <1>5, <1>10
  <2>2. \A x \in S : /\ x \in Nat /\ x - 1 \in Lo + 1 .. h
                     /\ c[x - 1].at # Operand /\ c[x - 1].b \in Forward
                     /\ FarDepth(c, x - 1) \in Nat
                     /\ \E y \in E2 : y.d = FarDepth(c, x - 1) /\ Follows(c[x - 1].path, y.path)
    BY <1>9, <1>10
  <2>3. IsCode(c)
    BY <1>5
  <2>4. PICK r : r = EntryDepth
    OBVIOUS
  <2>5. PICK u : u = UnitOf(open)
    OBVIOUS
  <2>6. PICK N \in Nat : N = Len(funcs)
    BY <1>6
  <2>7. PICK lo : lo = Lo
    OBVIOUS
  <2>8. Region(c, lo, h, E, P, N, r, u)
    BY ONLY <2>1, <2>4, <2>5, <2>6, <2>7
  <2>9. lo \in 0 .. h
    BY <1>11, <2>7
  <2>10. h < 65536
    BY <1>11
  <2>11. \A x \in S : FitsEnd(c, lo, h, E2, x)
    BY ONLY <2>2, <2>7 DEF FitsEnd
  <2>12. Region(p, lo, h, E2, P2, N, r, u)
    <3>1. N \in Nat
      BY <2>6
    <3> QED
      BY ONLY <1>10, <2>3, <2>8, <2>9, <2>10, <2>11, <3>1, RegionPatched, Widens(E, E2),
              P \subseteq P2 \cup S, p = patch_jump_to_here(c, S)
  <2> QED
    BY ONLY <2>4, <2>5, <2>6, <2>7, <2>12
<1>13. IsCode(p) /\ Len(p) = h
  BY <1>5, <1>10, <1>11, Patched
<1> QED
  BY <1>5, <1>10, <1>12, <1>13 DEF Ready

(* What is below the end of the function is not of its own level. *)
TailedOn(c) ==
  Nested => /\ Len(c) > Lo
            /\ c[Len(c)].at = Operand \/ Len(c[Len(c)].path) > 1

LEMMA TailedStays ==
  ASSUME Stays, TailedOn(code')
  PROVE  Tailed'
BY DEF Stays, Tailed, TailedOn

LEMMA PopFlow ==
  ASSUME Base, InParse, Base', phase' = phase, saved' = saved, Grown(code, code', Pending), PoppedOn,
         NEW d, d = Depth', NEW q, q = PathOf(open'),
         Ready(code', Pending \ Parked(Len(open)), {Exit(d, q)}), TailedOn(code')
  PROVE  InParse'
<1>1. phase = "parse" /\ ParseInv /\ SavedInv /\ SitesInv
  BY DEF InParse
<1>2. PICK n : n = Len(open)
  OBVIOUS
<1>3. PICK m : m = n - 1
  OBVIOUS
<1>4. /\ m \in Nat /\ n = m + 1 /\ Len(open') = m /\ DOMAIN open' = 1 .. m /\ DOMAIN open = 1 .. n
      /\ \A k \in 1 .. m : open'[k] = open[k] /\ ParkedIn(open', loops', k) = Parked(k)
  <2>1. IsStack(open) /\ IsStack(open')
    BY Parsing DEF PoppedOn
  <2> QED
    BY <1>2, <1>3, <2>1, StackFacts DEF PoppedOn
<1>5. Alike(open, open', m)
  BY <1>2, <1>3, PopAlike
<1>6. SitesInv'
  <2>1. m \in 0 .. Len(open) /\ m <= Len(open')
    BY <1>2, <1>4
  <2>2. \A k \in 1 .. m : \A x \in ParkedIn(open', loops', k) :
           x \in Parked(k) \/ SiteFits(code', open', k, x)
    BY <1>4
  <2>3. \A k \in m + 1 .. Len(open') :
           /\ \A x \in ParkedIn(open', loops', k) : SiteFits(code', open', k, x)
           /\ HeadFits(code', open', k)
    BY <1>4
  <2> QED
    BY <1>1, <1>5, <2>1, <2>2, <2>3, SitesOn
<1>7. Pending \ Parked(n) \subseteq Pending'
  <2>1. Pending' = UNION {ParkedIn(open', loops', k) : k \in DOMAIN open'}
    BY DEF Pending, Parked
  <2>2. \A k \in DOMAIN open : k = n \/ k \in 1 .. m
    BY <1>4
  <2> QED
    BY <1>4, <2>1, <2>2 DEF Pending
<1>8. Stays
  BY DEF PoppedOn
<1>9. TailInv' /\ ~Returned(code)'
  BY <1>8, TailedStays, TailedThen
<1>10. Exits' = {Exit(d, q)}
  BY <1>9 DEF Exits
<1>11. Widens({Exit(d, q)}, Exits')
  BY <1>10, Narrower
<1>12. ParseInv'
  BY <1>1, <1>2, <1>7, <1>8, <1>11, ParseOn
<1>13. SavedInv'
  BY <1>1 DEF SavedInv
<1> QED
  BY <1>1, <1>6, <1>9, <1>12, <1>13 DEF InParse

LEMMA KeepsMore ==
  ASSUME NEW c, NEW e, Keeps(c, e), NEW g, Begins(e, g), Len(c) \in Nat, Len(e) \in Nat,
         Len(e) <= Len(g), Len(g) \in Nat
  PROVE  Keeps(c, g)
<1>1. ASSUME NEW i \in 1 .. Len(c), c[i].at # Operand PROVE g[i] = c[i]
  <2>1. e[i] = c[i] /\ i \in 1 .. Len(e)
    BY <1>1 DEF Keeps
  <2> QED
    BY <2>1 DEF Begins
<1> QED
  BY <1>1 DEF Keeps

(* The locals of a block are gone when the construct ends. *)
LEMMA BlockEnds ==
  ASSUME Base, InParse, open # <<>>, Innermost.kind # "func", NEW body, body = LeaveBlock(code),
         NEW d, d = DepthLeft
  PROVE  /\ Ready(body, Pending, At(d)) /\ d \in Nat /\ IsCode(body) /\ Len(body) \in Nat
         /\ Keeps(code, body) /\ TailedOn(body) /\ Len(code) <= Len(body)
<1>1. Ready(code, Pending, Exits) /\ Exits \subseteq At(Depth) /\ phase = "parse" /\ TailInv
  BY Starts
<1>2. Ready(body, Pending, At(d)) /\ d \in Nat
  BY <1>1, PopsReady, TopFacts
<1>3. IsCode(code) /\ IsStack(open) /\ StackInv /\ locals \in Nat /\ Len(code) \in Nat
  BY Parsing
<1>4. PICK n : n = locals - Innermost.base
  OBVIOUS
<1>5. IsCode(body) /\ Begins(code, body) /\ n \in Nat /\ Len(body) = Len(code) + n
      /\ PopsBehind(body, code, n)
  BY <1>3, <1>4, BlockLeft
<1>6. Keeps(code, body) /\ Len(code) <= Len(body) /\ Len(body) \in Nat
  BY <1>3, <1>5 DEF Keeps, Begins
<1>7. ASSUME Nested
      PROVE  Len(body) > Lo /\ (body[Len(body)].at = Operand \/ Len(body[Len(body)].path) > 1)
  <2>1. Len(open) \in Nat \ {0} /\ Innermost = open[Len(open)]
    BY TopFacts
  <2>2. Len(open) > 1
    BY <1>7, <2>1 DEF Nested, Within
  <2>3. Len(code) > Lo /\ (code[Len(code)].at = Operand \/ Len(code[Len(code)].path) > 1)
    BY <1>1, <1>7, <2>2 DEF TailInv
  <2>4. Lo \in Nat
    BY LoType
  <2>5. CASE n = 0
    <3>1. Len(body) = Len(code) /\ Len(code) \in 1 .. Len(code)
      BY <1>3, <1>5, <2>3, <2>4, <2>5
    <3>2. body[Len(code)] = code[Len(code)]
      BY <1>5, <3>1 DEF Begins
    <3> QED
      BY <2>3, <3>1, <3>2
  <2>6. CASE n # 0
    <3>1. n \in 1 .. n
      BY <1>5, <2>6
    <3>2. body[Len(code) + n] = Cell(OP_POP, Depth - n + 1)
      BY <1>5, <3>1 DEF PopsBehind
    <3>3. body[Len(body)].path = PathOf(open)
      BY <1>5, <3>2, CellIs
    <3>4. Len(PathOf(open)) > 1
      BY <1>7, <2>2, LongPath
    <3>5. Len(body) > Lo
      BY <1>3, <1>5, <2>3, <2>4
    <3> QED
      BY <3>3, <3>4, <3>5
  <2> QED
    BY <2>5, <2>6
<1> QED
  BY <1>2, <1>5, <1>6, <1>7 DEF TailedOn

LEMMA PatchedTail ==
  ASSUME Base, NEW c, IsCode(c), Len(c) < 65536, TailedOn(c), NEW S, NEW p, p = patch_jump_to_here(c, S)
  PROVE  TailedOn(p)
<1>1. PICK n : n = Len(c)
  OBVIOUS
<1>2. Len(p) = n /\ \A i \in 1 .. n : p[i].at = c[i].at /\ p[i].path = c[i].path
  BY <1>1, Patched
<1>3. n \in Nat /\ Lo \in Nat
  BY <1>1, CodeFacts, LoType
<1>4. n > Lo => n \in 1 .. n
  BY <1>3
<1> QED
  BY <1>1, <1>2, <1>4 DEF TailedOn

(* What is emitted last in a construct is not of the function's own level. *)
LEMMA EmittedTail ==
  ASSUME Base, phase = "parse", open # <<>>, Innermost.kind # "func",
         NEW e, NEW c, NEW d, NEW ins, NEW z \in 1 .. 3, IsEmitted(e, c, d, ins, z), Lo <= Len(c)
  PROVE  TailedOn(e)
<1>1. Len(e) = Len(c) + z /\ (z > 1 => e[Len(e)].at = Operand)
      /\ (z = 1 => e[Len(e)].path = PathOf(open))
  BY NewTail
<1>2. Len(c) \in Nat /\ Lo \in Nat
  BY LoType DEF IsEmitted
<1>3. ASSUME Nested PROVE Len(PathOf(open)) > 1
  <2>1. Len(open) \in Nat \ {0} /\ Innermost = open[Len(open)]
    BY TopFacts
  <2>2. Len(open) > 1
    BY <1>3, <2>1 DEF Nested, Within
  <2> QED
    BY <1>3, <2>2, LongPath
<1>4. Len(e) > Lo
  BY <1>1, <1>2
<1>5. z = 1 \/ z > 1
  OBVIOUS
<1> QED
  BY <1>1, <1>3, <1>4, <1>5 DEF TailedOn

LEMMA ReadyWidened ==
  ASSUME Base, phase = "parse", NEW c, NEW P, NEW E, Ready(c, P, E), NEW E2, Widens(E, E2)
  PROVE  Ready(c, P, E2)
<1>1. /\ IsCode(c) /\ Len(c) \in Nat /\ Cells(c, Len(c)) /\ Lo <= Len(c)
      /\ Region(c, Lo, Len(c), E, P, Len(funcs), EntryDepth, UnitOf(open))
  BY ReadyIs
<1>2. Lo \in Nat /\ Len(funcs) \in Nat /\ Len(funcs) <= Len(funcs) /\ P \subseteq P
  BY Frame
<1>3. \A i \in Lo + 1 .. Len(c) : c[i] = c[i]
  OBVIOUS
<1>4. Region(c, Lo, Len(c), E2, P, Len(funcs), EntryDepth, UnitOf(open))
  BY ONLY <1>1, <1>2, <1>3, RegionFramed, Widens(E, E2)
<1> QED
  BY <1>1, <1>4 DEF Ready

LEMMA PopLands ==
  ASSUME Base', PoppedOn, NEW p, Lands(p, open, Len(open) - 1)
  PROVE  Follows(p, PathOf(open'))
<1>1. Plain(open')
  BY DepthThen DEF DepthFacts
<1>2. PICK m : m = Len(open) - 1
  OBVIOUS
<1>3. m \in Nat /\ Len(open') = m
  BY <1>2 DEF PoppedOn
<1>4. Alike(open, open', m) /\ UnitOf(open) = UnitOf(open')
  BY <1>2, PopAlike
<1>5. \A j \in 1 .. m : open[j] = open'[j]
  BY <1>4 DEF Alike
<1>6. Lands(p, open', m)
  BY <1>2, <1>3, <1>4, <1>5, LandsOn
<1> QED
  BY <1>1, <1>3, <1>6, FollowsPath

LEMMA PopEndsAt ==
  ASSUME Base', PoppedOn
  PROVE  EndsAt(PathOf(open'))
BY PopLands DEF EndsAt

LEMMA PopWidens ==
  ASSUME Base, Base', PoppedOn, NEW d
  PROVE  Widens(At(d), {Exit(d, PathOf(open'))})
<1>1. ASSUME NEW p, Follows(p, PathOf(open)) PROVE Follows(p, PathOf(open'))
  <2>1. Lands(p, open, Len(open))
    BY <1>1, FollowsPath, PlainOpen
  <2>2. Len(open) \in Nat /\ Len(open) - 1 \in 0 .. Len(open)
    BY DEF PoppedOn
  <2>3. Lands(p, open, Len(open) - 1)
    BY <2>1, <2>2, LandsUpTo
  <2> QED
    BY <2>3, PopLands
<1> QED
  BY <1>1 DEF Widens, At, Exit

LEMMA NoneWidens == ASSUME NEW E PROVE Widens({}, E)
  BY DEF Widens

LEMMA EndIfFlow ==
  ASSUME Base, InParse, EndIf
  PROVE  InParse'
<1>1. Grown(code, code', Parked(Len(open))) /\ Grew /\ Base'
  BY EndIfGrows, EndIfStep
<1>2. /\ phase = "parse" /\ phase' = phase /\ arena' = arena /\ funcs' = funcs /\ saved' = saved
      /\ typed' = typed /\ open # <<>> /\ open' = Front(open) /\ loops' = loops
      /\ locals' = Innermost.base /\ Innermost.kind \in ArmKinds /\ Len(code') <= FILE_BC_SIZE
      /\ code' = patch_jump_to_here(LeaveBlock(code), {Innermost.patch})
  BY DEF EndIf, Closing, ArmKinds, Emits
<1>3. Innermost \in Construct /\ (~Nested => Innermost.base = 0) /\ Innermost.base \in Nat
  BY <1>2, Tops
<1>4. Innermost.kind # "func" /\ Innermost.kind \notin LoopKinds /\ Slot(Innermost) = 0
  BY <1>2, <1>3, ConstructKinds
<1>5. Nested => locals' = Innermost.base - Slot(Innermost)
  BY <1>2, <1>3, <1>4
<1>6. loops' = IF Innermost.kind \in LoopKinds THEN Front(loops) ELSE loops
  BY <1>2, <1>4
<1>7. PoppedOn /\ DepthLeft = Depth' + Slot(Innermost)
  BY <1>1, <1>2, <1>3, <1>4, <1>5, <1>6, Pops
<1>8. PICK d : d = DepthLeft
  OBVIOUS
<1>9. PICK body : body = LeaveBlock(code)
  OBVIOUS
<1>10. /\ Ready(body, Pending, At(d)) /\ d \in Nat /\ IsCode(body) /\ Len(body) \in Nat
       /\ Keeps(code, body) /\ TailedOn(body) /\ Len(code) <= Len(body)
  BY <1>2, <1>4, <1>8, <1>9, BlockEnds
<1>11. d = Depth'
  <2>1. PICK e : e = Depth'
    OBVIOUS
  <2>2. e \in Nat
    BY <1>1, <2>1, DepthThen DEF DepthFacts
  <2>3. d = e + Slot(Innermost)
    BY <1>7, <1>8, <2>1
  <2>4. d = e
    BY ONLY <1>4, <2>2, <2>3
  <2> QED
    BY <2>1, <2>4
<1>12. PICK S : S = Parked(Len(open))
  OBVIOUS
<1>13. S = {Innermost.patch}
  BY <1>2, <1>12, ParkedTop
<1>14. code' = patch_jump_to_here(body, S)
  BY <1>2, <1>9, <1>13
<1>15. Len(body) < 65536
  <2>1. Len(code') = Len(body)
    BY <1>10, <1>14, SizedCode, SizedPatch, SizeIs
  <2> QED
    BY <1>2, <1>10, <2>1, FitsInBytes
<1>16. PICK q : q = PathOf(open')
  OBVIOUS
<1>17. EndsAt(q) /\ Widens(At(d), {Exit(d, q)}) /\ Exit(d, q) \in {Exit(d, q)}
  BY <1>1, <1>7, <1>16, PopEndsAt, PopWidens
<1>18. Pending \subseteq (Pending \ S) \cup S
  OBVIOUS
<1>19. Ready(code', Pending \ S, {Exit(d, q)})
  BY <1>2, <1>8, <1>10, <1>12, <1>14, <1>15, <1>17, <1>18, ReadyPatched
<1>20. TailedOn(code')
  BY <1>10, <1>14, <1>15, PatchedTail
<1>21. Grown(code, code', Pending)
  BY <1>1 DEF Grew
<1> QED
  BY <1>1, <1>2, <1>7, <1>11, <1>12, <1>16, <1>19, <1>20, <1>21, PopFlow

(* A loop jumps back to where it begins. *)
LEMMA LoopHead ==
  ASSUME Base, InParse, open # <<>>, Innermost.kind \in LoopKinds, NEW c, IsCode(c), Keeps(code, c),
         NEW s, s = Innermost.start
  PROVE  /\ s \in Nat /\ s \in Lo + 1 .. Len(c)
         /\ c[s].at = DepthLeft /\ Follows(PathOf(open), c[s].path)
<1>1. phase = "parse" /\ SitesInv
  BY DEF InParse
<1>2. PICK n : n = Len(open)
  OBVIOUS
<1>3. /\ n \in Nat \ {0} /\ n \in DOMAIN open /\ Innermost = open[n] /\ Innermost \in Construct
      /\ DepthLeft = LevelIn(open, n) /\ DepthLeft \in Nat
  BY <1>2, TopFacts
<1>4. s \in Nat
  BY <1>3, ConstructFacts
<1>5. HeadFits(code, open, n)
  BY <1>1, <1>3, SitesAre DEF SitesFit
<1>6. /\ code[s].at = DepthLeft /\ code[s].path[1] = UnitOf(open)
      /\ \A i \in 1 .. n : open[i].kind = "then" => open[i].id \notin Arms(code[s].path, "else")
  BY <1>3, <1>5 DEF HeadFits
<1>7. Len(code) \in Nat /\ Lo \in Nat /\ Len(c) \in Nat /\ Len(code) <= Len(c)
  BY Parsing, LoType, CodeFacts DEF Keeps
<1>8. s \in Lo + 1 .. Len(code)
  <2>1. Placed(open[n], Parked(n), Lo, Len(code))
    BY <1>1, <1>3, PlacesOf
  <2> QED
    BY <1>3, <2>1 DEF Placed
<1>9. s \in 1 .. Len(code) /\ s \in Lo + 1 .. Len(c)
  BY <1>7, <1>8
<1>10. code[s].at # Operand
  BY <1>3, <1>6 DEF Operand
<1>11. c[s] = code[s]
  BY <1>9, <1>10 DEF Keeps
<1>12. PathOf(open)[1] = UnitOf(open)
  BY <1>1, Frame
<1>13. Arms(PathOf(open), "then") = {open[k].id : k \in {j \in DOMAIN open : open[j].kind = "then"}}
  <2>1. "then" \in ArmKinds
    BY DEF ArmKinds
  <2> QED
    BY <2>1, ArmsOf, PlainOpen
<1>14. DOMAIN open = 1 .. n
  BY <1>2, Parsing, StackFacts
<1>15. Arms(PathOf(open), "then") \cap Arms(code[s].path, "else") = {}
  BY <1>6, <1>13, <1>14
<1> QED
  BY <1>4, <1>6, <1>9, <1>11, <1>12, <1>15 DEF Follows

LEMMA EndWhileFlow ==
  ASSUME Base, InParse, EndWhile
  PROVE  InParse'
<1>1. Grown(code, code', Parked(Len(open))) /\ Grew /\ Base'
  BY EndWhileGrows, EndWhileStep
<1>2. /\ phase = "parse" /\ phase' = phase /\ arena' = arena /\ funcs' = funcs /\ saved' = saved
      /\ typed' = typed /\ open # <<>> /\ open' = Front(open) /\ loops' = Front(loops)
      /\ locals' = Innermost.base /\ Innermost.kind = "while" /\ Len(code') <= FILE_BC_SIZE
      /\ code' = patch_jump_to_here(Emit(LeaveBlock(code), DepthLeft,
                                         BackJump(Here(LeaveBlock(code)), Innermost.start)),
                                    {Innermost.exit} \cup Breaks)
  BY DEF EndWhile, Closing, Emits
<1>3. (~Nested => Innermost.base = 0) /\ Innermost.base \in Nat
  BY <1>2, Tops
<1>4. Innermost.kind # "func" /\ Innermost.kind \in LoopKinds /\ Slot(Innermost) = 0
  BY <1>2 DEF LoopKinds, Slot
<1>5. Nested => locals' = Innermost.base - Slot(Innermost)
  BY <1>2, <1>3, <1>4
<1>6. loops' = IF Innermost.kind \in LoopKinds THEN Front(loops) ELSE loops
  BY <1>2, <1>4
<1>7. PoppedOn /\ DepthLeft = Depth' + Slot(Innermost)
  BY <1>1, <1>2, <1>3, <1>4, <1>5, <1>6, Pops
<1>8. PICK d : d = DepthLeft
  OBVIOUS
<1>9. PICK body : body = LeaveBlock(code)
  OBVIOUS
<1>10. /\ Ready(body, Pending, At(d)) /\ d \in Nat /\ IsCode(body) /\ Len(body) \in Nat
       /\ Keeps(code, body) /\ TailedOn(body) /\ Len(code) <= Len(body)
  BY <1>2, <1>4, <1>8, <1>9, BlockEnds
<1>11. d = Depth'
  <2>1. PICK e : e = Depth'
    OBVIOUS
  <2>2. e \in Nat
    BY <1>1, <2>1, DepthThen DEF DepthFacts
  <2>3. d = e + Slot(Innermost)
    BY <1>7, <1>8, <2>1
  <2>4. d = e
    BY ONLY <1>4, <2>2, <2>3
  <2> QED
    BY <2>1, <2>4
<1>12. PICK S : S = Parked(Len(open))
  OBVIOUS
<1>13. S = {Innermost.exit} \cup Breaks
  BY <1>4, <1>2, <1>12, ParkedTop
<1>s. PICK s : s = Innermost.start
  OBVIOUS
<1>c. PICK c : c = Emit(body, d, BackJump(Here(body), s))
  OBVIOUS
<1>14. code' = patch_jump_to_here(c, S)
  BY <1>2, <1>8, <1>9, <1>13, <1>s, <1>c
<1>z. Sized(c, Len(body) + 3)
  <2>1. Sized(body, Len(body)) /\ Len(BackJump(Here(body), s)) = 3 /\ 3 \in Nat
    BY <1>10, SizedCode, SizedBackJump
  <2> QED
    BY ONLY <1>c, <2>1, SizedEmit
<1>15. Len(c) = Len(body) + 3 /\ Len(c) < 65536
  <2>1. Len(c) = Len(body) + 3 /\ Len(code') = Len(body) + 3
    BY <1>14, <1>z, SizedPatch, SizeIs
  <2> QED
    BY <1>2, <1>10, <2>1, FitsInBytes
<1>h. /\ s \in Nat /\ s \in Lo + 1 .. Len(body) /\ body[s].at = d
      /\ Follows(PathOf(open), body[s].path)
  BY <1>2, <1>4, <1>8, <1>10, <1>s, LoopHead
<1>l. Ready(c, Pending, {}) /\ IsEmitted(c, body, d, BackJump(Here(body), s), 3)
  <2>1. (Len(body) + 1) + 3 - s < 65536
    BY <1>10, <1>15, <1>h, LoType
  <2>2. At(d) \subseteq At(d) /\ phase = "parse"
    BY <1>2
  <2>3. Ready(body, Pending, At(d)) /\ d \in Nat
    BY <1>10
  <2>4. s \in Nat
    BY <1>h
  <2>5. s \in Lo + 1 .. Len(body)
    BY <1>h
  <2>6. body[s].at = d
    BY <1>h
  <2>7. Follows(PathOf(open), body[s].path)
    BY <1>h
  <2> QED
    BY ONLY <1>c, <2>1, <2>2, <2>3, <2>4, <2>5, <2>6, <2>7, EmitsLoop, Base
<1>k. IsCode(c) /\ Begins(body, c) /\ Len(code) \in Nat
  BY <1>l, Parsing, Zenon DEF IsEmitted
<1>m. Keeps(code, c)
  <2>1. Len(body) <= Len(c) /\ Len(c) \in Nat
    BY <1>10, <1>15
  <2> QED
    BY ONLY <1>10, <1>k, <2>1, KeepsMore
<1>16. PICK q : q = PathOf(open')
  OBVIOUS
<1>17. EndsAt(q) /\ Widens({}, {Exit(d, q)}) /\ Exit(d, q) \in {Exit(d, q)}
  BY <1>1, <1>7, <1>16, PopEndsAt, NoneWidens
<1>18. Pending \subseteq (Pending \ S) \cup S
  OBVIOUS
<1>19. Ready(code', Pending \ S, {Exit(d, q)})
  BY ONLY <1>2, <1>8, <1>l, <1>m, <1>12, <1>14, <1>15, <1>17, <1>18, ReadyPatched, Base, InParse
<1>20. TailedOn(code')
  <2>1. 3 \in 1 .. 3 /\ Lo <= Len(body)
    BY <1>2, <1>10, ReadyIs
  <2>2. TailedOn(c)
    BY <1>2, <1>4, <1>l, <2>1, EmittedTail
  <2> QED
    BY <1>14, <1>15, <1>k, <2>2, PatchedTail
<1>21. Grown(code, code', Pending)
  BY <1>1 DEF Grew
<1> QED
  BY <1>1, <1>2, <1>7, <1>11, <1>12, <1>16, <1>19, <1>20, <1>21, PopFlow

(* The end of a for loop's body: the variable goes up by one. *)
NextOn(e, c, P, d) ==
  /\ Ready(e, P, At(d)) /\ Len(e) = Len(c) + 5 /\ Begins(c, e)
  /\ IsCode(e) /\ Len(e) \in Nat

LEMMA ForStepReady ==
  ASSUME Base, phase = "parse", NEW c, NEW P, NEW d \in Nat, NEW E, Ready(c, P, E), E \subseteq At(d),
         NEW c1, c1 = Emit(c, d, GetGlobal),
         NEW c2, c2 = Emit(c1, d + 1, <<OP_INC>>),
         NEW c3, c3 = Emit(c2, d + 1, SetGlobal)
  PROVE  NextOn(c3, c, P, d)
<1>1. PICK d1 : d1 = d + 1
  OBVIOUS
<1>2. d1 \in Nat
  BY <1>1
<1>m1. Moves(GetGlobal, 1)
  BY MovesOf
<1>m2. Moves(<<OP_INC>>, 0)
  BY MovesOf
<1>m3. Moves(SetGlobal, -1)
  BY MovesOf
<1>3. Moved(c1, c, P, d, GetGlobal, d1)
  BY ONLY <1>1, <1>m1, GoesUp, Base, phase = "parse", d \in Nat, Ready(c, P, E), E \subseteq At(d),
          c1 = Emit(c, d, GetGlobal)
<1>r1. Ready(c1, P, At(d1)) /\ At(d1) \subseteq At(d1)
  BY <1>3, MovedIs
<1>e2. c2 = Emit(c1, d1, <<OP_INC>>)
  BY <1>1
<1>4. Moved(c2, c1, P, d1, <<OP_INC>>, d1)
  BY ONLY <1>2, <1>e2, <1>m2, <1>r1, GoesLevel, Base, phase = "parse"
<1>r2. Ready(c2, P, At(d1)) /\ At(d1) \subseteq At(d1)
  BY <1>4, MovedIs
<1>e3. c3 = Emit(c2, d1, SetGlobal)
  BY <1>1
<1>5. Moved(c3, c2, P, d1, SetGlobal, d)
  BY ONLY <1>1, <1>2, <1>e3, <1>m3, <1>r2, GoesDown, Base, phase = "parse", d \in Nat
<1>6. /\ Len(c) \in Nat /\ Len(c1) = Len(c) + 2 /\ Len(c2) = Len(c1) + 1 /\ Len(c3) = Len(c2) + 2
  <2>1. Len(c) \in Nat
    BY ReadyIs
  <2>2. Len(GetGlobal) = 2 /\ Len(SetGlobal) = 2 /\ Len(<<OP_INC>>) = 1
    BY GlobalBytes
  <2> QED
    BY <1>3, <1>4, <1>5, <2>1, <2>2 DEF Moved
<1>7. Begins(c, c1)
  BY <1>3, Zenon DEF Moved, IsEmitted
<1>8. Begins(c1, c2)
  BY <1>4, Zenon DEF Moved, IsEmitted
<1>9. Begins(c2, c3)
  BY <1>5, Zenon DEF Moved, IsEmitted
<1>10. ASSUME NEW i \in 1 .. Len(c) PROVE c3[i] = c[i]
  <2>1. i \in 1 .. Len(c1) /\ i \in 1 .. Len(c2)
    BY <1>6
  <2>2. c1[i] = c[i]
    BY <1>7 DEF Begins
  <2>3. c2[i] = c1[i]
    BY <1>8, <2>1 DEF Begins
  <2>4. c3[i] = c2[i]
    BY <1>9, <2>1 DEF Begins
  <2> QED
    BY <2>2, <2>3, <2>4
<1>11. Ready(c3, P, At(d))
  BY <1>5, MovedIs
<1>12. IsCode(c3) /\ Len(c3) \in Nat
  BY <1>11, ReadyIs
<1> QED
  BY <1>6, <1>10, <1>11, <1>12 DEF Begins, NextOn

LEMMA EndForFlow ==
  ASSUME Base, InParse, EndFor
  PROVE  InParse'
<1>1. Grown(code, code', Parked(Len(open))) /\ Grew /\ Base'
  BY EndForGrows, EndForStep
<1>2. /\ phase = "parse" /\ phase' = phase /\ arena' = arena /\ funcs' = funcs /\ saved' = saved
      /\ typed' = typed /\ open # <<>> /\ open' = Front(open) /\ loops' = Front(loops)
      /\ locals' = (IF InFunction THEN Innermost.base - 1 ELSE locals)
      /\ Innermost.kind = "for" /\ Len(code') <= FILE_BC_SIZE
  BY DEF EndFor, Closing, Emits
<1>3. (~Nested => locals = 0) /\ (InFunction <=> Nested)
  BY <1>2, Tops
<1>4. Innermost.kind # "func" /\ Innermost.kind \in LoopKinds /\ Slot(Innermost) = 1
  BY <1>2 DEF LoopKinds, Slot
<1>5. (Nested => locals' = Innermost.base - Slot(Innermost)) /\ (~Nested => locals' = 0)
  BY <1>2, <1>3, <1>4
<1>6. loops' = IF Innermost.kind \in LoopKinds THEN Front(loops) ELSE loops
  BY <1>2, <1>4
<1>7. PoppedOn /\ DepthLeft = Depth' + Slot(Innermost)
  BY <1>1, <1>2, <1>4, <1>5, <1>6, Pops
<1>8. PICK d : d = DepthLeft
  OBVIOUS
<1>9. PICK body : body = LeaveBlock(code)
  OBVIOUS
<1>10. /\ Ready(body, Pending, At(d)) /\ d \in Nat /\ IsCode(body) /\ Len(body) \in Nat
       /\ Keeps(code, body) /\ TailedOn(body) /\ Len(code) <= Len(body)
  BY <1>2, <1>4, <1>8, <1>9, BlockEnds
<1>d. PICK e : e = Depth'
  OBVIOUS
<1>11. e \in Nat /\ d = e + 1
  <2>1. e \in Nat
    BY <1>1, <1>d, DepthThen DEF DepthFacts
  <2>2. d = e + Slot(Innermost)
    BY <1>7, <1>8, <1>d
  <2> QED
    BY ONLY <1>4, <2>1, <2>2
<1>12. PICK S : S = Parked(Len(open))
  OBVIOUS
<1>13. S = {Innermost.exit} \cup Breaks
  BY <1>4, <1>2, <1>12, ParkedTop
<1>s. PICK s : s = Innermost.start
  OBVIOUS
<1>c1. PICK c1 : c1 = Emit(body, d, GetGlobal)
  OBVIOUS
<1>c2. PICK c2 : c2 = Emit(c1, d + 1, <<OP_INC>>)
  OBVIOUS
<1>c3. PICK c3 : c3 = Emit(c2, d + 1, SetGlobal)
  OBVIOUS
<1>c. PICK c : c = Emit(c3, d, BackJump(Here(c3), s))
  OBVIOUS
<1>p. PICK p : p = patch_jump_to_here(c, S)
  OBVIOUS
<1>14. code' = Emit(p, d, <<OP_POP>>)
  BY ONLY <1>8, <1>9, <1>13, <1>s, <1>c1, <1>c2, <1>c3, <1>c, <1>p, EndFor DEF EndFor, Emits
<1>t. /\ Ready(c3, Pending, At(d)) /\ Len(c3) = Len(body) + 5 /\ Begins(body, c3)
      /\ IsCode(c3) /\ Len(c3) \in Nat
  <2>1. At(d) \subseteq At(d) /\ Ready(body, Pending, At(d)) /\ d \in Nat /\ phase = "parse"
    BY <1>2, <1>10
  <2>2. NextOn(c3, body, Pending, d)
    BY ONLY <1>c1, <1>c2, <1>c3, <2>1, ForStepReady, Base
  <2> QED
    BY <2>2 DEF NextOn
<1>z. Sized(c, Len(c3) + 3)
  <2>1. Sized(c3, Len(c3)) /\ Len(BackJump(Here(c3), s)) = 3 /\ 3 \in Nat
    BY <1>t, SizedCode, SizedBackJump
  <2> QED
    BY ONLY <1>c, <2>1, SizedEmit
<1>15. Len(c) = Len(c3) + 3 /\ Len(c) < 65536 /\ Len(p) = Len(c)
  <2>1. Sized(p, Len(c3) + 3)
    BY ONLY <1>z, <1>p, SizedPatch
  <2>2. Sized(code', (Len(c3) + 3) + 1)
    <3>1. Len(<<OP_POP>>) = 1 /\ 1 \in Nat
      OBVIOUS
    <3> QED
      BY ONLY <2>1, <3>1, <1>14, SizedEmit
  <2>3. Len(c) = Len(c3) + 3 /\ Len(p) = Len(c3) + 3 /\ Len(code') = (Len(c3) + 3) + 1
    BY ONLY <1>z, <2>1, <2>2, SizeIs
  <2>4. Len(code') < 65536
    BY <1>2, <1>t, <2>3, FitsInBytes
  <2> QED
    BY ONLY <1>t, <2>3, <2>4
<1>y. /\ Len(body) <= Len(c3) /\ Len(code) \in Nat
  BY <1>10, <1>t, Parsing
<1>k3. Keeps(code, c3)
  BY ONLY <1>10, <1>t, <1>y, KeepsMore
<1>h. /\ s \in Nat /\ s \in Lo + 1 .. Len(c3) /\ c3[s].at = d
      /\ Follows(PathOf(open), c3[s].path)
  BY <1>2, <1>4, <1>8, <1>t, <1>k3, <1>s, LoopHead
<1>l. Ready(c, Pending, {}) /\ IsEmitted(c, c3, d, BackJump(Here(c3), s), 3)
  <2>1. (Len(c3) + 1) + 3 - s < 65536
    BY <1>t, <1>15, <1>h, LoType
  <2>2. At(d) \subseteq At(d) /\ phase = "parse"
    BY <1>2
  <2>3. Ready(c3, Pending, At(d)) /\ d \in Nat
    BY <1>10, <1>t
  <2>4. s \in Nat
    BY <1>h
  <2>5. s \in Lo + 1 .. Len(c3)
    BY <1>h
  <2>6. c3[s].at = d
    BY <1>h
  <2>7. Follows(PathOf(open), c3[s].path)
    BY <1>h
  <2> QED
    BY ONLY <1>c, <2>1, <2>2, <2>3, <2>4, <2>5, <2>6, <2>7, EmitsLoop, Base
<1>k. IsCode(c) /\ Begins(c3, c)
  BY <1>l, Zenon DEF IsEmitted
<1>m. Keeps(code, c)
  <2>1. Len(c3) <= Len(c) /\ Len(c) \in Nat
    BY <1>t, <1>15
  <2> QED
    BY ONLY <1>k3, <1>k, <1>t, <1>y, <2>1, KeepsMore
<1>16. PICK q : q = PathOf(open)
  OBVIOUS
<1>17. EndsAt(q) /\ Widens({}, At(d)) /\ Exit(d, q) \in At(d)
  <2>1. PICK n : n = Len(open)
    OBVIOUS
  <2>2. n \in Nat \ {0} /\ Innermost = open[n]
    BY <1>2, <2>1, TopFacts
  <2>3. ASSUME NEW r, Lands(r, open, n - 1) PROVE Follows(r, q)
    <3>1. ASSUME NEW j \in 1 .. n, open[j].kind = "else" PROVE open[j].id \notin Arms(r, "then")
      <4>1. j # n
        BY <1>2, <2>2, <3>1
      <4>2. j \in 1 .. n - 1
        BY <2>2, <4>1
      <4> QED
        BY <2>3, <3>1, <4>2 DEF Lands
    <3>2. Lands(r, open, n)
      BY <2>3, <3>1 DEF Lands
    <3> QED
      BY <1>16, <2>1, <3>2, FollowsPath, PlainOpen
  <2>4. EndsAt(q)
    BY <2>1, <2>3 DEF EndsAt
  <2> QED
    BY <1>16, <2>4, NoneWidens DEF At
<1>18. Pending \subseteq (Pending \ S) \cup S
  OBVIOUS
<1>19. Ready(p, Pending \ S, At(d))
  BY ONLY <1>2, <1>8, <1>l, <1>m, <1>p, <1>12, <1>15, <1>17, <1>18, ReadyPatched, Base, InParse
<1>20. Moved(code', p, Pending \ S, d, <<OP_POP>>, e)
  <2>1. At(d) \subseteq At(d) /\ phase = "parse" /\ Moves(<<OP_POP>>, -1)
    BY <1>2, MovesOf
  <2>2. d \in Nat
    BY <1>10
  <2> QED
    BY ONLY <1>11, <1>14, <1>19, <2>1, <2>2, GoesDown, Base
<1>21. Ready(code', Pending \ S, At(e)) /\ IsEmitted(code', p, d, <<OP_POP>>, 1)
  <2>1. PICK ins : ins = <<OP_POP>>
    OBVIOUS
  <2>2. Moved(code', p, Pending \ S, d, ins, e)
    BY <1>20, <2>1
  <2>3. Ready(code', Pending \ S, At(e)) /\ IsEmitted(code', p, d, ins, Len(ins))
    BY <2>2, MovedIs
  <2>4. Len(ins) = 1
    BY <2>1
  <2> QED
    BY <2>1, <2>3, <2>4
<1>22. Ready(code', Pending \ S, {Exit(e, PathOf(open'))})
  BY <1>1, <1>2, <1>7, <1>21, PopWidens, ReadyWidened
<1>23. TailedOn(code')
  <2>1. 1 \in 1 .. 3 /\ Lo <= Len(p)
    BY <1>19, ReadyIs
  <2> QED
    BY <1>2, <1>4, <1>21, <2>1, EmittedTail
<1>24. Grown(code, code', Pending)
  BY <1>1 DEF Grew
<1> QED
  BY <1>1, <1>2, <1>7, <1>d, <1>12, <1>22, <1>23, <1>24, PopFlow

(* An else-arm takes the place of its then-arm. *)
TurnedOn(o) ==
  /\ IsStack(open') /\ Stays
  /\ Len(open) \in Nat \ {0} /\ Len(open') = Len(open)
  /\ \A k \in 1 .. Len(open) - 1 : open'[k] = open[k] /\ ParkedIn(open', loops', k) = Parked(k)
  /\ open'[Len(open)] = o /\ ParkedIn(open', loops', Len(open)) = {o.patch}
  /\ o.kind = "else" /\ o.id = Innermost.id /\ o.base = Innermost.base

LEMMA TurnAlike ==
  ASSUME NEW o, TurnedOn(o)
  PROVE  /\ Alike(open, open', Len(open) - 1) /\ UnitOf(open') = UnitOf(open)
         /\ Within(open') <=> Within(open)
<1>1. Within(open') <=> Within(open)
  BY DEF TurnedOn, Stays, Nested
<1>2. UnitOf(open') = UnitOf(open)
  BY UnitStays DEF TurnedOn
<1> QED
  BY <1>1, <1>2 DEF TurnedOn, Alike

LEMMA TurnLands ==
  ASSUME Base', NEW o, TurnedOn(o), NEW p, Lands(p, open, Len(open) - 1),
         Innermost.id \notin Arms(p, "then")
  PROVE  Follows(p, PathOf(open'))
<1>1. Plain(open')
  BY DepthThen DEF DepthFacts
<1>2. PICK m : m = Len(open) - 1
  OBVIOUS
<1>3. m \in Nat /\ Len(open') = m + 1 /\ open'[m + 1] = o
  BY <1>2 DEF TurnedOn
<1>4. Alike(open, open', m) /\ UnitOf(open) = UnitOf(open')
  BY <1>2, TurnAlike
<1>5. \A j \in 1 .. m : open[j] = open'[j]
  BY <1>4 DEF Alike
<1>6. Lands(p, open', m)
  BY <1>2, <1>3, <1>4, <1>5, LandsOn
<1>7. o.id \notin Arms(p, "then")
  BY DEF TurnedOn
<1>8. Lands(p, open', m + 1)
  <2>1. \A j \in 1 .. m + 1 : j \in 1 .. m \/ j = m + 1
    BY <1>3
  <2> QED
    BY <1>3, <1>6, <1>7, <2>1 DEF Lands
<1> QED
  BY <1>1, <1>3, <1>8, FollowsPath

(* The depth of both arms is the same. *)
LEMMA TurnLevel ==
  ASSUME Base, Base', open # <<>>, Innermost.kind = "then", NEW o, TurnedOn(o), locals' = Innermost.base
  PROVE  LevelIn(open', Len(open)) = DepthLeft /\ Depth' = DepthLeft
<1>1. PICK n : n = Len(open)
  OBVIOUS
<1>2. /\ n \in Nat \ {0} /\ n \in DOMAIN open /\ Innermost = open[n] /\ Innermost \in Construct
      /\ DepthLeft = LevelIn(open, n) /\ DepthLeft \in Nat
  BY <1>1, TopFacts
<1>3. Len(open') = n /\ open'[n] = o /\ o.kind = "else" /\ o.base = Innermost.base
      /\ \A k \in 1 .. n - 1 : open'[k] = open[k]
  BY <1>1 DEF TurnedOn
<1>4. Within(open') <=> Within(open)
  BY TurnAlike
<1>5. Count({"for"}, open', n) = Count({"for"}, open, n)
  <2>1. PICK m : m = n - 1
    OBVIOUS
  <2>2. m \in Nat /\ n = m + 1
    BY <1>2, <2>1
  <2>3. \A i \in 1 .. m : open'[i].kind = open[i].kind
    BY <1>3, <2>1
  <2>4. Count({"for"}, open', m) = Count({"for"}, open, m)
    BY <2>2, <2>3, CountAgrees
  <2>5. /\ Count({"for"}, open, m + 1) = Count({"for"}, open, m) + (IF open[m + 1].kind \in {"for"} THEN 1 ELSE 0)
        /\ Count({"for"}, open', m + 1) = Count({"for"}, open', m) + (IF open'[m + 1].kind \in {"for"} THEN 1 ELSE 0)
    BY <2>2, CountStep
  <2>6. open[m + 1].kind \notin {"for"} /\ open'[m + 1].kind \notin {"for"}
    BY <1>2, <1>3, <2>2
  <2> QED
    BY ONLY <2>2, <2>4, <2>5, <2>6
<1>6. /\ LevelIn(open', n) = IF Within(open') THEN o.base ELSE Count({"for"}, open', n)
      /\ LevelIn(open, n) = IF Within(open) THEN Innermost.base ELSE Count({"for"}, open, n)
  BY <1>2, <1>3 DEF LevelIn
<1>7. Depth' = IF Within(open') THEN locals' ELSE Count({"for"}, open', Len(open'))
  BY DepthThen DEF DepthFacts
<1> QED
  BY <1>1, <1>2, <1>3, <1>4, <1>5, <1>6, <1>7

LEMMA ElseTurns ==
  ASSUME Base, Else
  PROVE  /\ Base' /\ Grown(code, code', Pending) /\ Len(code') \in Nat
         /\ \E o : TurnedOn(o) /\ o.patch = Len(code') - 1
<1>1. Base'
  BY ElseStep
<1>2. PICK o : o = [Innermost EXCEPT !.kind = "else", !.patch = Len(code') - 1]
  OBVIOUS
<1>3. Grew /\ Len(code') >= Len(code) + 3 /\ open' = Append(Front(open), o)
  BY <1>2, ElseGrows
<1>4. /\ phase = "parse" /\ arena' = arena /\ funcs' = funcs
      /\ typed' = typed /\ open # <<>> /\ loops' = loops
      /\ locals' = Innermost.base /\ Innermost.kind \in ArmKinds
  BY DEF Else, Closing, ArmKinds
<1>5. Len(code) \in Nat /\ Len(code') \in Nat
  BY <1>1, Parsing, ParsingThen DEF ParsingFacts
<1>6. /\ o \in Construct /\ o.kind \in ArmKinds /\ o.id = Innermost.id /\ o.base = Innermost.base
      /\ o.patch = Len(code') - 1
  <2>1. Innermost \in Arm
    BY <1>4, Tops, ArmIs
  <2>2. PICK h : h = Len(code') - 1
    OBVIOUS
  <2>3. h \in Nat
    BY <1>3, <1>5, <2>2
  <2>4. o = [Innermost EXCEPT !.kind = "else", !.patch = h]
    BY <1>2, <2>2
  <2>a. PICK a : a = Innermost
    OBVIOUS
  <2>b. o = [a EXCEPT !.kind = "else", !.patch = h]
    BY <2>4, <2>a
  <2>d. a \in Arm
    BY <2>1, <2>a
  <2>c. o \in Construct /\ o.kind \in ArmKinds /\ o.id = a.id /\ o.base = a.base /\ o.patch = h
    BY ONLY <2>3, <2>b, <2>d DEF Construct, Arm, ArmKinds
  <2>5. /\ o \in Construct /\ o.kind \in ArmKinds /\ o.id = Innermost.id /\ o.base = Innermost.base
        /\ o.patch = h
    BY <2>a, <2>c
  <2> QED
    BY <2>2, <2>5
<1>7. o.kind = "else"
  <2>1. Innermost \in Arm
    BY <1>4, Tops, ArmIs
  <2> QED
    BY <1>2, <2>1 DEF Arm
<1>8. /\ IsStack(open') /\ Lo' = Lo /\ (Nested' <=> Nested)
      /\ Nested => open'[1] = open[1]
      /\ Len(open) \in Nat \ {0} /\ Len(open') = Len(open)
      /\ \A k \in 1 .. Len(open) - 1 : open'[k] = open[k] /\ ParkedIn(open', loops', k) = Parked(k)
      /\ open'[Len(open)] = o /\ ParkedIn(open', loops', Len(open)) = {o.patch}
  BY <1>3, <1>4, <1>6, StackReplaced
<1>9. TurnedOn(o)
  BY <1>4, <1>6, <1>7, <1>8 DEF TurnedOn, Stays
<1> QED
  BY <1>1, <1>3, <1>5, <1>6, <1>9 DEF Grew

LEMMA ElseFlow ==
  ASSUME Base, InParse, Else
  PROVE  InParse'
<1>1. Base' /\ Grown(code, code', Pending) /\ Len(code') \in Nat
  BY ElseTurns
<1>o. PICK o : TurnedOn(o) /\ o.patch = Len(code') - 1
  BY ElseTurns
<1>2. /\ phase = "parse" /\ phase' = phase /\ saved' = saved
      /\ open # <<>> /\ locals' = Innermost.base /\ Innermost.kind = "then" /\ Len(code') <= FILE_BC_SIZE
      /\ code' = patch_jump_to_here(Emit(LeaveBlock(code), DepthLeft, Placeholder(OP_JUMP)),
                                    {Innermost.patch})
  BY DEF Else, Closing, Emits
<1>3. SitesInv /\ ParseInv /\ SavedInv
  BY DEF InParse
<1>4. Innermost.kind # "func" /\ Innermost.kind \in ArmKinds
  BY <1>2 DEF ArmKinds
<1>5. PICK n : n = Len(open)
  OBVIOUS
<1>6. /\ n \in Nat \ {0} /\ n \in DOMAIN open /\ Innermost = open[n]
  BY <1>2, <1>5, TopFacts
<1>7. PICK m : m = n - 1
  OBVIOUS
<1>8. m \in Nat /\ n = m + 1 /\ Len(open') = n /\ DOMAIN open' = 1 .. n /\ DOMAIN open = 1 .. n
      /\ open'[n] = o /\ ParkedIn(open', loops', n) = {o.patch}
      /\ (\A k \in 1 .. m : open'[k] = open[k] /\ ParkedIn(open', loops', k) = Parked(k))
      /\ o.kind = "else"
  <2>1. IsStack(open) /\ IsStack(open')
    BY <1>o, Parsing DEF TurnedOn
  <2> QED
    BY <1>o, <1>5, <1>6, <1>7, <2>1, StackFacts DEF TurnedOn
<1>9. Alike(open, open', m) /\ UnitOf(open') = UnitOf(open)
  BY <1>o, <1>5, <1>7, TurnAlike
<1>d. PICK d : d = DepthLeft
  OBVIOUS
<1>b. PICK body : body = LeaveBlock(code)
  OBVIOUS
<1>10. /\ Ready(body, Pending, At(d)) /\ d \in Nat /\ IsCode(body) /\ Len(body) \in Nat
       /\ Keeps(code, body) /\ TailedOn(body) /\ Len(code) <= Len(body)
  BY <1>2, <1>4, <1>b, <1>d, BlockEnds
<1>11. LevelIn(open', n) = d /\ Depth' = d
  BY <1>1, <1>2, <1>o, <1>5, <1>d, TurnLevel
<1>12. PICK S : S = Parked(n)
  OBVIOUS
<1>13. S = {Innermost.patch}
  BY <1>2, <1>4, <1>5, <1>12, ParkedTop
<1>c. PICK c : c = Emit(body, d, Placeholder(OP_JUMP))
  OBVIOUS
<1>14. code' = patch_jump_to_here(c, S)
  BY <1>2, <1>b, <1>c, <1>d, <1>13
<1>15. JumpsOn(c, body, Pending, d, OP_JUMP)
  <2>1. OP_JUMP \in Forward /\ OP_JUMP \in Byte
    BY Opcodes DEF Forward
  <2>2. Ahead(OP_JUMP, d) \in Nat
    BY <1>10 DEF Ahead, OP_JUMP, OP_JUMP_IF_FALSE
  <2>3. At(d) \subseteq At(d) /\ Ready(body, Pending, At(d)) /\ d \in Nat /\ phase = "parse"
    BY <1>2, <1>10
  <2> QED
    BY ONLY <1>c, <2>1, <2>2, <2>3, EmitsForward, Base
<1>x. PICK x : x = Len(body) + 2
  OBVIOUS
<1>16. /\ Ready(c, Pending \cup {x}, {}) /\ Site(c, x, d) /\ c[Len(body) + 1].path = PathOf(open)
       /\ IsEmitted(c, body, d, Placeholder(OP_JUMP), 3)
  <2>1. Beyond(OP_JUMP, d) = d
    BY <1>10 DEF Beyond
  <2> QED
    BY <1>15, <1>x, <2>1 DEF JumpsOn
<1>17. IsCode(c) /\ Begins(body, c) /\ Len(c) = Len(body) + 3 /\ Len(code) \in Nat
  BY <1>16, Parsing, Zenon DEF IsEmitted
<1>18. Len(code') = Len(c) /\ Len(c) \in Nat /\ Len(c) < 65536
  <2>1. Len(code') = Len(c) /\ Len(c) \in Nat
    BY <1>14, <1>17, SizedCode, SizedPatch, SizeIs
  <2> QED
    BY <1>2, <2>1, FitsInBytes
<1>19. o.patch = x /\ x - 1 = Len(body) + 1 /\ x \in Nat
  BY <1>o, <1>10, <1>17, <1>18, <1>x
<1>20. Keeps(code, c)
  <2>1. Len(body) <= Len(c)
    BY <1>10, <1>17
  <2> QED
    BY ONLY <1>10, <1>17, <1>18, <2>1, KeepsMore
<1>q. PICK q : q = PathOf(open')
  OBVIOUS
<1>21. EndsAt(q) /\ Widens({}, {Exit(d, q)}) /\ Exit(d, q) \in {Exit(d, q)}
  <2>1. EndsAt(q)
    BY <1>1, <1>2, <1>o, <1>q, TurnLands DEF EndsAt
  <2> QED
    BY <2>1, NoneWidens
<1>P. PICK P2 : P2 = (Pending \ S) \cup {x}
  OBVIOUS
<1>22. Ready(code', P2, {Exit(d, q)})
  <2>1. Pending \cup {x} \subseteq P2 \cup S
    BY <1>P
  <2>2. S = Parked(Len(open)) /\ Ready(c, Pending \cup {x}, {})
    BY <1>5, <1>12, <1>16
  <2> QED
    BY ONLY <1>2, <1>d, <1>14, <1>18, <1>20, <1>21, <2>1, <2>2, ReadyPatched, Base, InParse
<1>23. code'[x - 1] = c[x - 1] /\ x - 1 \in 1 .. Len(c)
  <2>1. Placed(open[n], S, Lo, Len(code)) /\ Lo \in Nat
    BY <1>2, <1>6, <1>12, PlacesOf, LoType
  <2>2. \A s \in S : s \in Lo + 2 .. Len(code) - 1
    BY <2>1 DEF Placed
  <2>3. PICK i : i = x - 1
    OBVIOUS
  <2>4. i \in 1 .. Len(c) /\ i \in Nat /\ Len(code) <= i - 1
    BY <1>10, <1>17, <1>18, <1>19, <2>3
  <2>5. i \notin S /\ i - 1 \notin S
    BY <1>17, <2>1, <2>2, <2>4
  <2>6. code'[i] = c[i]
    <3>1. PICK h : h = Len(c)
      OBVIOUS
    <3>2. IsCode(c) /\ h < 65536 /\ i \in 1 .. h
      BY <1>17, <1>18, <2>4, <3>1
    <3> QED
      BY ONLY <1>14, <2>5, <3>1, <3>2, Patched
  <2> QED
    BY <2>3, <2>4, <2>6
<1>24. Site(code', x, d) /\ code'[x - 1].path = PathOf(open)
  <2>1. FarDepth(code', x - 1) = FarDepth(c, x - 1)
    BY <1>23, SameCells
  <2> QED
    BY <1>16, <1>19, <1>23, <2>1 DEF Site
<1>25. SiteFits(code', open', n, x)
  <2>1. Lands(PathOf(open), open, n)
    BY <1>5, OwnPath
  <2>2. m \in 0 .. n /\ n \in Nat
    BY <1>8
  <2>3. Lands(PathOf(open), open, m)
    BY <2>1, <2>2, LandsUpTo
  <2>4. \A j \in 1 .. m : open[j] = open'[j]
    BY <1>8
  <2>5. Lands(PathOf(open), open', m)
    BY <1>8, <1>9, <2>3, <2>4, LandsOn
  <2>6. open'[n].kind # "then"
    BY <1>8
  <2> QED
    BY <1>7, <1>11, <1>24, <2>5, <2>6 DEF SiteFits
<1>26. SitesInv'
  <2>1. m \in 0 .. Len(open) /\ m <= Len(open')
    BY <1>5, <1>8
  <2>2. \A k \in 1 .. m : \A y \in ParkedIn(open', loops', k) :
           y \in Parked(k) \/ SiteFits(code', open', k, y)
    BY <1>8
  <2>3. HeadFits(code', open', n)
    BY <1>8 DEF HeadFits, LoopKinds
  <2>4. \A k \in m + 1 .. Len(open') :
           /\ \A y \in ParkedIn(open', loops', k) : SiteFits(code', open', k, y)
           /\ HeadFits(code', open', k)
    <3> SUFFICES ASSUME NEW k \in m + 1 .. Len(open')
                 PROVE  /\ \A y \in ParkedIn(open', loops', k) : SiteFits(code', open', k, y)
                        /\ HeadFits(code', open', k)
      OBVIOUS
    <3>1. k = n
      BY <1>8
    <3> QED
      BY <1>8, <1>19, <1>25, <2>3, <3>1
  <2> QED
    BY <1>1, <1>2, <1>3, <1>9, <2>1, <2>2, <2>4, SitesOn
<1>27. P2 \subseteq Pending'
  <2>1. Pending' = UNION {ParkedIn(open', loops', k) : k \in DOMAIN open'}
    BY DEF Pending, Parked
  <2>2. \A k \in DOMAIN open : k = n \/ k \in 1 .. m
    BY <1>8
  <2>3. \A k \in DOMAIN open : k \in DOMAIN open'
    BY <1>8
  <2>4. n \in DOMAIN open' /\ x \in ParkedIn(open', loops', n)
    BY <1>8, <1>19
  <2> QED
    BY <1>P, <1>8, <1>12, <2>1, <2>2, <2>3, <2>4 DEF Pending
<1>28. Stays
  BY <1>o DEF TurnedOn
<1>29. TailedOn(code')
  <2>1. 3 \in 1 .. 3 /\ Lo <= Len(body)
    BY <1>2, <1>10, ReadyIs
  <2>2. TailedOn(c)
    BY <1>2, <1>4, <1>16, <2>1, EmittedTail
  <2> QED
    BY <1>14, <1>17, <1>18, <2>2, PatchedTail
<1>30. TailInv' /\ ~Returned(code)'
  BY <1>28, <1>29, TailedStays, TailedThen
<1>31. Exits' = {Exit(d, q)}
  BY <1>11, <1>q, <1>30 DEF Exits
<1>32. Widens({Exit(d, q)}, Exits')
  BY <1>31, Narrower
<1>33. ParseInv'
  BY <1>1, <1>2, <1>3, <1>22, <1>27, <1>28, <1>32, ParseOn
<1>34. SavedInv'
  BY <1>2, <1>3 DEF SavedInv
<1> QED
  BY <1>2, <1>26, <1>30, <1>33, <1>34 DEF InParse

-----------------------------------------------------------------------------
(* Functions. *)
OutsideFacts ==
  open = <<>> =>
    /\ ~Nested /\ Lo = arena /\ Depth = 0 /\ PathOf(open) = <<0>> /\ UnitOf(open) = 0
    /\ EntryDepth = 0 /\ Pending = {} /\ Exits = {Exit(0, <<0>>)} /\ DOMAIN open = {}

LEMMA OutsideIs == Base => OutsideFacts
<1> SUFFICES ASSUME Base, open = <<>> PROVE OutsideFacts
  BY DEF OutsideFacts
<1>1. IsStack(open) /\ DOMAIN open = {} /\ Len(open) = 0 /\ ~Within(open)
  BY EmptyStack
<1>2. ~Nested /\ Lo = arena
  BY <1>1 DEF Nested, Lo
<1>3. Depth = 0
  <2>1. Depth = Count({"for"}, open, Len(open))
    BY <1>1, DepthIs DEF DepthFacts
  <2>2. Count({"for"}, open, 0) = 0
    BY CountNat
  <2> QED
    BY <1>1, <2>1, <2>2
<1>4. UnitOf(open) = 0 /\ EntryDepth = 0
  BY <1>1, <1>2 DEF UnitOf, EntryDepth
<1>5. PathOf(open) = <<0>>
  <2>1. \A k \in DOMAIN open : open[k].kind = "func" => k = 1
    BY <1>1
  <2>2. FuncAt(open) = 0
    BY <1>1, <2>1, FuncAtIs
  <2>3. PathOf(open) \in Path /\ PathOf(open)[1] = 0 /\ Len(PathOf(open)) = 1 + Len(open) - FuncAt(open)
    BY <1>1, <1>4, <2>1, PathFacts
  <2>n. Len(PathOf(open)) = 1 + Len(open) - FuncAt(open) /\ Len(open) = 0
    BY <1>1, <2>3
  <2>4. Len(PathOf(open)) = 1
    BY ONLY <2>2, <2>n
  <2>5. ASSUME NEW S, NEW p \in Seq(S), Len(p) = 1, p[1] = 0 PROVE p = <<0>>
    BY <2>5
  <2> QED
    BY <2>3, <2>4, <2>5 DEF Path
<1>6. Pending = {}
  BY <1>1 DEF Pending
<1>7. Exits = {Exit(0, <<0>>)}
  BY <1>2, <1>3, <1>5 DEF Exits, Returned
<1> QED
  BY <1>1, <1>2, <1>3, <1>4, <1>5, <1>6, <1>7 DEF OutsideFacts

LEMMA OutsideThen == Base' => OutsideFacts'
  BY OutsideIs, PTL

(* Nothing is parked while a function's own block is all that is open. *)
LEMMA NothingParked ==
  ASSUME \A k \in DOMAIN open : open[k].kind = "func"
  PROVE  SitesInv /\ Pending = {}
<1>1. \A k \in DOMAIN open : Parked(k) = {} /\ open[k].kind \notin LoopKinds
  BY DEF Parked, ParkedIn, ArmKinds, LoopKinds
<1> QED
  BY <1>1 DEF SitesInv, Pending

NothingParkedNow ==
  (\A k \in DOMAIN open : open[k].kind = "func") => SitesInv /\ Pending = {}

LEMMA NothingParkedIs == NothingParkedNow
  BY NothingParked DEF NothingParkedNow

LEMMA NothingParkedThen == NothingParkedNow'
  BY NothingParkedIs, PTL

(* What a function's head does to the tables. *)
Declared(f, n, b) ==
  /\ IsStack(open') /\ DOMAIN open' = {1} /\ Len(open') = 1 /\ Within(open')
  /\ open'[1].kind = "func" /\ open'[1].id = f /\ open'[1].start = b
  /\ Len(funcs') \in Nat /\ Len(funcs) <= Len(funcs') /\ f \in DOMAIN funcs'
  /\ funcs'[f].params = n /\ DOMAIN funcs' = 1 .. Len(funcs')
  /\ \A g \in DOMAIN funcs' : g # f => g \in DOMAIN funcs /\ funcs'[g] = funcs[g]

LEMMA Declares ==
  ASSUME Base, Base', AllAvoided, NEW f \in 1 .. MAX_FUNCS, NEW n \in Params, NEW ret \in BOOLEAN,
         BeginFunc(f, n, ret)
  PROVE  Declared(f, n, Len(code)) /\ open = <<>>
<1>1. "func_in_block" \in Avoided
  BY DEF AllAvoided
<1>2. open = <<>>
  BY <1>1 DEF BeginFunc
<1>3. PICK o : o = [kind |-> "func", id |-> f, base |-> 0, start |-> Len(code)]
  OBVIOUS
<1>4. open' = Append(open, o) /\ f \in 1 .. Len(funcs) + 1
  BY <1>3 DEF BeginFunc, Opens
<1>5. PICK t : t = [start |-> IF f \in DOMAIN funcs THEN funcs[f].start ELSE 0, params |-> n, ret |-> ret]
  OBVIOUS
<1>6. funcs' = IF f \in DOMAIN funcs THEN [funcs EXCEPT ![f] = t] ELSE Append(funcs, t)
  BY <1>5 DEF BeginFunc
<1>7. /\ funcs \in Seq(FuncType) /\ Len(funcs) \in Nat /\ DOMAIN funcs = 1 .. Len(funcs)
      /\ \A g \in DOMAIN funcs : funcs[g].start \in Nat
      /\ Len(code) \in Nat
  BY TypedFacts
<1>8. n \in 0 .. MAX_LOCALS /\ f \in Nat /\ MAX_LOCALS \in Nat
  BY CompilerSizes
<1>9. OneFunc(open', o)
  <2>1. open' = Append(<<>>, o) /\ 0 \in Nat
    BY <1>2, <1>4
  <2> QED
    BY ONLY <1>3, <1>7, <1>8, <2>1, FuncStack
<1>10. t \in FuncType /\ t.params = n
  <2>1. (IF f \in DOMAIN funcs THEN funcs[f].start ELSE 0) \in Nat
    BY <1>7
  <2> QED
    BY <1>5, <1>8, <2>1 DEF FuncType
<1>11. /\ Len(funcs) <= Len(funcs') /\ Len(funcs') \in Nat /\ f \in DOMAIN funcs' /\ funcs'[f] = t
       /\ DOMAIN funcs' = 1 .. Len(funcs')
       /\ \A g \in DOMAIN funcs' : g # f => g \in DOMAIN funcs /\ funcs'[g] = funcs[g]
  <2>1. CASE f \in DOMAIN funcs
    <3>1. /\ funcs' \in Seq(FuncType) /\ Len(funcs') = Len(funcs) /\ DOMAIN funcs' = DOMAIN funcs
          /\ funcs'[f] = t /\ \A g \in DOMAIN funcs : g # f => funcs'[g] = funcs[g]
      BY <1>6, <1>7, <1>10, <2>1, EntrySet
    <3> QED
      BY ONLY <1>7, <2>1, <3>1
  <2>2. CASE f \notin DOMAIN funcs
    <3>a. funcs' = Append(funcs, t)
      BY <1>6, <2>2
    <3>b. f = Len(funcs) + 1
      BY ONLY <1>4, <1>7, <2>2
    <3>1. funcs' = Append(funcs, t) /\ f = Len(funcs) + 1
      BY <3>a, <3>b
    <3>2. /\ funcs' \in Seq(FuncType) /\ Len(funcs') = Len(funcs) + 1
          /\ DOMAIN funcs' = 1 .. Len(funcs) + 1
          /\ funcs'[Len(funcs) + 1] = t
          /\ \A g \in 1 .. Len(funcs) : funcs'[g] = funcs[g]
      BY <1>7, <1>10, <3>1, EntryAdded
    <3> QED
      BY ONLY <1>7, <3>1, <3>2
  <2> QED
    BY <2>1, <2>2
<1>12. o.kind = "func" /\ o.id = f /\ o.start = Len(code)
  BY <1>3
<1> QED
  BY <1>2, <1>9, <1>10, <1>11, <1>12 DEF Declared, OneFunc

LEMMA NoArms == ASSUME NEW u, NEW kind PROVE Arms(<<u>>, kind) = {}
<1>1. Len(<<u>>) = 1
  OBVIOUS
<1>2. 2 .. Len(<<u>>) = {}
  BY <1>1
<1> QED
  BY <1>2 DEF Arms

LEMMA BeginFuncFlow ==
  ASSUME Base, AllAvoided, InParse, NEW f \in 1 .. MAX_FUNCS, NEW n \in Params, NEW ret \in BOOLEAN,
         BeginFunc(f, n, ret)
  PROVE  InParse'
<1>1. Base'
  BY BeginFuncStep
<1>2. Declared(f, n, Len(code)) /\ open = <<>>
  BY <1>1, Declares
<1>3. /\ phase = "parse" /\ phase' = phase /\ saved' = saved
      /\ code' = code /\ arena' = arena /\ locals' = n
  BY DEF BeginFunc, Typing
<1>4. ParseInv /\ SavedInv
  BY DEF InParse
<1>5. /\ ~Nested /\ Lo = arena /\ UnitOf(open) = 0 /\ EntryDepth = 0 /\ Pending = {}
      /\ Exits = {Exit(0, <<0>>)}
  BY <1>2, OutsideIs DEF OutsideFacts
<1>6. PICK h : h = Len(code)
  OBVIOUS
<1>7. PICK N : N = Len(funcs)
  OBVIOUS
<1>8. PICK M : M = Len(funcs')
  OBVIOUS
<1>9. /\ h \in Nat /\ arena \in Nat /\ arena <= h /\ IsCode(code) /\ N \in Nat /\ M \in Nat /\ N <= M
  BY <1>2, <1>6, <1>7, <1>8, TypedFacts DEF Declared
<1>10. /\ open'[1].start = h /\ open'[1].id = f /\ Len(open') = 1 /\ DOMAIN open' = {1}
       /\ open'[1].kind = "func"
       /\ Nested' /\ Lo' = h /\ UnitOf(open') = f /\ EntryDepth' = n
       /\ Depth' = n
  <2>1. Nested' /\ open'[1].start = h /\ open'[1].id = f /\ funcs'[f].params = n /\ Within(open')
        /\ Len(open') = 1 /\ DOMAIN open' = {1} /\ open'[1].kind = "func"
    BY <1>2, <1>6 DEF Declared, Nested
  <2>2. Lo' = h /\ UnitOf(open') = f /\ EntryDepth' = n
    BY <2>1 DEF Lo, UnitOf, EntryDepth
  <2>3. Depth' = locals'
    BY <1>1, <2>1, DepthThen DEF DepthFacts
  <2> QED
    BY <1>3, <2>1, <2>2, <2>3
<1>11. SitesInv' /\ Pending' = {}
  <2>1. \A k \in DOMAIN open' : open'[k].kind = "func"
    BY <1>10
  <2> QED
    BY <2>1, NothingParkedThen DEF NothingParkedNow
<1>12. TailInv'
  BY <1>10 DEF TailInv
<1>13. ~Returned(code)'
  BY <1>3, <1>6, <1>9, <1>10 DEF Returned
<1>14. PICK q : q = PathOf(open')
  OBVIOUS
<1>15. Exits' = {Exit(n, q)}
  BY <1>10, <1>13, <1>14 DEF Exits
<1>16. q[1] = f
  <2>1. Plain(open')
    BY <1>1, DepthThen DEF DepthFacts
  <2> QED
    BY <1>10, <1>14, <2>1, PathFacts DEF Plain
<1>17. Cells(code, h) /\ Cells(code, arena)
  <2>1. h \in 0 .. Len(code) /\ arena \in 0 .. Len(code)
    BY <1>6, <1>9
  <2> QED
    BY <1>9, <2>1, CellsOf
<1>18. Closed(code, 0, arena, M)
  <2>1. Closed(code, 0, arena, N)
    BY <1>4, <1>7 DEF ParseInv
  <2>2. Widens({}, {}) /\ {} \subseteq {} /\ 0 \in Nat /\ \A i \in 0 + 1 .. arena : code[i] = code[i]
    BY NoneWidens
  <2> QED
    BY ONLY <1>9, <1>17, <2>1, <2>2, FlowFramed DEF Closed
<1>E. PICK E0 : E0 = {Exit(0, <<0>>)}
  OBVIOUS
<1>19. Region(code, arena, h, E0, {}, M, 0, 0)
  <2>1. Region(code, arena, h, E0, {}, N, 0, 0)
    BY <1>4, <1>5, <1>6, <1>7, <1>E DEF ParseInv
  <2>2. Widens(E0, E0) /\ {} \subseteq {} /\ \A i \in arena + 1 .. h : code[i] = code[i]
    BY Narrower
  <2> QED
    BY ONLY <1>9, <1>17, <2>1, <2>2, RegionFramed
<1>20. Region(code, h, h, Exits', {}, M, n, f)
  <2>1. h + 1 .. h = {}
    BY <1>9
  <2>2. Flow(code, h, h, Exits', {}, M)
    BY <2>1 DEF Flow
  <2>3. n \in Nat
    BY CompilerSizes
  <2>4. Follows(<<f>>, q)
    BY <1>16, NoArms DEF Follows
  <2>5. Exit(n, q).d = n /\ Exit(n, q).path = q
    BY DEF Exit
  <2>6. Meets(code, h, h, Exits', h + 1, n, <<f>>)
    BY <1>15, <2>3, <2>4, <2>5 DEF Meets
  <2> QED
    BY <2>2, <2>6 DEF Region
<1>21. \A g \in DOMAIN funcs' : g = f \/ Enters(code, arena, funcs'[g], g)
  BY <1>2, <1>4, <1>5 DEF ParseInv, Declared
<1>22. ParseInv'
  BY <1>3, <1>6, <1>8, <1>10, <1>11, <1>18, <1>19, <1>E, <1>20, <1>21 DEF ParseInv
<1>23. SavedInv'
  BY <1>3, <1>4 DEF SavedInv
<1> QED
  BY <1>3, <1>11, <1>12, <1>22, <1>23 DEF InParse

(* A finished body flows to its returns alone. *)
BodyDone(c, b, f) ==
  /\ IsCode(c) /\ Len(c) \in Nat /\ b <= Len(c) /\ Begins(code, c) /\ Len(code) <= Len(c)
  /\ Region(c, b, Len(c), {}, {}, Len(funcs), funcs[f].params, f)

LEMMA BodyEnds ==
  ASSUME Base, AllAvoided, InParse, EndFunc, NEW c,
         c = IF EndsInReturn THEN code ELSE Emit(code, Depth, <<OP_RETURN_V>>)
  PROVE  BodyDone(c, Innermost.start, Innermost.id)
<1>1. open # <<>> /\ Innermost.kind = "func" /\ "last_byte" \in Avoided /\ LastByteRight
  BY DEF EndFunc, Closing, AllAvoided
<1>2. DOMAIN open = {1} /\ Innermost = open[1] /\ Nested
  BY <1>1, FunctionBlock
<1>3. PICK f : f = Innermost.id
  OBVIOUS
<1>4. PICK b : b = Innermost.start
  OBVIOUS
<1>5. Lo = b /\ EntryDepth = funcs[f].params /\ UnitOf(open) = f
  BY <1>2, <1>3, <1>4 DEF Lo, EntryDepth, UnitOf, Nested
<1>6. Pending = {}
  <2>1. \A k \in DOMAIN open : open[k].kind = "func"
    BY <1>1, <1>2
  <2> QED
    BY <2>1, NothingParked
<1>7. /\ Ready(code, {}, Exits) /\ Exits \subseteq At(Depth) /\ phase = "parse" /\ Depth \in Nat
      /\ IsCode(code) /\ Len(code) \in Nat /\ Lo \in Nat /\ Lo <= Len(code)
  BY <1>6, Starts
<1>8. Ready(c, {}, {}) /\ Begins(code, c) /\ Len(code) <= Len(c)
  <2>1. CASE EndsInReturn
    <3>1. c = code
      BY <2>1
    <3>2. Last(code) = code[Len(code)]
      BY DEF Last
    <3>3. Len(code) > b /\ code[Len(code)].b \in {OP_RETURN, OP_RETURN_V}
          /\ code[Len(code)].at # Operand /\ Len(code[Len(code)].path) = 1
      BY <1>1, <1>4, <2>1, <3>2 DEF LastByteRight
    <3>4. Returned(code)
      BY <1>2, <1>5, <3>3 DEF Returned
    <3>5. Exits = {}
      BY <3>4 DEF Exits
    <3> QED
      BY <1>7, <3>1, <3>5 DEF Begins
  <2>2. CASE ~EndsInReturn
    <3>1. c = Emit(code, Depth, <<OP_RETURN_V>>)
      BY <2>2
    <3>2. PICK d : d = Depth
      OBVIOUS
    <3>3. c = Emit(code, d, <<OP_RETURN_V>>) /\ d \in Nat /\ Exits \subseteq At(d)
      BY <1>7, <3>1, <3>2
    <3>4. OP_RETURN_V \in Ending /\ OP_RETURN_V \in Byte
      BY Opcodes DEF Ending
    <3>5. Ready(c, {}, {}) /\ IsEmitted(c, code, d, <<OP_RETURN_V>>, 1)
      BY ONLY <1>7, <3>3, <3>4, EmitsEnd, Base
    <3>6. Begins(code, c) /\ Len(c) = Len(code) + 1
      BY <3>5, Zenon DEF IsEmitted
    <3> QED
      BY <1>7, <3>5, <3>6
  <2> QED
    BY <2>1, <2>2
<1>9. /\ IsCode(c) /\ Len(c) \in Nat /\ Lo <= Len(c)
      /\ Region(c, Lo, Len(c), {}, {}, Len(funcs), EntryDepth, UnitOf(open))
  BY <1>8, ReadyIs
<1> QED
  BY <1>3, <1>4, <1>5, <1>8, <1>9 DEF BodyDone

(* A function's entry is its first cell. *)
LEMMA RegionEnters ==
  ASSUME NEW c, NEW lo \in Nat, NEW hi \in Nat, lo <= hi, NEW n, NEW d, NEW u,
         Region(c, lo, hi, {}, {}, n, d, u)
  PROVE  lo + 1 <= hi /\ c[lo + 1].at = d /\ c[lo + 1].path[1] = u
<1>1. Meets(c, lo, hi, {}, lo + 1, d, <<u>>)
  BY DEF Region
<1>2. lo + 1 \in lo + 1 .. hi /\ c[lo + 1].at = d /\ Follows(<<u>>, c[lo + 1].path)
  BY <1>1 DEF Meets
<1> QED
  BY <1>2 DEF Follows

LEMMA EndFuncFlow ==
  ASSUME Base, AllAvoided, InParse, EndFunc
  PROVE  InParse'
<1>1. Base'
  BY EndFuncStep
<1>2. PICK f : f = Innermost.id
  OBVIOUS
<1>3. PICK b : b = Innermost.start
  OBVIOUS
<1>4. PICK c : c = IF EndsInReturn THEN code ELSE Emit(code, Depth, <<OP_RETURN_V>>)
  OBVIOUS
<1>5. /\ phase = "parse" /\ phase' = phase /\ saved' = saved /\ locals' = 0 /\ loops' = loops
      /\ open # <<>> /\ Innermost.kind = "func" /\ open' = Front(open)
      /\ code' = Rotate(c, b)
      /\ funcs' = [funcs EXCEPT ![f].start = arena] /\ arena' = arena + Len(c) - b
  BY <1>2, <1>3, <1>4 DEF EndFunc, Closing, Emits
<1>6. /\ DOMAIN open = {1} /\ Innermost = open[1] /\ Nested /\ b \in Nat /\ f \in Nat
      /\ Front(open) = <<>>
  BY <1>2, <1>3, <1>5, FunctionBlock
<1>7. /\ IsCode(code) /\ Len(code) \in Nat /\ arena \in Nat
      /\ funcs \in Seq(FuncType) /\ Len(funcs) \in Nat /\ DOMAIN funcs = 1 .. Len(funcs)
      /\ \A g \in DOMAIN funcs : funcs[g] \in FuncType
  BY TypedFacts
<1>8. b \in arena .. Len(code) /\ f \in DOMAIN funcs
  BY <1>2, <1>3, <1>5, <1>6 DEF Base, PlacesInv
<1>9. ParseInv /\ SavedInv
  BY DEF InParse
<1>10. BodyDone(c, b, f)
  BY <1>2, <1>3, <1>4, BodyEnds
<1>11. PICK h : h = Len(c)
  OBVIOUS
<1>12. PICK L : L = h - b
  OBVIOUS
<1>13. PICK a : a = arena
  OBVIOUS
<1>14. PICK N : N = Len(funcs)
  OBVIOUS
<1>15. /\ IsCode(c) /\ h \in Nat /\ b <= h /\ (\A i \in 1 .. Len(code) : c[i] = code[i])
       /\ Len(code) <= h
       /\ Region(c, b, h, {}, {}, N, funcs[f].params, f)
  BY <1>10, <1>11, <1>14 DEF BodyDone, Begins
<1>16. /\ a \in Nat /\ a <= b /\ L \in Nat /\ h = b + L /\ N \in Nat /\ b \in Nat
  BY <1>6, <1>7, <1>8, <1>12, <1>13, <1>14, <1>15
<1>17. b + 1 <= h /\ c[b + 1].at = funcs[f].params /\ c[b + 1].path[1] = f
  BY <1>15, <1>16, RegionEnters
<1>18. L > 0
  BY <1>15, <1>16, <1>17
<1>19. arena' = a + L
  BY <1>5, <1>11, <1>13, <1>15, <1>16
<1>20. /\ IsCode(code') /\ Len(code') = h
       /\ \A i \in 1 .. a : code'[i] = c[i]
       /\ \A i \in 1 .. L : code'[a + i] = c[b + i]
       /\ \A i \in 1 .. b - a : code'[(a + L) + i] = c[a + i]
  <2>1. arena <= b /\ b <= Len(c) /\ arena \in Nat /\ IsCode(c) /\ b \in Nat
    BY <1>7, <1>11, <1>13, <1>15, <1>16
  <2>2. /\ IsCode(code') /\ Len(code') = Len(c)
        /\ \A i \in 1 .. arena : code'[i] = c[i]
        /\ \A i \in 1 .. Len(c) - b : code'[arena + i] = c[b + i]
        /\ \A i \in 1 .. b - arena : code'[(arena + (Len(c) - b)) + i] = c[arena + i]
    BY ONLY <1>5, <2>1, Rotated
  <2> QED
    BY <1>11, <1>12, <1>13, <2>2
<1>21. \A i \in 1 .. b : c[i] = code[i]
  BY <1>8, <1>15, <1>16, <1>7
<1>22. Cells(c, h) /\ Cells(code, a) /\ Cells(code, b) /\ Cells(code', a + L) /\ Cells(c, b)
  <2>1. /\ h \in 0 .. Len(c) /\ a \in 0 .. Len(code) /\ b \in 0 .. Len(code) /\ a + L \in 0 .. Len(code')
        /\ b \in 0 .. Len(c)
    BY <1>7, <1>8, <1>11, <1>15, <1>16, <1>20
  <2> QED
    BY <1>7, <1>15, <1>20, <2>1, CellsOf
<1>23. Region(code', a, a + L, {}, {}, N, funcs[f].params, f)
  <2>1. PICK k : k = a - b
    OBVIOUS
  <2>2. k \in Int /\ a = b + k /\ a + L = h + k /\ a + L \in Nat
    BY <1>16, <2>1
  <2>3. ASSUME NEW i \in b + 1 .. h PROVE code'[i + k] = c[i]
    <3>1. PICK j : j = i - b
      OBVIOUS
    <3>2. j \in 1 .. L /\ a + j = i + k /\ b + j = i
      BY <1>16, <2>1, <3>1
    <3> QED
      BY <1>20, <3>2
  <2>4. PICK z : z = a + L
    OBVIOUS
  <2>5. PICK d : d = funcs[f].params
    OBVIOUS
  <2>6. Region(c, b, h, {}, {}, N, d, f)
    BY <1>15, <2>5
  <2>7. h \in Nat /\ b \in Nat /\ a \in Nat /\ N \in Nat
    BY <1>15, <1>16
  <2>8. z \in Nat /\ a = b + k /\ z = h + k /\ k \in Int
    BY <2>2, <2>4
  <2>9. Region(code', a, z, {}, {}, N, d, f)
    BY ONLY <1>22, <2>3, <2>6, <2>7, <2>8, RegionShifted
  <2> QED
    BY <2>4, <2>5, <2>9
<1>24. Closed(code', 0, a, N)
  <2>1. Closed(code, 0, a, N)
    BY <1>9, <1>13, <1>14 DEF ParseInv
  <2>2. \A i \in 0 + 1 .. a : code'[i] = code[i]
    BY <1>16, <1>20, <1>21
  <2>3. Widens({}, {}) /\ {} \subseteq {} /\ 0 \in Nat /\ N <= N
    BY <1>16, NoneWidens
  <2> QED
    BY ONLY <1>16, <1>22, <2>1, <2>2, <2>3, FlowFramed DEF Closed
<1>25. Closed(code', 0, a + L, N)
  <2>1. Closed(code', a, a + L, N)
    BY <1>23 DEF Region, Closed
  <2>2. a <= a + L /\ a + L \in Nat
    BY <1>16
  <2> QED
    BY ONLY <1>16, <1>22, <1>24, <2>1, <2>2, FlowJoined
<1>E. PICK E0 : E0 = {Exit(0, <<0>>)}
  OBVIOUS
<1>26. Region(code', a + L, h, E0, {}, N, 0, 0)
  <2>1. Region(code, a, b, E0, {}, N, 0, 0)
    BY <1>3, <1>6, <1>9, <1>13, <1>14, <1>E DEF ParseInv
  <2>2. /\ Widens(E0, E0) /\ {} \subseteq {} /\ N <= N
        /\ \A i \in a + 1 .. b : c[i] = code[i]
    BY <1>16, <1>21, Narrower
  <2>3. Region(c, a, b, E0, {}, N, 0, 0)
    BY ONLY <1>16, <1>22, <2>1, <2>2, RegionFramed
  <2>4. L \in Int /\ a + L \in Nat /\ h = b + L
    BY <1>16
  <2>5. ASSUME NEW i \in a + 1 .. b PROVE code'[i + L] = c[i]
    <3>1. PICK j : j = i - a
      OBVIOUS
    <3>2. j \in 1 .. b - a /\ (a + L) + j = i + L /\ a + j = i
      BY <1>16, <3>1
    <3> QED
      BY <1>20, <3>2
  <2> QED
    BY ONLY <1>15, <1>16, <1>22, <2>3, <2>4, <2>5, RegionShifted
<1>27. /\ Len(funcs') = N /\ DOMAIN funcs' = DOMAIN funcs
       /\ funcs'[f].start = a /\ funcs'[f].params = funcs[f].params
       /\ \A g \in DOMAIN funcs : g # f => funcs'[g] = funcs[g]
  <2>1. PICK t : t = [funcs[f] EXCEPT !.start = arena]
    OBVIOUS
  <2>2. t \in FuncType /\ t.start = a /\ t.params = funcs[f].params
    BY <1>7, <1>8, <1>13, <2>1 DEF FuncType
  <2>3. funcs' = [funcs EXCEPT ![f] = t]
    BY <1>5, <2>1
  <2>4. /\ Len(funcs') = Len(funcs) /\ DOMAIN funcs' = DOMAIN funcs /\ funcs'[f] = t
        /\ \A g \in DOMAIN funcs : g # f => funcs'[g] = funcs[g]
    BY ONLY <1>7, <1>8, <2>2, <2>3, EntrySet
  <2> QED
    BY <1>14, <2>2, <2>4
<1>28. open' = <<>>
  BY <1>5, <1>6
<1>29. /\ ~Nested' /\ Lo' = arena' /\ UnitOf(open') = 0 /\ EntryDepth' = 0 /\ Pending' = {}
       /\ Exits' = E0 /\ DOMAIN open' = {}
  BY <1>1, <1>28, <1>E, OutsideThen DEF OutsideFacts
<1>30. SitesInv'
  BY <1>29, NothingParkedThen DEF NothingParkedNow
<1>31. TailInv'
  BY <1>29 DEF TailInv
<1>32. ASSUME NEW g \in DOMAIN funcs' PROVE Enters(code', a + L, funcs'[g], g)
  <2>1. CASE g = f
    <3>1. a + 1 \in 1 .. a + L /\ 1 \in 1 .. L
      BY <1>16, <1>18
    <3>2. code'[a + 1] = c[b + 1]
      BY <1>20, <3>1
    <3> QED
      BY <1>17, <1>27, <2>1, <3>1, <3>2 DEF Enters
  <2>2. CASE g # f
    <3>1. Enters(code, a, funcs[g], g)
      BY <1>2, <1>6, <1>9, <1>13, <1>27, <2>2 DEF ParseInv
    <3>2. PICK j : j = funcs[g].start + 1
      OBVIOUS
    <3>3. j \in 1 .. a /\ code[j].at = funcs[g].params /\ code[j].path[1] = g
      BY <3>1, <3>2 DEF Enters
    <3>4. j \in 1 .. b /\ j \in 1 .. a + L
      BY <1>16, <3>3
    <3>5. code'[j] = code[j]
      BY <1>20, <1>21, <3>3, <3>4
    <3>6. funcs'[g] = funcs[g]
      BY <1>27, <2>2
    <3> QED
      BY <3>2, <3>3, <3>4, <3>5, <3>6 DEF Enters
  <2> QED
    BY <2>1, <2>2
<1>33. ParseInv'
  BY <1>14, <1>19, <1>20, <1>25, <1>26, <1>27, <1>29, <1>E, <1>32 DEF ParseInv
<1>34. SavedInv'
  BY <1>5, <1>9 DEF SavedInv
<1> QED
  BY <1>5, <1>30, <1>31, <1>33, <1>34 DEF InParse

-----------------------------------------------------------------------------
(* Lines. *)
BaseFacts ==
  /\ IsCode(code) /\ Len(code) \in Nat /\ arena \in 0 .. Len(code) /\ arena \in Nat
  /\ Len(funcs) \in Nat /\ DOMAIN funcs = 1 .. Len(funcs)

LEMMA BaseFactsAre == Base => BaseFacts
  BY TypedFacts DEF BaseFacts

LEMMA BaseFactsThen == Base' => BaseFacts'
  BY BaseFactsAre, PTL

(* What flows and is entered stays so where the code stays. *)
LEMMA Framed ==
  ASSUME NEW c, NEW c2, NEW m \in Nat, Cells(c, m), \A i \in 1 .. m : c2[i] = c[i],
         NEW n \in Nat, NEW n2 \in Nat, n <= n2
  PROVE  /\ Closed(c, 0, m, n) => Closed(c2, 0, m, n2)
         /\ \A g, f : Enters(c, m, g, f) => Enters(c2, m, g, f)
<1>1. Closed(c, 0, m, n) => Closed(c2, 0, m, n2)
  <2>1. Widens({}, {}) /\ {} \subseteq {} /\ 0 \in Nat /\ \A i \in 0 + 1 .. m : c2[i] = c[i]
    BY NoneWidens
  <2> QED
    BY ONLY <2>1, m \in Nat, n \in Nat, n2 \in Nat, n <= n2, Cells(c, m), FlowFramed DEF Closed
<1>2. \A g, f : Enters(c, m, g, f) => Enters(c2, m, g, f)
  <2> SUFFICES ASSUME NEW g, NEW f, Enters(c, m, g, f) PROVE Enters(c2, m, g, f)
    OBVIOUS
  <2>1. PICK j : j = g.start + 1
    OBVIOUS
  <2>2. j \in 1 .. m /\ c[j].at = g.params /\ c[j].path[1] = f
    BY <2>1 DEF Enters
  <2>3. c2[j] = c[j]
    BY <2>2
  <2> QED
    BY <2>1, <2>2, <2>3 DEF Enters
<1> QED
  BY <1>1, <1>2

LEMMA BeginLineFlow ==
  ASSUME Base, PromptInv, BeginLine
  PROVE  InParse'
<1>1. Base'
  BY BeginLineStep
<1>2. /\ phase = "prompt" /\ phase' = "parse"
      /\ saved' = [count |-> Len(funcs), arena |-> arena,
                   funcs |-> funcs, bytes |-> SubSeq(code, 1, arena)]
      /\ code' = code /\ arena' = arena /\ funcs' = funcs /\ open' = open
  BY DEF BeginLine
<1>3. open' = <<>> /\ Len(code) = arena
  BY <1>2 DEF Base
<1>4. /\ ~Nested' /\ Lo' = arena' /\ UnitOf(open') = 0 /\ EntryDepth' = 0 /\ Pending' = {}
      /\ Exits' = {Exit(0, <<0>>)} /\ DOMAIN open' = {}
  BY <1>1, <1>3, OutsideThen DEF OutsideFacts
<1>5. BaseFacts
  BY BaseFactsAre
<1>6. SitesInv'
  BY <1>4, NothingParkedThen DEF NothingParkedNow
<1>7. TailInv'
  BY <1>4 DEF TailInv
<1>8. Closed(code, 0, arena, Len(funcs)) /\ \A f \in DOMAIN funcs : Enters(code, arena, funcs[f], f)
  BY DEF PromptInv
<1>9. PICK a : a = arena
  OBVIOUS
<1>10. PICK E0 : E0 = {Exit(0, <<0>>)}
  OBVIOUS
<1>11. PICK N : N = Len(funcs)
  OBVIOUS
<1>12. Region(code, a, a, E0, {}, N, 0, 0)
  <2>1. a + 1 .. a = {}
    BY <1>5, <1>9 DEF BaseFacts
  <2>2. Flow(code, a, a, E0, {}, N)
    BY <2>1 DEF Flow
  <2>3. Follows(<<0>>, <<0>>)
    BY NoArms DEF Follows
  <2>4. Exit(0, <<0>>).d = 0 /\ Exit(0, <<0>>).path = <<0>> /\ Exit(0, <<0>>) \in E0
    BY <1>10 DEF Exit
  <2>5. Meets(code, a, a, E0, a + 1, 0, <<0>>)
    BY <2>3, <2>4 DEF Meets
  <2> QED
    BY <2>2, <2>5 DEF Region
<1>13. ParseInv'
  BY <1>2, <1>3, <1>4, <1>8, <1>9, <1>10, <1>11, <1>12 DEF ParseInv
<1>14. SavedInv'
  <2>1. PICK c : c = SubSeq(code, 1, a)
    OBVIOUS
  <2>2. saved'.count = N /\ saved'.arena = a /\ saved'.funcs = funcs /\ saved'.bytes = c
    BY <1>2, <1>9, <1>11, <2>1
  <2>3. a \in Nat /\ a \in 0 .. Len(code) /\ N \in Nat /\ N <= N /\ IsCode(code)
        /\ DOMAIN funcs = 1 .. N
    BY <1>5, <1>9, <1>11 DEF BaseFacts
  <2>4. Cells(code, a)
    BY <2>3, CellsOf
  <2>5. \A i \in 1 .. a : c[i] = code[i]
    BY <2>1, <2>3, CodePrefix
  <2>6. /\ Closed(code, 0, a, N) => Closed(c, 0, a, N)
        /\ \A g, f : Enters(code, a, g, f) => Enters(c, a, g, f)
    BY ONLY <2>3, <2>4, <2>5, Framed
  <2>7. Closed(c, 0, a, N) /\ \A f \in 1 .. N : Enters(c, a, funcs[f], f)
    BY <1>8, <1>9, <1>11, <2>3, <2>6
  <2> QED
    BY <2>2, <2>7 DEF SavedInv
<1> QED
  BY <1>2, <1>6, <1>7, <1>13, <1>14 DEF InParse

LEMMA RejectFlow ==
  ASSUME Base, InParse, Reject
  PROVE  PromptInv' /\ phase' = "prompt"
<1>1. /\ phase = "parse" /\ funcs' = funcs_rollback /\ phase' = "prompt" /\ arena' = saved.arena
      /\ code' = SubSeq(code, 1, saved.arena) /\ frames' = <<>>
  BY DEF Reject, BackToPrompt
<1>2. funcs' = saved.funcs /\ code' = saved.bytes
  BY <1>1, RolledBack
<1>3. SavedInv
  BY DEF InParse
<1>4. saved.count = Len(funcs') /\ DOMAIN funcs' = 1 .. saved.count
  <2>1. saved.count = Len(saved.funcs) /\ saved.funcs \in Seq(FuncType)
    BY <1>1 DEF Base, TraceInv
  <2> QED
    BY <1>2, <2>1
<1> QED
  BY <1>1, <1>2, <1>3, <1>4 DEF SavedInv, PromptInv

LEMMA StopFlow ==
  ASSUME Base, RunInv, Stop
  PROVE  PromptInv' /\ phase' = "prompt"
<1>1. /\ funcs' = funcs /\ phase' = "prompt" /\ arena' = arena
      /\ code' = SubSeq(code, 1, arena) /\ frames' = <<>>
  BY DEF Stop, BackToPrompt
<1>2. BaseFacts
  BY BaseFactsAre
<1>3. PICK a : a = arena
  OBVIOUS
<1>4. PICK N : N = Len(funcs)
  OBVIOUS
<1>5. a \in Nat /\ a \in 0 .. Len(code) /\ N \in Nat /\ N <= N /\ IsCode(code)
  BY <1>2, <1>3, <1>4 DEF BaseFacts
<1>6. Cells(code, a)
  BY <1>5, CellsOf
<1>7. \A i \in 1 .. a : code'[i] = code[i]
  BY <1>1, <1>3, <1>5, CodePrefix
<1>8. /\ Closed(code, 0, a, N) => Closed(code', 0, a, N)
      /\ \A g, f : Enters(code, a, g, f) => Enters(code', a, g, f)
  BY ONLY <1>5, <1>6, <1>7, Framed
<1>9. Closed(code, 0, a, N) /\ \A f \in DOMAIN funcs : Enters(code, a, funcs[f], f)
  BY <1>3, <1>4 DEF RunInv
<1> QED
  BY <1>1, <1>3, <1>4, <1>8, <1>9 DEF PromptInv

LEMMA EndLineFlow ==
  ASSUME Base, InParse, EndLine
  PROVE  RunInv' /\ phase' = "run"
<1>1. /\ open = <<>> /\ code' = Emit(code, 0, <<OP_HALT>>) /\ phase' = "run"
      /\ pc' = arena + 1 /\ sp' = 0 /\ fp' = 0 /\ frames' = <<>>
      /\ arena' = arena /\ funcs' = funcs
  BY DEF EndLine
<1>2. /\ ~Nested /\ Lo = arena /\ PathOf(open) = <<0>> /\ UnitOf(open) = 0
      /\ EntryDepth = 0 /\ Pending = {} /\ Exits = {Exit(0, <<0>>)}
  BY <1>1, OutsideIs DEF OutsideFacts
<1>3. Ready(code, {}, Exits) /\ phase = "parse" /\ ParseInv
  BY <1>2, Starts
<1>4. PICK e : e = code'
  OBVIOUS
<1>5. PICK E : E = Exits
  OBVIOUS
<1>6. Ready(e, {}, {}) /\ IsEmitted(e, code, 0, <<OP_HALT>>, 1)
  <2>1. OP_HALT \in Ending /\ OP_HALT \in Byte /\ 0 \in Nat
    BY Opcodes DEF Ending
  <2>2. E \subseteq At(0)
    BY <1>2, <1>5 DEF At
  <2>3. Ready(code, {}, E) /\ e = Emit(code, 0, <<OP_HALT>>)
    BY <1>1, <1>3, <1>4, <1>5
  <2> QED
    BY ONLY Base, <1>3, <2>1, <2>2, <2>3, EmitsEnd
<1>7. PICK h : h = Len(e)
  OBVIOUS
<1>8. PICK N : N = Len(funcs)
  OBVIOUS
<1>9. PICK a : a = arena
  OBVIOUS
<1>10. BaseFacts
  BY BaseFactsAre
<1>11. /\ IsCode(e) /\ h \in Nat /\ Cells(e, h) /\ a <= h /\ Region(e, a, h, {}, {}, N, 0, 0)
  BY <1>2, <1>6, <1>7, <1>8, <1>9, ReadyIs
<1>12. /\ a \in Nat /\ a \in 0 .. Len(code) /\ N \in Nat /\ N <= N /\ IsCode(code) /\ 0 \in Nat
  BY <1>8, <1>9, <1>10 DEF BaseFacts
<1>13. Cells(code, a)
  BY <1>12, CellsOf
<1>14. \A i \in 1 .. a : e[i] = code[i]
  <2>1. \A i \in 1 .. Len(code) : e[i] = code[i]
    BY <1>6, Zenon DEF IsEmitted, Begins
  <2> QED
    BY <1>12, <2>1
<1>15. a + 1 <= h /\ e[a + 1].at = 0 /\ e[a + 1].path[1] = 0
  <2>1. a <= h
    BY <1>11
  <2>2. Region(e, a, h, {}, {}, N, 0, 0)
    BY <1>11
  <2>3. a \in Nat /\ h \in Nat
    BY <1>11, <1>12
  <2> QED
    BY ONLY <2>1, <2>2, <2>3, RegionEnters
<1>16. /\ Closed(code, 0, a, N) => Closed(e, 0, a, N)
       /\ \A g, f : Enters(code, a, g, f) => Enters(e, a, g, f)
  BY ONLY <1>12, <1>13, <1>14, Framed
<1>17. Closed(code, 0, a, N) /\ \A f \in DOMAIN funcs : Enters(code, a, funcs[f], f)
  BY <1>2, <1>3, <1>8, <1>9 DEF ParseInv
<1>18. Closed(e, a, h, N)
  BY <1>11 DEF Region, Closed
<1>19. Closed(e, 0, h, N)
  BY ONLY <1>11, <1>12, <1>16, <1>17, <1>18, FlowJoined
<1>20. a + 1 \in 1 .. h /\ 0 # Operand /\ 0 \in Int /\ 0 - 0 = 0
  BY <1>11, <1>12, <1>15 DEF Operand
<1>21. Len(frames') = 0 /\ DOMAIN frames' = {} /\ Called(code', frames', 0) = 0
  BY <1>1 DEF Called
<1> QED
  BY <1>1, <1>4, <1>7, <1>8, <1>9, <1>15, <1>16, <1>17, <1>19, <1>20, <1>21 DEF RunInv

-----------------------------------------------------------------------------
(* The machine. *)

(* A step within a function goes along an edge. *)
Along == Meets(code, 0, Len(code), {}, pc', sp' - fp, code[pc].path)

(* Steps leave the code, its functions and the frames as they are. *)
CodeStays == code' = code /\ arena' = arena /\ funcs' = funcs /\ phase' = phase

LEMMA AtInstruction ==
  ASSUME Base, RunInv
  PROVE  /\ pc \in Nat /\ sp \in Int /\ fp \in Int /\ code[pc].at = sp - fp
         /\ Leads(code, 0, Len(code), {}, {}, Len(funcs), pc)
<1>1. /\ Closed(code, 0, Len(code), Len(funcs)) /\ pc \in 1 .. Len(code) /\ code[pc].at # Operand
      /\ sp \in Int /\ fp \in Int /\ sp - fp = code[pc].at
  BY DEF RunInv
<1>2. pc \in 0 + 1 .. Len(code) /\ pc \in Nat
  BY <1>1, BaseFactsAre DEF BaseFacts
<1>3. Leads(code, 0, Len(code), {}, {}, Len(funcs), pc)
  BY <1>1, <1>2 DEF Closed, Flow
<1> QED
  BY <1>1, <1>2, <1>3

LEMMA GoesAlong ==
  ASSUME Base, RunInv, StraightOn \/ Jump \/ LoopBack \/ JumpIfFalse \/ IfLetOp
  PROVE  Along /\ sp' \in Int /\ fp' = fp /\ frames' = frames /\ CodeStays
<1> DEFINE b == code[pc].b
<1>1. /\ pc \in Nat /\ sp \in Int /\ fp \in Int /\ code[pc].at = sp - fp
      /\ Leads(code, 0, Len(code), {}, {}, Len(funcs), pc)
  BY AtInstruction
<1>2. fp' = fp /\ frames' = frames /\ CodeStays
  BY DEF StraightOn, Jump, LoopBack, JumpIfFalse, IfLetOp, GoTo, compiling, CodeStays
<1>3. PICK w : w = WordOf(code, pc + 1)
  OBVIOUS
<1>4. Word(pc + 1) = w
  BY <1>3 DEF Word, WordOf
<1>5. PICK p : p = code[pc].path
  OBVIOUS
<1>6. PICK h : h = Len(code)
  OBVIOUS
<1>7. PICK d : d = sp - fp
  OBVIOUS
<1>8. /\ b \in Falls => Meets(code, 0, h, {}, pc + Size(b), NearDepth(code, pc), p)
      /\ b \in Forward => Meets(code, 0, h, {}, pc + 3 + w, FarDepth(code, pc), p)
      /\ b = OP_LOOP => Meets(code, 0, h, {}, pc + 3 - w, d, p)
  BY <1>1, <1>3, <1>5, <1>6, <1>7 DEF Leads
<1>9. CASE StraightOn
  <2>1. /\ b \in Straight /\ pc' = pc + (IF b \in Wide THEN 2 ELSE 1) /\ sp' = sp + Effect(b)
    BY <1>9 DEF StraightOn, GoTo, Op, Straight
  <2>2. b \in Falls /\ Size(b) = IF b \in Wide THEN 2 ELSE 1
    BY <2>1, Codes DEF Straight
  <2>3. Effect(b) \in Int
    BY <2>1, Effects
  <2>4. NearDepth(code, pc) = d + Effect(b)
    BY <1>1, <1>7, <2>1 DEF NearDepth
  <2>5. sp' \in Int /\ sp' - fp = d + Effect(b)
    BY <1>1, <1>7, <2>1, <2>3
  <2>6. Meets(code, 0, h, {}, pc', sp' - fp, p)
    BY <1>8, <2>1, <2>2, <2>4, <2>5
  <2> QED
    BY <1>2, <1>5, <1>6, <2>5, <2>6 DEF Along
<1>10. CASE Jump
  <2>1. b = OP_JUMP /\ pc' = pc + 3 + w /\ sp' = sp
    BY <1>4, <1>10 DEF Jump, GoTo, Op
  <2>2. b \in Forward
    BY <2>1 DEF Forward
  <2>3. FarDepth(code, pc) = d
    BY <1>1, <1>7, <2>1 DEF FarDepth
  <2> QED
    BY <1>1, <1>2, <1>5, <1>6, <1>7, <1>8, <2>1, <2>2, <2>3 DEF Along
<1>11. CASE LoopBack
  <2>1. b = OP_LOOP /\ pc' = pc + 3 - w /\ sp' = sp
    BY <1>4, <1>11 DEF LoopBack, GoTo, Op
  <2> QED
    BY <1>1, <1>2, <1>5, <1>6, <1>7, <1>8, <2>1 DEF Along
<1>12. ASSUME b \in {OP_JUMP_IF_FALSE, OP_IF_LET}
       PROVE  /\ b \in Falls /\ b \in Forward /\ Size(b) = 3 /\ FarDepth(code, pc) = d - 1
              /\ NearDepth(code, pc) = IF b = OP_IF_LET THEN d ELSE d - 1
  <2>1. b \in Falls /\ b \in Forward /\ OP_JUMP_IF_FALSE # OP_IF_LET /\ OP_JUMP # b /\ b # OP_CALL
    BY <1>12 DEF Falls, Forward, OP_JUMP_IF_FALSE, OP_IF_LET, OP_JUMP, OP_CALL
  <2>2. Size(b) = 3 /\ b \notin Straight
    BY <2>1, Codes
  <2>3. d \in Int /\ code[pc].at = d
    BY <1>1, <1>7
  <2> QED
    BY <1>12, <2>1, <2>2, <2>3 DEF FarDepth, NearDepth
<1>13. CASE JumpIfFalse
  <2>1. b = OP_JUMP_IF_FALSE /\ sp' = sp - 1 /\ (pc' = pc + 3 \/ pc' = pc + 3 + w)
    BY <1>4, <1>13 DEF JumpIfFalse, GoTo, Op
  <2>2. sp' \in Int /\ sp' - fp = d - 1 /\ b # OP_IF_LET
    BY <1>1, <1>7, <2>1 DEF OP_IF_LET, OP_JUMP_IF_FALSE
  <2>3. /\ b \in Falls /\ b \in Forward /\ Size(b) = 3 /\ FarDepth(code, pc) = d - 1
        /\ NearDepth(code, pc) = d - 1
    BY <1>12, <2>1, <2>2
  <2>4. Meets(code, 0, h, {}, pc', sp' - fp, p)
    BY <1>8, <2>1, <2>2, <2>3
  <2> QED
    BY <1>2, <1>5, <1>6, <2>2, <2>4 DEF Along
<1>14. CASE IfLetOp
  <2>1. b = OP_IF_LET /\ ((pc' = pc + 3 /\ sp' = sp) \/ (pc' = pc + 3 + w /\ sp' = sp - 1))
    BY <1>4, <1>14 DEF IfLetOp, GoTo, Op
  <2>2. /\ b \in Falls /\ b \in Forward /\ Size(b) = 3 /\ FarDepth(code, pc) = d - 1
        /\ NearDepth(code, pc) = d
    BY <1>12, <2>1
  <2>3. CASE pc' = pc + 3 /\ sp' = sp
    <3>1. Meets(code, 0, h, {}, pc', sp' - fp, p)
      BY <1>7, <1>8, <2>2, <2>3
    <3> QED
      BY <1>1, <1>2, <1>5, <1>6, <2>3, <3>1 DEF Along
  <2>4. CASE pc' = pc + 3 + w /\ sp' = sp - 1
    <3>1. sp' \in Int /\ sp' - fp = d - 1
      BY <1>1, <1>7, <2>4, SMTT(30)
    <3>2. Meets(code, 0, h, {}, pc', sp' - fp, p)
      BY <1>8, <2>2, <2>4, <3>1
    <3> QED
      BY <1>1, <1>2, <1>5, <1>6, <3>1, <3>2 DEF Along
  <2> QED
    BY <2>1, <2>3, <2>4
<1> QED
  BY <1>9, <1>10, <1>11, <1>13, <1>14

(* Where the machine stands when it got there along an edge. *)
Arrives(e, q) ==
  pc' \in 1 .. Len(code) /\ code[pc'].at = e /\ e # Operand /\ code[pc'].path[1] = q

LEMMA ArrivesAlong ==
  ASSUME Base, NEW j, NEW e, NEW p, Meets(code, 0, Len(code), {}, j, e, p), pc' = j
  PROVE  Arrives(e, p[1]) /\ Follows(p, code[pc'].path)
<1>1. e \in Nat /\ j \in 0 + 1 .. Len(code) /\ code[j].at = e /\ Follows(p, code[j].path)
  BY DEF Meets
<1> QED
  BY <1>1 DEF Arrives, Follows, Operand

LEMMA AlongFlow ==
  ASSUME Base, RunInv, StraightOn \/ Jump \/ LoopBack \/ JumpIfFalse \/ IfLetOp
  PROVE  RunInv' /\ Follows(code[pc].path, code[pc'].path)
<1>1. Along /\ sp' \in Int /\ fp' = fp /\ frames' = frames /\ CodeStays
  BY GoesAlong
<1>2. PICK p : p = code[pc].path
  OBVIOUS
<1>3. PICK e : e = sp' - fp
  OBVIOUS
<1>4. Meets(code, 0, Len(code), {}, pc', e, p)
  BY <1>1, <1>2, <1>3 DEF Along
<1>5. Arrives(e, p[1]) /\ Follows(p, code[pc'].path)
  BY <1>4, ArrivesAlong
<1>6. RunInv'
  BY <1>1, <1>2, <1>3, <1>5 DEF RunInv, Arrives, CodeStays
<1> QED
  BY <1>2, <1>5, <1>6

LEMMA FrameAdded ==
  ASSUME NEW s, s \in Seq(Range(s)), NEW x, NEW t, t = Append(s, x)
  PROVE  /\ Len(s) \in Nat /\ DOMAIN s = 1 .. Len(s) /\ Len(t) = Len(s) + 1
         /\ DOMAIN t = 1 .. Len(s) + 1 /\ t[Len(s) + 1] = x
         /\ \A k \in 1 .. Len(s) : t[k] = s[k]
  OBVIOUS

LEMMA FrameDropped ==
  ASSUME NEW s, s \in Seq(Range(s)), s # <<>>, NEW t, t = Front(s)
  PROVE  /\ Len(s) \in Nat \ {0} /\ DOMAIN s = 1 .. Len(s) /\ Len(t) = Len(s) - 1
         /\ DOMAIN t = 1 .. Len(s) - 1 /\ \A k \in 1 .. Len(s) - 1 : t[k] = s[k]
         /\ Last(s) = s[Len(s)]
<1>1. Len(s) \in Nat \ {0} /\ DOMAIN s = 1 .. Len(s) /\ Last(s) = s[Len(s)]
  BY DEF Last
<1>2. t \in Seq(Range(s)) /\ Len(t) = Len(s) - 1 /\ \A k \in 1 .. Len(s) - 1 : t[k] = s[k]
  BY FrontOf
<1>3. DOMAIN t = 1 .. Len(s) - 1
  BY <1>2
<1> QED
  BY <1>1, <1>2, <1>3

LEMMA CallOpFlow ==
  ASSUME Base, RunInv, CallOp
  PROVE  RunInv'
<1>1. /\ pc \in Nat /\ sp \in Int /\ fp \in Int /\ code[pc].at = sp - fp
      /\ Leads(code, 0, Len(code), {}, {}, Len(funcs), pc)
  BY AtInstruction
<1>2. PICK f : f = code[pc + 1].b
  OBVIOUS
<1>3. PICK d : d = code[pc + 2].b
  OBVIOUS
<1>4. PICK x : x = [pc |-> pc + 3, fp |-> fp]
  OBVIOUS
<1>5. PICK n : n = Len(frames)
  OBVIOUS
<1>6. /\ code[pc].b = OP_CALL /\ funcs[f].params = d
      /\ pc' = funcs[f].start + 1 /\ fp' = sp - d /\ sp' = sp
      /\ frames' = Append(frames, x)
      /\ code' = code /\ arena' = arena /\ funcs' = funcs
  BY <1>2, <1>3, <1>4 DEF CallOp, Callable, Op, compiling
<1>7. BaseFacts /\ frames \in Seq(Range(frames))
  BY BaseFactsAre, TypedFacts
<1>8. f \in 1 .. Len(funcs)
  BY <1>1, <1>2, <1>6 DEF Leads
<1>9. d \in Nat
  <2>1. funcs[f] \in FuncType /\ MAX_LOCALS \in Nat
    BY <1>7, <1>8, TypedFacts, CompilerSizes DEF BaseFacts
  <2> QED
    BY <1>6, <2>1 DEF FuncType
<1>10. pc' \in 1 .. Len(code) /\ code[pc'].at = d /\ code[pc'].path[1] = f
  <2>1. Enters(code, arena, funcs[f], f)
    BY <1>7, <1>8 DEF RunInv, BaseFacts
  <2>2. pc' \in 1 .. arena /\ code[pc'].at = d /\ code[pc'].path[1] = f
    BY <1>6, <2>1 DEF Enters
  <2> QED
    BY <1>7, <2>2 DEF BaseFacts
<1>11. d # Operand /\ fp' \in Int /\ sp' \in Int /\ sp' - fp' = d
  BY <1>1, <1>6, <1>9 DEF Operand
<1>12. NearDepth(code, pc) = sp - fp + 1 - d
  <2>1. OP_CALL \notin Straight /\ OP_CALL # OP_JUMP_IF_FALSE
    BY Codes DEF OP_CALL, OP_JUMP_IF_FALSE
  <2>2. NearDepth(code, pc) = code[pc].at + (1 - code[pc + 2].b)
    BY <1>6, <2>1 DEF NearDepth
  <2> QED
    BY ONLY <1>1, <1>3, <1>9, <2>2
<1>13. /\ n \in Nat /\ DOMAIN frames = 1 .. n /\ Len(frames') = n + 1 /\ DOMAIN frames' = 1 .. n + 1
       /\ frames'[n + 1] = x /\ \A k \in 1 .. n : frames'[k] = frames[k]
  BY <1>5, <1>6, <1>7, FrameAdded
<1>14. PICK s : s = frames'
  OBVIOUS
<1>15. Called(code, s, n + 1) = f
  <2>1. (pc + 3) - 2 = pc + 1 /\ n + 1 # 0
    BY <1>1, <1>13
  <2> QED
    BY <1>2, <1>4, <1>13, <1>14, <2>1 DEF Called
<1>16. ASSUME NEW k \in 0 .. n PROVE Called(code, s, k) = Called(code, frames, k)
  <2>1. k = 0 \/ k \in 1 .. n
    BY <1>13
  <2> QED
    BY <1>13, <1>14, <2>1 DEF Called
<1>17. ASSUME NEW k \in 1 .. n PROVE FpAbove(s, fp', k) = FpAbove(frames, fp, k)
  <2>1. k # n + 1 /\ (k # n => k + 1 \in 1 .. n)
    BY <1>13
  <2>2. FpAbove(s, fp', k) = s[k + 1].fp
    BY <1>13, <1>14, <2>1 DEF FpAbove
  <2>3. CASE k = n
    BY <1>4, <1>5, <1>13, <1>14, <2>2, <2>3 DEF FpAbove
  <2>4. CASE k # n
    BY <1>5, <1>13, <1>14, <2>1, <2>2, <2>4 DEF FpAbove
  <2> QED
    BY <2>3, <2>4
<1>18. ASSUME NEW k \in 1 .. n + 1 PROVE FrameFits(code, s, fp', k)
  <2>1. CASE k = n + 1
    <3>1. s[k].pc - 3 = pc /\ s[k].pc \in Int /\ s[k].fp = fp
      BY <1>1, <1>4, <1>13, <1>14, <2>1, SMTT(30)
    <3>2. FpAbove(s, fp', k) = sp - d
      BY <1>6, <1>13, <1>14, <2>1 DEF FpAbove
    <3>3. FpAbove(s, fp', k) + 1 - s[k].fp = NearDepth(code, pc)
      BY ONLY <1>1, <1>9, <1>12, <3>1, <3>2
    <3>4. k - 1 = n /\ n \in 0 .. n
      BY <1>13, <2>1
    <3>5. Called(code, s, k - 1) = Called(code, frames, n)
      BY <1>16, <3>4
    <3>6. /\ code[pc].path[1] = Called(code, frames, n) /\ pc \in 1 .. Len(code)
          /\ code[pc].at # Operand
      BY <1>5 DEF RunInv
    <3> QED
      BY ONLY <1>1, <1>6, <3>1, <3>3, <3>5, <3>6 DEF FrameFits
  <2>2. CASE k # n + 1
    <3>1. k \in 1 .. n /\ k - 1 \in 0 .. n
      BY <1>13, <2>2
    <3>2. /\ s[k] = frames[k] /\ FpAbove(s, fp', k) = FpAbove(frames, fp, k)
          /\ Called(code, s, k - 1) = Called(code, frames, k - 1)
      BY <1>13, <1>14, <1>16, <1>17, <3>1
    <3>3. FrameFits(code, frames, fp, k)
      BY <1>13, <3>1 DEF RunInv
    <3> QED
      BY ONLY <3>2, <3>3 DEF FrameFits
  <2> QED
    BY <2>1, <2>2
<1>19. /\ Closed(code, 0, arena, Len(funcs)) /\ Closed(code, 0, Len(code), Len(funcs))
       /\ \A g \in DOMAIN funcs : Enters(code, arena, funcs[g], g)
  BY DEF RunInv
<1>20. Len(s) = n + 1 /\ DOMAIN s = 1 .. n + 1
  BY <1>13, <1>14
<1> QED
  BY <1>6, <1>10, <1>11, <1>14, <1>15, <1>18, <1>19, <1>20 DEF RunInv

LEMMA ReturnOpFlow ==
  ASSUME Base, RunInv, ReturnOp
  PROVE  RunInv'
<1>1. PICK n : n = Len(frames)
  OBVIOUS
<1>2. PICK s : s = frames'
  OBVIOUS
<1>3. PICK x : x = frames[n]
  OBVIOUS
<1>4. /\ frames # <<>> /\ frames' = Front(frames) /\ pc' = Last(frames).pc
      /\ sp' = fp + 1 /\ fp' = Last(frames).fp
      /\ code' = code /\ arena' = arena /\ funcs' = funcs
  BY DEF ReturnOp, compiling
<1>5. BaseFacts /\ frames \in Seq(Range(frames))
  BY BaseFactsAre, TypedFacts
<1>6. /\ n \in Nat \ {0} /\ DOMAIN frames = 1 .. n /\ Len(s) = n - 1 /\ DOMAIN s = 1 .. n - 1
      /\ (\A k \in 1 .. n - 1 : s[k] = frames[k]) /\ Last(frames) = x
  BY <1>1, <1>2, <1>3, <1>4, <1>5, FrameDropped
<1>7. PICK j : j = x.pc - 3
  OBVIOUS
<1>8. /\ j \in 1 .. Len(code) /\ code[j].at # Operand /\ code[j].b = OP_CALL
      /\ x.pc \in Int /\ x.fp \in Int
      /\ FpAbove(frames, fp, n) + 1 - x.fp = NearDepth(code, j)
      /\ code[j].path[1] = Called(code, frames, n - 1)
  <2>1. FrameFits(code, frames, fp, n)
    BY <1>6 DEF RunInv
  <2> QED
    BY <1>3, <1>7, <2>1 DEF FrameFits
<1>9. FpAbove(frames, fp, n) = fp
  BY <1>1 DEF FpAbove
<1>10. pc' = j + 3 /\ fp' = x.fp /\ sp' = fp + 1
  BY <1>4, <1>6, <1>7, <1>8
<1>11. fp \in Int
  BY DEF RunInv
<1>12. sp' \in Int /\ fp' \in Int /\ sp' - fp' = NearDepth(code, j)
  BY ONLY <1>8, <1>9, <1>10, <1>11
<1>13. PICK e : e = NearDepth(code, j)
  OBVIOUS
<1>14. PICK p : p = code[j].path
  OBVIOUS
<1>15. Meets(code, 0, Len(code), {}, j + 3, e, p)
  <2>1. j \in 0 + 1 .. Len(code)
    BY <1>5, <1>8 DEF BaseFacts
  <2>2. Leads(code, 0, Len(code), {}, {}, Len(funcs), j)
    BY <1>8, <2>1 DEF RunInv, Closed, Flow
  <2>3. OP_CALL \in Falls /\ Size(OP_CALL) = 3
    BY Codes
  <2> QED
    BY <1>8, <1>13, <1>14, <2>2, <2>3 DEF Leads
<1>16. Arrives(e, p[1])
  BY <1>10, <1>15, ArrivesAlong
<1>17. ASSUME NEW k \in 0 .. n - 1 PROVE Called(code, s, k) = Called(code, frames, k)
  <2>1. k = 0 \/ k \in 1 .. n - 1
    BY <1>6
  <2> QED
    BY <1>6, <2>1 DEF Called
<1>18. ASSUME NEW k \in 1 .. n - 1 PROVE FrameFits(code, s, fp', k)
  <2>1. k \in DOMAIN frames /\ k # n /\ k - 1 \in 0 .. n - 1 /\ (k # n - 1 => k + 1 \in 1 .. n - 1)
    BY <1>6
  <2>2. s[k] = frames[k] /\ Called(code, s, k - 1) = Called(code, frames, k - 1)
    BY <1>6, <1>17, <2>1
  <2>3. FpAbove(frames, fp, k) = frames[k + 1].fp
    BY <1>1, <2>1 DEF FpAbove
  <2>4. FpAbove(s, fp', k) = frames[k + 1].fp
    <3>1. CASE k = n - 1
      <4>1. k + 1 = n
        BY <1>6, <3>1
      <4> QED
        BY <1>3, <1>6, <1>10, <3>1, <4>1 DEF FpAbove
    <3>2. CASE k # n - 1
      BY <1>6, <2>1, <3>2 DEF FpAbove
    <3> QED
      BY <3>1, <3>2
  <2>5. FrameFits(code, frames, fp, k)
    BY <2>1 DEF RunInv
  <2> QED
    BY ONLY <2>2, <2>3, <2>4, <2>5 DEF FrameFits
<1>19. /\ Closed(code, 0, arena, Len(funcs)) /\ Closed(code, 0, Len(code), Len(funcs))
       /\ \A g \in DOMAIN funcs : Enters(code, arena, funcs[g], g)
  BY DEF RunInv
<1>20. n - 1 \in 0 .. n - 1
  BY <1>6
<1>21. code[pc'].path[1] = Called(code, s, Len(s))
  BY <1>6, <1>8, <1>14, <1>16, <1>17, <1>20 DEF Arrives
<1>22. pc' \in 1 .. Len(code) /\ code[pc'].at # Operand /\ sp' - fp' = code[pc'].at
  BY <1>12, <1>13, <1>16 DEF Arrives
<1> QED
  BY <1>2, <1>4, <1>6, <1>12, <1>18, <1>19, <1>21, <1>22 DEF RunInv

(* What a step of the machine leads to. *)
LEMMA ExecuteFlow ==
  ASSUME Base, RunInv, Execute
  PROVE  FlowInv'
<1>1. CASE StraightOn \/ Jump \/ LoopBack \/ JumpIfFalse \/ IfLetOp \/ CallOp \/ ReturnOp
  <2>1. RunInv'
    BY <1>1, AlongFlow, CallOpFlow, ReturnOpFlow
  <2>2. phase' = "run"
    BY <1>1 DEF StraightOn, Jump, LoopBack, JumpIfFalse, IfLetOp, CallOp, ReturnOp, GoTo, Running
  <2> QED
    BY <2>1, <2>2 DEF FlowInv
<1>2. CASE Stop
  BY <1>2, StopFlow DEF FlowInv
<1> QED
  BY <1>1, <1>2 DEF Execute

LEMMA StatementsFlow ==
  ASSUME Base, AllAvoided, InParse, Statement
  PROVE  InParse'
<1>1. ASSUME NEW k \in Literals, VarDecl(k) PROVE InParse'
  BY <1>1, VarDeclFlow
<1>2. ASSUME NEW k \in Literals, Return(k) PROVE InParse'
  BY <1>2, ReturnFlow
<1>3. ASSUME NEW k \in Literals, ForIn(k) PROVE InParse'
  BY <1>3, ForInFlow
<1>4. ASSUME NEW f \in DOMAIN funcs, CallStatement(f) PROVE InParse'
  BY <1>4, CallFlow
<1>5. CASE If
  BY <1>5, IfFlow
<1>6. CASE IfLet
  BY <1>6, IfLetFlow
<1>7. CASE Else
  BY <1>7, ElseFlow
<1>8. CASE EndIf
  BY <1>8, EndIfFlow
<1>9. CASE While
  BY <1>9, WhileFlow
<1>10. CASE EndWhile
  BY <1>10, EndWhileFlow
<1>11. CASE EndFor
  BY <1>11, EndForFlow
<1>12. CASE Break
  BY <1>12, BreakFlow
<1>13. ASSUME NEW f \in 1 .. MAX_FUNCS, NEW n \in Params, NEW ret \in BOOLEAN, BeginFunc(f, n, ret)
       PROVE  InParse'
  BY <1>13, BeginFuncFlow
<1>14. CASE EndFunc
  BY <1>14, EndFuncFlow
<1> QED
  BY <1>1, <1>2, <1>3, <1>4, <1>5, <1>6, <1>7, <1>8, <1>9, <1>10, <1>11, <1>12, <1>13, <1>14,
     Zenon DEF Statement

-----------------------------------------------------------------------------
(* The invariant, and what follows from it. *)
LEMMA FlowInit == Init => FlowInv
<1> SUFFICES ASSUME Init PROVE FlowInv
  OBVIOUS
<1>1. phase = "prompt" /\ code = <<>> /\ arena = 0 /\ funcs = <<>> /\ frames = <<>>
  BY DEF Init
<1>2. DOMAIN funcs = {} /\ 0 + 1 .. 0 = {}
  BY <1>1
<1>3. Closed(code, 0, arena, Len(funcs))
  BY <1>1, <1>2 DEF Closed, Flow
<1> QED
  BY <1>1, <1>2, <1>3 DEF FlowInv, PromptInv

LEMMA FlowStutters ==
  ASSUME FlowInv, UNCHANGED vars
  PROVE  FlowInv'
<1>1. /\ phase' = phase /\ code' = code /\ arena' = arena /\ funcs' = funcs
      /\ saved' = saved /\ open' = open /\ loops' = loops /\ locals' = locals
      /\ frames' = frames /\ pc' = pc /\ sp' = sp /\ fp' = fp
  BY DEF vars, compiling, running
<1>2. PromptInv => PromptInv'
  BY <1>1 DEF PromptInv
<1>3. RunInv => RunInv'
  BY <1>1 DEF RunInv
<1>4. SavedInv => SavedInv'
  BY <1>1 DEF SavedInv
<1>5. Nested' = Nested /\ Lo' = Lo /\ EntryDepth' = EntryDepth
  BY <1>1 DEF Nested, Lo, EntryDepth
<1>6. \A k \in DOMAIN open : Parked(k)' = Parked(k) /\ Level(k)' = Level(k)
  BY <1>1, <1>5 DEF Parked, Level
<1>7. Pending' = Pending
  BY <1>1, <1>6 DEF Pending
<1>8. Exits' = Exits
  <2>1. Depth' = Depth
    BY <1>1 DEF Depth, InFunction, OpenFors
  <2> QED
    BY <1>1, <1>5, <2>1 DEF Exits, Returned
<1>9. SitesInv => SitesInv'
  BY <1>1, <1>6 DEF SitesInv
<1>10. TailInv => TailInv'
  BY <1>1, <1>5 DEF TailInv
<1>11. ParseInv => ParseInv'
  BY <1>1, <1>5, <1>7, <1>8 DEF ParseInv
<1> QED
  BY <1>1, <1>2, <1>3, <1>4, <1>9, <1>10, <1>11 DEF FlowInv

LEMMA FlowNext == Base /\ FlowInv /\ AllAvoided /\ [Next]_vars => FlowInv'
<1> SUFFICES ASSUME Base, FlowInv, AllAvoided, [Next]_vars PROVE FlowInv'
  OBVIOUS
<1>1. phase = "parse" => InParse
  BY DEF FlowInv, InParse
<1>2. InParse' => FlowInv'
  BY DEF FlowInv, InParse
<1>3. CASE BeginLine
  <2>1. PromptInv
    BY <1>3 DEF FlowInv, BeginLine
  <2> QED
    BY <1>2, <1>3, <2>1, BeginLineFlow
<1>4. CASE Statement
  <2>1. phase = "parse"
    BY <1>4 DEF Statement, VarDecl, Return, ForIn, CallStatement, If, IfLet, Else, EndIf, While,
           EndWhile, EndFor, Break, BeginFunc, EndFunc, Typing, Closing
  <2> QED
    BY <1>1, <1>2, <1>4, <2>1, StatementsFlow
<1>5. CASE EndLine
  <2>1. phase = "parse"
    BY <1>5 DEF EndLine
  <2>2. RunInv' /\ phase' = "run"
    BY <1>1, <1>5, <2>1, EndLineFlow
  <2> QED
    BY <2>2 DEF FlowInv
<1>6. CASE Reject
  <2>1. phase = "parse"
    BY <1>6 DEF Reject
  <2>2. PromptInv' /\ phase' = "prompt"
    BY <1>1, <1>6, <2>1, RejectFlow
  <2> QED
    BY <2>2 DEF FlowInv
<1>7. CASE Execute
  <2>1. phase = "run"
    BY <1>7 DEF Execute, StraightOn, Jump, LoopBack, JumpIfFalse, IfLetOp, CallOp, ReturnOp, Stop,
           Running
  <2>2. RunInv
    BY <2>1 DEF FlowInv
  <2> QED
    BY <1>7, <2>2, ExecuteFlow
<1>8. CASE UNCHANGED vars
  BY <1>8, FlowStutters
<1> QED
  BY <1>3, <1>4, <1>5, <1>6, <1>7, <1>8 DEF Next

LEMMA FlowAlways ==
  ASSUME AllAvoided
  PROVE  Spec => [](Base /\ FlowInv)
<1>1. Init => Base /\ FlowInv
  BY BaseInit, FlowInit
<1>2. (Base /\ FlowInv) /\ [Next]_vars => (Base /\ FlowInv)'
  BY BaseNext, FlowNext
<1> QED
  BY <1>1, <1>2, PTL DEF Spec

(* Whatever is typed, every jump, call and return of what the line         *)
(* compiled to, and of the functions that were moved below it, lands on    *)
(* the first byte of an instruction.                                       *)
THEOREM JumpsAlwaysLand ==
  ASSUME AllAvoided
  PROVE  Spec => []JumpsLand
<1>1. Base /\ FlowInv => JumpsLand
  <2> SUFFICES ASSUME Base, FlowInv, phase = "run" PROVE OnInstruction
    BY DEF JumpsLand
  <2>1. pc \in 1 .. Len(code) /\ code[pc].at # Operand
    BY DEF FlowInv, RunInv
  <2>2. DOMAIN code = 1 .. Len(code)
    BY TypedFacts, CodeFacts
  <2> QED
    BY <2>1, <2>2 DEF OnInstruction
<1> QED
  BY <1>1, FlowAlways, PTL

(* At every instruction, on whichever way it was reached, the stack is as  *)
(* deep as the compiler took it to be when it emitted the instruction.     *)
THEOREM DepthAlwaysAgrees ==
  ASSUME AllAvoided
  PROVE  Spec => []DepthAgrees
<1>1. Base /\ FlowInv => DepthAgrees
  BY DEF FlowInv, RunInv, DepthAgrees
<1> QED
  BY <1>1, FlowAlways, PTL

(* The frames always say which function's code is running: none is left    *)
(* by falling off its end or by a jump, none entered but by a call.        *)
THEOREM UnitIsCalled ==
  ASSUME AllAvoided
  PROVE  Spec => []StaysInUnit
<1>1. Base /\ FlowInv => StaysInUnit
  <2> SUFFICES ASSUME Base, FlowInv, phase = "run"
               PROVE  IF frames = <<>> THEN Unit = 0 ELSE Unit = code[Last(frames).pc - 2].b
    BY DEF StaysInUnit
  <2>1. Unit = Called(code, frames, Len(frames))
    BY DEF FlowInv, RunInv, Unit
  <2>2. frames \in Seq(Range(frames))
    BY TypedFacts
  <2>3. CASE frames = <<>>
    BY <2>1, <2>3 DEF Called
  <2>4. CASE frames # <<>>
    <3>1. Len(frames) # 0 /\ Last(frames) = frames[Len(frames)]
      BY <2>2, <2>4 DEF Last
    <3> QED
      BY <2>1, <2>4, <3>1 DEF Called
  <2> QED
    BY <2>3, <2>4
<1> QED
  BY <1>1, FlowAlways, PTL

(* No step of a run goes from the then-arm of an if into its else-arm.     *)
THEOREM OneArmOfEach ==
  ASSUME AllAvoided
  PROVE  Spec => ArmsExclusive
<1>1. Base /\ FlowInv /\ [Next]_vars
        => [phase = "run" /\ phase' = "run" /\ frames' = frames /\ pc' \in DOMAIN code
              => Arms(code[pc].path, "then") \cap Arms(code[pc'].path, "else") = {}]_vars
  <2> SUFFICES ASSUME Base, FlowInv, Next, phase = "run", phase' = "run", frames' = frames
               PROVE  Arms(code[pc].path, "then") \cap Arms(code[pc'].path, "else") = {}
    OBVIOUS
  <2>1. RunInv
    BY DEF FlowInv
  <2>2. Execute
    <3>1. ~BeginLine /\ ~EndLine /\ ~Reject
      BY DEF BeginLine, EndLine, Reject
    <3>2. ~Statement
      BY DEF Statement, VarDecl, Return, ForIn, CallStatement, If, IfLet, Else, EndIf, While,
             EndWhile, EndFor, Break, BeginFunc, EndFunc, Typing, Closing
    <3> QED
      BY <3>1, <3>2 DEF Next
  <2>3. ~Stop
    BY DEF Stop, BackToPrompt
  <2>4. frames \in Seq(Range(frames))
    BY TypedFacts
  <2>5. ~CallOp
    <3> SUFFICES ASSUME CallOp PROVE FALSE
      OBVIOUS
    <3>1. frames' = Append(frames, [pc |-> pc + 3, fp |-> fp])
      BY DEF CallOp
    <3>2. Len(frames') = Len(frames) + 1 /\ Len(frames) \in Nat
      BY <2>4, <3>1, FrameAdded
    <3> QED
      BY <3>2
  <2>6. ~ReturnOp
    <3> SUFFICES ASSUME ReturnOp PROVE FALSE
      OBVIOUS
    <3>1. frames # <<>> /\ frames' = Front(frames)
      BY DEF ReturnOp
    <3>2. Len(frames') = Len(frames) - 1 /\ Len(frames) \in Nat
      BY <2>4, <3>1, FrameDropped
    <3> QED
      BY <3>2
  <2>7. StraightOn \/ Jump \/ LoopBack \/ JumpIfFalse \/ IfLetOp
    BY <2>2, <2>3, <2>5, <2>6 DEF Execute
  <2>8. Follows(code[pc].path, code[pc'].path)
    BY <2>1, <2>7, AlongFlow
  <2> QED
    BY <2>8 DEF Follows
<1> QED
  BY <1>1, FlowAlways, PTL DEF Spec, ArmsExclusive
=============================================================================
