--------------------------- MODULE StreamingProofs ---------------------------
(***************************************************************************)
(* The Compiler under its source window, for every set of files and every  *)
(* size of the window: it is a reader SrcWin allows, counts the lines of   *)
(* the file through every slide and every return to a saved lexer, and     *)
(* accepts only what it has read whole.                                    *)
(***************************************************************************)
EXTENDS Streaming, SequenceTheorems, FiniteSetTheorems, WellFoundedInduction, TLAPS

-----------------------------------------------------------------------------
(* Induction over the bytes of a text, and recursion along them.            *)
LEMMA LeastNumber ==
  ASSUME NEW T \in SUBSET Nat, T # {}
  PROVE  \E x \in T : \A y \in T : x <= y
<1> DEFINE R == OpToRel(<, Nat)
<1>1. IsWellFoundedOn(R, Nat)
  BY NatLessThanWellFounded
<1>2. PICK x \in T : \A y \in T : ~(<<y, x>> \in R)
  <2> HIDE DEF R
  <2> QED
    BY <1>1, WFMin
<1>3. \A y \in T : ~(y < x)
  BY <1>2 DEF OpToRel
<1> QED
  BY <1>3

LEMMA Steps ==
  ASSUME NEW n \in Nat, NEW S, 0 \in S,
         \A i \in 0 .. n - 1 : i \in S => i + 1 \in S
  PROVE  \A i \in 0 .. n : i \in S
<1> DEFINE T == {i \in 0 .. n : i \notin S}
<1> SUFFICES ASSUME T # {} PROVE FALSE
  OBVIOUS
<1>1. PICK x \in T : \A y \in T : x <= y
  <2>1. T \in SUBSET Nat
    OBVIOUS
  <2> HIDE DEF T
  <2> QED
    BY <2>1, LeastNumber
<1>2. x \in 0 .. n /\ x \notin S /\ x # 0
  OBVIOUS
<1>3. x - 1 \in 0 .. n - 1 /\ (x - 1) + 1 = x /\ ~(x <= x - 1)
  BY <1>2
<1>4. x - 1 \in S
  BY <1>1, <1>3
<1> QED
  BY <1>2, <1>3, <1>4

(* A step G of a function from D to V looks at smaller arguments only.     *)
Descends(G, D, V, m, N) ==
  /\ V # {} /\ N \in Nat /\ m \in [D -> 0 .. N] /\ G \in [[D -> V] \X D -> V]
  /\ \A f, g \in [D -> V] : \A x \in D :
       (\A y \in D : m[y] < m[x] => f[y] = g[y]) => G[<<f, x>>] = G[<<g, x>>]

LEMMA RunDown ==
  ASSUME NEW G, NEW D, NEW V, NEW m, NEW N, Descends(G, D, V, m, N)
  PROVE  \E f \in [D -> V] : \A x \in D : f[x] = G[<<f, x>>]
<1> USE DEF Descends
<1> PICK v0 \in V : TRUE
  OBVIOUS
<1> DEFINE Done(f, k) == \A x \in D : m[x] < k => f[x] = G[<<f, x>>]
           S == {k \in 0 .. N + 1 : \E f \in [D -> V] : Done(f, k)}
<1>1. 0 \in S
  <2>1. [x \in D |-> v0] \in [D -> V] /\ Done([x \in D |-> v0], 0)
    OBVIOUS
  <2> HIDE DEF Done
  <2> QED
    BY <2>1
<1>2. ASSUME NEW k \in 0 .. N + 1 - 1, k \in S
      PROVE  k + 1 \in S
  <2>1. PICK f \in [D -> V] : Done(f, k)
    BY <1>2
  <2> DEFINE h == [x \in D |-> IF m[x] = k THEN G[<<f, x>>] ELSE f[x]]
  <2>2. h \in [D -> V]
    OBVIOUS
  <2>3. ASSUME NEW x \in D, m[x] < k + 1
        PROVE  h[x] = G[<<h, x>>]
    <3>1. m[x] \in Nat /\ m[x] <= k /\ k \in Nat
      BY <2>3
    <3>2. \A y \in D : m[y] < m[x] => h[y] = f[y]
      BY <3>1
    <3>3. G[<<h, x>>] = G[<<f, x>>]
      <4> HIDE DEF h
      <4> QED
        BY <2>2, <3>2
    <3>4. CASE m[x] = k
      BY <3>3, <3>4
    <3>5. CASE m[x] # k
      <4>1. m[x] < k
        BY ONLY <3>1, <3>5
      <4>2. f[x] = G[<<f, x>>]
        BY <2>1, <4>1
      <4>3. h[x] = f[x]
        BY <3>5
      <4> HIDE DEF h
      <4> QED
        BY <3>3, <4>2, <4>3, Zenon
    <3> QED
      BY <3>4, <3>5
  <2>4. Done(h, k + 1)
    BY <2>3
  <2>5. k + 1 \in 0 .. N + 1
    OBVIOUS
  <2> HIDE DEF Done, h
  <2> QED
    BY <2>2, <2>4, <2>5
<1>3. \A k \in 0 .. N + 1 : k \in S
  <2>1. N + 1 \in Nat
    OBVIOUS
  <2> HIDE DEF S
  <2> QED
    BY <1>1, <1>2, <2>1, Steps
<1>4. PICK f \in [D -> V] : Done(f, N + 1)
  <2>1. N + 1 \in S
    <3>1. N + 1 \in 0 .. N + 1
      OBVIOUS
    <3> QED
      BY ONLY <1>3, <3>1
  <2> QED
    BY <2>1
<1>5. \A x \in D : m[x] < N + 1
  <2>1. \A x \in D : m[x] \in Nat
    OBVIOUS
  <2> QED
    BY <2>1
<1> QED
  BY <1>4, <1>5

-----------------------------------------------------------------------------
(* Where the scans of the lexer end.                                       *)
Byte == STRING

LEMMA PairIs ==
  \A a, b : Len(<<a, b>>) = 2 /\ Len(<<a>>) = 1
<1> SUFFICES ASSUME NEW a, NEW b PROVE Len(<<a, b>>) = 2 /\ Len(<<a>>) = 1
  OBVIOUS
<1>1. PICK S : S = {a, b}
  OBVIOUS
<1>2. a \in S /\ b \in S
  BY <1>1
<1> QED
  BY <1>2

LEMMA FirstIs ==
  ASSUME NEW s \in Seq(Byte), NEW p \in 0 .. Len(s), NEW stops, NEW q, q = First(s, p, stops)
  PROVE  /\ q \in p .. Len(s) /\ (q = Len(s) \/ q \in stops)
         /\ \A r \in p .. q - 1 : r \notin stops
<1> DEFINE n == Len(s)
           T == {x \in p .. n : x = n \/ x \in stops}
<1>1. n \in Nat
  BY LenProperties
<1>2. n \in T /\ T \in SUBSET Nat
  BY <1>1
<1>3. PICK x \in T : \A y \in T : x <= y
  <2> HIDE DEF T
  <2> QED
    BY <1>2, LeastNumber
<1>4. ASSUME NEW r \in p .. x - 1
      PROVE  r \notin stops
  <2>1. r \in p .. n /\ ~(x <= r)
    BY <1>1, <1>3
  <2>2. r \notin T
    BY <1>3, <2>1
  <2> QED
    BY <2>1, <2>2
<1>5. x \in p .. n /\ (x = n \/ x \in stops)
  BY <1>3
<1> HIDE DEF T
<1> QED
  BY <1>4, <1>5 DEF First

LEMMA PieceIs ==
  ASSUME NEW s \in Seq(Byte), NEW a \in 0 .. Len(s), NEW b \in a .. Len(s)
  PROVE  /\ Piece(s, a, b) = SubSeq(s, a + 1, b) /\ Piece(s, a, b) \in Seq(Byte)
         /\ Len(Piece(s, a, b)) = b - a
         /\ \A i \in 1 .. b - a : Piece(s, a, b)[i] = s[a + i]
<1>1. Len(s) \in Nat /\ \A i \in 1 .. Len(s) : s[i] \in Byte
  BY LenProperties, ElementOfSeq
<1>2. Upto(b, Len(s)) = b
  BY <1>1 DEF Upto
<1>3. a + 1 \in Int /\ b \in Int /\ \A i \in a + 1 .. b : s[i] \in Byte
  BY <1>1
<1>4. /\ SubSeq(s, a + 1, b) \in Seq(Byte) /\ Len(SubSeq(s, a + 1, b)) = b - a
      /\ \A i \in 1 .. b - a : SubSeq(s, a + 1, b)[i] = s[a + i]
  BY <1>1, <1>3, SubSeqProperties
<1> QED
  BY <1>2, <1>4 DEF Piece

LEMMA StartsFits ==
  ASSUME NEW s \in Seq(Byte), NEW p \in 0 .. Len(s), NEW t, Len(t) \in Nat,
         StartsWith(s, p, t)
  PROVE  p + Len(t) <= Len(s)
<1>1. Len(s) \in Nat
  BY LenProperties
<1>2. PICK u : u = Upto(p + Len(t), Len(s))
  OBVIOUS
<1>3. u \in p .. Len(s) /\ u <= p + Len(t)
  BY <1>1, <1>2 DEF Upto
<1>4. Piece(s, p, u) = Piece(s, p, p + Len(t))
  BY <1>1, <1>2, <1>3 DEF Piece, Upto
<1>5. Len(Piece(s, p, u)) = u - p
  BY <1>3, PieceIs
<1>6. u - p = Len(t)
  BY <1>4, <1>5 DEF StartsWith
<1> QED
  BY <1>1, <1>3, <1>6

LEMMA PeekIs ==
  ASSUME NEW s \in Seq(Byte), NEW p \in Int, peek_ch(s, p) # "end"
  PROVE  p < Len(s)
<1>1. Len(s) \in Nat
  BY LenProperties
<1> QED
  BY <1>1 DEF peek_ch

LEMMA NotTheEnd ==
  ASSUME NEW c, c \in Space \/ c \in Escaped \/ c \in {"("}
  PROVE  c # "end"
  BY Zenon DEF Space, Escaped

(* One step of skip_trivia at p, when f says where the ones behind it end. *)
TriviaStep(s, f, p) ==
  IF StartsWith(s, p, <<"/", "/">>) THEN
    f[First(s, p + 2, {q \in Offsets(s) : s[q + 1] \in Eol})]
  ELSE IF StartsWith(s, p, <<"/", "*">>) THEN
    f[Upto(2 + First(s, p + 2, {q \in Offsets(s) : StartsWith(s, q, <<"*", "/">>)}), Len(s))]
  ELSE IF peek_ch(s, p) \in Space THEN f[p + 1]
  ELSE p

LEMMA TriviaGoesOn ==
  ASSUME NEW s \in Seq(Byte), NEW p \in 0 .. Len(s), NEW f, NEW v, v = TriviaStep(s, f, p)
  PROVE  v = p \/ \E q \in p + 1 .. Len(s) : v = f[q] /\ \A g : TriviaStep(s, g, p) = g[q]
<1>1. Len(s) \in Nat
  BY LenProperties
<1>2. Len(<<"/", "/">>) = 2 /\ Len(<<"/", "*">>) = 2
  BY PairIs, Zenon
<1>3. CASE StartsWith(s, p, <<"/", "/">>)
  <2>1. p + 2 \in 0 .. Len(s)
    <3>1. p + Len(<<"/", "/">>) <= Len(s)
      BY <1>2, <1>3, StartsFits
    <3> QED
      BY <1>1, <1>2, <3>1
  <2>2. PICK q : q = First(s, p + 2, {r \in Offsets(s) : s[r + 1] \in Eol})
    OBVIOUS
  <2>3. q \in p + 2 .. Len(s)
    BY <2>1, <2>2, FirstIs
  <2>4. q \in p + 1 .. Len(s)
    BY <1>1, <2>3
  <2>5. \A g : TriviaStep(s, g, p) = g[q]
    BY <1>3, <2>2, Zenon DEF TriviaStep
  <2> QED
    BY <2>4, <2>5
<1>4. CASE ~StartsWith(s, p, <<"/", "/">>) /\ StartsWith(s, p, <<"/", "*">>)
  <2>1. p + 2 \in 0 .. Len(s)
    <3>1. p + Len(<<"/", "*">>) <= Len(s)
      BY <1>2, <1>4, StartsFits
    <3> QED
      BY <1>1, <1>2, <3>1
  <2>2. PICK r : r = First(s, p + 2, {q \in Offsets(s) : StartsWith(s, q, <<"*", "/">>)})
    OBVIOUS
  <2>3. r \in p + 2 .. Len(s)
    BY <2>1, <2>2, FirstIs
  <2>4. PICK q : q = Upto(2 + r, Len(s))
    OBVIOUS
  <2>5. q \in p + 1 .. Len(s)
    BY <1>1, <2>3, <2>4 DEF Upto
  <2>6. \A g : TriviaStep(s, g, p) = g[q]
    BY <1>4, <2>2, <2>4, Zenon DEF TriviaStep
  <2> QED
    BY <2>5, <2>6
<1>5. CASE /\ ~StartsWith(s, p, <<"/", "/">>) /\ ~StartsWith(s, p, <<"/", "*">>)
           /\ peek_ch(s, p) \in Space
  <2>1. p + 1 \in p + 1 .. Len(s)
    <3>1. p < Len(s)
      BY <1>5, NotTheEnd, PeekIs
    <3> QED
      BY <1>1, <3>1
  <2>2. \A g : TriviaStep(s, g, p) = g[p + 1]
    BY <1>5, Zenon DEF TriviaStep
  <2> QED
    BY <2>1, <2>2
<1>6. CASE /\ ~StartsWith(s, p, <<"/", "/">>) /\ ~StartsWith(s, p, <<"/", "*">>)
           /\ peek_ch(s, p) \notin Space
  BY <1>6, Zenon DEF TriviaStep
<1> QED
  BY <1>3, <1>4, <1>5, <1>6

LEMMA TriviaIs ==
  ASSUME NEW s \in Seq(Byte), NEW f, f = skip_trivia(s)
  PROVE  \A p \in 0 .. Len(s) : f[p] \in p .. Len(s) /\ f[p] = TriviaStep(s, f, p)
<1> DEFINE n == Len(s)
           D == 0 .. n
           m == [p \in D |-> n - p]
           G == [x \in [D -> D] \X D |-> TriviaStep(s, x[1], x[2])]
           Is(h) == h = [p \in D |-> TriviaStep(s, h, p)]
<1>1. n \in Nat /\ 0 \in D
  BY LenProperties
<1>2. ASSUME NEW h \in [D -> D], NEW p \in D
      PROVE  TriviaStep(s, h, p) \in D
  <2>1. \/ TriviaStep(s, h, p) = p
        \/ \E q \in p + 1 .. n : TriviaStep(s, h, p) = h[q]
    BY TriviaGoesOn
  <2>2. \A q \in p + 1 .. n : q \in D
    BY <1>1
  <2> QED
    BY <2>1, <2>2
<1>3. G \in [[D -> D] \X D -> D]
  BY <1>2
<1>4. m \in [D -> 0 .. n]
  BY <1>1
<1>5. ASSUME NEW h \in [D -> D], NEW g \in [D -> D], NEW p \in D,
             \A y \in D : m[y] < m[p] => h[y] = g[y]
      PROVE  G[<<h, p>>] = G[<<g, p>>]
  <2>1. G[<<h, p>>] = TriviaStep(s, h, p) /\ G[<<g, p>>] = TriviaStep(s, g, p)
    OBVIOUS
  <2>2. CASE TriviaStep(s, h, p) # p
    <3>1. PICK q \in p + 1 .. n : \A k : TriviaStep(s, k, p) = k[q]
      BY <2>2, TriviaGoesOn
    <3>2. q \in D /\ m[q] < m[p]
      BY <1>1, <3>1
    <3>3. h[q] = g[q]
      BY <1>5, <3>2
    <3> HIDE DEF G
    <3> QED
      BY <2>1, <3>1, <3>3, Zenon
  <2>3. CASE TriviaStep(s, g, p) # p
    <3>1. PICK q \in p + 1 .. n : \A k : TriviaStep(s, k, p) = k[q]
      BY <2>3, TriviaGoesOn
    <3>2. q \in D /\ m[q] < m[p]
      BY <1>1, <3>1
    <3>3. h[q] = g[q]
      BY <1>5, <3>2
    <3> HIDE DEF G
    <3> QED
      BY <2>1, <3>1, <3>3, Zenon
  <2> HIDE DEF G
  <2> QED
    BY <2>1, <2>2, <2>3
<1>6. PICK h \in [D -> D] : \A x \in D : h[x] = G[<<h, x>>]
  <2> HIDE DEF D, m, n, G
  <2>1. Descends(G, D, D, m, n)
    BY <1>1, <1>3, <1>4, <1>5 DEF Descends
  <2> QED
    BY <2>1, RunDown
<1>7. Is(h)
  <2>1. \A x \in D : G[<<h, x>>] = TriviaStep(s, h, x)
    OBVIOUS
  <2>2. \A x \in D : h[x] = TriviaStep(s, h, x)
    <3> HIDE DEF G, D
    <3> QED
      BY <1>6, <2>1
  <2> HIDE DEF D
  <2> QED
    BY <2>2
<1>8. Is(f)
  <2>1. skip_trivia(s) = CHOOSE k : Is(k)
    BY DEF skip_trivia, TriviaStep
  <2> HIDE DEF Is
  <2> QED
    BY <1>7, <2>1
<1>9. \A p \in D : f[p] = TriviaStep(s, f, p)
  <2> HIDE DEF D
  <2> QED
    BY <1>8
<1> DEFINE S == {k \in 0 .. n : \A p \in D : n - p <= k => f[p] \in p .. n}
<1>10. ASSUME NEW p \in D, \A q \in p + 1 .. n : f[q] \in q .. n
       PROVE  f[p] \in p .. n
  <2>1. f[p] = TriviaStep(s, f, p)
    BY <1>9
  <2>2. \/ f[p] = p
        \/ \E q \in p + 1 .. n : f[p] = f[q]
    BY <2>1, TriviaGoesOn
  <2>3. CASE f[p] = p
    BY <1>1, <2>3
  <2>4. CASE \E q \in p + 1 .. n : f[p] = f[q]
    <3>1. PICK q \in p + 1 .. n : f[p] = f[q]
      BY <2>4
    <3>2. f[p] \in q .. n
      BY <1>10, <3>1
    <3> QED
      BY <1>1, <3>1, <3>2
  <2> QED
    BY <2>2, <2>3, <2>4
<1>11. 0 \in S
  <2>1. ASSUME NEW p \in D, n - p <= 0
        PROVE  f[p] \in p .. n
    <3>1. p = n
      BY <1>1, <2>1
    <3>2. \A q \in p + 1 .. n : FALSE
      BY <1>1, <3>1
    <3> QED
      BY <1>10, <3>2
  <2> HIDE DEF D
  <2> QED
    BY <1>1, <2>1
<1>12. ASSUME NEW k \in 0 .. n - 1, k \in S
       PROVE  k + 1 \in S
  <2>1. ASSUME NEW p \in D, n - p <= k + 1
        PROVE  f[p] \in p .. n
    <3>1. ASSUME NEW q \in p + 1 .. n
          PROVE  f[q] \in q .. n
      <4>1. q \in D /\ n - q <= k
        BY <1>1, <2>1
      <4> QED
        BY <1>12, <4>1
    <3> QED
      BY <1>10, <3>1
  <2>2. k + 1 \in 0 .. n
    BY <1>1
  <2> HIDE DEF D
  <2> QED
    BY <2>1, <2>2
<1>13. \A k \in 0 .. n : k \in S
  <2> HIDE DEF S, n
  <2> QED
    BY <1>1, <1>11, <1>12, Steps
<1>14. \A p \in D : f[p] \in p .. n
  <2>1. n \in S
    <3>1. n \in 0 .. n
      BY <1>1
    <3> QED
      BY ONLY <1>13, <3>1
  <2>2. \A p \in D : n - p <= n
    BY <1>1
  <2> QED
    BY <2>1, <2>2
<1> QED
  BY <1>9, <1>14

LEMMA InterpolationIs ==
  ASSUME NEW s \in Seq(Byte), NEW p \in 0 .. Len(s), NEW q, q = InterpolationEnd(s, p)
  PROVE  q = -1 \/ q \in p .. Len(s)
<1>1. \A stops : First(s, p, stops) \in p .. Len(s)
  BY FirstIs
<1> QED
  BY <1>1, Zenon DEF InterpolationEnd

(* One step of the search for the closing quote. *)
StringStep(s, f, q) ==
  IF q = -1 \/ peek_ch(s, q) \in Eol \union {"end"} THEN -1
  ELSE IF peek_ch(s, q) = "\"" THEN q
  ELSE IF peek_ch(s, q) # "\\" THEN f[q + 1]
  ELSE IF peek_ch(s, q + 1) = "(" THEN f[InterpolationEnd(s, q + 2)]
  ELSE IF peek_ch(s, q + 1) \in Escaped THEN f[q + 2]
  ELSE -1

LEMMA StringGoesOn ==
  ASSUME NEW s \in Seq(Byte), NEW p \in -1 .. Len(s), NEW f, NEW v, v = StringStep(s, f, p)
  PROVE  \/ (v = -1 \/ (v = p /\ p \in 0 .. Len(s) - 1)) /\ \A g : StringStep(s, g, p) = v
         \/ p # -1 /\ \E q \in {-1} \union p + 1 .. Len(s) :
                        v = f[q] /\ \A g : StringStep(s, g, p) = g[q]
<1>1. Len(s) \in Nat
  BY LenProperties
<1>2. CASE p = -1 \/ peek_ch(s, p) \in Eol \union {"end"}
  BY <1>2, Zenon DEF StringStep
<1>3. CASE ~(p = -1 \/ peek_ch(s, p) \in Eol \union {"end"})
  <2>1. p \in 0 .. Len(s) - 1
    <3>1. peek_ch(s, p) # "end"
      BY <1>3, Zenon
    <3>2. p < Len(s)
      BY <3>1, PeekIs
    <3>3. p # -1
      BY <1>3, Zenon
    <3> QED
      BY ONLY <1>1, <3>2, <3>3
  <2>2. p # -1
    BY <1>3, Zenon
  <2>3. CASE peek_ch(s, p) = "\""
    BY <1>3, <2>1, <2>3, Zenon DEF StringStep
  <2>4. CASE peek_ch(s, p) # "\"" /\ peek_ch(s, p) # "\\"
    <3>1. p + 1 \in {-1} \union p + 1 .. Len(s)
      BY <1>1, <2>1
    <3>2. \A g : StringStep(s, g, p) = g[p + 1]
      BY <1>3, <2>4, Zenon DEF StringStep
    <3> QED
      BY <2>2, <3>1, <3>2
  <2>5. CASE peek_ch(s, p) # "\"" /\ peek_ch(s, p) = "\\" /\ peek_ch(s, p + 1) = "("
    <3>1. PICK q : q = InterpolationEnd(s, p + 2)
      OBVIOUS
    <3>2. p + 2 \in 0 .. Len(s)
      <4>1. peek_ch(s, p + 1) # "end"
        BY <2>5, NotTheEnd, Zenon
      <4>2. p + 1 < Len(s)
        BY <2>1, <4>1, PeekIs
      <4> QED
        BY ONLY <1>1, <2>1, <4>2
    <3>3. q = -1 \/ q \in p + 2 .. Len(s)
      BY <3>1, <3>2, InterpolationIs
    <3>4. q \in {-1} \union p + 1 .. Len(s)
      BY <1>1, <2>1, <3>3
    <3>5. \A g : StringStep(s, g, p) = g[q]
      BY <1>3, <2>5, <3>1, Zenon DEF StringStep
    <3> QED
      BY <2>2, <3>4, <3>5
  <2>6. CASE /\ peek_ch(s, p) # "\"" /\ peek_ch(s, p) = "\\" /\ peek_ch(s, p + 1) # "("
             /\ peek_ch(s, p + 1) \in Escaped
    <3>1. p + 2 \in {-1} \union p + 1 .. Len(s)
      <4>1. peek_ch(s, p + 1) # "end"
        BY <2>6, NotTheEnd, Zenon
      <4>2. p + 1 < Len(s)
        BY <2>1, <4>1, PeekIs
      <4> QED
        BY ONLY <1>1, <2>1, <4>2
    <3>2. \A g : StringStep(s, g, p) = g[p + 2]
      BY <1>3, <2>6, Zenon DEF StringStep
    <3> QED
      BY <2>2, <3>1, <3>2
  <2>7. CASE /\ peek_ch(s, p) # "\"" /\ peek_ch(s, p) = "\\" /\ peek_ch(s, p + 1) # "("
             /\ peek_ch(s, p + 1) \notin Escaped
    BY <1>3, <2>7, Zenon DEF StringStep
  <2> QED
    BY <2>3, <2>4, <2>5, <2>6, <2>7, Zenon
<1> QED
  BY <1>2, <1>3, Zenon

LEMMA StringRec ==
  ASSUME NEW s \in Seq(Byte)
  PROVE  \E f : /\ \A q \in -1 .. Len(s) : f[q] = StringStep(s, f, q)
                /\ \A p : StringEnd(s, p) = f[p]
<1> DEFINE n == Len(s)
           D == -1 .. n
           W == -1 .. n - 1
           m == [q \in D |-> IF q = -1 THEN 0 ELSE n + 1 - q]
           G == [x \in [D -> W] \X D |-> StringStep(s, x[1], x[2])]
           Is(h) == h = [q \in D |-> StringStep(s, h, q)]
<1>1. n \in Nat /\ -1 \in W
  BY LenProperties
<1>2. ASSUME NEW h \in [D -> W], NEW q \in D
      PROVE  StringStep(s, h, q) \in W
  <2>1. PICK u : u = StringStep(s, h, q)
    OBVIOUS
  <2>2. \/ u = -1 \/ (u = q /\ q \in 0 .. n - 1)
        \/ \E r \in {-1} \union q + 1 .. n : u = h[r]
    BY <2>1, StringGoesOn
  <2>3. \A r \in {-1} \union q + 1 .. n : r \in D
    BY <1>1
  <2>4. q \in 0 .. n - 1 => q \in W
    BY <1>1
  <2> QED
    BY <1>1, <2>1, <2>2, <2>3, <2>4
<1>3. G \in [[D -> W] \X D -> W]
  BY <1>2
<1>4. m \in [D -> 0 .. n + 1]
  BY <1>1
<1>5. ASSUME NEW h \in [D -> W], NEW g \in [D -> W], NEW q \in D,
             \A y \in D : m[y] < m[q] => h[y] = g[y]
      PROVE  G[<<h, q>>] = G[<<g, q>>]
  <2>1. G[<<h, q>>] = StringStep(s, h, q) /\ G[<<g, q>>] = StringStep(s, g, q)
    OBVIOUS
  <2>2. CASE \A k : StringStep(s, k, q) = StringStep(s, h, q)
    <3> HIDE DEF G
    <3> QED
      BY <2>1, <2>2, Zenon
  <2>3. CASE q # -1 /\ \E r \in {-1} \union q + 1 .. n : \A k : StringStep(s, k, q) = k[r]
    <3>1. PICK r \in {-1} \union q + 1 .. n : \A k : StringStep(s, k, q) = k[r]
      BY <2>3
    <3>2. r \in D /\ m[r] < m[q]
      BY <1>1, <2>3, <3>1
    <3>3. h[r] = g[r]
      BY <1>5, <3>2
    <3> HIDE DEF G
    <3> QED
      BY <2>1, <3>1, <3>3, Zenon
  <2>4. \/ \A k : StringStep(s, k, q) = StringStep(s, h, q)
        \/ q # -1 /\ \E r \in {-1} \union q + 1 .. n : \A k : StringStep(s, k, q) = k[r]
    <3> HIDE DEF D, W, G, m
    <3>1. q \in -1 .. n
      BY DEF D
    <3> QED
      BY <3>1, StringGoesOn
  <2> HIDE DEF G
  <2> QED
    BY <2>2, <2>3, <2>4
<1>6. PICK h \in [D -> W] : \A x \in D : h[x] = G[<<h, x>>]
  <2> HIDE DEF D, m, W, G
  <2>1. n + 1 \in Nat
    BY <1>1
  <2> HIDE DEF n
  <2>2. Descends(G, D, W, m, n + 1)
    BY <1>1, <1>3, <1>4, <1>5, <2>1 DEF Descends
  <2> QED
    BY <2>2, RunDown
<1>7. Is(h)
  <2>1. \A x \in D : G[<<h, x>>] = StringStep(s, h, x)
    OBVIOUS
  <2>2. \A x \in D : h[x] = StringStep(s, h, x)
    <3> HIDE DEF G, D
    <3> QED
      BY <1>6, <2>1
  <2> HIDE DEF D
  <2> QED
    BY <2>2
<1>8. PICK f : Is(f) /\ \A p : StringEnd(s, p) = f[p]
  <2>1. \A p : StringEnd(s, p) = (CHOOSE k : Is(k))[p]
    BY DEF StringEnd, StringStep
  <2>2. Is(CHOOSE k : Is(k))
    <3> HIDE DEF Is
    <3> QED
      BY <1>7
  <2> HIDE DEF Is
  <2> QED
    BY <2>1, <2>2
<1>9. \A q \in D : f[q] = StringStep(s, f, q)
  <2> HIDE DEF D
  <2> QED
    BY <1>8
<1> QED
  BY <1>8, <1>9

LEMMA StringIs ==
  ASSUME NEW s \in Seq(Byte), NEW p \in 0 .. Len(s), NEW v, v = StringEnd(s, p)
  PROVE  v = -1 \/ v \in p .. Len(s) - 1
<1> DEFINE n == Len(s)
<1>1. n \in Nat
  BY LenProperties
<1>2. PICK f : /\ \A q \in -1 .. n : f[q] = StringStep(s, f, q)
               /\ \A q : StringEnd(s, q) = f[q]
  BY StringRec
<1> DEFINE Good(q) == f[q] = -1 \/ f[q] \in q .. n - 1
           S == {k \in 0 .. n : \A q \in 0 .. n : n - q <= k => Good(q)}
<1>3. f[-1] = -1
  <2>1. -1 \in -1 .. n
    BY <1>1
  <2>2. StringStep(s, f, -1) = -1
    BY Zenon DEF StringStep
  <2> QED
    BY <1>2, <2>1, <2>2
<1>4. ASSUME NEW q \in 0 .. n, \A r \in q + 1 .. n : Good(r)
       PROVE  Good(q)
  <2>1. q \in -1 .. n
    BY <1>1
  <2>2. f[q] = StringStep(s, f, q)
    BY <1>2, <2>1
  <2>3. \/ f[q] = -1 \/ (f[q] = q /\ q \in 0 .. n - 1)
        \/ \E r \in {-1} \union q + 1 .. n : f[q] = f[r]
    BY <2>2, <2>1, StringGoesOn
  <2>4. CASE \E r \in {-1} \union q + 1 .. n : f[q] = f[r]
    <3>1. PICK r \in {-1} \union q + 1 .. n : f[q] = f[r]
      BY <2>4
    <3>2. CASE r = -1
      BY <1>3, <3>1, <3>2
    <3>3. CASE r \in q + 1 .. n
      BY <1>1, <1>4, <3>1, <3>3
    <3> QED
      BY <3>1, <3>2, <3>3
  <2> QED
    BY <1>1, <2>3, <2>4
<1>5. 0 \in S
  <2>1. ASSUME NEW q \in 0 .. n, n - q <= 0
        PROVE  Good(q)
    <3>1. \A r \in q + 1 .. n : FALSE
      BY <1>1, <2>1
    <3> HIDE DEF Good
    <3> QED
      BY <1>4, <3>1
  <2> HIDE DEF Good
  <2> QED
    BY <1>1, <2>1
<1>6. ASSUME NEW k \in 0 .. n - 1, k \in S
       PROVE  k + 1 \in S
  <2>1. ASSUME NEW q \in 0 .. n, n - q <= k + 1
        PROVE  Good(q)
    <3>1. ASSUME NEW r \in q + 1 .. n
          PROVE  Good(r)
      <4>1. r \in 0 .. n /\ n - r <= k
        BY <1>1, <2>1
      <4> HIDE DEF Good
      <4> QED
        BY <1>6, <4>1
    <3> HIDE DEF Good
    <3> QED
      BY <1>4, <3>1
  <2>2. k + 1 \in 0 .. n
    BY <1>1
  <2> HIDE DEF Good
  <2> QED
    BY <2>1, <2>2
<1>7. \A k \in 0 .. n : k \in S
  <2> HIDE DEF S, n
  <2> QED
    BY <1>1, <1>5, <1>6, Steps
<1>8. Good(p)
  <2>1. n \in S
    <3>1. n \in 0 .. n
      BY <1>1
    <3> QED
      BY ONLY <1>7, <3>1
  <2>2. n - p <= n
    BY <1>1
  <2> HIDE DEF Good
  <2> QED
    BY <2>1, <2>2
<1> QED
  BY <1>2, <1>8

-----------------------------------------------------------------------------
(* What the next token is, as far as offsets and lines go.                 *)
LEMMA MarkIsShort == \A t \in Marks : Len(t) \in 1 .. 3
<1>1. \A a, b, c : Len(<<a>>) \in 1 .. 3 /\ Len(<<a, b>>) \in 1 .. 3 /\ Len(<<a, b, c>>) \in 1 .. 3
  <2> SUFFICES ASSUME NEW a, NEW b, NEW c
               PROVE  /\ Len(<<a>>) \in 1 .. 3 /\ Len(<<a, b>>) \in 1 .. 3
                      /\ Len(<<a, b, c>>) \in 1 .. 3
    OBVIOUS
  <2>1. PICK S : S = {a, b, c}
    OBVIOUS
  <2>2. a \in S /\ b \in S /\ c \in S
    BY <2>1
  <2> QED
    BY <2>2
<1> QED
  BY <1>1, Zenon DEF Marks

(* A longest of some sequences of at most three elements. *)
LEMMA LongestIs ==
  ASSUME NEW here, here # {}, \A t \in here : Len(t) \in 1 .. 3
  PROVE  \E t \in here : \A u \in here : Len(u) <= Len(t)
<1>1. CASE \E t \in here : Len(t) = 3
  <2>1. PICK t \in here : Len(t) = 3
    BY <1>1, Zenon
  <2>2. ASSUME NEW u \in here
        PROVE  Len(u) <= 3
    <3>1. PICK k \in 1 .. 3 : k = Len(u)
      BY Zenon
    <3>2. k <= 3
      BY ONLY k \in 1 .. 3
    <3> QED
      BY <3>1, <3>2, Zenon
  <2> QED
    BY <2>1, <2>2, Zenon
<1>2. CASE ~(\E t \in here : Len(t) = 3) /\ \E t \in here : Len(t) = 2
  <2>1. PICK t \in here : Len(t) = 2
    BY <1>2
  <2>2. ASSUME NEW u \in here
        PROVE  Len(u) <= 2
    <3>1. PICK k \in 1 .. 3 : k = Len(u) /\ k # 3
      BY <1>2, Zenon
    <3>2. k <= 2
      BY ONLY k \in 1 .. 3, <3>1
    <3> QED
      BY <3>1, <3>2, Zenon
  <2> QED
    BY <2>1, <2>2
<1>3. CASE ~(\E t \in here : Len(t) = 3) /\ ~(\E t \in here : Len(t) = 2)
  BY <1>3
<1> QED
  BY <1>1, <1>2, <1>3

(* A token is where the lexer is, ends in the buffer, and takes some of it  *)
(* unless it is final.                                                     *)
Forms == {"EOF", "ERROR", "NEWLINE", "INT", "KEYWORD", "IDENT", "STR", "MARK"}

Final(tok) == tok \in {"EOF", "ERROR"}

Within(s, start, t) ==
  /\ t.pos \in start .. Len(s)
  /\ t.tok_pos \in start .. t.pos
  /\ t.tok_len \in Nat /\ t.tok_pos + t.tok_len <= t.pos
  /\ t.tok \in Forms
  /\ Final(t.tok) \/ t.pos # start
  /\ t.tok = "EOF" => start = Len(s)
  /\ t.tok = "STR" \/ t.tok_pos = start

LEMMA TokenIs ==
  ASSUME NEW tok, NEW a, NEW b, NEW c
  PROVE  /\ Token(tok, a, b, c).pos = c /\ Token(tok, a, b, c).tok_pos = a
         /\ Token(tok, a, b, c).tok = tok /\ Token(tok, a, b, c).tok_len = b - a
<1>1. PICK n : n = b - a
  OBVIOUS
<1>2. PICK t : t = [tok |-> tok, tok_pos |-> a, tok_len |-> n, pos |-> c]
  OBVIOUS
<1>3. t.pos = c /\ t.tok_pos = a /\ t.tok = tok /\ t.tok_len = n
  BY <1>2
<1>4. Token(tok, a, b, c) = t
  BY <1>1, <1>2, Zenon DEF Token
<1> QED
  BY <1>1, <1>3, <1>4, Zenon

LEMMA FormIs ==
  ASSUME NEW s \in Seq(Byte), NEW start \in 0 .. Len(s), NEW tok \in Forms,
         NEW c \in start .. Len(s), NEW a \in start .. c, NEW b \in a .. c,
         Final(tok) \/ c # start, tok = "EOF" => start = Len(s), tok = "STR" \/ a = start
  PROVE  Within(s, start, Token(tok, a, b, c))
<1> DEFINE t == Token(tok, a, b, c)
<1>1. t.pos = c /\ t.tok_pos = a /\ t.tok = tok /\ t.tok_len = b - a
  BY TokenIs
<1> HIDE DEF t
<1>2. b - a \in Nat /\ a + (b - a) <= c
  OBVIOUS
<1>3. Within(s, start, t)
  <2> HIDE DEF Final, Forms
  <2> QED
    BY <1>1, <1>2 DEF Within
<1> QED
  BY <1>3 DEF t

LEMMA SkipIs ==
  ASSUME NEW s \in Seq(Byte), NEW p \in 0 .. Len(s), NEW C
  PROVE  /\ Skip(s, p, C) \in p .. Len(s)
         /\ p # Len(s) /\ peek_ch(s, p) \in C => Skip(s, p, C) # p
<1>1. PICK q : q = Skip(s, p, C)
  OBVIOUS
<1> DEFINE stops == {r \in Offsets(s) : s[r + 1] \notin C}
<1>2. q \in p .. Len(s) /\ (q = Len(s) \/ q \in stops)
  <2>1. q = First(s, p, stops)
    BY <1>1 DEF Skip
  <2> HIDE DEF stops
  <2> QED
    BY <2>1, FirstIs
<1>3. p # Len(s) /\ peek_ch(s, p) \in C => p \notin stops
  <2>1. Len(s) \in Nat
    BY LenProperties
  <2> QED
    BY <2>1 DEF peek_ch
<1> QED
  BY <1>1, <1>2, <1>3

(* The longest mark that is at start. *)
LEMMA MarkForm ==
  ASSUME NEW s \in Seq(Byte), NEW start \in 0 .. Len(s), start # Len(s)
  PROVE  \/ /\ \A u \in Marks : ~ StartsWith(s, start, u)
            /\ lex_mark(s, start) = Token("ERROR", start, start + 1, start + 1)
         \/ \E t \in Marks :
              /\ StartsWith(s, start, t)
              /\ \A u \in Marks : StartsWith(s, start, u) => Len(u) <= Len(t)
              /\ lex_mark(s, start) = Token("MARK", start, start + Len(t), start + Len(t))
<1> DEFINE here == {t \in Marks : StartsWith(s, start, t)}
           longest == CHOOSE t \in here : \A u \in here : Len(u) <= Len(t)
           end == start + Len(longest)
<1>1. CASE here = {}
  BY <1>1, Zenon DEF lex_mark
<1>2. CASE here # {}
  <2>1. lex_mark(s, start) = Token("MARK", start, end, end)
    BY <1>2, Zenon DEF lex_mark
  <2>2. longest \in here /\ \A u \in here : Len(u) <= Len(longest)
    <3>1. \A t \in here : Len(t) \in 1 .. 3
      BY MarkIsShort
    <3> HIDE DEF here
    <3>2. \E t \in here : \A u \in here : Len(u) <= Len(t)
      BY <1>2, <3>1, LongestIs
    <3> QED
      BY <3>2, Zenon
  <2> HIDE DEF longest
  <2> QED
    BY <2>1, <2>2, Zenon
<1> QED
  BY <1>1, <1>2

LEMMA MarkIs ==
  ASSUME NEW s \in Seq(Byte), NEW start \in 0 .. Len(s), start # Len(s)
  PROVE  Within(s, start, lex_mark(s, start))
<1>1. Len(s) \in Nat
  BY LenProperties
<1>2. "ERROR" \in Forms /\ "MARK" \in Forms /\ Final("ERROR") /\ "MARK" # "EOF"
  BY Zenon DEF Forms, Final
<1>3. CASE lex_mark(s, start) = Token("ERROR", start, start + 1, start + 1)
  <2>1. PICK e : e = start + 1
    OBVIOUS
  <2>2. e \in start .. Len(s) /\ start \in start .. e /\ e \in start .. e
    BY <1>1, <2>1
  <2>3. Within(s, start, Token("ERROR", start, e, e))
    BY <1>2, <2>2, FormIs
  <2> QED
    BY <1>3, <2>1, <2>3, Zenon
<1>4. ASSUME NEW t \in Marks, StartsWith(s, start, t),
             lex_mark(s, start) = Token("MARK", start, start + Len(t), start + Len(t))
      PROVE  Within(s, start, lex_mark(s, start))
  <2>1. PICK e : e = start + Len(t)
    OBVIOUS
  <2>2. Len(t) \in 1 .. 3 /\ e <= Len(s)
    <3>1. Len(t) \in 1 .. 3
      BY MarkIsShort
    <3>2. Len(t) \in Nat
      BY <3>1
    <3> QED
      BY <1>4, <2>1, <3>1, <3>2, StartsFits
  <2>3. e \in start .. Len(s) /\ start \in start .. e /\ e \in start .. e /\ e # start
    <3>1. PICK k \in 1 .. 3 : k = Len(t)
      BY <2>2
    <3>2. e = start + k
      BY <2>1, <3>1, Zenon
    <3>3. e <= Len(s)
      BY <2>2
    <3> QED
      BY ONLY <1>1, <3>2, <3>3, start \in 0 .. Len(s), k \in 1 .. 3
  <2>4. Within(s, start, Token("MARK", start, e, e))
    BY <1>2, <2>3, FormIs
  <2> QED
    BY <1>4, <2>1, <2>4, Zenon
<1> QED
  BY <1>3, <1>4, MarkForm

LEMMA NewlineIs ==
  ASSUME NEW s \in Seq(Byte), NEW start \in 0 .. Len(s), start # Len(s)
  PROVE  \/ /\ StartsWith(s, start, <<"\r", "\n">>) /\ start + 2 <= Len(s)
            /\ lex_newline(s, start) = Token("NEWLINE", start, start + 2, start + 2)
         \/ /\ ~StartsWith(s, start, <<"\r", "\n">>)
            /\ lex_newline(s, start) = Token("NEWLINE", start, start + 1, start + 1)
<1>1. StartsWith(s, start, <<"\r", "\n">>) => start + 2 <= Len(s)
  <2>1. Len(<<"\r", "\n">>) = 2
    BY PairIs, Zenon
  <2>2. PICK t : t = <<"\r", "\n">>
    OBVIOUS
  <2>3. Len(t) = 2 /\ Len(t) \in Nat
    BY <2>1, <2>2
  <2>4. StartsWith(s, start, t) => start + Len(t) <= Len(s)
    BY <2>3, StartsFits
  <2>5. StartsWith(s, start, t) => start + 2 <= Len(s)
    BY <2>3, <2>4
  <2> QED
    BY <2>2, <2>5, Zenon
<1> QED
  BY <1>1, Zenon DEF lex_newline

LEMMA LexAtIs ==
  ASSUME NEW s \in Seq(Byte), NEW start \in 0 .. Len(s)
  PROVE  Within(s, start, LexAt(s, start))
<1>1. Len(s) \in Nat /\ start \in start .. Len(s) /\ start \in start .. start
  BY LenProperties
<1>2. CASE start = Len(s)
  <2>1. LexAt(s, start) = Token("EOF", start, start, start)
    BY <1>2, Zenon DEF LexAt
  <2>2. "EOF" \in Forms /\ Final("EOF")
    BY Zenon DEF Forms, Final
  <2>3. Within(s, start, Token("EOF", start, start, start))
    BY <1>1, <1>2, <2>2, FormIs
  <2> QED
    BY <2>1, <2>3, Zenon
<1>3. ASSUME start # Len(s)
      PROVE  Within(s, start, lex_newline(s, start))
  <2>1. start + 1 \in start .. Len(s) /\ start + 1 # start
    BY <1>1, <1>3
  <2>2. start + 2 <= Len(s) => start + 2 \in start .. Len(s) /\ start + 2 # start
    BY <1>1
  <2>3. PICK e \in start .. Len(s) :
          e # start /\ lex_newline(s, start) = Token("NEWLINE", start, e, e)
    BY <1>3, <2>1, <2>2, NewlineIs, Zenon
  <2>4. "NEWLINE" \in Forms /\ "NEWLINE" # "EOF"
    BY Zenon DEF Forms
  <2>5. start \in start .. e /\ e \in start .. e
    BY <1>1
  <2>6. Within(s, start, Token("NEWLINE", start, e, e))
    BY <2>3, <2>4, <2>5, FormIs
  <2> QED
    BY <2>3, <2>6, Zenon
<1>4. ASSUME start # Len(s), peek_ch(s, start) \in Digit
      PROVE  Within(s, start, lex_int(s, start))
  <2>1. PICK e : e = Skip(s, start, Digit)
    OBVIOUS
  <2>2. e \in start .. Len(s) /\ e # start
    BY <1>4, <2>1, SkipIs
  <2>3. PICK k : k \in {"ERROR", "INT"} /\ lex_int(s, start) = Token(k, start, e, e)
    <3>1. \E k \in {"ERROR", "INT"} :
            lex_int(s, start) = Token(k, start, Skip(s, start, Digit), Skip(s, start, Digit))
      BY DEF lex_int
    <3> QED
      BY <2>1, <3>1, Zenon
  <2>4. k \in Forms /\ k # "EOF"
    BY <2>3, Zenon DEF Forms
  <2>5. start \in start .. e /\ e \in start .. e
    BY <1>1, <2>2
  <2>6. Within(s, start, Token(k, start, e, e))
    BY <2>2, <2>4, <2>5, FormIs
  <2> QED
    BY <2>3, <2>6, Zenon
<1>5. ASSUME start # Len(s), peek_ch(s, start) \in IdentStart
      PROVE  Within(s, start, lex_ident_or_kw(s, start))
  <2>1. PICK e : e = Skip(s, start, IdentCont)
    OBVIOUS
  <2>2. e \in start .. Len(s) /\ e # start
    <3>1. peek_ch(s, start) \in IdentCont
      BY <1>5 DEF IdentCont
    <3> QED
      BY <1>5, <2>1, <3>1, SkipIs
  <2>3. PICK k : k \in {"KEYWORD", "IDENT"} /\ lex_ident_or_kw(s, start) = Token(k, start, e, e)
    BY <2>1, Zenon DEF lex_ident_or_kw
  <2>4. k \in Forms /\ k # "EOF"
    BY <2>3, Zenon DEF Forms
  <2>5. start \in start .. e /\ e \in start .. e
    BY <1>1, <2>2
  <2>6. Within(s, start, Token(k, start, e, e))
    BY <2>2, <2>4, <2>5, FormIs
  <2> QED
    BY <2>3, <2>6, Zenon
<1>6. ASSUME start # Len(s)
      PROVE  Within(s, start, lex_string(s, start))
  <2>1. PICK e : e = StringEnd(s, start + 1)
    OBVIOUS
  <2>2. start + 1 \in 0 .. Len(s)
    BY <1>1, <1>6
  <2>3. e = -1 \/ e \in start + 1 .. Len(s) - 1
    BY <2>1, <2>2, StringIs
  <2>4. CASE e = -1
    <3>1. lex_string(s, start) = Token("ERROR", start, start, start)
      BY <2>1, <2>4, Zenon DEF lex_string
    <3>2. "ERROR" \in Forms /\ Final("ERROR") /\ "ERROR" # "EOF"
      BY Zenon DEF Forms, Final
    <3>3. Within(s, start, Token("ERROR", start, start, start))
      BY <1>1, <3>2, FormIs
    <3> QED
      BY <3>1, <3>3, Zenon
  <2>5. CASE e # -1
    <3>1. lex_string(s, start) = Token("STR", start + 1, e, e + 1)
      BY <2>1, <2>5, Zenon DEF lex_string
    <3>2. PICK a, c : a = start + 1 /\ c = e + 1
      OBVIOUS
    <3>3. c \in start .. Len(s) /\ a \in start .. c /\ e \in a .. c /\ c # start
      BY <1>1, <2>3, <2>5, <3>2
    <3>4. "STR" \in Forms /\ "STR" # "EOF"
      BY Zenon DEF Forms
    <3>5. Within(s, start, Token("STR", a, e, c))
      BY <3>3, <3>4, FormIs
    <3> QED
      BY <3>1, <3>2, <3>5, Zenon
  <2> QED
    BY <2>4, <2>5
<1>7. ASSUME start # Len(s)
      PROVE  Within(s, start, lex_mark(s, start))
  BY <1>7, MarkIs
<1> QED
  BY <1>2, <1>3, <1>4, <1>5, <1>6, <1>7, Zenon DEF LexAt

-----------------------------------------------------------------------------
(* Lines: the end-of-line bytes of a text from offset a to offset b.        *)
Ends(s, a, b) == {i \in a + 1 .. b : s[i] \in Eol}

LEMMA EndsAre ==
  ASSUME NEW s, NEW a \in Int, NEW b \in Int
  PROVE  IsFiniteSet(Ends(s, a, b)) /\ Cardinality(Ends(s, a, b)) \in Nat
<1>1. IsFiniteSet(a + 1 .. b)
  BY FS_Interval
<1>2. Ends(s, a, b) \in SUBSET (a + 1 .. b)
  BY DEF Ends
<1> HIDE DEF Ends
<1> QED
  BY <1>1, <1>2, FS_Subset, FS_CardinalityType

LEMMA EolsAre ==
  ASSUME NEW s \in Seq(Byte), NEW a \in 0 .. Len(s), NEW b \in a .. Len(s)
  PROVE  Eols(SubSeq(s, a + 1, b)) = Cardinality(Ends(s, a, b))
<1> DEFINE t == SubSeq(s, a + 1, b)
           S == {i \in DOMAIN t : t[i] \in Eol}
           T == Ends(s, a, b)
           f == [i \in S |-> i + a]
<1>1. Len(s) \in Nat /\ \A i \in 1 .. Len(s) : s[i] \in Byte
  BY LenProperties, ElementOfSeq
<1>2. /\ t \in Seq(Byte) /\ Len(t) = b - a
      /\ \A i \in 1 .. b - a : t[i] = s[a + i]
  <2>1. a + 1 \in Int /\ b \in Int /\ \A i \in a + 1 .. b : s[i] \in Byte
    BY <1>1
  <2> QED
    BY <1>1, <2>1, SubSeqProperties
<1>3. DOMAIN t = 1 .. b - a
  <2> HIDE DEF t
  <2> QED
    BY <1>2, LenProperties
<1> HIDE DEF t
<1>4. S = {i \in 1 .. b - a : s[a + i] \in Eol}
  BY <1>2, <1>3
<1>5. f \in [S -> T]
  BY <1>1, <1>4 DEF Ends
<1>6. \A i, j \in S : f[i] = f[j] => i = j
  BY <1>1, <1>4
<1>7. \A j \in T : \E i \in S : f[i] = j
  <2> SUFFICES ASSUME NEW j \in T PROVE \E i \in S : f[i] = j
    OBVIOUS
  <2>1. j \in a + 1 .. b /\ s[j] \in Eol
    BY DEF Ends
  <2>2. j - a \in 1 .. b - a /\ a + (j - a) = j
    BY <1>1, <2>1
  <2>3. j - a \in S
    <3> HIDE DEF S
    <3> QED
      BY <1>4, <2>1, <2>2
  <2>4. f[j - a] = j
    BY <2>2, <2>3
  <2> QED
    BY <2>3, <2>4
<1>8. ExistsBijection(S, T)
  <2> HIDE DEF S, T, f
  <2> QED
    BY <1>5, <1>6, <1>7 DEF ExistsBijection, Bijection, Injection, Surjection, IsInjective
<1>9. IsFiniteSet(S)
  <2>1. IsFiniteSet(1 .. b - a)
    BY <1>1, FS_Interval
  <2>2. S \in SUBSET (1 .. b - a)
    BY <1>4
  <2> HIDE DEF S
  <2> QED
    BY <2>1, <2>2, FS_Subset
<1>10. Cardinality(T) = Cardinality(S)
  <2> HIDE DEF S, T
  <2> QED
    BY <1>8, <1>9, FS_Bijection
<1> QED
  BY <1>10 DEF Eols, t

LEMMA EndsAdd ==
  ASSUME NEW s, NEW a \in Int, NEW b \in Int, NEW c \in Int, a <= b, b <= c
  PROVE  Cardinality(Ends(s, a, c)) = Cardinality(Ends(s, a, b)) + Cardinality(Ends(s, b, c))
<1>1. Ends(s, a, c) = Ends(s, a, b) \union Ends(s, b, c)
  BY DEF Ends
<1>2. Ends(s, a, b) \cap Ends(s, b, c) = {}
  BY DEF Ends
<1>3. IsFiniteSet(Ends(s, a, b)) /\ IsFiniteSet(Ends(s, b, c))
  BY EndsAre
<1>4. Cardinality({}) = 0
  BY FS_EmptySet
<1>5. Cardinality(Ends(s, a, b)) \in Nat /\ Cardinality(Ends(s, b, c)) \in Nat
  BY EndsAre
<1> DEFINE x == Ends(s, a, b)
           y == Ends(s, b, c)
<1> HIDE DEF Ends, x, y
<1>6. Cardinality(x \union y) = Cardinality(x) + Cardinality(y) - Cardinality(x \cap y)
  <2>1. IsFiniteSet(x) /\ IsFiniteSet(y)
    BY <1>3 DEF x, y
  <2> QED
    BY ONLY <2>1, FS_Union
<1>7. Cardinality(x \cap y) = 0 /\ Ends(s, a, c) = x \union y
  BY <1>1, <1>2, <1>4, Zenon DEF x, y
<1>8. Cardinality(x) \in Nat /\ Cardinality(y) \in Nat
  BY <1>5 DEF x, y
<1>9. Cardinality(Ends(s, a, c)) = Cardinality(x) + Cardinality(y)
  BY <1>6, <1>7, <1>8
<1> QED
  BY <1>9 DEF x, y

(* A lexer is a record of its seven fields, offsets and line being numbers. *)
LexOK(l) ==
  l \in [pos : Nat, line : Nat, tok : {l.tok}, tok_pos : Nat, tok_len : {l.tok_len},
         tok_line : {l.tok_line}, int_val : {l.int_val}]

LEMMA NextIs ==
  ASSUME NEW s \in Seq(Byte), NEW l, LexOK(l), l.pos \in 0 .. Len(s), l.tok_pos \in 0 .. l.pos,
         NEW n, n = lexer_next(s, l)
  PROVE  /\ LexOK(n)
         /\ n.pos \in l.pos .. Len(s) /\ n.tok_pos \in l.tok_pos .. n.pos
         /\ n.line = l.line + Cardinality(Ends(s, l.pos, n.pos))
<1>1. Len(s) \in Nat /\ l.pos \in Nat /\ l.line \in Nat /\ l.tok_pos \in Nat
  BY LenProperties DEF LexOK
<1>2. CASE l.tok = "ERROR"
  <2>1. n = l
    BY <1>2 DEF lexer_next
  <2>2. Ends(s, l.pos, l.pos) = {}
    BY <1>1 DEF Ends
  <2>3. Cardinality(Ends(s, l.pos, l.pos)) = 0
    BY <2>2, FS_EmptySet
  <2> QED
    BY <1>1, <2>1, <2>3
<1>3. CASE l.tok # "ERROR"
  <2>1. PICK start : start = skip_trivia(s)[l.pos]
    OBVIOUS
  <2>2. start \in l.pos .. Len(s)
    BY <2>1, TriviaIs
  <2>3. start \in 0 .. Len(s)
    BY <1>1, <2>2
  <2>4. PICK t : t = LexAt(s, start)
    OBVIOUS
  <2>5. Within(s, start, t)
    BY <2>3, <2>4, LexAtIs
  <2>6. PICK line : line = l.line + Eols(Piece(s, l.pos, start))
    OBVIOUS
  <2>7. PICK line2 : line2 = line + Eols(Piece(s, start, t.pos))
    OBVIOUS
  <2>8. PICK value : value = Value(Piece(s, start, t.pos))
    OBVIOUS
  <2>9. PICK k : n = [pos |-> t.pos, tok |-> t.tok, tok_pos |-> t.tok_pos, tok_len |-> t.tok_len,
                      tok_line |-> line, line |-> line2, int_val |-> k]
    <3>1. PICK k : k = IF t.tok # "INT" THEN l.int_val
                       ELSE IF value >= 32768 THEN value - 65536 ELSE value
      OBVIOUS
    <3>2. n = [pos |-> t.pos, tok |-> t.tok, tok_pos |-> t.tok_pos, tok_len |-> t.tok_len,
               tok_line |-> line, line |-> line2, int_val |-> k]
      BY ONLY <1>3, <2>1, <2>4, <2>6, <2>7, <2>8, <3>1, n = lexer_next(s, l) DEF lexer_next
    <3> QED
      BY <3>2, Zenon
  <2>10. /\ n.pos = t.pos /\ n.tok_pos = t.tok_pos /\ n.line = line2
    BY <2>9
  <2>11. Eols(Piece(s, l.pos, start)) = Cardinality(Ends(s, l.pos, start))
    BY <2>2, PieceIs, EolsAre
  <2>12. t.pos \in start .. Len(s) /\ t.tok_pos \in start .. t.pos
    BY <2>5 DEF Within
  <2>13. Eols(Piece(s, start, t.pos)) = Cardinality(Ends(s, start, t.pos))
    BY <2>3, <2>12, PieceIs, EolsAre
  <2>14. Cardinality(Ends(s, l.pos, t.pos))
           = Cardinality(Ends(s, l.pos, start)) + Cardinality(Ends(s, start, t.pos))
    <3>1. l.pos \in Int /\ start \in Int /\ t.pos \in Int /\ l.pos <= start /\ start <= t.pos
      BY <1>1, <2>2, <2>12
    <3> QED
      BY <3>1, EndsAdd
  <2>15. /\ Cardinality(Ends(s, l.pos, start)) \in Nat
         /\ Cardinality(Ends(s, start, t.pos)) \in Nat
    <3>1. l.pos \in Int /\ start \in Int /\ t.pos \in Int
      BY <1>1, <2>2, <2>12
    <3> QED
      BY <3>1, EndsAre
  <2>16. n.pos \in l.pos .. Len(s) /\ n.tok_pos \in l.tok_pos .. n.pos
    BY <1>1, <2>2, <2>10, <2>12
  <2>17. n.line = l.line + Cardinality(Ends(s, l.pos, n.pos)) /\ n.line \in Nat
    BY <1>1, <2>6, <2>7, <2>10, <2>11, <2>13, <2>14, <2>15
  <2>18. LexOK(n)
    <3>1. n.pos \in Nat /\ n.tok_pos \in Nat
      BY <1>1, <2>16
    <3>2. t.pos \in Nat /\ t.tok_pos \in Nat /\ line2 \in Nat
      BY <2>10, <2>17, <3>1
    <3> QED
      BY <2>9, <3>2 DEF LexOK
  <2> QED
    BY <2>16, <2>17, <2>18
<1> QED
  BY <1>2, <1>3

-----------------------------------------------------------------------------
(* The window and the file: w is the stretch of s from offset b on.  Whole  *)
(* where it goes to the end of s.                                          *)
Shows(s, b, w) ==
  /\ s \in Seq(Byte) /\ w \in Seq(Byte) /\ b \in Nat
  /\ b + Len(w) <= Len(s)
  /\ \A i \in 1 .. Len(w) : w[i] = s[b + i]

Whole(s, b, w) == b + Len(w) = Len(s)

LEMMA ShowsIs ==
  ASSUME NEW s, NEW b, NEW w, Shows(s, b, w)
  PROVE  /\ s \in Seq(Byte) /\ w \in Seq(Byte) /\ b \in Nat
         /\ Len(s) \in Nat /\ Len(w) \in Nat /\ b + Len(w) <= Len(s)
         /\ \A p \in 0 .. Len(w) : b + p \in 0 .. Len(s)
<1>1. s \in Seq(Byte) /\ w \in Seq(Byte) /\ b \in Nat /\ b + Len(w) <= Len(s)
  BY DEF Shows
<1>2. Len(s) \in Nat /\ Len(w) \in Nat
  BY <1>1, LenProperties
<1> QED
  BY <1>1, <1>2

LEMMA PieceSame ==
  ASSUME NEW s, NEW b, NEW w, Shows(s, b, w),
         NEW p \in 0 .. Len(w), NEW q \in p .. Len(w)
  PROVE  Piece(w, p, q) = Piece(s, b + p, b + q)
<1>1. /\ s \in Seq(Byte) /\ w \in Seq(Byte) /\ b \in Nat
      /\ Len(s) \in Nat /\ Len(w) \in Nat /\ b + Len(w) <= Len(s)
  BY ShowsIs
<1>2. PICK u, v : u = b + p /\ v = b + q
  OBVIOUS
<1>3. u \in 0 .. Len(s) /\ v \in u .. Len(s) /\ v - u = q - p
  BY <1>1, <1>2
<1>4. /\ Piece(w, p, q) \in Seq(Byte) /\ Len(Piece(w, p, q)) = q - p
      /\ \A i \in 1 .. q - p : Piece(w, p, q)[i] = w[p + i]
  BY <1>1, PieceIs
<1>5. /\ Piece(s, u, v) \in Seq(Byte) /\ Len(Piece(s, u, v)) = v - u
      /\ \A i \in 1 .. v - u : Piece(s, u, v)[i] = s[u + i]
  BY <1>1, <1>3, PieceIs
<1>6. \A i \in 1 .. q - p : w[p + i] = s[u + i]
  <2>1. \A i \in 1 .. q - p : p + i \in 1 .. Len(w) /\ b + (p + i) = u + i
    BY <1>1, <1>2
  <2> QED
    BY <2>1 DEF Shows
<1>7. Piece(w, p, q) = Piece(s, u, v)
  <2> DEFINE x == Piece(w, p, q)
             y == Piece(s, u, v)
  <2>1. Len(x) = Len(y) /\ \A i \in 1 .. Len(x) : x[i] = y[i]
    BY <1>3, <1>4, <1>5, <1>6
  <2>2. x \in Seq(Byte) /\ y \in Seq(Byte)
    BY <1>4, <1>5
  <2> HIDE DEF x, y
  <2>3. x = y
    BY <2>1, <2>2, SeqEqual
  <2> QED
    BY <2>3 DEF x, y
<1> QED
  BY <1>2, <1>7, Zenon

LEMMA PeekSame ==
  ASSUME NEW s, NEW b, NEW w, Shows(s, b, w), NEW q \in Nat, q < Len(w) \/ Whole(s, b, w)
  PROVE  peek_ch(w, q) = peek_ch(s, b + q)
<1>1. /\ b \in Nat /\ Len(s) \in Nat /\ Len(w) \in Nat /\ b + Len(w) <= Len(s)
  BY ShowsIs
<1>2. CASE q < Len(w)
  <2>1. q + 1 \in 1 .. Len(w) /\ b + (q + 1) = b + q + 1 /\ b + q < Len(s)
    BY <1>1, <1>2
  <2>2. w[q + 1] = s[b + q + 1]
    BY <2>1 DEF Shows
  <2> QED
    BY <1>2, <2>1, <2>2 DEF peek_ch
<1>3. CASE ~(q < Len(w))
  <2>1. ~(b + q < Len(s))
    BY <1>1, <1>3 DEF Whole
  <2> QED
    BY <1>3, <2>1 DEF peek_ch
<1> QED
  BY <1>2, <1>3

LEMMA StartsSame ==
  ASSUME NEW s, NEW b, NEW w, Shows(s, b, w), NEW p \in 0 .. Len(w), NEW t, Len(t) \in Nat
  PROVE  /\ StartsWith(w, p, t) => p + Len(t) <= Len(w) /\ StartsWith(s, b + p, t)
         /\ StartsWith(s, b + p, t) /\ (p + Len(t) <= Len(w) \/ Whole(s, b, w))
              => StartsWith(w, p, t)
<1>1. /\ s \in Seq(Byte) /\ w \in Seq(Byte) /\ b \in Nat
      /\ Len(s) \in Nat /\ Len(w) \in Nat /\ b + Len(w) <= Len(s)
  BY ShowsIs
<1>2. PICK n \in Nat : n = Len(t)
  OBVIOUS
<1>3. ASSUME p + n <= Len(w)
      PROVE  StartsWith(w, p, t) <=> StartsWith(s, b + p, t)
  <2>1. PICK q : q = p + n
    OBVIOUS
  <2>2. q \in p .. Len(w) /\ b + q = b + p + n
    BY <1>1, <1>3, <2>1
  <2>3. Piece(w, p, q) = Piece(s, b + p, b + q)
    BY <2>2, PieceSame
  <2> QED
    BY <1>2, <2>1, <2>2, <2>3, Zenon DEF StartsWith
<1>4. StartsWith(w, p, t) => p + n <= Len(w)
  BY <1>1, <1>2, StartsFits
<1>5. StartsWith(s, b + p, t) /\ Whole(s, b, w) => p + n <= Len(w)
  <2>1. PICK u \in 0 .. Len(s) : u = b + p
    BY <1>1
  <2>2. StartsWith(s, u, t) => u + n <= Len(s)
    BY <1>1, <1>2, StartsFits
  <2>3. Whole(s, b, w) /\ u + n <= Len(s) => p + n <= Len(w)
    BY <1>1, <2>1 DEF Whole
  <2> QED
    BY <2>1, <2>2, <2>3, Zenon
<1> QED
  BY <1>2, <1>3, <1>4, <1>5

(* The end of a scan is the only one with these properties. *)
LEMMA FirstOnly ==
  ASSUME NEW s \in Seq(Byte), NEW p \in 0 .. Len(s), NEW stops, NEW q \in p .. Len(s),
         q = Len(s) \/ q \in stops, \A r \in p .. q - 1 : r \notin stops
  PROVE  First(s, p, stops) = q
<1>1. Len(s) \in Nat
  BY LenProperties
<1>2. PICK x : x = First(s, p, stops)
  OBVIOUS
<1>3. /\ x \in p .. Len(s) /\ (x = Len(s) \/ x \in stops)
      /\ \A r \in p .. x - 1 : r \notin stops
  BY <1>2, FirstIs
<1>4. ~(x < q)
  BY <1>1, <1>3
<1>5. ~(q < x)
  BY <1>1, <1>3
<1> QED
  BY <1>1, <1>2, <1>3, <1>4, <1>5

(* A scan of the window stops where a scan of the file does, unless it ran  *)
(* into the edge.                                                          *)
LEMMA FirstSame ==
  ASSUME NEW s, NEW b, NEW w, Shows(s, b, w), NEW p \in 0 .. Len(w), NEW A, NEW B,
         \A r \in p .. Len(w) - 1 :
           /\ r \in A => b + r \in B
           /\ b + r \in B => r \in A \/ r = Len(w) - 1,
         NEW q, q = First(w, p, A),
         \/ q < Len(w)
         \/ Whole(s, b, w) /\ (\A r \in p .. Len(w) - 1 : b + r \in B => r \in A)
         \/ b + Len(w) \in B /\ (\A r \in p .. Len(w) - 1 : b + r \in B => r \in A)
  PROVE  First(s, b + p, B) = b + q
<1>1. /\ s \in Seq(Byte) /\ w \in Seq(Byte) /\ b \in Nat
      /\ Len(s) \in Nat /\ Len(w) \in Nat /\ b + Len(w) <= Len(s)
  BY ShowsIs
<1>2. /\ q \in p .. Len(w) /\ (q = Len(w) \/ q \in A)
      /\ \A r \in p .. q - 1 : r \notin A
  BY <1>1, FirstIs
<1>3. PICK u, v : u = b + p /\ v = b + q
  OBVIOUS
<1>4. u \in 0 .. Len(s) /\ v \in u .. Len(s)
  BY <1>1, <1>2, <1>3
<1>5. v = Len(s) \/ v \in B
  <2>1. CASE q < Len(w)
    BY <1>1, <1>2, <1>3, <2>1
  <2>2. CASE q = Len(w)
    BY <1>1, <1>3, <2>2 DEF Whole
  <2> QED
    BY <1>1, <1>2, <2>1, <2>2
<1>6. ASSUME NEW r \in u .. v - 1
      PROVE  r \notin B
  <2>1. PICK k : k = r - b
    OBVIOUS
  <2>2. k \in p .. q - 1 /\ k \in p .. Len(w) - 1 /\ b + k = r
    BY <1>1, <1>2, <1>3, <2>1
  <2>3. k \notin A
    BY <1>2, <2>2
  <2>4. b + k \notin B
    <3>1. CASE q < Len(w)
      <4>1. k # Len(w) - 1
        BY <1>1, <1>2, <2>2, <3>1
      <4> QED
        BY <2>2, <2>3, <4>1
    <3>2. CASE ~(q < Len(w))
      BY <2>2, <2>3, <3>2
    <3> QED
      BY <3>1, <3>2
  <2> QED
    BY <2>2, <2>4
<1>7. First(s, u, B) = v
  BY <1>1, <1>4, <1>5, <1>6, FirstOnly
<1> QED
  BY <1>3, <1>7

LEMMA SkipSame ==
  ASSUME NEW s, NEW b, NEW w, Shows(s, b, w), NEW p \in 0 .. Len(w), NEW C,
         NEW q, q = Skip(w, p, C), q < Len(w) \/ Whole(s, b, w)
  PROVE  Skip(s, b + p, C) = b + q
<1> DEFINE A == {r \in Offsets(w) : w[r + 1] \notin C}
           B == {r \in Offsets(s) : s[r + 1] \notin C}
<1>1. b \in Nat /\ Len(s) \in Nat /\ Len(w) \in Nat /\ b + Len(w) <= Len(s)
  BY ShowsIs
<1>2. \A r \in p .. Len(w) - 1 : r \in A <=> b + r \in B
  <2> SUFFICES ASSUME NEW r \in p .. Len(w) - 1 PROVE r \in A <=> b + r \in B
    OBVIOUS
  <2>1. r \in 0 .. Len(w) - 1 /\ b + r \in 0 .. Len(s) - 1 /\ r + 1 \in 1 .. Len(w)
        /\ b + (r + 1) = b + r + 1
    BY <1>1
  <2>2. w[r + 1] = s[b + r + 1]
    <3>1. \A i \in 1 .. Len(w) : w[i] = s[b + i]
      BY Zenon DEF Shows
    <3> QED
      BY ONLY <2>1, <3>1
  <2> QED
    BY <2>1, <2>2 DEF Offsets
<1>3. q = First(w, p, A) /\ Skip(s, b + p, C) = First(s, b + p, B)
  BY DEF Skip
<1> HIDE DEF A, B
<1> QED
  BY <1>2, <1>3, FirstSame

(* From the end backwards. *)
LEMMA Backwards ==
  ASSUME NEW n \in Nat, NEW S, \A p \in 0 .. n : (\A q \in p + 1 .. n : q \in S) => p \in S
  PROVE  \A p \in 0 .. n : p \in S
<1> DEFINE T == {k \in 0 .. n : \A p \in 0 .. n : n - p <= k => p \in S}
<1>1. 0 \in T
  <2>1. ASSUME NEW p \in 0 .. n, n - p <= 0
        PROVE  p \in S
    <3>1. \A q \in p + 1 .. n : FALSE
      BY <2>1
    <3> QED
      BY <3>1
  <2> QED
    BY <2>1
<1>2. ASSUME NEW k \in 0 .. n - 1, k \in T
      PROVE  k + 1 \in T
  <2>1. ASSUME NEW p \in 0 .. n, n - p <= k + 1
        PROVE  p \in S
    <3>1. \A q \in p + 1 .. n : q \in 0 .. n /\ n - q <= k
      BY <2>1
    <3> QED
      BY <1>2, <3>1
  <2>2. k + 1 \in 0 .. n
    OBVIOUS
  <2> QED
    BY <2>1, <2>2
<1>3. \A k \in 0 .. n : k \in T
  <2> HIDE DEF T
  <2> QED
    BY <1>1, <1>2, Steps
<1>4. n \in T /\ \A p \in 0 .. n : n - p <= n
  BY <1>3
<1> QED
  BY <1>4

LEMMA PairAt ==
  ASSUME NEW s \in Seq(Byte), NEW p \in 0 .. Len(s), NEW a, NEW c
  PROVE  StartsWith(s, p, <<a, c>>) <=> p + 2 <= Len(s) /\ s[p + 1] = a /\ s[p + 2] = c
<1>1. Len(s) \in Nat
  BY LenProperties
<1>2. PICK t : t = <<a, c>>
  OBVIOUS
<1>3. Len(t) = 2 /\ t[1] = a /\ t[2] = c /\ t \in Seq({a, c})
  BY <1>2
<1>4. StartsWith(s, p, t) => p + 2 <= Len(s)
  <2>1. StartsWith(s, p, t) => p + Len(t) <= Len(s)
    <3>1. s \in Seq(Byte) /\ p \in 0 .. Len(s) /\ Len(t) \in Nat
      BY <1>3
    <3> QED
      BY ONLY <3>1, StartsFits
  <2> QED
    BY <1>3, <2>1
<1>5. ASSUME p + 2 <= Len(s)
      PROVE  StartsWith(s, p, t) <=> s[p + 1] = a /\ s[p + 2] = c
  <2>1. PICK q : q = p + 2
    OBVIOUS
  <2>2. q \in p .. Len(s) /\ q - p = 2
    BY <1>1, <1>5, <2>1
  <2>3. PICK x : x = Piece(s, p, q)
    OBVIOUS
  <2>4. x \in Seq(Byte) /\ Len(x) = 2 /\ \A i \in 1 .. 2 : x[i] = s[p + i]
    BY <1>1, <2>2, <2>3, PieceIs
  <2>5. x = t <=> x[1] = t[1] /\ x[2] = t[2]
    <3>1. x[1] = t[1] /\ x[2] = t[2] => \A i \in 1 .. Len(x) : x[i] = t[i]
      BY <2>4
    <3>2. x \in Seq(Byte) /\ t \in Seq({a, c}) /\ Len(x) = Len(t)
      BY <1>3, <2>4
    <3>3. x[1] = t[1] /\ x[2] = t[2] => x = t
      <4>1. ASSUME x[1] = t[1], x[2] = t[2]
            PROVE  x = t
        <5>1. x = [i \in 1 .. 2 |-> x[i]] /\ t = [i \in 1 .. 2 |-> t[i]]
          BY <1>3, <2>4
        <5>2. \A i \in 1 .. 2 : x[i] = t[i]
          BY <2>4, <3>1, <4>1
        <5> QED
          BY <5>1, <5>2
      <4> QED
        BY <4>1
    <3> QED
      BY <3>3
  <2>6. StartsWith(s, p, t) <=> x = t
    BY <1>3, <2>1, <2>3, Zenon DEF StartsWith
  <2> QED
    BY <1>3, <2>4, <2>5, <2>6
<1> QED
  BY <1>2, <1>4, <1>5, Zenon

(* What the window's lexer knows of where trivia end: where they do in the  *)
(* file, or they run into the edge, or a slash is the last byte it has.     *)
TriviaKnown(s, b, w, p) ==
  LET t == skip_trivia(w)[p]
  IN  \/ skip_trivia(s)[b + p] = b + t
      \/ ~ Whole(s, b, w) /\ t = Len(w)
      \/ ~ Whole(s, b, w) /\ t = Len(w) - 1 /\ w[Len(w)] = "/"

LEMMA TriviaSame ==
  ASSUME NEW s, NEW b, NEW w, Shows(s, b, w)
  PROVE  \A p \in 0 .. Len(w) : TriviaKnown(s, b, w, p)
<1> DEFINE m == Len(w)
           S == {p \in 0 .. m : TriviaKnown(s, b, w, p)}
<1>1. /\ s \in Seq(Byte) /\ w \in Seq(Byte) /\ b \in Nat
      /\ Len(s) \in Nat /\ m \in Nat /\ b + m <= Len(s)
      /\ \A p \in 0 .. m : b + p \in 0 .. Len(s)
  BY ShowsIs
<1>2. PICK f, g : f = skip_trivia(w) /\ g = skip_trivia(s)
  OBVIOUS
<1>3. \A p \in 0 .. m : f[p] \in p .. m /\ f[p] = TriviaStep(w, f, p)
  BY <1>1, <1>2, TriviaIs
<1>4. \A p \in 0 .. Len(s) : g[p] = TriviaStep(s, g, p)
  BY <1>1, <1>2, TriviaIs
<1>5. ASSUME NEW p \in 0 .. m, \A q \in p + 1 .. m : q \in S
      PROVE  p \in S
  <2> DEFINE u == b + p
             lines(x) == {q \in Offsets(x) : x[q + 1] \in Eol}
             closes(x) == {q \in Offsets(x) : StartsWith(x, q, <<"*", "/">>)}
  <2>1. u \in 0 .. Len(s) /\ g[u] = TriviaStep(s, g, u) /\ f[p] = TriviaStep(w, f, p)
    BY <1>1, <1>3, <1>4
  <2>2. ASSUME NEW q \in p + 1 .. m, f[p] = f[q], g[u] = g[b + q]
        PROVE  p \in S
    <3>1. TriviaKnown(s, b, w, q)
      BY <1>5
    <3>2. TriviaKnown(s, b, w, p)
      BY <1>2, <2>2, <3>1 DEF TriviaKnown
    <3> QED
      BY <3>2
  <2>3. ASSUME f[p] = m, ~ Whole(s, b, w)
        PROVE  p \in S
    BY <1>2, <2>3 DEF TriviaKnown
  <2>4. f[m] = m
    BY <1>1, <1>3
  <2>5. /\ Len(<<"/", "/">>) = 2 /\ Len(<<"/", "*">>) = 2
        /\ Len(<<"/", "/">>) \in Nat /\ Len(<<"/", "*">>) \in Nat
    <3>1. Len(<<"/", "/">>) = 2 /\ Len(<<"/", "*">>) = 2
      BY PairIs, Zenon
    <3> QED
      BY <3>1
  <2>6. CASE StartsWith(w, p, <<"/", "/">>)
    <3>1. p + 2 <= m /\ StartsWith(s, u, <<"/", "/">>)
      BY <2>5, <2>6, StartsSame
    <3>2. PICK q : q = First(w, p + 2, lines(w))
      OBVIOUS
    <3>3. p + 2 \in 0 .. m /\ q \in p + 2 .. m /\ q \in p + 1 .. m
      <4>1. p + 2 \in 0 .. m
        BY <1>1, <3>1
      <4>2. q \in p + 2 .. m
        BY <1>1, <3>2, <4>1, FirstIs
      <4> QED
        BY <1>1, <4>1, <4>2
    <3>4. f[p] = f[q]
      BY <2>1, <2>6, <3>2, Zenon DEF TriviaStep
    <3>5. g[u] = g[First(s, u + 2, lines(s))]
      BY <2>1, <3>1, Zenon DEF TriviaStep
    <3>6. ASSUME q < m \/ Whole(s, b, w)
          PROVE  First(s, u + 2, lines(s)) = b + q
      <4>1. \A r \in p + 2 .. m - 1 : r \in lines(w) <=> b + r \in lines(s)
        <5> SUFFICES ASSUME NEW r \in p + 2 .. m - 1
                     PROVE  r \in lines(w) <=> b + r \in lines(s)
          OBVIOUS
        <5>1. r \in 0 .. m - 1 /\ b + r \in 0 .. Len(s) - 1 /\ r + 1 \in 1 .. m
              /\ b + (r + 1) = b + r + 1
          BY <1>1
        <5>2. w[r + 1] = s[b + r + 1]
          BY <5>1 DEF Shows
        <5> QED
          BY <5>1, <5>2 DEF Offsets
      <4>2. PICK k : k = p + 2
        OBVIOUS
      <4>3. b + k = u + 2 /\ k \in 0 .. m
        BY <1>1, <3>3, <4>2
      <4> HIDE DEF lines
      <4>4. First(s, b + k, lines(s)) = b + q
        <5>1. q = First(w, k, lines(w))
          BY <3>2, <4>2
        <5>2. \A r \in k .. m - 1 : r \in lines(w) <=> b + r \in lines(s)
          BY <4>1, <4>2
        <5> QED
          BY <3>6, <4>3, <5>1, <5>2, FirstSame
      <4> QED
        BY <4>3, <4>4, Zenon
    <3>7. CASE q < m \/ Whole(s, b, w)
      <4>1. g[u] = g[b + q]
        BY <3>5, <3>6, <3>7
      <4> QED
        BY <2>2, <3>3, <3>4, <4>1
    <3>8. CASE ~(q < m \/ Whole(s, b, w))
      <4>1. q = m
        BY <1>1, <3>3, <3>8
      <4> QED
        BY <2>3, <2>4, <3>4, <3>8, <4>1
    <3> QED
      BY <3>7, <3>8
  <2>7. CASE ~StartsWith(w, p, <<"/", "/">>) /\ StartsWith(w, p, <<"/", "*">>)
    <3>1. p + 2 <= m /\ StartsWith(s, u, <<"/", "*">>)
      BY <2>5, <2>7, StartsSame
    <3>2. ~StartsWith(s, u, <<"/", "/">>)
      BY <2>5, <2>7, <3>1, StartsSame
    <3>3. PICK r : r = First(w, p + 2, closes(w))
      OBVIOUS
    <3>4. p + 2 \in 0 .. m /\ r \in p + 2 .. m /\ (r = m \/ r \in closes(w))
      <4>1. p + 2 \in 0 .. m
        BY <1>1, <3>1
      <4> HIDE DEF closes
      <4> QED
        BY <1>1, <3>3, <4>1, FirstIs
    <3>5. PICK q : q = Upto(2 + r, m)
      OBVIOUS
    <3>6. r < m => r + 2 <= m
      <4>1. ASSUME r < m PROVE r + 2 <= m
        <5>1. StartsWith(w, r, <<"*", "/">>) /\ r \in 0 .. m
          BY <1>1, <3>4, <4>1
        <5> QED
          BY <1>1, <5>1, PairAt
      <4> QED
        BY <4>1
    <3>7. q \in p + 1 .. m /\ (r = m => q = m)
      BY <1>1, <3>4, <3>5 DEF Upto
    <3>8. f[p] = f[q]
      BY <2>1, <2>7, <3>3, <3>5, Zenon DEF TriviaStep
    <3>9. g[u] = g[Upto(2 + First(s, u + 2, closes(s)), Len(s))]
      BY <2>1, <3>1, <3>2, Zenon DEF TriviaStep
    <3>10. ASSUME r < m \/ Whole(s, b, w)
           PROVE  First(s, u + 2, closes(s)) = b + r
      <4>1. ASSUME NEW x \in p + 2 .. m - 1
            PROVE  /\ x \in closes(w) => b + x \in closes(s)
                   /\ b + x \in closes(s) => x \in closes(w) \/ (x = m - 1 /\ ~ Whole(s, b, w))
        <5>1. x \in 0 .. m /\ b + x \in 0 .. Len(s) /\ x \in 0 .. m - 1 /\ b + x \in 0 .. Len(s) - 1
          BY <1>1
        <5>2. Len(<<"*", "/">>) = 2 /\ Len(<<"*", "/">>) \in Nat
          <6>1. Len(<<"*", "/">>) = 2
            BY PairIs, Zenon
          <6> QED
            BY <6>1
        <5>3. /\ StartsWith(w, x, <<"*", "/">>) => StartsWith(s, b + x, <<"*", "/">>)
              /\ StartsWith(s, b + x, <<"*", "/">>) /\ (x + 2 <= m \/ Whole(s, b, w))
                   => StartsWith(w, x, <<"*", "/">>)
          BY <5>1, <5>2, StartsSame
        <5>4. x + 2 <= m \/ x = m - 1
          BY <1>1
        <5> QED
          BY <5>1, <5>3, <5>4 DEF Offsets
      <4>2. PICK k : k = p + 2
        OBVIOUS
      <4>3. b + k = u + 2 /\ k \in 0 .. m
        BY <1>1, <3>4, <4>2
      <4> HIDE DEF closes
      <4>4. First(s, b + k, closes(s)) = b + r
        <5>1. r = First(w, k, closes(w))
          BY <3>3, <4>2
        <5> QED
          BY <3>10, <4>1, <4>2, <4>3, <5>1, FirstSame
      <4> QED
        BY <4>3, <4>4, Zenon
    <3>11. CASE r < m \/ Whole(s, b, w)
      <4>1. Upto(2 + (b + r), Len(s)) = b + q
        <5>1. CASE r < m
          BY <1>1, <3>4, <3>5, <3>6, <5>1 DEF Upto
        <5>2. CASE ~(r < m)
          <6>1. r = m /\ b + m = Len(s)
            BY <1>1, <3>4, <3>11, <5>2 DEF Whole
          <6>2. q = m
            BY <3>7, <6>1
          <6> HIDE DEF m
          <6> QED
            BY <1>1, <6>1, <6>2 DEF Upto
        <5> QED
          BY <5>1, <5>2
      <4>2. g[u] = g[b + q]
        BY <3>9, <3>10, <3>11, <4>1
      <4> QED
        BY <2>2, <3>7, <3>8, <4>2
    <3>12. CASE ~(r < m \/ Whole(s, b, w))
      <4>1. q = m
        BY <1>1, <3>4, <3>7, <3>12
      <4> QED
        BY <2>3, <2>4, <3>8, <3>12, <4>1
    <3> QED
      BY <3>11, <3>12
  <2>8. CASE ~StartsWith(w, p, <<"/", "/">>) /\ ~StartsWith(w, p, <<"/", "*">>)
    <3>1. ASSUME p < m, w[m] # "/" \/ p # m - 1 \/ Whole(s, b, w)
          PROVE  ~StartsWith(s, u, <<"/", "/">>) /\ ~StartsWith(s, u, <<"/", "*">>)
      <4>1. CASE p + 2 <= m \/ Whole(s, b, w)
        BY <2>5, <2>8, <4>1, StartsSame
      <4>2. CASE ~(p + 2 <= m \/ Whole(s, b, w))
        <5>1. p = m - 1 /\ p + 1 = m /\ b + m = u + 1 /\ m \in 1 .. m
          BY <1>1, <3>1, <4>2
        <5>2. w[m] # "/" /\ w[m] = s[u + 1]
          BY <3>1, <4>2, <5>1 DEF Shows
        <5> HIDE DEF u
        <5> QED
          BY <1>1, <2>1, <5>2, PairAt
      <4> QED
        BY <4>1, <4>2
    <3>2. p < m => peek_ch(w, p) = peek_ch(s, u)
      <4>1. p \in Nat
        BY <1>1
      <4> QED
        BY <4>1, PeekSame
    <3>3. CASE peek_ch(w, p) \in Space
      <4>1. p < m
        BY <3>3, NotTheEnd, PeekIs, <1>1
      <4>2. ~StartsWith(s, u, <<"/", "/">>) /\ ~StartsWith(s, u, <<"/", "*">>)
        <5>1. peek_ch(s, u) = s[u + 1] /\ peek_ch(s, u) \in Space
          <6>1. u < Len(s)
            BY <1>1, <4>1
          <6> QED
            BY <3>2, <3>3, <4>1, <6>1 DEF peek_ch
        <5>2. s[u + 1] # "/"
          <6>1. "/" \notin Space
            BY Zenon DEF Space
          <6> QED
            BY <5>1, <6>1, Zenon
        <5> HIDE DEF u
        <5> QED
          BY <1>1, <2>1, <5>2, PairAt
      <4>3. f[p] = f[p + 1]
        BY <2>1, <2>8, <3>3, Zenon DEF TriviaStep
      <4>4. g[u] = g[u + 1]
        BY <2>1, <3>2, <3>3, <4>1, <4>2, Zenon DEF TriviaStep
      <4>5. p + 1 \in p + 1 .. m /\ u + 1 = b + (p + 1)
        BY <1>1, <4>1
      <4> QED
        BY <2>2, <4>3, <4>4, <4>5
    <3>4. CASE peek_ch(w, p) \notin Space
      <4>1. f[p] = p
        BY <2>1, <2>8, <3>4, Zenon DEF TriviaStep
      <4>2. CASE p = m
        <5>1. CASE Whole(s, b, w)
          <6>1. u = Len(s)
            BY <1>1, <4>2, <5>1 DEF Whole
          <6>2. g[u] \in u .. Len(s)
            BY <1>1, <1>2, <2>1, TriviaIs
          <6>3. PICK k : k = g[u]
            OBVIOUS
          <6>4. k = u
            <7>1. k \in u .. Len(s) /\ Len(s) \in Nat
              BY <1>1, <6>2, <6>3
            <7> HIDE DEF u
            <7> QED
              BY ONLY <6>1, <7>1
          <6>5. g[u] = b + f[p]
            BY <4>1, <6>3, <6>4, Zenon
          <6> QED
            BY <1>2, <6>5 DEF TriviaKnown
        <5> QED
          BY <2>3, <4>1, <4>2, <5>1
      <4>3. CASE p < m /\ (w[m] # "/" \/ p # m - 1 \/ Whole(s, b, w))
        <5>1. g[u] = u
          BY <2>1, <3>1, <3>2, <3>4, <4>3, Zenon DEF TriviaStep
        <5> QED
          BY <1>2, <4>1, <5>1 DEF TriviaKnown
      <4>4. CASE p = m - 1 /\ w[m] = "/" /\ ~ Whole(s, b, w)
        BY <1>2, <4>1, <4>4 DEF TriviaKnown
      <4> QED
        BY <1>1, <4>2, <4>3, <4>4
    <3> QED
      BY <3>3, <3>4
  <2> QED
    BY <2>6, <2>7, <2>8, Zenon
<1>6. \A p \in 0 .. m : p \in S
  <2> HIDE DEF S
  <2> QED
    BY <1>1, <1>5, Backwards
<1> QED
  BY <1>6

(* A string the window closes is closed at the same byte in the file. *)
Breaks == Eol \union {"\""}

LEMMA InterpolationSame ==
  ASSUME NEW s, NEW b, NEW w, Shows(s, b, w), NEW p \in 0 .. Len(w),
         InterpolationEnd(w, p) # -1
  PROVE  InterpolationEnd(s, b + p) = b + InterpolationEnd(w, p)
<1> DEFINE m == Len(w)
           u == b + p
           Marked(x, o, q, mark) == {r \in o .. q - 1 : x[r + 1] = mark}
           Depth(x, o, q) == 1 + Cardinality(Marked(x, o, q, "(")) - Cardinality(Marked(x, o, q, ")"))
           Stops(x, o) == {q \in Offsets(x) : Depth(x, o, q) = 0 \/ x[q + 1] \in Breaks}
           End(x, o) == First(x, o, Stops(x, o))
<1>1. /\ s \in Seq(Byte) /\ w \in Seq(Byte) /\ b \in Nat
      /\ Len(s) \in Nat /\ m \in Nat /\ b + m <= Len(s) /\ u \in 0 .. Len(s)
  BY ShowsIs
<1>2. \A x, o : InterpolationEnd(x, o) = IF Depth(x, o, End(x, o)) = 0 THEN End(x, o) ELSE -1
  BY Zenon DEF InterpolationEnd, Breaks
<1>3. PICK e : e = End(w, p)
  <2> HIDE DEF End
  <2> QED
    OBVIOUS
<1>4. InterpolationEnd(w, p) = e /\ Depth(w, p, e) = 0
  BY <1>2, <1>3, Zenon
<1>5. e \in p .. m
  <2> HIDE DEF Stops, m
  <2> QED
    BY <1>1, <1>3, FirstIs DEF m
<1>6. ASSUME NEW q \in p .. m
      PROVE  Depth(w, p, q) = Depth(s, u, b + q)
  <2>1. ASSUME NEW mark
        PROVE  Cardinality(Marked(w, p, q, mark)) = Cardinality(Marked(s, u, b + q, mark))
    <3> DEFINE X == Marked(w, p, q, mark)
               Y == Marked(s, u, b + q, mark)
               h == [i \in X |-> i + b]
    <3>1. h \in [X -> Y]
      <4>1. ASSUME NEW i \in X PROVE i + b \in Y
        <5>1. i \in p .. q - 1 /\ w[i + 1] = mark /\ i + 1 \in 1 .. m /\ b + (i + 1) = i + b + 1
          BY <1>1
        <5>2. s[i + b + 1] = mark
          <6>1. \A k \in 1 .. m : w[k] = s[b + k]
            BY Zenon DEF Shows
          <6>2. w[i + 1] = s[b + (i + 1)]
            BY ONLY <5>1, <6>1
          <6> QED
            BY <5>1, <6>2, Zenon
        <5>3. i + b \in u .. (b + q) - 1
          BY <1>1, <5>1
        <5>4. PICK k : k = i + b
          OBVIOUS
        <5>5. k \in u .. (b + q) - 1 /\ s[k + 1] = mark
          BY <5>2, <5>3, <5>4
        <5> HIDE DEF u
        <5>6. k \in {r \in u .. (b + q) - 1 : s[r + 1] = mark}
          BY ONLY <5>5
        <5> QED
          BY <5>4, <5>6, Zenon
      <4> QED
        BY <4>1
    <3>2. \A i, j \in X : h[i] = h[j] => i = j
      BY <1>1
    <3>3. \A j \in Y : \E i \in X : h[i] = j
      <4> SUFFICES ASSUME NEW j \in Y PROVE \E i \in X : h[i] = j
        OBVIOUS
      <4>1. j \in u .. (b + q) - 1 /\ s[j + 1] = mark
        <5>1. j \in {r \in u .. (b + q) - 1 : s[r + 1] = mark}
          BY Zenon
        <5> HIDE DEF u
        <5> QED
          BY ONLY <5>1
      <4>2. PICK i : i = j - b
        OBVIOUS
      <4>3. i \in p .. q - 1 /\ i + 1 \in 1 .. m /\ b + (i + 1) = j + 1 /\ i + b = j
        BY <1>1, <4>1, <4>2
      <4>4. w[i + 1] = mark
        BY <4>1, <4>3 DEF Shows
      <4>5. i \in X
        BY <4>3, <4>4
      <4> QED
        BY <4>3, <4>5
    <3>4. IsFiniteSet(X)
      <4>1. IsFiniteSet(p .. q - 1)
        BY <1>1, FS_Interval
      <4>2. X \in SUBSET (p .. q - 1)
        OBVIOUS
      <4> HIDE DEF X
      <4> QED
        BY <4>1, <4>2, FS_Subset
    <3> HIDE DEF X, Y, h
    <3>5. ExistsBijection(X, Y)
      BY <3>1, <3>2, <3>3 DEF ExistsBijection, Bijection, Injection, Surjection, IsInjective
    <3>6. Cardinality(Y) = Cardinality(X)
      BY <3>4, <3>5, FS_Bijection
    <3> QED
      BY <3>6 DEF X, Y
  <2>2. \A mark : Cardinality(Marked(w, p, q, mark)) = Cardinality(Marked(s, u, b + q, mark))
    BY <2>1
  <2> HIDE DEF Marked
  <2> QED
    BY <2>2 DEF Depth
<1>7. \A q \in p .. m - 1 : q \in Stops(w, p) <=> b + q \in Stops(s, u)
  <2> SUFFICES ASSUME NEW q \in p .. m - 1 PROVE q \in Stops(w, p) <=> b + q \in Stops(s, u)
    OBVIOUS
  <2>1. /\ q \in Offsets(w) /\ b + q \in Offsets(s) /\ q + 1 \in 1 .. m
        /\ b + (q + 1) = b + q + 1 /\ q \in p .. m
    BY <1>1 DEF Offsets
  <2>2. w[q + 1] = s[b + q + 1]
    BY <2>1 DEF Shows
  <2>3. Depth(w, p, q) = Depth(s, u, b + q)
    <3> HIDE DEF Depth, u
    <3> QED
      BY <1>6, <2>1, Zenon
  <2> HIDE DEF Depth, u
  <2> QED
    BY <2>1, <2>2, <2>3, Zenon
<1>8. e = m => b + m \in Stops(s, u) \/ Whole(s, b, w)
  <2> SUFFICES ASSUME e = m, ~ Whole(s, b, w) PROVE b + m \in Stops(s, u)
    OBVIOUS
  <2>1. b + m \in Offsets(s) /\ m \in p .. m
    BY <1>1 DEF Offsets, Whole
  <2>2. Depth(s, u, b + m) = 0
    <3> HIDE DEF Depth
    <3> QED
      BY <1>4, <1>6, <2>1
  <2> HIDE DEF Depth, u
  <2> QED
    BY <2>1, <2>2, Zenon
<1>9. End(s, u) = b + e
  <2>1. \/ e < m \/ Whole(s, b, w) \/ b + m \in Stops(s, u)
    BY <1>1, <1>5, <1>8
  <2> HIDE DEF Stops
  <2>2. e = First(w, p, Stops(w, p))
    BY <1>3
  <2> QED
    BY <1>7, <2>1, <2>2, FirstSame
<1>10. Depth(s, u, b + e) = 0
  <2> HIDE DEF Depth
  <2> QED
    BY <1>4, <1>5, <1>6
<1>11. InterpolationEnd(s, u) = b + e
  <2> HIDE DEF Depth, End, u
  <2> QED
    BY <1>2, <1>9, <1>10, Zenon
<1> QED
  BY <1>4, <1>11

LEMMA StringSame ==
  ASSUME NEW s, NEW b, NEW w, Shows(s, b, w)
  PROVE  \A p \in 0 .. Len(w) : StringEnd(w, p) # -1 => StringEnd(s, b + p) = b + StringEnd(w, p)
<1> DEFINE m == Len(w)
           S == {p \in 0 .. m : StringEnd(w, p) # -1 => StringEnd(s, b + p) = b + StringEnd(w, p)}
<1>1. /\ s \in Seq(Byte) /\ w \in Seq(Byte) /\ b \in Nat
      /\ Len(s) \in Nat /\ m \in Nat /\ b + m <= Len(s)
      /\ \A p \in 0 .. m : b + p \in 0 .. Len(s)
  BY ShowsIs
<1>2. PICK f : /\ \A q \in -1 .. m : f[q] = StringStep(w, f, q)
               /\ \A q : StringEnd(w, q) = f[q]
  BY <1>1, StringRec
<1>3. PICK g : /\ \A q \in -1 .. Len(s) : g[q] = StringStep(s, g, q)
               /\ \A q : StringEnd(s, q) = g[q]
  BY <1>1, StringRec
<1>4. f[-1] = -1
  <2>1. -1 \in -1 .. m
    BY <1>1
  <2>2. StringStep(w, f, -1) = -1
    BY Zenon DEF StringStep
  <2> QED
    BY <1>2, <2>1, <2>2
<1>5. ASSUME NEW p \in 0 .. m, \A q \in p + 1 .. m : q \in S
      PROVE  p \in S
  <2> SUFFICES ASSUME f[p] # -1 PROVE g[b + p] = b + f[p]
    BY <1>2, <1>3
  <2> DEFINE u == b + p
  <2>1. /\ p \in -1 .. m /\ u \in -1 .. Len(s) /\ u # -1 /\ p # -1 /\ p \in Nat
        /\ u + 1 = b + (p + 1) /\ u + 2 = b + (p + 2)
    BY <1>1
  <2>2. f[p] = StringStep(w, f, p) /\ g[u] = StringStep(s, g, u)
    BY <1>2, <1>3, <2>1
  <2>3. ASSUME NEW q \in p + 1 .. m, f[p] = f[q], g[u] = g[b + q]
        PROVE  g[u] = b + f[p]
    <3>1. f[q] # -1 => g[b + q] = b + f[q]
      BY <1>2, <1>3, <1>5
    <3> QED
      BY <2>3, <3>1
  <2>4. ~(peek_ch(w, p) \in Eol \union {"end"})
    BY <2>1, <2>2, Zenon DEF StringStep
  <2>5. p < m
    <3>1. peek_ch(w, p) # "end"
      BY <2>4
    <3> QED
      BY <1>1, <3>1, PeekIs
  <2>6. peek_ch(s, u) = peek_ch(w, p)
    BY <2>1, <2>5, PeekSame
  <2>7. CASE peek_ch(w, p) = "\""
    <3>1. f[p] = p
      BY <2>1, <2>2, <2>4, <2>7, Zenon DEF StringStep
    <3>2. g[u] = u
      BY <2>1, <2>2, <2>4, <2>6, <2>7, Zenon DEF StringStep
    <3> QED
      BY <3>1, <3>2
  <2>8. CASE peek_ch(w, p) # "\"" /\ peek_ch(w, p) # "\\"
    <3>1. f[p] = f[p + 1]
      BY <2>1, <2>2, <2>4, <2>8, Zenon DEF StringStep
    <3>2. g[u] = g[u + 1]
      BY <2>1, <2>2, <2>4, <2>6, <2>8, Zenon DEF StringStep
    <3>3. p + 1 \in p + 1 .. m
      BY <1>1, <2>5
    <3> QED
      BY <2>1, <2>3, <3>1, <3>2, <3>3
  <2>9. CASE peek_ch(w, p) # "\"" /\ peek_ch(w, p) = "\\"
    <3>1. \/ peek_ch(w, p + 1) = "("
          \/ peek_ch(w, p + 1) # "(" /\ peek_ch(w, p + 1) \in Escaped
      BY <2>1, <2>2, <2>4, <2>9, Zenon DEF StringStep
    <3>2. p + 1 < m
      <4>1. peek_ch(w, p + 1) # "end"
        BY <3>1, NotTheEnd, Zenon
      <4> QED
        BY <1>1, <2>1, <4>1, PeekIs
    <3>3. peek_ch(s, u + 1) = peek_ch(w, p + 1)
      <4>1. p + 1 \in Nat
        BY <2>1
      <4>2. peek_ch(w, p + 1) = peek_ch(s, b + (p + 1))
        BY <3>2, <4>1, PeekSame
      <4> QED
        BY <2>1, <4>2, Zenon
    <3>4. p + 2 \in 0 .. m /\ p + 2 \in p + 1 .. m
      BY <1>1, <3>2
    <3>5. CASE peek_ch(w, p + 1) = "("
      <4>1. PICK q : q = InterpolationEnd(w, p + 2)
        OBVIOUS
      <4>2. f[p] = f[q]
        BY <2>1, <2>2, <2>4, <2>9, <3>5, <4>1, Zenon DEF StringStep
      <4>3. q # -1
        BY <1>4, <4>2
      <4>4. q \in p + 2 .. m
        BY <1>1, <3>4, <4>1, <4>3, InterpolationIs
      <4>5. InterpolationEnd(s, b + (p + 2)) = b + q
        BY <3>4, <4>1, <4>3, InterpolationSame
      <4>6. g[u] = g[b + q]
        BY <2>1, <2>2, <2>4, <2>6, <2>9, <3>3, <3>5, <4>5, Zenon DEF StringStep
      <4>7. q \in p + 1 .. m
        BY <1>1, <4>4
      <4> QED
        BY <2>3, <4>2, <4>6, <4>7
    <3>6. CASE peek_ch(w, p + 1) # "(" /\ peek_ch(w, p + 1) \in Escaped
      <4>1. f[p] = f[p + 2]
        BY <2>1, <2>2, <2>4, <2>9, <3>6, Zenon DEF StringStep
      <4>2. g[u] = g[u + 2]
        BY <2>1, <2>2, <2>4, <2>6, <2>9, <3>3, <3>6, Zenon DEF StringStep
      <4> QED
        BY <2>1, <2>3, <3>4, <4>1, <4>2
    <3> QED
      BY <3>1, <3>5, <3>6, Zenon
  <2> QED
    BY <2>7, <2>8, <2>9, Zenon
<1>6. \A p \in 0 .. m : p \in S
  <2> HIDE DEF S
  <2> QED
    BY <1>1, <1>5, Backwards
<1> QED
  BY <1>6

Semicolon == ";"

(* Only ";" begins with it, and the marks of three are of two dots and more. *)
MarkShape(t, c) == (t[1] = c => Len(t) = 1) /\ (Len(t) = 3 => t[1] = "." /\ t[2] = ".")

LEMMA MarkShapes == \A t \in Marks : MarkShape(t, Semicolon)
<1>1. \A c, a : MarkShape(<<a>>, c)
  <2> SUFFICES ASSUME NEW c, NEW a PROVE MarkShape(<<a>>, c)
    OBVIOUS
  <2>1. Len(<<a>>) = 1
    BY PairIs
  <2> QED
    BY <2>1 DEF MarkShape
<1>2. ASSUME NEW c, NEW a, NEW b, a # c
      PROVE  MarkShape(<<a, b>>, c)
  <2>1. Len(<<a, b>>) = 2 /\ <<a, b>>[1] = a
    BY PairIs
  <2> QED
    BY <1>2, <2>1 DEF MarkShape
<1>3. \A c, a : c # "." => MarkShape(<<".", ".", a>>, c)
  <2> SUFFICES ASSUME NEW c, NEW a, c # "." PROVE MarkShape(<<".", ".", a>>, c)
    OBVIOUS
  <2> QED
    BY DEF MarkShape
<1>4. /\ \A a : MarkShape(<<a>>, Semicolon)
      /\ \A a, b : a # Semicolon => MarkShape(<<a, b>>, Semicolon)
      /\ \A a : MarkShape(<<".", ".", a>>, Semicolon)
  <2>1. "." # Semicolon
    BY Zenon DEF Semicolon
  <2> QED
    BY <1>1, <1>2, <1>3, <2>1, Zenon
<1> QED
  BY <1>4, Zenon DEF Marks, Semicolon

(* What a text starts with it has there. *)
LEMMA StartsHas ==
  ASSUME NEW s \in Seq(Byte), NEW p \in 0 .. Len(s), NEW t, Len(t) \in Nat,
         StartsWith(s, p, t), NEW i \in 1 .. Len(t)
  PROVE  p + i \in 1 .. Len(s) /\ s[p + i] = t[i]
<1>1. Len(s) \in Nat
  BY LenProperties
<1>2. p + Len(t) <= Len(s)
  BY StartsFits
<1>3. PICK q : q = p + Len(t)
  OBVIOUS
<1>4. q \in p .. Len(s) /\ q - p = Len(t)
  BY <1>1, <1>2, <1>3
<1>5. \A k \in 1 .. q - p : Piece(s, p, q)[k] = s[p + k]
  BY <1>4, PieceIs
<1>6. Piece(s, p, q) = t
  BY <1>3, Zenon DEF StartsWith
<1> QED
  BY <1>1, <1>4, <1>5, <1>6

-----------------------------------------------------------------------------
(* A token of the window at the edge, or one byte before it where that is a *)
(* dot: in the file it may be longer.  A separator has no such edge.        *)
IsSeparator(w, l) == l.tok = "NEWLINE" \/ (l.tok = "MARK" /\ Text(w, l) = <<Semicolon>>)

Edge(w, l) ==
  /\ ~ IsSeparator(w, l)
  /\ l.pos = Len(w) \/ (l.pos = Len(w) - 1 /\ w[Len(w)] = ".")

(* The same token, b further on. *)
Agrees(x, l, b) ==
  /\ x.tok = l.tok /\ x.tok_len = l.tok_len
  /\ x.tok_pos = b + l.tok_pos /\ x.pos = b + l.pos

LEMMA TokensAgree ==
  ASSUME NEW tok, NEW a \in Int, NEW e \in Int, NEW p \in Int, NEW b \in Int
  PROVE  Agrees(Token(tok, b + a, b + e, b + p), Token(tok, a, e, p), b)
<1>1. (b + e) - (b + a) = e - a
  OBVIOUS
<1>2. PICK a1, e1, p1 : a1 = b + a /\ e1 = b + e /\ p1 = b + p
  OBVIOUS
<1>3. /\ Token(tok, a1, e1, p1).tok = tok /\ Token(tok, a1, e1, p1).tok_len = e1 - a1
      /\ Token(tok, a1, e1, p1).tok_pos = a1 /\ Token(tok, a1, e1, p1).pos = p1
  BY TokenIs
<1>4. /\ Token(tok, a, e, p).tok = tok /\ Token(tok, a, e, p).tok_len = e - a
      /\ Token(tok, a, e, p).tok_pos = a /\ Token(tok, a, e, p).pos = p
  BY TokenIs
<1>5. Agrees(Token(tok, a1, e1, p1), Token(tok, a, e, p), b)
  BY <1>1, <1>2, <1>3, <1>4 DEF Agrees
<1> QED
  BY <1>2, <1>5, Zenon

(* A line's two bytes cut in two by the edge. *)
CutNewline(s, b, w, t) ==
  /\ ~ Whole(s, b, w) /\ t + 1 = Len(w)
  /\ LexAt(w, t) = Token("NEWLINE", t, t + 1, t + 1)
  /\ LexAt(s, b + t).tok = "NEWLINE" /\ LexAt(s, b + t).pos = b + t + 2
  /\ b + t + 2 <= Len(s) /\ s[b + t + 2] = "\n"

LexKnown(s, b, w, t) ==
  \/ LexAt(w, t).tok = "ERROR"
  \/ Agrees(LexAt(s, b + t), LexAt(w, t), b)
  \/ ~ Whole(s, b, w) /\ Edge(w, LexAt(w, t))
  \/ CutNewline(s, b, w, t)

LEMMA NotSeparator ==
  ASSUME NEW w, NEW l, l.tok # "NEWLINE", l.tok # "MARK"
  PROVE  ~ IsSeparator(w, l)
  BY Zenon DEF IsSeparator

LEMMA NewlineSame ==
  ASSUME NEW s, NEW b, NEW w, Shows(s, b, w), NEW t \in 0 .. Len(w), t # Len(w),
         LexAt(w, t) = lex_newline(w, t), LexAt(s, b + t) = lex_newline(s, b + t)
  PROVE  LexKnown(s, b, w, t)
<1>1. /\ s \in Seq(Byte) /\ w \in Seq(Byte) /\ b \in Nat
      /\ Len(s) \in Nat /\ Len(w) \in Nat /\ b + Len(w) <= Len(s)
  BY ShowsIs
<1>2. PICK u : u = b + t
  OBVIOUS
<1>3. u \in 0 .. Len(s) /\ u # Len(s)
  BY <1>1, <1>2
<1>4. PICK rn : rn = <<"\r", "\n">>
  OBVIOUS
<1>5. Len(rn) = 2 /\ Len(rn) \in Nat
  <2>1. Len(rn) = 2
    BY <1>4, PairIs, Zenon
  <2> QED
    BY <2>1
<1>6. /\ StartsWith(w, t, rn) => StartsWith(s, u, rn)
      /\ StartsWith(s, u, rn) /\ (t + 2 <= Len(w) \/ Whole(s, b, w)) => StartsWith(w, t, rn)
  BY <1>2, <1>5, StartsSame
<1>7. \/ /\ StartsWith(w, t, rn)
         /\ LexAt(w, t) = Token("NEWLINE", t, t + 2, t + 2)
      \/ /\ ~StartsWith(w, t, rn)
         /\ LexAt(w, t) = Token("NEWLINE", t, t + 1, t + 1)
  BY <1>1, <1>4, NewlineIs, Zenon
<1>8. \/ /\ StartsWith(s, u, rn) /\ u + 2 <= Len(s)
         /\ LexAt(s, u) = Token("NEWLINE", u, u + 2, u + 2)
      \/ /\ ~StartsWith(s, u, rn)
         /\ LexAt(s, u) = Token("NEWLINE", u, u + 1, u + 1)
  BY <1>1, <1>2, <1>3, <1>4, NewlineIs, Zenon
<1>9. CASE StartsWith(w, t, rn) <=> StartsWith(s, u, rn)
  <2>1. PICK k \in 1 .. 2 : /\ LexAt(w, t) = Token("NEWLINE", t, t + k, t + k)
                            /\ LexAt(s, u) = Token("NEWLINE", u, u + k, u + k)
    BY <1>7, <1>8, <1>9
  <2>2. PICK e : e = t + k
    OBVIOUS
  <2>3. e \in Int /\ t \in Int /\ b \in Int /\ u + k = b + e
    BY <1>1, <1>2, <2>2
  <2>4. Agrees(Token("NEWLINE", b + t, b + e, b + e), Token("NEWLINE", t, e, e), b)
    BY <2>3, TokensAgree
  <2>5. Agrees(LexAt(s, u), LexAt(w, t), b)
    BY <1>2, <2>1, <2>2, <2>3, <2>4, Zenon
  <2> QED
    BY <1>2, <2>5, Zenon DEF LexKnown
<1>10. CASE ~(StartsWith(w, t, rn) <=> StartsWith(s, u, rn))
  <2>1. /\ ~ StartsWith(w, t, rn) /\ StartsWith(s, u, rn)
        /\ ~ (t + 2 <= Len(w)) /\ ~ Whole(s, b, w)
    BY <1>6, <1>10
  <2>2. t + 1 = Len(w)
    BY <1>1, <2>1
  <2>3. LexAt(w, t) = Token("NEWLINE", t, t + 1, t + 1)
    BY <1>7, <2>1
  <2>4. LexAt(s, u).tok = "NEWLINE" /\ LexAt(s, u).pos = u + 2 /\ u + 2 <= Len(s)
    <3>1. LexAt(s, u) = Token("NEWLINE", u, u + 2, u + 2) /\ u + 2 <= Len(s)
      BY <1>8, <2>1
    <3>2. PICK v : v = u + 2
      OBVIOUS
    <3>3. Token("NEWLINE", u, v, v).tok = "NEWLINE" /\ Token("NEWLINE", u, v, v).pos = v
      BY TokenIs
    <3> QED
      BY <3>1, <3>2, <3>3, Zenon
  <2>5. s[u + 2] = "\n"
    <3>1. StartsWith(s, u, <<"\r", "\n">>)
      BY <1>4, <2>1, Zenon
    <3> QED
      BY <1>1, <1>3, <3>1, PairAt, Zenon
  <2>6. CutNewline(s, b, w, t)
    BY <1>2, <2>1, <2>2, <2>3, <2>4, <2>5, Zenon DEF CutNewline
  <2> QED
    BY <2>6 DEF LexKnown
<1> QED
  BY <1>9, <1>10

(* A run of bytes of one kind ends at the edge or where it does in the file. *)
LEMMA RunSame ==
  ASSUME NEW s, NEW b, NEW w, Shows(s, b, w), NEW t \in 0 .. Len(w), NEW C, NEW tok, NEW tok2,
         NEW q, q = Skip(w, t, C),
         LexAt(w, t) = Token(tok, t, q, q),
         LexAt(s, b + t) = Token(tok2, b + t, Skip(s, b + t, C), Skip(s, b + t, C)),
         Piece(s, b + t, b + q) = Piece(w, t, q) /\ Skip(s, b + t, C) = b + q => tok2 = tok,
         tok # "NEWLINE" /\ tok # "MARK"
  PROVE  LexKnown(s, b, w, t)
<1>1. /\ s \in Seq(Byte) /\ w \in Seq(Byte) /\ b \in Nat
      /\ Len(s) \in Nat /\ Len(w) \in Nat /\ b + Len(w) <= Len(s)
  BY ShowsIs
<1>2. q \in t .. Len(w)
  BY <1>1, SkipIs
<1>3. CASE q < Len(w) \/ Whole(s, b, w)
  <2>1. Skip(s, b + t, C) = b + q
    BY <1>3, SkipSame
  <2>2. Piece(s, b + t, b + q) = Piece(w, t, q)
    BY <1>2, PieceSame
  <2>3. LexAt(s, b + t) = Token(tok, b + t, b + q, b + q)
    BY <2>1, <2>2, Zenon
  <2>4. b \in Int /\ t \in Int /\ q \in Int
    BY <1>1, <1>2
  <2>5. Agrees(Token(tok, b + t, b + q, b + q), Token(tok, t, q, q), b)
    BY <2>4, TokensAgree
  <2> QED
    BY <2>3, <2>5, Zenon DEF LexKnown
<1>4. CASE ~(q < Len(w) \/ Whole(s, b, w))
  <2>1. q = Len(w)
    BY <1>1, <1>2, <1>4
  <2>2. LexAt(w, t).tok = tok /\ LexAt(w, t).pos = q
    <3>1. Token(tok, t, q, q).tok = tok /\ Token(tok, t, q, q).pos = q
      BY TokenIs
    <3> QED
      BY <3>1, Zenon
  <2>3. ~ IsSeparator(w, LexAt(w, t))
    BY <2>2, NotSeparator
  <2> QED
    BY <1>4, <2>1, <2>2, <2>3, Zenon DEF LexKnown, Edge
<1> QED
  BY <1>3, <1>4

LEMMA QuotedSame ==
  ASSUME NEW s, NEW b, NEW w, Shows(s, b, w), NEW t \in 0 .. Len(w), t # Len(w),
         LexAt(w, t) = lex_string(w, t), LexAt(s, b + t) = lex_string(s, b + t)
  PROVE  LexKnown(s, b, w, t)
<1>1. /\ s \in Seq(Byte) /\ w \in Seq(Byte) /\ b \in Nat
      /\ Len(s) \in Nat /\ Len(w) \in Nat /\ b + Len(w) <= Len(s)
  BY ShowsIs
<1>2. PICK a, u : a = t + 1 /\ u = b + t
  OBVIOUS
<1>3. a \in 0 .. Len(w) /\ u + 1 = b + a
  BY <1>1, <1>2
<1>4. PICK e : e = StringEnd(w, a)
  OBVIOUS
<1>5. e # -1 => StringEnd(s, b + a) = b + e
  BY <1>3, <1>4, StringSame
<1>6. e = -1 \/ e \in a .. Len(w) - 1
  BY <1>1, <1>3, <1>4, StringIs
<1>7. CASE e = -1
  <2>1. LexAt(w, t) = Token("ERROR", t, t, t)
    BY <1>2, <1>4, <1>7, Zenon DEF lex_string
  <2>2. Token("ERROR", t, t, t).tok = "ERROR"
    BY TokenIs
  <2> QED
    BY <2>1, <2>2, Zenon DEF LexKnown
<1>8. CASE e # -1
  <2>1. LexAt(w, t) = Token("STR", a, e, e + 1)
    BY <1>2, <1>4, <1>8, Zenon DEF lex_string
  <2>2. b + e # -1
    BY <1>1, <1>3, <1>6, <1>8
  <2>3. LexAt(s, u) = Token("STR", b + a, b + e, (b + e) + 1)
    BY <1>2, <1>3, <1>5, <1>8, <2>2, Zenon DEF lex_string
  <2>4. PICK p : p = e + 1
    OBVIOUS
  <2>5. a \in Int /\ e \in Int /\ p \in Int /\ b \in Int /\ b + p = (b + e) + 1
    <3>1. PICK m \in Nat : m = Len(w)
      BY <1>1
    <3>2. a \in 0 .. m /\ e \in a .. m - 1
      BY <1>3, <1>6, <1>8, <3>1, Zenon
    <3>3. b \in Nat
      BY <1>1
    <3> QED
      BY ONLY <2>4, <3>1, <3>2, <3>3
  <2>6. Agrees(Token("STR", b + a, b + e, b + p), Token("STR", a, e, p), b)
    BY <2>5, TokensAgree
  <2>7. Agrees(LexAt(s, u), LexAt(w, t), b)
    BY <2>1, <2>3, <2>4, <2>5, <2>6, Zenon
  <2> QED
    BY <1>2, <2>7, Zenon DEF LexKnown
<1> QED
  BY <1>7, <1>8

LEMMA MarkSame ==
  ASSUME NEW s, NEW b, NEW w, Shows(s, b, w), NEW t \in 0 .. Len(w), t # Len(w),
         LexAt(w, t) = lex_mark(w, t), LexAt(s, b + t) = lex_mark(s, b + t)
  PROVE  LexKnown(s, b, w, t)
<1> DEFINE m == Len(w)
<1>1. /\ s \in Seq(Byte) /\ w \in Seq(Byte) /\ b \in Nat
      /\ Len(s) \in Nat /\ m \in Nat /\ b + m <= Len(s)
  BY ShowsIs
<1>2. PICK x : x = b + t
  OBVIOUS
<1>3. x \in 0 .. Len(s) /\ x # Len(s)
  BY <1>1, <1>2
<1>4. \/ LexAt(w, t) = Token("ERROR", t, t + 1, t + 1)
      \/ \E u \in Marks :
           /\ StartsWith(w, t, u)
           /\ \A v \in Marks : StartsWith(w, t, v) => Len(v) <= Len(u)
           /\ LexAt(w, t) = Token("MARK", t, t + Len(u), t + Len(u))
  BY <1>1, MarkForm, Zenon
<1>5. CASE LexAt(w, t) = Token("ERROR", t, t + 1, t + 1)
  <2>1. PICK a : a = t + 1
    OBVIOUS
  <2>2. Token("ERROR", t, a, a).tok = "ERROR"
    BY TokenIs
  <2> QED
    BY <1>5, <2>1, <2>2, Zenon DEF LexKnown
<1>6. ASSUME NEW u \in Marks, StartsWith(w, t, u),
             \A v \in Marks : StartsWith(w, t, v) => Len(v) <= Len(u),
             LexAt(w, t) = Token("MARK", t, t + Len(u), t + Len(u))
      PROVE  LexKnown(s, b, w, t)
  <2>1. Len(u) \in 1 .. 3 /\ Len(u) \in Nat /\ MarkShape(u, Semicolon)
    BY MarkIsShort, MarkShapes
  <2>2. t + Len(u) <= m /\ StartsWith(s, x, u)
    BY <1>2, <1>6, <2>1, StartsSame
  <2>3. PICK v \in Marks :
           /\ StartsWith(s, x, v)
           /\ \A z \in Marks : StartsWith(s, x, z) => Len(z) <= Len(v)
           /\ LexAt(s, x) = Token("MARK", x, x + Len(v), x + Len(v))
    BY <1>1, <1>2, <1>3, <2>2, MarkForm, Zenon
  <2>4. Len(v) \in 1 .. 3 /\ Len(v) \in Nat /\ MarkShape(v, Semicolon) /\ Len(u) <= Len(v)
    BY <2>2, <2>3, MarkIsShort, MarkShapes
  <2>5. CASE t + Len(v) <= m \/ Whole(s, b, w)
    <3>1. StartsWith(w, t, v)
      BY <1>2, <2>3, <2>4, <2>5, StartsSame
    <3>2. Len(v) = Len(u)
      <4>1. Len(v) <= Len(u)
        BY <1>6, <3>1
      <4> QED
        BY <2>1, <2>4, <4>1
    <3>3. PICK e : e = t + Len(u)
      OBVIOUS
    <3>4. b \in Int /\ t \in Int /\ e \in Int /\ x + Len(v) = b + e
      BY <1>1, <1>2, <2>1, <3>2, <3>3
    <3>5. Agrees(Token("MARK", b + t, b + e, b + e), Token("MARK", t, e, e), b)
      BY <3>4, TokensAgree
    <3>6. LexAt(w, t) = Token("MARK", t, e, e)
      BY <1>6, <3>3, Zenon
    <3>7. LexAt(s, x) = Token("MARK", b + t, b + e, b + e)
      BY <1>2, <2>3, <3>4, Zenon
    <3>8. Agrees(LexAt(s, x), LexAt(w, t), b)
      BY <3>5, <3>6, <3>7, Zenon
    <3> QED
      BY <1>2, <3>8, Zenon DEF LexKnown
  <2>6. CASE ~(t + Len(v) <= m \/ Whole(s, b, w))
    <3>1. Len(v) > 1 /\ (t + Len(u) = m \/ (t + Len(u) = m - 1 /\ Len(v) = 3 /\ t + 2 = m))
      <4>1. PICK j, k, n : j = Len(u) /\ k = Len(v) /\ n = m
        OBVIOUS
      <4>2. /\ j \in 1 .. 3 /\ k \in 1 .. 3 /\ j <= k /\ n \in Nat /\ t \in 0 .. n
            /\ t + j <= n /\ ~(t + k <= n)
        BY <1>1, <2>1, <2>2, <2>4, <2>6, <4>1
      <4>3. k > 1 /\ (t + j = n \/ (t + j = n - 1 /\ k = 3 /\ t + 2 = n))
        BY ONLY <4>2
      <4> QED
        BY <4>1, <4>3, Zenon
    <3>2. PICK e : e = t + Len(u)
      OBVIOUS
    <3>3. LexAt(w, t).tok = "MARK" /\ LexAt(w, t).pos = e /\ LexAt(w, t).tok_pos = t
          /\ LexAt(w, t).tok_len = Len(u)
      <4>1. /\ Token("MARK", t, e, e).tok = "MARK" /\ Token("MARK", t, e, e).pos = e
            /\ Token("MARK", t, e, e).tok_pos = t /\ Token("MARK", t, e, e).tok_len = e - t
        BY TokenIs
      <4>2. e - t = Len(u)
        BY <2>1, <3>2
      <4> QED
        BY <1>6, <3>2, <4>1, <4>2, Zenon
    <3>4. /\ 1 \in 1 .. Len(v) /\ 1 \in 1 .. Len(u)
      <4>1. \A k \in 1 .. 3 : 1 \in 1 .. k
        OBVIOUS
      <4> QED
        BY <2>1, <2>4, <4>1, Zenon
    <3>5. v[1] = u[1]
      <4>1. s[x + 1] = v[1] /\ s[x + 1] = u[1]
        <5>1. s \in Seq(Byte) /\ x \in 0 .. Len(s)
          BY <1>1, <1>3
        <5>2. /\ StartsWith(s, x, v) /\ Len(v) \in Nat /\ 1 \in 1 .. Len(v)
              /\ StartsWith(s, x, u) /\ Len(u) \in Nat /\ 1 \in 1 .. Len(u)
          BY <2>1, <2>2, <2>3, <2>4, <3>4, Zenon
        <5>3. s[x + 1] = v[1]
          BY ONLY <5>1, <5>2, StartsHas
        <5>4. s[x + 1] = u[1]
          BY ONLY <5>1, <5>2, StartsHas
        <5> QED
          BY <5>3, <5>4, Zenon
      <4> QED
        BY <4>1
    <3>6. ~ IsSeparator(w, LexAt(w, t))
      <4> SUFFICES ASSUME Text(w, LexAt(w, t)) = <<Semicolon>> PROVE FALSE
        <5>1. "MARK" # "NEWLINE"
          OBVIOUS
        <5> QED
          BY <3>3, <5>1, Zenon DEF IsSeparator
      <4>1. Text(w, LexAt(w, t)) = u
        <5>1. Text(w, LexAt(w, t)) = Piece(w, t, t + Len(u))
          BY <3>3, Zenon DEF Text
        <5> QED
          BY <1>6, <5>1, Zenon DEF StartsWith
      <4>2. PICK c : c = Semicolon
        OBVIOUS
      <4>3. u = <<c>> /\ MarkShape(v, c)
        BY <2>4, <4>1, <4>2, Zenon
      <4>4. u[1] = c
        BY <4>3
      <4>5. Len(v) = 1
        BY <3>5, <4>3, <4>4, Zenon DEF MarkShape
      <4> QED
        BY <3>1, <4>5
    <3>7. e = m \/ (e = m - 1 /\ w[m] = ".")
      <4>1. CASE t + Len(u) = m
        BY <3>2, <4>1
      <4>2. CASE t + Len(u) = m - 1 /\ Len(v) = 3 /\ t + 2 = m
        <5>1. v[2] = "."
          BY <2>4, <4>2, Zenon DEF MarkShape
        <5>2. 2 \in 1 .. Len(v) /\ x + 2 = b + m /\ m \in 1 .. m
          BY <1>1, <1>2, <4>2
        <5>3. s[x + 2] = v[2]
          BY <1>1, <1>3, <2>3, <2>4, <5>2, StartsHas
        <5>4. w[m] = s[b + m]
          BY <5>2 DEF Shows
        <5> QED
          BY <3>2, <4>2, <5>1, <5>2, <5>3, <5>4, Zenon
      <4> QED
        BY <3>1, <4>1, <4>2
    <3>8. Edge(w, LexAt(w, t))
      BY <3>3, <3>6, <3>7, Zenon DEF Edge
    <3> QED
      BY <2>6, <3>8, Zenon DEF LexKnown
  <2> QED
    BY <2>5, <2>6
<1> QED
  BY <1>4, <1>5, <1>6

LEMMA LexSame ==
  ASSUME NEW s, NEW b, NEW w, Shows(s, b, w), NEW t \in 0 .. Len(w)
  PROVE  LexKnown(s, b, w, t)
<1> DEFINE m == Len(w)
           u == b + t
           c == peek_ch(w, t)
<1>1. /\ s \in Seq(Byte) /\ w \in Seq(Byte) /\ b \in Nat
      /\ Len(s) \in Nat /\ m \in Nat /\ b + m <= Len(s) /\ t \in Nat
  BY ShowsIs
<1>2. CASE t = m
  <2>1. LexAt(w, t) = Token("EOF", t, t, t)
    BY <1>2, Zenon DEF LexAt
  <2>2. LexAt(w, t).tok = "EOF" /\ LexAt(w, t).pos = t
    <3>1. Token("EOF", t, t, t).tok = "EOF" /\ Token("EOF", t, t, t).pos = t
      BY TokenIs
    <3> QED
      BY <2>1, <3>1, Zenon
  <2>3. CASE Whole(s, b, w)
    <3>1. u = Len(s)
      BY <1>2, <2>3 DEF Whole
    <3>2. LexAt(s, u) = Token("EOF", u, u, u)
      BY <3>1, Zenon DEF LexAt
    <3>3. Agrees(Token("EOF", b + t, b + t, b + t), Token("EOF", t, t, t), b)
      BY <1>1, TokensAgree
    <3> QED
      BY <2>1, <3>2, <3>3, Zenon DEF LexKnown
  <2>4. CASE ~ Whole(s, b, w)
    <3>1. ~ IsSeparator(w, LexAt(w, t))
      BY <2>2, NotSeparator
    <3> QED
      BY <1>2, <2>2, <2>4, <3>1, Zenon DEF LexKnown, Edge
  <2> QED
    BY <2>3, <2>4
<1>3. CASE t # m
  <2>1. t < m /\ u # Len(s)
    BY <1>1, <1>3
  <2>2. peek_ch(s, u) = c
    BY <1>1, <2>1, PeekSame
  <2> HIDE DEF u, c
  <2>3. CASE c \in Eol
    <3>1. LexAt(w, t) = lex_newline(w, t) /\ LexAt(s, u) = lex_newline(s, u)
      BY <1>3, <2>1, <2>2, <2>3, Zenon DEF LexAt, c
    <3> QED
      BY <1>3, <3>1, NewlineSame DEF u
  <2>4. CASE c \notin Eol /\ c \in Digit
    <3>1. LexAt(w, t) = lex_int(w, t) /\ LexAt(s, u) = lex_int(s, u)
      BY <1>3, <2>1, <2>2, <2>4, Zenon DEF LexAt, c
    <3> DEFINE kind(x) == IF Value(x) > 65535 THEN "ERROR" ELSE "INT"
    <3>2. PICK q, z : q = Skip(w, t, Digit) /\ z = Skip(s, u, Digit)
      OBVIOUS
    <3>3. PICK tok, tok2 : tok = kind(Piece(w, t, q)) /\ tok2 = kind(Piece(s, u, z))
      OBVIOUS
    <3>4. LexAt(w, t) = Token(tok, t, q, q) /\ LexAt(s, u) = Token(tok2, u, z, z)
      BY <3>1, <3>2, <3>3 DEF lex_int
    <3>5. tok # "NEWLINE" /\ tok # "MARK"
      BY <3>3
    <3>6. Piece(s, u, b + q) = Piece(w, t, q) /\ z = b + q => tok2 = tok
      <4> HIDE DEF kind
      <4> QED
        BY <3>3
    <3> HIDE DEF kind
    <3> QED
      BY <3>2, <3>4, <3>5, <3>6, RunSame DEF u
  <2>5. CASE c \notin Eol /\ c \notin Digit /\ c \in IdentStart
    <3>1. LexAt(w, t) = lex_ident_or_kw(w, t) /\ LexAt(s, u) = lex_ident_or_kw(s, u)
      BY <1>3, <2>1, <2>2, <2>5, Zenon DEF LexAt, c
    <3> DEFINE kind(x) == IF x \in Keywords THEN "KEYWORD" ELSE "IDENT"
    <3>2. PICK q, z : q = Skip(w, t, IdentCont) /\ z = Skip(s, u, IdentCont)
      OBVIOUS
    <3>3. PICK tok, tok2 : tok = kind(Piece(w, t, q)) /\ tok2 = kind(Piece(s, u, z))
      OBVIOUS
    <3>4. LexAt(w, t) = Token(tok, t, q, q) /\ LexAt(s, u) = Token(tok2, u, z, z)
      BY <3>1, <3>2, <3>3 DEF lex_ident_or_kw
    <3>5. tok # "NEWLINE" /\ tok # "MARK"
      BY <3>3
    <3>6. Piece(s, u, b + q) = Piece(w, t, q) /\ z = b + q => tok2 = tok
      <4> HIDE DEF kind
      <4> QED
        BY <3>3
    <3> HIDE DEF kind
    <3> QED
      BY <3>2, <3>4, <3>5, <3>6, RunSame DEF u
  <2>6. CASE c \notin Eol /\ c \notin Digit /\ c \notin IdentStart /\ c = "\""
    <3>1. LexAt(w, t) = lex_string(w, t) /\ LexAt(s, u) = lex_string(s, u)
      BY <1>3, <2>1, <2>2, <2>6, Zenon DEF LexAt, c
    <3> QED
      BY ONLY <1>3, <3>1, QuotedSame, Shows(s, b, w), t \in 0 .. Len(w) DEF u
  <2>7. CASE c \notin Eol /\ c \notin Digit /\ c \notin IdentStart /\ c # "\""
    <3>1. LexAt(w, t) = lex_mark(w, t) /\ LexAt(s, u) = lex_mark(s, u)
      BY <1>3, <2>1, <2>2, <2>7, Zenon DEF LexAt, c
    <3> QED
      BY ONLY <1>3, <3>1, MarkSame, Shows(s, b, w), t \in 0 .. Len(w) DEF u
  <2> QED
    BY <2>3, <2>4, <2>5, <2>6, <2>7, Zenon
<1> QED
  BY <1>2, <1>3

-----------------------------------------------------------------------------
(* What the parser's two ghosts tell apart in a token. *)
LEMMA SymbolIs ==
  ASSUME NEW s, NEW l
  PROVE  /\ Symbol(s, l) = "EOF" <=> l.tok = "EOF"
         /\ Symbol(s, l) = "separator" <=> IsSeparator(s, l)
<1>1. PICK text : text = Text(s, l)
  OBVIOUS
<1>2. \A c : <<c>>[1] = c
  OBVIOUS
<1>3. /\ <<"{">>[1] = "{" /\ <<"}">>[1] = "}"
  BY <1>2, Zenon
<1>4. <<";">> # <<"{">> /\ <<";">> # <<"}">>
  BY <1>2, Zenon
<1>5. <<"i", "f">> # <<"e", "l", "s", "e">>
  <2>1. <<"i", "f">>[1] = "i" /\ <<"e", "l", "s", "e">>[1] = "e"
    OBVIOUS
  <2> QED
    BY <2>1, Zenon
<1>6. CASE l.tok \in {"EOF", "ERROR"}
  <2>1. Symbol(s, l) = l.tok
    BY <1>6, Zenon DEF Symbol
  <2> QED
    BY <1>6, <2>1, Zenon DEF IsSeparator
<1>7. CASE IsSeparator(s, l)
  <2>1. Symbol(s, l) = "separator"
    BY <1>7, <1>4, Zenon DEF Symbol, IsSeparator, Semicolon
  <2> QED
    BY <1>7, <2>1, Zenon DEF IsSeparator
<1>8. CASE ~ IsSeparator(s, l) /\ l.tok \notin {"EOF", "ERROR"}
  <2>1. ASSUME l.tok = "MARK", text \in {<<"{">>, <<"}">>}
        PROVE  Symbol(s, l) \in {"{", "}"}
    <3>1. Symbol(s, l) = text[1]
      BY <1>1, <1>8, <2>1, Zenon DEF Symbol, IsSeparator, Semicolon
    <3> QED
      BY <1>3, <2>1, <3>1, Zenon
  <2>2. ASSUME l.tok = "KEYWORD", text = <<"i", "f">>
        PROVE  Symbol(s, l) = "if"
    BY <1>1, <1>8, <1>5, <2>2, Zenon DEF Symbol, IsSeparator, Semicolon
  <2>3. ASSUME l.tok = "KEYWORD", text = <<"e", "l", "s", "e">>, text # <<"i", "f">>
        PROVE  Symbol(s, l) = "else"
    BY <1>1, <1>8, <2>3, Zenon DEF Symbol, IsSeparator, Semicolon
  <2>4. ASSUME ~(l.tok = "MARK" /\ text \in {<<"{">>, <<"}">>}),
               ~(l.tok = "KEYWORD" /\ text = <<"i", "f">>),
               ~(l.tok = "KEYWORD" /\ text = <<"e", "l", "s", "e">>)
        PROVE  Symbol(s, l) = "operand"
    BY <1>1, <1>8, <2>4, Zenon DEF Symbol, IsSeparator, Semicolon
  <2>5. Symbol(s, l) \in {"{", "}", "if", "else", "operand"}
    BY <2>1, <2>2, <2>3, <2>4, Zenon
  <2> QED
    BY <1>8, <2>5, Zenon
<1> QED
  BY <1>6, <1>7, <1>8

-----------------------------------------------------------------------------
(* Lists of tokens: one behind the other, a run of separators being one.    *)
LEMMA OneInFront ==
  ASSUME NEW S, NEW x \in S, NEW c \in Seq(S)
  PROVE  /\ <<x>> \in Seq(S) /\ <<x>> # << >> /\ Head(<<x>>) = x /\ Last(<<x>>) = x
         /\ Tail(<<x>>) = << >>
         /\ <<x>> \o c \in Seq(S) /\ <<x>> \o c # << >>
         /\ Head(<<x>> \o c) = x /\ Tail(<<x>> \o c) = c
<1>1. PICK a : a = <<x>>
  OBVIOUS
<1>2. a \in Seq(S) /\ Len(a) = 1 /\ a[1] = x /\ a # << >>
  BY <1>1
<1>3. Last(a) = x /\ Head(a) = x /\ Tail(a) = << >>
  <2>1. Last(a) = x
    BY <1>2 DEF Last
  <2>2. Head(a) = x
    BY <1>1
  <2>3. Tail(a) = << >>
    BY <1>1
  <2> QED
    BY <2>1, <2>2, <2>3
<1>4. PICK d : d = a \o c
  OBVIOUS
<1>5. Len(c) \in Nat
  BY LenProperties
<1>6. /\ d \in Seq(S) /\ Len(d) = 1 + Len(c)
      /\ \A i \in 1 .. 1 + Len(c) : d[i] = IF i <= 1 THEN a[i] ELSE c[i - 1]
  <2>1. /\ a \o c \in Seq(S) /\ Len(a \o c) = Len(a) + Len(c)
        /\ \A i \in 1 .. Len(a) + Len(c) : (a \o c)[i] = IF i <= Len(a) THEN a[i] ELSE c[i - Len(a)]
    BY <1>2, ConcatProperties
  <2> QED
    BY <1>2, <1>4, <2>1, Zenon
<1>7. d # << >> /\ Head(d) = x
  <2>1. d[1] = x
    BY <1>2, <1>5, <1>6
  <2>2. d # << >>
    BY <1>5, <1>6
  <2> QED
    BY <1>6, <2>1, <2>2
<1>8. Tail(d) = c
  <2>1. /\ Tail(d) \in Seq(S) /\ Len(Tail(d)) = Len(d) - 1
        /\ \A i \in 1 .. Len(Tail(d)) : Tail(d)[i] = d[i + 1]
    BY <1>6, <1>7, HeadTailProperties
  <2>2. PICK e : e = Tail(d)
    OBVIOUS
  <2>3. e \in Seq(S) /\ Len(e) = Len(c) /\ \A i \in 1 .. Len(e) : e[i] = c[i]
    <3>1. Len(e) = Len(c) /\ e \in Seq(S)
      BY <1>5, <1>6, <2>1, <2>2
    <3>2. ASSUME NEW i \in 1 .. Len(e) PROVE e[i] = c[i]
      <4>1. e[i] = d[i + 1]
        BY <2>1, <2>2
      <4>2. PICK j : j = i + 1
        OBVIOUS
      <4>3. j \in 1 .. 1 + Len(c) /\ ~(j <= 1) /\ j - 1 = i
        BY <1>5, <3>1, <4>2
      <4>4. d[j] = c[j - 1]
        BY <1>6, <4>3
      <4> QED
        BY <4>1, <4>2, <4>3, <4>4
    <3> QED
      BY <3>1, <3>2
  <2>4. e = c
    BY <2>3, SeqEqual
  <2> QED
    BY <2>2, <2>4
<1> QED
  BY <1>1, <1>2, <1>3, <1>4, <1>6, <1>7, <1>8, Zenon

LEMMA OneBehind ==
  ASSUME NEW S, NEW x \in S, NEW a \in Seq(S)
  PROVE  /\ a \o <<x>> \in Seq(S) /\ a \o <<x>> # << >> /\ Last(a \o <<x>>) = x
<1>1. <<x>> \in Seq(S) /\ Len(<<x>>) = 1 /\ <<x>>[1] = x
  OBVIOUS
<1>2. PICK d : d = a \o <<x>>
  OBVIOUS
<1>3. Len(a) \in Nat
  BY LenProperties
<1>4. /\ d \in Seq(S) /\ Len(d) = Len(a) + 1
      /\ \A i \in 1 .. Len(a) + 1 : d[i] = IF i <= Len(a) THEN a[i] ELSE <<x>>[i - Len(a)]
  BY <1>1, <1>2, ConcatProperties
<1>5. d[Len(d)] = x
  <2>1. PICK j : j = Len(a) + 1
    OBVIOUS
  <2>2. j \in 1 .. Len(a) + 1 /\ ~(j <= Len(a)) /\ j - Len(a) = 1
    BY <1>3, <2>1
  <2> QED
    BY <1>1, <1>4, <2>1, <2>2
<1>6. d # << >>
  BY <1>3, <1>4
<1> QED
  BY <1>2, <1>4, <1>5, <1>6 DEF Last

LEMMA JoinedIs ==
  ASSUME NEW S, NEW a \in Seq(S), NEW b \in Seq(S)
  PROVE  Joined(a, b) \in Seq(S) /\ Joined(a, << >>) = a /\ Joined(<< >>, b) = b
<1>1. Joined(a, << >>) = a /\ Joined(<< >>, b) = b
  BY ConcatEmptySeq DEF Joined
<1>2. b # << >> => Tail(b) \in Seq(S)
  BY HeadTailProperties
<1>3. Joined(a, b) \in Seq(S)
  <2>1. \A c \in Seq(S) : a \o c \in Seq(S)
    BY ConcatProperties
  <2> QED
    BY <1>2, <2>1, Zenon DEF Joined
<1> QED
  BY <1>1, <1>3

(* A token between two lists may be joined to either first. *)
LEMMA JoinedMiddle ==
  ASSUME NEW S, NEW a \in Seq(S), NEW x \in S, NEW c \in Seq(S)
  PROVE  Joined(Joined(a, <<x>>), c) = Joined(a, Joined(<<x>>, c))
<1>1. PICK y : y = <<x>>
  OBVIOUS
<1>2. y \in Seq(S) /\ y # << >> /\ Head(y) = x /\ Last(y) = x /\ Tail(y) = << >>
  BY <1>1, OneInFront
<1>3. PICK d \in Seq(S) : /\ d = IF c # << >> /\ x = Separator /\ Head(c) = Separator
                                 THEN Tail(c) ELSE c
  BY HeadTailProperties
<1>4. Joined(y, c) = y \o d
  BY <1>2, <1>3, Zenon DEF Joined
<1>5. PICK e : e = y \o d
  OBVIOUS
<1>6. e \in Seq(S) /\ e # << >> /\ Head(e) = x /\ Tail(e) = d
  BY <1>1, <1>5, OneInFront
<1>7. CASE a # << >> /\ Last(a) = Separator /\ x = Separator
  <2>1. Joined(a, y) = a
    <3>1. Joined(a, y) = a \o << >>
      BY <1>2, <1>7, Zenon DEF Joined
    <3>2. a \o << >> = a
      BY ConcatEmptySeq
    <3> QED
      BY <3>1, <3>2
  <2>2. Joined(a, e) = a \o d
    BY <1>6, <1>7, Zenon DEF Joined
  <2>3. Joined(a, c) = a \o d
    BY <1>3, <1>7, Zenon DEF Joined
  <2> QED
    BY <1>1, <1>4, <1>5, <2>1, <2>2, <2>3, Zenon
<1>8. CASE ~(a # << >> /\ Last(a) = Separator /\ x = Separator)
  <2>1. Joined(a, y) = a \o y
    BY <1>2, <1>8, Zenon DEF Joined
  <2>2. PICK f : f = a \o y
    OBVIOUS
  <2>3. f \in Seq(S) /\ f # << >> /\ Last(f) = x
    BY <1>1, <2>2, OneBehind
  <2>4. Joined(f, c) = f \o d
    BY <1>3, <2>3, Zenon DEF Joined
  <2>5. Joined(a, e) = a \o e
    BY <1>6, <1>8, Zenon DEF Joined
  <2>6. f \o d = a \o e
    <3>1. a \in Seq(S) /\ y \in Seq(S) /\ d \in Seq(S)
      BY <1>2, Zenon
    <3>2. (a \o y) \o d = a \o (y \o d)
      BY ONLY <3>1, ConcatAssociative
    <3> QED
      BY <1>5, <2>2, <3>2, Zenon
  <2> QED
    BY <1>1, <1>4, <1>5, <2>1, <2>2, <2>4, <2>5, <2>6, Zenon
<1> QED
  BY <1>7, <1>8

(* Two separators are one. *)
LEMMA SeparatorTwice ==
  ASSUME NEW S, Separator \in S, NEW c \in Seq(S)
  PROVE  Joined(<<Separator>>, Joined(<<Separator>>, c)) = Joined(<<Separator>>, c)
<1>1. PICK x \in S : x = Separator
  OBVIOUS
<1>2. Joined(<<x>>, <<x>>) = <<x>>
  <2>1. PICK y : y = <<x>>
    OBVIOUS
  <2>2. y \in Seq(S) /\ y # << >> /\ Head(y) = x /\ Last(y) = x /\ Tail(y) = << >>
    BY <2>1, OneInFront, EmptySeq
  <2>3. Joined(y, y) = y \o << >>
    BY <1>1, <2>2, Zenon DEF Joined
  <2>4. y \o << >> = y
    BY <2>2, ConcatEmptySeq
  <2> QED
    BY <2>1, <2>3, <2>4, Zenon
<1>3. PICK y \in Seq(S) : y = <<x>>
  BY OneInFront, Zenon
<1>4. Joined(Joined(y, <<x>>), c) = Joined(y, Joined(<<x>>, c))
  BY JoinedMiddle
<1> QED
  BY <1>1, <1>2, <1>3, <1>4, Zenon

-----------------------------------------------------------------------------
(* The tokens of a text are lists of these. *)
Items == {Separator} \union (Forms \X Seq(Byte))

LEMMA ItemIs ==
  ASSUME NEW s \in Seq(Byte), NEW start \in 0 .. Len(s), NEW t, Within(s, start, t)
  PROVE  /\ \E x \in Items : Item(s, t) = <<x>> /\ (IsSeparator(s, t) => x = Separator)
         /\ ~ IsSeparator(s, t) => Item(s, t) = << <<t.tok, Text(s, t)>> >>
<1>1. Len(s) \in Nat
  BY LenProperties
<1>2. /\ t.tok \in Forms /\ t.pos \in start .. Len(s) /\ t.tok_pos \in start .. t.pos
      /\ t.tok_len \in Nat /\ t.tok_pos + t.tok_len <= t.pos
  BY DEF Within
<1>3. PICK a, e : a = t.tok_pos /\ e = t.tok_pos + t.tok_len
  OBVIOUS
<1>4. a \in 0 .. Len(s) /\ e \in a .. Len(s)
  BY <1>1, <1>2, <1>3
<1>5. Text(s, t) \in Seq(Byte)
  <2>1. Piece(s, a, e) \in Seq(Byte)
    BY <1>4, PieceIs
  <2> QED
    BY <1>3, <2>1, Zenon DEF Text
<1>6. PICK tok, text : tok = t.tok /\ text = Text(s, t)
  OBVIOUS
<1>7. <<tok, text>> \in Items
  <2>1. <<tok, text>> \in Forms \X Seq(Byte)
    BY <1>2, <1>5, <1>6
  <2> QED
    BY <2>1, Zenon DEF Items
<1>8. Separator \in Items
  BY Zenon DEF Items
<1>9. CASE IsSeparator(s, t)
  <2>1. Item(s, t) = <<Separator>>
    BY <1>9, SymbolIs, Zenon DEF Item
  <2> QED
    BY <1>8, <1>9, <2>1, Zenon
<1>10. CASE ~ IsSeparator(s, t)
  <2>1. Item(s, t) = << <<tok, text>> >>
    BY <1>6, <1>10, SymbolIs, Zenon DEF Item
  <2> QED
    BY <1>6, <1>7, <1>10, <2>1, Zenon
<1> QED
  BY <1>9, <1>10

(* The token read from p on. *)
TokenFrom(s, p) == LexAt(s, skip_trivia(s)[p])

LEMMA TokenFromIs ==
  ASSUME NEW s \in Seq(Byte), NEW p \in 0 .. Len(s)
  PROVE  /\ skip_trivia(s)[p] \in p .. Len(s)
         /\ Within(s, skip_trivia(s)[p], TokenFrom(s, p))
         /\ TokenFrom(s, p).pos \in p .. Len(s)
         /\ Final(TokenFrom(s, p).tok) \/ TokenFrom(s, p).pos \in p + 1 .. Len(s)
         /\ \E x \in Items : Item(s, TokenFrom(s, p)) = <<x>>
<1>1. Len(s) \in Nat
  BY LenProperties
<1>2. PICK f : f = skip_trivia(s)
  OBVIOUS
<1>3. PICK a : a = f[p]
  OBVIOUS
<1>4. a \in p .. Len(s)
  BY <1>2, <1>3, TriviaIs
<1>5. a \in 0 .. Len(s)
  BY <1>1, <1>4
<1>6. PICK t : t = TokenFrom(s, p)
  OBVIOUS
<1>7. Within(s, a, t)
  <2>1. Within(s, a, LexAt(s, a))
    BY <1>5, LexAtIs
  <2> QED
    BY <1>2, <1>3, <1>6, <2>1, Zenon DEF TokenFrom
<1>8. t.pos \in a .. Len(s) /\ (Final(t.tok) \/ t.pos # a)
  BY <1>7 DEF Within
<1>9. t.pos \in p .. Len(s) /\ (Final(t.tok) \/ t.pos \in p + 1 .. Len(s))
  BY <1>1, <1>4, <1>8
<1>10. \E x \in Items : Item(s, t) = <<x>>
  BY <1>5, <1>7, ItemIs, Zenon
<1> QED
  BY <1>2, <1>3, <1>4, <1>6, <1>7, <1>9, <1>10, Zenon

RestStep(s, f, p) ==
  CASE TokenFrom(s, p).tok = "EOF"   -> << >>
    [] TokenFrom(s, p).tok = "ERROR" -> Item(s, TokenFrom(s, p))
    [] OTHER -> Joined(Item(s, TokenFrom(s, p)), f[TokenFrom(s, p).pos])

LEMMA RestGoesOn ==
  ASSUME NEW s \in Seq(Byte), NEW p \in 0 .. Len(s), NEW t, t = TokenFrom(s, p)
  PROVE  \A f : /\ t.tok = "EOF" => RestStep(s, f, p) = << >>
                /\ t.tok = "ERROR" => RestStep(s, f, p) = Item(s, t)
                /\ ~ Final(t.tok) => RestStep(s, f, p) = Joined(Item(s, t), f[t.pos])
  BY Zenon DEF RestStep, Final

LEMMA RestIs ==
  ASSUME NEW s \in Seq(Byte)
  PROVE  \E f \in [0 .. Len(s) -> Seq(Items)] :
           Rest(s) = f /\ \A p \in 0 .. Len(s) : f[p] = RestStep(s, f, p)
<1> DEFINE n == Len(s)
           D == 0 .. n
           W == Seq(Items)
           m == [q \in D |-> n - q]
           G == [x \in [D -> W] \X D |-> RestStep(s, x[1], x[2])]
           Is(h) == h = [q \in D |-> RestStep(s, h, q)]
<1>1. n \in Nat
  BY LenProperties
<1>2. ASSUME NEW h, NEW q \in D, \A y \in q + 1 .. n : h[y] \in W
      PROVE  RestStep(s, h, q) \in W
  <2>1. PICK t : t = TokenFrom(s, q)
    OBVIOUS
  <2>2. PICK x \in Items : Item(s, t) = <<x>>
    BY <2>1, TokenFromIs, Zenon
  <2>3. <<x>> \in Seq(Items) /\ << >> \in Seq(Items)
    BY OneInFront, EmptySeq
  <2>4. ASSUME ~ Final(t.tok)
        PROVE  RestStep(s, h, q) \in W
    <3>1. t.pos \in q + 1 .. n
      BY <2>1, <2>4, TokenFromIs
    <3>2. PICK c \in Seq(Items) : c = h[t.pos]
      BY <1>2, <3>1
    <3>3. Joined(<<x>>, c) \in Seq(Items)
      BY <2>3, JoinedIs
    <3>4. RestStep(s, h, q) = Joined(<<x>>, c)
      BY <2>1, <2>2, <2>4, <3>2, RestGoesOn, Zenon
    <3> QED
      BY <3>3, <3>4
  <2>5. t.tok = "EOF" => RestStep(s, h, q) \in W
    BY <2>1, <2>3, RestGoesOn, Zenon
  <2>6. t.tok = "ERROR" => RestStep(s, h, q) \in W
    BY <2>1, <2>2, <2>3, RestGoesOn, Zenon
  <2> QED
    BY <2>4, <2>5, <2>6, Zenon DEF Final
<1>3. G \in [[D -> W] \X D -> W]
  <2>1. ASSUME NEW h \in [D -> W], NEW q \in D
        PROVE  RestStep(s, h, q) \in W
    <3>1. \A y \in q + 1 .. n : y \in D
      BY <1>1
    <3>2. \A y \in q + 1 .. n : h[y] \in W
      <4> HIDE DEF D, W
      <4> QED
        BY <3>1
    <3> HIDE DEF W
    <3> QED
      BY <1>2, <3>2
  <2> QED
    BY <2>1
<1>4. m \in [D -> 0 .. n]
  BY <1>1
<1>5. ASSUME NEW h \in [D -> W], NEW g \in [D -> W], NEW q \in D,
             \A y \in D : m[y] < m[q] => h[y] = g[y]
      PROVE  G[<<h, q>>] = G[<<g, q>>]
  <2>1. G[<<h, q>>] = RestStep(s, h, q) /\ G[<<g, q>>] = RestStep(s, g, q)
    OBVIOUS
  <2>2. PICK t : t = TokenFrom(s, q)
    OBVIOUS
  <2>3. ASSUME ~ Final(t.tok)
        PROVE  RestStep(s, h, q) = RestStep(s, g, q)
    <3>1. t.pos \in q + 1 .. n
      BY <2>2, <2>3, TokenFromIs
    <3>2. t.pos \in D /\ m[t.pos] < m[q]
      BY <1>1, <3>1
    <3>3. h[t.pos] = g[t.pos]
      BY <1>5, <3>2
    <3>4. /\ RestStep(s, h, q) = Joined(Item(s, t), h[t.pos])
          /\ RestStep(s, g, q) = Joined(Item(s, t), g[t.pos])
      BY <2>2, <2>3, RestGoesOn, Zenon
    <3> HIDE DEF G
    <3> QED
      BY <3>3, <3>4, Zenon
  <2>4. Final(t.tok) => RestStep(s, h, q) = RestStep(s, g, q)
    BY <2>2, RestGoesOn, Zenon DEF Final
  <2> HIDE DEF G
  <2> QED
    BY <2>1, <2>3, <2>4
<1>6. PICK h \in [D -> W] : \A x \in D : h[x] = G[<<h, x>>]
  <2>1. W # {}
    BY EmptySeq
  <2> HIDE DEF D, m, W, G
  <2> HIDE DEF n
  <2>2. Descends(G, D, W, m, n)
    BY <1>1, <1>3, <1>4, <1>5, <2>1 DEF Descends
  <2> QED
    BY <2>2, RunDown
<1>7. Is(h)
  <2>1. \A x \in D : G[<<h, x>>] = RestStep(s, h, x)
    OBVIOUS
  <2>2. \A x \in D : h[x] = RestStep(s, h, x)
    <3> HIDE DEF G, D
    <3> QED
      BY <1>6, <2>1
  <2> HIDE DEF D
  <2> QED
    BY <2>2
<1>8. Rest(s) = CHOOSE h1 : Is(h1)
  BY Zenon DEF Rest, RestStep, TokenFrom
<1>9. PICK f : f = CHOOSE h1 : Is(h1)
  OBVIOUS
<1>10. Is(f)
  <2> HIDE DEF Is
  <2> QED
    BY <1>7, <1>9, Zenon
<1>11. f \in [D -> W] /\ \A p \in D : f[p] = RestStep(s, f, p)
  <2>1. \A p \in D : f[p] = RestStep(s, f, p)
    BY <1>10
  <2> DEFINE S == {p \in D : f[p] \in W}
  <2>2. ASSUME NEW p \in 0 .. n, \A q \in p + 1 .. n : q \in S
        PROVE  p \in S
    <3>1. f[p] \in W
      BY <1>2, <2>1, <2>2
    <3> QED
      BY <3>1
  <2>3. \A p \in 0 .. n : p \in S
    <3> HIDE DEF S
    <3> QED
      BY <1>1, <2>2, Backwards
  <2>4. \A p \in D : f[p] \in W
    BY <2>3
  <2>5. f = [q \in D |-> f[q]]
    BY <1>10
  <2> HIDE DEF D, W
  <2> QED
    BY <2>1, <2>4, <2>5
<1> QED
  BY <1>8, <1>9, <1>11

-----------------------------------------------------------------------------
(* A separator begins with the byte that makes it one. *)
LEMMA SeparatorStart ==
  ASSUME NEW s \in Seq(Byte), NEW start \in 0 .. Len(s), IsSeparator(s, LexAt(s, start))
  PROVE  start < Len(s) /\ (s[start + 1] \in Eol \/ s[start + 1] = Semicolon)
<1>1. Len(s) \in Nat
  BY LenProperties
<1>2. PICK t : t = LexAt(s, start)
  OBVIOUS
<1>3. /\ t.tok_len \in Nat /\ t.tok_pos + t.tok_len <= t.pos /\ t.pos \in start .. Len(s)
      /\ t.tok \in Forms /\ (t.tok = "EOF" => start = Len(s))
      /\ (t.tok = "STR" \/ t.tok_pos = start) /\ (Final(t.tok) \/ t.pos # start)
  BY <1>2, LexAtIs, Zenon DEF Within
<1>4. start < Len(s)
  <2>1. ~ Final(t.tok)
    BY <1>2, Zenon DEF IsSeparator, Final
  <2> QED
    BY <1>1, <1>3, <2>1
<1>5. CASE t.tok = "MARK" /\ Text(s, t) = <<Semicolon>>
  <2>1. t.tok_pos = start
    <3>1. "MARK" # "STR"
      OBVIOUS
    <3> QED
      BY <1>3, <1>5, <3>1, Zenon
  <2>2. PICK e : e = start + t.tok_len
    OBVIOUS
  <2>3. e \in start .. Len(s)
    BY <1>1, <1>3, <2>1, <2>2
  <2>4. PICK x : x = Piece(s, start, e)
    OBVIOUS
  <2>5. Len(x) = e - start /\ \A i \in 1 .. e - start : x[i] = s[start + i]
    BY <2>3, <2>4, PieceIs
  <2>6. x = <<Semicolon>>
    BY <1>5, <2>1, <2>2, <2>4, Zenon DEF Text
  <2>7. Len(x) = 1 /\ x[1] = Semicolon
    BY <2>6
  <2>8. e - start = 1
    BY <2>5, <2>7, Zenon
  <2>9. x[1] = s[start + 1]
    <3>1. 1 \in 1 .. 1
      OBVIOUS
    <3> QED
      BY <2>5, <2>8, <3>1, Zenon
  <2> QED
    BY <1>4, <2>7, <2>9, Zenon
<1>6. CASE t.tok = "NEWLINE"
  <2>1. PICK c : c = peek_ch(s, start)
    OBVIOUS
  <2>2. c = s[start + 1]
    BY <1>4, <2>1 DEF peek_ch
  <2>3. lex_int(s, start).tok # "NEWLINE"
    <3>1. PICK e : e = Skip(s, start, Digit)
      OBVIOUS
    <3>2. PICK k \in {"ERROR", "INT"} : lex_int(s, start) = Token(k, start, e, e)
      BY <3>1 DEF lex_int
    <3>3. Token(k, start, e, e).tok = k
      BY TokenIs
    <3> QED
      BY <3>2, <3>3, Zenon
  <2>4. lex_ident_or_kw(s, start).tok # "NEWLINE"
    <3>1. PICK e : e = Skip(s, start, IdentCont)
      OBVIOUS
    <3>2. PICK k \in {"KEYWORD", "IDENT"} : lex_ident_or_kw(s, start) = Token(k, start, e, e)
      BY <3>1, Zenon DEF lex_ident_or_kw
    <3>3. Token(k, start, e, e).tok = k
      BY TokenIs
    <3> QED
      BY <3>2, <3>3, Zenon
  <2>5. lex_string(s, start).tok # "NEWLINE"
    <3>1. PICK e : e = StringEnd(s, start + 1)
      OBVIOUS
    <3>2. \/ lex_string(s, start) = Token("ERROR", start, start, start)
          \/ lex_string(s, start) = Token("STR", start + 1, e, e + 1)
      BY <3>1, Zenon DEF lex_string
    <3>3. PICK a, z : a = start + 1 /\ z = e + 1
      OBVIOUS
    <3>4. Token("ERROR", start, start, start).tok = "ERROR" /\ Token("STR", a, e, z).tok = "STR"
      BY TokenIs
    <3> QED
      BY <3>2, <3>3, <3>4, Zenon
  <2>6. lex_mark(s, start).tok # "NEWLINE"
    <3>1. start # Len(s)
      BY <1>1, <1>4
    <3>2. \/ lex_mark(s, start) = Token("ERROR", start, start + 1, start + 1)
          \/ \E u \in Marks : lex_mark(s, start) = Token("MARK", start, start + Len(u), start + Len(u))
      BY <3>1, MarkForm
    <3>3. \A k, e : Token(k, start, e, e).tok = k
      BY TokenIs
    <3>4. CASE lex_mark(s, start) = Token("ERROR", start, start + 1, start + 1)
      <4>1. PICK e : e = start + 1
        OBVIOUS
      <4>2. lex_mark(s, start).tok = "ERROR"
        BY <3>3, <3>4, <4>1, Zenon
      <4> QED
        BY <4>2
    <3>5. ASSUME NEW u \in Marks, lex_mark(s, start) = Token("MARK", start, start + Len(u), start + Len(u))
          PROVE  lex_mark(s, start).tok # "NEWLINE"
      <4>1. PICK e : e = start + Len(u)
        OBVIOUS
      <4>2. lex_mark(s, start).tok = "MARK"
        BY <3>3, <3>5, <4>1, Zenon
      <4> QED
        BY <4>2
    <3> QED
      BY <3>2, <3>4, <3>5
  <2>7. c \in Eol
    <3>1. start # Len(s)
      BY <1>1, <1>4
    <3> QED
      BY <1>2, <1>6, <2>1, <2>3, <2>4, <2>5, <2>6, <3>1, Zenon DEF LexAt
  <2> QED
    BY <1>4, <2>2, <2>7
<1> QED
  BY <1>2, <1>5, <1>6, Zenon DEF IsSeparator

(* What the window's lexer reads from p on, and what the file's does. *)
CutFrom(s, b, w, p) ==
  /\ ~ Whole(s, b, w)
  /\ TokenFrom(w, p).tok = "NEWLINE" /\ TokenFrom(w, p).pos = Len(w)
  /\ TokenFrom(s, b + p).tok = "NEWLINE" /\ TokenFrom(s, b + p).pos = b + Len(w) + 1
  /\ b + Len(w) + 1 <= Len(s) /\ s[b + Len(w) + 1] = "\n"

LEMMA TokenSame ==
  ASSUME NEW s, NEW b, NEW w, Shows(s, b, w), NEW p \in 0 .. Len(w),
         NEW l, l = TokenFrom(w, p)
  PROVE  \/ l.tok = "ERROR"
         \/ ~ Whole(s, b, w) /\ Edge(w, l)
         \/ Agrees(TokenFrom(s, b + p), l, b)
         \/ CutFrom(s, b, w, p)
<1> DEFINE m == Len(w)
<1>1. /\ s \in Seq(Byte) /\ w \in Seq(Byte) /\ b \in Nat
      /\ Len(s) \in Nat /\ m \in Nat /\ b + m <= Len(s)
  BY ShowsIs
<1>2. PICK t : t = skip_trivia(w)[p]
  OBVIOUS
<1>3. t \in p .. m /\ t \in 0 .. m /\ l = LexAt(w, t)
  <2>1. t \in p .. m
    BY <1>1, <1>2, TokenFromIs
  <2>2. l = LexAt(w, t)
    BY <1>2, Zenon DEF TokenFrom
  <2> QED
    BY <1>1, <2>1, <2>2
<1>4. Within(w, t, l)
  BY <1>1, <1>3, LexAtIs
<1>5. CASE skip_trivia(s)[b + p] = b + t
  <2>1. TokenFrom(s, b + p) = LexAt(s, b + t)
    BY <1>5, Zenon DEF TokenFrom
  <2>2. LexKnown(s, b, w, t)
    BY <1>3, LexSame
  <2>3. ASSUME CutNewline(s, b, w, t)
        PROVE  CutFrom(s, b, w, p)
    <3>1. PICK e : e = t + 1
      OBVIOUS
    <3>2. /\ ~ Whole(s, b, w) /\ e = m
          /\ LexAt(w, t) = Token("NEWLINE", t, e, e)
          /\ LexAt(s, b + t).tok = "NEWLINE" /\ LexAt(s, b + t).pos = b + t + 2
          /\ b + t + 2 <= Len(s) /\ s[b + t + 2] = "\n"
      BY <2>3, <3>1, Zenon DEF CutNewline
    <3>3. b + t + 2 = b + m + 1
      BY <1>1, <1>3, <3>1, <3>2
    <3>4. Token("NEWLINE", t, e, e).tok = "NEWLINE" /\ Token("NEWLINE", t, e, e).pos = e
      BY TokenIs
    <3>5. l.tok = "NEWLINE" /\ l.pos = m
      BY <1>3, <3>2, <3>4, Zenon
    <3> QED
      BY <2>1, <3>2, <3>3, <3>5, Zenon DEF CutFrom
  <2> QED
    BY <1>3, <2>1, <2>2, <2>3, Zenon DEF LexKnown
<1>6. CASE ~ Whole(s, b, w) /\ t = m
  <2>1. l = Token("EOF", t, t, t)
    BY <1>3, <1>6, Zenon DEF LexAt
  <2>2. Token("EOF", t, t, t).tok = "EOF" /\ Token("EOF", t, t, t).pos = t
    BY TokenIs
  <2>3. ~ IsSeparator(w, l)
    BY <2>1, <2>2, NotSeparator
  <2> QED
    BY <1>6, <2>1, <2>2, <2>3, Zenon DEF Edge
<1>7. CASE ~ Whole(s, b, w) /\ t = m - 1 /\ w[m] = "/"
  <2>1. t + 1 = m /\ t # m
    BY <1>1, <1>3, <1>7
  <2>2. ~ IsSeparator(w, l)
    <3>1. "/" \notin Eol /\ "/" # Semicolon
      BY Zenon DEF Eol, Semicolon
    <3>2. w[t + 1] = "/"
      BY <1>7, <2>1, Zenon
    <3> QED
      BY <1>1, <1>3, <3>1, <3>2, SeparatorStart, Zenon
  <2>3. l.pos \in t .. m /\ (Final(l.tok) \/ l.pos # t) /\ l.tok # "EOF"
    BY <1>4, <2>1, Zenon DEF Within
  <2>4. l.tok = "ERROR" \/ l.pos = m
    <3>1. l.tok = "ERROR" \/ l.pos # t
      BY <2>3, Zenon DEF Final
    <3> QED
      BY <1>1, <1>3, <2>1, <2>3, <3>1
  <2> QED
    BY <1>7, <2>2, <2>4, Zenon DEF Edge
<1> QED
  <2>1. TriviaKnown(s, b, w, p)
    BY TriviaSame
  <2> QED
    BY <1>2, <1>5, <1>6, <1>7, <2>1, Zenon DEF TriviaKnown

LEMMA ItemSame ==
  ASSUME NEW s, NEW b, NEW w, Shows(s, b, w), NEW t \in 0 .. Len(w),
         NEW l, Within(w, t, l), NEW x, Agrees(x, l, b)
  PROVE  Item(s, x) = Item(w, l)
<1>1. /\ b \in Nat /\ Len(w) \in Nat
  BY ShowsIs
<1>2. /\ l.pos \in t .. Len(w) /\ l.tok_pos \in t .. l.pos
      /\ l.tok_len \in Nat /\ l.tok_pos + l.tok_len <= l.pos
  BY DEF Within
<1>3. PICK a, e : a = l.tok_pos /\ e = l.tok_pos + l.tok_len
  OBVIOUS
<1>4. a \in 0 .. Len(w) /\ e \in a .. Len(w) /\ (b + a) + l.tok_len = b + e
  BY <1>1, <1>2, <1>3
<1>5. Piece(w, a, e) = Piece(s, b + a, b + e)
  BY <1>4, PieceSame
<1>6. x.tok = l.tok /\ x.tok_len = l.tok_len /\ x.tok_pos = b + a
  BY <1>3, Zenon DEF Agrees
<1>7. Text(s, x) = Text(w, l)
  BY <1>3, <1>4, <1>5, <1>6, Zenon DEF Text
<1>8. IsSeparator(s, x) <=> IsSeparator(w, l)
  BY <1>6, <1>7, Zenon DEF IsSeparator
<1>9. Symbol(s, x) = "separator" <=> Symbol(w, l) = "separator"
  BY <1>8, SymbolIs, Zenon
<1> QED
  BY <1>6, <1>7, <1>9, Zenon DEF Item

(* Nothing is left at the end of a text. *)
LEMMA RestEnd ==
  ASSUME NEW s \in Seq(Byte)
  PROVE  Rest(s)[Len(s)] = << >>
<1>1. Len(s) \in Nat /\ Len(s) \in 0 .. Len(s)
  BY LenProperties
<1>2. PICK n : n = Len(s)
  OBVIOUS
<1>3. PICK a : a = skip_trivia(s)[n]
  OBVIOUS
<1>4. a = n
  <2>1. a \in n .. n
    BY <1>1, <1>2, <1>3, TokenFromIs
  <2> QED
    BY <1>1, <1>2, <2>1
<1>5. TokenFrom(s, n) = Token("EOF", n, n, n)
  BY <1>2, <1>3, <1>4, Zenon DEF TokenFrom, LexAt
<1>6. TokenFrom(s, n).tok = "EOF"
  <2>1. Token("EOF", n, n, n).tok = "EOF"
    BY TokenIs
  <2> QED
    BY <1>5, <2>1, Zenon
<1>7. PICK f : /\ Rest(s) = f
               /\ \A p \in 0 .. Len(s) : f[p] = RestStep(s, f, p)
  BY RestIs, Zenon
<1>8. f[n] = RestStep(s, f, n) /\ RestStep(s, f, n) = << >>
  <2>1. n \in 0 .. Len(s)
    BY <1>1, <1>2
  <2>2. PICK t : t = TokenFrom(s, n)
    OBVIOUS
  <2>3. t.tok = "EOF" => RestStep(s, f, n) = << >>
    BY ONLY s \in Seq(Byte), <2>1, <2>2, RestGoesOn
  <2> QED
    BY <1>6, <1>7, <2>1, <2>2, <2>3, Zenon
<1> QED
  BY <1>2, <1>7, <1>8, Zenon

(* From the second byte of a line's end on, the first token is a separator. *)
LEMMA RestAtNewline ==
  ASSUME NEW s \in Seq(Byte), NEW p \in 0 .. Len(s), p + 1 <= Len(s), s[p + 1] = "\n"
  PROVE  Rest(s)[p] = Joined(<<Separator>>, Rest(s)[p + 1])
<1>1. Len(s) \in Nat /\ p # Len(s)
  BY LenProperties
<1>2. PICK c : c = "\n"
  BY Zenon
<1>3. /\ s[p + 1] = c /\ c \in Eol /\ c \notin Space
      /\ c # "/" /\ c # "\r"
  BY <1>2, Zenon DEF Eol, Space
<1>4. /\ ~StartsWith(s, p, <<"/", "/">>) /\ ~StartsWith(s, p, <<"/", "*">>)
      /\ ~StartsWith(s, p, <<"\r", "\n">>)
  BY <1>3, PairAt, Zenon
<1>5. peek_ch(s, p) = c
  <2>1. p < Len(s)
    BY <1>1
  <2> QED
    BY <1>3, <2>1, Zenon DEF peek_ch
<1>6. skip_trivia(s)[p] = p
  <2>1. PICK g : g = skip_trivia(s)
    OBVIOUS
  <2>2. g[p] = TriviaStep(s, g, p)
    BY <2>1, TriviaIs
  <2>3. TriviaStep(s, g, p) = p
    BY <1>3, <1>4, <1>5, Zenon DEF TriviaStep
  <2> QED
    BY <2>1, <2>2, <2>3, Zenon
<1>7. PICK q : q = p + 1
  OBVIOUS
<1>8. TokenFrom(s, p) = Token("NEWLINE", p, q, q)
  <2>1. TokenFrom(s, p) = lex_newline(s, p)
    BY <1>1, <1>3, <1>5, <1>6, Zenon DEF TokenFrom, LexAt
  <2>2. \/ StartsWith(s, p, <<"\r", "\n">>)
        \/ lex_newline(s, p) = Token("NEWLINE", p, p + 1, p + 1)
    BY <1>1, NewlineIs, Zenon
  <2> QED
    BY <1>4, <1>7, <2>1, <2>2, Zenon
<1>9. PICK t : t = TokenFrom(s, p)
  OBVIOUS
<1>10. t.tok = "NEWLINE" /\ t.pos = q
  <2>1. Token("NEWLINE", p, q, q).tok = "NEWLINE" /\ Token("NEWLINE", p, q, q).pos = q
    BY TokenIs
  <2> QED
    BY <1>8, <1>9, <2>1, Zenon
<1>11. ~ Final(t.tok)
  BY <1>10, Zenon DEF Final
<1>12. Item(s, t) = <<Separator>>
  <2>1. IsSeparator(s, t)
    BY <1>10, Zenon DEF IsSeparator
  <2> QED
    BY <2>1, SymbolIs, Zenon DEF Item
<1>13. PICK f : /\ Rest(s) = f
                /\ \A k \in 0 .. Len(s) : f[k] = RestStep(s, f, k)
  BY RestIs, Zenon
<1>14. RestStep(s, f, p) = Joined(Item(s, t), f[t.pos])
  BY <1>9, <1>11, RestGoesOn, Zenon
<1>15. f[p] = RestStep(s, f, p)
  BY <1>13
<1> QED
  BY <1>7, <1>10, <1>12, <1>13, <1>14, <1>15, Zenon

(* The list read so far and the tokens of s still to come. *)
Ahead(s, list, p) == Joined(list, Rest(s)[p]) = Rest(s)[0]

(* Reading a token keeps the two together what the text is, but for an      *)
(* error and for a token the edge may have cut.                             *)
LEMMA GoesAhead ==
  ASSUME NEW s, NEW b, NEW w, Shows(s, b, w), NEW p \in 0 .. Len(w),
         NEW list \in Seq(Items), Ahead(s, list, b + p), NEW l, l = TokenFrom(w, p)
  PROVE  \/ l.tok = "ERROR"
         \/ ~ Whole(s, b, w) /\ Edge(w, l)
         \/ Ahead(s, Noted(list, w, l), b + l.pos)
<1> DEFINE m == Len(w)
<1>1. /\ s \in Seq(Byte) /\ w \in Seq(Byte) /\ b \in Nat
      /\ Len(s) \in Nat /\ m \in Nat /\ b + m <= Len(s) /\ b + p \in 0 .. Len(s)
  BY ShowsIs
<1>2. PICK u, x : u = b + p /\ x = TokenFrom(s, u)
  OBVIOUS
<1>3. PICK f \in [0 .. Len(s) -> Seq(Items)] :
        Rest(s) = f /\ \A k \in 0 .. Len(s) : f[k] = RestStep(s, f, k)
  BY <1>1, RestIs
<1>4. /\ u \in 0 .. Len(s) /\ f[u] = RestStep(s, f, u) /\ Joined(list, f[u]) = f[0]
  <2>1. u \in 0 .. Len(s)
    BY <1>1, <1>2
  <2> QED
    BY <1>2, <1>3, <2>1, Zenon DEF Ahead
<1>5. Symbol(w, l) = "EOF" <=> l.tok = "EOF"
  BY SymbolIs, Zenon
<1>6. PICK y \in Items : Item(s, x) = <<y>>
  BY <1>1, <1>2, <1>4, TokenFromIs, Zenon
<1>7. /\ x.pos \in u .. Len(s) /\ Within(s, skip_trivia(s)[u], x) /\ skip_trivia(s)[u] \in u .. Len(s)
  BY <1>1, <1>2, <1>4, TokenFromIs, Zenon
<1>8. x.pos \in 0 .. Len(s)
  BY <1>1, <1>4, <1>7
<1>9. PICK c \in Seq(Items) : c = f[x.pos]
  BY <1>3, <1>8
<1>10. /\ x.tok = "EOF" => f[u] = << >>
       /\ ~ Final(x.tok) => f[u] = Joined(Item(s, x), c)
  <2>1. \A g : /\ x.tok = "EOF" => RestStep(s, g, u) = << >>
               /\ ~ Final(x.tok) => RestStep(s, g, u) = Joined(Item(s, x), g[x.pos])
    <3>1. s \in Seq(Byte) /\ u \in 0 .. Len(s) /\ x = TokenFrom(s, u)
      BY <1>1, <1>2, <1>4, Zenon
    <3> QED
      BY ONLY <3>1, RestGoesOn
  <2> QED
    BY <1>4, <1>9, <2>1, Zenon
<1>11. ASSUME Agrees(x, l, b), l.tok # "ERROR"
       PROVE  Ahead(s, Noted(list, w, l), b + l.pos)
  <2>1. x.tok = l.tok /\ x.pos = b + l.pos
    BY <1>11, Zenon DEF Agrees
  <2>2. CASE l.tok = "EOF"
    <3>1. f[u] = << >>
      BY <1>10, <2>1, <2>2, Zenon
    <3>2. x.pos = Len(s)
      <4>1. skip_trivia(s)[u] = Len(s) /\ x.pos \in skip_trivia(s)[u] .. Len(s)
        BY <1>7, <2>1, <2>2, Zenon DEF Within
      <4> QED
        BY <1>1, <1>8, <4>1
    <3>3. f[x.pos] = << >>
      BY <1>1, <1>3, <3>2, RestEnd, Zenon
    <3>4. Noted(list, w, l) = list
      BY <1>5, <2>2, Zenon DEF Noted
    <3> QED
      BY <1>3, <1>4, <2>1, <3>1, <3>3, <3>4, Zenon DEF Ahead
  <2>3. CASE l.tok # "EOF"
    <3>1. ~ Final(x.tok)
      BY <1>11, <2>1, <2>3, Zenon DEF Final
    <3>2. f[u] = Joined(<<y>>, c)
      BY <1>6, <1>10, <3>1, Zenon
    <3>3. Item(w, l) = <<y>>
      <4>1. skip_trivia(w)[p] \in p .. m /\ Within(w, skip_trivia(w)[p], l)
        BY <1>1, TokenFromIs, Zenon
      <4>2. skip_trivia(w)[p] \in 0 .. m
        BY <1>1, <4>1
      <4>3. Item(s, x) = Item(w, l)
        BY <1>11, <4>1, <4>2, ItemSame
      <4> QED
        BY <1>6, <4>3, Zenon
    <3>4. Noted(list, w, l) = Joined(list, <<y>>)
      BY <1>5, <2>3, <3>3, Zenon DEF Noted
    <3>5. Joined(Joined(list, <<y>>), c) = Joined(list, Joined(<<y>>, c))
      BY JoinedMiddle
    <3> QED
      BY <1>3, <1>4, <1>9, <2>1, <3>2, <3>4, <3>5, Zenon DEF Ahead
  <2> QED
    BY <2>2, <2>3
<1>12. ASSUME CutFrom(s, b, w, p)
       PROVE  Ahead(s, Noted(list, w, l), b + l.pos)
  <2>1. PICK k : k = b + m
    OBVIOUS
  <2>2. /\ l.tok = "NEWLINE" /\ l.pos = m /\ x.tok = "NEWLINE" /\ x.pos = k + 1
        /\ k + 1 <= Len(s) /\ s[k + 1] = "\n"
    BY <1>2, <1>12, <2>1, Zenon DEF CutFrom
  <2>3. f[k] = Joined(<<Separator>>, f[k + 1])
    <3>1. k \in 0 .. Len(s)
      BY <1>1, <2>1
    <3> QED
      BY <1>1, <1>3, <2>2, <3>1, RestAtNewline, Zenon
  <2>4. IsSeparator(w, l) /\ IsSeparator(s, x) /\ ~ Final(x.tok) /\ l.tok # "EOF"
    BY <2>2, Zenon DEF IsSeparator, Final
  <2>5. Item(s, x) = <<Separator>> /\ Item(w, l) = <<Separator>>
    BY <2>4, SymbolIs, Zenon DEF Item
  <2>6. f[u] = Joined(<<Separator>>, c) /\ f[k] = Joined(<<Separator>>, c)
    BY <1>9, <1>10, <2>2, <2>3, <2>4, <2>5, Zenon
  <2>7. Noted(list, w, l) = Joined(list, <<Separator>>)
    BY <1>5, <2>4, <2>5, Zenon DEF Noted
  <2>8. PICK z \in Items : z = Separator
    BY Zenon DEF Items
  <2>9. PICK d \in Seq(Items) : d = Joined(<<z>>, c)
    <3>1. <<z>> \in Seq(Items)
      BY OneInFront, Zenon
    <3> QED
      BY <3>1, JoinedIs
  <2>10. Joined(Joined(list, <<z>>), d) = Joined(list, Joined(<<z>>, d))
    BY JoinedMiddle
  <2>11. Joined(<<z>>, d) = d
    <3>1. Separator \in Items
      BY Zenon DEF Items
    <3> QED
      BY <2>8, <2>9, <3>1, SeparatorTwice, Zenon
  <2> QED
    BY <1>3, <1>4, <2>1, <2>2, <2>6, <2>7, <2>8, <2>9, <2>10, <2>11, Zenon DEF Ahead
<1> QED
  <2>1. \/ l.tok = "ERROR"
        \/ ~ Whole(s, b, w) /\ Edge(w, l)
        \/ Agrees(x, l, b)
        \/ CutFrom(s, b, w, p)
    BY <1>2, TokenSame
  <2> QED
    BY <1>11, <1>12, <2>1, Zenon

-----------------------------------------------------------------------------
(* What has been read is right: with the tokens still to come it is the     *)
(* list of the file as far as it may yet be read, which a failing read may  *)
(* end anywhere behind the window.  Or the lexer is lost: it is at an error, *)
(* or at a token the edge of the window may have cut.                       *)
Lost(w, ended, l) == l.tok = "ERROR" \/ (~ ended /\ Edge(w, l))

MayEnd(f, w, ended, b) == IF ended THEN {b + Len(w)} ELSE b + Len(w) .. Len(f)

Right(f, w, ended, b, l, list) ==
  \/ Lost(w, ended, l)
  \/ /\ list \in Seq(Items)
     /\ \A e \in MayEnd(f, w, ended, b) : Ahead(SubSeq(f, 1, e), list, b + l.pos)

(* The window of a file. *)
Holds(f, b, w) ==
  /\ f \in Seq(Byte) /\ b \in Nat /\ w \in Seq(Byte) /\ b + Len(w) <= Len(f)
  /\ w = SubSeq(f, b + 1, b + Len(w))

LEMMA HoldsShows ==
  ASSUME NEW f, NEW b, NEW w, Holds(f, b, w), NEW e \in b + Len(w) .. Len(f)
  PROVE  Shows(SubSeq(f, 1, e), b, w) /\ (e = b + Len(w) => Whole(SubSeq(f, 1, e), b, w))
<1>1. /\ f \in Seq(Byte) /\ b \in Nat /\ w \in Seq(Byte) /\ b + Len(w) <= Len(f)
      /\ Len(f) \in Nat /\ Len(w) \in Nat
  BY LenProperties DEF Holds
<1>2. PICK s : s = SubSeq(f, 1, e)
  OBVIOUS
<1>3. s \in Seq(Byte) /\ Len(s) = e /\ \A i \in 1 .. e : s[i] = f[i]
  <2>1. e \in 0 .. Len(f)
    BY <1>1
  <2> QED
    BY <1>1, <1>2, <2>1
<1>4. \A i \in 1 .. Len(w) : w[i] = f[b + i]
  <2>1. PICK k : k = b + Len(w)
    OBVIOUS
  <2>2. w = SubSeq(f, b + 1, k)
    BY <2>1, Zenon DEF Holds
  <2>3. k \in Nat /\ k <= Len(f)
        /\ \A i \in 1 .. Len(w) : i <= k - (b + 1) + 1 /\ b + 1 + i - 1 = b + i
    BY <1>1, <2>1
  <2>4. \A i \in 1 .. Len(w) : SubSeq(f, b + 1, k)[i] = f[b + i]
    BY <1>1, <2>3
  <2> QED
    BY <2>2, <2>4, Zenon
<1>5. \A i \in 1 .. Len(w) : w[i] = s[b + i]
  <2>1. \A i \in 1 .. Len(w) : b + i \in 1 .. e
    BY <1>1
  <2> QED
    BY <1>3, <1>4, <2>1
<1>6. Shows(s, b, w)
  BY <1>1, <1>3, <1>5 DEF Shows
<1>7. e = b + Len(w) => Whole(s, b, w)
  BY <1>3 DEF Whole
<1> QED
  BY <1>2, <1>6, <1>7, Zenon

(* lexer_next reads the token from pos on, or stays at an error. *)
SameToken(n, t) == n.tok = t.tok /\ n.tok_pos = t.tok_pos /\ n.tok_len = t.tok_len /\ n.pos = t.pos

LEMMA NextToken ==
  ASSUME NEW w, NEW l, NEW n, n = lexer_next(w, l)
  PROVE  /\ l.tok = "ERROR" => n = l
         /\ l.tok # "ERROR" => SameToken(n, TokenFrom(w, l.pos))
<1>1. PICK t : t = TokenFrom(w, l.pos)
  OBVIOUS
<1>2. ASSUME l.tok # "ERROR"
      PROVE  SameToken(n, t)
  <2>1. PICK start : start = skip_trivia(w)[l.pos]
    OBVIOUS
  <2>2. t = LexAt(w, start)
    BY <1>1, <2>1, Zenon DEF TokenFrom
  <2>3. PICK line : line = l.line + Eols(Piece(w, l.pos, start))
    OBVIOUS
  <2>4. PICK line2 : line2 = line + Eols(Piece(w, start, t.pos))
    OBVIOUS
  <2>5. PICK value : value = Value(Piece(w, start, t.pos))
    OBVIOUS
  <2>6. PICK k : k = IF t.tok # "INT" THEN l.int_val
                     ELSE IF value >= 32768 THEN value - 65536 ELSE value
    OBVIOUS
  <2>7. n = [pos |-> t.pos, tok |-> t.tok, tok_pos |-> t.tok_pos, tok_len |-> t.tok_len,
             tok_line |-> line, line |-> line2, int_val |-> k]
    BY ONLY <1>2, <2>1, <2>2, <2>3, <2>4, <2>5, <2>6, n = lexer_next(w, l) DEF lexer_next
  <2> QED
    BY <2>7 DEF SameToken
<1>3. l.tok = "ERROR" => n = l
  BY DEF lexer_next
<1> QED
  BY <1>1, <1>2, <1>3

LEMMA TokensTheSame ==
  ASSUME NEW n, NEW t, SameToken(n, t), NEW w
  PROVE  /\ Edge(w, n) <=> Edge(w, t)
         /\ \A list : Noted(list, w, n) = Noted(list, w, t)
<1>1. Text(w, n) = Text(w, t)
  BY Zenon DEF SameToken, Text
<1>2. IsSeparator(w, n) <=> IsSeparator(w, t)
  BY <1>1, Zenon DEF SameToken, IsSeparator
<1>3. Edge(w, n) <=> Edge(w, t)
  BY <1>2, Zenon DEF SameToken, Edge
<1>4. /\ Symbol(w, n) = "EOF" <=> Symbol(w, t) = "EOF"
      /\ Symbol(w, n) = "separator" <=> Symbol(w, t) = "separator"
  BY <1>2, SymbolIs, Zenon DEF SameToken
<1>5. Item(w, n) = Item(w, t)
  BY <1>1, <1>4, Zenon DEF SameToken, Item
<1> QED
  BY <1>3, <1>4, <1>5, Zenon DEF Noted

(* At the edge there is only the edge. *)
LEMMA EdgeStays ==
  ASSUME NEW w \in Seq(Byte), NEW l, Edge(w, l), l.pos \in 0 .. Len(w), NEW t, t = TokenFrom(w, l.pos)
  PROVE  t.tok = "ERROR" \/ Edge(w, t)
<1> DEFINE m == Len(w)
<1>1. m \in Nat
  BY LenProperties
<1>2. PICK p \in 0 .. m : p = l.pos /\ (p = m \/ (p = m - 1 /\ w[m] = "."))
  BY Zenon DEF Edge
<1>3. PICK a : a = skip_trivia(w)[p]
  OBVIOUS
<1>4. a \in p .. m
  BY <1>3, TokenFromIs
<1>5. a \in 0 .. m /\ Within(w, a, t)
  <2>1. Within(w, a, t)
    BY <1>2, <1>3, TokenFromIs, Zenon
  <2> QED
    BY <1>1, <1>4, <2>1
<1>6. t = LexAt(w, a)
  BY <1>2, <1>3, Zenon DEF TokenFrom
<1>7. CASE a = m
  <2>1. t = Token("EOF", m, m, m)
    BY <1>6, <1>7, Zenon DEF LexAt
  <2>2. Token("EOF", m, m, m).tok = "EOF" /\ Token("EOF", m, m, m).pos = m
    BY TokenIs
  <2>3. t.tok # "NEWLINE" /\ t.tok # "MARK" /\ t.pos = m
    BY <2>1, <2>2, Zenon
  <2> QED
    BY <2>3, NotSeparator, Zenon DEF Edge
<1>8. CASE a # m
  <2>1. a + 1 = m /\ w[m] = "."
    BY <1>1, <1>2, <1>4, <1>8
  <2>2. ~ IsSeparator(w, t)
    <3>1. "." \notin Eol /\ "." # Semicolon
      BY Zenon DEF Eol, Semicolon
    <3>2. w[a + 1] = "."
      BY <2>1, Zenon
    <3> QED
      BY <1>5, <1>6, <3>1, <3>2, SeparatorStart, Zenon
  <2>3. t.pos \in a .. m /\ (Final(t.tok) \/ t.pos # a) /\ t.tok # "EOF"
    BY <1>5, <1>8, Zenon DEF Within
  <2>4. t.tok = "ERROR" \/ t.pos = m
    <3>1. t.tok = "ERROR" \/ t.pos # a
      BY <2>3, Zenon DEF Final
    <3> QED
      BY <1>1, <1>4, <2>1, <2>3, <3>1
  <2> QED
    BY <2>2, <2>4, Zenon DEF Edge
<1> QED
  BY <1>7, <1>8

LEMMA RightReads ==
  ASSUME NEW f, NEW b, NEW w, Holds(f, b, w), NEW ended \in BOOLEAN,
         NEW l, l.pos \in 0 .. Len(w), NEW list, Right(f, w, ended, b, l, list),
         NEW n, n = lexer_next(w, l)
  PROVE  Right(f, w, ended, b, n, Noted(list, w, n)) /\ (n.tok = "EOF" => n.pos = Len(w))
<1>1. /\ f \in Seq(Byte) /\ b \in Nat /\ w \in Seq(Byte) /\ b + Len(w) <= Len(f)
      /\ Len(f) \in Nat /\ Len(w) \in Nat
  BY LenProperties DEF Holds
<1>2. CASE l.tok = "ERROR"
  <2>1. n.tok = "ERROR"
    BY <1>2, NextToken
  <2> QED
    BY <2>1, Zenon DEF Right, Lost
<1>3. CASE l.tok # "ERROR"
  <2>1. PICK p \in 0 .. Len(w) : p = l.pos
    OBVIOUS
  <2>2. PICK t : t = TokenFrom(w, p)
    OBVIOUS
  <2>3. SameToken(n, t)
    BY <1>3, <2>1, <2>2, NextToken, Zenon
  <2>4. n.tok = t.tok /\ n.pos = t.pos
    BY <2>3, Zenon DEF SameToken
  <2>5. n.tok = "EOF" => n.pos = Len(w)
    <3>1. PICK a : a = skip_trivia(w)[p]
      OBVIOUS
    <3>2. a \in p .. Len(w) /\ Within(w, a, t)
      BY <1>1, <2>2, <3>1, TokenFromIs, Zenon
    <3>3. t.tok = "EOF" => t.pos \in a .. Len(w) /\ a = Len(w)
      BY <3>2, Zenon DEF Within
    <3> QED
      BY <1>1, <2>4, <3>3
  <2>6. CASE Lost(w, ended, l)
    <3>1. ~ ended /\ Edge(w, l)
      BY <1>3, <2>6, Zenon DEF Lost
    <3>2. t.tok = "ERROR" \/ Edge(w, t)
      BY <1>1, <2>1, <2>2, <3>1, EdgeStays
    <3>3. Edge(w, n) <=> Edge(w, t)
      BY <2>3, TokensTheSame, Zenon
    <3>4. Lost(w, ended, n)
      BY <2>4, <3>1, <3>2, <3>3, Zenon DEF Lost
    <3> QED
      BY <2>5, <3>4, Zenon DEF Right
  <2>7. CASE ~ Lost(w, ended, l) /\ ~ Lost(w, ended, t)
    <3>1. /\ list \in Seq(Items)
          /\ \A e \in MayEnd(f, w, ended, b) : Ahead(SubSeq(f, 1, e), list, b + p)
      BY <2>1, <2>7, Zenon DEF Right
    <3>2. PICK new : new = Noted(list, w, n)
      OBVIOUS
    <3>3. new = Noted(list, w, t)
      <4>1. \A x : Noted(x, w, n) = Noted(x, w, t)
        BY <2>3, TokensTheSame
      <4> QED
        BY <3>2, <4>1, Zenon
    <3>4. new \in Seq(Items)
      <4>1. PICK x \in Items : Item(w, t) = <<x>>
        <5>1. \E x \in Items : Item(w, TokenFrom(w, p)) = <<x>>
          BY <1>1, TokenFromIs
        <5> QED
          BY <2>2, <5>1, Zenon
      <4>2. <<x>> \in Seq(Items)
        OBVIOUS
      <4>3. Joined(list, <<x>>) \in Seq(Items)
        BY <3>1, <4>2, JoinedIs
      <4> QED
        BY <3>1, <3>3, <4>1, <4>3, Zenon DEF Noted
    <3>5. ASSUME NEW e \in MayEnd(f, w, ended, b)
          PROVE  Ahead(SubSeq(f, 1, e), new, b + t.pos)
      <4>1. e \in b + Len(w) .. Len(f) /\ (ended => e = b + Len(w))
        BY <1>1 DEF MayEnd
      <4>2. PICK s : s = SubSeq(f, 1, e)
        OBVIOUS
      <4>3. Shows(s, b, w) /\ (ended => Whole(s, b, w))
        BY <4>1, <4>2, HoldsShows
      <4>4. Ahead(s, list, b + p)
        BY <3>1, <4>2
      <4>5. \/ t.tok = "ERROR"
            \/ ~ Whole(s, b, w) /\ Edge(w, t)
            \/ Ahead(s, Noted(list, w, t), b + t.pos)
        BY <2>2, <3>1, <4>3, <4>4, GoesAhead
      <4>6. Ahead(s, new, b + t.pos)
        BY <2>7, <3>3, <4>3, <4>5, Zenon DEF Lost
      <4> QED
        BY <4>2, <4>6, Zenon
    <3>6. Right(f, w, ended, b, n, new)
      BY <2>4, <3>4, <3>5, Zenon DEF Right
    <3> QED
      BY <2>5, <3>2, <3>6, Zenon
  <2>8. CASE Lost(w, ended, t)
    <3>1. Edge(w, n) <=> Edge(w, t)
      BY <2>3, TokensTheSame, Zenon
    <3>2. Lost(w, ended, n)
      BY <2>4, <2>8, <3>1, Zenon DEF Lost
    <3> QED
      BY <2>5, <3>2, Zenon DEF Right
  <2> QED
    BY <2>6, <2>7, <2>8
<1> QED
  BY <1>2, <1>3

(* A slide at a separator leaves the lexer at the same place of the file,   *)
(* which then may end in fewer places.                                     *)
LEMMA RightSlides ==
  ASSUME NEW f, NEW b, NEW w, NEW l, NEW list, Right(f, w, FALSE, b, l, list), IsSeparator(w, l),
         NEW b2, NEW w2, NEW ended \in BOOLEAN, NEW l2, l2.tok = l.tok, b2 + l2.pos = b + l.pos,
         MayEnd(f, w2, ended, b2) \subseteq MayEnd(f, w, FALSE, b)
  PROVE  Right(f, w2, ended, b2, l2, list)
<1>1. ~ Lost(w, FALSE, l)
  BY Zenon DEF Lost, Edge, IsSeparator
<1>2. /\ list \in Seq(Items)
      /\ \A e \in MayEnd(f, w, FALSE, b) : Ahead(SubSeq(f, 1, e), list, b + l.pos)
  BY <1>1, Zenon DEF Right
<1>3. \A e \in MayEnd(f, w2, ended, b2) : Ahead(SubSeq(f, 1, e), list, b2 + l2.pos)
  BY <1>2, Zenon
<1> QED
  BY <1>2, <1>3, Zenon DEF Right

-----------------------------------------------------------------------------
(* The window under the lexer is the one of SrcWin. *)
Proved == INSTANCE SrcWinProofs WITH
            Byte <- STRING,
            pos <- L.pos, tok_pos <- L.tok_pos,
            held <- IF saved = None
                    THEN [pos |-> -1, tok_pos |-> -1]
                    ELSE [pos |-> saved.L.pos, tok_pos |-> saved.L.tok_pos]

WindowInv == Window!WinTypeOK /\ Window!WindowShowsFile

LEMMA SameInv == WindowInv <=> Proved!WinInv
  BY Zenon DEF WindowInv, Window!WinTypeOK, Window!WindowShowsFile, Window!NotHeld,
     Proved!WinInv, Proved!WinTypeOK, Proved!WindowShowsFile, Proved!NotHeld

LEMMA SameNext == [Window!WinNext]_(Window!winVars) <=> [Proved!WinNext]_(Proved!winVars)
<1>1. Window!WinNext <=> Proved!WinNext
  BY Zenon DEF Window!WinNext, Window!Scan, Window!PutAside, Window!ComeBack, Window!GoOn,
     Window!Refill, Window!srcwin_refill, Window!Slides, Window!top_up, Window!rd,
     Window!Least, Window!NotHeld,
     Proved!WinNext, Proved!Scan, Proved!PutAside, Proved!ComeBack, Proved!GoOn,
     Proved!Refill, Proved!srcwin_refill, Proved!Slides, Proved!top_up, Proved!rd,
     Proved!Least, Proved!NotHeld
<1>2. UNCHANGED (Window!winVars) <=> UNCHANGED (Proved!winVars)
  BY Zenon DEF Window!winVars, Proved!winVars
<1> QED
  BY <1>1, <1>2, Zenon

LEMMA WindowStep ==
  ASSUME WindowInv, [Window!WinNext]_(Window!winVars)
  PROVE  WindowInv'
<1>1. Proved!WinInv /\ [Proved!WinNext]_(Proved!winVars) => Proved!WinInv'
  BY Proved!WinStep, CapIsPositive
<1>2. Proved!WinInv /\ [Proved!WinNext]_(Proved!winVars)
  BY SameInv, SameNext, Zenon
<1>3. Proved!WinInv' => WindowInv'
  BY SameInv, PTL
<1> QED
  BY <1>1, <1>2, <1>3, Zenon

LEMMA WindowInit == Window!WinInit => WindowInv
<1>1. Proved!WinInit => Proved!WinInv
  BY Proved!WinInit1, CapIsPositive
<1>2. Window!WinInit <=> Proved!WinInit
  BY Zenon DEF Window!WinInit, Window!Least, Window!NotHeld,
     Proved!WinInit, Proved!Least, Proved!NotHeld
<1> QED
  BY <1>1, <1>2, SameInv, Zenon

-----------------------------------------------------------------------------
(* The invariant: the lexer, and the copy of it that is kept, are records   *)
(* at a place in the window, and know the line of that place in the file.  *)
Counted(l) == l.line = 1 + Cardinality(Ends(file, 0, base + l.pos))

Sound(l) == LexOK(l) /\ Counted(l)

Inv ==
  /\ TypeOK
  /\ Window!WindowShowsFile
  /\ Sound(L)
  /\ saved # None => Sound(saved.L)

LEMMA Bounds ==
  ASSUME Inv
  PROVE  /\ file \in Seq(Byte) /\ win \in Seq(Byte) /\ base \in Nat
         /\ Len(file) \in Nat /\ Len(win) \in Nat /\ base + Len(win) <= Len(file)
         /\ win = SubSeq(file, base + 1, base + Len(win))
         /\ L.pos \in 0 .. Len(win) /\ L.tok_pos \in 0 .. L.pos
         /\ LexOK(L) /\ Counted(L) /\ WindowInv
<1>1. file \in Seq(Byte) /\ win \in Seq(Byte)
  BY DEF Inv, TypeOK, Window!WinTypeOK, Byte
<1>2. base \in Nat /\ L.pos \in 0 .. Len(win) /\ L.tok_pos \in 0 .. L.pos
  BY DEF Inv, TypeOK, Window!WinTypeOK
<1>3. base + Len(win) <= Len(file) /\ win = SubSeq(file, base + 1, base + Len(win))
  BY DEF Inv, Window!WindowShowsFile
<1>4. LexOK(L) /\ Counted(L) /\ WindowInv
  BY DEF Inv, Sound, TypeOK, WindowInv
<1> QED
  BY <1>1, <1>2, <1>3, <1>4, LenProperties

(* The end-of-line bytes of a stretch of the window are the file's. *)
LEMMA EndsInWindow ==
  ASSUME Inv, NEW a \in 0 .. Len(win), NEW b \in a .. Len(win)
  PROVE  Cardinality(Ends(win, a, b)) = Cardinality(Ends(file, base + a, base + b))
<1> DEFINE n == Len(win)
           x == SubSeq(win, a + 1, b)
           y == SubSeq(file, base + a + 1, base + b)
<1>1. /\ file \in Seq(Byte) /\ win \in Seq(Byte) /\ base \in Nat
      /\ Len(file) \in Nat /\ n \in Nat /\ base + n <= Len(file)
      /\ win = SubSeq(file, base + 1, base + n)
  BY Bounds
<1>2. /\ base \in 0 .. Len(file) /\ base + n \in base .. Len(file)
      /\ base + a \in 0 .. Len(file) /\ base + b \in base + a .. Len(file)
  BY <1>1
<1>3. \A i \in 1 .. n : win[i] = file[base + i]
  <2>1. base + n - base = n
    BY <1>1
  <2> DEFINE m == base + n
  <2> HIDE DEF m, n
  <2>2. m \in base .. Len(file)
    BY <1>2 DEF m
  <2>3. \A i \in 1 .. m - base : SubSeq(file, base + 1, m)[i] = file[base + i]
    BY <1>1, <1>2, <2>2, PieceIs
  <2>4. win = SubSeq(file, base + 1, m) /\ m - base = n
    BY <1>1, <2>1 DEF m
  <2> QED
    BY <2>3, <2>4, Zenon
<1>4. Len(x) = b - a /\ x \in Seq(Byte) /\ \A i \in 1 .. b - a : x[i] = win[a + i]
  <2>1. win \in Seq(Byte)
    BY <1>1
  <2>2. /\ Piece(win, a, b) = SubSeq(win, a + 1, b) /\ Piece(win, a, b) \in Seq(Byte)
        /\ Len(Piece(win, a, b)) = b - a
        /\ \A i \in 1 .. b - a : Piece(win, a, b)[i] = win[a + i]
    BY ONLY <2>1, a \in 0 .. Len(win), b \in a .. Len(win), PieceIs
  <2> QED
    BY <2>2, Zenon
<1>5. Len(y) = b - a /\ y \in Seq(Byte) /\ \A i \in 1 .. b - a : y[i] = file[base + a + i]
  <2>1. base + b - (base + a) = b - a
    BY <1>1
  <2> DEFINE u == base + a
             v == base + b
  <2>2. u \in 0 .. Len(file) /\ v \in u .. Len(file) /\ v - u = b - a
    BY <1>2, <2>1
  <2> HIDE DEF u, v
  <2>3. /\ Len(SubSeq(file, u + 1, v)) = v - u /\ SubSeq(file, u + 1, v) \in Seq(Byte)
        /\ \A i \in 1 .. v - u : SubSeq(file, u + 1, v)[i] = file[u + i]
    <3>1. file \in Seq(Byte) /\ u \in 0 .. Len(file) /\ v \in u .. Len(file)
      BY <1>1, <2>2, Zenon
    <3>2. /\ Piece(file, u, v) = SubSeq(file, u + 1, v) /\ Piece(file, u, v) \in Seq(Byte)
          /\ Len(Piece(file, u, v)) = v - u
          /\ \A i \in 1 .. v - u : Piece(file, u, v)[i] = file[u + i]
      BY ONLY <3>1, PieceIs
    <3> QED
      BY <3>2, Zenon
  <2>4. y = SubSeq(file, u + 1, v)
    BY DEF u, v
  <2> QED
    BY <2>2, <2>3, <2>4 DEF u
<1>6. \A i \in 1 .. Len(x) : x[i] = y[i]
  <2> HIDE DEF x, y
  <2>1. ASSUME NEW i \in 1 .. b - a
        PROVE  x[i] = y[i]
    <3>1. a + i \in 1 .. n /\ base + (a + i) = base + a + i
      BY <1>1
    <3>2. win[a + i] = file[base + (a + i)]
      BY ONLY <1>3, <3>1
    <3>3. x[i] = win[a + i] /\ y[i] = file[base + a + i]
      BY <1>4, <1>5, Zenon
    <3> QED
      BY <3>1, <3>2, <3>3, Zenon
  <2> QED
    BY <1>4, <2>1
<1> HIDE DEF x, y
<1>7. x = y
  BY <1>4, <1>5, <1>6, SeqEqual
<1>8. Eols(x) = Cardinality(Ends(win, a, b))
  BY <1>1, EolsAre DEF x
<1>9. Eols(y) = Cardinality(Ends(file, base + a, base + b))
  BY <1>1, <1>2, EolsAre DEF y
<1> QED
  BY <1>7, <1>8, <1>9

(* A token read leaves the lexer in the window, with the line it is at. *)
LEMMA LexStep ==
  ASSUME Inv, Lex
  PROVE  /\ Sound(L)'
         /\ L'.pos \in L.pos .. Len(win)
         /\ L'.tok_pos \in L.tok_pos .. L'.pos
         /\ UNCHANGED <<file, win, eof, base, failed>>
<1>1. /\ win \in Seq(Byte) /\ base \in Nat /\ Len(win) \in Nat
      /\ L.pos \in 0 .. Len(win) /\ L.tok_pos \in 0 .. L.pos
      /\ LexOK(L) /\ Counted(L)
  BY Bounds
<1>2. L' = lexer_next(win, L) /\ UNCHANGED <<file, win, eof, base, failed>>
  BY DEF Lex
<1>3. PICK n : n = lexer_next(win, L)
  OBVIOUS
<1>4. /\ LexOK(n)
      /\ n.pos \in L.pos .. Len(win) /\ n.tok_pos \in L.tok_pos .. n.pos
      /\ n.line = L.line + Cardinality(Ends(win, L.pos, n.pos))
  BY <1>1, <1>3, NextIs
<1>5. Cardinality(Ends(win, L.pos, n.pos)) = Cardinality(Ends(file, base + L.pos, base + n.pos))
  BY <1>1, <1>4, EndsInWindow
<1>6. Cardinality(Ends(file, 0, base + n.pos))
        = Cardinality(Ends(file, 0, base + L.pos))
            + Cardinality(Ends(file, base + L.pos, base + n.pos))
  <2>1. /\ 0 \in Int /\ base + L.pos \in Int /\ base + n.pos \in Int
        /\ 0 <= base + L.pos /\ base + L.pos <= base + n.pos
    BY <1>1, <1>4
  <2> QED
    BY <2>1, EndsAdd
<1>7. /\ Cardinality(Ends(file, 0, base + L.pos)) \in Nat
      /\ Cardinality(Ends(file, base + L.pos, base + n.pos)) \in Nat
  <2>1. 0 \in Int /\ base + L.pos \in Int /\ base + n.pos \in Int
    BY <1>1, <1>4
  <2> QED
    BY <2>1, EndsAre
<1>8. n.line = 1 + Cardinality(Ends(file, 0, base + n.pos))
  BY <1>1, <1>4, <1>5, <1>6, <1>7 DEF Counted
<1>9. L' = n
  BY <1>2, <1>3
<1>10. Sound(L)'
  <2>1. file' = file /\ base' = base
    BY <1>2
  <2>2. Counted(L)'
    BY <1>8, <1>9, <2>1 DEF Counted, Ends
  <2>3. LexOK(L)'
    BY <1>4, <1>9 DEF LexOK
  <2> QED
    BY <2>2, <2>3 DEF Sound
<1> QED
  BY <1>2, <1>4, <1>9, <1>10

-----------------------------------------------------------------------------
(* Each step as the reader of SrcWin takes it. *)
Copy == IF saved = None THEN [pos |-> -1, tok_pos |-> -1]
                        ELSE [pos |-> saved.L.pos, tok_pos |-> saved.L.tok_pos]

(* What a step leaves true of the window and of the two lexers. *)
Kept == WindowInv' /\ Sound(L)' /\ (saved' # None => Sound(saved.L)')

Reads == [Window!WinNext]_(Window!winVars)

LEMMA SameLexers ==
  ASSUME Inv, file' = file, base' = base
  PROVE  /\ L' = L => Sound(L)'
         /\ saved' = saved => (saved' # None => Sound(saved.L)')
         /\ saved # None /\ L' = saved.L => Sound(L)'
  BY Zenon DEF Inv, Sound, LexOK, Counted, Ends

At(l, k) == [l EXCEPT !.pos = k, !.tok_pos = 0]

LEMMA AtIs ==
  ASSUME NEW l, LexOK(l), NEW k \in Nat
  PROVE  /\ LexOK(At(l, k)) /\ At(l, k).pos = k
         /\ At(l, k).line = l.line /\ At(l, k).tok = l.tok
<1> PICK m : m = At(l, k)
  OBVIOUS
<1> DEFINE a == l.tok
           b == l.tok_len
           c == l.tok_line
           d == l.int_val
<1>1. l \in [pos : Nat, line : Nat, tok : {a}, tok_pos : Nat, tok_len : {b},
             tok_line : {c}, int_val : {d}]
  BY DEF LexOK
<1> HIDE DEF a, b, c, d
<1>2. /\ m \in [pos : Nat, line : Nat, tok : {a}, tok_pos : Nat, tok_len : {b},
                tok_line : {c}, int_val : {d}]
      /\ m.pos = k /\ m.line = l.line
  BY ONLY <1>1, k \in Nat, m = At(l, k) DEF At
<1>3. m.tok = a /\ m.tok_len = b /\ m.tok_line = c /\ m.int_val = d
  BY <1>2
<1> QED
  BY <1>2, <1>3, Zenon DEF LexOK, a

LEMMA Reading ==
  ASSUME Inv, Lex, UNCHANGED saved
  PROVE  Reads /\ Kept
<1>1. /\ Sound(L)'
      /\ L'.pos \in L.pos .. Len(win)
      /\ L'.tok_pos \in L.tok_pos .. L'.pos
      /\ UNCHANGED <<file, win, eof, base, failed>>
  BY LexStep
<1>2. Window!Scan
  BY <1>1, Zenon DEF Window!Scan
<1>3. Reads
  BY <1>2, Zenon DEF Reads, Window!WinNext
<1>4. WindowInv'
  BY <1>3, Bounds, WindowStep DEF Reads
<1>5. saved' # None => Sound(saved.L)'
  BY <1>1, SameLexers, Zenon
<1> QED
  BY <1>1, <1>3, <1>4, <1>5, Zenon DEF Kept

LEMMA Standing ==
  ASSUME Inv, Stay, UNCHANGED saved
  PROVE  Reads /\ Kept
<1>1. UNCHANGED <<file, win, eof, base, L, saved>>
  BY Zenon DEF Stay
<1>2. UNCHANGED (Window!winVars)
  BY <1>1, Zenon DEF Window!winVars
<1>3. Reads
  BY <1>2, Zenon DEF Reads
<1>4. WindowInv'
  BY <1>3, Bounds, WindowStep DEF Reads
<1>5. Sound(L)' /\ (saved' # None => Sound(saved.L)')
  BY <1>1, SameLexers, Zenon
<1> QED
  BY <1>3, <1>4, <1>5, Zenon DEF Kept

LEMMA NotCopied == [pos |-> -1, tok_pos |-> -1] = Window!NotHeld
  BY Zenon DEF Window!NotHeld

(* The hook, when no copy is kept. *)
LEMMA Sliding ==
  ASSUME Inv, NEW fails \in BOOLEAN, SlideAt(fails), UNCHANGED <<file, saved>>, saved = None
  PROVE  Reads /\ Kept
<1>1. /\ base \in Nat /\ Len(win) \in Nat
      /\ L.pos \in 0 .. Len(win) /\ L.tok_pos \in 0 .. L.pos
      /\ LexOK(L) /\ Counted(L)
  BY Bounds
<1>2. Window!srcwin_refill(fails)
  BY Zenon DEF SlideAt
<1>3. Window!Refill
  BY <1>2, Zenon DEF Window!Refill, Window!NotHeld
<1>4. Reads
  BY <1>3, Zenon DEF Reads, Window!WinNext
<1>5. WindowInv'
  BY <1>4, Bounds, WindowStep DEF Reads
<1>6. saved' # None => Sound(saved.L)'
  BY Zenon
<1>7. Sound(L)'
  <2>1. CASE Window!Slides
    <3>1. L' = [L EXCEPT !.pos = @ - L.tok_pos, !.tok_pos = 0]
      BY <2>1, Zenon DEF SlideAt
    <3>2. base' = base + L.tok_pos
      BY <1>2, <2>1, Zenon DEF Window!srcwin_refill
    <3>3. /\ L'.pos = L.pos - L.tok_pos /\ L'.line = L.line
          /\ LexOK(L)'
      <4>1. PICK l : l = [L EXCEPT !.pos = @ - L.tok_pos, !.tok_pos = 0]
        OBVIOUS
      <4>2. LexOK(l) /\ l.pos = L.pos - L.tok_pos /\ l.line = L.line
        <5>1. PICK k \in Nat : k = L.pos - L.tok_pos
          BY <1>1
        <5>2. l = At(L, k)
          BY <4>1, <5>1, Zenon DEF At
        <5>3. LexOK(L)
          BY <1>1
        <5>4. LexOK(l) /\ l.pos = k /\ l.line = L.line
          BY ONLY <5>1, <5>2, <5>3, AtIs
        <5> QED
          BY ONLY <5>1, <5>4
      <4>3. L' = l
        BY <3>1, <4>1, Zenon
      <4> QED
        BY <4>2, <4>3, Zenon DEF LexOK
    <3>4. base' + L'.pos = base + L.pos
      BY <1>1, <3>2, <3>3
    <3>5. Counted(L)'
      BY <1>1, <3>3, <3>4, Zenon DEF Counted, Ends
    <3> QED
      BY <3>3, <3>5, Zenon DEF Sound
  <2>2. CASE ~ Window!Slides
    <3>1. L' = L /\ base' = base
      BY <1>2, <2>2, Zenon DEF SlideAt, Window!srcwin_refill
    <3> QED
      BY <3>1, SameLexers, Zenon
  <2> QED
    BY <2>1, <2>2
<1> QED
  BY <1>4, <1>5, <1>6, <1>7, Zenon DEF Kept

LEMMA PuttingAside ==
  ASSUME Inv, saved = None, Stay, saved' = [L |-> L, taken |-> taken, none |-> FALSE]
  PROVE  Reads /\ Kept /\ saved' # None
<1>1. UNCHANGED <<file, win, eof, base, L>>
  BY Zenon DEF Stay
<1>2. saved' # None /\ saved'.L = L
  BY DEF None
<1>3. Window!PutAside
  BY <1>1, <1>2, Zenon DEF Window!PutAside, Window!NotHeld
<1>4. Reads
  BY <1>3, Zenon DEF Reads, Window!WinNext
<1>5. WindowInv'
  BY <1>4, Bounds, WindowStep DEF Reads
<1>6. Sound(L)'
  BY <1>1, SameLexers, Zenon
<1>7. Sound(saved.L)'
  BY <1>1, <1>2, <1>6, Zenon DEF Sound, LexOK, Counted, Ends
<1> QED
  BY <1>2, <1>4, <1>5, <1>6, <1>7, Zenon DEF Kept

LEMMA CopyIsHeld ==
  ASSUME Inv, saved # None
  PROVE  Copy # Window!NotHeld /\ Copy.pos = saved.L.pos /\ Copy.tok_pos = saved.L.tok_pos
<1>1. saved.L.pos \in Nat
  BY Zenon DEF Inv, Sound, LexOK
<1> QED
  BY <1>1 DEF Copy, Window!NotHeld

LEMMA ComingBack ==
  ASSUME Inv, saved # None, saved' = None, L' = saved.L, UNCHANGED <<file, win, eof, base>>
  PROVE  Reads /\ Kept
<1>1. Window!ComeBack
  BY CopyIsHeld, Zenon DEF Copy, Window!ComeBack, Window!NotHeld
<1>2. Reads
  BY <1>1, Zenon DEF Reads, Window!WinNext
<1>3. WindowInv'
  BY <1>2, Bounds, WindowStep DEF Reads
<1>4. Sound(L)'
  BY SameLexers, Zenon
<1> QED
  BY <1>2, <1>3, <1>4, Zenon DEF Kept

LEMMA GoingOn ==
  ASSUME Inv, saved # None, saved' = None, Lex
  PROVE  Reads /\ Kept
<1>1. /\ Sound(L)'
      /\ L'.pos \in L.pos .. Len(win)
      /\ L'.tok_pos \in L.tok_pos .. L'.pos
      /\ UNCHANGED <<file, win, eof, base, failed>>
  BY LexStep
<1>2. Window!GoOn
  BY <1>1, CopyIsHeld, Zenon DEF Copy, Window!GoOn, Window!NotHeld
<1>3. Reads
  BY <1>2, Zenon DEF Reads, Window!WinNext
<1>4. WindowInv'
  BY <1>3, Bounds, WindowStep DEF Reads
<1> QED
  BY <1>1, <1>3, <1>4, Zenon DEF Kept

-----------------------------------------------------------------------------
(* The parser's own part of the state. *)
Places == {"start", "skip", "advance", "expression", "if", "condition",
           "look ahead", "probe", "else", "end"}

Control ==
  /\ file \in Files
  /\ at \in Places
  /\ (saved # None) = (at = "probe")
  /\ arms \in Seq({"then", "else"})
  /\ status \in {"compiling", "accepted", "rejected"}
  /\ failed \in BOOLEAN

LEMMA Parts == Inv <=> /\ Control /\ WindowInv /\ Sound(L)
                       /\ saved # None => Sound(saved.L)
  BY Zenon DEF Inv, TypeOK, Control, Places, WindowInv

LEMMA PartsAfter ==
  ASSUME Control', Kept
  PROVE  Inv'
  BY Zenon DEF Inv, TypeOK, Control, Places, WindowInv, Kept

LEMMA Probing ==
  ASSUME Inv
  PROVE  (saved # None) <=> (at = "probe")
  BY Zenon DEF Inv, TypeOK

(* A step that reads a token or none and keeps the copy as it is. *)
LEMMA Ordinary ==
  ASSUME Inv, Lex \/ Stay, UNCHANGED saved, (at = "probe") <=> (at' = "probe"), at' \in Places,
         arms' \in Seq({"then", "else"}), status' \in {"compiling", "accepted", "rejected"}
  PROVE  Reads /\ Inv'
<1>1. Reads /\ Kept
  BY Reading, Standing, Zenon
<1>2. file' = file /\ failed' = failed
  BY Zenon DEF Lex, Stay
<1>3. (saved' # None) <=> (at' = "probe")
  BY Probing, Zenon
<1>4. (saved' # None) = (at' = "probe")
  BY <1>3, Zenon
<1>5. Control'
  BY <1>2, <1>4, Parts, Zenon DEF Control
<1> QED
  BY <1>1, <1>5, PartsAfter, Zenon

LEMMA Rejecting ==
  ASSUME Inv, parser_fail
  PROVE  Reads /\ Inv'
<1>1. Stay /\ UNCHANGED saved /\ at' = at /\ arms' = arms /\ status' = "rejected"
  BY Zenon DEF parser_fail
<1>2. at' \in Places /\ arms' \in Seq({"then", "else"})
  BY <1>1, Parts, Zenon DEF Control
<1>3. status' \in {"compiling", "accepted", "rejected"}
  BY <1>1, Zenon
<1> QED
  BY <1>1, <1>2, <1>3, Ordinary, Zenon

(* The same where only the place changes. *)
LEMMA Moving ==
  ASSUME Inv, Lex \/ Stay, UNCHANGED <<saved, arms, status>>,
         (at = "probe") <=> (at' = "probe"), at' \in Places
  PROVE  Reads /\ Inv'
<1>1. arms' \in Seq({"then", "else"}) /\ status' \in {"compiling", "accepted", "rejected"}
  BY Parts, Zenon DEF Control
<1> QED
  BY <1>1, Ordinary, Zenon

LEMMA Entering ==
  ASSUME Inv, NEW arm \in {"then", "else"}, Enter(arm), at # "probe"
  PROVE  Reads /\ Inv'
<1>1. Lex /\ at' = "skip" /\ arms' = Append(arms, arm) /\ UNCHANGED <<saved, status>>
  BY Zenon DEF Enter, Read, Goto
<1>2. arms \in Seq({"then", "else"}) /\ status' \in {"compiling", "accepted", "rejected"}
  BY <1>1, Parts, Zenon DEF Control
<1>3. arms' \in Seq({"then", "else"})
  <2>1. \A S : \A x \in Seq(S) : \A y \in S : Append(x, y) \in Seq(S)
    BY AppendProperties
  <2> QED
    BY <1>1, <1>2, <2>1, Zenon
<1>4. at' \in Places
  BY <1>1, Zenon DEF Places
<1>5. (at = "probe") <=> (at' = "probe")
  BY <1>1, Zenon
<1> QED
  BY <1>1, <1>2, <1>3, <1>4, <1>5, Ordinary, Zenon

LEMMA Skipping ==
  ASSUME Inv, SkipSeparator
  PROVE  Reads /\ Inv'
<1>1. PICK fails \in BOOLEAN : SlideAt(fails) /\ failed' = (failed \/ (fails /\ base' # base))
  BY Zenon DEF SkipSeparator
<1>2. /\ at = "skip" /\ at' = "advance"
      /\ UNCHANGED <<file, saved, arms, status>>
  BY Zenon DEF SkipSeparator, Goto
<1>3. saved = None
  BY <1>2, Probing, Zenon
<1>4. Reads /\ Kept
  BY <1>1, <1>2, <1>3, Sliding, Zenon
<1>5. failed' \in BOOLEAN
  BY <1>1
<1>6. (saved' # None) = (at' = "probe")
  BY <1>2, <1>3, Zenon
<1>7. Control'
  BY <1>2, <1>5, <1>6, Parts, Zenon DEF Control, Places
<1> QED
  BY <1>4, <1>7, PartsAfter, Zenon

(* The look ahead: its beginning and its two ends. *)
LEMMA Looking ==
  ASSUME Inv, LookAhead \/ FoundElse \/ NoElse
  PROVE  Reads /\ Inv'
<1>1. CASE LookAhead
  <2>1. /\ at = "look ahead" /\ saved' = [L |-> L, taken |-> taken, none |-> FALSE]
        /\ at' = "probe" /\ Stay /\ UNCHANGED <<arms, status>>
    BY <1>1, Zenon DEF LookAhead, Goto
  <2>2. saved = None
    BY <2>1, Probing, Zenon
  <2>3. Reads /\ Kept /\ saved' # None
    BY <2>1, <2>2, PuttingAside, Zenon
  <2>4. (saved' # None) = (at' = "probe")
    BY <2>1, <2>3, Zenon
  <2>5. Control'
    BY <2>1, <2>4, Parts, Zenon DEF Control, Places, Stay
  <2> QED
    BY <2>3, <2>5, PartsAfter, Zenon
<1>2. CASE FoundElse
  <2>1. /\ at = "probe" /\ saved' = None /\ at' = "else" /\ Lex /\ UNCHANGED <<arms, status>>
    BY <1>2, Zenon DEF FoundElse, Goto, Read
  <2>2. Reads /\ Kept
    BY <2>1, Probing, GoingOn, Zenon
  <2>3. (saved' # None) = (at' = "probe")
    BY <2>1, Zenon
  <2>4. Control'
    BY <2>1, <2>3, Parts, Zenon DEF Control, Places, Lex
  <2> QED
    BY <2>2, <2>4, PartsAfter, Zenon
<1>3. CASE NoElse
  <2>1. /\ at = "probe" /\ saved' = None /\ at' = "end" /\ L' = saved.L
        /\ UNCHANGED <<file, win, eof, base, arms, status, failed>>
    BY <1>3, Zenon DEF NoElse, Goto
  <2>2. Reads /\ Kept
    BY <2>1, Probing, ComingBack, Zenon
  <2>3. (saved' # None) = (at' = "probe")
    BY <2>1, Zenon
  <2>4. Control'
    BY <2>1, <2>3, Parts, Zenon DEF Control, Places
  <2> QED
    BY <2>2, <2>4, PartsAfter, Zenon
<1> QED
  BY <1>1, <1>2, <1>3

LEMMA Closing ==
  ASSUME Inv, CloseBlock
  PROVE  Reads /\ Inv'
<1>1. /\ at = "skip" /\ arms # << >> /\ Lex /\ arms' = Front(arms)
      /\ at' = IF Last(arms) = "then" THEN "look ahead" ELSE "end"
      /\ UNCHANGED <<saved, status>>
  BY Zenon DEF CloseBlock, Goto, Read
<1>2. arms \in Seq({"then", "else"}) /\ status' \in {"compiling", "accepted", "rejected"}
  BY <1>1, Parts, Zenon DEF Control
<1>3. arms' \in Seq({"then", "else"})
  <2>1. ASSUME NEW S, NEW x \in Seq(S), x # << >>
        PROVE  Front(x) \in Seq(S)
    <3>1. Len(x) \in Nat /\ \A i \in 1 .. Len(x) : x[i] \in S
      BY LenProperties, ElementOfSeq
    <3>2. \A i \in 1 .. Len(x) - 1 : x[i] \in S
      BY <3>1
    <3>3. SubSeq(x, 1, Len(x) - 1) \in Seq(S)
      BY <3>1, <3>2, SubSeqProperties
    <3> QED
      BY <3>3 DEF Front
  <2> QED
    BY <1>1, <1>2, <2>1, Zenon
<1>4. at' \in Places /\ at' # "probe"
  BY <1>1, Zenon DEF Places
<1>5. (at = "probe") <=> (at' = "probe")
  BY <1>1, <1>4, Zenon
<1> QED
  BY <1>1, <1>2, <1>3, <1>4, <1>5, Ordinary, Zenon

LEMMA Parsing ==
  ASSUME Inv, Prime \/ Advance \/ Statement \/ Expression \/ EndStatement \/ ProbeSeparator
  PROVE  Reads /\ Inv'
<1>1. CASE Prime
  <2>1. at = "start" /\ at' = "skip" /\ Lex /\ UNCHANGED <<saved, arms, status>>
    BY <1>1, Zenon DEF Prime, Goto
  <2>2. at' \in Places /\ ((at = "probe") <=> (at' = "probe"))
    BY <2>1, Zenon DEF Places
  <2> QED
    BY <2>1, <2>2, Moving, Zenon
<1>2. CASE Advance
  <2>1. at = "advance" /\ at' = "skip" /\ Lex /\ UNCHANGED <<saved, arms, status>>
    BY <1>2, Zenon DEF Advance, Goto, Read
  <2>2. at' \in Places /\ ((at = "probe") <=> (at' = "probe"))
    BY <2>1, Zenon DEF Places
  <2> QED
    BY <2>1, <2>2, Moving, Zenon
<1>3. CASE Statement
  <2>1. \/ parser_fail
        \/ /\ at = "skip" /\ at' \in {"if", "expression"}
           /\ Lex /\ UNCHANGED <<saved, arms, status>>
    BY <1>3, Zenon DEF Statement, Goto, Read
  <2>2. CASE parser_fail
    BY <2>2, Rejecting
  <2>3. CASE /\ at = "skip" /\ at' \in {"if", "expression"}
             /\ Lex /\ UNCHANGED <<saved, arms, status>>
    <3>1. at' \in Places /\ ((at = "probe") <=> (at' = "probe"))
      BY <2>3, Zenon DEF Places
    <3> QED
      BY <2>3, <3>1, Moving, Zenon
  <2> QED
    BY <2>1, <2>2, <2>3, Zenon
<1>4. CASE Expression
  <2>1. /\ at = "expression" /\ at' \in {"expression", "end"}
        /\ Lex \/ Stay
        /\ UNCHANGED <<saved, arms, status>>
    BY <1>4, Zenon DEF Expression, Goto, Read
  <2>2. at' \in Places /\ ((at = "probe") <=> (at' = "probe"))
    BY <2>1, Zenon DEF Places
  <2> QED
    BY <2>1, <2>2, Moving, Zenon
<1>5. CASE EndStatement
  <2>1. \/ parser_fail
        \/ at = "end" /\ at' = "skip" /\ Stay /\ UNCHANGED <<saved, arms, status>>
    BY <1>5, Zenon DEF EndStatement, Goto
  <2>2. CASE parser_fail
    BY <2>2, Rejecting
  <2>3. CASE at = "end" /\ at' = "skip" /\ Stay /\ UNCHANGED <<saved, arms, status>>
    <3>1. at' \in Places /\ ((at = "probe") <=> (at' = "probe"))
      BY <2>3, Zenon DEF Places
    <3> QED
      BY <2>3, <3>1, Moving, Zenon
  <2> QED
    BY <2>1, <2>2, <2>3, Zenon
<1>6. CASE ProbeSeparator
  <2>1. at' = at /\ Lex /\ UNCHANGED <<saved, arms, status>>
    BY <1>6, Zenon DEF ProbeSeparator, Read
  <2>2. at' \in Places /\ ((at = "probe") <=> (at' = "probe"))
    BY <2>1, Parts, Zenon DEF Control
  <2> QED
    BY <2>1, <2>2, Moving, Zenon
<1> QED
  BY <1>1, <1>2, <1>3, <1>4, <1>5, <1>6, Zenon

LEMMA Arms ==
  ASSUME Inv, Condition \/ ElseArm
  PROVE  Reads /\ Inv'
<1>1. CASE Condition
  <2>1. \/ parser_fail
        \/ at = "condition" /\ Enter("then")
        \/ /\ at \in {"if", "condition"} /\ at' = "condition"
           /\ Lex /\ UNCHANGED <<saved, arms, status>>
    BY <1>1, Zenon DEF Condition, Goto, Read
  <2>2. CASE parser_fail
    BY <2>2, Rejecting
  <2>3. CASE at = "condition" /\ Enter("then")
    <3>1. "then" \in {"then", "else"} /\ at # "probe"
      BY <2>3, Zenon
    <3> QED
      BY <2>3, <3>1, Entering, Zenon
  <2>4. CASE /\ at \in {"if", "condition"} /\ at' = "condition"
             /\ Lex /\ UNCHANGED <<saved, arms, status>>
    <3>1. at' \in Places /\ ((at = "probe") <=> (at' = "probe"))
      BY <2>4, Zenon DEF Places
    <3> QED
      BY <2>4, <3>1, Moving, Zenon
  <2> QED
    BY <2>1, <2>2, <2>3, <2>4, Zenon
<1>2. CASE ElseArm
  <2>1. \/ parser_fail
        \/ at = "else" /\ Enter("else")
        \/ at = "else" /\ at' = "if" /\ Lex /\ UNCHANGED <<saved, arms, status>>
    BY <1>2, Zenon DEF ElseArm, Goto, Read
  <2>2. CASE parser_fail
    BY <2>2, Rejecting
  <2>3. CASE at = "else" /\ Enter("else")
    <3>1. "else" \in {"then", "else"} /\ at # "probe"
      BY <2>3, Zenon
    <3> QED
      BY <2>3, <3>1, Entering, Zenon
  <2>4. CASE at = "else" /\ at' = "if" /\ Lex /\ UNCHANGED <<saved, arms, status>>
    <3>1. at' \in Places /\ ((at = "probe") <=> (at' = "probe"))
      BY <2>4, Zenon DEF Places
    <3> QED
      BY <2>4, <3>1, Moving, Zenon
  <2> QED
    BY <2>1, <2>2, <2>3, <2>4, Zenon
<1> QED
  BY <1>1, <1>2, Zenon

LEMMA Ending ==
  ASSUME Inv, BadEnd \/ Verdict
  PROVE  Reads /\ Inv'
<1>1. CASE BadEnd
  BY <1>1, Rejecting, Zenon DEF BadEnd
<1>2. CASE Verdict
  <2>1. /\ status' \in {"compiling", "accepted", "rejected"}
        /\ Stay /\ UNCHANGED <<saved, at, arms>>
    BY <1>2, Zenon DEF Verdict
  <2>2. /\ at' \in Places /\ arms' \in Seq({"then", "else"})
        /\ (at = "probe") <=> (at' = "probe")
    BY <2>1, Parts, Zenon DEF Control
  <2> QED
    BY <2>1, <2>2, Ordinary, Zenon
<1> QED
  BY <1>1, <1>2, Zenon

LEMMA StreamStep == Inv /\ [Next]_vars => Reads /\ Inv'
<1> SUFFICES ASSUME Inv, [Next]_vars PROVE Reads /\ Inv'
  OBVIOUS
<1>1. CASE Next
  <2>1. \/ SkipSeparator \/ CloseBlock \/ BadEnd \/ Verdict \/ Condition \/ ElseArm
        \/ Prime \/ Advance \/ Statement \/ Expression \/ EndStatement \/ ProbeSeparator
        \/ LookAhead \/ FoundElse \/ NoElse
    BY <1>1, Zenon DEF Next
  <2> QED
    BY <2>1, Skipping, Closing, Ending, Arms, Parsing, Looking, Zenon
<1>2. CASE UNCHANGED vars
  <2>1. Stay /\ UNCHANGED <<saved, arms, status, at>>
    BY <1>2, Zenon DEF vars, Stay
  <2>2. at' \in Places /\ ((at = "probe") <=> (at' = "probe"))
    BY <2>1, Parts, Zenon DEF Control
  <2> QED
    BY <2>1, <2>2, Moving, Zenon
<1> QED
  BY <1>1, <1>2

LEMMA StreamInit == Init => Window!WinInit /\ Inv
<1> SUFFICES ASSUME Init PROVE Window!WinInit /\ Inv
  OBVIOUS
<1>1. file \in Seq(STRING) /\ base = 0 /\ L = lexer_init /\ saved = None
  <2>1. file \in Files /\ base = 0 /\ L = lexer_init /\ saved = None
    BY Zenon DEF Init
  <2> QED
    BY <2>1, FileTexts
<1>2. /\ L.pos = 0 /\ L.tok_pos = 0 /\ L.line = 1
      /\ LexOK(L)
  BY <1>1 DEF lexer_init, LexOK
<1>3. \E got \in {0, Window!Least(Cap, Len(file))} :
        /\ win = SubSeq(file, 1, got)
        /\ eof = (got < Cap)
  BY Zenon DEF Init, Window!Least, Upto
<1>4. Window!WinInit
  BY <1>1, <1>2, <1>3, Zenon DEF Window!WinInit, Window!NotHeld
<1>5. WindowInv
  BY <1>4, WindowInit
<1>6. Counted(L)
  <2>1. Ends(file, 0, base + L.pos) = {}
    BY <1>1, <1>2 DEF Ends
  <2>2. Cardinality(Ends(file, 0, base + L.pos)) = 0
    BY <2>1, FS_EmptySet
  <2> QED
    BY <1>2, <2>2 DEF Counted
<1>7. Control
  <2>1. file \in Files /\ at = "start" /\ status = "compiling" /\ arms = << >>
    BY Zenon DEF Init
  <2>2. (saved # None) = (at = "probe")
    BY <1>1, <2>1, Zenon
  <2>3. arms \in Seq({"then", "else"})
    <3>1. \A S : << >> \in Seq(S)
      OBVIOUS
    <3> QED
      BY <2>1, <3>1, Zenon
  <2>4. failed \in BOOLEAN
    <3>1. PICK got : failed = (got < Upto(Cap, Len(file)))
      BY Zenon DEF Init
    <3> QED
      BY <3>1
  <2> QED
    BY <2>1, <2>2, <2>3, <2>4, Zenon DEF Control, Places
<1> QED
  BY <1>1, <1>2, <1>4, <1>5, <1>6, <1>7, Parts, Zenon DEF Sound

-----------------------------------------------------------------------------
(* What is so at every moment of a compile. *)
Known ==
  /\ Right(file, win, eof, base, L, taken)
  /\ L.tok = "EOF" /\ at # "start" => L.pos = Len(win)

KnownCopy ==
  saved # None =>
    /\ Right(file, win, eof, base, saved.L, saved.taken)
    /\ saved.L.tok = "EOF" => saved.L.pos = Len(win)

WholeList == at # "start" => whole.list = ListOf(file)

ReadToEnd == eof /\ ~ failed => base + Len(win) = Len(file)

AtTheEnd == status = "accepted" => eof /\ L.tok = "EOF" /\ at # "start"

RightInv == Known /\ KnownCopy /\ WholeList /\ ReadToEnd /\ AtTheEnd

LEMMA WindowHolds ==
  ASSUME Inv
  PROVE  Holds(file, base, win) /\ eof \in BOOLEAN /\ L.pos \in 0 .. Len(win)
<1>1. eof \in BOOLEAN
  BY Zenon DEF Inv, TypeOK, Window!WinTypeOK
<1> QED
  BY <1>1, Bounds DEF Holds

LEMMA KnownReads ==
  ASSUME Inv, Known, Lex
  PROVE  Known'
<1>1. /\ L' = lexer_next(win, L) /\ taken' = Noted(taken, win, L')
      /\ UNCHANGED <<file, win, eof, base>>
  BY Zenon DEF Lex
<1>2. Right(file, win, eof, base, L, taken)
  BY Zenon DEF Known
<1>3. PICK n : n = lexer_next(win, L)
  OBVIOUS
<1>4. Right(file, win, eof, base, n, Noted(taken, win, n)) /\ (n.tok = "EOF" => n.pos = Len(win))
  BY <1>2, <1>3, WindowHolds, RightReads
<1>5. L' = n /\ taken' = Noted(taken, win, n)
  BY <1>1, <1>3, Zenon
<1>6. Right(file', win', eof', base', L', taken')
  BY <1>1, <1>4, <1>5, Zenon
<1>7. L'.tok = "EOF" => L'.pos = Len(win')
  BY <1>1, <1>4, <1>5, Zenon
<1> QED
  BY <1>6, <1>7 DEF Known

LEMMA KnownStays ==
  ASSUME Known, UNCHANGED <<file, win, eof, base, L, taken>>, at = "start" => at' = "start"
  PROVE  Known'
<1>1. Right(file', win', eof', base', L', taken')
  BY Zenon DEF Known
<1>2. L.tok = "EOF" /\ at # "start" => L.pos = Len(win)
  BY Zenon DEF Known
<1>3. L'.tok = "EOF" /\ at' # "start" => L'.pos = Len(win')
  <2>1. L' = L /\ win' = win
    OBVIOUS
  <2> QED
    BY <1>2, <2>1, Zenon
<1> QED
  BY <1>1, <1>3 DEF Known

LEMMA CopyStays ==
  ASSUME KnownCopy, UNCHANGED <<file, win, eof, base>>, saved' = saved \/ saved' = None
  PROVE  KnownCopy'
<1>1. ASSUME saved' # None'
      PROVE  Right(file', win', eof', base', saved'.L, saved'.taken)
             /\ (saved'.L.tok = "EOF" => saved'.L.pos = Len(win'))
  BY <1>1, Zenon DEF KnownCopy
<1> QED
  BY <1>1 DEF KnownCopy

LEMMA KnownSlides ==
  ASSUME Inv, Known, ReadToEnd, NEW fails \in BOOLEAN, SlideAt(fails), Symb = "separator",
         failed' = (failed \/ (fails /\ base' # base)),
         UNCHANGED <<file, taken>>, at = "start" => at' = "start"
  PROVE  Known' /\ ReadToEnd'
<1>1. /\ file \in Seq(Byte) /\ win \in Seq(Byte) /\ base \in Nat
      /\ Len(file) \in Nat /\ Len(win) \in Nat /\ base + Len(win) <= Len(file)
      /\ L.pos \in 0 .. Len(win) /\ L.tok_pos \in 0 .. L.pos /\ LexOK(L)
  BY Bounds
<1>2. Window!srcwin_refill(fails)
  BY Zenon DEF SlideAt
<1>3. CASE ~ Window!Slides
  <2>1. UNCHANGED <<win, eof, base, L>>
    BY <1>2, <1>3, Zenon DEF SlideAt, Window!srcwin_refill
  <2>2. Known'
    BY <2>1, KnownStays, Zenon
  <2>3. failed' = failed
    <3>1. failed \in BOOLEAN
      BY Zenon DEF Inv, TypeOK
    <3> QED
      BY <2>1, <3>1
  <2>4. ReadToEnd'
    BY <2>1, <2>3, Zenon DEF ReadToEnd
  <2> QED
    BY <2>2, <2>4
<1>4. CASE Window!Slides
  <2>1. ~ eof /\ L.tok_pos # 0
    BY <1>4, Zenon DEF Window!Slides
  <2>2. PICK kept : kept = SubSeq(win, L.tok_pos + 1, Len(win))
    OBVIOUS
  <2>3. /\ base' = base + L.tok_pos
        /\ Window!top_up(kept, fails)
    BY <1>2, <1>4, <2>2, Zenon DEF Window!srcwin_refill
  <2>4. L' = [L EXCEPT !.pos = @ - L.tok_pos, !.tok_pos = 0]
    BY <1>4, Zenon DEF SlideAt
  <2>5. L'.pos = L.pos - L.tok_pos /\ L'.tok = L.tok
    <3>1. PICK l : l = [L EXCEPT !.pos = @ - L.tok_pos, !.tok_pos = 0]
      OBVIOUS
    <3>2. PICK k \in Nat : k = L.pos - L.tok_pos
      BY <1>1
    <3>3. l = At(L, k)
      BY <3>1, <3>2, Zenon DEF At
    <3>4. l.pos = k /\ l.tok = L.tok
      BY ONLY <1>1, <3>2, <3>3, AtIs
    <3> QED
      BY <2>4, <3>1, <3>2, <3>4, Zenon
  <2>6. base' + L'.pos = base + L.pos
    BY <1>1, <2>3, <2>5
  <2>7. Len(kept) = Len(win) - L.tok_pos /\ kept \in Seq(Byte)
    <3>1. PICK a \in 0 .. Len(win) : a = L.tok_pos
      BY <1>1
    <3>2. PICK m \in a .. Len(win) : m = Len(win)
      BY <1>1, <3>1
    <3>3. Len(SubSeq(win, a + 1, m)) = m - a /\ SubSeq(win, a + 1, m) \in Seq(Byte)
      <4>1. win \in Seq(Byte) /\ a \in 0 .. Len(win) /\ m \in a .. Len(win)
        BY <1>1, <3>1, <3>2
      <4>2. /\ Piece(win, a, m) = SubSeq(win, a + 1, m) /\ Piece(win, a, m) \in Seq(Byte)
            /\ Len(Piece(win, a, m)) = m - a
        BY ONLY <4>1, PieceIs
      <4> QED
        BY <4>2, Zenon
    <3> QED
      BY <2>2, <3>1, <3>2, <3>3, Zenon
  <2>8. PICK room : room = Cap - Len(kept)
    OBVIOUS
  <2>9. PICK got : got = IF fails THEN 0 ELSE Window!Least(room, Len(file) - (base + Len(win)))
    OBVIOUS
  <2>10. /\ win' = kept \o SubSeq(file, base + Len(win) + 1, base + Len(win) + got)
         /\ eof' = (got < room)
    BY <2>3, <2>8, <2>9, Zenon DEF Window!top_up, Window!rd
  <2>11. room \in Nat
    <3>1. Len(win) <= Cap
      BY Zenon DEF Inv, TypeOK, Window!WinTypeOK
    <3> QED
      <4>1. PICK k \in Nat : k = Len(kept)
        BY <1>1, <2>7
      <4>2. PICK m \in Nat : m = Len(win)
        BY <1>1
      <4>3. PICK a \in 0 .. m : a = L.tok_pos
        BY <1>1, <4>2
      <4>4. k = m - a /\ m <= Cap /\ room = Cap - k
        BY <2>7, <2>8, <3>1, <4>1, <4>2, <4>3, Zenon
      <4>5. Cap \in Nat
        BY CapIsPositive
      <4>6. Cap - (m - a) \in Nat
        BY ONLY m \in Nat, a \in 0 .. m, <4>4, <4>5
      <4> QED
        BY <4>4, <4>6, Zenon
  <2>12. got \in 0 .. Len(file) - (base + Len(win)) /\ got <= room
    BY <1>1, <2>9, <2>11 DEF Window!Least
  <2>13. base' + Len(win') = base + Len(win) + got
    <3>1. PICK u, v : u = base + Len(win) /\ v = base + Len(win) + got
      OBVIOUS
    <3>2. u \in 0 .. Len(file) /\ v \in u .. Len(file) /\ v - u = got
      BY <1>1, <2>12, <3>1
    <3>3. PICK more : more = SubSeq(file, u + 1, v)
      OBVIOUS
    <3>4. Len(more) = got /\ more \in Seq(Byte)
      <4>1. file \in Seq(Byte) /\ u \in 0 .. Len(file) /\ v \in u .. Len(file)
        BY <1>1, <3>2, Zenon
      <4>2. /\ Piece(file, u, v) = SubSeq(file, u + 1, v) /\ Piece(file, u, v) \in Seq(Byte)
            /\ Len(Piece(file, u, v)) = v - u
        BY ONLY <4>1, PieceIs
      <4> QED
        BY <3>2, <3>3, <4>2, Zenon
    <3>5. Len(kept \o more) = Len(kept) + Len(more)
      <4>1. kept \in Seq(Byte) /\ more \in Seq(Byte)
        BY <2>7, <3>4, Zenon
      <4> QED
        BY ONLY <4>1, ConcatProperties
    <3>6. win' = kept \o more
      BY <2>10, <3>1, <3>3, Zenon
    <3>7. Len(win') = Len(win) - L.tok_pos + got
      BY <2>7, <3>4, <3>5, <3>6, Zenon
    <3> QED
      BY <1>1, <2>3, <2>12, <3>7
  <2>14. MayEnd(file, win', eof', base') \subseteq MayEnd(file, win, FALSE, base)
    BY <1>1, <2>12, <2>13 DEF MayEnd
  <2>15. IsSeparator(win, L)
    BY SymbolIs, Zenon DEF Symb
  <2>16. L'.tok # "EOF"
    BY <2>5, <2>15, Zenon DEF IsSeparator
  <2>17. Right(file, win, FALSE, base, L, taken)
    <3>1. eof = FALSE
      BY <2>1, WindowHolds
    <3> QED
      BY <3>1, Zenon DEF Known
  <2>18. eof' \in BOOLEAN
    BY <2>10
  <2>19. Right(file, win', eof', base', L', taken)
    BY <2>5, <2>6, <2>14, <2>15, <2>17, <2>18, RightSlides
  <2>20. Known'
    <3>1. Right(file', win', eof', base', L', taken')
      BY <2>19, Zenon
    <3> QED
      BY <2>16, <3>1 DEF Known
  <2>21. ASSUME eof', ~ failed'
         PROVE  base' + Len(win') = Len(file)
    <3>1. base' # base
      BY <1>1, <2>1, <2>3
    <3>2. ~ fails
      BY <2>21, <3>1
    <3>3. got < room
      BY <2>10, <2>21
    <3>4. got = Len(file) - (base + Len(win))
      BY <1>1, <2>9, <2>11, <3>2, <3>3 DEF Window!Least
    <3> QED
      BY <1>1, <2>13, <3>4
  <2>22. ReadToEnd'
    BY <2>21, Zenon DEF ReadToEnd
  <2> QED
    BY <2>20, <2>22
<1> QED
  BY <1>3, <1>4

(* What a step does of the reading. *)
LEMMA ReadingKeeps ==
  ASSUME Inv, RightInv, Lex, at # "start", UNCHANGED whole, saved' = saved \/ saved' = None,
         status' = "compiling", status = "compiling"
  PROVE  RightInv'
<1>1. UNCHANGED <<file, win, eof, base, failed>>
  BY Zenon DEF Lex
<1>2. Known'
  BY KnownReads, Zenon DEF RightInv
<1>3. KnownCopy'
  BY <1>1, CopyStays, Zenon DEF RightInv
<1>4. whole'.list = ListOf(file')
  BY <1>1, Zenon DEF RightInv, WholeList
<1>5. eof' /\ ~ failed' => base' + Len(win') = Len(file')
  BY <1>1, Zenon DEF RightInv, ReadToEnd
<1> QED
  BY <1>2, <1>3, <1>4, <1>5, Zenon DEF RightInv, WholeList, ReadToEnd, AtTheEnd

LEMMA StandingKeeps ==
  ASSUME Inv, RightInv, Stay, at = "start" => at' = "start",
         status' = "accepted" => eof /\ L.tok = "EOF" /\ at' # "start",
         saved' = saved \/ saved' = None \/ (saved'.L = L /\ saved'.taken = taken /\ at # "start")
  PROVE  RightInv'
<1>1. UNCHANGED <<file, win, eof, base, L, failed, taken, whole>>
  BY Zenon DEF Stay
<1>2. Known'
  <2>1. UNCHANGED <<file, win, eof, base, L, taken>>
    BY <1>1, Zenon
  <2> QED
    BY <2>1, KnownStays, Zenon DEF RightInv
<1>3. KnownCopy'
  <2>1. CASE saved' = saved \/ saved' = None
    <3>1. UNCHANGED <<file, win, eof, base>>
      BY <1>1, Zenon
    <3> QED
      BY <2>1, <3>1, CopyStays, Zenon DEF RightInv
  <2>2. CASE saved'.L = L /\ saved'.taken = taken /\ at # "start"
    <3>1. Right(file', win', eof', base', saved'.L, saved'.taken)
      BY <1>1, <2>2, Zenon DEF RightInv, Known
    <3>2. saved'.L.tok = "EOF" => saved'.L.pos = Len(win')
      BY <1>1, <2>2, Zenon DEF RightInv, Known
    <3> QED
      BY <3>1, <3>2 DEF KnownCopy
  <2> QED
    BY <2>1, <2>2
<1>4. at' # "start" => whole'.list = ListOf(file')
  BY <1>1, Zenon DEF RightInv, WholeList
<1>5. eof' /\ ~ failed' => base' + Len(win') = Len(file')
  BY <1>1, Zenon DEF RightInv, ReadToEnd
<1>6. status' = "accepted" => eof' /\ L'.tok = "EOF" /\ at' # "start"
  BY <1>1, Zenon
<1> QED
  BY <1>2, <1>3, <1>4, <1>5, <1>6, Zenon DEF RightInv, WholeList, ReadToEnd, AtTheEnd

LEMMA PrimeKeeps ==
  ASSUME Inv, RightInv, Prime, status = "compiling"
  PROVE  RightInv'
<1>1. /\ at = "start" /\ Lex /\ UNCHANGED <<saved, arms, status>>
      /\ whole' = Reference(file)
  BY Zenon DEF Prime
<1>2. UNCHANGED <<file, win, eof, base, failed>>
  BY <1>1, Zenon DEF Lex
<1>3. Known'
  BY <1>1, KnownReads, Zenon DEF RightInv
<1>4. KnownCopy'
  BY <1>1, <1>2, CopyStays, Zenon DEF RightInv
<1>5. whole'.list = ListOf(file')
  <2>1. PICK x, y : x = ListOf(file) /\ y = Fits(file, Tokens(file))
    OBVIOUS
  <2>2. Reference(file) = [list |-> x, fits |-> y]
    BY <2>1, Zenon DEF Reference
  <2>3. Reference(file).list = x
    BY <2>2
  <2> QED
    BY <1>1, <1>2, <2>1, <2>3, Zenon
<1>6. eof' /\ ~ failed' => base' + Len(win') = Len(file')
  BY <1>2, Zenon DEF RightInv, ReadToEnd
<1>7. status' # "accepted"
  BY <1>1
<1> QED
  BY <1>3, <1>4, <1>5, <1>6, <1>7, Zenon DEF RightInv, WholeList, ReadToEnd, AtTheEnd

LEMMA SkippingKeeps ==
  ASSUME Inv, RightInv, SkipSeparator, status = "compiling"
  PROVE  RightInv'
<1>1. PICK fails \in BOOLEAN : SlideAt(fails) /\ failed' = (failed \/ (fails /\ base' # base))
  BY Zenon DEF SkipSeparator
<1>2. /\ at = "skip" /\ at' = "advance" /\ Symb = "separator"
      /\ UNCHANGED <<file, saved, arms, status, taken, whole>>
  BY Zenon DEF SkipSeparator, Goto
<1>3. at # "start" /\ at' # "start" /\ status' # "accepted"
  BY <1>2
<1>4. Known' /\ ReadToEnd'
  <2>1. UNCHANGED <<file, taken>>
    BY <1>2, Zenon
  <2> QED
    BY <1>1, <1>2, <1>3, <2>1, KnownSlides, Zenon DEF RightInv
<1>5. saved' = None'
  BY <1>2, Probing
<1>6. whole'.list = ListOf(file')
  BY <1>2, <1>3, Zenon DEF RightInv, WholeList
<1> QED
  BY <1>3, <1>4, <1>5, <1>6, Zenon DEF RightInv, KnownCopy, WholeList, AtTheEnd

(* p->L = saved *)
LEMMA ComingBackKeeps ==
  ASSUME Inv, RightInv, NoElse, status = "compiling"
  PROVE  RightInv'
<1>1. /\ at = "probe" /\ at' = "end" /\ L' = saved.L /\ taken' = saved.taken /\ saved' = None
      /\ UNCHANGED <<file, win, eof, base, arms, status, failed, whole>>
  BY Zenon DEF NoElse, Goto
<1>2. at # "start" /\ status' # "accepted"
  BY <1>1
<1>3. /\ Right(file, win, eof, base, saved.L, saved.taken)
      /\ saved.L.tok = "EOF" => saved.L.pos = Len(win)
  BY <1>1, Probing, Zenon DEF RightInv, KnownCopy
<1>4. Right(file', win', eof', base', L', taken')
  BY <1>1, <1>3, Zenon
<1>5. L'.tok = "EOF" => L'.pos = Len(win')
  BY <1>1, <1>3, Zenon
<1>6. Known'
  BY <1>4, <1>5 DEF Known
<1>7. saved' = None'
  BY <1>1
<1>8. whole'.list = ListOf(file')
  BY <1>1, <1>2, Zenon DEF RightInv, WholeList
<1>9. eof' /\ ~ failed' => base' + Len(win') = Len(file')
  BY <1>1, Zenon DEF RightInv, ReadToEnd
<1> QED
  BY <1>2, <1>6, <1>7, <1>8, <1>9, Zenon DEF RightInv, KnownCopy, WholeList, ReadToEnd, AtTheEnd

LEMMA RightStep == Inv /\ RightInv /\ [Next]_vars => RightInv'
<1> SUFFICES ASSUME Inv, RightInv, [Next]_vars PROVE RightInv'
  OBVIOUS
<1>1. CASE Next
  <2>1. status = "compiling"
    BY <1>1, Zenon DEF Next
  <2>2. ASSUME parser_fail PROVE RightInv'
    <3>1. Stay /\ UNCHANGED saved /\ at' = at /\ status' = "rejected"
      BY <2>2, Zenon DEF parser_fail
    <3>2. status' # "accepted"
      BY <3>1
    <3> QED
      BY <3>1, <3>2, StandingKeeps, Zenon
  <2>3. ASSUME Read, at # "start", UNCHANGED status, saved' = saved \/ saved' = None
        PROVE  RightInv'
    BY <2>1, <2>3, ReadingKeeps, Zenon DEF Read
  <2>4. ASSUME Stay, at # "start", UNCHANGED <<saved, status>>
        PROVE  RightInv'
    <3>1. status' # "accepted" /\ saved' = saved
      BY <2>1, <2>4
    <3> QED
      BY <2>4, <3>1, StandingKeeps, Zenon
  <2>5. CASE Advance
    BY <2>3, <2>5, Zenon DEF Advance
  <2>6. CASE Statement
    BY <2>2, <2>3, <2>6, Zenon DEF Statement
  <2>7. CASE Expression
    <3>1. at # "start"
      BY <2>7 DEF Expression
    <3> QED
      BY <2>3, <2>4, <2>7, <3>1, Zenon DEF Expression
  <2>8. CASE Condition
    BY <2>2, <2>3, <2>8, Zenon DEF Condition, Enter
  <2>9. CASE CloseBlock
    BY <2>3, <2>9, Zenon DEF CloseBlock
  <2>10. CASE BadEnd
    BY <2>2, <2>10, Zenon DEF BadEnd
  <2>11. CASE LookAhead
    <3>1. /\ at = "look ahead" /\ at' = "probe" /\ Stay /\ UNCHANGED <<arms, status>>
          /\ saved' = [L |-> L, taken |-> taken, none |-> FALSE]
      BY <2>11, Zenon DEF LookAhead, Goto
    <3>2. saved'.L = L /\ saved'.taken = taken
      BY <3>1
    <3>3. at # "start" /\ status' # "accepted"
      BY <2>1, <3>1
    <3> QED
      BY <3>1, <3>2, <3>3, StandingKeeps, Zenon
  <2>12. CASE ProbeSeparator
    BY <2>3, <2>12, Zenon DEF ProbeSeparator
  <2>13. CASE FoundElse
    BY <2>3, <2>13, Zenon DEF FoundElse
  <2>14. CASE NoElse
    BY <2>1, <2>14, ComingBackKeeps, Zenon
  <2>15. CASE ElseArm
    BY <2>2, <2>3, <2>15, Zenon DEF ElseArm, Enter
  <2>16. CASE EndStatement
    BY <2>2, <2>4, <2>16, Zenon DEF EndStatement
  <2>17. CASE Verdict
    <3>1. /\ at = "skip" /\ Symb = "EOF" /\ Stay /\ UNCHANGED <<saved, at, arms>>
          /\ status' = IF eof THEN "accepted" ELSE "rejected"
      BY <2>17, Zenon DEF Verdict
    <3>2. at # "start" /\ at' # "start" /\ (status' = "accepted" => eof)
      BY <3>1
    <3>3. L.tok = "EOF"
      BY <3>1, SymbolIs, Zenon DEF Symb
    <3> QED
      BY <3>1, <3>2, <3>3, StandingKeeps, Zenon
  <2>18. CASE Prime
    BY <2>1, <2>18, PrimeKeeps, Zenon
  <2>19. CASE SkipSeparator
    BY <2>1, <2>19, SkippingKeeps, Zenon
  <2> QED
    BY <1>1, <2>5, <2>6, <2>7, <2>8, <2>9, <2>10, <2>11, <2>12, <2>13, <2>14, <2>15, <2>16,
       <2>17, <2>18, <2>19, Zenon DEF Next
<1>2. CASE UNCHANGED vars
  <2>1. Stay /\ UNCHANGED <<saved, arms, status, at>>
    BY <1>2, Zenon DEF vars, Stay
  <2>2. status' = "accepted" => eof /\ L.tok = "EOF" /\ at' # "start"
    BY <2>1, Zenon DEF RightInv, AtTheEnd
  <2> QED
    BY <2>1, <2>2, StandingKeeps, Zenon
<1> QED
  BY <1>1, <1>2

(* Before the first token everything is still to come. *)
LEMMA RightInit == Init => RightInv
<1> SUFFICES ASSUME Init PROVE RightInv
  OBVIOUS
<1>1. /\ L = lexer_init /\ base = 0 /\ saved = None /\ at = "start" /\ taken = << >>
      /\ status = "compiling"
  BY Zenon DEF Init
<1>2. L.pos = 0
  BY <1>1 DEF lexer_init
<1>3. PICK got \in {0, Upto(Cap, Len(file))} :
        /\ win = SubSeq(file, 1, got)
        /\ eof = (got < Cap)
        /\ failed = (got < Upto(Cap, Len(file)))
  BY Zenon DEF Init
<1>4. file \in Seq(Byte) /\ Len(file) \in Nat
  BY StreamInit, Bounds
<1>5. << >> \in Seq(Items)
  OBVIOUS
<1>6. ASSUME NEW e \in MayEnd(file, win, eof, base)
      PROVE  Ahead(SubSeq(file, 1, e), << >>, base + L.pos)
  <2>1. PICK s : s = SubSeq(file, 1, e)
    OBVIOUS
  <2>2. s \in Seq(Byte)
    <3>1. base + Len(win) \in Nat /\ base + Len(win) <= Len(file)
      BY StreamInit, Bounds
    <3>2. e \in 0 .. Len(file)
      BY <1>4, <3>1 DEF MayEnd
    <3> QED
      BY <1>4, <2>1, <3>2
  <2>3. PICK f \in [0 .. Len(s) -> Seq(Items)] : Rest(s) = f
    BY <2>2, RestIs
  <2>4. f[0] \in Seq(Items)
    <3>1. 0 \in 0 .. Len(s)
      BY <2>2, LenProperties
    <3> QED
      BY <2>3, <3>1
  <2>5. Joined(<< >>, f[0]) = f[0]
    BY <1>5, <2>4, JoinedIs
  <2>6. base + L.pos = 0
    BY <1>1, <1>2
  <2> QED
    BY <2>1, <2>3, <2>5, <2>6, Zenon DEF Ahead
<1>7. Right(file, win, eof, base, L, taken)
  BY <1>1, <1>5, <1>6, Zenon DEF Right
<1>8. ReadToEnd
  <2>1. ASSUME eof, ~ failed PROVE base + Len(win) = Len(file)
    <3>1. got = Len(file)
      BY <1>3, <1>4, <2>1, CapIsPositive DEF Upto
    <3>2. SubSeq(file, 1, got) = file
      BY <1>4, <3>1, SubSeqProperties
    <3> QED
      BY <1>1, <1>3, <1>4, <3>2
  <2> QED
    BY <2>1, Zenon DEF ReadToEnd
<1>9. status # "accepted"
  BY <1>1
<1> QED
  BY <1>1, <1>7, <1>8, <1>9, Zenon DEF RightInv, Known, KnownCopy, WholeList, AtTheEnd

LEMMA RightIsWhole == Inv /\ RightInv => AcceptedIsWhole
<1> SUFFICES ASSUME Inv, RightInv, status = "accepted"
             PROVE  taken = IF failed THEN ListOf(SubSeq(file, 1, base + Len(win)))
                                      ELSE whole.list
  BY Zenon DEF AcceptedIsWhole
<1>1. /\ file \in Seq(Byte) /\ base \in Nat /\ Len(win) \in Nat /\ Len(file) \in Nat
      /\ base + Len(win) <= Len(file)
  BY Bounds
<1>2. eof /\ L.tok = "EOF" /\ at # "start" /\ L.pos = Len(win)
  BY Zenon DEF RightInv, AtTheEnd, Known
<1>3. eof = TRUE
  BY <1>2, WindowHolds
<1>4. PICK e \in 0 .. Len(file) : e = base + Len(win)
  BY <1>1
<1>5. ~ Lost(win, eof, L)
  BY <1>2, Zenon DEF Lost
<1>6. e \in MayEnd(file, win, eof, base)
  BY <1>3, <1>4 DEF MayEnd
<1>7. PICK s : s = SubSeq(file, 1, e)
  OBVIOUS
<1>8. s \in Seq(Byte) /\ Len(s) = e
  BY <1>1, <1>4, <1>7
<1>9. taken \in Seq(Items) /\ Joined(taken, Rest(s)[e]) = Rest(s)[0]
  <2>1. base + L.pos = e
    BY <1>2, <1>4, Zenon
  <2> QED
    BY <1>5, <1>6, <1>7, <2>1, Zenon DEF RightInv, Known, Right, Ahead
<1>10. Rest(s)[e] = << >>
  BY <1>8, RestEnd
<1>11. taken = ListOf(s)
  <2>1. Joined(taken, << >>) = taken
    BY <1>9, JoinedIs
  <2> QED
    BY <1>9, <1>10, <2>1, Zenon DEF ListOf
<1>12. CASE failed
  BY <1>4, <1>7, <1>11, <1>12, Zenon
<1>13. CASE ~ failed
  <2>1. e = Len(file)
    BY <1>2, <1>4, <1>13, Zenon DEF RightInv, ReadToEnd
  <2>2. s = file
    BY <1>1, <1>7, <2>1
  <2>3. whole.list = ListOf(file)
    BY <1>2, Zenon DEF RightInv, WholeList
  <2> QED
    BY <1>11, <1>13, <2>2, <2>3, Zenon
<1> QED
  BY <1>12, <1>13

-----------------------------------------------------------------------------
(* Type correctness: through every slide, look ahead and return, the lexer *)
(* and the copy of it that parse_if keeps point into the window.           *)
THEOREM StreamingTyped == Spec => []TypeOK
<1>1. Inv => TypeOK
  BY Zenon DEF Inv
<1> QED
  BY <1>1, StreamInit, StreamStep, PTL DEF Spec

(* A line reported is the file's own: at every moment the lexer has counted *)
(* exactly the end-of-line bytes of the file before it, however often the   *)
(* window slid or the parser went back (compiler.c:46-51).                  *)
THEOREM LinesAreTheFiles == Spec => []LinesCountOn
<1>1. Inv => LinesCountOn
  <2> SUFFICES ASSUME Inv PROVE LinesCountOn
    OBVIOUS
  <2>1. /\ file \in Seq(Byte) /\ 0 \in 0 .. Len(file) /\ base + L.pos \in 0 .. Len(file)
    BY Bounds
  <2>2. Eols(SubSeq(file, 0 + 1, base + L.pos)) = Cardinality(Ends(file, 0, base + L.pos))
    BY <2>1, EolsAre
  <2>3. 0 + 1 = 1
    OBVIOUS
  <2>4. Eols(SubSeq(file, 1, base + L.pos)) = Cardinality(Ends(file, 0, base + L.pos))
    BY <2>2, <2>3
  <2> QED
    BY <2>4, Bounds DEF Counted, LinesCountOn
<1> QED
  BY <1>1, StreamInit, StreamStep, PTL DEF Spec

(* The Compiler is a reader SrcWin allows: it scans forward in the window,  *)
(* goes back only to a place still in it, and lets the window slide only    *)
(* while parse_if keeps no copy of the lexer (statements.c:1679-1692).      *)
THEOREM CompilerIsReader == Spec => IsReader
  BY StreamInit, StreamStep, PTL DEF Spec, IsReader, Window!WinSpec, Reads

(* A program that is accepted was compiled whole: whatever the length of    *)
(* the file and the place of the window's edges, the parser took exactly    *)
(* the tokens of the file lexed as one.  Where a read went wrong they are   *)
(* those of the part read until then (compiler_main.c:226-233).             *)
THEOREM AcceptedWasWhole == Spec => []AcceptedIsWhole
<1>1. Inv /\ RightInv => AcceptedIsWhole
  BY RightIsWhole
<1> QED
  BY <1>1, StreamInit, StreamStep, RightInit, RightStep, PTL DEF Spec
=============================================================================
