------------------------------- MODULE Lexer -------------------------------
(***************************************************************************)
(* src/lexer: one token after another from the `len` bytes of a buffer.    *)
(* The buffer is a sequence s of one-character strings; offsets count from *)
(* 0 as in the C, so s[p + 1] is the byte at p.                            *)
(***************************************************************************)
EXTENDS Integers, SequencesExt, FiniteSets

CONSTANTS
  Letters,         (* The letters a text may use.                          *)
  Keywords         (* Those of k_keywords spelled with them, as sequences. *)

LexerWords == Keywords \subseteq Seq(Letters)

ASSUME LexerWords

Space == {" ", "\t"}
Eol == {"\n", "\r"}
Digits == <<"0", "1", "2", "3", "4", "5", "6", "7", "8", "9">>
Digit == ToSet(Digits)
IdentStart == Letters \union {"_"}
IdentCont == IdentStart \union Digit
Escaped == {"\\", "\"", "n", "t", "r", "0"}

(* Every operator and mark; "&" and "|" alone are errors. *)
Marks ==
  {<<"+">>, <<"+", "=">>, <<"-">>, <<"-", "=">>, <<"-", ">">>, <<"*">>,
   <<"*", "=">>, <<"/">>, <<"/", "=">>, <<"%">>, <<"!">>, <<"!", "=">>,
   <<"=">>, <<"=", "=">>, <<"<">>, <<"<", "=">>, <<">">>, <<">", "=">>,
   <<"&", "&">>, <<"|", "|">>, <<"?">>, <<"?", "?">>, <<".">>,
   <<".", ".", "<">>, <<".", ".", ".">>, <<"(">>, <<")">>, <<"{">>, <<"}">>,
   <<"[">>, <<"]">>, <<",">>, <<":">>, <<";">>}

lexer_init == [pos |-> 0, line |-> 1, tok |-> "EOF", tok_pos |-> 0,
               tok_len |-> 0, tok_line |-> 1, int_val |-> 0]

-----------------------------------------------------------------------------
Upto(a, b) == IF a <= b THEN a ELSE b

Piece(s, from, to) == SubSeq(s, from + 1, Upto(to, Len(s)))

(* What is at p: nothing at the end of the buffer. *)
peek_ch(s, p) == IF p < Len(s) THEN s[p + 1] ELSE "end"

StartsWith(s, p, t) == Piece(s, p, p + Len(t)) = t

(* The first offset from p on that is one of `stops`, the end if none is. *)
First(s, p, stops) ==
  CHOOSE q \in p .. Len(s) : /\ q = Len(s) \/ q \in stops
                             /\ \A r \in p .. q - 1 : r \notin stops

Offsets(s) == 0 .. Len(s) - 1

Skip(s, p, C) == First(s, p, {q \in Offsets(s) : s[q + 1] \notin C})

(* From each offset, where the spaces, tabs and comments there end. *)
skip_trivia(s) ==
  LET after[p \in 0 .. Len(s)] ==
        IF StartsWith(s, p, <<"/", "/">>) THEN
          after[First(s, p + 2, {q \in Offsets(s) : s[q + 1] \in Eol})]
        ELSE IF StartsWith(s, p, <<"/", "*">>) THEN
          after[Upto(2 + First(s, p + 2, {q \in Offsets(s) :
                                            StartsWith(s, q, <<"*", "/">>)}),
                     Len(s))]
        ELSE IF peek_ch(s, p) \in Space THEN after[p + 1]
        ELSE p
  IN  after

Eols(s) == Cardinality({i \in DOMAIN s : s[i] \in Eol})

(* The value of a run of digits, 65536 for all that are too large. *)
Value(digits) ==
  FoldLeft(LAMBDA acc, d :
             Upto(10 * acc + (CHOOSE i \in 1 .. 10 : Digits[i] = d) - 1, 65536),
           0, digits)

-----------------------------------------------------------------------------
(* The forms of token at `start`: what to set tok, tok_pos and pos to.  An   *)
(* error is final, and where it leaves pos no longer matters.               *)

Token(tok, tok_pos, tok_end, pos) ==
  [tok |-> tok, tok_pos |-> tok_pos, tok_len |-> tok_end - tok_pos, pos |-> pos]

lex_newline(s, start) ==
  LET end == start + IF StartsWith(s, start, <<"\r", "\n">>) THEN 2 ELSE 1
  IN  Token("NEWLINE", start, end, end)

lex_int(s, start) ==
  LET end == Skip(s, start, Digit)
      tok == IF Value(Piece(s, start, end)) > 65535 THEN "ERROR" ELSE "INT"
  IN  Token(tok, start, end, end)

lex_ident_or_kw(s, start) ==
  LET end == Skip(s, start, IdentCont)
      tok == IF Piece(s, start, end) \in Keywords THEN "KEYWORD" ELSE "IDENT"
  IN  Token(tok, start, end, end)

(* Where the \( ... ) opened before p ends, -1 for an error.  A newline, a  *)
(* quote or the end of the buffer stops it.                                 *)
InterpolationEnd(s, p) ==
  LET Number(q, mark) == Cardinality({r \in p .. q - 1 : s[r + 1] = mark})
      depth(q) == 1 + Number(q, "(") - Number(q, ")")
      end == First(s, p, {q \in Offsets(s) :
                            depth(q) = 0 \/ s[q + 1] \in Eol \union {"\""}})
  IN  IF depth(end) = 0 THEN end ELSE -1

(* The closing quote of the string whose text starts at p, -1 for an error. *)
StringEnd(s, p) ==
  LET end[q \in -1 .. Len(s)] ==
        IF q = -1 \/ peek_ch(s, q) \in Eol \union {"end"} THEN -1
        ELSE IF peek_ch(s, q) = "\"" THEN q
        ELSE IF peek_ch(s, q) # "\\" THEN end[q + 1]
        ELSE IF peek_ch(s, q + 1) = "(" THEN end[InterpolationEnd(s, q + 2)]
        ELSE IF peek_ch(s, q + 1) \in Escaped THEN end[q + 2]
        ELSE -1
  IN  end[p]

lex_string(s, start) ==
  LET end == StringEnd(s, start + 1)
  IN  IF end = -1 THEN Token("ERROR", start, start, start)
                  ELSE Token("STR", start + 1, end, end + 1)

lex_mark(s, start) ==
  LET here == {t \in Marks : StartsWith(s, start, t)}
      longest == CHOOSE t \in here : \A u \in here : Len(u) <= Len(t)
      end == start + Len(longest)
  IN  IF here = {} THEN Token("ERROR", start, start + 1, start + 1)
                   ELSE Token("MARK", start, end, end)

LexAt(s, start) ==
  IF start = Len(s) THEN Token("EOF", start, start, start)
  ELSE IF peek_ch(s, start) \in Eol THEN lex_newline(s, start)
  ELSE IF peek_ch(s, start) \in Digit THEN lex_int(s, start)
  ELSE IF peek_ch(s, start) \in IdentStart THEN lex_ident_or_kw(s, start)
  ELSE IF peek_ch(s, start) = "\"" THEN lex_string(s, start)
  ELSE lex_mark(s, start)

(* The next token.  Lines are counted wherever an end-of-line byte goes by, *)
(* so a carriage return and a line feed are two of them.                    *)
lexer_next(s, L) ==
  LET start == skip_trivia(s)[L.pos]
      t == LexAt(s, start)
      line == L.line + Eols(Piece(s, L.pos, start))
      value == Value(Piece(s, start, t.pos))
  IN  IF L.tok = "ERROR" THEN L
      ELSE [pos |-> t.pos, tok |-> t.tok, tok_pos |-> t.tok_pos,
            tok_len |-> t.tok_len, tok_line |-> line,
            line |-> line + Eols(Piece(s, start, t.pos)),
            int_val |-> IF t.tok # "INT" THEN L.int_val
                        ELSE IF value >= 32768 THEN value - 65536 ELSE value]

(* The bytes of the token L is at. *)
Text(s, L) == Piece(s, L.tok_pos, L.tok_pos + L.tok_len)

(* The tokens of the whole of s, up to its end or an error. *)
Tokens(s) ==
  LET from[p \in 0 .. Len(s)] ==
        LET t == LexAt(s, skip_trivia(s)[p])
        IN  <<t>> \o IF t.tok \in {"EOF", "ERROR"} THEN << >> ELSE from[t.pos]
  IN  from[0]
=============================================================================
