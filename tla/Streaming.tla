------------------------------ MODULE Streaming ------------------------------
(***************************************************************************)
(* The Family B Compiler reads a file of any length through the source     *)
(* window: compiler_main.c's compile_file, the statement level of the      *)
(* parser, the lexer and srcwin.c together.                                *)
(*                                                                         *)
(* What is kept of the parser is when it reads a token, when it lets the   *)
(* window slide and when it goes back: statements, blocks, and if with its *)
(* look ahead for an else.  An expression is a run of the other tokens;    *)
(* the bytecode is left out (Compiler.tla).                                *)
(***************************************************************************)
EXTENDS Lexer, WindowSize

CONSTANT Files     (* Bound: the files that may be compiled.               *)

ASSUME FileTexts == \A f \in Files : f \in Seq(STRING) /\ Len(f) <= 65535

VARIABLES
  file, win, eof, base,      (* As in SrcWin.                              *)
  L,         (* p->L, without the buffer.                                  *)
  saved,     (* parse_if's copy of it, None outside the look ahead.        *)
  at,        (* Where the parser is.                                       *)
  arms,      (* The arms it is inside, "then" or "else", outermost first.  *)
  status,    (* "compiling", "accepted" or "rejected".                     *)
  failed,    (* Ghost: a read went wrong.                                  *)
  taken,     (* Ghost: the tokens read so far, a run of separators as one. *)
  whole      (* Ghost: what the file holds when it is lexed as a whole.    *)

vars == <<file, win, eof, base, L, saved, at, arms, status, failed, taken, whole>>

None == [L |-> lexer_init, taken |-> << >>, none |-> TRUE]

Window == INSTANCE SrcWin WITH
            Byte <- STRING,
            pos <- L.pos, tok_pos <- L.tok_pos,
            held <- IF saved = None
                    THEN [pos |-> -1, tok_pos |-> -1]
                    ELSE [pos |-> saved.L.pos, tok_pos |-> saved.L.tok_pos]

-----------------------------------------------------------------------------
(* What the parser tells apart. *)
Symbol(s, l) ==
  LET text == Text(s, l)
  IN  CASE l.tok \in {"EOF", "ERROR"} -> l.tok
        [] \/ l.tok = "NEWLINE"
           \/ l.tok = "MARK" /\ text = <<";">> -> "separator"
        [] l.tok = "MARK" /\ text \in {<<"{">>, <<"}">>} -> text[1]
        [] l.tok = "KEYWORD" /\ text = <<"i", "f">> -> "if"
        [] l.tok = "KEYWORD" /\ text = <<"e", "l", "s", "e">> -> "else"
        [] OTHER -> "operand"

Symb == Symbol(win, L)

(* Ghost: the tokens of two stretches of a text, one behind the other, a run  *)
(* of separators being one.                                                  *)
Separator == <<"separator">>

Joined(a, b) ==
  IF a # << >> /\ b # << >> /\ Last(a) = Separator /\ Head(b) = Separator
  THEN a \o Tail(b) ELSE a \o b

Item(s, l) ==
  <<IF Symbol(s, l) = "separator" THEN Separator ELSE <<l.tok, Text(s, l)>> >>

(* A list of tokens with the one l is at. *)
Noted(list, s, l) ==
  IF Symbol(s, l) = "EOF" THEN list ELSE Joined(list, Item(s, l))

(* The tokens of s from each offset to its end or an error. *)
Rest(s) ==
  LET rest[p \in 0 .. Len(s)] ==
        LET t == LexAt(s, skip_trivia(s)[p])
        IN  CASE t.tok = "EOF"   -> << >>
              [] t.tok = "ERROR" -> Item(s, t)
              [] OTHER           -> Joined(Item(s, t), rest[t.pos])
  IN  rest

ListOf(s) == Rest(s)[0]

(* Between two places where the window may slide there is at most half a    *)
(* window of the file.  The separators before an else are not such places.  *)
Fits(s, lexed) ==
  LET symbols == FoldLeft(LAMBDA list, l : Append(list, Symbol(s, l)), << >>, lexed)
      BeforeElse(i) ==
        \E j \in i + 1 .. Len(lexed) :
          symbols[j] = "else" /\ \A k \in i .. j - 1 : symbols[k] = "separator"
      places == {lexed[i].pos : i \in {k \in DOMAIN lexed :
                                        symbols[k] = "separator" /\ ~ BeforeElse(k)}}
                  \union {0, Len(s)}
  IN  \A a \in places \ {Len(s)} :
        \E b \in places : b > a /\ b - a <= Cap \div 2

Reference(s) == [list |-> ListOf(s), fits |-> Fits(s, Tokens(s))]

Init ==
  /\ file \in Files
  /\ \E got \in {0, Upto(Cap, Len(file))} :
       /\ win = SubSeq(file, 1, got)
       /\ eof = (got < Cap)
       /\ failed = (got < Upto(Cap, Len(file)))
  /\ base = 0
  /\ L = lexer_init
  /\ saved = None
  /\ at = "start"
  /\ arms = << >>
  /\ status = "compiling"
  /\ taken = << >>
  /\ whole = [list |-> << >>, fits |-> FALSE]

-----------------------------------------------------------------------------
Goto(place) == at' = place

(* lexer_next(&p->L) *)
Lex ==
  /\ L' = lexer_next(win, L)
  /\ taken' = Noted(taken, win, L')
  /\ UNCHANGED <<file, win, eof, base, failed>>

Read == Lex /\ UNCHANGED whole

Stay == UNCHANGED <<file, win, eof, base, L, failed, taken, whole>>

parser_fail ==
  /\ status' = "rejected"
  /\ Stay
  /\ UNCHANGED <<saved, at, arms>>

(* parse_program's first lexer_next. *)
Prime ==
  /\ at = "start"
  /\ whole' = Reference(file)
  /\ Lex
  /\ Goto("skip")
  /\ UNCHANGED <<saved, arms, status>>

(* Mutant: the slide moves the window and leaves the lexer where it was. *)
SlideAt_not_rebased(fails) ==
  /\ L' = [L EXCEPT !.tok_pos = IF Window!Slides THEN 0 ELSE @]
  /\ Window!Slides => Window!top_up(SubSeq(win, L.tok_pos + 1, Len(win)), fails)
  /\ ~ Window!Slides => UNCHANGED <<win, eof>>
  /\ base' = base + IF Window!Slides THEN L.tok_pos ELSE 0

(* The refill hook, which refill_progress only wraps. *)
SlideAt(fails) ==
  /\ L' = IF Window!Slides
          THEN [L EXCEPT !.pos = @ - L.tok_pos, !.tok_pos = 0]
          ELSE L
  /\ Window!srcwin_refill(fails)

(* parser_skip_separators: the hook, then the next token. *)
SkipSeparator ==
  /\ at = "skip" /\ Symb = "separator"
  /\ \E fails \in BOOLEAN :
       /\ SlideAt(fails)
       /\ failed' = (failed \/ (fails /\ base' # base))
  /\ Goto("advance")
  /\ UNCHANGED <<file, saved, arms, status, taken, whole>>

Advance ==
  /\ at = "advance"
  /\ Read
  /\ Goto("skip")
  /\ UNCHANGED <<saved, arms, status>>

(* parse_statement, as far as its first token says what it is. *)
Statement ==
  /\ at = "skip" /\ Symb \notin {"separator", "EOF", "}"}
  /\ IF Symb \in {"if", "operand"}
     THEN /\ Read
          /\ Goto(IF Symb = "if" THEN "if" ELSE "expression")
          /\ UNCHANGED <<saved, arms, status>>
     ELSE parser_fail

(* parse_expression: more of the statement, or where it ends. *)
Expression ==
  /\ at = "expression"
  /\ IF Symb = "operand"
     THEN Read /\ UNCHANGED at
     ELSE Stay /\ Goto("end")
  /\ UNCHANGED <<saved, arms, status>>

Enter(arm) ==
  /\ Read
  /\ Goto("skip")
  /\ arms' = Append(arms, arm)
  /\ UNCHANGED <<saved, status>>

(* parse_if: the condition, then the block of the first arm. *)
Condition ==
  \/ /\ at \in {"if", "condition"} /\ Symb = "operand"
     /\ Read
     /\ Goto("condition")
     /\ UNCHANGED <<saved, arms, status>>
  \/ /\ at = "condition" /\ Symb = "{"
     /\ Enter("then")
  \/ /\ \/ at = "condition" /\ Symb \notin {"operand", "{"}
        \/ at = "if" /\ Symb # "operand"
     /\ parser_fail

(* The end of parse_block. *)
CloseBlock ==
  /\ at = "skip" /\ Symb = "}" /\ arms # << >>
  /\ Read
  /\ arms' = Front(arms)
  /\ Goto(IF Last(arms) = "then" THEN "look ahead" ELSE "end")
  /\ UNCHANGED <<saved, status>>

(* A '}' outside any block, and the end of the input inside one. *)
BadEnd ==
  /\ at = "skip"
  /\ \/ Symb = "}" /\ arms = << >>
     \/ Symb = "EOF" /\ arms # << >>
  /\ parser_fail

(* saved = p->L *)
LookAhead ==
  /\ at = "look ahead"
  /\ saved' = [L |-> L, taken |-> taken, none |-> FALSE]
  /\ Goto("probe")
  /\ Stay
  /\ UNCHANGED <<arms, status>>

(* Mutant: the look ahead runs with the hook in place. *)
ProbeSeparator_slides ==
  /\ at = "probe" /\ Symb = "separator"
  /\ \/ /\ Window!Slides
        /\ SlideAt(FALSE)
        /\ UNCHANGED <<file, saved, at, arms, status, failed, taken, whole>>
     \/ /\ ~ Window!Slides
        /\ Read
        /\ UNCHANGED <<saved, at, arms, status>>

(* skip_separators_noslide *)
ProbeSeparator ==
  /\ at = "probe" /\ Symb = "separator"
  /\ Read
  /\ UNCHANGED <<saved, at, arms, status>>

FoundElse ==
  /\ at = "probe" /\ Symb = "else"
  /\ Read
  /\ saved' = None
  /\ Goto("else")
  /\ UNCHANGED <<arms, status>>

(* Mutant: going back forgets the line. *)
NoElse_keeps_line ==
  /\ at = "probe" /\ Symb \notin {"separator", "else"}
  /\ L' = [saved.L EXCEPT !.line = L.line]
  /\ taken' = saved.taken
  /\ saved' = None
  /\ Goto("end")
  /\ UNCHANGED <<file, win, eof, base, arms, status, failed, whole>>

(* p->L = saved *)
NoElse ==
  /\ at = "probe" /\ Symb \notin {"separator", "else"}
  /\ L' = saved.L
  /\ taken' = saved.taken
  /\ saved' = None
  /\ Goto("end")
  /\ UNCHANGED <<file, win, eof, base, arms, status, failed, whole>>

ElseArm ==
  /\ at = "else"
  /\ \/ Symb = "{" /\ Enter("else")
     \/ Symb = "if" /\ Read /\ Goto("if") /\ UNCHANGED <<saved, arms, status>>
     \/ Symb \notin {"{", "if"} /\ parser_fail

(* What parse_program and parse_block want after a statement. *)
EndStatement ==
  /\ at = "end"
  /\ IF Symb \in {"separator", IF arms = << >> THEN "EOF" ELSE "}"}
     THEN Goto("skip") /\ Stay /\ UNCHANGED <<saved, arms, status>>
     ELSE parser_fail

(* Mutant: a parse that went well is enough. *)
Verdict_no_eof_check ==
  /\ at = "skip" /\ Symb = "EOF" /\ arms = << >>
  /\ status' = "accepted"
  /\ Stay
  /\ UNCHANGED <<saved, at, arms>>

(* parse_program's end, and compile_file's answer: a parse that ended       *)
(* before the file did is rejected.                                         *)
Verdict ==
  /\ at = "skip" /\ Symb = "EOF" /\ arms = << >>
  /\ status' = IF eof THEN "accepted" ELSE "rejected"
  /\ Stay
  /\ UNCHANGED <<saved, at, arms>>

Next ==
  /\ status = "compiling"
  /\ \/ Prime \/ SkipSeparator \/ Advance \/ Statement \/ Expression
     \/ Condition \/ CloseBlock \/ BadEnd \/ LookAhead \/ ProbeSeparator
     \/ FoundElse \/ NoElse \/ ElseArm \/ EndStatement \/ Verdict

Spec == Init /\ [][Next]_vars

-----------------------------------------------------------------------------
(* Types: the lexer and the copy it may go back to stay in the window. *)
TypeOK ==
  /\ file \in Files
  /\ Window!WinTypeOK
  /\ at \in {"start", "skip", "advance", "expression", "if", "condition",
             "look ahead", "probe", "else", "end"}
  /\ (saved # None) = (at = "probe")
  /\ arms \in Seq({"then", "else"})
  /\ status \in {"compiling", "accepted", "rejected"}
  /\ failed \in BOOLEAN

(* A file that is accepted was compiled whole: the parser took the tokens   *)
(* the file has when it is lexed as one, none cut at an edge of the window, *)
(* none read twice, none lost.  After a read that went wrong it is the part *)
(* read until then (compiler_main.c:226-233).                               *)
AcceptedIsWhole ==
  status = "accepted" =>
    taken = IF failed THEN ListOf(SubSeq(file, 1, base + Len(win))) ELSE whole.list

(* Half a window is enough for any statement, whatever came before: where   *)
(* no stretch between two places to slide is longer, the parser reads the   *)
(* file's own tokens and never takes the window's edge for the file's end   *)
(* (the invariant tests/unit/srcwin_test.c:12-15 names).                    *)
HalfWindowIsEnough ==
  whole.fits /\ ~ failed /\ at # "probe" =>
    /\ IsPrefix(taken, whole.list)
    /\ L.tok = "EOF" /\ at # "start" => eof /\ taken = whole.list

(* The line an error is reported at is the line in the file, through every  *)
(* slide and every return to a saved lexer (compiler.c:46-51).              *)
LinesCountOn ==
  L.line = 1 + Eols(SubSeq(file, 1, base + L.pos))

(* The compiler is a reader SrcWin allows: in particular the window never   *)
(* slides under the copy of the lexer the look ahead for an else keeps.     *)
IsReader == Window!WinSpec
=============================================================================
