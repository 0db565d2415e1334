-------------------------------- MODULE Input --------------------------------
(***************************************************************************)
(* src/platform/apple2/input.c: from what a //+ keyboard can type to Swift *)
(* source and back.  A text is a sequence of tokens, where a digraph and a *)
(* comment's delimiter are one token each and all letters of a case are    *)
(* one.  Both translators are given as the step they take for one token;   *)
(* `out` is what they have written of the line, `prev` its last token.     *)
(***************************************************************************)
EXTENDS Naturals, Sequences

Letter == {"a", "A"}
Token == Letter \cup {"'", "quote", "\\", "//", "/*", "*/", "<%", "??/", "brace",
                      "underscore", "space", "ctrl-w", "\n", "\r"}

to_lower(t) == IF t = "A" THEN "a" ELSE t
to_upper(t) == IF t = "a" THEN "A" ELSE t

Start == [out |-> <<>>, prev |-> "none", state |-> "normal",
          case_pending |-> "none", escape |-> FALSE, full |-> FALSE]

Emit(s, t) == [s EXCEPT !.out = Append(@, t), !.prev = t]

InComment(s) == s.state \in {"line", "block"}

(* What a token does to the state behind it, once it has been written. *)
Entered(s, t) ==
  [s EXCEPT !.state =
     CASE @ = "block"  /\ t = "*/" -> "normal"
       [] @ = "line"   /\ t \in {"\n", "\r"} -> "normal"
       [] @ = "normal" /\ t = "//" -> "line"
       [] @ = "normal" /\ t = "/*" -> "block"
       [] @ = "normal" /\ t = "quote" -> "string"
       [] @ = "string" /\ t = "quote" -> "normal"
       [] OTHER                    -> @]

(* A backslash in a string keeps the token behind it from being looked at. *)
Escaping(s, t) == s.state = "string" /\ t = "\\"

-----------------------------------------------------------------------------
(* The digraphs, and Ctrl-W outside a string. *)
Meaning(s, t) ==
  CASE t = "<%"  -> "brace"
    [] t = "??/" -> "\\"
    [] t = "ctrl-w" /\ s.state = "normal" -> "underscore"
    [] OTHER -> t

(* An apostrophe marks the case of the letter behind it, two of them that  *)
(* of all letters up to the next other character; between letters of a     *)
(* string it is itself.                                                    *)
Marker(s) ==
  IF s.state = "string" /\ s.prev \in Letter THEN Emit(s, "'")
  ELSE [s EXCEPT !.case_pending = IF @ = "single" THEN "run" ELSE "single"]

Cased(s, t) ==
  LET cased == Emit(s, IF s.case_pending = "none" THEN to_lower(t)
                       ELSE to_upper(t))
  IN  [cased EXCEPT !.case_pending = IF @ = "run" THEN "run" ELSE "none"]

Other(s, t) == [Entered(Emit(s, Meaning(s, t)), t)
                  EXCEPT !.escape = Escaping(s, t), !.case_pending = "none"]

input_translate(s, t) ==
  IF InComment(s) THEN Entered(Emit(s, to_lower(t)), t)
  ELSE IF s.escape THEN [Emit(s, to_lower(t)) EXCEPT !.escape = FALSE]
  ELSE IF t = "'" THEN Marker(s)
  ELSE IF t \in Letter THEN Cased(s, t)
  ELSE Other(s, t)

-----------------------------------------------------------------------------
(* Mutant: every capital gets a marker. *)
Marked_after_letter(s, max) ==
  IF Len(s.out) + 1 < max THEN Emit(Emit(s, "'"), "a")
  ELSE [s EXCEPT !.full = TRUE]

(* A capital becomes a marker and its lower case, where a marker would be  *)
(* read as one; the first that finds no room for both ends the line.       *)
Marked(s, max) ==
  IF s.state = "string" /\ s.prev \in Letter THEN Emit(s, "A")
  ELSE IF Len(s.out) + 1 < max THEN Emit(Emit(s, "'"), "a")
  ELSE [s EXCEPT !.full = TRUE]

input_untranslate(s, t, max) ==
  IF s.full \/ Len(s.out) >= max THEN s
  ELSE IF InComment(s) THEN Entered(Emit(s, t), t)
  ELSE IF s.escape THEN [Emit(s, t) EXCEPT !.escape = FALSE]
  ELSE IF t = "A" THEN Marked(s, max)
  ELSE [Entered(Emit(s, t), t) EXCEPT !.escape = Escaping(s, t)]
=============================================================================
