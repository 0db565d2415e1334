----------------------------- MODULE MCCompiler -----------------------------
(* Short sessions: every way to nest and order a handful of statements.    *)
EXTENDS Compiler
None == [kind \in {"var", "call", "if", "if_let", "while", "for",
                   "break", "return", "func"} |-> 0]
Holding(kinds) ==
  [k \in DOMAIN None |-> Len(SelectSeq(kinds, LAMBDA x : x = k))]

MC_Budgets == {
  Holding(<<"func", "call", "for", "if", "break", "var">>),
  Holding(<<"func", "call", "while", "if_let", "break", "return">>),
  Holding(<<"func", "call", "if", "if_let", "return">>),
  Holding(<<"func", "func", "call", "call", "var">>),
  Holding(<<"for", "while", "if", "break", "break">>) }

(* Forms for which a property is known not to hold (README, "Limits"). *)
MC_Avoided == {"break_over_locals", "func_in_block", "last_byte",
               "two_redefinitions"}

(* MCBreak lets one of them in. *)
MC_AllowBreak == MC_Avoided \ {"break_over_locals"}
=============================================================================
