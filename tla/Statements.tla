----------------------------- MODULE Statements -----------------------------
(***************************************************************************)
(* What src/compiler emits for the statements and expressions whose code   *)
(* handles heap values.  An instruction is a record [op, a], its operand   *)
(* `a` a global, a local slot, a literal's position in the line, a count,  *)
(* a function or a jump distance; jump distances are in instructions.      *)
(***************************************************************************)
EXTENDS Integers, Sequences

I(op, a) == [op |-> op, a |-> a]

(* Expressions. *)
Number(n)  == <<I("INT", n)>>
Lit(k)     == <<I("STR", k)>>
Global(g)  == <<I("GET_GLOBAL", g)>>
Local(i)   == <<I("GET_LOCAL", i)>>

Plus(x, y)  == x \o y \o <<I("ADD", 0)>>
Equal(x, y) == x \o y \o <<I("EQ", 0)>>

(* The pieces of an interpolated string, joined by OP_ADD. *)
Interpolated(x, rest) == x \o <<I("STR_INTERP", 0)>> \o rest \o <<I("ADD", 0)>>

ArrayOf2(x, y) == x \o y \o <<I("NEW_ARRAY", 2)>>
ArrayOf1(x)    == x \o <<I("NEW_ARRAY", 1)>>
Element(xs, i) == xs \o i \o <<I("ARR_GET", 0)>>
Count(xs)      == xs \o <<I("ARR_LEN", 0)>>

RemoveLast(xs)  == xs \o <<I("REMOVE_LAST", 1)>>
HasElement(xs, x) == xs \o x \o <<I("CONTAINS", 2)>>

OrElse(x, y) == x \o <<I("NIL_COALESCE", Len(y))>> \o y
Both(x, y)   == x \o <<I("DUP", 0), I("JUMP_IF_FALSE", Len(y) + 1), I("POP", 0)>>
                  \o y
Less(x, y)   == x \o y \o <<I("LT", 0)>>
Forced(x)    == x \o <<I("UNWRAP", 0)>>
ReadLineCall == <<I("READ_LINE", 0)>>
NilLiteral   == <<I("NIL", 0)>>

Call(f, args) == args \o <<I("CALL", f)>>

(* Statements. *)
Declare(g, x) == x \o <<I("DEFINE_GLOBAL", g)>>
Assign(g, x)  == x \o <<I("SET_GLOBAL", g)>>
SetLocal(i, x) == x \o <<I("SET_LOCAL", i)>>

(* An expression statement at the REPL's top level prints its value. *)
Echo(x)      == x \o <<I("PRINT", 1), I("POP", 0)>>
Print2(x, y) == x \o y \o <<I("PRINT", 2), I("POP", 0)>>
RemoveAll(xs) == xs \o <<I("REMOVE_ALL", 1), I("POP", 0)>>

SetElement(g, i, x) == Global(g) \o i \o x \o <<I("ARR_SET", 0)>>

AppendTo(g, x) == Global(g) \o x \o <<I("ARR_APPEND", 0), I("SET_GLOBAL", g)>>

IfElse(cond, then, else) ==
  cond \o <<I("JUMP_IF_FALSE", Len(then) + 1)>> \o then
       \o <<I("JUMP", Len(else))>> \o else

IfLet(g, x, body) ==
  x \o <<I("IF_LET", Len(body) + 1), I("DEFINE_GLOBAL", g)>> \o body

(* Mutant: only the index is popped after the loop. *)
ForInArray_one_pop(g, xs, body) ==
  xs \o <<I("INT", 0),
          I("OVER", 0), I("ARR_LEN", 0), I("OVER", 0), I("SWAP", 0), I("LT", 0),
          I("JUMP_IF_FALSE", Len(body) + 6),
          I("OVER", 0), I("OVER", 0), I("ARR_GET", 0), I("DEFINE_GLOBAL", g)>>
     \o body
     \o <<I("INC", 0), I("LOOP", Len(body) + 12), I("POP", 0)>>

(* Mutant: the index is never advanced. *)
ForInArray_no_inc(g, xs, body) ==
  xs \o <<I("INT", 0),
          I("OVER", 0), I("ARR_LEN", 0), I("OVER", 0), I("SWAP", 0), I("LT", 0),
          I("JUMP_IF_FALSE", Len(body) + 5),
          I("OVER", 0), I("OVER", 0), I("ARR_GET", 0), I("DEFINE_GLOBAL", g)>>
     \o body
     \o <<I("LOOP", Len(body) + 11), I("POP", 0), I("POP", 0)>>

(* The array and the index stay on the stack; the loop variable is a global. *)
ForInArray(g, xs, body) ==
  xs \o <<I("INT", 0),
          I("OVER", 0), I("ARR_LEN", 0), I("OVER", 0), I("SWAP", 0), I("LT", 0),
          I("JUMP_IF_FALSE", Len(body) + 6),
          I("OVER", 0), I("OVER", 0), I("ARR_GET", 0), I("DEFINE_GLOBAL", g)>>
     \o body
     \o <<I("INC", 0), I("LOOP", Len(body) + 12), I("POP", 0), I("POP", 0)>>

(* A function body; falling off the end of a void one returns nil. *)
Return(x)    == x \o <<I("RETURN", 0)>>
VoidEnd      == <<I("RETURN_V", 0)>>

(* The line's code ends in OP_HALT. *)
Program(statements) == statements \o <<I("HALT", 0)>>
=============================================================================
