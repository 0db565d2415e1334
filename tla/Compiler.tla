------------------------------ MODULE Compiler ------------------------------
(***************************************************************************)
(* The single-pass compiler of src/compiler at the prompt: control         *)
(* statements, functions and locals emitted as bytes, jumps backpatched,   *)
(* finished functions rotated into the arena, a line that does not compile *)
(* rolled back, and a line that does executed.                             *)
(*                                                                         *)
(* The user types one statement per action.  Values are left out: only the *)
(* value stack's depth is kept, and a condition goes either way.           *)
(*                                                                         *)
(* A cell of `code` is a byte b of the bytecode buffer with two ghosts:    *)
(* `at`, the stack depth above vm_fp the compiler relies on when b is the  *)
(* first byte of an instruction, and `path`, the function the byte belongs *)
(* to (0 for none) followed by the arms and loops it is inside.            *)
(***************************************************************************)
EXTENDS Integers, SequencesExt

CONSTANTS
  FILE_BC_SIZE,
  MAX_LOCALS,
  MAX_FUNCS,
  LOOPS_MAX_DEPTH,
  LOOPS_MAX_BREAKS_LOOP,
  VM_CALL_FRAMES,
  Literals,         (* Bound: the small integers that may be typed.        *)
  Params,           (* Bound: the parameter counts of functions.           *)
  Budgets,          (* Bound: how many statements of each kind a session   *)
                    (* may hold, one of these functions per session.       *)
  MaxLines,         (* Bound: lines in a session.                          *)
  Avoided           (* The forms of program this instance leaves aside.    *)

Kinds == {"var", "call", "if", "if_let", "while", "for", "break", "return", "func"}

(* Positions are uint16_t, indices of functions and locals uint8_t. *)
ASSUME CompilerSizes ==
  /\ FILE_BC_SIZE \in Nat /\ FILE_BC_SIZE < 65536
  /\ MAX_LOCALS \in 0 .. 255 /\ MAX_FUNCS \in 0 .. 255
  /\ LOOPS_MAX_DEPTH \in Nat /\ LOOPS_MAX_BREAKS_LOOP \in Nat
  /\ VM_CALL_FRAMES \in Nat /\ MaxLines \in Nat
  /\ Literals \subseteq 0 .. 255 /\ Literals # {} /\ Params \subseteq 0 .. MAX_LOCALS
  /\ Budgets \subseteq [Kinds -> Nat]

ASSUME AvoidedForms ==
  Avoided \subseteq {"break_over_locals", "func_in_block", "last_byte",
                      "two_redefinitions"}

VARIABLES
  phase,      (* "prompt", "parse" or "run".                               *)
  code,       (* The bytecode buffer up to p->bc_pos.                      *)
  arena,      (* s_arena_used.                                             *)
  funcs,      (* The function table: [start, params, ret] by index.        *)
  replaced,   (* s_replace_idx and the entry it saved; idx 0 for none.     *)
  saved,      (* The savepoints of compile_impl, and as a ghost the        *)
              (* function table and the arena's bytes at that point.       *)
  open,       (* The parser's recursion: unfinished constructs, with what  *)
              (* they park on the patch stack.                             *)
  loops,      (* s_break_sites of the loops open, innermost last.          *)
  locals,     (* locals_count().                                           *)
  pc, sp, fp, (* The machine.                                              *)
  frames,
  budget,        (* The statements still to be typed.                      *)
  typed, lines   (* Statements and lines so far.                           *)

compiling == <<code, arena, funcs, replaced, saved, open, loops, locals>>
running   == <<pc, sp, fp, frames>>
vars      == <<phase, compiling, running, budget, typed, lines>>

-----------------------------------------------------------------------------
(* Instructions, as their bytes. *)

OP_INT_U8 == 3
OP_POP == 16
OP_SWAP == 18
OP_OVER == 19
OP_GET_GLOBAL == 32
OP_SET_GLOBAL == 33
OP_DEFINE_GLOBAL == 34
OP_INC == 54
OP_LT == 66
OP_JUMP == 80
OP_JUMP_IF_FALSE == 81
OP_LOOP == 83
OP_HALT == 84
OP_CALL == 96
OP_RETURN == 97
OP_RETURN_V == 98
OP_IF_LET == 115

PushInt(k)      == <<OP_INT_U8, k>>
GetGlobal       == <<OP_GET_GLOBAL, 0>>
SetGlobal       == <<OP_SET_GLOBAL, 0>>
DefineGlobal    == <<OP_DEFINE_GLOBAL, 0>>
Call(f, n)      == <<OP_CALL, f, n>>
Placeholder(op) == <<op, 255, 255>>
BackJump(from, to) ==
  LET off == from + 3 - to IN <<OP_LOOP, off % 256, off \div 256>>

-----------------------------------------------------------------------------
(* What the parser knows. *)

Operand == -1

FuncAt(stack) ==
  LET F == {k \in DOMAIN stack : stack[k].kind = "func"}
  IN  IF F = {} THEN 0 ELSE Max(F)
InFunction == FuncAt(open) # 0
Function   == open[FuncAt(open)]
InLoop     == loops # <<>>
Innermost  == Last(open)
OpenFors   == Cardinality({k \in DOMAIN open : open[k].kind = "for"})

(* Inside a function the locals are the stack; outside one, only the range *)
(* ends of open for-in loops are on it.                                    *)
Depth == IF InFunction THEN locals ELSE OpenFors

PathOf(stack) ==
  LET f == FuncAt(stack)
  IN  <<IF f = 0 THEN 0 ELSE stack[f].id>>
        \o [i \in 1 .. Len(stack) - f |-> <<stack[f + i].kind, stack[f + i].id>>]

Cell(b, at) == [b |-> b, at |-> at, path |-> PathOf(open)]

(* emit_op and its relatives: one instruction after c, the stack d deep. *)
Emit(c, d, ins) ==
  c \o [i \in 1 .. Len(ins) |-> Cell(ins[i], IF i = 1 THEN d ELSE Operand)]

(* The cell the next byte goes to. *)
Here(c) == Len(c) + 1

(* Mutant: the offset is counted from the operand's second byte. *)
patch_jump_to_here_early(c, sites) ==
  [i \in DOMAIN c |->
     IF i \in sites THEN [c[i] EXCEPT !.b = (Here(c) - (i + 1)) % 256]
     ELSE IF i - 1 \in sites THEN [c[i] EXCEPT !.b = (Here(c) - i) \div 256]
     ELSE c[i]]

(* The placeholders at `sites` jump here. *)
patch_jump_to_here(c, sites) ==
  LET off(site) == Here(c) - (site + 2)
  IN  [i \in DOMAIN c |->
         IF i \in sites THEN [c[i] EXCEPT !.b = off(i) % 256]
         ELSE IF i - 1 \in sites THEN [c[i] EXCEPT !.b = off(i - 1) \div 256]
         ELSE c[i]]

(* loops_exit: where the innermost loop's breaks park. *)
Breaks == Range(Last(loops))

(* Mutant: the block's locals stay on the stack. *)
LeaveBlock_unscoped(c) == c

(* parse_block_scoped: a POP for every local declared since the block      *)
(* opened, at depth `locals`.                                              *)
LeaveBlock(c) ==
  c \o [i \in 1 .. locals - Innermost.base |-> Cell(OP_POP, Depth - i + 1)]

(* The depth once they are gone. *)
DepthLeft == Depth - locals + Innermost.base

-----------------------------------------------------------------------------
(* A line begins, fails or is complete. *)

NoReplacement == [idx |-> 0, entry |-> [start |-> 0, params |-> 0, ret |-> FALSE]]

NoSavepoint == [count |-> 0, arena |-> 0, funcs |-> <<>>, bytes |-> <<>>]

Init ==
  /\ phase = "prompt"
  /\ code = <<>> /\ arena = 0 /\ funcs = <<>>
  /\ replaced = NoReplacement
  /\ saved = NoSavepoint
  /\ open = <<>> /\ loops = <<>> /\ locals = 0
  /\ pc = 0 /\ sp = 0 /\ fp = 0 /\ frames = <<>>
  /\ budget \in Budgets /\ typed = 0 /\ lines = 0

(* compile_impl: savepoints, and p->bc_pos at the end of the arena. *)
BeginLine ==
  /\ phase = "prompt" /\ lines < MaxLines
  /\ phase' = "parse" /\ lines' = lines + 1
  /\ saved' = [count |-> Len(funcs), arena |-> arena,
               funcs |-> funcs, bytes |-> SubSeq(code, 1, arena)]
  /\ UNCHANGED <<code, arena, funcs, replaced, open, loops, locals,
                 running, budget, typed>>

(* Mutant: a rebound function is not given its old definition back. *)
funcs_rollback_no_restore == SubSeq(funcs, 1, saved.count)

funcs_rollback ==
  LET kept == SubSeq(funcs, 1, saved.count)
  IN  IF replaced.idx \in DOMAIN kept
      THEN [kept EXCEPT ![replaced.idx] = replaced.entry] ELSE kept

(* At the prompt nothing is kept of a line but the arena: the next compile *)
(* starts over above it.                                                   *)
BackToPrompt(used) ==
  /\ phase' = "prompt"
  /\ arena' = used
  /\ code' = SubSeq(code, 1, used)
  /\ open' = <<>> /\ loops' = <<>> /\ locals' = 0
  /\ replaced' = NoReplacement /\ saved' = NoSavepoint
  /\ pc' = 0 /\ sp' = 0 /\ fp' = 0 /\ frames' = <<>>
  /\ UNCHANGED <<budget, typed, lines>>

(* p->err: whatever made the line fail, it is rolled back. *)
Reject ==
  /\ phase = "parse"
  /\ funcs' = funcs_rollback
  /\ BackToPrompt(saved.arena)

(* parse_program reaches the end: OP_HALT, and vm_run starts. *)
EndLine ==
  /\ phase = "parse" /\ open = <<>>
  /\ code' = Emit(code, 0, <<OP_HALT>>)
  /\ Len(code') <= FILE_BC_SIZE
  /\ phase' = "run"
  /\ pc' = arena + 1 /\ sp' = 0 /\ fp' = 0 /\ frames' = <<>>
  /\ UNCHANGED <<arena, funcs, replaced, saved, open, loops, locals,
                 budget, typed, lines>>

-----------------------------------------------------------------------------
(* Statements.  What cannot be typed here is a compile error: Reject. *)

Typing(kind) ==
  /\ phase = "parse" /\ budget[kind] > 0
  /\ budget' = [budget EXCEPT ![kind] = @ - 1]
  /\ typed' = typed + 1
  /\ UNCHANGED <<phase, saved, running, lines>>

(* The same for the end of a construct, which is no statement of its own. *)
Closing ==
  /\ phase = "parse" /\ open # <<>>
  /\ UNCHANGED <<phase, saved, running, budget, typed, lines>>

Emits(c) == Len(c) <= FILE_BC_SIZE /\ code' = c

Opens(o) == open' = Append(open, o)

(* var x = k: a local's initializer stays where it was pushed. *)
VarDecl(k) ==
  /\ Typing("var")
  /\ IF InFunction
     THEN /\ locals < MAX_LOCALS
          /\ locals' = locals + 1
          /\ Emits(Emit(code, Depth, PushInt(k)))
     ELSE /\ Emits(Emit(Emit(code, Depth, PushInt(k)), Depth + 1, DefineGlobal))
          /\ UNCHANGED locals
  /\ UNCHANGED <<arena, funcs, replaced, open, loops>>

(* n arguments, all the same. *)
Arguments(n) ==
  [i \in 1 .. 2 * n |->
     IF i % 2 = 1 THEN Cell(OP_INT_U8, Depth + i \div 2)
     ELSE Cell(CHOOSE k \in Literals : TRUE, Operand)]

(* f(k, ...) as a statement. *)
CallStatement(f) ==
  /\ Typing("call")
  /\ LET n == funcs[f].params
     IN  Emits(Emit(Emit(code \o Arguments(n), Depth + n, Call(f, n)),
                    Depth + 1, <<OP_POP>>))
  /\ UNCHANGED <<arena, funcs, replaced, open, loops, locals>>

(* A condition, and a jump past what depends on it. *)
Test(c, d, op) == Emit(Emit(c, d, GetGlobal), d + 1, Placeholder(op))

(* if c { *)
If ==
  /\ Typing("if")
  /\ LET c == Test(code, Depth, OP_JUMP_IF_FALSE)
     IN  /\ Emits(c)
         /\ Opens([kind |-> "then", id |-> typed, base |-> locals,
                   patch |-> Len(c) - 1])
  /\ UNCHANGED <<arena, funcs, replaced, loops, locals>>

(* if let v = c {: inside a function v is the next local. *)
IfLet ==
  /\ Typing("if_let")
  /\ LET c == Test(code, Depth, OP_IF_LET)
     IN  /\ Opens([kind |-> "then", id |-> typed, base |-> locals,
                   patch |-> Len(c) - 1])
         /\ IF InFunction
            THEN locals < MAX_LOCALS /\ locals' = locals + 1 /\ Emits(c)
            ELSE /\ Emits(Emit(c, Depth + 1, DefineGlobal))
                 /\ UNCHANGED locals
  /\ UNCHANGED <<arena, funcs, replaced, loops>>

(* } of an if without else, or of an else. *)
EndIf ==
  /\ Closing /\ Innermost.kind \in {"then", "else"}
  /\ Emits(patch_jump_to_here(LeaveBlock(code), {Innermost.patch}))
  /\ open' = Front(open)
  /\ locals' = Innermost.base
  /\ UNCHANGED <<arena, funcs, replaced, loops>>

(* Mutant: the then-arm does not jump over the else-arm. *)
Else_no_jump ==
  /\ Closing /\ Innermost.kind = "then"
  /\ Emits(patch_jump_to_here(LeaveBlock(code), {Innermost.patch}))
  /\ open' = Append(Front(open), [Innermost EXCEPT !.kind = "else"])
  /\ locals' = Innermost.base
  /\ UNCHANGED <<arena, funcs, replaced, loops>>

(* } else { *)
Else ==
  /\ Closing /\ Innermost.kind = "then"
  /\ LET c == Emit(LeaveBlock(code), DepthLeft, Placeholder(OP_JUMP))
     IN  /\ Emits(patch_jump_to_here(c, {Innermost.patch}))
         /\ open' = Append(Front(open),
                      [Innermost EXCEPT !.kind = "else", !.patch = Len(c) - 1])
  /\ locals' = Innermost.base
  /\ UNCHANGED <<arena, funcs, replaced, loops>>

(* while c { *)
While ==
  /\ Typing("while") /\ Len(loops) < LOOPS_MAX_DEPTH
  /\ LET c == Test(code, Depth, OP_JUMP_IF_FALSE)
     IN  /\ Emits(c)
         /\ Opens([kind |-> "while", id |-> typed, base |-> locals,
                   start |-> Here(code), exit |-> Len(c) - 1])
  /\ loops' = Append(loops, <<>>)
  /\ UNCHANGED <<arena, funcs, replaced, locals>>

EndWhile ==
  /\ Closing /\ Innermost.kind = "while"
  /\ LET body == LeaveBlock(code)
         c == Emit(body, DepthLeft, BackJump(Here(body), Innermost.start))
     IN  Emits(patch_jump_to_here(c, {Innermost.exit} \cup Breaks))
  /\ open' = Front(open) /\ loops' = Front(loops)
  /\ locals' = Innermost.base
  /\ UNCHANGED <<arena, funcs, replaced>>

(* for i in a ..< b {: b stays on the stack below whatever the body        *)
(* declares, and inside a function takes an unnamed local's slot.          *)
ForIn(k) ==
  /\ Typing("for") /\ Len(loops) < LOOPS_MAX_DEPTH
  /\ LET ends  == Emit(Emit(code, Depth, PushInt(k)), Depth + 1, PushInt(k))
         head  == Emit(Emit(ends, Depth + 2, <<OP_SWAP>>), Depth + 2, DefineGlobal)
         more  == Emit(Emit(head, Depth + 1, GetGlobal), Depth + 2, <<OP_OVER>>)
         c     == Emit(Emit(more, Depth + 3, <<OP_LT>>), Depth + 2,
                       Placeholder(OP_JUMP_IF_FALSE))
         slots == IF InFunction THEN 1 ELSE 0
     IN  /\ locals + slots <= MAX_LOCALS
         /\ locals' = locals + slots
         /\ Emits(c)
         /\ Opens([kind |-> "for", id |-> typed, base |-> locals + slots,
                   start |-> Here(head), exit |-> Len(c) - 1])
  /\ loops' = Append(loops, <<>>)
  /\ UNCHANGED <<arena, funcs, replaced>>

EndFor ==
  /\ Closing /\ Innermost.kind = "for"
  /\ LET body == LeaveBlock(code)
         d    == DepthLeft
         more == Emit(Emit(body, d, GetGlobal), d + 1, <<OP_INC>>)
         next == Emit(more, d + 1, SetGlobal)
         c    == Emit(next, d, BackJump(Here(next), Innermost.start))
     IN  Emits(Emit(patch_jump_to_here(c, {Innermost.exit} \cup Breaks), d, <<OP_POP>>))
  /\ open' = Front(open) /\ loops' = Front(loops)
  /\ locals' = IF InFunction THEN Innermost.base - 1 ELSE locals
  /\ UNCHANGED <<arena, funcs, replaced>>

(* The locals the innermost open loop started with. *)
LoopBase == Max({k \in DOMAIN open : open[k].kind \in {"while", "for"}})

RecordBreak(at) ==
  loops' = Append(Front(loops), Append(Last(loops), at))

(* Mutant: the table of break sites is taken to be unbounded. *)
Break_unbounded ==
  /\ Typing("break") /\ InLoop
  /\ "break_over_locals" \in Avoided => locals = open[LoopBase].base
  /\ LET c == Emit(code, Depth, Placeholder(OP_JUMP))
     IN  Emits(c) /\ RecordBreak(Len(c) - 1)
  /\ UNCHANGED <<arena, funcs, replaced, open, locals>>

(* break: nothing is popped on the way out. *)
Break ==
  /\ Typing("break") /\ InLoop
  /\ "break_over_locals" \in Avoided => locals = open[LoopBase].base
  /\ Len(Last(loops)) < LOOPS_MAX_BREAKS_LOOP
  /\ LET c == Emit(code, Depth, Placeholder(OP_JUMP))
     IN  Emits(c) /\ RecordBreak(Len(c) - 1)
  /\ UNCHANGED <<arena, funcs, replaced, open, locals>>

(* return k, or return from a void function. *)
Return(k) ==
  /\ Typing("return") /\ InFunction
  /\ Emits(IF funcs[Function.id].ret
           THEN Emit(Emit(code, Depth, PushInt(k)), Depth + 1, <<OP_RETURN>>)
           ELSE Emit(code, Depth, <<OP_RETURN_V>>))
  /\ UNCHANGED <<arena, funcs, replaced, open, loops, locals>>

-----------------------------------------------------------------------------
(* Functions. *)

(* func f(...) {: a new entry, or a rebound one whose old definition is    *)
(* kept for a rollback.  The signature is set before the body is parsed.   *)
BeginFunc(f, n, ret) ==
  /\ Typing("func") /\ ~InFunction
  /\ "func_in_block" \in Avoided => open = <<>>
  /\ f \in 1 .. Len(funcs) + 1 /\ f <= MAX_FUNCS
  /\ LET rebound == f \in DOMAIN funcs
         start == IF rebound THEN funcs[f].start ELSE 0
         entry == [start |-> start, params |-> n, ret |-> ret]
     IN  /\ "two_redefinitions" \in Avoided /\ rebound => replaced.idx = 0
         /\ replaced' = IF rebound THEN [idx |-> f, entry |-> funcs[f]]
                        ELSE replaced
         /\ funcs' = IF rebound THEN [funcs EXCEPT ![f] = entry]
                     ELSE Append(funcs, entry)
  /\ locals' = n
  /\ Opens([kind |-> "func", id |-> f, base |-> 0, start |-> Len(code)])
  /\ UNCHANGED <<code, arena, loops>>

(* bcbuf_rotate_func_into_arena: the body, from b on, goes below the       *)
(* scratch in front of it.                                                 *)
Rotate(c, b) ==
  SubSeq(c, 1, arena) \o SubSeq(c, b + 1, Len(c)) \o SubSeq(c, arena + 1, b)

(* The body's last byte looks like a return; it may be an operand, or the  *)
(* return of an arm that is not always taken.                              *)
EndsInReturn ==
  Len(code) > Innermost.start /\ Last(code).b \in {OP_RETURN, OP_RETURN_V}

(* Every way through the body ends in a return exactly when its last byte  *)
(* looks like one.                                                         *)
LastByteRight ==
  EndsInReturn <=> /\ Len(code) > Innermost.start
                   /\ Last(code).b \in {OP_RETURN, OP_RETURN_V}
                   /\ Last(code).at # Operand
                   /\ Len(Last(code).path) = 1

(* Mutant: the return is left to the program. *)
EndFunc_no_return ==
  /\ Closing /\ Innermost.kind = "func"
  /\ "last_byte" \in Avoided => LastByteRight
  /\ EndsInReturn \/ ~funcs[Innermost.id].ret
  /\ LET f == Innermost.id
     IN  /\ Emits(Rotate(code, Innermost.start))
         /\ funcs' = [funcs EXCEPT ![f].start = arena]
         /\ arena' = arena + Len(code) - Innermost.start
  /\ locals' = 0
  /\ open' = Front(open)
  /\ UNCHANGED <<replaced, loops>>

(* } of a function. *)
EndFunc ==
  /\ Closing /\ Innermost.kind = "func"
  /\ "last_byte" \in Avoided => LastByteRight
  /\ EndsInReturn \/ ~funcs[Innermost.id].ret
  /\ LET f == Innermost.id
         c == IF EndsInReturn THEN code
              ELSE Emit(code, Depth, <<OP_RETURN_V>>)
     IN  /\ Emits(Rotate(c, Innermost.start))
         /\ funcs' = [funcs EXCEPT ![f].start = arena]
         /\ arena' = arena + Len(c) - Innermost.start
  /\ locals' = 0
  /\ open' = Front(open)
  /\ UNCHANGED <<replaced, loops>>

Statement ==
  \/ \E k \in Literals : VarDecl(k) \/ Return(k) \/ ForIn(k)
  \/ \E f \in DOMAIN funcs : CallStatement(f)
  \/ If \/ IfLet \/ Else \/ EndIf \/ While \/ EndWhile \/ EndFor \/ Break
  \/ \E f \in 1 .. MAX_FUNCS, n \in Params, ret \in BOOLEAN :
       BeginFunc(f, n, ret)
  \/ EndFunc

-----------------------------------------------------------------------------
(* The machine of vm.c, kept to where it is and how deep its stack is. *)

OnInstruction == pc \in DOMAIN code /\ code[pc].at # Operand

Op == code[pc].b
Word(i) == code[i].b + 256 * code[i + 1].b

(* Instructions that only move the stack: by how much, and their bytes. *)
Effect(op) ==
  CASE op \in {OP_INT_U8, OP_GET_GLOBAL, OP_OVER}                    -> 1
    [] op \in {OP_SET_GLOBAL, OP_DEFINE_GLOBAL, OP_POP, OP_LT}       -> -1
    [] op \in {OP_SWAP, OP_INC}                                      -> 0

Wide   == {OP_INT_U8, OP_GET_GLOBAL, OP_SET_GLOBAL, OP_DEFINE_GLOBAL}
Narrow == {OP_POP, OP_SWAP, OP_OVER, OP_INC, OP_LT}

Running == phase = "run" /\ OnInstruction

GoTo(next, deep) ==
  /\ pc' = next /\ sp' = deep
  /\ UNCHANGED <<phase, compiling, fp, frames, budget, typed, lines>>

StraightOn ==
  /\ Running /\ Op \in Wide \cup Narrow
  /\ GoTo(pc + (IF Op \in Wide THEN 2 ELSE 1), sp + Effect(Op))

Jump     == Running /\ Op = OP_JUMP /\ GoTo(pc + 3 + Word(pc + 1), sp)
LoopBack == Running /\ Op = OP_LOOP /\ GoTo(pc + 3 - Word(pc + 1), sp)

JumpIfFalse ==
  /\ Running /\ Op = OP_JUMP_IF_FALSE
  /\ GoTo(pc + 3, sp - 1) \/ GoTo(pc + 3 + Word(pc + 1), sp - 1)

IfLetOp ==
  /\ Running /\ Op = OP_IF_LET
  /\ GoTo(pc + 3, sp) \/ GoTo(pc + 3 + Word(pc + 1), sp - 1)

(* A rebound function may have other parameters than its older callers     *)
(* were compiled for.                                                      *)
Callable ==
  LET f == code[pc + 1].b
  IN  /\ funcs[f].start < Len(code)
      /\ Len(frames) < VM_CALL_FRAMES
      /\ funcs[f].params = code[pc + 2].b

CallOp ==
  /\ Running /\ Op = OP_CALL /\ Callable
  /\ pc' = funcs[code[pc + 1].b].start + 1 /\ fp' = sp - code[pc + 2].b
  /\ frames' = Append(frames, [pc |-> pc + 3, fp |-> fp])
  /\ UNCHANGED <<phase, compiling, sp, budget, typed, lines>>

(* OP_RETURN and OP_RETURN_V: one value where the callee's stack began. *)
ReturnOp ==
  /\ Running /\ Op \in {OP_RETURN, OP_RETURN_V}
  /\ frames # <<>>
  /\ pc' = Last(frames).pc /\ sp' = fp + 1 /\ fp' = Last(frames).fp
  /\ frames' = Front(frames)
  /\ UNCHANGED <<phase, compiling, budget, typed, lines>>

(* OP_HALT, or a runtime error. *)
Stop ==
  /\ Running
  /\ \/ Op = OP_HALT
     \/ Op = OP_CALL /\ ~Callable
  /\ BackToPrompt(arena)
  /\ UNCHANGED funcs

Execute == StraightOn \/ Jump \/ LoopBack \/ JumpIfFalse \/ IfLetOp
             \/ CallOp \/ ReturnOp \/ Stop

Next == BeginLine \/ Statement \/ EndLine \/ Reject \/ Execute

Spec == Init /\ [][Next]_vars

-----------------------------------------------------------------------------
TypeOK ==
  /\ phase \in {"prompt", "parse", "run"}
  /\ Len(code) <= FILE_BC_SIZE /\ arena \in 0 .. Len(code)
  /\ \A i \in DOMAIN code : code[i].b \in 0 .. 255
  /\ Len(funcs) <= MAX_FUNCS
  /\ \A f \in DOMAIN funcs : funcs[f].start \in 0 .. arena
  /\ locals \in 0 .. MAX_LOCALS
  /\ Len(loops) <= LOOPS_MAX_DEPTH
  /\ \A i \in DOMAIN loops : Len(loops[i]) <= LOOPS_MAX_BREAKS_LOOP
  /\ Len(frames) <= VM_CALL_FRAMES

(* Every jump, call and return lands on the first byte of an instruction,  *)
(* although functions are moved under the code that precedes them after    *)
(* that code was emitted.                                                  *)
JumpsLand == phase = "run" => OnInstruction

(* Whichever way the conditions went, the stack is as deep as the compiler *)
(* took it to be when it emitted the instruction, so locals are where      *)
(* OP_GET_LOCAL looks for them and a block's pops remove its own values.   *)
DepthAgrees == phase = "run" /\ OnInstruction => sp - fp = code[pc].at

(* Execution leaves a function only by returning and enters one only by    *)
(* calling it: the frames say which function's code is running.            *)
Unit == code[pc].path[1]
StaysInUnit ==
  phase = "run" /\ OnInstruction =>
    IF frames = <<>> THEN Unit = 0
    ELSE Unit = code[Last(frames).pc - 2].b

(* No step goes from one arm of an if into the other. *)
Arms(path, kind) ==
  {path[i][2] : i \in {j \in 2 .. Len(path) : path[j][1] = kind}}
ArmsExclusive ==
  [][phase = "run" /\ phase' = "run" /\ frames' = frames /\ pc' \in DOMAIN code
       => Arms(code[pc].path, "then") \cap Arms(code[pc'].path, "else") = {}]_vars

(* A line that does not compile leaves the functions, and the code they    *)
(* run, as they were before it.                                            *)
RejectedLineLeavesNoTrace ==
  [][phase = "parse" /\ phase' = "prompt"
       => /\ funcs' = saved.funcs
          /\ SubSeq(code', 1, arena') = saved.bytes]_vars
=============================================================================
