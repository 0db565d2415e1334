--------------------------------- MODULE Vm ---------------------------------
(***************************************************************************)
(* A REPL session on the bytecode machine of src/vm/vm.c: lines are        *)
(* compiled and run one opcode at a time over one heap, their globals and  *)
(* string literals staying behind for the lines that follow.               *)
(*                                                                         *)
(* The lines a session may type are the constant Lines, already compiled   *)
(* by the operators of Statements.  The functions they call stand in front *)
(* of each line's code, as they do in the arena of bcbuf.c.                *)
(***************************************************************************)
EXTENDS Memory, Statements

CONSTANTS
  VM_STACK_SLOTS,
  VM_CALL_FRAMES,
  ConcatMax,      (* Size of OP_ADD's concatenation buffer.                *)
  INT_MOD,        (* 2^16: integers wrap.                                  *)
  GlobalNames,
  Arena,          (* The code of the session's functions.                  *)
  FuncStart,      (* Where each function starts in Arena.                  *)
  ParamCount,     (* How many parameters it has.                           *)
  Lines,          (* A sequence of records [code, lits, new]: a line's     *)
                  (* code, the texts of its string literals and the names  *)
                  (* its let and var statements declare.                   *)
  Scripts,        (* Bound: the sets of lines one session keeps to.        *)
  Inputs,         (* What readLine() may return, besides nil.              *)
  MaxFaults       (* Bound: runtime errors after which the session goes on *)
                  (* to another line.                                      *)

ASSUME VmSizes == /\ VM_STACK_SLOTS \in Nat /\ VM_CALL_FRAMES \in Nat
                  /\ MaxFaults \in Nat
                  /\ ConcatMax \in Nat /\ INT_MOD \in Nat \ {0}

VARIABLES
  script,     (* The lines this session may type.                          *)
  m,          (* The heap and what its blocks hold.                        *)
  stack,      (* s_stack below vm_sp.                                      *)
  globals,    (* s_globals; Undefined where s_globals_defined is 0.        *)
  frames,     (* s_frames: [pc, fp] of the callers.                        *)
  fp,         (* vm_fp.                                                    *)
  pc,         (* Next instruction of the running line.                     *)
  code,       (* The bytecode of the running line, empty at the prompt.    *)
  declared,   (* The names in the compiler's table of globals.             *)
  lits,       (* The offsets of its literals.                              *)
  constants,  (* Ghost: every literal's offset since :reset; the bytecode  *)
              (* holds the reference it was allocated with.                *)
  faults      (* Ghost: lines since :reset that ended in a runtime error.  *)

vars == <<script, m, stack, globals, frames, fp, pc,
          code, declared, lits, constants, faults>>
session == <<script, code, declared, lits, constants, faults>>

Undefined == [tag |-> "undefined", p |-> 0]

Init ==
  /\ script \in Scripts
  /\ m = EmptyMemory
  /\ stack = <<>> /\ frames = <<>> /\ fp = 0 /\ pc = 0
  /\ globals = [g \in GlobalNames |-> Undefined]
  /\ code = <<>> /\ declared = {}
  /\ lits = <<>> /\ constants = {} /\ faults = 0

AtPrompt == code = <<>>

-----------------------------------------------------------------------------
(* The prompt. *)

(* emit_literal_piece allocates each literal, refcount 1, as it is parsed. *)
WithLiterals(texts) ==
  FoldLeft(LAMBDA acc, t : [mem |-> NewStr(acc.mem, t),
                            at  |-> Append(acc.at, acc.mem.heap.ptr)],
           [mem |-> m, at |-> <<>>], texts)

LiteralBytes(texts) ==
  FoldLeft(LAMBDA n, t : n + HEADER_SIZE + Len(t), 0, texts)

Mentioned(l, ops) ==
  LET c == Lines[l].code
  IN  {c[i].a : i \in {j \in DOMAIN c : c[j].op \in ops}}

(* A line is typed and compiles.  When its literals do not fit, or it      *)
(* names an undeclared global or declares one again, it is rejected and    *)
(* the rollback leaves nothing changed: see Heap.                          *)
Type(l) ==
  /\ AtPrompt /\ faults <= MaxFaults
  /\ Lines[l].new \cap declared = {}
  /\ Mentioned(l, {"GET_GLOBAL", "SET_GLOBAL"})
       \subseteq declared \cup Mentioned(l, {"DEFINE_GLOBAL"})
  /\ declared' = declared \cup Mentioned(l, {"DEFINE_GLOBAL"})
  /\ m.heap.ptr + LiteralBytes(Lines[l].lits) <= HEAP_SIZE
  /\ LET compiled == WithLiterals(Lines[l].lits)
     IN  /\ m' = compiled.mem
         /\ lits' = compiled.at
         /\ constants' = constants \cup Range(compiled.at)
  /\ code' = Arena \o Lines[l].code
  /\ pc' = Len(Arena) + 1
  /\ stack' = <<>> /\ frames' = <<>> /\ fp' = 0
  /\ UNCHANGED <<script, globals, faults>>

(* :reset *)
Reset ==
  /\ AtPrompt
  /\ m' = EmptyMemory
  /\ stack' = <<>> /\ frames' = <<>> /\ fp' = 0
  /\ globals' = [g \in GlobalNames |-> Undefined]
  /\ declared' = {} /\ constants' = {} /\ faults' = 0
  /\ UNCHANGED <<script, pc, code, lits>>

Prompt == (\E l \in script : Type(l)) \/ Reset

-----------------------------------------------------------------------------
(* One turn of the dispatch loop. *)

Instr == code[pc]
At(op) == ~AtPrompt /\ Instr.op = op
Arg == Instr.a

Top     == stack[Len(stack)]
Second  == stack[Len(stack) - 1]
Third   == stack[Len(stack) - 2]
Below(n) == SubSeq(stack, 1, Len(stack) - n)

(* A runtime error abandons the line.  What is left on the stack is        *)
(* dropped without a release: the next vm_run only zeroes vm_sp.           *)
Fail(mm) ==
  /\ m' = mm
  /\ code' = <<>> /\ pc' = 0 /\ lits' = <<>> /\ faults' = faults + 1
  /\ stack' = <<>> /\ frames' = <<>> /\ fp' = 0
  /\ UNCHANGED <<script, globals, declared, constants>>

GoOn(mm, st, next) ==
  /\ m' = mm /\ stack' = st /\ pc' = next
  /\ UNCHANGED <<globals, frames, fp, session>>

Continue(mm, st) == GoOn(mm, st, pc + 1)

(* The bound every push checks. *)
PushOn(mm, st, v) ==
  IF Len(st) >= VM_STACK_SLOTS THEN Fail(mm) ELSE Continue(mm, Append(st, v))

PushImmediate ==
  \/ At("NIL") /\ PushOn(m, stack, Nil)
  \/ At("INT") /\ PushOn(m, stack, IntV(Arg))

(* Mutant: a full stack is not noticed. *)
PushCopyOf_unchecked(v) == Continue(value_retain(m, v), Append(stack, v))

PushCopyOf(v) ==
  IF Len(stack) >= VM_STACK_SLOTS THEN Fail(m)
  ELSE Continue(value_retain(m, v), Append(stack, v))

(* OP_STR: a new reference to the constant. *)
PushLiteral == At("STR") /\ PushCopyOf(StrV(lits[Arg]))

Pop == At("POP") /\ Continue(value_release(m, Top), Below(1))

Dup  == At("DUP") /\ PushCopyOf(Top)
Over == At("OVER") /\ PushCopyOf(Second)
Swap == At("SWAP") /\ Continue(m, Below(2) \o <<Top, Second>>)

StoreGlobal(mm) ==
  /\ m' = mm
  /\ globals' = [globals EXCEPT ![Arg] = Top]
  /\ stack' = Below(1) /\ pc' = pc + 1
  /\ UNCHANGED <<frames, fp, session>>

DefineGlobal ==
  /\ At("DEFINE_GLOBAL")
  /\ StoreGlobal(value_release(m, globals[Arg]))

GetGlobal ==
  /\ At("GET_GLOBAL")
  /\ IF globals[Arg] = Undefined THEN Fail(m) ELSE PushCopyOf(globals[Arg])

SetGlobal ==
  /\ At("SET_GLOBAL")
  /\ IF globals[Arg] = Undefined THEN Fail(m)
     ELSE StoreGlobal(value_release(m, globals[Arg]))

-----------------------------------------------------------------------------
(* Strings and integers. *)

(* Mutant: the result is written over the left operand's block. *)
StringAdd_in_place ==
  LET t == m.payload[Second.p].text \o m.payload[Top.p].text
  IN  IF Len(t) > ConcatMax THEN Fail(m)
      ELSE Continue(value_release([m EXCEPT !.payload[Second.p].text = t], Top),
                    Append(Below(2), Second))

StringAdd ==
  LET t == m.payload[Second.p].text \o m.payload[Top.p].text
      released == release_all(m, <<Top, Second>>)
  IN  IF Len(t) > ConcatMax THEN Fail(m)
      ELSE IF ~StrRoom(released, t) THEN Fail(released)
      ELSE PushOn(NewStr(released, t), Below(2), StrV(released.heap.ptr))

Add ==
  /\ At("ADD")
  /\ IF Top.tag = "str" /\ Second.tag = "str" THEN StringAdd
     ELSE IF Top.tag = "int" /\ Second.tag = "int"
     THEN Continue(m, Append(Below(2), IntV((Second.p + Top.p) % INT_MOD)))
     ELSE Fail(m)

(* OP_STR_INTERP_I; the text of a number, a Bool or nil is one character. *)
StrInterp ==
  /\ At("STR_INTERP")
  /\ CASE Top.tag = "str" -> Continue(m, stack)
       [] Top.tag \in {"int", "bool", "nil"} ->
            IF ~StrRoom(m, <<"n">>) THEN Fail(m)
            ELSE PushOn(NewStr(m, <<"n">>), Below(1), StrV(m.heap.ptr))
       [] OTHER -> Fail(m)

Inc ==
  /\ At("INC")
  /\ IF Top.tag # "int" THEN Fail(m)
     ELSE Continue(m, Append(Below(1), IntV((Top.p + 1) % INT_MOD)))

Lt ==
  /\ At("LT")
  /\ IF Top.tag # "int" \/ Second.tag # "int" THEN Fail(m)
     ELSE Continue(m, Append(Below(2), BoolV(Second.p < Top.p)))

(* OP_EQ compares tag and payload and releases neither operand. *)
Eq == At("EQ") /\ Continue(m, Append(Below(2), BoolV(Second = Top)))

-----------------------------------------------------------------------------
(* Control. *)

JumpIfFalse ==
  /\ At("JUMP_IF_FALSE")
  /\ IF Top.tag # "bool" THEN Fail(m)
     ELSE GoOn(m, Below(1), IF Top = BoolV(FALSE) THEN pc + 1 + Arg ELSE pc + 1)

Jump == At("JUMP") /\ GoOn(m, stack, pc + 1 + Arg)

Loop == At("LOOP") /\ GoOn(m, stack, pc + 1 - Arg)

Unwrap == At("UNWRAP") /\ IF Top = Nil THEN Fail(m) ELSE Continue(m, stack)

IfLetOp ==
  /\ At("IF_LET")
  /\ IF Top = Nil THEN GoOn(m, Below(1), pc + 1 + Arg)
     ELSE Continue(m, stack)

NilCoalesce ==
  /\ At("NIL_COALESCE")
  /\ IF Top = Nil THEN Continue(m, Below(1)) ELSE GoOn(m, stack, pc + 1 + Arg)

GetLocal == At("GET_LOCAL") /\ PushCopyOf(stack[fp + Arg + 1])

SetLocalOp ==
  /\ At("SET_LOCAL")
  /\ Continue(value_release(m, stack[fp + Arg + 1]),
              [Below(1) EXCEPT ![fp + Arg + 1] = Top])

CallOp ==
  /\ At("CALL")
  /\ IF Len(frames) >= VM_CALL_FRAMES THEN Fail(m)
     ELSE /\ frames' = Append(frames, [pc |-> pc + 1, fp |-> fp])
          /\ fp' = Len(stack) - ParamCount[Arg]
          /\ pc' = FuncStart[Arg]
          /\ UNCHANGED <<m, stack, globals, session>>

(* Back to the caller with v where the callee's locals began. *)
LeaveWith(mm, v) ==
  LET caller == Last(frames)
  IN  /\ m' = mm
      /\ stack' = Append(SubSeq(stack, 1, fp), v)
      /\ frames' = Front(frames)
      /\ pc' = caller.pc /\ fp' = caller.fp
      /\ UNCHANGED <<globals, session>>

(* Mutant: parameters and locals keep their references. *)
ReturnOp_locals_kept ==
  /\ At("RETURN")
  /\ LeaveWith(m, Top)

ReturnOp ==
  /\ At("RETURN")
  /\ LeaveWith(release_all(m, SubSeq(stack, fp + 1, Len(stack) - 1)), Top)

ReturnVoid ==
  /\ At("RETURN_V")
  /\ LeaveWith(release_all(m, SubSeq(stack, fp + 1, Len(stack))), Nil)

Halt ==
  /\ At("HALT")
  /\ code' = <<>> /\ pc' = 0 /\ lits' = <<>>
  /\ stack' = <<>> /\ frames' = <<>> /\ fp' = 0
  /\ UNCHANGED <<script, m, globals, declared, constants, faults>>

-----------------------------------------------------------------------------
(* Arrays. *)

NewArrayOp ==
  /\ At("NEW_ARRAY")
  /\ LET cap == IF Arg = 0 THEN ARRAY_INIT_CAPACITY ELSE Arg
         els == SubSeq(stack, Len(stack) - Arg + 1, Len(stack))
     IN  IF ~ArrayRoom(m, cap) THEN Fail(m)
         ELSE PushOn(NewArray(m, cap, els), Below(Arg), ArrV(m.heap.ptr))

(* Mutant: the element is pushed without a reference of its own. *)
ArrGet_no_retain ==
  /\ At("ARR_GET")
  /\ IF ~InRange(m, Second.p, Top.p) THEN Fail(m)
     ELSE LET v == Elems(m, Second.p)[Top.p + 1]
          IN  Continue(value_release(m, Second), Append(Below(2), v))

ArrGet ==
  /\ At("ARR_GET")
  /\ IF ~InRange(m, Second.p, Top.p) THEN Fail(m)
     ELSE LET v == Elems(m, Second.p)[Top.p + 1]
          IN  Continue(value_release(value_retain(m, v), Second),
                       Append(Below(2), v))

ArrSet ==
  /\ At("ARR_SET")
  /\ IF ~InRange(m, Third.p, Second.p) THEN Fail(m)
     ELSE Continue(release_all(array_set(m, Third.p, Second.p, Top),
                               <<Top, Third>>),
                   Below(3))

ArrLen ==
  /\ At("ARR_LEN")
  /\ LET n == IF Top.tag = "arr" THEN Len(Elems(m, Top.p))
              ELSE Len(m.payload[Top.p].text)
     IN  Continue(value_release(m, Top), Append(Below(1), IntV(n)))

ArrAppend ==
  /\ At("ARR_APPEND")
  /\ IF ~AppendRoom(m, Second.p) THEN Fail(m)
     ELSE LET r == array_append(m, Second.p, Top)
          IN  PushOn(value_release(r.mem, Top), Below(2), ArrV(r.arr))

(* The element moves from the vacated slot to the stack. *)
RemoveLastOp ==
  /\ At("REMOVE_LAST")
  /\ LET els == Elems(m, Top.p)
     IN  IF els = <<>> THEN Fail(m)
         ELSE Continue(value_release(SetElems(m, Top.p, Front(els)), Top),
                       Append(Below(1), Last(els)))

RemoveAllOp ==
  /\ At("REMOVE_ALL")
  /\ LET cleared == SetElems(array_release_elements(m, Top.p), Top.p, <<>>)
     IN  Continue(value_release(cleared, Top), Append(Below(1), Nil))

ContainsOp ==
  /\ At("CONTAINS")
  /\ LET found == Top \in Range(Elems(m, Second.p))
     IN  Continue(release_all(m, <<Top, Second>>),
                  Append(Below(2), BoolV(found)))

-----------------------------------------------------------------------------
(* Other builtins. *)

PrintOp ==
  /\ At("PRINT")
  /\ PushOn(release_all(m, SubSeq(stack, Len(stack) - Arg + 1, Len(stack))),
            Below(Arg), Nil)

(* The line arrives before the stack and the heap are checked. *)
ReadLine ==
  /\ At("READ_LINE")
  /\ \/ PushOn(m, stack, Nil)
     \/ \E t \in Inputs :
          IF Len(stack) >= VM_STACK_SLOTS \/ ~StrRoom(m, t) THEN Fail(m)
          ELSE Continue(NewStr(m, t), Append(stack, StrV(m.heap.ptr)))

Execute ==
  \/ PushImmediate \/ PushLiteral \/ Pop \/ Dup \/ Over \/ Swap
  \/ DefineGlobal \/ GetGlobal \/ SetGlobal
  \/ Add \/ StrInterp \/ Inc \/ Lt \/ Eq
  \/ Jump \/ JumpIfFalse \/ Loop \/ Unwrap \/ IfLetOp \/ NilCoalesce
  \/ GetLocal \/ SetLocalOp \/ CallOp \/ ReturnOp \/ ReturnVoid \/ Halt
  \/ NewArrayOp \/ ArrGet \/ ArrSet \/ ArrLen \/ ArrAppend
  \/ RemoveLastOp \/ RemoveAllOp \/ ContainsOp
  \/ PrintOp \/ ReadLine

Next == Prompt \/ Execute

(* The dispatch loop runs on by itself; nobody has to type another line. *)
Spec == Init /\ [][Next]_vars /\ WF_vars(Execute)

-----------------------------------------------------------------------------
Value ==
  {Nil, BoolV(FALSE), BoolV(TRUE)} \cup {IntV(n) : n \in 0 .. INT_MOD - 1}
    \cup {StrV(o) : o \in Offsets} \cup {ArrV(o) : o \in Offsets}

TypeOK ==
  /\ DOMAIN m.payload = DOMAIN m.heap.hdr
  /\ DOMAIN m.payload \subseteq Offsets
  /\ \A o \in DOMAIN m.payload :
       \/ m.payload[o].kind = "str" /\ Len(m.payload[o].text) <= ConcatMax
       \/ /\ m.payload[o].kind = "arr"
          /\ Range(m.payload[o].elems) \subseteq Value
          /\ Len(m.payload[o].elems) <= m.payload[o].cap
  /\ Range(stack) \subseteq Value /\ Len(stack) <= VM_STACK_SLOTS
  /\ \A g \in GlobalNames : globals[g] \in Value \cup {Undefined}
  /\ Len(frames) <= VM_CALL_FRAMES /\ fp \in 0 .. Len(stack)
  /\ ~AtPrompt => pc \in DOMAIN code
  /\ Range(lits) \subseteq constants

(* Every place a reference is kept.  A block whose count is 0 is dead: its *)
(* elements have been given up.                                            *)
Alive == {o \in DOMAIN m.payload : m.heap.hdr[o].rc > 0}
LiveArrays == {o \in Alive : m.payload[o].kind = "arr"}
Slots == UNION {{<<o, i>> : i \in DOMAIN Elems(m, o)} : o \in LiveArrays}

Holds(v, off) == IsRef(v) /\ v.p = off

References(off) ==
  Cardinality({i \in DOMAIN stack : Holds(stack[i], off)})
  + Cardinality({g \in GlobalNames : Holds(globals[g], off)})
  + Cardinality({s \in Slots : Holds(Elems(m, s[1])[s[2]], off)})
  + (IF off \in constants THEN 1 ELSE 0)

HeldValues ==
  Range(stack) \cup {globals[g] : g \in GlobalNames}
    \cup UNION {Range(Elems(m, o)) : o \in LiveArrays}
    \cup {StrV(o) : o \in constants}

(* No dangling reference: whatever the stack, a global, an array slot or   *)
(* the bytecode refers to is a block of that kind, and its refcount is at  *)
(* least the number of references to it, so it cannot be reclaimed while   *)
(* one of them is left.                                                    *)
NoDangling ==
  \A v \in HeldValues :
    IsRef(v) =>
      /\ v.p \in Alive
      /\ m.payload[v.p].kind = v.tag
      /\ m.heap.hdr[v.p].rc >= References(v.p)

(* No leak: until a line ends in a runtime error (which abandons what is   *)
(* on the stack), every count is exactly the number of references.         *)
NoLeak ==
  faults = 0 => \A o \in Alive : m.heap.hdr[o].rc = References(o)

(* A line that runs to its OP_HALT leaves nothing on the stack: each       *)
(* statement's code pops what it pushed, through loops and calls alike.    *)
LineBalanced == At("HALT") => stack = <<>> /\ frames = <<>>

(* Strings are immutable: the text a variable shows changes only when the  *)
(* variable is assigned, never because the block behind it was reclaimed   *)
(* and handed out again.                                                   *)
Shown(g) == m.payload[globals[g].p].text
StringsKeepTheirText ==
  [][\A g \in GlobalNames :
       globals[g].tag = "str" /\ globals'[g] = globals[g]
         => globals[g].p \in DOMAIN m'.payload /\ Shown(g)' = Shown(g)]_vars

(* Every line comes to an end, even one whose loop appends to the array it *)
(* walks: the loop keeps the old block, whose capacity bounds it.          *)
LinesEnd == ~AtPrompt ~> AtPrompt
=============================================================================
