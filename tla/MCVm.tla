-------------------------------- MODULE MCVm --------------------------------
(* Sessions over the lines below, on a heap where four or five blocks fit. *)
EXTENDS Vm

Line(statements, texts, names) ==
  [code |-> Program(statements), lits |-> texts, new |-> names]
InBlock(x) == x \o <<I("POP", 0)>>

(* The indices the compiler gives the globals and the functions. *)
s == 1
xs == 2
ys == 3
v == 4
ns == 5
ms == 6
f == 1
r == 2
w == 3
MC_GlobalNames == 1 .. 6

S  == Global(s)
Xs == Global(xs)
Ys == Global(ys)
Ns == Global(ns)
Ms == Global(ms)

(* func f(p: String) -> String { var t = p + p; t = p; return t }          *)
(* func r(p: String) -> String { return r(p) }                             *)
(* func w(p: [String]) { p.removeLast() }                                  *)
FBody == Plus(Local(0), Local(0)) \o SetLocal(1, Local(0)) \o Return(Local(1))
RBody == Return(Call(r, Local(0)))
WBody == InBlock(RemoveLast(Local(0))) \o VoidEnd
MC_Arena == FBody \o RBody \o WBody
MC_FuncStart == <<1, Len(FBody) + 1, Len(FBody \o RBody) + 1>>
MC_ParamCount == <<1, 1, 1>>

(* Lines over strings and an array of strings that never has to grow. *)
StringLines == <<
  Line(Declare(s, Lit(1)), <<<<"a">>>>, {s}),       (* var s = "a"     *)
  Line(Declare(xs, ArrayOf2(S, S)), <<>>, {xs}),    (* var xs = [s, s] *)
  Line(Declare(ys, Xs), <<>>, {ys}),                (* var ys = xs     *)
  Line(SetElement(xs, Number(0), Plus(S, S)), <<>>, {}),
  Line(Assign(s, Element(Ys, Number(1))), <<>>, {}),  (* s = ys[1]       *)
  Line(Assign(s, RemoveLast(Xs)), <<>>, {}),
  Line(RemoveAll(Ys), <<>>, {}),
  Line(Echo(HasElement(Xs, S)), <<>>, {}),
  Line(Echo(Count(S)), <<>>, {}),
  (* for v in ys { ys.removeLast() } *)
  Line(ForInArray(v, Ys, InBlock(RemoveLast(Ys))), <<>>, {}),
  (* for v in ys { print(v, s) } *)
  Line(ForInArray(v, Ys, Print2(Global(v), S)), <<>>, {}),
  (* for v in xs { print(v, s + s) } needs a fifth stack slot *)
  Line(ForInArray(v, Xs, Print2(Global(v), Plus(S, S))), <<>>, {}),
  (* xs = [s, s]; xs.removeLast(); xs.append(s + s) *)
  Line(Assign(xs, ArrayOf2(S, S)) \o Echo(RemoveLast(Xs))
         \o AppendTo(xs, Plus(S, S)), <<>>, {}),
  Line(Assign(s, Call(f, S)), <<>>, {}),            (* s = f(s)        *)
  Line(Assign(s, Call(r, S)), <<>>, {}),
  (* s = "\(1)a"; if let s = readLine() { print(s, s) } *)
  Line(Assign(s, Interpolated(Number(1), Lit(1))), <<<<"a">>>>, {}),
  Line(IfLet(s, ReadLineCall, Print2(S, S)), <<>>, {}),
  (* s = readLine() ?? s; s = readLine()!; s = nil ?? s *)
  Line(Assign(s, OrElse(ReadLineCall, S)), <<>>, {}),
  Line(Assign(s, Forced(ReadLineCall)) \o Assign(s, OrElse(NilLiteral, S)),
       <<>>, {}),
  (* if 1 < s.count && 1 < xs.count { w(xs) } else { s = xs[0] } *)
  Line(IfElse(Both(Less(Number(1), Count(S)), Less(Number(1), Count(Xs))),
              InBlock(Call(w, Xs)), Assign(s, Element(Xs, Number(0)))),
       <<>>, {})
>>

(* Lines over arrays of integers, which grow. *)
IntLines == <<
  Line(Declare(ns, ArrayOf1(Number(1))), <<>>, {ns}),
  Line(Declare(ms, Ns), <<>>, {ms}),
  Line(AppendTo(ns, Number(2)), <<>>, {}),
  Line(AppendTo(ms, Element(Ns, Number(0))), <<>>, {}),
  Line(ForInArray(v, Ns, AppendTo(ns, Global(v))), <<>>, {}),
  Line(Echo(Equal(Element(Ms, Number(0)), Element(Ns, Number(0)))), <<>>, {}),
  Line(InBlock(RemoveLast(Ms)), <<>>, {}),
  Line(Assign(ns, ArrayOf2(Number(3), Count(Ms))), <<>>, {})
>>

(* What MCGrow adds: an array of strings that grows, xs.append(s). *)
GrowLine  == Line(AppendTo(xs, S), <<>>, {})
GrowLines == <<StringLines[1], StringLines[2], GrowLine>>
MC_AllLines == {DOMAIN Lines}

SessionLines == StringLines \o IntLines
MC_Scripts == {1 .. Len(StringLines),
               Len(StringLines) + 1 .. Len(SessionLines)}

MC_Inputs == {<<"a">>}
=============================================================================
