---------------------------- MODULE MCFrontEnd -----------------------------
(* Instances of FrontEnd, and of SimtStack in it, for TLC.                  *)
EXTENDS FrontEnd

CONSTANTS
  Base,            \* the address the kernel is loaded at
  KernelSize,      \* instructions of a kernel without calls; one more if all
                   \* branches are predicated and go forward
  CallerSize, CalleeSize \* instructions of a kernel with calls, and of its function

I(op, pred, target) == [op |-> op, pred |-> pred, target |-> target]
Ret == I("ret", FALSE, NoPC)
Branches(pcs, preds) == {I("bra", b, q) : b \in preds, q \in pcs}

\* Bodies at the addresses pcs, of instructions in ins and a last return.
Bodies(pcs, ins) == {c \in [pcs -> ins] : c[Max(pcs)] = Ret}

\* The well-formed kernels of n instructions without calls.
Kernels(n, preds) ==
  LET pcs == Base .. Base + n - 1
      ins == {Ret, I("alu", FALSE, NoPC), I("exit", TRUE, NoPC)} \cup Branches(pcs, preds)
  IN  {p \in {[code |-> c, start |-> {Base}] : c \in Bodies(pcs, ins)} : WellFormed(p)}

Forward(p) == \A pc \in DOMAIN p.code : p.code[pc].op = "bra" => p.code[pc].target > pc

\* Every kernel of CallerSize instructions that calls a function of CalleeSize.
Callers ==
  LET pcs == Base .. Base + CallerSize - 1
      callee == Base + CallerSize .. Base + CallerSize + CalleeSize - 1
      ins == {Ret, I("alu", FALSE, NoPC), I("call", FALSE, Min(callee))}
      codes == {c @@ d : c \in Bodies(pcs, ins \cup Branches(pcs, {TRUE})),
                         d \in Bodies(callee, {Ret} \cup Branches(callee, {TRUE}))}
  IN  {p \in {[code |-> c, start |-> {Base, Min(callee)}] : c \in codes} : WellFormed(p)}

Diverges(p) == \E pc \in Body(p, Base) : p.code[pc].pred
ReturnDiverges(p) ==
  \E pc \in DOMAIN p.code \ Body(p, Base) : ConvergePoint(p, pc) = ReturnPC

\* Without the programs that call, from code that may diverge, a function in
\* which threads may part until it returns.
Supported ==
  Kernels(KernelSize, BOOLEAN) \cup {p \in Kernels(KernelSize + 1, {TRUE}) : Forward(p)}
  \cup {p \in Callers : ~(Diverges(p) /\ ReturnDiverges(p))}

\* One of the programs Supported leaves out: an if around a call of a function
\* with two returns.
DivergentReturn ==
  {[code |-> 1 :> I("bra", TRUE, 3) @@ 2 :> I("call", FALSE, 4) @@ 3 :> Ret
          @@ 4 :> I("bra", TRUE, 6) @@ 5 :> Ret @@ 6 :> Ret,
    start |-> {1, 4}]}
=============================================================================
