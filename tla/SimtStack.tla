------------------------------ MODULE SimtStack ------------------------------
(***************************************************************************)
(* How one warp executes a kernel: the threads of the functional model,    *)
(* each with its own pc and call stack (cuda-sim), and the reconvergence   *)
(* stack that decides which of them run next and where they meet again     *)
(* (abstract_hardware_model.cc: simt_stack).  The two are kept apart and   *)
(* must agree: ptx_exec_inst asserts it for every thread of every          *)
(* instruction.                                                            *)
(*                                                                         *)
(* Predicates are any choice of the threads that skip an instruction; the  *)
(* program is any member of Program.                                       *)
(***************************************************************************)
EXTENDS FlowGraph, Sequences, SequencesExt

CONSTANTS
  WarpSize,
  Program          \* the programs that may be loaded

ASSUME SimtAssumption ==
  /\ WarpSize \in Nat \ {0}
  /\ \A p \in Program : WellFormed(p) /\ DOMAIN p.code \subseteq Nat

Threads == 0 .. WarpSize - 1

VARIABLES
  program,
  reconvergence,   \* reconvergence_pc of every instruction, once assembled
  m_stack,         \* the reconvergence stack, its top last
  thread_pc,       \* m_PC of every thread
  thread_done,     \* is_done, or no thread at all
  m_callstack,     \* the return addresses of every thread, the innermost last
  phase            \* "load", "launch", "run", "exited"

vars == <<program, reconvergence, m_stack, thread_pc, thread_done, m_callstack, phase>>

Live == {t \in Threads : ~thread_done[t]}
Top == Last(m_stack)
EmptyEntry == [pc |-> NoPC, mask |-> {}, recvg |-> NoPC, type |-> "normal"]

Init ==
  /\ program \in Program
  /\ reconvergence = <<>>
  /\ m_stack = <<>>
  /\ thread_pc = [t \in Threads |-> NoPC]
  /\ thread_done = [t \in Threads |-> TRUE]
  /\ m_callstack = [t \in Threads |-> <<>>]
  /\ phase = "load"

\* ptx_assemble
Assemble ==
  /\ phase = "load"
  /\ reconvergence' = [pc \in DOMAIN program.code |-> ConvergePoint(program, pc)]
  /\ phase' = "launch"
  /\ UNCHANGED <<program, m_stack, thread_pc, thread_done, m_callstack>>

\* init_warps for a warp of n threads; a thread's call stack starts with an
\* entry whose return address is 0.
Launch(n) ==
  /\ phase = "launch"
  /\ LET start == Min(program.start)
     IN  /\ m_stack' = <<[EmptyEntry EXCEPT !.pc = start, !.mask = 0 .. n - 1]>>
         /\ thread_pc' = [t \in Threads |-> IF t < n THEN start ELSE NoPC]
  /\ thread_done' = [t \in Threads |-> t >= n]
  /\ m_callstack' = [t \in Threads |-> IF t < n THEN <<0>> ELSE <<>>]
  /\ phase' = "run"
  /\ UNCHANGED <<program, reconvergence>>

(* The definitions named X_... are faulty variants of X, each paired with   *)
(* the property it breaks in PROJECT.json.                                  *)
-----------------------------------------------------------------------------
(* ptx_exec_inst: what one thread does with instruction i at address pc *)

\* [pc, done, calls] of a thread afterwards.
Went(pc, calls) == [pc |-> pc, done |-> FALSE, calls |-> calls]

callstack_push(calls, pc) == Append(calls, pc)

bra_impl(i, calls) == Went(i.target, calls)
call_impl(i, pc, calls) == Went(i.target, callstack_push(calls, pc + 1))
ret_impl(calls) == [pc |-> Last(calls), done |-> Len(calls) = 1, calls |-> Front(calls)]
exit_impl(pc, calls) == [pc |-> pc + 1, done |-> TRUE, calls |-> calls]

ExecInst(i, pc, calls, skipped) ==
  CASE skipped \/ i.op = "alu" -> Went(pc + 1, calls)
    [] ~skipped /\ i.op = "bra" -> bra_impl(i, calls)
    [] ~skipped /\ i.op = "call" -> call_impl(i, pc, calls)
    [] ~skipped /\ i.op = "ret" -> ret_impl(calls)
    [] ~skipped /\ i.op = "exit" -> exit_impl(pc, calls)
-----------------------------------------------------------------------------
(* simt_stack::update *)

SetTop(stack, e) == [stack EXCEPT ![Len(stack)] = e]

\* The next addresses of the threads, in the order the code takes the
\* groups: those that fall through first, then by address.
Paths(next, live, pc) ==
  LET targets == {next[t] : t \in live}
  IN  SetToSortSeq(targets, LAMBDA a, b : b # pc + 1 /\ (a = pc + 1 \/ a < b))

\* A path that reaches the reconvergence point of the old top is discarded.
Reconverges_Never(target, old) == FALSE

Reconverges(target, old) == target = old.recvg /\ old.type # "call"

\* The top entry becomes the one in which the threads meet again at recvg.
AwaitReconvergence(stack, recvg) ==
  Append(SetTop(stack, [Last(stack) EXCEPT !.pc = recvg]), EmptyEntry)

\* One round of the loop over the paths that are neither a call nor a return.
\* acc is [stack, diverged]; old the top entry before the update, n the number
\* of paths, recvg the reconvergence address of the instruction.
AddPath(acc, target, mask, old, n, recvg) ==
  LET diverged == acc.diverged \/ n > 1
      stack == IF diverged /\ ~acc.diverged /\ recvg # old.recvg
               THEN AwaitReconvergence(acc.stack, recvg)
               ELSE acc.stack
      entry == [Last(stack) EXCEPT !.pc = target, !.mask = mask,
                                   !.recvg = IF diverged THEN recvg ELSE old.recvg]
  IN  CASE Reconverges(target, old) -> acc
        [] diverged /\ target = recvg -> [stack |-> stack, diverged |-> diverged]
        [] OTHER -> [stack |-> Append(SetTop(stack, entry), EmptyEntry), diverged |-> diverged]

\* A return that pops the entry of its call resumes the caller's entry, which
\* is popped too when the return address is where it reconverges.
ReturnTo_StalePC(stack, target) ==
  LET caller == Front(stack)
  IN  IF target = Last(caller).recvg /\ Last(caller).type # "call"
      THEN Front(caller)
      ELSE caller

ReturnTo(stack, target) ==
  LET caller == Front(stack)
  IN  IF target = Last(caller).recvg /\ Last(caller).type # "call"
      THEN Front(caller)
      ELSE SetTop(caller, [Last(caller) EXCEPT !.pc = target])

Update(stack, next, live, recvg, op, pc) ==
  LET old == Last(stack)
      mask == old.mask \cap live
      paths == Paths(next, mask, pc)
      acc == FoldLeft(LAMBDA a, target :
                        AddPath(a, target, {t \in mask : next[t] = target}, old, Len(paths), recvg),
                      [stack |-> stack, diverged |-> FALSE], paths)
  IN  CASE mask # {} /\ op = "call" ->
             Append(stack, [EmptyEntry EXCEPT !.pc = paths[1], !.mask = mask, !.type = "call"])
        [] mask # {} /\ op = "ret" /\ old.type = "call" -> ReturnTo(stack, paths[1])
        [] OTHER -> Front(acc.stack)
-----------------------------------------------------------------------------
(* issue_warp: the top entry's threads execute its instruction, then the    *)
(* stack follows them (func_exec_inst, updateSIMTStack).                    *)

\* The reconvergence address "where the function returns to" is read from the
\* call stack of the first thread of the warp that is not done.
ResolveReturn(r, calls, live) ==
  IF r = ReturnPC /\ live # {} THEN Last(calls[Min(live)]) ELSE r

Execute(skip) ==
  /\ phase = "run" /\ Live # {}
  /\ LET pc == Top.pc
         i == program.code[pc]
         out == [t \in Top.mask |-> ExecInst(i, thread_pc[t], m_callstack[t], t \in skip)]
         ran == [t \in Threads |->
                   IF t \in Top.mask THEN out[t]
                   ELSE [pc |-> thread_pc[t], done |-> thread_done[t], calls |-> m_callstack[t]]]
         live == {t \in Threads : ~ran[t].done}
         next == [t \in Threads |-> ran[t].pc]
         calls == [t \in Threads |-> ran[t].calls]
     IN  /\ skip \subseteq Top.mask /\ (~i.pred => skip = {})
         /\ thread_pc' = next
         /\ thread_done' = [t \in Threads |-> ran[t].done]
         /\ m_callstack' = calls
         /\ m_stack' = Update(m_stack, next, live, ResolveReturn(reconvergence[pc], calls, live),
                              i.op, pc)
  /\ UNCHANGED <<program, reconvergence, phase>>

\* reinit, once every thread of the warp is done.
Reset ==
  /\ phase = "run" /\ Live = {}
  /\ m_stack' = <<>>
  /\ phase' = "exited"
  /\ UNCHANGED <<program, reconvergence, thread_pc, thread_done, m_callstack>>

Next ==
  \/ Assemble
  \/ \E n \in 1 .. WarpSize : Launch(n)
  \/ \E skip \in SUBSET Threads : Execute(skip)
  \/ Reset

Spec == Init /\ [][Next]_vars
-----------------------------------------------------------------------------
(* Properties *)

\* Stack and threads agree.  The instruction at the top is the next one of every
\* thread selected there, and none of them has finished: the two assertions at
\* the head of ptx_exec_inst.  And no thread is lost: the uppermost entry that
\* holds a live thread waits at the thread's own next instruction.  Masks below
\* the top still hold threads that have exited, the pc of an entry below a call
\* is stale, and a path that reaches its reconvergence point is discarded in the
\* belief that an entry below has its threads.
InSync ==
  phase = "run" /\ Live # {} =>
    /\ m_stack # <<>> /\ Top.mask # {} /\ Top.pc \in DOMAIN program.code
    /\ \A t \in Top.mask : ~thread_done[t] /\ thread_pc[t] = Top.pc
    /\ \A t \in Live : \E k \in 1 .. Len(m_stack) :
         /\ t \in m_stack[k].mask /\ m_stack[k].pc = thread_pc[t]
         /\ \A j \in k + 1 .. Len(m_stack) : t \notin m_stack[j].mask

\* Threads that part at a branch run its reconvergence point together: no path
\* executes an address at which it, or a divergence of the same call that
\* encloses it, is to reconverge.
JoinTogether ==
  phase = "run" /\ Live # {} =>
    \A k \in 1 .. Len(m_stack) :
      (\A j \in k + 1 .. Len(m_stack) : m_stack[j].type # "call")
        => m_stack[k].recvg # Top.pc

\* The sweeps of find_postdominators end with exactly the blocks on every way to
\* the function's exit, and every block but the exit has one nearest (the
\* assertions of find_ipostdominators).
PostdominatorsExact ==
  phase = "launch" =>
    \A s \in program.start :
      LET body == Body(program, s)
          pdom == Postdominators(program, body)
      IN  \A b \in Blocks(program, body) \ {ReturnPC} :
            /\ {e[2] : e \in {x \in pdom : x[1] = b}} = OnEveryWay(program, body, b)
            /\ Cardinality(Ipostdominators(pdom, b)) = 1
=============================================================================
