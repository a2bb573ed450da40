------------------------------ MODULE LdstUnit ------------------------------
(***************************************************************************)
(* The load/store unit of a SIMT core with the scoreboard and the per-warp *)
(* counters it maintains (shader.cc: ldst_unit, shd_warp_t; scoreboard.cc). *)
(*                                                                         *)
(* An instruction is <<w, k>>, the k-th memory instruction of warp w, and  *)
(* an access is <<i, j>>, the j-th access that generate_mem_accesses made  *)
(* for instruction i.  ldst_unit::cycle() runs its stages in a fixed order *)
(* (writeback, arbitration, shift of the shared-memory pipeline, response  *)
(* FIFO, dispatch); phase says which is next, and the scheduler, the       *)
(* operand collector and the interconnect act between two cycles.          *)
(*                                                                         *)
(* The L1 caches are used as AbstractCache describes them: an access hits, *)
(* waits for a request of its own or for one already sent, joins accesses  *)
(* that are being answered, or is refused.                                 *)
(***************************************************************************)
EXTENDS Integers, Sequences, FiniteSets, Functions

CONSTANTS
  Warp, Reg,
  Programs,          \* the warps' memory instructions, one choice per behaviour
  MaxInsn, MaxAccess,\* their greatest length; the most accesses of one (model bounds)
  ResponseQueueSize, \* ldst_unit_response_queue_size
  NoInsn, NoAccess

(* An instruction: its operation, memory space, whether it bypasses the L1D *)
(* (cache_op CACHE_GLOBAL), whether it is atomic, the registers it writes   *)
(* and its number of accesses.  Stores and barriers have no destination     *)
(* register; a load whose destination is "_" has none either.               *)
Kind == [op : {"LOAD", "STORE", "MEMBAR"}, space : {"shared", "const", "tex", "global", "none"},
         bypass : BOOLEAN, atomic : BOOLEAN, out : SUBSET Reg, n : Nat]

\* m_pipeline_depth of the unit; cycle() names the last stage by number
Stages == 3

ASSUME ConfigAssumption ==
  /\ ResponseQueueSize \in Nat \ {0}
  /\ MaxInsn \in Nat /\ MaxAccess \in Nat
  /\ \A p \in Programs, w \in Warp :
       /\ p[w] \in Seq(Kind) /\ Len(p[w]) <= MaxInsn
       /\ \A k \in DOMAIN p[w] : /\ p[w][k].n <= MaxAccess
                                 /\ p[w][k].op # "LOAD" => p[w][k].out = {}
                                 /\ p[w][k].op = "MEMBAR" => p[w][k].n = 0
  /\ NoInsn \notin Warp \X (1 .. MaxInsn)
  /\ NoAccess \notin (Warp \X (1 .. MaxInsn)) \X (1 .. MaxAccess)

Cache == {"L1T", "L1C", "L1D"}

VARIABLES
  prog,              \* the program of each warp
  issued,            \* how many instructions each warp has issued
  status,            \* of a warp: "running", "done" (functionally), "exited"
  reg_table,         \* Scoreboard::reg_table
  m_membar, m_stores_outstanding, m_n_atomic, m_inst_in_pipeline, \* shd_warp_t
  collector,         \* instructions in the operand collector
  m_dispatch_reg, accessq,
  m_pipeline_reg,
  m_pending_writes,  \* an absent entry is 0
  m_next_wb, m_next_global, m_writeback_arb, m_response_fifo,
  net,               \* accesses in the interconnect and the memory below
  waits,             \* the access whose answer each access in a cache waits for
  ready,             \* answered accesses each cache holds
  completed,         \* calls of warp_inst_complete per instruction
  phase

warpVars  == <<m_membar, m_stores_outstanding, m_n_atomic, m_inst_in_pipeline>>
frontVars == <<prog, issued, status, collector>>
wbVars    == <<m_next_wb, m_writeback_arb>>
cacheVars == <<waits, ready>>
vars == <<frontVars, warpVars, reg_table, m_dispatch_reg, accessq, m_pipeline_reg,
          m_pending_writes, wbVars, m_next_global, m_response_fifo, net, cacheVars,
          completed, phase>>

Insn   == Warp \X (1 .. MaxInsn)
Access == Insn \X (1 .. MaxAccess)

WarpOf(i) == i[1]
KindOf(i) == prog[i[1]][i[2]]
InsnOf(a) == a[1]
IsLoad(i) == KindOf(i).op = "LOAD"
Shared(i) == KindOf(i).space = "shared"

\* The cache of an access; global and local data use the L1D unless bypassed.
CacheOf(a) == CASE KindOf(InsnOf(a)).space = "tex"   -> "L1T"
                [] KindOf(InsnOf(a)).space = "const" -> "L1C"
                [] OTHER -> "L1D"
Bypass(i) == KindOf(i).space = "global" /\ KindOf(i).bypass

Init ==
  /\ prog \in Programs
  /\ issued = [w \in Warp |-> 0]
  /\ status = [w \in Warp |-> "running"]
  /\ reg_table = [w \in Warp |-> {}]
  /\ m_membar = {}
  /\ m_stores_outstanding = [w \in Warp |-> 0]
  /\ m_n_atomic = [w \in Warp |-> 0]
  /\ m_inst_in_pipeline = [w \in Warp |-> 0]
  /\ collector = {}
  /\ m_dispatch_reg = NoInsn /\ accessq = 0
  /\ m_pipeline_reg = [s \in 0 .. Stages - 1 |-> NoInsn]
  /\ m_pending_writes = [w \in Warp |-> [r \in Reg |-> 0]]
  /\ m_next_wb = NoInsn /\ m_next_global = NoAccess /\ m_writeback_arb = 0
  /\ m_response_fifo = <<>>
  /\ net = {}
  /\ waits = [a \in Access |-> NoAccess]
  /\ ready = [c \in Cache |-> {}]
  /\ completed = [i \in Insn |-> 0]
  /\ phase = "writeback"

(* The definitions named X_... next to X are faulty variants of X; each of  *)
(* them breaks the property it is paired with in PROJECT.json.              *)
-----------------------------------------------------------------------------
(* The warp scheduler, the operand collector and the interconnect *)

\* shd_warp_t::waiting, without the barrier.  A warp at a memory barrier waits
\* for the registers of its loads.
Waiting(w) == \/ status[w] # "running"
              \/ w \in m_membar /\ reg_table[w] # {}
              \/ m_n_atomic[w] > 0

\* One atomic operation per thread is counted; threads are counted as the
\* access that serves them, a shared-memory instruction as one.
Atomics(i) == IF ~KindOf(i).atomic THEN 0 ELSE IF Shared(i) THEN 1 ELSE KindOf(i).n

\* scheduler_unit::cycle and issue_warp: the next instruction of warp w
IssueWarp(w) ==
  LET i == <<w, issued[w] + 1>>
  IN  /\ phase = "writeback"
      /\ issued[w] < Len(prog[w])
      /\ ~Waiting(w)
      /\ KindOf(i).out \cap reg_table[w] = {}
      /\ issued' = [issued EXCEPT ![w] = @ + 1]
      /\ reg_table' = [reg_table EXCEPT ![w] = @ \cup KindOf(i).out]
      /\ m_membar' = IF KindOf(i).op = "MEMBAR" THEN m_membar \cup {w} ELSE m_membar \ {w}
      /\ m_n_atomic' = [m_n_atomic EXCEPT ![w] = @ + Atomics(i)]
      /\ m_inst_in_pipeline' = [m_inst_in_pipeline EXCEPT ![w] = @ + 1]
      /\ collector' = collector \cup {i}
      /\ UNCHANGED <<prog, status, m_stores_outstanding, m_dispatch_reg, accessq, m_pipeline_reg,
                     m_pending_writes, wbVars, m_next_global, m_response_fifo, net, cacheVars,
                     completed, phase>>

\* The warp executes its exit instruction: functional_done() holds.
Done(w) ==
  /\ phase = "writeback"
  /\ issued[w] = Len(prog[w])
  /\ ~Waiting(w)
  /\ status' = [status EXCEPT ![w] = "done"]
  /\ m_membar' = m_membar \ {w}
  /\ UNCHANGED <<prog, issued, collector, m_stores_outstanding, m_n_atomic, m_inst_in_pipeline,
                 reg_table, m_dispatch_reg, accessq, m_pipeline_reg, m_pending_writes, wbVars,
                 m_next_global, m_response_fifo, net, cacheVars, completed, phase>>

hardware_done_NoStores(w) == status[w] = "done" /\ m_inst_in_pipeline[w] = 0

\* shd_warp_t::hardware_done
hardware_done(w) == /\ status[w] = "done"
                    /\ m_stores_outstanding[w] = 0
                    /\ m_inst_in_pipeline[w] = 0

\* shader_core_ctx::fetch: the warp's slot is given up.
ExitWarp(w) ==
  /\ phase = "writeback"
  /\ hardware_done(w)
  /\ reg_table[w] = {}
  /\ status' = [status EXCEPT ![w] = "exited"]
  /\ UNCHANGED <<prog, issued, collector, warpVars, reg_table, m_dispatch_reg, accessq,
                 m_pipeline_reg, m_pending_writes, wbVars, m_next_global, m_response_fifo, net,
                 cacheVars, completed, phase>>

\* m_pending_writes with d added for the registers of instruction i
Pend(i, d) == [m_pending_writes EXCEPT ![WarpOf(i)] =
                 [r \in Reg |-> IF r \in KindOf(i).out THEN @[r] + d ELSE @[r]]]

\* ldst_unit::issue: the operand collector, which may take instructions out of
\* order, hands over an instruction.
Issue(i) ==
  /\ phase = "writeback"
  /\ i \in collector
  /\ m_dispatch_reg = NoInsn
  /\ collector' = collector \ {i}
  /\ m_dispatch_reg' = i
  /\ accessq' = KindOf(i).n
  /\ m_pending_writes' = IF IsLoad(i) /\ ~Shared(i) THEN Pend(i, KindOf(i).n)
                                                    ELSE m_pending_writes
  /\ UNCHANGED <<prog, issued, status, warpVars, reg_table, m_pipeline_reg, wbVars, m_next_global,
                 m_response_fifo, net, cacheVars, completed, phase>>

\* The memory system answers an access: ldst_unit::fill.  Answers come in any
\* order, when response_buffer_full() lets them in.
Respond(a) ==
  /\ phase = "writeback"
  /\ a \in net
  /\ Len(m_response_fifo) < ResponseQueueSize
  /\ net' = net \ {a}
  /\ m_response_fifo' = Append(m_response_fifo, a)
  /\ UNCHANGED <<frontVars, warpVars, reg_table, m_dispatch_reg, accessq, m_pipeline_reg,
                 m_pending_writes, wbVars, m_next_global, cacheVars, completed, phase>>
-----------------------------------------------------------------------------
(* ldst_unit::cycle *)

WriteBack_EachAccess ==
  LET i == m_next_wb
      left == Pend(i, -1)
  IN  /\ m_next_wb' = NoInsn
      /\ m_pending_writes' = IF Shared(i) THEN m_pending_writes ELSE left
      /\ reg_table' = [reg_table EXCEPT ![WarpOf(i)] = @ \ KindOf(i).out]
      /\ completed' = [completed EXCEPT ![i] = @ + 1]

\* The operand collector has taken the result.  A register is released when
\* its last access is back, and the instruction is complete.
WriteBack ==
  LET i == m_next_wb
      w == WarpOf(i)
      left == Pend(i, -1)
      free == {r \in KindOf(i).out : Shared(i) \/ left[w][r] = 0}
  IN  /\ m_next_wb' = NoInsn
      /\ m_pending_writes' = IF Shared(i) THEN m_pending_writes ELSE left
      /\ reg_table' = [reg_table EXCEPT ![w] = @ \ free]
      /\ completed' = IF free # {} THEN [completed EXCEPT ![i] = @ + 1] ELSE completed

\* The first part of ldst_unit::writeback; the operand collector may refuse.
CycleWriteBack(accepts) ==
  /\ phase = "writeback"
  /\ accepts => m_next_wb # NoInsn
  /\ phase' = "arbitrate"
  /\ IF accepts
       THEN WriteBack
       ELSE UNCHANGED <<m_next_wb, m_pending_writes, reg_table, completed>>
  /\ UNCHANGED <<frontVars, warpVars, m_dispatch_reg, accessq, m_pipeline_reg, m_writeback_arb,
                 m_next_global, m_response_fifo, net, cacheVars>>

\* The writeback clients, in the order of their numbers
Client == <<"shared", "L1T", "L1C", "global", "L1D">>
HasResult(c) == CASE c = "shared" -> m_pipeline_reg[0] # NoInsn
                  [] c = "global" -> m_next_global # NoAccess
                  [] OTHER        -> ready[c] # {}

\* The client the round-robin arbiter serves: the first with a result, from
\* m_writeback_arb on
Turn(n) == (n - 1 - m_writeback_arb) % Len(Client)
Served == {n \in DOMAIN Client : /\ HasResult(Client[n])
                                 /\ \A m \in DOMAIN Client :
                                      HasResult(Client[m]) => Turn(n) <= Turn(m)}

TakeShared ==
  LET i == m_pipeline_reg[0]
  IN  /\ m_next_wb' = i
      /\ m_n_atomic' = [m_n_atomic EXCEPT ![WarpOf(i)] = @ - Atomics(i)]
      /\ m_inst_in_pipeline' = [m_inst_in_pipeline EXCEPT ![WarpOf(i)] = @ - 1]
      /\ m_pipeline_reg' = [m_pipeline_reg EXCEPT ![0] = NoInsn]
      /\ UNCHANGED <<m_membar, m_stores_outstanding, m_next_global, ready>>

TakeGlobal ==
  LET i == InsnOf(m_next_global)
  IN  /\ m_next_wb' = i
      /\ m_n_atomic' = IF KindOf(i).atomic
                         THEN [m_n_atomic EXCEPT ![WarpOf(i)] = @ - 1] ELSE m_n_atomic
      /\ m_next_global' = NoAccess
      /\ UNCHANGED <<m_membar, m_stores_outstanding, m_inst_in_pipeline, m_pipeline_reg, ready>>

\* baseline_cache::next_access or tex_cache::next_access
TakeCached(c) ==
  \E a \in ready[c] :
    /\ m_next_wb' = InsnOf(a)
    /\ ready' = [ready EXCEPT ![c] = @ \ {a}]
    /\ UNCHANGED <<warpVars, m_pipeline_reg, m_next_global>>

\* The rest of ldst_unit::writeback: an empty m_next_wb is filled by a client.
CycleArbitrate ==
  /\ phase = "arbitrate"
  /\ phase' = "shift"
  /\ IF m_next_wb # NoInsn \/ Served = {}
       THEN UNCHANGED <<warpVars, wbVars, m_pipeline_reg, m_next_global, ready>>
       ELSE \E n \in Served :
              /\ m_writeback_arb' = n % Len(Client)
              /\ CASE Client[n] = "shared" -> TakeShared
                   [] Client[n] = "global" -> TakeGlobal
                   [] OTHER -> TakeCached(Client[n])
  /\ UNCHANGED <<frontVars, reg_table, m_dispatch_reg, accessq, m_pending_writes,
                 m_response_fifo, net, waits, completed>>

\* Every stage moves into an empty stage before it, lowest first: an
\* instruction advances one stage per cycle.
Shifted ==
  LET p == m_pipeline_reg
      q == IF p[0] = NoInsn THEN [p EXCEPT ![0] = p[1], ![1] = NoInsn] ELSE p
  IN  IF q[1] = NoInsn THEN [q EXCEPT ![1] = q[2], ![2] = NoInsn] ELSE q

CycleShift ==
  /\ phase = "shift"
  /\ phase' = "response"
  /\ m_pipeline_reg' = Shifted
  /\ UNCHANGED <<frontVars, warpVars, reg_table, m_dispatch_reg, accessq, m_pending_writes,
                 wbVars, m_next_global, m_response_fifo, net, cacheVars, completed>>

FillCache_LeaderOnly(a) ==
  /\ ready' = [ready EXCEPT ![CacheOf(a)] = @ \cup {a}]
  /\ waits' = [waits EXCEPT ![a] = NoAccess]

\* The cache's fill() answers every access that waits for a.
FillCache(a) ==
  LET answered == {b \in Access : waits[b] = a}
  IN  /\ ready' = [ready EXCEPT ![CacheOf(a)] = @ \cup answered]
      /\ waits' = [b \in Access |-> IF b \in answered THEN NoAccess ELSE waits[b]]

\* The response at the head of the FIFO: a write acknowledgment, data of a load
\* that bypassed the L1D, which waits here while m_next_global is taken, or
\* data for a cache.
CycleResponse ==
  /\ phase = "response"
  /\ phase' = "dispatch"
  /\ IF m_response_fifo = <<>>
       THEN UNCHANGED <<m_response_fifo, m_stores_outstanding, m_next_global, cacheVars>>
       ELSE LET a == Head(m_response_fifo)
                i == InsnOf(a)
            IN  \/ /\ KindOf(i).op = "STORE"
                   /\ m_stores_outstanding' = [m_stores_outstanding EXCEPT ![WarpOf(i)] = @ - 1]
                   /\ m_response_fifo' = Tail(m_response_fifo)
                   /\ UNCHANGED <<m_next_global, cacheVars>>
                \/ /\ IsLoad(i) /\ Bypass(i)
                   /\ IF m_next_global = NoAccess
                        THEN /\ m_next_global' = a
                             /\ m_response_fifo' = Tail(m_response_fifo)
                        ELSE UNCHANGED <<m_next_global, m_response_fifo>>
                   /\ UNCHANGED <<m_stores_outstanding, cacheVars>>
                \/ /\ IsLoad(i) /\ ~Bypass(i)
                   /\ FillCache(a)
                   /\ m_response_fifo' = Tail(m_response_fifo)
                   /\ UNCHANGED <<m_stores_outstanding, m_next_global>>
  /\ UNCHANGED <<frontVars, m_membar, m_n_atomic, m_inst_in_pipeline, reg_table, m_dispatch_reg,
                 accessq, m_pipeline_reg, m_pending_writes, wbVars, net, completed>>

\* The access at the back of the dispatched instruction's queue is refused:
\* RESERVATION_FAIL, a busy data port, a full interconnect; or the
\* instruction still has a shared-memory bank conflict delay.
Stall ==
  /\ UNCHANGED <<m_stores_outstanding, m_inst_in_pipeline, reg_table, m_dispatch_reg, accessq,
                 m_pipeline_reg, m_pending_writes, net, cacheVars, completed>>

AccessHit_Uncounted(a) ==
  /\ ~Bypass(InsnOf(a)) /\ CacheOf(a) # "L1T"
  /\ UNCHANGED <<m_pending_writes, m_stores_outstanding, net, cacheVars>>

\* The outcomes of an access.  A load that hits is counted as written back at
\* once (process_cache_access); the texture cache never reports a hit.
AccessHit(a) ==
  /\ ~Bypass(InsnOf(a)) /\ CacheOf(a) # "L1T"
  /\ m_pending_writes' = IF IsLoad(InsnOf(a)) THEN Pend(InsnOf(a), -1) ELSE m_pending_writes
  /\ UNCHANGED <<m_stores_outstanding, net, cacheVars>>

\* A load misses: it sends a request, waits for one that was sent, or is among
\* the accesses being answered; the texture cache answers even a hit this way.
AccessMiss(a) ==
  /\ IsLoad(InsnOf(a)) /\ ~Bypass(InsnOf(a))
  /\ \/ waits' = [waits EXCEPT ![a] = a] /\ net' = net \cup {a} /\ UNCHANGED ready
     \/ /\ \E b \in Access : /\ waits[b] = b /\ CacheOf(b) = CacheOf(a)
                             /\ waits' = [waits EXCEPT ![a] = b]
        /\ UNCHANGED <<net, ready>>
     \/ /\ ready[CacheOf(a)] # {} \/ CacheOf(a) = "L1T"
        /\ ready' = [ready EXCEPT ![CacheOf(a)] = @ \cup {a}]
        /\ UNCHANGED <<net, waits>>
  /\ UNCHANGED <<m_stores_outstanding, m_pending_writes>>

\* A store is sent, whether it hits or misses, and is outstanding until it is
\* acknowledged; a load that bypasses the L1D is sent too.
AccessSent(a) ==
  /\ KindOf(InsnOf(a)).op = "STORE" \/ Bypass(InsnOf(a))
  /\ net' = net \cup {a}
  /\ m_stores_outstanding' =
       IF KindOf(InsnOf(a)).op = "STORE"
         THEN [m_stores_outstanding EXCEPT ![WarpOf(InsnOf(a))] = @ + 1] ELSE m_stores_outstanding
  /\ UNCHANGED <<m_pending_writes, cacheVars>>

\* The dispatched instruction has no access left and leaves the unit.  A load
\* of which nothing is pending any more is complete: its last access hit.
Leave(i) ==
  /\ IF IsLoad(i)
       THEN IF \A r \in KindOf(i).out : m_pending_writes'[WarpOf(i)][r] = 0
              THEN /\ completed' = [completed EXCEPT ![i] = @ + 1]
                   /\ reg_table' = [reg_table EXCEPT ![WarpOf(i)] = @ \ KindOf(i).out]
              ELSE UNCHANGED <<completed, reg_table>>
       ELSE /\ completed' = [completed EXCEPT ![i] = @ + 1]
            /\ UNCHANGED reg_table
  /\ m_inst_in_pipeline' = [m_inst_in_pipeline EXCEPT ![WarpOf(i)] = @ - 1]
  /\ m_dispatch_reg' = NoInsn
  /\ UNCHANGED m_pipeline_reg

\* A shared-memory load enters the pipeline of the unit, if there is room.
EnterPipeline(i) ==
  /\ IF m_pipeline_reg[Stages - 1] = NoInsn
       THEN /\ m_pipeline_reg' = [m_pipeline_reg EXCEPT ![Stages - 1] = i]
            /\ m_dispatch_reg' = NoInsn
       ELSE UNCHANGED <<m_pipeline_reg, m_dispatch_reg>>
  /\ UNCHANGED <<completed, reg_table, m_inst_in_pipeline>>

\* One access of the dispatched instruction, and its departure after the last
Dispatch(i) ==
  LET a == <<i, accessq>>
  IN  IF Shared(i) \/ accessq = 0
        THEN /\ UNCHANGED <<accessq, m_stores_outstanding, m_pending_writes, net, cacheVars>>
             /\ IF Shared(i) /\ IsLoad(i) THEN EnterPipeline(i) ELSE Leave(i)
        ELSE /\ AccessHit(a) \/ AccessMiss(a) \/ AccessSent(a)
             /\ accessq' = accessq - 1
             /\ IF accessq = 1
                  THEN Leave(i)
                  ELSE UNCHANGED <<completed, reg_table, m_inst_in_pipeline, m_dispatch_reg,
                                   m_pipeline_reg>>

CycleDispatch(proceeds) ==
  /\ phase = "dispatch"
  /\ phase' = "writeback"
  /\ proceeds => m_dispatch_reg # NoInsn
  /\ IF proceeds THEN Dispatch(m_dispatch_reg) ELSE Stall
  /\ UNCHANGED <<frontVars, m_membar, m_n_atomic, wbVars, m_next_global, m_response_fifo>>

Cycle ==
  \/ \E accepts \in BOOLEAN : CycleWriteBack(accepts)
  \/ CycleArbitrate
  \/ CycleShift
  \/ CycleResponse
  \/ \E proceeds \in BOOLEAN : CycleDispatch(proceeds)

\* What the rest of the core and the memory system do between two cycles
Environment ==
  \/ \E w \in Warp : IssueWarp(w) \/ Done(w) \/ ExitWarp(w)
  \/ \E i \in Insn : Issue(i)
  \/ \E a \in Access : Respond(a)

Next == Cycle \/ Environment

Spec == Init /\ [][Next]_vars

\* cycle() runs every core cycle; the operand collector, the caches and the
\* interconnect refuse an access only for a while.  The scheduler and the
\* collector try every cycle what they can issue, and the memory system
\* answers: programs are finite, so it is enough that one of these happens
\* whenever one can again and again.
Fairness ==
  /\ WF_vars(Cycle)
  /\ SF_vars(CycleWriteBack(TRUE))
  /\ SF_vars(CycleDispatch(TRUE))
  /\ SF_vars(Environment)

FairSpec == Spec /\ Fairness
-----------------------------------------------------------------------------
(* Properties *)

TypeOK ==
  /\ prog \in Programs
  /\ issued \in [Warp -> 0 .. MaxInsn]
  /\ status \in [Warp -> {"running", "done", "exited"}]
  /\ reg_table \in [Warp -> SUBSET Reg]
  /\ m_membar \subseteq Warp
  /\ m_stores_outstanding \in [Warp -> Nat]
  /\ m_n_atomic \in [Warp -> Nat]
  /\ m_inst_in_pipeline \in [Warp -> Nat]
  /\ collector \subseteq Insn
  /\ m_dispatch_reg \in Insn \cup {NoInsn}
  /\ accessq \in 0 .. MaxAccess
  /\ m_pipeline_reg \in [0 .. Stages - 1 -> Insn \cup {NoInsn}]
  /\ m_pending_writes \in [Warp -> [Reg -> Nat]]
  /\ m_next_wb \in Insn \cup {NoInsn}
  /\ m_next_global \in Access \cup {NoAccess}
  /\ m_writeback_arb \in 0 .. Len(Client) - 1
  /\ m_response_fifo \in Seq(Access)
  /\ net \subseteq Access
  /\ waits \in [Access -> Access \cup {NoAccess}]
  /\ ready \in [Cache -> SUBSET Access]
  /\ completed \in [Insn -> Nat]
  /\ phase \in {"writeback", "arbitrate", "shift", "response", "dispatch"}

Issued == {i \in Insn : i[2] <= issued[i[1]]}

\* The accesses of instruction i that are somewhere between the L1 caches, the
\* memory system and the writeback arbiter
InFlight(i) == {a \in {i} \X (1 .. MaxAccess) :
                  \/ a \in net \cup Range(m_response_fifo) \cup {m_next_global}
                  \/ waits[a] # NoAccess
                  \/ \E c \in Cache : a \in ready[c]}

\* The accesses of instruction i that are not written back
Left(i) == (IF m_dispatch_reg = i THEN accessq ELSE 0)
             + Cardinality(InFlight(i)) + (IF m_next_wb = i THEN 1 ELSE 0)

\* m_pending_writes is exact, although three places count it down: for every
\* register it is the number of accesses that the one load writing it still
\* waits for, so no access is counted twice or forgotten, and the assertions
\* in writeback and memory_cycle hold.
PendingExact ==
  \A w \in Warp, r \in Reg :
    LET loads == {i \in Issued : /\ WarpOf(i) = w /\ IsLoad(i) /\ ~Shared(i)
                                 /\ r \in KindOf(i).out /\ Left(i) > 0}
    IN  /\ Cardinality(loads) <= 1
        /\ \A i \in loads : m_pending_writes[w][r] = Left(i)
        /\ loads = {} => m_pending_writes[w][r] = 0

\* A register is reserved exactly while the instruction that writes it is
\* incomplete, and an instruction completes once, whether its last access hits
\* in dispatch or comes back through the writeback arbiter.
ScoreboardExact ==
  /\ \A i \in Insn : completed[i] <= 1
  /\ \A w \in Warp : reg_table[w] = UNION {KindOf(i).out : i \in {i \in Issued :
                                             WarpOf(i) = w /\ completed[i] = 0}}
  /\ \A i \in Issued : completed[i] = 1 /\ KindOf(i).out # {} => Left(i) = 0

\* A warp gives up its slot only when nothing it started is left: no answer,
\* acknowledgment or instruction can reach the warp that gets the slot next.
ExitClean ==
  \A w \in Warp : status[w] = "exited" =>
    /\ \A i \in Issued : WarpOf(i) = w =>
         /\ completed[i] = 1
         /\ InFlight(i) = {}
         /\ i \notin collector \cup {m_dispatch_reg, m_next_wb} \cup Range(m_pipeline_reg)
    /\ m_n_atomic[w] = 0

\* Every instruction completes and every warp exits: neither the response FIFO
\* behind a taken m_next_global nor the writeback arbiter blocks for ever.
WarpsExit == \A w \in Warp : <>(status[w] = "exited")
=============================================================================
