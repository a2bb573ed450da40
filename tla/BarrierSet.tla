------------------------------ MODULE BarrierSet ------------------------------
(***************************************************************************)
(* The barriers of one SIMT core: barrier_set_t of shader.cc, with the     *)
(* operations of shader_core_ctx that drive it, from the launch of a CTA   *)
(* (thread block) to the moment its context is free again.                 *)
(*                                                                         *)
(* What a CTA runs is a program: for each of its warps the barriers it     *)
(* reaches, in order, before it exits.  Warps go through their programs at *)
(* any relative speed, which is what the warp schedulers allow.  All       *)
(* threads of a warp arrive, exit and are reclaimed together, so threads   *)
(* are counted in warps: count is bar_count / warp_size, and 0 where the   *)
(* instruction has none (bar_count = -1).                                  *)
(***************************************************************************)
EXTENDS Integers, Sequences, FiniteSets, FiniteSetsExt

CONSTANTS
  MaxCta,   \* m_max_cta_per_core: CTA contexts of the core
  MaxWarps, \* warps of a CTA, at most
  BarId,    \* barrier identifiers, max_barriers_per_cta of them
  Programs  \* the programs of the CTAs: for each warp a sequence of Insn

Cta  == 1 .. MaxCta
Warp == Cta \X (1 .. MaxWarps)
Insn == [bar_type : {"SYNC", "ARRIVE", "RED"}, bar_id : BarId, count : Nat]

ASSUME BarrierAssumption ==
  /\ MaxCta \in Nat \ {0} /\ MaxWarps \in Nat
  /\ \A p \in Programs : /\ p \in Seq(Seq(Insn))
                         /\ Len(p) \in 1 .. MaxWarps

VARIABLES
  m_cta_to_warps,    \* warps of each CTA; {} when it is not in the map
  m_warp_active,     \* warps that have not exited
  m_warp_at_barrier, \* warps held at a barrier
  m_bar_id_to_warps, \* warps that have reached each barrier
  m_cta_status,      \* shader_core_ctx::m_cta_status, in warps
  done_exit,         \* shd_warp_t::m_done_exit: the warps reclaimed
  program,           \* what each CTA runs
  step,              \* barrier instructions each warp has issued
  no_result          \* warps that issued a RED and have not got its result

sets == <<m_cta_to_warps, m_warp_active, m_warp_at_barrier, m_bar_id_to_warps>>
vars == <<sets, m_cta_status, done_exit, program, step, no_result>>

Code(w) == program[w[1]][w[2]]

Init ==
  /\ m_cta_to_warps = [c \in Cta |-> {}]
  /\ m_warp_active = {} /\ m_warp_at_barrier = {}
  /\ m_bar_id_to_warps = [b \in BarId |-> {}]
  /\ m_cta_status = [c \in Cta |-> 0]
  /\ done_exit = {}
  /\ program = [c \in Cta |-> <<>>]
  /\ step = [w \in Warp |-> 0]
  /\ no_result = {}

\* allocate_barrier: the warps of a new CTA are active, and what an earlier CTA
\* may have left of them is removed.
AllocateBarrier(c, warps) ==
  /\ m_cta_to_warps' = [m_cta_to_warps EXCEPT ![c] = warps]
  /\ m_warp_active' = m_warp_active \cup warps
  /\ m_warp_at_barrier' = m_warp_at_barrier \ warps
  /\ m_bar_id_to_warps' = [b \in BarId |-> m_bar_id_to_warps[b] \ warps]

\* issue_block2core: a CTA goes to the first free context.
IssueBlock2core(p) ==
  \E c \in Cta :
    LET warps == {c} \X (1 .. Len(p))
    IN  /\ m_cta_status[c] = 0
        /\ \A k \in 1 .. c - 1 : m_cta_status[k] # 0
        /\ m_cta_status' = [m_cta_status EXCEPT ![c] = Len(p)]
        /\ AllocateBarrier(c, warps)
        /\ done_exit' = done_exit \ warps
        /\ program' = [program EXCEPT ![c] = p]
        /\ step' = [w \in Warp |-> IF w \in warps THEN 0 ELSE step[w]]
        /\ no_result' = no_result \ warps

\* A warp the scheduler may issue from: shd_warp_t::waiting() is false.
Ready(w) == w \in m_warp_active \ m_warp_at_barrier

AtBarrier_AnyCta(c, reached) == reached

\* The warps of CTA c among those that have reached a barrier
AtBarrier(c, reached) == m_cta_to_warps[c] \cap reached

\* The barrier is complete: without a count every warp of the CTA that has not
\* exited is there, with one exactly that many warps are.
Complete(c, at_barrier, count) ==
  IF count = 0 THEN at_barrier = m_cta_to_warps[c] \cap m_warp_active
               ELSE Cardinality(at_barrier) = count

\* The barrier instruction warp w issues next
NextInsn(w) == Code(w)[step[w] + 1]

\* The warps let go when w reaches its barrier
Freed(w) ==
  LET at_barrier == AtBarrier(w[1], m_bar_id_to_warps[NextInsn(w).bar_id] \cup {w})
  IN  IF Complete(w[1], at_barrier, NextInsn(w).count) THEN at_barrier ELSE {}

\* The warps listed at that barrier afterwards ...
Listed(w) == (m_bar_id_to_warps[NextInsn(w).bar_id] \cup {w}) \ Freed(w)

Held_HoldsLast(w) ==
  (m_warp_at_barrier \ Freed(w)) \cup (IF NextInsn(w).bar_type # "ARRIVE" THEN {w} ELSE {})

\* ... the warps held, which ARRIVE does not add to ...
Held(w) ==
  (m_warp_at_barrier \cup (IF NextInsn(w).bar_type # "ARRIVE" THEN {w} ELSE {})) \ Freed(w)

NoResult_LastOnly(w) ==
  IF NextInsn(w).bar_type = "RED" /\ Freed(w) = {} THEN no_result \cup {w} ELSE no_result

\* ... and the ones without a result, which RED broadcasts to those it frees.
NoResult(w) ==
  IF NextInsn(w).bar_type = "RED" THEN (no_result \cup {w}) \ Freed(w) ELSE no_result

\* A barrier instruction is issued: warp_reaches_barrier.
WarpReachesBarrier(w) ==
  /\ Ready(w)
  /\ step[w] < Len(Code(w))
  /\ step' = [step EXCEPT ![w] = @ + 1]
  /\ m_bar_id_to_warps' = [m_bar_id_to_warps EXCEPT ![NextInsn(w).bar_id] = Listed(w)]
  /\ m_warp_at_barrier' = Held(w)
  /\ no_result' = NoResult(w)
  /\ UNCHANGED <<m_cta_to_warps, m_warp_active, m_cta_status, done_exit, program>>

WarpExit_NoRelease(w) ==
  /\ Ready(w)
  /\ step[w] = Len(Code(w))
  /\ m_warp_active' = m_warp_active \ {w}
  /\ UNCHANGED <<m_cta_to_warps, m_warp_at_barrier, m_bar_id_to_warps, m_cta_status, done_exit,
                 program, step, no_result>>

\* The last thread of a warp exits: the barriers that only waited for this
\* warp let the others go.
WarpExit(w) ==
  LET warps == m_cta_to_warps[w[1]]
      active == warps \cap (m_warp_active \ {w})
      released == {b \in BarId : warps \cap m_bar_id_to_warps[b] = active}
  IN  /\ Ready(w)
      /\ step[w] = Len(Code(w))
      /\ m_warp_active' = m_warp_active \ {w}
      /\ m_bar_id_to_warps' = [b \in BarId |-> IF b \in released THEN m_bar_id_to_warps[b] \ active
                                                               ELSE m_bar_id_to_warps[b]]
      /\ m_warp_at_barrier' = IF released # {} THEN m_warp_at_barrier \ active
                                               ELSE m_warp_at_barrier
      /\ UNCHANGED <<m_cta_to_warps, m_cta_status, done_exit, program, step, no_result>>

\* deallocate_barrier: the CTA and its warps leave the barrier set.
DeallocateBarrier(c) ==
  LET warps == m_cta_to_warps[c]
  IN  /\ m_cta_to_warps' = [m_cta_to_warps EXCEPT ![c] = {}]
      /\ m_warp_active' = m_warp_active \ warps
      /\ m_warp_at_barrier' = m_warp_at_barrier \ warps
      /\ m_bar_id_to_warps' = [b \in BarId |-> m_bar_id_to_warps[b] \ warps]

\* fetch() reclaims a warp that has exited and has nothing in the pipeline:
\* register_cta_thread_exit for its threads, and deallocate_barrier after the
\* last one of the CTA.
Reclaim(w) ==
  LET c == w[1]
  IN  /\ w \in m_cta_to_warps[c] \ (m_warp_active \cup done_exit)
      /\ m_cta_status' = [m_cta_status EXCEPT ![c] = @ - 1]
      /\ done_exit' = done_exit \cup {w}
      /\ IF m_cta_status[c] = 1 THEN DeallocateBarrier(c) ELSE UNCHANGED sets
      /\ UNCHANGED <<program, step, no_result>>

WarpStep(w) == WarpReachesBarrier(w) \/ WarpExit(w) \/ Reclaim(w)

Next == \/ \E p \in Programs : IssueBlock2core(p)
        \/ \E w \in Warp : WarpStep(w)

Spec == Init /\ [][Next]_vars

\* The schedulers issue from every warp that stays ready, and fetch() looks at
\* every warp in turn.
Fairness == \A w \in Warp : WF_vars(WarpStep(w))

FairSpec == Spec /\ Fairness

-----------------------------------------------------------------------------
(* Properties *)

\* The three records of a barrier agree: a warp that is held has not exited and
\* is listed at the barrier it issued last, so that a release finds it; a
\* context is free exactly when all its warps are reclaimed (allocate_barrier
\* asserts that the CTA is not in the map).
BarrierConsistent ==
  /\ \A w \in m_warp_at_barrier :
       /\ w \in m_warp_active
       /\ step[w] > 0 /\ w \in m_bar_id_to_warps[Code(w)[step[w]].bar_id]
  /\ \A c \in Cta : /\ m_cta_status[c] = Cardinality(m_cta_to_warps[c] \ done_exit)
                    /\ m_cta_status[c] = 0 <=> m_cta_to_warps[c] = {}

\* How many of the first n instructions of w are barriers b
Uses(w, b, n) == Cardinality({i \in 1 .. n : Code(w)[i].bar_id = b})

\* "required number of warps have reached barrier, so release waiting warps":
\* a warp is past its k-th use of a barrier only when the others have used it k
\* times or exited, or when there have been k times as many arrivals as it
\* counts.
NoEarlyRelease ==
  \A c \in Cta : \A w \in m_cta_to_warps[c] : \A i \in 1 .. step[w] :
    LET insn == Code(w)[i]
        k == Uses(w, insn.bar_id, i)
        uses(v) == Uses(v, insn.bar_id, step[v])
    IN  /\ insn.bar_type # "ARRIVE"
        /\ i < step[w] \/ w \notin m_warp_at_barrier
        => IF insn.count = 0
             THEN \A v \in m_cta_to_warps[c] : v \in m_warp_active => uses(v) >= k
             ELSE MapThenSumSet(uses, m_cta_to_warps[c]) >= k * insn.count

\* A warp goes on after a reduction only with its result.
ResultDelivered == no_result \cap m_warp_active \subseteq m_warp_at_barrier

\* Every CTA ends: no warp waits for ever at a barrier, whichever warps have
\* exited in the meantime.
CtaFinishes == \A c \in Cta : m_cta_status[c] > 0 ~> m_cta_status[c] = 0
=============================================================================
