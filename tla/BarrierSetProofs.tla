--------------------------- MODULE BarrierSetProofs ---------------------------
(***************************************************************************)
(* BarrierConsistent of BarrierSet, for every number of contexts, warps    *)
(* and barriers and for all programs, well-formed or not.  Then the two    *)
(* promises of a barrier to the program, NoEarlyRelease and                *)
(* ResultDelivered, for the programs that keep PTX's rules for bar.sync    *)
(* and bar.red without a thread count.                                     *)
(***************************************************************************)
EXTENDS BarrierSet, FiniteSetTheorems, TLAPS

TypeInv ==
  /\ m_cta_to_warps \in [Cta -> SUBSET Warp]
  /\ m_warp_active \subseteq Warp
  /\ m_warp_at_barrier \subseteq Warp
  /\ m_bar_id_to_warps \in [BarId -> SUBSET Warp]
  /\ m_cta_status \in [Cta -> Nat]
  /\ done_exit \subseteq Warp
  /\ program \in [Cta -> Seq(Seq(Insn))]
  /\ step \in [Warp -> Nat]

\* A CTA in the map has the warps of its program, and one that is not reclaimed;
\* a warp that has not exited belongs to a CTA in the map and is not reclaimed.
CtaInv ==
  /\ \A c \in Cta : m_cta_to_warps[c] # {} =>
       /\ m_cta_to_warps[c] = {c} \X (1 .. Len(program[c]))
       /\ m_cta_to_warps[c] \ done_exit # {}
  /\ \A c \in Cta : m_cta_status[c] = Cardinality(m_cta_to_warps[c] \ done_exit)
  /\ \A w \in m_warp_active : /\ w \in m_cta_to_warps[w[1]] /\ w \notin done_exit
                              /\ step[w] \in 0 .. Len(Code(w))

\* Warp w is held as BarrierConsistent says.
HeldAt(w) == /\ w \in m_warp_active
             /\ step[w] > 0 /\ w \in m_bar_id_to_warps[Code(w)[step[w]].bar_id]

\* The inductive invariant: that an exited or reclaimed warp is never held needs
\* the map from CTAs to warps, which tells the warps of a new CTA from those
\* of the ones that are running.
IInv == TypeInv /\ CtaInv /\ \A w \in m_warp_at_barrier : HeldAt(w)

\* The warps of a CTA are finitely many.
LEMMA WarpsFinite == \A S \in SUBSET Warp : IsFiniteSet(S) /\ Cardinality(S) \in Nat
<1>1. IsFiniteSet(Cta) /\ IsFiniteSet(1 .. MaxWarps)
  BY FS_Interval, BarrierAssumption DEF Cta
<1>2. IsFiniteSet(Warp)
  BY <1>1, FS_Product DEF Warp
<1> QED BY <1>2, FS_Subset, FS_CardinalityType

\* The warps of a program of n warps in context c.
LEMMA ProgramWarps ==
  ASSUME NEW c \in Cta, NEW p \in Programs
  PROVE  /\ {c} \X (1 .. Len(p)) \in SUBSET Warp
         /\ {c} \X (1 .. Len(p)) # {}
         /\ Cardinality({c} \X (1 .. Len(p))) = Len(p)
<1>1. Len(p) \in 1 .. MaxWarps /\ MaxWarps \in Nat
  BY BarrierAssumption
<1>2. {c} \X (1 .. Len(p)) \in SUBSET Warp
  BY <1>1 DEF Warp
<1>3. <<c, 1>> \in {c} \X (1 .. Len(p))
  BY <1>1
<1>4. IsFiniteSet({c}) /\ Cardinality({c}) = 1
  BY FS_Singleton
<1>5. IsFiniteSet(1 .. Len(p)) /\ Cardinality(1 .. Len(p)) = Len(p)
  BY <1>1, FS_Interval
<1>6. Cardinality({c} \X (1 .. Len(p))) = 1 * Len(p)
  <2> DEFINE S == {c}
             T == 1 .. Len(p)
  <2> HIDE DEF S, T
  <2>1. IsFiniteSet(S) /\ IsFiniteSet(T) => Cardinality(S \X T) = Cardinality(S) * Cardinality(T)
    BY FS_Product
  <2> QED BY <1>4, <1>5, <2>1 DEF S, T
<1> QED BY <1>1, <1>2, <1>3, <1>6

\* A warp that has not exited has code, and its instructions name barriers.
LEMMA ActiveCode ==
  ASSUME IInv, NEW w \in m_warp_active
  PROVE  /\ w \in Warp /\ w[1] \in Cta
         /\ Len(Code(w)) \in Nat
         /\ \A i \in 1 .. Len(Code(w)) : Code(w)[i].bar_id \in BarId
<1>1. w \in Warp /\ w[1] \in Cta
  BY DEF IInv, TypeInv, Warp
<1>2. w \in m_cta_to_warps[w[1]]
  BY DEF IInv, CtaInv
<1>3. w \in {w[1]} \X (1 .. Len(program[w[1]]))
  BY <1>1, <1>2 DEF IInv, CtaInv
<1>4. w[2] \in 1 .. Len(program[w[1]]) /\ program[w[1]] \in Seq(Seq(Insn))
  BY <1>1, <1>3 DEF IInv, TypeInv
<1>5. Code(w) \in Seq(Insn)
  BY <1>4 DEF Code
<1>6. \A i \in 1 .. Len(Code(w)) : Code(w)[i] \in Insn
  BY <1>5
<1> QED BY <1>1, <1>5, <1>6 DEF Insn

\* A held warp stays held in a step that leaves its code, its step, its activity
\* and its entries at the barriers alone.
LEMMA StaysHeld ==
  ASSUME IInv, NEW w \in m_warp_at_barrier,
         w \in m_warp_active', step'[w] = step[w], program'[w[1]] = program[w[1]],
         \A b \in BarId : w \in m_bar_id_to_warps[b] => w \in m_bar_id_to_warps'[b]
  PROVE  HeldAt(w)'
<1>1. HeldAt(w) /\ w \in m_warp_active
  BY DEF IInv, HeldAt
<1>2. step[w] \in 1 .. Len(Code(w))
  BY <1>1, ActiveCode DEF IInv, CtaInv, HeldAt
<1>3. Code(w)[step[w]].bar_id \in BarId
  BY <1>1, <1>2, ActiveCode
<1>4. Code(w)' = Code(w)
  BY DEF Code
<1> QED BY <1>1, <1>3, <1>4 DEF HeldAt

LEMMA InitIInv == Init => IInv
<1> SUFFICES ASSUME Init PROVE IInv
  OBVIOUS
<1>1. TypeInv
  BY DEF Init, TypeInv
<1>2. CtaInv
  <2>1. \A c \in Cta : m_cta_to_warps[c] = {} /\ m_cta_status[c] = 0
    BY DEF Init
  <2>2. \A c \in Cta : m_cta_status[c] = Cardinality(m_cta_to_warps[c] \ done_exit)
    <3>1. \A c \in Cta : m_cta_to_warps[c] \ done_exit = {}
      BY <2>1
    <3> QED BY <2>1, <3>1, FS_EmptySet
  <2> QED BY <2>1, <2>2 DEF Init, CtaInv
<1> QED BY <1>1, <1>2 DEF Init, IInv

LEMMA NextIInv == IInv /\ [Next]_vars => IInv'
<1> SUFFICES ASSUME IInv, [Next]_vars PROVE IInv'
  OBVIOUS
<1>0. TypeInv /\ CtaInv
  BY DEF IInv
<1>h. m_warp_at_barrier \subseteq m_warp_active
  BY DEF IInv, HeldAt
<1>1. ASSUME NEW p \in Programs, IssueBlock2core(p) PROVE IInv'
  <2>0. PICK c \in Cta : IssueBlock2core(p)!(c)
    BY <1>1 DEF IssueBlock2core
  <2> DEFINE warps == {c} \X (1 .. Len(p))
  <2>b. /\ m_cta_to_warps' = [m_cta_to_warps EXCEPT ![c] = warps]
        /\ m_warp_active' = m_warp_active \cup warps
        /\ m_warp_at_barrier' = m_warp_at_barrier \ warps
        /\ m_bar_id_to_warps' = [b \in BarId |-> m_bar_id_to_warps[b] \ warps]
    BY <2>0 DEF AllocateBarrier
  <2>1. warps \in SUBSET Warp /\ warps # {} /\ Cardinality(warps) = Len(p)
    BY ProgramWarps
  <2>p. p \in Seq(Seq(Insn)) /\ Len(p) \in Nat
    BY BarrierAssumption
  <2>2. m_cta_to_warps[c] = {}
    <3>1. Cardinality(m_cta_to_warps[c] \ done_exit) = 0
      BY <1>0, <2>0, <2>b DEF CtaInv
    <3>2. m_cta_to_warps[c] \ done_exit = {}
      BY <1>0, <3>1, WarpsFinite, FS_EmptySet DEF TypeInv
    <3> QED BY <1>0, <3>2 DEF CtaInv
  <2>3. \A w \in m_warp_active : w[1] # c
    BY <1>0, <2>2 DEF CtaInv
  <2>4. TypeInv'
    <3>1. m_cta_to_warps' \in [Cta -> SUBSET Warp] /\ m_warp_active' \subseteq Warp
            /\ m_warp_at_barrier' \subseteq Warp /\ done_exit' \subseteq Warp
      BY <1>0, <2>0, <2>b, <2>1 DEF TypeInv
    <3>2. m_bar_id_to_warps' \in [BarId -> SUBSET Warp]
      BY <1>0, <2>0, <2>b DEF TypeInv
    <3>3. m_cta_status' \in [Cta -> Nat] /\ program' \in [Cta -> Seq(Seq(Insn))]
      BY <1>0, <2>0, <2>b, <2>p DEF TypeInv
    <3>4. step' \in [Warp -> Nat]
      BY <1>0, <2>0, <2>b DEF TypeInv
    <3> QED BY <3>1, <3>2, <3>3, <3>4 DEF TypeInv
  <2>5. CtaInv'
    <3>1. ASSUME NEW k \in Cta
          PROVE  /\ m_cta_to_warps'[k] # {} => /\ m_cta_to_warps'[k] = {k} \X (1 .. Len(program'[k]))
                                               /\ m_cta_to_warps'[k] \ done_exit' # {}
                 /\ m_cta_status'[k] = Cardinality(m_cta_to_warps'[k] \ done_exit')
      <4>1. CASE k = c
        <5>1. m_cta_to_warps'[k] = warps /\ program'[k] = p /\ m_cta_status'[k] = Len(p)
          BY <1>0, <2>0, <2>b, <4>1 DEF TypeInv
        <5>2. m_cta_to_warps'[k] \ done_exit' = warps
          BY <2>0, <2>b, <5>1
        <5> QED BY <2>1, <4>1, <5>1, <5>2
      <4>2. CASE k # c
        <5>1. /\ m_cta_to_warps'[k] = m_cta_to_warps[k] /\ program'[k] = program[k]
              /\ m_cta_status'[k] = m_cta_status[k]
          BY <1>0, <2>0, <2>b, <4>2 DEF TypeInv
        <5>2. m_cta_to_warps[k] \cap warps = {}
          BY <1>0, <4>2 DEF CtaInv
        <5>3. m_cta_to_warps'[k] \ done_exit' = m_cta_to_warps[k] \ done_exit
          BY <2>0, <2>b, <5>1, <5>2
        <5> QED BY <1>0, <5>1, <5>3 DEF CtaInv
      <4> QED BY <4>1, <4>2
    <3>2. ASSUME NEW w \in m_warp_active'
          PROVE  /\ w \in m_cta_to_warps'[w[1]] /\ w \notin done_exit'
                 /\ step'[w] \in 0 .. Len(Code(w)')
      <4>1. CASE w \in warps
        <5>1. w[1] = c /\ w[2] \in 1 .. Len(p) /\ w \in Warp
          BY <2>1, <4>1
        <5>2. Code(w)' = p[w[2]] /\ p[w[2]] \in Seq(Insn)
          BY <1>0, <2>0, <2>b, <2>p, <5>1 DEF Code, TypeInv
        <5>3. step'[w] = 0
          BY <2>0, <2>b, <4>1, <5>1
        <5> QED BY <1>0, <2>0, <2>b, <4>1, <5>1, <5>2, <5>3 DEF TypeInv
      <4>2. CASE w \notin warps
        <5>1. w \in m_warp_active /\ w[1] # c /\ w[1] \in Cta /\ w \in Warp
          BY <2>0, <2>b, <2>3, <4>2, ActiveCode
        <5>2. Code(w)' = Code(w) /\ step'[w] = step[w]
                /\ m_cta_to_warps'[w[1]] = m_cta_to_warps[w[1]]
          BY <1>0, <2>0, <2>b, <4>2, <5>1 DEF Code, TypeInv
        <5> QED BY <1>0, <2>0, <2>b, <5>1, <5>2 DEF CtaInv
      <4> QED BY <4>1, <4>2
    <3> QED BY <3>1, <3>2 DEF CtaInv
  <2>6. ASSUME NEW w \in m_warp_at_barrier' PROVE HeldAt(w)'
    <3>1. w \in m_warp_at_barrier /\ w \notin warps /\ w \in m_warp_active /\ w[1] # c
      BY <1>h, <2>0, <2>b, <2>3
    <3>2. w \in Warp /\ w[1] \in Cta
      BY <3>1, ActiveCode
    <3>3. w \in m_warp_active' /\ step'[w] = step[w] /\ program'[w[1]] = program[w[1]]
      BY <1>0, <2>0, <2>b, <3>1, <3>2 DEF TypeInv
    <3>4. \A b \in BarId : w \in m_bar_id_to_warps[b] => w \in m_bar_id_to_warps'[b]
      BY <2>0, <2>b, <3>1
    <3> QED BY <3>1, <3>3, <3>4, StaysHeld
  <2> QED BY <2>4, <2>5, <2>6 DEF IInv
<1>2. ASSUME NEW w \in Warp, WarpReachesBarrier(w) PROVE IInv'
  <2>0. /\ w \in m_warp_active /\ w \notin m_warp_at_barrier /\ step[w] < Len(Code(w))
        /\ step' = [step EXCEPT ![w] = @ + 1]
        /\ m_bar_id_to_warps' = [m_bar_id_to_warps EXCEPT ![NextInsn(w).bar_id] = Listed(w)]
        /\ m_warp_at_barrier' = Held(w)
        /\ UNCHANGED <<m_cta_to_warps, m_warp_active, m_cta_status, done_exit, program>>
    BY <1>2 DEF WarpReachesBarrier, Ready
  <2>1. NextInsn(w).bar_id \in BarId /\ Len(Code(w)) \in Nat /\ step[w] \in Nat
    <3>1. step[w] \in Nat /\ Len(Code(w)) \in Nat
      BY <1>0, <2>0, ActiveCode DEF TypeInv
    <3>2. step[w] + 1 \in 1 .. Len(Code(w))
      BY <2>0, <3>1
    <3> QED BY <2>0, <3>1, <3>2, ActiveCode DEF NextInsn
  <2>2. TypeInv'
    <3>1. Listed(w) \subseteq Warp /\ Held(w) \subseteq Warp
      BY <1>0, <2>1 DEF Listed, Held, TypeInv
    <3> QED BY <1>0, <2>0, <2>1, <3>1 DEF TypeInv
  <2>3. \A u : Code(u)' = Code(u)
    BY <2>0 DEF Code
  <2>4. CtaInv'
    <3>1. \A u \in m_warp_active : step'[u] \in 0 .. Len(Code(u))
      <4> TAKE u \in m_warp_active
      <4>1. step[u] \in 0 .. Len(Code(u)) /\ u \in Warp
        BY <1>0, ActiveCode DEF CtaInv
      <4> QED BY <1>0, <2>0, <2>1, <4>1 DEF TypeInv
    <3> QED BY <1>0, <2>0, <2>3, <3>1 DEF CtaInv
  <2>5. ASSUME NEW u \in m_warp_at_barrier' PROVE HeldAt(u)'
    <3>1. u \notin Freed(w) /\ (u \in m_warp_at_barrier \/ u = w)
      BY <2>0, <2>5 DEF Held
    <3>2. CASE u = w
      <4>1. step'[w] = step[w] + 1 /\ step'[w] > 0
        BY <1>0, <2>0, <2>1 DEF TypeInv
      <4>2. Code(w)'[step'[w]] = NextInsn(w)
        BY <2>3, <4>1 DEF NextInsn
      <4>3. w \in m_bar_id_to_warps'[NextInsn(w).bar_id]
        BY <1>0, <2>0, <2>1, <3>1, <3>2 DEF Listed, TypeInv
      <4> QED BY <2>0, <3>2, <4>1, <4>2, <4>3 DEF HeldAt
    <3>3. CASE u # w
      <4>1. u \in m_warp_at_barrier /\ u \in m_warp_active /\ u \in Warp
        BY <1>h, <3>1, <3>3, ActiveCode
      <4>2. step'[u] = step[u] /\ program'[u[1]] = program[u[1]] /\ u \in m_warp_active'
        BY <1>0, <2>0, <3>3, <4>1 DEF TypeInv
      <4>3. \A b \in BarId : u \in m_bar_id_to_warps[b] => u \in m_bar_id_to_warps'[b]
        BY <1>0, <2>0, <2>1, <3>1 DEF Listed, TypeInv
      <4> QED BY <4>1, <4>2, <4>3, StaysHeld
    <3> QED BY <3>2, <3>3
  <2> QED BY <2>2, <2>4, <2>5 DEF IInv
<1>3. ASSUME NEW w \in Warp, WarpExit(w) PROVE IInv'
  <2> DEFINE warps == m_cta_to_warps[w[1]]
             active == warps \cap (m_warp_active \ {w})
             released == {b \in BarId : warps \cap m_bar_id_to_warps[b] = active}
  <2>0. /\ w \in m_warp_active /\ w \notin m_warp_at_barrier
        /\ m_warp_active' = m_warp_active \ {w}
        /\ m_bar_id_to_warps' = [b \in BarId |-> IF b \in released THEN m_bar_id_to_warps[b] \ active
                                                                 ELSE m_bar_id_to_warps[b]]
        /\ m_warp_at_barrier' = IF released # {} THEN m_warp_at_barrier \ active
                                                 ELSE m_warp_at_barrier
        /\ UNCHANGED <<m_cta_to_warps, m_cta_status, done_exit, program, step>>
    BY <1>3 DEF WarpExit, Ready
  <2> HIDE DEF released, active
  <2>1. TypeInv'
    <3>1. m_bar_id_to_warps' \in [BarId -> SUBSET Warp]
      BY <1>0, <2>0 DEF TypeInv
    <3>2. m_warp_at_barrier' \subseteq Warp
      BY <1>0, <2>0 DEF TypeInv
    <3> QED BY <1>0, <2>0, <3>1, <3>2 DEF TypeInv
  <2>2. \A u : Code(u)' = Code(u)
    BY <2>0 DEF Code
  <2>3. CtaInv'
    BY <1>0, <2>0, <2>2 DEF CtaInv
  <2>4. ASSUME NEW u \in m_warp_at_barrier' PROVE HeldAt(u)'
    <3>1. u \in m_warp_at_barrier /\ (released # {} => u \notin active)
      BY <2>0
    <3>2. u \in m_warp_active' /\ step'[u] = step[u] /\ program'[u[1]] = program[u[1]]
      BY <1>h, <2>0, <3>1
    <3>3. \A b \in BarId : u \in m_bar_id_to_warps[b] => u \in m_bar_id_to_warps'[b]
      BY <2>0, <3>1
    <3> QED BY <3>1, <3>2, <3>3, StaysHeld
  <2> QED BY <2>1, <2>3, <2>4 DEF IInv
<1>4. ASSUME NEW w \in Warp, Reclaim(w) PROVE IInv'
  <2> DEFINE c == w[1]
             warps == m_cta_to_warps[c]
             left == warps \ done_exit
  <2>0. /\ w \in warps /\ w \notin m_warp_active /\ w \notin done_exit
        /\ m_cta_status' = [m_cta_status EXCEPT ![c] = @ - 1]
        /\ done_exit' = done_exit \cup {w}
        /\ UNCHANGED <<program, step>>
    BY <1>4 DEF Reclaim, DeallocateBarrier
  <2>1. c \in Cta /\ IsFiniteSet(left) /\ Cardinality(left) = m_cta_status[c] /\ w \in left
    BY <1>0, <2>0, WarpsFinite DEF TypeInv, CtaInv, Warp
  <2>2. /\ IsFiniteSet(left \ {w}) /\ Cardinality(left \ {w}) = m_cta_status[c] - 1
        /\ Cardinality(left \ {w}) \in Nat
    <3> HIDE DEF left
    <3>1. IsFiniteSet(left \ {w}) /\ Cardinality(left \ {w}) = Cardinality(left) - 1
      BY <2>1, FS_RemoveElement
    <3> QED BY <2>1, <3>1, FS_CardinalityType
  <2>s. m_cta_status[c] \in Nat
    BY <1>0, <2>1 DEF TypeInv
  <2>3. \A u : Code(u)' = Code(u)
    BY <2>0 DEF Code
  <2>4. \A k \in Cta \ {c} : m_cta_to_warps[k] \ done_exit' = m_cta_to_warps[k] \ done_exit
    BY <1>0, <2>0 DEF CtaInv
  <2>5. CASE m_cta_status[c] = 1
    <3>0. /\ m_cta_to_warps' = [m_cta_to_warps EXCEPT ![c] = {}]
          /\ m_warp_active' = m_warp_active \ warps
          /\ m_warp_at_barrier' = m_warp_at_barrier \ warps
          /\ m_bar_id_to_warps' = [b \in BarId |-> m_bar_id_to_warps[b] \ warps]
      BY <1>4, <2>5 DEF Reclaim, DeallocateBarrier
    <3>1. TypeInv'
      <4>1. m_bar_id_to_warps' \in [BarId -> SUBSET Warp] /\ m_cta_to_warps' \in [Cta -> SUBSET Warp]
        BY <1>0, <3>0 DEF TypeInv
      <4>2. m_cta_status' \in [Cta -> Nat]
        <5>1. m_cta_status[c] - 1 \in Nat
          BY <2>5
        <5> HIDE DEF c
        <5> QED BY <1>0, <2>0, <5>1 DEF TypeInv
      <4> QED BY <1>0, <2>0, <3>0, <4>1, <4>2 DEF TypeInv
    <3>2. CtaInv'
      <4>1. ASSUME NEW k \in Cta
            PROVE  /\ m_cta_to_warps'[k] # {} => /\ m_cta_to_warps'[k] = {k} \X (1 .. Len(program'[k]))
                                                 /\ m_cta_to_warps'[k] \ done_exit' # {}
                   /\ m_cta_status'[k] = Cardinality(m_cta_to_warps'[k] \ done_exit')
        <5>1. CASE k = c
          <6>1. m_cta_to_warps'[k] = {} /\ m_cta_status'[k] = 0
            BY <1>0, <2>0, <2>5, <3>0, <5>1 DEF TypeInv
          <6>2. m_cta_to_warps'[k] \ done_exit' = {}
            BY <6>1
          <6> QED BY <6>1, <6>2, FS_EmptySet
        <5>2. CASE k # c
          <6>1. m_cta_to_warps'[k] = m_cta_to_warps[k] /\ m_cta_status'[k] = m_cta_status[k]
            BY <1>0, <2>0, <3>0, <5>2 DEF TypeInv
          <6> QED BY <1>0, <2>0, <2>4, <5>2, <6>1 DEF CtaInv
        <5> QED BY <5>1, <5>2
      <4>2. ASSUME NEW u \in m_warp_active'
            PROVE  /\ u \in m_cta_to_warps'[u[1]] /\ u \notin done_exit'
                   /\ step'[u] \in 0 .. Len(Code(u)')
        <5>1. u \in m_warp_active /\ u \notin warps
          BY <3>0
        <5>2. u \in m_cta_to_warps[u[1]] /\ u[1] # c /\ u[1] \in Cta
          BY <1>0, <5>1, ActiveCode DEF CtaInv
        <5>3. m_cta_to_warps'[u[1]] = m_cta_to_warps[u[1]] /\ step'[u] = step[u]
          BY <1>0, <2>0, <3>0, <5>2 DEF TypeInv
        <5>4. u \notin done_exit'
          BY <1>0, <2>0, <5>1 DEF CtaInv
        <5> QED BY <1>0, <2>3, <5>1, <5>2, <5>3, <5>4 DEF CtaInv
      <4> QED BY <4>1, <4>2 DEF CtaInv
    <3>3. ASSUME NEW u \in m_warp_at_barrier' PROVE HeldAt(u)'
      <4>1. u \in m_warp_at_barrier /\ u \notin warps /\ u \in m_warp_active'
        BY <1>h, <3>0
      <4>2. \A b \in BarId : u \in m_bar_id_to_warps[b] => u \in m_bar_id_to_warps'[b]
        BY <3>0, <4>1
      <4> QED BY <2>0, <4>1, <4>2, StaysHeld
    <3> QED BY <3>1, <3>2, <3>3 DEF IInv
  <2>6. CASE m_cta_status[c] # 1
    <3>0. UNCHANGED sets
      BY <1>4, <2>6 DEF Reclaim, DeallocateBarrier
    <3>1. m_cta_to_warps' = m_cta_to_warps /\ m_warp_active' = m_warp_active
            /\ m_warp_at_barrier' = m_warp_at_barrier /\ m_bar_id_to_warps' = m_bar_id_to_warps
      BY <3>0 DEF sets
    <3>2. m_cta_status[c] - 1 \in Nat /\ m_cta_status[c] - 1 # 0
      BY <2>2, <2>6, <2>s
    <3>3. TypeInv'
      BY <1>0, <2>0, <2>1, <3>1, <3>2 DEF TypeInv
    <3>4. CtaInv'
      <4>1. warps \ done_exit' = left \ {w}
        BY <2>0
      <4>2. left \ {w} # {}
        BY <2>2, <3>2, FS_EmptySet
      <4>3. \A k \in Cta : m_cta_status'[k] = Cardinality(m_cta_to_warps'[k] \ done_exit')
        <5> TAKE k \in Cta
        <5>1. CASE k = c
          BY <1>0, <2>0, <2>1, <2>2, <3>1, <4>1, <5>1 DEF TypeInv
        <5>2. CASE k # c
          BY <1>0, <2>0, <2>4, <3>1, <5>2 DEF TypeInv, CtaInv
        <5> QED BY <5>1, <5>2
      <4>4. \A k \in Cta : m_cta_to_warps'[k] # {} =>
              /\ m_cta_to_warps'[k] = {k} \X (1 .. Len(program'[k]))
              /\ m_cta_to_warps'[k] \ done_exit' # {}
        <5> TAKE k \in Cta
        <5>1. CASE k = c
          BY <1>0, <2>0, <3>1, <4>1, <4>2, <5>1 DEF CtaInv
        <5>2. CASE k # c
          BY <1>0, <2>0, <2>4, <3>1, <5>2 DEF CtaInv
        <5> QED BY <5>1, <5>2
      <4>5. \A u \in m_warp_active' : /\ u \in m_cta_to_warps'[u[1]] /\ u \notin done_exit'
                                      /\ step'[u] \in 0 .. Len(Code(u)')
        BY <1>0, <2>0, <2>3, <3>1 DEF CtaInv
      <4> QED BY <4>3, <4>4, <4>5 DEF CtaInv
    <3>5. ASSUME NEW u \in m_warp_at_barrier' PROVE HeldAt(u)'
      <4>1. u \in m_warp_at_barrier /\ u \in m_warp_active'
        BY <1>h, <3>1
      <4> QED BY <2>0, <3>1, <4>1, StaysHeld
    <3> QED BY <3>3, <3>4, <3>5 DEF IInv
  <2> QED BY <2>5, <2>6
<1>5. CASE UNCHANGED vars
  BY <1>5 DEF vars, sets, IInv, TypeInv, CtaInv, HeldAt, Code
<1> QED BY <1>1, <1>2, <1>3, <1>4, <1>5 DEF Next, WarpStep

\* A held warp has not exited and is listed at the barrier it waits for, and a
\* context is free exactly when all its warps are reclaimed, for any number of
\* warps and whatever the programs do (barrier_set_t, register_cta_thread_exit).
THEOREM BarrierCorrect == Spec => []BarrierConsistent
<1>1. IInv => BarrierConsistent
  <2> SUFFICES ASSUME IInv PROVE BarrierConsistent
    OBVIOUS
  <2>1. \A c \in Cta : m_cta_status[c] = 0 <=> m_cta_to_warps[c] = {}
    <3> TAKE c \in Cta
    <3>1. m_cta_to_warps[c] \ done_exit \in SUBSET Warp
      BY DEF IInv, TypeInv
    <3>2. Cardinality(m_cta_to_warps[c] \ done_exit) = 0 <=> m_cta_to_warps[c] \ done_exit = {}
      BY <3>1, WarpsFinite, FS_EmptySet
    <3> QED BY <3>2 DEF IInv, CtaInv
  <2> QED BY <2>1 DEF IInv, CtaInv, HeldAt, BarrierConsistent
<1> QED BY <1>1, InitIInv, NextIInv, PTL DEF Spec

\* The first two assertions of deallocate_barrier: a CTA all of whose warps have
\* exited has none that is held, whatever the programs do.
THEOREM NoExitedHeld ==
  Spec => [](\A c \in Cta : m_cta_to_warps[c] \cap m_warp_active = {}
                             => m_cta_to_warps[c] \cap m_warp_at_barrier = {})
<1>1. IInv => \A c \in Cta : m_cta_to_warps[c] \cap m_warp_active = {}
                              => m_cta_to_warps[c] \cap m_warp_at_barrier = {}
  BY DEF IInv, HeldAt
<1> QED BY <1>1, InitIInv, NextIInv, PTL DEF Spec

-----------------------------------------------------------------------------
(* Release: what a warp let go from a barrier may conclude about the others.  *)

\* Program p never announces without waiting (bar.arrive).
NoArrivals(p) ==
  \A v \in 1 .. Len(p) : \A i \in 1 .. Len(p[v]) : p[v][i].bar_type # "ARRIVE"

\* Program p names barrier b only in instructions without a thread count.
Uncounted(p, b) ==
  \A v \in 1 .. Len(p) : \A i \in 1 .. Len(p[v]) : p[v][i].bar_id = b => p[v][i].count = 0

\* How often the code of a warp uses barrier b in all
UsesIn(code, b) == Cardinality({i \in 1 .. Len(code) : code[i].bar_id = b})

\* Program p reduces at barrier b: in all its uses, and all warps equally often.
ReducesAt(p, b) ==
  /\ Uncounted(p, b)
  /\ \A v \in 1 .. Len(p) : \A i \in 1 .. Len(p[v]) :
       p[v][i].bar_id = b => p[v][i].bar_type = "RED"
  /\ \A v, w \in 1 .. Len(p) : UsesIn(p[v], b) = UsesIn(p[w], b)

\* Every reduction of program p is one of all its warps.
ReducesTogether(p) ==
  \A v \in 1 .. Len(p) : \A i \in 1 .. Len(p[v]) :
    p[v][i].bar_type = "RED" => ReducesAt(p, p[v][i].bar_id)

\* The uses of barrier b that warp w has been let go from
Passed(w, b) == IF w \in m_bar_id_to_warps[b] THEN Uses(w, b, step[w]) - 1
                                             ELSE Uses(w, b, step[w])

\* Without arrivals a warp is listed only at the barrier it is held at.
ListedInv(c) ==
  NoArrivals(program[c]) =>
    \A w \in m_cta_to_warps[c] : \A b \in BarId : w \in m_bar_id_to_warps[b] =>
      w \in m_warp_at_barrier /\ Code(w)[step[w]].bar_id = b

\* The warps of a CTA that have not exited have passed a barrier equally often,
\* and those that have exited not more often.
PhaseInv(c) ==
  NoArrivals(program[c]) =>
    \A b \in BarId : Uncounted(program[c], b) =>
      \A v, w \in m_cta_to_warps[c] : v \in m_warp_active => Passed(w, b) <= Passed(v, b)

\* A warp without its result is held at the reduction.
ResultInv(c) ==
  NoArrivals(program[c]) /\ ReducesTogether(program[c]) =>
    \A w \in m_cta_to_warps[c] : w \in no_result /\ w \in m_warp_active =>
      w \in m_warp_at_barrier /\ Code(w)[step[w]].bar_type = "RED"

\* What runs is a program, and steps stay within it after the exit too.
CodeInv(c) ==
  /\ m_cta_to_warps[c] # {} => program[c] \in Programs
  /\ \A w \in m_cta_to_warps[c] : step[w] \in 0 .. Len(Code(w))

\* The inductive invariant of the releases, next to IInv
ReleaseInv == \A c \in Cta : CodeInv(c) /\ ListedInv(c) /\ PhaseInv(c) /\ ResultInv(c)

\* Uses counts, instruction by instruction.
LEMMA UsesFacts ==
  ASSUME NEW w, NEW b, NEW n \in Nat
  PROVE  /\ Uses(w, b, n) \in Nat
         /\ Uses(w, b, n + 1) = Uses(w, b, n) + (IF Code(w)[n + 1].bar_id = b THEN 1 ELSE 0)
<1> DEFINE S(k) == {i \in 1 .. k : Code(w)[i].bar_id = b}
<1>1. IsFiniteSet(1 .. n)
  BY FS_Interval
<1>2. IsFiniteSet(S(n)) /\ Cardinality(S(n)) \in Nat
  BY <1>1, FS_Subset, FS_CardinalityType
<1>3. CASE Code(w)[n + 1].bar_id = b
  <2>1. S(n + 1) = S(n) \cup {n + 1} /\ n + 1 \notin S(n)
    BY <1>3
  <2> HIDE DEF S
  <2>2. Cardinality(S(n + 1)) = Cardinality(S(n)) + 1
    BY <1>2, <2>1, FS_AddElement
  <2> QED BY <1>2, <1>3, <2>2 DEF Uses, S
<1>4. CASE Code(w)[n + 1].bar_id # b
  <2>1. S(n + 1) = S(n)
    BY <1>4
  <2> HIDE DEF S
  <2>2. Cardinality(S(n + 1)) = Cardinality(S(n))
    BY <2>1
  <2> QED BY <1>2, <1>4, <2>2 DEF Uses, S
<1> QED BY <1>3, <1>4

LEMMA UsesMonotone ==
  ASSUME NEW w, NEW b, NEW m \in Nat, NEW n \in Nat, m <= n
  PROVE  Uses(w, b, m) <= Uses(w, b, n)
<1> DEFINE S(k) == {i \in 1 .. k : Code(w)[i].bar_id = b}
<1>1. IsFiniteSet(1 .. n)
  BY FS_Interval
<1>2. IsFiniteSet(S(n)) /\ S(m) \subseteq S(n)
  BY <1>1, FS_Subset
<1> HIDE DEF S
<1>3. Cardinality(S(m)) <= Cardinality(S(n))
  BY <1>2, FS_Subset
<1> QED BY <1>3 DEF Uses, S

LEMMA UsesZero == ASSUME NEW w, NEW b PROVE Uses(w, b, 0) = 0
<1>1. {i \in 1 .. 0 : Code(w)[i].bar_id = b} = {}
  OBVIOUS
<1> QED BY <1>1, FS_EmptySet DEF Uses

\* Code and count of a warp whose program and step a step leaves alone
LEMMA UsesSame ==
  ASSUME NEW w, NEW b, Code(w)' = Code(w), step'[w] = step[w]
  PROVE  Uses(w, b, step[w])' = Uses(w, b, step[w])
BY DEF Uses

\* The warps of a CTA in the map, their code and their counts
LEMMA CtaWarps ==
  ASSUME IInv, ReleaseInv, NEW c \in Cta, NEW w \in m_cta_to_warps[c]
  PROVE  /\ w \in Warp /\ w[1] = c /\ w[2] \in 1 .. Len(program[c])
         /\ Code(w) = program[c][w[2]] /\ Len(Code(w)) \in Nat
         /\ step[w] \in Nat /\ step[w] <= Len(Code(w))
         /\ \A i \in 1 .. Len(Code(w)) : Code(w)[i].bar_id \in BarId
<1>1. w \in Warp
  BY DEF IInv, TypeInv
<1>2. w \in {c} \X (1 .. Len(program[c]))
  BY DEF IInv, CtaInv
<1>3. w[1] = c /\ w[2] \in 1 .. Len(program[c]) /\ program[c] \in Seq(Seq(Insn))
  BY <1>2 DEF IInv, TypeInv
<1>4. Code(w) = program[c][w[2]] /\ Code(w) \in Seq(Insn)
  BY <1>3 DEF Code
<1>5. \A i \in 1 .. Len(Code(w)) : Code(w)[i] \in Insn
  BY <1>4
<1>6. step[w] \in Nat /\ step[w] \in 0 .. Len(Code(w))
  BY <1>1 DEF IInv, TypeInv, ReleaseInv, CodeInv
<1>7. \A i \in 1 .. Len(Code(w)) : Code(w)[i].bar_id \in BarId
  BY <1>5 DEF Insn
<1>8. Len(Code(w)) \in Nat
  BY <1>4
<1>9. step[w] <= Len(Code(w))
  BY <1>6, <1>8
<1> HIDE DEF Code
<1> QED BY <1>1, <1>3, <1>4, <1>6, <1>7, <1>8, <1>9

LEMMA PassedNat ==
  ASSUME IInv, ReleaseInv, NEW c \in Cta, NEW w \in m_cta_to_warps[c], NEW b
  PROVE  Passed(w, b) \in Int /\ Passed(w, b) <= Uses(w, b, step[w]) /\ Uses(w, b, step[w]) \in Nat
<1>1. step[w] \in Nat
  BY CtaWarps
<1>2. Uses(w, b, step[w]) \in Nat
  <2> DEFINE n == step[w]
  <2>1. n \in Nat
    BY <1>1
  <2> HIDE DEF n
  <2>2. Uses(w, b, n) \in Nat
    BY <2>1, UsesFacts
  <2> QED BY <2>2 DEF n
<1> QED BY <1>2 DEF Passed

\* A step that does not touch the warps of a CTA keeps what is said of it.
LEMMA ReleaseFrame ==
  ASSUME IInv, ReleaseInv, NEW c \in Cta,
         program'[c] = program[c], m_cta_to_warps'[c] = m_cta_to_warps[c],
         \A w \in m_cta_to_warps[c] :
           /\ step'[w] = step[w]
           /\ w \in m_warp_active' <=> w \in m_warp_active
           /\ w \in m_warp_at_barrier => w \in m_warp_at_barrier'
           /\ w \in no_result' => w \in no_result
           /\ \A b \in BarId : w \in m_bar_id_to_warps'[b] <=> w \in m_bar_id_to_warps[b]
  PROVE  CodeInv(c)' /\ ListedInv(c)' /\ PhaseInv(c)' /\ ResultInv(c)'
<1>0. CodeInv(c) /\ ListedInv(c) /\ PhaseInv(c) /\ ResultInv(c)
  BY DEF ReleaseInv
<1>1. \A w \in m_cta_to_warps[c] : Code(w)' = Code(w)
  <2> TAKE w \in m_cta_to_warps[c]
  <2>1. w[1] = c
    BY CtaWarps
  <2> QED BY <2>1 DEF Code
<1>2. \A w \in m_cta_to_warps[c] : \A b \in BarId : Passed(w, b)' = Passed(w, b)
  <2> TAKE w \in m_cta_to_warps[c]
  <2> TAKE b \in BarId
  <2>1. Uses(w, b, step[w])' = Uses(w, b, step[w])
    BY <1>1, UsesSame
  <2>2. w \in m_bar_id_to_warps'[b] <=> w \in m_bar_id_to_warps[b]
    OBVIOUS
  <2> QED BY <2>1, <2>2 DEF Passed
<1>3. CodeInv(c)'
  BY <1>0, <1>1 DEF CodeInv
<1>4. ListedInv(c)'
  <2>1. \A w \in m_cta_to_warps[c] : Code(w)'[step'[w]] = Code(w)[step[w]]
    BY <1>1
  <2> QED BY <1>0, <2>1 DEF ListedInv
<1>5. PhaseInv(c)'
  BY <1>0, <1>2, Zenon DEF PhaseInv
<1>6. ResultInv(c)'
  BY <1>0, <1>1, Zenon DEF ResultInv
<1> QED BY <1>3, <1>4, <1>5, <1>6

\* A new CTA: its warps have reached nothing.
LEMMA ReleaseIssue ==
  ASSUME IInv, ReleaseInv, NEW p \in Programs, IssueBlock2core(p)
  PROVE  ReleaseInv'
<1>0. PICK c \in Cta : IssueBlock2core(p)!(c)
  BY DEF IssueBlock2core
<1> DEFINE warps == {c} \X (1 .. Len(p))
<1>a. /\ m_cta_to_warps' = [m_cta_to_warps EXCEPT ![c] = warps]
      /\ m_warp_active' = m_warp_active \cup warps
      /\ m_warp_at_barrier' = m_warp_at_barrier \ warps
      /\ m_bar_id_to_warps' = [b \in BarId |-> m_bar_id_to_warps[b] \ warps]
      /\ program' = [program EXCEPT ![c] = p]
      /\ step' = [w \in Warp |-> IF w \in warps THEN 0 ELSE step[w]]
      /\ no_result' = no_result \ warps
  BY <1>0 DEF AllocateBarrier
<1>t. TypeInv
  BY DEF IInv
<1>w. warps \in SUBSET Warp
  BY ProgramWarps
<1>1. CodeInv(c)' /\ ListedInv(c)' /\ PhaseInv(c)' /\ ResultInv(c)'
  <2>1. m_cta_to_warps'[c] = warps /\ program'[c] = p
    BY <1>a, <1>t DEF TypeInv
  <2>2. \A w \in warps : /\ step'[w] = 0 /\ w \notin no_result'
                         /\ \A b \in BarId : w \notin m_bar_id_to_warps'[b]
    BY <1>a, <1>w
  <2>3. \A w \in warps : Code(w)' = p[w[2]] /\ Len(p[w[2]]) \in Nat
    <3> TAKE w \in warps
    <3>1. w[1] = c /\ w[2] \in 1 .. Len(p) /\ p \in Seq(Seq(Insn))
      BY BarrierAssumption
    <3>2. p[w[2]] \in Seq(Insn)
      BY <3>1
    <3> QED BY <2>1, <3>1, <3>2 DEF Code
  <2>4. CodeInv(c)'
    BY <2>1, <2>2, <2>3 DEF CodeInv
  <2>5. ListedInv(c)'
    BY <2>1, <2>2, Zenon DEF ListedInv
  <2>6. PhaseInv(c)'
    <3>1. \A w \in warps : \A b \in BarId : Passed(w, b)' = 0
      <4> TAKE w \in warps
      <4> TAKE b \in BarId
      <4>1. Uses(w, b, step[w])' = 0
        <5>1. {i \in 1 .. step'[w] : Code(w)'[i].bar_id = b} = {}
          BY <2>2
        <5> QED BY <5>1, FS_EmptySet DEF Uses
      <4> QED BY <2>2, <4>1 DEF Passed
    <3>2. \A v, w \in warps : \A b \in BarId : Passed(w, b)' <= Passed(v, b)'
      BY <3>1
    <3> HIDE DEF warps
    <3> QED BY <2>1, <3>2, Zenon DEF PhaseInv
  <2>7. ResultInv(c)'
    BY <2>1, <2>2, Zenon DEF ResultInv
  <2> QED BY <2>4, <2>5, <2>6, <2>7
<1>2. ASSUME NEW k \in Cta, k # c
      PROVE  CodeInv(k)' /\ ListedInv(k)' /\ PhaseInv(k)' /\ ResultInv(k)'
  <2>1. program'[k] = program[k] /\ m_cta_to_warps'[k] = m_cta_to_warps[k]
    BY <1>a, <1>2, <1>t DEF TypeInv
  <2>2. \A w \in m_cta_to_warps[k] : w \in Warp /\ w \notin warps
    <3> TAKE w \in m_cta_to_warps[k]
    <3>1. w \in Warp /\ w[1] = k
      BY CtaWarps
    <3> QED BY <1>2, <3>1
  <2>3. \A w \in m_cta_to_warps[k] :
          /\ step'[w] = step[w]
          /\ w \in m_warp_active' <=> w \in m_warp_active
          /\ w \in m_warp_at_barrier => w \in m_warp_at_barrier'
          /\ w \in no_result' => w \in no_result
          /\ \A b \in BarId : w \in m_bar_id_to_warps'[b] <=> w \in m_bar_id_to_warps[b]
    <3> HIDE DEF warps
    <3> QED BY <1>a, <2>2
  <2> QED BY <2>1, <2>3, ReleaseFrame
<1> QED BY <1>1, <1>2, Zenon DEF ReleaseInv

\* A warp reaches a barrier: it is listed and held there, or all the warps that
\* have not exited pass it together.
LEMMA ReleaseReach ==
  ASSUME IInv, ReleaseInv, NEW w \in Warp, WarpReachesBarrier(w)
  PROVE  ReleaseInv'
<1> DEFINE c == w[1]
           cta == m_cta_to_warps[c]
<1>0. /\ w \in m_warp_active /\ w \notin m_warp_at_barrier /\ step[w] < Len(Code(w))
      /\ step' = [step EXCEPT ![w] = @ + 1]
      /\ m_bar_id_to_warps' = [m_bar_id_to_warps EXCEPT ![NextInsn(w).bar_id] = Listed(w)]
      /\ m_warp_at_barrier' = Held(w)
      /\ no_result' = NoResult(w)
      /\ m_cta_to_warps' = m_cta_to_warps /\ m_warp_active' = m_warp_active /\ program' = program
  BY DEF WarpReachesBarrier, Ready
<1>t. TypeInv /\ CtaInv
  BY DEF IInv
<1>r. CodeInv(c) /\ ListedInv(c) /\ PhaseInv(c) /\ ResultInv(c)
  BY DEF ReleaseInv, Warp
<1>1. c \in Cta /\ w \in cta
  BY <1>0, <1>t DEF CtaInv, Warp
<1>2. /\ step[w] \in Nat /\ Len(Code(w)) \in Nat /\ step[w] + 1 \in 1 .. Len(Code(w))
      /\ w[2] \in 1 .. Len(program[c]) /\ Code(w) = program[c][w[2]]
      /\ Code(w)[step[w] + 1].bar_id \in BarId
  <2>1. /\ step[w] \in Nat /\ Len(Code(w)) \in Nat
        /\ w[2] \in 1 .. Len(program[c]) /\ Code(w) = program[c][w[2]]
        /\ \A i \in 1 .. Len(Code(w)) : Code(w)[i].bar_id \in BarId
    BY <1>1, CtaWarps
  <2>2. step[w] + 1 \in 1 .. Len(Code(w))
    BY <1>0, <2>1
  <2> QED BY <2>1, <2>2
<1>3. \A u : Code(u)' = Code(u)
  BY <1>0 DEF Code
<1>4. PICK b0 \in BarId : b0 = NextInsn(w).bar_id
  BY <1>2 DEF NextInsn
<1>5. /\ m_bar_id_to_warps'[b0] = (m_bar_id_to_warps[b0] \cup {w}) \ Freed(w)
      /\ \A b \in BarId : b # b0 => m_bar_id_to_warps'[b] = m_bar_id_to_warps[b]
  BY <1>0, <1>4, <1>t DEF Listed, TypeInv
<1>6. Freed(w) \subseteq cta /\ Freed(w) \subseteq m_bar_id_to_warps[b0] \cup {w}
  BY <1>4 DEF Freed, AtBarrier
<1>7. step'[w] = step[w] + 1 /\ \A u \in Warp : u # w => step'[u] = step[u]
  BY <1>0, <1>t DEF TypeInv
<1>8. NoResult(w) \subseteq no_result \cup {w}
  BY DEF NoResult
<1>9. m_warp_at_barrier \ Freed(w) \subseteq Held(w)
  BY DEF Held
<1>10. ASSUME NEW k \in Cta, k # c
       PROVE  CodeInv(k)' /\ ListedInv(k)' /\ PhaseInv(k)' /\ ResultInv(k)'
  <2>1. \A u \in m_cta_to_warps[k] : u \in Warp /\ u # w /\ u \notin Freed(w)
    <3> TAKE u \in m_cta_to_warps[k]
    <3>1. u \in Warp /\ u[1] = k
      BY CtaWarps
    <3>2. \A x \in cta : x[1] = c
      BY <1>1, CtaWarps
    <3> HIDE DEF c
    <3> QED BY <1>1, <1>6, <1>10, <3>1, <3>2
  <2>2. \A u \in m_cta_to_warps[k] :
          /\ step'[u] = step[u]
          /\ u \in m_warp_active' <=> u \in m_warp_active
          /\ u \in m_warp_at_barrier => u \in m_warp_at_barrier'
          /\ u \in no_result' => u \in no_result
          /\ \A b \in BarId : u \in m_bar_id_to_warps'[b] <=> u \in m_bar_id_to_warps[b]
    <3> TAKE u \in m_cta_to_warps[k]
    <3>1. \A b \in BarId : u \in m_bar_id_to_warps'[b] <=> u \in m_bar_id_to_warps[b]
      BY <1>5, <2>1
    <3> QED BY <1>0, <1>7, <1>8, <1>9, <2>1, <3>1
  <2> QED BY <1>0, <2>2, ReleaseFrame
<1>11. CodeInv(c)'
  <2>1. \A u \in cta : step'[u] \in 0 .. Len(Code(u))
    <3> TAKE u \in cta
    <3>1. u \in Warp /\ step[u] \in 0 .. Len(Code(u))
      BY <1>1, <1>r, CtaWarps DEF CodeInv
    <3>2. CASE u = w
      BY <1>2, <1>7, <3>2
    <3>3. CASE u # w
      BY <1>7, <3>1, <3>3
    <3> QED BY <3>2, <3>3
  <2> QED BY <1>0, <1>3, <1>r, <2>1 DEF CodeInv
<1>12. NoArrivals(program[c]) => /\ NextInsn(w).bar_type # "ARRIVE"
                                 /\ \A b \in BarId : w \notin m_bar_id_to_warps[b]
  BY <1>0, <1>1, <1>2, <1>r DEF NoArrivals, NextInsn, ListedInv
<1>13. ListedInv(c)'
  <2> SUFFICES ASSUME NoArrivals(program[c]), NEW u \in cta, NEW b \in BarId,
                      u \in m_bar_id_to_warps'[b]
               PROVE  u \in m_warp_at_barrier' /\ Code(u)'[step'[u]].bar_id = b
    BY <1>0, Zenon DEF ListedInv
  <2>0. u \in Warp /\ u \notin Freed(w)
    <3>1. u \in Warp
      BY <1>1, CtaWarps
    <3>2. CASE b = b0
      BY <1>5, <3>1, <3>2
    <3>3. CASE b # b0
      <4>1. u \in m_bar_id_to_warps[b]
        BY <1>5, <3>3
      <4>2. u \in m_warp_at_barrier /\ Code(u)[step[u]].bar_id = b
        BY <1>r, <4>1 DEF ListedInv
      <4>3. u \notin m_bar_id_to_warps[b0]
        BY <1>r, <3>3, <4>2 DEF ListedInv
      <4> QED BY <1>0, <1>6, <3>1, <4>2, <4>3
    <3> QED BY <3>2, <3>3
  <2>1. CASE u = w
    <3>1. b = b0
      BY <1>5, <1>12, <2>1
    <3>2. w \in Held(w)
      BY <1>12, <2>0, <2>1 DEF Held
    <3> QED BY <1>0, <1>3, <1>4, <1>7, <2>1, <3>1, <3>2 DEF NextInsn
  <2>2. CASE u # w
    <3>1. u \in m_bar_id_to_warps[b]
      BY <1>5, <2>2
    <3>2. u \in m_warp_at_barrier /\ Code(u)[step[u]].bar_id = b
      BY <1>r, <3>1 DEF ListedInv
    <3> QED BY <1>0, <1>3, <1>7, <1>9, <2>0, <2>2, <3>2
  <2> QED BY <2>1, <2>2
<1>14. PhaseInv(c)'
  <2> SUFFICES ASSUME NoArrivals(program[c]), NEW b \in BarId, Uncounted(program[c], b),
                      NEW v \in cta, NEW u \in cta, v \in m_warp_active
               PROVE  Passed(u, b)' <= Passed(v, b)'
    BY <1>0, Zenon DEF PhaseInv
  <2>0. Passed(u, b) <= Passed(v, b)
    BY <1>r DEF PhaseInv
  <2>1. \A x \in cta : x # w => Uses(x, b, step[x])' = Uses(x, b, step[x])
    <3> TAKE x \in cta
    <3>1. x \in Warp
      BY <1>1, CtaWarps
    <3> QED BY <1>3, <1>7, <3>1, UsesSame
  <2>2. Uses(w, b, step[w])' = Uses(w, b, step[w]) + (IF b = b0 THEN 1 ELSE 0)
    <3>1. Uses(w, b, step[w])' = Uses(w, b, step[w] + 1)
      BY <1>3, <1>7 DEF Uses
    <3>2. Uses(w, b, step[w] + 1)
            = Uses(w, b, step[w]) + (IF Code(w)[step[w] + 1].bar_id = b THEN 1 ELSE 0)
      <4>1. PICK n \in Nat : n = step[w]
        BY <1>2
      <4>2. Uses(w, b, n + 1) = Uses(w, b, n) + (IF Code(w)[n + 1].bar_id = b THEN 1 ELSE 0)
        BY UsesFacts
      <4> QED BY <4>1, <4>2
    <3> QED BY <1>4, <3>1, <3>2 DEF NextInsn
  <2>3. \A x \in cta : Passed(x, b) \in Int /\ Uses(x, b, step[x]) \in Nat
    BY <1>1, PassedNat
  <2>4. w \notin m_bar_id_to_warps[b]
    BY <1>12
  <2>5. CASE b # b0
    <3>1. \A x \in cta : Uses(x, b, step[x])' = Uses(x, b, step[x])
      BY <2>1, <2>2, <2>3, <2>5
    <3>2. \A x \in cta : Passed(x, b)' = Passed(x, b)
      BY <1>5, <2>5, <3>1 DEF Passed
    <3> QED BY <2>0, <3>2
  <2>6. CASE b = b0 /\ Freed(w) = {}
    <3>1. \A x \in cta : x # w => Passed(x, b)' = Passed(x, b)
      BY <1>5, <2>1, <2>6 DEF Passed
    <3>2. Passed(w, b)' = Passed(w, b)
      <4>1. w \in m_bar_id_to_warps'[b]
        BY <1>5, <2>6
      <4>2. Uses(w, b, step[w]) \in Nat
        BY <1>1, <2>3
      <4> QED BY <2>2, <2>4, <2>6, <4>1, <4>2 DEF Passed
    <3> QED BY <2>0, <3>1, <3>2
  <2>7. CASE b = b0 /\ Freed(w) # {}
    <3>1. NextInsn(w).count = 0
      BY <1>2, <1>4, <2>7 DEF Uncounted, NextInsn
    <3>2. /\ Freed(w) = cta \cap (m_bar_id_to_warps[b0] \cup {w})
          /\ Freed(w) = cta \cap m_warp_active
      BY <1>4, <2>7, <3>1 DEF Freed, Complete, AtBarrier
    <3>3. \A x \in cta : x \notin m_bar_id_to_warps'[b]
      BY <1>5, <2>7, <3>2
    <3>4. \A x \in cta : x \in m_warp_active => Passed(x, b)' = Passed(x, b) + 1
      <4> TAKE x \in cta
      <4>1. CASE x = w
        BY <1>1, <2>2, <2>3, <2>4, <2>7, <3>3, <4>1 DEF Passed
      <4>2. CASE x # w
        <5>1. HAVE x \in m_warp_active
        <5>2. x \in m_bar_id_to_warps[b]
          BY <2>7, <3>2, <4>2, <5>1
        <5> QED BY <2>1, <2>3, <3>3, <4>2, <5>2 DEF Passed
      <4> QED BY <4>1, <4>2
    <3>5. \A x \in cta : x \notin m_warp_active => Passed(x, b)' = Passed(x, b)
      <4> TAKE x \in cta
      <4>1. HAVE x \notin m_warp_active
      <4>2. x # w /\ x \notin m_bar_id_to_warps[b]
        BY <1>0, <2>7, <3>2, <4>1
      <4> QED BY <2>1, <3>3, <4>2 DEF Passed
    <3> QED BY <2>0, <2>3, <3>4, <3>5
  <2> QED BY <2>5, <2>6, <2>7
<1>15. ResultInv(c)'
  <2> SUFFICES ASSUME NoArrivals(program[c]), ReducesTogether(program[c]), NEW u \in cta,
                      u \in no_result', u \in m_warp_active
               PROVE  u \in m_warp_at_barrier' /\ Code(u)'[step'[u]].bar_type = "RED"
    BY <1>0, Zenon DEF ResultInv
  <2>0. u \in Warp /\ u[2] \in 1 .. Len(program[c]) /\ Code(u) = program[c][u[2]]
    BY <1>1, CtaWarps
  <2>1. w \notin no_result
    BY <1>0, <1>1, <1>r DEF ResultInv
  <2>2. CASE u = w
    <3>1. NextInsn(w).bar_type = "RED" /\ w \notin Freed(w)
      BY <1>0, <2>1, <2>2 DEF NoResult
    <3>2. w \in Held(w)
      BY <3>1 DEF Held
    <3> QED BY <1>0, <1>3, <1>7, <2>2, <3>1, <3>2 DEF NextInsn
  <2>3. CASE u # w
    <3>1. u \in no_result
      BY <1>0, <1>8, <2>3
    <3>2. u \in m_warp_at_barrier /\ Code(u)[step[u]].bar_type = "RED"
      BY <1>r, <3>1 DEF ResultInv
    <3>3. u \notin Freed(w)
      <4>1. CASE NextInsn(w).bar_type = "RED"
        BY <1>0, <4>1 DEF NoResult
      <4>2. CASE NextInsn(w).bar_type # "RED"
        <5> SUFFICES ASSUME u \in m_bar_id_to_warps[b0] PROVE FALSE
          BY <1>6, <2>3
        <5>1. Code(u)[step[u]].bar_id = b0
          BY <1>r DEF ListedInv
        <5>2. step[u] \in 1 .. Len(Code(u))
          <6>1. step[u] > 0
            BY <3>2 DEF IInv, HeldAt
          <6>2. step[u] \in Nat /\ Len(Code(u)) \in Nat /\ step[u] <= Len(Code(u))
            BY <1>1, CtaWarps
          <6> QED BY <6>1, <6>2
        <5>3. ReducesAt(program[c], b0)
          BY <2>0, <3>2, <5>1, <5>2 DEF ReducesTogether
        <5> QED BY <1>2, <1>4, <4>2, <5>3 DEF ReducesAt, NextInsn
      <4> QED BY <4>1, <4>2
    <3> QED BY <1>0, <1>3, <1>7, <1>9, <2>0, <2>3, <3>2, <3>3
  <2> QED BY <2>2, <2>3
<1>16. ASSUME NEW k \in Cta
       PROVE  CodeInv(k)' /\ ListedInv(k)' /\ PhaseInv(k)' /\ ResultInv(k)'
  <2>1. CASE k = c
    BY <1>11, <1>13, <1>14, <1>15, <2>1, Zenon
  <2> QED BY <1>10, <2>1, Zenon
<1> QED BY <1>16, Zenon DEF ReleaseInv

\* A warp exits: the barrier where all the others wait, if there is one, lets
\* them go together.  It is not a reduction, which the exiting warp would have
\* used as often as they.
LEMMA ReleaseExit ==
  ASSUME IInv, ReleaseInv, NEW w \in Warp, WarpExit(w)
  PROVE  ReleaseInv'
<1> DEFINE c == w[1]
           cta == m_cta_to_warps[c]
           active == cta \cap (m_warp_active \ {w})
           released == {b \in BarId : cta \cap m_bar_id_to_warps[b] = active}
<1>0. /\ w \in m_warp_active /\ w \notin m_warp_at_barrier /\ step[w] = Len(Code(w))
      /\ m_warp_active' = m_warp_active \ {w}
      /\ m_bar_id_to_warps' = [b \in BarId |-> IF b \in released THEN m_bar_id_to_warps[b] \ active
                                                               ELSE m_bar_id_to_warps[b]]
      /\ m_warp_at_barrier' = IF released # {} THEN m_warp_at_barrier \ active
                                               ELSE m_warp_at_barrier
      /\ m_cta_to_warps' = m_cta_to_warps /\ program' = program /\ step' = step
      /\ no_result' = no_result
  BY DEF WarpExit, Ready
<1>t. TypeInv /\ CtaInv
  BY DEF IInv
<1>h. m_warp_at_barrier \subseteq m_warp_active
  BY DEF IInv, HeldAt
<1>r. CodeInv(c) /\ ListedInv(c) /\ PhaseInv(c) /\ ResultInv(c)
  BY DEF ReleaseInv, Warp
<1>1. c \in Cta /\ w \in cta
  BY <1>0, <1>t DEF CtaInv, Warp
<1>2. \A u : Code(u)' = Code(u)
  BY <1>0 DEF Code
<1>3. \A b \in released : b \in BarId /\ cta \cap m_bar_id_to_warps[b] = active
  OBVIOUS
<1>4. \A b \in BarId : m_bar_id_to_warps'[b] = IF b \in released THEN m_bar_id_to_warps[b] \ active
                                                                  ELSE m_bar_id_to_warps[b]
  <2> HIDE DEF released, active
  <2> QED BY <1>0
<1>5. \A u, b : Uses(u, b, step[u])' = Uses(u, b, step[u])
  BY <1>0, <1>2, UsesSame
<1>6. ASSUME NEW k \in Cta, k # c
      PROVE  CodeInv(k)' /\ ListedInv(k)' /\ PhaseInv(k)' /\ ResultInv(k)'
  <2>1. \A u \in m_cta_to_warps[k] : u # w /\ u \notin active
    <3> TAKE u \in m_cta_to_warps[k]
    <3>1. u[1] = k
      BY CtaWarps
    <3>2. \A x \in cta : x[1] = c
      BY <1>1, CtaWarps
    <3> HIDE DEF c
    <3> QED BY <1>1, <1>6, <3>1, <3>2
  <2> HIDE DEF released, active
  <2>2. \A u \in m_cta_to_warps[k] :
          /\ step'[u] = step[u]
          /\ u \in m_warp_active' <=> u \in m_warp_active
          /\ u \in m_warp_at_barrier => u \in m_warp_at_barrier'
          /\ u \in no_result' => u \in no_result
          /\ \A b \in BarId : u \in m_bar_id_to_warps'[b] <=> u \in m_bar_id_to_warps[b]
    <3> TAKE u \in m_cta_to_warps[k]
    <3>1. \A b \in BarId : u \in m_bar_id_to_warps'[b] <=> u \in m_bar_id_to_warps[b]
      BY <1>4, <2>1
    <3> QED BY <1>0, <2>1, <3>1
  <2> QED BY <1>0, <2>2, ReleaseFrame
<1>7. CodeInv(c)'
  BY <1>0, <1>2, <1>r DEF CodeInv
\* Without arrivals, what is listed in the CTA is active and held at one barrier.
<1>8. ASSUME NoArrivals(program[c])
      PROVE  \A b \in BarId : /\ cta \cap m_bar_id_to_warps[b] \subseteq active
                              /\ \A u \in cta \cap m_bar_id_to_warps[b] : Code(u)[step[u]].bar_id = b
  <2> TAKE b \in BarId
  <2>1. \A u \in cta \cap m_bar_id_to_warps[b] :
          u \in m_warp_at_barrier /\ Code(u)[step[u]].bar_id = b
    BY <1>8, <1>r DEF ListedInv
  <2> QED BY <1>0, <1>h, <2>1
<1>9. ListedInv(c)'
  <2> SUFFICES ASSUME NoArrivals(program[c]), NEW u \in cta, NEW b \in BarId,
                      u \in m_bar_id_to_warps'[b]
               PROVE  u \in m_warp_at_barrier' /\ Code(u)'[step'[u]].bar_id = b
    BY <1>0, Zenon DEF ListedInv
  <2>1. u \in m_bar_id_to_warps[b] /\ (b \in released => u \notin active)
    <3> HIDE DEF released, active
    <3> QED BY <1>4
  <2>2. u \in active /\ Code(u)[step[u]].bar_id = b /\ u \in m_warp_at_barrier
    <3>1. u \in active /\ Code(u)[step[u]].bar_id = b
      BY <1>8, <2>1
    <3> QED BY <1>r, <2>1, <3>1 DEF ListedInv
  <2>3. released = {}
    <3> SUFFICES ASSUME NEW d \in released PROVE FALSE
      OBVIOUS
    <3>1. d \in BarId /\ u \in m_bar_id_to_warps[d]
      BY <1>3, <2>2
    <3>2. Code(u)[step[u]].bar_id = d
      BY <1>8, <3>1
    <3> QED BY <2>1, <2>2, <3>2
  <2> HIDE DEF released, active
  <2> QED BY <1>0, <1>2, <2>2, <2>3
<1>10. \A b \in BarId : b \notin released => \A x \in cta : Passed(x, b)' = Passed(x, b)
  <2> HIDE DEF released, active
  <2> QED BY <1>4, <1>5 DEF Passed
<1>11. ASSUME NoArrivals(program[c])
       PROVE  \A b \in released : /\ \A x \in active : Passed(x, b)' = Passed(x, b) + 1
                                  /\ \A x \in cta \ active : Passed(x, b)' = Passed(x, b)
  <2> TAKE b \in released
  <2>1. b \in BarId /\ cta \cap m_bar_id_to_warps[b] = active
    BY <1>3
  <2>2. \A x \in cta : x \notin m_bar_id_to_warps'[b]
    <3> HIDE DEF released, active
    <3> QED BY <1>4, <2>1
  <2>3. \A x \in cta : Uses(x, b, step[x]) \in Nat
    BY <1>1, PassedNat
  <2>4. \A x \in active : x \in cta
    OBVIOUS
  <2> HIDE DEF released, active
  <2>5. \A x \in active : Passed(x, b)' = Passed(x, b) + 1
    BY <1>5, <2>1, <2>2, <2>3, <2>4 DEF Passed
  <2>6. \A x \in cta \ active : Passed(x, b)' = Passed(x, b)
    BY <1>5, <2>1, <2>2 DEF Passed
  <2> QED BY <2>5, <2>6
<1>12. PhaseInv(c)'
  <2> SUFFICES ASSUME NoArrivals(program[c]), NEW b \in BarId, Uncounted(program[c], b),
                      NEW v \in cta, NEW u \in cta, v \in m_warp_active'
               PROVE  Passed(u, b)' <= Passed(v, b)'
    BY <1>0, Zenon DEF PhaseInv
  <2>0. v \in active /\ v \in m_warp_active
    BY <1>0
  <2>1. Passed(u, b) <= Passed(v, b)
    BY <1>r, <2>0 DEF PhaseInv
  <2>2. Passed(u, b) \in Int /\ Passed(v, b) \in Int
    BY <1>1, PassedNat
  <2> HIDE DEF released, active
  <2>3. CASE b \in released
    <3>1. Passed(v, b)' = Passed(v, b) + 1
      BY <1>11, <2>0, <2>3
    <3>2. Passed(u, b)' = Passed(u, b) + 1 \/ Passed(u, b)' = Passed(u, b)
      BY <1>11, <2>3
    <3> QED BY <2>1, <2>2, <3>1, <3>2
  <2>4. CASE b \notin released
    BY <1>10, <2>1, <2>4
  <2> QED BY <2>3, <2>4
<1>13. ResultInv(c)'
  <2> SUFFICES ASSUME NoArrivals(program[c]), ReducesTogether(program[c]), NEW u \in cta,
                      u \in no_result, u \in m_warp_active'
               PROVE  u \in m_warp_at_barrier' /\ Code(u)'[step'[u]].bar_type = "RED"
    BY <1>0, Zenon DEF ResultInv
  <2>0. u \in active /\ u \in m_warp_active
    BY <1>0
  <2>1. u \in m_warp_at_barrier /\ Code(u)[step[u]].bar_type = "RED"
    BY <1>r, <2>0 DEF ResultInv
  <2>2. released = {}
    <3> SUFFICES ASSUME NEW b \in released PROVE FALSE
      OBVIOUS
    <3>1. b \in BarId /\ u \in m_bar_id_to_warps[b]
      BY <1>3, <2>0
    <3>2. Code(u)[step[u]].bar_id = b
      BY <1>8, <3>1
    <3>3. /\ step[u] \in Nat /\ Len(Code(u)) \in Nat /\ step[u] <= Len(Code(u))
          /\ u[2] \in 1 .. Len(program[c]) /\ Code(u) = program[c][u[2]]
      BY <1>1, CtaWarps
    <3>4. /\ w[2] \in 1 .. Len(program[c]) /\ Code(w) = program[c][w[2]]
          /\ Len(Code(w)) \in Nat
      BY <1>1, CtaWarps
    <3>5. step[u] > 0
      BY <2>1 DEF IInv, HeldAt
    <3>6. ReducesAt(program[c], b)
      BY <2>1, <3>2, <3>3, <3>5 DEF ReducesTogether
    <3>7. Uses(u, b, Len(Code(u))) = Uses(w, b, Len(Code(w)))
      <4>1. UsesIn(program[c][u[2]], b) = UsesIn(program[c][w[2]], b)
        BY <3>3, <3>4, <3>6 DEF ReducesAt
      <4>2. UsesIn(Code(u), b) = UsesIn(Code(w), b)
        BY <3>3, <3>4, <4>1
      <4> QED BY <4>2 DEF UsesIn, Uses
    <3>8. Uses(u, b, step[u]) <= Uses(u, b, Len(Code(u)))
      <4>1. PICK m \in Nat, n \in Nat : m = step[u] /\ n = Len(Code(u)) /\ m <= n
        BY <3>3
      <4>2. Uses(u, b, m) <= Uses(u, b, n)
        BY <4>1, UsesMonotone
      <4> QED BY <4>1, <4>2
    <3>9. Passed(w, b) <= Passed(u, b)
      BY <1>1, <1>r, <2>0, <3>1, <3>6 DEF PhaseInv, ReducesAt
    <3>10. w \notin m_bar_id_to_warps[b]
      BY <1>1, <1>8, <3>1
    <3>11. Uses(u, b, step[u]) \in Nat /\ Uses(w, b, step[w]) \in Nat
      BY <1>1, PassedNat
    <3>12. Passed(w, b) = Uses(w, b, Len(Code(w))) /\ Passed(u, b) = Uses(u, b, step[u]) - 1
      BY <1>0, <3>1, <3>10 DEF Passed
    <3> QED BY <1>0, <3>7, <3>8, <3>9, <3>11, <3>12
  <2> HIDE DEF released, active
  <2> QED BY <1>0, <1>2, <2>1, <2>2
<1>14. ASSUME NEW k \in Cta
       PROVE  CodeInv(k)' /\ ListedInv(k)' /\ PhaseInv(k)' /\ ResultInv(k)'
  <2>1. CASE k = c
    BY <1>7, <1>9, <1>12, <1>13, <2>1, Zenon
  <2> QED BY <1>6, <2>1, Zenon
<1> QED BY <1>14, Zenon DEF ReleaseInv

\* A warp is reclaimed: nothing changes for its CTA, or the CTA is gone.
LEMMA ReleaseReclaim ==
  ASSUME IInv, ReleaseInv, NEW w \in Warp, Reclaim(w)
  PROVE  ReleaseInv'
<1> DEFINE c == w[1]
<1>0. UNCHANGED <<program, step, no_result>>
  BY DEF Reclaim
<1>1. CASE m_cta_status[c] = 1
  <2>0. /\ m_cta_to_warps' = [m_cta_to_warps EXCEPT ![c] = {}]
        /\ m_warp_active' = m_warp_active \ m_cta_to_warps[c]
        /\ m_warp_at_barrier' = m_warp_at_barrier \ m_cta_to_warps[c]
        /\ m_bar_id_to_warps' = [b \in BarId |-> m_bar_id_to_warps[b] \ m_cta_to_warps[c]]
    BY <1>1 DEF Reclaim, DeallocateBarrier
  <2>t. TypeInv
    BY DEF IInv
  <2>1. ASSUME NEW k \in Cta
        PROVE  CodeInv(k)' /\ ListedInv(k)' /\ PhaseInv(k)' /\ ResultInv(k)'
    <3>1. CASE k = c
      <4>1. m_cta_to_warps'[k] = {}
        BY <2>0, <2>t, <3>1 DEF TypeInv
      <4>2. CodeInv(k)' /\ ListedInv(k)' /\ PhaseInv(k)' /\ ResultInv(k)'
        BY <4>1 DEF CodeInv, ListedInv, PhaseInv, ResultInv
      <4> QED BY <4>2
    <3>2. CASE k # c
      <4>1. m_cta_to_warps'[k] = m_cta_to_warps[k]
        BY <2>0, <2>t, <3>2 DEF TypeInv
      <4>2. \A u \in m_cta_to_warps[k] : u \notin m_cta_to_warps[c]
        <5>1. c \in Cta
          BY DEF Warp
        <5>2. (\A u \in m_cta_to_warps[k] : u[1] = k) /\ (\A u \in m_cta_to_warps[c] : u[1] = c)
          BY <5>1, CtaWarps
        <5> HIDE DEF c
        <5> QED BY <3>2, <5>2
      <4> HIDE DEF c
      <4> QED BY <1>0, <2>0, <4>1, <4>2, ReleaseFrame
    <3> QED BY <3>1, <3>2, Zenon
  <2> QED BY <2>1, Zenon DEF ReleaseInv
<1>2. CASE m_cta_status[c] # 1
  <2>0. UNCHANGED sets
    BY <1>2 DEF Reclaim
  <2>1. UNCHANGED <<m_cta_to_warps, m_warp_active, m_warp_at_barrier, m_bar_id_to_warps>>
    BY <2>0 DEF sets
  <2>2. ASSUME NEW k \in Cta
        PROVE  CodeInv(k)' /\ ListedInv(k)' /\ PhaseInv(k)' /\ ResultInv(k)'
    BY <1>0, <2>1, ReleaseFrame
  <2> QED BY <2>2, Zenon DEF ReleaseInv
<1> QED BY <1>1, <1>2

LEMMA InitRelease == Init => ReleaseInv
<1> SUFFICES ASSUME Init, NEW c \in Cta
             PROVE  CodeInv(c) /\ ListedInv(c) /\ PhaseInv(c) /\ ResultInv(c)
  BY DEF ReleaseInv
<1>1. m_cta_to_warps[c] = {}
  BY DEF Init
<1> QED BY <1>1 DEF CodeInv, ListedInv, PhaseInv, ResultInv

LEMMA NextRelease == IInv /\ ReleaseInv /\ [Next]_vars => ReleaseInv'
<1> SUFFICES ASSUME IInv, ReleaseInv, [Next]_vars PROVE ReleaseInv'
  OBVIOUS
<1>1. CASE UNCHANGED vars
  <2>1. UNCHANGED <<m_cta_to_warps, m_warp_active, m_warp_at_barrier, m_bar_id_to_warps,
                    program, step, no_result>>
    BY <1>1 DEF vars, sets
  <2>2. ASSUME NEW k \in Cta
        PROVE  CodeInv(k)' /\ ListedInv(k)' /\ PhaseInv(k)' /\ ResultInv(k)'
    BY <2>1, ReleaseFrame
  <2> QED BY <2>2, Zenon DEF ReleaseInv
<1> QED BY <1>1, ReleaseIssue, ReleaseReach, ReleaseExit, ReleaseReclaim DEF Next, WarpStep

LEMMA ReleaseInvariant == Spec => [](IInv /\ ReleaseInv)
BY InitIInv, NextIInv, InitRelease, NextRelease, PTL DEF Spec

\* Warp w has been let go from its i-th instruction, a barrier b without a count:
\* all warps that have not exited have used b as often as w had then.
UncountedRelease(c) ==
  \A w \in m_cta_to_warps[c] : \A i \in 1 .. step[w] :
    /\ Uncounted(program[c], Code(w)[i].bar_id)
    /\ i < step[w] \/ w \notin m_warp_at_barrier
    => \A v \in m_cta_to_warps[c] : v \in m_warp_active =>
         Uses(v, Code(w)[i].bar_id, step[v]) >= Uses(w, Code(w)[i].bar_id, i)

\* The phases of the warps give what a released warp relies on.
LEMMA PhaseReleases ==
  ASSUME IInv, ReleaseInv, NEW c \in Cta, NoArrivals(program[c])
  PROVE  UncountedRelease(c)
<1> SUFFICES ASSUME NEW w \in m_cta_to_warps[c], NEW i \in 1 .. step[w],
                    Uncounted(program[c], Code(w)[i].bar_id),
                    i < step[w] \/ w \notin m_warp_at_barrier,
                    NEW v \in m_cta_to_warps[c], v \in m_warp_active
             PROVE  Uses(v, Code(w)[i].bar_id, step[v]) >= Uses(w, Code(w)[i].bar_id, i)
  BY Zenon DEF UncountedRelease
<1>r. ListedInv(c) /\ PhaseInv(c)
  BY DEF ReleaseInv
<1>1. /\ step[w] \in Nat /\ Len(Code(w)) \in Nat /\ step[w] <= Len(Code(w))
      /\ \A j \in 1 .. Len(Code(w)) : Code(w)[j].bar_id \in BarId
  BY CtaWarps
<1>2. i \in Nat /\ i \in 1 .. Len(Code(w)) /\ i <= step[w]
  BY <1>1
<1>3. PICK b \in BarId : b = Code(w)[i].bar_id
  BY <1>1, <1>2
<1>4. Passed(w, b) <= Passed(v, b)
  BY <1>3, <1>r DEF PhaseInv
<1>5. /\ Passed(v, b) <= Uses(v, b, step[v]) /\ Passed(v, b) \in Int /\ Passed(w, b) \in Int
      /\ Uses(v, b, step[v]) \in Nat /\ Uses(w, b, step[w]) \in Nat
  BY PassedNat
<1>6. PICK n \in Nat : n = step[w]
  BY <1>1
<1>7. Uses(w, b, i) \in Nat /\ Uses(w, b, i) <= Uses(w, b, n)
  BY <1>2, <1>6, UsesFacts, UsesMonotone
<1>8. Uses(w, b, i) <= Passed(w, b)
  <2>1. CASE w \notin m_bar_id_to_warps[b]
    BY <1>6, <1>7, <2>1 DEF Passed
  <2>2. CASE w \in m_bar_id_to_warps[b]
    <3>1. w \in m_warp_at_barrier /\ Code(w)[step[w]].bar_id = b
      BY <1>r, <2>2 DEF ListedInv
    <3>2. i <= n - 1 /\ n - 1 \in Nat
      BY <1>2, <1>6, <3>1
    <3>3. PICK m \in Nat : m = n - 1 /\ n = m + 1
      BY <3>2
    <3>4. Uses(w, b, i) <= Uses(w, b, m) /\ Uses(w, b, m) \in Nat
      BY <1>2, <3>2, <3>3, UsesFacts, UsesMonotone
    <3>5. Uses(w, b, m + 1) = Uses(w, b, m) + 1
      BY <1>6, <3>1, <3>3, UsesFacts
    <3> QED BY <1>6, <1>7, <2>2, <3>3, <3>4, <3>5 DEF Passed
  <2> QED BY <2>1, <2>2
<1> QED BY <1>3, <1>4, <1>5, <1>7, <1>8

\* A barrier without a thread count separates what the warps of a CTA do before
\* and after it, whatever else its program does with counts, for any number of
\* warps, as long as it has no bar.arrive: warp_reaches_barrier and warp_exit
\* let a warp go only when every warp that has not exited has reached the barrier
\* as often.
THEOREM SyncSeparates ==
  Spec => [](\A c \in Cta : NoArrivals(program[c]) => UncountedRelease(c))
<1>1. IInv /\ ReleaseInv => \A c \in Cta : NoArrivals(program[c]) => UncountedRelease(c)
  BY PhaseReleases
<1> QED BY <1>1, ReleaseInvariant, PTL

\* No warp leaves a barrier early, when the programs use barriers without counts
\* (__syncthreads(), bar.sync a, bar.red a); warps may exit at any point between
\* two barriers and use them in different numbers and orders.
THEOREM NoEarlyReleaseCorrect ==
  ASSUME \A p \in Programs : NoArrivals(p) /\ \A b \in BarId : Uncounted(p, b)
  PROVE  Spec => []NoEarlyRelease
<1>1. IInv /\ ReleaseInv => NoEarlyRelease
  <2> SUFFICES ASSUME IInv, ReleaseInv, NEW c \in Cta, NEW w \in m_cta_to_warps[c],
                      NEW i \in 1 .. step[w], i < step[w] \/ w \notin m_warp_at_barrier
               PROVE  /\ Code(w)[i].count = 0
                      /\ \A v \in m_cta_to_warps[c] : v \in m_warp_active =>
                           Uses(v, Code(w)[i].bar_id, step[v]) >= Uses(w, Code(w)[i].bar_id, i)
    BY DEF NoEarlyRelease
  <2>1. program[c] \in Programs
    BY DEF ReleaseInv, CodeInv
  <2>2. /\ step[w] \in Nat /\ Len(Code(w)) \in Nat /\ step[w] <= Len(Code(w))
        /\ w[2] \in 1 .. Len(program[c]) /\ Code(w) = program[c][w[2]]
        /\ \A j \in 1 .. Len(Code(w)) : Code(w)[j].bar_id \in BarId
    BY CtaWarps
  <2>3. i \in 1 .. Len(Code(w))
    BY <2>2
  <2>4. Code(w)[i].bar_id \in BarId
    BY <2>2, <2>3
  <2>5. Uncounted(program[c], Code(w)[i].bar_id) /\ NoArrivals(program[c])
    BY <2>1, <2>4
  <2>6. Code(w)[i].count = 0
    BY <2>2, <2>3, <2>5 DEF Uncounted
  <2>7. UncountedRelease(c)
    BY <2>5, PhaseReleases
  <2> QED BY <2>5, <2>6, <2>7 DEF UncountedRelease
<1> QED BY <1>1, ReleaseInvariant, PTL

\* A warp goes on after a reduction only with its result, when every barrier that
\* is used for one is used for nothing else, without a count, and equally often
\* by all warps (bar.red is for all threads of the CTA): broadcast_barrier_reduction
\* then reaches every warp that a release lets go, and no warp_exit lets one go
\* without it.
THEOREM ResultCorrect ==
  ASSUME \A p \in Programs : NoArrivals(p) /\ ReducesTogether(p)
  PROVE  Spec => []ResultDelivered
<1>1. IInv /\ ReleaseInv => ResultDelivered
  <2> SUFFICES ASSUME IInv, ReleaseInv, NEW w \in no_result \cap m_warp_active
               PROVE  w \in m_warp_at_barrier
    BY DEF ResultDelivered
  <2>1. w[1] \in Cta /\ w \in m_cta_to_warps[w[1]]
    BY DEF IInv, TypeInv, CtaInv, Warp
  <2>2. program[w[1]] \in Programs /\ ResultInv(w[1])
    BY <2>1 DEF ReleaseInv, CodeInv
  <2> QED BY <2>1, <2>2 DEF ResultInv
<1> QED BY <1>1, ReleaseInvariant, PTL
=============================================================================
