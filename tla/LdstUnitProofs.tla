--------------------------- MODULE LdstUnitProofs ---------------------------
(***************************************************************************)
(* Proofs about the load/store unit, for every number of warps, registers  *)
(* and accesses and for every program.                                     *)
(*                                                                         *)
(* The state is read as a map of where things are: an instruction is in    *)
(* the collector, dispatched, in the shared-memory pipeline or at the      *)
(* writeback stage (InsnInv), an access is on its way to or from the       *)
(* memory, waits in a cache, is answered there or is in m_next_global      *)
(* (AccessInv).  On it rest the claims about the books the unit keeps      *)
(* (BooksInv): the completed instructions, the reserved registers and the  *)
(* writes that are pending; and about the counters of a warp (CountInv),   *)
(* which decide when it may exit.                                          *)
(***************************************************************************)
EXTENDS LdstUnit, FiniteSetTheorems, SequenceTheorems, TLAPS

\* The places of an access between the L1 caches and the writeback arbiter
Sent(a) == a \in net \cup Range(m_response_fifo)
Busy(a) == \/ a \in net \cup Range(m_response_fifo) \cup {m_next_global}
           \/ waits[a] # NoAccess
           \/ \E c \in Cache : a \in ready[c]

Cached(i) == IsLoad(i) /\ ~Bypass(i)

\* TypeOK, with the counters that only the other invariants show to be natural
TypeInv ==
  /\ prog \in Programs
  /\ issued \in [Warp -> Nat] /\ \A w \in Warp : issued[w] <= Len(prog[w])
  /\ reg_table \in [Warp -> SUBSET Reg]
  /\ collector \subseteq Insn
  /\ m_dispatch_reg \in Insn \cup {NoInsn}
  /\ accessq \in 0 .. MaxAccess
  /\ m_pipeline_reg \in [0 .. Stages - 1 -> Insn \cup {NoInsn}]
  /\ m_pending_writes \in [Warp -> [Reg -> Int]]
  /\ m_next_wb \in Insn \cup {NoInsn}
  /\ m_next_global \in Access \cup {NoAccess}
  /\ m_response_fifo \in Seq(Access)
  /\ net \subseteq Access
  /\ waits \in [Access -> Access \cup {NoAccess}]
  /\ ready \in [Cache -> SUBSET Access]
  /\ completed \in [Insn -> Int]

\* An instruction is in one place, except that an earlier access of the
\* dispatched one may be at the writeback stage.
DispatchPlace ==
  /\ collector \subseteq Issued
  /\ m_dispatch_reg # NoInsn => m_dispatch_reg \in Issued \ collector
  /\ m_dispatch_reg # NoInsn /\ ~Shared(m_dispatch_reg) =>
       /\ accessq <= KindOf(m_dispatch_reg).n
       /\ accessq = 0 => KindOf(m_dispatch_reg).n = 0
PipelinePlace ==
  /\ \A s \in 0 .. Stages - 1 : m_pipeline_reg[s] # NoInsn =>
       /\ m_pipeline_reg[s] \in Issued \ collector
       /\ m_pipeline_reg[s] # m_dispatch_reg
       /\ IsLoad(m_pipeline_reg[s]) /\ Shared(m_pipeline_reg[s])
  /\ \A s, t \in 0 .. Stages - 1 :
       m_pipeline_reg[s] = m_pipeline_reg[t] /\ s # t => m_pipeline_reg[s] = NoInsn
InPipeline(i) == \E s \in 0 .. Stages - 1 : m_pipeline_reg[s] = i
WritebackPlace ==
  m_next_wb # NoInsn =>
    /\ m_next_wb \in Issued \ collector
    /\ IsLoad(m_next_wb)
    /\ Shared(m_next_wb) => m_next_wb # m_dispatch_reg /\ ~InPipeline(m_next_wb)
    /\ ~Shared(m_next_wb) => KindOf(m_next_wb).n > 0
InsnInv == DispatchPlace /\ PipelinePlace /\ WritebackPlace

\* An access is in one place.  The requests of the caches wait for themselves.
BusyIssued ==
  \A a \in Access : Busy(a) =>
    /\ InsnOf(a) \in Issued \ collector
    /\ ~Shared(InsnOf(a))
    /\ KindOf(InsnOf(a)).n > 0
    /\ InsnOf(a) = m_dispatch_reg => accessq < a[2]
RequestsWait == \A a \in Access : Sent(a) /\ Cached(InsnOf(a)) => waits[a] = a
WaitsCached ==
  \A a \in Access : waits[a] # NoAccess =>
    Cached(InsnOf(a)) /\ CacheOf(waits[a]) = CacheOf(a)
ReadyCached ==
  \A c \in Cache : \A a \in ready[c] :
    waits[a] = NoAccess /\ Cached(InsnOf(a)) /\ CacheOf(a) = c
GlobalBypasses ==
  m_next_global # NoAccess =>
    /\ IsLoad(InsnOf(m_next_global)) /\ Bypass(InsnOf(m_next_global))
    /\ ~Sent(m_next_global)
SentOnce ==
  /\ net \cap Range(m_response_fifo) = {}
  /\ \A s, t \in 1 .. Len(m_response_fifo) : m_response_fifo[s] = m_response_fifo[t] => s = t
AccessInv == /\ BusyIssued /\ RequestsWait /\ WaitsCached
             /\ ReadyCached /\ GlobalBypasses /\ SentOnce

\* What is left to do before an instruction is complete.  A shared-memory load
\* without a destination is never reported complete.
Finished(i) ==
  /\ i \in Issued \ collector
  /\ i # m_dispatch_reg
  /\ IsLoad(i) /\ ~Shared(i) => KindOf(i).out = {} \/ Left(i) = 0
  /\ IsLoad(i) /\ Shared(i) => KindOf(i).out # {} /\ ~InPipeline(i) /\ i # m_next_wb

\* The accesses of i the registers are waiting for
Due(i) == IF Shared(i) THEN 0 ELSE Left(i)

CompletedExact == \A i \in Insn : completed[i] = IF Finished(i) THEN 1 ELSE 0
ReservedExact ==
  \A w \in Warp, r \in Reg :
    r \in reg_table[w] <=>
      \E i \in Issued : WarpOf(i) = w /\ completed[i] = 0 /\ r \in KindOf(i).out
WritersDisjoint ==
  \A i, j \in Issued :
    WarpOf(i) = WarpOf(j) /\ completed[i] = 0 /\ completed[j] = 0 /\ i # j
      => KindOf(i).out \cap KindOf(j).out = {}
PendingDue ==
  \A i \in Issued : \A r \in KindOf(i).out :
    completed[i] = 0 => m_pending_writes[WarpOf(i)][r] = Due(i)
PendingReserved ==
  \A w \in Warp, r \in Reg : r \notin reg_table[w] => m_pending_writes[w][r] = 0
BooksInv == /\ CompletedExact /\ ReservedExact /\ WritersDisjoint
            /\ PendingDue /\ PendingReserved

IInv == TypeInv /\ InsnInv /\ AccessInv /\ BooksInv

-----------------------------------------------------------------------------
(* Instructions and accesses *)

LEMMA InsnFacts ==
  /\ NoInsn \notin Insn /\ NoAccess \notin Access
  /\ \A i \in Insn : WarpOf(i) \in Warp
  /\ \A a \in Access : InsnOf(a) \in Insn /\ a[2] \in 1 .. MaxAccess
  /\ \A i \in Insn, k \in 1 .. MaxAccess :
       <<i, k>> \in Access /\ InsnOf(<<i, k>>) = i /\ <<i, k>>[2] = k
  /\ \A a, b \in Access : InsnOf(a) = InsnOf(b) /\ a[2] = b[2] => a = b
  BY ConfigAssumption DEF Insn, Access, WarpOf, InsnOf

LEMMA KindFacts ==
  ASSUME TypeInv, NEW i \in Issued
  PROVE  /\ i \in Insn
         /\ KindOf(i).n \in 0 .. MaxAccess
         /\ KindOf(i).out \subseteq Reg
         /\ ~IsLoad(i) => KindOf(i).out = {}
         /\ KindOf(i).n > 0 => IsLoad(i) \/ KindOf(i).op = "STORE"
<1>1. i \in Insn /\ i[1] \in Warp /\ i[2] \in 1 .. Len(prog[i[1]])
  <2>1. i[1] \in Warp /\ i[2] \in 1 .. MaxInsn /\ i[2] <= issued[i[1]] /\ i \in Insn
    BY DEF Issued, Insn
  <2>2. prog[i[1]] \in Seq(Kind) /\ issued[i[1]] \in Nat /\ issued[i[1]] <= Len(prog[i[1]])
    BY <2>1, ConfigAssumption DEF TypeInv
  <2> QED BY <2>1, <2>2, ConfigAssumption
<1>2. /\ prog[i[1]][i[2]] \in Kind
      /\ prog[i[1]][i[2]].n <= MaxAccess
      /\ prog[i[1]][i[2]].op # "LOAD" => prog[i[1]][i[2]].out = {}
      /\ prog[i[1]][i[2]].op = "MEMBAR" => prog[i[1]][i[2]].n = 0
  BY <1>1, ConfigAssumption DEF TypeInv
<1>3. QED BY <1>1, <1>2, ConfigAssumption DEF KindOf, IsLoad, Kind

LEMMA InFlightIs ==
  ASSUME NEW i \in Insn
  PROVE  InFlight(i) = {a \in Access : InsnOf(a) = i /\ Busy(a)}
  BY DEF InFlight, Busy, Access, InsnOf

LEMMA InFlightFinite ==
  ASSUME NEW i \in Insn
  PROVE  IsFiniteSet(InFlight(i)) /\ Cardinality(InFlight(i)) \in Nat
<1>1. IsFiniteSet({i}) /\ IsFiniteSet(1 .. MaxAccess)
  <2>1. 1 \in Int /\ MaxAccess \in Int
    BY ConfigAssumption
  <2> QED BY <2>1, FS_Singleton, FS_Interval
<1>2. IsFiniteSet({i} \X (1 .. MaxAccess))
  BY <1>1, FS_Product
<1>3. InFlight(i) \subseteq {i} \X (1 .. MaxAccess)
  BY DEF InFlight
<1>4. QED BY <1>2, <1>3, FS_Subset, FS_CardinalityType

\* How the accesses in flight of an instruction change with one access
LEMMA InFlightSame ==
  ASSUME NEW i \in Insn, \A a \in Access : InsnOf(a) = i => (Busy(a)' <=> Busy(a))
  PROVE  InFlight(i)' = InFlight(i)
<1>1. InFlight(i)' = {a \in Access : InsnOf(a) = i /\ Busy(a)'}
  BY DEF InFlight, Busy, Access, InsnOf
<1>2. QED BY <1>1, InFlightIs

LEMMA InFlightMinus ==
  ASSUME NEW a \in Access, Busy(a), ~Busy(a)',
         \A b \in Access : InsnOf(b) = InsnOf(a) /\ b # a => (Busy(b)' <=> Busy(b))
  PROVE  /\ Cardinality(InFlight(InsnOf(a))') = Cardinality(InFlight(InsnOf(a))) - 1
         /\ Cardinality(InFlight(InsnOf(a))) > 0
<1> DEFINE i == InsnOf(a)
<1>0. i \in Insn
  BY InsnFacts
<1> HIDE DEF i
<1>1. InFlight(i)' = {b \in Access : InsnOf(b) = i /\ Busy(b)'}
  BY <1>0 DEF InFlight, Busy, Access, InsnOf
<1>2. InFlight(i)' = InFlight(i) \ {a} /\ a \in InFlight(i)
  BY <1>0, <1>1, InFlightIs DEF i
<1>3. Cardinality(InFlight(i) \ {a}) = Cardinality(InFlight(i)) - 1
  BY <1>0, <1>2, InFlightFinite, FS_RemoveElement
<1>4. Cardinality(InFlight(i)) > 0
  BY <1>0, <1>2, InFlightFinite, FS_EmptySet
<1>5. QED BY <1>2, <1>3, <1>4 DEF i

LEMMA InFlightPlus ==
  ASSUME NEW a \in Access, ~Busy(a), Busy(a)',
         \A b \in Access : InsnOf(b) = InsnOf(a) /\ b # a => (Busy(b)' <=> Busy(b))
  PROVE  Cardinality(InFlight(InsnOf(a))') = Cardinality(InFlight(InsnOf(a))) + 1
<1> DEFINE i == InsnOf(a)
<1>0. i \in Insn
  BY InsnFacts
<1> HIDE DEF i
<1>1. InFlight(i)' = {b \in Access : InsnOf(b) = i /\ Busy(b)'}
  BY <1>0 DEF InFlight, Busy, Access, InsnOf
<1>2. InFlight(i)' = InFlight(i) \cup {a} /\ a \notin InFlight(i)
  BY <1>0, <1>1, InFlightIs DEF i
<1>3. Cardinality(InFlight(i) \cup {a}) = Cardinality(InFlight(i)) + 1
  BY <1>0, <1>2, InFlightFinite, FS_AddElement
<1>4. QED BY <1>2, <1>3 DEF i

LEMMA LeftFacts ==
  ASSUME TypeInv, NEW i \in Insn
  PROVE  /\ Left(i) \in Nat
         /\ Left(i) = 0 => m_next_wb # i
         /\ (\A a \in Access : InsnOf(a) = i => ~Busy(a)) => Cardinality(InFlight(i)) = 0
<1>1. Cardinality(InFlight(i)) \in Nat /\ accessq \in Nat
  BY InFlightFinite, ConfigAssumption DEF TypeInv
<1>2. Left(i) \in Nat /\ (Left(i) = 0 => m_next_wb # i)
  BY <1>1 DEF Left
<1>3. ASSUME \A a \in Access : InsnOf(a) = i => ~Busy(a)
      PROVE  Cardinality(InFlight(i)) = 0
  <2>1. InFlight(i) = {}
    BY <1>3, InFlightIs
  <2> QED BY <2>1, FS_EmptySet
<1>4. QED BY <1>2, <1>3

-----------------------------------------------------------------------------
(* What a step leaves alone *)

LEMMA KindSame ==
  ASSUME prog' = prog
  PROVE  /\ \A i : /\ KindOf(i)' = KindOf(i)
                   /\ IsLoad(i)' <=> IsLoad(i)
                   /\ Shared(i)' <=> Shared(i)
                   /\ Bypass(i)' <=> Bypass(i)
                   /\ Cached(i)' <=> Cached(i)
         /\ \A a : CacheOf(a)' = CacheOf(a)
<1>1. \A i : KindOf(i)' = KindOf(i)
  BY DEF KindOf
<1>2. \A i : (IsLoad(i)' <=> IsLoad(i)) /\ (Shared(i)' <=> Shared(i)) /\ (Bypass(i)' <=> Bypass(i))
  BY <1>1, Zenon DEF IsLoad, Shared, Bypass
<1>3. \A i : Cached(i)' <=> Cached(i)
  BY <1>2, Zenon DEF Cached
<1>4. \A a : CacheOf(a)' = CacheOf(a)
  BY <1>1 DEF CacheOf
<1>5. QED BY <1>1, <1>2, <1>3, <1>4, Zenon

LEMMA IssuedSame ==
  ASSUME issued' = issued
  PROVE  Issued' = Issued
  BY DEF Issued

LEMMA BusySame ==
  ASSUME UNCHANGED <<waits, ready, net, m_response_fifo, m_next_global>>
  PROVE  \A a : (Busy(a)' <=> Busy(a)) /\ (Sent(a)' <=> Sent(a))
  BY DEF Busy, Sent

\* The places of the accesses stay the same, and nothing they depend on ends.
LEMMA AccessFrame ==
  ASSUME AccessInv, prog' = prog,
         UNCHANGED <<waits, ready, net, m_response_fifo, m_next_global>>,
         \A a \in Access : Busy(a) =>
           /\ InsnOf(a) \in Issued' \ collector'
           /\ InsnOf(a) = m_dispatch_reg' => accessq' < a[2]
  PROVE  AccessInv'
<1>1. BusyIssued'
  BY KindSame, BusySame, Zenon DEF AccessInv, BusyIssued
<1>2. RequestsWait' /\ WaitsCached' /\ ReadyCached'
  BY KindSame, BusySame DEF AccessInv, RequestsWait, WaitsCached, ReadyCached
<1>3. GlobalBypasses' /\ SentOnce'
  BY KindSame, BusySame DEF AccessInv, GlobalBypasses, SentOnce
<1>4. QED BY <1>1, <1>2, <1>3 DEF AccessInv

\* The accesses in flight stay the same, whatever place they are in.
LEMMA LeftSame ==
  ASSUME NEW i \in Insn,
         \A a \in Access : InsnOf(a) = i => (Busy(a)' <=> Busy(a)),
         (IF m_dispatch_reg' = i THEN accessq' ELSE 0) = (IF m_dispatch_reg = i THEN accessq ELSE 0),
         (m_next_wb' = i) <=> (m_next_wb = i)
  PROVE  Left(i)' = Left(i)
  BY InFlightSame DEF Left

\* A step that keeps the books, and of no instruction what they are about
LEMMA BooksFrame ==
  ASSUME TypeInv, BooksInv,
         UNCHANGED <<prog, issued, reg_table, m_pending_writes, completed>>,
         \A i \in Issued : IsLoad(i) /\ ~Shared(i) => Left(i)' = Left(i),
         \A i \in Issued : Finished(i)' <=> Finished(i)
  PROVE  BooksInv'
<1>1. Issued' = Issued
  BY IssuedSame
<1>2. \A i \in Insn : Finished(i)' <=> Finished(i)
  BY <1>1 DEF Finished
<1>3. \A i \in Issued : KindOf(i).out # {} => Due(i)' = Due(i)
  <2>1. \A i \in Issued : KindOf(i).out # {} => IsLoad(i)
    BY KindFacts, Zenon
  <2> QED BY <2>1, KindSame, Zenon DEF Due
<1>4. \A i \in Issued : \A r \in KindOf(i).out : Due(i)' = Due(i)
  BY <1>3
<1>5. CompletedExact' /\ ReservedExact' /\ WritersDisjoint'
  <2>1. CompletedExact'
    BY <1>2 DEF BooksInv, CompletedExact
  <2>2. ReservedExact'
    BY <1>1, KindSame DEF BooksInv, ReservedExact
  <2>3. WritersDisjoint'
    BY <1>1, KindSame, Zenon DEF BooksInv, WritersDisjoint
  <2> QED BY <2>1, <2>2, <2>3
<1>6. PendingDue' /\ PendingReserved'
  BY <1>1, <1>4, KindSame, Zenon DEF BooksInv, PendingDue, PendingReserved
<1>7. QED BY <1>5, <1>6 DEF BooksInv

LEMMA FifoAppend ==
  ASSUME NEW S, NEW s \in Seq(S), NEW a \in S
  PROVE  /\ Append(s, a) \in Seq(S)
         /\ Len(Append(s, a)) = Len(s) + 1 /\ Len(s) \in Nat
         /\ \A k \in 1 .. Len(s) : Append(s, a)[k] = s[k] /\ s[k] \in Range(s)
         /\ Append(s, a)[Len(s) + 1] = a
         /\ Range(Append(s, a)) = Range(s) \cup {a}
<1>1. /\ Append(s, a) \in Seq(S) /\ Len(Append(s, a)) = Len(s) + 1 /\ Len(s) \in Nat
      /\ \A k \in 1 .. Len(s) : Append(s, a)[k] = s[k]
      /\ Append(s, a)[Len(s) + 1] = a
  OBVIOUS
<1>2. DOMAIN s = 1 .. Len(s) /\ DOMAIN Append(s, a) = 1 .. Len(s) + 1
  BY <1>1
<1>3. 1 .. Len(s) + 1 = (1 .. Len(s)) \cup {Len(s) + 1}
  BY <1>1
<1>4. QED BY <1>1, <1>2, <1>3 DEF Range

\* Taking the head of a FIFO without repetitions
LEMMA FifoTail ==
  ASSUME NEW S, NEW s \in Seq(S), s # <<>>,
         \A k, l \in 1 .. Len(s) : s[k] = s[l] => k = l
  PROVE  /\ Tail(s) \in Seq(S) /\ Head(s) \in S /\ Head(s) \in Range(s)
         /\ Range(Tail(s)) = Range(s) \ {Head(s)}
         /\ \A k, l \in 1 .. Len(Tail(s)) : Tail(s)[k] = Tail(s)[l] => k = l
<1>1. /\ Tail(s) \in Seq(S) /\ Head(s) = s[1] /\ Head(s) \in S /\ Len(s) \in Nat /\ Len(s) > 0
      /\ Len(Tail(s)) = Len(s) - 1
      /\ \A k \in 1 .. Len(s) - 1 : Tail(s)[k] = s[k + 1]
      /\ DOMAIN s = 1 .. Len(s) /\ DOMAIN Tail(s) = 1 .. Len(s) - 1
  OBVIOUS
<1>2. \A k \in 1 .. Len(s) - 1 : k + 1 \in 1 .. Len(s) /\ k + 1 # 1
  BY <1>1
<1>3. \A k \in 1 .. Len(s) : k = 1 \/ (k - 1 \in 1 .. Len(s) - 1 /\ (k - 1) + 1 = k)
  BY <1>1
<1>4. 1 \in 1 .. Len(s)
  BY <1>1
<1>5. Range(Tail(s)) \subseteq Range(s) \ {Head(s)}
  BY <1>1, <1>2, <1>4 DEF Range
<1>6. Range(s) \ {Head(s)} \subseteq Range(Tail(s))
  <2> SUFFICES ASSUME NEW k \in 1 .. Len(s), s[k] # Head(s) PROVE s[k] \in Range(Tail(s))
    BY <1>1 DEF Range
  <2>1. k - 1 \in 1 .. Len(s) - 1 /\ Tail(s)[k - 1] = s[k]
    BY <1>1, <1>3
  <2> QED BY <1>1, <2>1 DEF Range
<1>7. \A k, l \in 1 .. Len(Tail(s)) : Tail(s)[k] = Tail(s)[l] => k = l
  <2> SUFFICES ASSUME NEW k \in 1 .. Len(s) - 1, NEW l \in 1 .. Len(s) - 1, Tail(s)[k] = Tail(s)[l]
               PROVE  k = l
    BY <1>1
  <2>1. s[k + 1] = s[l + 1]
    BY <1>1
  <2>2. k + 1 = l + 1
    BY <1>2, <2>1
  <2> QED BY <2>2
<1>8. QED BY <1>1, <1>4, <1>5, <1>6, <1>7 DEF Range

LEMMA FinishedSame ==
  ASSUME UNCHANGED <<prog, issued, collector, m_dispatch_reg>>, NEW i \in Issued,
         IsLoad(i) /\ ~Shared(i) => Left(i)' = Left(i),
         IsLoad(i) /\ Shared(i) =>
           ((InPipeline(i) \/ i = m_next_wb)' <=> (InPipeline(i) \/ i = m_next_wb))
  PROVE  Finished(i)' <=> Finished(i)
  BY IssuedSame, KindSame DEF Finished

\* An access goes to the writeback stage, which was free.
LEMMA LeftToWriteback ==
  ASSUME TypeInv, NEW a \in Access, m_next_wb = NoInsn, m_next_wb' = InsnOf(a),
         Busy(a), ~Busy(a)', \A b \in Access : b # a => (Busy(b)' <=> Busy(b)),
         UNCHANGED <<m_dispatch_reg, accessq>>
  PROVE  \A i \in Insn : Left(i)' = Left(i)
<1>1. InsnOf(a) \in Insn /\ NoInsn \notin Insn
  BY InsnFacts
<1>2. Left(InsnOf(a))' = Left(InsnOf(a))
  <2>1. PICK i \in Insn : i = InsnOf(a)
    BY <1>1
  <2>2. Cardinality(InFlight(i)') = Cardinality(InFlight(i)) - 1
    BY <2>1, InFlightMinus
  <2>3. Cardinality(InFlight(i)) \in Nat /\ accessq \in Nat /\ m_next_wb # i /\ m_next_wb' = i
    BY <1>1, <2>1, InFlightFinite, ConfigAssumption DEF TypeInv
  <2>4. Left(i)' = Left(i)
    BY <2>2, <2>3 DEF Left
  <2> QED BY <2>1, <2>4
<1>3. ASSUME NEW i \in Insn, i # InsnOf(a) PROVE Left(i)' = Left(i)
  <2>1. \A b \in Access : InsnOf(b) = i => (Busy(b)' <=> Busy(b))
    BY <1>3
  <2>2. m_next_wb # i /\ m_next_wb' # i
    BY <1>1, <1>3
  <2> QED BY <2>1, <2>2, LeftSame
<1>4. QED BY <1>2, <1>3

-----------------------------------------------------------------------------
(* The steps that move an instruction or an access *)

placeVars == <<prog, issued, collector, reg_table, m_dispatch_reg, accessq, m_pipeline_reg,
               m_pending_writes, m_next_wb, m_next_global, m_response_fifo, net, waits, ready,
               completed>>

\* Done, ExitWarp, a refused access, and the stages of cycle() that find nothing
LEMMA NothingMoves ==
  ASSUME IInv, UNCHANGED placeVars
  PROVE  IInv'
<1> USE DEF placeVars
<1>1. TypeInv'
  BY DEF IInv, TypeInv
<1>2. InsnInv'
  BY IssuedSame, KindSame DEF IInv, InsnInv, DispatchPlace, PipelinePlace, WritebackPlace, InPipeline
<1>3. AccessInv'
  BY IssuedSame, AccessFrame DEF IInv, AccessInv, BusyIssued
<1>4. \A i \in Insn : Left(i)' = Left(i)
  BY BusySame, LeftSame
<1>5. BooksInv'
  <2>1. \A i \in Issued : Left(i)' = Left(i) /\ (Finished(i)' <=> Finished(i))
    BY <1>4, FinishedSame DEF InPipeline, Issued
  <2> QED BY <2>1, BooksFrame DEF IInv
<1>6. QED BY <1>1, <1>2, <1>3, <1>5 DEF IInv

LEMMA InsnFrame ==
  ASSUME InsnInv, UNCHANGED <<prog, issued, collector, m_dispatch_reg, accessq, m_pipeline_reg, m_next_wb>>
  PROVE  InsnInv'
  BY IssuedSame, KindSame DEF InsnInv, DispatchPlace, PipelinePlace, WritebackPlace, InPipeline

\* Accesses only leave, and the dispatched instruction stays.
LEMMA BusyFrame ==
  ASSUME BusyIssued, UNCHANGED <<prog, issued, collector, m_dispatch_reg, accessq>>,
         \A a \in Access : Busy(a)' => Busy(a)
  PROVE  BusyIssued'
  BY IssuedSame, KindSame, Zenon DEF BusyIssued

LEMMA RespondStep ==
  ASSUME IInv, NEW a \in Access, Respond(a)
  PROVE  IInv'
<1> USE DEF frontVars, cacheVars, wbVars
<1>0. /\ a \in net /\ net' = net \ {a} /\ m_response_fifo' = Append(m_response_fifo, a)
      /\ UNCHANGED <<prog, issued, collector, reg_table, m_dispatch_reg, accessq, m_pipeline_reg,
                     m_pending_writes, m_next_wb, m_next_global, waits, ready, completed>>
  BY DEF Respond
<1>1. /\ m_response_fifo \in Seq(Access)
      /\ net \cap Range(m_response_fifo) = {}
      /\ \A s, t \in 1 .. Len(m_response_fifo) : m_response_fifo[s] = m_response_fifo[t] => s = t
  BY DEF IInv, TypeInv, AccessInv, SentOnce
<1>2. /\ m_response_fifo' \in Seq(Access)
      /\ Len(m_response_fifo') = Len(m_response_fifo) + 1 /\ Len(m_response_fifo) \in Nat
      /\ \A k \in 1 .. Len(m_response_fifo) :
           m_response_fifo'[k] = m_response_fifo[k] /\ m_response_fifo[k] \in Range(m_response_fifo)
      /\ m_response_fifo'[Len(m_response_fifo) + 1] = a
      /\ Range(m_response_fifo') = Range(m_response_fifo) \cup {a}
  BY <1>0, <1>1, FifoAppend
<1>3. \A b : (Busy(b)' <=> Busy(b)) /\ (Sent(b)' <=> Sent(b))
  BY <1>0, <1>1, <1>2 DEF Busy, Sent
<1>4. TypeInv'
  BY <1>0, <1>2 DEF IInv, TypeInv
<1>5. InsnInv'
  BY <1>0, InsnFrame DEF IInv
<1>6. AccessInv'
  <2>1. BusyIssued'
    BY <1>0, <1>3, BusyFrame DEF IInv, AccessInv
  <2>2. RequestsWait' /\ WaitsCached' /\ ReadyCached' /\ GlobalBypasses'
    BY <1>0, <1>3, KindSame DEF IInv, AccessInv, RequestsWait, WaitsCached, ReadyCached, GlobalBypasses
  <2>3. net' \cap Range(m_response_fifo') = {}
    BY <1>0, <1>1, <1>2
  <2>4. \A s, t \in 1 .. Len(m_response_fifo') : m_response_fifo'[s] = m_response_fifo'[t] => s = t
    <3>1. \A s \in 1 .. Len(m_response_fifo') :
            s \in 1 .. Len(m_response_fifo) \/ s = Len(m_response_fifo) + 1
      BY <1>2
    <3>2. \A s \in 1 .. Len(m_response_fifo) : m_response_fifo'[s] # a
      BY <1>0, <1>1, <1>2
    <3> QED BY <1>1, <1>2, <3>1, <3>2
  <2> QED BY <2>1, <2>2, <2>3, <2>4 DEF AccessInv, SentOnce
<1>7. BooksInv'
  <2>1. \A i \in Insn : Left(i)' = Left(i)
    BY <1>0, <1>3, LeftSame
  <2>2. \A i \in Issued : Left(i)' = Left(i) /\ (Finished(i)' <=> Finished(i))
    BY <1>0, <2>1, FinishedSame DEF InPipeline, Issued
  <2> QED BY <1>0, <2>2, BooksFrame DEF IInv
<1>8. QED BY <1>4, <1>5, <1>6, <1>7 DEF IInv

LEMMA StageFacts == 0 .. Stages - 1 = {0, 1, 2}
  BY DEF Stages

\* What is in the pipeline after a shift, the departure of its last stage and
\* the arrival of an instruction
LEMMA PipelineShift ==
  ASSUME TypeInv, m_pipeline_reg' = Shifted
  PROVE  \A i \in Insn : InPipeline(i)' <=> InPipeline(i)
<1>1. PICK p, q : p = m_pipeline_reg /\ q = m_pipeline_reg'
  OBVIOUS
<1>2. p \in [{0, 1, 2} -> Insn \cup {NoInsn}]
  BY <1>1, StageFacts DEF TypeInv
<1>3. \/ p[0] = NoInsn /\ q[0] = p[1] /\ q[1] = p[2] /\ q[2] = NoInsn
      \/ p[1] = NoInsn /\ q[0] = p[0] /\ q[1] = p[2] /\ q[2] = NoInsn
      \/ q = p
  BY <1>1, <1>2 DEF Shifted
<1>4. \A i \in Insn : (q[0] = i \/ q[1] = i \/ q[2] = i) <=> (p[0] = i \/ p[1] = i \/ p[2] = i)
  BY <1>3, InsnFacts
<1>5. QED BY <1>1, <1>4, StageFacts DEF InPipeline

LEMMA PipelineTake ==
  ASSUME TypeInv, PipelinePlace, NEW j \in Insn, j = m_pipeline_reg[0],
         m_pipeline_reg' = [m_pipeline_reg EXCEPT ![0] = NoInsn]
  PROVE  InPipeline(j) /\ \A i \in Insn : InPipeline(i)' <=> InPipeline(i) /\ i # j
<1>1. PICK p, q : p = m_pipeline_reg /\ q = m_pipeline_reg'
  OBVIOUS
<1>2. /\ p \in [{0, 1, 2} -> Insn \cup {NoInsn}]
      /\ \A s, t \in {0, 1, 2} : p[s] = p[t] /\ s # t => p[s] = NoInsn
  BY <1>1, StageFacts DEF TypeInv, PipelinePlace
<1>3. q[0] = NoInsn /\ q[1] = p[1] /\ q[2] = p[2] /\ p[0] = j
  BY <1>1, <1>2
<1>4. \A i \in Insn : (q[0] = i \/ q[1] = i \/ q[2] = i) <=>
                      (p[0] = i \/ p[1] = i \/ p[2] = i) /\ i # j
  BY <1>2, <1>3, InsnFacts
<1>5. QED BY <1>1, <1>3, <1>4, StageFacts DEF InPipeline

LEMMA PipelineEnter ==
  ASSUME TypeInv, NEW j \in Insn, m_pipeline_reg[2] = NoInsn,
         m_pipeline_reg' = [m_pipeline_reg EXCEPT ![2] = j]
  PROVE  \A i \in Insn : InPipeline(i)' <=> InPipeline(i) \/ i = j
<1>1. PICK p, q : p = m_pipeline_reg /\ q = m_pipeline_reg'
  OBVIOUS
<1>2. p \in [{0, 1, 2} -> Insn \cup {NoInsn}]
  BY <1>1, StageFacts DEF TypeInv
<1>3. q[0] = p[0] /\ q[1] = p[1] /\ q[2] = j /\ p[2] = NoInsn
  BY <1>1, <1>2
<1>4. \A i \in Insn : (q[0] = i \/ q[1] = i \/ q[2] = i) <=> (p[0] = i \/ p[1] = i \/ p[2] = i) \/ i = j
  BY <1>3, InsnFacts
<1>5. QED BY <1>1, <1>4, StageFacts DEF InPipeline

LEMMA ShiftStep ==
  ASSUME IInv, CycleShift
  PROVE  IInv'
<1> USE DEF frontVars, cacheVars, wbVars
<1>0. /\ m_pipeline_reg' = Shifted
      /\ UNCHANGED <<prog, issued, collector, reg_table, m_dispatch_reg, accessq, m_pending_writes,
                     m_next_wb, m_next_global, m_response_fifo, net, waits, ready, completed>>
  BY DEF CycleShift
<1>1. PICK p, q : p = m_pipeline_reg /\ q = m_pipeline_reg'
  OBVIOUS
<1>2. p \in [{0, 1, 2} -> Insn \cup {NoInsn}]
  BY <1>1, StageFacts DEF IInv, TypeInv
<1>3. /\ q \in [{0, 1, 2} -> Insn \cup {NoInsn}]
      /\ \/ p[0] = NoInsn /\ q[0] = p[1] /\ q[1] = p[2] /\ q[2] = NoInsn
         \/ p[1] = NoInsn /\ q[0] = p[0] /\ q[1] = p[2] /\ q[2] = NoInsn
         \/ q = p
  BY <1>0, <1>1, <1>2 DEF Shifted
<1>4. \A i \in Insn : InPipeline(i)' <=> InPipeline(i)
  BY <1>0, PipelineShift DEF IInv
<1>5. TypeInv'
  BY <1>0, <1>1, <1>3, StageFacts DEF IInv, TypeInv
<1>6. InsnInv'
  <2>1. DispatchPlace'
    BY <1>0, IssuedSame, KindSame DEF IInv, InsnInv, DispatchPlace
  <2>2. PipelinePlace'
    <3>1. \A s \in {0, 1, 2} : q[s] # NoInsn => \E t \in {0, 1, 2} : q[s] = p[t]
      BY <1>3
    <3>2. \A s, t \in {0, 1, 2} : p[s] = p[t] /\ s # t => p[s] = NoInsn
      BY <1>1, StageFacts DEF IInv, InsnInv, PipelinePlace
    <3>3. \A s, t \in {0, 1, 2} : q[s] = q[t] /\ s # t => q[s] = NoInsn
      BY <1>3, <3>2
    <3>4. \A t \in {0, 1, 2} : p[t] # NoInsn =>
            p[t] \in Issued \ collector /\ p[t] # m_dispatch_reg /\ IsLoad(p[t]) /\ Shared(p[t])
      BY <1>1, StageFacts DEF IInv, InsnInv, PipelinePlace
    <3>5. \A s \in {0, 1, 2} : q[s] # NoInsn =>
            q[s] \in Issued \ collector /\ q[s] # m_dispatch_reg /\ IsLoad(q[s]) /\ Shared(q[s])
      BY <3>1, <3>4
    <3> QED BY <1>0, <1>1, <3>3, <3>5, IssuedSame, KindSame, StageFacts DEF PipelinePlace
  <2>3. WritebackPlace'
    <3>1. m_next_wb # NoInsn => m_next_wb \in Insn
      BY DEF IInv, TypeInv
    <3> QED BY <1>0, <1>4, <3>1, IssuedSame, KindSame, Zenon DEF IInv, InsnInv, WritebackPlace
  <2> QED BY <2>1, <2>2, <2>3 DEF InsnInv
<1>7. AccessInv'
  BY <1>0, IssuedSame, AccessFrame DEF IInv, AccessInv, BusyIssued
<1>8. BooksInv'
  <2>1. \A i \in Insn : Left(i)' = Left(i)
    BY <1>0, BusySame, LeftSame
  <2>2. \A i \in Issued : Left(i)' = Left(i) /\ (Finished(i)' <=> Finished(i))
    BY <1>0, <1>4, <2>1, FinishedSame DEF Issued
  <2> QED BY <1>0, <2>2, BooksFrame DEF IInv
<1>9. QED BY <1>5, <1>6, <1>7, <1>8 DEF IInv

\* What CycleArbitrate leaves alone
arbitrateVars == <<frontVars, reg_table, m_dispatch_reg, accessq, m_pending_writes,
                   m_response_fifo, net, waits, completed>>

LEMMA TakeSharedStep ==
  ASSUME IInv, m_next_wb = NoInsn, m_pipeline_reg[0] # NoInsn, TakeShared, UNCHANGED arbitrateVars
  PROVE  IInv'
<1>0. /\ m_next_wb' = m_pipeline_reg[0]
      /\ m_pipeline_reg' = [m_pipeline_reg EXCEPT ![0] = NoInsn]
      /\ UNCHANGED <<prog, issued, collector, reg_table, m_dispatch_reg, accessq, m_pending_writes,
                     m_next_global, m_response_fifo, net, waits, ready, completed>>
  BY DEF TakeShared, arbitrateVars, frontVars
<1>1. PICK p, q, j : p = m_pipeline_reg /\ q = m_pipeline_reg' /\ j = m_pipeline_reg[0]
  OBVIOUS
<1>2. /\ p \in [{0, 1, 2} -> Insn \cup {NoInsn}]
      /\ q \in [{0, 1, 2} -> Insn \cup {NoInsn}]
      /\ q[0] = NoInsn /\ q[1] = p[1] /\ q[2] = p[2] /\ p[0] = j /\ j \in Insn
  <2>1. p \in [{0, 1, 2} -> Insn \cup {NoInsn}]
    BY <1>1, StageFacts DEF IInv, TypeInv
  <2>2. q = [p EXCEPT ![0] = NoInsn] /\ p[0] = j /\ j # NoInsn
    BY <1>0, <1>1
  <2> QED BY <2>1, <2>2
<1>3. /\ \A s, t \in {0, 1, 2} : p[s] = p[t] /\ s # t => p[s] = NoInsn
      /\ \A t \in {0, 1, 2} : p[t] # NoInsn =>
           p[t] \in Issued \ collector /\ p[t] # m_dispatch_reg /\ IsLoad(p[t]) /\ Shared(p[t])
  BY <1>1, StageFacts DEF IInv, InsnInv, PipelinePlace
<1>4. j \in Issued \ collector /\ j # m_dispatch_reg /\ IsLoad(j) /\ Shared(j) /\ j # NoInsn
  BY <1>1, <1>2, <1>3
<1>5. InPipeline(j) /\ \A i \in Insn : InPipeline(i)' <=> InPipeline(i) /\ i # j
  BY <1>0, <1>1, <1>2, PipelineTake DEF IInv, InsnInv
<1>6. TypeInv'
  BY <1>0, <1>1, <1>2, StageFacts DEF IInv, TypeInv
<1>7. InsnInv'
  <2>1. DispatchPlace'
    BY <1>0, IssuedSame, KindSame DEF IInv, InsnInv, DispatchPlace
  <2>2. PipelinePlace'
    <3>1. /\ \A s, t \in {0, 1, 2} : q[s] = q[t] /\ s # t => q[s] = NoInsn
          /\ \A t \in {0, 1, 2} : q[t] # NoInsn =>
               q[t] \in Issued \ collector /\ q[t] # m_dispatch_reg /\ IsLoad(q[t]) /\ Shared(q[t])
      BY <1>2, <1>3
    <3> QED BY <1>0, <1>1, <3>1, IssuedSame, KindSame, StageFacts DEF PipelinePlace
  <2>3. WritebackPlace'
    <3>1. m_next_wb' = j /\ ~InPipeline(j)'
      BY <1>0, <1>1, <1>2, <1>5
    <3> QED BY <1>0, <1>4, <3>1, IssuedSame, KindSame DEF WritebackPlace, InPipeline
  <2> QED BY <2>1, <2>2, <2>3 DEF InsnInv
<1>8. AccessInv'
  BY <1>0, IssuedSame, AccessFrame DEF IInv, AccessInv, BusyIssued
<1>9. BooksInv'
  <2>1. \A i \in Insn : i # j => Left(i)' = Left(i)
    <3>1. \A i \in Insn : i # j => (m_next_wb' = i <=> m_next_wb = i)
      BY <1>0, <1>1, InsnFacts
    <3> QED BY <1>0, <3>1, BusySame, LeftSame
  <2>2. \A i \in Issued : i \in Insn /\ (IsLoad(i) /\ ~Shared(i) => Left(i)' = Left(i))
    BY <1>4, <2>1 DEF Issued
  <2>3. \A i \in Insn : (InPipeline(i) \/ i = m_next_wb)' <=> (InPipeline(i) \/ i = m_next_wb)
    BY <1>0, <1>1, <1>5, InsnFacts
  <2>4. \A i \in Issued : Finished(i)' <=> Finished(i)
    BY <1>0, <2>2, <2>3, FinishedSame
  <2> QED BY <1>0, <2>2, <2>4, BooksFrame DEF IInv
<1>10. QED BY <1>6, <1>7, <1>8, <1>9 DEF IInv

\* The writeback stage takes an access of a load; the places of the others stay.
LEMMA TakeAccess ==
  ASSUME IInv, NEW a \in Access, m_next_wb = NoInsn, m_next_wb' = InsnOf(a),
         UNCHANGED <<prog, issued, collector, reg_table, m_dispatch_reg, accessq, m_pipeline_reg,
                     m_pending_writes, completed>>,
         Busy(a), ~Busy(a)', IsLoad(InsnOf(a)), \A b \in Access : b # a => (Busy(b)' <=> Busy(b))
  PROVE  InsnInv' /\ BusyIssued' /\ BooksInv'
<1>1. PICK j : j = InsnOf(a)
  OBVIOUS
<1>2. /\ j \in Issued \ collector /\ j \in Insn /\ IsLoad(j) /\ ~Shared(j) /\ KindOf(j).n > 0
      /\ m_next_wb' = j
  BY <1>1, InsnFacts DEF IInv, AccessInv, BusyIssued
<1>3. InsnInv'
  <2>1. DispatchPlace' /\ PipelinePlace'
    BY IssuedSame, KindSame DEF IInv, InsnInv, DispatchPlace, PipelinePlace
  <2>2. WritebackPlace'
    BY <1>2, IssuedSame, KindSame DEF WritebackPlace
  <2> QED BY <2>1, <2>2 DEF InsnInv
<1>4. BusyIssued'
  <2>1. \A b \in Access : Busy(b)' => Busy(b)
    OBVIOUS
  <2> QED BY <2>1, BusyFrame DEF IInv, AccessInv
<1>5. BooksInv'
  <2>1. \A i \in Insn : Left(i)' = Left(i)
    BY LeftToWriteback DEF IInv
  <2>2. \A i \in Insn : InPipeline(i)' <=> InPipeline(i)
    BY DEF InPipeline
  <2>3. \A i \in Insn : Shared(i) => ((InPipeline(i) \/ i = m_next_wb)' <=> (InPipeline(i) \/ i = m_next_wb))
    BY <1>2, <2>2, InsnFacts
  <2>4. \A i \in Issued : i \in Insn /\ Left(i)' = Left(i) /\ (Finished(i)' <=> Finished(i))
    BY <2>1, <2>3, FinishedSame DEF Issued
  <2> QED BY <2>4, BooksFrame DEF IInv
<1>6. QED BY <1>3, <1>4, <1>5

LEMMA TakeGlobalStep ==
  ASSUME IInv, m_next_wb = NoInsn, m_next_global # NoAccess, TakeGlobal, UNCHANGED arbitrateVars
  PROVE  IInv'
<1>0. /\ m_next_wb' = InsnOf(m_next_global) /\ m_next_global' = NoAccess
      /\ UNCHANGED <<prog, issued, collector, reg_table, m_dispatch_reg, accessq, m_pending_writes,
                     m_pipeline_reg, m_response_fifo, net, waits, ready, completed>>
  BY DEF TakeGlobal, arbitrateVars, frontVars
<1>1. PICK a \in Access : a = m_next_global
  BY DEF IInv, TypeInv
<1>2. IsLoad(InsnOf(a)) /\ Bypass(InsnOf(a)) /\ ~Sent(a)
  BY <1>1 DEF IInv, AccessInv, GlobalBypasses
<1>3. waits[a] = NoAccess /\ \A c \in Cache : a \notin ready[c]
  BY <1>2 DEF IInv, AccessInv, WaitsCached, ReadyCached, Cached
<1>4. Busy(a) /\ ~Busy(a)'
  BY <1>0, <1>1, <1>2, <1>3, InsnFacts DEF Busy, Sent
<1>5. \A b : Sent(b)' <=> Sent(b)
  BY <1>0 DEF Sent
<1>6. \A b \in Access : b # a => (Busy(b)' <=> Busy(b))
  BY <1>0, <1>1, InsnFacts DEF Busy
<1>7. InsnInv' /\ BusyIssued' /\ BooksInv'
  BY <1>0, <1>1, <1>2, <1>4, <1>6, TakeAccess
<1>8. RequestsWait' /\ WaitsCached' /\ ReadyCached' /\ GlobalBypasses' /\ SentOnce'
  BY <1>0, <1>5, KindSame
     DEF IInv, AccessInv, RequestsWait, WaitsCached, ReadyCached, GlobalBypasses, SentOnce
<1>9. TypeInv'
  BY <1>0, <1>1, InsnFacts DEF IInv, TypeInv
<1>10. QED BY <1>7, <1>8, <1>9 DEF IInv, AccessInv

LEMMA TakeCachedStep ==
  ASSUME IInv, m_next_wb = NoInsn, NEW c \in Cache, TakeCached(c), UNCHANGED arbitrateVars
  PROVE  IInv'
<1>0. PICK a \in ready[c] :
        /\ m_next_wb' = InsnOf(a)
        /\ ready' = [ready EXCEPT ![c] = @ \ {a}]
        /\ UNCHANGED <<prog, issued, collector, reg_table, m_dispatch_reg, accessq, m_pending_writes,
                       m_pipeline_reg, m_next_global, m_response_fifo, net, waits, completed>>
  BY DEF TakeCached, arbitrateVars, frontVars, warpVars
<1>1. a \in Access /\ ready \in [Cache -> SUBSET Access]
  BY DEF IInv, TypeInv
<1>2. waits[a] = NoAccess /\ Cached(InsnOf(a)) /\ CacheOf(a) = c
  BY <1>1 DEF IInv, AccessInv, ReadyCached
<1>3. ~Sent(a) /\ a # m_next_global /\ IsLoad(InsnOf(a))
  BY <1>1, <1>2, InsnFacts DEF IInv, AccessInv, RequestsWait, GlobalBypasses, Cached
<1>4. \A d \in Cache : d # c => a \notin ready[d]
  BY <1>2 DEF IInv, AccessInv, ReadyCached
<1>5. \A d \in Cache : \A b : b \in ready'[d] <=> b \in ready[d] /\ ~(d = c /\ b = a)
  BY <1>0, <1>1
<1>6. Busy(a) /\ ~Busy(a)'
  BY <1>0, <1>2, <1>3, <1>4, <1>5 DEF Busy, Sent
<1>7. \A b \in Access : b # a => (Busy(b)' <=> Busy(b))
  BY <1>0, <1>5 DEF Busy
<1>8. InsnInv' /\ BusyIssued' /\ BooksInv'
  BY <1>0, <1>1, <1>3, <1>6, <1>7, TakeAccess
<1>9. \A b : Sent(b)' <=> Sent(b)
  BY <1>0 DEF Sent
<1>10. RequestsWait' /\ WaitsCached' /\ GlobalBypasses' /\ SentOnce'
  BY <1>0, <1>9, KindSame DEF IInv, AccessInv, RequestsWait, WaitsCached, GlobalBypasses, SentOnce
<1>11. ReadyCached'
  BY <1>0, <1>5, KindSame, Zenon DEF IInv, AccessInv, ReadyCached
<1>12. TypeInv'
  BY <1>0, <1>1, InsnFacts DEF IInv, TypeInv
<1>13. QED BY <1>8, <1>10, <1>11, <1>12 DEF IInv, AccessInv

LEMMA ServedFacts ==
  ASSUME NEW n \in Served
  PROVE  \/ Client[n] = "shared" /\ m_pipeline_reg[0] # NoInsn
         \/ Client[n] = "global" /\ m_next_global # NoAccess
         \/ Client[n] \in Cache /\ Client[n] # "shared" /\ Client[n] # "global"
<1>1. n \in 1 .. 5 /\ HasResult(Client[n])
  BY DEF Served, Client
<1>2. Client[n] \in {"shared", "L1T", "L1C", "global", "L1D"}
  BY <1>1 DEF Client
<1>3. QED BY <1>1, <1>2 DEF HasResult, Cache

LEMMA ArbitrateStep ==
  ASSUME IInv, CycleArbitrate
  PROVE  IInv'
<1>1. CASE m_next_wb # NoInsn \/ Served = {}
  <2>1. UNCHANGED placeVars
    BY <1>1 DEF CycleArbitrate, placeVars, frontVars, wbVars
  <2> QED BY <2>1, NothingMoves
<1>2. CASE ~(m_next_wb # NoInsn \/ Served = {})
  <2>1. PICK n \in Served : CASE Client[n] = "shared" -> TakeShared
                              [] Client[n] = "global" -> TakeGlobal
                              [] OTHER -> TakeCached(Client[n])
    BY <1>2 DEF CycleArbitrate
  <2>2. UNCHANGED arbitrateVars /\ m_next_wb = NoInsn
    BY <1>2 DEF CycleArbitrate, arbitrateVars
  <2>3. CASE Client[n] = "shared" /\ m_pipeline_reg[0] # NoInsn
    BY <2>1, <2>2, <2>3, TakeSharedStep
  <2>4. CASE Client[n] = "global" /\ m_next_global # NoAccess
    BY <2>1, <2>2, <2>4, TakeGlobalStep
  <2>5. CASE Client[n] \in Cache /\ Client[n] # "shared" /\ Client[n] # "global"
    <3>1. TakeCached(Client[n])
      BY <2>1, <2>5
    <3> QED BY <2>2, <2>5, <3>1, TakeCachedStep
  <2> QED BY <2>3, <2>4, <2>5, ServedFacts
<1>3. QED BY <1>1, <1>2

responseVars == <<frontVars, m_membar, m_n_atomic, m_inst_in_pipeline, reg_table, m_dispatch_reg,
                  accessq, m_pipeline_reg, m_pending_writes, wbVars, net, completed>>

\* A response leaves the FIFO, and its access too unless it is a load's.
LEMMA TakeResponse ==
  ASSUME IInv, UNCHANGED responseVars, m_response_fifo # <<>>,
         m_response_fifo' = Tail(m_response_fifo),
         \A b \in Access : b # Head(m_response_fifo) \/ IsLoad(InsnOf(b)) => (Busy(b)' <=> Busy(b))
  PROVE  /\ InsnInv' /\ BusyIssued' /\ BooksInv' /\ SentOnce'
         /\ \A b \in Access : Sent(b)' <=> Sent(b) /\ b # Head(m_response_fifo)
         /\ m_response_fifo' \in Seq(Access) /\ Head(m_response_fifo) \in Access
         /\ Sent(Head(m_response_fifo))
<1> USE DEF responseVars, frontVars, wbVars
<1>1. /\ m_response_fifo \in Seq(Access)
      /\ net \cap Range(m_response_fifo) = {}
      /\ \A s, t \in 1 .. Len(m_response_fifo) : m_response_fifo[s] = m_response_fifo[t] => s = t
  BY DEF IInv, TypeInv, AccessInv, SentOnce
<1>2. PICK a, f : a = Head(m_response_fifo) /\ f = m_response_fifo'
  OBVIOUS
<1>3. /\ f \in Seq(Access) /\ a \in Access /\ a \in Range(m_response_fifo)
      /\ Range(f) = Range(m_response_fifo) \ {a}
      /\ \A s, t \in 1 .. Len(f) : f[s] = f[t] => s = t
  BY <1>1, <1>2, FifoTail
<1>4. Sent(a) /\ Busy(a) /\ \A b \in Access : Sent(b)' <=> Sent(b) /\ b # a
  BY <1>1, <1>2, <1>3 DEF Sent, Busy
<1>5. \A b \in Access : Busy(b)' => Busy(b)
  BY <1>2, <1>4
<1>6. InsnInv' /\ BusyIssued'
  BY <1>5, InsnFrame, BusyFrame DEF IInv, AccessInv
<1>7. SentOnce'
  BY <1>1, <1>2, <1>3 DEF SentOnce
<1>8. \A i \in Issued : i \in Insn /\ (IsLoad(i) => Left(i)' = Left(i))
  <2> SUFFICES ASSUME NEW i \in Insn, IsLoad(i) PROVE Left(i)' = Left(i)
    BY DEF Issued
  <2>1. \A b \in Access : InsnOf(b) = i => (Busy(b)' <=> Busy(b))
    OBVIOUS
  <2> QED BY <2>1, LeftSame
<1>9. \A i \in Issued : Finished(i)' <=> Finished(i)
  BY <1>8, FinishedSame DEF InPipeline
<1>10. BooksInv'
  BY <1>8, <1>9, BooksFrame DEF IInv
<1>11. QED BY <1>2, <1>3, <1>4, <1>6, <1>7, <1>10

LEMMA HeadFacts ==
  ASSUME IInv, m_response_fifo # <<>>, NEW a, a = Head(m_response_fifo)
  PROVE  /\ a \in Access /\ a \in Range(m_response_fifo) /\ a \notin net
         /\ Range(Tail(m_response_fifo)) = Range(m_response_fifo) \ {a}
         /\ a # m_next_global
<1>1. /\ m_response_fifo \in Seq(Access)
      /\ net \cap Range(m_response_fifo) = {}
      /\ \A s, t \in 1 .. Len(m_response_fifo) : m_response_fifo[s] = m_response_fifo[t] => s = t
  BY DEF IInv, TypeInv, AccessInv, SentOnce
<1>2. /\ a \in Access /\ a \in Range(m_response_fifo)
      /\ Range(Tail(m_response_fifo)) = Range(m_response_fifo) \ {a}
  BY <1>1, FifoTail
<1>3. a # m_next_global
  BY <1>2, InsnFacts DEF IInv, AccessInv, GlobalBypasses, Sent
<1>4. QED BY <1>1, <1>2, <1>3

LEMMA StoreAcknowledged ==
  ASSUME IInv, UNCHANGED responseVars, m_response_fifo # <<>>,
         KindOf(InsnOf(Head(m_response_fifo))).op = "STORE",
         m_response_fifo' = Tail(m_response_fifo), UNCHANGED <<m_next_global, cacheVars>>
  PROVE  IInv'
<1> USE DEF responseVars, frontVars, wbVars, cacheVars
<1>1. PICK a : a = Head(m_response_fifo)
  OBVIOUS
<1>2. /\ a \in Access /\ a \in Range(m_response_fifo) /\ a \notin net
      /\ Range(m_response_fifo') = Range(m_response_fifo) \ {a}
      /\ a # m_next_global
  BY <1>1, HeadFacts
<1>3. ~IsLoad(InsnOf(a))
  BY <1>1 DEF IsLoad
<1>4. \A b \in Access : b # a => (Busy(b)' <=> Busy(b))
  BY <1>2 DEF Busy
<1>5. \A b \in Access : b # Head(m_response_fifo) \/ IsLoad(InsnOf(b)) => (Busy(b)' <=> Busy(b))
  BY <1>1, <1>3, <1>4
<1>6. /\ InsnInv' /\ BusyIssued' /\ BooksInv' /\ SentOnce'
      /\ \A b \in Access : Sent(b)' <=> Sent(b) /\ b # a
      /\ m_response_fifo' \in Seq(Access)
  BY <1>1, <1>5, TakeResponse
<1>7. RequestsWait' /\ WaitsCached' /\ ReadyCached'
  BY <1>6, KindSame DEF IInv, AccessInv, RequestsWait, WaitsCached, ReadyCached
<1>8. GlobalBypasses'
  <2>1. m_next_global # NoAccess => m_next_global \in Access
    BY DEF IInv, TypeInv
  <2> QED BY <1>6, <2>1, KindSame DEF IInv, AccessInv, GlobalBypasses
<1>9. TypeInv'
  BY <1>6 DEF IInv, TypeInv
<1>10. QED BY <1>6, <1>7, <1>8, <1>9 DEF IInv, AccessInv

LEMMA GlobalTaken ==
  ASSUME IInv, UNCHANGED responseVars, m_response_fifo # <<>>,
         IsLoad(InsnOf(Head(m_response_fifo))), Bypass(InsnOf(Head(m_response_fifo))),
         m_next_global = NoAccess, m_next_global' = Head(m_response_fifo),
         m_response_fifo' = Tail(m_response_fifo), UNCHANGED cacheVars
  PROVE  IInv'
<1> USE DEF responseVars, frontVars, wbVars, cacheVars
<1>1. PICK a : a = Head(m_response_fifo)
  OBVIOUS
<1>2. /\ a \in Access /\ a \in Range(m_response_fifo) /\ a \notin net
      /\ Range(m_response_fifo') = Range(m_response_fifo) \ {a}
      /\ m_next_global' = a
  BY <1>1, HeadFacts
<1>3. \A b \in Access : Busy(b)' <=> Busy(b)
  BY <1>2, InsnFacts DEF Busy
<1>4. /\ InsnInv' /\ BusyIssued' /\ BooksInv' /\ SentOnce'
      /\ \A b \in Access : Sent(b)' <=> Sent(b) /\ b # a
      /\ m_response_fifo' \in Seq(Access)
  BY <1>1, <1>3, TakeResponse
<1>5. RequestsWait' /\ WaitsCached' /\ ReadyCached'
  BY <1>4, KindSame DEF IInv, AccessInv, RequestsWait, WaitsCached, ReadyCached
<1>6. GlobalBypasses'
  BY <1>1, <1>2, <1>4, KindSame DEF GlobalBypasses
<1>7. TypeInv'
  BY <1>2, <1>4 DEF IInv, TypeInv
<1>8. QED BY <1>4, <1>5, <1>6, <1>7 DEF IInv, AccessInv

LEMMA CacheFilled ==
  ASSUME IInv, UNCHANGED responseVars, m_response_fifo # <<>>,
         IsLoad(InsnOf(Head(m_response_fifo))), ~Bypass(InsnOf(Head(m_response_fifo))),
         FillCache(Head(m_response_fifo)),
         m_response_fifo' = Tail(m_response_fifo), UNCHANGED m_next_global
  PROVE  IInv'
<1> USE DEF responseVars, frontVars, wbVars
<1>1. PICK a : a = Head(m_response_fifo)
  OBVIOUS
<1>2. /\ a \in Access /\ a \in Range(m_response_fifo) /\ a \notin net
      /\ Range(m_response_fifo') = Range(m_response_fifo) \ {a}
  BY <1>1, HeadFacts
<1>3. waits[a] = a /\ a # NoAccess
  BY <1>1, <1>2, InsnFacts DEF IInv, AccessInv, RequestsWait, Sent, Cached
<1>4. PICK c \in Cache : c = CacheOf(a)
  BY DEF CacheOf, Cache
<1>5. /\ waits \in [Access -> Access \cup {NoAccess}] /\ ready \in [Cache -> SUBSET Access]
      /\ waits' = [b \in Access |-> IF waits[b] = a THEN NoAccess ELSE waits[b]]
      /\ ready' = [ready EXCEPT ![c] = @ \cup {b \in Access : waits[b] = a}]
  BY <1>1, <1>4 DEF FillCache, IInv, TypeInv
<1>6. /\ \A b \in Access : waits'[b] = IF waits[b] = a THEN NoAccess ELSE waits[b]
      /\ \A d \in Cache, b \in Access : b \in ready'[d] <=> b \in ready[d] \/ (d = c /\ waits[b] = a)
      /\ ready' \in [Cache -> SUBSET Access] /\ waits' \in [Access -> Access \cup {NoAccess}]
  BY <1>5
<1>7. \A b \in Access : Busy(b)' <=> Busy(b)
  <2>1. \A b \in Access : b # a => (b \in Range(m_response_fifo') <=> b \in Range(m_response_fifo))
    BY <1>2
  <2>2. \A b \in Access : waits[b] = a => Busy(b) /\ Busy(b)'
    BY <1>3, <1>6 DEF Busy
  <2>3. \A b \in Access : waits[b] # a => (Busy(b)' <=> Busy(b))
    BY <1>3, <1>6, <2>1 DEF Busy
  <2> QED BY <2>2, <2>3
<1>8. /\ InsnInv' /\ BusyIssued' /\ BooksInv' /\ SentOnce'
      /\ \A b \in Access : Sent(b)' <=> Sent(b) /\ b # a
      /\ m_response_fifo' \in Seq(Access)
  BY <1>1, <1>7, TakeResponse
<1>9. RequestsWait'
  BY <1>6, <1>8, KindSame DEF IInv, AccessInv, RequestsWait
<1>10. WaitsCached'
  BY <1>6, KindSame DEF IInv, AccessInv, WaitsCached
<1>11. ReadyCached'
  <2>1. \A b \in Access : waits[b] = a => Cached(InsnOf(b)) /\ CacheOf(b) = c
    BY <1>3, <1>4 DEF IInv, AccessInv, WaitsCached
  <2>2. ASSUME NEW d \in Cache, NEW b \in ready'[d]
        PROVE  waits'[b] = NoAccess /\ Cached(InsnOf(b)) /\ CacheOf(b) = d
    <3>1. b \in Access
      BY <1>6
    <3>2. CASE waits[b] = a
      <4>1. b \notin ready[d]
        BY <1>3, <3>2 DEF IInv, AccessInv, ReadyCached
      <4> QED BY <1>6, <2>1, <3>1, <3>2, <4>1
    <3>3. CASE waits[b] # a
      BY <1>6, <3>1, <3>3 DEF IInv, AccessInv, ReadyCached
    <3> QED BY <3>2, <3>3
  <2> QED BY <2>2, KindSame DEF ReadyCached
<1>12. GlobalBypasses'
  <2>1. m_next_global # NoAccess => m_next_global \in Access
    BY DEF IInv, TypeInv
  <2> QED BY <1>8, <2>1, KindSame DEF IInv, AccessInv, GlobalBypasses
<1>13. TypeInv'
  BY <1>6, <1>8 DEF IInv, TypeInv
<1>14. QED BY <1>8, <1>9, <1>10, <1>11, <1>12, <1>13 DEF IInv, AccessInv

LEMMA ResponseStep ==
  ASSUME IInv, CycleResponse
  PROVE  IInv'
<1>1. UNCHANGED responseVars
  BY DEF CycleResponse, responseVars
<1>2. CASE UNCHANGED <<m_response_fifo, m_next_global, cacheVars>>
  BY <1>1, <1>2, NothingMoves DEF responseVars, placeVars, frontVars, wbVars, cacheVars
<1>3. CASE m_response_fifo # <<>>
  <2>1. PICK a, i : a = Head(m_response_fifo) /\ i = InsnOf(Head(m_response_fifo))
    OBVIOUS
  <2>2. \/ /\ KindOf(i).op = "STORE"
           /\ m_response_fifo' = Tail(m_response_fifo)
           /\ UNCHANGED <<m_next_global, cacheVars>>
        \/ /\ IsLoad(i) /\ Bypass(i) /\ UNCHANGED cacheVars
           /\ m_next_global = NoAccess /\ m_next_global' = a
           /\ m_response_fifo' = Tail(m_response_fifo)
        \/ UNCHANGED <<m_response_fifo, m_next_global, cacheVars>>
        \/ /\ IsLoad(i) /\ ~Bypass(i) /\ FillCache(a)
           /\ m_response_fifo' = Tail(m_response_fifo)
           /\ UNCHANGED m_next_global
    BY <1>3, <2>1 DEF CycleResponse
  <2> QED BY <1>1, <1>2, <1>3, <2>1, <2>2, StoreAcknowledged, GlobalTaken, CacheFilled
<1>4. CASE m_response_fifo = <<>>
  <2>1. UNCHANGED <<m_response_fifo, m_next_global, cacheVars>>
    BY <1>4 DEF CycleResponse
  <2> QED BY <1>2, <2>1
<1>5. QED BY <1>3, <1>4

-----------------------------------------------------------------------------
(* The steps that change the books *)

LEMMA PendFacts ==
  ASSUME TypeInv, NEW i \in Issued, NEW d \in Int
  PROVE  /\ Pend(i, d) \in [Warp -> [Reg -> Int]]
         /\ \A w \in Warp, r \in Reg :
              Pend(i, d)[w][r] = IF w = WarpOf(i) /\ r \in KindOf(i).out
                                   THEN m_pending_writes[w][r] + d ELSE m_pending_writes[w][r]
<1>1. WarpOf(i) \in Warp
  BY InsnFacts DEF Issued
<1>2. m_pending_writes \in [Warp -> [Reg -> Int]]
  BY DEF TypeInv
<1>3. QED BY <1>1, <1>2 DEF Pend

LEMMA BooksFacts ==
  ASSUME TypeInv, BooksInv
  PROVE  /\ \A i \in Issued : /\ i \in Insn
                              /\ completed[i] = 0 <=> ~Finished(i)
                              /\ completed[i] = 1 <=> Finished(i)
         /\ \A i \in Issued : completed[i] = 0 => KindOf(i).out \subseteq reg_table[WarpOf(i)]
<1>1. \A i \in Issued : i \in Insn /\ KindOf(i).out \subseteq Reg /\ WarpOf(i) \in Warp
  BY KindFacts, InsnFacts
<1>2. \A i \in Issued : (completed[i] = 0 <=> ~Finished(i)) /\ (completed[i] = 1 <=> Finished(i))
  BY <1>1 DEF BooksInv, CompletedExact
<1>3. \A i \in Issued : completed[i] = 0 => KindOf(i).out \subseteq reg_table[WarpOf(i)]
  BY <1>1 DEF BooksInv, ReservedExact
<1>4. QED BY <1>1, <1>2, <1>3

\* An incomplete instruction comes closer to its end.
LEMMA BooksProgress ==
  ASSUME TypeInv, BooksInv, UNCHANGED <<prog, issued, reg_table, completed>>, NEW i \in Issued,
         \A j \in Issued : j # i /\ IsLoad(j) /\ ~Shared(j) => Left(j)' = Left(j),
         \A j \in Issued : Finished(j)' <=> Finished(j),
         KindOf(i).out # {} => completed[i] = 0,
         \A w \in Warp, r \in Reg : ~(w = WarpOf(i) /\ r \in KindOf(i).out) =>
           m_pending_writes'[w][r] = m_pending_writes[w][r],
         \A r \in KindOf(i).out : m_pending_writes'[WarpOf(i)][r] = Due(i)'
  PROVE  BooksInv'
<1>1. Issued' = Issued
  BY IssuedSame
<1>2. \A j \in Insn : Finished(j)' <=> Finished(j)
  BY <1>1 DEF Finished
<1>3. \A j \in Issued : /\ j \in Insn /\ WarpOf(j) \in Warp /\ KindOf(j).out \subseteq Reg
                        /\ KindOf(j).out # {} => IsLoad(j)
  BY KindFacts, InsnFacts, Zenon
<1>4. CompletedExact'
  BY <1>2 DEF BooksInv, CompletedExact
<1>5. ReservedExact' /\ WritersDisjoint'
  BY <1>1, KindSame DEF BooksInv, ReservedExact, WritersDisjoint
<1>6. PendingDue'
  <2> SUFFICES ASSUME NEW j \in Issued, NEW r \in KindOf(j).out, completed[j] = 0
               PROVE  m_pending_writes'[WarpOf(j)][r] = Due(j)'
    BY <1>1, KindSame DEF PendingDue
  <2>1. CASE j = i
    BY <2>1
  <2>2. CASE j # i
    <3>1. ~(WarpOf(j) = WarpOf(i) /\ r \in KindOf(i).out)
      BY <2>2 DEF BooksInv, WritersDisjoint
    <3>2. m_pending_writes'[WarpOf(j)][r] = m_pending_writes[WarpOf(j)][r]
      BY <1>3, <3>1
    <3>3. m_pending_writes[WarpOf(j)][r] = Due(j)
      BY DEF BooksInv, PendingDue
    <3>4. Due(j)' = Due(j)
      BY <1>3, <2>2, KindSame DEF Due
    <3> QED BY <3>2, <3>3, <3>4
  <2> QED BY <2>1, <2>2
<1>7. PendingReserved'
  <2>1. KindOf(i).out \subseteq reg_table[WarpOf(i)]
    BY BooksFacts
  <2> QED BY <2>1 DEF BooksInv, PendingReserved
<1>8. QED BY <1>4, <1>5, <1>6, <1>7 DEF BooksInv

\* An incomplete instruction completes and releases its registers.
LEMMA BooksComplete ==
  ASSUME TypeInv, BooksInv, UNCHANGED <<prog, issued>>, NEW i \in Issued, completed[i] = 0,
         completed' = [completed EXCEPT ![i] = @ + 1],
         reg_table' = [reg_table EXCEPT ![WarpOf(i)] = @ \ KindOf(i).out],
         \A j \in Issued : j # i /\ IsLoad(j) /\ ~Shared(j) => Left(j)' = Left(j),
         \A j \in Issued : j # i => (Finished(j)' <=> Finished(j)),
         Finished(i)',
         \A w \in Warp, r \in Reg : ~(w = WarpOf(i) /\ r \in KindOf(i).out) =>
           m_pending_writes'[w][r] = m_pending_writes[w][r],
         \A r \in KindOf(i).out : m_pending_writes'[WarpOf(i)][r] = 0
  PROVE  BooksInv'
<1>1. Issued' = Issued
  BY IssuedSame
<1>2. \A j \in Insn : j # i => (Finished(j)' <=> Finished(j))
  BY <1>1 DEF Finished
<1>3. \A j \in Issued : /\ j \in Insn /\ WarpOf(j) \in Warp /\ KindOf(j).out \subseteq Reg
                        /\ KindOf(j).out # {} => IsLoad(j)
  BY KindFacts, InsnFacts, Zenon
<1>4. /\ completed'[i] = 1
      /\ \A j \in Insn : j # i => completed'[j] = completed[j]
  BY <1>3 DEF TypeInv
<1>5. CompletedExact'
  BY <1>2, <1>4 DEF BooksInv, CompletedExact
<1>6. \A w \in Warp, r \in Reg :
        r \in reg_table'[w] <=> r \in reg_table[w] /\ ~(w = WarpOf(i) /\ r \in KindOf(i).out)
  BY <1>3 DEF TypeInv
<1>7. \A j \in Issued : completed'[j] = 0 <=> completed[j] = 0 /\ j # i
  BY <1>3, <1>4
<1>8. ReservedExact'
  <2> SUFFICES ASSUME NEW w \in Warp, NEW r \in Reg
               PROVE  r \in reg_table'[w] <=>
                        \E j \in Issued : WarpOf(j) = w /\ completed'[j] = 0 /\ r \in KindOf(j).out
    BY <1>1, KindSame DEF ReservedExact
  <2>1. r \in reg_table[w] <=>
          \E j \in Issued : WarpOf(j) = w /\ completed[j] = 0 /\ r \in KindOf(j).out
    BY DEF BooksInv, ReservedExact
  <2>2. \A j \in Issued : WarpOf(j) = w /\ completed[j] = 0 /\ r \in KindOf(j).out /\ j # i =>
          ~(w = WarpOf(i) /\ r \in KindOf(i).out)
    BY DEF BooksInv, WritersDisjoint
  <2> QED BY <1>6, <1>7, <2>1, <2>2
<1>9. WritersDisjoint'
  BY <1>1, <1>7, KindSame DEF BooksInv, WritersDisjoint
<1>10. PendingDue'
  <2> SUFFICES ASSUME NEW j \in Issued, NEW r \in KindOf(j).out, completed[j] = 0, j # i
               PROVE  m_pending_writes'[WarpOf(j)][r] = Due(j)'
    BY <1>1, <1>7, KindSame DEF PendingDue
  <2>1. ~(WarpOf(j) = WarpOf(i) /\ r \in KindOf(i).out)
    BY DEF BooksInv, WritersDisjoint
  <2>2. m_pending_writes'[WarpOf(j)][r] = m_pending_writes[WarpOf(j)][r]
    BY <1>3, <2>1
  <2>3. m_pending_writes[WarpOf(j)][r] = Due(j)
    BY DEF BooksInv, PendingDue
  <2>4. Due(j)' = Due(j)
    BY <1>3, KindSame DEF Due
  <2> QED BY <2>2, <2>3, <2>4
<1>11. PendingReserved'
  BY <1>6 DEF BooksInv, PendingReserved
<1>12. QED BY <1>5, <1>8, <1>9, <1>10, <1>11 DEF BooksInv

\* The instruction that a warp issues is nowhere yet.
LEMMA IssueFacts ==
  ASSUME IInv, NEW w \in Warp, IssueWarp(w), NEW i, i = <<w, issued[w] + 1>>
  PROVE  /\ i \in Insn /\ WarpOf(i) = w /\ i \notin Issued /\ Issued' = Issued \cup {i}
         /\ KindOf(i).out \subseteq Reg /\ KindOf(i).n \in 0 .. MaxAccess
         /\ issued' \in [Warp -> Nat] /\ \A v \in Warp : issued'[v] <= Len(prog[v])
         /\ i \notin collector /\ i # m_dispatch_reg /\ i # m_next_wb /\ ~InPipeline(i)
         /\ \A s \in 0 .. Stages - 1 : i # m_pipeline_reg[s]
         /\ \A a \in Access : Busy(a) => InsnOf(a) # i
<1>1. issued[w] < Len(prog[w]) /\ issued' = [issued EXCEPT ![w] = @ + 1]
  BY DEF IssueWarp
<1>2. issued \in [Warp -> Nat] /\ prog[w] \in Seq(Kind) /\ Len(prog[w]) <= MaxInsn /\ MaxInsn \in Nat
  BY ConfigAssumption DEF IInv, TypeInv
<1>3. /\ issued'[w] = issued[w] + 1 /\ \A v \in Warp : v # w => issued'[v] = issued[v]
      /\ issued[w] + 1 \in 1 .. MaxInsn /\ issued[w] + 1 <= Len(prog[w])
  BY <1>1, <1>2
<1>4. i \in Insn /\ WarpOf(i) = w /\ i \notin Issued /\ Issued' = Issued \cup {i}
  <2>1. i \in Insn /\ i[1] = w /\ i[2] = issued[w] + 1 /\ WarpOf(i) = w
    BY <1>3 DEF Insn, WarpOf
  <2>2. \A j \in Insn : j[1] \in Warp /\ j[2] \in Nat /\ (j[1] = w /\ j[2] = issued[w] + 1 => j = i)
    BY <1>2 DEF Insn
  <2>3. \A j \in Insn : j[2] <= issued'[j[1]] <=> j[2] <= issued[j[1]] \/ j = i
    <3> SUFFICES ASSUME NEW j \in Insn PROVE j[2] <= issued'[j[1]] <=> j[2] <= issued[j[1]] \/ j = i
      OBVIOUS
    <3>1. CASE j[1] = w
      <4>1. j[2] \in Nat /\ issued[w] \in Nat /\ issued'[j[1]] = issued[w] + 1
        BY <1>2, <1>3, <2>2, <3>1
      <4>2. j[2] <= issued[w] + 1 <=> j[2] <= issued[w] \/ j[2] = issued[w] + 1
        BY <4>1
      <4>3. j = i <=> j[2] = issued[w] + 1
        BY <2>1, <2>2, <3>1
      <4> QED BY <3>1, <4>1, <4>2, <4>3
    <3>2. CASE j[1] # w
      BY <1>3, <2>1, <2>2, <3>2
    <3> QED BY <3>1, <3>2
  <2>4. ~(issued[w] + 1 <= issued[w])
    BY <1>2
  <2> QED BY <2>1, <2>3, <2>4 DEF Issued
<1>5. KindOf(i).out \subseteq Reg /\ KindOf(i).n \in 0 .. MaxAccess
  <2>1. PICK k : k = issued[w] + 1
    OBVIOUS
  <2>2. k \in DOMAIN prog[w] /\ prog[w][k] \in Kind
    BY <1>2, <1>3, <2>1
  <2>3. prog[w][k].n <= MaxAccess
    BY <2>2, ConfigAssumption DEF IInv, TypeInv
  <2> QED BY <2>1, <2>2, <2>3, ConfigAssumption DEF KindOf, Kind
<1>6. issued' \in [Warp -> Nat] /\ \A v \in Warp : issued'[v] <= Len(prog[v])
  BY <1>1, <1>2, <1>3 DEF IInv, TypeInv
<1>7. /\ i \notin collector /\ i # m_dispatch_reg /\ i # m_next_wb
      /\ \A s \in 0 .. Stages - 1 : i # m_pipeline_reg[s]
      /\ \A a \in Access : Busy(a) => InsnOf(a) # i
  BY <1>4, InsnFacts
     DEF IInv, InsnInv, DispatchPlace, PipelinePlace, WritebackPlace, AccessInv, BusyIssued
<1>8. QED BY <1>4, <1>5, <1>6, <1>7 DEF InPipeline

LEMMA IssueWarpStep ==
  ASSUME IInv, NEW w \in Warp, IssueWarp(w)
  PROVE  IInv'
<1>1. PICK i : i = <<w, issued[w] + 1>>
  OBVIOUS
<1>2. /\ issued[w] < Len(prog[w])
      /\ KindOf(i).out \cap reg_table[w] = {}
      /\ issued' = [issued EXCEPT ![w] = @ + 1]
      /\ reg_table' = [reg_table EXCEPT ![w] = @ \cup KindOf(i).out]
      /\ collector' = collector \cup {i}
      /\ UNCHANGED <<prog, m_dispatch_reg, accessq, m_pipeline_reg, m_pending_writes, m_next_wb,
                     m_next_global, m_response_fifo, net, waits, ready, completed>>
  BY <1>1 DEF IssueWarp, wbVars, cacheVars
<1>3. /\ i \in Insn /\ WarpOf(i) = w /\ i \notin Issued /\ Issued' = Issued \cup {i}
      /\ KindOf(i).out \subseteq Reg
      /\ issued' \in [Warp -> Nat] /\ \A v \in Warp : issued'[v] <= Len(prog[v])
      /\ i \notin collector /\ i # m_dispatch_reg /\ i # m_next_wb
      /\ \A s \in 0 .. Stages - 1 : i # m_pipeline_reg[s]
      /\ \A a \in Access : Busy(a) => InsnOf(a) # i
  BY <1>1, IssueFacts
<1>4. TypeInv'
  BY <1>2, <1>3 DEF IInv, TypeInv
<1>5. InsnInv'
  <2>1. DispatchPlace'
    BY <1>2, <1>3, KindSame DEF IInv, InsnInv, DispatchPlace
  <2>2. PipelinePlace'
    BY <1>2, <1>3, KindSame DEF IInv, InsnInv, PipelinePlace
  <2>3. WritebackPlace'
    BY <1>2, <1>3, KindSame DEF IInv, InsnInv, WritebackPlace, InPipeline
  <2> QED BY <2>1, <2>2, <2>3 DEF InsnInv
<1>6. AccessInv'
  <2>1. \A a \in Access : Busy(a) => /\ InsnOf(a) \in Issued' \ collector'
                                     /\ InsnOf(a) = m_dispatch_reg' => accessq' < a[2]
    BY <1>2, <1>3 DEF IInv, AccessInv, BusyIssued
  <2> QED BY <1>2, <2>1, AccessFrame DEF IInv
<1>7. \A j \in Insn : Left(j)' = Left(j)
  BY <1>2, BusySame, LeftSame
<1>8. Left(i)' = 0
  <2>1. Cardinality(InFlight(i)) = 0
    BY <1>3, LeftFacts DEF IInv
  <2>2. Left(i) = 0
    BY <1>3, <2>1 DEF Left
  <2> QED BY <1>3, <1>7, <2>2
<1>9. \A j \in Insn : Finished(j)' <=> Finished(j)
  <2>1. \A j \in Insn : InPipeline(j)' <=> InPipeline(j)
    BY <1>2 DEF InPipeline
  <2>2. \A j \in Insn : j \in Issued' \ collector' <=> j \in Issued \ collector
    BY <1>2, <1>3
  <2> QED BY <1>2, <1>7, <2>1, <2>2, KindSame, Zenon DEF Finished
<1>10. completed[i] = 0
  BY <1>3 DEF IInv, BooksInv, CompletedExact, Finished
<1>11. \A v \in Warp : \A r : r \in reg_table'[v] <=> r \in reg_table[v] \/ (v = w /\ r \in KindOf(i).out)
  BY <1>2 DEF IInv, TypeInv
<1>12. BooksInv'
  <2>1. CompletedExact'
    BY <1>2, <1>9 DEF IInv, BooksInv, CompletedExact
  <2>2. ReservedExact'
    <3> SUFFICES ASSUME NEW v \in Warp, NEW r \in Reg
                 PROVE  r \in reg_table'[v] <=>
                          \E j \in Issued' : WarpOf(j) = v /\ completed[j] = 0 /\ r \in KindOf(j).out
      BY <1>2, KindSame DEF ReservedExact
    <3>1. r \in reg_table[v] <=>
            \E j \in Issued : WarpOf(j) = v /\ completed[j] = 0 /\ r \in KindOf(j).out
      BY DEF IInv, BooksInv, ReservedExact
    <3> QED BY <1>3, <1>10, <1>11, <3>1
  <2>3. \A j \in Issued : WarpOf(j) = w /\ completed[j] = 0 => KindOf(j).out \cap KindOf(i).out = {}
    BY <1>2, BooksFacts DEF IInv
  <2>4. WritersDisjoint'
    <3>1. \A j, k \in Issued : WarpOf(j) = WarpOf(k) /\ completed[j] = 0 /\ completed[k] = 0 /\ j # k
            => KindOf(j).out \cap KindOf(k).out = {}
      BY DEF IInv, BooksInv, WritersDisjoint
    <3> QED BY <1>2, <1>3, <2>3, <3>1, KindSame DEF WritersDisjoint
  <2>5. \A j \in Issued : \A r \in KindOf(j).out :
          completed[j] = 0 => m_pending_writes[WarpOf(j)][r] = Due(j)'
    <3>1. \A j \in Issued : Due(j)' = Due(j)
      BY <1>2, <1>7, KindSame DEF Due, Issued
    <3> QED BY <3>1 DEF IInv, BooksInv, PendingDue
  <2>6. \A r \in KindOf(i).out : m_pending_writes[WarpOf(i)][r] = Due(i)'
    <3>1. KindOf(i).out \subseteq Reg /\ Due(i)' = 0
      BY <1>8, <1>3 DEF Due
    <3>2. \A r \in KindOf(i).out : m_pending_writes[w][r] = 0
      BY <1>2, <3>1 DEF IInv, BooksInv, PendingReserved
    <3> QED BY <1>3, <3>1, <3>2
  <2>7. PendingDue'
    BY <1>2, <1>3, <2>5, <2>6, KindSame DEF PendingDue
  <2>8. PendingReserved'
    BY <1>2, <1>11 DEF IInv, BooksInv, PendingReserved
  <2> QED BY <2>1, <2>2, <2>4, <2>7, <2>8 DEF BooksInv
<1>13. QED BY <1>4, <1>5, <1>6, <1>12 DEF IInv

LEMMA IssueStep ==
  ASSUME IInv, NEW i \in Insn, Issue(i)
  PROVE  IInv'
<1>1. /\ i \in collector /\ m_dispatch_reg = NoInsn
      /\ collector' = collector \ {i} /\ m_dispatch_reg' = i /\ accessq' = KindOf(i).n
      /\ m_pending_writes' = IF IsLoad(i) /\ ~Shared(i) THEN Pend(i, KindOf(i).n) ELSE m_pending_writes
      /\ UNCHANGED <<prog, issued, reg_table, m_pipeline_reg, m_next_wb, m_next_global,
                     m_response_fifo, net, waits, ready, completed>>
  BY DEF Issue, wbVars, cacheVars
<1>2. /\ i \in Issued /\ NoInsn \notin Insn /\ Issued' = Issued
      /\ KindOf(i).n \in 0 .. MaxAccess /\ KindOf(i).n \in Int
      /\ KindOf(i).out \subseteq Reg /\ (~IsLoad(i) => KindOf(i).out = {})
      /\ WarpOf(i) \in Warp
  <2>1. i \in Issued /\ Issued' = Issued
    BY <1>1, IssuedSame DEF IInv, InsnInv, DispatchPlace
  <2> QED BY <2>1, KindFacts, InsnFacts DEF IInv
<1>3. /\ i # m_next_wb
      /\ \A s \in 0 .. Stages - 1 : i # m_pipeline_reg[s]
      /\ \A a \in Access : Busy(a) => InsnOf(a) # i
  BY <1>1, InsnFacts DEF IInv, InsnInv, PipelinePlace, WritebackPlace, AccessInv, BusyIssued
<1>4. \A w \in Warp, r \in Reg :
        m_pending_writes'[w][r] =
          IF w = WarpOf(i) /\ r \in KindOf(i).out /\ ~Shared(i)
            THEN m_pending_writes[w][r] + KindOf(i).n ELSE m_pending_writes[w][r]
  <2>1. m_pending_writes \in [Warp -> [Reg -> Int]]
    BY DEF IInv, TypeInv
  <2>2. CASE IsLoad(i) /\ ~Shared(i)
    <3>1. m_pending_writes' = Pend(i, KindOf(i).n)
      BY <1>1, <2>2
    <3> QED BY <1>2, <2>2, <3>1, PendFacts DEF IInv
  <2>3. CASE ~(IsLoad(i) /\ ~Shared(i))
    BY <1>1, <1>2, <2>1, <2>3
  <2> QED BY <2>2, <2>3
<1>5. TypeInv'
  <2>1. m_pending_writes' \in [Warp -> [Reg -> Int]]
    <3>1. m_pending_writes \in [Warp -> [Reg -> Int]]
      BY DEF IInv, TypeInv
    <3> QED BY <1>1, <1>2, <3>1, PendFacts DEF IInv
  <2> QED BY <1>1, <1>2, <2>1 DEF IInv, TypeInv
<1>6. InsnInv'
  <2>1. DispatchPlace'
    BY <1>1, <1>2, KindSame DEF IInv, InsnInv, DispatchPlace
  <2>2. PipelinePlace'
    BY <1>1, <1>2, <1>3, KindSame DEF IInv, InsnInv, PipelinePlace
  <2>3. WritebackPlace'
    BY <1>1, <1>2, <1>3, KindSame DEF IInv, InsnInv, WritebackPlace, InPipeline
  <2> QED BY <2>1, <2>2, <2>3 DEF InsnInv
<1>7. AccessInv'
  <2>1. \A a \in Access : Busy(a) => /\ InsnOf(a) \in Issued' \ collector'
                                     /\ InsnOf(a) = m_dispatch_reg' => accessq' < a[2]
    BY <1>1, <1>2, <1>3 DEF IInv, AccessInv, BusyIssued
  <2> QED BY <1>1, <2>1, AccessFrame DEF IInv
<1>8. \A j \in Insn : j # i => Left(j)' = Left(j)
  BY <1>1, <1>2, BusySame, LeftSame
<1>9. Left(i) = 0 /\ Left(i)' = KindOf(i).n
  <2>1. Cardinality(InFlight(i)) = 0
    BY <1>3, LeftFacts DEF IInv
  <2>2. InFlight(i)' = InFlight(i)
    BY <1>1, BusySame, InFlightSame
  <2> QED BY <1>1, <1>2, <1>3, <2>1, <2>2 DEF Left
<1>10. \A j \in Issued : Finished(j)' <=> Finished(j)
  <2>1. \A j \in Insn : InPipeline(j)' <=> InPipeline(j)
    BY <1>1 DEF InPipeline
  <2>2. ~Finished(i) /\ ~Finished(i)'
    BY <1>1 DEF Finished
  <2>3. ASSUME NEW j \in Issued, j # i PROVE Finished(j)' <=> Finished(j)
    <3>1. /\ j \in Insn /\ j # m_dispatch_reg /\ j # m_dispatch_reg' /\ Left(j)' = Left(j)
          /\ (j \in Issued' \ collector' <=> j \in Issued \ collector)
      BY <1>1, <1>2, <1>8, <2>3 DEF Issued
    <3> QED BY <1>1, <2>1, <3>1, KindSame, Zenon DEF Finished
  <2> QED BY <2>2, <2>3
<1>11. completed[i] = 0
  BY <1>1, <1>2, BooksFacts DEF IInv, Finished
<1>12. \A r \in KindOf(i).out : m_pending_writes'[WarpOf(i)][r] = Due(i)'
  <2>1. \A r \in KindOf(i).out : m_pending_writes[WarpOf(i)][r] = 0
    BY <1>2, <1>9, <1>11 DEF IInv, BooksInv, PendingDue, Due
  <2> QED BY <1>1, <1>2, <1>4, <1>9, <2>1, KindSame DEF Due
<1>13. BooksInv'
  <2>1. \A j \in Issued : j # i /\ IsLoad(j) /\ ~Shared(j) => Left(j)' = Left(j)
    BY <1>8 DEF Issued
  <2>2. \A w \in Warp, r \in Reg : ~(w = WarpOf(i) /\ r \in KindOf(i).out) =>
           m_pending_writes'[w][r] = m_pending_writes[w][r]
    BY <1>4
  <2> QED BY <1>1, <1>2, <1>10, <1>11, <1>12, <2>1, <2>2, BooksProgress DEF IInv
<1>14. QED BY <1>5, <1>6, <1>7, <1>13 DEF IInv

\* What both cases of WriteBack share
LEMMA WriteBackPlaces ==
  ASSUME IInv, NEW i \in Insn, i = m_next_wb, m_next_wb' = NoInsn,
         UNCHANGED <<prog, issued, collector, m_dispatch_reg, accessq, m_pipeline_reg,
                     m_next_global, m_response_fifo, net, waits, ready>>
  PROVE  /\ InsnInv' /\ AccessInv' /\ Issued' = Issued
         /\ \A j \in Issued : j # i => Left(j)' = Left(j) /\ (Finished(j)' <=> Finished(j))
         /\ Left(i) \in Nat /\ Left(i) > 0 /\ Left(i)' = Left(i) - 1
         /\ \A j \in Insn : InPipeline(j)' <=> InPipeline(j)
<1>1. Issued' = Issued /\ NoInsn \notin Insn
  BY IssuedSame, InsnFacts
<1>2. InsnInv'
  BY <1>1, KindSame DEF IInv, InsnInv, DispatchPlace, PipelinePlace, WritebackPlace
<1>3. AccessInv'
  BY <1>1, AccessFrame DEF IInv, AccessInv, BusyIssued
<1>4. \A j \in Insn : InPipeline(j)' <=> InPipeline(j)
  BY DEF InPipeline
<1>5. \A j \in Insn : j # i => Left(j)' = Left(j)
  BY <1>1, BusySame, LeftSame
<1>6. \A j \in Issued : j # i => Left(j)' = Left(j) /\ (Finished(j)' <=> Finished(j))
  <2>1. \A j \in Issued : j \in Insn /\ j # NoInsn
    BY <1>1 DEF Issued
  <2> QED BY <1>1, <1>4, <1>5, <2>1, FinishedSame
<1>7. Left(i) \in Nat /\ Left(i) > 0 /\ Left(i)' = Left(i) - 1
  <2>1. InFlight(i)' = InFlight(i)
    BY BusySame, InFlightSame
  <2>2. Cardinality(InFlight(i)) \in Nat /\ accessq \in Nat
    BY InFlightFinite, ConfigAssumption DEF IInv, TypeInv
  <2> QED BY <1>1, <2>1, <2>2 DEF Left
<1>8. QED BY <1>1, <1>2, <1>3, <1>4, <1>6, <1>7

LEMMA WriteBackStep ==
  ASSUME IInv, m_next_wb # NoInsn, WriteBack,
         UNCHANGED <<prog, issued, collector, m_dispatch_reg, accessq, m_pipeline_reg,
                     m_next_global, m_response_fifo, net, waits, ready>>
  PROVE  IInv'
<1>1. PICK i \in Insn : i = m_next_wb
  BY DEF IInv, TypeInv
<1>2. PICK w, out, free : /\ w = WarpOf(i) /\ out = KindOf(i).out
                          /\ free = {r \in out : Shared(i) \/ Pend(i, -1)[w][r] = 0}
  OBVIOUS
<1>3. /\ m_next_wb' = NoInsn
      /\ m_pending_writes' = IF Shared(i) THEN m_pending_writes ELSE Pend(i, -1)
      /\ reg_table' = [reg_table EXCEPT ![w] = @ \ free]
      /\ completed' = IF free # {} THEN [completed EXCEPT ![i] = @ + 1] ELSE completed
  BY <1>1, <1>2 DEF WriteBack
<1>4. /\ i \in Issued \ collector /\ IsLoad(i) /\ w \in Warp /\ out \subseteq Reg
      /\ Shared(i) => i # m_dispatch_reg /\ ~InPipeline(i)
      /\ ~Shared(i) => KindOf(i).n > 0
  <2>1. /\ i \in Issued \ collector /\ IsLoad(i)
        /\ Shared(i) => i # m_dispatch_reg /\ ~InPipeline(i)
        /\ ~Shared(i) => KindOf(i).n > 0
    BY <1>1, InsnFacts DEF IInv, InsnInv, WritebackPlace
  <2> QED BY <1>2, <2>1, KindFacts, InsnFacts DEF IInv
<1>5. /\ InsnInv' /\ AccessInv' /\ Issued' = Issued
      /\ \A j \in Issued : j # i => Left(j)' = Left(j) /\ (Finished(j)' <=> Finished(j))
      /\ Left(i) \in Nat /\ Left(i) > 0 /\ Left(i)' = Left(i) - 1
      /\ \A j \in Insn : InPipeline(j)' <=> InPipeline(j)
  BY <1>1, <1>3, WriteBackPlaces
<1>6. /\ Pend(i, -1) \in [Warp -> [Reg -> Int]]
      /\ \A v \in Warp, r \in Reg :
           Pend(i, -1)[v][r] = IF v = w /\ r \in out THEN m_pending_writes[v][r] + (-1)
                                                     ELSE m_pending_writes[v][r]
  BY <1>2, <1>4, PendFacts DEF IInv
<1>7. TypeInv'
  <2>1. reg_table' \in [Warp -> SUBSET Reg] /\ completed' \in [Insn -> Int]
    BY <1>1, <1>3, <1>4 DEF IInv, TypeInv
  <2>2. m_pending_writes' \in [Warp -> [Reg -> Int]] /\ m_next_wb' \in Insn \cup {NoInsn}
    BY <1>3, <1>6 DEF IInv, TypeInv
  <2> QED BY <2>1, <2>2 DEF IInv, TypeInv
<1>8. out # {} => ~Finished(i) /\ completed[i] = 0
  <2>1. out # {} => ~Finished(i)
    BY <1>1, <1>2, <1>4, <1>5 DEF Finished
  <2> QED BY <1>4, <2>1, BooksFacts DEF IInv
<1>9. \A v \in Warp, r \in Reg : ~(v = w /\ r \in out) =>
        m_pending_writes'[v][r] = m_pending_writes[v][r]
  BY <1>3, <1>6
<1>10. ASSUME ~Shared(i), NEW r \in out
       PROVE  m_pending_writes'[w][r] = Left(i)' /\ Pend(i, -1)[w][r] = Left(i)'
  <2>1. m_pending_writes[w][r] = Left(i)
    BY <1>2, <1>4, <1>8, <1>10 DEF IInv, BooksInv, PendingDue, Due
  <2>2. Pend(i, -1)[w][r] = m_pending_writes[w][r] + (-1)
    BY <1>4, <1>6
  <2> QED BY <1>3, <1>5, <1>10, <2>1, <2>2
<1>11. BooksInv'
  <2>1. CASE free = {}
    <3>1. completed' = completed /\ reg_table' = reg_table
      BY <1>3, <1>4, <2>1 DEF IInv, TypeInv
    <3>2. Shared(i) => out = {}
      BY <1>2, <2>1
    <3>3. Finished(i)' <=> Finished(i)
      <4>1. CASE Shared(i)
        BY <1>2, <1>4, <3>2, <4>1, KindSame DEF Finished
      <4>2. CASE ~Shared(i) /\ out = {}
        BY <1>2, <1>4, <1>5, <4>2, KindSame DEF Finished
      <4>3. CASE ~Shared(i) /\ out # {}
        <5>1. Left(i)' # 0
          BY <1>2, <1>10, <2>1, <4>3
        <5>2. ~Finished(i)'
          BY <1>2, <1>4, <4>3, <5>1, KindSame DEF Finished
        <5> QED BY <1>8, <4>3, <5>2
      <4> QED BY <4>1, <4>2, <4>3
    <3>4. \A r \in KindOf(i).out : m_pending_writes'[WarpOf(i)][r] = Due(i)'
      BY <1>2, <1>10, <3>2, KindSame DEF Due
    <3>5. \A j \in Issued : Finished(j)' <=> Finished(j)
      BY <1>5, <3>3
    <3> QED BY <1>2, <1>4, <1>5, <1>8, <1>9, <3>1, <3>4, <3>5, BooksProgress DEF IInv
  <2>2. CASE free # {}
    <3>1. free = out /\ out # {} /\ (~Shared(i) => Left(i)' = 0)
      <4>1. CASE Shared(i)
        BY <1>2, <2>2, <4>1
      <4>2. CASE ~Shared(i)
        BY <1>2, <1>10, <2>2, <4>2
      <4> QED BY <4>1, <4>2
    <3>2. ~Shared(i) => i # m_dispatch_reg
      <4> SUFFICES ASSUME ~Shared(i), i = m_dispatch_reg PROVE FALSE
        OBVIOUS
      <4>1. m_dispatch_reg' = i /\ Left(i)' = 0 /\ accessq' = accessq /\ m_next_wb' # i
        BY <1>3, <3>1, InsnFacts
      <4>2. Cardinality(InFlight(i)') \in Nat /\ accessq \in Nat
        <5>1. InFlight(i)' = InFlight(i)
          BY BusySame, InFlightSame
        <5> QED BY <5>1, InFlightFinite, ConfigAssumption DEF IInv, TypeInv
      <4>3. accessq = 0
        BY <4>1, <4>2 DEF Left
      <4>4. KindOf(i).n = 0
        BY <4>3, InsnFacts DEF IInv, InsnInv, DispatchPlace
      <4> QED BY <1>4, <4>4
    <3>3. Finished(i)'
      <4>1. i \in Issued' \ collector' /\ i # m_dispatch_reg' /\ i # m_next_wb'
        BY <1>3, <1>4, <1>5, <3>2, InsnFacts
      <4>2. Shared(i) => ~InPipeline(i)'
        BY <1>4, <1>5
      <4> QED BY <1>2, <3>1, <4>1, <4>2, KindSame DEF Finished
    <3>4. \A r \in KindOf(i).out : m_pending_writes'[WarpOf(i)][r] = 0
      <4>1. CASE Shared(i)
        BY <1>2, <1>3, <1>4, <1>8, <4>1 DEF IInv, BooksInv, PendingDue, Due
      <4>2. CASE ~Shared(i)
        BY <1>2, <1>10, <3>1, <4>2
      <4> QED BY <4>1, <4>2
    <3>5. /\ completed' = [completed EXCEPT ![i] = @ + 1]
          /\ reg_table' = [reg_table EXCEPT ![WarpOf(i)] = @ \ KindOf(i).out]
          /\ completed[i] = 0 /\ i \in Issued
      BY <1>2, <1>3, <1>4, <1>8, <2>2, <3>1
    <3> QED BY <1>2, <1>5, <1>9, <3>3, <3>4, <3>5, BooksComplete DEF IInv
  <2> QED BY <2>1, <2>2
<1>12. QED BY <1>5, <1>7, <1>11 DEF IInv

\* The dispatched instruction stays or leaves, with its pending writes exact.
LEMMA DispatchBooks ==
  ASSUME IInv, NEW i \in Insn, i = m_dispatch_reg, UNCHANGED <<prog, issued, collector, m_next_wb>>,
         ~(Shared(i) /\ IsLoad(i)),
         \/ UNCHANGED <<completed, reg_table, m_inst_in_pipeline, m_dispatch_reg, m_pipeline_reg>>
         \/ Leave(i),
         \A j \in Issued : j # i => Left(j)' = Left(j),
         \A w \in Warp, r \in Reg : ~(w = WarpOf(i) /\ r \in KindOf(i).out) =>
           m_pending_writes'[w][r] = m_pending_writes[w][r],
         \A r \in KindOf(i).out : m_pending_writes'[WarpOf(i)][r] = Left(i)'
  PROVE  BooksInv' /\ reg_table' \in [Warp -> SUBSET Reg] /\ completed' \in [Insn -> Int]
<1>1. /\ i \in Issued \ collector /\ Issued' = Issued /\ NoInsn \notin Insn /\ WarpOf(i) \in Warp
      /\ KindOf(i).out \subseteq Reg /\ (~IsLoad(i) => KindOf(i).out = {})
  <2>1. i \in Issued \ collector /\ NoInsn \notin Insn /\ Issued' = Issued
    BY IssuedSame, InsnFacts DEF IInv, InsnInv, DispatchPlace
  <2> QED BY <2>1, KindFacts, InsnFacts DEF IInv
<1>2. completed[i] = 0 /\ ~Finished(i)
  BY <1>1, BooksFacts DEF IInv, Finished
<1>3. /\ reg_table \in [Warp -> SUBSET Reg] /\ completed \in [Insn -> Int]
      /\ m_pipeline_reg' = m_pipeline_reg /\ m_dispatch_reg' \in {i, NoInsn}
  BY DEF IInv, TypeInv, Leave
<1>4. \A j \in Issued : j # i => (Finished(j)' <=> Finished(j))
  <2> SUFFICES ASSUME NEW j \in Issued, j # i PROVE Finished(j)' <=> Finished(j)
    OBVIOUS
  <2>1. /\ j \in Insn /\ j # m_dispatch_reg /\ j # m_dispatch_reg' /\ Left(j)' = Left(j)
        /\ (j \in Issued' \ collector' <=> j \in Issued \ collector)
        /\ (InPipeline(j)' <=> InPipeline(j)) /\ m_next_wb' = m_next_wb
    BY <1>1, <1>3 DEF Issued, InPipeline
  <2> QED BY <2>1, KindSame, Zenon DEF Finished
<1>5. \A r \in KindOf(i).out : m_pending_writes'[WarpOf(i)][r] = Due(i)'
  BY <1>1, KindSame DEF Due
<1>6. ASSUME UNCHANGED <<completed, reg_table>>, ~Finished(i)' PROVE BooksInv'
  <2>1. \A j \in Issued : Finished(j)' <=> Finished(j)
    BY <1>2, <1>4, <1>6
  <2> QED BY <1>1, <1>2, <1>5, <1>6, <2>1, BooksProgress DEF IInv
<1>7. ASSUME completed' = [completed EXCEPT ![i] = @ + 1],
             reg_table' = [reg_table EXCEPT ![WarpOf(i)] = @ \ KindOf(i).out],
             m_dispatch_reg' = NoInsn, \A r \in KindOf(i).out : m_pending_writes'[WarpOf(i)][r] = 0
      PROVE  BooksInv'
  <2>1. IsLoad(i) => KindOf(i).out = {} \/ Left(i)' = 0
    BY <1>7
  <2>2. Finished(i)'
    BY <1>1, <1>7, <2>1, KindSame DEF Finished
  <2> QED BY <1>1, <1>2, <1>4, <1>7, <2>2, BooksComplete DEF IInv
<1>8. CASE UNCHANGED <<completed, reg_table, m_dispatch_reg>>
  <2>1. ~Finished(i)'
    BY <1>8 DEF Finished
  <2> QED BY <1>3, <1>6, <1>8, <2>1
<1>9. CASE Leave(i)
  <2>1. m_dispatch_reg' = NoInsn
    BY <1>9 DEF Leave
  <2>2. CASE IsLoad(i) /\ \A r \in KindOf(i).out : m_pending_writes'[WarpOf(i)][r] = 0
    <3>1. /\ completed' = [completed EXCEPT ![i] = @ + 1]
          /\ reg_table' = [reg_table EXCEPT ![WarpOf(i)] = @ \ KindOf(i).out]
      BY <1>9, <2>2 DEF Leave
    <3> QED BY <1>1, <1>3, <1>7, <2>1, <2>2, <3>1
  <2>3. CASE IsLoad(i) /\ ~\A r \in KindOf(i).out : m_pending_writes'[WarpOf(i)][r] = 0
    <3>1. UNCHANGED <<completed, reg_table>>
      BY <1>9, <2>3 DEF Leave
    <3>2. KindOf(i).out # {} /\ Left(i)' # 0 /\ IsLoad(i) /\ ~Shared(i)
      BY <2>3
    <3>3. ~Finished(i)'
      BY <3>2, KindSame DEF Finished
    <3> QED BY <1>3, <1>6, <3>1, <3>3
  <2>4. CASE ~IsLoad(i)
    <3>1. completed' = [completed EXCEPT ![i] = @ + 1] /\ reg_table' = reg_table
      BY <1>9, <2>4 DEF Leave
    <3>2. KindOf(i).out = {}
      BY <1>1, <2>4
    <3>3. reg_table' = [reg_table EXCEPT ![WarpOf(i)] = @ \ KindOf(i).out]
      BY <1>1, <1>3, <3>1, <3>2
    <3>4. BooksInv'
      BY <1>7, <2>1, <3>1, <3>2, <3>3
    <3>5. reg_table' \in [Warp -> SUBSET Reg] /\ completed' \in [Insn -> Int]
      BY <1>3, <3>1
    <3> QED BY <3>4, <3>5
  <2> QED BY <2>2, <2>3, <2>4
<1>10. QED BY <1>8, <1>9

\* The dispatched instruction has no access and leaves.
LEMMA LeaveStep ==
  ASSUME IInv, NEW i \in Insn, i = m_dispatch_reg, Leave(i), ~(Shared(i) /\ IsLoad(i)),
         Shared(i) \/ accessq = 0,
         UNCHANGED <<prog, issued, collector, accessq, m_pending_writes, m_next_wb, m_next_global,
                     m_response_fifo, net, waits, ready>>
  PROVE  IInv'
<1>1. m_dispatch_reg' = NoInsn /\ m_pipeline_reg' = m_pipeline_reg /\ NoInsn \notin Insn
  BY InsnFacts DEF Leave
<1>2. Issued' = Issued /\ i \in Issued \ collector
  BY <1>1, IssuedSame DEF IInv, InsnInv, DispatchPlace
<1>3. \A j \in Insn : j # i \/ accessq = 0 => Left(j)' = Left(j)
  BY <1>1, BusySame, LeftSame
<1>4. \A r \in KindOf(i).out : m_pending_writes'[WarpOf(i)][r] = Left(i)'
  <2>1. KindOf(i).out # {} => IsLoad(i) /\ ~Shared(i) /\ accessq = 0
    BY <1>2, KindFacts DEF IInv
  <2>2. completed[i] = 0
    BY <1>2, BooksFacts DEF IInv, Finished
  <2>3. \A r \in KindOf(i).out : m_pending_writes[WarpOf(i)][r] = Left(i)
    BY <1>2, <2>1, <2>2 DEF IInv, BooksInv, PendingDue, Due
  <2> QED BY <1>3, <2>1, <2>3
<1>5. BooksInv' /\ reg_table' \in [Warp -> SUBSET Reg] /\ completed' \in [Insn -> Int]
  <2>1. \A j \in Issued : j # i => Left(j)' = Left(j)
    BY <1>3 DEF Issued
  <2> QED BY <1>4, <2>1, DispatchBooks
<1>6. InsnInv'
  <2>1. DispatchPlace'
    BY <1>1, <1>2 DEF IInv, InsnInv, DispatchPlace
  <2>2. PipelinePlace'
    BY <1>1, <1>2, KindSame DEF IInv, InsnInv, PipelinePlace
  <2>3. WritebackPlace'
    BY <1>1, <1>2, KindSame DEF IInv, InsnInv, WritebackPlace, InPipeline
  <2> QED BY <2>1, <2>2, <2>3 DEF InsnInv
<1>7. AccessInv'
  <2>1. \A a \in Access : Busy(a) => /\ InsnOf(a) \in Issued' \ collector'
                                     /\ InsnOf(a) = m_dispatch_reg' => accessq' < a[2]
    BY <1>1, <1>2, InsnFacts DEF IInv, AccessInv, BusyIssued
  <2> QED BY <2>1, AccessFrame DEF IInv
<1>8. TypeInv'
  BY <1>1, <1>5 DEF IInv, TypeInv
<1>9. QED BY <1>5, <1>6, <1>7, <1>8 DEF IInv

\* A shared-memory load enters the pipeline.
LEMMA EnterStep ==
  ASSUME IInv, NEW i \in Insn, i = m_dispatch_reg, EnterPipeline(i), Shared(i), IsLoad(i),
         UNCHANGED <<prog, issued, collector, accessq, m_pending_writes, m_next_wb, m_next_global,
                     m_response_fifo, net, waits, ready>>
  PROVE  IInv'
<1>1. CASE m_pipeline_reg[Stages - 1] # NoInsn
  <2>1. UNCHANGED placeVars
    BY <1>1 DEF EnterPipeline, placeVars
  <2> QED BY <2>1, NothingMoves
<1>2. CASE m_pipeline_reg[Stages - 1] = NoInsn
  <2>1. /\ m_pipeline_reg' = [m_pipeline_reg EXCEPT ![2] = i] /\ m_pipeline_reg[2] = NoInsn
        /\ m_dispatch_reg' = NoInsn /\ NoInsn \notin Insn
        /\ UNCHANGED <<completed, reg_table>>
    BY <1>2, InsnFacts DEF EnterPipeline, Stages
  <2>2. PICK p, q : p = m_pipeline_reg /\ q = m_pipeline_reg'
    OBVIOUS
  <2>3. /\ p \in [{0, 1, 2} -> Insn \cup {NoInsn}] /\ q \in [{0, 1, 2} -> Insn \cup {NoInsn}]
        /\ q[0] = p[0] /\ q[1] = p[1] /\ q[2] = i /\ p[2] = NoInsn
    BY <2>1, <2>2, StageFacts DEF IInv, TypeInv
  <2>4. Issued' = Issued /\ i \in Issued \ collector
    BY <2>1, IssuedSame DEF IInv, InsnInv, DispatchPlace
  <2>5. /\ \A s, t \in {0, 1, 2} : p[s] = p[t] /\ s # t => p[s] = NoInsn
        /\ \A t \in {0, 1, 2} : p[t] # NoInsn =>
             p[t] \in Issued \ collector /\ p[t] # i /\ IsLoad(p[t]) /\ Shared(p[t])
    BY <2>2, StageFacts DEF IInv, InsnInv, PipelinePlace
  <2>6. i # m_next_wb
    BY <2>1 DEF IInv, InsnInv, WritebackPlace
  <2>7. \A j \in Insn : InPipeline(j)' <=> InPipeline(j) \/ j = i
    BY <2>1, PipelineEnter DEF IInv
  <2>8. TypeInv'
    BY <2>1, <2>2, <2>3, StageFacts DEF IInv, TypeInv
  <2>9. InsnInv'
    <3>1. DispatchPlace'
      BY <2>1, <2>4 DEF IInv, InsnInv, DispatchPlace
    <3>2. PipelinePlace'
      <4>1. /\ \A s, t \in {0, 1, 2} : q[s] = q[t] /\ s # t => q[s] = NoInsn
            /\ \A t \in {0, 1, 2} : q[t] # NoInsn =>
                 q[t] \in Issued \ collector /\ IsLoad(q[t]) /\ Shared(q[t])
        BY <2>3, <2>4, <2>5
      <4> QED BY <2>1, <2>2, <2>4, <4>1, KindSame, StageFacts DEF PipelinePlace
    <3>3. WritebackPlace'
      <4>1. m_next_wb # NoInsn => m_next_wb \in Insn
        BY DEF IInv, TypeInv
      <4>2. m_next_wb # NoInsn => (InPipeline(m_next_wb)' <=> InPipeline(m_next_wb))
        <5>1. PICK j : j = m_next_wb
          OBVIOUS
        <5>2. m_next_wb' = j
          BY <5>1
        <5>3. j # NoInsn => (InPipeline(j)' <=> InPipeline(j))
          BY <2>6, <2>7, <4>1, <5>1
        <5> QED BY <5>1, <5>2, <5>3 DEF InPipeline
      <4> QED BY <2>1, <2>4, <4>1, <4>2, KindSame DEF IInv, InsnInv, WritebackPlace
    <3> QED BY <3>1, <3>2, <3>3 DEF InsnInv
  <2>10. AccessInv'
    <3>1. \A a \in Access : Busy(a) => /\ InsnOf(a) \in Issued' \ collector'
                                       /\ InsnOf(a) = m_dispatch_reg' => accessq' < a[2]
      BY <2>1, <2>4, InsnFacts DEF IInv, AccessInv, BusyIssued
    <3> QED BY <3>1, AccessFrame DEF IInv
  <2>11. \A j \in Issued : j \in Insn /\ (j # i => Left(j)' = Left(j))
    <3>1. \A j \in Insn : j # i => Left(j)' = Left(j)
      BY <2>1, BusySame, LeftSame
    <3> QED BY <3>1 DEF Issued
  <2>12. \A j \in Issued : Finished(j)' <=> Finished(j)
    <3>1. ~Finished(i) /\ ~Finished(i)'
      BY <2>7, KindSame DEF Finished
    <3>2. ASSUME NEW j \in Issued, j # i PROVE Finished(j)' <=> Finished(j)
      <4>1. /\ j # m_dispatch_reg /\ j # m_dispatch_reg' /\ Left(j)' = Left(j)
            /\ (j \in Issued' \ collector' <=> j \in Issued \ collector)
            /\ (InPipeline(j)' <=> InPipeline(j)) /\ m_next_wb' = m_next_wb
        BY <2>1, <2>4, <2>7, <2>11, <3>2
      <4> QED BY <4>1, KindSame, Zenon DEF Finished
    <3> QED BY <3>1, <3>2
  <2>13. BooksInv'
    BY <2>1, <2>11, <2>12, BooksFrame DEF IInv
  <2> QED BY <2>8, <2>9, <2>10, <2>13 DEF IInv
<1>3. QED BY <1>1, <1>2

\* One access of the dispatched instruction is taken.
LEMMA AccessLeft ==
  ASSUME IInv, NEW i \in Insn, i = m_dispatch_reg, ~Shared(i), accessq # 0,
         accessq' = accessq - 1, UNCHANGED <<prog, m_next_wb>>,
         m_dispatch_reg' = i \/ (m_dispatch_reg' = NoInsn /\ accessq = 1),
         NEW a \in Access, a = <<i, accessq>>, \A b \in Access : b # a => (Busy(b)' <=> Busy(b))
  PROVE  /\ ~Busy(a) /\ InsnOf(a) = i
         /\ \A j \in Insn : j # i => Left(j)' = Left(j)
         /\ Left(i) \in Nat /\ Left(i)' = IF Busy(a)' THEN Left(i) ELSE Left(i) - 1
<1>1. NoInsn \notin Insn /\ InsnOf(a) = i /\ a[2] = accessq /\ accessq \in Nat
  BY InsnFacts, ConfigAssumption DEF IInv, TypeInv, InsnOf
<1>2. ~Busy(a)
  BY <1>1 DEF IInv, AccessInv, BusyIssued
<1>3. ASSUME NEW j \in Insn, j # i PROVE Left(j)' = Left(j)
  <2>1. \A b \in Access : InsnOf(b) = j => (Busy(b)' <=> Busy(b))
    BY <1>1, <1>3
  <2>2. m_dispatch_reg # j /\ m_dispatch_reg' # j
    BY <1>1, <1>3
  <2> QED BY <2>1, <2>2, LeftSame
<1>4. Cardinality(InFlight(i)) \in Nat
  BY InFlightFinite
<1>5. Cardinality(InFlight(i)') = Cardinality(InFlight(i)) + (IF Busy(a)' THEN 1 ELSE 0)
  <2>1. CASE Busy(a)'
    BY <1>1, <1>2, <2>1, InFlightPlus
  <2>2. CASE ~Busy(a)'
    <3>1. InFlight(i)' = InFlight(i)
      BY <1>2, <2>2, InFlightSame
    <3> QED BY <1>4, <2>2, <3>1
  <2> QED BY <2>1, <2>2
<1>6. (IF m_dispatch_reg' = i THEN accessq' ELSE 0) = accessq - 1
  BY <1>1
<1>7. Left(i) \in Nat /\ Left(i)' = IF Busy(a)' THEN Left(i) ELSE Left(i) - 1
  BY <1>1, <1>4, <1>5, <1>6 DEF Left
<1>8. QED BY <1>1, <1>2, <1>3, <1>7

LEMMA AccessPlaces ==
  ASSUME IInv, NEW i \in Insn, i = m_dispatch_reg, ~Shared(i), accessq # 0,
         NEW a \in Access, a = <<i, accessq>>, ~Busy(a), prog' = prog,
         UNCHANGED <<m_response_fifo, m_next_global>>,
         AccessHit(a) \/ AccessMiss(a) \/ AccessSent(a)
  PROVE  /\ \A b \in Access : b # a => (Busy(b)' <=> Busy(b))
         /\ RequestsWait' /\ WaitsCached' /\ ReadyCached' /\ GlobalBypasses' /\ SentOnce'
         /\ net' \subseteq Access /\ waits' \in [Access -> Access \cup {NoAccess}]
         /\ ready' \in [Cache -> SUBSET Access]
         /\ \/ ~Busy(a)' /\ m_pending_writes' = IF IsLoad(i) THEN Pend(i, -1) ELSE m_pending_writes
            \/ Busy(a)' /\ m_pending_writes' = m_pending_writes
<1>1. InsnOf(a) = i /\ NoAccess \notin Access
  BY InsnFacts DEF InsnOf
<1>2. /\ waits[a] = NoAccess /\ ~Sent(a) /\ a # m_next_global /\ \A c \in Cache : a \notin ready[c]
      /\ waits \in [Access -> Access \cup {NoAccess}] /\ ready \in [Cache -> SUBSET Access]
      /\ net \subseteq Access
  BY DEF Busy, Sent, IInv, TypeInv
<1>3. PICK c \in Cache : c = CacheOf(a)
  BY DEF CacheOf, Cache
<1> USE DEF cacheVars
<1>4. CASE AccessHit(a)
  <2>1. UNCHANGED <<waits, ready, net>>
    BY <1>4 DEF AccessHit
  <2>2. \A b : (Busy(b)' <=> Busy(b)) /\ (Sent(b)' <=> Sent(b))
    BY <2>1, BusySame
  <2>3. RequestsWait' /\ WaitsCached' /\ ReadyCached' /\ GlobalBypasses' /\ SentOnce'
    BY <2>1, <2>2, KindSame
       DEF IInv, AccessInv, RequestsWait, WaitsCached, ReadyCached, GlobalBypasses, SentOnce
  <2>4. m_pending_writes' = IF IsLoad(i) THEN Pend(i, -1) ELSE m_pending_writes
    BY <1>1, <1>4 DEF AccessHit
  <2> QED BY <1>2, <2>1, <2>2, <2>3, <2>4
\* the access goes into net, with or without waiting there
<1>5. ASSUME net' = net \cup {a}, ready' = ready,
             \/ waits' = [waits EXCEPT ![a] = a] /\ Cached(i)
             \/ waits' = waits /\ ~Cached(i)
      PROVE  /\ \A b \in Access : b # a => (Busy(b)' <=> Busy(b))
             /\ RequestsWait' /\ WaitsCached' /\ ReadyCached' /\ GlobalBypasses' /\ SentOnce'
             /\ Busy(a)' /\ waits' \in [Access -> Access \cup {NoAccess}]
  <2>1. /\ \A b \in Access : b # a => waits'[b] = waits[b]
        /\ Cached(i) => waits'[a] = a
        /\ ~Cached(i) => waits'[a] = NoAccess
        /\ waits' \in [Access -> Access \cup {NoAccess}]
    BY <1>2, <1>5
  <2>2. \A b \in Access : Sent(b)' <=> Sent(b) \/ b = a
    BY <1>5 DEF Sent
  <2>3. Busy(a)' /\ \A b \in Access : b # a => (Busy(b)' <=> Busy(b))
    BY <1>5, <2>1 DEF Busy
  <2>4. RequestsWait'
    BY <1>1, <2>1, <2>2, KindSame DEF IInv, AccessInv, RequestsWait
  <2>5. WaitsCached'
    BY <1>1, <2>1, KindSame DEF IInv, AccessInv, WaitsCached
  <2>6. ReadyCached'
    BY <1>2, <1>5, <2>1, KindSame DEF IInv, AccessInv, ReadyCached
  <2>7. GlobalBypasses'
    <3>1. m_next_global # NoAccess => m_next_global \in Access
      BY DEF IInv, TypeInv
    <3> QED BY <1>2, <2>2, <3>1, KindSame DEF IInv, AccessInv, GlobalBypasses
  <2>8. SentOnce'
    BY <1>2, <1>5 DEF IInv, AccessInv, SentOnce, Sent
  <2> QED BY <2>1, <2>3, <2>4, <2>5, <2>6, <2>7, <2>8
<1>6. CASE AccessSent(a)
  <2>1. net' = net \cup {a} /\ UNCHANGED <<waits, ready, m_pending_writes>> /\ ~Cached(i)
    BY <1>1, <1>6 DEF AccessSent, Cached, IsLoad
  <2> QED BY <1>2, <1>5, <2>1
<1>7. CASE AccessMiss(a)
  <2>1. Cached(i) /\ m_pending_writes' = m_pending_writes
    BY <1>1, <1>7 DEF AccessMiss, Cached
  <2>2. CASE waits' = [waits EXCEPT ![a] = a] /\ net' = net \cup {a} /\ UNCHANGED ready
    BY <1>2, <1>5, <2>1, <2>2
  <2>3. CASE \E b \in Access : /\ waits[b] = b /\ CacheOf(b) = CacheOf(a)
                               /\ waits' = [waits EXCEPT ![a] = b] /\ UNCHANGED <<net, ready>>
    <3>1. PICK b \in Access : /\ waits[b] = b /\ CacheOf(b) = CacheOf(a)
                              /\ waits' = [waits EXCEPT ![a] = b] /\ UNCHANGED <<net, ready>>
      BY <2>3
    <3>2. /\ \A d \in Access : d # a => waits'[d] = waits[d]
          /\ waits'[a] = b /\ waits' \in [Access -> Access \cup {NoAccess}]
      BY <1>2, <3>1
    <3>3. \A d : Sent(d)' <=> Sent(d)
      BY <3>1 DEF Sent
    <3>4. Busy(a)' /\ \A d \in Access : d # a => (Busy(d)' <=> Busy(d))
      BY <1>1, <3>1, <3>2 DEF Busy
    <3>5. RequestsWait'
      BY <1>2, <3>2, <3>3, KindSame DEF IInv, AccessInv, RequestsWait
    <3>6. WaitsCached'
      BY <1>1, <2>1, <3>1, <3>2, KindSame DEF IInv, AccessInv, WaitsCached
    <3>7. ReadyCached'
      BY <1>2, <3>1, <3>2, KindSame DEF IInv, AccessInv, ReadyCached
    <3>8. GlobalBypasses' /\ SentOnce'
      BY <3>1, <3>3, KindSame DEF IInv, AccessInv, GlobalBypasses, SentOnce
    <3> QED BY <1>2, <2>1, <3>1, <3>2, <3>4, <3>5, <3>6, <3>7, <3>8
  <2>4. CASE ready' = [ready EXCEPT ![CacheOf(a)] = @ \cup {a}] /\ UNCHANGED <<net, waits>>
    <3>1. /\ \A d \in Cache : \A b : b \in ready'[d] <=> b \in ready[d] \/ (d = c /\ b = a)
          /\ ready' \in [Cache -> SUBSET Access]
      BY <1>2, <1>3, <2>4
    <3>2. \A d : Sent(d)' <=> Sent(d)
      BY <2>4 DEF Sent
    <3>3. Busy(a)' /\ \A d \in Access : d # a => (Busy(d)' <=> Busy(d))
      BY <2>4, <3>1 DEF Busy
    <3>4. RequestsWait' /\ WaitsCached' /\ GlobalBypasses' /\ SentOnce'
      BY <2>4, <3>2, KindSame DEF IInv, AccessInv, RequestsWait, WaitsCached, GlobalBypasses, SentOnce
    <3>5. ReadyCached'
      BY <1>1, <1>2, <1>3, <2>1, <2>4, <3>1, KindSame DEF IInv, AccessInv, ReadyCached
    <3> QED BY <1>2, <2>1, <2>4, <3>1, <3>3, <3>4, <3>5
  <2> QED BY <1>7, <2>2, <2>3, <2>4 DEF AccessMiss
<1>8. QED BY <1>4, <1>6, <1>7

LEMMA AccessStep ==
  ASSUME IInv, NEW i \in Insn, i = m_dispatch_reg, ~Shared(i), accessq # 0,
         AccessHit(<<i, accessq>>) \/ AccessMiss(<<i, accessq>>) \/ AccessSent(<<i, accessq>>),
         accessq' = accessq - 1,
         IF accessq = 1 THEN Leave(i)
           ELSE UNCHANGED <<completed, reg_table, m_inst_in_pipeline, m_dispatch_reg, m_pipeline_reg>>,
         UNCHANGED <<prog, issued, collector, m_next_wb, m_next_global, m_response_fifo>>
  PROVE  IInv'
<1>1. /\ i \in Issued \ collector /\ Issued' = Issued /\ NoInsn \notin Insn /\ WarpOf(i) \in Warp
      /\ KindOf(i).n \in 0 .. MaxAccess /\ KindOf(i).out \subseteq Reg
      /\ ~IsLoad(i) => KindOf(i).out = {}
      /\ accessq <= KindOf(i).n /\ accessq \in 1 .. MaxAccess
  <2>1. i \in Issued \ collector /\ NoInsn \notin Insn /\ Issued' = Issued /\ accessq <= KindOf(i).n
    BY IssuedSame, InsnFacts DEF IInv, InsnInv, DispatchPlace
  <2>2. accessq \in 1 .. MaxAccess
    BY ConfigAssumption DEF IInv, TypeInv
  <2> QED BY <2>1, <2>2, KindFacts, InsnFacts DEF IInv
<1>2. PICK a \in Access : a = <<i, accessq>>
  BY <1>1, InsnFacts
<1>3. InsnOf(a) = i /\ a[2] = accessq /\ ~Busy(a)
  <2>1. InsnOf(a) = i /\ a[2] = accessq
    BY <1>2 DEF InsnOf
  <2> QED BY <1>1, <2>1 DEF IInv, AccessInv, BusyIssued
<1>4. /\ \A b \in Access : b # a => (Busy(b)' <=> Busy(b))
      /\ RequestsWait' /\ WaitsCached' /\ ReadyCached' /\ GlobalBypasses' /\ SentOnce'
      /\ net' \subseteq Access /\ waits' \in [Access -> Access \cup {NoAccess}]
      /\ ready' \in [Cache -> SUBSET Access]
      /\ \/ ~Busy(a)' /\ m_pending_writes' = IF IsLoad(i) THEN Pend(i, -1) ELSE m_pending_writes
         \/ Busy(a)' /\ m_pending_writes' = m_pending_writes
  BY <1>2, <1>3, AccessPlaces
<1>5. /\ m_dispatch_reg' = i \/ (m_dispatch_reg' = NoInsn /\ accessq = 1)
      /\ m_dispatch_reg' = i => accessq # 1
      /\ m_pipeline_reg' = m_pipeline_reg
  BY <1>1 DEF Leave
<1>6. /\ \A j \in Insn : j # i => Left(j)' = Left(j)
      /\ Left(i) \in Nat /\ Left(i)' = IF Busy(a)' THEN Left(i) ELSE Left(i) - 1
  BY <1>2, <1>4, <1>5, AccessLeft
<1>7. /\ Pend(i, -1) \in [Warp -> [Reg -> Int]]
      /\ \A v \in Warp, r \in Reg :
           Pend(i, -1)[v][r] = IF v = WarpOf(i) /\ r \in KindOf(i).out
                                 THEN m_pending_writes[v][r] + (-1) ELSE m_pending_writes[v][r]
  BY <1>1, PendFacts DEF IInv
<1>8. m_pending_writes' \in [Warp -> [Reg -> Int]]
  BY <1>4, <1>7 DEF IInv, TypeInv
<1>9. \A v \in Warp, r \in Reg : ~(v = WarpOf(i) /\ r \in KindOf(i).out) =>
        m_pending_writes'[v][r] = m_pending_writes[v][r]
  BY <1>4, <1>7
<1>10. \A r \in KindOf(i).out : m_pending_writes'[WarpOf(i)][r] = Left(i)'
  <2>1. completed[i] = 0
    BY <1>1, BooksFacts DEF IInv, Finished
  <2> SUFFICES ASSUME NEW r \in KindOf(i).out PROVE m_pending_writes'[WarpOf(i)][r] = Left(i)'
    OBVIOUS
  <2>2. m_pending_writes[WarpOf(i)][r] = Left(i) /\ IsLoad(i) /\ r \in Reg
    BY <1>1, <2>1 DEF IInv, BooksInv, PendingDue, Due
  <2>3. Pend(i, -1)[WarpOf(i)][r] = Left(i) + (-1)
    BY <1>1, <1>7, <2>2
  <2> QED BY <1>4, <1>6, <2>2, <2>3
<1>11. BooksInv' /\ reg_table' \in [Warp -> SUBSET Reg] /\ completed' \in [Insn -> Int]
  <2>1. \A j \in Issued : j # i => Left(j)' = Left(j)
    BY <1>6 DEF Issued
  <2>2. \/ UNCHANGED <<completed, reg_table, m_inst_in_pipeline, m_dispatch_reg, m_pipeline_reg>>
        \/ Leave(i)
    OBVIOUS
  <2> QED BY <1>9, <1>10, <2>1, <2>2, DispatchBooks
<1>12. TypeInv'
  <2>1. accessq' \in 0 .. MaxAccess
    BY <1>1, ConfigAssumption
  <2>2. m_dispatch_reg' \in Insn \cup {NoInsn}
    BY <1>5
  <2> QED BY <1>4, <1>5, <1>8, <1>11, <2>1, <2>2 DEF IInv, TypeInv
<1>13. InsnInv'
  <2>1. DispatchPlace'
    <3>1. m_dispatch_reg' = i => accessq' <= KindOf(i).n /\ accessq' # 0
      BY <1>1, <1>5
    <3> QED BY <1>1, <1>5, <3>1, KindSame DEF IInv, InsnInv, DispatchPlace
  <2>2. PipelinePlace'
    BY <1>1, <1>5, KindSame DEF IInv, InsnInv, PipelinePlace
  <2>3. WritebackPlace'
    BY <1>1, <1>5, KindSame DEF IInv, InsnInv, WritebackPlace, InPipeline
  <2> QED BY <2>1, <2>2, <2>3 DEF InsnInv
<1>14. BusyIssued'
  <2> SUFFICES ASSUME NEW b \in Access, Busy(b)'
               PROVE  /\ InsnOf(b) \in Issued' \ collector'
                      /\ ~Shared(InsnOf(b)) /\ KindOf(InsnOf(b)).n > 0
                      /\ InsnOf(b) = m_dispatch_reg' => accessq' < b[2]
    BY KindSame DEF BusyIssued
  <2>1. CASE b = a
    BY <1>1, <1>3, <2>1
  <2>2. CASE b # a
    <3>1. /\ InsnOf(b) \in Issued \ collector /\ ~Shared(InsnOf(b)) /\ KindOf(InsnOf(b)).n > 0
          /\ InsnOf(b) = i => accessq < b[2]
      BY <1>4, <2>2 DEF IInv, AccessInv, BusyIssued
    <3>2. InsnOf(b) \in Insn /\ b[2] \in 1 .. MaxAccess
      BY InsnFacts
    <3> QED BY <1>1, <1>5, <3>1, <3>2
  <2> QED BY <2>1, <2>2
<1>15. QED BY <1>4, <1>11, <1>12, <1>13, <1>14 DEF IInv, AccessInv

LEMMA DispatchStep ==
  ASSUME IInv, NEW proceeds \in BOOLEAN, CycleDispatch(proceeds)
  PROVE  IInv'
<1> USE DEF frontVars, wbVars, cacheVars
<1>1. UNCHANGED <<prog, issued, collector, m_next_wb, m_next_global, m_response_fifo>>
  BY DEF CycleDispatch
<1>2. CASE ~proceeds
  <2>1. UNCHANGED placeVars
    BY <1>1, <1>2 DEF CycleDispatch, Stall, placeVars
  <2> QED BY <2>1, NothingMoves
<1>3. CASE proceeds
  <2>1. PICK i \in Insn : i = m_dispatch_reg
    BY <1>3 DEF CycleDispatch, IInv, TypeInv
  <2>2. Dispatch(i)
    BY <1>3, <2>1 DEF CycleDispatch
  <2>3. CASE Shared(i) \/ accessq = 0
    <3>1. /\ UNCHANGED <<accessq, m_pending_writes, net, waits, ready>>
          /\ IF Shared(i) /\ IsLoad(i) THEN EnterPipeline(i) ELSE Leave(i)
      BY <2>2, <2>3 DEF Dispatch
    <3> QED BY <1>1, <2>1, <2>3, <3>1, EnterStep, LeaveStep
  <2>4. CASE ~(Shared(i) \/ accessq = 0)
    <3>1. /\ AccessHit(<<i, accessq>>) \/ AccessMiss(<<i, accessq>>) \/ AccessSent(<<i, accessq>>)
          /\ accessq' = accessq - 1
          /\ IF accessq = 1
               THEN Leave(i)
               ELSE UNCHANGED <<completed, reg_table, m_inst_in_pipeline, m_dispatch_reg, m_pipeline_reg>>
      BY <2>2, <2>4 DEF Dispatch
    <3> QED BY <1>1, <2>1, <2>4, <3>1, AccessStep
  <2> QED BY <2>3, <2>4
<1>4. QED BY <1>2, <1>3
-----------------------------------------------------------------------------
(* The theorems *)

LEMMA InitInv == Init => IInv
<1> SUFFICES ASSUME Init PROVE IInv
  OBVIOUS
<1>1. Issued = {}
  BY DEF Init, Issued, Insn
<1>2. TypeInv
  <2>1. \A w \in Warp : prog[w] \in Seq(Kind)
    BY ConfigAssumption DEF Init
  <2> QED BY <2>1, ConfigAssumption DEF Init, TypeInv
<1>3. InsnInv
  BY <1>1 DEF Init, InsnInv, DispatchPlace, PipelinePlace, WritebackPlace
<1>4. \A a \in Access : ~Busy(a) /\ waits[a] = NoAccess /\ ~Sent(a)
  <2>1. Range(m_response_fifo) = {}
    BY DEF Init, Range
  <2> QED BY <2>1, InsnFacts DEF Init, Busy, Sent
<1>5. AccessInv
  BY <1>4
     DEF Init, AccessInv, BusyIssued, RequestsWait, WaitsCached, ReadyCached, GlobalBypasses, SentOnce
<1>6. BooksInv
  <2>1. CompletedExact
    BY <1>1 DEF Init, CompletedExact, Finished
  <2> QED BY <1>1, <2>1
          DEF Init, BooksInv, ReservedExact, WritersDisjoint, PendingDue, PendingReserved
<1>7. QED BY <1>2, <1>3, <1>5, <1>6 DEF IInv

LEMMA NextInv == IInv /\ [Next]_vars => IInv'
<1> SUFFICES ASSUME IInv, [Next]_vars PROVE IInv'
  OBVIOUS
<1> USE DEF frontVars, wbVars, cacheVars
<1>1. CASE UNCHANGED vars
  BY <1>1, NothingMoves DEF vars, placeVars
<1>2. ASSUME NEW accepts \in BOOLEAN, CycleWriteBack(accepts) PROVE IInv'
  <2>1. CASE accepts
    BY <1>2, <2>1, WriteBackStep DEF CycleWriteBack
  <2>2. CASE ~accepts
    BY <1>2, <2>2, NothingMoves DEF CycleWriteBack, placeVars
  <2> QED BY <2>1, <2>2
<1>3. ASSUME NEW w \in Warp, Done(w) \/ ExitWarp(w) PROVE IInv'
  BY <1>3, NothingMoves DEF Done, ExitWarp, placeVars
<1>4. QED BY <1>1, <1>2, <1>3, ArbitrateStep, ShiftStep, ResponseStep, DispatchStep,
             IssueWarpStep, IssueStep, RespondStep
          DEF Next, Cycle, Environment

\* The inductive invariant: every instruction and access is in one place, and
\* the books of the unit say what those places imply.
THEOREM PlacesCorrect == Spec => []IInv
  BY InitInv, NextInv, PTL DEF Spec

\* PendingExact is an invariant: for every register, m_pending_writes is the
\* number of accesses that the only load writing it still waits for, whichever
\* of issue(), writeback() and memory_cycle() counted last.
THEOREM PendingCorrect == Spec => []PendingExact
<1>1. IInv => PendingExact
  <2> SUFFICES ASSUME IInv, NEW w \in Warp, NEW r \in Reg
               PROVE  LET loads == {i \in Issued : /\ WarpOf(i) = w /\ IsLoad(i) /\ ~Shared(i)
                                                   /\ r \in KindOf(i).out /\ Left(i) > 0}
                      IN  /\ Cardinality(loads) <= 1
                          /\ \A i \in loads : m_pending_writes[w][r] = Left(i)
                          /\ loads = {} => m_pending_writes[w][r] = 0
    BY DEF PendingExact
  <2> DEFINE loads == {i \in Issued : /\ WarpOf(i) = w /\ IsLoad(i) /\ ~Shared(i)
                                      /\ r \in KindOf(i).out /\ Left(i) > 0}
  <2>1. \A i \in Issued : i \in Insn /\ Left(i) \in Nat
    BY LeftFacts DEF Issued, IInv
  <2>2. \A i \in loads : i \in Issued /\ completed[i] = 0
    <3>1. \A i \in loads : ~Finished(i)
      BY <2>1 DEF Finished
    <3> QED BY <3>1, BooksFacts DEF IInv
  <2>3. \A i, j \in loads : i = j
    BY <2>2 DEF IInv, BooksInv, WritersDisjoint
  <2>4. Cardinality(loads) <= 1
    <3>1. CASE loads = {}
      BY <3>1, FS_EmptySet
    <3>2. CASE loads # {}
      <4>1. PICK i : loads = {i}
        BY <2>3, <3>2
      <4> QED BY <4>1, FS_Singleton
    <3> QED BY <3>1, <3>2
  <2>5. \A i \in loads : m_pending_writes[w][r] = Left(i)
    BY <2>2 DEF IInv, BooksInv, PendingDue, Due
  <2>6. loads = {} => m_pending_writes[w][r] = 0
    <3> SUFFICES ASSUME loads = {} PROVE m_pending_writes[w][r] = 0
      OBVIOUS
    <3>1. CASE r \notin reg_table[w]
      BY <3>1 DEF IInv, BooksInv, PendingReserved
    <3>2. CASE r \in reg_table[w]
      <4>1. PICK i \in Issued : WarpOf(i) = w /\ completed[i] = 0 /\ r \in KindOf(i).out
        BY <3>2 DEF IInv, BooksInv, ReservedExact
      <4>2. m_pending_writes[w][r] = Due(i)
        BY <4>1 DEF IInv, BooksInv, PendingDue
      <4>3. IsLoad(i)
        BY <4>1, KindFacts DEF IInv
      <4>4. ~Shared(i) => Left(i) = 0
        BY <2>1, <4>1, <4>3
      <4> QED BY <4>2, <4>4 DEF Due
    <3> QED BY <3>1, <3>2
  <2> QED BY <2>4, <2>5, <2>6
<1>2. QED BY <1>1, PlacesCorrect, PTL

\* ScoreboardExact is an invariant: a register is reserved exactly while the
\* instruction that writes it is incomplete, and no instruction is reported
\* complete twice or with an access still to come back.
THEOREM ScoreboardCorrect == Spec => []ScoreboardExact
<1>1. IInv => ScoreboardExact
  <2> SUFFICES ASSUME IInv PROVE ScoreboardExact
    OBVIOUS
  <2>1. \A i \in Insn : completed[i] <= 1
    BY DEF IInv, BooksInv, CompletedExact
  <2>2. ASSUME NEW w \in Warp
        PROVE  reg_table[w] = UNION {KindOf(i).out : i \in {i \in Issued :
                                       WarpOf(i) = w /\ completed[i] = 0}}
    <3>1. \A i \in Issued : KindOf(i).out \subseteq Reg
      BY KindFacts DEF IInv
    <3>2. reg_table[w] \subseteq Reg
      BY DEF IInv, TypeInv
    <3>3. \A r \in Reg : r \in reg_table[w] <=>
            \E i \in Issued : WarpOf(i) = w /\ completed[i] = 0 /\ r \in KindOf(i).out
      BY DEF IInv, BooksInv, ReservedExact
    <3> QED BY <3>1, <3>2, <3>3
  <2>3. ASSUME NEW i \in Issued, completed[i] = 1, KindOf(i).out # {} PROVE Left(i) = 0
    <3>1. Finished(i) /\ i \in Insn /\ IsLoad(i)
      BY <2>3, BooksFacts, KindFacts DEF IInv
    <3>2. CASE Shared(i)
      <4>1. Cardinality(InFlight(i)) = 0
        BY <3>1, <3>2, LeftFacts DEF IInv, AccessInv, BusyIssued
      <4> QED BY <3>1, <3>2, <4>1 DEF Finished, Left
    <3>3. CASE ~Shared(i)
      BY <2>3, <3>1, <3>3 DEF Finished
    <3> QED BY <3>2, <3>3
  <2> QED BY <2>1, <2>2, <2>3 DEF ScoreboardExact
<1>2. QED BY <1>1, PlacesCorrect, PTL

-----------------------------------------------------------------------------
(* The counters of a warp, and its exit *)

\* The instructions of warp w that inc_inst_in_pipeline counts, its stores on
\* the way, and the atomic operations that can still be counted down: one per
\* shared-memory instruction (number 0) and one per access of the others.
Held(i) == i \in collector \/ i = m_dispatch_reg \/ InPipeline(i)
InUnit(w) == {i \in Insn : WarpOf(i) = w /\ Held(i)}

StoreOut(a) == Sent(a) /\ KindOf(InsnOf(a)).op = "STORE"
StoresOut(w) == {a \in Access : WarpOf(InsnOf(a)) = w /\ StoreOut(a)}

Token == Insn \X (0 .. MaxAccess)
Owes(t) ==
  /\ t[1] \in Issued /\ KindOf(t[1]).atomic
  /\ Shared(t[1]) => t[2] = 0 /\ Held(t[1])
  /\ ~Shared(t[1]) => /\ t[2] > 0
                      /\ \/ t[1] \in collector /\ t[2] <= KindOf(t[1]).n
                         \/ t[1] = m_dispatch_reg /\ t[2] <= accessq
                         \/ Sent(t) \/ t = m_next_global
Owed(w) == {t \in Token : WarpOf(t[1]) = w /\ Owes(t)}

UnitCount ==
  /\ m_inst_in_pipeline \in [Warp -> Int]
  /\ \A w \in Warp : m_inst_in_pipeline[w] = Cardinality(InUnit(w))
StoreCount ==
  /\ m_stores_outstanding \in [Warp -> Int]
  /\ \A w \in Warp : m_stores_outstanding[w] = Cardinality(StoresOut(w))
AtomicCount ==
  /\ m_n_atomic \in [Warp -> Int]
  /\ \A w \in Warp : m_n_atomic[w] >= Cardinality(Owed(w))

\* A warp that is done has no atomic operation left, and one that exited
\* nothing at all.
QuietInv ==
  /\ status \in [Warp -> {"running", "done", "exited"}]
  /\ \A w \in Warp : status[w] # "running" => m_n_atomic[w] = 0
  /\ \A w \in Warp : status[w] = "exited" =>
       InUnit(w) = {} /\ StoresOut(w) = {} /\ reg_table[w] = {}

CountInv == UnitCount /\ StoreCount /\ AtomicCount /\ QuietInv

LEMMA CountFinite ==
  ASSUME NEW w \in Warp
  PROVE  /\ IsFiniteSet(InUnit(w)) /\ Cardinality(InUnit(w)) \in Nat
         /\ IsFiniteSet(StoresOut(w)) /\ Cardinality(StoresOut(w)) \in Nat
         /\ IsFiniteSet(Owed(w)) /\ Cardinality(Owed(w)) \in Nat
<1>1. /\ IsFiniteSet({w}) /\ IsFiniteSet(1 .. MaxInsn)
      /\ IsFiniteSet(1 .. MaxAccess) /\ IsFiniteSet(0 .. MaxAccess)
  <2>1. 0 \in Int /\ 1 \in Int /\ MaxAccess \in Int /\ MaxInsn \in Int
    BY ConfigAssumption
  <2> QED BY <2>1, FS_Singleton, FS_Interval
<1>2. IsFiniteSet({w} \X (1 .. MaxInsn))
  BY <1>1, FS_Product
<1>3. /\ IsFiniteSet(({w} \X (1 .. MaxInsn)) \X (1 .. MaxAccess))
      /\ IsFiniteSet(({w} \X (1 .. MaxInsn)) \X (0 .. MaxAccess))
  BY <1>1, <1>2, FS_Product
<1>4. InUnit(w) \subseteq {w} \X (1 .. MaxInsn)
  BY DEF InUnit, Insn, WarpOf
<1>5. StoresOut(w) \subseteq ({w} \X (1 .. MaxInsn)) \X (1 .. MaxAccess)
  BY DEF StoresOut, Access, Insn, WarpOf, InsnOf
<1>6. Owed(w) \subseteq ({w} \X (1 .. MaxInsn)) \X (0 .. MaxAccess)
  BY DEF Owed, Token, Insn, WarpOf
<1>7. QED BY <1>2, <1>3, <1>4, <1>5, <1>6, FS_Subset, FS_CardinalityType

\* How the three sets follow their predicates in a step
LEMMA CountSets ==
  ASSUME NEW w \in Warp
  PROVE  /\ InUnit(w)' = {i \in Insn : WarpOf(i) = w /\ Held(i)'}
         /\ StoresOut(w)' = {a \in Access : WarpOf(InsnOf(a)) = w /\ StoreOut(a)'}
         /\ Owed(w)' = {t \in Token : WarpOf(t[1]) = w /\ Owes(t)'}
  BY DEF InUnit, StoresOut, Owed

LEMMA UnitFrame ==
  ASSUME UnitCount, UNCHANGED m_inst_in_pipeline, \A i \in Insn : Held(i)' <=> Held(i)
  PROVE  UnitCount' /\ \A w \in Warp : InUnit(w)' = InUnit(w)
<1>1. \A w \in Warp : InUnit(w)' = InUnit(w)
  BY CountSets DEF InUnit
<1>2. QED BY <1>1 DEF UnitCount

LEMMA UnitMinus ==
  ASSUME UnitCount, NEW i \in Insn, Held(i), \A j \in Insn : Held(j)' <=> Held(j) /\ j # i,
         m_inst_in_pipeline' = [m_inst_in_pipeline EXCEPT ![WarpOf(i)] = @ - 1]
  PROVE  UnitCount' /\ \A w \in Warp : InUnit(w)' \subseteq InUnit(w)
<1>1. PICK v \in Warp : v = WarpOf(i)
  BY InsnFacts
<1>2. InUnit(v)' = InUnit(v) \ {i} /\ i \in InUnit(v)
  BY <1>1, CountSets DEF InUnit
<1>3. Cardinality(InUnit(v)') = Cardinality(InUnit(v)) - 1
  BY <1>2, CountFinite, FS_RemoveElement
<1>4. \A w \in Warp : w # v => InUnit(w)' = InUnit(w)
  BY <1>1, CountSets DEF InUnit
<1>5. UnitCount'
  BY <1>1, <1>3, <1>4 DEF UnitCount
<1>6. QED BY <1>2, <1>4, <1>5

LEMMA StoreFrame ==
  ASSUME StoreCount, UNCHANGED m_stores_outstanding, \A a \in Access : StoreOut(a)' <=> StoreOut(a)
  PROVE  StoreCount' /\ \A w \in Warp : StoresOut(w)' = StoresOut(w)
<1>1. \A w \in Warp : StoresOut(w)' = StoresOut(w)
  BY CountSets DEF StoresOut
<1>2. QED BY <1>1 DEF StoreCount

LEMMA StoreMinus ==
  ASSUME StoreCount, NEW a \in Access, StoreOut(a), \A b \in Access : StoreOut(b)' <=> StoreOut(b) /\ b # a,
         m_stores_outstanding' = [m_stores_outstanding EXCEPT ![WarpOf(InsnOf(a))] = @ - 1]
  PROVE  StoreCount' /\ \A w \in Warp : StoresOut(w)' \subseteq StoresOut(w)
<1>1. PICK v \in Warp : v = WarpOf(InsnOf(a))
  BY InsnFacts
<1>2. StoresOut(v)' = StoresOut(v) \ {a} /\ a \in StoresOut(v)
  BY <1>1, CountSets DEF StoresOut
<1>3. Cardinality(StoresOut(v)') = Cardinality(StoresOut(v)) - 1
  BY <1>2, CountFinite, FS_RemoveElement
<1>4. \A w \in Warp : w # v => StoresOut(w)' = StoresOut(w)
  BY <1>1, CountSets DEF StoresOut
<1>5. StoreCount'
  BY <1>1, <1>3, <1>4 DEF StoreCount
<1>6. QED BY <1>2, <1>4, <1>5

LEMMA StorePlus ==
  ASSUME StoreCount, NEW a \in Access, ~StoreOut(a), \A b \in Access : StoreOut(b)' <=> StoreOut(b) \/ b = a,
         m_stores_outstanding' = [m_stores_outstanding EXCEPT ![WarpOf(InsnOf(a))] = @ + 1]
  PROVE  StoreCount' /\ \A w \in Warp : w # WarpOf(InsnOf(a)) => StoresOut(w)' = StoresOut(w)
<1>1. PICK v \in Warp : v = WarpOf(InsnOf(a))
  BY InsnFacts
<1>2. StoresOut(v)' = StoresOut(v) \cup {a} /\ a \notin StoresOut(v)
  BY <1>1, CountSets DEF StoresOut
<1>3. Cardinality(StoresOut(v)') = Cardinality(StoresOut(v)) + 1
  BY <1>2, CountFinite, FS_AddElement
<1>4. \A w \in Warp : w # v => StoresOut(w)' = StoresOut(w)
  BY <1>1, CountSets DEF StoresOut
<1>5. StoreCount'
  BY <1>1, <1>3, <1>4 DEF StoreCount
<1>6. QED BY <1>1, <1>4, <1>5

LEMMA AtomicFrame ==
  ASSUME AtomicCount, UNCHANGED m_n_atomic, \A t \in Token : Owes(t)' => Owes(t)
  PROVE  AtomicCount'
<1>1. ASSUME NEW w \in Warp PROVE Cardinality(Owed(w)') <= Cardinality(Owed(w))
  <2>1. Owed(w)' \subseteq Owed(w)
    BY CountSets DEF Owed
  <2> QED BY <2>1, CountFinite, FS_Subset
<1>2. ASSUME NEW w \in Warp PROVE m_n_atomic'[w] >= Cardinality(Owed(w)')
  <2>1. m_n_atomic[w] \in Int /\ m_n_atomic[w] >= Cardinality(Owed(w)) /\ Cardinality(Owed(w)) \in Nat
    BY CountFinite DEF AtomicCount
  <2>2. Cardinality(Owed(w)') \in Nat
    <3>1. Owed(w)' \subseteq Owed(w)
      BY CountSets DEF Owed
    <3> QED BY <3>1, CountFinite, FS_Subset, FS_CardinalityType
  <2> QED BY <1>1, <2>1, <2>2
<1>3. QED BY <1>2 DEF AtomicCount

LEMMA AtomicMinus ==
  ASSUME AtomicCount, NEW s \in Token, Owes(s), \A t \in Token : Owes(t)' => Owes(t) /\ t # s,
         m_n_atomic' = [m_n_atomic EXCEPT ![WarpOf(s[1])] = @ - 1]
  PROVE  AtomicCount' /\ m_n_atomic[WarpOf(s[1])] > 0
<1>1. PICK v \in Warp : v = WarpOf(s[1])
  BY InsnFacts DEF Token
<1>2. s \in Owed(v) /\ \A w \in Warp : Owed(w)' \subseteq Owed(w) \ {s}
  BY <1>1, CountSets DEF Owed
<1>3. Cardinality(Owed(v) \ {s}) = Cardinality(Owed(v)) - 1 /\ IsFiniteSet(Owed(v) \ {s})
  BY <1>2, CountFinite, FS_RemoveElement
<1>4. Cardinality(Owed(v)') \in Nat /\ Cardinality(Owed(v)') <= Cardinality(Owed(v)) - 1
  BY <1>2, <1>3, FS_Subset, FS_CardinalityType
<1>5. \A w \in Warp : Cardinality(Owed(w)') \in Nat /\ Cardinality(Owed(w)') <= Cardinality(Owed(w))
  <2> SUFFICES ASSUME NEW w \in Warp
               PROVE  Cardinality(Owed(w)') \in Nat /\ Cardinality(Owed(w)') <= Cardinality(Owed(w))
    OBVIOUS
  <2>1. Owed(w)' \subseteq Owed(w)
    BY <1>2
  <2> QED BY <2>1, CountFinite, FS_Subset, FS_CardinalityType
<1>6. \A w \in Warp : /\ m_n_atomic[w] \in Int /\ m_n_atomic[w] >= Cardinality(Owed(w))
                      /\ Cardinality(Owed(w)) \in Nat
                      /\ m_n_atomic'[w] = IF w = v THEN m_n_atomic[w] - 1 ELSE m_n_atomic[w]
  BY <1>1, CountFinite DEF AtomicCount
<1>7. m_n_atomic' \in [Warp -> Int]
  BY <1>1 DEF AtomicCount
<1>8. \A w \in Warp : m_n_atomic'[w] >= Cardinality(Owed(w)')
  BY <1>4, <1>5, <1>6
<1>9. m_n_atomic[v] > 0
  BY <1>4, <1>6
<1>10. QED BY <1>1, <1>7, <1>8, <1>9 DEF AtomicCount

\* A step of another warp, or one that only finishes what is there
LEMMA QuietFrame ==
  ASSUME QuietInv, UNCHANGED status,
         \A w \in Warp : status[w] # "running" => m_n_atomic'[w] = m_n_atomic[w],
         \A w \in Warp : status[w] = "exited" =>
           /\ InUnit(w)' \subseteq InUnit(w)
           /\ StoresOut(w)' \subseteq StoresOut(w)
           /\ reg_table'[w] \subseteq reg_table[w]
  PROVE  QuietInv'
<1>1. \A w \in Warp : status[w] = "exited" =>
        InUnit(w)' = {} /\ StoresOut(w)' = {} /\ reg_table'[w] = {}
  BY DEF QuietInv
<1>2. QED BY <1>1 DEF QuietInv

\* The counters stay, and the places they count.
LEMMA CountFrame ==
  ASSUME CountInv,
         UNCHANGED <<status, m_stores_outstanding, m_n_atomic, m_inst_in_pipeline>>,
         \A i \in Insn : Held(i)' <=> Held(i),
         \A a \in Access : StoreOut(a)' <=> StoreOut(a),
         \A t \in Token : Owes(t)' => Owes(t),
         \A w \in Warp : reg_table'[w] \subseteq reg_table[w]
  PROVE  CountInv'
<1>1. UnitCount' /\ StoreCount' /\ AtomicCount'
  BY UnitFrame, StoreFrame, AtomicFrame DEF CountInv
<1>2. QuietInv'
  BY UnitFrame, StoreFrame, QuietFrame DEF CountInv
<1>3. QED BY <1>1, <1>2 DEF CountInv

LEMMA SentSame ==
  ASSUME UNCHANGED <<prog, net, m_response_fifo>>
  PROVE  \A a : (Sent(a)' <=> Sent(a)) /\ (StoreOut(a)' <=> StoreOut(a))
  BY KindSame DEF Sent, StoreOut

LEMMA OwesSame ==
  ASSUME UNCHANGED <<prog, issued, collector, m_dispatch_reg, accessq, m_pipeline_reg, m_next_global>>,
         \A a : Sent(a)' => Sent(a)
  PROVE  (\A i : Held(i)' <=> Held(i)) /\ \A t : Owes(t)' => Owes(t)
<1>1. \A i : Held(i)' <=> Held(i)
  BY DEF Held, InPipeline
<1>2. QED BY <1>1, IssuedSame, KindSame DEF Owes

\* The steps that leave the sets and the counters alone
LEMMA NothingCounted ==
  ASSUME CountInv,
         UNCHANGED <<status, m_stores_outstanding, m_n_atomic, m_inst_in_pipeline, prog, issued,
                     collector, m_dispatch_reg, accessq, m_pipeline_reg, m_next_global, net, m_response_fifo>>,
         \A w \in Warp : reg_table'[w] \subseteq reg_table[w]
  PROVE  CountInv'
  BY SentSame, OwesSame, CountFrame

LEMMA DoneCount ==
  ASSUME CountInv, NEW w \in Warp, Done(w)
  PROVE  CountInv'
<1> USE DEF wbVars, cacheVars
<1>1. UNCHANGED <<prog, issued, m_stores_outstanding, m_n_atomic, m_inst_in_pipeline, collector, reg_table,
                  m_dispatch_reg, accessq, m_pipeline_reg, m_next_global, net, m_response_fifo>>
  BY DEF Done
<1>2. /\ \A i \in Insn : Held(i)' <=> Held(i)
      /\ \A a \in Access : StoreOut(a)' <=> StoreOut(a)
      /\ \A t \in Token : Owes(t)' => Owes(t)
  BY <1>1, SentSame, OwesSame
<1>3. /\ UnitCount' /\ StoreCount' /\ AtomicCount'
      /\ \A v \in Warp : InUnit(v)' = InUnit(v) /\ StoresOut(v)' = StoresOut(v)
  BY <1>1, <1>2, UnitFrame, StoreFrame, AtomicFrame DEF CountInv
<1>4. status' = [status EXCEPT ![w] = "done"] /\ status \in [Warp -> {"running", "done", "exited"}]
  BY DEF Done, CountInv, QuietInv
<1>5. m_n_atomic[w] = 0
  <2>1. ~(m_n_atomic[w] > 0)
    BY DEF Done, Waiting
  <2>2. m_n_atomic[w] \in Int /\ m_n_atomic[w] >= Cardinality(Owed(w)) /\ Cardinality(Owed(w)) \in Nat
    BY CountFinite DEF CountInv, AtomicCount
  <2> QED BY <2>1, <2>2
<1>6. QuietInv'
  <2>1. \A v \in Warp : status'[v] # "running" => m_n_atomic'[v] = 0
    BY <1>1, <1>4, <1>5 DEF CountInv, QuietInv
  <2>2. \A v \in Warp : status'[v] = "exited" =>
          InUnit(v)' = {} /\ StoresOut(v)' = {} /\ reg_table'[v] = {}
    BY <1>1, <1>3, <1>4 DEF CountInv, QuietInv
  <2> QED BY <1>4, <2>1, <2>2 DEF QuietInv
<1>7. QED BY <1>3, <1>6 DEF CountInv

LEMMA ExitCount ==
  ASSUME CountInv, NEW w \in Warp, ExitWarp(w)
  PROVE  CountInv'
<1> USE DEF wbVars, cacheVars, warpVars
<1>1. UNCHANGED <<prog, issued, m_stores_outstanding, m_n_atomic, m_inst_in_pipeline, collector, reg_table,
                  m_dispatch_reg, accessq, m_pipeline_reg, m_next_global, net, m_response_fifo>>
  BY DEF ExitWarp
<1>2. /\ \A i \in Insn : Held(i)' <=> Held(i)
      /\ \A a \in Access : StoreOut(a)' <=> StoreOut(a)
      /\ \A t \in Token : Owes(t)' => Owes(t)
  BY <1>1, SentSame, OwesSame
<1>3. /\ UnitCount' /\ StoreCount' /\ AtomicCount'
      /\ \A v \in Warp : InUnit(v)' = InUnit(v) /\ StoresOut(v)' = StoresOut(v)
  BY <1>1, <1>2, UnitFrame, StoreFrame, AtomicFrame DEF CountInv
<1>4. /\ status' = [status EXCEPT ![w] = "exited"] /\ status \in [Warp -> {"running", "done", "exited"}]
      /\ status[w] = "done" /\ reg_table[w] = {}
  BY DEF ExitWarp, hardware_done, CountInv, QuietInv
<1>5. InUnit(w) = {} /\ StoresOut(w) = {}
  <2>1. Cardinality(InUnit(w)) = 0 /\ Cardinality(StoresOut(w)) = 0
    BY DEF ExitWarp, hardware_done, CountInv, UnitCount, StoreCount
  <2> QED BY <2>1, CountFinite, FS_EmptySet
<1>6. QuietInv'
  <2>1. \A v \in Warp : status'[v] # "running" => m_n_atomic'[v] = 0
    BY <1>1, <1>4 DEF CountInv, QuietInv
  <2>2. \A v \in Warp : status'[v] = "exited" =>
          InUnit(v)' = {} /\ StoresOut(v)' = {} /\ reg_table'[v] = {}
    BY <1>1, <1>3, <1>4, <1>5 DEF CountInv, QuietInv
  <2> QED BY <1>4, <2>1, <2>2 DEF QuietInv
<1>7. QED BY <1>3, <1>6 DEF CountInv

LEMMA IssueCount ==
  ASSUME IInv, CountInv, NEW i \in Insn, Issue(i)
  PROVE  CountInv'
<1> USE DEF wbVars, cacheVars, warpVars
<1>1. /\ i \in collector /\ m_dispatch_reg = NoInsn /\ NoInsn \notin Insn
      /\ collector' = collector \ {i} /\ m_dispatch_reg' = i /\ accessq' = KindOf(i).n
      /\ UNCHANGED <<prog, issued, status, m_stores_outstanding, m_n_atomic, m_inst_in_pipeline,
                     reg_table, m_pipeline_reg, m_next_global, m_response_fifo, net>>
  BY InsnFacts DEF Issue
<1>2. \A j \in Insn : Held(j)' <=> Held(j)
  <2>1. \A j \in Insn : InPipeline(j)' <=> InPipeline(j)
    BY <1>1 DEF InPipeline
  <2> QED BY <1>1, <2>1 DEF Held
<1>3. \A a : (Sent(a)' <=> Sent(a)) /\ (StoreOut(a)' <=> StoreOut(a))
  BY <1>1, SentSame
<1>4. \A t \in Token : Owes(t)' => Owes(t)
  <2> SUFFICES ASSUME NEW t \in Token, Owes(t)' PROVE Owes(t)
    OBVIOUS
  <2>1. PICK j : j = t[1]
    OBVIOUS
  <2>2. j \in Insn /\ (Held(j)' <=> Held(j)) /\ (Sent(t)' <=> Sent(t)) /\ Issued' = Issued
    BY <1>1, <1>2, <1>3, <2>1, IssuedSame DEF Token
  <2> QED BY <1>1, <2>1, <2>2, KindSame DEF Owes
<1>5. QED BY <1>1, <1>2, <1>3, <1>4, CountFrame

LEMMA RespondCount ==
  ASSUME IInv, CountInv, NEW a \in Access, Respond(a)
  PROVE  CountInv'
<1> USE DEF frontVars, wbVars, cacheVars, warpVars
<1>1. /\ a \in net /\ net' = net \ {a} /\ m_response_fifo' = Append(m_response_fifo, a)
      /\ UNCHANGED <<prog, issued, status, m_stores_outstanding, m_n_atomic, m_inst_in_pipeline,
                     collector, reg_table, m_dispatch_reg, accessq, m_pipeline_reg, m_next_global>>
  BY DEF Respond
<1>2. Range(m_response_fifo') = Range(m_response_fifo) \cup {a}
  BY <1>1, FifoAppend DEF IInv, TypeInv
<1>3. \A b : Sent(b)' <=> Sent(b)
  BY <1>1, <1>2 DEF Sent
<1>4. \A b \in Access : StoreOut(b)' <=> StoreOut(b)
  BY <1>1, <1>3, KindSame DEF StoreOut
<1>5. QED BY <1>1, <1>3, <1>4, OwesSame, CountFrame

\* The shared-memory pipeline moves: what is held stays held.
LEMMA PipelineCount ==
  ASSUME IInv, CountInv,
         UNCHANGED <<prog, issued, status, m_stores_outstanding, m_n_atomic, m_inst_in_pipeline,
                     collector, reg_table, accessq, m_next_global, m_response_fifo, net>>,
         \A j \in Insn : Held(j)' <=> Held(j),
         m_dispatch_reg' = m_dispatch_reg \/ m_dispatch_reg' = NoInsn
  PROVE  CountInv'
<1>1. \A a : (Sent(a)' <=> Sent(a)) /\ (StoreOut(a)' <=> StoreOut(a))
  BY SentSame
<1>2. \A t \in Token : Owes(t)' => Owes(t)
  <2> SUFFICES ASSUME NEW t \in Token, Owes(t)' PROVE Owes(t)
    OBVIOUS
  <2>1. PICK j : j = t[1]
    OBVIOUS
  <2>2. /\ j \in Insn /\ NoInsn \notin Insn /\ Issued' = Issued
        /\ (Held(j)' <=> Held(j)) /\ (Sent(t)' <=> Sent(t))
    BY <1>1, <2>1, IssuedSame, InsnFacts DEF Token
  <2> QED BY <2>1, <2>2, KindSame DEF Owes
<1>3. QED BY <1>1, <1>2, CountFrame

LEMMA ShiftCount ==
  ASSUME IInv, CountInv, CycleShift
  PROVE  CountInv'
<1> USE DEF frontVars, wbVars, cacheVars, warpVars
<1>1. \A j \in Insn : InPipeline(j)' <=> InPipeline(j)
  BY PipelineShift DEF IInv, CycleShift
<1>2. \A j \in Insn : Held(j)' <=> Held(j)
  BY <1>1 DEF Held, CycleShift
<1>3. QED BY <1>2, PipelineCount DEF CycleShift

LEMMA EnterCount ==
  ASSUME IInv, CountInv, NEW i \in Insn, i = m_dispatch_reg, EnterPipeline(i),
         UNCHANGED <<prog, issued, status, m_stores_outstanding, m_n_atomic, collector, accessq,
                     m_next_global, m_response_fifo, net>>
  PROVE  CountInv'
<1>1. UNCHANGED <<reg_table, m_inst_in_pipeline>> /\ NoInsn \notin Insn
  BY InsnFacts DEF EnterPipeline
<1>2. CASE m_pipeline_reg[Stages - 1] # NoInsn
  <2>1. UNCHANGED <<m_pipeline_reg, m_dispatch_reg>>
    BY <1>2 DEF EnterPipeline
  <2> QED BY <1>1, <2>1, NothingCounted
<1>3. CASE m_pipeline_reg[Stages - 1] = NoInsn
  <2>1. /\ m_pipeline_reg' = [m_pipeline_reg EXCEPT ![2] = i] /\ m_pipeline_reg[2] = NoInsn
        /\ m_dispatch_reg' = NoInsn
    BY <1>3 DEF EnterPipeline, Stages
  <2>2. \A j \in Insn : InPipeline(j)' <=> InPipeline(j) \/ j = i
    BY <2>1, PipelineEnter DEF IInv
  <2>3. \A j \in Insn : Held(j)' <=> Held(j)
    BY <1>1, <2>1, <2>2 DEF Held
  <2> QED BY <1>1, <2>1, <2>3, PipelineCount
<1>4. QED BY <1>2, <1>3

\* The writeback arbiter takes a shared-memory load, with its atomic operation,
\* or an access of a load that bypassed the L1D.
LEMMA TakeSharedCount ==
  ASSUME IInv, CountInv, m_pipeline_reg[0] # NoInsn, TakeShared, UNCHANGED arbitrateVars
  PROVE  CountInv'
<1>1. PICK i : i = m_pipeline_reg[0]
  OBVIOUS
<1>2. /\ m_n_atomic' = [m_n_atomic EXCEPT ![WarpOf(i)] = @ - Atomics(i)]
      /\ m_inst_in_pipeline' = [m_inst_in_pipeline EXCEPT ![WarpOf(i)] = @ - 1]
      /\ m_pipeline_reg' = [m_pipeline_reg EXCEPT ![0] = NoInsn]
      /\ UNCHANGED <<prog, issued, status, collector, reg_table, m_dispatch_reg, accessq,
                     m_stores_outstanding, m_next_global, m_response_fifo, net>>
  BY <1>1 DEF TakeShared, arbitrateVars, frontVars
<1>3. i \in Insn /\ i \in Issued \ collector /\ i # m_dispatch_reg /\ Shared(i) /\ WarpOf(i) \in Warp
  <2>1. i \in Issued \ collector /\ i # m_dispatch_reg /\ Shared(i)
    BY <1>1, StageFacts DEF IInv, InsnInv, PipelinePlace
  <2> QED BY <2>1, InsnFacts DEF Issued
<1>4. InPipeline(i) /\ \A j \in Insn : InPipeline(j)' <=> InPipeline(j) /\ j # i
  BY <1>1, <1>2, <1>3, PipelineTake DEF IInv, InsnInv
<1>5. Held(i) /\ \A j \in Insn : Held(j)' <=> Held(j) /\ j # i
  BY <1>2, <1>3, <1>4 DEF Held
<1>6. UnitCount' /\ \A w \in Warp : InUnit(w)' \subseteq InUnit(w)
  BY <1>2, <1>3, <1>5, UnitMinus DEF CountInv
<1>7. \A a : (Sent(a)' <=> Sent(a)) /\ (StoreOut(a)' <=> StoreOut(a))
  BY <1>2, SentSame
<1>8. StoreCount' /\ \A w \in Warp : StoresOut(w)' = StoresOut(w)
  BY <1>2, <1>7, StoreFrame DEF CountInv
<1>9. \A t \in Token : Owes(t)' => Owes(t) /\ t[1] # i
  <2> SUFFICES ASSUME NEW t \in Token, Owes(t)' PROVE Owes(t) /\ t[1] # i
    OBVIOUS
  <2>1. PICK j : j = t[1]
    OBVIOUS
  <2>2. j \in Insn /\ (Held(j)' => Held(j) /\ j # i) /\ (Sent(t)' <=> Sent(t)) /\ Issued' = Issued
    BY <1>2, <1>5, <1>7, <2>1, IssuedSame DEF Token
  <2> QED BY <1>2, <1>3, <2>1, <2>2, KindSame DEF Owes
<1>10. AtomicCount' /\ \A w \in Warp : status[w] # "running" => m_n_atomic'[w] = m_n_atomic[w]
  <2>1. CASE KindOf(i).atomic
    <3>1. PICK s : s = <<i, 0>>
      OBVIOUS
    <3>2. s \in Token /\ s[1] = i /\ s[2] = 0
      BY <1>3, <3>1, ConfigAssumption DEF Token
    <3>3. Owes(s) /\ \A t \in Token : Owes(t)' => Owes(t) /\ t # s
      BY <1>3, <1>5, <1>9, <2>1, <3>2 DEF Owes
    <3>4. m_n_atomic' = [m_n_atomic EXCEPT ![WarpOf(s[1])] = @ - 1]
      BY <1>2, <1>3, <2>1, <3>2 DEF Atomics
    <3>5. AtomicCount' /\ m_n_atomic[WarpOf(i)] > 0
      BY <3>2, <3>3, <3>4, AtomicMinus DEF CountInv
    <3>6. status[WarpOf(i)] = "running"
      BY <1>3, <3>5 DEF CountInv, QuietInv
    <3> QED BY <3>2, <3>4, <3>5, <3>6 DEF CountInv, AtomicCount
  <2>2. CASE ~KindOf(i).atomic
    <3>1. m_n_atomic' = m_n_atomic
      BY <1>2, <2>2 DEF Atomics, CountInv, AtomicCount
    <3> QED BY <1>9, <3>1, AtomicFrame DEF CountInv
  <2> QED BY <2>1, <2>2
<1>11. QuietInv'
  BY <1>2, <1>6, <1>8, <1>10, QuietFrame DEF CountInv
<1>12. QED BY <1>6, <1>8, <1>10, <1>11 DEF CountInv

LEMMA TakeGlobalCount ==
  ASSUME IInv, CountInv, m_next_global # NoAccess, TakeGlobal, UNCHANGED arbitrateVars
  PROVE  CountInv'
<1>1. PICK a \in Access : a = m_next_global
  BY DEF IInv, TypeInv
<1>2. PICK i \in Insn : i = InsnOf(a) /\ i = a[1] /\ WarpOf(i) \in Warp
  BY InsnFacts DEF InsnOf
<1>3. /\ m_n_atomic' = IF KindOf(i).atomic
                         THEN [m_n_atomic EXCEPT ![WarpOf(i)] = @ - 1] ELSE m_n_atomic
      /\ m_next_global' = NoAccess
      /\ UNCHANGED <<prog, issued, status, collector, reg_table, m_dispatch_reg, accessq, m_pipeline_reg,
                     m_stores_outstanding, m_inst_in_pipeline, m_response_fifo, net>>
  BY <1>1, <1>2 DEF TakeGlobal, arbitrateVars, frontVars
<1>4. i \in Issued \ collector /\ ~Shared(i) /\ (i = m_dispatch_reg => accessq < a[2]) /\ ~Sent(a)
  <2>1. Busy(a)
    BY <1>1 DEF Busy
  <2> QED BY <1>1, <1>2, <2>1 DEF IInv, AccessInv, BusyIssued, GlobalBypasses
<1>5. a[2] \in Nat /\ a[2] > 0 /\ accessq \in Nat /\ a \in Token
  BY <1>1, ConfigAssumption DEF Access, Token, IInv, TypeInv
<1>6. /\ \A j \in Insn : Held(j)' <=> Held(j)
      /\ \A b : (Sent(b)' <=> Sent(b)) /\ (StoreOut(b)' <=> StoreOut(b))
  BY <1>3, SentSame DEF Held, InPipeline
<1>7. /\ UnitCount' /\ \A w \in Warp : InUnit(w)' = InUnit(w)
      /\ StoreCount' /\ \A w \in Warp : StoresOut(w)' = StoresOut(w)
  BY <1>3, <1>6, UnitFrame, StoreFrame DEF CountInv
<1>8. \A t \in Token : Owes(t)' => Owes(t) /\ t # a
  <2> SUFFICES ASSUME NEW t \in Token, Owes(t)' PROVE Owes(t) /\ t # a
    OBVIOUS
  <2>1. PICK j : j = t[1]
    OBVIOUS
  <2>2. /\ j \in Insn /\ (Held(j)' <=> Held(j)) /\ (Sent(t)' <=> Sent(t)) /\ Issued' = Issued
    BY <1>3, <1>6, <2>1, IssuedSame DEF Token
  <2>3. KindOf(j)' = KindOf(j) /\ (Shared(j)' <=> Shared(j))
    BY <1>3, KindSame
  <2>4. t[2] > 0 => t # m_next_global'
    <3>1. t[2] > 0 => t \in Access
      BY DEF Token, Access
    <3> QED BY <1>3, <3>1, InsnFacts
  <2> QED BY <1>2, <1>3, <1>4, <1>5, <2>1, <2>2, <2>3, <2>4 DEF Owes
<1>9. AtomicCount' /\ \A w \in Warp : status[w] # "running" => m_n_atomic'[w] = m_n_atomic[w]
  <2>1. CASE KindOf(i).atomic
    <3>1. Owes(a)
      BY <1>1, <1>2, <1>4, <1>5, <2>1 DEF Owes
    <3>2. m_n_atomic' = [m_n_atomic EXCEPT ![WarpOf(a[1])] = @ - 1]
      BY <1>2, <1>3, <2>1
    <3>3. AtomicCount' /\ m_n_atomic[WarpOf(i)] > 0
      BY <1>2, <1>5, <1>8, <3>1, <3>2, AtomicMinus DEF CountInv
    <3>4. status[WarpOf(i)] = "running"
      BY <1>2, <3>3 DEF CountInv, QuietInv
    <3> QED BY <1>2, <3>2, <3>3, <3>4 DEF CountInv, AtomicCount
  <2>2. CASE ~KindOf(i).atomic
    BY <1>3, <1>8, <2>2, AtomicFrame DEF CountInv
  <2> QED BY <2>1, <2>2
<1>10. QuietInv'
  BY <1>3, <1>7, <1>9, QuietFrame DEF CountInv
<1>11. QED BY <1>7, <1>9, <1>10 DEF CountInv

LEMMA ArbitrateCount ==
  ASSUME IInv, CountInv, CycleArbitrate
  PROVE  CountInv'
<1> USE DEF frontVars, wbVars, warpVars
<1>1. CASE m_next_wb # NoInsn \/ Served = {}
  BY <1>1, NothingCounted DEF CycleArbitrate
<1>2. CASE ~(m_next_wb # NoInsn \/ Served = {})
  <2>1. PICK n \in Served : CASE Client[n] = "shared" -> TakeShared
                              [] Client[n] = "global" -> TakeGlobal
                              [] OTHER -> TakeCached(Client[n])
    BY <1>2 DEF CycleArbitrate
  <2>2. UNCHANGED arbitrateVars
    BY DEF CycleArbitrate, arbitrateVars
  <2>3. CASE Client[n] = "shared" /\ m_pipeline_reg[0] # NoInsn
    BY <2>1, <2>2, <2>3, TakeSharedCount
  <2>4. CASE Client[n] = "global" /\ m_next_global # NoAccess
    BY <2>1, <2>2, <2>4, TakeGlobalCount
  <2>5. CASE Client[n] \in Cache /\ Client[n] # "shared" /\ Client[n] # "global"
    <3>1. TakeCached(Client[n])
      BY <2>1, <2>5
    <3> QED BY <2>2, <3>1, NothingCounted DEF TakeCached, arbitrateVars
  <2> QED BY <2>3, <2>4, <2>5, ServedFacts
<1>3. QED BY <1>1, <1>2

LEMMA WriteBackCount ==
  ASSUME IInv, CountInv, NEW accepts \in BOOLEAN, CycleWriteBack(accepts)
  PROVE  CountInv'
<1> USE DEF frontVars, warpVars
<1>1. \A w \in Warp : reg_table'[w] \subseteq reg_table[w]
  <2>1. CASE accepts
    <3>1. PICK w, free : reg_table' = [reg_table EXCEPT ![w] = @ \ free]
      BY <2>1 DEF CycleWriteBack, WriteBack
    <3> QED BY <3>1 DEF IInv, TypeInv
  <2>2. CASE ~accepts
    BY <2>2 DEF CycleWriteBack
  <2> QED BY <2>1, <2>2
<1>2. QED BY <1>1, NothingCounted DEF CycleWriteBack

\* A response leaves the FIFO: an acknowledgment is counted, and the data of a
\* load that bypassed the L1D stay owed in m_next_global.
LEMMA ResponseCount ==
  ASSUME IInv, CountInv, CycleResponse
  PROVE  CountInv'
<1> USE DEF frontVars, wbVars
<1>1. UNCHANGED <<prog, issued, status, m_n_atomic, m_inst_in_pipeline, collector, reg_table,
                  m_dispatch_reg, accessq, m_pipeline_reg, net>>
  BY DEF CycleResponse
<1>2. CASE UNCHANGED <<m_response_fifo, m_stores_outstanding, m_next_global>>
  BY <1>1, <1>2, NothingCounted
<1>3. CASE ~UNCHANGED <<m_response_fifo, m_stores_outstanding, m_next_global>>
  <2>1. PICK a, i : a = Head(m_response_fifo) /\ i = InsnOf(Head(m_response_fifo)) /\ i = InsnOf(a)
    OBVIOUS
  <2>2. /\ m_response_fifo # <<>> /\ m_response_fifo' = Tail(m_response_fifo)
        /\ \/ /\ KindOf(i).op = "STORE" /\ m_next_global' = m_next_global
              /\ m_stores_outstanding' = [m_stores_outstanding EXCEPT ![WarpOf(i)] = @ - 1]
           \/ /\ IsLoad(i) /\ UNCHANGED m_stores_outstanding
              /\ m_next_global' = a \/ m_next_global' = m_next_global
    BY <1>3, <2>1 DEF CycleResponse
  <2>3. /\ a \in Access /\ a \in Range(m_response_fifo) /\ a \notin net
        /\ Range(m_response_fifo') = Range(m_response_fifo) \ {a}
    BY <2>1, <2>2, HeadFacts
  <2>4. Sent(a) /\ \A b : Sent(b)' <=> Sent(b) /\ b # a
    BY <1>1, <2>3 DEF Sent
  <2>5. \A b \in Access : StoreOut(b)' <=> StoreOut(b) /\ b # a
    BY <1>1, <2>4, KindSame DEF StoreOut
  <2>6. \A j \in Insn : Held(j)' <=> Held(j)
    BY <1>1 DEF Held, InPipeline
  <2>7. \A t \in Token : Owes(t)' => Owes(t)
    <3> SUFFICES ASSUME NEW t \in Token, Owes(t)' PROVE Owes(t)
      OBVIOUS
    <3>1. PICK j : j = t[1]
      OBVIOUS
    <3>2. /\ j \in Insn /\ (Held(j)' <=> Held(j)) /\ Issued' = Issued
          /\ Sent(t)' \/ t = m_next_global' => Sent(t) \/ t = m_next_global
      BY <1>1, <2>2, <2>4, <2>6, <3>1, IssuedSame DEF Token
    <3> QED BY <1>1, <3>1, <3>2, KindSame DEF Owes
  <2>8. /\ UnitCount' /\ AtomicCount'
        /\ \A w \in Warp : InUnit(w)' = InUnit(w)
    BY <1>1, <2>6, <2>7, UnitFrame, AtomicFrame DEF CountInv
  <2>9. StoreCount' /\ \A w \in Warp : StoresOut(w)' \subseteq StoresOut(w)
    <3>1. CASE KindOf(i).op = "STORE"
      <4>1. StoreOut(a) /\ m_stores_outstanding' = [m_stores_outstanding EXCEPT ![WarpOf(InsnOf(a))] = @ - 1]
        BY <2>1, <2>2, <2>4, <3>1 DEF StoreOut, IsLoad
      <4> QED BY <2>3, <2>5, <4>1, StoreMinus DEF CountInv
    <3>2. CASE KindOf(i).op # "STORE"
      <4>1. UNCHANGED m_stores_outstanding /\ \A b \in Access : StoreOut(b)' <=> StoreOut(b)
        BY <2>1, <2>2, <2>5, <3>2 DEF StoreOut
      <4> QED BY <4>1, StoreFrame DEF CountInv
    <3> QED BY <3>1, <3>2
  <2>10. QuietInv'
    BY <1>1, <2>8, <2>9, QuietFrame DEF CountInv
  <2> QED BY <2>8, <2>9, <2>10 DEF CountInv
<1>4. QED BY <1>2, <1>3

\* The dispatched instruction leaves; nothing it holds is owed any more.
LEMMA LeaveUnit ==
  ASSUME IInv, CountInv, NEW i \in Insn, i = m_dispatch_reg, Leave(i), collector' = collector
  PROVE  /\ UnitCount' /\ \A w \in Warp : InUnit(w)' \subseteq InUnit(w)
         /\ \A j \in Insn : Held(j)' => Held(j)
         /\ \A w \in Warp : reg_table'[w] \subseteq reg_table[w]
         /\ m_dispatch_reg' = NoInsn /\ m_pipeline_reg' = m_pipeline_reg
<1>1. /\ m_inst_in_pipeline' = [m_inst_in_pipeline EXCEPT ![WarpOf(i)] = @ - 1]
      /\ m_dispatch_reg' = NoInsn /\ m_pipeline_reg' = m_pipeline_reg
  BY DEF Leave
<1>2. i \notin collector /\ ~InPipeline(i) /\ NoInsn \notin Insn
  BY InsnFacts DEF IInv, InsnInv, DispatchPlace, PipelinePlace, InPipeline
<1>3. \A j : InPipeline(j)' <=> InPipeline(j)
  BY <1>1 DEF InPipeline
<1>4. Held(i) /\ \A j \in Insn : Held(j)' <=> Held(j) /\ j # i
  BY <1>1, <1>2, <1>3 DEF Held
<1>5. UnitCount' /\ \A w \in Warp : InUnit(w)' \subseteq InUnit(w)
  BY <1>1, <1>4, UnitMinus DEF CountInv
<1>6. \A w \in Warp : reg_table'[w] \subseteq reg_table[w]
  <2>1. PICK w, out : reg_table' = reg_table \/ reg_table' = [reg_table EXCEPT ![w] = @ \ out]
    BY DEF Leave
  <2> QED BY <2>1 DEF IInv, TypeInv
<1>7. QED BY <1>1, <1>4, <1>5, <1>6

LEMMA LeaveCount ==
  ASSUME IInv, CountInv, NEW i \in Insn, i = m_dispatch_reg, Leave(i),
         UNCHANGED <<prog, issued, status, m_stores_outstanding, m_n_atomic, collector, accessq,
                     m_next_global, m_response_fifo, net>>
  PROVE  CountInv'
<1>1. /\ UnitCount' /\ \A w \in Warp : InUnit(w)' \subseteq InUnit(w)
      /\ \A j \in Insn : Held(j)' => Held(j)
      /\ \A w \in Warp : reg_table'[w] \subseteq reg_table[w]
      /\ m_dispatch_reg' = NoInsn /\ m_pipeline_reg' = m_pipeline_reg
  BY LeaveUnit
<1>2. \A a : (Sent(a)' <=> Sent(a)) /\ (StoreOut(a)' <=> StoreOut(a))
  BY SentSame
<1>3. \A t \in Token : Owes(t)' => Owes(t)
  <2> SUFFICES ASSUME NEW t \in Token, Owes(t)' PROVE Owes(t)
    OBVIOUS
  <2>1. PICK j : j = t[1]
    OBVIOUS
  <2>2. /\ j \in Insn /\ NoInsn \notin Insn /\ Issued' = Issued
        /\ (Held(j)' => Held(j)) /\ (Sent(t)' <=> Sent(t))
    BY <1>1, <1>2, <2>1, IssuedSame, InsnFacts DEF Token
  <2> QED BY <1>1, <2>1, <2>2, KindSame DEF Owes
<1>4. StoreCount' /\ AtomicCount' /\ \A w \in Warp : StoresOut(w)' = StoresOut(w)
  BY <1>2, <1>3, StoreFrame, AtomicFrame DEF CountInv
<1>5. QuietInv'
  BY <1>1, <1>4, QuietFrame DEF CountInv
<1>6. QED BY <1>1, <1>4, <1>5 DEF CountInv

\* An access of the dispatched instruction is made: a store that is sent is
\* counted, and an atomic operation stays owed if the access is sent.
LEMMA AccessCount ==
  ASSUME IInv, CountInv, NEW i \in Insn, i = m_dispatch_reg, ~Shared(i), accessq # 0,
         AccessHit(<<i, accessq>>) \/ AccessMiss(<<i, accessq>>) \/ AccessSent(<<i, accessq>>),
         accessq' = accessq - 1,
         IF accessq = 1 THEN Leave(i)
           ELSE UNCHANGED <<completed, reg_table, m_inst_in_pipeline, m_dispatch_reg, m_pipeline_reg>>,
         UNCHANGED <<prog, issued, status, m_n_atomic, collector, m_next_global, m_response_fifo>>
  PROVE  CountInv'
<1>1. i \in Issued \ collector /\ Issued' = Issued /\ NoInsn \notin Insn /\ WarpOf(i) \in Warp
  BY IssuedSame, InsnFacts DEF IInv, InsnInv, DispatchPlace
<1>2. PICK q \in 1 .. MaxAccess : q = accessq
  BY ConfigAssumption DEF IInv, TypeInv
<1>3. PICK a \in Access : a = <<i, q>> /\ InsnOf(a) = i /\ a[1] = i /\ a[2] = q
  BY InsnFacts DEF InsnOf
<1>4. ~Busy(a) /\ ~Sent(a)
  <2>1. ~Busy(a)
    BY <1>1, <1>2, <1>3 DEF IInv, AccessInv, BusyIssued
  <2> QED BY <2>1 DEF Busy, Sent
<1>5. /\ UnitCount' /\ \A w \in Warp : InUnit(w)' \subseteq InUnit(w)
      /\ \A j \in Insn : Held(j)' => Held(j)
      /\ \A w \in Warp : reg_table'[w] \subseteq reg_table[w]
      /\ m_dispatch_reg' = NoInsn \/ m_dispatch_reg' = i
  <2>1. CASE accessq = 1
    BY <2>1, LeaveUnit
  <2>2. CASE accessq # 1
    <3>1. UNCHANGED <<reg_table, m_inst_in_pipeline, m_dispatch_reg, m_pipeline_reg>>
      BY <2>2
    <3>2. \A j \in Insn : Held(j)' <=> Held(j)
      BY <3>1 DEF Held, InPipeline
    <3> QED BY <3>1, <3>2, UnitFrame DEF CountInv
  <2> QED BY <2>1, <2>2
<1>6. /\ \A b : Sent(b)' => Sent(b) \/ b = a
      /\ \/ /\ KindOf(i).op = "STORE" /\ \A b : Sent(b)' <=> Sent(b) \/ b = a
            /\ m_stores_outstanding' = [m_stores_outstanding EXCEPT ![WarpOf(i)] = @ + 1]
         \/ /\ KindOf(i).op # "STORE" \/ net' = net
            /\ UNCHANGED m_stores_outstanding
            /\ \A b : b # a => (Sent(b)' <=> Sent(b))
  <2>1. net' = net \/ net' = net \cup {a}
    BY <1>2, <1>3 DEF AccessHit, AccessMiss, AccessSent
  <2>2. /\ \A b : Sent(b)' => Sent(b) \/ b = a
        /\ \A b : b # a => (Sent(b)' <=> Sent(b))
        /\ net' = net \cup {a} => Sent(a)'
    BY <2>1 DEF Sent
  <2>3. \/ /\ KindOf(i).op = "STORE" /\ net' = net \cup {a}
           /\ m_stores_outstanding' = [m_stores_outstanding EXCEPT ![WarpOf(i)] = @ + 1]
        \/ /\ KindOf(i).op # "STORE" \/ net' = net
           /\ UNCHANGED m_stores_outstanding
    BY <1>2, <1>3 DEF AccessHit, AccessMiss, AccessSent, IsLoad
  <2> QED BY <2>2, <2>3
<1>7. StoreCount' /\ \A w \in Warp : w # WarpOf(i) => StoresOut(w)' = StoresOut(w)
  <2>1. ~StoreOut(a)
    BY <1>4 DEF StoreOut
  <2>2. CASE /\ KindOf(i).op = "STORE" /\ \A b : Sent(b)' <=> Sent(b) \/ b = a
             /\ m_stores_outstanding' = [m_stores_outstanding EXCEPT ![WarpOf(i)] = @ + 1]
    <3>1. \A b \in Access : StoreOut(b)' <=> StoreOut(b) \/ b = a
      BY <1>3, <2>2, KindSame DEF StoreOut
    <3> QED BY <1>3, <2>1, <2>2, <3>1, StorePlus DEF CountInv
  <2>3. CASE /\ KindOf(i).op # "STORE" \/ net' = net
             /\ UNCHANGED m_stores_outstanding
             /\ \A b : b # a => (Sent(b)' <=> Sent(b))
    <3>1. net' = net => (Sent(a)' <=> Sent(a))
      BY DEF Sent
    <3>2. \A b \in Access : StoreOut(b)' <=> StoreOut(b)
      BY <1>3, <2>3, <3>1, KindSame DEF StoreOut
    <3> QED BY <2>3, <3>2, StoreFrame DEF CountInv
  <2> QED BY <1>6, <2>2, <2>3
<1>8. \A t \in Token : Owes(t)' => Owes(t)
  <2> SUFFICES ASSUME NEW t \in Token, Owes(t)' PROVE Owes(t)
    OBVIOUS
  <2>1. PICK j, k : j = t[1] /\ k = t[2]
    OBVIOUS
  <2>2. /\ j \in Insn /\ k \in 0 .. MaxAccess /\ (Held(j)' => Held(j))
        /\ Sent(t)' => Sent(t) \/ (j = i /\ k = q)
    BY <1>3, <1>5, <1>6, <2>1 DEF Token
  <2>3. accessq = q /\ accessq' = q - 1 /\ q \in Nat /\ k \in Nat
    BY <1>2, <2>2
  <2>4. k <= q - 1 => k <= q
    BY <2>3
  <2>5. q <= q
    BY <2>3
  <2>6. KindOf(j)' = KindOf(j) /\ (Shared(j)' <=> Shared(j))
    BY KindSame
  <2> QED BY <1>1, <1>5, <2>1, <2>2, <2>3, <2>4, <2>5, <2>6 DEF Owes
<1>9. AtomicCount'
  BY <1>8, AtomicFrame DEF CountInv
<1>10. status[WarpOf(i)] # "exited"
  <2>1. i \in InUnit(WarpOf(i))
    BY DEF InUnit, Held
  <2> QED BY <1>1, <2>1 DEF CountInv, QuietInv
<1>11. QuietInv'
  BY <1>5, <1>7, <1>10, QuietFrame DEF CountInv
<1>12. QED BY <1>5, <1>7, <1>9, <1>11 DEF CountInv

LEMMA DispatchCount ==
  ASSUME IInv, CountInv, NEW proceeds \in BOOLEAN, CycleDispatch(proceeds)
  PROVE  CountInv'
<1> USE DEF frontVars, cacheVars
<1>1. UNCHANGED <<prog, issued, status, collector, m_n_atomic, m_next_global, m_response_fifo>>
  BY DEF CycleDispatch
<1>2. CASE ~proceeds
  <2>1. UNCHANGED <<m_stores_outstanding, m_inst_in_pipeline, reg_table, m_dispatch_reg, accessq,
                    m_pipeline_reg, net>>
    BY <1>2 DEF CycleDispatch, Stall
  <2> QED BY <1>1, <2>1, NothingCounted
<1>3. CASE proceeds
  <2>1. PICK i \in Insn : i = m_dispatch_reg
    BY <1>3 DEF CycleDispatch, IInv, TypeInv
  <2>2. Dispatch(i)
    BY <1>3, <2>1 DEF CycleDispatch
  <2>3. CASE Shared(i) \/ accessq = 0
    <3>1. /\ UNCHANGED <<accessq, m_stores_outstanding, net>>
          /\ EnterPipeline(i) \/ Leave(i)
      BY <2>2, <2>3 DEF Dispatch
    <3> QED BY <1>1, <2>1, <3>1, EnterCount, LeaveCount
  <2>4. CASE ~(Shared(i) \/ accessq = 0)
    <3>1. /\ AccessHit(<<i, accessq>>) \/ AccessMiss(<<i, accessq>>) \/ AccessSent(<<i, accessq>>)
          /\ accessq' = accessq - 1
          /\ IF accessq = 1
               THEN Leave(i)
               ELSE UNCHANGED <<completed, reg_table, m_inst_in_pipeline, m_dispatch_reg, m_pipeline_reg>>
      BY <2>2, <2>4 DEF Dispatch
    <3> QED BY <1>1, <2>1, <2>4, <3>1, AccessCount
  <2> QED BY <2>3, <2>4
<1>4. QED BY <1>2, <1>3

\* The instruction that a warp issues is counted, with the atomic operations
\* that it owes from then on.
LEMMA NewlyOwed ==
  ASSUME NEW i, KindOf(i).n \in 0 .. MaxAccess, KindOf(i).atomic,
         NEW New, New = IF Shared(i) THEN {<<i, 0>>} ELSE {i} \X (1 .. KindOf(i).n)
  PROVE  IsFiniteSet(New) /\ Cardinality(New) = Atomics(i) /\ Atomics(i) \in Nat
<1>1. PICK n \in Nat : n = KindOf(i).n
  BY ConfigAssumption
<1>2. CASE Shared(i)
  BY <1>2, FS_Singleton DEF Atomics
<1>3. CASE ~Shared(i)
  <2>1. /\ IsFiniteSet({i}) /\ Cardinality({i}) = 1
        /\ IsFiniteSet(1 .. n) /\ Cardinality(1 .. n) = n
    <3>1. 1 \in Int /\ n \in Int
      OBVIOUS
    <3>2. IsFiniteSet(1 .. n) /\ Cardinality(1 .. n) = IF 1 > n THEN 0 ELSE n - 1 + 1
      BY <3>1, FS_Interval
    <3>3. Cardinality(1 .. n) = n
      BY <3>1, <3>2
    <3> QED BY <3>2, <3>3, FS_Singleton
  <2>2. IsFiniteSet({i} \X (1 .. n)) /\ Cardinality({i} \X (1 .. n)) = 1 * n
    BY <2>1, FS_Product
  <2> QED BY <1>1, <1>3, <2>2 DEF Atomics
<1>4. QED BY <1>2, <1>3

LEMMA IssueWarpCount ==
  ASSUME IInv, CountInv, NEW w \in Warp, IssueWarp(w)
  PROVE  CountInv'
<1>1. PICK i : i = <<w, issued[w] + 1>>
  OBVIOUS
<1>2. /\ ~Waiting(w)
      /\ reg_table' = [reg_table EXCEPT ![w] = @ \cup KindOf(i).out]
      /\ m_n_atomic' = [m_n_atomic EXCEPT ![w] = @ + Atomics(i)]
      /\ m_inst_in_pipeline' = [m_inst_in_pipeline EXCEPT ![w] = @ + 1]
      /\ collector' = collector \cup {i}
      /\ UNCHANGED <<prog, status, m_stores_outstanding, m_dispatch_reg, accessq, m_pipeline_reg,
                     m_next_global, m_response_fifo, net>>
  BY <1>1 DEF IssueWarp
<1>3. /\ i \in Insn /\ WarpOf(i) = w /\ i \notin Issued /\ Issued' = Issued \cup {i}
      /\ KindOf(i).n \in 0 .. MaxAccess
      /\ i \notin collector /\ i # m_dispatch_reg /\ ~InPipeline(i)
      /\ \A a \in Access : Busy(a) => InsnOf(a) # i
  BY <1>1, IssueFacts
<1>4. ~Held(i) /\ \A j \in Insn : Held(j)' <=> Held(j) \/ j = i
  <2>1. \A j : InPipeline(j)' <=> InPipeline(j)
    BY <1>2 DEF InPipeline
  <2> QED BY <1>2, <1>3, <2>1 DEF Held
<1>5. UnitCount' /\ \A v \in Warp : v # w => InUnit(v)' = InUnit(v)
  <2>1. InUnit(w)' = InUnit(w) \cup {i} /\ i \notin InUnit(w)
    BY <1>3, <1>4, CountSets DEF InUnit
  <2>2. Cardinality(InUnit(w)') = Cardinality(InUnit(w)) + 1
    BY <2>1, CountFinite, FS_AddElement
  <2>3. \A v \in Warp : v # w => InUnit(v)' = InUnit(v)
    BY <1>3, <1>4, CountSets DEF InUnit
  <2> QED BY <1>2, <2>2, <2>3 DEF CountInv, UnitCount
<1>6. \A a : (Sent(a)' <=> Sent(a)) /\ (StoreOut(a)' <=> StoreOut(a))
  BY <1>2, SentSame
<1>7. StoreCount' /\ \A v \in Warp : StoresOut(v)' = StoresOut(v)
  BY <1>2, <1>6, StoreFrame DEF CountInv
<1>8. PICK New : New = IF Shared(i) THEN {<<i, 0>>} ELSE {i} \X (1 .. KindOf(i).n)
  OBVIOUS
<1>9. ASSUME NEW t \in Token, Owes(t)'
      PROVE  Owes(t) \/ (KindOf(i).atomic /\ t[1] = i /\ t \in New)
  <2>1. PICK j, k : j = t[1] /\ k = t[2]
    OBVIOUS
  <2>2. j \in Insn /\ k \in 0 .. MaxAccess /\ t = <<j, k>>
    BY <2>1 DEF Token
  <2>3. KindOf(j)' = KindOf(j) /\ (Shared(j)' <=> Shared(j)) /\ (Held(j)' <=> Held(j) \/ j = i)
    BY <1>2, <1>4, <2>2, KindSame
  <2>4. CASE j # i
    BY <1>2, <1>3, <1>6, <1>9, <2>1, <2>3, <2>4 DEF Owes
  <2>5. CASE j = i
    <3>1. KindOf(i).atomic /\ (Shared(i) => k = 0) /\ (~Shared(i) => k > 0)
      BY <1>9, <2>1, <2>3, <2>5 DEF Owes
    <3>2. ~Shared(i) => k \in 1 .. MaxAccess
      BY <2>2, <3>1, ConfigAssumption
    <3>3. ~Shared(i) => ~Sent(t) /\ t # m_next_global
      <4>1. ~Shared(i) => t \in Access /\ InsnOf(t) = i
        BY <2>2, <2>5, <3>2, InsnFacts
      <4> QED BY <1>3, <4>1 DEF Busy, Sent
    <3>4. ~Shared(i) => k <= KindOf(i).n
      BY <1>2, <1>3, <1>6, <1>9, <2>1, <2>3, <2>5, <3>3 DEF Owes
    <3>5. ~Shared(i) => k \in 1 .. KindOf(i).n
      BY <1>3, <3>2, <3>4, ConfigAssumption
    <3> QED BY <1>8, <2>1, <2>2, <2>5, <3>1, <3>5
  <2> QED BY <2>4, <2>5
<1>10. AtomicCount' /\ \A v \in Warp : v # w => m_n_atomic'[v] = m_n_atomic[v]
  <2>1. \A v \in Warp : v # w => Owed(v)' \subseteq Owed(v)
    BY <1>3, <1>9, CountSets DEF Owed
  <2>2. \A v \in Warp : Cardinality(Owed(v)) \in Nat /\ IsFiniteSet(Owed(v))
    BY CountFinite
  <2>3. \A v \in Warp : v # w => Cardinality(Owed(v)') <= Cardinality(Owed(v)) /\ Cardinality(Owed(v)') \in Nat
    BY <2>1, <2>2, FS_Subset, FS_CardinalityType
  <2>4. Atomics(i) \in Nat /\ Cardinality(Owed(w)') <= Cardinality(Owed(w)) + Atomics(i)
        /\ Cardinality(Owed(w)') \in Nat
    <3>1. CASE ~KindOf(i).atomic
      <4>1. Owed(w)' \subseteq Owed(w) /\ Atomics(i) = 0
        BY <1>9, <3>1, CountSets DEF Owed, Atomics
      <4>2. Cardinality(Owed(w)') <= Cardinality(Owed(w)) /\ Cardinality(Owed(w)') \in Nat
        BY <2>2, <4>1, FS_Subset, FS_CardinalityType
      <4> QED BY <2>2, <4>1, <4>2
    <3>2. CASE KindOf(i).atomic
      <4>1. IsFiniteSet(New) /\ Cardinality(New) = Atomics(i) /\ Atomics(i) \in Nat
        BY <1>3, <1>8, <3>2, NewlyOwed
      <4>2. PICK old : old = Owed(w) /\ IsFiniteSet(old)
        BY <2>2
      <4>3. Owed(w)' \subseteq old \cup New
        BY <1>9, <4>2, CountSets DEF Owed
      <4>4. /\ IsFiniteSet(old \cup New)
            /\ Cardinality(old \cup New) = Cardinality(old) + Cardinality(New) - Cardinality(old \cap New)
        BY <4>1, <4>2, FS_Union
      <4>5. Cardinality(old \cap New) \in Nat /\ Cardinality(old) \in Nat
        <5>1. IsFiniteSet(old \cap New)
          BY <4>2, FS_Intersection
        <5> QED BY <4>2, <5>1, FS_CardinalityType
      <4>6. Cardinality(Owed(w)') <= Cardinality(old \cup New) /\ Cardinality(Owed(w)') \in Nat
        BY <4>3, <4>4, FS_Subset, FS_CardinalityType
      <4> QED BY <4>1, <4>2, <4>4, <4>5, <4>6
    <3> QED BY <3>1, <3>2
  <2>5. \A v \in Warp : /\ m_n_atomic[v] \in Int /\ m_n_atomic[v] >= Cardinality(Owed(v))
                        /\ m_n_atomic'[v] = IF v = w THEN m_n_atomic[v] + Atomics(i) ELSE m_n_atomic[v]
    BY <1>2 DEF CountInv, AtomicCount
  <2>6. m_n_atomic' \in [Warp -> Int]
    BY <1>2, <2>4 DEF CountInv, AtomicCount
  <2>7. \A v \in Warp : m_n_atomic'[v] >= Cardinality(Owed(v)')
    BY <2>2, <2>3, <2>4, <2>5
  <2> QED BY <2>5, <2>6, <2>7 DEF AtomicCount
<1>11. status[w] = "running"
  BY <1>2 DEF Waiting
<1>12. QuietInv'
  <2>1. \A v \in Warp : v # w => reg_table'[v] = reg_table[v]
    BY <1>2 DEF IInv, TypeInv
  <2>2. /\ \A v \in Warp : status[v] # "running" => v # w
        /\ \A v \in Warp : status[v] = "exited" => v # w
    BY <1>11
  <2> QED BY <1>2, <1>5, <1>7, <1>10, <2>1, <2>2, QuietFrame DEF CountInv
<1>13. QED BY <1>5, <1>7, <1>10, <1>12 DEF CountInv

LEMMA CountInit == Init => CountInv
<1> SUFFICES ASSUME Init PROVE CountInv
  OBVIOUS
<1>1. IInv /\ Issued = {}
  BY InitInv DEF Init, Issued, Insn
<1>2. \A i \in Insn : ~Held(i)
  BY InsnFacts DEF Init, Held, InPipeline
<1>3. \A a \in Access : ~StoreOut(a)
  <2>1. Range(m_response_fifo) = {}
    BY DEF Init, Range
  <2> QED BY <2>1 DEF Init, StoreOut, Sent
<1>4. \A t : ~Owes(t)
  BY <1>1 DEF Owes
<1>5. \A w \in Warp : InUnit(w) = {} /\ StoresOut(w) = {} /\ Owed(w) = {}
  BY <1>2, <1>3, <1>4 DEF InUnit, StoresOut, Owed
<1>6. \A w \in Warp : /\ Cardinality(InUnit(w)) = 0 /\ Cardinality(StoresOut(w)) = 0
                      /\ Cardinality(Owed(w)) = 0
  BY <1>5, FS_EmptySet
<1>7. UnitCount /\ StoreCount /\ AtomicCount
  BY <1>6 DEF Init, UnitCount, StoreCount, AtomicCount
<1>8. QuietInv
  BY DEF Init, QuietInv
<1>9. QED BY <1>7, <1>8 DEF CountInv

LEMMA CountNext == IInv /\ CountInv /\ [Next]_vars => CountInv'
<1> SUFFICES ASSUME IInv, CountInv, [Next]_vars PROVE CountInv'
  OBVIOUS
<1>1. CASE UNCHANGED vars
  BY <1>1, NothingCounted DEF vars, frontVars, warpVars
<1>2. QED BY <1>1, WriteBackCount, ArbitrateCount, ShiftCount, ResponseCount, DispatchCount,
             IssueWarpCount, DoneCount, ExitCount, IssueCount, RespondCount
          DEF Next, Cycle, Environment

\* The counters of a warp say what is in the unit: m_inst_in_pipeline and
\* m_stores_outstanding exactly, and m_n_atomic at least the atomic operations
\* that will be counted down.
THEOREM CountersCorrect == Spec => [](IInv /\ CountInv)
<1>1. Init => IInv /\ CountInv
  BY InitInv, CountInit
<1>2. (IInv /\ CountInv) /\ [Next]_vars => (IInv /\ CountInv)'
  BY NextInv, CountNext
<1>3. QED BY <1>1, <1>2, PTL DEF Spec

\* Every load has a destination register.  One whose result is dropped ("_")
\* reserves no register, and nothing holds its warp back from exiting.
LoadsWrite ==
  \A p \in Programs, w \in Warp : \A k \in DOMAIN p[w] :
    p[w][k].op = "LOAD" => p[w][k].out # {}

\* ExitClean is an invariant of programs whose loads have a destination: when
\* fetch() gives up the slot of a warp, every instruction of the warp is
\* complete, none of them or of their accesses is anywhere in the unit, the
\* caches or the memory, and no atomic operation is outstanding.
THEOREM ExitCorrect == ASSUME LoadsWrite PROVE Spec => []ExitClean
<1>1. IInv /\ CountInv => ExitClean
  <2> SUFFICES ASSUME IInv, CountInv, NEW w \in Warp, status[w] = "exited"
               PROVE  /\ \A i \in Issued : WarpOf(i) = w =>
                           /\ completed[i] = 1
                           /\ InFlight(i) = {}
                           /\ i \notin collector \cup {m_dispatch_reg, m_next_wb} \cup Range(m_pipeline_reg)
                      /\ m_n_atomic[w] = 0
    BY DEF ExitClean
  <2>1. InUnit(w) = {} /\ StoresOut(w) = {} /\ reg_table[w] = {} /\ m_n_atomic[w] = 0
    BY DEF CountInv, QuietInv
  <2>2. ASSUME NEW i \in Issued, WarpOf(i) = w
        PROVE  /\ completed[i] = 1
               /\ InFlight(i) = {}
               /\ i \notin collector \cup {m_dispatch_reg, m_next_wb} \cup Range(m_pipeline_reg)
    <3>1. i \in Insn /\ ~Held(i)
      BY <2>1, <2>2 DEF InUnit, Issued
    <3>2. i \notin collector /\ i # m_dispatch_reg /\ ~InPipeline(i)
      BY <3>1 DEF Held
    <3>3. i \notin Range(m_pipeline_reg)
      BY <3>2 DEF Range, InPipeline, IInv, TypeInv
    <3>4. CASE IsLoad(i)
      <4>1. PICK r \in Reg : r \in KindOf(i).out
        <5>1. KindOf(i).out \subseteq Reg
          BY KindFacts DEF IInv
        <5>2. KindOf(i).out # {}
          <6>1. i[1] \in Warp /\ i[2] \in DOMAIN prog[i[1]] /\ prog \in Programs
            <7>1. i[1] \in Warp /\ i[2] \in 1 .. MaxInsn /\ i[2] <= issued[i[1]]
              BY DEF Issued, Insn
            <7>2. /\ prog \in Programs /\ prog[i[1]] \in Seq(Kind)
                  /\ issued[i[1]] \in Nat /\ issued[i[1]] <= Len(prog[i[1]])
              BY <7>1, ConfigAssumption DEF IInv, TypeInv
            <7> QED BY <7>1, <7>2, ConfigAssumption
          <6> QED BY <3>4, <6>1 DEF LoadsWrite, IsLoad, KindOf
        <5> QED BY <5>1, <5>2
      <4>2. completed[i] # 0
        BY <2>1, <2>2, <4>1 DEF IInv, BooksInv, ReservedExact
      <4>3. completed[i] = 1 /\ Finished(i)
        BY <3>1, <4>2 DEF IInv, BooksInv, CompletedExact
      <4>4. Shared(i) => InFlight(i) = {} /\ m_next_wb # i
        <5>1. Shared(i) => \A a \in Access : InsnOf(a) = i => ~Busy(a)
          BY DEF IInv, AccessInv, BusyIssued
        <5> QED BY <3>1, <3>4, <4>3, <5>1, InFlightIs DEF Finished
      <4>5. ~Shared(i) => InFlight(i) = {} /\ m_next_wb # i
        <5>1. ~Shared(i) => Left(i) = 0
          BY <3>4, <4>1, <4>3 DEF Finished
        <5>2. IsFiniteSet(InFlight(i)) /\ Cardinality(InFlight(i)) \in Nat
          BY <3>1, InFlightFinite
        <5>3. Left(i) = 0 => Cardinality(InFlight(i)) = 0 /\ m_next_wb # i
          BY <3>2, <5>2 DEF Left
        <5> QED BY <5>1, <5>2, <5>3, FS_EmptySet
      <4> QED BY <3>2, <3>3, <4>3, <4>4, <4>5
    <3>5. CASE ~IsLoad(i)
      <4>1. completed[i] = 1
        <5>1. Finished(i)
          BY <3>2, <3>5 DEF Finished
        <5> QED BY <3>1, <5>1 DEF IInv, BooksInv, CompletedExact
      <4>2. m_next_wb # i
        BY <3>1, <3>5, InsnFacts DEF IInv, InsnInv, WritebackPlace
      <4>3. ASSUME NEW a \in Access, InsnOf(a) = i, Busy(a) PROVE FALSE
        <5>1. KindOf(i).n > 0
          BY <4>3 DEF IInv, AccessInv, BusyIssued
        <5>2. KindOf(i).op = "STORE"
          BY <3>5, <5>1, KindFacts DEF IInv
        <5>3. ~Sent(a)
          BY <2>1, <2>2, <4>3, <5>2 DEF StoresOut, StoreOut
        <5>4. waits[a] = NoAccess /\ (\A c \in Cache : a \notin ready[c]) /\ a # m_next_global
          BY <3>5, <4>3, InsnFacts
             DEF IInv, AccessInv, WaitsCached, ReadyCached, GlobalBypasses, Cached
        <5> QED BY <4>3, <5>3, <5>4 DEF Busy, Sent
      <4>4. InFlight(i) = {}
        BY <3>1, <4>3, InFlightIs
      <4> QED BY <3>2, <3>3, <4>1, <4>2, <4>4
    <3> QED BY <3>4, <3>5
  <2> QED BY <2>1, <2>2
<1>2. QED BY <1>1, CountersCorrect, PTL

-----------------------------------------------------------------------------
(* Type correctness *)

\* The variables that no other invariant speaks of
RestInv ==
  /\ m_membar \subseteq Warp
  /\ m_writeback_arb \in 0 .. Len(Client) - 1
  /\ phase \in {"writeback", "arbitrate", "shift", "response", "dispatch"}

LEMMA RestNext == RestInv /\ [Next]_vars => RestInv'
<1> SUFFICES ASSUME RestInv, [Next]_vars PROVE RestInv'
  OBVIOUS
<1> USE DEF frontVars, wbVars, warpVars
<1>1. CASE UNCHANGED vars
  BY <1>1 DEF vars, RestInv
<1>2. ASSUME NEW accepts \in BOOLEAN, CycleWriteBack(accepts) PROVE RestInv'
  BY <1>2 DEF CycleWriteBack, RestInv
<1>3. CASE CycleArbitrate
  <2>1. phase' = "shift" /\ m_membar' = m_membar
    BY <1>3 DEF CycleArbitrate, TakeShared, TakeGlobal, TakeCached
  <2>2. m_writeback_arb' = m_writeback_arb \/ \E n \in Served : m_writeback_arb' = n % Len(Client)
    BY <1>3 DEF CycleArbitrate
  <2>3. \A n \in Served : n \in 1 .. 5
    BY DEF Served, Client
  <2>4. Len(Client) = 5
    BY DEF Client
  <2> QED BY <2>1, <2>2, <2>3, <2>4 DEF RestInv
<1>4. CASE CycleShift \/ CycleResponse
  BY <1>4 DEF CycleShift, CycleResponse, RestInv
<1>5. ASSUME NEW proceeds \in BOOLEAN, CycleDispatch(proceeds) PROVE RestInv'
  BY <1>5 DEF CycleDispatch, RestInv
<1>6. ASSUME NEW w \in Warp, IssueWarp(w) \/ Done(w) \/ ExitWarp(w) PROVE RestInv'
  <2>1. UNCHANGED <<phase, m_writeback_arb>>
    BY <1>6 DEF IssueWarp, Done, ExitWarp
  <2>2. m_membar' \subseteq m_membar \cup {w}
    BY <1>6 DEF IssueWarp, Done, ExitWarp
  <2> QED BY <2>1, <2>2 DEF RestInv
<1>7. ASSUME NEW i \in Insn, Issue(i) PROVE RestInv'
  BY <1>7 DEF Issue, RestInv
<1>8. ASSUME NEW a \in Access, Respond(a) PROVE RestInv'
  BY <1>8 DEF Respond, RestInv
<1>9. QED BY <1>1, <1>2, <1>3, <1>4, <1>5, <1>6, <1>7, <1>8 DEF Next, Cycle, Environment

\* Type correctness: no counter of the unit, of the scoreboard or of a warp
\* becomes negative, as the assertions of ldst_unit::writeback,
\* dec_inst_in_pipeline and dec_store_req demand.
THEOREM TypeCorrect == Spec => []TypeOK
<1>1. Init => RestInv
  BY DEF Init, RestInv, Client
<1>2. IInv /\ CountInv /\ RestInv => TypeOK
  <2> SUFFICES ASSUME IInv, CountInv, RestInv PROVE TypeOK
    OBVIOUS
  <2>1. issued \in [Warp -> 0 .. MaxInsn]
    <3>1. issued \in [Warp -> Nat] /\ \A w \in Warp : issued[w] <= Len(prog[w])
      BY DEF IInv, TypeInv
    <3>2. \A w \in Warp : Len(prog[w]) \in Nat /\ Len(prog[w]) <= MaxInsn /\ MaxInsn \in Nat
      BY ConfigAssumption DEF IInv, TypeInv
    <3>3. \A w \in Warp : issued[w] \in 0 .. MaxInsn
      BY <3>1, <3>2
    <3> QED BY <3>1, <3>3
  <2>2. /\ m_inst_in_pipeline \in [Warp -> Nat] /\ m_stores_outstanding \in [Warp -> Nat]
        /\ m_n_atomic \in [Warp -> Nat]
    <3>1. \A w \in Warp : /\ m_inst_in_pipeline[w] \in Nat /\ m_stores_outstanding[w] \in Nat
                          /\ m_n_atomic[w] \in Nat
      <4> SUFFICES ASSUME NEW w \in Warp
                   PROVE  /\ m_inst_in_pipeline[w] \in Nat /\ m_stores_outstanding[w] \in Nat
                          /\ m_n_atomic[w] \in Nat
        OBVIOUS
      <4>1. /\ Cardinality(InUnit(w)) \in Nat /\ Cardinality(StoresOut(w)) \in Nat
            /\ Cardinality(Owed(w)) \in Nat
        BY CountFinite
      <4>2. m_n_atomic[w] \in Int /\ m_n_atomic[w] >= Cardinality(Owed(w))
        BY DEF CountInv, AtomicCount
      <4> QED BY <4>1, <4>2 DEF CountInv, UnitCount, StoreCount
    <3> QED BY <3>1 DEF CountInv, UnitCount, StoreCount, AtomicCount
  <2>3. completed \in [Insn -> Nat]
    <3>1. \A i \in Insn : completed[i] = 0 \/ completed[i] = 1
      BY DEF IInv, BooksInv, CompletedExact
    <3>2. completed \in [Insn -> Int]
      BY DEF IInv, TypeInv
    <3> QED BY <3>1, <3>2
  <2>4. m_pending_writes \in [Warp -> [Reg -> Nat]]
    <3>1. ASSUME NEW w \in Warp, NEW r \in Reg PROVE m_pending_writes[w][r] \in Nat
      <4>1. CASE r \notin reg_table[w]
        BY <4>1 DEF IInv, BooksInv, PendingReserved
      <4>2. CASE r \in reg_table[w]
        <5>1. PICK i \in Issued : WarpOf(i) = w /\ completed[i] = 0 /\ r \in KindOf(i).out
          BY <4>2 DEF IInv, BooksInv, ReservedExact
        <5>2. m_pending_writes[w][r] = Due(i)
          BY <5>1 DEF IInv, BooksInv, PendingDue
        <5>3. Left(i) \in Nat
          BY LeftFacts DEF Issued, IInv
        <5> QED BY <5>2, <5>3 DEF Due
      <4> QED BY <4>1, <4>2
    <3>2. m_pending_writes \in [Warp -> [Reg -> Int]]
      BY DEF IInv, TypeInv
    <3>3. \A w \in Warp : m_pending_writes[w] \in [Reg -> Nat]
      BY <3>1, <3>2
    <3> QED BY <3>2, <3>3
  <2> QED BY <2>1, <2>2, <2>3, <2>4 DEF IInv, TypeInv, CountInv, QuietInv, RestInv, TypeOK
<1>3. RestInv /\ [Next]_vars => RestInv'
  BY RestNext
<1>4. QED BY <1>1, <1>2, <1>3, CountersCorrect, PTL DEF Spec
=============================================================================
