--------------------------- MODULE FrontEndProofs ---------------------------
(***************************************************************************)
(* FetchMatches and PipelineExact of FrontEnd, for every warp size, every  *)
(* program and any number of instructions in flight.  Nothing is assumed   *)
(* of the reconvergence stack: the front end is right whatever address the *)
(* stack says the warp is at, and whether or not it is right itself.       *)
(***************************************************************************)
EXTENDS FrontEnd, FiniteSetTheorems, TLAPS

FrontType ==
  /\ program \in Program
  /\ m_next \in Slots
  /\ DOMAIN m_ibuffer = Slots
  /\ m_inst_in_pipeline \in Int
  /\ in_flight \in Nat

\* The warp fetches one address at a time.
OneFetch == imiss = Free \/ m_inst_fetch_buffer = Free

\* The inductive invariant.  Without OneFetch an answer of the instruction cache
\* could come after its instruction was decoded from another fetch.
FEInv == FrontType /\ OneFetch /\ FetchMatches /\ PipelineExact

\* What one can say of a set of slots.
LEMMA SlotCount ==
  /\ Cardinality({}) = 0
  /\ \A s \in Slots : Cardinality({s}) = 1
  /\ Cardinality(Slots) = 2
  /\ \A S \in SUBSET Slots : IsFiniteSet(S) /\ Cardinality(S) \in Nat
<1>1. IsFiniteSet(Slots) /\ Cardinality(Slots) = 2
  <2>1. IsFiniteSet({0}) /\ Cardinality({0}) = 1
    BY FS_Singleton
  <2>2. IsFiniteSet({0} \cup {1}) /\ Cardinality({0} \cup {1}) = 2
    BY <2>1, FS_AddElement
  <2>3. Slots = {0} \cup {1}
    BY DEF Slots
  <2> QED BY <2>2, <2>3
<1> QED BY <1>1, FS_EmptySet, FS_Singleton, FS_Subset, FS_CardinalityType

\* The instruction taken from the buffer is no longer counted there.
LEMMA TakeOne ==
  ASSUME NEW S \in SUBSET Slots, NEW s \in S
  PROVE  Cardinality(S \ {s}) = Cardinality(S) - 1
BY SlotCount, FS_RemoveElement

\* An instruction that is decoded has an address, and a missing one is NullInst.
LEMMA Fetched ==
  ASSUME FrontType, NEW pc
  PROVE  ptx_fetch_inst(pc) # Free
<1>1. DOMAIN program.code \subseteq Nat
  BY SimtAssumption DEF FrontType
<1> QED BY <1>1 DEF ptx_fetch_inst, NullInst, NoPC, Free

LEMMA InitFEInv == FEInit => FEInv
<1> SUFFICES ASSUME FEInit PROVE FEInv
  OBVIOUS
<1>1. FrontType /\ OneFetch /\ FetchMatches
  BY DEF FEInit, Init, FrontType, OneFetch, FetchMatches, Slots, ibuffer_empty
<1>2. Valid = {}
  BY DEF FEInit, Valid
<1> QED BY <1>1, <1>2, SlotCount DEF FEInit, FEInv, PipelineExact

\* Steps that leave buffer, counters and the scheduler's slot alone.
LEMMA Unbuffered ==
  ASSUME FEInv, UNCHANGED <<m_ibuffer, m_next, m_inst_in_pipeline, in_flight>>, program' = program
  PROVE  FrontType' /\ PipelineExact' /\ (ibuffer_empty' <=> ibuffer_empty)
BY DEF FEInv, FrontType, PipelineExact, Valid, ibuffer_empty

LEMMA NextFEInv == FEInv /\ [FENext]_<<vars, feVars>> => FEInv'
<1> SUFFICES ASSUME FEInv, [FENext]_<<vars, feVars>> PROVE FEInv'
  OBVIOUS
<1>0. FrontType /\ OneFetch /\ FetchMatches /\ PipelineExact
  BY DEF FEInv
<1>1. CASE FEAssemble
  <2>1. UNCHANGED <<program, feVars, thread_done>> /\ phase = "load"
    BY <1>1 DEF FEAssemble, Assemble
  <2>2. imiss = Free /\ m_inst_fetch_buffer = Free
    BY <1>0, <2>1 DEF FetchMatches
  <2> QED BY <1>0, <2>1, <2>2, Unbuffered DEF FEInv, OneFetch, FetchMatches, feVars, fetchVars
<1>2. ASSUME NEW n \in 1 .. WarpSize, FELaunch(n) PROVE FEInv'
  <2>1. /\ UNCHANGED <<program, imiss, m_inst_fetch_buffer, m_ibuffer, m_next,
                       m_inst_in_pipeline, in_flight>>
        /\ phase = "launch"
    BY <1>2 DEF FELaunch, Launch
  <2>2. imiss = Free /\ m_inst_fetch_buffer = Free
    BY <1>0, <2>1 DEF FetchMatches
  <2> QED BY <1>0, <2>1, <2>2, Unbuffered DEF FEInv, OneFetch, FetchMatches
<1>3. CASE FetchHit \/ FetchMiss \/ FetchAnswer
  <2>1. UNCHANGED <<vars, m_next_pc, m_ibuffer, m_next, m_inst_in_pipeline, in_flight>>
    BY <1>3 DEF FetchHit, FetchMiss, FetchAnswer
  <2>2. UNCHANGED <<program, phase, Live>>
    BY <2>1 DEF vars, Live
  <2>3. ibuffer_empty /\ phase = "run" /\ Live # {}
    BY <1>0, <1>3 DEF FetchHit, FetchMiss, FetchAnswer, MayFetch, FetchMatches
  <2>4. /\ imiss' \in {imiss, m_next_pc, Free}
        /\ m_inst_fetch_buffer' \in {m_inst_fetch_buffer, m_next_pc, Free}
        /\ OneFetch'
    BY <1>0, <1>3 DEF FetchHit, FetchMiss, FetchAnswer, MayFetch, OneFetch
  <2> QED BY <1>0, <2>1, <2>2, <2>3, <2>4, Unbuffered DEF FEInv, FetchMatches
<1>4. CASE Decode
  <2> DEFINE pc == m_inst_fetch_buffer
             first == ptx_fetch_inst(pc)
             two == first # NullInst /\ ptx_fetch_inst(pc + 1) # NullInst
  <2>0. /\ m_inst_fetch_buffer # Free
        /\ m_ibuffer' = [m_ibuffer EXCEPT ![0] = first, ![1] = IF two THEN pc + 1 ELSE @]
        /\ m_inst_in_pipeline' = m_inst_in_pipeline + (IF two THEN 2 ELSE 1)
        /\ m_next' = 0 /\ m_inst_fetch_buffer' = Free
        /\ UNCHANGED <<vars, m_next_pc, imiss, in_flight>>
    BY <1>4 DEF Decode
  <2>1. ibuffer_empty /\ phase = "run" /\ Live # {} /\ imiss = Free
    BY <1>0, <2>0 DEF FetchMatches, OneFetch
  <2>2. two => pc + 1 # Free
    <3>1. DOMAIN program.code \subseteq Nat
      BY <1>0, SimtAssumption DEF FrontType
    <3> QED BY <3>1 DEF ptx_fetch_inst, Free
  <2>f. first # Free
    BY <1>0, Fetched
  <2> HIDE DEF first, two
  <2>3. Valid = {} /\ Valid' = IF two THEN Slots ELSE {0}
    BY <1>0, <2>0, <2>1, <2>2, <2>f DEF Valid, ibuffer_empty, FrontType, Slots
  <2>4. UNCHANGED <<program, phase, Live>>
    BY <2>0 DEF vars, Live
  <2>5. FrontType' /\ PipelineExact'
    BY <1>0, <2>0, <2>3, <2>4, SlotCount DEF FrontType, PipelineExact, Slots
  <2>6. m_ibuffer'[m_next'] # Free
    BY <1>0, <2>0, <2>f DEF FrontType, Slots
  <2> QED BY <2>0, <2>1, <2>5, <2>6 DEF FEInv, OneFetch, FetchMatches
<1>5. CASE Flush
  <2>0. /\ NextValid
        /\ m_ibuffer' = ibuffer_flush
        /\ m_inst_in_pipeline' = m_inst_in_pipeline - Cardinality(Valid)
        /\ UNCHANGED <<vars, imiss, m_inst_fetch_buffer, m_next, in_flight>>
    BY <1>5 DEF Flush
  <2>1. imiss = Free /\ m_inst_fetch_buffer = Free
    BY <1>0, <2>0 DEF FetchMatches, NextValid, ibuffer_empty, FrontType
  <2>2. Valid' = {} /\ ibuffer_empty' /\ DOMAIN m_ibuffer' = Slots
    BY <2>0 DEF Valid, ibuffer_flush, ibuffer_empty
  <2>3. program' = program
    BY <2>0 DEF vars
  <2>4. Valid \in SUBSET Slots
    BY DEF Valid
  <2>5. FrontType' /\ PipelineExact'
    BY <1>0, <2>0, <2>2, <2>3, <2>4, SlotCount DEF FrontType, PipelineExact
  <2> QED BY <2>0, <2>1, <2>2, <2>5 DEF FEInv, OneFetch, FetchMatches
<1>6. ASSUME NEW skip \in SUBSET Threads, Issue(skip) PROVE FEInv'
  <2> DEFINE finishes == \E t \in Top.mask : thread_done'[t]
             rest == Valid \ {m_next}
  <2>0. /\ NextInst
        /\ m_ibuffer' = IF finishes THEN ibuffer_flush ELSE [m_ibuffer EXCEPT ![m_next] = Free]
        /\ m_inst_in_pipeline' = m_inst_in_pipeline - (IF finishes THEN Cardinality(rest) ELSE 0)
        /\ m_next' = (m_next + 1) % 2
        /\ in_flight' = in_flight + 1
        /\ UNCHANGED <<imiss, m_inst_fetch_buffer, program>>
    BY <1>6 DEF Issue, Execute
  <2>1. imiss = Free /\ m_inst_fetch_buffer = Free
    BY <1>0, <2>0 DEF FetchMatches, NextInst, ibuffer_empty, FrontType
  <2>2. m_next \in Valid /\ Valid \in SUBSET Slots /\ m_next' = 1 - m_next /\ m_next' \in Slots
    BY <1>0, <2>0 DEF Valid, NextInst, FrontType, Slots
  <2>3. Cardinality(rest) = Cardinality(Valid) - 1 /\ Cardinality(Valid) \in Nat
    BY <2>2, TakeOne, SlotCount
  <2>4. CASE finishes
    <3>1. Valid' = {} /\ ibuffer_empty' /\ DOMAIN m_ibuffer' = Slots
      BY <2>0, <2>4 DEF Valid, ibuffer_flush, ibuffer_empty
    <3>2. m_inst_in_pipeline' = m_inst_in_pipeline - Cardinality(rest)
      BY <2>0, <2>4
    <3>3. FrontType' /\ PipelineExact'
      BY <1>0, <2>0, <2>2, <2>3, <3>1, <3>2, SlotCount DEF FrontType, PipelineExact
    <3> QED BY <2>0, <2>1, <3>1, <3>3 DEF FEInv, OneFetch, FetchMatches
  <2>5. CASE ~finishes
    <3>0. m_ibuffer' = [m_ibuffer EXCEPT ![m_next] = Free] /\ m_inst_in_pipeline' = m_inst_in_pipeline
      BY <1>0, <2>0, <2>5 DEF FrontType
    <3>1. Valid' = rest /\ DOMAIN m_ibuffer' = Slots
      BY <1>0, <3>0 DEF Valid, FrontType
    <3>2. ibuffer_empty' \/ m_ibuffer'[m_next'] # Free
      BY <1>0, <2>2, <3>0 DEF ibuffer_empty, FrontType, Slots
    <3>3. FrontType' /\ PipelineExact'
      BY <1>0, <2>0, <2>2, <2>3, <3>0, <3>1 DEF FrontType, PipelineExact
    <3> QED BY <2>0, <2>1, <3>2, <3>3 DEF FEInv, OneFetch, FetchMatches
  <2> QED BY <2>4, <2>5
<1>7. CASE WriteBack
  <2>1. /\ in_flight > 0 /\ in_flight' = in_flight - 1
        /\ m_inst_in_pipeline' = m_inst_in_pipeline - 1
        /\ UNCHANGED <<vars, fetchVars, m_ibuffer, m_next>>
    BY <1>7 DEF WriteBack
  <2>2. UNCHANGED <<program, phase, Live, Valid, ibuffer_empty>>
    BY <2>1 DEF vars, Live, Valid, ibuffer_empty
  <2>3. Valid \in SUBSET Slots
    BY DEF Valid
  <2>4. FrontType' /\ PipelineExact'
    BY <1>0, <2>1, <2>2, <2>3, SlotCount DEF FrontType, PipelineExact
  <2> QED BY <1>0, <2>1, <2>2, <2>4 DEF FEInv, OneFetch, FetchMatches, fetchVars
<1>8. CASE FEReset
  <2>1. UNCHANGED <<program, feVars>> /\ Live = {}
    BY <1>8 DEF FEReset, Reset
  <2>2. imiss = Free /\ m_inst_fetch_buffer = Free
    BY <1>0, <2>1 DEF FetchMatches
  <2> QED BY <1>0, <2>1, <2>2, Unbuffered DEF FEInv, OneFetch, FetchMatches, feVars, fetchVars
<1>9. CASE UNCHANGED <<vars, feVars>>
  <2>1. UNCHANGED <<program, phase, Live>>
    BY <1>9 DEF vars, Live
  <2> QED BY <1>0, <1>9, <2>1, Unbuffered DEF FEInv, OneFetch, FetchMatches, feVars, fetchVars
<1> QED BY <1>1, <1>2, <1>3, <1>4, <1>5, <1>6, <1>7, <1>8, <1>9 DEF FENext

\* What is fetched is what the warp asked for, the answer of the instruction
\* cache meets the warp that asked, and the scheduler always looks at a filled
\* slot, for every program and every answer of the reconvergence stack
\* (fetch, decode, scheduler_unit::cycle).
THEOREM FetchCorrect == FESpec => []FetchMatches
<1>1. FEInv => FetchMatches
  BY DEF FEInv
<1> QED BY <1>1, InitFEInv, NextFEInv, PTL DEF FESpec

\* m_inst_in_pipeline, which decides when a warp is reclaimed, counts exactly the
\* buffered and the issued instructions, and never becomes negative.
THEOREM PipelineCorrect == FESpec => [](PipelineExact /\ m_inst_in_pipeline \in Nat)
<1>1. FEInv => PipelineExact /\ m_inst_in_pipeline \in Nat
  <2> SUFFICES ASSUME FEInv PROVE PipelineExact /\ m_inst_in_pipeline \in Nat
    OBVIOUS
  <2>1. Valid \in SUBSET Slots
    BY DEF Valid
  <2> QED BY <2>1, SlotCount DEF FEInv, FrontType, PipelineExact
<1> QED BY <1>1, InitFEInv, NextFEInv, PTL DEF FESpec

\* The assertion of shd_warp_t::reset, and what a slot's next warp relies on: a
\* warp that is reclaimed has nothing buffered, in flight or being fetched.
THEOREM ReclaimedIdle ==
  FESpec => [][FEReset => ibuffer_empty /\ in_flight = 0 /\ imiss = Free
                          /\ m_inst_fetch_buffer = Free]_<<vars, feVars>>
<1>1. FEInv /\ [FENext]_<<vars, feVars>> =>
        [FEReset => ibuffer_empty /\ in_flight = 0 /\ imiss = Free
                    /\ m_inst_fetch_buffer = Free]_<<vars, feVars>>
  <2> SUFFICES ASSUME FEInv, FEReset
               PROVE  ibuffer_empty /\ in_flight = 0 /\ imiss = Free /\ m_inst_fetch_buffer = Free
    OBVIOUS
  <2>1. Live = {} /\ m_inst_in_pipeline = 0
    BY DEF FEReset, Reset
  <2>2. Valid \in SUBSET Slots
    BY DEF Valid
  <2>3. Cardinality(Valid) = 0 /\ in_flight = 0
    BY <2>1, <2>2, SlotCount DEF FEInv, PipelineExact, FrontType
  <2>4. Valid = {}
    BY <2>2, <2>3, SlotCount, FS_EmptySet
  <2> QED BY <2>1, <2>3, <2>4 DEF FEInv, FetchMatches, Valid, ibuffer_empty
<1> QED BY <1>1, InitFEInv, NextFEInv, PTL DEF FESpec
=============================================================================
