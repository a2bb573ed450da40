------------------------------ MODULE FrontEnd ------------------------------
(***************************************************************************)
(* The front end of a SIMT core for one warp: fetch through the            *)
(* instruction cache, decode of two instructions into the instruction      *)
(* buffer, and the scheduler that issues from it or throws it away         *)
(* (shader.cc: fetch, decode, scheduler_unit::cycle, issue_warp; shader.h: *)
(* shd_warp_t).  Fetch follows the addresses in order, without looking at  *)
(* the reconvergence stack: what it brings may be the wrong instruction,   *)
(* or none at all behind the last return, and only the scheduler compares. *)
(*                                                                         *)
(* The instruction cache hits or misses freely; the units behind issue are *)
(* a number of instructions in flight.  Hazards on registers and barriers  *)
(* are those of LdstUnit and BarrierSet.                                   *)
(***************************************************************************)
EXTENDS SimtStack

CONSTANT MaxInFlight \* instructions of the warp between issue and write-back
ASSUME FrontEndAssumption == MaxInFlight \in Nat \ {0}

VARIABLES
  m_next_pc,           \* where the warp fetches next
  m_ibuffer,           \* the two slots: an address, NullInst or Free
  m_next,              \* the slot the scheduler looks at
  imiss,               \* the address the instruction cache is waiting for, or Free
  m_inst_fetch_buffer, \* the address that was fetched, or Free
  m_inst_in_pipeline,  \* the warp's counter of instructions decoded and not done
  in_flight            \* instructions issued and not written back

fetchVars == <<m_next_pc, imiss, m_inst_fetch_buffer>>
feVars == <<fetchVars, m_ibuffer, m_next, m_inst_in_pipeline, in_flight>>

Slots == {0, 1}
NullInst == NoPC
Free == -3

ibuffer_empty == \A s \in Slots : m_ibuffer[s] = Free
Valid == {s \in Slots : m_ibuffer[s] # Free}

FEInit ==
  /\ Init
  /\ m_next_pc = NoPC /\ imiss = Free /\ m_inst_fetch_buffer = Free
  /\ m_ibuffer = [s \in Slots |-> Free] /\ m_next = 0
  /\ m_inst_in_pipeline = 0 /\ in_flight = 0

FEAssemble == Assemble /\ UNCHANGED feVars

\* shd_warp_t::init
FELaunch(n) ==
  /\ Launch(n)
  /\ m_next_pc' = Min(program.start)
  /\ UNCHANGED <<imiss, m_inst_fetch_buffer, m_ibuffer, m_next, m_inst_in_pipeline, in_flight>>
-----------------------------------------------------------------------------
(* fetch and decode *)

MayFetch_AnyTime ==
  phase = "run" /\ Live # {} /\ m_inst_fetch_buffer = Free /\ imiss = Free

MayFetch ==
  phase = "run" /\ Live # {} /\ m_inst_fetch_buffer = Free /\ imiss = Free /\ ibuffer_empty

FetchHit ==
  /\ MayFetch
  /\ m_inst_fetch_buffer' = m_next_pc
  /\ UNCHANGED <<vars, m_next_pc, imiss, m_ibuffer, m_next, m_inst_in_pipeline, in_flight>>

FetchMiss ==
  /\ MayFetch
  /\ imiss' = m_next_pc
  /\ UNCHANGED <<vars, m_next_pc, m_inst_fetch_buffer, m_ibuffer, m_next, m_inst_in_pipeline,
                 in_flight>>

\* The answer to a miss is taken to be for the warp's present address.
FetchAnswer ==
  /\ imiss # Free /\ m_inst_fetch_buffer = Free
  /\ m_inst_fetch_buffer' = m_next_pc
  /\ imiss' = Free
  /\ UNCHANGED <<vars, m_next_pc, m_ibuffer, m_next, m_inst_in_pipeline, in_flight>>

ptx_fetch_inst(pc) == IF pc \in DOMAIN program.code THEN pc ELSE NullInst

Decode ==
  /\ m_inst_fetch_buffer # Free
  /\ LET pc == m_inst_fetch_buffer
         first == ptx_fetch_inst(pc)
         two == first # NullInst /\ ptx_fetch_inst(pc + 1) # NullInst
     IN  /\ m_ibuffer' = [m_ibuffer EXCEPT ![0] = first, ![1] = IF two THEN pc + 1 ELSE @]
         /\ m_inst_in_pipeline' = m_inst_in_pipeline + (IF two THEN 2 ELSE 1)
  /\ m_next' = 0
  /\ m_inst_fetch_buffer' = Free
  /\ UNCHANGED <<vars, m_next_pc, imiss, in_flight>>
-----------------------------------------------------------------------------
(* scheduler_unit::cycle for the warp *)

ibuffer_flush == [s \in Slots |-> Free]

\* ibuffer_next_valid, and ibuffer_next_inst is not NULL
NextValid == m_ibuffer[m_next] # Free
NextInst == m_ibuffer[m_next] \notin {Free, NullInst}

\* A control hazard, or no instruction: fetch again where the stack says.
Flush_NotCounted ==
  /\ phase = "run" /\ Live # {} /\ NextValid
  /\ NextInst => m_ibuffer[m_next] # Top.pc
  /\ m_next_pc' = Top.pc
  /\ m_ibuffer' = ibuffer_flush
  /\ m_inst_in_pipeline' = m_inst_in_pipeline - 1
  /\ UNCHANGED <<vars, imiss, m_inst_fetch_buffer, m_next, in_flight>>

Flush ==
  /\ phase = "run" /\ Live # {} /\ NextValid
  /\ NextInst => m_ibuffer[m_next] # Top.pc
  /\ m_next_pc' = Top.pc
  /\ m_ibuffer' = ibuffer_flush
  /\ m_inst_in_pipeline' = m_inst_in_pipeline - Cardinality(Valid)
  /\ UNCHANGED <<vars, imiss, m_inst_fetch_buffer, m_next, in_flight>>

\* issue_warp.  checkExecutionStatusAndUpdate throws the rest of the buffer
\* away when a thread finishes.
Issue(skip) ==
  /\ phase = "run" /\ Live # {} /\ NextInst /\ m_ibuffer[m_next] = Top.pc
  /\ in_flight < MaxInFlight
  /\ Execute(skip)
  /\ LET finishes == \E t \in Top.mask : thread_done'[t]
         rest == Valid \ {m_next}
     IN  /\ m_ibuffer' = IF finishes THEN ibuffer_flush ELSE [m_ibuffer EXCEPT ![m_next] = Free]
         /\ m_inst_in_pipeline' = m_inst_in_pipeline - (IF finishes THEN Cardinality(rest) ELSE 0)
  /\ m_next' = (m_next + 1) % 2
  /\ m_next_pc' = Top.pc + 1
  /\ in_flight' = in_flight + 1
  /\ UNCHANGED <<imiss, m_inst_fetch_buffer>>

WriteBack ==
  /\ in_flight > 0
  /\ in_flight' = in_flight - 1
  /\ m_inst_in_pipeline' = m_inst_in_pipeline - 1
  /\ UNCHANGED <<vars, fetchVars, m_ibuffer, m_next>>

\* The warp is hardware_done: fetch reclaims it, and reinit resets it.
FEReset ==
  /\ m_inst_in_pipeline = 0
  /\ Reset
  /\ UNCHANGED feVars

FENext ==
  \/ FEAssemble
  \/ \E n \in 1 .. WarpSize : FELaunch(n)
  \/ FetchHit \/ FetchMiss \/ FetchAnswer \/ Decode
  \/ Flush \/ \E skip \in SUBSET Threads : Issue(skip)
  \/ WriteBack
  \/ FEReset

FESpec == FEInit /\ [][FENext]_<<vars, feVars>>
-----------------------------------------------------------------------------
(* Properties *)

\* What is fetched is what the warp asked for (the assertion of fetch on the
\* answer of the instruction cache), nothing is fetched over instructions still
\* in the buffer, and a warp that is done waits for nothing: its slot may be
\* given to another CTA without an old answer meeting the new warp.  While the
\* buffer holds an instruction the scheduler looks at one: a buffer with only
\* the other slot filled would be neither issued nor flushed nor fetched into.
FetchMatches ==
  /\ imiss # Free => imiss = m_next_pc
  /\ m_inst_fetch_buffer # Free => m_inst_fetch_buffer = m_next_pc
  /\ imiss # Free \/ m_inst_fetch_buffer # Free => ibuffer_empty /\ phase = "run" /\ Live # {}
  /\ ibuffer_empty \/ m_ibuffer[m_next] # Free

\* The warp's counter is exactly its buffered and its issued instructions: it
\* decides that the warp may be reclaimed, and reset asserts that it is 0.
PipelineExact == m_inst_in_pipeline = Cardinality(Valid) + in_flight
=============================================================================
