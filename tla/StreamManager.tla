---------------------------- MODULE StreamManager ----------------------------
(***************************************************************************)
(* CUDA streams: the host threads that call the runtime API, the stream    *)
(* manager they share with the simulation thread, and the part of the GPU  *)
(* that the simulation thread drives (kernels, not cores).                 *)
(*                                                                         *)
(* Host threads queue operations and wait for them; the simulation thread  *)
(* takes one at a time, performs it or starts its kernel, and simulates    *)
(* cycles while the GPU is active.  A section under stream_manager::m_lock *)
(* is one step, because nothing else writes what it reads, except where    *)
(* code that takes no lock could see it half done: operation() is two      *)
(* steps, and destroy_stream waits inside its section.                     *)
(***************************************************************************)
EXTENDS Integers, Sequences, FiniteSets, SequencesExt

CONSTANTS
  Host,            \* host threads
  Stream,          \* the objects cudaStreamCreate can return, each of them once
  Zero,            \* m_stream_zero
  Event,           \* CUevent_st objects
  OpTypes,         \* the operations the program uses
  LaunchBlocking,  \* the values CUDA_LAUNCH_BLOCKING may have
  MaxConcurrentKernel, \* max_concurrent_kernel: the size of m_running_kernels
  Ctas,            \* CTAs (thread blocks) of a kernel
  CycleLimit,      \* whether a cycle or instruction limit is configured
  MaxCta,          \* gpu_max_cta_opt
  DestroyBusy,     \* whether the program destroys streams that are in use
  ProgramEnds,     \* whether the program calls cudaThreadExit
  MaxOps,          \* operations the program performs (model bound)
  SimThread, NoThread, NoStream, NoCall

ASSUME StreamAssumption ==
  /\ Zero \notin Stream /\ NoStream \notin Stream \cup {Zero}
  /\ SimThread \notin Host /\ NoThread \notin Host \cup {SimThread}
  /\ OpTypes \subseteq {"memcpy", "kernel", "kernel_func", "event"}
  /\ {CycleLimit, DestroyBusy, ProgramEnds} \cup LaunchBlocking \subseteq BOOLEAN
  /\ MaxConcurrentKernel \in Nat \ {0}
  /\ Ctas \in Nat \ {0}
  /\ MaxCta \in Nat /\ MaxOps \in Nat

VARIABLES
  m_streams,             \* stream_manager::m_streams, in order of creation
  m_operations,          \* CUstream_st::m_operations of every stream
  m_pending,             \* CUstream_st::m_pending of every stream
  m_service_stream_zero, \* stream_manager::m_service_stream_zero
  m_grid_id_to_stream,   \* stream_manager::m_grid_id_to_stream
  m_cuda_launch_blocking, \* stream_manager::m_cuda_launch_blocking, fixed at the start
  m_lock,                \* the thread that holds stream_manager::m_lock
  created,               \* the streams that have been created
  m_running_kernels,     \* gpgpu_sim::m_running_kernels, 0 for NULL
  m_finished_kernel,     \* gpgpu_sim::m_finished_kernel
  ctas,                  \* CTAs of each kernel still to issue, and running
  traffic,               \* memory or interconnect still busy
  limit_hit,             \* the cycle or instruction limit is reached
  issued_cta,            \* m_total_cta_launched (run) and gpu_tot_issued_cta (total)
  sim_pc, check, sim_cycles, \* where the simulation thread is, its locals
  g_sim_active, g_sim_done,
  pc, call,              \* where each host thread is, and the call it makes
  m_done,                \* CUevent_st::m_done
  next_uid,              \* uid of the next operation
  recorded,              \* the events the program has recorded
  completed              \* history: operations performed, or skipped by push

streamVars == <<m_streams, m_operations, m_pending, m_service_stream_zero, m_grid_id_to_stream,
                m_cuda_launch_blocking>>
gpuVars  == <<m_running_kernels, m_finished_kernel, ctas, traffic, limit_hit, issued_cta>>
simVars  == <<sim_pc, check, sim_cycles, g_sim_active>>
hostVars == <<pc, call, next_uid, created, recorded>>
vars == <<streamVars, m_lock, gpuVars, simVars, g_sim_done, hostVars, m_done, completed>>

Queue == Stream \cup {Zero}
Uid   == 1 .. MaxOps
Op    == [type : OpTypes, uid : Uid, event : Event]
IsKernel(op) == op.type \in {"kernel", "kernel_func"}
Slot  == 1 .. MaxConcurrentKernel

Init ==
  /\ m_streams = <<>>
  /\ m_operations = [q \in Queue |-> <<>>]
  /\ m_pending = [q \in Queue |-> FALSE]
  /\ m_service_stream_zero = FALSE
  /\ m_grid_id_to_stream = [u \in Uid |-> NoStream]
  /\ m_cuda_launch_blocking \in LaunchBlocking
  /\ m_lock = NoThread
  /\ m_running_kernels = [n \in Slot |-> 0]
  /\ m_finished_kernel = <<>>
  /\ ctas = [u \in Uid |-> [left |-> Ctas, running |-> 0]]
  /\ traffic = FALSE /\ limit_hit = FALSE
  /\ issued_cta = [run |-> 0, total |-> 0]
  /\ sim_pc = "spin" /\ check = FALSE /\ sim_cycles = FALSE
  /\ g_sim_active = FALSE /\ g_sim_done = FALSE
  /\ pc = [h \in Host |-> "idle"]
  /\ call = [h \in Host |-> NoCall]
  /\ m_done = [e \in Event |-> FALSE]
  /\ next_uid = 1
  /\ created = {} /\ recorded = {}
  /\ completed = {}

concurrent_streams_empty == \A s \in ToSet(m_streams) : m_operations[s] = <<>>
empty == concurrent_streams_empty /\ m_operations[Zero] = <<>>

-----------------------------------------------------------------------------
(* gpgpu_sim *)

Running == {m_running_kernels[n] : n \in Slot} \ {0}

can_start_kernel == \E n \in Slot : m_running_kernels[n] = 0

hit_max_cta_count == MaxCta # 0 /\ issued_cta.total + issued_cta.run >= MaxCta

kernel_more_cta_left(u) == ~hit_max_cta_count /\ ctas[u].left > 0

cycle_insn_cta_max_hit == limit_hit \/ (MaxCta # 0 /\ issued_cta.total >= MaxCta)

active == /\ ~cycle_insn_cta_max_hit
          /\ \/ \E u \in Uid : ctas[u].running > 0
             \/ traffic
             \/ \E u \in Running : kernel_more_cta_left(u)

\* What set_kernel_done makes of the slots
WithoutKernel(u) == [n \in Slot |-> IF m_running_kernels[n] = u THEN 0 ELSE m_running_kernels[n]]

\* A limit on cycles or instructions can be reached in any cycle.
AdvanceCycle == limit_hit' \in IF CycleLimit THEN {limit_hit, TRUE} ELSE {limit_hit}

\* The cycles that matter here: one that issues a CTA of kernel u ...
IssueCta(u) ==
  /\ kernel_more_cta_left(u)
  /\ ctas' = [ctas EXCEPT ![u] = [left |-> @.left - 1, running |-> @.running + 1]]
  /\ issued_cta' = [issued_cta EXCEPT !.run = @ + 1]
  /\ UNCHANGED <<m_running_kernels, m_finished_kernel, traffic>>

\* ... one in which the last thread of a CTA exits, and with it perhaps the
\* kernel, while its stores may still be on their way ...
FinishCta(u) ==
  /\ ctas[u].running > 0
  /\ ctas' = [ctas EXCEPT ![u].running = @ - 1]
  /\ IF ctas[u].running = 1 /\ ~kernel_more_cta_left(u)
       THEN /\ m_running_kernels' = WithoutKernel(u)
            /\ m_finished_kernel' = Append(m_finished_kernel, u)
       ELSE UNCHANGED <<m_running_kernels, m_finished_kernel>>
  /\ traffic' \in BOOLEAN
  /\ UNCHANGED issued_cta

\* ... and one after which memory and interconnect are idle.
DrainTraffic ==
  /\ traffic
  /\ traffic' = FALSE
  /\ UNCHANGED <<m_running_kernels, m_finished_kernel, ctas, issued_cta>>

-----------------------------------------------------------------------------
(* stream_manager, called by the simulation thread *)

RegisterFinished_StaysPending(us) ==
  LET qs == {m_grid_id_to_stream[u] : u \in us}
  IN  /\ m_operations' = [q \in Queue |-> IF q \in qs THEN Tail(m_operations[q]) ELSE m_operations[q]]
      /\ m_grid_id_to_stream' = [u \in Uid |-> IF u \in us THEN NoStream ELSE m_grid_id_to_stream[u]]
      /\ completed' = completed \cup us
      /\ UNCHANGED m_pending

\* The kernels us are done: their operations leave their streams.
RegisterFinished(us) ==
  LET qs == {m_grid_id_to_stream[u] : u \in us}
  IN  /\ m_operations' = [q \in Queue |-> IF q \in qs THEN Tail(m_operations[q]) ELSE m_operations[q]]
      /\ m_pending' = [q \in Queue |-> IF q \in qs THEN FALSE ELSE m_pending[q]]
      /\ m_grid_id_to_stream' = [u \in Uid |-> IF u \in us THEN NoStream ELSE m_grid_id_to_stream[u]]
      /\ completed' = completed \cup us

\* The thread waits for work.
SimSpin ==
  /\ sim_pc = "spin" /\ m_lock = NoThread
  /\ ~empty \/ g_sim_done
  /\ sim_pc' = "activate"
  /\ UNCHANGED <<streamVars, m_lock, gpuVars, check, sim_cycles, g_sim_active, g_sim_done,
                 hostVars, m_done, completed>>

\* g_sim_active is set and gpgpu_sim::init called.
SimActivate ==
  /\ sim_pc = "activate"
  /\ g_sim_active' = TRUE
  /\ sim_cycles' = FALSE
  /\ issued_cta' = [issued_cta EXCEPT !.run = 0]
  /\ sim_pc' = "check"
  /\ UNCHANGED <<streamVars, m_lock, m_running_kernels, m_finished_kernel, ctas, traffic,
                 limit_hit, check, g_sim_done, hostVars, m_done, completed>>

\* operation(): first half, check_finished_kernel
SimCheck ==
  /\ sim_pc = "check" /\ m_lock = NoThread
  /\ check' = (m_finished_kernel # <<>>)
  /\ IF m_finished_kernel # <<>>
       THEN /\ RegisterFinished({Head(m_finished_kernel)})
            /\ m_finished_kernel' = Tail(m_finished_kernel)
       ELSE UNCHANGED <<m_operations, m_pending, m_grid_id_to_stream, completed, m_finished_kernel>>
  /\ m_lock' = SimThread
  /\ sim_pc' = "serve"
  /\ UNCHANGED <<m_cuda_launch_blocking, m_streams, m_service_stream_zero, m_running_kernels, ctas, traffic,
                 limit_hit, issued_cta, sim_cycles, g_sim_active, g_sim_done, hostVars, m_done>>

Service_Unconditional == m_operations[Zero] # <<>>

\* front() serves stream zero once every other stream is empty, and goes on
\* until stream zero is empty.
Service == m_service_stream_zero \/ concurrent_streams_empty

\* A stream whose front operation can be taken
Ready(q) == m_operations[q] # <<>> /\ ~m_pending[q]

FrontStream_FirstOnly(q) ==
  IF Service THEN q = Zero /\ Ready(Zero)
             ELSE m_streams # <<>> /\ q = Head(m_streams) /\ Ready(q)

\* The stream front() takes an operation from, if there is one
FrontStream(q) ==
  IF Service
    THEN q = Zero /\ Ready(Zero)
    ELSE \E i \in DOMAIN m_streams : /\ m_streams[i] = q /\ Ready(q)
                                     /\ \A j \in 1 .. i - 1 : ~Ready(m_streams[j])

\* The rest of operation(): front() and do_operation().
SimServe ==
  /\ sim_pc = "serve"
  /\ m_service_stream_zero' = (Service /\ m_operations[Zero] # <<>>)
  /\ m_lock' = NoThread
  /\ sim_pc' = "cycle"
  /\ UNCHANGED <<m_cuda_launch_blocking, m_streams, m_finished_kernel, ctas, traffic, limit_hit, issued_cta,
                 check, sim_cycles, g_sim_active, g_sim_done, hostVars>>

ServeNothing ==
  /\ SimServe
  /\ \A q \in Queue : ~FrontStream(q)
  /\ UNCHANGED <<m_operations, m_pending, m_grid_id_to_stream, m_running_kernels, m_done, completed>>

\* Copies and events are performed at once: next() marks the operation pending
\* and record_next_done() removes it.
ServeAtOnce(q) ==
  LET op == Head(m_operations[q])
  IN  /\ SimServe
      /\ FrontStream(q)
      /\ op.type \in {"memcpy", "event"}
      /\ m_operations' = [m_operations EXCEPT ![q] = Tail(@)]
      /\ m_done' = IF op.type = "event" THEN [m_done EXCEPT ![op.event] = TRUE] ELSE m_done
      /\ completed' = completed \cup {op.uid}
      /\ UNCHANGED <<m_pending, m_grid_id_to_stream, m_running_kernels>>

ServeKernel_ZeroForgotten(q) ==
  LET u == Head(m_operations[q]).uid
  IN  /\ SimServe
      /\ FrontStream(q)
      /\ Head(m_operations[q]).type = "kernel"
      /\ can_start_kernel
      /\ m_pending' = [m_pending EXCEPT ![q] = TRUE]
      /\ m_grid_id_to_stream' = IF q = Zero THEN m_grid_id_to_stream
                                            ELSE [m_grid_id_to_stream EXCEPT ![u] = q]
      /\ \E n \in Slot : /\ m_running_kernels[n] = 0
                         /\ \A k \in 1 .. n - 1 : m_running_kernels[k] # 0
                         /\ m_running_kernels' = [m_running_kernels EXCEPT ![n] = u]
      /\ UNCHANGED <<m_operations, m_done, completed>>

\* A kernel is started in the first free slot and stays pending.
ServeKernel(q) ==
  LET u == Head(m_operations[q]).uid
  IN  /\ SimServe
      /\ FrontStream(q)
      /\ Head(m_operations[q]).type = "kernel"
      /\ can_start_kernel
      /\ m_pending' = [m_pending EXCEPT ![q] = TRUE]
      /\ m_grid_id_to_stream' = [m_grid_id_to_stream EXCEPT ![u] = q]
      /\ \E n \in Slot : /\ m_running_kernels[n] = 0
                         /\ \A k \in 1 .. n - 1 : m_running_kernels[k] # 0
                         /\ m_running_kernels' = [m_running_kernels EXCEPT ![n] = u]
      /\ UNCHANGED <<m_operations, m_done, completed>>

\* In functional mode the kernel is executed on the spot, and registered as
\* finished by gpgpu_cuda_ptx_sim_main_func.
ServeKernelFunctional(q) ==
  LET u == Head(m_operations[q]).uid
  IN  /\ SimServe
      /\ FrontStream(q)
      /\ Head(m_operations[q]).type = "kernel_func"
      /\ can_start_kernel
      /\ m_operations' = [m_operations EXCEPT ![q] = Tail(@)]
      /\ completed' = completed \cup {u}
      /\ UNCHANGED <<m_pending, m_grid_id_to_stream, m_running_kernels, m_done>>

\* When every slot is taken do_operation() does nothing, after next() has marked
\* the kernel pending.
ServeKernelNoSlot(q) ==
  LET u == Head(m_operations[q]).uid
  IN  /\ SimServe
      /\ FrontStream(q)
      /\ IsKernel(Head(m_operations[q]))
      /\ ~can_start_kernel
      /\ m_pending' = [m_pending EXCEPT ![q] = TRUE]
      /\ m_grid_id_to_stream' = [m_grid_id_to_stream EXCEPT ![u] = q]
      /\ UNCHANGED <<m_operations, m_running_kernels, m_done, completed>>

\* "Need to break this loop when a kernel completes"
SimBreak ==
  /\ sim_pc = "cycle"
  /\ check /\ ~active
  /\ sim_pc' = "stop"
  /\ UNCHANGED <<streamVars, m_lock, gpuVars, check, sim_cycles, g_sim_active, g_sim_done,
                 hostVars, m_done, completed>>

\* gpgpu_sim::cycle
SimCycle ==
  /\ sim_pc = "cycle"
  /\ active
  /\ (\E u \in Running : IssueCta(u)) \/ (\E u \in Uid : FinishCta(u)) \/ DrainTraffic
  /\ AdvanceCycle
  /\ sim_cycles' = TRUE
  /\ sim_pc' = "test"
  /\ UNCHANGED <<streamVars, m_lock, check, g_sim_active, g_sim_done, hostVars, m_done, completed>>

SimNoCycle ==
  /\ sim_pc = "cycle"
  /\ ~active /\ ~check /\ ~cycle_insn_cta_max_hit
  /\ sim_pc' = "test"
  /\ UNCHANGED <<streamVars, m_lock, gpuVars, check, sim_cycles, g_sim_active, g_sim_done,
                 hostVars, m_done, completed>>

\* A limit is reached: stop_all_running_kernels ends every kernel, registers
\* them as finished, and the thread is to end.
SimLimit ==
  /\ sim_pc = "cycle" /\ m_lock = NoThread
  /\ ~active /\ ~check /\ cycle_insn_cta_max_hit
  /\ RegisterFinished(Running \cup ToSet(m_finished_kernel))
  /\ m_running_kernels' = [n \in Slot |-> 0]
  /\ m_finished_kernel' = <<>>
  /\ g_sim_done' = TRUE
  /\ sim_pc' = "test"
  /\ UNCHANGED <<m_cuda_launch_blocking, m_streams, m_service_stream_zero, m_lock, ctas, traffic, limit_hit, issued_cta,
                 check, sim_cycles, g_sim_active, hostVars, m_done>>

\* The condition of the inner loop
SimTest ==
  /\ sim_pc = "test" /\ m_lock = NoThread
  /\ sim_pc' = IF active \/ ~empty THEN "check" ELSE "stop"
  /\ UNCHANGED <<streamVars, m_lock, gpuVars, check, sim_cycles, g_sim_active, g_sim_done,
                 hostVars, m_done, completed>>

\* update_stats, and the condition of the outer loop
SimStop ==
  /\ sim_pc = "stop"
  /\ issued_cta' = IF sim_cycles THEN [run |-> 0, total |-> issued_cta.total + issued_cta.run]
                                 ELSE issued_cta
  /\ g_sim_active' = FALSE
  /\ sim_pc' = IF g_sim_done THEN "exited" ELSE "spin"
  /\ UNCHANGED <<streamVars, m_lock, m_running_kernels, m_finished_kernel, ctas, traffic,
                 limit_hit, check, sim_cycles, g_sim_done, hostVars, m_done, completed>>

Sim == \/ SimSpin \/ SimActivate \/ SimCheck \/ ServeNothing
       \/ \E q \in Queue : \/ ServeAtOnce(q) \/ ServeKernel(q)
                           \/ ServeKernelFunctional(q) \/ ServeKernelNoSlot(q)
       \/ SimBreak \/ SimCycle \/ SimNoCycle \/ SimLimit \/ SimTest \/ SimStop

-----------------------------------------------------------------------------
(* Host threads *)

\* Nothing of the simulation changes when a host thread enters or leaves a call.
HostOnly == UNCHANGED <<streamVars, m_lock, gpuVars, simVars, g_sim_done, m_done, completed>>

Enter(h, at, c) == /\ pc[h] = "idle"
                   /\ pc' = [pc EXCEPT ![h] = at]
                   /\ call' = [call EXCEPT ![h] = c]
Return(h, from) == /\ pc[h] = from
                   /\ pc' = [pc EXCEPT ![h] = "idle"]
                   /\ call' = [call EXCEPT ![h] = NoCall]

\* No call of a host thread is about stream s.
Unused(s) == s \notin {call[h].stream : h \in {g \in Host : call[g] # NoCall}}

\* Operations of stream zero, and all operations when launches are blocking,
\* wait before and after they are queued.
Blocking(q) == q = Zero \/ m_cuda_launch_blocking

\* stream_manager::push, called with an operation of type t for stream q (zero
\* is the NULL stream): by cudaMemcpy, cudaLaunch, cudaEventRecord
Push(h, t, q, e) ==
  LET op == [type |-> t, uid |-> next_uid, event |-> e]
  IN  /\ next_uid <= MaxOps
      /\ q \in ToSet(m_streams) \cup {Zero}
      /\ Enter(h, IF Blocking(q) THEN "block" ELSE "enqueue",
               [op |-> op, stream |-> q, event |-> e])
      /\ next_uid' = next_uid + 1
      /\ recorded' = IF t = "event" THEN recorded \cup {e} ELSE recorded
      /\ UNCHANGED created
      /\ HostOnly

PushUnblock(h) ==
  /\ m_lock = NoThread
  /\ concurrent_streams_empty
  /\ pc[h] = "block" /\ pc' = [pc EXCEPT ![h] = "enqueue"]
  /\ UNCHANGED <<call, next_uid, created, recorded>>
  /\ HostOnly

PushEnqueue(h) ==
  LET q == IF Blocking(call[h].stream) THEN Zero ELSE call[h].stream
  IN  /\ m_lock = NoThread
      /\ pc[h] = "enqueue"
      /\ IF Blocking(call[h].stream)
           THEN pc' = [pc EXCEPT ![h] = "wait"] /\ UNCHANGED call
           ELSE Return(h, "enqueue")
      /\ IF cycle_insn_cta_max_hit
           THEN /\ completed' = completed \cup {call[h].op.uid}
                /\ UNCHANGED m_operations
           ELSE /\ m_operations' = [m_operations EXCEPT ![q] = Append(@, call[h].op)]
                /\ UNCHANGED completed
      /\ UNCHANGED <<m_cuda_launch_blocking, m_streams, m_pending, m_service_stream_zero, m_grid_id_to_stream, m_lock,
                     gpuVars, simVars, g_sim_done, next_uid, created, recorded, m_done>>

PushWait_ConcurrentOnly(h) ==
  /\ concurrent_streams_empty
  /\ Return(h, "wait")
  /\ UNCHANGED <<next_uid, created, recorded>>
  /\ HostOnly

PushWait(h) ==
  /\ empty
  /\ Return(h, "wait")
  /\ UNCHANGED <<next_uid, created, recorded>>
  /\ HostOnly

\* cudaStreamCreate, add_stream
CreateStream(h, s) ==
  /\ pc[h] = "idle" /\ m_lock = NoThread
  /\ s \notin created
  /\ created' = created \cup {s}
  /\ m_streams' = Append(m_streams, s)
  /\ UNCHANGED <<m_cuda_launch_blocking, m_operations, m_pending, m_service_stream_zero, m_grid_id_to_stream, m_lock,
                 gpuVars, simVars, g_sim_done, pc, call, next_uid, recorded, m_done, completed>>

\* cudaStreamDestroy: destroy_stream waits for the stream under the lock.
DestroyStream(h, s) ==
  /\ m_lock = NoThread
  /\ s \in ToSet(m_streams) /\ Unused(s)
  /\ DestroyBusy \/ m_operations[s] = <<>>
  /\ Enter(h, "destroy", [op |-> NoCall, stream |-> s, event |-> NoCall])
  /\ m_lock' = h
  /\ UNCHANGED <<streamVars, gpuVars, simVars, g_sim_done, next_uid, created, recorded, m_done,
                 completed>>

DestroyDone(h) ==
  /\ pc[h] = "destroy"
  /\ m_operations[call[h].stream] = <<>>
  /\ m_streams' = RemoveFirst(m_streams, call[h].stream)
  /\ m_lock' = NoThread
  /\ Return(h, "destroy")
  /\ UNCHANGED <<m_cuda_launch_blocking, m_operations, m_pending, m_service_stream_zero, m_grid_id_to_stream,
                 gpuVars, simVars, g_sim_done, next_uid, created, recorded, m_done, completed>>

\* cudaStreamSynchronize
StreamSynchronize(h, s) ==
  /\ s \in ToSet(m_streams)
  /\ Enter(h, "stream_sync", [op |-> NoCall, stream |-> s, event |-> NoCall])
  /\ UNCHANGED <<next_uid, created, recorded>>
  /\ HostOnly

StreamSynchronized(h) ==
  /\ pc[h] = "stream_sync"
  /\ m_operations[call[h].stream] = <<>>
  /\ Return(h, "stream_sync")
  /\ UNCHANGED <<next_uid, created, recorded>>
  /\ HostOnly

\* cudaThreadSynchronize: synchronize() polls the streams and g_sim_active;
\* the program goes on after "synced".
Synchronize(h) ==
  /\ Enter(h, "sync", NoCall)
  /\ UNCHANGED <<next_uid, created, recorded>>
  /\ HostOnly

Synchronized_EmptyOnly(h) ==
  /\ empty
  /\ pc[h] = "sync" /\ pc' = [pc EXCEPT ![h] = "synced"]
  /\ UNCHANGED <<call, next_uid, created, recorded>>
  /\ HostOnly

Synchronized(h) ==
  /\ empty /\ ~g_sim_active
  /\ pc[h] = "sync" /\ pc' = [pc EXCEPT ![h] = "synced"]
  /\ UNCHANGED <<call, next_uid, created, recorded>>
  /\ HostOnly

Proceed(h) ==
  /\ Return(h, "synced")
  /\ UNCHANGED <<next_uid, created, recorded>>
  /\ HostOnly

\* cudaEventSynchronize, on an event that has been recorded
EventSynchronize(h, e) ==
  /\ e \in recorded
  /\ Enter(h, "event_sync", [op |-> NoCall, stream |-> NoStream, event |-> e])
  /\ UNCHANGED <<next_uid, created, recorded>>
  /\ HostOnly

EventSynchronized(h) ==
  /\ pc[h] = "event_sync"
  /\ m_done[call[h].event]
  /\ Return(h, "event_sync")
  /\ UNCHANGED <<next_uid, created, recorded>>
  /\ HostOnly

\* cudaThreadExit: exit_simulation() waits until the thread has ended.
ThreadExit(h) ==
  /\ ProgramEnds
  /\ Enter(h, "exit", NoCall)
  /\ g_sim_done' = TRUE
  /\ UNCHANGED <<streamVars, m_lock, gpuVars, simVars, next_uid, created, recorded, m_done, completed>>

ThreadExited(h) ==
  /\ sim_pc = "exited"
  /\ pc[h] = "exit" /\ pc' = [pc EXCEPT ![h] = "gone"]
  /\ UNCHANGED <<call, next_uid, created, recorded>>
  /\ HostOnly

\* The polls of a call that has not returned
Poll(h) == \/ PushUnblock(h) \/ PushEnqueue(h) \/ PushWait(h) \/ DestroyDone(h)
           \/ StreamSynchronized(h) \/ Synchronized(h) \/ Proceed(h)
           \/ EventSynchronized(h) \/ ThreadExited(h)

Next ==
  \/ Sim
  \/ \E h \in Host :
       \/ \E t \in OpTypes, q \in Queue, e \in Event : Push(h, t, q, e)
       \/ \E s \in Stream : CreateStream(h, s) \/ DestroyStream(h, s) \/ StreamSynchronize(h, s)
       \/ Synchronize(h)
       \/ \E e \in Event : EventSynchronize(h, e)
       \/ ThreadExit(h)
       \/ Poll(h)

Spec == Init /\ [][Next]_vars

\* The simulation thread and a host thread inside a call keep running; the GPU
\* makes progress in every cycle it is active.
Fairness == WF_vars(Sim) /\ \A h \in Host : WF_vars(Poll(h))

FairSpec == Spec /\ Fairness

-----------------------------------------------------------------------------
(* Properties *)

TypeOK ==
  /\ ToSet(m_streams) \subseteq created /\ created \subseteq Stream /\ recorded \subseteq Event
  /\ m_operations \in [Queue -> Seq(Op)]
  /\ m_pending \in [Queue -> BOOLEAN]
  /\ m_service_stream_zero \in BOOLEAN
  /\ m_grid_id_to_stream \in [Uid -> Queue \cup {NoStream}]
  /\ m_lock \in Host \cup {NoThread, SimThread}
  /\ m_running_kernels \in [Slot -> Uid \cup {0}]
  /\ m_finished_kernel \in Seq(Uid)
  /\ ctas \in [Uid -> [left : 0 .. Ctas, running : 0 .. Ctas]]
  /\ {traffic, limit_hit, check, sim_cycles, g_sim_active, g_sim_done} \subseteq BOOLEAN
  /\ issued_cta \in [run : Nat, total : Nat]
  /\ next_uid \in 1 .. MaxOps + 1
  /\ completed \subseteq Uid

\* While an operation of stream zero is being performed none of another stream
\* is, and the other way round, although host threads go on queueing: front()
\* changes over only when one side is empty.
ZeroExclusive == m_pending[Zero] => \A s \in Stream : ~m_pending[s]

\* Kernel u is at the front of stream q and has been started.
StartedAt(u, q) == /\ m_pending[q] /\ m_operations[q] # <<>>
                   /\ IsKernel(Head(m_operations[q])) /\ Head(m_operations[q]).uid = u

\* register_finished_kernel finds the stream of every kernel that runs or has
\* finished, with that kernel at its front (the assertion on grid_uid).
GridRegistered ==
  \A u \in Running \cup ToSet(m_finished_kernel) :
    m_grid_id_to_stream[u] \in Queue /\ StartedAt(u, m_grid_id_to_stream[u])

\* When cudaThreadSynchronize has returned to the only host thread, every
\* operation it queued is completed, the simulation thread waits for work and
\* the GPU is inactive, stores included.
SyncedIdle == \A h \in Host : pc[h] = "synced" =>
                /\ \A u \in 1 .. next_uid - 1 : u \in completed
                /\ sim_pc \in {"spin", "exited"} /\ ~active

\* push() on stream zero returns only when its operation has been performed (or
\* skipped because a limit was reached).
PushSynchronous ==
  [][\A h \in Host : pc[h] = "wait" /\ pc'[h] = "idle" => call[h].op.uid \in completed]_vars

\* Every call returns, so no operation it waits for is left behind, whether or not
\* a limit stops the simulation.  cudaEventSynchronize is left out: push() drops
\* the record of an event once a limit is reached.
CallsReturn ==
  \A h \in Host : pc[h] \notin {"idle", "event_sync"} ~> pc[h] \in {"idle", "event_sync", "gone"}

\* Every operation that is queued is performed, unless the program ends first.
OpsPerformed == \A u \in Uid : next_uid > u ~> u \in completed \/ g_sim_done
=============================================================================
