# TLA+ models of the modified GPGPU-Sim

The repository holds an AES encryption benchmark for GPUs (`AES_gpgpusim/`) and a
modified GPGPU-Sim (`gpgpusim_secure/`), the cycle-level GPU simulator it runs on.
The modification lets memory coalescing be disabled, for every instruction or for
the ones of one source line, so that the number of memory accesses no longer
depends on the data. The simulator is the program; the benchmark is its workload.

This directory models the parts of the simulator whose correctness depends on
orders of events, limits and bookkeeping over many steps, checks them with TLC on
small instances and proves the central invariants with TLAPS for all sizes.
Paths below are relative to `gpgpusim_secure/src` unless they say otherwise.

## 1. Inventory

| Part | State it keeps | Operations | Hard behaviour | What makes it correct |
|---|---|---|---|---|
| CUDA runtime API (`../libcuda/cuda_runtime_api.cc`) | launch stack, events, streams | queue work, synchronise, destroy, exit | several host threads, blocking calls | every call returns, and not before what it waits for is done |
| Stream manager and simulation thread (`stream_manager.*`, `gpgpusim_entrypoint.cc`) | stream queues, `m_pending`, `m_service_stream_zero`, `m_grid_id_to_stream`, `g_sim_active`, `g_sim_done` | `push`, `operation`, `front`, `do_operation`, `register_finished_kernel`, `stop_all_running_kernels`, `destroy_stream` | two kinds of threads, reads outside the lock, limits reached at any moment | streams in order, stream zero exclusive, finished kernels matched to their stream, nothing dropped |
| GPU top level (`gpgpu-sim/gpu-sim.*`) | kernel slots, finished kernels, CTA, cycle and instruction counters | `launch`, `cycle`, `active`, cache flushes | counters updated at different times | a limit ends the simulation; a flush meets no request on its way |
| Warp memory accesses (`abstract_hardware_model.*`) | access queue of an instruction | `generate_mem_accesses`: coalescing, atomics, bank conflicts | merging, splitting and shrinking transactions | every thread served once, as few and as small accesses as promised; with coalescing disabled a number that depends on the mask alone |
| Caches (`gpgpu-sim/gpu-cache.*`) | tags, MSHRs, miss queue, saved fill targets | `access`, `cycle`, `fill`, `next_access`, `flush` | answers out of order, several requests per access, limits, policies | one line per block, one answer per access, no overflow, no lost dirty line, no lock-up |
| CTAs and barriers (`gpgpu-sim/shader.*`) | CTA contexts, warps at barriers | launch, barrier, exit, reclaim | warps that exit while others wait | barriers release exactly when all live warps arrived |
| SIMT front end (`gpgpu-sim/shader.*`) | next pc, instruction buffer, pending fetch, instructions in the pipeline | fetch, decode, issue, flush, reclaim | fetch runs ahead of branches; threads finish at issue | wrong instructions are thrown away, every instruction is counted once |
| SIMT stack (`abstract_hardware_model.*`) and thread control flow (`cuda-sim/ptx_sim.*`, `instructions.cc`) | stack of pc, mask and reconvergence pc; pc and call stack of every thread | `update`, `updateSIMTStack`, branches, calls, returns, exits | two records of the same execution | the stack selects live threads at their own next instruction, and threads that part meet again |
| Flow analysis (`cuda-sim/ptx_ir.cc`) | basic blocks, post-dominators | `ptx_assemble` | iteration to a fixed point | the reconvergence point is the immediate post-dominator |
| Scoreboard and load/store unit (`gpgpu-sim/scoreboard.*`, `shader.cc`) | reserved registers, `m_pending_writes`, stores and atomics outstanding, response FIFO, write-back slot | issue, dispatch, response, write-back | several accesses per instruction, several ways to complete | a register is released once, after its last access; a warp leaves with nothing outstanding |
| Memory partition, L2 queues, DRAM (`gpgpu-sim/l2cache.*`, `dram*.cc`, `delayqueue.h`) | bounded queues, arbitration credits, DRAM banks | `cache_cycle`, `dram_cycle`, FR-FCFS scheduling | bounded queues that feed each other | credits are conserved, requests are not lost or starved |
| Interconnect (`intersim2`), power model (`gpuwattch`), PTX grammar and arithmetic (`cuda-sim`), OpenCL front end (`../libopencl`), statistics | | | | not modelled, section 7 |

How the parts interact: host threads call `stream_manager::push` and poll; the
simulation thread (`gpgpu_sim_thread_concurrent`) takes operations from the
stream manager, launches kernels on the GPU and calls `gpgpu_sim::cycle` while it
is active. The cores issue warp instructions, whose accesses
(`generate_mem_accesses`) go one at a time to a cache. A cache that cannot
take an access returns `RESERVATION_FAIL` and the caller offers it again in the
next cycle. Misses go through the miss queue to the lower level, which calls
`fill` when the answer arrives; `next_access` hands the merged accesses back.
When a kernel is launched or ends, the GPU flushes L1 caches.

The hazards that follow from this, each at its line, are the `hazards` of
`PROJECT.json`; the properties are aimed at them.

## 2. Modules

| Module | Models | Checked by | Proved in |
|---|---|---|---|
| `DataCache` | `tag_array`, `mshr_table`, `baseline_cache`, `read_only_cache`, `data_cache`, `l1_cache`, `l2_cache` | `MCDataCache` | `DataCacheProofs` |
| `AbstractCache` | what a cache promises its caller; implemented by `DataCache`, relied on by `LdstUnit` and `MemPartition` | `MCDataCache` | `DataCacheProofs` |
| `TexCache` | `tex_cache` | `MCTexCache` | `TexCacheProofs` |
| `StreamManager` | host threads, `stream_manager`, the simulation thread, kernel slots and limits of `gpgpu_sim` | `MCStreamManager` | `StreamManagerProofs` |
| `Coalescing` | `warp_inst_t::generate_mem_accesses` | `MCCoalescing` | `CoalescingProofs` |
| `BarrierSet` | `barrier_set_t`, and the CTA contexts of `shader_core_ctx` | `MCBarrierSet` | `BarrierSetProofs` |
| `FlowGraph` | basic blocks, post-dominators and reconvergence points of `function_info` | through `SimtStack` | |
| `SimtStack` | `simt_stack`, `core_t::updateSIMTStack`, and the control flow of `ptx_thread_info` | through `FrontEnd` | |
| `FrontEnd` | `fetch`, `decode`, issue and flush of `scheduler_unit::cycle`, the instruction buffer of `shd_warp_t`; extends `SimtStack` | `MCFrontEnd` | `FrontEndProofs` |
| `LdstUnit` | `ldst_unit`, `Scoreboard`, the counters of `shd_warp_t` | `MCLdstUnit` | `LdstUnitProofs` |
| `Dram` | `dram_t`, `frfcfs_scheduler`, as operators on the state of a channel | through `MemPartition` | `MemPartitionProofs` |
| `MemPartition` | `memory_partition_unit`, `memory_sub_partition`; extends `Dram` | `MCMemPartition` | `MemPartitionProofs` |

Variables and operators keep the names of the code. `map` in `PROJECT.json` gives
the lines of every definition. A definition called `X_Something` next to `X` is a
faulty variant of `X` that breaks the property it is paired with there.

### DataCache

One specification covers all cache classes, as the code does: policies and sizes
are constants. A `mem_fetch` is a member of `Fetch`; `mf` is what it asks for.
The caller offers one access (`Offer`), which stays in `port` until the cache
takes it. `access()` is split by what `probe` and the policy decide: `ReadHit`,
`ReadMiss`, `WriteHitKeep`, `WriteHitSend`, `WriteMissNoAllocate`,
`WriteMissAllocate`; `ReservationFail` is the rejected access, which leaves
the cache as it was. `Cycle` sends the head of the miss
queue down, `WriteDone` and `Fill` are the answers of the lower level, in any
order, `NextAccess` drains an MSHR entry, `Flush` invalidates all lines.

Abstractions: data is left out (the simulator keeps it elsewhere); time stamps
are kept as the order they induce; port bandwidth only delays calls.
`FlushMode` says when flushes happen: `"kernel_end"` when no access of the
cores is on its way, `"kernel_launch"` at any time, which is what a launch next to
running kernels does.

`ImplementsAbstractCache`, at the end of the module, is the refinement: a block is
*present* when a line holds it valid or modified, *asked* for while an MSHR
entry waits, *ready* while its entry is drained; requests on their way down are the
*writes*. `AbstractCache` has no lines, ways, entries or queues. It lets a block
be dropped at any time, but never its dirty data, and says that a block is asked for
once and that one delivery serves every access that waits. It also has the odd
behaviour of the code that an access may join an entry being drained. Each variable of
`AbstractCache` is given by a state function of its own (`PresentBlocks`, `AskedBlocks`, ...).

### TexCache

`AccessHit` and `AccessMiss` update the tags at once and put the access into the
fragment FIFO; a miss takes an entry of the reorder buffer as well. `Cycle` is
`tex_cache::cycle`: it sends a request if there is room and reads the head of the
fragment FIFO when its data is there. `Fill` is an answer, in any order,
`NextAccess` hands a result back. The replacement policy is any victim. `rob_index`
is the index saved with a request (`m_extra_mf_fields`) into the ring `m_rob`; `RobInStep`
states the assertions of `cycle` and `fill` about it: a miss at the head of the fragment
FIFO finds its own entry at the tail of the ring, and a saved index still names the entry of its
request when memory answers.

### StreamManager

Each host thread is `idle` or in a call (`pc`, `call`); the simulation thread is
at a line of its loop (`sim_pc`). A section under `m_lock` is one step, except
where code that takes no lock can see it half done: `operation()` is the two
steps `SimCheck` and `Serve...`, and `destroy_stream` waits inside its section.
`gpgpu_sim::cycle` is `SimCycle`: it issues a CTA, finishes one or drains
traffic. A cycle or instruction limit can be reached in any cycle.
`m_total_cta_launched` and `gpu_tot_issued_cta` are kept apart
(`issued_cta.run`, `.total`), because the code updates them at different times.

### Coalescing

The loops are steps: `Collect` adds one address of one thread to the
transactions of its subwarp, `Skip` passes an inactive thread, `Send` turns a
transaction into an access, `AccessShared` computes the bank conflicts of an
access to shared memory. `coal_disabled_loc` is the decision between the two
switches and the source line. The texture and constant path is the same loop with
one part, the line size as segment and no shrinking. Byte masks are sets.

### BarrierSet

`IssueBlock2core` puts a CTA into the first free context and calls
`AllocateBarrier`; a CTA runs one of the `Programs`: for each warp the barrier
instructions it issues, in order, before it exits. `WarpReachesBarrier` is the
issue of one (`SYNC`, `ARRIVE` or `RED`, with or without a count), `WarpExit` the
exit of the last thread of a warp, `Reclaim` what `fetch` does with a warp that
has nothing in the pipeline any more: `register_cta_thread_exit`, and after the
last warp `DeallocateBarrier`. The threads of a warp arrive, exit and are
reclaimed together, so that threads are counted in warps. The bit sets of warps
are sets. A reduction is followed by who has its result (`no_result`), not by its
value. A core runs CTAs of one kernel at a time, and a context has a fixed range of
warps; the model allows contexts of different sizes, still disjoint.

### FlowGraph, SimtStack, FrontEnd

A program is a function from addresses to instructions (`alu`, `bra`, `call`, `ret`,
`exit`, predicated or not) with the first address of each of its functions.
`FlowGraph` computes from it what `ptx_assemble` does; the sweeps of
`find_postdominators` are iterated until nothing changes, and `OnEveryWay` is the
reference definition by paths. `SimtStack` runs a warp: `Execute` is one
instruction, executed by the threads the top of the stack selects (`ExecInst`, one
thread each), after which `Update` follows them. Predicates are any choice of the
threads that skip the instruction. `FrontEnd` puts fetch, the instruction buffer and
the scheduler in front of it: `Issue` contains `Execute`, so the stack moves only
when the buffer holds the instruction the stack asks for, and `Flush` throws away what
fetch brought in vain. The instruction cache hits or misses freely; the
functional units are a number of instructions in flight.

### LdstUnit

An instruction is the k-th memory instruction of a warp, an access the j-th of an
instruction. `ldst_unit::cycle` runs its stages in a fixed order, and `phase` says
which is next: `CycleWriteBack`, `CycleArbitrate`, `CycleShift`, `CycleResponse`,
`CycleDispatch`. Between two cycles the scheduler issues (`Issue`), warps exit
(`ExitWarp`) and memory answers (`Respond`). The caches behave as
`AbstractCache` says: hit, wait for a request, join one, or refuse.

### Dram, MemPartition

The clock domains call `dram_cycle`, `cache_cycle` (with the request taken from the
interconnect) and the pop of a response at unrelated frequencies: these are the
actions. Each stage of a handler is an operator on the state of the partition, and
the handler is their composition in the order of the code. DRAM timing decides only
in which cycle a command or data is possible; both are choices. `Modes` are
configurations of the L2 (what it caches, its write policy), of the scheduler, and
the requests the cores send.

`m_queue` is one sequence of the waiting requests of all banks. The list the code keeps for
a bank is its subsequence of that bank (`Waits`), a bin of `m_bins` that of one row
(`Bin`), both given by positions, so that "the oldest" is the least position. The loop of
`scheduler_frfcfs` over the banks and that of `dram_cycle` over the sub-partitions pick the
first that can go in rotating order: `FirstIdle` and `FirstAble`, sets of at most one member. `order` is a
history variable: the pairs of unfinished requests of which the first came to the channel
before the second. `CreditsExact` counts: the credits out, shared and private, are as many as
the requests between `borrow_credit` and `return_credit`.

## 3. Runs

Passing runs:

| Run | Instance | Shows |
|---|---|---|
| `l1d` | 3 blocks (one local) in a set of 2 ways, 2 MSHR entries of 2, miss queue of 3, 5 fetches, flush at kernel end | answers find their line, MSHRs stay consistent, dirty local lines are written back |
| `l2` | same sizes, write-back, write-allocate, atomics | a write miss that sends a write, a read and a write-back overflows neither the queue nor the MSHRs and is never half done; the cache implements `AbstractCache` |
| `read_only` | 3 blocks, allocation on fill, 4 fetches, fair | every access is taken and answered |
| `tex` | 3 blocks in 2 lines, 3 fetches, fragment FIFO of 3, reorder buffer of 2, fair | hits find their block, the ring stays in step with the fragment FIFO, answers come in order, every access is answered |
| `streams` | 1 host, 2 streams, stream zero, 1 event, 2 kernel slots, 3 operations, a limit at any moment, `cudaThreadExit`, fair | `cudaThreadSynchronize` returns with everything done, every operation is performed, every call returns |
| `hosts` | 2 hosts, 2 streams, 1 kernel slot, 3 operations, kernels of 2 CTAs and functional kernels, with and without `CUDA_LAUNCH_BLOCKING` | stream zero excludes the others, finished kernels are found at the front of their stream, `push` to stream zero is synchronous |
| `barriers` | 2 contexts of up to 3 warps, 2 barriers; programs with a warp that exits early, reductions in a row, a barrier of two warps, a producer that arrives and exits; fair | no warp passes a barrier before those it waits for, reductions deliver to all, every CTA ends |
| `coalescing` | warp of 4 in 2 parts; all masks, all choices of addresses that meet in a chunk, a half, a segment or not at all; global, local, constant and shared memory, atomics; both switches | accesses complete; atomics serialised; bank conflicts within the bounds the code asserts; stable count without coalescing |
| `simt` | a warp of up to 3 threads; every well-formed kernel of 4 instructions, of 5 with forward predicated branches, and of 4 with calls of every function of 3 instructions | stack and threads in step, no thread lost, threads meet at the post-dominator, post-dominators exact; fetches match, instructions are counted exactly |
| `ldst` | 2 warps, 4 pairs of programs with loads, stores, atomics, shared, constant and texture accesses and a memory barrier; response queue of 1; fair | pending counts and reserved registers are exactly what is outstanding, warps leave with nothing outstanding, every warp leaves |
| `partition` | 2 sub-partitions, 2 banks, queues of 1, scheduler queue of 2; 4 configurations with two requests of the cores and those the L2 makes; fair | credits conserved, bins and queue of the scheduler agree, tracker exact, rows in order, everything served |

One run shows a disagreement between the code and what the repository says of it
(quoted in `findings`): in `simt_return` a function with two returns is called by
part of a warp and left on both. The stack entry of the call becomes the one in
which its threads meet after the return, keeps the type of a call and is therefore
never taken to reconverge in the caller: it runs past the caller's join, and the
entry made for that join becomes the top with threads that are done.

The passing runs stay clear of this case: `Supported` leaves out programs that
call, from code that may diverge, a function whose threads may part until it
returns. These instances fail as well and are no run of their own; the hazards of
`PROJECT.json` name them at their lines:

* `PortServed` with the policies of the L1 data cache (fair, four fetches, a miss queue of
  two, no flush): a read that misses while the MSHR entry of its block is being
  drained is merged into it and reserves a line that nothing will fill
  (`gpgpu-sim/gpu-cache.cc:752`); two of them lock a set for ever;
* `FlushMode = "kernel_launch"` violates `FillTarget`: the flush at a launch
  invalidates lines reserved for requests of running kernels
  (`gpgpu-sim/gpu-sim.cc:887`), and the answer then fails the assertion at
  `gpgpu-sim/gpu-cache.h:84`;
* `MaxConcurrentKernel = 1` in `MCStreams.cfg` violates `OpsPerformed`: a kernel that
  finds no slot is marked as started and never is (`stream_manager.cc:154`);
* `MaxCta = 1` there violates `CallsReturn`: a kernel queued after the last CTA
  allowed, before the counters are added up, is accepted and never gets a CTA
  (`gpgpu-sim/gpu-sim.cc:508`);
* `DestroyBusy = TRUE` there violates `CallsReturn`: `destroy_stream` on a stream with
  work waits under the lock the simulation thread needs (`stream_manager.cc:305`);
* `Programs <- ArrivePrograms` in `MCBarriers.cfg` violates `NoEarlyRelease`: a warp
  that arrives at one barrier and waits at another is let go by the release of the
  first (`gpgpu-sim/shader.cc:2674`);
* `Base = 0` in `MCSimt.cfg` violates `InSync`: a branch of the kernel that reconverges at
  its end is given the return address 0 of the bottom of the call stack
  (`cuda-sim/ptx_sim.h:176`), which is the address of the first instruction.

Bounds and why they are enough. Cache: one set is enough because sets share only
the MSHRs and the miss queue; two ways and three blocks give hits, merges, evictions
and full sets; two entries of two accesses and a queue of three are the smallest
sizes at which every limit is both reached and left, and the largest single
access (three requests) just fits; five fetches fill both entries and leave
one at the port. Streams: three operations put two in a stream behind a pending
one, or one on each of three streams; two hosts race on both sides of stream
zero. Two CTAs let a limit fall between them. Coalescing: four threads are
two per part, so that threads meet within a part and across parts; the addresses
of each kind contain pairs in the same chunk, the same half, the same segment
and in different ones. Barriers: three warps are the least at which one exits or stays
away while two synchronise; two contexts use the same barriers at the same time
and are reused. Control flow: four instructions are the least with a loop and a branch out of it, or
two nested branches; three threads are the least of which two part while the third
waits; the function of three has a branch and two returns. Load/store unit: two
instructions of a warp are the least that can be mixed up; two accesses let one hit
and one miss; a response queue of one shows blocking at the head. Partition: the
queues are as short as the code allows, so that two requests and those made for them
fill them. Texture cache: a ring of two wraps with three misses. The proofs of section 4 do
without their bounds.

Deadlock is checked except in `streams` (the program ends), `coalescing`, `simt` and
`partition` (the algorithm, the kernel or the traffic ends).

`TypeOK` of a module states the shape of its variables; those of `DataCache`, `TexCache`,
`StreamManager`, `FrontEnd`, `LdstUnit` and `MemPartition` are proved, the others can be added to any configuration.

Fairness. `DataCache`: the simulator calls every unit in every cycle, so the
caller's retry, `cycle` and `next_access` are weakly fair, and the lower level
answers every request it holds. `StreamManager`: the simulation thread and a host
thread inside a call keep running, and the GPU makes progress in every cycle it
is active, so `Sim` and the polls of each host are weakly fair; making a new call
is never forced. `BarrierSet`: the steps of each warp are weakly fair, because the
schedulers issue from every warp that stays ready and `fetch` looks at all warps
in turn; launching a CTA is never forced. `LdstUnit`: `cycle` is called in every core
cycle; write-back and dispatch are refused only for a while, so they are strongly
fair when accepted; so is the environment, of which only finitely many steps exist.
`MemPartition`: the clocks of the domains tick, timing counters run down (strong fairness
of the three choices they make), responses are popped; the L2 may refuse while it
has requests outstanding, not for ever. `TexCache`: as for `DataCache`, and the port to the
interconnect has room again and again. `FrontEnd` states no liveness.

## 4. Proofs

`DataCacheProofs` proves for every set of blocks, associativity, set function,
policy, MSHR and queue size, from the assumptions in `DataCache` (sizes are
positive, and what `cache_config::init` and the assertions on the caller
exclude):

* `CoreCorrect`: `Core == TypeOK /\ MshrConsistent /\ TrackedOnce` is
  inductive. Neither of the two is inductive alone: that an entry waits for
  exactly one request needs that a request is in one place, and that an access is
  listed once needs that an entry being drained has no request. `TypeCorrect`,
  `MshrCorrect` and `TrackingCorrect` are its parts.
* `PolicyCorrect`: `PolicyRespected`, which statuses and requests a policy can
  produce (no reserved line with allocation on fill, no dirty line in a
  read-only cache, reads of its own only in a write-allocate cache).
* `TagsCorrect`: with a flush that is safe (`FlushIsSafe`: allocation on fill, no
  flush, or a flush at kernel end in a cache that makes no reads of its own), `UniqueTags` and
  `FillTarget` hold; they are inductive together, relative to `Core` and
  `PolicyRespected`. The instance with a flush at launch (section 3) shows that
  the hypothesis is needed.
* `MissQueueCorrect`, `MshrSizeCorrect` and, from both, `LimitsCorrect`: the queue
  and the table never exceed their sizes.

Its second half proves that `DataCache` implements `AbstractCache`
(`RefinementCorrect`) and, with the same facts, `WriteBackCorrect`: no step but a flush replaces or
cleans a dirty line without queueing a write of its block. The initial states map to initial states, and there is one step
per action: an access, a fill or an answer is one abstract step, a cycle that only moves a
request is a stutter, a flush or an eviction is a drop of clean blocks. The steps use
`Core`, `PolicyRespected`, `UniqueTags` and `FillTarget`. Hypotheses, each
needed (without it TLC finds a counterexample on a small instance): `FlushIsSafe`, as for `TagsCorrect`;
`DirtyKept`, that no line becomes dirty that nothing writes back: no atomics in a
write-through cache, and no allocation on fill with the mixed policy of the L1.

`TexCacheProofs` proves `HitCorrect`, `RobCorrect` and `OrderCorrect` for every number of
lines, length of the FIFOs and of the ring: a hit finds its block when its turn comes, the
ring is in step with the fragment FIFO, and accesses are answered in the order they
were made. The invariant `IInv == TypeOK /\ OrderInv /\ RingInv /\ EntryInv /\ NetInv /\ DataInv`
says what each place knows of the others: the fragment FIFO and the results are in order of
arrival, the ring holds the misses of the FIFO from `head` to `tail`, an entry in use
belongs to its access, a request on its way belongs to a miss that is not ready, and the tags are
ahead of the data by exactly the misses still in the FIFO: a hit needs the block that the last
miss of its line before it brings, or if there is none the one in the cache.

`StreamManagerProofs` proves for all numbers of hosts, streams, kernel slots and operations
`TypeCorrect`, `ZeroExclusiveCorrect` (while an operation of stream zero is pending none of
another stream is), `GridRegisteredCorrect` (a running or finished kernel is in
`m_grid_id_to_stream`, as the pending front of its stream) and `PushSynchronousCorrect`. Their
invariant `IInv` adds to these properties that uids are never used twice, that only the front of a
stream is pending and stream zero not with another, that a running kernel has a slot and CTAs
left, and that the operation a thread waits for is performed or still in stream zero:
`register_finished_kernel` takes the front of a stream, which is the finished kernel only if
none is registered twice. `SyncedIdleCorrect` has the hypothesis that there is one host thread,
as the property itself says: a second one may queue work between the poll and the return. It adds
where the simulation thread is when `g_sim_active` is off (`SimWhere`), and that every
operation queued so far is completed, in a stream, or about to be pushed (`Accounted`).

`FrontEndProofs` proves `FetchCorrect` (what is fetched is what the warp asked for, and the
scheduler looks at a filled slot while there is one), `PipelineCorrect` (the count of instructions in
the pipeline is exact, and never negative, so no warp is reclaimed early) and `ReclaimedIdle`, what a reclaimed slot
leaves behind (nothing). Of
`SimtStack` they use only that an instruction does not bring a thread back to life, so they hold
for every program and every outcome of its branches.

`CoalescingProofs` proves three theorems for every warp size, every partition, every
instruction and all addresses.

* `StableCountCorrect`: without coalescing the number of accesses to global memory is the
  number of active threads. The invariant `IInv` counts entries of the queue plus
  transactions not sent; it is inductive because transactions of a thread are sent
  before the next thread is looked at.
* `ServedOnceCorrect`: every access of every active thread is in one entry of the queue, in
  full. `CollectInv` says which threads a transaction or an entry can contain and when
  a block has several transactions; `ServeInv` that a collected access is in a
  transaction that knows its chunk, or else in exactly one entry. The lemmas on blocks and
  halves show that shrinking to the half that holds the chunks in use loses no byte of
  an aligned access. Hypothesis `LineAligned`: the lines of the constant cache are a
  multiple of 16 bytes, the widest access; a shorter line would cut one in two.
* `AtomicSerialCorrect`: threads of an atomic with the same address are served in order.
  `SerialInv` says that a thread is in the first transaction of its block whose bytes were
  free, so that of two threads with the same bytes the later one is further back in the list;
  transactions leave in the order of the list.

`LdstUnitProofs` proves `PendingCorrect`, `ScoreboardCorrect`, `ExitCorrect` and `TypeCorrect`
for any number of warps, registers, instructions and accesses and for every program. The
invariant `IInv == TypeInv /\ InsnInv /\ AccessInv /\ BooksInv` (`PlacesCorrect`) first says
where things are. `InsnInv`: an instruction is in the collector, dispatched, in the
shared-memory pipeline or past them, and only the accesses of a load reach the write-back stage.
`AccessInv`: an access that was made is in one place; a request of a cache waits for itself,
and an access in flight has a number above those still to be made. So
`Left`, the accesses of an instruction not written back, changes by one with each step that counts
`m_pending_writes`, and by none when an access moves. `BooksInv` says what the books are in
these terms: `completed`, the reserved registers and the pending writes, for which it is needed
that two incomplete instructions of a warp never write the same register (the scheduler's check).
`PendingExact` and `ScoreboardExact` follow.

`ExitClean` takes `CountInv` as well (`CountersCorrect`): `m_inst_in_pipeline` is the number of
instructions in the collector, the dispatch register and the pipeline, `m_stores_outstanding` the
number of stores on their way, `m_n_atomic` at least the number of atomic operations that will
be counted down, and zero once the warp is done. A warp that exits has none of the first two and no
register reserved, hence no incomplete load. This last step has the hypothesis `LoadsWrite`, that
every load has a destination register: a load to `_` reserves none (`cuda-sim/cuda-sim.cc:882`), and
TLC finds that its warp may exit before the answer, which then finds no register to
release. All programs of `MCLdstUnit` satisfy it. The assumptions on
programs are in `ConfigAssumption`: stores and memory barriers have no
destination, memory barriers no accesses.

`BarrierSetProofs` proves `BarrierCorrect`, `BarrierConsistent` for every number
of contexts, warps and barriers and for all programs, and `NoExitedHeld`, an
assertion of `deallocate_barrier`. The invariant `IInv == TypeInv /\ CtaInv /\ (\A w
\in m_warp_at_barrier : HeldAt(w))` adds to `BarrierConsistent` that the warps of a
CTA in the map are those of its program, that one of them is not reclaimed, and
that an active warp is one of them: without it a launch could take over a warp
that is held. The other assertion of `deallocate_barrier` (no warp is listed) does
not hold for all programs: a warp may arrive at a barrier nobody waits at.

What a release means is `ReleaseInv`, inductive next to `IInv`, about the CTAs whose program has no
`bar.arrive`. There a warp is listed only at the barrier that holds it (`ListedInv`). At a barrier
used without counts `PhaseInv` says that the warps that have not exited have passed it equally
often, and those that have exited not more often: a warp that has used it less often than another has
passed it would be neither held there nor gone, which is what `warp_reaches_barrier` compares.
`ResultInv` says that a warp without its result is held at the reduction. Three theorems follow:

* `SyncSeparates`: such a barrier separates what the warps of its CTA do before and after it,
  whatever else the program does with counts;
* `NoEarlyReleaseCorrect`: `NoEarlyRelease`, when no program has arrivals or counts
  (`__syncthreads()`, `bar.sync a`, `bar.red a`). Without arrivals being excluded it is false
  (section 3); with counts `warp_exit` compares the warps listed with the live ones, not with
  the count, and the property is checked for the programs of the run;
* `ResultCorrect`: `ResultDelivered`, when no program has arrivals and each barrier used for
  a reduction is used for nothing else, without a count, and equally often by all
  warps (`ReducesTogether`), as PTX asks of `bar.red`. Otherwise `warp_exit`, or a
  `bar.sync` of the same barrier, lets warps go without the broadcast.

`MemPartitionProofs` proves for every number of sub-partitions, banks and requests, every
length of the queues, both schedulers and any timing

* `TypeCorrect`: no bounded queue exceeds its size;
* `SchedulerCorrect`: the scheduler's count is right, its queues and `mrqq` keep to their limit
  together although `full()` looks at one of them only, and `m_last_row` never names an
  erased bin;
* `CreditsCorrect`: as many credits are out as there are requests between `borrow_credit` and
  `return_credit`, and a private credit only while its sub-partition has one of them;
* `RowOrderCorrect`: requests for one row of one bank finish in the order they came;
* `TrackerCorrect`: `m_request_tracker` holds exactly the requests inside, each in one place,
  and no write-back is queued as a response.

They all follow from one invariant, `StateInv` (theorem `Invariance`). `SubInv` is its part for a
sub-partition, relative to the set `K` of its requests that are elsewhere: no request is twice in
its queues (`SubUnique`), a write-back is only where it is on its way down (`SubClean`), a
request of the cores is tracked exactly if it is in a queue, waits for another, or is in `K`
(`SubTracked`), and what the L2 will make for a request that it has not looked at yet is nowhere
(`SubFresh`). `ChanInv` is its part for the channel: `SchedInv`, `ChanUnique` (where a request can be),
`BurstInv` (the bursts commanded less those transferred are the entries of `rwq`, so that the last
transfer of a request is the last of its entries and it is not lost or answered twice) and
`OrderInv`: an older request of a row is ahead of a younger one in every queue, in `rwq` too,
so the request that completes, the head of `rwq`, has no older one. `CreditInv` counts credits.
There is a lemma per stage (`ReturnState`, ... `LatencyState` for `dram_cycle`; `PushInv`,
`RespondInv`, `FillInv`, `MissInv`, the outcomes of the L2 and `RopInv` for `cache_cycle`), and the handlers are
their compositions (`DramStep`, `CacheStep`, `PopStep`). That the shared count never becomes
negative is a counting argument: the holders of a private credit are at most as many as the
requests, and if the sub-partition of the returned request holds none, one fewer. `StateInv` was checked by TLC
before, on the instance of the run and one with longer queues. Assumptions:
`DramAssumption`, `PartitionAssumption` (positive sizes; banks and sub-partitions in range), and
`RequestAssumption`, that the L2 makes a `mem_fetch` of its own for each access that needs one.

Only model-checked:

* all liveness properties, which the prover does not cover;
* `PostdominatorsExact`, `InSync` and `JoinTogether` of `SimtStack`: the sweeps of
  `find_postdominators` and the walks over stacks of any height are recursive, and what a
  recursive definition computes for every input takes an induction the provers cannot
  instantiate;
* `SharedCost` of `Coalescing`: sums and maxima over folds, with the same obstacle;
* `NoEarlyRelease` of `BarrierSet` for programs with counts, and everything about programs
  with arrivals: the count of threads at a barrier is a fold, and the property does not hold
  for all of them.

## 5. Plan

The caches, the streams, coalescing and the barriers came first, because they hold
the state that most actors share; the load/store unit, the memory partition, the texture
cache and the front end followed. Every safety
property of the runs that the provers reach is proved; what is left to prove are
barriers with thread counts, for the programs that use them consistently.

To model: the values of reductions (`core_t::reduction_storage`) in `BarrierSet`, and the
priorities of the schedulers, with the two-level scheduler's `longopregs`.

## 6. How to read a property

Every property is preceded by a comment that states it and names the code it is
about. Invariants are named for what they promise. `PROJECT.json` lists, for every
property of a passing run, a plausible fault of the code that breaks it.

## 7. Not modelled

Behaviour the models have but no property speaks of, because the repository does not say
what is meant: `m_done` of an event stays set from an earlier record
(`stream_manager.h:194`); a memory barrier waits for registers, not for stores
(`gpgpu-sim/shader.cc:2780`); a program may exit with work queued
(`gpgpusim_entrypoint.cc:154`). Behaviour outside the models: the value of a reduction, whose storage
is cleared once (`abstract_hardware_model.h:1062`); `longopregs`, which
`releaseRegister` does not clear (`gpgpu-sim/scoreboard.cc:70`); an endless stream of
requests for one DRAM row (`gpgpu-sim/dram_sched.cc:86`); a write latency above `CL + 1`
(`gpgpu-sim/dram.cc:81`); predicated calls and exits inside a called function, against
which `simt_stack::update` has assertions (`abstract_hardware_model.cc:804`).

Parts:

* `intersim2`: vendored BookSim; the models let messages arrive in any order.
* `gpuwattch`: vendored McPAT, numeric estimation.
* Most of `cuda-sim`: the arithmetic of instructions over 32 and 64-bit data, out of reach
  of TLC and without interaction between actors, and a generated parser. Control flow is
  modelled.
* OpenCL front end: uses the sequential simulation thread, bookkeeping only.
* Statistics and visualizer: output only.
* `AES_gpgpusim`: kernel code and a socket loop; its accesses are what
  `Coalescing` quantifies over.
* Of the modelled parts: data values, port bandwidth, DRAM timing, clock domains, the
  priorities of the warp schedulers and the operand collectors (they decide when an
  instruction issues, which the models leave open), and `exit` with operations
  queued (the model has it, no property forbids it).

By lines most of the repository is of these kinds: the vendored BookSim, McPAT and CACTI,
the one function per instruction of `instructions.cc`, option parsing, statistics and
power counters. They are sequential computations on data or pure output; a state
machine of them would restate the code.
