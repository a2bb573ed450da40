---------------------------- MODULE MemPartition ----------------------------
(***************************************************************************)
(* A memory partition: its sub-partitions (queues and L2 bank), the        *)
(* arbitration of DRAM credits between them, and the DRAM channel          *)
(* (l2cache.cc: memory_partition_unit, memory_sub_partition).              *)
(*                                                                         *)
(* The simulator's clock domains call memory_partition_unit::dram_cycle,   *)
(* memory_sub_partition::cache_cycle (after taking a request from the      *)
(* interconnect) and the pop of a response at unrelated frequencies: these *)
(* are the actions.  Each stage of a handler maps the partition's state to *)
(* the next; the handler is their composition.                             *)
(*                                                                         *)
(* The L2 bank is used as AbstractCache describes it: it hits, sends a     *)
(* request, joins one that was sent, or refuses; it may write a victim     *)
(* back with a miss.                                                       *)
(***************************************************************************)
EXTENDS Dram

CONSTANTS
  NSub,                            \* m_n_sub_partition_per_memory_channel
  IcntL2, L2Dram, DramL2, L2Icnt,  \* gpgpu_dram_partition_queues
  MissQueueSize,                   \* of the L2 bank
  Modes,           \* instances: L2 configurations with the requests the cores send,
                   \* [for : what the L2 caches, write : its write policy, scheduler, traffic]
  AllocOf,         \* the L2_WR_ALLOC_R request a write miss makes
  VictimOf         \* the L2_WRBK request a miss may make

SubPartition == 0 .. NSub - 1
\* The requests of the cores; the L2 bank makes the others.
CoreRequest == {r \in Request : Attr[r].kind \in {"READ", "WRITE", "L1_WRBK"}}
IsWrite(r)  == Attr[r].kind \in {"WRITE", "L1_WRBK"}

\* arbitration_metadata: one credit of its own for each sub-partition
PrivateLimit == 1
SharedLimit  == IF SchedQueueSize = 0 THEN 0
                ELSE SchedQueueSize + ReturnQueueSize - (NSub - 1)

ASSUME PartitionAssumption ==
  /\ NSub \in Nat \ {0} /\ SharedLimit >= 0
  /\ \A q \in {IcntL2, L2Dram, DramL2, L2Icnt, MissQueueSize} : q \in Nat \ {0}
  /\ \A r \in Request : Attr[r].sp \in SubPartition
  /\ \A m \in Modes : m.scheduler \in {"FIFO", "FRFCFS"} /\ m.traffic \subseteq CoreRequest

\* The L2 bank makes a mem_fetch object of its own for each access that needs one.
ASSUME RequestAssumption ==
  /\ DOMAIN AllocOf = {r \in CoreRequest : IsWrite(r)} /\ DOMAIN VictimOf \subseteq CoreRequest
  /\ \A r \in DOMAIN AllocOf : /\ AllocOf[r] \in Request /\ Attr[AllocOf[r]].sp = Attr[r].sp
                               /\ Attr[AllocOf[r]].kind = "L2_WR_ALLOC_R"
  /\ \A r \in DOMAIN VictimOf : /\ VictimOf[r] \in Request /\ Attr[VictimOf[r]].sp = Attr[r].sp
                                /\ Attr[VictimOf[r]].kind = "L2_WRBK"
  /\ \A q, r \in DOMAIN AllocOf : AllocOf[q] = AllocOf[r] => q = r
  /\ \A q, r \in DOMAIN VictimOf : VictimOf[q] = VictimOf[r] => q = r

VARIABLES
  mode,            \* the L2 configuration and the traffic
  sent,            \* requests the cores have sent
  sub,             \* sub-partitions
  dram,            \* the DRAM channel
  latency,         \* m_dram_latency_queue
  credit,          \* m_private_credit, m_shared_credit, m_last_borrower
  order            \* history: which unfinished requests of dram came before which

vars == <<mode, sent, sub, dram, latency, credit, order>>

(* m_rop and the four queues; m_request_tracker; the L2 bank's miss queue,  *)
(* the accesses that wait for each of its requests (after the request       *)
(* itself), and those it can answer.                                        *)
SubInit == [rop |-> <<>>, icnt_L2 |-> <<>>, L2_dram |-> <<>>, dram_L2 |-> <<>>,
            L2_icnt |-> <<>>, tracker |-> {}, missq |-> <<>>, waiting |-> <<>>, ready |-> <<>>]

Init ==
  /\ mode \in Modes
  /\ sent = {}
  /\ sub = [p \in SubPartition |-> SubInit]
  /\ dram = DramInit(mode.scheduler)
  /\ latency = <<>>
  /\ credit = [private |-> [p \in SubPartition |-> 0], shared |-> 0, last |-> NSub - 1]
  /\ order = {}

(* The definitions named X_... next to X are faulty variants of X; each of  *)
(* them breaks the property it is paired with in PROJECT.json.              *)
-----------------------------------------------------------------------------
(* Credits *)

has_credits(c, p) == \/ c.private[p] < PrivateLimit
                     \/ SharedLimit = 0
                     \/ c.shared < SharedLimit

borrow_credit(c, p) ==
  IF c.private[p] < PrivateLimit
    THEN [c EXCEPT !.private[p] = @ + 1, !.last = p]
    ELSE [c EXCEPT !.shared = @ + 1, !.last = p]

return_credit(c, p) ==
  IF c.private[p] > 0 THEN [c EXCEPT !.private[p] = @ - 1]
                      ELSE [c EXCEPT !.shared = @ - 1]
-----------------------------------------------------------------------------
(* memory_partition_unit::dram_cycle, on st = [sub, dram, latency, credit, order] *)

\* A finished request goes back to its sub-partition, which returns its credit.
\* The code would drop an L1 write-back here without returning the credit.
ReturnStage(st) ==
  IF st.dram.returnq = <<>> THEN st
  ELSE LET r == Head(st.dram.returnq)
           p == Attr[r].sp
       IN  IF Len(st.sub[p].dram_L2) >= DramL2 THEN st
           ELSE IF Attr[r].kind = "L1_WRBK"
             THEN [st EXCEPT !.dram.returnq = Tail(@), !.sub[p].tracker = @ \ {r}]
             ELSE [st EXCEPT !.dram.returnq = Tail(@), !.sub[p].dram_L2 = Append(@, r),
                             !.credit = return_credit(@, p)]

\* The sub-partition is not told.
set_done_Untold(st, r) == [st EXCEPT !.credit = return_credit(@, Attr[r].sp)]

\* memory_partition_unit::set_done, called for a write-back that was written
set_done(st, r) ==
  LET p == Attr[r].sp
  IN  [st EXCEPT !.credit = return_credit(@, p), !.sub[p].tracker = @ \ {r}]

\* dram_t::cycle: data, scheduling, and the command of bank b
DataStage(st, arrives) ==
  IF ~(arrives /\ DataReady(st.dram)) THEN st
  ELSE LET r == Head(st.dram.rwq)
           e == [st EXCEPT !.dram = Transfer(@),
                           !.order = IF Completes(st.dram) THEN {x \in @ : r \notin {x[1], x[2]}} ELSE @]
       IN  IF Completes(st.dram) /\ WriteBack(r) THEN set_done(e, r) ELSE e

ScheduleStage(st) == {[st EXCEPT !.dram = d] : d \in Schedule(st.dram)}

CommandStage(st, b) == IF b \in Bank /\ CanCommand(st.dram, b)
                         THEN [st EXCEPT !.dram = Command(@, b)] ELSE st

can_issue_to_dram(st, p) == has_credits(st.credit, p) /\ Len(st.sub[p].dram_L2) < DramL2

Able(st, p) == st.sub[p].L2_dram # <<>> /\ can_issue_to_dram(st, p)

\* The next sub-partition after the last borrower that may issue, if there is one
FirstAble(st) ==
  {p \in SubPartition : Able(st, p) /\ \A q \in SubPartition : Able(st, q) =>
     (p - st.credit.last - 1) % NSub <= (q - st.credit.last - 1) % NSub}

\* It borrows a credit and its oldest request enters the latency queue.
ArbitrateStage(st) ==
  IF DramFull(st.dram) \/ FirstAble(st) = {} THEN {st}
  ELSE {[st EXCEPT !.sub[p].L2_dram = Tail(@), !.latency = Append(@, Head(st.sub[p].L2_dram)),
                   !.credit = borrow_credit(@, p)] : p \in FirstAble(st)}

\* The oldest request reaches the channel when its latency is over (ripe).
LatencyStage(st, ripe) ==
  IF ~ripe \/ st.latency = <<>> \/ DramFull(st.dram) THEN st
  ELSE [st EXCEPT !.latency = Tail(@), !.dram = DramPush(@, Head(st.latency)),
                  !.order = @ \cup (Unfinished(st.dram) \X {Head(st.latency)})]

State == [sub |-> sub, dram |-> dram, latency |-> latency, credit |-> credit, order |-> order]

dram_cycle(arrives, b, ripe) ==
  \E s1 \in {ReturnStage(State)} :
  \E s2 \in {DataStage(s1, arrives)} :
  \E s3 \in ScheduleStage(s2) :
  \E s4 \in {CommandStage(s3, b)} :
  \E s5 \in ArbitrateStage(s4) :
  \E s6 \in {LatencyStage(s5, ripe)} :
    /\ sub' = s6.sub /\ dram' = s6.dram /\ latency' = s6.latency
    /\ credit' = s6.credit /\ order' = s6.order
    /\ UNCHANGED <<mode, sent>>

\* Any timing: of the data, of the commands (nbk for none), of the latency queue
DramCycle == \E arrives \in {FALSE, dram.rwq # <<>>}, b \in Bank \cup {nbk}, ripe \in BOOLEAN :
               dram_cycle(arrives, b, ripe)
-----------------------------------------------------------------------------
(* memory_sub_partition::cache_cycle, on the state s of sub-partition p *)

\* push: textures skip the ROP delay
Push(s, r) ==
  IF r = NoReq THEN s
  ELSE IF Attr[r].tex THEN [s EXCEPT !.tracker = @ \cup {r}, !.icnt_L2 = Append(@, r)]
                      ELSE [s EXCEPT !.tracker = @ \cup {r}, !.rop = Append(@, r)]

\* An answered access leaves for the interconnect; a write allocation ends here.
RespondStage(s) ==
  IF s.ready = <<>> \/ Len(s.L2_icnt) >= L2Icnt THEN s
  ELSE IF Attr[Head(s.ready)].kind = "L2_WR_ALLOC_R"
    THEN [s EXCEPT !.ready = Tail(@), !.tracker = @ \ {Head(s.ready)}]
    ELSE [s EXCEPT !.ready = Tail(@), !.L2_icnt = Append(@, Head(s.ready))]

\* Data from DRAM fills the L2 if it is waited for; the rest, acknowledgements
\* of writes among it, goes to the cores.  (A busy fill port is one more delay.)
FillStage(s) ==
  IF s.dram_L2 = <<>> THEN s
  ELSE LET r == Head(s.dram_L2)
       IN  IF r \in DOMAIN s.waiting
             THEN [s EXCEPT !.dram_L2 = Tail(@), !.ready = Append(@, r) \o s.waiting[r],
                            !.waiting = [q \in DOMAIN @ \ {r} |-> @[q]]]
           ELSE IF Len(s.L2_icnt) >= L2Icnt THEN s
             ELSE [s EXCEPT !.dram_L2 = Tail(@), !.L2_icnt = Append(@, r)]

\* baseline_cache::cycle
MissStage(s) == IF s.missq = <<>> \/ Len(s.L2_dram) >= L2Dram THEN s
                ELSE [s EXCEPT !.missq = Tail(@), !.L2_dram = Append(@, Head(s.missq))]

ForL2(r) == mode.for = "all" \/ (mode.for = "texture" /\ Attr[r].tex)

SameBlock(q, r) == Attr[q].block = Attr[r].block
Outstanding(s, r) == {q \in DOMAIN s.waiting : SameBlock(q, r)}

\* Access r hits: it is answered or, under write-through, sent on.
L2Hit(s, r) ==
  IF IsWrite(r) /\ mode.write = "through" THEN [s EXCEPT !.missq = Append(@, r)]
  ELSE IF Attr[r].kind = "L1_WRBK" THEN [s EXCEPT !.tracker = @ \ {r}]
  ELSE [s EXCEPT !.L2_icnt = Append(@, r)]

\* send_read_request: read r is sent, or waits for one that was
L2Read(s, r) ==
  LET Joins == SelectSeq(s.ready, LAMBDA q : SameBlock(q, r))
  IN  IF Outstanding(s, r) # {}
        THEN [s EXCEPT !.waiting[CHOOSE q \in Outstanding(s, r) : TRUE] = Append(@, r)]
      ELSE IF Joins # <<>> THEN [s EXCEPT !.ready = Append(@, r)]
      ELSE [s EXCEPT !.missq = Append(@, r),
                     !.waiting = [q \in DOMAIN @ \cup {r} |-> IF q = r THEN <<>> ELSE @[q]]]

L2Miss(s, r) ==
  IF ~IsWrite(r) THEN L2Read(s, r)
  ELSE IF mode.write = "through" THEN [s EXCEPT !.missq = Append(@, r)]
  ELSE L2Read([s EXCEPT !.missq = Append(@, r)], AllocOf[r])

\* A victim is written back with the miss.
Evicting(s, r) == [s EXCEPT !.missq = Append(@, VictimOf[r])]

\* What the L2 bank may make of the access: the queue sizes decide what it
\* refuses, its tags and its data port what else.
L2Outcome(s, r) ==
  {s1 \in (IF Outstanding(s, r) = {} THEN {L2Hit(s, r)} ELSE {})
          \cup {L2Miss(s, r)}
          \cup (IF r \in DOMAIN VictimOf /\ mode.write = "back" THEN {Evicting(L2Miss(s, r), r)} ELSE {}) :
     Len(s1.missq) <= MissQueueSize}

AccessReady(s) == Len(s.L2_dram) < L2Dram /\ s.icnt_L2 # <<>>
L2Ready(s) == AccessReady(s) /\ ForL2(Head(s.icnt_L2)) /\ Len(s.L2_icnt) < L2Icnt

AccessStage(s, refuse) ==
  LET r == Head(s.icnt_L2)
      t == [s EXCEPT !.icnt_L2 = Tail(@)]
  IN  IF AccessReady(s) /\ ~ForL2(r) THEN {[t EXCEPT !.L2_dram = Append(@, r)]}
      ELSE IF L2Ready(s) /\ ~refuse /\ L2Outcome(t, r) # {} THEN L2Outcome(t, r)
      ELSE {s}

RopStage(s, ripe) ==
  IF ~ripe \/ s.rop = <<>> \/ Len(s.icnt_L2) >= IcntL2 THEN s
  ELSE [s EXCEPT !.rop = Tail(@), !.icnt_L2 = Append(@, Head(s.rop))]

\* What the interconnect may deliver: a request, unless the queue is full
Offered(p) == IF Len(sub[p].icnt_L2) >= IcntL2 THEN {NoReq}
              ELSE {NoReq} \cup {r \in mode.traffic \ sent : Attr[r].sp = p}

cache_cycle(p, r, refuse, ripe) ==
  \E s1 \in {RespondStage(Push(sub[p], r))} :
  \E s2 \in {MissStage(FillStage(s1))} :
  \E s3 \in AccessStage(s2, refuse) :
    /\ sub' = [sub EXCEPT ![p] = RopStage(s3, ripe)]
    /\ sent' = sent \cup ({r} \ {NoReq})
    /\ UNCHANGED <<mode, dram, latency, credit, order>>

CacheCycle(p) == \E r \in Offered(p), refuse, ripe \in BOOLEAN :
                   cache_cycle(p, r, refuse, ripe)

\* gpgpu_sim::cycle takes a response when the interconnect has room.  top()
\* drops a write-back and returns NULL, and the caller then pops once more.
PopResponse(p) ==
  LET q == sub[p].L2_icnt
      n == IF WriteBack(Head(q)) /\ Len(q) > 1 THEN 2 ELSE 1
  IN  /\ q # <<>>
      /\ sub' = [sub EXCEPT ![p].L2_icnt = SubSeq(q, n + 1, Len(q)),
                            ![p].tracker = @ \ ToSet(SubSeq(q, 1, n))]
      /\ UNCHANGED <<mode, sent, dram, latency, credit, order>>

Next == \/ DramCycle
        \/ \E p \in SubPartition : CacheCycle(p) \/ PopResponse(p)

Spec == Init /\ [][Next]_vars

(* Fairness.  The domains' clocks keep ticking.  Timing counters and         *)
(* latencies run down: if data, a command or a queued request is possible   *)
(* again and again, it happens in some cycle, not all in the same one.  The *)
(* L2 is not assumed to accept an access while it has requests outstanding. *)
L2Busy(p) == sub[p].missq # <<>> \/ sub[p].waiting # <<>> \/ sub[p].ready # <<>>

Fairness ==
  /\ SF_vars(\E ripe \in BOOLEAN, b \in Bank \cup {nbk} : dram_cycle(TRUE, b, ripe))
  /\ SF_vars(\E arrives, ripe \in BOOLEAN, b \in Bank : CanCommand(dram, b) /\ dram_cycle(arrives, b, ripe))
  /\ SF_vars(\E arrives \in BOOLEAN, b \in Bank \cup {nbk} : dram_cycle(arrives, b, TRUE))
  /\ \A p \in SubPartition :
       /\ WF_vars(cache_cycle(p, NoReq, L2Busy(p), TRUE))
       /\ WF_vars(PopResponse(p))

FairSpec == Spec /\ Fairness
-----------------------------------------------------------------------------
(* Properties *)

InPartition(p) == {r \in InDram(dram) \cup ToSet(latency) : Attr[r].sp = p}

\* The requests of sub-partition p
Of(p) == {r \in Request : Attr[r].sp = p}
SubOK(p, s) ==
  /\ s \in [rop : Seq(Of(p) \cap CoreRequest), icnt_L2 : Seq(Of(p) \cap CoreRequest),
            L2_dram : Seq(Of(p)), dram_L2 : Seq(Of(p)), L2_icnt : Seq(Of(p)), tracker : SUBSET Of(p),
            missq : Seq(Of(p)), waiting : {s.waiting}, ready : Seq(Of(p))]
  /\ DOMAIN s.waiting \subseteq Of(p) /\ \A q \in DOMAIN s.waiting : s.waiting[q] \in Seq(Of(p))
  /\ Len(s.icnt_L2) <= IcntL2 /\ Len(s.L2_icnt) <= L2Icnt
  /\ Len(s.L2_dram) <= L2Dram /\ Len(s.dram_L2) <= DramL2
  /\ Len(s.missq) <= MissQueueSize

TypeOK ==
  /\ mode \in Modes /\ sent \subseteq CoreRequest
  /\ dram \in DramState
  /\ latency \in Seq(Request)
  /\ order \subseteq Request \X Request
  /\ credit \in [private : [SubPartition -> 0 .. PrivateLimit], shared : Nat, last : SubPartition]
  /\ DOMAIN sub = SubPartition /\ \A p \in SubPartition : SubOK(p, sub[p])

(* return_credit takes a private credit first and borrow_credit too, so who *)
(* holds the shared credits is recorded nowhere.  Still every request       *)
(* between borrowing and returning has exactly one credit, no return makes  *)
(* the shared count negative, and a sub-partition with nothing in the DRAM  *)
(* has its private credit: the forward progress the constructor's comment   *)
(* promises.                                                                *)
CreditsExact ==
  /\ \A p \in SubPartition : credit.private[p] \in 0 .. PrivateLimit
                              /\ (credit.private[p] > 0 => InPartition(p) # {})
  /\ credit.shared \in Nat
  /\ credit.shared + Cardinality({p \in SubPartition : credit.private[p] > 0})
       = Cardinality(InDram(dram) \cup ToSet(latency))

(* dram_t::full asks only how many requests are scheduled, and push()       *)
(* asserts room in mrqq, which holds two; yet mrqq and the scheduler never  *)
(* hold more than gpgpu_frfcfs_dram_sched_queue_size together, and          *)
(* m_num_pending counts right.  m_last_row points into m_bins, from which   *)
(* schedule() erases: a bank that is serving a row has a request of that    *)
(* row waiting, so that back() is not called on an erased list.             *)
SchedulerConsistent ==
  /\ dram.m_num_pending = Len(dram.m_queue)
  /\ Len(dram.mrqq) <= MrqqSize
  /\ dram.scheduler = "FRFCFS" /\ SchedQueueSize # 0
       => dram.m_num_pending + Len(dram.mrqq) <= SchedQueueSize
  /\ \A b \in Bank : dram.m_last_row[b] # NoRow => Bin(dram, b, dram.m_last_row[b]) # {}

(* FR-FCFS reorders requests, but not those of one row of one bank: a write *)
(* and a later read of the same block finish in the order they came.        *)
SameRow(q, r) == Attr[q].bank = Attr[r].bank /\ Attr[q].row = Attr[r].row
RowOrder == [][\A q, r \in Request :
                 <<q, r>> \in order /\ SameRow(q, r) /\ q \in Unfinished(dram')
                   => r \in Unfinished(dram')]_vars

(* m_request_tracker, on which gpgpu_sim::active() decides whether the      *)
(* partition is busy, holds exactly the requests of the cores inside the    *)
(* sub-partition, its L2 bank and the DRAM; none is lost or in two places.  *)
(* No write-back is queued as a response: memory_sub_partition::top() would *)
(* return NULL for it, and gpgpu_sim::cycle throw the next response away.   *)
Queues(p) ==
  LET s == sub[p]
  IN  [rop |-> s.rop, icnt_L2 |-> s.icnt_L2, L2_dram |-> s.L2_dram, dram_L2 |-> s.dram_L2,
       L2_icnt |-> s.L2_icnt, missq |-> s.missq, ready |-> s.ready, latency |-> latency,
       mrqq |-> dram.mrqq, m_queue |-> dram.m_queue, returnq |-> dram.returnq]
InFlight(d, r) == (\E b \in Bank : d.mrq[b] = r) \/ r \in ToSet(d.rwq)
Positions(q, r) == {i \in DOMAIN q : q[i] = r}
Slots(r) ==
  LET p == Attr[r].sp
  IN  (UNION {{n} \X {NoReq} \X Positions(Queues(p)[n], r) : n \in DOMAIN Queues(p)})
      \cup (UNION {{"waiting"} \X {q} \X Positions(sub[p].waiting[q], r) : q \in DOMAIN sub[p].waiting})
      \cup (IF InFlight(dram, r) THEN {<<"in_flight", NoReq, 1>>} ELSE {})
TrackerExact ==
  /\ \A r \in CoreRequest : /\ r \in sub[Attr[r].sp].tracker <=> Slots(r) # {}
                            /\ \A x, y \in Slots(r) : x = y
  /\ \A p \in SubPartition : \A r \in ToSet(sub[p].L2_icnt) : ~WriteBack(r)

(* Every request the cores send is served: answered, or absorbed as a       *)
(* write-back, however the sub-partitions share the channel.                *)
AllServed == \A r \in CoreRequest : r \in sent ~> r \notin sub[Attr[r].sp].tracker
=============================================================================
