-------------------------------- MODULE Dram --------------------------------
(***************************************************************************)
(* One DRAM channel: dram_t with its FIFO or FR-FCFS scheduler (dram.cc,   *)
(* dram_sched.cc).  Its state is a record d; the operators below are the   *)
(* steps of dram_t::cycle() and of dram_t::push(), for a memory partition  *)
(* to compose.  Timing constraints (tCCD, tRCD, CL, ...) only decide in    *)
(* which cycle a bank may issue a command and in which cycle data arrives: *)
(* both are choices of the caller.                                         *)
(***************************************************************************)
EXTENDS Integers, Sequences, SequencesExt, FiniteSetsExt

CONSTANTS
  Request,         \* the mem_fetch objects
  Attr,            \* of a request: sp, kind, tex, block, bank, row, bursts
  nbk,             \* number of banks
  SchedQueueSize,  \* gpgpu_frfcfs_dram_sched_queue_size, 0 for no limit
  ReturnQueueSize, \* of the queue to the partition, not 0
  RwqSize,         \* CL + 1
  NoReq, NoRow

Bank == 0 .. nbk - 1
Row  == {Attr[r].row : r \in Request}
MrqqSize == 2

ASSUME DramAssumption ==
  /\ nbk \in Nat \ {0} /\ ReturnQueueSize \in Nat \ {0}
  /\ SchedQueueSize \in Nat /\ RwqSize \in Nat \ {0}
  /\ \A r \in Request : Attr[r].bank \in Bank /\ Attr[r].bursts \in Nat \ {0}
  /\ NoReq \notin Request /\ NoRow \notin Row

\* Write-backs end in the DRAM: no answer is sent for them.
WriteBack(r) == Attr[r].kind \in {"L1_WRBK", "L2_WRBK"}

(* The definitions named X_... are faulty variants of X, each paired with    *)
(* the property it breaks in PROJECT.json.                                  *)
(*                                                                          *)
(* m_queue holds the waiting requests of all banks, oldest first: the list  *)
(* the code keeps for each bank, and the bins beside it, are those of one   *)
(* bank and of one row.  tx and dq count the bursts of a request that were  *)
(* commanded and transferred.  A bank's row register starts at 0.           *)
DramState == [scheduler : {"FIFO", "FRFCFS"}, mrqq : Seq(Request),
              m_queue : Seq(Request),
              m_num_pending : Nat, m_last_row : [Bank -> Row \cup {NoRow}],
              mrq : [Bank -> Request \cup {NoReq}],
              curr_row : [Bank -> Row \cup {0}], active : SUBSET Bank, prio : Bank,
              tx : [Request -> Nat], dq : [Request -> Nat],
              rwq : Seq(Request), returnq : Seq(Request)]

DramInit(scheduler) ==
  [scheduler |-> scheduler, mrqq |-> <<>>, m_queue |-> <<>>,
   m_num_pending |-> 0, m_last_row |-> [b \in Bank |-> NoRow],
   mrq |-> [b \in Bank |-> NoReq], curr_row |-> [b \in Bank |-> 0], active |-> {}, prio |-> 0,
   tx |-> [r \in Request |-> 0], dq |-> [r \in Request |-> 0], rwq |-> <<>>, returnq |-> <<>>]

\* dram_t::full: requests still in mrqq are not counted
DramFull(d) ==
  IF d.scheduler = "FIFO" THEN Len(d.mrqq) >= MrqqSize
                          ELSE SchedQueueSize # 0 /\ d.m_num_pending >= SchedQueueSize

DramPush(d, r) == [d EXCEPT !.mrqq = Append(@, r)]
-----------------------------------------------------------------------------
(* Data transfer *)

\* A burst of the oldest command arrives, unless the return queue is full.
DataReady(d) == d.rwq # <<>> /\ Len(d.returnq) < ReturnQueueSize
Completes(d) == d.dq[Head(d.rwq)] + 1 >= Attr[Head(d.rwq)].bursts

\* Write-backs are returned to the partition too.
Transfer_AnswerAll(d) ==
  LET r == Head(d.rwq)
  IN  IF Completes(d)
        THEN [d EXCEPT !.rwq = Tail(@), !.dq[r] = 0, !.tx[r] = 0, !.returnq = Append(@, r)]
        ELSE [d EXCEPT !.rwq = Tail(@), !.dq[r] = @ + 1]

\* The last burst ends the request, which is answered or, as a write-back,
\* handed to memory_partition_unit::set_done.
Transfer(d) ==
  LET r == Head(d.rwq)
  IN  IF Completes(d)
        THEN [d EXCEPT !.rwq = Tail(@), !.dq[r] = 0, !.tx[r] = 0,
                       !.returnq = IF WriteBack(r) THEN @ ELSE Append(@, r)]
        ELSE [d EXCEPT !.rwq = Tail(@), !.dq[r] = @ + 1]

-----------------------------------------------------------------------------
(* scheduler_fifo *)

ScheduleFifo(d) ==
  LET r == Head(d.mrqq)
      b == Attr[r].bank
  IN  IF d.mrqq = <<>> \/ d.mrq[b] # NoReq THEN d
      ELSE [d EXCEPT !.mrqq = Tail(@), !.mrq[b] = r]

(* scheduler_frfcfs *)

\* The positions of the requests for bank b, and of those for one of its rows
Waits(d, b) == {i \in DOMAIN d.m_queue : Attr[d.m_queue[i]].bank = b}
Bin(d, b, row) == {i \in Waits(d, b) : Attr[d.m_queue[i]].row = row}

\* The scheduler takes requests from mrqq (add_req) while its queues have room.
Drained(d) ==
  LET room == SchedQueueSize - d.m_num_pending
      n    == IF SchedQueueSize = 0 \/ room > Len(d.mrqq) THEN Len(d.mrqq) ELSE room
  IN  [d EXCEPT !.mrqq = SubSeq(@, n + 1, Len(@)), !.m_queue = @ \o SubSeq(d.mrqq, 1, n),
                !.m_num_pending = @ + n]

\* The row whose requests bank b serves next: the one it is serving, else the
\* one that is open, else that of the oldest request.
NextRow(d, b) ==
  IF d.m_last_row[b] # NoRow THEN d.m_last_row[b]
  ELSE IF Bin(d, b, d.curr_row[b]) # {} THEN d.curr_row[b]
  ELSE Attr[d.m_queue[Min(Waits(d, b))]].row

\* The newest request of the row is served first.
ScheduleBank_NewestFirst(d, b) ==
  LET row == NextRow(d, b)
      i   == Max(Bin(d, b, row))
  IN  [d EXCEPT !.m_queue = RemoveAt(@, i), !.m_num_pending = @ - 1, !.mrq[b] = d.m_queue[i],
                !.m_last_row[b] = IF Bin(d, b, row) = {i} THEN NoRow ELSE row,
                !.prio = (@ + 1) % nbk]

\* The row is kept although its last request was taken.
ScheduleBank_KeepsRow(d, b) ==
  LET row == NextRow(d, b)
      i   == Min(Bin(d, b, row))
  IN  [d EXCEPT !.m_queue = RemoveAt(@, i), !.m_num_pending = @ - 1, !.mrq[b] = d.m_queue[i],
                !.m_last_row[b] = row, !.prio = (@ + 1) % nbk]

\* frfcfs_scheduler::schedule for bank b: the oldest request of the row
ScheduleBank(d, b) ==
  LET row == NextRow(d, b)
      i   == Min(Bin(d, b, row))
  IN  [d EXCEPT !.m_queue = RemoveAt(@, i), !.m_num_pending = @ - 1, !.mrq[b] = d.m_queue[i],
                !.m_last_row[b] = IF Bin(d, b, row) = {i} THEN NoRow ELSE row,
                !.prio = (@ + 1) % nbk]

\* Bank b has no request, and one waits for it.
Idle(d, b) == d.mrq[b] = NoReq /\ Waits(d, b) # {}

\* Only the bank whose turn it is is considered.
FirstIdle_TurnOnly(d) == {b \in {d.prio} : Idle(d, b)}

\* The first such bank in rotating order, if there is one
FirstIdle(d) ==
  {b \in Bank : Idle(d, b) /\ \A c \in Bank : Idle(d, c) => (b - d.prio) % nbk <= (c - d.prio) % nbk}

\* What the scheduler makes of d, a single state
Schedule(d) ==
  IF d.scheduler = "FIFO" THEN {ScheduleFifo(d)}
  ELSE UNION {IF FirstIdle(e) = {} THEN {e} ELSE {ScheduleBank(e, b) : b \in FirstIdle(e)} :
              e \in {Drained(d)}}

-----------------------------------------------------------------------------
(* Commands *)

RowOpen(d, b) == b \in d.active /\ d.curr_row[b] = Attr[d.mrq[b]].row
CanCommand(d, b) == d.mrq[b] # NoReq /\ (RowOpen(d, b) => Len(d.rwq) < RwqSize)

\* Bank b issues the command its request needs: read or write a burst of the
\* open row, activate the row, or precharge another row.
Command(d, b) ==
  LET r == d.mrq[b]
  IN  IF RowOpen(d, b)
        THEN [d EXCEPT !.rwq = Append(@, r), !.tx[r] = @ + 1,
                       !.mrq[b] = IF d.tx[r] + 1 < Attr[r].bursts THEN @ ELSE NoReq]
      ELSE IF b \notin d.active
        THEN [d EXCEPT !.curr_row[b] = Attr[r].row, !.active = @ \cup {b},
                       !.prio = (b + 1) % nbk]
      ELSE [d EXCEPT !.active = @ \ {b}, !.prio = (b + 1) % nbk]
-----------------------------------------------------------------------------
\* The requests that wait for their data, and all the channel holds
Unfinished(d) == (ToSet(d.mrqq) \cup ToSet(d.m_queue) \cup {d.mrq[b] : b \in Bank}
                  \cup ToSet(d.rwq)) \ {NoReq}
InDram(d) == Unfinished(d) \cup ToSet(d.returnq)
=============================================================================
