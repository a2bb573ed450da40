------------------------------ MODULE DataCache ------------------------------
(***************************************************************************)
(* One cache of the simulated GPU: the tag array, the miss-status holding  *)
(* registers (MSHR) and the miss queue of gpu-cache.cc, for the classes    *)
(* read_only_cache, l1_cache and l2_cache.  One specification covers all   *)
(* of them, as the code does: the policies of the configuration string are *)
(* constants.                                                              *)
(*                                                                         *)
(* A mem_fetch object is a member of Fetch; mf[f] says what it asks for,   *)
(* or Idle when the object does not exist.  The caller offers one access   *)
(* at a time, in order (the head of the icnt-to-L2 queue, the dispatch     *)
(* register of the ldst unit): it waits in port until access() accepts it. *)
(* The lower memory level answers the requests it holds in any order.      *)
(* Time stamps are kept as the order they induce (older); port bandwidth   *)
(* only delays a call, so it is left to the interleaving of the actions.   *)
(***************************************************************************)
EXTENDS Integers, Sequences, FiniteSets, Functions

CONSTANTS
  Block,             \* block addresses
  LocalBlock,        \* the blocks of local memory (written with LOCAL_ACC_W)
  set_index,         \* cache_config::set_index, as a function
  Assoc,             \* m_assoc: ways per set
  Fetch,             \* mem_fetch objects that can exist at once (model bound)
  AccessTypes,       \* the kinds of access the caller makes
  WritePolicy,       \* m_write_policy
  WriteAllocate,     \* m_write_alloc_policy == WRITE_ALLOCATE
  AllocPolicy,       \* m_alloc_policy
  ReplacementPolicy, \* m_replacement_policy
  MshrEntries,       \* m_mshr_entries
  MaxMerged,         \* m_mshr_max_merge
  MissQueueSize,     \* m_miss_queue_size
  FlushMode,         \* who calls flush(): see Flush
  Idle, NoFetch      \* a mem_fetch that does not exist; no access at the port

ASSUME ConfigAssumption ==
  /\ WritePolicy \in {"READ_ONLY", "WRITE_BACK", "WRITE_THROUGH",
                      "WRITE_EVICT", "LOCAL_WB_GLOBAL_WT"}
  /\ WriteAllocate \in BOOLEAN
  /\ AllocPolicy \in {"ON_MISS", "ON_FILL"}
  /\ ReplacementPolicy \in {"LRU", "FIFO"}
  /\ FlushMode \in {"none", "kernel_end", "kernel_launch"}
  /\ AccessTypes \subseteq {"READ", "ATOMIC", "WRITE"}
  \* cache_config::init rejects a write-back cache that allocates on fill
  /\ AllocPolicy = "ON_FILL" => WritePolicy # "WRITE_BACK"
  \* read_only_cache::access asserts that no write arrives
  /\ WritePolicy = "READ_ONLY" => AccessTypes \subseteq {"READ"}
  \* baseline_cache::fill asserts that atomics only meet allocate-on-miss
  /\ "ATOMIC" \in AccessTypes => AllocPolicy = "ON_MISS"

ASSUME SizeAssumption ==
  /\ IsFiniteSet(Block) /\ Block # {} /\ LocalBlock \subseteq Block
  /\ Assoc \in Nat \ {0}
  /\ MshrEntries \in Nat \ {0}
  /\ MaxMerged \in Nat \ {0}
  /\ MissQueueSize \in Nat \ {0}
  /\ set_index \in [Block -> Nat]
  /\ NoFetch \notin Fetch

VARIABLES
  m_lines,             \* tag_array::m_lines
  older,               \* <<k, l>>: the time stamp of line k is below that of l
  m_data,              \* mshr_table::m_data; an absent entry is the empty list
  m_current_response,  \* mshr_table::m_current_response
  m_miss_queue,        \* baseline_cache::m_miss_queue
  m_extra_mf_fields,   \* baseline_cache::m_extra_mf_fields
  mf,                  \* the request each mem_fetch object carries
  port,                \* the access the caller is offering
  below                \* requests held by the lower memory level

tagVars  == <<m_lines, older>>
mshrVars == <<m_data, m_current_response>>
vars == <<m_lines, older, m_data, m_current_response, m_miss_queue,
          m_extra_mf_fields, mf, port, below>>

Way  == 0 .. Assoc - 1
Line == {set_index[b] : b \in Block} \X Way

LineState == [status : {"INVALID", "RESERVED", "VALID", "MODIFIED"}, block : Block]

\* The caller's accesses, and the ones the cache makes itself: the read of a
\* write-allocate (m_wr_alloc_type) and the write-back (m_wrbk_type).
Type == {"READ", "ATOMIC", "WRITE", "WR_ALLOC_R", "WRBK"}
ReadType == {"READ", "ATOMIC", "WR_ALLOC_R"}
Request == [type : Type, block : Block]

ASSUME IdleAssumption == Idle \notin Request

NoFields == [m_valid |-> FALSE]
Fields == [m_valid : {TRUE}, m_block_addr : Block, m_cache_index : Line]

\* baseline_cache::waiting_for_fill
waiting_for_fill(f) == m_extra_mf_fields[f].m_valid

\* Sequence s lists nothing twice.
Distinct(s) == \A i, j \in DOMAIN s : s[i] = s[j] => i = j

IdleFetch == {f \in Fetch : mf[f] = Idle}

Init ==
  /\ m_lines = [l \in Line |-> [status |-> "INVALID", block |-> CHOOSE b \in Block : TRUE]]
  /\ older = {}
  /\ m_data = [b \in Block |-> <<>>]
  /\ m_current_response = <<>>
  /\ m_miss_queue = <<>>
  /\ m_extra_mf_fields = [f \in Fetch |-> NoFields]
  /\ mf = [f \in Fetch |-> Idle]
  /\ port = NoFetch
  /\ below = {}

-----------------------------------------------------------------------------
(* tag_array *)

LinesOf(b) == {l \in Line : l[1] = set_index[b]}

(* The definitions named X_... next to X are faulty variants of X; each of  *)
(* them breaks the property it is paired with in PROJECT.json.              *)

\* The lines probe() would report as holding block b ...
Holding(b) == {l \in LinesOf(b) : /\ m_lines[l].status # "INVALID"
                                  /\ m_lines[l].block = b}
\* ... of which it returns the one in the lowest way.
FirstHolding(b) == {l \in Holding(b) : \A k \in Holding(b) : l[2] <= k[2]}

Replaceable_EvenReserved(b) ==
  LET invalid == {l \in LinesOf(b) : m_lines[l].status = "INVALID"}
      present == LinesOf(b) \ invalid
  IN  IF invalid # {}
        THEN {l \in invalid : \A k \in invalid : k[2] <= l[2]}
        ELSE {l \in present : \A k \in present \ {l} : <<l, k>> \in older}

\* The line probe() offers for replacement: the last invalid way, otherwise
\* the way with the least time stamp among those that are not reserved.
Replaceable(b) ==
  LET invalid == {l \in LinesOf(b) : m_lines[l].status = "INVALID"}
      present == {l \in LinesOf(b) : m_lines[l].status \in {"VALID", "MODIFIED"}}
  IN  IF invalid # {}
        THEN {l \in invalid : \A k \in invalid : k[2] <= l[2]}
        ELSE {l \in present : \A k \in present \ {l} : <<l, k>> \in older}

\* tag_array::probe returns status st and index l.  No l is related to a block
\* when the status is RESERVATION_FAIL.
probe(b, st, l) ==
  \/ /\ l \in FirstHolding(b)
     /\ st = IF m_lines[l].status = "RESERVED" THEN "HIT_RESERVED" ELSE "HIT"
  \/ /\ Holding(b) = {}
     /\ l \in Replaceable(b)
     /\ st = "MISS"

\* Line l gets the newest time stamp of its set.
Newest(l) == {p \in older : l \notin {p[1], p[2]}}
               \cup {<<k, l>> : k \in {k \in Line \ {l} : k[1] = l[1]}}

\* m_last_access_time counts under LRU only, m_alloc_time under both.
Touched(l) == IF ReplacementPolicy = "LRU" THEN Newest(l) ELSE older

TagAccess_AlwaysReserves(b, st, l) ==
  IF st = "MISS"
    THEN /\ m_lines' = [m_lines EXCEPT ![l] = [status |-> "RESERVED", block |-> b]]
         /\ older' = Newest(l)
    ELSE /\ older' = Touched(l)
         /\ UNCHANGED m_lines

\* tag_array::access, after a probe that returned st and l
TagAccess(b, st, l) ==
  IF st = "MISS"
    THEN IF AllocPolicy = "ON_MISS"
           THEN /\ m_lines' = [m_lines EXCEPT ![l] = [status |-> "RESERVED", block |-> b]]
                /\ older' = Newest(l)
           ELSE UNCHANGED tagVars
    ELSE /\ older' = Touched(l)
         /\ UNCHANGED m_lines

Dirty_WriteBackOnly(st, l) == /\ st = "MISS"
                              /\ AllocPolicy = "ON_MISS"
                              /\ m_lines[l].status = "MODIFIED"
                              /\ WritePolicy = "WRITE_BACK"

\* access() sets wb when it allocates over a modified line; the callers send a
\* write-back unless the lower level already has the data.
Dirty(st, l) == /\ st = "MISS"
                /\ AllocPolicy = "ON_MISS"
                /\ m_lines[l].status = "MODIFIED"
                /\ WritePolicy # "WRITE_THROUGH"

-----------------------------------------------------------------------------
(* mshr_table *)

mshr_probe(b) == m_data[b] # <<>>

mshr_full_OffByOne(b) ==
  IF mshr_probe(b)
    THEN Len(m_data[b]) > MaxMerged
    ELSE Cardinality({c \in Block : mshr_probe(c)}) >= MshrEntries

mshr_full(b) ==
  IF mshr_probe(b)
    THEN Len(m_data[b]) >= MaxMerged
    ELSE Cardinality({c \in Block : mshr_probe(c)}) >= MshrEntries

HasAtomic(b) == \E f \in Range(m_data[b]) : mf[f].type = "ATOMIC"

-----------------------------------------------------------------------------
(* baseline_cache *)

miss_queue_full(num_miss) == Len(m_miss_queue) + num_miss >= MissQueueSize

ReadRequest_NeverMerges(b, n) ==
  IF ~mshr_full(b) /\ n < MissQueueSize THEN "send" ELSE "none"

\* What send_read_request does with a miss on b while n requests are queued:
\* merge it into an MSHR entry, send a request of its own, or nothing.
ReadRequest(b, n) ==
  CASE mshr_probe(b) /\ ~mshr_full(b) -> "merge"
    [] ~mshr_probe(b) /\ ~mshr_full(b) /\ n < MissQueueSize -> "send"
    [] OTHER -> "none"

SendReadRequest_MergeDropsWriteBack(f, b, st, l, do, q, wb) ==
  LET sent == IF do = "send" THEN Append(q, f) ELSE q
  IN  /\ TagAccess(b, st, l)
      /\ m_data' = [m_data EXCEPT ![b] = Append(@, f)]
      /\ m_extra_mf_fields' =
           IF do = "send"
             THEN [m_extra_mf_fields EXCEPT
                     ![f] = [m_valid |-> TRUE, m_block_addr |-> b, m_cache_index |-> l]]
             ELSE m_extra_mf_fields
      /\ m_miss_queue' = IF Dirty(st, l) /\ do = "send" THEN Append(sent, wb) ELSE sent

\* baseline_cache::send_read_request for fetch f, when ReadRequest is do;
\* q is the miss queue at the call.  wb is the fetch object of the write-back
\* that the caller sends for a dirty victim.
SendReadRequest(f, b, st, l, do, q, wb) ==
  LET sent == IF do = "send" THEN Append(q, f) ELSE q
  IN  /\ TagAccess(b, st, l)
      /\ m_data' = [m_data EXCEPT ![b] = Append(@, f)]
      /\ m_extra_mf_fields' =
           IF do = "send"
             THEN [m_extra_mf_fields EXCEPT
                     ![f] = [m_valid |-> TRUE, m_block_addr |-> b, m_cache_index |-> l]]
             ELSE m_extra_mf_fields
      /\ m_miss_queue' = IF Dirty(st, l) THEN Append(sent, wb) ELSE sent

\* The write-back object, when one is created
WithWriteBack(reqs, st, l, wb) ==
  IF Dirty(st, l)
    THEN [reqs EXCEPT ![wb] = [type |-> "WRBK", block |-> m_lines[l].block]]
    ELSE reqs

-----------------------------------------------------------------------------
(* The caller offers an access.  Two more objects are kept in reserve for  *)
(* the write-allocate read and the write-back that it may create.          *)
Offer(f, t, b) ==
  /\ port = NoFetch
  /\ mf[f] = Idle
  /\ Cardinality(IdleFetch) >= 3
  /\ t = "ATOMIC" => b \notin LocalBlock
  /\ mf' = [mf EXCEPT ![f] = [type |-> t, block |-> b]]
  /\ port' = f
  /\ UNCHANGED <<tagVars, mshrVars, m_miss_queue, m_extra_mf_fields, below>>

\* The access at the port is a read, or a write, of block b.
PortRead(b)  == port # NoFetch /\ mf[port].type \in {"READ", "ATOMIC"} /\ mf[port].block = b
PortWrite(b) == port # NoFetch /\ mf[port].type = "WRITE" /\ mf[port].block = b

\* A read hit is answered at once: the object goes back to the caller.
\* rd_hit_base marks the line dirty for an atomic; read_only_cache::access
\* only updates the replacement state.
ReadHit(b, l) ==
  /\ PortRead(b)
  /\ probe(b, "HIT", l)
  /\ m_lines' = IF mf[port].type = "ATOMIC"
                  THEN [m_lines EXCEPT ![l].status = "MODIFIED"] ELSE m_lines
  /\ older' = Touched(l)
  /\ mf' = [mf EXCEPT ![port] = Idle]
  /\ port' = NoFetch
  /\ UNCHANGED <<mshrVars, m_miss_queue, m_extra_mf_fields, below>>

\* rd_miss_base asks for room for two requests, read_only_cache::access for one.
ReadMissRoom == IF WritePolicy = "READ_ONLY" THEN 0 ELSE 1

\* The access statuses a miss handler is called for
MissStatus == {"MISS", "HIT_RESERVED"}

ReadMiss(b, st, l, wb) ==
  LET do == ReadRequest(b, Len(m_miss_queue))
  IN  /\ PortRead(b)
      /\ st \in MissStatus /\ probe(b, st, l)
      /\ ~miss_queue_full(ReadMissRoom)
      /\ do # "none"
      /\ SendReadRequest(port, b, st, l, do, m_miss_queue, wb)
      /\ mf' = WithWriteBack(mf, st, l, wb)
      /\ port' = NoFetch
      /\ UNCHANGED <<m_current_response, below>>

\* m_wr_hit: whether a write hit sends the write down, and the state it
\* leaves the line in.
WriteHitSends(b) == \/ WritePolicy \in {"WRITE_THROUGH", "WRITE_EVICT"}
                    \/ WritePolicy = "LOCAL_WB_GLOBAL_WT" /\ b \notin LocalBlock
WriteHitEvicts(b) == WriteHitSends(b) /\ WritePolicy # "WRITE_THROUGH"

\* wr_hit_wb: the line becomes dirty and the write is answered.
WriteHitKeep(b, l) ==
  /\ PortWrite(b)
  /\ probe(b, "HIT", l)
  /\ ~WriteHitSends(b)
  /\ m_lines' = [m_lines EXCEPT ![l].status = "MODIFIED"]
  /\ older' = Touched(l)
  /\ mf' = [mf EXCEPT ![port] = Idle]
  /\ port' = NoFetch
  /\ UNCHANGED <<mshrVars, m_miss_queue, m_extra_mf_fields, below>>

\* wr_hit_wt and wr_hit_we: the write goes to the lower level; write-evict
\* invalidates the line and leaves its time stamps alone.
WriteHitSend(b, l) ==
  /\ PortWrite(b)
  /\ probe(b, "HIT", l)
  /\ WriteHitSends(b)
  /\ ~miss_queue_full(0)
  /\ m_lines' = [m_lines EXCEPT ![l].status =
                   IF WriteHitEvicts(b) THEN "INVALID" ELSE "MODIFIED"]
  /\ older' = IF WriteHitEvicts(b) THEN older ELSE Touched(l)
  /\ m_miss_queue' = Append(m_miss_queue, port)
  /\ port' = NoFetch
  /\ UNCHANGED <<mshrVars, m_extra_mf_fields, mf, below>>

\* wr_miss_no_wa
WriteMissNoAllocate(b, st, l) ==
  /\ PortWrite(b)
  /\ ~WriteAllocate
  /\ st \in MissStatus /\ probe(b, st, l)
  /\ ~miss_queue_full(0)
  /\ m_miss_queue' = Append(m_miss_queue, port)
  /\ port' = NoFetch
  /\ UNCHANGED <<tagVars, mshrVars, m_extra_mf_fields, mf, below>>

WriteAllocateRoom_QueueOnly(b) == ~miss_queue_full(2)
WriteAllocateRoom_TwoRequests(b) ==
  /\ ~miss_queue_full(1)
  /\ ReadRequest(b, Len(m_miss_queue)) # "none"

\* "Conservatively ensure the worst-case request can be handled this cycle"
WriteAllocateRoom(b) ==
  /\ ~miss_queue_full(2)
  /\ ReadRequest(b, Len(m_miss_queue)) # "none"

\* wr_miss_wa: the write is sent, then a read of the same block, then the
\* write-back of a dirty victim.  If send_read_request could not take the
\* read the access would be rejected although its write is queued.
WriteMissAllocate(b, st, l, n, wb) ==
  LET q1 == Append(m_miss_queue, port)
      do == ReadRequest(b, Len(q1))
      reqs == [mf EXCEPT ![n] = [type |-> "WR_ALLOC_R", block |-> b]]
  IN  /\ PortWrite(b)
      /\ WriteAllocate
      /\ st \in MissStatus /\ probe(b, st, l)
      /\ WriteAllocateRoom(b)
      /\ IF do = "none"
           THEN /\ m_miss_queue' = q1
                /\ UNCHANGED <<tagVars, m_data, m_extra_mf_fields, mf, port>>
           ELSE /\ SendReadRequest(n, b, st, l, do, q1, wb)
                /\ mf' = WithWriteBack(reqs, st, l, wb)
                /\ port' = NoFetch
      /\ UNCHANGED <<m_current_response, below>>

\* Every early return with RESERVATION_FAIL: the caller keeps the access and
\* tries again next cycle.
ReservationFail(b) ==
  /\ PortRead(b) \/ PortWrite(b)
  /\ \/ Holding(b) = {} /\ Replaceable(b) = {}
     \/ /\ PortRead(b)
        /\ \E l \in Line, st \in MissStatus : probe(b, st, l)
        /\ miss_queue_full(ReadMissRoom) \/ ReadRequest(b, Len(m_miss_queue)) = "none"
     \/ /\ PortWrite(b)
        /\ \E l \in Line : probe(b, "HIT", l)
        /\ WriteHitSends(b) /\ miss_queue_full(0)
     \/ /\ PortWrite(b)
        /\ \E l \in Line, st \in MissStatus : probe(b, st, l)
        /\ IF WriteAllocate THEN ~WriteAllocateRoom(b) ELSE miss_queue_full(0)
  /\ UNCHANGED vars

\* baseline_cache::cycle, when the lower level has room
Cycle ==
  /\ m_miss_queue # <<>>
  /\ m_miss_queue' = Tail(m_miss_queue)
  /\ below' = below \cup {Head(m_miss_queue)}
  /\ UNCHANGED <<tagVars, mshrVars, m_extra_mf_fields, mf, port>>

\* The lower level has dealt with a write or a write-back.
WriteDone(f) ==
  /\ f \in below
  /\ ~waiting_for_fill(f)
  /\ below' = below \ {f}
  /\ mf' = [mf EXCEPT ![f] = Idle]
  /\ UNCHANGED <<tagVars, mshrVars, m_miss_queue, m_extra_mf_fields, port>>

\* baseline_cache::fill.  On-miss caches fill the line reserved for the
\* request, dirty if an atomic waits for it; on-fill caches choose a line now.
Fill(f, l) ==
  LET b == m_extra_mf_fields[f].m_block_addr
  IN  /\ f \in below
      /\ waiting_for_fill(f)
      /\ IF AllocPolicy = "ON_MISS"
           THEN /\ l = m_extra_mf_fields[f].m_cache_index
                /\ m_lines' = [m_lines EXCEPT ![l].status =
                                 IF HasAtomic(b) THEN "MODIFIED" ELSE "VALID"]
                /\ UNCHANGED older
           ELSE /\ l \in Replaceable(b)
                /\ m_lines' = [m_lines EXCEPT ![l] = [status |-> "VALID", block |-> b]]
                /\ older' = Newest(l)
      /\ m_current_response' = Append(m_current_response, b)
      /\ m_extra_mf_fields' = [m_extra_mf_fields EXCEPT ![f] = NoFields]
      /\ below' = below \ {f}
      /\ UNCHANGED <<m_data, m_miss_queue, mf, port>>

NextAccess_DropsMerged ==
  LET b == Head(m_current_response)
  IN  /\ m_current_response # <<>>
      /\ m_data' = [m_data EXCEPT ![b] = Tail(@)]
      /\ m_current_response' = Tail(m_current_response)
      /\ mf' = [mf EXCEPT ![Head(m_data[b])] = Idle]
      /\ UNCHANGED <<tagVars, m_miss_queue, m_extra_mf_fields, port, below>>

\* mshr_table::next_access: the caller takes one answered access.
NextAccess ==
  LET b == Head(m_current_response)
  IN  /\ m_current_response # <<>>
      /\ m_data' = [m_data EXCEPT ![b] = Tail(@)]
      /\ m_current_response' = IF Len(m_data[b]) = 1 THEN Tail(m_current_response)
                                                     ELSE m_current_response
      /\ mf' = [mf EXCEPT ![Head(m_data[b])] = Idle]
      /\ UNCHANGED <<tagVars, m_miss_queue, m_extra_mf_fields, port, below>>

\* tag_array::flush.  gpgpu_sim::cycle calls it when no thread is left, so
\* every access of the caller is done (-gpgpu_flush_l1_cache and _l2_cache);
\* gpgpu_sim::change_cache_config calls it when a kernel is launched.
Flush ==
  /\ \/ /\ FlushMode = "kernel_end"
        /\ \A f \in Fetch \ IdleFetch : mf[f].type \in {"WR_ALLOC_R", "WRBK"}
     \/ FlushMode = "kernel_launch"
  /\ m_lines' = [l \in Line |-> [m_lines[l] EXCEPT !.status = "INVALID"]]
  /\ UNCHANGED <<older, mshrVars, m_miss_queue, m_extra_mf_fields, mf, port, below>>

Access ==
  \E b \in Block :
    \/ \E l \in Line : ReadHit(b, l)
    \/ \E l \in Line : WriteHitKeep(b, l)
    \/ \E l \in Line : WriteHitSend(b, l)
    \/ \E l \in Line, st \in MissStatus : WriteMissNoAllocate(b, st, l)
    \/ \E l \in Line, st \in MissStatus, wb \in IdleFetch : ReadMiss(b, st, l, wb)
    \/ \E l \in Line, st \in MissStatus, n, wb \in IdleFetch :
         n # wb /\ WriteMissAllocate(b, st, l, n, wb)
    \/ ReservationFail(b)

Next ==
  \/ \E f \in Fetch, t \in AccessTypes, b \in Block : Offer(f, t, b)
  \/ Access
  \/ Cycle
  \/ \E f \in Fetch : WriteDone(f)
  \/ \E f \in Fetch, l \in Line : Fill(f, l)
  \/ NextAccess
  \/ Flush

Spec == Init /\ [][Next]_vars

\* Every cycle of the simulator runs the cache's cycle(), offers the access at
\* the head of the caller's queue again, and takes an answered access; the
\* lower level answers every request in the end.
Fairness ==
  /\ WF_vars(Access)
  /\ WF_vars(Cycle)
  /\ WF_vars(NextAccess)
  /\ \A f \in Fetch : WF_vars(WriteDone(f)) /\ WF_vars(\E l \in Line : Fill(f, l))

FairSpec == Spec /\ Fairness
-----------------------------------------------------------------------------
(* Properties *)

TypeOK ==
  /\ m_lines \in [Line -> LineState]
  /\ older \subseteq Line \X Line
  /\ m_data \in [Block -> Seq(Fetch)]
  /\ m_current_response \in Seq(Block)
  /\ m_miss_queue \in Seq(Fetch)
  /\ m_extra_mf_fields \in [Fetch -> Fields \cup {NoFields}]
  /\ mf \in [Fetch -> Request \cup {Idle}]
  /\ port \in Fetch \cup {NoFetch}
  /\ below \subseteq Fetch

\* The requests for block b the lower level has still to answer
Pending(b) == {f \in Fetch : waiting_for_fill(f) /\ m_extra_mf_fields[f].m_block_addr = b}

\* No block is held by two lines: whatever hits, merges, evictions, fills and
\* invalidations do, probe() never finds a choice of lines for one tag.
UniqueTags ==
  \A l, k \in Line :
    /\ l # k /\ l[1] = k[1]
    /\ m_lines[l].status # "INVALID" /\ m_lines[k].status # "INVALID"
    => m_lines[l].block # m_lines[k].block

\* The answer to a request finds what it needs: the line index saved when the
\* request was sent is still reserved for its block (the assertion in
\* cache_block_t::fill), or the block is still absent when lines are allocated
\* on fill (the assertion in tag_array::fill).
FillTarget ==
  \A f \in Fetch : waiting_for_fill(f) =>
    LET e == m_extra_mf_fields[f]
    IN  IF AllocPolicy = "ON_MISS"
          THEN m_lines[e.m_cache_index] = [status |-> "RESERVED", block |-> e.m_block_addr]
          ELSE Holding(e.m_block_addr) = {}

\* An MSHR entry is either waiting for its only request or being drained, and
\* never both: mark_ready finds the entry of every answer ("don't remove same
\* request twice") and no answer is lost or doubled.
MshrConsistent ==
  /\ \A b \in Block :
       /\ mshr_probe(b) <=> (Pending(b) # {} \/ b \in Range(m_current_response))
       /\ Pending(b) # {} => b \notin Range(m_current_response)
       /\ \A f, g \in Pending(b) : f = g
  /\ Distinct(m_current_response)

\* Fetch f is in the cache: it exists and is no longer at the port.
InCache(f) == mf[f] # Idle /\ f # port
Listed(f, b) == f \in Range(m_data[b])

\* Every access is in one place.  One that the cache has rejected so far has
\* left no trace (the callers assert !write_sent and !read_sent); an accepted
\* read is listed exactly once in the MSHRs, so it is answered once; what is
\* queued or below is a write, queued once, or the request an entry waits for.
TrackedOnce ==
  /\ \A b \in Block : Distinct(m_data[b])
  /\ \A b, c \in Block, f \in Fetch : Listed(f, b) /\ Listed(f, c) => b = c
  /\ Distinct(m_miss_queue)
  /\ Range(m_miss_queue) \cap below = {}
  /\ \A f \in Fetch :
       /\ (\E b \in Block : Listed(f, b)) <=> InCache(f) /\ mf[f].type \in ReadType
       /\ f \in Range(m_miss_queue) \cup below <=>
            waiting_for_fill(f) \/ (InCache(f) /\ mf[f].type \notin ReadType)
       /\ waiting_for_fill(f) => Listed(f, m_extra_mf_fields[f].m_block_addr)
  /\ port # NoFetch => mf[port] # Idle /\ mf[port].type \in AccessTypes

\* The worst case of every handler fits: no step makes the miss queue longer
\* than m_miss_queue_size, although one access can queue three requests.
MissQueueBounded == Len(m_miss_queue) <= MissQueueSize

\* The assertions in mshr_table::add: at most m_num_entries blocks, each with
\* at most m_max_merged accesses.
MshrBounded ==
  /\ Cardinality({b \in Block : mshr_probe(b)}) <= MshrEntries
  /\ \A b \in Block : Len(m_data[b]) <= MaxMerged

\* Both tables of the cache stay within their configured sizes: the room one
\* access was promised by miss_queue_full and mshr_table::full is still there
\* for every request it then makes.
LimitsRespected == MissQueueBounded /\ MshrBounded

\* A dirty line of a write-back cache does not disappear: short of a flush, the step that
\* replaces or cleans it queues a write-back, or the write that evicts it.
DirtyWrittenBack ==
  [][Flush \/ \A l \in Line :
       /\ WritePolicy \in {"WRITE_BACK", "LOCAL_WB_GLOBAL_WT"}
       /\ m_lines[l].status = "MODIFIED"
       /\ m_lines'[l] # m_lines[l]
       => \E i \in DOMAIN m_miss_queue' :
            /\ i > Len(m_miss_queue)
            /\ mf'[m_miss_queue'[i]].block = m_lines[l].block
            /\ mf'[m_miss_queue'[i]].type \in {"WRBK", "WRITE"}]_vars

\* An access the cache cannot take now is taken in the end: the caller that
\* retries it every cycle ("will try again next cycle") is not locked up.
PortServed == port # NoFetch ~> port = NoFetch

\* If the caller stops making accesses, every read accepted is answered.
Answered ==
  <>[][\A f \in Fetch, t \in AccessTypes, b \in Block : ~Offer(f, t, b)]_vars
    => \A f \in Fetch : mf[f] # Idle ~> mf[f] = Idle
-----------------------------------------------------------------------------
(* Refinement: which blocks, deliveries and writes the tag array, the MSHRs *)
(* and the queues stand for.                                                *)
PresentBlocks == {m_lines[l].block : l \in {l \in Line : m_lines[l].status \in {"VALID", "MODIFIED"}}}
DirtyBlocks == {m_lines[l].block : l \in {l \in Line : m_lines[l].status = "MODIFIED"}}
\* Write-through has sent the data of its modified lines already.
DirtyData == IF WritePolicy = "WRITE_THROUGH" THEN {} ELSE DirtyBlocks
AskedBlocks == {b \in Block : Pending(b) # {}}
Draining(b) == b \in Range(m_current_response)
WaitingOf == [b \in Block |-> IF Draining(b) THEN {} ELSE Range(m_data[b])]
ServedOf  == [b \in Block |-> IF Draining(b) THEN Range(m_data[b]) ELSE {}]
WritesBelow == {f \in Range(m_miss_queue) \cup below : mf[f].type \notin ReadType}

Abstract == INSTANCE AbstractCache WITH
  present <- PresentBlocks, dirty <- DirtyData, asked <- AskedBlocks,
  waiting <- WaitingOf, ready <- ServedOf, writes <- WritesBelow

\* The cache does what AbstractCache promises.  A hit is served from a block
\* that was delivered and not dropped since; a block is asked for once until
\* it is delivered; a delivery serves the accesses merged into it and no
\* other, each once; a write is sent together with the read it needs; dirty
\* data leaves in a write-back.
ImplementsAbstractCache == Abstract!Spec
=============================================================================
