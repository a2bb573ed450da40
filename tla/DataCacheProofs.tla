--------------------------- MODULE DataCacheProofs ---------------------------
(***************************************************************************)
(* Proofs about DataCache for every configuration and every number of      *)
(* blocks, ways, MSHR entries and mem_fetch objects; and that it           *)
(* implements AbstractCache for every policy under which the code          *)
(* keeps dirty data (DirtyKept) and flushes safely (FlushIsSafe).          *)
(***************************************************************************)
EXTENDS DataCache, FiniteSetTheorems, TLAPS

-----------------------------------------------------------------------------
(* Lists of mem_fetch objects and of block addresses *)

\* What appending does to the contents of a list.
LEMMA AppendContents ==
  ASSUME NEW S, NEW s \in Seq(S), NEW x \in S
  PROVE  /\ Append(s, x) \in Seq(S)
         /\ Append(s, x) # <<>>
         /\ Range(Append(s, x)) = Range(s) \cup {x}
         /\ Len(Append(s, x)) = Len(s) + 1
<1>1. /\ Append(s, x) \in Seq(S) /\ Append(s, x) # <<>>
      /\ Len(Append(s, x)) = Len(s) + 1
  <2>1. Append(s, x) \in Seq(S) /\ Len(Append(s, x)) = Len(s) + 1
    OBVIOUS
  <2>2. Len(s) \in Nat
    OBVIOUS
  <2>3. QED BY <2>1, <2>2
<1>2. Range(Append(s, x)) = Range(s) \cup {x}
  <2>1. DOMAIN Append(s, x) = DOMAIN s \cup {Len(s) + 1}
    OBVIOUS
  <2>2. \A i \in DOMAIN s : Append(s, x)[i] = s[i]
    OBVIOUS
  <2>3. Append(s, x)[Len(s) + 1] = x
    OBVIOUS
  <2>4. QED BY <2>1, <2>2, <2>3, Zenon DEF Range
<1>3. QED BY <1>1, <1>2

\* A new element keeps a list free of repetitions.
LEMMA AppendDistinct ==
  ASSUME NEW S, NEW s \in Seq(S), NEW x \in S, Distinct(s), x \notin Range(s)
  PROVE  Distinct(Append(s, x))
BY DEF Distinct, Range

\* The contents of a list of S are elements of S; only the empty list has none.
LEMMA SeqContents ==
  ASSUME NEW S, NEW s \in Seq(S)
  PROVE  /\ Range(s) \subseteq S
         /\ Range(s) = {} <=> s = <<>>
BY DEF Range

\* Taking the head off a list without repetitions removes just that element.
LEMMA TailContents ==
  ASSUME NEW S, NEW s \in Seq(S), s # <<>>, Distinct(s)
  PROVE  /\ Head(s) \in Range(s)
         /\ Tail(s) \in Seq(S)
         /\ Distinct(Tail(s))
         /\ Range(Tail(s)) = Range(s) \ {Head(s)}
         /\ Len(s) = 1 <=> Tail(s) = <<>>
         /\ Len(Tail(s)) < Len(s)
<1>1. Head(s) \in Range(s)
  BY DEF Range
<1>2. /\ Tail(s) \in Seq(S) /\ (Len(s) = 1 <=> Tail(s) = <<>>)
      /\ Len(Tail(s)) < Len(s)
  <2>1. Tail(s) \in Seq(S) /\ Len(Tail(s)) = Len(s) - 1 /\ Len(s) \in Nat
    OBVIOUS
  <2>2. Len(Tail(s)) = 0 <=> Tail(s) = <<>>
    BY <2>1
  <2>3. QED BY <2>1, <2>2
<1>3. Distinct(Tail(s))
  BY DEF Distinct
<1>4. \A i \in DOMAIN Tail(s) : Tail(s)[i] \in Range(s) \ {Head(s)}
  BY DEF Distinct, Range
<1>5. \A i \in DOMAIN s \ {1} : i - 1 \in DOMAIN Tail(s) /\ Tail(s)[i - 1] = s[i]
  OBVIOUS
<1>6. Range(s) \ {Head(s)} \subseteq Range(Tail(s))
  <2>1. \A i \in DOMAIN s : s[i] # Head(s) => i \in DOMAIN s \ {1}
    OBVIOUS
  <2>2. QED BY <1>5, <2>1 DEF Range
<1>7. Range(Tail(s)) \subseteq Range(s) \ {Head(s)}
  BY <1>4, Zenon DEF Range
<1>8. QED BY <1>1, <1>2, <1>3, <1>6, <1>7

-----------------------------------------------------------------------------
(* The bookkeeping of the MSHRs and the miss queue *)

\* TypeOK is not inductive: next_access() takes the head of an MSHR list, which
\* must not be empty, so it needs MshrConsistent; and that needs TrackedOnce,
\* which says that an answered access is not one still waiting for its fill.
Core == TypeOK /\ MshrConsistent /\ TrackedOnce

\* The cache knows nothing of fetch f.
Untracked(f) == /\ \A b \in Block : ~Listed(f, b)
                /\ f \notin Range(m_miss_queue) \cup below
                /\ ~waiting_for_fill(f)

\* A cache block address or a line index found in the extra fields is in range.
LEMMA FieldsType ==
  ASSUME TypeOK, NEW f \in Fetch, waiting_for_fill(f)
  PROVE  /\ m_extra_mf_fields[f] \in Fields
         /\ m_extra_mf_fields[f].m_block_addr \in Block
         /\ m_extra_mf_fields[f].m_cache_index \in Line
<1>1. m_extra_mf_fields[f] \in Fields
  BY DEF TypeOK, waiting_for_fill, NoFields
<1>2. QED BY <1>1 DEF Fields

\* An object that does not exist, or that still waits at the port, is untracked.
LEMMA OutsideUntracked ==
  ASSUME Core, NEW f \in Fetch, mf[f] = Idle \/ f = port
  PROVE  Untracked(f)
BY FieldsType DEF Core, TrackedOnce, InCache, Untracked

\* An MSHR entry exists when it lists an access.
LEMMA ProbeListed ==
  ASSUME TypeOK, NEW b \in Block
  PROVE  /\ mshr_probe(b) <=> Range(m_data[b]) # {}
         /\ Range(m_data[b]) \subseteq Fetch
<1>1. m_data[b] \in Seq(Fetch)
  BY DEF TypeOK
<1>2. QED BY <1>1, SeqContents DEF mshr_probe

\* Time stamps stay on the lines of the cache.
LEMMA StampType ==
  ASSUME older \subseteq Line \X Line, NEW l \in Line
  PROVE  /\ Newest(l) \subseteq Line \X Line
         /\ Touched(l) \subseteq Line \X Line
BY DEF Newest, Touched

\* tag_array::access keeps the tag array well formed.
LEMMA TagAccessType ==
  ASSUME TypeOK, NEW b \in Block, NEW l \in Line, NEW st, TagAccess(b, st, l)
  PROVE  m_lines' \in [Line -> LineState] /\ older' \subseteq Line \X Line
<1>1. m_lines' \in [Line -> LineState]
  BY DEF TypeOK, TagAccess, LineState, tagVars
<1>2. older' \subseteq Line \X Line
  BY StampType DEF TypeOK, TagAccess, tagVars
<1>3. QED BY <1>1, <1>2

\* Only the contents of the lists, the fields, the requests, the port and the
\* lower level matter to the bookkeeping.
LEMMA SameBookkeeping ==
  ASSUME Core, TypeOK',
         UNCHANGED <<m_data, m_current_response, m_miss_queue, m_extra_mf_fields, mf, port, below>>
  PROVE  Core'
BY DEF Core, MshrConsistent, TrackedOnce, mshr_probe, Pending, waiting_for_fill, Listed, InCache

\* Miss queue q and requests reqs account for every fetch but f, which is a read
\* the cache does not know; wb is free for a write-back.
ReadyFor(f, wb, q, reqs) ==
  /\ Untracked(f) /\ Untracked(wb) /\ f # wb
  /\ Distinct(q) /\ Range(q) \cap below = {}
  /\ f \notin Range(q) /\ wb \notin Range(q)
  /\ reqs[f] # Idle /\ reqs[f].type \in ReadType /\ reqs[wb] = Idle
  /\ \A g \in Fetch \ {f} :
       /\ (\E c \in Block : Listed(g, c)) <=> reqs[g] # Idle /\ reqs[g].type \in ReadType
       /\ g \in Range(q) \cup below <=>
            waiting_for_fill(g) \/ (reqs[g] # Idle /\ reqs[g].type \notin ReadType)

\* send_read_request keeps the books when it is given an access the cache does
\* not know: q is the miss queue it finds, reqs the requests, and wb the object
\* of a write-back.  It merges the access into the entry of its block, or opens
\* an entry and sends the request.
LEMMA SendKeepsCore ==
  ASSUME Core,
         NEW b \in Block, NEW l \in Line, NEW st, NEW do \in {"merge", "send"},
         NEW f \in Fetch, NEW wb \in Fetch,
         NEW q \in Seq(Fetch), NEW reqs \in [Fetch -> Request \cup {Idle}],
         ReadyFor(f, wb, q, reqs), do = "send" <=> ~mshr_probe(b),
         SendReadRequest(f, b, st, l, do, q, wb),
         mf' = WithWriteBack(reqs, st, l, wb), port' = NoFetch,
         UNCHANGED <<m_current_response, below>>
  PROVE  Core'
<1> USE DEF ReadyFor
<1> DEFINE d  == m_data[b]
           fl == [m_valid |-> TRUE, m_block_addr |-> b, m_cache_index |-> l]
           q2 == IF do = "send" THEN Append(q, f) ELSE q
<1>1. /\ m_data \in [Block -> Seq(Fetch)] /\ m_extra_mf_fields \in [Fetch -> Fields \cup {NoFields}]
      /\ d \in Seq(Fetch) /\ f \notin Range(d) /\ Distinct(d)
      /\ fl \in Fields /\ fl.m_valid /\ fl.m_block_addr = b
  BY DEF Core, TypeOK, TrackedOnce, Untracked, Listed, Fields
<1>2. /\ m_data' = [m_data EXCEPT ![b] = Append(d, f)]
      /\ m_extra_mf_fields' = IF do = "send" THEN [m_extra_mf_fields EXCEPT ![f] = fl]
                                             ELSE m_extra_mf_fields
      /\ m_miss_queue' = IF Dirty(st, l) THEN Append(q2, wb) ELSE q2
      /\ TagAccess(b, st, l)
  BY DEF SendReadRequest
<1>3. /\ Append(d, f) \in Seq(Fetch) /\ Range(Append(d, f)) = Range(d) \cup {f}
      /\ Distinct(Append(d, f))
  BY <1>1, AppendContents, AppendDistinct
<1>4. /\ q2 \in Seq(Fetch) /\ Distinct(q2)
      /\ Range(q2) = Range(q) \cup (IF do = "send" THEN {f} ELSE {})
  BY AppendContents, AppendDistinct
<1>5. /\ m_miss_queue' \in Seq(Fetch) /\ Distinct(m_miss_queue')
      /\ Range(m_miss_queue') = Range(q2) \cup (IF Dirty(st, l) THEN {wb} ELSE {})
  <2>1. wb \notin Range(q2)
    BY <1>4
  <2> HIDE DEF q2
  <2>2. QED BY <1>2, <1>4, <2>1, AppendContents, AppendDistinct
<1> DEFINE w == [type |-> "WRBK", block |-> m_lines[l].block]
<1>6. /\ w \in Request /\ w # Idle /\ w.type \notin ReadType
      /\ mf' = IF Dirty(st, l) THEN [reqs EXCEPT ![wb] = w] ELSE reqs
  BY IdleAssumption DEF Core, TypeOK, LineState, Request, Type, ReadType, WithWriteBack
<1> HIDE DEF d, fl, q2, w
<1>7. TypeOK'
  <2>1. m_lines' \in [Line -> LineState] /\ older' \subseteq Line \X Line
    BY <1>2, TagAccessType DEF Core
  <2>2. QED BY <1>1, <1>2, <1>3, <1>5, <1>6, <2>1 DEF Core, TypeOK
<1>8. \A c \in Block : /\ Range(m_data'[c]) = Range(m_data[c]) \cup (IF c = b THEN {f} ELSE {})
                       /\ Distinct(m_data'[c])
  BY <1>1, <1>2, <1>3 DEF d, Core, TrackedOnce
<1>9. \A c \in Block : Pending(c)' = Pending(c) \cup (IF c = b /\ do = "send" THEN {f} ELSE {})
  BY <1>1, <1>2 DEF Pending, waiting_for_fill, Untracked
<1>10. MshrConsistent'
  <2>1. \A c \in Block : mshr_probe(c)' <=> mshr_probe(c) \/ c = b
    BY <1>7, <1>8, ProbeListed, AppendContents, <1>1, <1>2 DEF mshr_probe, d
  <2> HIDE DEF ReadyFor
  <2>2. MshrConsistent /\ m_current_response' = m_current_response
    BY DEF Core
  <2>3. ASSUME NEW c \in Block
        PROVE  /\ mshr_probe(c)' <=> (Pending(c)' # {} \/ c \in Range(m_current_response)')
               /\ Pending(c)' # {} => c \notin Range(m_current_response)'
               /\ \A g, h \in Pending(c)' : g = h
    <3>1. CASE c = b /\ do = "send"
      BY <1>9, <2>1, <2>2, <3>1 DEF MshrConsistent
    <3>2. CASE ~(c = b /\ do = "send")
      BY <1>9, <2>1, <2>2, <3>2 DEF MshrConsistent
    <3>3. QED BY <3>1, <3>2
  <2>4. QED BY <2>2, <2>3 DEF MshrConsistent
<1>11. \A g \in Fetch : waiting_for_fill(g)' <=> waiting_for_fill(g) \/ (g = f /\ do = "send")
  BY <1>1, <1>2 DEF waiting_for_fill
<1>12. TrackedOnce'
  <2>1. \A g \in Fetch, c \in Block : Listed(g, c)' <=> Listed(g, c) \/ (g = f /\ c = b)
    BY <1>8 DEF Listed
  <2>2. \A g \in Fetch : /\ InCache(g)' <=> reqs[g] # Idle \/ (g = wb /\ Dirty(st, l))
                         /\ InCache(g)' => mf'[g].type = IF g = wb THEN "WRBK" ELSE reqs[g].type
    <3>1. port' # NoFetch => FALSE
      OBVIOUS
    <3>2. QED BY <1>6, SizeAssumption DEF InCache, w
  <2>3. Range(m_miss_queue)' \cap below' = {}
    BY <1>4, <1>5 DEF Untracked
  <2>4. \A g \in Fetch : waiting_for_fill(g)' => Listed(g, m_extra_mf_fields[g].m_block_addr)'
    BY <1>1, <1>2, <1>11, <2>1, FieldsType DEF Core, TrackedOnce, Untracked
  <2>5. \A g \in Fetch : (\E c \in Block : Listed(g, c)') <=>
                            InCache(g)' /\ mf'[g].type \in ReadType
    BY <2>1, <2>2 DEF Untracked, ReadType
  <2>6. \A g \in Fetch : g \in Range(m_miss_queue)' \cup below' <=>
                            waiting_for_fill(g)' \/ (InCache(g)' /\ mf'[g].type \notin ReadType)
    BY <1>4, <1>5, <1>11, <2>2 DEF Untracked, ReadType
  <2>7. \A x, y \in Block, g \in Fetch : Listed(g, x)' /\ Listed(g, y)' => x = y
    BY <2>1 DEF Core, TrackedOnce, Untracked
  <2>8. QED BY <1>5, <1>8, <2>3, <2>4, <2>5, <2>6, <2>7 DEF TrackedOnce
<1>13. QED BY <1>7, <1>10, <1>12 DEF Core

\* The read miss handlers meet the conditions of send_read_request.
LEMMA ReadMissReady ==
  ASSUME Core, NEW b \in Block, NEW l \in Line, NEW st \in MissStatus, NEW wb \in IdleFetch,
         ReadMiss(b, st, l, wb)
  PROVE  \E do \in {"merge", "send"} :
           /\ do = "send" <=> ~mshr_probe(b)
           /\ ReadyFor(port, wb, m_miss_queue, mf)
           /\ SendReadRequest(port, b, st, l, do, m_miss_queue, wb)
           /\ mf' = WithWriteBack(mf, st, l, wb) /\ port' = NoFetch
           /\ UNCHANGED <<m_current_response, below>>
<1>0. TypeOK /\ TrackedOnce
  BY DEF Core
<1> DEFINE do == ReadRequest(b, Len(m_miss_queue))
<1>1. /\ port \in Fetch /\ port # NoFetch /\ Untracked(port) /\ mf[port] # Idle
      /\ mf[port].type \in ReadType
  BY <1>0, OutsideUntracked DEF TypeOK, ReadMiss, PortRead, TrackedOnce, ReadType
<1>2. wb \in Fetch /\ mf[wb] = Idle /\ wb # port /\ Untracked(wb)
  BY <1>1, OutsideUntracked DEF IdleFetch
<1>3. do \in {"merge", "send"} /\ (do = "send" <=> ~mshr_probe(b))
  BY DEF ReadMiss, ReadRequest
<1>4. \A g \in Fetch \ {port} :
        /\ (\E c \in Block : Listed(g, c)) <=> mf[g] # Idle /\ mf[g].type \in ReadType
        /\ g \in Range(m_miss_queue) \cup below <=>
             waiting_for_fill(g) \/ (mf[g] # Idle /\ mf[g].type \notin ReadType)
  BY <1>0 DEF TrackedOnce, InCache
<1>5. /\ SendReadRequest(port, b, st, l, do, m_miss_queue, wb)
      /\ mf' = WithWriteBack(mf, st, l, wb) /\ port' = NoFetch
      /\ UNCHANGED <<m_current_response, below>>
  BY DEF ReadMiss
<1>6. /\ Distinct(m_miss_queue) /\ Range(m_miss_queue) \cap below = {}
      /\ port \notin Range(m_miss_queue) /\ wb \notin Range(m_miss_queue)
  BY <1>0, <1>1, <1>2 DEF TrackedOnce, Untracked
<1> HIDE DEF do
<1>7. ReadyFor(port, wb, m_miss_queue, mf)
  BY <1>1, <1>2, <1>4, <1>6 DEF ReadyFor
<1>8. QED BY <1>3, <1>5, <1>7

\* wr_miss_wa meets them after it has queued the write: q is the miss queue and
\* reqs the requests it calls send_read_request with.  Its worst-case check makes
\* the rejection of a half-sent access impossible.
LEMMA WriteMissReady ==
  ASSUME Core, NEW b \in Block, NEW l \in Line, NEW st \in MissStatus,
         NEW n \in IdleFetch, NEW wb \in IdleFetch, n # wb, WriteMissAllocate(b, st, l, n, wb)
  PROVE  \E do \in {"merge", "send"}, q \in Seq(Fetch), reqs \in [Fetch -> Request \cup {Idle}] :
           /\ q = Append(m_miss_queue, port)
           /\ Range(q) = Range(m_miss_queue) \cup {port}
           /\ reqs = [mf EXCEPT ![n] = [type |-> "WR_ALLOC_R", block |-> b]]
           /\ do = "send" <=> ~mshr_probe(b)
           /\ n \in Fetch /\ wb \in Fetch /\ ReadyFor(n, wb, q, reqs)
           /\ SendReadRequest(n, b, st, l, do, q, wb)
           /\ mf' = WithWriteBack(reqs, st, l, wb) /\ port' = NoFetch
           /\ UNCHANGED <<m_current_response, below>>
<1>0. TypeOK /\ TrackedOnce
  BY DEF Core
<1> DEFINE q1 == Append(m_miss_queue, port)
           r == [type |-> "WR_ALLOC_R", block |-> b]
           reqs == [mf EXCEPT ![n] = r]
           do == ReadRequest(b, Len(q1))
<1>1. /\ port \in Fetch /\ port # NoFetch /\ Untracked(port) /\ mf[port] # Idle
      /\ mf[port].type = "WRITE"
  BY <1>0, OutsideUntracked DEF TypeOK, WriteMissAllocate, PortWrite, TrackedOnce
<1>2. /\ wb \in Fetch /\ mf[wb] = Idle /\ wb # port /\ Untracked(wb)
      /\ n \in Fetch /\ mf[n] = Idle /\ n # port /\ Untracked(n)
  BY <1>1, OutsideUntracked DEF IdleFetch
<1>3. /\ q1 \in Seq(Fetch) /\ Distinct(q1) /\ Len(q1) = Len(m_miss_queue) + 1
      /\ Range(q1) = Range(m_miss_queue) \cup {port}
  BY <1>0, <1>1, AppendContents, AppendDistinct DEF TypeOK, TrackedOnce, Untracked
<1>4. do \in {"merge", "send"} /\ (do = "send" <=> ~mshr_probe(b))
  <2>1. /\ Len(m_miss_queue) + 2 < MissQueueSize /\ Len(m_miss_queue) \in Nat
        /\ ReadRequest(b, Len(m_miss_queue)) # "none"
    BY <1>0, SizeAssumption DEF WriteMissAllocate, WriteAllocateRoom, miss_queue_full, TypeOK
  <2>2. ~mshr_full(b) /\ Len(q1) < MissQueueSize
    BY <1>3, <2>1, SizeAssumption DEF ReadRequest
  <2> HIDE DEF q1
  <2>3. QED BY <2>2 DEF ReadRequest
<1>5. /\ SendReadRequest(n, b, st, l, do, q1, wb)
      /\ mf' = WithWriteBack(reqs, st, l, wb) /\ port' = NoFetch
      /\ UNCHANGED <<m_current_response, below>>
  BY <1>4 DEF WriteMissAllocate
<1>6. /\ r \in Request /\ r # Idle /\ r.type \in ReadType
      /\ reqs \in [Fetch -> Request \cup {Idle}]
      /\ reqs[n] = r /\ reqs[wb] = Idle /\ \A g \in Fetch \ {n} : reqs[g] = mf[g]
  BY <1>0, <1>2, IdleAssumption DEF TypeOK, Request, Type, ReadType
<1> HIDE DEF do, q1, r, reqs
<1>7. \A g \in Fetch \ {n} :
        /\ (\E c \in Block : Listed(g, c)) <=> reqs[g] # Idle /\ reqs[g].type \in ReadType
        /\ g \in Range(q1) \cup below <=>
             waiting_for_fill(g) \/ (reqs[g] # Idle /\ reqs[g].type \notin ReadType)
  BY <1>0, <1>1, <1>3, <1>6 DEF TrackedOnce, InCache, Untracked, ReadType
<1>8. /\ Range(q1) \cap below = {} /\ n \notin Range(q1) /\ wb \notin Range(q1)
      /\ reqs[n] # Idle /\ reqs[n].type \in ReadType
  BY <1>0, <1>1, <1>2, <1>3, <1>6 DEF TrackedOnce, Untracked
<1>9. ReadyFor(n, wb, q1, reqs)
  BY <1>2, <1>3, <1>6, <1>7, <1>8 DEF ReadyFor
<1>10. /\ q1 = Append(m_miss_queue, port)
       /\ reqs = [mf EXCEPT ![n] = [type |-> "WR_ALLOC_R", block |-> b]]
  BY DEF q1, reqs, r
<1>11. QED BY <1>2, <1>3, <1>4, <1>5, <1>6, <1>9, <1>10

\* The bookkeeping is right in every reachable state, whatever the policies and
\* whenever the tags are flushed.
THEOREM CoreCorrect == Spec => []Core
<1>1. Init => Core
  <2> SUFFICES ASSUME Init PROVE Core
    OBVIOUS
  <2>1. TypeOK
    BY SizeAssumption DEF Init, TypeOK, LineState, NoFields, Line
  <2>2. /\ \A b \in Block : ~mshr_probe(b) /\ Range(m_data[b]) = {} /\ Distinct(m_data[b])
        /\ Range(m_current_response) = {} /\ Range(m_miss_queue) = {}
        /\ Distinct(m_current_response) /\ Distinct(m_miss_queue)
    BY DEF Init, Range, Distinct, mshr_probe
  <2>3. \A f \in Fetch : ~waiting_for_fill(f) /\ mf[f] = Idle
    BY DEF Init, waiting_for_fill, NoFields
  <2>4. port = NoFetch /\ below = {}
    BY DEF Init
  <2>5. QED BY <2>1, <2>2, <2>3, <2>4 DEF Core, MshrConsistent, TrackedOnce, Pending, Listed, InCache
<1>2. Core /\ [Next]_vars => Core'
  <2> SUFFICES ASSUME Core, [Next]_vars PROVE Core'
    OBVIOUS
  <2> USE DEF tagVars, mshrVars
  <2>0. TypeOK /\ MshrConsistent /\ TrackedOnce
    BY DEF Core
  <2>1. ASSUME NEW f \in Fetch, NEW t \in AccessTypes, NEW b \in Block, Offer(f, t, b)
        PROVE  Core'
    <3> DEFINE r == [type |-> t, block |-> b]
    <3>1. /\ r \in Request /\ r # Idle /\ r.type = t
          /\ mf' = [mf EXCEPT ![f] = r] /\ port = NoFetch /\ port' = f
          /\ UNCHANGED <<tagVars, mshrVars, m_miss_queue, m_extra_mf_fields, below>>
      BY <2>1, ConfigAssumption, IdleAssumption DEF Offer, Request, Type
    <3>2. mf[f] = Idle /\ Untracked(f)
      BY <2>1, OutsideUntracked DEF Offer
    <3> HIDE DEF r
    <3>3. TypeOK'
      BY <2>0, <3>1 DEF TypeOK
    <3>4. MshrConsistent'
      BY <2>0, <3>1 DEF MshrConsistent, Pending, waiting_for_fill, mshr_probe
    <3>5. TrackedOnce'
      BY <2>0, <3>1, <3>2, SizeAssumption DEF TypeOK, TrackedOnce, Listed, InCache, waiting_for_fill, Untracked
    <3>6. QED BY <3>3, <3>4, <3>5 DEF Core
  \* A hit that is answered at once: the object at the port ceases to exist.
  <2>2. ASSUME TypeOK', port # NoFetch, port' = NoFetch, mf' = [mf EXCEPT ![port] = Idle],
               UNCHANGED <<mshrVars, m_miss_queue, m_extra_mf_fields, below>>
        PROVE  Core'
    <3>1. port \in Fetch /\ Untracked(port)
      BY <2>0, <2>2, OutsideUntracked DEF TypeOK
    <3>2. MshrConsistent'
      BY <2>0, <2>2 DEF MshrConsistent, Pending, waiting_for_fill, mshr_probe
    <3>3. TrackedOnce'
      BY <2>0, <2>2, <3>1, SizeAssumption DEF TypeOK, TrackedOnce, Listed, InCache, waiting_for_fill, Untracked
    <3>4. QED BY <2>2, <3>2, <3>3 DEF Core
  <2>3. ASSUME NEW b \in Block, NEW l \in Line, ReadHit(b, l)
        PROVE  Core'
    <3>1. m_lines' \in [Line -> LineState] /\ older' \subseteq Line \X Line
      BY <2>0, <2>3, StampType DEF ReadHit, TypeOK, LineState
    <3>2. TypeOK'
      BY <2>0, <2>3, <3>1 DEF ReadHit, PortRead, TypeOK
    <3>3. QED BY <2>2, <2>3, <3>2 DEF ReadHit, PortRead
  <2>4. ASSUME NEW b \in Block, NEW l \in Line, WriteHitKeep(b, l)
        PROVE  Core'
    <3>1. m_lines' \in [Line -> LineState] /\ older' \subseteq Line \X Line
      BY <2>0, <2>4, StampType DEF WriteHitKeep, TypeOK, LineState
    <3>2. TypeOK'
      BY <2>0, <2>4, <3>1 DEF WriteHitKeep, PortWrite, TypeOK
    <3>3. QED BY <2>2, <2>4, <3>2 DEF WriteHitKeep, PortWrite
  \* The write at the port is queued.
  <2>5. ASSUME NEW b \in Block, PortWrite(b), port' = NoFetch,
               m_lines' \in [Line -> LineState], older' \subseteq Line \X Line,
               m_miss_queue' = Append(m_miss_queue, port),
               UNCHANGED <<mshrVars, m_extra_mf_fields, mf, below>>
        PROVE  Core'
    <3>1. /\ port \in Fetch /\ Untracked(port) /\ port # NoFetch
          /\ mf[port] # Idle /\ mf[port].type = "WRITE"
      BY <2>0, <2>5, OutsideUntracked DEF TypeOK, PortWrite, TrackedOnce
    <3>2. /\ m_miss_queue' \in Seq(Fetch) /\ Distinct(m_miss_queue')
          /\ Range(m_miss_queue') = Range(m_miss_queue) \cup {port}
      BY <2>0, <2>5, <3>1, AppendContents, AppendDistinct DEF TypeOK, TrackedOnce, Untracked
    <3>3. TypeOK'
      BY <2>0, <2>5, <3>2 DEF TypeOK
    <3>4. MshrConsistent'
      BY <2>0, <2>5 DEF MshrConsistent, Pending, waiting_for_fill, mshr_probe
    <3>5. TrackedOnce'
      BY <2>0, <2>5, <3>1, <3>2, SizeAssumption
         DEF TypeOK, TrackedOnce, Listed, InCache, waiting_for_fill, Untracked, ReadType
    <3>6. QED BY <3>3, <3>4, <3>5 DEF Core
  <2>6. ASSUME NEW b \in Block, NEW l \in Line, WriteHitSend(b, l)
        PROVE  Core'
    <3>1. m_lines' \in [Line -> LineState]
      BY <2>0, <2>6 DEF WriteHitSend, TypeOK, LineState
    <3>2. older' \subseteq Line \X Line
      BY <2>0, <2>6, StampType DEF WriteHitSend, TypeOK
    <3>3. QED BY <2>5, <2>6, <3>1, <3>2 DEF WriteHitSend
  <2>7. ASSUME NEW b \in Block, NEW l \in Line, NEW st \in MissStatus,
               WriteMissNoAllocate(b, st, l)
        PROVE  Core'
    BY <2>0, <2>5, <2>7 DEF WriteMissNoAllocate, TypeOK
  <2>8. ASSUME NEW b \in Block, NEW l \in Line, NEW st \in MissStatus, NEW wb \in IdleFetch,
               ReadMiss(b, st, l, wb)
        PROVE  Core'
    <3>1. /\ port \in Fetch /\ wb \in Fetch /\ m_miss_queue \in Seq(Fetch)
          /\ mf \in [Fetch -> Request \cup {Idle}]
      BY <2>0, <2>8 DEF TypeOK, ReadMiss, PortRead, IdleFetch
    <3>2. PICK do \in {"merge", "send"} :
            /\ do = "send" <=> ~mshr_probe(b)
            /\ ReadyFor(port, wb, m_miss_queue, mf)
            /\ SendReadRequest(port, b, st, l, do, m_miss_queue, wb)
            /\ mf' = WithWriteBack(mf, st, l, wb) /\ port' = NoFetch
            /\ UNCHANGED <<m_current_response, below>>
      BY <2>8, ReadMissReady
    <3>3. QED BY <3>1, <3>2, SendKeepsCore
  <2>9. ASSUME NEW b \in Block, NEW l \in Line, NEW st \in MissStatus,
               NEW n \in IdleFetch, NEW wb \in IdleFetch, n # wb, WriteMissAllocate(b, st, l, n, wb)
        PROVE  Core'
    <3>1. PICK do \in {"merge", "send"}, q \in Seq(Fetch), reqs \in [Fetch -> Request \cup {Idle}] :
            /\ do = "send" <=> ~mshr_probe(b)
            /\ n \in Fetch /\ wb \in Fetch /\ ReadyFor(n, wb, q, reqs)
            /\ SendReadRequest(n, b, st, l, do, q, wb)
            /\ mf' = WithWriteBack(reqs, st, l, wb) /\ port' = NoFetch
            /\ UNCHANGED <<m_current_response, below>>
      BY <2>9, WriteMissReady
    <3>2. QED BY <3>1, SendKeepsCore
  <2>10. ASSUME Cycle PROVE Core'
    <3> DEFINE f == Head(m_miss_queue)
    <3>1. /\ m_miss_queue' = Tail(m_miss_queue) /\ below' = below \cup {f}
          /\ m_miss_queue \in Seq(Fetch) /\ m_miss_queue # <<>> /\ Distinct(m_miss_queue)
          /\ UNCHANGED <<tagVars, mshrVars, m_extra_mf_fields, mf, port>>
      BY <2>0, <2>10 DEF Cycle, TypeOK, TrackedOnce
    <3>2. /\ f \in Range(m_miss_queue) /\ f \in Fetch
          /\ m_miss_queue' \in Seq(Fetch) /\ Distinct(m_miss_queue')
          /\ Range(m_miss_queue') = Range(m_miss_queue) \ {f}
      BY <3>1, TailContents, SeqContents
    <3> HIDE DEF f
    <3>3. TypeOK'
      BY <2>0, <3>1, <3>2 DEF TypeOK
    <3>4. MshrConsistent'
      BY <2>0, <3>1 DEF MshrConsistent, Pending, waiting_for_fill, mshr_probe
    <3>5. TrackedOnce'
      BY <2>0, <3>1, <3>2 DEF TrackedOnce, Listed, InCache, waiting_for_fill
    <3>6. QED BY <3>3, <3>4, <3>5 DEF Core
  <2>11. ASSUME NEW f \in Fetch, WriteDone(f) PROVE Core'
    <3>1. TypeOK'
      BY <2>0, <2>11 DEF WriteDone, TypeOK
    <3>2. MshrConsistent'
      BY <2>0, <2>11 DEF WriteDone, MshrConsistent, Pending, waiting_for_fill, mshr_probe
    <3>3. f # port /\ f \notin Range(m_miss_queue) /\ \A b \in Block : ~Listed(f, b)
      BY <2>0, <2>11 DEF WriteDone, TrackedOnce, InCache
    <3>4. TrackedOnce'
      BY <2>0, <2>11, <3>3 DEF WriteDone, TypeOK, TrackedOnce, Listed, InCache, waiting_for_fill
    <3>5. QED BY <3>1, <3>2, <3>4 DEF Core
  <2>12. ASSUME NEW f \in Fetch, NEW l \in Line, Fill(f, l) PROVE Core'
    <3> DEFINE b == m_extra_mf_fields[f].m_block_addr
    <3>1. b \in Block /\ waiting_for_fill(f) /\ f \in below
      BY <2>0, <2>12, FieldsType DEF Fill
    <3>2. /\ m_current_response' = Append(m_current_response, b)
          /\ m_extra_mf_fields' = [m_extra_mf_fields EXCEPT ![f] = NoFields]
          /\ below' = below \ {f}
          /\ UNCHANGED <<m_data, m_miss_queue, mf, port>>
      BY <2>12 DEF Fill
    <3>3. m_lines' \in [Line -> LineState]
      <4>1. CASE AllocPolicy = "ON_MISS"
        <5>1. PICK s \in {"MODIFIED", "VALID"} : m_lines' = [m_lines EXCEPT ![l].status = s]
          BY <2>12, <4>1 DEF Fill
        <5>2. QED BY <2>0, <5>1 DEF TypeOK, LineState
      <4>2. CASE AllocPolicy # "ON_MISS"
        <5>1. m_lines' = [m_lines EXCEPT ![l] = [status |-> "VALID", block |-> b]]
          BY <2>12, <4>2 DEF Fill
        <5> HIDE DEF b
        <5>2. QED BY <2>0, <3>1, <5>1 DEF TypeOK, LineState
      <4>3. QED BY <4>1, <4>2
    <3>4. older' \subseteq Line \X Line
      BY <2>0, <2>12, StampType DEF Fill, TypeOK
    <3>5. Pending(b) = {f} /\ b \notin Range(m_current_response) /\ mshr_probe(b)
      BY <2>0, <3>1 DEF MshrConsistent, Pending
    <3>6. /\ m_current_response' \in Seq(Block) /\ Distinct(m_current_response')
          /\ Range(m_current_response') = Range(m_current_response) \cup {b}
      BY <2>0, <3>1, <3>2, <3>5, AppendContents, AppendDistinct DEF TypeOK, MshrConsistent
    <3>7. \A g \in Fetch : waiting_for_fill(g)' <=> waiting_for_fill(g) /\ g # f
      BY <2>0, <3>2 DEF TypeOK, waiting_for_fill, NoFields
    <3>8. TypeOK'
      BY <2>0, <3>2, <3>3, <3>4, <3>6 DEF TypeOK
    <3>9. MshrConsistent'
      <4>1. \A c \in Block : Pending(c)' = Pending(c) \ {f}
        BY <2>0, <3>2, <3>7 DEF Pending, TypeOK
      <4>2. \A c \in Block \ {b} : f \notin Pending(c)
        BY DEF Pending
      <4>3. \A c \in Block : mshr_probe(c)' <=> mshr_probe(c)
        BY <3>2 DEF mshr_probe
      <4> HIDE DEF b
      <4>4. QED BY <2>0, <3>1, <3>5, <3>6, <4>1, <4>2, <4>3 DEF MshrConsistent
    <3>10. TrackedOnce'
      <4>1. Listed(f, b)
        BY <2>0, <3>1 DEF TrackedOnce
      <4>2. InCache(f) /\ mf[f].type \in ReadType /\ f \notin Range(m_miss_queue)
        BY <2>0, <3>1, <4>1 DEF TrackedOnce
      <4>3. \A g \in Fetch \ {f} : m_extra_mf_fields'[g] = m_extra_mf_fields[g]
        BY <2>0, <3>2 DEF TypeOK
      <4>4. QED BY <2>0, <3>2, <3>7, <4>2, <4>3 DEF TrackedOnce, Listed, InCache
    <3>11. QED BY <3>8, <3>9, <3>10 DEF Core
  <2>13. ASSUME NextAccess PROVE Core'
    <3> DEFINE b == Head(m_current_response)
               d == m_data[b]
               f == Head(d)
    <3>1. /\ m_current_response \in Seq(Block) /\ m_current_response # <<>>
          /\ Distinct(m_current_response)
      BY <2>0, <2>13 DEF NextAccess, TypeOK, MshrConsistent
    <3>2. /\ b \in Range(m_current_response) /\ b \in Block
          /\ Tail(m_current_response) \in Seq(Block) /\ Distinct(Tail(m_current_response))
          /\ Range(Tail(m_current_response)) = Range(m_current_response) \ {b}
      BY <3>1, TailContents, SeqContents
    <3> HIDE DEF b
    <3>3. d \in Seq(Fetch) /\ d # <<>> /\ Distinct(d) /\ Pending(b) = {}
      BY <2>0, <3>2 DEF TypeOK, MshrConsistent, TrackedOnce, mshr_probe
    <3>4. /\ f \in Range(d) /\ f \in Fetch /\ Tail(d) \in Seq(Fetch) /\ Distinct(Tail(d))
          /\ Range(Tail(d)) = Range(d) \ {f}
          /\ Len(d) = 1 <=> Tail(d) = <<>>
      <4> HIDE DEF d
      <4>1. QED BY <3>3, TailContents, SeqContents
    <3>5. /\ m_data' = [m_data EXCEPT ![b] = Tail(d)]
          /\ m_current_response' = IF Len(d) = 1 THEN Tail(m_current_response)
                                                 ELSE m_current_response
          /\ mf' = [mf EXCEPT ![f] = Idle]
          /\ UNCHANGED <<tagVars, m_miss_queue, m_extra_mf_fields, port, below>>
      BY <2>13 DEF NextAccess, b
    <3>6. Listed(f, b) /\ InCache(f) /\ mf[f].type \in ReadType
      BY <2>0, <3>2, <3>4 DEF Listed, TrackedOnce
    <3>7. ~waiting_for_fill(f) /\ f \notin Range(m_miss_queue) \cup below
      <4>1. ~waiting_for_fill(f)
        BY <2>0, <3>2, <3>3, <3>4, <3>6, FieldsType DEF TrackedOnce, Pending
      <4>2. QED BY <2>0, <3>4, <3>6, <4>1 DEF TrackedOnce
    <3>8. \A c \in Block : /\ Range(m_data'[c]) = IF c = b THEN Range(m_data[c]) \ {f}
                                                         ELSE Range(m_data[c])
                           /\ Distinct(m_data'[c])
      BY <2>0, <3>2, <3>4, <3>5 DEF TypeOK, TrackedOnce
    <3>9. TypeOK'
      <4> HIDE DEF d, f
      <4>1. QED BY <2>0, <3>1, <3>2, <3>4, <3>5 DEF TypeOK
    <3>10. MshrConsistent'
      <4>1. \A c \in Block : Pending(c)' = Pending(c)
        BY <3>5 DEF Pending, waiting_for_fill
      <4>2. \A c \in Block : c # b => (mshr_probe(c)' <=> mshr_probe(c))
        BY <2>0, <3>5 DEF TypeOK, mshr_probe
      <4>3. \A c \in Block : c = b => (mshr_probe(c)' <=> Len(d) # 1)
        <5>1. m_data'[b] = Tail(d)
          BY <2>0, <3>2, <3>5 DEF TypeOK
        <5>2. QED BY <3>4, <5>1 DEF mshr_probe
      <4>4. mshr_probe(b)
        BY <3>3 DEF mshr_probe
      <4> HIDE DEF d, f
      <4>5. CASE Len(d) = 1
        BY <2>0, <3>2, <3>3, <3>5, <4>1, <4>2, <4>3, <4>5 DEF MshrConsistent
      <4>6. CASE Len(d) # 1
        BY <2>0, <3>1, <3>2, <3>3, <3>5, <4>1, <4>2, <4>3, <4>4, <4>6 DEF MshrConsistent
      <4>7. QED BY <4>5, <4>6
    <3>11. TrackedOnce'
      <4>1. \A g \in Fetch, c \in Block : Listed(g, c)' <=> Listed(g, c) /\ g # f
        BY <2>0, <3>2, <3>4, <3>6, <3>8 DEF Listed, TrackedOnce
      <4>2. \A g \in Fetch : InCache(g)' <=> InCache(g) /\ g # f
        BY <2>0, <3>4, <3>5 DEF InCache, TypeOK
      <4>3. \A g \in Fetch \ {f} : mf'[g] = mf[g]
        BY <2>0, <3>5 DEF TypeOK
      <4>4. f # port
        BY <3>6 DEF InCache
      <4> HIDE DEF d, f
      <4>5. QED BY <2>0, <3>4, <3>5, <3>6, <3>7, <3>8, <4>1, <4>2, <4>3, <4>4, FieldsType
                DEF TrackedOnce, waiting_for_fill, TypeOK
    <3>12. QED BY <3>9, <3>10, <3>11 DEF Core
  <2>14. ASSUME Flush PROVE Core'
    <3>1. m_lines' \in [Line -> LineState]
      BY <2>0, <2>14 DEF Flush, TypeOK, LineState
    <3>2. TypeOK'
      BY <2>0, <2>14, <3>1 DEF Flush, TypeOK
    <3>3. QED BY <2>14, <3>2, SameBookkeeping DEF Flush
  <2>15. CASE UNCHANGED vars
    <3>1. TypeOK'
      BY <2>0, <2>15 DEF vars, TypeOK
    <3>2. QED BY <2>15, <3>1, SameBookkeeping DEF vars
  <2>16. ASSUME NEW b \in Block, ReservationFail(b) PROVE Core'
    BY <2>15, <2>16 DEF ReservationFail
  <2>17. QED
    BY <2>1, <2>3, <2>4, <2>6, <2>7, <2>8, <2>9, <2>10, <2>11, <2>12, <2>13, <2>14, <2>15, <2>16
       DEF Next, Access
<1>3. QED BY <1>1, <1>2, PTL DEF Spec

\* Line indices, block addresses and fetch objects stay in range in every
\* reachable state of every configuration.
THEOREM TypeCorrect == Spec => []TypeOK
BY CoreCorrect, PTL DEF Core

\* Every answer of the lower level finds the MSHR entry of its request, and no
\* entry is both waiting and being drained.
THEOREM MshrCorrect == Spec => []MshrConsistent
BY CoreCorrect, PTL DEF Core

\* No access is lost, doubled or half accepted by the handlers of a cache.
THEOREM TrackingCorrect == Spec => []TrackedOnce
BY CoreCorrect, PTL DEF Core

-----------------------------------------------------------------------------
(* The tag array *)

\* What a probe tells about the line it returns.
LEMMA ProbeLine ==
  ASSUME TypeOK, NEW b \in Block, NEW l \in Line, NEW st, probe(b, st, l)
  PROVE  /\ l \in LinesOf(b)
         /\ st = "MISS" => Holding(b) = {} /\ m_lines[l].status # "RESERVED"
         /\ st = "HIT_RESERVED" => m_lines[l] = [status |-> "RESERVED", block |-> b]
         /\ st = "HIT" => /\ m_lines[l].status \in {"VALID", "MODIFIED"}
                          /\ m_lines[l].block = b
<1>1. m_lines[l] \in LineState
  BY DEF TypeOK
<1>2. CASE l \in FirstHolding(b) /\ st = IF m_lines[l].status = "RESERVED" THEN "HIT_RESERVED" ELSE "HIT"
  BY <1>1, <1>2 DEF FirstHolding, Holding, LineState
<1>3. CASE Holding(b) = {} /\ l \in Replaceable(b) /\ st = "MISS"
  BY <1>3 DEF Replaceable
<1>4. QED BY <1>2, <1>3 DEF probe

\* A line probe() offers for replacement is in the block's set and not reserved.
LEMMA VictimLine ==
  ASSUME NEW b \in Block, NEW l \in Replaceable(b)
  PROVE  l \in LinesOf(b) /\ m_lines[l].status # "RESERVED"
BY DEF Replaceable

\* What the other invariants rest on: a cache that allocates on fill reserves
\* no line, only a write-allocate makes reads of its own, and a read-only cache
\* holds nothing dirty.
PolicyRespected ==
  /\ AllocPolicy = "ON_FILL" => \A l \in Line : m_lines[l].status # "RESERVED"
  /\ \A f \in Fetch : mf[f] # Idle =>
       \/ mf[f].type \in AccessTypes
       \/ mf[f].type = "WR_ALLOC_R" /\ WriteAllocate /\ "WRITE" \in AccessTypes
       \/ mf[f].type = "WRBK" /\ WritePolicy # "READ_ONLY"
  /\ WritePolicy = "READ_ONLY" => \A l \in Line : m_lines[l].status # "MODIFIED"

\* The part of PolicyRespected that is about the lines, and the part about requests.
LinesRespect == /\ AllocPolicy = "ON_FILL" => \A l \in Line : m_lines[l].status # "RESERVED"
                /\ WritePolicy = "READ_ONLY" => \A l \in Line : m_lines[l].status # "MODIFIED"
RequestsRespect == \A f \in Fetch : mf[f] # Idle =>
                     \/ mf[f].type \in AccessTypes
                     \/ mf[f].type = "WR_ALLOC_R" /\ WriteAllocate /\ "WRITE" \in AccessTypes
                     \/ mf[f].type = "WRBK" /\ WritePolicy # "READ_ONLY"

\* A miss handler respects the policies: it reserves only on a miss, and it
\* creates a write-back only for a line that was modified.
LEMMA MissRespects ==
  ASSUME TypeOK, LinesRespect, NEW b \in Block, NEW l \in Line, NEW st, NEW wb \in Fetch,
         NEW reqs \in [Fetch -> Request \cup {Idle}],
         TagAccess(b, st, l), mf' = WithWriteBack(reqs, st, l, wb),
         \A f \in Fetch : reqs[f] # Idle =>
           \/ reqs[f].type \in AccessTypes
           \/ reqs[f].type = "WR_ALLOC_R" /\ WriteAllocate /\ "WRITE" \in AccessTypes
           \/ reqs[f].type = "WRBK" /\ WritePolicy # "READ_ONLY"
  PROVE  LinesRespect' /\ RequestsRespect'
<1>1. LinesRespect'
  <2>1. CASE m_lines' = m_lines
    BY <2>1 DEF LinesRespect
  <2>2. CASE /\ AllocPolicy = "ON_MISS"
             /\ m_lines' = [m_lines EXCEPT ![l] = [status |-> "RESERVED", block |-> b]]
    <3>1. \A k \in Line : m_lines'[k].status \in {m_lines[k].status, "RESERVED"}
      BY <2>2 DEF TypeOK
    <3>2. QED BY <2>2, <3>1 DEF LinesRespect
  <2>3. QED BY <2>1, <2>2 DEF TagAccess, tagVars
<1>2. RequestsRespect'
  <2>1. CASE Dirty(st, l)
    <3>1. WritePolicy # "READ_ONLY"
      BY <2>1 DEF Dirty, LinesRespect
    <3>2. QED BY <2>1, <3>1 DEF WithWriteBack, RequestsRespect
  <2>2. CASE ~Dirty(st, l)
    BY <2>2 DEF WithWriteBack, RequestsRespect
  <2>3. QED BY <2>1, <2>2
<1>3. QED BY <1>1, <1>2

\* A cache keeps to its configuration: allocate-on-fill caches reserve nothing,
\* only write-allocates make reads of their own, read-only caches stay clean.
THEOREM PolicyCorrect == Spec => []PolicyRespected
<1>1. Init => LinesRespect /\ RequestsRespect
  BY DEF Init, LinesRespect, RequestsRespect
<1>2. Core /\ LinesRespect /\ RequestsRespect /\ [Next]_vars => (LinesRespect /\ RequestsRespect)'
  <2> SUFFICES ASSUME Core, LinesRespect, RequestsRespect, [Next]_vars
               PROVE  LinesRespect' /\ RequestsRespect'
    OBVIOUS
  <2> USE DEF tagVars, mshrVars
  <2>0. TypeOK /\ TrackedOnce
    BY DEF Core
  <2>1. ASSUME NEW f \in Fetch, NEW t \in AccessTypes, NEW b \in Block, Offer(f, t, b)
        PROVE  LinesRespect' /\ RequestsRespect'
    BY <2>0, <2>1 DEF Offer, TypeOK, LinesRespect, RequestsRespect
  <2>2. ASSUME NEW b \in Block, NEW l \in Line, ReadHit(b, l)
        PROVE  LinesRespect' /\ RequestsRespect'
    <3>1. mf[port].type = "ATOMIC" => WritePolicy # "READ_ONLY"
      BY <2>0, <2>2, ConfigAssumption DEF ReadHit, PortRead, TrackedOnce
    <3>2. LinesRespect'
      BY <2>0, <2>2, <3>1 DEF ReadHit, TypeOK, LineState, LinesRespect
    <3>3. RequestsRespect'
      BY <2>0, <2>2 DEF ReadHit, TypeOK, RequestsRespect
    <3>4. QED BY <3>2, <3>3
  <2>3. ASSUME NEW b \in Block, PortWrite(b) PROVE WritePolicy # "READ_ONLY" /\ "WRITE" \in AccessTypes
    BY <2>0, <2>3, ConfigAssumption DEF PortWrite, TrackedOnce
  <2>4. ASSUME NEW b \in Block, NEW l \in Line, WriteHitKeep(b, l)
        PROVE  LinesRespect' /\ RequestsRespect'
    <3>1. WritePolicy # "READ_ONLY"
      BY <2>3, <2>4 DEF WriteHitKeep
    <3>2. LinesRespect'
      BY <2>0, <2>4, <3>1 DEF WriteHitKeep, TypeOK, LineState, LinesRespect
    <3>3. RequestsRespect'
      BY <2>0, <2>4 DEF WriteHitKeep, TypeOK, RequestsRespect
    <3>4. QED BY <3>2, <3>3
  <2>5. ASSUME NEW b \in Block, NEW l \in Line, WriteHitSend(b, l)
        PROVE  LinesRespect' /\ RequestsRespect'
    <3>1. WritePolicy # "READ_ONLY"
      BY <2>3, <2>5 DEF WriteHitSend
    <3>2. PICK s \in {"INVALID", "MODIFIED"} : m_lines' = [m_lines EXCEPT ![l].status = s]
      BY <2>5 DEF WriteHitSend
    <3>3. LinesRespect'
      BY <2>0, <3>1, <3>2 DEF TypeOK, LineState, LinesRespect
    <3>4. RequestsRespect'
      BY <2>5 DEF WriteHitSend, RequestsRespect
    <3>5. QED BY <3>3, <3>4
  <2>6. ASSUME NEW b \in Block, NEW l \in Line, NEW st \in MissStatus, WriteMissNoAllocate(b, st, l)
        PROVE  LinesRespect' /\ RequestsRespect'
    BY <2>6 DEF WriteMissNoAllocate, LinesRespect, RequestsRespect
  <2>7. ASSUME NEW b \in Block, NEW l \in Line, NEW st \in MissStatus, NEW wb \in IdleFetch,
               ReadMiss(b, st, l, wb)
        PROVE  LinesRespect' /\ RequestsRespect'
    <3>1. /\ TagAccess(b, st, l) /\ mf' = WithWriteBack(mf, st, l, wb) /\ wb \in Fetch
          /\ mf \in [Fetch -> Request \cup {Idle}]
      BY <2>0, <2>7 DEF ReadMiss, SendReadRequest, IdleFetch, TypeOK
    <3>2. QED BY <2>0, <3>1, MissRespects DEF RequestsRespect
  <2>8. ASSUME NEW b \in Block, NEW l \in Line, NEW st \in MissStatus,
               NEW n \in IdleFetch, NEW wb \in IdleFetch, WriteMissAllocate(b, st, l, n, wb)
        PROVE  LinesRespect' /\ RequestsRespect'
    <3> DEFINE r == [type |-> "WR_ALLOC_R", block |-> b]
               reqs == [mf EXCEPT ![n] = r]
    <3>1. WriteAllocate /\ "WRITE" \in AccessTypes
      BY <2>3, <2>8 DEF WriteMissAllocate
    <3>2. n \in Fetch /\ wb \in Fetch /\ r \in Request
      BY DEF IdleFetch, Request, Type
    <3>3. reqs \in [Fetch -> Request \cup {Idle}]
      BY <2>0, <3>2 DEF TypeOK
    <3>4. \A f \in Fetch : reqs[f] # Idle =>
            \/ reqs[f].type \in AccessTypes
            \/ reqs[f].type = "WR_ALLOC_R" /\ WriteAllocate /\ "WRITE" \in AccessTypes
            \/ reqs[f].type = "WRBK" /\ WritePolicy # "READ_ONLY"
      BY <2>0, <3>1, <3>2 DEF TypeOK, RequestsRespect
    <3>5. \/ TagAccess(b, st, l) /\ mf' = WithWriteBack(reqs, st, l, wb)
          \/ UNCHANGED <<m_lines, mf>>
      BY <2>8 DEF WriteMissAllocate, SendReadRequest
    <3> HIDE DEF reqs
    <3>6. QED BY <2>0, <3>2, <3>3, <3>4, <3>5, MissRespects DEF LinesRespect, RequestsRespect
  <2>9. ASSUME Cycle PROVE LinesRespect' /\ RequestsRespect'
    BY <2>9 DEF Cycle, LinesRespect, RequestsRespect
  <2>10. ASSUME NEW f \in Fetch, WriteDone(f) PROVE LinesRespect' /\ RequestsRespect'
    BY <2>0, <2>10 DEF WriteDone, TypeOK, LinesRespect, RequestsRespect
  <2>11. ASSUME NEW f \in Fetch, NEW l \in Line, Fill(f, l) PROVE LinesRespect' /\ RequestsRespect'
    <3> DEFINE b == m_extra_mf_fields[f].m_block_addr
    <3>1. b \in Block
      BY <2>0, <2>11, FieldsType DEF Fill
    <3>2. HasAtomic(b) => WritePolicy # "READ_ONLY"
      <4>1. ASSUME NEW g \in Range(m_data[b]), mf[g].type = "ATOMIC"
            PROVE  WritePolicy # "READ_ONLY"
        <5>1. g \in Fetch /\ mf[g] # Idle
          BY <2>0, <3>1, ProbeListed DEF TrackedOnce, Listed, InCache
        <5>2. QED BY <4>1, <5>1, ConfigAssumption DEF RequestsRespect
      <4>2. QED BY <4>1 DEF HasAtomic
    <3>3. \/ m_lines' = [m_lines EXCEPT ![l].status = "VALID"]
          \/ m_lines' = [m_lines EXCEPT ![l] = [status |-> "VALID", block |-> b]]
          \/ HasAtomic(b) /\ m_lines' = [m_lines EXCEPT ![l].status = "MODIFIED"]
      BY <2>11 DEF Fill
    <3> HIDE DEF b
    <3>4. \A k \in Line : \/ m_lines'[k].status \in {m_lines[k].status, "VALID"}
                          \/ m_lines'[k].status = "MODIFIED" /\ WritePolicy # "READ_ONLY"
      <4>1. CASE m_lines' = [m_lines EXCEPT ![l].status = "VALID"]
        BY <2>0, <4>1 DEF TypeOK, LineState
      <4>2. CASE m_lines' = [m_lines EXCEPT ![l] = [status |-> "VALID", block |-> b]]
        BY <2>0, <4>2 DEF TypeOK
      <4>3. CASE HasAtomic(b) /\ m_lines' = [m_lines EXCEPT ![l].status = "MODIFIED"]
        BY <2>0, <3>2, <4>3 DEF TypeOK, LineState
      <4>4. QED BY <3>3, <4>1, <4>2, <4>3
    <3>5. LinesRespect'
      BY <3>4 DEF LinesRespect
    <3>6. QED BY <2>11, <3>5 DEF Fill, RequestsRespect
  <2>12. ASSUME NextAccess PROVE LinesRespect' /\ RequestsRespect'
    BY <2>0, <2>12 DEF NextAccess, TypeOK, LinesRespect, RequestsRespect
  <2>13. ASSUME Flush PROVE LinesRespect' /\ RequestsRespect'
    BY <2>0, <2>13 DEF Flush, TypeOK, LineState, LinesRespect, RequestsRespect
  <2>14. CASE UNCHANGED vars
    BY <2>14 DEF vars, LinesRespect, RequestsRespect
  <2>15. ASSUME NEW b \in Block, ReservationFail(b) PROVE LinesRespect' /\ RequestsRespect'
    BY <2>14, <2>15 DEF ReservationFail
  <2>16. QED
    BY <2>1, <2>2, <2>4, <2>5, <2>6, <2>7, <2>8, <2>9, <2>10, <2>11, <2>12, <2>13, <2>14, <2>15
       DEF Next, Access
<1>3. LinesRespect /\ RequestsRespect => PolicyRespected
  BY DEF LinesRespect, RequestsRespect, PolicyRespected
<1>4. QED BY <1>1, <1>2, <1>3, CoreCorrect, PTL DEF Spec

\* The tags are flushed only when no request waits for its fill, or the lines
\* are allocated when the answer arrives.
FlushIsSafe == \/ AllocPolicy = "ON_FILL"
               \/ FlushMode = "none"
               \/ FlushMode = "kernel_end" /\ ~WriteAllocate

\* FillTarget, for one request
Target(f) == LET e == m_extra_mf_fields[f]
             IN  IF AllocPolicy = "ON_MISS"
                   THEN m_lines[e.m_cache_index] = [status |-> "RESERVED", block |-> e.m_block_addr]
                   ELSE Holding(e.m_block_addr) = {}

\* Changing one line, which was or becomes invalid or keeps its block, or whose
\* new block no line of its set holds, leaves at most one line for each block.
LEMMA OneLineUnique ==
  ASSUME TypeOK, UniqueTags, NEW l \in Line, NEW b \in Block, NEW s,
         m_lines' = [m_lines EXCEPT ![l] = [status |-> s, block |-> b]],
         \/ s = "INVALID"
         \/ m_lines[l].status # "INVALID" /\ m_lines[l].block = b
         \/ Holding(b) = {} /\ l \in LinesOf(b)
  PROVE  UniqueTags'
<1>1. /\ m_lines'[l] = [status |-> s, block |-> b]
      /\ \A k \in Line \ {l} : m_lines'[k] = m_lines[k]
  BY DEF TypeOK
<1>2. s = "INVALID" \/ \A k \in Line \ {l} :
                          k[1] = l[1] /\ m_lines[k].status # "INVALID" => m_lines[k].block # b
  BY DEF UniqueTags, Holding, LinesOf
<1>3. QED BY <1>1, <1>2 DEF UniqueTags

\* Changing a line that is not reserved, without giving it a block some request
\* waits for, disturbs no request.
LEMMA OneLineTargets ==
  ASSUME TypeOK, NEW l \in Line, NEW b \in Block, NEW s,
         m_lines' = [m_lines EXCEPT ![l] = [status |-> s, block |-> b]],
         m_lines[l].status # "RESERVED",
         NEW f \in Fetch, waiting_for_fill(f), Target(f),
         m_extra_mf_fields'[f] = m_extra_mf_fields[f],
         \/ AllocPolicy = "ON_MISS"
         \/ s = "INVALID"
         \/ m_lines[l].status # "INVALID" /\ m_lines[l].block = b
         \/ m_extra_mf_fields[f].m_block_addr # b
  PROVE  Target(f)'
<1> DEFINE e == m_extra_mf_fields[f]
<1>1. /\ m_lines'[l] = [status |-> s, block |-> b]
      /\ \A k \in Line \ {l} : m_lines'[k] = m_lines[k]
  BY DEF TypeOK
<1>2. e.m_block_addr \in Block /\ e.m_cache_index \in Line /\ m_extra_mf_fields'[f] = e
  BY FieldsType
<1> HIDE DEF e
<1>3. CASE AllocPolicy = "ON_MISS"
  BY <1>1, <1>2, <1>3 DEF Target, e
<1>4. CASE AllocPolicy # "ON_MISS"
  <2>1. Holding(e.m_block_addr) = {}
    BY <1>4 DEF Target, e
  <2>2. \A c \in Block : c = e.m_block_addr => Holding(c)' = {}
    BY <1>1, <1>2, <1>4, <2>1, ConfigAssumption DEF Holding, LinesOf, e
  <2>3. QED BY <1>2, <1>4, <2>2 DEF Target
<1>5. QED BY <1>3, <1>4

Tags == UniqueTags /\ FillTarget

LEMMA FillTargetByFetch == FillTarget <=> \A f \in Fetch : waiting_for_fill(f) => Target(f)
BY DEF FillTarget, Target

\* Setting the status field of a line keeps its block.
LEMMA StatusUpdate ==
  ASSUME TypeOK, NEW l \in Line, NEW s, m_lines' = [m_lines EXCEPT ![l].status = s]
  PROVE  /\ m_lines[l].block \in Block
         /\ m_lines' = [m_lines EXCEPT ![l] = [status |-> s, block |-> m_lines[l].block]]
<1>1. m_lines[l] \in LineState
  BY DEF TypeOK
<1>2. [m_lines[l] EXCEPT !.status = s] = [status |-> s, block |-> m_lines[l].block]
  BY <1>1 DEF LineState
<1>3. QED BY <1>1, <1>2 DEF LineState

\* A hit changes the state of a line that is filled, and nothing else.
LEMMA HitKeepsTags ==
  ASSUME TypeOK, Tags, NEW b \in Block, NEW l \in Line, NEW s, probe(b, "HIT", l),
         m_lines' = [m_lines EXCEPT ![l].status = s], UNCHANGED m_extra_mf_fields
  PROVE  Tags'
<1>1. m_lines[l].status # "INVALID" /\ m_lines[l].status # "RESERVED"
  BY ProbeLine
<1>2. PICK c \in Block : /\ m_lines[l].block = c
                         /\ m_lines' = [m_lines EXCEPT ![l] = [status |-> s, block |-> c]]
  BY StatusUpdate
<1>3. UniqueTags'
  <2>1. UniqueTags
    BY DEF Tags
  <2>2. \A k \in Line : /\ m_lines'[k].block = m_lines[k].block
                        /\ m_lines'[k].status # "INVALID" => m_lines[k].status # "INVALID"
    <3>1. /\ m_lines'[l] = [status |-> s, block |-> c]
          /\ \A k \in Line \ {l} : m_lines'[k] = m_lines[k]
      BY <1>2 DEF TypeOK
    <3>2. QED BY <1>1, <1>2, <3>1
  <2>3. QED BY <2>1, <2>2 DEF UniqueTags
<1>4. ASSUME NEW f \in Fetch, waiting_for_fill(f) PROVE Target(f)'
  <2>1. Target(f) /\ m_extra_mf_fields'[f] = m_extra_mf_fields[f]
    BY <1>4, FillTargetByFetch DEF Tags
  <2>2. QED BY <1>1, <1>2, <1>4, <2>1, OneLineTargets
<1>5. FillTarget'
  <2>1. \A f \in Fetch : waiting_for_fill(f)' => Target(f)'
    BY <1>4 DEF waiting_for_fill
  <2>2. QED BY <2>1 DEF FillTarget, Target
<1>6. QED BY <1>3, <1>5 DEF Tags

\* A miss handler reserves a line for the request it sends, and takes no line
\* that another request is going to fill.
LEMMA MissKeepsTags ==
  ASSUME Core, LinesRespect, Tags, NEW b \in Block, NEW l \in Line, NEW st \in MissStatus, NEW do,
         NEW f \in Fetch, NEW wb, NEW q, probe(b, st, l), Untracked(f),
         SendReadRequest(f, b, st, l, do, q, wb)
  PROVE  Tags'
<1> DEFINE fl == [m_valid |-> TRUE, m_block_addr |-> b, m_cache_index |-> l]
<1>0. TypeOK /\ UniqueTags /\ FillTarget
  BY DEF Core, Tags
<1>1. /\ TagAccess(b, st, l)
      /\ m_extra_mf_fields' = IF do = "send" THEN [m_extra_mf_fields EXCEPT ![f] = fl]
                                             ELSE m_extra_mf_fields
  BY DEF SendReadRequest
<1>2. /\ l \in LinesOf(b)
      /\ st = "MISS" => Holding(b) = {} /\ m_lines[l].status # "RESERVED"
      /\ st = "HIT_RESERVED" => m_lines[l] = [status |-> "RESERVED", block |-> b]
  BY <1>0, ProbeLine
<1>3. /\ \A g \in Fetch \ {f} : m_extra_mf_fields'[g] = m_extra_mf_fields[g]
      /\ do = "send" => m_extra_mf_fields'[f] = fl
      /\ do # "send" => m_extra_mf_fields'[f] = m_extra_mf_fields[f]
  BY <1>0, <1>1 DEF TypeOK
<1>4. \A g \in Fetch : waiting_for_fill(g)' => waiting_for_fill(g) \/ (g = f /\ do = "send")
  BY <1>3 DEF waiting_for_fill
<1> HIDE DEF fl
<1>5. CASE st = "MISS" /\ AllocPolicy = "ON_MISS"
  <2>1. m_lines' = [m_lines EXCEPT ![l] = [status |-> "RESERVED", block |-> b]]
    BY <1>1, <1>5 DEF TagAccess
  <2>2. UniqueTags'
    BY <1>0, <1>2, <1>5, <2>1, OneLineUnique
  <2>3. ASSUME NEW g \in Fetch, waiting_for_fill(g)' PROVE Target(g)'
    <3>1. CASE g = f /\ do = "send"
      <4>1. m_lines'[l] = [status |-> "RESERVED", block |-> b]
        BY <1>0, <2>1 DEF TypeOK
      <4>2. QED BY <1>3, <1>5, <3>1, <4>1 DEF Target, fl
    <3>2. CASE ~(g = f /\ do = "send")
      <4>1. waiting_for_fill(g) /\ Target(g) /\ m_extra_mf_fields'[g] = m_extra_mf_fields[g]
        BY <1>0, <1>3, <1>4, <2>3, <3>2, FillTargetByFetch DEF Untracked
      <4>2. QED BY <1>0, <1>2, <1>5, <2>1, <4>1, OneLineTargets
    <3>3. QED BY <3>1, <3>2
  <2>4. FillTarget'
    BY <2>3 DEF FillTarget, Target
  <2>5. QED BY <2>2, <2>4 DEF Tags
<1>6. CASE ~(st = "MISS" /\ AllocPolicy = "ON_MISS")
  <2>1. m_lines' = m_lines
    BY <1>1, <1>6 DEF TagAccess, tagVars
  <2>2. UniqueTags'
    BY <1>0, <2>1 DEF UniqueTags
  <2>3. ASSUME NEW g \in Fetch, waiting_for_fill(g)' PROVE Target(g)'
    <3>1. CASE g = f /\ do = "send"
      <4>1. m_extra_mf_fields'[g].m_block_addr = b /\ m_extra_mf_fields'[g].m_cache_index = l
        BY <1>3, <3>1 DEF fl
      <4>2. CASE st = "MISS"
        <5>1. AllocPolicy # "ON_MISS" /\ Holding(b) = {}
          BY <1>2, <1>6, <4>2
        <5>2. \A c \in Block : c = b => Holding(c)' = {}
          BY <2>1, <5>1 DEF Holding, LinesOf
        <5>3. QED BY <4>1, <5>1, <5>2 DEF Target
      <4>3. CASE st = "HIT_RESERVED"
        <5>1. AllocPolicy = "ON_MISS"
          BY <1>2, <4>3, ConfigAssumption DEF LinesRespect
        <5>2. QED BY <1>2, <2>1, <4>1, <4>3, <5>1 DEF Target
      <4>4. QED BY <4>2, <4>3 DEF MissStatus
    <3>2. CASE ~(g = f /\ do = "send")
      <4>1. waiting_for_fill(g) /\ Target(g) /\ m_extra_mf_fields'[g] = m_extra_mf_fields[g]
        BY <1>0, <1>3, <1>4, <2>3, <3>2, FillTargetByFetch DEF Untracked
      <4>2. QED BY <2>1, <4>1 DEF Target, Holding, LinesOf
    <3>3. QED BY <3>1, <3>2
  <2>4. FillTarget'
    BY <2>3 DEF FillTarget, Target
  <2>5. QED BY <2>2, <2>4 DEF Tags
<1>7. QED BY <1>5, <1>6

\* Under every policy and size, as long as flushes are safe: no block is held by
\* two lines, and every answer finds the line that was reserved for it (or, when
\* lines are allocated on fill, its block still absent).
THEOREM TagsCorrect == ASSUME FlushIsSafe PROVE Spec => [](UniqueTags /\ FillTarget)
<1>1. Init => Tags
  BY DEF Init, Tags, UniqueTags, FillTarget, waiting_for_fill, NoFields
<1>2. Core /\ LinesRespect /\ PolicyRespected /\ Tags /\ [Next]_vars => Tags'
  <2> SUFFICES ASSUME Core, LinesRespect, PolicyRespected, Tags, [Next]_vars PROVE Tags'
    OBVIOUS
  <2> USE DEF tagVars, mshrVars
  <2>0. TypeOK /\ TrackedOnce /\ MshrConsistent /\ UniqueTags /\ FillTarget
    BY DEF Core, Tags
  <2>1. ASSUME UNCHANGED <<m_lines, m_extra_mf_fields>> PROVE Tags'
    BY <2>1 DEF Tags, UniqueTags, FillTarget, waiting_for_fill, Holding, LinesOf
  <2>2. ASSUME NEW f \in Fetch, NEW t \in AccessTypes, NEW b \in Block, Offer(f, t, b) PROVE Tags'
    BY <2>1, <2>2 DEF Offer
  <2>3. ASSUME NEW b \in Block, NEW l \in Line, ReadHit(b, l) PROVE Tags'
    <3>1. \/ m_lines' = [m_lines EXCEPT ![l].status = "MODIFIED"]
          \/ m_lines' = m_lines
      BY <2>3 DEF ReadHit
    <3>2. probe(b, "HIT", l) /\ UNCHANGED m_extra_mf_fields
      BY <2>3 DEF ReadHit
    <3>3. QED BY <2>0, <2>1, <3>1, <3>2, HitKeepsTags
  <2>4. ASSUME NEW b \in Block, NEW l \in Line, WriteHitKeep(b, l) PROVE Tags'
    BY <2>0, <2>4, HitKeepsTags DEF WriteHitKeep
  <2>5. ASSUME NEW b \in Block, NEW l \in Line, WriteHitSend(b, l) PROVE Tags'
    <3>1. PICK s : m_lines' = [m_lines EXCEPT ![l].status = s]
      BY <2>5 DEF WriteHitSend
    <3>2. probe(b, "HIT", l) /\ UNCHANGED m_extra_mf_fields
      BY <2>5 DEF WriteHitSend
    <3>3. QED BY <2>0, <3>1, <3>2, HitKeepsTags
  <2>6. ASSUME NEW b \in Block, NEW l \in Line, NEW st \in MissStatus, WriteMissNoAllocate(b, st, l)
        PROVE  Tags'
    BY <2>1, <2>6 DEF WriteMissNoAllocate
  <2>7. ASSUME NEW b \in Block, NEW l \in Line, NEW st \in MissStatus, NEW wb \in IdleFetch,
               ReadMiss(b, st, l, wb)
        PROVE  Tags'
    <3>1. port \in Fetch /\ Untracked(port)
      BY <2>0, <2>7, OutsideUntracked DEF ReadMiss, PortRead, TypeOK
    <3>2. PICK do : SendReadRequest(port, b, st, l, do, m_miss_queue, wb)
      BY <2>7 DEF ReadMiss
    <3>3. probe(b, st, l)
      BY <2>7 DEF ReadMiss
    <3>4. QED BY <3>1, <3>2, <3>3, MissKeepsTags
  <2>8. ASSUME NEW b \in Block, NEW l \in Line, NEW st \in MissStatus,
               NEW n \in IdleFetch, NEW wb \in IdleFetch, WriteMissAllocate(b, st, l, n, wb)
        PROVE  Tags'
    <3>1. n \in Fetch /\ Untracked(n)
      BY OutsideUntracked DEF IdleFetch
    <3>2. probe(b, st, l)
      BY <2>8 DEF WriteMissAllocate
    <3>3. CASE UNCHANGED <<m_lines, m_extra_mf_fields>>
      BY <2>1, <3>3
    <3>4. CASE \E do, q : SendReadRequest(n, b, st, l, do, q, wb)
      BY <3>1, <3>2, <3>4, MissKeepsTags
    <3>5. QED BY <2>8, <3>3, <3>4 DEF WriteMissAllocate
  <2>9. ASSUME Cycle PROVE Tags'
    BY <2>1, <2>9 DEF Cycle
  <2>10. ASSUME NEW f \in Fetch, WriteDone(f) PROVE Tags'
    BY <2>1, <2>10 DEF WriteDone
  <2>11. ASSUME NEW f \in Fetch, NEW l \in Line, Fill(f, l) PROVE Tags'
    <3> DEFINE e == m_extra_mf_fields[f]
               b == e.m_block_addr
    <3>1. waiting_for_fill(f) /\ b \in Block /\ Target(f)
      BY <2>0, <2>11, FieldsType, FillTargetByFetch DEF Fill
    <3>2. m_extra_mf_fields' = [m_extra_mf_fields EXCEPT ![f] = NoFields]
      BY <2>11 DEF Fill
    <3>3. ASSUME NEW g \in Fetch, waiting_for_fill(g)'
          PROVE  /\ g # f /\ waiting_for_fill(g) /\ Target(g)
                 /\ m_extra_mf_fields'[g] = m_extra_mf_fields[g]
                 /\ m_extra_mf_fields[g].m_block_addr # b
      <4>1. g # f /\ waiting_for_fill(g) /\ m_extra_mf_fields'[g] = m_extra_mf_fields[g]
        BY <2>0, <3>2, <3>3 DEF TypeOK, waiting_for_fill, NoFields
      <4>2. m_extra_mf_fields[g].m_block_addr # b
        BY <2>0, <3>1, <4>1 DEF MshrConsistent, Pending
      <4>3. QED BY <2>0, <4>1, <4>2, FillTargetByFetch
    <3>4. CASE AllocPolicy = "ON_MISS"
      <4>1. l = e.m_cache_index /\ m_lines[l] = [status |-> "RESERVED", block |-> b]
        BY <2>11, <3>1, <3>4 DEF Fill, Target
      <4>2. PICK s : m_lines' = [m_lines EXCEPT ![l].status = s]
        BY <2>11, <3>4 DEF Fill
      <4> HIDE DEF b, e
      <4>3. m_lines[l].block = b /\ m_lines[l].status = "RESERVED"
        BY <4>1
      <4>4. m_lines' = [m_lines EXCEPT ![l] = [status |-> s, block |-> b]]
        <5>1. m_lines' = [m_lines EXCEPT ![l] = [status |-> s, block |-> m_lines[l].block]]
          BY <2>0, <4>2, StatusUpdate
        <5>2. QED BY <4>3, <5>1
      <4>5. UniqueTags'
        BY <2>0, <3>1, <4>3, <4>4, OneLineUnique
      <4>6. ASSUME NEW g \in Fetch, waiting_for_fill(g)' PROVE Target(g)'
        <5> DEFINE k == m_extra_mf_fields[g].m_cache_index
        <5>1. k \in Line /\ m_lines[k].block # b
          <6>1. waiting_for_fill(g) /\ Target(g) /\ m_extra_mf_fields[g].m_block_addr # b
            BY <3>3, <4>6
          <6>2. QED BY <2>0, <3>4, <6>1, FieldsType DEF Target
        <5>2. m_lines'[k] = m_lines[k]
          BY <2>0, <4>3, <4>4, <5>1 DEF TypeOK
        <5>3. QED BY <3>3, <3>4, <4>6, <5>2 DEF Target
      <4>7. FillTarget'
        BY <4>6 DEF FillTarget, Target
      <4>8. QED BY <4>5, <4>7 DEF Tags
    <3>5. CASE AllocPolicy # "ON_MISS"
      <4>1. l \in Replaceable(b) /\ m_lines' = [m_lines EXCEPT ![l] = [status |-> "VALID", block |-> b]]
        BY <2>11, <3>5 DEF Fill
      <4>2. Holding(b) = {}
        BY <3>1, <3>5 DEF Target
      <4> HIDE DEF b
      <4>3. l \in LinesOf(b) /\ m_lines[l].status # "RESERVED"
        BY <3>1, <4>1, VictimLine
      <4>4. UniqueTags'
        BY <2>0, <3>1, <4>1, <4>2, <4>3, OneLineUnique
      <4>5. ASSUME NEW g \in Fetch, waiting_for_fill(g)' PROVE Target(g)'
        BY <2>0, <3>1, <3>3, <4>1, <4>3, <4>5, OneLineTargets
      <4>6. FillTarget'
        BY <4>5 DEF FillTarget, Target
      <4>7. QED BY <4>4, <4>6 DEF Tags
    <3>6. QED BY <3>4, <3>5
  <2>12. ASSUME NextAccess PROVE Tags'
    BY <2>1, <2>12 DEF NextAccess
  <2>13. ASSUME Flush PROVE Tags'
    <3>1. /\ m_lines' = [l \in Line |-> [m_lines[l] EXCEPT !.status = "INVALID"]]
          /\ UNCHANGED m_extra_mf_fields
      BY <2>13 DEF Flush
    <3>2. \A l \in Line : m_lines'[l].status = "INVALID"
      BY <2>0, <3>1 DEF TypeOK, LineState
    <3>3. UniqueTags'
      BY <3>2 DEF UniqueTags
    <3>4. CASE AllocPolicy = "ON_FILL"
      <4>1. \A c : Holding(c)' = {}
        BY <3>2 DEF Holding, LinesOf
      <4>2. QED BY <3>3, <3>4, <4>1 DEF Tags, FillTarget
    <3>5. CASE AllocPolicy # "ON_FILL"
      <4>1. \A f \in Fetch : ~waiting_for_fill(f)
        <5>1. FlushMode = "kernel_end" /\ ~WriteAllocate
          BY <2>13, <3>5 DEF Flush, FlushIsSafe
        <5>2. ASSUME NEW f \in Fetch, waiting_for_fill(f) PROVE FALSE
          <6>1. mf[f] # Idle /\ mf[f].type \in ReadType
            BY <2>0, <5>2, FieldsType DEF TrackedOnce, InCache
          <6>2. mf[f].type \in {"WR_ALLOC_R", "WRBK"}
            BY <2>13, <5>1, <6>1 DEF Flush, IdleFetch
          <6>3. QED BY <5>1, <6>1, <6>2, ConfigAssumption DEF PolicyRespected, ReadType
        <5>3. QED BY <5>2
      <4>2. QED BY <3>1, <3>3, <4>1 DEF Tags, FillTarget, waiting_for_fill
    <3>6. QED BY <3>4, <3>5
  <2>14. CASE UNCHANGED vars
    BY <2>1, <2>14 DEF vars
  <2>15. ASSUME NEW b \in Block, ReservationFail(b) PROVE Tags'
    BY <2>14, <2>15 DEF ReservationFail
  <2>16. QED
    BY <2>2, <2>3, <2>4, <2>5, <2>6, <2>7, <2>8, <2>9, <2>10, <2>11, <2>12, <2>13, <2>14, <2>15
       DEF Next, Access
<1>3. PolicyRespected => LinesRespect
  BY DEF LinesRespect, PolicyRespected
<1>4. Spec => []Tags
  BY <1>1, <1>2, <1>3, CoreCorrect, PolicyCorrect, PTL DEF Spec
<1>5. QED BY <1>4, PTL DEF Tags

-----------------------------------------------------------------------------
(* Capacities *)

\* Every handler leaves room for what it queues: the read miss and the dirty
\* victim's write-back, or the write, the read and the write-back of a
\* write-allocate.
THEOREM MissQueueCorrect == Spec => []MissQueueBounded
<1>1. Init => MissQueueBounded
  BY SizeAssumption DEF Init, MissQueueBounded
<1>2. TypeOK /\ PolicyRespected /\ MissQueueBounded /\ [Next]_vars => MissQueueBounded'
  <2> SUFFICES ASSUME TypeOK, PolicyRespected, MissQueueBounded, [Next]_vars
               PROVE  MissQueueBounded'
    OBVIOUS
  <2> USE SizeAssumption DEF tagVars, mshrVars
  <2>0. /\ m_miss_queue \in Seq(Fetch) /\ Len(m_miss_queue) \in Nat
        /\ Len(m_miss_queue) <= MissQueueSize
    BY DEF TypeOK, MissQueueBounded
  <2>1. ASSUME UNCHANGED m_miss_queue PROVE MissQueueBounded'
    BY <2>1 DEF MissQueueBounded
  <2>2. ASSUME NEW b \in Block, PortWrite(b), ~miss_queue_full(0),
               m_miss_queue' = Append(m_miss_queue, port)
        PROVE  MissQueueBounded'
    <3>1. port \in Fetch
      BY <2>2 DEF PortWrite, TypeOK
    <3>2. Len(m_miss_queue') = Len(m_miss_queue) + 1
      BY <2>0, <2>2, <3>1, AppendContents
    <3>3. QED BY <2>0, <2>2, <3>2 DEF miss_queue_full, MissQueueBounded
  \* send_read_request queues one request, and a second for a dirty victim
  <2>3. ASSUME NEW f \in Fetch, NEW wb \in Fetch, NEW b, NEW st, NEW l, NEW do, NEW q \in Seq(Fetch),
               SendReadRequest(f, b, st, l, do, q, wb)
        PROVE  Len(m_miss_queue') <= Len(q) + (IF Dirty(st, l) THEN 2 ELSE 1)
    <3> DEFINE q2 == IF do = "send" THEN Append(q, f) ELSE q
    <3>1. q2 \in Seq(Fetch) /\ Len(q2) \in Nat /\ Len(q2) <= Len(q) + 1
      BY AppendContents
    <3>2. m_miss_queue' = IF Dirty(st, l) THEN Append(q2, wb) ELSE q2
      BY <2>3 DEF SendReadRequest
    <3> HIDE DEF q2
    <3>3. QED BY <3>1, <3>2, AppendContents
  <2>4. ASSUME NEW b \in Block, NEW l \in Line, NEW st \in MissStatus, NEW wb \in IdleFetch,
               ReadMiss(b, st, l, wb)
        PROVE  MissQueueBounded'
    <3>1. port \in Fetch /\ wb \in Fetch
      BY <2>4 DEF ReadMiss, PortRead, TypeOK, IdleFetch
    <3>2. Len(m_miss_queue') <= Len(m_miss_queue) + (IF Dirty(st, l) THEN 2 ELSE 1)
      BY <2>0, <2>3, <2>4, <3>1 DEF ReadMiss
    <3>3. WritePolicy = "READ_ONLY" => ~Dirty(st, l)
      BY DEF Dirty, PolicyRespected
    <3>4. Len(m_miss_queue) + (IF WritePolicy = "READ_ONLY" THEN 0 ELSE 1) < MissQueueSize
      BY <2>0, <2>4 DEF ReadMiss, miss_queue_full, ReadMissRoom
    <3>5. Len(m_miss_queue') \in Int
      <4>1. m_miss_queue' \in Seq(Fetch)
        BY <2>0, <2>4, <3>1, AppendContents DEF ReadMiss, SendReadRequest
      <4>2. QED BY <4>1
    <3>6. QED BY <2>0, <3>2, <3>3, <3>4, <3>5 DEF MissQueueBounded
  <2>5. ASSUME NEW b \in Block, NEW l \in Line, NEW st \in MissStatus,
               NEW n \in IdleFetch, NEW wb \in IdleFetch, WriteMissAllocate(b, st, l, n, wb)
        PROVE  MissQueueBounded'
    <3> DEFINE q1 == Append(m_miss_queue, port)
    <3>1. port \in Fetch /\ wb \in Fetch /\ n \in Fetch
      BY <2>5 DEF WriteMissAllocate, PortWrite, TypeOK, IdleFetch
    <3>2. q1 \in Seq(Fetch) /\ Len(q1) = Len(m_miss_queue) + 1
      BY <2>0, <3>1, AppendContents
    <3>3. Len(m_miss_queue) + 2 < MissQueueSize
      BY <2>0, <2>5 DEF WriteMissAllocate, WriteAllocateRoom, miss_queue_full
    <3>4. CASE m_miss_queue' = q1
      BY <2>0, <3>2, <3>3, <3>4 DEF MissQueueBounded
    <3>5. CASE \E do : SendReadRequest(n, b, st, l, do, q1, wb)
      <4> HIDE DEF q1
      <4>1. Len(m_miss_queue') <= Len(q1) + 2 /\ Len(m_miss_queue') \in Int
        <5>1. PICK do : SendReadRequest(n, b, st, l, do, q1, wb)
          BY <3>5
        <5>2. Len(m_miss_queue') <= Len(q1) + (IF Dirty(st, l) THEN 2 ELSE 1)
          BY <2>3, <3>1, <3>2, <5>1
        <5>3. m_miss_queue' \in Seq(Fetch)
          BY <3>1, <3>2, <5>1, AppendContents DEF SendReadRequest
        <5>4. Len(m_miss_queue') \in Int /\ Len(q1) \in Int
          BY <3>2, <5>3
        <5>5. QED BY <5>2, <5>4
      <4>2. QED BY <2>0, <3>2, <3>3, <4>1 DEF MissQueueBounded
    <3>6. QED BY <2>5, <3>4, <3>5 DEF WriteMissAllocate
  <2>6. ASSUME NEW b \in Block, NEW l \in Line, WriteHitSend(b, l) PROVE MissQueueBounded'
    BY <2>2, <2>6 DEF WriteHitSend
  <2>7. ASSUME NEW b \in Block, NEW l \in Line, NEW st \in MissStatus, WriteMissNoAllocate(b, st, l)
        PROVE  MissQueueBounded'
    BY <2>2, <2>7 DEF WriteMissNoAllocate
  <2>8. ASSUME Cycle PROVE MissQueueBounded'
    <3>1. m_miss_queue' = Tail(m_miss_queue) /\ m_miss_queue # <<>>
      BY <2>8 DEF Cycle
    <3>2. Len(m_miss_queue') = Len(m_miss_queue) - 1
      BY <2>0, <3>1
    <3>3. QED BY <2>0, <3>2 DEF MissQueueBounded
  <2>9. CASE UNCHANGED vars
    BY <2>1, <2>9 DEF vars
  <2>10. ASSUME NEW f \in Fetch, NEW t \in AccessTypes, NEW b \in Block, Offer(f, t, b)
         PROVE  MissQueueBounded'
    BY <2>1, <2>10 DEF Offer
  <2>11. ASSUME NEW b \in Block, NEW l \in Line, ReadHit(b, l) \/ WriteHitKeep(b, l)
         PROVE  MissQueueBounded'
    BY <2>1, <2>11 DEF ReadHit, WriteHitKeep
  <2>12. ASSUME NEW f \in Fetch, WriteDone(f) \/ \E l \in Line : Fill(f, l) PROVE MissQueueBounded'
    BY <2>1, <2>12 DEF WriteDone, Fill
  <2>13. ASSUME NextAccess \/ Flush PROVE MissQueueBounded'
    BY <2>1, <2>13 DEF NextAccess, Flush
  <2>14. ASSUME NEW b \in Block, ReservationFail(b) PROVE MissQueueBounded'
    BY <2>9, <2>14 DEF ReservationFail
  <2>15. QED
    BY <2>4, <2>5, <2>6, <2>7, <2>8, <2>9, <2>10, <2>11, <2>12, <2>13, <2>14 DEF Next, Access
<1>3. QED BY <1>1, <1>2, TypeCorrect, PolicyCorrect, PTL DEF Spec

\* The blocks that have an MSHR entry
Entries == {b \in Block : mshr_probe(b)}

\* No entry and no merge goes beyond the sizes of the MSHR table, so the
\* assertions in mshr_table::add never fail.
THEOREM MshrSizeCorrect == Spec => []MshrBounded
<1> USE SizeAssumption
<1>1. Init => MshrBounded
  <2> SUFFICES ASSUME Init PROVE MshrBounded
    OBVIOUS
  <2>1. Entries = {} /\ \A b \in Block : Len(m_data[b]) = 0
    BY DEF Init, Entries, mshr_probe
  <2>2. Cardinality(Entries) = 0
    BY <2>1, FS_EmptySet
  <2>3. QED BY <2>1, <2>2 DEF MshrBounded, Entries
<1>2. Core /\ MshrBounded /\ [Next]_vars => MshrBounded'
  <2> SUFFICES ASSUME Core, MshrBounded, [Next]_vars PROVE MshrBounded'
    OBVIOUS
  <2> USE DEF tagVars, mshrVars
  <2>0. /\ TypeOK /\ MshrConsistent /\ TrackedOnce /\ m_data \in [Block -> Seq(Fetch)]
        /\ Cardinality(Entries) <= MshrEntries /\ \A b \in Block : Len(m_data[b]) <= MaxMerged
    BY DEF Core, TypeOK, MshrBounded, Entries
  <2>1. IsFiniteSet(Entries) /\ Cardinality(Entries) \in Nat
    BY FS_Subset, FS_CardinalityType DEF Entries
  <2>2. ASSUME UNCHANGED m_data PROVE MshrBounded'
    BY <2>2 DEF MshrBounded, mshr_probe
  <2>3. ASSUME NEW b \in Block, NEW f \in Fetch, ~mshr_full(b),
               m_data' = [m_data EXCEPT ![b] = Append(@, f)]
        PROVE  MshrBounded'
    <3>1. Append(m_data[b], f) # <<>> /\ Len(Append(m_data[b], f)) = Len(m_data[b]) + 1
      BY <2>0, AppendContents
    <3>2. Entries' = Entries \cup {b}
      BY <2>0, <2>3, <3>1 DEF Entries, mshr_probe
    <3>3. Cardinality(Entries') <= MshrEntries
      <4>1. CASE mshr_probe(b)
        <5>1. Entries' = Entries
          BY <3>2, <4>1 DEF Entries
        <5>2. QED BY <2>0, <5>1
      <4>2. CASE ~mshr_probe(b)
        <5>1. b \notin Entries /\ ~(Cardinality(Entries) >= MshrEntries)
          BY <2>3, <4>2 DEF Entries, mshr_full
        <5>2. Cardinality(Entries') = Cardinality(Entries) + 1
          BY <2>1, <3>2, <5>1, FS_AddElement
        <5>3. QED BY <2>1, <5>1, <5>2
      <4>3. QED BY <4>1, <4>2
    <3>4. Len(m_data[b]) + 1 <= MaxMerged
      <4>1. Len(m_data[b]) \in Nat
        BY <2>0
      <4>2. CASE mshr_probe(b)
        BY <2>3, <4>1, <4>2 DEF mshr_full
      <4>3. CASE ~mshr_probe(b)
        BY <4>3 DEF mshr_probe
      <4>4. QED BY <4>2, <4>3
    <3>5. \A c \in Block : Len(m_data'[c]) <= MaxMerged
      BY <2>0, <2>3, <3>1, <3>4
    <3>6. QED BY <3>3, <3>5 DEF MshrBounded, Entries
  <2>4. ASSUME NEW b \in Block, NEW l \in Line, NEW st \in MissStatus, NEW wb \in IdleFetch,
               ReadMiss(b, st, l, wb)
        PROVE  MshrBounded'
    <3>1. port \in Fetch /\ ~mshr_full(b)
      BY <2>0, <2>4 DEF ReadMiss, PortRead, TypeOK, ReadRequest
    <3>2. m_data' = [m_data EXCEPT ![b] = Append(@, port)]
      BY <2>4 DEF ReadMiss, SendReadRequest
    <3>3. QED BY <2>3, <3>1, <3>2
  <2>5. ASSUME NEW b \in Block, NEW l \in Line, NEW st \in MissStatus,
               NEW n \in IdleFetch, NEW wb \in IdleFetch, WriteMissAllocate(b, st, l, n, wb)
        PROVE  MshrBounded'
    <3>1. n \in Fetch /\ ~mshr_full(b)
      BY <2>5 DEF WriteMissAllocate, IdleFetch, WriteAllocateRoom, ReadRequest
    <3>2. \/ UNCHANGED m_data
          \/ m_data' = [m_data EXCEPT ![b] = Append(@, n)]
      BY <2>5 DEF WriteMissAllocate, SendReadRequest
    <3>3. QED BY <2>2, <2>3, <3>1, <3>2
  <2>6. ASSUME NextAccess PROVE MshrBounded'
    <3> DEFINE b == Head(m_current_response)
    <3>1. m_current_response \in Seq(Block) /\ m_current_response # <<>> /\ Distinct(m_current_response)
      BY <2>0, <2>6 DEF NextAccess, TypeOK, MshrConsistent
    <3>2. b \in Range(m_current_response) /\ b \in Block
      BY <3>1, TailContents, SeqContents
    <3>3. m_data[b] # <<>> /\ m_data[b] \in Seq(Fetch)
      BY <2>0, <3>2 DEF MshrConsistent, mshr_probe
    <3>4. m_data' = [m_data EXCEPT ![b] = Tail(m_data[b])]
      BY <2>6 DEF NextAccess
    <3> HIDE DEF b
    <3>5. Len(Tail(m_data[b])) = Len(m_data[b]) - 1 /\ Len(m_data[b]) \in Nat
      BY <3>3
    <3>6. \A c \in Block : Len(m_data'[c]) <= MaxMerged
      BY <2>0, <3>2, <3>4, <3>5
    <3>7. Entries' \subseteq Entries
      BY <2>0, <3>2, <3>3, <3>4 DEF Entries, mshr_probe
    <3>8. Cardinality(Entries') <= Cardinality(Entries) /\ Cardinality(Entries') \in Nat
      BY <2>1, <3>7, FS_Subset, FS_CardinalityType
    <3>9. Cardinality(Entries') <= MshrEntries
      BY <2>0, <2>1, <3>8
    <3>10. QED BY <3>6, <3>9 DEF MshrBounded, Entries
  <2>7. CASE UNCHANGED vars
    BY <2>2, <2>7 DEF vars
  <2>8. ASSUME NEW f \in Fetch, NEW t \in AccessTypes, NEW b \in Block, Offer(f, t, b)
        PROVE  MshrBounded'
    BY <2>2, <2>8 DEF Offer
  <2>9. ASSUME NEW b \in Block, NEW l \in Line,
               \/ ReadHit(b, l) \/ WriteHitKeep(b, l) \/ WriteHitSend(b, l)
               \/ \E st \in MissStatus : WriteMissNoAllocate(b, st, l)
        PROVE  MshrBounded'
    BY <2>2, <2>9 DEF ReadHit, WriteHitKeep, WriteHitSend, WriteMissNoAllocate
  <2>10. ASSUME NEW f \in Fetch, WriteDone(f) \/ \E l \in Line : Fill(f, l) PROVE MshrBounded'
    BY <2>2, <2>10 DEF WriteDone, Fill
  <2>11. ASSUME Cycle \/ Flush PROVE MshrBounded'
    BY <2>2, <2>11 DEF Cycle, Flush
  <2>12. ASSUME NEW b \in Block, ReservationFail(b) PROVE MshrBounded'
    BY <2>7, <2>12 DEF ReservationFail
  <2>13. QED
    BY <2>4, <2>5, <2>6, <2>7, <2>8, <2>9, <2>10, <2>11, <2>12 DEF Next, Access
<1>3. QED BY <1>1, <1>2, CoreCorrect, PTL DEF Spec

\* LimitsRespected is an invariant for every size of the miss queue and of the
\* MSHR table, every policy and every flush mode: no assertion of
\* mshr_table::add fails and no request is queued past m_miss_queue_size.
THEOREM LimitsCorrect == Spec => []LimitsRespected
<1>1. MissQueueBounded /\ MshrBounded => LimitsRespected
  BY DEF LimitsRespected
<1>2. QED BY <1>1, MissQueueCorrect, MshrSizeCorrect, PTL

-----------------------------------------------------------------------------
(* Refinement *)

\* What the code assumes of a configuration and cache_config::init only checks
\* for m_write_policy == WRITE_BACK: tag_array::fill drops the line it replaces,
\* so a cache that allocates on fill must not hold dirty lines; and a write-through
\* cache writes nothing back, so it must not make lines dirty by atomics.
DirtyKept ==
  /\ AllocPolicy = "ON_FILL" => WritePolicy # "LOCAL_WB_GLOBAL_WT"
  /\ WritePolicy = "WRITE_THROUGH" => "ATOMIC" \notin AccessTypes

\* A line holds only blocks of its set, and is clean if lines are allocated on
\* fill.
Home ==
  /\ \A l \in Line : m_lines[l].status # "INVALID" => l \in LinesOf(m_lines[l].block)
  /\ AllocPolicy = "ON_FILL" /\ WritePolicy # "WRITE_THROUGH" =>
       \A l \in Line : m_lines[l].status # "MODIFIED"

\* The invariant the refinement rests on
Ground == Core /\ PolicyRespected /\ Tags /\ Home

-----------------------------------------------------------------------------
(* Where lines get their blocks from *)

\* One line changes, to a block of its set.
LEMMA OneLineHome ==
  ASSUME TypeOK, Home, NEW l \in Line, NEW b \in Block, NEW s,
         m_lines' = [m_lines EXCEPT ![l] = [status |-> s, block |-> b]],
         s = "INVALID" \/ l \in LinesOf(b),
         AllocPolicy = "ON_FILL" /\ WritePolicy # "WRITE_THROUGH" => s # "MODIFIED"
  PROVE  Home'
<1>1. /\ m_lines'[l].status = s /\ m_lines'[l].block = b
      /\ \A k \in Line \ {l} : m_lines'[k] = m_lines[k]
  BY DEF TypeOK
<1>2. \A k \in Line : m_lines'[k].status # "INVALID" => k \in LinesOf(m_lines'[k].block)
  BY <1>1 DEF Home
<1> QED BY <1>1, <1>2 DEF Home, LinesOf

\* A hit changes the status of a line that holds its block.
LEMMA HitHome ==
  ASSUME TypeOK, Home, NEW b \in Block, NEW l \in Line, NEW s, probe(b, "HIT", l),
         m_lines' = [m_lines EXCEPT ![l].status = s],
         AllocPolicy = "ON_FILL" /\ WritePolicy # "WRITE_THROUGH" => s # "MODIFIED"
  PROVE  Home'
<1>1. l \in LinesOf(b) /\ m_lines[l].block = b
  BY ProbeLine
<1>2. m_lines' = [m_lines EXCEPT ![l] = [status |-> s, block |-> b]]
  BY <1>1, StatusUpdate
<1> QED BY <1>1, <1>2, OneLineHome

LEMMA MissHome ==
  ASSUME TypeOK, Home, NEW b \in Block, NEW l \in Line, NEW st, probe(b, st, l), TagAccess(b, st, l)
  PROVE  Home'
<1>1. l \in LinesOf(b)
  BY ProbeLine
<1>2. CASE m_lines' = m_lines
  BY <1>2 DEF Home, LinesOf
<1>3. CASE m_lines' = [m_lines EXCEPT ![l] = [status |-> "RESERVED", block |-> b]]
  BY <1>1, <1>3, OneLineHome
<1> QED BY <1>2, <1>3 DEF TagAccess, tagVars

\* A cache that allocates on fill is offered no atomics, and no write marks its
\* lines unless it is written through.
LEMMA HomeStep ==
  ASSUME DirtyKept, Core, PolicyRespected, Tags, Home, [Next]_vars
  PROVE  Home'
<1>0. TypeOK /\ TrackedOnce /\ FillTarget
  BY DEF Core, Tags
<1> USE DEF tagVars, mshrVars
<1>1. ASSUME UNCHANGED m_lines PROVE Home'
  BY <1>1 DEF Home, LinesOf
<1>2. ASSUME NEW b \in Block, NEW l \in Line, ReadHit(b, l) PROVE Home'
  <2>1. CASE m_lines' = m_lines
    BY <1>1, <2>1
  <2>2. CASE m_lines' # m_lines
    <3>1. m_lines' = [m_lines EXCEPT ![l].status = "MODIFIED"] /\ mf[port].type = "ATOMIC"
      BY <1>2, <2>2 DEF ReadHit
    <3>2. probe(b, "HIT", l)
      BY <1>2 DEF ReadHit
    <3>3. AllocPolicy = "ON_MISS"
      BY <1>0, <1>2, <3>1, ConfigAssumption DEF ReadHit, PortRead, TrackedOnce
    <3> QED BY <1>0, <3>1, <3>2, <3>3, HitHome
  <2> QED BY <2>1, <2>2
<1>3. ASSUME NEW b \in Block, NEW l \in Line, WriteHitKeep(b, l) PROVE Home'
  <2>1. /\ probe(b, "HIT", l) /\ m_lines' = [m_lines EXCEPT ![l].status = "MODIFIED"]
        /\ port # NoFetch /\ mf[port].type = "WRITE" /\ ~WriteHitSends(b)
    BY <1>3 DEF WriteHitKeep, PortWrite
  <2>2. "WRITE" \in AccessTypes
    BY <1>0, <2>1 DEF TrackedOnce
  <2>3. AllocPolicy = "ON_MISS"
    BY <2>1, <2>2, ConfigAssumption DEF DirtyKept, WriteHitSends
  <2> QED BY <1>0, <2>1, <2>3, HitHome
<1>4. ASSUME NEW b \in Block, NEW l \in Line, WriteHitSend(b, l) PROVE Home'
  <2>1. probe(b, "HIT", l)
    BY <1>4 DEF WriteHitSend
  <2>2. CASE m_lines' = [m_lines EXCEPT ![l].status = "INVALID"]
    BY <1>0, <2>1, <2>2, HitHome
  <2>3. CASE m_lines' = [m_lines EXCEPT ![l].status = "MODIFIED"] /\ WritePolicy = "WRITE_THROUGH"
    BY <1>0, <2>1, <2>3, HitHome
  <2> QED BY <1>4, <2>2, <2>3 DEF WriteHitSend, WriteHitEvicts
<1>5. ASSUME NEW b \in Block, NEW l \in Line, NEW st \in MissStatus, NEW wb, ReadMiss(b, st, l, wb)
      PROVE  Home'
  BY <1>0, <1>5, MissHome DEF ReadMiss, SendReadRequest
<1>6. ASSUME NEW b \in Block, NEW l \in Line, NEW st \in MissStatus, NEW n, NEW wb,
             WriteMissAllocate(b, st, l, n, wb)
      PROVE  Home'
  <2>1. probe(b, st, l) /\ (UNCHANGED m_lines \/ TagAccess(b, st, l))
    BY <1>6 DEF WriteMissAllocate, SendReadRequest
  <2> QED BY <1>0, <1>1, <2>1, MissHome
<1>7. ASSUME NEW f \in Fetch, NEW l \in Line, Fill(f, l) PROVE Home'
  <2> DEFINE b == m_extra_mf_fields[f].m_block_addr
  <2>1. waiting_for_fill(f) /\ b \in Block /\ Target(f)
    BY <1>0, <1>7, FieldsType, FillTargetByFetch DEF Fill
  <2>2. CASE AllocPolicy = "ON_MISS"
    <3>1. m_lines[l] = [status |-> "RESERVED", block |-> b]
      BY <1>7, <2>1, <2>2 DEF Fill, Target
    <3>2. PICK s : m_lines' = [m_lines EXCEPT ![l].status = s]
      BY <1>7, <2>2 DEF Fill
    <3> HIDE DEF b
    <3>3. m_lines[l].block = b /\ l \in LinesOf(b)
      BY <3>1 DEF Home
    <3>4. m_lines' = [m_lines EXCEPT ![l] = [status |-> s, block |-> b]]
      BY <1>0, <3>2, <3>3, StatusUpdate
    <3> QED BY <1>0, <2>1, <2>2, <3>3, <3>4, OneLineHome
  <2>3. CASE AllocPolicy # "ON_MISS"
    <3>1. l \in Replaceable(b) /\ m_lines' = [m_lines EXCEPT ![l] = [status |-> "VALID", block |-> b]]
      BY <1>7, <2>3 DEF Fill
    <3> HIDE DEF b
    <3>2. l \in LinesOf(b)
      BY <2>1, <3>1, VictimLine
    <3> QED BY <1>0, <2>1, <3>1, <3>2, OneLineHome
  <2> QED BY <2>2, <2>3
<1>8. ASSUME Flush PROVE Home'
  <2>1. \A l \in Line : m_lines'[l].status = "INVALID"
    BY <1>0, <1>8 DEF Flush, TypeOK, LineState
  <2> QED BY <2>1 DEF Home
<1>9. CASE \/ \E f \in Fetch, t \in AccessTypes, b \in Block : Offer(f, t, b)
           \/ \E b \in Block, l \in Line, st \in MissStatus : WriteMissNoAllocate(b, st, l)
           \/ \E b \in Block : ReservationFail(b)
           \/ Cycle \/ NextAccess \/ UNCHANGED vars
           \/ \E f \in Fetch : WriteDone(f)
  BY <1>1, <1>9 DEF Offer, WriteMissNoAllocate, ReservationFail, Cycle, NextAccess, WriteDone, vars
<1> QED BY <1>2, <1>3, <1>4, <1>5, <1>6, <1>7, <1>8, <1>9 DEF Next, Access

LEMMA GroundCorrect == ASSUME FlushIsSafe, DirtyKept PROVE Spec => []Ground
<1>1. Init => Home
  BY DEF Init, Home
<1>2. Core /\ PolicyRespected /\ Tags /\ Home /\ [Next]_vars => Home'
  BY HomeStep
<1>3. Spec => []Tags
  BY TagsCorrect, PTL DEF Tags
<1> QED BY <1>1, <1>2, <1>3, CoreCorrect, PolicyCorrect, PTL DEF Spec, Ground

-----------------------------------------------------------------------------
(* What a step on the tag array does to the blocks that are present *)

\* A block is held by one line of the whole cache.
LEMMA OneLine ==
  ASSUME Tags, Home, NEW l \in Line, NEW k \in Line,
         m_lines[l].status # "INVALID", m_lines[k].status # "INVALID",
         m_lines[l].block = m_lines[k].block
  PROVE  l = k
<1>1. l[1] = k[1]
  BY DEF Home, LinesOf
<1> QED BY <1>1 DEF Tags, UniqueTags

\* The block a change of line l takes away, if it holds one
Taken(l) == IF m_lines[l].status # "INVALID" THEN {m_lines[l].block} ELSE {}

LEMMA LineEffect ==
  ASSUME TypeOK, Tags, Home, NEW l \in Line, NEW b \in Block, NEW s,
         m_lines' = [m_lines EXCEPT ![l] = [status |-> s, block |-> b]]
  PROVE  /\ PresentBlocks' = (PresentBlocks \ Taken(l)) \cup (IF s \in {"VALID", "MODIFIED"} THEN {b} ELSE {})
         /\ DirtyBlocks' = (DirtyBlocks \ Taken(l)) \cup (IF s = "MODIFIED" THEN {b} ELSE {})
<1>1. /\ m_lines'[l].status = s /\ m_lines'[l].block = b
      /\ \A k \in Line \ {l} : m_lines'[k] = m_lines[k]
  BY DEF TypeOK
<1>2. \A k \in Line \ {l} : m_lines[k].status # "INVALID" => m_lines[k].block \notin Taken(l)
  BY OneLine DEF Taken
<1>3. \A k \in Line : m_lines[k].status # "INVALID" /\ m_lines[k].block \notin Taken(l) => k # l
  BY DEF Taken
<1>4. PresentBlocks' = (PresentBlocks \ Taken(l)) \cup (IF s \in {"VALID", "MODIFIED"} THEN {b} ELSE {})
  BY <1>1, <1>2, <1>3 DEF PresentBlocks
<1>5. DirtyBlocks' = (DirtyBlocks \ Taken(l)) \cup (IF s = "MODIFIED" THEN {b} ELSE {})
  BY <1>1, <1>2, <1>3 DEF DirtyBlocks
<1> QED BY <1>4, <1>5

\* A line that is reserved or invalidated holds no data.
LEMMA LineLost ==
  ASSUME TypeOK, Tags, Home, NEW l \in Line, NEW b \in Block, NEW s \in {"INVALID", "RESERVED"},
         m_lines' = [m_lines EXCEPT ![l] = [status |-> s, block |-> b]]
  PROVE  PresentBlocks' = PresentBlocks \ Taken(l) /\ DirtyBlocks' = DirtyBlocks \ Taken(l)
<1>1. s \notin {"VALID", "MODIFIED"} /\ s # "MODIFIED"
  OBVIOUS
<1>2. /\ PresentBlocks' = (PresentBlocks \ Taken(l)) \cup (IF s \in {"VALID", "MODIFIED"} THEN {b} ELSE {})
      /\ DirtyBlocks' = (DirtyBlocks \ Taken(l)) \cup (IF s = "MODIFIED" THEN {b} ELSE {})
  BY LineEffect
<1> QED BY <1>1, <1>2

\* Only blocks that are present are dirty.
LEMMA DirtyPresent == DirtyBlocks \subseteq PresentBlocks
BY DEF DirtyBlocks, PresentBlocks

\* A hit finds its block present.  Marking the line makes the block dirty,
\* invalidating it makes the block absent.
LEMMA HitEffect ==
  ASSUME TypeOK, Tags, Home, NEW b \in Block, NEW l \in Line, probe(b, "HIT", l)
  PROVE  /\ b \in PresentBlocks
         /\ m_lines' = [m_lines EXCEPT ![l].status = "MODIFIED"] =>
              PresentBlocks' = PresentBlocks /\ DirtyBlocks' = DirtyBlocks \cup {b}
         /\ m_lines' = [m_lines EXCEPT ![l].status = "INVALID"] =>
              PresentBlocks' = PresentBlocks \ {b} /\ DirtyBlocks' = DirtyBlocks \ {b}
<1>1. m_lines[l].status \in {"VALID", "MODIFIED"} /\ m_lines[l].block = b
  BY ProbeLine
<1>2. b \in PresentBlocks /\ Taken(l) = {b}
  BY <1>1 DEF PresentBlocks, Taken
<1>3. \A s : m_lines' = [m_lines EXCEPT ![l].status = s] =>
              m_lines' = [m_lines EXCEPT ![l] = [status |-> s, block |-> b]]
  BY <1>1, StatusUpdate
<1>4. ASSUME m_lines' = [m_lines EXCEPT ![l].status = "MODIFIED"]
      PROVE  PresentBlocks' = PresentBlocks /\ DirtyBlocks' = DirtyBlocks \cup {b}
  <2>1. /\ PresentBlocks' = (PresentBlocks \ {b}) \cup {b}
        /\ DirtyBlocks' = (DirtyBlocks \ {b}) \cup {b}
    BY <1>2, <1>3, <1>4, LineEffect
  <2> QED BY <1>2, <2>1
<1>5. ASSUME m_lines' = [m_lines EXCEPT ![l].status = "INVALID"]
      PROVE  PresentBlocks' = PresentBlocks \ {b} /\ DirtyBlocks' = DirtyBlocks \ {b}
  BY <1>2, <1>3, <1>5, LineLost
<1> QED BY <1>2, <1>4, <1>5

\* A miss does not find its block present.
LEMMA MissAbsent ==
  ASSUME TypeOK, Tags, Home, NEW b \in Block, NEW l \in Line, NEW st \in MissStatus, probe(b, st, l)
  PROVE  b \notin PresentBlocks
<1> SUFFICES ASSUME NEW k \in Line, m_lines[k].status \in {"VALID", "MODIFIED"}, m_lines[k].block = b
             PROVE  FALSE
  BY DEF PresentBlocks
<1>1. CASE st = "MISS"
  <2>1. Holding(b) = {} /\ k \in LinesOf(b)
    BY <1>1, ProbeLine DEF Home
  <2> QED BY <2>1 DEF Holding
<1>2. CASE st = "HIT_RESERVED"
  <2>1. m_lines[l] = [status |-> "RESERVED", block |-> b]
    BY <1>2, ProbeLine
  <2>2. m_lines[l].status = "RESERVED" /\ m_lines[l].block = b
    BY <2>1
  <2> QED BY <2>2, OneLine
<1> QED BY <1>1, <1>2 DEF MissStatus

\* A miss takes at most the block of its victim away; the caller sends a
\* write-back for it exactly when it was dirty.
LEMMA MissEffect ==
  ASSUME TypeOK, Tags, Home, NEW b \in Block, NEW l \in Line, NEW st \in MissStatus,
         probe(b, st, l), TagAccess(b, st, l)
  PROVE  /\ PresentBlocks' \subseteq PresentBlocks
         /\ DirtyData' = DirtyData \cap PresentBlocks'
         /\ \A c \in DirtyData \ DirtyData' : Dirty(st, l) /\ c = m_lines[l].block
         /\ Dirty(st, l) => m_lines[l].block \in PresentBlocks \ PresentBlocks'
<1>1. CASE st = "MISS" /\ AllocPolicy = "ON_MISS"
  <2>1. m_lines' = [m_lines EXCEPT ![l] = [status |-> "RESERVED", block |-> b]]
    BY <1>1 DEF TagAccess
  <2>2. PresentBlocks' = PresentBlocks \ Taken(l) /\ DirtyBlocks' = DirtyBlocks \ Taken(l)
    BY <2>1, LineLost
  <2>3. DirtyBlocks' = DirtyBlocks \cap PresentBlocks'
    BY <2>2, DirtyPresent
  <2>4. ASSUME NEW c \in DirtyBlocks, c \in Taken(l)
        PROVE  m_lines[l].status = "MODIFIED" /\ c = m_lines[l].block
    <3>1. PICK k \in Line : m_lines[k].status = "MODIFIED" /\ m_lines[k].block = c
      BY DEF DirtyBlocks
    <3>2. m_lines[l].status # "INVALID" /\ m_lines[l].block = c
      BY <2>4 DEF Taken
    <3> QED BY <3>1, <3>2, OneLine
  <2>5. \A c \in DirtyData \ DirtyData' : Dirty(st, l) /\ c = m_lines[l].block
    BY <1>1, <2>2, <2>4 DEF DirtyData, Dirty
  <2>6. Dirty(st, l) => m_lines[l].block \in PresentBlocks \ PresentBlocks'
    BY <2>2 DEF Dirty, Taken, PresentBlocks
  <2> QED BY <2>2, <2>3, <2>5, <2>6 DEF DirtyData
<1>2. CASE ~(st = "MISS" /\ AllocPolicy = "ON_MISS")
  <2>1. m_lines' = m_lines /\ ~Dirty(st, l)
    BY <1>2 DEF TagAccess, tagVars, Dirty
  <2>2. PresentBlocks' = PresentBlocks /\ DirtyBlocks' = DirtyBlocks
    BY <2>1 DEF PresentBlocks, DirtyBlocks
  <2> QED BY <2>1, <2>2, DirtyPresent DEF DirtyData
<1> QED BY <1>1, <1>2

-----------------------------------------------------------------------------
(* What a step on the MSHRs and the queues does to the deliveries *)

\* The deliveries do not change with the MSHRs and the extra fields.
LEMMA SameDeliveries ==
  ASSUME UNCHANGED <<m_data, m_current_response, m_extra_mf_fields>>
  PROVE  UNCHANGED <<AskedBlocks, WaitingOf, ServedOf>>
<1>1. \A b \in Block : Pending(b)' = Pending(b) /\ (Draining(b)' <=> Draining(b))
  BY DEF Pending, waiting_for_fill, Draining
<1> QED BY <1>1 DEF AskedBlocks, WaitingOf, ServedOf

\* send_read_request makes an access wait for the delivery its block has been
\* asked for, or is being asked for now; one whose block is being handed out
\* right now is served by that delivery.
LEMMA SendJoins ==
  ASSUME Core, NEW b \in Block, NEW l \in Line, NEW st, NEW do \in {"merge", "send"},
         NEW f \in Fetch, NEW q, NEW wb, Untracked(f), do = "send" <=> ~mshr_probe(b),
         SendReadRequest(f, b, st, l, do, q, wb), UNCHANGED m_current_response
  PROVE  Abstract!Join(f, b)
<1> DEFINE fl == [m_valid |-> TRUE, m_block_addr |-> b, m_cache_index |-> l]
<1>1. /\ m_data' = [m_data EXCEPT ![b] = Append(m_data[b], f)]
      /\ m_extra_mf_fields' = IF do = "send" THEN [m_extra_mf_fields EXCEPT ![f] = fl]
                                             ELSE m_extra_mf_fields
  BY DEF SendReadRequest
<1>2. fl.m_valid /\ fl.m_block_addr = b
  OBVIOUS
<1> HIDE DEF fl
<1>3. /\ m_data \in [Block -> Seq(Fetch)] /\ m_extra_mf_fields \in [Fetch -> Fields \cup {NoFields}]
      /\ MshrConsistent /\ TypeOK
  BY DEF Core, TypeOK
<1>4. \A c \in Block : /\ Range(m_data'[c]) = Range(m_data[c]) \cup (IF c = b THEN {f} ELSE {})
                       /\ Draining(c)' <=> Draining(c)
  BY <1>1, <1>3, AppendContents DEF Draining
<1>5. \A c \in Block : Pending(c)' = Pending(c) \cup (IF c = b /\ do = "send" THEN {f} ELSE {})
  BY <1>1, <1>2, <1>3 DEF Pending, waiting_for_fill, Untracked
<1>6. ServedOf[b] # {} <=> Draining(b)
  BY <1>3, ProbeListed DEF ServedOf, Draining, MshrConsistent
<1>7. CASE Draining(b)
  <2>1. do = "merge"
    BY <1>3, <1>7 DEF Draining, MshrConsistent
  <2>2. AskedBlocks' = AskedBlocks
    BY <1>5, <2>1 DEF AskedBlocks
  <2>3. WaitingOf' = WaitingOf
    BY <1>4, <1>7 DEF WaitingOf
  <2>4. ServedOf' = [ServedOf EXCEPT ![b] = @ \cup {f}]
    BY <1>4, <1>7 DEF ServedOf
  <2> QED BY <1>6, <1>7, <2>2, <2>3, <2>4 DEF Abstract!Join
<1>8. CASE ~Draining(b)
  <2>1. AskedBlocks' = AskedBlocks \cup {b}
    <3>1. Pending(b)' # {}
      <4>1. mshr_probe(b) => Pending(b) # {}
        BY <1>3, <1>8 DEF MshrConsistent, Draining
      <4>2. Pending(b)' = Pending(b) \cup (IF do = "send" THEN {f} ELSE {})
        BY <1>5
      <4> QED BY <4>1, <4>2
    <3>2. \A c \in Block \ {b} : Pending(c)' = Pending(c)
      BY <1>5
    <3> QED BY <3>1, <3>2 DEF AskedBlocks
  <2>2. WaitingOf' = [WaitingOf EXCEPT ![b] = @ \cup {f}]
    BY <1>4, <1>8 DEF WaitingOf
  <2>3. ServedOf' = ServedOf
    BY <1>4, <1>8 DEF ServedOf
  <2> QED BY <1>6, <1>8, <2>1, <2>2, <2>3 DEF Abstract!Join
<1> QED BY <1>7, <1>8

\* The writes of miss queue q and of the lower level, under the requests reqs
WritesOf(q, reqs) == {g \in Range(q) \cup below : reqs[g].type \notin ReadType}
WritesAfter(q, reqs, st, l, wb) == WritesOf(q, reqs) \cup (IF Dirty(st, l) THEN {wb} ELSE {})

\* The writes that are under way after a miss: those queued before, and the
\* write-back of a dirty victim.
LEMMA SendWrites ==
  ASSUME Core, NEW b \in Block, NEW l \in Line, NEW st, NEW do \in {"merge", "send"},
         NEW f \in Fetch, NEW wb \in Fetch, NEW q \in Seq(Fetch),
         NEW reqs \in [Fetch -> Request \cup {Idle}], ReadyFor(f, wb, q, reqs),
         SendReadRequest(f, b, st, l, do, q, wb),
         mf' = WithWriteBack(reqs, st, l, wb), UNCHANGED below
  PROVE  WritesBelow' = WritesAfter(q, reqs, st, l, wb)
<1> USE DEF ReadyFor
<1> DEFINE q2 == IF do = "send" THEN Append(q, f) ELSE q
           w == [type |-> "WRBK", block |-> m_lines[l].block]
<1>1. m_miss_queue' = IF Dirty(st, l) THEN Append(q2, wb) ELSE q2
  BY DEF SendReadRequest
<1>2. q2 \in Seq(Fetch) /\ Range(q2) = Range(q) \cup (IF do = "send" THEN {f} ELSE {})
  BY AppendContents
<1>3. /\ w.type \notin ReadType /\ w.block = m_lines[l].block
      /\ mf' = IF Dirty(st, l) THEN [reqs EXCEPT ![wb] = w] ELSE reqs
  BY DEF WithWriteBack, ReadType
<1> HIDE DEF q2, w
<1>4. Range(m_miss_queue') = Range(q2) \cup (IF Dirty(st, l) THEN {wb} ELSE {})
  BY <1>1, <1>2, AppendContents
<1>5. wb \notin Range(q) \cup below /\ wb # f /\ reqs[f].type \in ReadType
  BY DEF Untracked
<1>6. /\ \A g \in Fetch \ {wb} : mf'[g] = reqs[g]
      /\ Dirty(st, l) => mf'[wb] = w
      /\ ~Dirty(st, l) => mf'[wb] = reqs[wb]
  BY <1>3
<1>7. Range(q) \cup below \subseteq Fetch
  BY SeqContents DEF Core, TypeOK
<1> HIDE DEF ReadyFor
<1>8. \A g : g \in WritesBelow' <=> /\ g \in Range(q2) \cup (IF Dirty(st, l) THEN {wb} ELSE {}) \cup below
                                    /\ mf'[g].type \notin ReadType
  BY <1>4 DEF WritesBelow
<1>9. CASE Dirty(st, l)
  BY <1>2, <1>3, <1>5, <1>6, <1>7, <1>8, <1>9 DEF WritesOf, WritesAfter
<1>10. CASE ~Dirty(st, l)
  BY <1>2, <1>5, <1>6, <1>7, <1>8, <1>10 DEF WritesOf, WritesAfter
<1> QED BY <1>9, <1>10

-----------------------------------------------------------------------------
(* Every step of the cache is a step of AbstractCache *)

\* The requests that are queued or below exist, and no write among them is at
\* the port.
LEMMA WritesTracked ==
  ASSUME Core, NEW f \in WritesBelow
  PROVE  f \in Fetch /\ mf[f] # Idle /\ f # port /\ ~waiting_for_fill(f)
<1>1. f \in Range(m_miss_queue) \cup below /\ mf[f].type \notin ReadType /\ f \in Fetch
  BY SeqContents DEF WritesBelow, Core, TypeOK
<1>2. ~waiting_for_fill(f)
  BY <1>1, FieldsType DEF Core, TrackedOnce
<1> QED BY <1>1, <1>2 DEF Core, TrackedOnce, InCache

\* A fetch that is not queued or below does not count among the writes.
LEMMA SameWrites ==
  ASSUME TypeOK, UNCHANGED <<m_miss_queue, below>>, NEW f \in Fetch, NEW r,
         f \notin WritesBelow, f \in Range(m_miss_queue) \cup below => r.type \in ReadType,
         mf' = [mf EXCEPT ![f] = r]
  PROVE  WritesBelow' = WritesBelow
<1>1. Range(m_miss_queue) \cup below \subseteq Fetch
  BY SeqContents DEF TypeOK
<1>2. mf'[f] = r /\ \A g \in Fetch \ {f} : mf'[g] = mf[g]
  BY DEF TypeOK
<1> QED BY <1>1, <1>2 DEF WritesBelow

LEMMA InitRefines == Init => Abstract!Init
<1> SUFFICES ASSUME Init PROVE Abstract!Init
  OBVIOUS
<1>1. PresentBlocks = {} /\ DirtyData = {}
  BY DEF Init, PresentBlocks, DirtyData, DirtyBlocks
<1>2. \A f \in Fetch : ~waiting_for_fill(f)
  BY DEF Init, waiting_for_fill, NoFields
<1>3. \A b \in Block : Range(m_data[b]) = {}
  BY DEF Init, Range
<1>4. Range(m_miss_queue) = {} /\ below = {}
  BY DEF Init, Range
<1>5. AskedBlocks = {}
  BY <1>2 DEF AskedBlocks, Pending
<1>6. WaitingOf = [b \in Block |-> {}] /\ ServedOf = [b \in Block |-> {}]
  BY <1>3 DEF WaitingOf, ServedOf
<1>7. WritesBelow = {}
  BY <1>4 DEF WritesBelow
<1> QED BY <1>1, <1>5, <1>6, <1>7 DEF Abstract!Init, Init

LEMMA OfferRefines ==
  ASSUME Ground, NEW f \in Fetch, NEW t \in AccessTypes, NEW b \in Block, Offer(f, t, b)
  PROVE  Abstract!Offer(f, t, b)
<1>1. /\ port = NoFetch /\ mf[f] = Idle /\ mf' = [mf EXCEPT ![f] = [type |-> t, block |-> b]] /\ port' = f
      /\ UNCHANGED <<m_lines, m_data, m_current_response, m_miss_queue, m_extra_mf_fields, below>>
  BY DEF Offer, tagVars, mshrVars
<1>2. UNCHANGED <<PresentBlocks, DirtyData>>
  BY <1>1 DEF PresentBlocks, DirtyData, DirtyBlocks
<1>3. Untracked(f) /\ TypeOK
  BY <1>1, OutsideUntracked DEF Ground, Core
<1>4. f \notin Range(m_miss_queue) \cup below /\ f \notin WritesBelow
  BY <1>3 DEF Untracked, WritesBelow
<1>5. WritesBelow' = WritesBelow
  BY <1>1, <1>3, <1>4, SameWrites
<1> QED BY <1>1, <1>2, <1>5, SameDeliveries DEF Abstract!Offer

\* An access that is answered at once
LEMMA AnswerAtOnce ==
  ASSUME Ground, port # NoFetch, mf' = [mf EXCEPT ![port] = Idle],
         UNCHANGED <<m_data, m_current_response, m_miss_queue, m_extra_mf_fields, below>>
  PROVE  UNCHANGED <<AskedBlocks, WaitingOf, ServedOf, WritesBelow>>
<1>1. port \in Fetch /\ Untracked(port) /\ TypeOK
  BY OutsideUntracked DEF Ground, Core, TypeOK
<1>2. port \notin Range(m_miss_queue) \cup below /\ port \notin WritesBelow
  BY <1>1 DEF Untracked, WritesBelow
<1>3. WritesBelow' = WritesBelow
  BY <1>1, <1>2, SameWrites
<1> QED BY <1>3, SameDeliveries

LEMMA ReadHitRefines ==
  ASSUME Ground, DirtyKept, NEW b \in Block, NEW l \in Line, ReadHit(b, l)
  PROVE  Abstract!Hit(b)
<1>1. /\ port # NoFetch /\ mf[port].block = b /\ mf[port].type \in {"READ", "ATOMIC"}
      /\ probe(b, "HIT", l) /\ mf' = [mf EXCEPT ![port] = Idle] /\ port' = NoFetch
      /\ UNCHANGED <<m_data, m_current_response, m_miss_queue, m_extra_mf_fields, below>>
      /\ m_lines' = IF mf[port].type = "ATOMIC" THEN [m_lines EXCEPT ![l].status = "MODIFIED"] ELSE m_lines
  BY DEF ReadHit, PortRead, mshrVars
<1>2. UNCHANGED <<AskedBlocks, WaitingOf, ServedOf, WritesBelow>>
  BY <1>1, AnswerAtOnce
<1>3. TypeOK /\ Tags /\ Home /\ TrackedOnce
  BY DEF Ground, Core
<1>4. b \in PresentBlocks
  BY <1>1, <1>3, HitEffect
<1>5. CASE mf[port].type = "READ"
  <2>1. UNCHANGED <<PresentBlocks, DirtyData>>
    BY <1>1, <1>5 DEF PresentBlocks, DirtyData, DirtyBlocks
  <2> QED BY <1>1, <1>2, <1>4, <1>5, <2>1 DEF Abstract!Hit
<1>6. CASE mf[port].type = "ATOMIC"
  <2>1. PresentBlocks' = PresentBlocks /\ DirtyBlocks' = DirtyBlocks \cup {b}
    BY <1>1, <1>3, <1>6, HitEffect
  <2>2. WritePolicy # "WRITE_THROUGH"
    BY <1>1, <1>3, <1>6 DEF TrackedOnce, DirtyKept
  <2>3. DirtyData' = DirtyData \cup {b}
    BY <2>1, <2>2 DEF DirtyData
  <2> QED BY <1>1, <1>2, <1>4, <1>6, <2>1, <2>3 DEF Abstract!Hit
<1> QED BY <1>1, <1>5, <1>6

LEMMA WriteHitKeepRefines ==
  ASSUME Ground, NEW b \in Block, NEW l \in Line, WriteHitKeep(b, l)
  PROVE  Abstract!Hit(b)
<1>1. /\ port # NoFetch /\ mf[port].block = b /\ mf[port].type = "WRITE" /\ ~WriteHitSends(b)
      /\ probe(b, "HIT", l) /\ mf' = [mf EXCEPT ![port] = Idle] /\ port' = NoFetch
      /\ UNCHANGED <<m_data, m_current_response, m_miss_queue, m_extra_mf_fields, below>>
      /\ m_lines' = [m_lines EXCEPT ![l].status = "MODIFIED"]
  BY DEF WriteHitKeep, PortWrite, mshrVars
<1>2. UNCHANGED <<AskedBlocks, WaitingOf, ServedOf, WritesBelow>>
  BY <1>1, AnswerAtOnce
<1>3. TypeOK /\ Tags /\ Home
  BY DEF Ground, Core
<1>4. b \in PresentBlocks /\ PresentBlocks' = PresentBlocks /\ DirtyBlocks' = DirtyBlocks \cup {b}
  BY <1>1, <1>3, HitEffect
<1>5. DirtyData' = DirtyData \cup {b}
  BY <1>1, <1>4 DEF DirtyData, WriteHitSends
<1> QED BY <1>1, <1>2, <1>4, <1>5 DEF Abstract!Hit

\* The write at the port is queued.
LEMMA WriteQueued ==
  ASSUME Ground, NEW b \in Block, PortWrite(b), m_miss_queue' = Append(m_miss_queue, port),
         UNCHANGED <<m_data, m_current_response, m_extra_mf_fields, mf, below>>
  PROVE  /\ UNCHANGED <<AskedBlocks, WaitingOf, ServedOf>>
         /\ WritesBelow' = WritesBelow \cup {port}
<1>1. port \in Fetch /\ mf[port].type \notin ReadType /\ m_miss_queue \in Seq(Fetch)
  BY DEF Ground, Core, TypeOK, PortWrite, ReadType
<1>2. Range(m_miss_queue') = Range(m_miss_queue) \cup {port}
  BY <1>1, AppendContents
<1>3. WritesBelow' = WritesBelow \cup {port}
  BY <1>1, <1>2 DEF WritesBelow
<1> QED BY <1>3, SameDeliveries

LEMMA WriteHitSendRefines ==
  ASSUME Ground, NEW b \in Block, NEW l \in Line, WriteHitSend(b, l)
  PROVE  Abstract!WriteSent(b)
<1>1. /\ PortWrite(b) /\ m_miss_queue' = Append(m_miss_queue, port) /\ port' = NoFetch
      /\ probe(b, "HIT", l) /\ WriteHitSends(b)
      /\ UNCHANGED <<m_data, m_current_response, m_extra_mf_fields, mf, below>>
      /\ m_lines' = [m_lines EXCEPT ![l].status = IF WriteHitEvicts(b) THEN "INVALID" ELSE "MODIFIED"]
  BY DEF WriteHitSend, mshrVars
<1>2. /\ UNCHANGED <<AskedBlocks, WaitingOf, ServedOf>>
      /\ WritesBelow' = WritesBelow \cup {port}
  BY <1>1, WriteQueued
<1>3. TypeOK /\ Tags /\ Home
  BY DEF Ground, Core
<1>4. port # NoFetch /\ mf[port].block = b /\ mf[port].type = "WRITE"
  BY <1>1 DEF PortWrite
<1>5. CASE WriteHitEvicts(b)
  <2>1. PresentBlocks' = PresentBlocks \ {b} /\ DirtyBlocks' = DirtyBlocks \ {b}
    BY <1>1, <1>3, <1>5, HitEffect
  <2>2. DirtyData' = DirtyData \ {b}
    BY <2>1 DEF DirtyData
  <2> QED BY <1>1, <1>2, <1>4, <2>1, <2>2 DEF Abstract!WriteSent
<1>6. CASE ~WriteHitEvicts(b)
  <2>1. PresentBlocks' = PresentBlocks
    BY <1>1, <1>3, <1>6, HitEffect
  <2>2. DirtyData' = DirtyData \ {b}
    BY <1>1, <1>6 DEF DirtyData, WriteHitEvicts
  <2> QED BY <1>1, <1>2, <1>4, <2>1, <2>2 DEF Abstract!WriteSent
<1> QED BY <1>5, <1>6

LEMMA WriteMissNoAllocateRefines ==
  ASSUME Ground, NEW b \in Block, NEW l \in Line, NEW st \in MissStatus, WriteMissNoAllocate(b, st, l)
  PROVE  Abstract!WriteSent(b)
<1>1. /\ PortWrite(b) /\ m_miss_queue' = Append(m_miss_queue, port) /\ port' = NoFetch
      /\ probe(b, st, l)
      /\ UNCHANGED <<m_lines, m_data, m_current_response, m_extra_mf_fields, mf, below>>
  BY DEF WriteMissNoAllocate, tagVars, mshrVars
<1>2. /\ UNCHANGED <<AskedBlocks, WaitingOf, ServedOf>>
      /\ WritesBelow' = WritesBelow \cup {port}
  BY <1>1, WriteQueued
<1>3. b \notin PresentBlocks
  BY <1>1, MissAbsent DEF Ground, Core
<1>4. port # NoFetch /\ mf[port].block = b /\ mf[port].type = "WRITE"
  BY <1>1 DEF PortWrite
<1>5. PresentBlocks' = PresentBlocks /\ DirtyData' = DirtyData
  BY <1>1 DEF PresentBlocks, DirtyData, DirtyBlocks
<1>6. DirtyData' = DirtyData \ {b}
  BY <1>3, <1>5, DirtyPresent DEF DirtyData
<1> QED BY <1>1, <1>2, <1>4, <1>5, <1>6 DEF Abstract!WriteSent

\* Dirty data a miss takes away has left in its write-back.
LEMMA MissKeepsData ==
  ASSUME Ground, NEW b \in Block, NEW l \in Line, NEW st \in MissStatus,
         NEW wb \in Fetch, probe(b, st, l), TagAccess(b, st, l), wb \notin WritesBelow,
         Dirty(st, l) => wb \in WritesBelow' /\ mf'[wb].block = m_lines[l].block
  PROVE  /\ Abstract!NoDataLost
         /\ b \notin PresentBlocks
         /\ PresentBlocks' \in SUBSET PresentBlocks
         /\ DirtyData' = DirtyData \cap PresentBlocks'
         /\ Dirty(st, l) => m_lines[l].block \in PresentBlocks \ PresentBlocks'
<1>0. TypeOK /\ Tags /\ Home
  BY DEF Ground, Core
<1>1. b \notin PresentBlocks
  BY <1>0, MissAbsent
<1>2. /\ PresentBlocks' \subseteq PresentBlocks
      /\ DirtyData' = DirtyData \cap PresentBlocks'
      /\ \A c \in DirtyData \ DirtyData' : Dirty(st, l) /\ c = m_lines[l].block
      /\ Dirty(st, l) => m_lines[l].block \in PresentBlocks \ PresentBlocks'
  BY <1>0, MissEffect
<1>3. Abstract!NoDataLost
  BY <1>2 DEF Abstract!NoDataLost
<1> QED BY <1>1, <1>2, <1>3

LEMMA ReadMissRefines ==
  ASSUME Ground, NEW b \in Block, NEW l \in Line, NEW st \in MissStatus, NEW wb \in IdleFetch,
         ReadMiss(b, st, l, wb)
  PROVE  Abstract!ReadMiss(b, wb)
<1>0. Core /\ TypeOK
  BY DEF Ground, Core
<1>1. /\ port \in Fetch /\ wb \in Fetch /\ m_miss_queue \in Seq(Fetch)
      /\ mf \in [Fetch -> Request \cup {Idle}]
      /\ port # NoFetch /\ mf[port].block = b /\ mf[port].type \in {"READ", "ATOMIC"}
      /\ probe(b, st, l)
  BY <1>0 DEF TypeOK, ReadMiss, PortRead, IdleFetch
<1>2. PICK do \in {"merge", "send"} :
        /\ do = "send" <=> ~mshr_probe(b)
        /\ ReadyFor(port, wb, m_miss_queue, mf)
        /\ SendReadRequest(port, b, st, l, do, m_miss_queue, wb)
        /\ mf' = WithWriteBack(mf, st, l, wb) /\ port' = NoFetch
        /\ UNCHANGED <<m_current_response, below>>
  BY <1>0, ReadMissReady
<1>3. Abstract!Join(port, b)
  <2>1. Untracked(port) /\ UNCHANGED m_current_response
    BY <1>2 DEF ReadyFor
  <2> QED BY <1>0, <1>1, <1>2, <2>1, SendJoins
<1>4. /\ WritesBelow' = WritesBelow \cup (IF Dirty(st, l) THEN {wb} ELSE {})
      /\ Dirty(st, l) => mf'[wb].block = m_lines[l].block
  <2>1. UNCHANGED below
    BY <1>2
  <2>2. WritesBelow' = WritesAfter(m_miss_queue, mf, st, l, wb)
    BY <1>0, <1>1, <1>2, <2>1, SendWrites
  <2>3. Dirty(st, l) => mf'[wb].block = m_lines[l].block
    BY <1>1, <1>2 DEF WithWriteBack
  <2> QED BY <2>2, <2>3 DEF WritesBelow, WritesOf, WritesAfter
<1>5. wb \notin WritesBelow /\ TagAccess(b, st, l)
  BY <1>0, <1>2, WritesTracked DEF IdleFetch, SendReadRequest
<1>6. /\ Abstract!NoDataLost /\ b \notin PresentBlocks
      /\ PresentBlocks' \in SUBSET PresentBlocks
      /\ DirtyData' = DirtyData \cap PresentBlocks'
      /\ Dirty(st, l) => m_lines[l].block \in PresentBlocks \ PresentBlocks'
  BY <1>1, <1>4, <1>5, MissKeepsData
<1>7. \/ WritesBelow' = WritesBelow /\ mf' = mf
      \/ \E c \in PresentBlocks \ PresentBlocks' : /\ mf' = Abstract!WriteBack(mf, wb, c)
                                                   /\ WritesBelow' = WritesBelow \cup {wb}
  <2>1. CASE Dirty(st, l)
    <3>1. mf' = Abstract!WriteBack(mf, wb, m_lines[l].block) /\ WritesBelow' = WritesBelow \cup {wb}
      BY <1>2, <1>4, <2>1 DEF WithWriteBack, Abstract!WriteBack
    <3> QED BY <1>6, <2>1, <3>1
  <2>2. CASE ~Dirty(st, l)
    BY <1>2, <1>4, <2>2 DEF WithWriteBack
  <2> QED BY <2>1, <2>2
<1> QED BY <1>1, <1>2, <1>3, <1>6, <1>7 DEF Abstract!ReadMiss

LEMMA WriteMissAllocateRefines ==
  ASSUME Ground, NEW b \in Block, NEW l \in Line, NEW st \in MissStatus,
         NEW n \in IdleFetch, NEW wb \in IdleFetch, n # wb, WriteMissAllocate(b, st, l, n, wb)
  PROVE  Abstract!WriteMissFetch(b, n, wb)
<1>0. Core /\ TypeOK
  BY DEF Ground, Core
<1>1. /\ port # NoFetch /\ mf[port].block = b /\ mf[port].type = "WRITE" /\ probe(b, st, l)
      /\ port \in Fetch /\ mf[n] = Idle /\ mf[wb] = Idle
  BY <1>0 DEF WriteMissAllocate, PortWrite, IdleFetch, TypeOK
<1>2. PICK do \in {"merge", "send"}, q \in Seq(Fetch), reqs \in [Fetch -> Request \cup {Idle}] :
        /\ Range(q) = Range(m_miss_queue) \cup {port}
        /\ reqs = [mf EXCEPT ![n] = [type |-> "WR_ALLOC_R", block |-> b]]
        /\ do = "send" <=> ~mshr_probe(b)
        /\ n \in Fetch /\ wb \in Fetch /\ ReadyFor(n, wb, q, reqs)
        /\ SendReadRequest(n, b, st, l, do, q, wb)
        /\ mf' = WithWriteBack(reqs, st, l, wb) /\ port' = NoFetch
        /\ UNCHANGED <<m_current_response, below>>
  BY <1>0, WriteMissReady
<1>3. Abstract!Join(n, b)
  <2>1. /\ Untracked(n) /\ UNCHANGED m_current_response /\ n \in Fetch
        /\ do = "send" <=> ~mshr_probe(b)
        /\ SendReadRequest(n, b, st, l, do, q, wb)
    BY <1>2 DEF ReadyFor
  <2> QED BY <1>0, <2>1, SendJoins
<1>4. /\ WritesBelow' = WritesOf(q, reqs) \cup (IF Dirty(st, l) THEN {wb} ELSE {})
      /\ Dirty(st, l) => mf'[wb].block = m_lines[l].block
  <2>1. /\ n \in Fetch /\ wb \in Fetch /\ ReadyFor(n, wb, q, reqs)
        /\ SendReadRequest(n, b, st, l, do, q, wb)
        /\ mf' = WithWriteBack(reqs, st, l, wb) /\ UNCHANGED below
    BY <1>2
  <2>2. WritesBelow' = WritesAfter(q, reqs, st, l, wb)
    BY <1>0, <2>1, SendWrites
  <2>3. Dirty(st, l) => mf'[wb].block = m_lines[l].block
    BY <1>2 DEF WithWriteBack
  <2> QED BY <2>2, <2>3 DEF WritesAfter
<1>5. n \notin Range(m_miss_queue) \cup below /\ wb \notin WritesBelow /\ TagAccess(b, st, l)
  BY <1>0, <1>1, <1>2, WritesTracked DEF ReadyFor, Untracked, SendReadRequest
<1>6. WritesOf(q, reqs) = WritesBelow \cup {port}
  <2>1. \A g \in Range(q) \cup below : reqs[g] = mf[g]
    <3>1. Range(q) \cup below \subseteq Fetch /\ n \notin Range(q) \cup below
      <4>1. below \subseteq Fetch /\ Range(q) \subseteq Fetch
        BY <1>0, <1>2, SeqContents DEF TypeOK
      <4>2. n # port
        BY <1>0, <1>1 DEF Core, TrackedOnce
      <4> QED BY <1>2, <1>5, <4>1, <4>2
    <3> QED BY <1>0, <1>2, <3>1 DEF TypeOK
  <2> QED BY <1>1, <1>2, <2>1 DEF WritesBelow, WritesOf, ReadType
<1>7. /\ Abstract!NoDataLost /\ b \notin PresentBlocks
      /\ PresentBlocks' \in SUBSET PresentBlocks
      /\ DirtyData' = DirtyData \cap PresentBlocks'
      /\ Dirty(st, l) => m_lines[l].block \in PresentBlocks \ PresentBlocks'
  BY <1>1, <1>2, <1>4, <1>5, MissKeepsData
<1>8. \/ WritesBelow' = WritesBelow \cup {port} /\ mf' = reqs
      \/ \E c \in PresentBlocks \ PresentBlocks' : /\ mf' = Abstract!WriteBack(reqs, wb, c)
                                                   /\ WritesBelow' = WritesBelow \cup {port, wb}
  <2>1. CASE Dirty(st, l)
    <3>1. mf' = Abstract!WriteBack(reqs, wb, m_lines[l].block)
      BY <1>2, <2>1 DEF WithWriteBack, Abstract!WriteBack
    <3>2. WritesBelow' = WritesBelow \cup {port, wb}
      BY <1>4, <1>6, <2>1
    <3> QED BY <1>7, <2>1, <3>1, <3>2
  <2>2. CASE ~Dirty(st, l)
    BY <1>2, <1>4, <1>6, <2>2 DEF WithWriteBack
  <2> QED BY <2>1, <2>2
<1> QED BY <1>1, <1>2, <1>3, <1>7, <1>8 DEF Abstract!WriteMissFetch

LEMMA CycleRefines == ASSUME Ground, Cycle PROVE UNCHANGED Abstract!vars
<1>1. /\ m_miss_queue \in Seq(Fetch) /\ m_miss_queue # <<>> /\ Distinct(m_miss_queue)
      /\ m_miss_queue' = Tail(m_miss_queue) /\ below' = below \cup {Head(m_miss_queue)}
      /\ UNCHANGED <<m_lines, m_data, m_current_response, m_extra_mf_fields, mf, port>>
  BY DEF Ground, Core, TypeOK, TrackedOnce, Cycle, tagVars, mshrVars
<1>2. Range(m_miss_queue') = Range(m_miss_queue) \ {Head(m_miss_queue)} /\ Head(m_miss_queue) \in Range(m_miss_queue)
  BY <1>1, TailContents
<1>3. WritesBelow' = WritesBelow
  BY <1>1, <1>2 DEF WritesBelow
<1>4. UNCHANGED <<PresentBlocks, DirtyData>>
  BY <1>1 DEF PresentBlocks, DirtyData, DirtyBlocks
<1> QED BY <1>1, <1>3, <1>4, SameDeliveries DEF Abstract!vars

LEMMA WriteDoneRefines ==
  ASSUME Ground, NEW f \in Fetch, WriteDone(f) PROVE Abstract!WriteDone(f)
<1>1. /\ f \in below /\ ~waiting_for_fill(f) /\ below' = below \ {f} /\ mf' = [mf EXCEPT ![f] = Idle]
      /\ UNCHANGED <<m_lines, m_data, m_current_response, m_miss_queue, m_extra_mf_fields, port>>
  BY DEF WriteDone, tagVars, mshrVars
<1>2. f \in WritesBelow /\ f \notin Range(m_miss_queue)
  BY <1>1 DEF WritesBelow, Ground, Core, TrackedOnce
<1>3. \A g \in Fetch \ {f} : mf'[g] = mf[g]
  BY <1>1 DEF Ground, Core, TypeOK
<1>4. Range(m_miss_queue) \cup below \subseteq Fetch
  BY SeqContents DEF Ground, Core, TypeOK
<1>5. WritesBelow' = WritesBelow \ {f}
  BY <1>1, <1>2, <1>3, <1>4 DEF WritesBelow
<1>6. UNCHANGED <<PresentBlocks, DirtyData>>
  BY <1>1 DEF PresentBlocks, DirtyData, DirtyBlocks
<1> QED BY <1>1, <1>2, <1>5, <1>6, SameDeliveries DEF Abstract!WriteDone

LEMMA FlushRefines == ASSUME Ground, Flush PROVE Abstract!Flush
<1>1. /\ m_lines' = [l \in Line |-> [m_lines[l] EXCEPT !.status = "INVALID"]]
      /\ UNCHANGED <<m_data, m_current_response, m_miss_queue, m_extra_mf_fields, mf, port, below>>
  BY DEF Flush, mshrVars
<1>2. \A l \in Line : m_lines'[l].status = "INVALID"
  BY <1>1 DEF Ground, Core, TypeOK, LineState
<1>3. PresentBlocks' = {} /\ DirtyData' = {}
  BY <1>2 DEF PresentBlocks, DirtyData, DirtyBlocks
<1>4. WritesBelow' = WritesBelow
  BY <1>1 DEF WritesBelow
<1> QED BY <1>1, <1>3, <1>4, SameDeliveries DEF Abstract!Flush

\* A fill delivers the block its request asked for to the accesses listed in
\* the MSHR entry.
LEMMA FillRefines ==
  ASSUME Ground, DirtyKept, NEW f \in Fetch, NEW l \in Line, Fill(f, l)
  PROVE  \E b \in Block : Abstract!Deliver(b)
<1>0. TypeOK /\ MshrConsistent /\ TrackedOnce /\ Tags /\ Home /\ FillTarget
  BY DEF Ground, Core, Tags
<1> DEFINE b == m_extra_mf_fields[f].m_block_addr
<1>1. b \in Block /\ waiting_for_fill(f) /\ f \in below /\ Target(f)
  BY <1>0, FieldsType, FillTargetByFetch DEF Fill
<1>2. /\ m_current_response' = Append(m_current_response, b)
      /\ m_extra_mf_fields' = [m_extra_mf_fields EXCEPT ![f] = NoFields]
      /\ below' = below \ {f} /\ UNCHANGED <<m_data, m_miss_queue, mf, port>>
  BY DEF Fill
<1>3. /\ Pending(b) = {f} /\ b \notin Range(m_current_response)
      /\ Listed(f, b) /\ mf[f].type \in ReadType /\ f \notin Range(m_miss_queue)
  BY <1>0, <1>1 DEF MshrConsistent, Pending, TrackedOnce
<1>4. \A c \in Block \ {b} : f \notin Pending(c)
  BY DEF Pending
<1>5. \/ /\ AllocPolicy = "ON_MISS" /\ m_lines[l] = [status |-> "RESERVED", block |-> b]
         /\ m_lines' = [m_lines EXCEPT ![l].status = IF HasAtomic(b) THEN "MODIFIED" ELSE "VALID"]
      \/ /\ AllocPolicy # "ON_MISS" /\ l \in Replaceable(b)
         /\ m_lines' = [m_lines EXCEPT ![l] = [status |-> "VALID", block |-> b]]
  BY <1>1 DEF Fill, Target
<1> HIDE DEF b
<1>6. Range(m_current_response') = Range(m_current_response) \cup {b}
  BY <1>0, <1>1, <1>2, AppendContents DEF TypeOK
<1>7. \A c \in Block : Pending(c)' = Pending(c) \ {f} /\ (Draining(c)' <=> Draining(c) \/ c = b)
  BY <1>0, <1>2, <1>6 DEF Pending, waiting_for_fill, NoFields, TypeOK, Draining
<1>8. b \in AskedBlocks /\ AskedBlocks' = AskedBlocks \ {b}
  BY <1>1, <1>3, <1>4, <1>7 DEF AskedBlocks
<1>9. WaitingOf[b] = Range(m_data[b]) /\ WaitingOf' = [WaitingOf EXCEPT ![b] = {}]
  BY <1>1, <1>2, <1>3, <1>7 DEF WaitingOf, Draining
<1>10. ServedOf' = [ServedOf EXCEPT ![b] = WaitingOf[b]]
  BY <1>1, <1>2, <1>3, <1>7, <1>9 DEF ServedOf, Draining
<1>11. WritesBelow' = WritesBelow
  BY <1>2, <1>3 DEF WritesBelow
<1>12. HasAtomic(b) <=> \E g \in WaitingOf[b] : mf[g].type = "ATOMIC"
  BY <1>9 DEF HasAtomic
<1>13. /\ PresentBlocks' \in {p \cup {b} : p \in SUBSET PresentBlocks}
       /\ DirtyData \subseteq PresentBlocks'
       /\ DirtyData' = IF HasAtomic(b) THEN DirtyData \cup {b} ELSE DirtyData
  <2>1. CASE /\ AllocPolicy = "ON_MISS" /\ m_lines[l] = [status |-> "RESERVED", block |-> b]
             /\ m_lines' = [m_lines EXCEPT ![l].status = IF HasAtomic(b) THEN "MODIFIED" ELSE "VALID"]
    <3> DEFINE s == IF HasAtomic(b) THEN "MODIFIED" ELSE "VALID"
    <3>1. m_lines[l].status = "RESERVED" /\ m_lines[l].block = b
      BY <2>1
    <3>2. m_lines' = [m_lines EXCEPT ![l] = [status |-> s, block |-> b]]
      BY <1>0, <2>1, <3>1, StatusUpdate
    <3>3. s \in {"VALID", "MODIFIED"} /\ (s = "MODIFIED" <=> HasAtomic(b))
      OBVIOUS
    <3> HIDE DEF s
    <3>4. /\ PresentBlocks' = (PresentBlocks \ Taken(l)) \cup (IF s \in {"VALID", "MODIFIED"} THEN {b} ELSE {})
          /\ DirtyBlocks' = (DirtyBlocks \ Taken(l)) \cup (IF s = "MODIFIED" THEN {b} ELSE {})
      BY <1>0, <1>1, <3>2, LineEffect
    <3>5. Taken(l) = {b} /\ b \notin PresentBlocks
      <4>1. \A k \in Line : m_lines[k].status \in {"VALID", "MODIFIED"} => m_lines[k].block # b
        BY <1>0, <3>1, OneLine
      <4> QED BY <3>1, <4>1 DEF Taken, PresentBlocks
    <3>6. PresentBlocks' = PresentBlocks \cup {b}
      BY <3>3, <3>4, <3>5
    <3>7. DirtyBlocks' = IF HasAtomic(b) THEN DirtyBlocks \cup {b} ELSE DirtyBlocks
      BY <3>3, <3>4, <3>5, DirtyPresent
    <3>8. WritePolicy = "WRITE_THROUGH" => ~HasAtomic(b)
      <4>1. \A g \in Range(m_data[b]) : g \in Fetch /\ mf[g] # Idle
        BY <1>0, <1>1, ProbeListed DEF TrackedOnce, Listed, InCache
      <4> QED BY <4>1, ConfigAssumption DEF HasAtomic, Ground, PolicyRespected, DirtyKept
    <3> QED BY <3>6, <3>7, <3>8, DirtyPresent DEF DirtyData
  <2>2. CASE /\ AllocPolicy # "ON_MISS" /\ l \in Replaceable(b)
             /\ m_lines' = [m_lines EXCEPT ![l] = [status |-> "VALID", block |-> b]]
    <3>1. /\ PresentBlocks' = (PresentBlocks \ Taken(l)) \cup {b}
          /\ DirtyBlocks' = (DirtyBlocks \ Taken(l)) \cup {}
      <4>1. PICK s \in {"VALID"} : m_lines' = [m_lines EXCEPT ![l] = [status |-> s, block |-> b]]
        BY <2>2
      <4>2. s \in {"VALID", "MODIFIED"} /\ s # "MODIFIED"
        OBVIOUS
      <4>3. /\ PresentBlocks' = (PresentBlocks \ Taken(l)) \cup (IF s \in {"VALID", "MODIFIED"} THEN {b} ELSE {})
            /\ DirtyBlocks' = (DirtyBlocks \ Taken(l)) \cup (IF s = "MODIFIED" THEN {b} ELSE {})
        BY <1>0, <1>1, <4>1, LineEffect
      <4> QED BY <4>2, <4>3
    <3>2. DirtyData = {} /\ DirtyData' = {}
      <4>1. CASE WritePolicy = "WRITE_THROUGH"
        BY <4>1 DEF DirtyData
      <4>2. CASE WritePolicy # "WRITE_THROUGH"
        <5>1. DirtyBlocks = {}
          BY <1>0, <2>2, <4>2, ConfigAssumption DEF Home, DirtyBlocks
        <5> QED BY <3>1, <5>1 DEF DirtyData
      <4> QED BY <4>1, <4>2
    <3>3. ~HasAtomic(b)
      <4>1. \A g \in Range(m_data[b]) : g \in Fetch /\ mf[g] # Idle
        BY <1>0, <1>1, ProbeListed DEF TrackedOnce, Listed, InCache
      <4> QED BY <2>2, <4>1, ConfigAssumption DEF HasAtomic, Ground, PolicyRespected
    <3> QED BY <3>1, <3>2, <3>3
  <2> QED BY <1>5, <2>1, <2>2
<1>14. Abstract!Deliver(b)
  BY <1>2, <1>8, <1>9, <1>10, <1>11, <1>12, <1>13 DEF Abstract!Deliver
<1> QED BY <1>1, <1>14

\* next_access hands an access that a delivery has served back to the caller.
LEMMA NextAccessRefines ==
  ASSUME Ground, NextAccess PROVE \E f \in Fetch, b \in Block : Abstract!Answer(f, b)
<1>0. TypeOK /\ MshrConsistent /\ TrackedOnce
  BY DEF Ground, Core
<1> DEFINE b == Head(m_current_response)
           d == m_data[b]
           f == Head(d)
<1>1. /\ m_current_response \in Seq(Block) /\ m_current_response # <<>>
      /\ Distinct(m_current_response)
  BY <1>0 DEF NextAccess, TypeOK, MshrConsistent
<1>2. /\ b \in Range(m_current_response) /\ b \in Block
      /\ Range(Tail(m_current_response)) = Range(m_current_response) \ {b}
  BY <1>1, TailContents, SeqContents
<1>3. /\ m_data' = [m_data EXCEPT ![b] = Tail(d)]
      /\ m_current_response' = IF Len(d) = 1 THEN Tail(m_current_response) ELSE m_current_response
      /\ mf' = [mf EXCEPT ![f] = Idle]
      /\ UNCHANGED <<m_lines, m_miss_queue, m_extra_mf_fields, port, below>>
  BY DEF NextAccess, tagVars
<1> HIDE DEF b
<1>4. d \in Seq(Fetch) /\ d # <<>> /\ Distinct(d) /\ Pending(b) = {}
  BY <1>0, <1>2 DEF TypeOK, MshrConsistent, TrackedOnce, mshr_probe
<1>5. /\ f \in Range(d) /\ f \in Fetch /\ Range(Tail(d)) = Range(d) \ {f}
      /\ Len(d) = 1 <=> Range(Tail(d)) = {}
  <2> HIDE DEF d
  <2>1. /\ f \in Range(d) /\ Tail(d) \in Seq(Fetch) /\ Range(Tail(d)) = Range(d) \ {f}
        /\ Len(d) = 1 <=> Tail(d) = <<>>
    BY <1>4, TailContents
  <2>2. Range(d) \subseteq Fetch /\ (Range(Tail(d)) = {} <=> Tail(d) = <<>>)
    BY <1>4, <2>1, SeqContents
  <2> QED BY <2>1, <2>2
<1>6. /\ \A c \in Block \ {b} : m_data'[c] = m_data[c]
      /\ Range(m_data'[b]) = Range(m_data[b]) \ {f}
  BY <1>0, <1>2, <1>3, <1>5 DEF TypeOK
<1>7. f \notin WritesBelow /\ mf[f].type \in ReadType
  BY <1>0, <1>2, <1>5 DEF WritesBelow, TrackedOnce, Listed
<1>8. f \notin Range(m_miss_queue) \cup below
  <2>1. ~waiting_for_fill(f)
    BY <1>0, <1>2, <1>4, <1>5, FieldsType DEF TrackedOnce, Pending, Listed
  <2> QED BY <1>0, <1>5, <1>7, <2>1 DEF TrackedOnce
<1> HIDE DEF f, d
<1>9. WritesBelow' = WritesBelow
  BY <1>0, <1>3, <1>5, <1>7, <1>8, SameWrites
<1>10. AskedBlocks' = AskedBlocks
  BY <1>3 DEF AskedBlocks, Pending, waiting_for_fill
<1>11. UNCHANGED <<PresentBlocks, DirtyData>>
  BY <1>3 DEF PresentBlocks, DirtyData, DirtyBlocks
<1>12. \A c \in Block : /\ c # b => (Draining(c)' <=> Draining(c))
                        /\ c = b => Draining(c) /\ (Draining(c)' <=> Range(m_data'[c]) # {})
  BY <1>2, <1>3, <1>5, <1>6 DEF Draining, d
<1>13. f \in ServedOf[b] /\ ServedOf' = [ServedOf EXCEPT ![b] = @ \ {f}]
  BY <1>2, <1>5, <1>6, <1>12 DEF ServedOf, d
<1>14. WaitingOf' = WaitingOf
  BY <1>2, <1>6, <1>12 DEF WaitingOf
<1>15. Abstract!Answer(f, b)
  BY <1>3, <1>9, <1>10, <1>11, <1>13, <1>14 DEF Abstract!Answer
<1> QED BY <1>2, <1>5, <1>15

\* Every step of the cache is a step AbstractCache allows, or none.
LEMMA StepRefines ==
  ASSUME Ground, DirtyKept, [Next]_vars
  PROVE  [Abstract!Next]_(Abstract!vars)
<1>1. ASSUME NEW b \in Block, NEW l \in Line,
             ReadHit(b, l) \/ WriteHitKeep(b, l) \/ WriteHitSend(b, l)
      PROVE  Abstract!Next
  BY <1>1, ReadHitRefines, WriteHitKeepRefines, WriteHitSendRefines DEF Abstract!Next
<1>2. ASSUME NEW b \in Block, NEW l \in Line, NEW st \in MissStatus, WriteMissNoAllocate(b, st, l)
      PROVE  Abstract!Next
  BY <1>2, WriteMissNoAllocateRefines DEF Abstract!Next
<1>3. ASSUME NEW b \in Block, NEW l \in Line, NEW st \in MissStatus, NEW wb \in IdleFetch,
             ReadMiss(b, st, l, wb)
      PROVE  Abstract!Next
  BY <1>3, ReadMissRefines DEF Abstract!Next, IdleFetch
<1>4. ASSUME NEW b \in Block, NEW l \in Line, NEW st \in MissStatus,
             NEW n \in IdleFetch, NEW wb \in IdleFetch, n # wb, WriteMissAllocate(b, st, l, n, wb)
      PROVE  Abstract!Next
  BY <1>4, WriteMissAllocateRefines DEF Abstract!Next, IdleFetch
<1>5. CASE UNCHANGED vars
  BY <1>5, SameDeliveries DEF vars, Abstract!vars, PresentBlocks, DirtyData, DirtyBlocks, WritesBelow
<1>6. ASSUME NEW b \in Block, ReservationFail(b) PROVE UNCHANGED vars
  BY <1>6 DEF ReservationFail
<1>7. ASSUME NEW f \in Fetch, NEW t \in AccessTypes, NEW b \in Block, Offer(f, t, b)
      PROVE  Abstract!Next
  BY <1>7, OfferRefines DEF Abstract!Next
<1>8. ASSUME NEW f \in Fetch, WriteDone(f) PROVE Abstract!Next
  BY <1>8, WriteDoneRefines DEF Abstract!Next
<1>9. ASSUME NEW f \in Fetch, NEW l \in Line, Fill(f, l) PROVE Abstract!Next
  BY <1>9, FillRefines DEF Abstract!Next
<1>10. ASSUME NextAccess PROVE Abstract!Next
  BY <1>10, NextAccessRefines DEF Abstract!Next
<1>11. ASSUME Flush PROVE Abstract!Next
  BY <1>11, FlushRefines DEF Abstract!Next
<1>12. ASSUME Cycle PROVE UNCHANGED Abstract!vars
  BY <1>12, CycleRefines
<1> QED BY <1>1, <1>2, <1>3, <1>4, <1>5, <1>6, <1>7, <1>8, <1>9, <1>10, <1>11, <1>12 DEF Next, Access

\* The cache does what AbstractCache promises its caller, for every number of
\* blocks, sets, ways, MSHR entries, queue places and mem_fetch objects: hits are
\* served from delivered data, a block is asked for once, each accepted access is
\* answered once by the delivery it waited for, dirty data leaves in a write.
\* The hypotheses are those under which TLC finds no counterexample on any
\* combination of policies; each excluded combination has one.
THEOREM RefinementCorrect == ASSUME FlushIsSafe, DirtyKept PROVE Spec => ImplementsAbstractCache
<1>1. Ground /\ [Next]_vars => [Abstract!Next]_(Abstract!vars)
  BY StepRefines
<1> QED BY <1>1, InitRefines, GroundCorrect, PTL DEF Spec, ImplementsAbstractCache, Abstract!Spec

-----------------------------------------------------------------------------
(* Dirty lines *)

\* The step queues a write of block c.
Queues(c) == \E i \in DOMAIN m_miss_queue' : /\ i > Len(m_miss_queue)
                                             /\ mf'[m_miss_queue'[i]].block = c
                                             /\ mf'[m_miss_queue'[i]].type \in {"WRBK", "WRITE"}

\* A fetch appended to the miss queue, directly or after others, is new in it.
LEMMA QueuedLast ==
  ASSUME NEW q \in Seq(Fetch), NEW f \in Fetch, NEW c, m_miss_queue \in Seq(Fetch),
         m_miss_queue' = Append(q, f), Len(q) >= Len(m_miss_queue),
         mf'[f].block = c, mf'[f].type \in {"WRBK", "WRITE"}
  PROVE  Queues(c)
<1>1. /\ Len(q) + 1 \in DOMAIN m_miss_queue' /\ m_miss_queue'[Len(q) + 1] = f
      /\ Len(q) + 1 > Len(m_miss_queue)
  OBVIOUS
<1> QED BY <1>1 DEF Queues

\* A miss that replaces a dirty line queues its write-back.
LEMMA MissQueues ==
  ASSUME Ground, NEW b \in Block, NEW l \in Line, NEW st, NEW do, NEW f \in Fetch, NEW wb \in Fetch,
         NEW q \in Seq(Fetch), NEW reqs \in [Fetch -> Request \cup {Idle}],
         Len(q) >= Len(m_miss_queue), SendReadRequest(f, b, st, l, do, q, wb),
         mf' = WithWriteBack(reqs, st, l, wb), WritePolicy # "WRITE_THROUGH",
         NEW k \in Line, m_lines[k].status = "MODIFIED", m_lines'[k] # m_lines[k]
  PROVE  Queues(m_lines[k].block)
<1>0. TypeOK
  BY DEF Ground, Core
<1>1. TagAccess(b, st, l)
  BY DEF SendReadRequest
<1>2. /\ st = "MISS" /\ AllocPolicy = "ON_MISS"
      /\ m_lines' = [m_lines EXCEPT ![l] = [status |-> "RESERVED", block |-> b]]
  BY <1>1 DEF TagAccess, tagVars
<1>3. k = l
  BY <1>0, <1>2 DEF TypeOK
<1>4. Dirty(st, l)
  BY <1>2, <1>3 DEF Dirty
<1> DEFINE q2 == IF do = "send" THEN Append(q, f) ELSE q
<1>5. m_miss_queue' = Append(q2, wb)
  BY <1>4 DEF SendReadRequest
<1>6. q2 \in Seq(Fetch) /\ Len(q2) >= Len(m_miss_queue) /\ m_miss_queue \in Seq(Fetch)
  <2>1. Len(Append(q, f)) = Len(q) + 1 /\ Append(q, f) \in Seq(Fetch)
    BY AppendContents
  <2>2. Len(q) \in Nat /\ m_miss_queue \in Seq(Fetch) /\ Len(m_miss_queue) \in Nat
    BY <1>0 DEF TypeOK
  <2> QED BY <2>1, <2>2
<1>7. mf'[wb] = [type |-> "WRBK", block |-> m_lines[l].block]
  BY <1>4 DEF WithWriteBack
<1>8. mf'[wb].type \in {"WRBK", "WRITE"} /\ mf'[wb].block = m_lines[k].block
  BY <1>3, <1>7
<1> HIDE DEF q2
<1> QED BY <1>5, <1>6, <1>8, QueuedLast

\* Marking a hit line leaves a dirty line as it is.
LEMMA HitKeepsDirty ==
  ASSUME TypeOK, NEW l \in Line, m_lines' = [m_lines EXCEPT ![l].status = "MODIFIED"],
         NEW k \in Line, m_lines[k].status = "MODIFIED"
  PROVE  m_lines'[k] = m_lines[k]
<1>1. m_lines[k] \in LineState
  BY DEF TypeOK
<1>2. [m_lines[k] EXCEPT !.status = "MODIFIED"] = m_lines[k]
  BY <1>1 DEF LineState
<1> QED BY <1>2 DEF TypeOK

\* In a cache that writes back, every step but a flush that changes a dirty line
\* queues the data: a write-back for a line that is replaced, the write itself for
\* one that it evicts.  A fill changes no dirty line: it finds the line reserved
\* for it (FillTarget).
THEOREM WriteBackCorrect == ASSUME FlushIsSafe, DirtyKept PROVE Spec => DirtyWrittenBack
<1>1. ASSUME Ground, [Next]_vars, ~Flush, NEW k \in Line, m_lines[k].status = "MODIFIED",
             WritePolicy \in {"WRITE_BACK", "LOCAL_WB_GLOBAL_WT"}, m_lines'[k] # m_lines[k]
      PROVE  Queues(m_lines[k].block)
  <2>0. Core /\ TypeOK /\ Tags /\ FillTarget /\ m_miss_queue \in Seq(Fetch) /\ Len(m_miss_queue) \in Nat
        /\ mf \in [Fetch -> Request \cup {Idle}]
    BY <1>1 DEF Ground, Core, Tags, TypeOK
  <2>1. ASSUME NEW b \in Block, NEW l \in Line, ReadHit(b, l) \/ WriteHitKeep(b, l) PROVE FALSE
    BY <1>1, <2>0, <2>1, HitKeepsDirty DEF ReadHit, WriteHitKeep
  <2>2. ASSUME NEW b \in Block, NEW l \in Line, WriteHitSend(b, l) PROVE Queues(m_lines[k].block)
    <3>1. /\ probe(b, "HIT", l) /\ PortWrite(b) /\ m_miss_queue' = Append(m_miss_queue, port)
          /\ mf' = mf /\ \E s : m_lines' = [m_lines EXCEPT ![l].status = s]
      BY <2>2 DEF WriteHitSend
    <3>2. k = l /\ m_lines[l].block = b
      BY <1>1, <2>0, <3>1, ProbeLine DEF TypeOK
    <3>3. port \in Fetch /\ mf'[port].block = m_lines[k].block /\ mf'[port].type \in {"WRBK", "WRITE"}
      BY <2>0, <3>1, <3>2 DEF TypeOK, PortWrite
    <3>4. Len(m_miss_queue) >= Len(m_miss_queue)
      BY <2>0
    <3> QED BY <2>0, <3>1, <3>3, <3>4, QueuedLast
  <2>3. ASSUME NEW b \in Block, NEW l \in Line, NEW st \in MissStatus, NEW wb \in IdleFetch,
               ReadMiss(b, st, l, wb)
        PROVE  Queues(m_lines[k].block)
    <3>1. PICK do : SendReadRequest(port, b, st, l, do, m_miss_queue, wb)
      BY <2>3 DEF ReadMiss
    <3>2. port \in Fetch /\ wb \in Fetch /\ mf' = WithWriteBack(mf, st, l, wb)
      BY <2>0, <2>3 DEF ReadMiss, PortRead, TypeOK, IdleFetch
    <3>3. Len(m_miss_queue) >= Len(m_miss_queue) /\ WritePolicy # "WRITE_THROUGH"
      BY <1>1, <2>0
    <3> QED BY <1>1, <2>0, <3>1, <3>2, <3>3, MissQueues
  <2>4. ASSUME NEW b \in Block, NEW l \in Line, NEW st \in MissStatus,
               NEW n \in IdleFetch, NEW wb \in IdleFetch, n # wb, WriteMissAllocate(b, st, l, n, wb)
        PROVE  Queues(m_lines[k].block)
    <3>1. PICK do \in {"merge", "send"}, q \in Seq(Fetch), reqs \in [Fetch -> Request \cup {Idle}] :
            /\ q = Append(m_miss_queue, port) /\ n \in Fetch /\ wb \in Fetch
            /\ SendReadRequest(n, b, st, l, do, q, wb)
            /\ mf' = WithWriteBack(reqs, st, l, wb)
      BY <2>0, <2>4, WriteMissReady
    <3>2. port \in Fetch
      BY <2>0, <2>4 DEF WriteMissAllocate, PortWrite, TypeOK
    <3>3. Len(q) >= Len(m_miss_queue) /\ WritePolicy # "WRITE_THROUGH"
      BY <1>1, <2>0, <3>1, <3>2
    <3> QED BY <1>1, <3>1, <3>3, MissQueues
  <2>5. ASSUME NEW f \in Fetch, NEW l \in Line, Fill(f, l) PROVE FALSE
    <3>1. AllocPolicy = "ON_MISS"
      BY <1>1, ConfigAssumption DEF DirtyKept
    <3>2. m_lines[l].status = "RESERVED"
      <4>1. waiting_for_fill(f) /\ l = m_extra_mf_fields[f].m_cache_index /\ Target(f)
        BY <2>0, <2>5, <3>1, FillTargetByFetch DEF Fill
      <4>2. m_lines[l] = [status |-> "RESERVED", block |-> m_extra_mf_fields[f].m_block_addr]
        BY <3>1, <4>1 DEF Target
      <4> QED BY <4>2
    <3> QED BY <1>1, <2>0, <2>5, <3>1, <3>2 DEF Fill, TypeOK
  <2>6. ASSUME UNCHANGED m_lines PROVE FALSE
    BY <1>1, <2>6
  <2>7. ASSUME \/ \E f \in Fetch, t \in AccessTypes, b \in Block : Offer(f, t, b)
               \/ \E b \in Block, l \in Line, st \in MissStatus : WriteMissNoAllocate(b, st, l)
               \/ \E b \in Block : ReservationFail(b)
               \/ Cycle \/ NextAccess \/ UNCHANGED vars
               \/ \E f \in Fetch : WriteDone(f)
        PROVE  UNCHANGED m_lines
    BY <2>7 DEF Offer, WriteMissNoAllocate, ReservationFail, Cycle, NextAccess, WriteDone, vars, tagVars
  <2> QED BY <1>1, <2>1, <2>2, <2>3, <2>4, <2>5, <2>6, <2>7 DEF Next, Access
<1>2. Ground /\ [Next]_vars =>
        [Flush \/ \A l \in Line :
           /\ WritePolicy \in {"WRITE_BACK", "LOCAL_WB_GLOBAL_WT"}
           /\ m_lines[l].status = "MODIFIED"
           /\ m_lines'[l] # m_lines[l]
           => \E i \in DOMAIN m_miss_queue' :
                /\ i > Len(m_miss_queue)
                /\ mf'[m_miss_queue'[i]].block = m_lines[l].block
                /\ mf'[m_miss_queue'[i]].type \in {"WRBK", "WRITE"}]_vars
  BY <1>1 DEF Queues
<1> QED BY <1>2, GroundCorrect, PTL DEF Spec, DirtyWrittenBack
=============================================================================
