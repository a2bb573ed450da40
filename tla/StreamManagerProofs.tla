-------------------------- MODULE StreamManagerProofs --------------------------
(***************************************************************************)
(* The safety properties of StreamManager, for any number of host threads, *)
(* streams, kernel slots, CTAs and operations: TypeOK, ZeroExclusive,      *)
(* GridRegistered and PushSynchronous, and SyncedIdle for a program with   *)
(* one host thread.                                                        *)
(***************************************************************************)
EXTENDS StreamManager, SequenceTheorems, WellFoundedInduction, TLAPS

\* Host thread h is in push() and has not queued its operation yet.
Pushing(h) == pc[h] \in {"block", "enqueue"}

TypeInv ==
  /\ TypeOK
  /\ m_streams \in Seq(Stream)
  /\ DOMAIN pc = Host /\ DOMAIN call = Host
  /\ m_done \in [Event -> BOOLEAN]
  /\ \A h \in Host : Pushing(h) \/ pc[h] = "wait" =>
       call[h] \in [op : Op, stream : Queue, event : Event]

\* An operation is queued once: its uid is in one place of one stream, or with
\* the one thread that is about to queue it, and uids are not given twice.
UidInv ==
  /\ \A q, r \in Queue : \A i \in DOMAIN m_operations[q], j \in DOMAIN m_operations[r] :
       m_operations[q][i].uid = m_operations[r][j].uid => q = r /\ i = j
  /\ \A q \in Queue : \A i \in DOMAIN m_operations[q] : m_operations[q][i].uid < next_uid
  /\ \A h \in Host : Pushing(h) =>
       /\ call[h].op.uid < next_uid
       /\ \A q \in Queue : \A i \in DOMAIN m_operations[q] :
            m_operations[q][i].uid # call[h].op.uid
       /\ \A g \in Host : Pushing(g) /\ call[g].op.uid = call[h].op.uid => g = h

\* A stream is pending while the operation at its front is performed, which only
\* happens to stream zero and to streams that exist; m_service_stream_zero
\* keeps the two apart.
PendingInv ==
  /\ \A q \in Queue : m_pending[q] => m_operations[q] # <<>>
  /\ \A s \in Stream : m_pending[s] => s \in ToSet(m_streams)
  /\ m_pending[Zero] => m_service_stream_zero
  /\ m_service_stream_zero => \A s \in Stream : ~m_pending[s]

\* A kernel is in the slots or among the finished ones, once; a CTA that runs
\* belongs to a kernel in a slot unless a limit has ended the simulation.
KernelInv ==
  /\ Running \cap ToSet(m_finished_kernel) = {}
  /\ \A i, j \in DOMAIN m_finished_kernel : m_finished_kernel[i] = m_finished_kernel[j] => i = j
  /\ \A u \in Uid : /\ ctas[u].left + ctas[u].running <= Ctas
                    /\ ~cycle_insn_cta_max_hit /\ ctas[u].running > 0 => u \in Running

\* The operation a thread waits for is performed or still in stream zero.
WaitInv ==
  \A h \in Host : pc[h] = "wait" =>
    \/ call[h].op.uid \in completed
    \/ \E i \in DOMAIN m_operations[Zero] : m_operations[Zero][i].uid = call[h].op.uid

\* The inductive invariant.  GridRegistered needs all of it: register_finished_kernel
\* takes the front of a stream, which is the finished kernel only if no kernel is
\* registered twice, and that rests on the uids and on the slots.
IInv == TypeInv /\ UidInv /\ PendingInv /\ GridRegistered /\ KernelInv /\ WaitInv

\* Operation u is in a queue that is served.
Queued(u) == \E q \in ToSet(m_streams) \cup {Zero} :
               \E i \in DOMAIN m_operations[q] : m_operations[q][i].uid = u

\* What a single host thread can rely on: where the simulation thread is.
\* g_sim_active says it, except between the wait for work and the work; it waits
\* only when the GPU is inactive, and leaves the wait only for work or when the
\* program ends.
SimWhere ==
  /\ sim_pc \in {"spin", "activate", "exited", "check", "serve", "cycle", "test", "stop"}
  /\ ~g_sim_active <=> sim_pc \in {"spin", "activate", "exited"}
  /\ sim_pc \in {"spin", "activate", "exited", "stop"} => ~active
  /\ sim_pc = "activate" => ~empty \/ g_sim_done
  /\ sim_pc \in {"spin", "activate"} /\ g_sim_done => \E h \in Host : pc[h] \in {"exit", "gone"}
  /\ \A h \in Host : pc[h] = "synced" => empty /\ sim_pc \in {"spin", "exited"}

\* ... and that no operation is lost.
Accounted ==
  /\ \A h \in Host : Pushing(h) => call[h].stream \in ToSet(m_streams) \cup {Zero}
  /\ \A u \in 1 .. next_uid - 1 :
       u \in completed \/ Queued(u) \/ \E h \in Host : Pushing(h) /\ call[h].op.uid = u

-----------------------------------------------------------------------------
(* Sequences *)

\* What a queue holds after its front is taken, and after an element is added.
LEMMA TailSeq ==
  ASSUME NEW S, NEW s \in Seq(S), s # <<>>
  PROVE  /\ Tail(s) \in Seq(S) /\ Head(s) \in S /\ Head(s) = s[1] /\ 1 \in DOMAIN s
         /\ \A i \in DOMAIN Tail(s) : i + 1 \in DOMAIN s /\ Tail(s)[i] = s[i + 1]
         /\ \A i \in DOMAIN s : i = 1 \/ (i - 1 \in DOMAIN Tail(s) /\ Tail(s)[i - 1] = s[i])
OBVIOUS

LEMMA AppendSeq ==
  ASSUME NEW S, NEW s \in Seq(S), NEW e \in S
  PROVE  /\ Append(s, e) \in Seq(S) /\ Append(s, e) # <<>>
         /\ DOMAIN Append(s, e) = DOMAIN s \cup {Len(s) + 1} /\ Len(s) + 1 \notin DOMAIN s
         /\ \A i \in DOMAIN s : Append(s, e)[i] = s[i]
         /\ Append(s, e)[Len(s) + 1] = e
         /\ s # <<>> => Head(Append(s, e)) = Head(s)
         /\ ToSet(Append(s, e)) = ToSet(s) \cup {e}
<1>1. /\ Append(s, e) \in Seq(S) /\ Append(s, e) # <<>> /\ Len(Append(s, e)) = Len(s) + 1
      /\ \A i \in 1 .. Len(s) : Append(s, e)[i] = s[i]
      /\ Append(s, e)[Len(s) + 1] = e
  BY AppendProperties
<1>2. Len(s) \in Nat /\ DOMAIN s = 1 .. Len(s)
  OBVIOUS
<1>3. DOMAIN Append(s, e) = 1 .. Len(s) + 1
  BY <1>1, <1>2, LenProperties
<1>4. s # <<>> => Head(Append(s, e)) = Head(s)
  BY HeadTailAppend
<1>5. ToSet(Append(s, e)) = ToSet(s) \cup {e}
  BY <1>1, <1>2, <1>3 DEF ToSet
<1> QED BY <1>1, <1>2, <1>3, <1>4, <1>5

\* A set of naturals that is not empty has a least element.
LEMMA NatMin ==
  ASSUME NEW T \in SUBSET Nat, T # {}
  PROVE  Min(T) \in T
<1>0. IsWellFoundedOn({ss \in Nat \X Nat : ss[1] < ss[2]}, Nat)
  BY NatLessThanWellFounded, Zenon DEF OpToRel
<1>1. PICK x \in T : \A y \in T : ~(<<y, x>> \in {ss \in Nat \X Nat : ss[1] < ss[2]})
  BY <1>0, WFMin
<1>2. ASSUME NEW y \in T PROVE x <= y
  <2>1. y \in Nat /\ x \in Nat /\ <<y, x>> \in Nat \X Nat
    OBVIOUS
  <2>2. ~(y < x)
    BY <1>1, <2>1
  <2> QED BY <2>1, <2>2
<1> QED BY <1>2 DEF Min

\* A sequence without its k-th element.
LEMMA WithoutElement ==
  ASSUME NEW S, NEW s \in Seq(S), NEW k \in 1 .. Len(s)
  PROVE  /\ RemoveAt(s, k) \in Seq(S) /\ Len(RemoveAt(s, k)) = Len(s) - 1
         /\ \A i \in 1 .. Len(s) - 1 : RemoveAt(s, k)[i] = IF i < k THEN s[i] ELSE s[i + 1]
<1> DEFINE a == SubSeq(s, 1, k-1)
           b == SubSeq(s, k+1, Len(s))
<1>0. Len(s) \in Nat /\ \A i \in 1 .. Len(s) : s[i] \in S
  OBVIOUS
<1>1. a \in Seq(S) /\ Len(a) = k - 1 /\ \A i \in 1 .. k-1 : a[i] = s[i]
  BY <1>0, SubSeqProperties
<1>2. b \in Seq(S) /\ Len(b) = Len(s) - k /\ \A i \in 1 .. Len(s) - k : b[i] = s[i + k]
  BY <1>0, SubSeqProperties
<1> HIDE DEF a, b
<1>3. /\ a \o b \in Seq(S) /\ Len(a \o b) = Len(s) - 1
      /\ \A i \in 1 .. Len(s) - 1 : (a \o b)[i] = IF i <= k - 1 THEN a[i] ELSE b[i - (k - 1)]
  BY <1>0, <1>1, <1>2, ConcatProperties
<1>4. \A i \in 1 .. Len(s) - 1 : (a \o b)[i] = IF i < k THEN s[i] ELSE s[i+1]
  <2> TAKE i \in 1 .. Len(s) - 1
  <2>1. CASE i < k
    BY <1>0, <1>1, <1>3, <2>1
  <2>2. CASE i >= k
    <3>1. i - (k - 1) \in 1 .. Len(s) - k /\ i - (k - 1) + k = i + 1 /\ ~(i <= k - 1)
      BY <1>0, <2>2
    <3>2. b[i - (k - 1)] = s[i + 1]
      BY <1>2, <3>1
    <3>3. (a \o b)[i] = b[i - (k - 1)]
      BY <1>3, <3>1
    <3>4. ~(i < k)
      BY <2>2, <1>0
    <3> QED BY <3>2, <3>3, <3>4, Zenon
  <2>3. i < k \/ i >= k
    BY <1>0
  <2> QED BY <2>1, <2>2, <2>3, Zenon
<1> QED BY <1>3, <1>4 DEF a, b, RemoveAt

\* erase() takes one stream out of the list and leaves the others.
LEMMA EraseStream ==
  ASSUME NEW S, NEW s \in Seq(S), NEW e
  PROVE  /\ RemoveFirst(s, e) \in Seq(S)
         /\ ToSet(RemoveFirst(s, e)) \subseteq ToSet(s)
         /\ ToSet(s) \subseteq ToSet(RemoveFirst(s, e)) \cup {e}
<1>1. CASE \E i \in 1 .. Len(s) : s[i] = e
  <2> DEFINE I == {i \in 1 .. Len(s) : s[i] = e}
             k == Min(I)
             t == RemoveAt(s, k)
  <2>1. k \in I
    <3>1. I \in SUBSET Nat /\ I # {}
      BY <1>1
    <3> QED BY <3>1, NatMin
  <2>2. RemoveFirst(s, e) = t
    BY <1>1 DEF RemoveFirst, SelectInSeq
  <2> HIDE DEF k, t
  <2>3. k \in 1 .. Len(s) /\ s[k] = e
    BY <2>1
  <2>4. /\ t \in Seq(S) /\ Len(t) = Len(s) - 1
        /\ \A i \in 1 .. Len(s) - 1 : t[i] = IF i < k THEN s[i] ELSE s[i + 1]
    BY <2>3, WithoutElement DEF t
  <2>5. ToSet(t) \subseteq ToSet(s)
    BY <2>3, <2>4 DEF ToSet
  <2>6. \A i \in DOMAIN s : i = k \/ (i < k /\ i \in DOMAIN t /\ t[i] = s[i])
                                \/ (i > k /\ i - 1 \in DOMAIN t /\ t[i - 1] = s[i])
    BY <2>3, <2>4
  <2>7. ToSet(s) \subseteq ToSet(t) \cup {e}
    BY <2>3, <2>6 DEF ToSet
  <2> QED BY <2>2, <2>4, <2>5, <2>7
<1>2. CASE ~\E i \in 1 .. Len(s) : s[i] = e
  BY <1>2 DEF RemoveFirst
<1> QED BY <1>1, <1>2
-----------------------------------------------------------------------------
(* Frames: what a step that leaves some variables alone preserves *)

LEMMA SameQueues ==
  ASSUME IInv, UNCHANGED <<m_operations, next_uid>>, completed \subseteq completed',
         \A h \in Host : /\ Pushing(h)' => Pushing(h) /\ call'[h] = call[h]
                         /\ pc'[h] = "wait" => pc[h] = "wait" /\ call'[h] = call[h]
  PROVE  UidInv' /\ WaitInv'
<1>0. UidInv /\ WaitInv
  BY DEF IInv
<1>1. UidInv'
  <2>1. ASSUME NEW h \in Host, Pushing(h)'
        PROVE  /\ call'[h].op.uid < next_uid'
               /\ \A q \in Queue : \A i \in DOMAIN m_operations'[q] :
                    m_operations'[q][i].uid # call'[h].op.uid
               /\ \A g \in Host : Pushing(g)' /\ call'[g].op.uid = call'[h].op.uid => g = h
    <3>1. Pushing(h) /\ call'[h] = call[h]
      BY <2>1 DEF Pushing
    <3> QED BY <1>0, <3>1 DEF UidInv, Pushing
  <2> QED BY <1>0, <2>1 DEF UidInv
<1>2. WaitInv'
  BY <1>0 DEF WaitInv, Pushing
<1> QED BY <1>1, <1>2

LEMMA SamePending ==
  ASSUME IInv, UNCHANGED <<m_operations, m_pending, m_streams, m_service_stream_zero>>
  PROVE  PendingInv'
BY DEF IInv, PendingInv

LEMMA SameRegistered ==
  ASSUME IInv, UNCHANGED <<m_operations, m_pending, m_grid_id_to_stream, m_running_kernels,
                           m_finished_kernel>>
  PROVE  GridRegistered'
BY DEF IInv, GridRegistered, StartedAt, Running

\* A limit once reached stays reached.
LEMMA SameKernels ==
  ASSUME IInv, UNCHANGED <<m_running_kernels, m_finished_kernel, ctas>>,
         cycle_insn_cta_max_hit => cycle_insn_cta_max_hit'
  PROVE  KernelInv'
BY DEF IInv, KernelInv, Running

\* The operations at the front of the streams Q are performed.
LEMMA PopFronts ==
  ASSUME IInv, NEW Q \in SUBSET Queue, \A q \in Q : m_operations[q] # <<>>,
         m_operations' = [q \in Queue |-> IF q \in Q THEN Tail(m_operations[q]) ELSE m_operations[q]],
         completed \cup {Head(m_operations[q]).uid : q \in Q} \subseteq completed',
         UNCHANGED <<pc, call, next_uid>>
  PROVE  m_operations' \in [Queue -> Seq(Op)] /\ UidInv' /\ WaitInv'
<1>0. m_operations \in [Queue -> Seq(Op)] /\ UidInv /\ WaitInv
  BY DEF IInv, TypeInv, TypeOK
<1>1. m_operations' \in [Queue -> Seq(Op)]
  BY <1>0, TailSeq
<1>2. \A q \in Queue : \A i \in DOMAIN m_operations'[q] :
        \E k \in {i, i + 1} : /\ k \in DOMAIN m_operations[q] /\ m_operations'[q][i] = m_operations[q][k]
                             /\ k = IF q \in Q THEN i + 1 ELSE i
  BY <1>0, TailSeq
<1>3. \A q \in Queue : \A i \in DOMAIN m_operations'[q] : i \in Nat
  BY <1>1
<1>4. UidInv'
  <2>1. ASSUME NEW q \in Queue, NEW r \in Queue, NEW i \in DOMAIN m_operations'[q],
               NEW j \in DOMAIN m_operations'[r], m_operations'[q][i].uid = m_operations'[r][j].uid
        PROVE  q = r /\ i = j
    BY <1>0, <1>2, <1>3, <2>1 DEF UidInv
  <2>2. \A q \in Queue : \A i \in DOMAIN m_operations'[q] : m_operations'[q][i].uid < next_uid'
    BY <1>0, <1>2 DEF UidInv
  <2>3. ASSUME NEW h \in Host, Pushing(h)'
        PROVE  \A q \in Queue : \A i \in DOMAIN m_operations'[q] :
                 m_operations'[q][i].uid # call'[h].op.uid
    BY <1>0, <1>2, <2>3 DEF UidInv, Pushing
  <2> QED BY <1>0, <2>1, <2>2, <2>3 DEF UidInv, Pushing
<1>5. WaitInv'
  <2> SUFFICES ASSUME NEW h \in Host, pc[h] = "wait"
               PROVE  \/ call[h].op.uid \in completed'
                      \/ \E i \in DOMAIN m_operations'[Zero] :
                           m_operations'[Zero][i].uid = call[h].op.uid
    BY DEF WaitInv
  <2>1. CASE call[h].op.uid \in completed
    BY <2>1
  <2>2. ASSUME NEW i \in DOMAIN m_operations[Zero], m_operations[Zero][i].uid = call[h].op.uid
        PROVE  \/ call[h].op.uid \in completed'
               \/ \E k \in DOMAIN m_operations'[Zero] : m_operations'[Zero][k].uid = call[h].op.uid
    <3>1. Zero \in Queue
      BY DEF Queue
    <3>2. CASE Zero \in Q
      <4>1. m_operations'[Zero] = Tail(m_operations[Zero]) /\ m_operations[Zero] # <<>>
        BY <3>1, <3>2
      <4>2. \/ i = 1 /\ Head(m_operations[Zero]).uid = call[h].op.uid
            \/ i - 1 \in DOMAIN m_operations'[Zero] /\ m_operations'[Zero][i - 1].uid = call[h].op.uid
        BY <1>0, <2>2, <3>1, <4>1, TailSeq
      <4> QED BY <3>2, <4>2
    <3>3. CASE Zero \notin Q
      BY <2>2, <3>1, <3>3
    <3> QED BY <3>2, <3>3
  <2> QED BY <1>0, <2>1, <2>2 DEF WaitInv
<1> QED BY <1>1, <1>4, <1>5
-----------------------------------------------------------------------------
(* The steps of the simulation thread *)

LEMMA InitIInv == Init => IInv
<1> SUFFICES ASSUME Init PROVE IInv
  OBVIOUS
<1> USE StreamAssumption
<1>1. Running = {} /\ ToSet(m_finished_kernel) = {} /\ ToSet(m_streams) = {}
  BY DEF Init, Running, ToSet
<1>2. TypeInv
  <2>1. TypeOK
    <3>1. /\ ToSet(m_streams) \subseteq created /\ created \subseteq Stream /\ recorded \subseteq Event
          /\ m_operations \in [Queue -> Seq(Op)] /\ m_lock \in Host \cup {NoThread, SimThread}
          /\ m_grid_id_to_stream \in [Uid -> Queue \cup {NoStream}] /\ completed \subseteq Uid
          /\ m_running_kernels \in [Slot -> Uid \cup {0}] /\ m_finished_kernel \in Seq(Uid)
      BY <1>1 DEF Init
    <3>2. /\ m_pending \in [Queue -> BOOLEAN] /\ m_service_stream_zero \in BOOLEAN
          /\ {traffic, limit_hit, check, sim_cycles, g_sim_active, g_sim_done} \subseteq BOOLEAN
      BY Zenon DEF Init
    <3>3. /\ ctas \in [Uid -> [left : 0 .. Ctas, running : 0 .. Ctas]]
          /\ issued_cta \in [run : Nat, total : Nat] /\ next_uid \in 1 .. MaxOps + 1
      BY DEF Init
    <3> QED BY <3>1, <3>2, <3>3 DEF TypeOK
  <2> QED BY <2>1 DEF Init, TypeInv, Pushing
<1>3. UidInv /\ WaitInv
  BY DEF Init, UidInv, WaitInv, Pushing, Queue
<1>4. PendingInv
  BY DEF Init, PendingInv, Queue
<1>5. GridRegistered
  BY <1>1 DEF GridRegistered
<1>6. KernelInv
  BY <1>1 DEF Init, KernelInv
<1> QED BY <1>2, <1>3, <1>4, <1>5, <1>6 DEF IInv

LEMMA ControlStep ==
  ASSUME IInv, SimSpin \/ SimActivate \/ SimBreak \/ SimNoCycle \/ SimTest \/ SimStop
  PROVE  IInv'
<1> USE StreamAssumption
<1>0. TypeInv
  BY DEF IInv
<1>1. /\ UNCHANGED <<streamVars, m_lock, hostVars, m_done, completed, m_running_kernels,
                     m_finished_kernel, ctas, traffic, limit_hit, check, g_sim_done>>
      /\ issued_cta' \in [run : Nat, total : Nat] /\ issued_cta'.total >= issued_cta.total
      /\ sim_cycles' \in BOOLEAN /\ g_sim_active' \in BOOLEAN
  <2>0. /\ issued_cta \in [run : Nat, total : Nat]
        /\ sim_cycles \in BOOLEAN /\ g_sim_active \in BOOLEAN
    BY <1>0 DEF TypeInv, TypeOK
  <2>1. CASE SimSpin \/ SimBreak \/ SimNoCycle \/ SimTest
    BY <2>0, <2>1 DEF SimSpin, SimBreak, SimNoCycle, SimTest, gpuVars
  <2>2. CASE SimActivate
    <3>1. /\ UNCHANGED <<streamVars, m_lock, hostVars, m_done, completed, m_running_kernels,
                         m_finished_kernel, ctas, traffic, limit_hit, check, g_sim_done>>
          /\ sim_cycles' \in BOOLEAN /\ g_sim_active' \in BOOLEAN
      BY <2>2, Zenon DEF SimActivate
    <3>2. issued_cta' \in [run : Nat, total : Nat] /\ issued_cta'.total >= issued_cta.total
      BY <2>0, <2>2 DEF SimActivate
    <3> QED BY <3>1, <3>2
  <2>3. CASE SimStop
    <3>1. /\ UNCHANGED <<streamVars, m_lock, hostVars, m_done, completed, m_running_kernels,
                         m_finished_kernel, ctas, traffic, limit_hit, check, g_sim_done>>
          /\ sim_cycles' \in BOOLEAN /\ g_sim_active' \in BOOLEAN
      BY <2>0, <2>3, Zenon DEF SimStop
    <3>2. issued_cta' \in [run : Nat, total : Nat] /\ issued_cta'.total >= issued_cta.total
      BY <2>0, <2>3 DEF SimStop
    <3> QED BY <3>1, <3>2
  <2> QED BY <2>1, <2>2, <2>3
<1>2. TypeInv'
  BY <1>0, <1>1 DEF TypeInv, TypeOK, Pushing, streamVars, hostVars
<1>3. cycle_insn_cta_max_hit => cycle_insn_cta_max_hit'
  BY <1>0, <1>1 DEF cycle_insn_cta_max_hit, TypeInv, TypeOK
<1>4. UidInv' /\ WaitInv' /\ PendingInv' /\ GridRegistered' /\ KernelInv'
  BY <1>1, <1>3, SameQueues, SamePending, SameRegistered, SameKernels
     DEF streamVars, hostVars, Pushing
<1> QED BY <1>2, <1>4 DEF IInv

\* register_finished_kernel takes the kernels us, and nothing else, from the
\* front of their streams.
LEMMA RegisteredFronts ==
  ASSUME IInv, NEW us \in SUBSET (Running \cup ToSet(m_finished_kernel)), RegisterFinished(us)
  PROVE  LET Q == {m_grid_id_to_stream[u] : u \in us}
         IN  /\ Q \in SUBSET Queue
             /\ \A q \in Q : m_operations[q] # <<>>
             /\ m_operations' = [q \in Queue |-> IF q \in Q THEN Tail(m_operations[q]) ELSE m_operations[q]]
             /\ completed \cup {Head(m_operations[q]).uid : q \in Q} \subseteq completed'
<1> DEFINE Q == {m_grid_id_to_stream[u] : u \in us}
<1>1. \A q \in Q : q \in Queue /\ m_operations[q] # <<>> /\ Head(m_operations[q]).uid \in us
  BY DEF IInv, GridRegistered, StartedAt
<1>2. /\ m_operations' = [q \in Queue |-> IF q \in Q THEN Tail(m_operations[q]) ELSE m_operations[q]]
      /\ completed' = completed \cup us
  BY DEF RegisterFinished
<1> HIDE DEF Q
<1>3. completed \cup {Head(m_operations[q]).uid : q \in Q} \subseteq completed'
  BY <1>1, <1>2
<1> QED BY <1>1, <1>2, <1>3 DEF Q

\* register_finished_kernel: the kernels us leave the slots and the finished
\* ones, and each of them is the operation that its stream loses.
LEMMA Registered ==
  ASSUME IInv, NEW us \in SUBSET (Running \cup ToSet(m_finished_kernel)), RegisterFinished(us),
         UNCHANGED <<m_streams, m_service_stream_zero, pc, call, next_uid>>,
         Running' \cup ToSet(m_finished_kernel') \subseteq
           (Running \cup ToSet(m_finished_kernel)) \ us
  PROVE  /\ m_operations' \in [Queue -> Seq(Op)] /\ m_pending' \in [Queue -> BOOLEAN]
         /\ m_grid_id_to_stream' \in [Uid -> Queue \cup {NoStream}] /\ completed' \subseteq Uid
         /\ UidInv' /\ WaitInv' /\ PendingInv' /\ GridRegistered'
<1> DEFINE Q == {m_grid_id_to_stream[u] : u \in us}
<1>0. TypeOK /\ PendingInv /\ GridRegistered
  BY DEF IInv, TypeInv
<1>1. us \subseteq Uid
  <2>1. Running \subseteq Uid
    BY <1>0 DEF TypeOK, Running
  <2>2. ToSet(m_finished_kernel) \subseteq Uid
    BY <1>0 DEF TypeOK, ToSet
  <2> QED BY <2>1, <2>2
<1>2. /\ m_operations' = [q \in Queue |-> IF q \in Q THEN Tail(m_operations[q]) ELSE m_operations[q]]
      /\ m_pending' = [q \in Queue |-> IF q \in Q THEN FALSE ELSE m_pending[q]]
      /\ m_grid_id_to_stream' = [u \in Uid |-> IF u \in us THEN NoStream ELSE m_grid_id_to_stream[u]]
      /\ completed' = completed \cup us
  BY DEF RegisterFinished
<1>3. Q \in SUBSET Queue /\ \A q \in Q : m_operations[q] # <<>>
  BY <1>0 DEF GridRegistered, StartedAt
<1>4. \A q \in Q : Head(m_operations[q]).uid \in us
  BY <1>0 DEF GridRegistered, StartedAt
<1> HIDE DEF Q
<1>5. m_operations' \in [Queue -> Seq(Op)] /\ UidInv' /\ WaitInv'
  BY <1>2, <1>3, <1>4, PopFronts
<1>6. PendingInv'
  <2>1. \A q \in Queue : m_pending'[q] => m_pending[q] /\ m_operations'[q] = m_operations[q]
    BY <1>2
  <2>2. Zero \in Queue /\ Stream \subseteq Queue
    BY DEF Queue
  <2> QED BY <1>0, <2>1, <2>2 DEF PendingInv
<1>7. GridRegistered'
  <2> SUFFICES ASSUME NEW v \in Running' \cup ToSet(m_finished_kernel')
               PROVE  m_grid_id_to_stream'[v] \in Queue /\ StartedAt(v, m_grid_id_to_stream[v])'
    <3>1. ASSUME NEW w \in Running' \cup ToSet(m_finished_kernel')
          PROVE  m_grid_id_to_stream'[w] \in Queue /\ StartedAt(w, m_grid_id_to_stream[w])'
      OBVIOUS
    <3> QED BY DEF GridRegistered
  <2>1. v \in Running \cup ToSet(m_finished_kernel) /\ v \notin us
    OBVIOUS
  <2>2. m_grid_id_to_stream[v] \in Queue /\ StartedAt(v, m_grid_id_to_stream[v])
    BY <1>0, <2>1 DEF GridRegistered
  <2>3. v \in Uid
    BY <1>0, <2>1 DEF TypeOK, Running, ToSet
  <2>4. m_grid_id_to_stream'[v] = m_grid_id_to_stream[v]
    BY <1>2, <2>1, <2>3
  <2>5. m_grid_id_to_stream[v] \notin Q
    BY <1>4, <2>1, <2>2 DEF StartedAt
  <2>6. /\ m_operations'[m_grid_id_to_stream[v]] = m_operations[m_grid_id_to_stream[v]]
        /\ m_pending'[m_grid_id_to_stream[v]] = m_pending[m_grid_id_to_stream[v]]
    BY <1>2, <2>2, <2>5
  <2> QED BY <2>2, <2>4, <2>6 DEF StartedAt
<1>8. m_pending' \in [Queue -> BOOLEAN] /\ m_grid_id_to_stream' \in [Uid -> Queue \cup {NoStream}]
  BY <1>0, <1>2 DEF TypeOK
<1>9. completed' \subseteq Uid
  BY <1>0, <1>1, <1>2 DEF TypeOK
<1> QED BY <1>5, <1>6, <1>7, <1>8, <1>9

LEMMA CheckStep == ASSUME IInv, SimCheck PROVE IInv'
<1> USE StreamAssumption
<1>0. TypeInv /\ KernelInv
  BY DEF IInv
<1>1. /\ UNCHANGED <<m_streams, m_service_stream_zero, m_running_kernels, ctas, traffic, limit_hit,
                     issued_cta, sim_cycles, g_sim_active, g_sim_done, hostVars, m_done>>
      /\ check' \in BOOLEAN /\ m_lock' \in Host \cup {NoThread, SimThread}
  BY DEF SimCheck
<1>2. cycle_insn_cta_max_hit' = cycle_insn_cta_max_hit
  BY <1>1 DEF cycle_insn_cta_max_hit
<1>3. CASE m_finished_kernel = <<>>
  <2>1. UNCHANGED <<m_operations, m_pending, m_grid_id_to_stream, completed, m_finished_kernel>>
    BY <1>3 DEF SimCheck
  <2>2. TypeInv'
    BY <1>0, <1>1, <2>1 DEF TypeInv, TypeOK, Pushing, hostVars
  <2>3. UidInv' /\ WaitInv' /\ PendingInv' /\ GridRegistered' /\ KernelInv'
    BY <1>1, <1>2, <2>1, SameQueues, SamePending, SameRegistered, SameKernels DEF hostVars, Pushing
  <2> QED BY <2>2, <2>3 DEF IInv
<1>4. CASE m_finished_kernel # <<>>
  <2> DEFINE u == Head(m_finished_kernel)
  <2>1. m_finished_kernel' = Tail(m_finished_kernel) /\ RegisterFinished({u})
    BY <1>4 DEF SimCheck
  <2>2. m_finished_kernel \in Seq(Uid)
    BY <1>0 DEF TypeInv, TypeOK
  <2>3. m_finished_kernel' \in Seq(Uid) /\ u \in ToSet(m_finished_kernel)
    BY <1>4, <2>1, <2>2, TailSeq DEF ToSet
  <2>4. ToSet(m_finished_kernel') \subseteq ToSet(m_finished_kernel) \ {u}
    <3> SUFFICES ASSUME NEW i \in DOMAIN m_finished_kernel'
                 PROVE  m_finished_kernel'[i] \in ToSet(m_finished_kernel) \ {u}
      BY DEF ToSet
    <3>1. i + 1 \in DOMAIN m_finished_kernel /\ m_finished_kernel'[i] = m_finished_kernel[i + 1]
          /\ 1 \in DOMAIN m_finished_kernel /\ u = m_finished_kernel[1]
      BY <1>4, <2>1, <2>2, TailSeq
    <3>2. i + 1 # 1
      BY <2>3
    <3> QED BY <1>0, <3>1, <3>2 DEF KernelInv, ToSet
  <2>5. Running' = Running
    BY <1>1 DEF Running
  <2>6. u \notin Running
    BY <1>0, <2>3 DEF KernelInv
  <2> HIDE DEF u
  <2>7. Running' \cup ToSet(m_finished_kernel') \subseteq
          (Running \cup ToSet(m_finished_kernel)) \ {u}
    BY <2>4, <2>5, <2>6
  <2>8. /\ m_operations' \in [Queue -> Seq(Op)] /\ m_pending' \in [Queue -> BOOLEAN]
        /\ m_grid_id_to_stream' \in [Uid -> Queue \cup {NoStream}] /\ completed' \subseteq Uid
        /\ UidInv' /\ WaitInv' /\ PendingInv' /\ GridRegistered'
    BY <1>1, <2>1, <2>3, <2>7, Registered DEF hostVars
  <2>9. TypeInv'
    BY <1>0, <1>1, <2>3, <2>8 DEF TypeInv, TypeOK, Pushing, hostVars
  <2>10. KernelInv'
    <3>1. Running' \cap ToSet(m_finished_kernel') = {}
      BY <1>0, <2>4, <2>5 DEF KernelInv
    <3>2. \A i, j \in DOMAIN m_finished_kernel' :
            m_finished_kernel'[i] = m_finished_kernel'[j] => i = j
      <4> TAKE i, j \in DOMAIN m_finished_kernel'
      <4>1. /\ i + 1 \in DOMAIN m_finished_kernel /\ m_finished_kernel'[i] = m_finished_kernel[i + 1]
            /\ j + 1 \in DOMAIN m_finished_kernel /\ m_finished_kernel'[j] = m_finished_kernel[j + 1]
        BY <1>4, <2>1, <2>2, TailSeq
      <4>2. i \in Nat /\ j \in Nat
        BY <2>3
      <4>3. m_finished_kernel[i + 1] = m_finished_kernel[j + 1] => i + 1 = j + 1
        BY <1>0, <4>1, Zenon DEF KernelInv
      <4> QED BY <4>1, <4>2, <4>3
    <3> QED BY <1>0, <1>1, <1>2, <2>5, <3>1, <3>2 DEF KernelInv
  <2> QED BY <2>8, <2>9, <2>10 DEF IInv
<1> QED BY <1>3, <1>4

LEMMA LimitStep == ASSUME IInv, SimLimit PROVE IInv'
<1> USE StreamAssumption
<1>0. TypeInv /\ KernelInv
  BY DEF IInv
<1>1. /\ UNCHANGED <<m_streams, m_service_stream_zero, m_lock, ctas, traffic, limit_hit, issued_cta,
                     check, sim_cycles, g_sim_active, hostVars, m_done>>
      /\ RegisterFinished(Running \cup ToSet(m_finished_kernel))
      /\ m_running_kernels' = [n \in Slot |-> 0] /\ m_finished_kernel' = <<>>
      /\ g_sim_done' = TRUE /\ cycle_insn_cta_max_hit
  BY DEF SimLimit
<1>2. Running' = {} /\ ToSet(m_finished_kernel') = {}
  BY <1>1 DEF Running, ToSet
<1>3. /\ m_operations' \in [Queue -> Seq(Op)] /\ m_pending' \in [Queue -> BOOLEAN]
      /\ m_grid_id_to_stream' \in [Uid -> Queue \cup {NoStream}] /\ completed' \subseteq Uid
      /\ UidInv' /\ WaitInv' /\ PendingInv' /\ GridRegistered'
  BY <1>1, <1>2, Registered DEF hostVars
<1>4. TypeInv'
  BY <1>0, <1>1, <1>3 DEF TypeInv, TypeOK, Pushing, hostVars
<1>5. cycle_insn_cta_max_hit'
  BY <1>1 DEF cycle_insn_cta_max_hit
<1>6. KernelInv'
  BY <1>0, <1>1, <1>2, <1>5 DEF KernelInv
<1> QED BY <1>3, <1>4, <1>6 DEF IInv
\* The stream that front() chooses: not pending, and stream zero exactly when
\* stream zero is served, when no other stream is pending.
LEMMA FrontChoice ==
  ASSUME IInv, NEW q \in Queue, FrontStream(q)
  PROVE  /\ m_operations[q] # <<>> /\ ~m_pending[q]
         /\ q = Zero => Service
         /\ q # Zero => ~Service /\ q \in ToSet(m_streams)
<1>1. TypeInv
  BY DEF IInv
<1>2. CASE Service
  BY <1>2 DEF FrontStream, Ready
<1>3. CASE ~Service
  <2>1. \E i \in DOMAIN m_streams : m_streams[i] = q /\ Ready(q)
    BY <1>3 DEF FrontStream
  <2>2. q \in Stream /\ q \in ToSet(m_streams)
    BY <1>1, <2>1 DEF TypeInv, ToSet
  <2> QED BY <1>3, <2>1, <2>2, StreamAssumption DEF Ready
<1> QED BY <1>2, <1>3

LEMMA NoOtherPending ==
  ASSUME IInv, Service
  PROVE  \A s \in Stream : ~m_pending[s]
BY DEF IInv, PendingInv, Service, concurrent_streams_empty, Queue

\* What the serve steps share.
LEMMA ServeFrame ==
  ASSUME IInv, SimServe
  PROVE  /\ UNCHANGED <<m_streams, m_finished_kernel, ctas, traffic, limit_hit, issued_cta, check,
                        sim_cycles, g_sim_active, g_sim_done, hostVars>>
         /\ m_service_stream_zero' = (Service /\ m_operations[Zero] # <<>>)
         /\ m_lock' \in Host \cup {NoThread, SimThread}
         /\ cycle_insn_cta_max_hit' = cycle_insn_cta_max_hit
         /\ m_operations \in [Queue -> Seq(Op)] /\ UidInv /\ PendingInv /\ TypeInv
BY DEF SimServe, cycle_insn_cta_max_hit, IInv, TypeInv, TypeOK

LEMMA ServeType ==
  ASSUME IInv, SimServe, m_operations' \in [Queue -> Seq(Op)], m_pending' \in [Queue -> BOOLEAN],
         m_grid_id_to_stream' \in [Uid -> Queue \cup {NoStream}],
         m_running_kernels' \in [Slot -> Uid \cup {0}], m_done' \in [Event -> BOOLEAN],
         completed' \subseteq Uid
  PROVE  TypeInv'
BY ServeFrame DEF TypeInv, TypeOK, Pushing, hostVars

LEMMA NothingStep == ASSUME IInv, ServeNothing PROVE IInv'
<1>1. SimServe /\ UNCHANGED <<m_operations, m_pending, m_grid_id_to_stream, m_running_kernels, m_done,
                             completed>>
  BY DEF ServeNothing
<1>2. TypeInv'
  <2>1. TypeInv
    BY DEF IInv
  <2> QED BY <1>1, <2>1, ServeType DEF TypeInv, TypeOK
<1>3. UidInv' /\ WaitInv'
  BY <1>1, ServeFrame, SameQueues DEF hostVars, Pushing
<1>4. PendingInv'
  <2>1. Zero \in Queue
    BY DEF Queue
  <2>2. m_service_stream_zero => Service
    BY DEF Service
  <2> QED BY <1>1, <2>1, <2>2, ServeFrame, NoOtherPending DEF PendingInv
<1>5. GridRegistered' /\ KernelInv'
  BY <1>1, ServeFrame, SameRegistered, SameKernels
<1> QED BY <1>2, <1>3, <1>4, <1>5 DEF IInv

\* A served operation that leaves its stream at once: a copy, an event, or a
\* kernel executed functionally.
LEMMA AtOnceStep ==
  ASSUME IInv, NEW q \in Queue, ServeAtOnce(q) \/ ServeKernelFunctional(q)
  PROVE  IInv'
<1>1. /\ SimServe /\ FrontStream(q)
      /\ m_operations' = [m_operations EXCEPT ![q] = Tail(@)]
      /\ completed' = completed \cup {Head(m_operations[q]).uid}
      /\ UNCHANGED <<m_pending, m_grid_id_to_stream, m_running_kernels>>
  BY DEF ServeAtOnce, ServeKernelFunctional
<1>2. m_operations[q] # <<>> /\ ~m_pending[q]
  BY <1>1, FrontChoice
<1>3. m_operations' = [r \in Queue |-> IF r \in {q} THEN Tail(m_operations[r]) ELSE m_operations[r]]
  BY <1>1, ServeFrame
<1>4. m_operations' \in [Queue -> Seq(Op)] /\ UidInv' /\ WaitInv'
  <2>1. UNCHANGED <<pc, call, next_uid>>
    BY <1>1, ServeFrame DEF hostVars
  <2>2. completed \cup {Head(m_operations[r]).uid : r \in {q}} \subseteq completed'
    BY <1>1
  <2>3. {q} \in SUBSET Queue /\ \A r \in {q} : m_operations[r] # <<>>
    BY <1>2
  <2> QED BY <1>3, <2>1, <2>2, <2>3, PopFronts
<1>5. TypeInv'
  <2>0. TypeInv
    BY DEF IInv
  <2>1. Head(m_operations[q]) \in Op
    BY <1>1, <1>2, ServeFrame, TailSeq
  <2>2. m_done' \in [Event -> BOOLEAN]
    <3>1. CASE m_done' = m_done
      BY <2>0, <3>1 DEF TypeInv
    <3>2. CASE m_done' = [m_done EXCEPT ![Head(m_operations[q]).event] = TRUE]
      BY <2>0, <3>2, Zenon DEF TypeInv
    <3> QED BY <3>1, <3>2 DEF ServeAtOnce, ServeKernelFunctional
  <2>3. completed' \subseteq Uid
    BY <1>1, <2>0, <2>1 DEF TypeInv, TypeOK, Op
  <2> QED BY <1>1, <1>4, <2>0, <2>2, <2>3, ServeType DEF TypeInv, TypeOK
<1>6. \A r \in Queue : m_pending[r] => m_operations'[r] = m_operations[r]
  BY <1>2, <1>3
<1>7. PendingInv'
  <2>1. Zero \in Queue /\ Stream \subseteq Queue
    BY DEF Queue
  <2>2. ~m_pending[Zero]
    <3>1. SUFFICES ASSUME m_pending[Zero] PROVE FALSE
      OBVIOUS
    <3>2. m_service_stream_zero
      BY <1>1, <3>1, ServeFrame DEF PendingInv
    <3>3. q = Zero
      BY <1>1, <3>2 DEF FrontStream, Service
    <3> QED BY <1>2, <3>1, <3>3
  <2> QED BY <1>1, <1>6, <2>1, <2>2, ServeFrame, NoOtherPending DEF PendingInv
<1>8. GridRegistered'
  <2>1. GridRegistered
    BY DEF IInv
  <2>2. Running' = Running /\ m_finished_kernel' = m_finished_kernel
    BY <1>1, ServeFrame DEF Running
  <2>3. ASSUME NEW v \in Running \cup ToSet(m_finished_kernel)
        PROVE  m_grid_id_to_stream[v] \in Queue /\ StartedAt(v, m_grid_id_to_stream[v])'
    <3>1. m_grid_id_to_stream[v] \in Queue /\ StartedAt(v, m_grid_id_to_stream[v])
      BY <2>1 DEF GridRegistered
    <3>2. m_operations'[m_grid_id_to_stream[v]] = m_operations[m_grid_id_to_stream[v]]
      BY <1>6, <3>1 DEF StartedAt
    <3> QED BY <1>1, <3>1, <3>2 DEF StartedAt
  <2> QED BY <1>1, <2>2, <2>3 DEF GridRegistered
<1>9. KernelInv'
  BY <1>1, ServeFrame, SameKernels
<1> QED BY <1>4, <1>5, <1>7, <1>8, <1>9 DEF IInv

\* A kernel that is started, or that waits for a slot, becomes pending; it was
\* neither running nor finished before, because no other operation has its uid.
LEMMA KernelStep ==
  ASSUME IInv, NEW q \in Queue, ServeKernel(q) \/ ServeKernelNoSlot(q)
  PROVE  IInv'
<1> DEFINE u == Head(m_operations[q]).uid
<1>1. /\ SimServe /\ FrontStream(q) /\ IsKernel(Head(m_operations[q]))
      /\ m_pending' = [m_pending EXCEPT ![q] = TRUE]
      /\ m_grid_id_to_stream' = [m_grid_id_to_stream EXCEPT ![u] = q]
      /\ UNCHANGED <<m_operations, m_done, completed>>
  BY DEF ServeKernel, ServeKernelNoSlot, IsKernel
<1>2. /\ m_operations[q] # <<>> /\ ~m_pending[q]
      /\ q = Zero => Service
      /\ q # Zero => ~Service /\ q \in ToSet(m_streams)
  BY <1>1, FrontChoice
<1>3. u \in Uid /\ TypeOK
  <2>1. Head(m_operations[q]) \in Op
    BY <1>1, <1>2, ServeFrame, TailSeq
  <2> QED BY <2>1 DEF IInv, TypeInv, Op
<1>4. \/ m_running_kernels' = m_running_kernels
      \/ \E n \in Slot : /\ m_running_kernels[n] = 0
                         /\ m_running_kernels' = [m_running_kernels EXCEPT ![n] = u]
  BY DEF ServeKernel, ServeKernelNoSlot
<1>5. u \notin Running \cup ToSet(m_finished_kernel)
  <2> SUFFICES ASSUME u \in Running \cup ToSet(m_finished_kernel) PROVE FALSE
    OBVIOUS
  <2> DEFINE r == m_grid_id_to_stream[u]
  <2>1. r \in Queue /\ m_pending[r] /\ m_operations[r] # <<>> /\ Head(m_operations[r]).uid = u
    BY DEF IInv, GridRegistered, StartedAt
  <2> HIDE DEF r
  <2>2. /\ 1 \in DOMAIN m_operations[q] /\ m_operations[q][1].uid = u
        /\ 1 \in DOMAIN m_operations[r] /\ m_operations[r][1].uid = u
    BY <1>1, <1>2, <2>1, ServeFrame, TailSeq
  <2>3. r = q
    BY <1>1, <2>1, <2>2, ServeFrame DEF UidInv
  <2> QED BY <1>2, <2>1, <2>3
<1> HIDE DEF u
<1>6. m_running_kernels' \in [Slot -> Uid \cup {0}] /\ Running \subseteq Running' /\ Running' \subseteq Running \cup {u}
  <2>1. CASE m_running_kernels' = m_running_kernels
    BY <1>3, <2>1 DEF Running, TypeOK
  <2>2. ASSUME NEW n \in Slot, m_running_kernels[n] = 0,
               m_running_kernels' = [m_running_kernels EXCEPT ![n] = u]
        PROVE  /\ m_running_kernels' \in [Slot -> Uid \cup {0}]
               /\ Running \subseteq Running' /\ Running' \subseteq Running \cup {u}
    BY <1>3, <2>2 DEF Running, TypeOK
  <2> QED BY <1>4, <2>1, <2>2
<1>7. TypeInv'
  <2>1. m_pending' \in [Queue -> BOOLEAN]
    BY <1>1, <1>3, Zenon DEF TypeOK
  <2>2. m_grid_id_to_stream' \in [Uid -> Queue \cup {NoStream}]
    BY <1>1, <1>3 DEF TypeOK
  <2>3. TypeInv
    BY DEF IInv
  <2> QED BY <1>1, <1>6, <2>1, <2>2, <2>3, ServeType DEF TypeInv, TypeOK
<1>8. UidInv' /\ WaitInv'
  BY <1>1, ServeFrame, SameQueues DEF hostVars, Pushing
<1>9. PendingInv'
  <2>1. Zero \in Queue /\ Stream \subseteq Queue /\ Zero \notin Stream
    BY StreamAssumption DEF Queue
  <2>2. \A r \in Queue : m_pending'[r] => m_pending[r] \/ r = q
    BY <1>1, <1>3 DEF TypeOK
  <2>3. CASE q = Zero
    <3>1. \A s \in Stream : ~m_pending'[s]
      BY <1>2, <2>1, <2>2, <2>3, NoOtherPending
    <3>2. m_service_stream_zero'
      BY <1>1, <1>2, <2>3, ServeFrame
    <3> QED BY <1>1, <1>2, <2>1, <2>2, <2>3, <3>1, <3>2, ServeFrame DEF PendingInv
  <2>4. CASE q # Zero
    <3>1. ~m_pending[Zero] /\ ~m_service_stream_zero'
      BY <1>1, <1>2, <2>4, ServeFrame DEF PendingInv, Service
    <3> QED BY <1>1, <1>2, <2>1, <2>2, <2>4, <3>1, ServeFrame DEF PendingInv
  <2> QED BY <2>3, <2>4
<1>10. GridRegistered'
  <2> SUFFICES ASSUME NEW v \in Running' \cup ToSet(m_finished_kernel')
               PROVE  /\ m_grid_id_to_stream'[v] \in Queue
                      /\ m_pending'[m_grid_id_to_stream'[v]]
                      /\ m_operations[m_grid_id_to_stream'[v]] # <<>>
                      /\ IsKernel(Head(m_operations[m_grid_id_to_stream'[v]]))
                      /\ Head(m_operations[m_grid_id_to_stream'[v]]).uid = v
    BY <1>1 DEF GridRegistered, StartedAt, IsKernel
  <2>1. CASE v = u
    <3>1. m_grid_id_to_stream'[v] = q
      BY <1>1, <1>3, <2>1 DEF TypeOK
    <3>2. m_pending'[q]
      BY <1>1, <1>3 DEF TypeOK
    <3> QED BY <1>1, <1>2, <2>1, <3>1, <3>2 DEF u
  <2>2. CASE v # u
    <3>1. v \in Running \cup ToSet(m_finished_kernel)
      BY <1>1, <1>6, <2>2, ServeFrame
    <3>2. v \in Uid
      BY <1>3, <3>1 DEF TypeOK, Running, ToSet
    <3>3. m_grid_id_to_stream'[v] = m_grid_id_to_stream[v]
      BY <1>1, <1>3, <2>2, <3>2 DEF TypeOK
    <3>4. m_grid_id_to_stream[v] \in Queue /\ StartedAt(v, m_grid_id_to_stream[v])
      BY <3>1 DEF IInv, GridRegistered
    <3>5. \A r \in Queue : m_pending[r] => m_pending'[r]
      BY <1>1, <1>3 DEF TypeOK
    <3> QED BY <3>3, <3>4, <3>5 DEF StartedAt
  <2> QED BY <2>1, <2>2
<1>11. KernelInv'
  <2>1. Running' \cap ToSet(m_finished_kernel') = {}
    BY <1>1, <1>5, <1>6, ServeFrame DEF IInv, KernelInv
  <2> QED BY <1>1, <1>6, <2>1, ServeFrame DEF IInv, KernelInv
<1> QED BY <1>7, <1>8, <1>9, <1>10, <1>11 DEF IInv
\* A cycle keeps the kernels apart: a CTA finishes while the GPU is active, so
\* its kernel is in a slot, and it moves to the finished ones at most once.
LEMMA CycleStep == ASSUME IInv, SimCycle PROVE IInv'
<1> USE StreamAssumption
<1>0. TypeInv /\ TypeOK /\ KernelInv /\ GridRegistered
  BY DEF IInv, TypeInv
<1>1. /\ UNCHANGED <<streamVars, m_lock, check, g_sim_active, g_sim_done, hostVars, m_done, completed>>
      /\ active /\ sim_cycles' = TRUE
      /\ limit_hit' \in BOOLEAN /\ (limit_hit => limit_hit')
  <2>1. limit_hit \in BOOLEAN
    BY <1>0 DEF TypeOK
  <2> QED BY <2>1 DEF SimCycle, AdvanceCycle
<1>2. UidInv' /\ WaitInv' /\ PendingInv'
  BY <1>1, SameQueues, SamePending DEF streamVars, hostVars, Pushing
<1>3. ASSUME m_running_kernels' \in [Slot -> Uid \cup {0}], m_finished_kernel' \in Seq(Uid),
             ctas' \in [Uid -> [left : 0 .. Ctas, running : 0 .. Ctas]], traffic' \in BOOLEAN,
             issued_cta' \in [run : Nat, total : Nat],
             Running' \cup ToSet(m_finished_kernel') = Running \cup ToSet(m_finished_kernel),
             KernelInv'
      PROVE  IInv'
  <2>1. GridRegistered'
    BY <1>0, <1>1, <1>3 DEF GridRegistered, StartedAt, streamVars
  <2>2. TypeInv'
    BY <1>0, <1>1, <1>3 DEF TypeInv, TypeOK, streamVars, hostVars, Pushing
  <2> QED BY <1>2, <1>3, <2>1, <2>2 DEF IInv
<1>4. ~cycle_insn_cta_max_hit
  BY <1>1 DEF active
<1>5. ASSUME NEW u \in Running, IssueCta(u) PROVE IInv'
  <2>1. u \in Uid
    BY <1>0 DEF Running, TypeOK
  <2>2. /\ ctas[u].left > 0
        /\ ctas' = [ctas EXCEPT ![u] = [left |-> @.left - 1, running |-> @.running + 1]]
        /\ issued_cta' = [issued_cta EXCEPT !.run = @ + 1]
        /\ UNCHANGED <<m_running_kernels, m_finished_kernel, traffic>>
    BY <1>5 DEF IssueCta, kernel_more_cta_left
  <2>3. /\ ctas[u] \in [left : 0 .. Ctas, running : 0 .. Ctas]
        /\ ctas[u].left + ctas[u].running <= Ctas
    BY <1>0, <2>1 DEF TypeOK, KernelInv
  <2>4. [left |-> ctas[u].left - 1, running |-> ctas[u].running + 1] \in [left : 0 .. Ctas, running : 0 .. Ctas]
    BY <2>2, <2>3
  <2>5. /\ ctas' \in [Uid -> [left : 0 .. Ctas, running : 0 .. Ctas]]
        /\ issued_cta' \in [run : Nat, total : Nat]
    <3>1. ctas' \in [Uid -> [left : 0 .. Ctas, running : 0 .. Ctas]]
      BY <1>0, <2>1, <2>2, <2>4 DEF TypeOK
    <3>2. issued_cta' \in [run : Nat, total : Nat]
      BY <1>0, <2>2 DEF TypeOK
    <3> QED BY <3>1, <3>2
  <2>6. Running' = Running /\ ToSet(m_finished_kernel') = ToSet(m_finished_kernel)
    BY <2>2 DEF Running
  <2>7. \A v \in Uid : /\ ctas'[v].left + ctas'[v].running <= Ctas
                       /\ ctas'[v].running > 0 => ctas[v].running > 0 \/ v = u
    <3> TAKE v \in Uid
    <3>1. CASE v = u
      BY <1>0, <2>1, <2>2, <2>3, <3>1 DEF TypeOK
    <3>2. CASE v # u
      BY <1>0, <2>1, <2>2, <3>2 DEF TypeOK, KernelInv
    <3> QED BY <3>1, <3>2
  <2>8. KernelInv'
    BY <1>0, <1>4, <2>2, <2>6, <2>7 DEF KernelInv
  <2> QED BY <1>0, <1>3, <2>2, <2>5, <2>6, <2>8 DEF TypeOK
<1>6. ASSUME NEW u \in Uid, FinishCta(u) PROVE IInv'
  <2>1. u \in Running
    BY <1>0, <1>4, <1>6 DEF FinishCta, KernelInv
  <2>2. /\ ctas[u].running > 0 /\ ctas' = [ctas EXCEPT ![u].running = @ - 1]
        /\ traffic' \in BOOLEAN /\ UNCHANGED issued_cta
    BY <1>6 DEF FinishCta
  <2>3. ctas[u] \in [left : 0 .. Ctas, running : 0 .. Ctas]
    BY <1>0 DEF TypeOK
  <2>4. /\ ctas' \in [Uid -> [left : 0 .. Ctas, running : 0 .. Ctas]]
        /\ ctas'[u].left = ctas[u].left /\ ctas'[u].running = ctas[u].running - 1
        /\ \A v \in Uid : v # u => ctas'[v] = ctas[v]
    <3> DEFINE c == [ctas[u] EXCEPT !.running = ctas[u].running - 1]
    <3>1. /\ c \in [left : 0 .. Ctas, running : 0 .. Ctas]
          /\ c.left = ctas[u].left /\ c.running = ctas[u].running - 1
      BY <2>2, <2>3
    <3>2. ctas' = [ctas EXCEPT ![u] = c]
      BY <2>2
    <3> HIDE DEF c
    <3> QED BY <1>0, <3>1, <3>2 DEF TypeOK
  <2>5. issued_cta' \in [run : Nat, total : Nat]
    BY <1>0, <2>2 DEF TypeOK
  <2>6. \A v \in Uid : ctas'[v].left + ctas'[v].running <= Ctas
    BY <1>0, <2>3, <2>4 DEF KernelInv
  <2>7. CASE UNCHANGED <<m_running_kernels, m_finished_kernel>>
    <3>1. Running' = Running /\ ToSet(m_finished_kernel') = ToSet(m_finished_kernel)
      BY <2>7 DEF Running
    <3>2. KernelInv'
      BY <1>0, <1>4, <2>1, <2>4, <2>6, <2>7, <3>1 DEF KernelInv
    <3> QED BY <1>0, <1>3, <2>2, <2>4, <2>5, <2>7, <3>1, <3>2 DEF TypeOK
  <2>8. CASE /\ ctas[u].running = 1
             /\ m_running_kernels' = WithoutKernel(u)
             /\ m_finished_kernel' = Append(m_finished_kernel, u)
    <3>1. Running' = Running \ {u} /\ m_running_kernels' \in [Slot -> Uid \cup {0}]
      BY <1>0, <2>8 DEF Running, WithoutKernel, TypeOK
    <3>2. m_finished_kernel \in Seq(Uid)
      BY <1>0 DEF TypeOK
    <3>3. m_finished_kernel' \in Seq(Uid) /\ ToSet(m_finished_kernel') = ToSet(m_finished_kernel) \cup {u}
      BY <2>8, <3>2, AppendSeq
    <3>4. u \notin ToSet(m_finished_kernel)
      BY <1>0, <2>1 DEF KernelInv
    <3>5. ASSUME NEW i \in DOMAIN m_finished_kernel', NEW j \in DOMAIN m_finished_kernel',
                 m_finished_kernel'[i] = m_finished_kernel'[j]
          PROVE  i = j
      <4> DEFINE n == Len(m_finished_kernel) + 1
      <4>1. /\ DOMAIN m_finished_kernel' = DOMAIN m_finished_kernel \cup {n}
            /\ \A k \in DOMAIN m_finished_kernel : m_finished_kernel'[k] = m_finished_kernel[k]
            /\ m_finished_kernel'[n] = u
        BY <2>8, <3>2, AppendSeq
      <4> HIDE DEF n
      <4>2. \A k \in DOMAIN m_finished_kernel : m_finished_kernel[k] # u
        BY <3>4 DEF ToSet
      <4> QED BY <1>0, <3>5, <4>1, <4>2 DEF KernelInv
    <3>6. \A v \in Uid : ctas'[v].running > 0 => v \in Running'
      BY <1>0, <1>4, <2>4, <2>8, <3>1 DEF KernelInv
    <3>7. Running' \cap ToSet(m_finished_kernel') = {}
      BY <1>0, <3>1, <3>3 DEF KernelInv
    <3>8. KernelInv'
      BY <2>6, <3>5, <3>6, <3>7 DEF KernelInv
    <3>9. Running' \cup ToSet(m_finished_kernel') = Running \cup ToSet(m_finished_kernel)
      BY <2>1, <3>1, <3>3
    <3> QED BY <1>3, <2>2, <2>4, <2>5, <3>1, <3>3, <3>8, <3>9
  <2> QED BY <1>6, <2>7, <2>8 DEF FinishCta
<1>7. CASE DrainTraffic
  <2>1. /\ UNCHANGED <<m_running_kernels, m_finished_kernel, ctas, issued_cta>> /\ traffic' \in BOOLEAN
    BY <1>7, Zenon DEF DrainTraffic
  <2>2. Running' = Running /\ ToSet(m_finished_kernel') = ToSet(m_finished_kernel)
    BY <2>1 DEF Running
  <2>3. KernelInv'
    BY <1>0, <1>4, <2>1, <2>2 DEF KernelInv
  <2> QED BY <1>0, <1>3, <2>1, <2>2, <2>3 DEF TypeOK
<1> QED BY <1>5, <1>6, <1>7 DEF SimCycle

LEMMA SimStep == ASSUME IInv, Sim PROVE IInv'
BY ControlStep, CheckStep, NothingStep, AtOnceStep, KernelStep, CycleStep, LimitStep DEF Sim

-----------------------------------------------------------------------------
(* The steps of the host threads *)

\* A host thread that leaves streams, operations and kernels alone.
LEMMA HostFrame ==
  ASSUME IInv, UNCHANGED <<streamVars, gpuVars, simVars, m_done, completed>>,
         DOMAIN pc' = Host, DOMAIN call' = Host, next_uid' \in 1 .. MaxOps + 1,
         created' = created, recorded' \subseteq Event,
         g_sim_done' \in BOOLEAN, m_lock' \in Host \cup {NoThread, SimThread},
         \A h \in Host : Pushing(h)' \/ pc'[h] = "wait" =>
           call'[h] \in [op : Op, stream : Queue, event : Event],
         UidInv', WaitInv'
  PROVE  IInv'
<1>1. TypeInv'
  BY DEF IInv, TypeInv, TypeOK, streamVars, gpuVars, simVars
<1>2. PendingInv' /\ GridRegistered'
  BY SamePending, SameRegistered DEF streamVars, gpuVars
<1>3. KernelInv'
  <2>1. cycle_insn_cta_max_hit' = cycle_insn_cta_max_hit
    BY DEF cycle_insn_cta_max_hit, gpuVars
  <2> QED BY <2>1, SameKernels DEF gpuVars
<1> QED BY <1>1, <1>2, <1>3 DEF IInv

\* A host thread that goes on without an operation in its hands.
LEMMA HostWaits ==
  ASSUME IInv, UNCHANGED <<streamVars, gpuVars, simVars, m_done, completed, next_uid, created, recorded>>,
         g_sim_done' \in BOOLEAN, m_lock' \in Host \cup {NoThread, SimThread},
         NEW h \in Host, DOMAIN pc' = Host, DOMAIN call' = Host,
         \A g \in Host : g # h => pc'[g] = pc[g] /\ call'[g] = call[g],
         \/ pc'[h] \notin {"block", "enqueue", "wait"}
         \/ pc[h] = "block" /\ pc'[h] = "enqueue" /\ call'[h] = call[h]
  PROVE  IInv'
<1>1. \A g \in Host : /\ Pushing(g)' => Pushing(g) /\ call'[g] = call[g]
                      /\ pc'[g] = "wait" => pc[g] = "wait" /\ call'[g] = call[g]
  BY DEF Pushing
<1>2. UidInv' /\ WaitInv'
  BY <1>1, SameQueues DEF streamVars
<1>3. \A g \in Host : Pushing(g)' \/ pc'[g] = "wait" =>
           call'[g] \in [op : Op, stream : Queue, event : Event]
  BY <1>1 DEF IInv, TypeInv, Pushing
<1>4. next_uid' \in 1 .. MaxOps + 1 /\ recorded' \subseteq Event
  BY DEF IInv, TypeInv, TypeOK
<1> QED BY <1>2, <1>3, <1>4, HostFrame
LEMMA WaitingStep ==
  ASSUME IInv, NEW h \in Host,
         \/ PushUnblock(h) \/ PushWait(h) \/ StreamSynchronized(h) \/ Synchronized(h) \/ Proceed(h)
         \/ EventSynchronized(h) \/ ThreadExited(h) \/ Synchronize(h) \/ ThreadExit(h)
         \/ (\E s \in Stream : DestroyStream(h, s) \/ StreamSynchronize(h, s))
         \/ (\E e \in Event : EventSynchronize(h, e))
  PROVE  IInv'
<1>0. DOMAIN pc = Host /\ DOMAIN call = Host /\ TypeOK
  BY DEF IInv, TypeInv
<1>1. g_sim_done \in BOOLEAN /\ m_lock \in Host \cup {NoThread, SimThread}
  BY <1>0 DEF TypeOK
<1>2. /\ UNCHANGED <<streamVars, gpuVars, simVars, m_done, completed, next_uid, created, recorded>>
      /\ g_sim_done' \in {g_sim_done, TRUE} /\ m_lock' \in {m_lock, h}
  BY DEF PushUnblock, PushWait, StreamSynchronized, Synchronized, Proceed, EventSynchronized,
         ThreadExited, Synchronize, ThreadExit, DestroyStream, StreamSynchronize, EventSynchronize,
         HostOnly
<1>3. /\ \E at : /\ pc' = [pc EXCEPT ![h] = at]
                /\ \/ at \notin {"block", "enqueue", "wait"}
                   \/ pc[h] = "block" /\ at = "enqueue" /\ call' = call
      /\ DOMAIN call' = Host /\ \A g \in Host : g # h => call'[g] = call[g]
  <2>1. CASE PushUnblock(h) \/ Synchronized(h) \/ ThreadExited(h)
    BY <1>0, <2>1 DEF PushUnblock, Synchronized, ThreadExited
  <2>2. CASE PushWait(h) \/ StreamSynchronized(h) \/ Proceed(h) \/ EventSynchronized(h)
    BY <1>0, <2>2 DEF PushWait, StreamSynchronized, Proceed, EventSynchronized, Return
  <2>3. CASE Synchronize(h) \/ ThreadExit(h) \/ (\E e \in Event : EventSynchronize(h, e))
    BY <1>0, <2>3 DEF Synchronize, ThreadExit, EventSynchronize, Enter
  <2>4. CASE \E s \in Stream : DestroyStream(h, s) \/ StreamSynchronize(h, s)
    BY <1>0, <2>4 DEF DestroyStream, StreamSynchronize, Enter
  <2> QED BY <2>1, <2>2, <2>3, <2>4
<1>4. /\ DOMAIN pc' = Host /\ DOMAIN call' = Host
      /\ \A g \in Host : g # h => pc'[g] = pc[g] /\ call'[g] = call[g]
      /\ \/ pc'[h] \notin {"block", "enqueue", "wait"}
         \/ pc[h] = "block" /\ pc'[h] = "enqueue" /\ call'[h] = call[h]
  BY <1>0, <1>3
<1>5. g_sim_done' \in BOOLEAN /\ m_lock' \in Host \cup {NoThread, SimThread}
  BY <1>1, <1>2
<1> QED BY <1>2, <1>4, <1>5, HostWaits

\* push() gives its operation a uid that no operation has.
LEMMA PushStep ==
  ASSUME IInv, NEW h \in Host, NEW t \in OpTypes, NEW q \in Queue, NEW e \in Event, Push(h, t, q, e)
  PROVE  IInv'
<1> DEFINE op == [type |-> t, uid |-> next_uid, event |-> e]
           c == [op |-> op, stream |-> q, event |-> e]
<1>0. DOMAIN pc = Host /\ DOMAIN call = Host /\ TypeInv /\ TypeOK /\ UidInv /\ WaitInv
  BY DEF IInv, TypeInv
<1>1. next_uid \in Uid /\ next_uid' = next_uid + 1 /\ next_uid \in Nat
  BY <1>0, StreamAssumption DEF TypeOK, Push, Uid
<1>2. op \in Op /\ c \in [op : Op, stream : Queue, event : Event]
  BY <1>1 DEF Op
<1>3. /\ \E at \in {"block", "enqueue"} : pc' = [pc EXCEPT ![h] = at]
      /\ call' = [call EXCEPT ![h] = c] /\ pc[h] = "idle"
  BY DEF Push, Enter
<1>4. /\ UNCHANGED <<streamVars, m_lock, gpuVars, simVars, g_sim_done, m_done, completed>>
      /\ UNCHANGED created /\ recorded' \subseteq Event
  BY <1>0 DEF Push, HostOnly, TypeOK
<1>5. /\ DOMAIN pc' = Host /\ DOMAIN call' = Host
      /\ \A g \in Host : g # h => pc'[g] = pc[g] /\ call'[g] = call[g]
      /\ pc'[h] \in {"block", "enqueue"} /\ call'[h] = c
  BY <1>0, <1>3
<1>6. call'[h].op.uid = next_uid
  BY <1>5
<1> HIDE DEF op, c
<1>7. m_operations \in [Queue -> Seq(Op)] /\ m_operations' = m_operations
  BY <1>0, <1>4 DEF TypeOK, streamVars
<1>8. \A r \in Queue : \A i \in DOMAIN m_operations[r] :
        m_operations[r][i].uid \in Nat /\ m_operations[r][i].uid < next_uid
  <2>1. \A r \in Queue : \A i \in DOMAIN m_operations[r] : m_operations[r][i] \in Op
    BY <1>7
  <2>2. \A o \in Op : o.uid \in Nat
    BY DEF Op, Uid
  <2> QED BY <1>0, <2>1, <2>2 DEF UidInv
<1>9. \A g \in Host : Pushing(g) => call[g].op.uid \in Nat /\ call[g].op.uid < next_uid
  BY <1>0 DEF UidInv, TypeInv, Op, Uid
<1>10. UidInv'
  <2>1. ASSUME NEW g \in Host, Pushing(g)'
        PROVE  /\ call'[g].op.uid < next_uid'
               /\ \A r \in Queue : \A i \in DOMAIN m_operations'[r] :
                    m_operations'[r][i].uid # call'[g].op.uid
               /\ \A k \in Host : Pushing(k)' /\ call'[k].op.uid = call'[g].op.uid => k = g
    <3>1. CASE g = h
      <4>1. call'[g].op.uid < next_uid'
        BY <1>1, <1>6, <3>1
      <4>2. \A r \in Queue : \A i \in DOMAIN m_operations'[r] :
              m_operations'[r][i].uid # call'[g].op.uid
        BY <1>1, <1>6, <1>7, <1>8, <3>1
      <4>3. \A k \in Host : Pushing(k)' /\ call'[k].op.uid = call'[g].op.uid => k = g
        BY <1>1, <1>5, <1>6, <1>9, <3>1 DEF Pushing
      <4> QED BY <4>1, <4>2, <4>3
    <3>2. CASE g # h
      <4>1. Pushing(g) /\ call'[g] = call[g]
        BY <1>5, <2>1, <3>2 DEF Pushing
      <4>2. call'[g].op.uid < next_uid'
        BY <1>1, <1>9, <4>1
      <4>3. \A r \in Queue : \A i \in DOMAIN m_operations'[r] :
              m_operations'[r][i].uid # call'[g].op.uid
        BY <1>0, <1>7, <4>1 DEF UidInv
      <4>4. \A k \in Host : Pushing(k)' /\ call'[k].op.uid = call'[g].op.uid => k = g
        <5> TAKE k \in Host
        <5>1. CASE k = h
          BY <1>1, <1>6, <1>9, <4>1, <5>1
        <5>2. CASE k # h
          BY <1>0, <1>5, <4>1, <5>2 DEF UidInv, Pushing
        <5> QED BY <5>1, <5>2
      <4> QED BY <4>2, <4>3, <4>4
    <3> QED BY <3>1, <3>2
  <2>2. \A r \in Queue : \A i \in DOMAIN m_operations'[r] : m_operations'[r][i].uid < next_uid'
    BY <1>1, <1>7, <1>8
  <2> QED BY <1>0, <1>7, <2>1, <2>2 DEF UidInv
<1>11. WaitInv'
  BY <1>0, <1>4, <1>5, <1>7 DEF WaitInv
<1>12. \A g \in Host : Pushing(g)' \/ pc'[g] = "wait" =>
           call'[g] \in [op : Op, stream : Queue, event : Event]
  BY <1>0, <1>2, <1>5 DEF TypeInv, Pushing
<1>13. next_uid' \in 1 .. MaxOps + 1
  BY <1>1, StreamAssumption DEF Uid
<1>14. g_sim_done' \in BOOLEAN /\ m_lock' \in Host \cup {NoThread, SimThread}
  BY <1>0, <1>4 DEF TypeOK
<1> QED BY <1>4, <1>5, <1>10, <1>11, <1>12, <1>13, <1>14, HostFrame
\* push() puts its operation at the end of its stream, or drops it once a limit
\* is reached; the thread then returns or waits for it.
LEMMA EnqueueStep ==
  ASSUME IInv, NEW h \in Host, PushEnqueue(h)
  PROVE  IInv'
<1> DEFINE q == IF Blocking(call[h].stream) THEN Zero ELSE call[h].stream
           o == call[h].op
<1>0. DOMAIN pc = Host /\ DOMAIN call = Host /\ TypeInv /\ TypeOK /\ UidInv /\ WaitInv /\ PendingInv
  BY DEF IInv, TypeInv
<1>1. Pushing(h) /\ pc[h] = "enqueue"
  BY DEF PushEnqueue, Pushing
<1>2. q \in Queue /\ o \in Op /\ call[h] \in [op : Op, stream : Queue, event : Event]
  BY <1>0, <1>1 DEF TypeInv, Queue
<1>3. /\ \/ cycle_insn_cta_max_hit /\ completed' = completed \cup {o.uid} /\ UNCHANGED m_operations
         \/ m_operations' = [m_operations EXCEPT ![q] = Append(@, o)] /\ UNCHANGED completed
      /\ UNCHANGED <<m_streams, m_pending, m_service_stream_zero, m_grid_id_to_stream, m_lock,
                     gpuVars, simVars, g_sim_done, next_uid, created, recorded, m_done>>
  BY DEF PushEnqueue
<1>4. /\ DOMAIN pc' = Host /\ DOMAIN call' = Host
      /\ \A g \in Host : g # h => pc'[g] = pc[g] /\ call'[g] = call[g]
      /\ \/ pc'[h] = "idle"
         \/ pc'[h] = "wait" /\ call'[h] = call[h] /\ q = Zero
  <2>1. CASE Blocking(call[h].stream)
    BY <1>0, <2>1 DEF PushEnqueue
  <2>2. CASE ~Blocking(call[h].stream)
    BY <1>0, <2>2 DEF PushEnqueue, Return
  <2> QED BY <2>1, <2>2
<1> HIDE DEF q, o
<1>5. \A g \in Host : Pushing(g)' => g # h /\ Pushing(g) /\ call'[g] = call[g]
  BY <1>4 DEF Pushing
<1>6. m_operations \in [Queue -> Seq(Op)]
  BY <1>0 DEF TypeOK
<1> DEFINE m == Len(m_operations[q]) + 1
           a == Append(m_operations[q], o)
<1>a. /\ a \in Seq(Op) /\ a # <<>> /\ a[m] = o /\ m \notin DOMAIN m_operations[q]
      /\ DOMAIN a = DOMAIN m_operations[q] \cup {m}
      /\ \A i \in DOMAIN m_operations[q] : a[i] = m_operations[q][i]
      /\ m_operations[q] # <<>> => Head(a) = Head(m_operations[q])
  <2>1. m_operations[q] \in Seq(Op)
    BY <1>2, <1>6
  <2> QED BY <1>2, <2>1, AppendSeq
<1>b. \/ m_operations' = m_operations
      \/ m_operations' = [m_operations EXCEPT ![q] = a]
  BY <1>3
<1> HIDE DEF a, m
<1>7. \/ m_operations' = m_operations
      \/ /\ \A r \in Queue : DOMAIN m_operations'[r] =
                             IF r = q THEN DOMAIN m_operations[q] \cup {m} ELSE DOMAIN m_operations[r]
         /\ \A r \in Queue : \A i \in DOMAIN m_operations[r] : m_operations'[r][i] = m_operations[r][i]
         /\ m_operations'[q][m] = o /\ m \notin DOMAIN m_operations[q]
  BY <1>2, <1>6, <1>a, <1>b
<1>8. m_operations' \in [Queue -> Seq(Op)]
  BY <1>2, <1>6, <1>a, <1>b
<1>9. \A r \in Queue : \A i \in DOMAIN m_operations'[r] :
        \/ i \in DOMAIN m_operations[r] /\ m_operations'[r][i] = m_operations[r][i]
        \/ r = q /\ i = m /\ m_operations'[r][i] = o
  BY <1>7
<1>10. /\ o.uid < next_uid
       /\ \A r \in Queue : \A i \in DOMAIN m_operations[r] : m_operations[r][i].uid # o.uid
       /\ \A g \in Host : Pushing(g) /\ call[g].op.uid = o.uid => g = h
  BY <1>0, <1>1 DEF UidInv, o
<1>11. UidInv'
  <2>1. ASSUME NEW r \in Queue, NEW s \in Queue, NEW i \in DOMAIN m_operations'[r],
               NEW j \in DOMAIN m_operations'[s], m_operations'[r][i].uid = m_operations'[s][j].uid
        PROVE  r = s /\ i = j
    BY <1>0, <1>9, <1>10, <2>1 DEF UidInv
  <2>2. \A r \in Queue : \A i \in DOMAIN m_operations'[r] : m_operations'[r][i].uid < next_uid'
    BY <1>0, <1>3, <1>9, <1>10 DEF UidInv
  <2>3. ASSUME NEW g \in Host, Pushing(g)'
        PROVE  /\ call'[g].op.uid < next_uid'
               /\ \A r \in Queue : \A i \in DOMAIN m_operations'[r] :
                    m_operations'[r][i].uid # call'[g].op.uid
               /\ \A k \in Host : Pushing(k)' /\ call'[k].op.uid = call'[g].op.uid => k = g
    <3>1. g # h /\ Pushing(g) /\ call'[g] = call[g]
      BY <1>5, <2>3
    <3>2. call[g].op.uid # o.uid
      BY <1>10, <3>1
    <3>3. \A r \in Queue : \A i \in DOMAIN m_operations'[r] :
            m_operations'[r][i].uid # call'[g].op.uid
      BY <1>0, <1>9, <3>1, <3>2 DEF UidInv
    <3>4. \A k \in Host : Pushing(k)' /\ call'[k].op.uid = call'[g].op.uid => k = g
      BY <1>0, <1>5, <3>1 DEF UidInv
    <3> QED BY <1>0, <1>3, <3>1, <3>3, <3>4 DEF UidInv
  <2> QED BY <2>1, <2>2, <2>3 DEF UidInv
<1>12. WaitInv'
  <2> SUFFICES ASSUME NEW g \in Host, pc'[g] = "wait"
               PROVE  \/ call'[g].op.uid \in completed'
                      \/ \E i \in DOMAIN m_operations'[Zero] :
                           m_operations'[Zero][i].uid = call'[g].op.uid
    BY DEF WaitInv
  <2>0. Zero \in Queue
    BY DEF Queue
  <2>1. CASE g = h
    <3>1. call'[g].op = o /\ q = Zero
      BY <1>4, <2>1 DEF o
    <3>2. CASE completed' = completed \cup {o.uid}
      BY <3>1, <3>2
    <3>3. CASE m_operations' = [m_operations EXCEPT ![q] = Append(@, o)]
      <4>1. m \in DOMAIN m_operations'[Zero] /\ m_operations'[Zero][m] = o
        BY <1>2, <1>6, <2>0, <3>1, <3>3, AppendSeq DEF m
      <4> QED BY <3>1, <4>1
    <3> QED BY <1>3, <3>2, <3>3
  <2>2. CASE g # h
    <3>1. pc[g] = "wait" /\ call'[g] = call[g]
      BY <1>4, <2>2
    <3>2. completed \subseteq completed'
      BY <1>3
    <3>3. \A i \in DOMAIN m_operations[Zero] :
            i \in DOMAIN m_operations'[Zero] /\ m_operations'[Zero][i] = m_operations[Zero][i]
      BY <1>7, <2>0
    <3> QED BY <1>0, <3>1, <3>2, <3>3 DEF WaitInv
  <2> QED BY <2>1, <2>2
<1>13. \A r \in Queue : m_operations[r] # <<>> =>
         m_operations'[r] # <<>> /\ Head(m_operations'[r]) = Head(m_operations[r])
  BY <1>2, <1>6, <1>a, <1>b
<1>14. PendingInv'
  BY <1>0, <1>3, <1>13 DEF PendingInv
<1>15. GridRegistered'
  <2>1. UNCHANGED <<m_running_kernels, m_finished_kernel, m_pending, m_grid_id_to_stream>>
    BY <1>3 DEF gpuVars
  <2> QED BY <1>13, <2>1 DEF IInv, GridRegistered, StartedAt, Running, IsKernel
<1>16. KernelInv'
  <2>1. cycle_insn_cta_max_hit' = cycle_insn_cta_max_hit
    BY <1>3 DEF cycle_insn_cta_max_hit, gpuVars
  <2> QED BY <1>3, <2>1, SameKernels DEF gpuVars
<1>17. TypeInv'
  <2>1. completed' \subseteq Uid
    BY <1>0, <1>2, <1>3 DEF TypeOK, Op
  <2>2. \A g \in Host : Pushing(g)' \/ pc'[g] = "wait" =>
          call'[g] \in [op : Op, stream : Queue, event : Event]
    BY <1>0, <1>2, <1>4, <1>5 DEF TypeInv
  <2> QED BY <1>0, <1>3, <1>4, <1>8, <2>1, <2>2 DEF TypeInv, TypeOK, gpuVars, simVars
<1> QED BY <1>11, <1>12, <1>14, <1>15, <1>16, <1>17 DEF IInv

\* The list of streams changes; a stream that leaves it has no operation.
LEMMA StreamsStep ==
  ASSUME IInv, NEW h \in Host, DestroyDone(h) \/ \E s \in Stream : CreateStream(h, s)
  PROVE  IInv'
<1>0. DOMAIN pc = Host /\ DOMAIN call = Host /\ TypeInv /\ TypeOK /\ PendingInv
  BY DEF IInv, TypeInv
<1>1. /\ UNCHANGED <<m_operations, m_pending, m_service_stream_zero, m_grid_id_to_stream, gpuVars,
                     simVars, g_sim_done, next_uid, recorded, m_done, completed>>
      /\ m_lock' \in Host \cup {NoThread, SimThread}
  BY <1>0 DEF DestroyDone, CreateStream, TypeOK
<1>2. /\ m_streams' \in Seq(Stream) /\ ToSet(m_streams') \subseteq created' /\ created' \subseteq Stream
      /\ \A s \in ToSet(m_streams) : s \in ToSet(m_streams') \/ m_operations[s] = <<>>
  <2>1. CASE DestroyDone(h)
    <3>1. /\ m_streams' = RemoveFirst(m_streams, call[h].stream) /\ created' = created
          /\ m_operations[call[h].stream] = <<>>
      BY <2>1 DEF DestroyDone
    <3>2. /\ m_streams' \in Seq(Stream) /\ ToSet(m_streams') \subseteq ToSet(m_streams)
          /\ ToSet(m_streams) \subseteq ToSet(m_streams') \cup {call[h].stream}
      BY <1>0, <3>1, EraseStream DEF TypeInv
    <3> QED BY <1>0, <3>1, <3>2 DEF TypeOK
  <2>2. ASSUME NEW s \in Stream, CreateStream(h, s)
        PROVE  /\ m_streams' \in Seq(Stream) /\ created' \subseteq Stream
               /\ ToSet(m_streams') = ToSet(m_streams) \cup {s} /\ created' = created \cup {s}
    BY <1>0, <2>2, AppendSeq DEF CreateStream, TypeInv, TypeOK
  <2> QED BY <1>0, <2>1, <2>2 DEF TypeOK
<1>3. /\ DOMAIN pc' = Host /\ DOMAIN call' = Host
      /\ \A g \in Host : (pc'[g] = pc[g] /\ call'[g] = call[g]) \/ pc'[g] = "idle"
  BY <1>0 DEF DestroyDone, CreateStream, Return
<1>4. \A g \in Host : /\ Pushing(g)' => Pushing(g) /\ call'[g] = call[g]
                      /\ pc'[g] = "wait" => pc[g] = "wait" /\ call'[g] = call[g]
  BY <1>3 DEF Pushing
<1>5. UidInv' /\ WaitInv'
  BY <1>1, <1>4, SameQueues
<1>6. PendingInv'
  BY <1>0, <1>1, <1>2 DEF PendingInv, Queue
<1>7. GridRegistered' /\ KernelInv'
  <2>1. cycle_insn_cta_max_hit' = cycle_insn_cta_max_hit
    BY <1>1 DEF cycle_insn_cta_max_hit, gpuVars
  <2> QED BY <1>1, <2>1, SameRegistered, SameKernels DEF gpuVars
<1>8. TypeInv'
  <2>1. \A g \in Host : Pushing(g)' \/ pc'[g] = "wait" =>
          call'[g] \in [op : Op, stream : Queue, event : Event]
    BY <1>0, <1>4 DEF TypeInv
  <2> QED BY <1>0, <1>1, <1>2, <1>3, <2>1 DEF TypeInv, TypeOK, gpuVars, simVars
<1> QED BY <1>5, <1>6, <1>7, <1>8 DEF IInv

LEMMA NextIInv == IInv /\ [Next]_vars => IInv'
<1>1. ASSUME IInv, UNCHANGED vars PROVE IInv'
  <2>1. Running' = Running /\ cycle_insn_cta_max_hit' = cycle_insn_cta_max_hit
    BY <1>1 DEF Running, cycle_insn_cta_max_hit, vars, gpuVars
  <2>2. TypeInv'
    BY <1>1 DEF IInv, TypeInv, TypeOK, Pushing, vars, streamVars, gpuVars, simVars, hostVars
  <2>3. UidInv' /\ WaitInv' /\ PendingInv' /\ GridRegistered' /\ KernelInv'
    BY <1>1, <2>1, SameQueues, SamePending, SameRegistered, SameKernels
       DEF vars, streamVars, gpuVars, hostVars, Pushing
  <2> QED BY <2>2, <2>3 DEF IInv
<1>2. ASSUME IInv, Next PROVE IInv'
  <2>1. CASE Sim
    BY <1>2, <2>1, SimStep
  <2>2. ASSUME NEW h \in Host, Poll(h) PROVE IInv'
    BY <1>2, <2>2, WaitingStep, EnqueueStep, StreamsStep DEF Poll
  <2>3. ASSUME NEW h \in Host, NEW t \in OpTypes, NEW q \in Queue, NEW e \in Event, Push(h, t, q, e)
        PROVE  IInv'
    BY <1>2, <2>3, PushStep
  <2>4. ASSUME NEW h \in Host, NEW s \in Stream,
               CreateStream(h, s) \/ DestroyStream(h, s) \/ StreamSynchronize(h, s)
        PROVE  IInv'
    BY <1>2, <2>4, WaitingStep, StreamsStep
  <2>5. ASSUME NEW h \in Host,
               Synchronize(h) \/ ThreadExit(h) \/ \E e \in Event : EventSynchronize(h, e)
        PROVE  IInv'
    BY <1>2, <2>5, WaitingStep
  <2> QED BY <1>2, <2>1, <2>2, <2>3, <2>4, <2>5 DEF Next
<1> QED BY <1>1, <1>2

LEMMA Invariant == Spec => []IInv
BY InitIInv, NextIInv, PTL DEF Spec
-----------------------------------------------------------------------------
(* The theorems for any number of host threads *)

\* The state of the streams, the kernels and the simulation thread has its type.
THEOREM TypeCorrect == Spec => []TypeOK
BY Invariant, PTL DEF IInv, TypeInv

\* stream_manager::front never lets an operation of stream zero run beside one of
\* another stream.
THEOREM ZeroExclusiveCorrect == Spec => []ZeroExclusive
<1>1. IInv => ZeroExclusive
  BY DEF IInv, PendingInv, ZeroExclusive
<1> QED BY <1>1, Invariant, PTL

\* register_finished_kernel always finds the finished kernel at the front of the
\* stream it is registered for: its assertion holds.
THEOREM GridRegisteredCorrect == Spec => []GridRegistered
<1>1. IInv => GridRegistered
  BY DEF IInv
<1> QED BY <1>1, Invariant, PTL

\* A blocking push() returns only when its operation is completed, whatever the
\* other host threads do.
THEOREM PushSynchronousCorrect == Spec => PushSynchronous
<1>1. ASSUME IInv, [Next]_vars, NEW h \in Host, pc[h] = "wait", pc'[h] = "idle"
      PROVE  call[h].op.uid \in completed
  <2>1. pc' # pc
    BY <1>1
  <2>2. ~Sim
    BY <2>1 DEF Sim, SimSpin, SimActivate, SimCheck, ServeNothing, ServeAtOnce, ServeKernel,
      ServeKernelFunctional, ServeKernelNoSlot, SimServe, SimBreak, SimCycle, SimNoCycle, SimLimit,
      SimTest, SimStop, hostVars
  <2>3. Next
    BY <1>1, <2>1 DEF vars, hostVars
  <2>4. PICK g \in Host : \/ \E t \in OpTypes, q \in Queue, e \in Event : Push(g, t, q, e)
                          \/ \E s \in Stream : \/ CreateStream(g, s) \/ DestroyStream(g, s)
                                               \/ StreamSynchronize(g, s)
                          \/ Synchronize(g) \/ ThreadExit(g)
                          \/ \E e \in Event : EventSynchronize(g, e)
                          \/ Poll(g)
    BY <2>2, <2>3 DEF Next
  <2>5. \E at : pc' = [pc EXCEPT ![g] = at]
    <3>1. CASE Poll(g)
      BY <3>1 DEF Poll, PushUnblock, PushEnqueue, PushWait, DestroyDone, StreamSynchronized,
         Synchronized, Proceed, EventSynchronized, ThreadExited, Return
    <3>2. CASE ~Poll(g)
      BY <2>1, <2>4, <3>2 DEF Push, CreateStream, DestroyStream, StreamSynchronize, Synchronize,
         ThreadExit, EventSynchronize, Enter
    <3> QED BY <3>1, <3>2
  <2>6. g = h
    BY <1>1, <2>5 DEF IInv, TypeInv
  <2>7. Poll(h)
    BY <1>1, <2>1, <2>4, <2>6 DEF Push, CreateStream, DestroyStream, StreamSynchronize, Synchronize,
       ThreadExit, EventSynchronize, Enter
  <2>8. PushWait(h)
    BY <1>1, <2>7 DEF Poll, PushUnblock, PushEnqueue, DestroyDone, StreamSynchronized,
         Synchronized, Proceed, EventSynchronized, ThreadExited, Return
  <2>9. m_operations[Zero] = <<>>
    BY <2>8 DEF PushWait, empty
  <2> QED BY <1>1, <2>9 DEF IInv, WaitInv
<1>2. IInv /\ [Next]_vars =>
        [\A h \in Host : pc[h] = "wait" /\ pc'[h] = "idle" => call[h].op.uid \in completed]_vars
  BY <1>1
<1> QED BY <1>2, Invariant, PTL DEF Spec, PushSynchronous

-----------------------------------------------------------------------------
(* One host thread *)

LEMMA SameGpu == ASSUME UNCHANGED gpuVars PROVE active' = active
<1>1. Running' = Running /\ cycle_insn_cta_max_hit' = cycle_insn_cta_max_hit
  BY DEF Running, cycle_insn_cta_max_hit, gpuVars
<1>2. \A u : kernel_more_cta_left(u)' = kernel_more_cta_left(u)
  BY DEF kernel_more_cta_left, hit_max_cta_count, gpuVars
<1> QED BY <1>1, <1>2 DEF active, gpuVars

\* The simulation thread is at work: nobody has returned from cudaThreadSynchronize.
LEMMA AtWork ==
  ASSUME SimWhere, UNCHANGED pc, sim_pc \notin {"spin", "exited"},
         sim_pc' \in {"check", "serve", "cycle", "test"}, g_sim_active'
  PROVE  SimWhere'
BY DEF SimWhere

LEMMA SimWhereSim ==
  ASSUME \A g, h \in Host : g = h, IInv, SimWhere, Sim
  PROVE  SimWhere'
<1>0. UNCHANGED pc
  BY DEF Sim, SimSpin, SimActivate, SimCheck, ServeNothing, ServeAtOnce, ServeKernel,
      ServeKernelFunctional, ServeKernelNoSlot, SimServe, SimBreak, SimCycle, SimNoCycle, SimLimit,
      SimTest, SimStop, hostVars
<1>1. CASE SimSpin
  <2>1. /\ UNCHANGED <<m_operations, m_streams, gpuVars, g_sim_active, g_sim_done>>
        /\ sim_pc = "spin" /\ sim_pc' = "activate" /\ (~empty \/ g_sim_done)
    BY <1>1 DEF SimSpin, streamVars
  <2>2. active' = active
    BY <2>1, SameGpu
  <2>3. empty' = empty
    BY <2>1 DEF empty, concurrent_streams_empty
  <2>4. \A h \in Host : pc[h] # "synced"
    BY <2>1 DEF SimWhere
  <2> QED BY <1>0, <2>1, <2>2, <2>3, <2>4 DEF SimWhere
<1>2. CASE SimActivate
  <2>1. g_sim_active' /\ sim_pc = "activate" /\ sim_pc' = "check"
    BY <1>2 DEF SimActivate
  <2> QED BY <1>0, <2>1, AtWork
<1>3. CASE \/ SimCheck \/ ServeNothing \/ SimCycle \/ SimNoCycle \/ SimLimit
           \/ \E q \in Queue : \/ ServeAtOnce(q) \/ ServeKernel(q)
                               \/ ServeKernelFunctional(q) \/ ServeKernelNoSlot(q)
  <2>1. /\ UNCHANGED g_sim_active /\ sim_pc \in {"check", "serve", "cycle"}
        /\ sim_pc' \in {"check", "serve", "cycle", "test"}
    BY <1>3 DEF SimCheck, ServeNothing, ServeAtOnce, ServeKernel, ServeKernelFunctional,
       ServeKernelNoSlot, SimServe, SimCycle, SimNoCycle, SimLimit
  <2>2. g_sim_active
    BY <2>1 DEF SimWhere
  <2> QED BY <1>0, <2>1, <2>2, AtWork
<1>4. CASE SimBreak \/ SimTest
  <2>1. /\ UNCHANGED <<gpuVars, g_sim_active>> /\ sim_pc \in {"cycle", "test"}
        /\ sim_pc' = "check" \/ (sim_pc' = "stop" /\ ~active)
    BY <1>4 DEF SimBreak, SimTest
  <2>2. g_sim_active
    BY <2>1 DEF SimWhere
  <2>3. CASE sim_pc' = "check"
    BY <1>0, <2>1, <2>2, <2>3, AtWork
  <2>4. CASE sim_pc' = "stop" /\ ~active
    <3>1. ~active'
      BY <2>1, <2>4, SameGpu
    <3> QED BY <1>0, <2>1, <2>2, <2>4, <3>1 DEF SimWhere
  <2> QED BY <2>1, <2>3, <2>4
<1>5. CASE SimStop
  <2>1. /\ UNCHANGED <<m_running_kernels, ctas, traffic, limit_hit, g_sim_done>> /\ ~g_sim_active'
        /\ sim_pc = "stop" /\ sim_pc' = IF g_sim_done THEN "exited" ELSE "spin"
    BY <1>5, Zenon DEF SimStop
  <2>2. issued_cta \in [run : Nat, total : Nat]
    BY DEF IInv, TypeInv, TypeOK
  <2>3. issued_cta'.total >= issued_cta.total /\ issued_cta'.total + issued_cta'.run = issued_cta.total + issued_cta.run
    BY <1>5, <2>2 DEF SimStop
  <2>4. issued_cta'.total \in Nat
    BY <1>5, <2>2 DEF SimStop
  <2>5. /\ cycle_insn_cta_max_hit => cycle_insn_cta_max_hit'
        /\ hit_max_cta_count' = hit_max_cta_count
    BY <2>1, <2>2, <2>3, <2>4, StreamAssumption DEF cycle_insn_cta_max_hit, hit_max_cta_count
  <2>6. ~active
    BY <2>1 DEF SimWhere
  <2>7. Running' = Running /\ \A u : kernel_more_cta_left(u)' = kernel_more_cta_left(u)
    BY <2>1, <2>5 DEF Running, kernel_more_cta_left
  <2>8. ~active'
    BY <2>1, <2>5, <2>6, <2>7 DEF active
  <2> QED BY <1>0, <2>1, <2>8 DEF SimWhere
<1> QED BY <1>1, <1>2, <1>3, <1>4, <1>5 DEF Sim

\* A step of the host thread leaves the simulation thread where it is.
LEMMA SimWhereHost ==
  ASSUME SimWhere, UNCHANGED <<gpuVars, simVars>>,
         ~empty => ~empty',
         g_sim_done => g_sim_done',
         g_sim_done' => g_sim_done \/ \E h \in Host : pc'[h] = "exit",
         \A h \in Host : pc[h] \in {"exit", "gone"} => pc'[h] \in {"exit", "gone"},
         \A h \in Host : pc'[h] = "synced" => empty' /\ sim_pc \in {"spin", "exited"}
  PROVE  SimWhere'
<1>1. UNCHANGED <<sim_pc, g_sim_active>> /\ active' = active
  BY SameGpu DEF simVars
<1> QED BY <1>1 DEF SimWhere
\* Host steps that leave the streams alone
LEMMA SimWhereWaiting ==
  ASSUME \A f, g \in Host : f = g, IInv, SimWhere, NEW h \in Host,
         \/ PushUnblock(h) \/ PushWait(h) \/ StreamSynchronized(h) \/ Synchronized(h) \/ Proceed(h)
         \/ EventSynchronized(h) \/ ThreadExited(h) \/ Synchronize(h) \/ ThreadExit(h)
         \/ (\E s \in Stream : DestroyStream(h, s) \/ StreamSynchronize(h, s))
         \/ (\E e \in Event : EventSynchronize(h, e))
         \/ (\E t \in OpTypes, q \in Queue, e \in Event : Push(h, t, q, e))
  PROVE  SimWhere'
<1>0. DOMAIN pc = Host
  BY DEF IInv, TypeInv
<1>1. UNCHANGED <<m_streams, m_operations, gpuVars, simVars>>
  BY DEF PushUnblock, PushWait, StreamSynchronized, Synchronized, Proceed, EventSynchronized,
         ThreadExited, Synchronize, ThreadExit, DestroyStream, StreamSynchronize, EventSynchronize,
         Push, HostOnly, streamVars
<1>2. empty' = empty
  BY <1>1 DEF empty, concurrent_streams_empty
<1>3. CASE Synchronized(h)
  <2>1. /\ empty /\ ~g_sim_active /\ UNCHANGED g_sim_done
        /\ pc[h] = "sync" /\ pc' = [pc EXCEPT ![h] = "synced"]
    BY <1>3 DEF Synchronized, HostOnly
  <2>2. sim_pc \in {"spin", "exited"}
    BY <2>1 DEF SimWhere
  <2> QED BY <1>0, <1>1, <1>2, <2>1, <2>2, SimWhereHost
<1>4. CASE ThreadExit(h)
  <2>1. g_sim_done' /\ pc[h] = "idle" /\ pc'[h] = "exit"
    BY <1>0, <1>4 DEF ThreadExit, Enter
  <2>2. \A g \in Host : pc'[g] = "exit" /\ pc[g] = "idle"
    BY <2>1
  <2> QED BY <1>1, <1>2, <2>1, <2>2, SimWhereHost
<1>5. CASE ~Synchronized(h) /\ ~ThreadExit(h)
  <2>1. g_sim_done' = g_sim_done
    BY <1>5 DEF PushUnblock, PushWait, StreamSynchronized, Proceed, EventSynchronized,
         ThreadExited, Synchronize, DestroyStream, StreamSynchronize, EventSynchronize,
         Push, HostOnly
  <2>2. /\ pc'[h] # "synced"
        /\ pc[h] \in {"exit", "gone"} => pc'[h] \in {"exit", "gone"}
    BY <1>0, <1>5 DEF PushUnblock, PushWait, StreamSynchronized, Proceed, EventSynchronized,
         ThreadExited, Synchronize, DestroyStream, StreamSynchronize, EventSynchronize,
         Push, Enter, Return
  <2>3. \A g \in Host : /\ pc'[g] # "synced"
                        /\ pc[g] \in {"exit", "gone"} => pc'[g] \in {"exit", "gone"}
    BY <2>2
  <2> QED BY <1>1, <1>2, <2>1, <2>3, SimWhereHost
<1> QED BY <1>3, <1>4, <1>5

\* Host steps that change the streams
LEMMA SimWhereStreams ==
  ASSUME \A f, g \in Host : f = g, IInv, SimWhere, NEW h \in Host,
         PushEnqueue(h) \/ DestroyDone(h) \/ \E s \in Stream : CreateStream(h, s)
  PROVE  SimWhere'
<1>0. DOMAIN pc = Host /\ m_streams \in Seq(Stream) /\ m_operations \in [Queue -> Seq(Op)]
  BY DEF IInv, TypeInv, TypeOK
<1>1. UNCHANGED <<gpuVars, simVars, g_sim_done>>
  BY DEF PushEnqueue, DestroyDone, CreateStream
<1>2. pc[h] \notin {"exit", "gone"} /\ pc'[h] # "synced"
  BY <1>0 DEF PushEnqueue, DestroyDone, CreateStream, Return
<1>3. \A g \in Host : pc[g] \notin {"exit", "gone"} /\ pc'[g] # "synced"
  BY <1>2
<1>4. ~empty => ~empty'
  <2>1. CASE PushEnqueue(h)
    <3> DEFINE q == IF Blocking(call[h].stream) THEN Zero ELSE call[h].stream
    <3>0. UNCHANGED m_streams
      BY <2>1 DEF PushEnqueue
    <3>1. call[h] \in [op : Op, stream : Queue, event : Event]
      BY <2>1 DEF PushEnqueue, IInv, TypeInv, Pushing
    <3>2. q \in Queue /\ call[h].op \in Op
      BY <3>1 DEF Queue
    <3>3. m_operations' = m_operations \/ m_operations' = [m_operations EXCEPT ![q] = Append(@, call[h].op)]
      BY <2>1 DEF PushEnqueue
    <3> HIDE DEF q
    <3>4. Append(m_operations[q], call[h].op) # <<>>
      BY <1>0, <3>2, AppendSeq
    <3>5. \A r \in Queue : m_operations[r] # <<>> => m_operations'[r] # <<>>
      BY <1>0, <3>2, <3>3, <3>4
    <3>6. Zero \in Queue /\ ToSet(m_streams) \subseteq Queue
      BY <1>0 DEF Queue, ToSet
    <3> QED BY <3>0, <3>5, <3>6 DEF empty, concurrent_streams_empty
  <2>2. CASE DestroyDone(h)
    <3>1. /\ m_streams' = RemoveFirst(m_streams, call[h].stream) /\ UNCHANGED m_operations
          /\ m_operations[call[h].stream] = <<>>
      BY <2>2 DEF DestroyDone
    <3>2. ToSet(m_streams) \subseteq ToSet(m_streams') \cup {call[h].stream}
      BY <1>0, <3>1, EraseStream
    <3> QED BY <3>1, <3>2 DEF empty, concurrent_streams_empty
  <2>3. ASSUME NEW s \in Stream, CreateStream(h, s) PROVE ~empty => ~empty'
    <3>1. m_streams' = Append(m_streams, s) /\ UNCHANGED m_operations
      BY <2>3 DEF CreateStream
    <3>2. ToSet(m_streams) \subseteq ToSet(m_streams')
      BY <1>0, <3>1, AppendSeq
    <3> QED BY <3>1, <3>2 DEF empty, concurrent_streams_empty
  <2> QED BY <2>1, <2>2, <2>3
<1> QED BY <1>1, <1>3, <1>4, SimWhereHost

LEMMA AccountedFrame ==
  ASSUME Accounted, UNCHANGED <<m_operations, m_streams, next_uid>>, completed \subseteq completed',
         \A h \in Host : /\ Pushing(h)' <=> Pushing(h)
                         /\ Pushing(h) => call'[h] = call[h]
  PROVE  Accounted'
BY DEF Accounted, Queued, Pushing

LEMMA AccountedPops ==
  ASSUME IInv, Accounted, NEW Q \in SUBSET Queue, \A q \in Q : m_operations[q] # <<>>,
         m_operations' = [q \in Queue |-> IF q \in Q THEN Tail(m_operations[q]) ELSE m_operations[q]],
         completed \cup {Head(m_operations[q]).uid : q \in Q} \subseteq completed',
         UNCHANGED <<m_streams, pc, call, next_uid>>
  PROVE  Accounted'
<1>0. m_operations \in [Queue -> Seq(Op)] /\ m_streams \in Seq(Stream)
  BY DEF IInv, TypeInv, TypeOK
<1>1. ASSUME NEW u, Queued(u) PROVE u \in completed' \/ Queued(u)'
  <2>1. PICK q \in ToSet(m_streams) \cup {Zero} :
          \E i \in DOMAIN m_operations[q] : m_operations[q][i].uid = u
    BY <1>1 DEF Queued
  <2>2. PICK i \in DOMAIN m_operations[q] : m_operations[q][i].uid = u
    BY <2>1
  <2>3. q \in Queue /\ m_operations[q] \in Seq(Op)
    BY <1>0 DEF Queue, ToSet
  <2>4. CASE q \in Q
    <3>1. m_operations'[q] = Tail(m_operations[q]) /\ m_operations[q] # <<>>
      BY <2>3, <2>4
    <3>2. \/ i = 1 /\ Head(m_operations[q]).uid = u
          \/ i - 1 \in DOMAIN m_operations'[q] /\ m_operations'[q][i - 1].uid = u
      <4>1. /\ Head(m_operations[q]) = m_operations[q][1]
            /\ \A k \in DOMAIN m_operations[q] :
                 k = 1 \/ (/\ k - 1 \in DOMAIN Tail(m_operations[q])
                          /\ Tail(m_operations[q])[k - 1] = m_operations[q][k])
        BY <2>3, <3>1, TailSeq
      <4> QED BY <2>2, <3>1, <4>1, Zenon
    <3>3. CASE Head(m_operations[q]).uid = u
      BY <2>4, <3>3
    <3>4. CASE i - 1 \in DOMAIN m_operations'[q] /\ m_operations'[q][i - 1].uid = u
      BY <3>4 DEF Queued
    <3> QED BY <3>2, <3>3, <3>4
  <2>5. CASE q \notin Q
    BY <2>2, <2>3, <2>5 DEF Queued
  <2> QED BY <2>4, <2>5
<1> QED BY <1>1 DEF Accounted, Pushing

LEMMA AccountedSim == ASSUME IInv, Accounted, Sim PROVE Accounted'
<1>0. UNCHANGED <<m_streams, pc, call, next_uid>>
  BY DEF Sim, SimSpin, SimActivate, SimCheck, ServeNothing, ServeAtOnce, ServeKernel,
      ServeKernelFunctional, ServeKernelNoSlot, SimServe, SimBreak, SimCycle, SimNoCycle, SimLimit,
      SimTest, SimStop, hostVars, streamVars
<1>1. CASE UNCHANGED <<m_operations, completed>>
  BY <1>0, <1>1, AccountedFrame DEF Pushing
<1>2. ASSUME NEW us \in SUBSET (Running \cup ToSet(m_finished_kernel)), RegisterFinished(us)
      PROVE  Accounted'
  BY <1>0, <1>2, RegisteredFronts, AccountedPops
<1>3. ASSUME NEW q \in Queue, ServeAtOnce(q) \/ ServeKernelFunctional(q) PROVE Accounted'
  <2>1. /\ FrontStream(q) /\ m_operations' = [m_operations EXCEPT ![q] = Tail(@)]
        /\ completed' = completed \cup {Head(m_operations[q]).uid}
    BY <1>3 DEF ServeAtOnce, ServeKernelFunctional
  <2>2. m_operations[q] # <<>>
    BY <2>1, FrontChoice
  <2>3. m_operations' = [r \in Queue |-> IF r \in {q} THEN Tail(m_operations[r]) ELSE m_operations[r]]
    BY <2>1 DEF IInv, TypeInv, TypeOK
  <2>4. completed \cup {Head(m_operations[r]).uid : r \in {q}} \subseteq completed'
    BY <2>1
  <2>5. {q} \in SUBSET Queue /\ \A r \in {q} : m_operations[r] # <<>>
    BY <2>2
  <2> QED BY <1>0, <2>3, <2>4, <2>5, AccountedPops
<1>4. CASE SimCheck /\ m_finished_kernel # <<>>
  <2>1. m_finished_kernel \in Seq(Uid)
    BY DEF IInv, TypeInv, TypeOK
  <2>2. Head(m_finished_kernel) \in ToSet(m_finished_kernel)
    BY <1>4, <2>1, TailSeq DEF ToSet
  <2> QED BY <1>2, <1>4, <2>2 DEF SimCheck
<1>5. CASE SimLimit
  BY <1>2, <1>5 DEF SimLimit
<1>6. CASE \/ SimSpin \/ SimActivate \/ SimBreak \/ SimCycle \/ SimNoCycle \/ SimTest \/ SimStop
           \/ ServeNothing \/ (SimCheck /\ m_finished_kernel = <<>>)
           \/ \E q \in Queue : ServeKernel(q) \/ ServeKernelNoSlot(q)
  BY <1>1, <1>6 DEF SimSpin, SimActivate, SimCheck, ServeNothing, ServeKernel,
      ServeKernelNoSlot, SimBreak, SimCycle, SimNoCycle, SimTest, SimStop, streamVars
<1> QED BY <1>3, <1>4, <1>5, <1>6 DEF Sim

LEMMA AccountedWaiting ==
  ASSUME IInv, Accounted, NEW h \in Host,
         \/ PushUnblock(h) \/ PushWait(h) \/ StreamSynchronized(h) \/ Synchronized(h) \/ Proceed(h)
         \/ EventSynchronized(h) \/ ThreadExited(h) \/ Synchronize(h) \/ ThreadExit(h)
         \/ (\E s \in Stream : DestroyStream(h, s) \/ StreamSynchronize(h, s))
         \/ (\E e \in Event : EventSynchronize(h, e))
  PROVE  Accounted'
<1>0. DOMAIN pc = Host /\ DOMAIN call = Host
  BY DEF IInv, TypeInv
<1>1. UNCHANGED <<m_streams, m_operations, next_uid, completed>>
  BY DEF PushUnblock, PushWait, StreamSynchronized, Synchronized, Proceed, EventSynchronized,
         ThreadExited, Synchronize, ThreadExit, DestroyStream, StreamSynchronize, EventSynchronize,
         HostOnly, streamVars
<1>2. CASE PushUnblock(h)
  BY <1>0, <1>1, <1>2, AccountedFrame DEF PushUnblock, Pushing
<1>3. CASE ~PushUnblock(h)
  <2>1. /\ pc[h] \notin {"block", "enqueue"} /\ pc'[h] \notin {"block", "enqueue"}
        /\ \A g \in Host : g # h => pc'[g] = pc[g] /\ call'[g] = call[g]
    BY <1>0, <1>3 DEF PushWait, StreamSynchronized, Synchronized, Proceed, EventSynchronized,
         ThreadExited, Synchronize, ThreadExit, DestroyStream, StreamSynchronize, EventSynchronize,
         Enter, Return
  <2> QED BY <1>1, <2>1, AccountedFrame DEF Pushing
<1> QED BY <1>2, <1>3
LEMMA AccountedPush ==
  ASSUME IInv, Accounted, NEW h \in Host, NEW t \in OpTypes, NEW q \in Queue, NEW e \in Event,
         Push(h, t, q, e)
  PROVE  Accounted'
<1>0. DOMAIN pc = Host /\ DOMAIN call = Host /\ next_uid \in Nat
  BY StreamAssumption DEF IInv, TypeInv, TypeOK
<1>1. /\ UNCHANGED <<m_streams, m_operations, completed>> /\ next_uid' = next_uid + 1
      /\ q \in ToSet(m_streams) \cup {Zero} /\ ~Pushing(h)
  BY DEF Push, HostOnly, streamVars, Enter, Pushing
<1>2. /\ pc'[h] \in {"block", "enqueue"} /\ call'[h].stream = q /\ call'[h].op.uid = next_uid
      /\ \A g \in Host : g # h => pc'[g] = pc[g] /\ call'[g] = call[g]
  BY <1>0 DEF Push, Enter
<1>3. \A u \in 1 .. next_uid' - 1 : u \in 1 .. next_uid - 1 \/ u = next_uid
  BY <1>0, <1>1
<1>4. ASSUME NEW u \in 1 .. next_uid - 1
      PROVE  \/ u \in completed' \/ Queued(u)'
             \/ \E g \in Host : Pushing(g)' /\ call'[g].op.uid = u
  <2>1. u \in completed \/ Queued(u) \/ \E g \in Host : Pushing(g) /\ call[g].op.uid = u
    BY DEF Accounted
  <2>2. ASSUME NEW g \in Host, Pushing(g), call[g].op.uid = u
        PROVE  Pushing(g)' /\ call'[g].op.uid = u
    BY <1>1, <1>2, <2>2 DEF Pushing
  <2>3. Queued(u) => Queued(u)'
    BY <1>1 DEF Queued
  <2> QED BY <1>1, <2>1, <2>2, <2>3
<1>5. Pushing(h)'
  BY <1>2 DEF Pushing
<1>6. \A u \in 1 .. next_uid' - 1 :
        \/ u \in completed' \/ Queued(u)'
        \/ \E g \in Host : Pushing(g)' /\ call'[g].op.uid = u
  <2> TAKE u \in 1 .. next_uid' - 1
  <2>1. CASE u = next_uid
    BY <1>2, <1>5, <2>1
  <2> QED BY <1>3, <1>4, <2>1
<1>7. \A g \in Host : Pushing(g)' => call'[g].stream \in ToSet(m_streams') \cup {Zero}
  BY <1>1, <1>2 DEF Accounted, Pushing
<1> QED BY <1>6, <1>7 DEF Accounted

LEMMA AccountedEnqueue ==
  ASSUME IInv, Accounted, NEW h \in Host, PushEnqueue(h)
  PROVE  Accounted'
<1> DEFINE q == IF Blocking(call[h].stream) THEN Zero ELSE call[h].stream
           a == Append(m_operations[q], call[h].op)
<1>0. /\ DOMAIN pc = Host /\ DOMAIN call = Host
      /\ m_operations \in [Queue -> Seq(Op)] /\ m_streams \in Seq(Stream)
  BY DEF IInv, TypeInv, TypeOK
<1>1. Pushing(h) /\ UNCHANGED <<m_streams, next_uid>>
  BY DEF PushEnqueue, Pushing
<1>2. q \in ToSet(m_streams) \cup {Zero} /\ call[h].op \in Op
  BY <1>1 DEF Accounted, IInv, TypeInv
<1>3. \/ completed' = completed \cup {call[h].op.uid} /\ UNCHANGED m_operations
      \/ m_operations' = [m_operations EXCEPT ![q] = a] /\ UNCHANGED completed
  BY DEF PushEnqueue
<1>4. /\ pc'[h] \notin {"block", "enqueue"}
      /\ \A g \in Host : g # h => pc'[g] = pc[g] /\ call'[g] = call[g]
  BY <1>0 DEF PushEnqueue, Return
<1>5. ToSet(m_streams) \cup {Zero} \subseteq Queue
  BY <1>0 DEF Queue, ToSet
<1> HIDE DEF q
<1>6. \E m \in DOMAIN a : a[m] = call[h].op
  BY <1>0, <1>2, <1>5, AppendSeq
<1>7. \A i \in DOMAIN m_operations[q] : i \in DOMAIN a /\ a[i] = m_operations[q][i]
  BY <1>0, <1>2, <1>5, AppendSeq
<1> HIDE DEF a
<1>8. ASSUME NEW u, Queued(u) PROVE Queued(u)'
  <2>1. PICK r \in ToSet(m_streams) \cup {Zero} :
          \E i \in DOMAIN m_operations[r] : m_operations[r][i].uid = u
    BY <1>8 DEF Queued
  <2>2. \A i \in DOMAIN m_operations[r] :
          i \in DOMAIN m_operations'[r] /\ m_operations'[r][i] = m_operations[r][i]
    BY <1>0, <1>2, <1>3, <1>5, <1>7
  <2> QED BY <1>1, <2>1, <2>2 DEF Queued
<1>9. ASSUME NEW u, u = call[h].op.uid PROVE u \in completed' \/ Queued(u)'
  <2>1. CASE completed' = completed \cup {call[h].op.uid}
    BY <1>9, <2>1
  <2>2. CASE m_operations' = [m_operations EXCEPT ![q] = a]
    <3>1. m_operations'[q] = a
      BY <1>0, <1>2, <1>5, <2>2
    <3>2. \E m \in DOMAIN m_operations'[q] : m_operations'[q][m].uid = u
      BY <1>6, <1>9, <3>1
    <3> QED BY <1>1, <1>2, <3>2 DEF Queued
  <2> QED BY <1>3, <2>1, <2>2
<1>10. ASSUME NEW u \in 1 .. next_uid - 1
       PROVE  \/ u \in completed' \/ Queued(u)'
              \/ \E g \in Host : Pushing(g)' /\ call'[g].op.uid = u
  <2>1. u \in completed \/ Queued(u) \/ \E g \in Host : Pushing(g) /\ call[g].op.uid = u
    BY DEF Accounted
  <2>2. CASE u \in completed
    BY <1>3, <2>2
  <2>3. ASSUME NEW g \in Host, Pushing(g), call[g].op.uid = u, g # h
        PROVE  Pushing(g)' /\ call'[g].op.uid = u
    BY <1>4, <2>3 DEF Pushing
  <2>4. CASE u = call[h].op.uid
    BY <1>9, <2>4
  <2> QED BY <1>8, <2>1, <2>2, <2>3, <2>4
<1>11. \A g \in Host : Pushing(g)' => call'[g].stream \in ToSet(m_streams') \cup {Zero}
  BY <1>1, <1>4 DEF Accounted, Pushing
<1> QED BY <1>1, <1>10, <1>11 DEF Accounted

\* A stream that is destroyed has no operation left, and a single host thread
\* does not push to a stream while it creates or destroys one.
LEMMA AccountedStreams ==
  ASSUME \A f, g \in Host : f = g, IInv, Accounted, NEW h \in Host,
         DestroyDone(h) \/ \E s \in Stream : CreateStream(h, s)
  PROVE  Accounted'
<1>0. DOMAIN pc = Host /\ m_streams \in Seq(Stream)
  BY DEF IInv, TypeInv, TypeOK
<1>1. UNCHANGED <<m_operations, next_uid, completed>>
  BY DEF DestroyDone, CreateStream
<1>2. pc[h] \notin {"block", "enqueue"} /\ pc'[h] \notin {"block", "enqueue"}
  BY <1>0 DEF DestroyDone, CreateStream, Return
<1>3. \A g \in Host : ~Pushing(g) /\ ~Pushing(g)'
  BY <1>2 DEF Pushing
<1>4. \A q \in ToSet(m_streams) : q \in ToSet(m_streams') \/ m_operations[q] = <<>>
  <2>1. CASE DestroyDone(h)
    <3>1. m_streams' = RemoveFirst(m_streams, call[h].stream) /\ m_operations[call[h].stream] = <<>>
      BY <2>1 DEF DestroyDone
    <3>2. ToSet(m_streams) \subseteq ToSet(m_streams') \cup {call[h].stream}
      BY <1>0, <3>1, EraseStream
    <3> QED BY <3>1, <3>2
  <2>2. ASSUME NEW s \in Stream, CreateStream(h, s)
        PROVE  ToSet(m_streams) \subseteq ToSet(m_streams')
    BY <1>0, <2>2, AppendSeq DEF CreateStream
  <2> QED BY <2>1, <2>2
<1>5. ASSUME NEW u, Queued(u) PROVE Queued(u)'
  BY <1>1, <1>4, <1>5 DEF Queued
<1> QED BY <1>1, <1>3, <1>5 DEF Accounted

\* After cudaThreadSynchronize a program with one host thread finds every
\* operation it queued completed, the simulation thread waiting, and the GPU
\* inactive: empty() and g_sim_active, which it polls without the lock, suffice.
THEOREM SyncedIdleCorrect ==
  ASSUME \A g, h \in Host : g = h
  PROVE  Spec => []SyncedIdle
<1> DEFINE SyncInv == SimWhere /\ Accounted
<1>1. Init => SyncInv
  <2> SUFFICES ASSUME Init PROVE SyncInv
    OBVIOUS
  <2>1. ~active
    BY StreamAssumption DEF Init, active, Running
  <2>2. SimWhere
    BY <2>1 DEF Init, SimWhere
  <2>3. Accounted
    BY DEF Init, Accounted, Pushing
  <2> QED BY <2>2, <2>3
<1>2. IInv /\ SyncInv /\ [Next]_vars => SyncInv'
  <2>1. ASSUME SyncInv, UNCHANGED vars PROVE SyncInv'
    <3>1. UNCHANGED <<m_operations, m_streams, next_uid, completed, pc, call, gpuVars, simVars, g_sim_done>>
      BY <2>1 DEF vars, streamVars, hostVars
    <3>2. empty' = empty
      BY <3>1 DEF empty, concurrent_streams_empty
    <3>3. Accounted'
      BY <2>1, <3>1, AccountedFrame DEF Pushing
    <3>4. SimWhere'
      BY <2>1, <3>1, <3>2, SameGpu DEF SimWhere, simVars
    <3> QED BY <3>3, <3>4
  <2>2. ASSUME IInv, SyncInv, Next PROVE SyncInv'
    <3>1. CASE Sim
      BY <2>2, <3>1, SimWhereSim, AccountedSim
    <3>2. ASSUME NEW h \in Host, Poll(h) PROVE SyncInv'
      <4>1. SimWhere'
        BY <2>2, <3>2, SimWhereWaiting, SimWhereStreams DEF Poll
      <4>2. Accounted'
        BY <2>2, <3>2, AccountedWaiting, AccountedEnqueue, AccountedStreams DEF Poll
      <4> QED BY <4>1, <4>2
    <3>3. ASSUME NEW h \in Host, NEW t \in OpTypes, NEW q \in Queue, NEW e \in Event, Push(h, t, q, e)
          PROVE  SyncInv'
      BY <2>2, <3>3, SimWhereWaiting, AccountedPush
    <3>4. ASSUME NEW h \in Host, NEW s \in Stream,
                 CreateStream(h, s) \/ DestroyStream(h, s) \/ StreamSynchronize(h, s)
          PROVE  SyncInv'
      BY <2>2, <3>4, SimWhereWaiting, SimWhereStreams, AccountedWaiting, AccountedStreams
    <3>5. ASSUME NEW h \in Host,
                 Synchronize(h) \/ ThreadExit(h) \/ \E e \in Event : EventSynchronize(h, e)
          PROVE  SyncInv'
      BY <2>2, <3>5, SimWhereWaiting, AccountedWaiting
    <3> QED BY <2>2, <3>1, <3>2, <3>3, <3>4, <3>5 DEF Next
  <2> QED BY <2>1, <2>2
<1>3. SyncInv => SyncedIdle
  <2> SUFFICES ASSUME SyncInv, NEW h \in Host, pc[h] = "synced"
               PROVE  /\ \A u \in 1 .. next_uid - 1 : u \in completed
                      /\ sim_pc \in {"spin", "exited"} /\ ~active
    BY DEF SyncedIdle
  <2>1. empty /\ sim_pc \in {"spin", "exited"} /\ ~active
    BY DEF SimWhere
  <2>2. \A u : ~Queued(u)
    BY <2>1 DEF Queued, empty, concurrent_streams_empty
  <2>3. \A g \in Host : ~Pushing(g)
    BY DEF Pushing
  <2> QED BY <2>1, <2>2, <2>3 DEF Accounted
<1> QED BY <1>1, <1>2, <1>3, Invariant, PTL DEF Spec
=============================================================================
