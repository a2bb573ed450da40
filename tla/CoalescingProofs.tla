--------------------------- MODULE CoalescingProofs ---------------------------
(***************************************************************************)
(* StableCount, ServedOnce and AtomicSerial of Coalescing, for every warp  *)
(* size, every number of parts and every instruction: without coalescing   *)
(* the number of accesses to global memory does not depend on the          *)
(* addresses; every access of a thread is served once; the threads of an   *)
(* atomic that meet at an address are served in order.                     *)
(***************************************************************************)
EXTENDS Coalescing, FiniteSetTheorems, WellFoundedInduction, TLAPS

\* The instruction is served without coalescing, one address per thread.
Uncoalesced == inst.space = "global" /\ coal_disabled_loc

\* The active threads whose accesses are in the queue or in the transactions
Counted == {t \in inst.active : t < thread}

\* The invariant.  The first part gives the loop counters their ranges; the
\* queue is a sequence of whatever it holds.  The last part is what makes the
\* count inductive: transactions of one thread are sent before the next thread
\* is looked at, so that no two threads meet in a transaction.
IInv ==
  /\ inst \in Insns
  /\ thread \in 0 .. WarpSize
  /\ m_accessq \in Seq(UNION {{m_accessq[i]} : i \in DOMAIN m_accessq})
  /\ IsFiniteSet(subwarp_transactions)
  /\ Done => inst.space = "shared" \/ inst.active = {} \/ thread = WarpSize
  /\ Uncoalesced =>
       /\ pc # "send" => subwarp_transactions = {}
       /\ access = 1
       /\ Len(m_accessq) + Cardinality(subwarp_transactions) = Cardinality(Counted)

\* Appending to a sequence of whatever it holds gives such a sequence, one longer.
LEMMA AppendLonger ==
  ASSUME NEW q, q \in Seq(UNION {{q[i]} : i \in DOMAIN q}), NEW x
  PROVE  LET r == Append(q, x)
         IN  r \in Seq(UNION {{r[i]} : i \in DOMAIN r}) /\ Len(r) = Len(q) + 1
<1> DEFINE S == UNION {{q[i]} : i \in DOMAIN q}
           r == Append(q, x)
           R == UNION {{r[i]} : i \in DOMAIN r}
<1>1. q \in Seq(S \cup {x})
  <2>1. Len(q) \in Nat /\ q \in [1 .. Len(q) -> S]
    OBVIOUS
  <2> QED BY <2>1
<1>2. r \in Seq(S \cup {x}) /\ Len(r) = Len(q) + 1
  <2> HIDE DEF S
  <2> QED BY <1>1
<1>3. Len(r) \in Nat /\ DOMAIN r = 1 .. Len(r) /\ r = [i \in 1 .. Len(r) |-> r[i]]
  <2> HIDE DEF S, r
  <2> QED BY <1>2
<1>4. \A i \in 1 .. Len(r) : r[i] \in R
  BY <1>3
<1>5. r \in Seq(R)
  <2> HIDE DEF R, r
  <2> QED BY <1>3, <1>4
<1> QED BY <1>2, <1>5

\* The threads of a mask below a bound are finitely many.
LEMMA LanesFinite == \A i \in Insns : IsFiniteSet(i.active)
<1>1. IsFiniteSet(Lane)
  BY FS_Interval, WarpAssumption DEF Lane
<1> QED BY <1>1, FS_Subset, InsnAssumption

\* One thread more below the bound: the count grows by one when it is active.
LEMMA CountStep ==
  ASSUME NEW mask, IsFiniteSet(mask), mask \subseteq Nat, NEW n \in Nat
  PROVE  /\ Cardinality({t \in mask : t < n}) \in Nat
         /\ n \in mask => Cardinality({t \in mask : t < n + 1})
                           = Cardinality({t \in mask : t < n}) + 1
         /\ n \notin mask => {t \in mask : t < n + 1} = {t \in mask : t < n}
<1> DEFINE Below == {t \in mask : t < n}
<1>0. \A t \in mask : t < n + 1 <=> t < n \/ t = n
  OBVIOUS
<1>1. IsFiniteSet(Below)
  BY FS_Subset
<1>2. Cardinality(Below) \in Nat
  BY <1>1, FS_CardinalityType
<1>3. ASSUME n \in mask
      PROVE  Cardinality({t \in mask : t < n + 1}) = Cardinality(Below) + 1
  <2>1. {t \in mask : t < n + 1} = Below \cup {n}
    BY <1>0, <1>3
  <2>2. n \notin Below
    OBVIOUS
  <2> QED BY <1>1, <1>2, <1>3, <2>1, <2>2, FS_AddElement
<1>4. ASSUME n \notin mask PROVE {t \in mask : t < n + 1} = Below
  BY <1>0, <1>4
<1> QED BY <1>2, <1>3, <1>4

\* An access added to the transactions of a thread that starts with none makes
\* exactly one; transactions stay finite in number.
LEMMA AddedOne ==
  ASSUME NEW trs, IsFiniteSet(trs), NEW t, NEW a
  PROVE  /\ IsFiniteSet(Added(trs, t, a))
         /\ trs = {} => Cardinality(Added(trs, t, a)) = 1
<1>1. PICK J, x : J \subseteq trs /\ Added(trs, t, a) = (trs \ J) \cup {x}
  <2> DEFINE J == {tr \in trs : Joins(trs, t, a, tr)}
             base == IF J # {}
                       THEN CHOOSE tr \in J : TRUE
                       ELSE [block |-> Block(t, a), n |-> Cardinality(ListOf(trs, Block(t, a))) + 1,
                             chunks |-> {}, active |-> {}, bytes |-> {}]
             x == [base EXCEPT !.chunks = @ \cup {Chunk(t, a)}, !.active = @ \cup {t},
                               !.bytes = @ \cup Bytes(t, a)]
  <2>1. Added(trs, t, a) = (trs \ J) \cup {x}
    BY Zenon DEF Added
  <2>2. J \subseteq trs
    OBVIOUS
  <2> HIDE DEF J, x
  <2> QED BY <2>1, <2>2
<1>2. IsFiniteSet(trs \ J)
  BY FS_Subset
<1>3. IsFiniteSet(Added(trs, t, a))
  BY <1>1, <1>2, FS_AddElement
<1>4. ASSUME trs = {} PROVE Cardinality(Added(trs, t, a)) = 1
  <2>1. Added(trs, t, a) = {x}
    BY <1>1, <1>4
  <2> QED BY <2>1, FS_Singleton
<1> QED BY <1>3, <1>4

LEMMA InitIInv == Init => IInv
<1> SUFFICES ASSUME Init PROVE IInv
  OBVIOUS
<1>1. inst \in Insns /\ thread = 0 /\ access = 1 /\ subwarp_transactions = {} /\ pc = "collect"
  BY DEF Init
<1>2. m_accessq \in Seq(UNION {{m_accessq[i]} : i \in DOMAIN m_accessq}) /\ Len(m_accessq) = 0
  BY DEF Init
<1>3. IsFiniteSet(subwarp_transactions) /\ Cardinality(subwarp_transactions) = 0
  BY <1>1, FS_EmptySet
<1>4. Counted = {}
  BY <1>1, InsnAssumption DEF Counted, Lane
<1>5. Cardinality(Counted) = 0
  BY <1>4, FS_EmptySet
<1>6. thread \in 0 .. WarpSize
  BY <1>1, WarpAssumption
<1> QED BY <1>1, <1>2, <1>3, <1>5, <1>6 DEF IInv, Done

LEMMA NextIInv == IInv /\ [Next]_vars => IInv'
<1> SUFFICES ASSUME IInv, [Next]_vars PROVE IInv'
  OBVIOUS
<1> DEFINE Fixed == inst' = inst /\ coal_disabled' = coal_disabled
                      /\ coal_disabled_dyn' = coal_disabled_dyn
<1>0. inst \in Insns /\ inst.active \subseteq Lane /\ Lane \subseteq Nat
        /\ IsFiniteSet(inst.active) /\ WarpSize \in Nat /\ thread \in Nat
  BY LanesFinite, InsnAssumption, WarpAssumption DEF IInv, Lane
<1>u. Fixed => Uncoalesced' = Uncoalesced
  BY DEF Uncoalesced, coal_disabled_loc
<1>n. Uncoalesced => num_accesses(inst) = 1
  BY DEF Uncoalesced, num_accesses
<1>e. Uncoalesced => EndsHere
  BY DEF Uncoalesced, EndsHere
<1>1. CASE Collect
  <2>0. Fixed /\ m_accessq' = m_accessq /\ pc = "collect" /\ thread \in inst.active
          /\ inst.space # "shared"
    BY <1>1 DEF Collect, config
  <2>1. IsFiniteSet(subwarp_transactions')
    BY <1>1, AddedOne DEF Collect, IInv
  <2>2. thread' \in 0 .. WarpSize /\ pc' \in {"collect", "send"}
    BY <1>0, <1>1, <2>0 DEF Collect, NextThread, Lane, IInv
  <2>3. ASSUME Uncoalesced
        PROVE  /\ pc' = "send" /\ access' = 1 /\ thread' = thread + 1
               /\ subwarp_transactions = {}
    <3>1. access = 1 /\ subwarp_transactions = {}
      BY <2>0, <2>3 DEF IInv
    <3>2. NextThread
      BY <1>1, <1>n, <2>3, <3>1 DEF Collect
    <3> QED BY <1>e, <2>3, <3>1, <3>2 DEF NextThread
  <2>4. ASSUME Uncoalesced
        PROVE  Len(m_accessq') + Cardinality(subwarp_transactions') = Cardinality(Counted')
    <3>1. Cardinality(subwarp_transactions) = 0 /\ Cardinality(subwarp_transactions') = 1
      BY <1>1, <2>3, <2>4, AddedOne, FS_EmptySet DEF Collect, IInv
    <3>2. Len(m_accessq) \in Nat
      BY DEF IInv
    <3>3. Counted' = {t \in inst.active : t < thread + 1}
      BY <2>0, <2>3, <2>4 DEF Counted
    <3>4. Cardinality(Counted') = Cardinality(Counted) + 1
      <4>1. Cardinality({t \in inst.active : t < thread + 1})
              = Cardinality({t \in inst.active : t < thread}) + 1
        BY <1>0, <2>0, CountStep
      <4> QED BY <3>3, <4>1 DEF Counted
    <3>5. Len(m_accessq) + 0 = Cardinality(Counted)
      BY <2>4, <3>1 DEF IInv
    <3> QED BY <2>0, <3>1, <3>2, <3>4, <3>5
  <2> QED BY <1>0, <1>u, <2>0, <2>1, <2>2, <2>3, <2>4 DEF IInv, Done
<1>2. CASE Skip
  <2>0. Fixed /\ m_accessq' = m_accessq /\ pc = "collect" /\ thread \in Lane \ inst.active
          /\ subwarp_transactions' = subwarp_transactions /\ NextThread
    BY <1>2 DEF Skip, config
  <2>1. thread' = thread + 1 /\ thread' \in 0 .. WarpSize /\ pc' \in {"collect", "send"} /\ access' = 1
    BY <1>0, <2>0 DEF NextThread, Lane, IInv
  <2>2. Cardinality(Counted') = Cardinality(Counted)
    <3>1. Counted' = {t \in inst.active : t < thread + 1}
      BY <2>0, <2>1 DEF Counted
    <3> QED BY <1>0, <2>0, <3>1, CountStep DEF Counted
  <2> QED BY <1>0, <1>u, <2>0, <2>1, <2>2 DEF IInv, Done
<1>3. CASE Send
  <2>0. Fixed /\ thread' = thread /\ access' = access /\ pc' = "send" /\ pc = "send"
    BY <1>3 DEF Send, config
  <2>1. PICK tr \in subwarp_transactions :
          /\ m_accessq' = Append(m_accessq, AccessOf(tr))
          /\ subwarp_transactions' = subwarp_transactions \ {tr}
    BY <1>3 DEF Send
  <2>2. /\ m_accessq' \in Seq(UNION {{m_accessq'[i]} : i \in DOMAIN m_accessq'})
        /\ Len(m_accessq') = Len(m_accessq) + 1
    BY <2>1, AppendLonger DEF IInv
  <2>3. /\ IsFiniteSet(subwarp_transactions')
        /\ Cardinality(subwarp_transactions') = Cardinality(subwarp_transactions) - 1
    BY <2>1, FS_RemoveElement DEF IInv
  <2>4. Len(m_accessq) \in Nat /\ Cardinality(subwarp_transactions) \in Nat
    BY FS_CardinalityType DEF IInv
  <2>5. Counted' = Counted
    BY <2>0 DEF Counted
  <2>6. Uncoalesced => Len(m_accessq') + Cardinality(subwarp_transactions') = Cardinality(Counted')
    BY <2>2, <2>3, <2>4, <2>5 DEF IInv
  <2> QED BY <1>0, <1>u, <2>0, <2>2, <2>3, <2>6 DEF IInv, Done
<1>4. CASE Sent
  BY <1>4, <1>u DEF Sent, IInv, Done, config, Counted
<1>5. CASE AccessShared
  <2>1. ~Uncoalesced
    BY <1>5 DEF AccessShared, Uncoalesced
  <2> QED BY <1>5, <1>u, <2>1 DEF AccessShared, IInv, Done, config
<1>6. CASE Finish
  BY <1>6, <1>u DEF Finish, IInv, Done, config, Counted
<1>7. CASE UNCHANGED vars
  BY <1>7, <1>u DEF vars, config, IInv, Done, Counted
<1> QED BY <1>1, <1>2, <1>3, <1>4, <1>5, <1>6, <1>7 DEF Next

\* Without coalescing, a warp makes exactly one access to global memory for
\* each active thread, whatever the addresses, the size of the warp, its parts
\* and the instructions (memory_coalescing_arch_13 with coal_disabled_loc).
THEOREM StableCountCorrect == Spec => []StableCount
<1>1. IInv => StableCount
  <2> SUFFICES ASSUME IInv, Done, inst.space = "global", coal_disabled_loc
               PROVE  Len(m_accessq) = Cardinality(inst.active)
    BY DEF StableCount
  <2>1. Len(m_accessq) + Cardinality(subwarp_transactions) = Cardinality(Counted)
          /\ subwarp_transactions = {}
    BY DEF IInv, Uncoalesced, Done
  <2>2. Cardinality(subwarp_transactions) = 0 /\ Len(m_accessq) \in Nat
    BY <2>1, FS_EmptySet DEF IInv
  <2>3. Counted = inst.active
    BY InsnAssumption, WarpAssumption DEF IInv, Counted, Lane
  <2> QED BY <2>1, <2>2, <2>3
<1> QED BY <1>1, InitIInv, NextIInv, PTL DEF Spec

-----------------------------------------------------------------------------
(* Every access is served once: the invariant *)

Accesses == 1 .. num_accesses(inst)

\* Access a of thread t has been collected.
Seen(t, a) == t < thread \/ (t = thread /\ a < access)

\* Transaction tr stands for access a of thread t.
Holds(tr, t, a) == t \in tr.active /\ tr.block = Block(t, a)
Pending(t, a) == \E tr \in subwarp_transactions : Holds(tr, t, a)

Transaction == [block : Nat, n : Nat, chunks : SUBSET Nat, active : SUBSET Lane, bytes : SUBSET Nat]

\* The loop counters; what is collected is sent at the end of a subwarp.
LoopInv ==
  /\ inst \in Insns /\ thread \in 0 .. WarpSize /\ access \in Accesses
  /\ coal_disabled \in BOOLEAN /\ coal_disabled_dyn \in BOOLEAN
  /\ pc \in {"collect", "send", "done"}
  /\ access > 1 => pc = "collect" /\ thread \in inst.active
  /\ inst.active = {} \/ inst.space = "shared" => thread = 0 /\ access = 1
  /\ pc = "done" \/ (pc = "collect" /\ access = 1 /\ thread % subwarp_size = 0)
       => subwarp_transactions = {}
  /\ pc = "done" => thread = WarpSize \/ inst.active = {} \/ inst.space = "shared"

\* A transaction stands for threads that were collected.  A block has several
\* transactions only for an atomic, with different threads, numbered in the
\* order of the list.
TransInv ==
  /\ subwarp_transactions \subseteq Transaction
  /\ IsFiniteSet(subwarp_transactions)
  /\ \A tr \in subwarp_transactions : \A t \in tr.active :
       t \in inst.active /\ \E a \in Accesses : Seen(t, a) /\ Block(t, a) = tr.block
  /\ \A tr, other \in subwarp_transactions : tr.block = other.block /\ tr # other =>
       inst.isatomic /\ tr.active \cap other.active = {} /\ tr.n # other.n
  /\ pc = "collect" => \A tr \in subwarp_transactions :
                         tr.n <= Cardinality(ListOf(subwarp_transactions, tr.block))

\* The queue holds accesses of threads the loop has left.
QueueInv ==
  /\ m_accessq \in Seq(UNION {{m_accessq[i]} : i \in DOMAIN m_accessq})
  /\ \A i \in DOMAIN m_accessq : \A t \in m_accessq[i].active : t \in inst.active /\ t < thread

CollectInv == LoopInv /\ TransInv /\ QueueInv

\* A transaction knows the chunks of its accesses; a collected access is in a
\* transaction, or else in one entry of the queue.
ServeInv ==
  /\ \A tr \in subwarp_transactions, t \in inst.active, a \in Accesses :
       Seen(t, a) /\ Holds(tr, t, a) => Chunk(t, a) \in tr.chunks
  /\ \A t \in inst.active, a \in Accesses :
       /\ Pending(t, a) => \A i \in DOMAIN m_accessq : ~Serves(i, t, a)
       /\ Seen(t, a) /\ ~Pending(t, a) => \E i \in DOMAIN m_accessq : Serves(i, t, a)
       /\ \A i, j \in DOMAIN m_accessq : Serves(i, t, a) /\ Serves(j, t, a) => i = j

\* For an atomic: a thread is in the first transaction of its block that it
\* could join, so that threads with the same bytes are in the order of the list.
SerialInv ==
  inst.isatomic =>
    /\ \A tr \in subwarp_transactions : \A t \in tr.active : Bytes(t, 1) \subseteq tr.bytes
    /\ \A tr, other \in subwarp_transactions : \A t \in tr.active :
         tr.block = other.block /\ other.n < tr.n => other.bytes \cap Bytes(t, 1) # {}
    /\ \A t, u \in inst.active : t < u /\ inst.memreqaddr[t] = inst.memreqaddr[u] =>
         /\ \A tr, other \in subwarp_transactions :
              t \in tr.active /\ u \in other.active => tr.n < other.n
         /\ \A tr \in subwarp_transactions, j \in DOMAIN m_accessq :
              t \in tr.active => u \notin m_accessq[j].active
         /\ \A i, j \in DOMAIN m_accessq :
              t \in m_accessq[i].active /\ u \in m_accessq[j].active => i < j

-----------------------------------------------------------------------------
(* Blocks, halves and lines *)

\* A line of the constant and texture caches holds whole accesses.
LineAligned == LineSize % 16 = 0

\* The d bytes at x are within part.
Covers(part, x, d) == part.addr <= x /\ x + d <= part.addr + part.size

LEMMA InsnFacts ==
  ASSUME NEW i \in Insns
  PROVE  /\ i.active \subseteq Lane /\ i.isatomic \in BOOLEAN
         /\ num_accesses(i) \in {1, 2, 4} /\ (i.isatomic => num_accesses(i) = 1 /\ i.space = "global")
         /\ i.data_size \in {1, 2, 4, 8, 16} /\ data_size_coales(i) \in {1, 2, 4, 8, 16}
         /\ data_size_coales(i) <= i.data_size
         /\ \A t \in i.active, a \in 1 .. num_accesses(i) :
              i.memreqaddr[t][a] \in Nat /\ i.memreqaddr[t][a] % data_size_coales(i) = 0
<1>1. /\ i.space \in {"global", "local", "const", "shared"}
      /\ i.isatomic \in BOOLEAN /\ (i.isatomic => i.space = "global")
      /\ i.data_size \in {1, 2, 4, 8, 16} /\ i.active \subseteq Lane
      /\ \A t \in i.active, a \in 1 .. num_accesses(i) :
           i.memreqaddr[t][a] \in Nat /\ i.memreqaddr[t][a] % data_size_coales(i) = 0
  BY InsnAssumption
<1>2. num_accesses(i) \in {1, 2, 4} /\ (i.isatomic => num_accesses(i) = 1)
  BY <1>1 DEF num_accesses
<1>3. data_size_coales(i) \in {1, 2, 4, 8, 16} /\ data_size_coales(i) <= i.data_size
  <2>1. CASE i.space = "local" /\ i.data_size >= 4
    BY <1>1, <2>1 DEF num_accesses, data_size_coales
  <2>2. CASE ~(i.space = "local" /\ i.data_size >= 4)
    BY <1>1, <2>2 DEF num_accesses, data_size_coales
  <2> QED BY <2>1, <2>2
<1> QED BY <1>1, <1>2, <1>3

\* A multiple of n less than n away from 0 is 0.
LEMMA NoMultiple ==
  ASSUME NEW n \in Nat \ {0}, NEW k \in Int, n * k < n, 0 - n < n * k
  PROVE  k = 0
<1>1. CASE k >= 1
  <2>1. n * k = n + n * (k - 1)
    OBVIOUS
  <2>2. k - 1 \in Nat
    BY <1>1
  <2>3. n * (k - 1) >= 0
    BY <2>2
  <2> QED BY <2>1, <2>3
<1>2. CASE k <= -1
  <2>1. n * k = (0 - n) - n * (0 - k - 1)
    OBVIOUS
  <2>2. 0 - k - 1 \in Nat
    BY <1>2
  <2>3. n * (0 - k - 1) >= 0
    BY <2>2
  <2> QED BY <2>1, <2>3
<1> QED BY <1>1, <1>2

\* The block of an address, and which addresses have the same one
LEMMA TagFacts ==
  ASSUME NEW x \in Nat, NEW n \in Nat \ {0}, NEW b, b = tag(x, n)
  PROVE  /\ b \in Nat /\ b <= x /\ x < b + n
         /\ \A y \in Nat : b <= y /\ y < b + n => tag(y, n) = b
<1>0. PICK p, m : p = x \div n /\ m = x % n
  OBVIOUS
<1>1. p \in Nat /\ m \in Nat /\ m < n /\ x = n * p + m
  <2>1. p \in Nat /\ m \in Nat /\ m < n
    BY <1>0
  <2> QED BY <1>0, <2>1
<1>2. n * p \in Nat
  BY <1>1
<1>3. b = n * p
  BY <1>0, <1>1, <1>2 DEF tag
<1>4. b \in Nat /\ b <= x /\ x < b + n
  BY <1>1, <1>2, <1>3
<1>5. ASSUME NEW y \in Nat, b <= y, y < b + n PROVE tag(y, n) = b
  <2>0. PICK q, k : q = y \div n /\ k = y % n
    OBVIOUS
  <2>1. q \in Nat /\ k \in Nat /\ k < n /\ y = n * q + k
    <3>1. q \in Nat /\ k \in Nat /\ k < n
      BY <2>0
    <3> QED BY <2>0, <3>1
  <2>2. PICK c : c = n * q
    OBVIOUS
  <2>3. c \in Nat /\ tag(y, n) = c /\ y = c + k
    BY <2>0, <2>1, <2>2 DEF tag
  <2>5. b - c < n /\ 0 - n < b - c
    BY <1>4, <1>5, <2>1, <2>3
  <2>6. b - c = n * (p - q)
    BY <1>1, <1>3, <2>1, <2>2
  <2>7. p - q = 0
    BY <1>1, <2>1, <2>5, <2>6, NoMultiple
  <2>8. p = q
    BY <1>1, <2>1, <2>7
  <2> QED BY <1>3, <2>2, <2>3, <2>8
<1> QED BY <1>4, <1>5

\* The sizes of a segment, those that are halved, and those of an access
Segment == {32, 64, 128}
Halved == {64, 128}
Width == {1, 2, 4, 8, 16}

\* Halving keeps the bytes of every access whose chunk is in use.
LEMMA HalfCovers ==
  ASSUME NEW p \in Nat, NEW s \in Halved, p % s = 0, NEW x \in Nat, NEW d \in Width,
         x % d = 0, Covers([addr |-> p, size |-> s], x, d), NEW C \in SUBSET Nat, (x % 128) \div 32 \in C
  PROVE  Covers(Half([addr |-> p, size |-> s], C), x, d)
<1> USE DEF Halved, Width
<1>g. PICK g : g = Half([addr |-> p, size |-> s], C)
  OBVIOUS
<1>s. SUFFICES Covers(g, x, d)
  BY <1>g
<1>0. PICK c, m : c = (x % 128) \div 32 /\ m = (p % 128) + (s \div 2)
  OBVIOUS
<1>1. PICK lower, upper : lower = {k \in C : 32 * k < m} /\ upper = C \ lower
  OBVIOUS
<1>2. g = IF lower # {} /\ upper # {} THEN [addr |-> p, size |-> s]
          ELSE [addr |-> IF lower # {} THEN p ELSE p + (s \div 2), size |-> s \div 2]
  BY <1>0, <1>1, <1>g DEF Half
<1>3. c \in Nat /\ p <= x /\ x + d <= p + s
  BY <1>0 DEF Covers
<1>4. /\ c \in lower => 32 * c < m
      /\ c \in upper => ~(32 * c < m)
      /\ c \in lower \/ c \in upper
  BY <1>0, <1>1
<1>5. PICK h \in {32, 64} : s = 2 * h /\ s \div 2 = h
  OBVIOUS
<1>6. p % h = 0 /\ (p + h) % h = 0
  BY <1>5
<1>7. /\ 32 * c < m => x + d <= p + h
      /\ ~(32 * c < m) => p + h <= x
  <2>1. CASE h = 64
    <3>1. s = 128 /\ p % 128 = 0 /\ m = 64
      BY <1>0, <1>5, <2>1
    <3> QED BY <1>0, <1>3, <2>1, <3>1
  <2>2. CASE h = 32
    <3>1. s = 64 /\ p % 64 = 0 /\ m = (p % 128) + 32
      BY <1>0, <1>5, <2>2
    <3> QED BY <1>0, <1>3, <2>2, <3>1
  <2> QED BY <1>5, <2>1, <2>2
<1>8. CASE lower # {} /\ upper # {}
  BY <1>2, <1>3, <1>8 DEF Covers
<1>9. CASE upper = {} /\ lower # {}
  <2>1. g.addr = p /\ g.size = h
    BY <1>2, <1>5, <1>9
  <2>2. x + d <= p + h
    BY <1>4, <1>7, <1>9
  <2> QED BY <1>3, <1>5, <1>6, <2>1, <2>2 DEF Covers
<1>10. CASE lower = {}
  <2>1. g.addr = p + h /\ g.size = h
    BY <1>2, <1>5, <1>10
  <2>2. p + h <= x /\ p + h + h = p + s
    BY <1>4, <1>5, <1>7, <1>10
  <2> QED BY <1>3, <1>5, <1>6, <2>1, <2>2 DEF Covers
<1> QED BY <1>8, <1>9, <1>10

\* g is an aligned part of the s bytes at p, or a half of them.
Within(g, p, s) ==
  /\ g.addr \in Nat /\ g.size \in {s, s \div 2} /\ g.addr % g.size = 0
  /\ p <= g.addr /\ g.addr + g.size <= p + s
  /\ g = [addr |-> g.addr, size |-> g.size]

LEMMA HalfWithin ==
  ASSUME NEW p \in Nat, NEW s \in Halved, p % s = 0, NEW C
  PROVE  Within(Half([addr |-> p, size |-> s], C), p, s)
<1> USE DEF Halved
<1>g. PICK g : g = Half([addr |-> p, size |-> s], C)
  OBVIOUS
<1>s. SUFFICES Within(g, p, s)
  BY <1>g
<1>1. PICK h \in {32, 64} : s = 2 * h /\ s \div 2 = h
  OBVIOUS
<1>2. p % h = 0 /\ (p + h) % h = 0 /\ p + h + h = p + s
  BY <1>1
<1>3. \/ g = [addr |-> p, size |-> s]
      \/ g = [addr |-> p, size |-> h]
      \/ g = [addr |-> p + h, size |-> h]
  BY <1>1, <1>g DEF Half
<1>4. CASE g = [addr |-> p, size |-> s]
  BY <1>4 DEF Within
<1>5. CASE g = [addr |-> p, size |-> h]
  BY <1>1, <1>2, <1>5 DEF Within
<1>6. CASE g = [addr |-> p + h, size |-> h]
  BY <1>1, <1>2, <1>6 DEF Within
<1> QED BY <1>3, <1>4, <1>5, <1>6

\* A block holds the accesses that begin in it.
LEMMA WholeCovers ==
  ASSUME NEW x \in Nat, NEW d \in Width, x % d = 0, NEW n \in Nat \ {0}, n % 16 = 0
  PROVE  Covers([addr |-> tag(x, n), size |-> n], x, d)
<1> USE DEF Width
<1>1. PICK q, m, k : q = x \div n /\ m = x % n /\ k = n \div 16
  OBVIOUS
<1>2. q \in Nat /\ m \in Nat /\ m < n /\ x = n * q + m
  <2>1. q \in Nat /\ m \in Nat /\ m < n
    BY <1>1
  <2> QED BY <1>1, <2>1
<1>3. k \in Nat /\ n = 16 * k
  BY <1>1
<1>4. PICK w : w = k * q
  OBVIOUS
<1>5. w \in Nat /\ n * q = 16 * w
  BY <1>2, <1>3, <1>4
<1>6. x = 16 * w + m
  BY <1>2, <1>5
<1>7. m + d <= 16 * k
  <2>1. CASE d = 1
    BY <1>2, <1>3, <2>1
  <2>2. CASE d = 2
    BY <1>2, <1>3, <1>5, <1>6, <2>2
  <2>3. CASE d = 4
    BY <1>2, <1>3, <1>5, <1>6, <2>3
  <2>4. CASE d = 8
    BY <1>2, <1>3, <1>5, <1>6, <2>4
  <2>5. CASE d = 16
    BY <1>2, <1>3, <1>5, <1>6, <2>5
  <2> QED BY <2>1, <2>2, <2>3, <2>4, <2>5
<1>8. tag(x, n) = x - m
  BY <1>1 DEF tag
<1>9. x - m <= x /\ x + d <= x - m + n
  BY <1>2, <1>3, <1>7
<1> QED BY <1>8, <1>9 DEF Covers

LEMMA SegmentFacts ==
  ASSUME LineAligned, inst \in Insns
  PROVE  /\ segment_size \in Nat \ {0} /\ segment_size % 16 = 0
         /\ inst.space # "const" => segment_size \in Segment
<1>1. inst.data_size \in {1, 2, 4, 8, 16}
  BY InsnFacts
<1>2. CASE inst.space = "const"
  <2>1. segment_size = LineSize
    BY <1>2 DEF segment_size
  <2> QED BY <1>2, <2>1, WarpAssumption DEF LineAligned
<1>3. CASE inst.space # "const"
  <2>1. segment_size \in Segment
    BY <1>1, <1>3 DEF segment_size, Segment
  <2> QED BY <2>1 DEF Segment
<1> QED BY <1>2, <1>3

\* The part of a block that is sent is within the block, and holds every access
\* of the block whose chunk is in use.
LEMMA ReducedCovers ==
  ASSUME NEW b \in Nat, segment_size \in Segment, b % segment_size = 0, NEW C \in SUBSET Nat,
         NEW g, g = Reduced(b, C)
  PROVE  /\ g.addr \in Nat /\ g.size \in Nat
         /\ b <= g.addr /\ g.addr + g.size <= b + segment_size
         /\ \A x \in Nat, d \in Width :
              /\ x % d = 0 /\ Covers([addr |-> b, size |-> segment_size], x, d)
              /\ (x % 128) \div 32 \in C
              => Covers(g, x, d)
<1>1. PICK s \in Segment : s = segment_size
  OBVIOUS
<1>0. PICK w : w = [addr |-> b, size |-> s]
  OBVIOUS
<1>n. 64 \in Halved /\ 128 \in Halved
  BY DEF Halved
<1>2. PICK o : o = IF s = 128 THEN Half(w, C) ELSE w
  OBVIOUS
<1>3. g = (IF o.size = 64 THEN Half(o, C) ELSE o) /\ b % s = 0
  <2>1. w.size = s
    BY <1>0
  <2> QED BY <1>0, <1>1, <1>2, <2>1 DEF Reduced
<1>4. /\ o.addr \in Nat /\ o.size \in {32, 64, 128} /\ o.addr % o.size = 0
      /\ b <= o.addr /\ o.addr + o.size <= b + s
      /\ o = [addr |-> o.addr, size |-> o.size]
  <2>1. CASE s = 128
    <3>1. o = Half([addr |-> b, size |-> 128], C) /\ b % 128 = 0
      BY <1>0, <1>2, <1>3, <2>1
    <3>2. Within(o, b, 128)
      BY <1>n, <3>1, HalfWithin, Zenon
    <3> QED BY <2>1, <3>2 DEF Within
  <2>2. CASE s # 128
    BY <1>0, <1>1, <1>2, <1>3, <2>2 DEF Segment
  <2> QED BY <2>1, <2>2
<1>5. /\ g.addr \in Nat /\ g.size \in {32, 64, 128}
      /\ o.addr <= g.addr /\ g.addr + g.size <= o.addr + o.size
  <2>1. CASE o.size = 64
    <3>1. g = Half([addr |-> o.addr, size |-> 64], C) /\ o.addr % 64 = 0
      BY <1>3, <1>4, <2>1
    <3>0. PICK e : e = o.addr
      OBVIOUS
    <3>2. e \in Nat /\ e % 64 = 0 /\ g = Half([addr |-> e, size |-> 64], C)
      BY <1>4, <3>0, <3>1
    <3>3. Within(g, e, 64)
      <4>1. 64 \in Halved
        BY <1>n
      <4>2. Within(Half([addr |-> e, size |-> 64], C), e, 64)
        BY <3>2, <4>1, HalfWithin, Zenon
      <4> QED BY <3>2, <4>2, Zenon
    <3> QED BY <2>1, <3>0, <3>3 DEF Within
  <2>2. CASE o.size # 64
    BY <1>3, <1>4, <2>2
  <2> QED BY <2>1, <2>2
<1>6. ASSUME NEW x \in Nat, NEW d \in Width, x % d = 0, Covers(w, x, d), (x % 128) \div 32 \in C
      PROVE  Covers(g, x, d)
  <2>1. Covers(o, x, d)
    <3>1. CASE s = 128
      <4>1. o = Half([addr |-> b, size |-> 128], C) /\ b % 128 = 0 /\ Covers([addr |-> b, size |-> 128], x, d)
        BY <1>0, <1>2, <1>3, <1>6, <3>1
      <4>2. Covers(Half([addr |-> b, size |-> 128], C), x, d)
        <5>1. b % 128 = 0 /\ Covers([addr |-> b, size |-> 128], x, d) /\ x % d = 0 /\ (x % 128) \div 32 \in C
          BY <1>6, <4>1
        <5> QED BY <1>n, <1>6, <5>1, HalfCovers, Zenon
      <4> QED BY <4>1, <4>2, Zenon
    <3>2. CASE s # 128
      BY <1>2, <1>6, <3>2
    <3> QED BY <3>1, <3>2
  <2>2. CASE o.size = 64
    <3>1. /\ g = Half([addr |-> o.addr, size |-> 64], C) /\ o.addr % 64 = 0
          /\ Covers([addr |-> o.addr, size |-> 64], x, d)
      BY <1>3, <1>4, <2>1, <2>2
    <3>2. PICK e : e = o.addr
      OBVIOUS
    <3>3. e \in Nat /\ e % 64 = 0 /\ Covers([addr |-> e, size |-> 64], x, d) /\ g = Half([addr |-> e, size |-> 64], C)
      BY <1>4, <3>1, <3>2
    <3>4. Covers(Half([addr |-> e, size |-> 64], C), x, d)
      <4>1. /\ e \in Nat /\ e % 64 = 0 /\ Covers([addr |-> e, size |-> 64], x, d)
            /\ x % d = 0 /\ (x % 128) \div 32 \in C
        BY <1>6, <3>3
      <4>2. 64 \in Halved
        BY <1>n
      <4> QED BY <1>6, <4>1, <4>2, HalfCovers, Zenon
    <3> QED BY <3>3, <3>4, Zenon
  <2>3. CASE o.size # 64
    BY <1>3, <2>1, <2>3
  <2> QED BY <2>2, <2>3
<1>7. g.addr \in Nat /\ g.size \in Nat /\ b <= g.addr /\ g.addr + g.size <= b + s
  BY <1>4, <1>5 DEF Segment
<1> QED BY <1>0, <1>1, <1>6, <1>7

\* The access made of a transaction serves the accesses the transaction stands
\* for, and no others.
LEMMA SentServes ==
  ASSUME LineAligned, inst \in Insns, NEW tr \in Transaction,
         NEW v \in inst.active, NEW c \in Accesses, Block(v, c) = tr.block,
         NEW t \in inst.active, NEW a \in Accesses, NEW x, x = inst.memreqaddr[t][a],
         NEW d, d = data_size_coales(inst)
  PROVE  /\ AccessOf(tr).active = tr.active
         /\ Block(t, a) = tr.block /\ Chunk(t, a) \in tr.chunks => Covers(AccessOf(tr), x, d)
         /\ Covers(AccessOf(tr), x, d) => Block(t, a) = tr.block
<1>1. /\ x \in Nat /\ d \in Width /\ x % d = 0 /\ inst.memreqaddr[v][c] \in Nat
  BY InsnFacts DEF Accesses, Width
<1>2. PICK y, s : y = inst.memreqaddr[v][c] /\ s = segment_size
  OBVIOUS
<1>3. s \in Nat \ {0} /\ s % 16 = 0 /\ (inst.space # "const" => s \in Segment) /\ y \in Nat
  BY <1>1, <1>2, SegmentFacts
<1>4. tr.block = tag(y, s) /\ Block(t, a) = tag(x, s)
  BY <1>2 DEF Block
<1>5. PICK b : b = tr.block
  OBVIOUS
<1>6. /\ b \in Nat /\ b <= y
      /\ \A z \in Nat : b <= z /\ z < b + s => tag(z, s) = b
  BY <1>3, <1>4, <1>5, TagFacts
<1>7. tag(x, s) = b => Covers([addr |-> b, size |-> s], x, d)
  BY <1>1, <1>3, WholeCovers
<1>8. PICK g : g = IF inst.space = "const" \/ coal_disabled_loc THEN [addr |-> tr.block, size |-> segment_size]
                   ELSE Reduced(tr.block, tr.chunks)
  OBVIOUS
<1>9. AccessOf(tr).addr = g.addr /\ AccessOf(tr).size = g.size /\ AccessOf(tr).active = tr.active
  BY <1>8 DEF AccessOf
<1>10. /\ g.addr \in Nat /\ g.size \in Nat /\ b <= g.addr /\ g.addr + g.size <= b + s
       /\ tag(x, s) = b /\ Chunk(t, a) \in tr.chunks => Covers(g, x, d)
  <2>1. CASE inst.space = "const" \/ coal_disabled_loc
    <3>1. g = [addr |-> b, size |-> s]
      BY <1>2, <1>5, <1>8, <2>1
    <3> QED BY <1>3, <1>6, <1>7, <3>1
  <2>2. CASE ~(inst.space = "const" \/ coal_disabled_loc)
    <3>1. g = Reduced(b, tr.chunks)
      BY <1>5, <1>8, <2>2
    <3>2. s \in Segment
      BY <1>3, <2>2
    <3>3. b % s = 0
      BY <1>3, <1>4, <1>5, <3>2 DEF tag, Segment
    <3>4. tr.chunks \in SUBSET Nat
      BY DEF Transaction
    <3>5. Chunk(t, a) = (x % 128) \div 32
      BY DEF Chunk
    <3>6. /\ g.addr \in Nat /\ g.size \in Nat /\ b <= g.addr /\ g.addr + g.size <= b + s
          /\ x % d = 0 /\ Covers([addr |-> b, size |-> s], x, d) /\ (x % 128) \div 32 \in tr.chunks
             => Covers(g, x, d)
      BY <1>1, <1>2, <1>6, <3>1, <3>2, <3>3, <3>4, ReducedCovers
    <3> QED BY <1>1, <1>7, <3>5, <3>6
  <2> QED BY <2>1, <2>2
<1>11. Covers(AccessOf(tr), x, d) <=> Covers(g, x, d)
  BY <1>9 DEF Covers
<1>12. Covers(g, x, d) => tag(x, s) = b
  <2>1. Covers(g, x, d) => b <= x /\ x < b + s
    BY <1>1, <1>3, <1>6, <1>10 DEF Covers, Width
  <2> QED BY <1>1, <1>6, <2>1
<1> QED BY <1>4, <1>5, <1>9, <1>10, <1>11, <1>12

-----------------------------------------------------------------------------
(* Collecting an access *)

LEMMA BlockFacts ==
  ASSUME inst \in Insns, NEW t \in inst.active, NEW a \in Accesses
  PROVE  /\ t \in Nat /\ t < WarpSize /\ t \in Lane
         /\ Block(t, a) \in Nat /\ Chunk(t, a) \in Nat /\ Bytes(t, a) \subseteq Nat
<1>1. t \in Lane /\ inst.memreqaddr[t][a] \in Nat /\ data_size_coales(inst) \in {1, 2, 4, 8, 16}
      /\ inst.data_size \in {1, 2, 4, 8, 16}
  BY InsnFacts DEF Accesses
<1>2. PICK x, s : x = inst.memreqaddr[t][a] /\ s = segment_size
  OBVIOUS
<1>3. x \in Nat /\ s \in Nat \ {0}
  BY <1>1, <1>2, WarpAssumption DEF segment_size
<1>4. tag(x, s) \in Nat
  BY <1>3, TagFacts
<1>5. Block(t, a) \in Nat
  BY <1>2, <1>4 DEF Block
<1>6. Chunk(t, a) \in Nat
  BY <1>1 DEF Chunk
<1>7. Bytes(t, a) \subseteq Nat
  BY <1>1 DEF Bytes
<1> QED BY <1>1, <1>5, <1>6, <1>7, WarpAssumption DEF Lane

\* A warp is a whole number of subwarps.
LEMMA SubwarpFacts ==
  ASSUME inst \in Insns
  PROVE  0 % subwarp_size = 0 /\ WarpSize % subwarp_size = 0
<1>1. PICK w, p, s : w = WarpSize /\ p = warp_parts /\ s = subwarp_size
  OBVIOUS
<1>2. w \in Nat \ {0} /\ p \in Nat \ {0} /\ w % p = 0
  BY <1>1, WarpAssumption DEF warp_parts
<1>3. s = w \div p
  BY <1>1 DEF subwarp_size
<1>4. s \in Nat /\ w = p * s
  <2>1. s \in Nat
    BY <1>2, <1>3
  <2>0. PICK k : k = w % p
    OBVIOUS
  <2>2. w = p * s + k /\ k = 0
    BY <1>2, <1>3, <2>0, <2>1
  <2>3. p * s \in Nat
    BY <1>2, <2>1
  <2> QED BY <1>2, <2>1, <2>2, <2>3
<1>5. s # 0
  <2>1. s = 0 => p * s = 0
    BY <1>2
  <2> QED BY <1>2, <1>4, <2>1
<1>6. PICK q, m : q = w \div s /\ m = w % s
  OBVIOUS
<1>7. q \in Nat /\ m \in Nat /\ m < s /\ w = s * q + m
  <2>1. q \in Nat /\ m \in Nat /\ m < s
    BY <1>2, <1>4, <1>5, <1>6
  <2> QED BY <1>2, <1>4, <1>5, <1>6, <2>1
<1>8. s * (p - q) = m
  <2>1. s * (p - q) = p * s - s * q
    BY <1>2, <1>4, <1>7
  <2>2. s * q \in Nat
    BY <1>4, <1>7
  <2> QED BY <1>4, <1>7, <2>1, <2>2
<1>9. p - q = 0
  <2>1. s * (p - q) < s /\ 0 - s < s * (p - q)
    BY <1>4, <1>5, <1>7, <1>8
  <2> QED BY <1>2, <1>4, <1>5, <1>7, <2>1, NoMultiple
<1>10. m = 0
  BY <1>4, <1>8, <1>9
<1>11. 0 % s = 0
  BY <1>4, <1>5
<1> QED BY <1>1, <1>6, <1>10, <1>11

\* What is collected after one iteration of the loop, and after a thread that
\* is not active
LEMMA SeenStep ==
  ASSUME inst \in Insns, thread \in Nat, access \in Accesses, NEW t \in inst.active, NEW a \in Accesses
  PROVE  /\ thread' = thread /\ access' = access + 1
              => (Seen(t, a)' <=> Seen(t, a) \/ (t = thread /\ a = access))
         /\ thread' = thread + 1 /\ access' = 1 /\ ~(access < num_accesses(inst))
              => (Seen(t, a)' <=> Seen(t, a) \/ (t = thread /\ a = access))
         /\ thread' = thread + 1 /\ access' = 1 /\ thread \notin inst.active
              => (Seen(t, a)' <=> Seen(t, a))
<1>1. t \in Nat
  BY BlockFacts
<1>2. /\ num_accesses(inst) \in Nat /\ a \in Nat /\ access \in Nat /\ 1 <= a
      /\ a <= num_accesses(inst) /\ access <= num_accesses(inst)
  BY InsnFacts DEF Accesses
<1> QED BY <1>1, <1>2 DEF Seen

\* The transactions become (trs \ J) \cup {x}: x is base with the access added,
\* where base is the one transaction the access joins, or else a new one.
AddedAs(J, base, x) ==
  /\ Added(subwarp_transactions, thread, access) = (subwarp_transactions \ J) \cup {x}
  /\ base \in Transaction /\ base.block = Block(thread, access)
  /\ x = [block |-> base.block, n |-> base.n, chunks |-> base.chunks \cup {Chunk(thread, access)},
          active |-> base.active \cup {thread}, bytes |-> base.bytes \cup Bytes(thread, access)]
  /\ \/ /\ J = {base} /\ base \in subwarp_transactions
        /\ inst.isatomic =>
             /\ base.bytes \cap Bytes(thread, access) = {}
             /\ \A other \in subwarp_transactions : other.block = base.block /\ other.n < base.n
                  => other.bytes \cap Bytes(thread, access) # {}
     \/ /\ J = {}
        /\ base = [block |-> Block(thread, access),
                   n |-> Cardinality(ListOf(subwarp_transactions, Block(thread, access))) + 1,
                   chunks |-> {}, active |-> {}, bytes |-> {}]
        /\ \A other \in subwarp_transactions : other.block = base.block
             => inst.isatomic /\ other.bytes \cap Bytes(thread, access) # {}

LEMMA ExceptFields ==
  ASSUME NEW base \in Transaction, NEW c, NEW t, NEW S
  PROVE  [base EXCEPT !.chunks = @ \cup {c}, !.active = @ \cup {t}, !.bytes = @ \cup S]
           = [block |-> base.block, n |-> base.n, chunks |-> base.chunks \cup {c},
              active |-> base.active \cup {t}, bytes |-> base.bytes \cup S]
<1>1. base = [block |-> base.block, n |-> base.n, chunks |-> base.chunks,
              active |-> base.active, bytes |-> base.bytes]
  BY DEF Transaction
<1>2. PICK f1, f2, f3, f4, f5 : /\ f1 = base.block /\ f2 = base.n /\ f3 = base.chunks
                                /\ f4 = base.active /\ f5 = base.bytes
  OBVIOUS
<1>3. base = [block |-> f1, n |-> f2, chunks |-> f3, active |-> f4, bytes |-> f5]
  BY <1>1, <1>2, Zenon
<1>4. PICK y : y = [base EXCEPT !.chunks = @ \cup {c}, !.active = @ \cup {t}, !.bytes = @ \cup S]
  OBVIOUS
<1>5. y = [block |-> f1, n |-> f2, chunks |-> f3 \cup {c}, active |-> f4 \cup {t}, bytes |-> f5 \cup S]
  BY <1>3, <1>4
<1> QED BY <1>2, <1>4, <1>5, Zenon

\* Of the transactions of a block whose bytes are free, one comes first.
LEMMA FirstFits ==
  ASSUME NEW trs, trs \subseteq Transaction, NEW S, NEW y \in trs, y.bytes \cap S = {}
  PROVE  \E tr \in trs : /\ tr.block = y.block /\ tr.bytes \cap S = {}
                         /\ \A other \in trs : other.block = y.block /\ other.n < tr.n
                              => other.bytes \cap S # {}
<1> DEFINE b == y.block
           Fit == {tr \in trs : tr.block = b /\ tr.bytes \cap S = {}}
           Numbers == {tr.n : tr \in Fit}
<1>1. Numbers \subseteq Nat /\ Numbers # {}
  <2>1. y \in Fit
    OBVIOUS
  <2>2. \A tr \in Fit : tr.n \in Nat
    BY DEF Transaction
  <2> HIDE DEF Fit
  <2> QED BY <2>1, <2>2
<1>2. PICK k \in Numbers : \A m \in Numbers : k <= m
  <2> HIDE DEF Numbers
  <2>1. PICK k \in Numbers : \A m \in Numbers : <<m, k>> \notin OpToRel(<, Nat)
    BY <1>1, WFMin, NatLessThanWellFounded
  <2>2. \A m, j \in Nat : m < j => <<m, j>> \in OpToRel(<, Nat)
    BY DEF OpToRel
  <2>3. \A m \in Numbers : ~(m < k)
    BY <1>1, <2>1, <2>2, Zenon
  <2> QED BY <1>1, <2>3
<1>3. PICK tr \in Fit : tr.n = k
  BY <1>2
<1>4. \A other \in trs : other.block = b /\ other.n < tr.n => other \notin Fit
  <2> SUFFICES ASSUME NEW other \in Fit PROVE ~(other.n < tr.n)
    OBVIOUS
  <2>1. other.n \in Numbers
    OBVIOUS
  <2>2. k \in Nat /\ other.n \in Nat /\ k <= other.n /\ tr.n = k
    <3> HIDE DEF Numbers, Fit
    <3> QED BY <1>1, <1>2, <1>3, <2>1
  <2> HIDE DEF Numbers, Fit
  <2> QED BY <2>2
<1> QED BY <1>3, <1>4

LEMMA AddedParts ==
  ASSUME LoopInv, TransInv, thread \in inst.active
  PROVE  \E J, base, x : AddedAs(J, base, x)
<1> DEFINE trs == subwarp_transactions
           B == Block(thread, access)
           S == Bytes(thread, access)
           J == {tr \in trs : Joins(trs, thread, access, tr)}
           new == [block |-> B, n |-> Cardinality(ListOf(trs, B)) + 1,
                   chunks |-> {}, active |-> {}, bytes |-> {}]
           base == IF J # {} THEN CHOOSE tr \in J : TRUE ELSE new
           x == [base EXCEPT !.chunks = @ \cup {Chunk(thread, access)}, !.active = @ \cup {thread},
                             !.bytes = @ \cup S]
<1>0. /\ inst \in Insns /\ access \in Accesses /\ inst.isatomic \in BOOLEAN
      /\ trs \subseteq Transaction /\ IsFiniteSet(trs)
  BY InsnFacts DEF LoopInv, TransInv
<1>1. Added(trs, thread, access) = (trs \ J) \cup {x}
  BY Zenon DEF Added
<1>2. \A tr : tr \in J <=>
        /\ tr \in trs /\ tr.block = B /\ (inst.isatomic => tr.bytes \cap S = {})
        /\ \A other \in trs : other.block = B /\ other.n < tr.n
             => ~(inst.isatomic => other.bytes \cap S = {})
  BY DEF Joins, ListOf
<1>3. \A tr, other \in trs : tr.block = other.block /\ tr # other =>
        inst.isatomic /\ tr.n \in Nat /\ other.n \in Nat /\ tr.n # other.n
  BY <1>0 DEF TransInv, Transaction
<1>4. ASSUME NEW tr \in J, NEW other \in J PROVE tr = other
  <2> HIDE DEF J, B, S, trs
  <2>1. tr.block = B /\ other.block = B /\ tr \in trs /\ other \in trs
        /\ (inst.isatomic => tr.bytes \cap S = {} /\ other.bytes \cap S = {})
    BY <1>2, <1>4
  <2>2. ~(other.n < tr.n) /\ ~(tr.n < other.n)
    BY <1>2, <1>4, <2>1
  <2> QED BY <1>3, <2>1, <2>2
<1>5. new \in Transaction
  <2>1. IsFiniteSet(ListOf(trs, B))
    BY <1>0, FS_Subset DEF ListOf
  <2>2. Cardinality(ListOf(trs, B)) \in Nat
    BY <2>1, FS_CardinalityType
  <2>3. B \in Nat
    BY <1>0, BlockFacts
  <2> QED BY <2>2, <2>3 DEF Transaction
<1>6. CASE J # {}
  <2>1. base \in J
    BY <1>6
  <2> HIDE DEF J, S, B, base
  <2>2. /\ base \in trs /\ base.block = B /\ (inst.isatomic => base.bytes \cap S = {})
        /\ \A other \in trs : other.block = B /\ other.n < base.n
             => ~(inst.isatomic => other.bytes \cap S = {})
    BY <1>2, <2>1
  <2>3. J = {base}
    BY <1>4, <2>1
  <2>4. base \in Transaction
    BY <1>0, <2>2
  <2>5. x = [block |-> base.block, n |-> base.n, chunks |-> base.chunks \cup {Chunk(thread, access)},
             active |-> base.active \cup {thread}, bytes |-> base.bytes \cup S]
    BY <2>4, ExceptFields, Zenon
  <2> HIDE DEF x
  <2>6. AddedAs(J, base, x)
    BY <1>0, <1>1, <2>2, <2>3, <2>4, <2>5 DEF AddedAs, B, S
  <2> QED BY <2>6
<1>7. CASE J = {}
  <2>1. base = new
    BY <1>7
  <2>2. x = [block |-> base.block, n |-> base.n, chunks |-> base.chunks \cup {Chunk(thread, access)},
             active |-> base.active \cup {thread}, bytes |-> base.bytes \cup S]
    <3>1. base \in Transaction
      BY <1>5, <2>1
    <3> HIDE DEF J, S, B, base
    <3> QED BY <3>1, ExceptFields, Zenon
  <2>3. ASSUME NEW other \in trs, other.block = B
        PROVE  inst.isatomic /\ other.bytes \cap S # {}
    <3> HIDE DEF J, S, B
    <3>1. CASE ~inst.isatomic
      <4>1. \A y \in trs : y.block = B => y = other
        BY <1>3, <2>3, <3>1
      <4>2. other.n \in Nat
        BY <1>0, <2>3 DEF Transaction
      <4>3. other \in J
        BY <1>2, <2>3, <3>1, <4>1, <4>2
      <4> QED BY <1>7, <4>3
    <3>2. CASE inst.isatomic /\ other.bytes \cap S = {}
      <4>1. PICK tr \in trs : /\ tr.block = B /\ tr.bytes \cap S = {}
                              /\ \A y \in trs : y.block = B /\ y.n < tr.n => y.bytes \cap S # {}
        <5> HIDE DEF trs
        <5>1. trs \subseteq Transaction /\ other \in trs /\ other.block = B /\ other.bytes \cap S = {}
          BY <1>0, <2>3, <3>2
        <5>2. \E tr \in trs : /\ tr.block = other.block /\ tr.bytes \cap S = {}
                              /\ \A y \in trs : y.block = other.block /\ y.n < tr.n => y.bytes \cap S # {}
          BY <5>1, FirstFits
        <5> QED BY <5>1, <5>2
      <4>2. tr \in J
        BY <1>2, <3>2, <4>1
      <4> QED BY <1>7, <4>2
    <3> QED BY <1>0, <3>1, <3>2
  <2>4. base.block = B /\ base \in Transaction
    BY <1>5, <2>1
  <2> HIDE DEF J, base, x
  <2>5. AddedAs(J, base, x)
    BY <1>1, <1>7, <2>1, <2>2, <2>3, <2>4 DEF AddedAs
  <2> QED BY <2>5
<1> QED BY <1>6, <1>7

-----------------------------------------------------------------------------
(* The loop, the transactions and the queue *)

\* No step changes the instruction or the switches, nor what depends on them.
LEMMA StepFixed ==
  ASSUME [Next]_vars
  PROVE  /\ inst' = inst /\ coal_disabled' = coal_disabled /\ coal_disabled_dyn' = coal_disabled_dyn
         /\ Accesses' = Accesses /\ subwarp_size' = subwarp_size
         /\ \A t, a : /\ Block(t, a)' = Block(t, a) /\ Chunk(t, a)' = Chunk(t, a)
                      /\ Bytes(t, a)' = Bytes(t, a)
         /\ \A tr, t, a : Holds(tr, t, a)' <=> Holds(tr, t, a)
<1>1. inst' = inst /\ coal_disabled' = coal_disabled /\ coal_disabled_dyn' = coal_disabled_dyn
  BY DEF Next, Collect, Skip, Send, Sent, AccessShared, Finish, vars, config
<1>2. Accesses' = Accesses /\ subwarp_size' = subwarp_size /\ segment_size' = segment_size
  BY <1>1 DEF Accesses, subwarp_size, warp_parts, segment_size
<1>3. \A t, a : /\ Block(t, a)' = Block(t, a) /\ Chunk(t, a)' = Chunk(t, a)
                /\ Bytes(t, a)' = Bytes(t, a)
  BY <1>1, <1>2 DEF Block, Chunk, Bytes
<1>4. \A tr, t, a : Holds(tr, t, a)' <=> Holds(tr, t, a)
  BY <1>3 DEF Holds
<1> QED BY <1>1, <1>2, <1>3, <1>4

LEMMA InitCollect == Init => CollectInv /\ ServeInv /\ SerialInv
<1> SUFFICES ASSUME Init PROVE CollectInv /\ ServeInv /\ SerialInv
  OBVIOUS
<1>1. /\ coal_disabled \in BOOLEAN /\ coal_disabled_dyn \in BOOLEAN /\ inst \in Insns
      /\ thread = 0 /\ access = 1 /\ subwarp_transactions = {} /\ m_accessq = <<>> /\ pc = "collect"
  BY DEF Init
<1>2. 1 \in Accesses /\ thread \in 0 .. WarpSize
  BY <1>1, InsnFacts, WarpAssumption DEF Accesses
<1>3. LoopInv
  BY <1>1, <1>2 DEF LoopInv
<1>4. TransInv
  BY <1>1, FS_EmptySet DEF TransInv
<1>5. QueueInv
  BY <1>1 DEF QueueInv
<1>6. \A t \in inst.active, a \in Accesses : ~Seen(t, a)
  <2> SUFFICES ASSUME NEW t \in inst.active, NEW a \in Accesses PROVE ~Seen(t, a)
    OBVIOUS
  <2>1. t \in Nat /\ a \in Nat /\ 1 <= a
    BY <1>1, BlockFacts, InsnFacts DEF Accesses
  <2> QED BY <1>1, <2>1 DEF Seen
<1>7. ServeInv
  BY <1>1, <1>6 DEF ServeInv, Pending
<1>8. SerialInv
  BY <1>1 DEF SerialInv
<1> QED BY <1>3, <1>4, <1>5, <1>7, <1>8 DEF CollectInv

LEMMA NextLoop ==
  ASSUME LoopInv, [Next]_vars
  PROVE  LoopInv'
<1>0. /\ inst' = inst /\ coal_disabled' = coal_disabled /\ coal_disabled_dyn' = coal_disabled_dyn
      /\ Accesses' = Accesses /\ subwarp_size' = subwarp_size
  BY StepFixed
<1>1. /\ inst \in Insns /\ inst.active \subseteq Lane /\ WarpSize \in Nat \ {0}
      /\ num_accesses(inst) \in {1, 2, 4} /\ access \in Accesses /\ thread \in 0 .. WarpSize
      /\ 1 \in Accesses
  BY InsnFacts, WarpAssumption DEF LoopInv, Accesses
<1>2. CASE Collect
  <2>1. /\ pc = "collect" /\ inst.space # "shared" /\ thread \in inst.active
        /\ \/ access < num_accesses(inst) /\ access' = access + 1 /\ thread' = thread /\ pc' = pc
           \/ NextThread
    BY <1>2 DEF Collect
  <2>2. CASE access < num_accesses(inst) /\ access' = access + 1 /\ thread' = thread /\ pc' = pc
    <3>1. access' \in Accesses /\ access' # 1
      BY <1>1, <2>2 DEF Accesses
    <3> QED BY <1>0, <1>1, <2>1, <2>2, <3>1 DEF LoopInv
  <2>3. CASE NextThread
    <3>1. thread' = thread + 1 /\ access' = 1 /\ pc' \in {"collect", "send"}
          /\ (pc' = "collect" => (thread + 1) % subwarp_size # 0)
      BY <2>3 DEF NextThread, EndsHere, SubwarpEnd
    <3>2. thread' \in 0 .. WarpSize
      BY <1>1, <2>1, <3>1 DEF Lane
    <3> QED BY <1>0, <1>1, <2>1, <3>1, <3>2 DEF LoopInv
  <2> QED BY <2>1, <2>2, <2>3
<1>3. CASE Skip
  <2>1. /\ pc = "collect" /\ inst.space # "shared" /\ inst.active # {} /\ thread \in Lane \ inst.active
        /\ NextThread
    BY <1>3 DEF Skip
  <2>2. thread' = thread + 1 /\ access' = 1 /\ pc' \in {"collect", "send"}
        /\ (pc' = "collect" => (thread + 1) % subwarp_size # 0)
    BY <2>1 DEF NextThread, EndsHere, SubwarpEnd
  <2>3. thread' \in 0 .. WarpSize
    BY <1>1, <2>1, <2>2 DEF Lane
  <2> QED BY <1>0, <1>1, <2>1, <2>2, <2>3 DEF LoopInv
<1>4. CASE Send
  BY <1>0, <1>1, <1>4 DEF Send, LoopInv
<1>5. CASE Sent
  BY <1>0, <1>1, <1>5 DEF Sent, LoopInv
<1>6. CASE AccessShared
  <2>1. subwarp_transactions = {}
    BY <1>1, <1>6, SubwarpFacts DEF AccessShared, LoopInv
  <2> QED BY <1>0, <1>1, <1>6, <2>1 DEF AccessShared, LoopInv
<1>7. CASE Finish
  <2>1. pc = "collect" /\ (inst.active = {} \/ thread = WarpSize)
    BY <1>7 DEF Finish
  <2>2. thread % subwarp_size = 0
    BY <1>1, <2>1, SubwarpFacts DEF LoopInv
  <2>3. thread \notin inst.active
    BY <1>1, <2>1 DEF Lane
  <2>4. access = 1
    BY <1>1, <2>3 DEF LoopInv, Accesses
  <2>5. subwarp_transactions = {}
    BY <2>1, <2>2, <2>4 DEF LoopInv
  <2> QED BY <1>0, <1>1, <1>7, <2>1, <2>3, <2>5 DEF Finish, LoopInv
<1>8. CASE UNCHANGED vars
  BY <1>0, <1>8 DEF vars, config, LoopInv
<1> QED BY <1>2, <1>3, <1>4, <1>5, <1>6, <1>7, <1>8 DEF Next

\* The other transactions of the block an access is added to are those of an
\* atomic; the thread is in none of them.
LEMMA CollectFacts ==
  ASSUME CollectInv, Collect
  PROVE  /\ pc = "collect" /\ thread \in inst.active /\ m_accessq' = m_accessq
         /\ \A t \in inst.active, a \in Accesses :
              Seen(t, a)' <=> Seen(t, a) \/ (t = thread /\ a = access)
         /\ thread \in Nat /\ thread' \in Nat /\ thread <= thread'
         /\ \E J, base, x :
              /\ AddedAs(J, base, x) /\ subwarp_transactions' = (subwarp_transactions \ J) \cup {x}
              /\ \A other \in subwarp_transactions \ J : other.block = base.block =>
                   /\ inst.isatomic /\ thread \notin other.active
                   /\ other.active \cap base.active = {} /\ other.n # base.n
<1>1. /\ pc = "collect" /\ thread \in inst.active /\ m_accessq' = m_accessq
      /\ \/ access < num_accesses(inst) /\ access' = access + 1 /\ thread' = thread /\ pc' = pc
         \/ ~(access < num_accesses(inst)) /\ NextThread
      /\ subwarp_transactions' = Added(subwarp_transactions, thread, access)
  BY DEF Collect
<1>2. inst \in Insns /\ thread \in Nat /\ access \in Accesses
  BY WarpAssumption DEF CollectInv, LoopInv
<1>3. \A t \in inst.active, a \in Accesses :
        Seen(t, a)' <=> Seen(t, a) \/ (t = thread /\ a = access)
  BY <1>1, <1>2, SeenStep DEF NextThread
<1>4. thread' \in Nat /\ thread <= thread'
  BY <1>1, <1>2 DEF NextThread
<1>5. PICK J, base, x : AddedAs(J, base, x)
  BY <1>1, AddedParts DEF CollectInv
<1>6. subwarp_transactions' = (subwarp_transactions \ J) \cup {x}
  BY <1>1, <1>5 DEF AddedAs
<1>7. \A other \in subwarp_transactions \ J : other.block = base.block =>
        /\ inst.isatomic /\ thread \notin other.active
        /\ other.active \cap base.active = {} /\ other.n # base.n
  <2> SUFFICES ASSUME NEW other \in subwarp_transactions \ J, other.block = base.block
               PROVE  /\ inst.isatomic /\ thread \notin other.active
                      /\ other.active \cap base.active = {} /\ other.n # base.n
    OBVIOUS
  <2>1. inst.isatomic /\ other.active \cap base.active = {} /\ other.n # base.n
    <3>1. CASE J = {base} /\ base \in subwarp_transactions
      BY <3>1 DEF CollectInv, TransInv
    <3>2. CASE /\ J = {}
               /\ base = [block |-> Block(thread, access),
                          n |-> Cardinality(ListOf(subwarp_transactions, Block(thread, access))) + 1,
                          chunks |-> {}, active |-> {}, bytes |-> {}]
               /\ \A y \in subwarp_transactions : y.block = base.block => inst.isatomic
      <4>1. /\ base.block = Block(thread, access) /\ base.active = {}
            /\ base.n = Cardinality(ListOf(subwarp_transactions, base.block)) + 1
        BY <3>2
      <4>2. other.n <= Cardinality(ListOf(subwarp_transactions, base.block)) /\ other.n \in Nat
        BY <1>1 DEF CollectInv, TransInv, Transaction
      <4>3. base.n \in Nat
        BY <1>5 DEF AddedAs, Transaction
      <4>4. Cardinality(ListOf(subwarp_transactions, base.block)) \in Nat
        BY FS_Subset, FS_CardinalityType DEF CollectInv, TransInv, ListOf
      <4>5. other.n # base.n
        BY <4>1, <4>2, <4>3, <4>4
      <4> QED BY <3>2, <4>1, <4>5
    <3> QED BY <1>5, <3>1, <3>2 DEF AddedAs
  <2>2. access = 1
    BY <1>2, <2>1, InsnFacts DEF Accesses
  <2>3. thread \notin other.active
    <3> SUFFICES ASSUME thread \in other.active PROVE FALSE
      OBVIOUS
    <3>1. PICK a \in Accesses : Seen(thread, a)
      BY DEF CollectInv, TransInv
    <3>2. a \in Nat /\ 1 <= a
      BY <1>2, InsnFacts DEF Accesses
    <3> QED BY <1>2, <2>2, <3>1, <3>2 DEF Seen
  <2> QED BY <2>1, <2>3
<1> QED BY <1>1, <1>2, <1>3, <1>4, <1>5, <1>6, <1>7

\* The list of block b is no shorter in T than in trs, the others are the same;
\* when extended it has n elements.
KeepsLists(trs, T, b, extended, n) ==
  /\ \A c : c # b => ListOf(T, c) = ListOf(trs, c)
  /\ Cardinality(ListOf(trs, b)) \in Nat /\ Cardinality(ListOf(T, b)) \in Nat
  /\ Cardinality(ListOf(trs, b)) <= Cardinality(ListOf(T, b))
  /\ extended => n <= Cardinality(ListOf(T, b))

LEMMA ListKept ==
  ASSUME NEW trs, IsFiniteSet(trs), NEW J, NEW base, NEW x,
         x.block = base.block, x.n = base.n,
         \A other \in trs \ J : other.block = base.block => other.n # base.n,
         \/ J = {base} /\ base \in trs
         \/ J = {} /\ base.n = Cardinality(ListOf(trs, base.block)) + 1
  PROVE  KeepsLists(trs, (trs \ J) \cup {x}, base.block, J = {}, base.n)
<1>0. PICK b, T : b = base.block /\ T = (trs \ J) \cup {x}
  OBVIOUS
<1>1. PICK L, M : L = ListOf(trs, b) /\ M = ListOf(T, b)
  OBVIOUS
<1>2. SUFFICES /\ \A c : c # b => ListOf(T, c) = ListOf(trs, c)
               /\ Cardinality(L) \in Nat /\ Cardinality(M) \in Nat /\ Cardinality(L) <= Cardinality(M)
               /\ J = {} => base.n <= Cardinality(M)
  BY <1>0, <1>1, Zenon DEF KeepsLists
<1>3. IsFiniteSet(L)
  BY <1>1, FS_Subset DEF ListOf
<1>4. Cardinality(L) \in Nat
  BY <1>3, FS_CardinalityType
<1>5. x \notin L \ J
  BY <1>0, <1>1 DEF ListOf
<1>6. M = (L \ J) \cup {x}
  BY <1>0, <1>1 DEF ListOf
<1>7. \A c : c # b => ListOf(T, c) = ListOf(trs, c)
  BY <1>0 DEF ListOf
<1>8. CASE J = {base} /\ base \in trs
  <2>1. base \in L /\ J # {}
    BY <1>0, <1>1, <1>8 DEF ListOf
  <2>2. IsFiniteSet(L \ {base}) /\ Cardinality(L \ {base}) = Cardinality(L) - 1
    BY <1>3, <2>1, FS_RemoveElement
  <2>3. M = (L \ {base}) \cup {x} /\ x \notin L \ {base}
    BY <1>5, <1>6, <1>8
  <2>4. Cardinality(M) = Cardinality(L \ {base}) + 1
    BY <2>2, <2>3, FS_AddElement
  <2> QED BY <1>4, <1>7, <2>1, <2>2, <2>4
<1>9. CASE J = {} /\ base.n = Cardinality(L) + 1
  <2>1. M = L \cup {x} /\ x \notin L
    BY <1>5, <1>6, <1>9
  <2>2. Cardinality(M) = Cardinality(L) + 1
    BY <1>3, <2>1, FS_AddElement
  <2> QED BY <1>4, <1>7, <1>9, <2>2
<1> QED BY <1>0, <1>1, <1>8, <1>9

LEMMA CollectTrans ==
  ASSUME CollectInv, Collect, [Next]_vars
  PROVE  TransInv'
<1> DEFINE trs == subwarp_transactions
<1>0. /\ inst' = inst /\ Accesses' = Accesses
      /\ \A t, a : Block(t, a)' = Block(t, a)
  BY StepFixed
<1>1. /\ pc = "collect" /\ thread \in inst.active /\ thread \in Lane
      /\ \A t \in inst.active, a \in Accesses :
           Seen(t, a)' <=> Seen(t, a) \/ (t = thread /\ a = access)
      /\ access \in Accesses /\ inst \in Insns
  BY CollectFacts, InsnFacts DEF CollectInv, LoopInv
<1>2. PICK J, base, x :
        /\ AddedAs(J, base, x) /\ trs' = (trs \ J) \cup {x}
        /\ \A other \in trs \ J : other.block = base.block =>
             /\ inst.isatomic /\ thread \notin other.active
             /\ other.active \cap base.active = {} /\ other.n # base.n
  BY CollectFacts
<1>3. /\ x.block = base.block /\ x.n = base.n /\ x.active = base.active \cup {thread}
      /\ base.block = Block(thread, access) /\ base \in Transaction
      /\ (J = {base} /\ base \in trs) \/ (J = {} /\ base.active = {})
  <2>1. /\ x = [block |-> base.block, n |-> base.n, chunks |-> base.chunks \cup {Chunk(thread, access)},
                active |-> base.active \cup {thread}, bytes |-> base.bytes \cup Bytes(thread, access)]
        /\ base.block = Block(thread, access) /\ base \in Transaction
    BY <1>2 DEF AddedAs
  <2>2. (J = {base} /\ base \in trs) \/ (J = {} /\ base.active = {})
    BY <1>2 DEF AddedAs
  <2> QED BY <2>1, <2>2
<1>4. x \in Transaction
  <2>1. Chunk(thread, access) \in Nat /\ Bytes(thread, access) \subseteq Nat
    BY <1>1, BlockFacts
  <2>2. /\ base.block \in Nat /\ base.n \in Nat /\ base.chunks \subseteq Nat
        /\ base.active \subseteq Lane /\ base.bytes \subseteq Nat
    BY <1>3 DEF Transaction
  <2>3. x = [block |-> base.block, n |-> base.n, chunks |-> base.chunks \cup {Chunk(thread, access)},
             active |-> base.active \cup {thread}, bytes |-> base.bytes \cup Bytes(thread, access)]
    BY <1>2 DEF AddedAs
  <2> QED BY <1>1, <2>1, <2>2, <2>3 DEF Transaction
<1>5. trs' \subseteq Transaction
  BY <1>2, <1>4 DEF CollectInv, TransInv
<1>6. IsFiniteSet(trs')
  <2>1. IsFiniteSet(trs \ J)
    BY FS_Subset DEF CollectInv, TransInv
  <2> QED BY <1>2, <2>1, FS_AddElement
<1>7. ASSUME NEW tr \in trs', NEW t \in tr.active
      PROVE  t \in inst.active /\ \E a \in Accesses : Seen(t, a)' /\ Block(t, a) = tr.block
  <2>1. CASE tr \in trs
    BY <1>1, <1>7, <2>1 DEF CollectInv, TransInv
  <2>2. CASE tr = x /\ t = thread
    BY <1>1, <1>3, <2>2
  <2>3. CASE tr = x /\ t \in base.active
    <3>1. base \in trs
      BY <1>3, <2>3
    <3> QED BY <1>1, <1>3, <2>3, <3>1 DEF CollectInv, TransInv
  <2> QED BY <1>2, <1>3, <1>7, <2>1, <2>2, <2>3
<1>8. ASSUME NEW tr \in trs', NEW other \in trs', tr.block = other.block, tr # other
      PROVE  inst.isatomic /\ tr.active \cap other.active = {} /\ tr.n # other.n
  <2>1. CASE tr \in trs /\ other \in trs
    BY <1>8, <2>1 DEF CollectInv, TransInv
  <2>2. CASE tr = x /\ other \in trs \ J
    BY <1>2, <1>3, <1>8, <2>2
  <2>3. CASE other = x /\ tr \in trs \ J
    BY <1>2, <1>3, <1>8, <2>3
  <2> QED BY <1>2, <1>8, <2>1, <2>2, <2>3
<1>9. ASSUME NEW tr \in trs'
      PROVE  tr.n <= Cardinality(ListOf(trs', tr.block))
  <2>1. \/ J = {base} /\ base \in trs
        \/ J = {} /\ base.n = Cardinality(ListOf(trs, base.block)) + 1
    BY <1>2, <1>3 DEF AddedAs
  <2>2. PICK T : T = trs'
    OBVIOUS
  <2>3. KeepsLists(trs, T, base.block, J = {}, base.n)
    <3>1. T = (trs \ J) \cup {x} /\ IsFiniteSet(trs)
      BY <1>2, <2>2 DEF CollectInv, TransInv
    <3>2. \A other \in trs \ J : other.block = base.block => other.n # base.n
      BY <1>2
    <3>3. KeepsLists(trs, (trs \ J) \cup {x}, base.block, J = {}, base.n)
      BY <1>3, <2>1, <3>1, <3>2, ListKept
    <3> QED BY <3>1, <3>3, Zenon
  <2>4. \A y \in trs : y.n \in Nat /\ y.n <= Cardinality(ListOf(trs, y.block))
    BY <1>1 DEF CollectInv, TransInv, Transaction
  <2>5. tr.n <= Cardinality(ListOf(T, tr.block))
    <3>1. CASE tr \in trs
      BY <2>3, <2>4, <3>1 DEF KeepsLists
    <3>2. CASE tr = x
      BY <1>3, <2>1, <2>3, <2>4, <3>2 DEF KeepsLists
    <3> QED BY <1>2, <1>9, <3>1, <3>2
  <2> QED BY <2>2, <2>5
<1> QED BY <1>0, <1>5, <1>6, <1>7, <1>8, <1>9 DEF TransInv

LEMMA AppendFacts ==
  ASSUME NEW q, q \in Seq(UNION {{q[i]} : i \in DOMAIN q}), NEW x, NEW r, r = Append(q, x)
  PROVE  /\ Len(q) \in Nat /\ DOMAIN q = 1 .. Len(q) /\ DOMAIN r = DOMAIN q \cup {Len(q) + 1}
         /\ \A i \in DOMAIN q : r[i] = q[i]
         /\ r[Len(q) + 1] = x
         /\ r \in Seq(UNION {{r[i]} : i \in DOMAIN r})
<1>1. PICK S : q \in Seq(S)
  OBVIOUS
<1>2. Len(q) \in Nat /\ DOMAIN q = 1 .. Len(q)
  BY <1>1
<1>3. q \in Seq(S \cup {x})
  BY <1>1
<1>4. /\ r = Append(q, x) /\ r \in Seq(S \cup {x}) /\ Len(r) = Len(q) + 1
      /\ r[Len(q) + 1] = x /\ \A i \in 1 .. Len(q) : r[i] = q[i]
  BY <1>3
<1>5. DOMAIN r = 1 .. Len(q) + 1
  BY <1>4
<1>6. DOMAIN r = DOMAIN q \cup {Len(q) + 1}
  BY <1>2, <1>5
<1>7. r \in Seq(UNION {{r[i]} : i \in DOMAIN r})
  BY AppendLonger
<1> QED BY <1>2, <1>4, <1>6, <1>7

\* The transaction that is sent, and the queue it is appended to
LEMMA SendFacts ==
  ASSUME CollectInv, Send
  PROVE  /\ pc = "send" /\ pc' = "send" /\ thread' = thread /\ access' = access /\ access = 1
         /\ thread \in Nat
         /\ \A t \in inst.active, a \in Accesses : Seen(t, a)' <=> Seen(t, a)
         /\ \E tr \in subwarp_transactions :
              /\ \A other \in subwarp_transactions \ {tr} : Before(tr, other)
              /\ m_accessq' = Append(m_accessq, AccessOf(tr))
              /\ subwarp_transactions' = subwarp_transactions \ {tr}
              /\ \A t \in tr.active : t \in inst.active /\ t < thread
                                      /\ \E a \in Accesses : Block(t, a) = tr.block
<1>1. pc = "send" /\ pc' = "send" /\ thread' = thread /\ access' = access
  BY DEF Send
<1>2. access = 1 /\ thread \in Nat /\ inst \in Insns
  <2>1. inst \in Insns /\ access \in Accesses /\ (access > 1 => pc = "collect") /\ thread \in 0 .. WarpSize
    BY DEF CollectInv, LoopInv
  <2>2. access \in Nat /\ 1 <= access
    BY <2>1, InsnFacts DEF Accesses
  <2> QED BY <1>1, <2>1, <2>2, WarpAssumption
<1>3. PICK tr \in subwarp_transactions :
        /\ \A other \in subwarp_transactions \ {tr} : Before(tr, other)
        /\ m_accessq' = Append(m_accessq, AccessOf(tr))
        /\ subwarp_transactions' = subwarp_transactions \ {tr}
  BY DEF Send
<1>4. ASSUME NEW t \in tr.active
      PROVE  t \in inst.active /\ t < thread /\ \E a \in Accesses : Block(t, a) = tr.block
  <2>1. PICK a \in Accesses : t \in inst.active /\ Seen(t, a) /\ Block(t, a) = tr.block
    BY DEF CollectInv, TransInv
  <2>2. a \in Nat /\ 1 <= a
    BY <1>2, InsnFacts DEF Accesses
  <2>3. t < thread
    BY <1>2, <2>1, <2>2 DEF Seen
  <2> QED BY <2>1, <2>3
<1>5. \A t \in inst.active, a \in Accesses : Seen(t, a)' <=> Seen(t, a)
  BY <1>1 DEF Seen
<1> QED BY <1>1, <1>2, <1>3, <1>4, <1>5

\* The steps that leave the transactions and the queue alone collect nothing.
LEMMA OtherFacts ==
  ASSUME CollectInv, [Next]_vars, ~Collect, ~Send
  PROVE  /\ subwarp_transactions' = subwarp_transactions /\ m_accessq' = m_accessq
         /\ thread \in Nat /\ thread' \in Nat /\ thread <= thread'
         /\ \A t \in inst.active, a \in Accesses : Seen(t, a)' <=> Seen(t, a)
         /\ pc' = "collect" => pc = "collect" \/ subwarp_transactions = {}
<1>0. inst \in Insns /\ thread \in Nat /\ access \in Accesses
  BY WarpAssumption DEF CollectInv, LoopInv
<1>1. CASE Skip
  <2>1. /\ thread \notin inst.active /\ thread' = thread + 1 /\ access' = 1 /\ pc = "collect"
        /\ subwarp_transactions' = subwarp_transactions /\ m_accessq' = m_accessq
    BY <1>1 DEF Skip, NextThread
  <2> QED BY <1>0, <2>1, SeenStep
<1>2. CASE Sent \/ AccessShared \/ Finish \/ UNCHANGED vars
  <2>1. /\ subwarp_transactions' = subwarp_transactions /\ m_accessq' = m_accessq
        /\ thread' = thread /\ access' = access
        /\ pc' = "collect" => pc = "collect" \/ subwarp_transactions = {}
    BY <1>2 DEF Sent, AccessShared, Finish, vars
  <2> QED BY <1>0, <2>1 DEF Seen
<1> QED BY <1>1, <1>2 DEF Next

LEMMA NextCollect ==
  ASSUME CollectInv, [Next]_vars
  PROVE  CollectInv'
<1>0. /\ inst' = inst /\ Accesses' = Accesses
      /\ \A t, a : Block(t, a)' = Block(t, a)
  BY StepFixed
<1>1. LoopInv'
  BY NextLoop DEF CollectInv
<1>2. CASE Collect
  <2>1. TransInv'
    BY <1>2, CollectTrans
  <2>2. QueueInv'
    <3>1. /\ thread \in Nat /\ thread' \in Nat /\ thread <= thread' /\ m_accessq' = m_accessq
      BY <1>2, CollectFacts
    <3>2. \A i \in DOMAIN m_accessq : \A t \in m_accessq[i].active : t \in inst.active /\ t < thread'
      <4> SUFFICES ASSUME NEW i \in DOMAIN m_accessq, NEW t \in m_accessq[i].active
                   PROVE  t \in inst.active /\ t < thread'
        OBVIOUS
      <4>1. t \in inst.active /\ t < thread /\ inst \in Insns
        BY DEF CollectInv, QueueInv, LoopInv
      <4>2. t \in Nat
        BY <4>1, InsnFacts DEF Lane
      <4> QED BY <3>1, <4>1, <4>2
    <3> QED BY <1>0, <3>1, <3>2 DEF CollectInv, QueueInv
  <2> QED BY <1>1, <2>1, <2>2 DEF CollectInv
<1>3. CASE Send
  <2>1. /\ pc' = "send" /\ thread' = thread /\ access' = access
        /\ \A t \in inst.active, a \in Accesses : Seen(t, a)' <=> Seen(t, a)
    BY <1>3, SendFacts
  <2>2. PICK tr \in subwarp_transactions :
          /\ m_accessq' = Append(m_accessq, AccessOf(tr))
          /\ subwarp_transactions' = subwarp_transactions \ {tr}
          /\ \A t \in tr.active : t \in inst.active /\ t < thread
    BY <1>3, SendFacts
  <2>3. TransInv'
    <3>1. IsFiniteSet(subwarp_transactions')
      BY <2>2, FS_Subset DEF CollectInv, TransInv
    <3> QED BY <1>0, <2>1, <2>2, <3>1 DEF CollectInv, TransInv
  <2>4. QueueInv'
    <3>1. PICK q, e, r : q = m_accessq /\ e = AccessOf(tr) /\ r = m_accessq'
      OBVIOUS
    <3>2. /\ DOMAIN r = DOMAIN q \cup {Len(q) + 1} /\ r[Len(q) + 1] = e
          /\ \A i \in DOMAIN q : r[i] = q[i]
          /\ r \in Seq(UNION {{r[i]} : i \in DOMAIN r})
      <4>1. q \in Seq(UNION {{q[i]} : i \in DOMAIN q}) /\ r = Append(q, e)
        BY <2>2, <3>1 DEF CollectInv, QueueInv
      <4> QED BY <4>1, AppendFacts
    <3>3. e.active = tr.active
      BY <3>1 DEF AccessOf
    <3>4. \A i \in DOMAIN r : \A t \in r[i].active : t \in inst.active /\ t < thread
      BY <2>2, <3>1, <3>2, <3>3 DEF CollectInv, QueueInv
    <3> QED BY <1>0, <2>1, <3>1, <3>2, <3>4, Zenon DEF QueueInv
  <2> QED BY <1>1, <2>3, <2>4 DEF CollectInv
<1>4. CASE ~Collect /\ ~Send
  <2>1. /\ subwarp_transactions' = subwarp_transactions /\ m_accessq' = m_accessq
        /\ thread \in Nat /\ thread' \in Nat /\ thread <= thread'
        /\ \A t \in inst.active, a \in Accesses : Seen(t, a)' <=> Seen(t, a)
        /\ pc' = "collect" => pc = "collect" \/ subwarp_transactions = {}
    BY <1>4, OtherFacts
  <2>2. TransInv'
    BY <1>0, <2>1 DEF CollectInv, TransInv
  <2>3. QueueInv'
    <3>1. \A i \in DOMAIN m_accessq : \A t \in m_accessq[i].active : t \in inst.active /\ t < thread'
      <4> SUFFICES ASSUME NEW i \in DOMAIN m_accessq, NEW t \in m_accessq[i].active
                   PROVE  t \in inst.active /\ t < thread'
        OBVIOUS
      <4>1. t \in inst.active /\ t < thread /\ inst \in Insns
        BY DEF CollectInv, QueueInv, LoopInv
      <4>2. t \in Nat
        BY <4>1, InsnFacts DEF Lane
      <4> QED BY <2>1, <4>1, <4>2
    <3> QED BY <1>0, <2>1, <3>1 DEF CollectInv, QueueInv
  <2> QED BY <1>1, <2>2, <2>3 DEF CollectInv
<1> QED BY <1>2, <1>3, <1>4

-----------------------------------------------------------------------------
(* Every access is served once *)

LEMMA CollectServe ==
  ASSUME CollectInv, ServeInv, Collect, [Next]_vars
  PROVE  ServeInv'
<1> DEFINE trs == subwarp_transactions
<1>0. /\ inst' = inst /\ Accesses' = Accesses
      /\ \A t, a : Block(t, a)' = Block(t, a) /\ Chunk(t, a)' = Chunk(t, a)
      /\ \A tr, t, a : Holds(tr, t, a)' <=> Holds(tr, t, a)
  BY StepFixed
<1>1. /\ thread \in inst.active /\ m_accessq' = m_accessq
      /\ \A t \in inst.active, a \in Accesses :
           Seen(t, a)' <=> Seen(t, a) \/ (t = thread /\ a = access)
      /\ access \in Accesses
  BY CollectFacts DEF CollectInv, LoopInv
<1>2. PICK J, base, x :
        /\ AddedAs(J, base, x) /\ trs' = (trs \ J) \cup {x}
        /\ \A other \in trs \ J : other.block = base.block =>
             inst.isatomic /\ thread \notin other.active
  BY CollectFacts
<1>3. /\ x.block = base.block /\ x.active = base.active \cup {thread}
      /\ x.chunks = base.chunks \cup {Chunk(thread, access)}
      /\ base.block = Block(thread, access)
  <2>1. /\ x = [block |-> base.block, n |-> base.n, chunks |-> base.chunks \cup {Chunk(thread, access)},
                active |-> base.active \cup {thread}, bytes |-> base.bytes \cup Bytes(thread, access)]
        /\ base.block = Block(thread, access)
    BY <1>2 DEF AddedAs
  <2> QED BY <2>1
<1>4. (J = {base} /\ base \in trs) \/ (J = {} /\ base.active = {})
  BY <1>2 DEF AddedAs
<1>5. \A i, t, a : Serves(i, t, a)' <=> Serves(i, t, a)
  BY <1>0, <1>1 DEF Serves
<1>6. \A i \in DOMAIN m_accessq : \A a : ~Serves(i, thread, a)
  <2> SUFFICES ASSUME NEW i \in DOMAIN m_accessq, thread \in m_accessq[i].active PROVE FALSE
    BY DEF Serves
  <2>1. thread < thread /\ thread \in Nat
    BY CollectFacts DEF CollectInv, QueueInv
  <2> QED BY <2>1
<1>7. \A t, a : Pending(t, a)' <=> Pending(t, a) \/ (t = thread /\ Block(t, a) = base.block)
  <2> SUFFICES ASSUME NEW t, NEW a
               PROVE  Pending(t, a)' <=> Pending(t, a) \/ (t = thread /\ Block(t, a) = base.block)
    OBVIOUS
  <2>1. Pending(t, a)' <=> \E tr \in trs' : Holds(tr, t, a)
    BY <1>0 DEF Pending
  <2>2. Holds(x, t, a) <=> (t \in base.active \/ t = thread) /\ base.block = Block(t, a)
    BY <1>3 DEF Holds
  <2>3. ASSUME NEW tr \in J PROVE Holds(tr, t, a) <=> t \in base.active /\ base.block = Block(t, a)
    BY <1>4, <2>3 DEF Holds
  <2>4. t \in base.active => J = {base} /\ base \in trs
    BY <1>4
  <2>5. Pending(t, a) <=> \E tr \in trs : Holds(tr, t, a)
    BY DEF Pending
  <2>6. Holds(base, t, a) <=> t \in base.active /\ base.block = Block(t, a)
    BY DEF Holds
  <2> QED BY <1>2, <2>1, <2>2, <2>3, <2>4, <2>5, <2>6
<1>8. ASSUME NEW tr \in trs', NEW t \in inst.active, NEW a \in Accesses, Seen(t, a)', Holds(tr, t, a)
      PROVE  Chunk(t, a) \in tr.chunks
  <2>1. CASE t = thread /\ a = access
    <3>1. tr.block = base.block /\ thread \in tr.active
      BY <1>3, <1>8, <2>1 DEF Holds
    <3>2. tr = x
      BY <1>2, <3>1
    <3> QED BY <1>3, <2>1, <3>2
  <2>2. CASE Seen(t, a)
    <3>1. CASE tr \in trs
      BY <1>8, <2>2, <3>1 DEF ServeInv
    <3>2. CASE tr = x
      <4>1. base.block = Block(t, a) /\ (t \in base.active \/ t = thread)
        BY <1>3, <1>8, <3>2 DEF Holds
      <4>2. CASE t \in base.active
        <5>1. base \in trs /\ Holds(base, t, a)
          BY <1>4, <4>1, <4>2 DEF Holds
        <5> QED BY <1>3, <1>8, <2>2, <3>2, <5>1 DEF ServeInv
      <4>3. CASE t = thread /\ t \notin base.active
        <5>1. Pending(t, a)
          BY <1>1, <1>6, <1>8, <2>2, <4>3 DEF ServeInv
        <5>2. PICK other \in trs : Holds(other, t, a)
          BY <5>1 DEF Pending
        <5>3. other.block = base.block /\ thread \in other.active
          BY <4>1, <4>3, <5>2 DEF Holds
        <5>4. other \in J
          BY <1>2, <5>3
        <5> QED BY <1>4, <4>3, <5>3, <5>4
      <4> QED BY <4>1, <4>2, <4>3
    <3> QED BY <1>2, <1>8, <3>1, <3>2
  <2> QED BY <1>1, <1>8, <2>1, <2>2
<1>9. ASSUME NEW t \in inst.active, NEW a \in Accesses
      PROVE  /\ Pending(t, a)' => \A i \in DOMAIN m_accessq : ~Serves(i, t, a)
             /\ Seen(t, a)' /\ ~Pending(t, a)' => \E i \in DOMAIN m_accessq : Serves(i, t, a)
             /\ \A i, j \in DOMAIN m_accessq : Serves(i, t, a) /\ Serves(j, t, a) => i = j
  <2>1. Pending(t, a)' => \A i \in DOMAIN m_accessq : ~Serves(i, t, a)
    BY <1>6, <1>7, <1>9 DEF ServeInv
  <2>2. Seen(t, a)' /\ ~Pending(t, a)' => Seen(t, a) /\ ~Pending(t, a)
    BY <1>1, <1>3, <1>7, <1>9
  <2> QED BY <1>9, <2>1, <2>2 DEF ServeInv
<1> QED BY <1>0, <1>1, <1>5, <1>8, <1>9 DEF ServeInv

LEMMA SendServe ==
  ASSUME LineAligned, CollectInv, ServeInv, Send, [Next]_vars
  PROVE  ServeInv'
<1> DEFINE trs == subwarp_transactions
<1>0. /\ inst' = inst /\ Accesses' = Accesses
      /\ \A t, a : Block(t, a)' = Block(t, a) /\ Chunk(t, a)' = Chunk(t, a)
      /\ \A tr, t, a : Holds(tr, t, a)' <=> Holds(tr, t, a)
  BY StepFixed
<1>1. /\ \A t \in inst.active, a \in Accesses : Seen(t, a)' <=> Seen(t, a)
      /\ inst \in Insns
  BY SendFacts DEF CollectInv, LoopInv
<1>2. PICK tr \in trs :
        /\ m_accessq' = Append(m_accessq, AccessOf(tr)) /\ trs' = trs \ {tr}
        /\ \A t \in tr.active : t \in inst.active /\ t < thread
                                /\ \E a \in Accesses : Block(t, a) = tr.block
  BY SendFacts
<1>3. PICK q, e, r : q = m_accessq /\ e = AccessOf(tr) /\ r = m_accessq'
  OBVIOUS
<1>4. PICK k : k = Len(q) + 1
  OBVIOUS
<1>5. DOMAIN r = DOMAIN q \cup {k} /\ r[k] = e /\ \A i \in DOMAIN q : r[i] = q[i]
  <2>1. q \in Seq(UNION {{q[i]} : i \in DOMAIN q}) /\ r = Append(q, e)
    BY <1>2, <1>3 DEF CollectInv, QueueInv
  <2>2. DOMAIN r = DOMAIN q \cup {Len(q) + 1} /\ r[Len(q) + 1] = e /\ \A i \in DOMAIN q : r[i] = q[i]
    BY <2>1, AppendFacts
  <2> QED BY <1>4, <2>2
<1>6. \A i \in DOMAIN q : \A t, a : Serves(i, t, a)' <=> Serves(i, t, a)
  BY <1>0, <1>3, <1>5 DEF Serves
<1>7. \A t \in inst.active, a \in Accesses : Serves(k, t, a)' <=> Holds(tr, t, a)
  <2> SUFFICES ASSUME NEW t \in inst.active, NEW a \in Accesses
               PROVE  Serves(k, t, a)' <=> Holds(tr, t, a)
    OBVIOUS
  <2>1. PICK x, d : x = inst.memreqaddr[t][a] /\ d = data_size_coales(inst)
    OBVIOUS
  <2>2. Serves(k, t, a)' <=> t \in e.active /\ Covers(e, x, d)
    BY <1>0, <1>3, <1>5, <2>1 DEF Serves, Covers
  <2>3. e.active = tr.active
    BY <1>3 DEF AccessOf
  <2>4. CASE t \notin tr.active
    BY <2>2, <2>3, <2>4 DEF Holds
  <2>5. CASE t \in tr.active
    <3>1. PICK c \in Accesses : Block(t, c) = tr.block /\ t < thread
      BY <1>2, <2>5
    <3>2. tr \in Transaction
      BY DEF CollectInv, TransInv
    <3>3. /\ Block(t, a) = tr.block /\ Chunk(t, a) \in tr.chunks => Covers(e, x, d)
          /\ Covers(e, x, d) => Block(t, a) = tr.block
      BY <1>1, <1>3, <2>1, <3>1, <3>2, SentServes
    <3>4. Holds(tr, t, a) => Chunk(t, a) \in tr.chunks
      BY <3>1 DEF ServeInv, Seen
    <3> QED BY <2>2, <2>3, <2>5, <3>3, <3>4 DEF Holds
  <2> QED BY <2>4, <2>5
<1>8. \A t, a : Pending(t, a)' <=> \E other \in trs \ {tr} : Holds(other, t, a)
  BY <1>0, <1>2 DEF Pending
<1>9. \A other \in trs \ {tr} : \A t, a : ~(Holds(other, t, a) /\ Holds(tr, t, a))
  BY DEF CollectInv, TransInv, Holds
<1>10. ASSUME NEW t \in inst.active, NEW a \in Accesses
       PROVE  /\ Pending(t, a)' => \A i \in DOMAIN r : ~Serves(i, t, a)'
              /\ Seen(t, a)' /\ ~Pending(t, a)' => \E i \in DOMAIN r : Serves(i, t, a)'
              /\ \A i, j \in DOMAIN r : Serves(i, t, a)' /\ Serves(j, t, a)' => i = j
  <2>1. /\ Pending(t, a) => \A i \in DOMAIN q : ~Serves(i, t, a)
        /\ Seen(t, a) /\ ~Pending(t, a) => \E i \in DOMAIN q : Serves(i, t, a)
        /\ \A i, j \in DOMAIN q : Serves(i, t, a) /\ Serves(j, t, a) => i = j
    BY <1>3 DEF ServeInv
  <2>2. Pending(t, a) <=> Pending(t, a)' \/ Holds(tr, t, a)
    BY <1>8 DEF Pending
  <2>3. ~(Pending(t, a)' /\ Holds(tr, t, a))
    BY <1>8, <1>9
  <2>4. /\ \A i \in DOMAIN r : i \in DOMAIN q \/ i = k
        /\ \A i \in DOMAIN q : i \in DOMAIN r /\ (Serves(i, t, a)' <=> Serves(i, t, a))
        /\ k \in DOMAIN r /\ (Serves(k, t, a)' <=> Holds(tr, t, a))
    BY <1>5, <1>6, <1>7
  <2>5. Seen(t, a)' <=> Seen(t, a)
    BY <1>1
  <2>6. Pending(t, a)' => \A i \in DOMAIN r : ~Serves(i, t, a)'
    BY <2>1, <2>2, <2>3, <2>4, Zenon
  <2>7. Seen(t, a)' /\ ~Pending(t, a)' => \E i \in DOMAIN r : Serves(i, t, a)'
    BY <2>1, <2>2, <2>4, <2>5, Zenon
  <2>8. \A i, j \in DOMAIN r : Serves(i, t, a)' /\ Serves(j, t, a)' => i = j
    BY <2>1, <2>2, <2>4, Zenon
  <2> QED BY <2>6, <2>7, <2>8
<1>11. \A y \in trs', t \in inst.active, a \in Accesses :
         Seen(t, a)' /\ Holds(y, t, a) => Chunk(t, a) \in y.chunks
  BY <1>1, <1>2 DEF ServeInv
<1>12. /\ \A y \in trs', t \in inst.active, a \in Accesses :
            Seen(t, a)' /\ Holds(y, t, a)' => Chunk(t, a)' \in y.chunks
       /\ \A t \in inst.active, a \in Accesses :
            /\ Pending(t, a)' => \A i \in DOMAIN m_accessq' : ~Serves(i, t, a)'
            /\ Seen(t, a)' /\ ~Pending(t, a)' => \E i \in DOMAIN m_accessq' : Serves(i, t, a)'
            /\ \A i, j \in DOMAIN m_accessq' : Serves(i, t, a)' /\ Serves(j, t, a)' => i = j
  BY <1>0, <1>3, <1>10, <1>11
<1> QED BY <1>0, <1>12, Zenon DEF ServeInv

LEMMA NextServe ==
  ASSUME LineAligned, CollectInv, ServeInv, [Next]_vars
  PROVE  ServeInv'
<1>1. CASE ~Collect /\ ~Send
  <2>1. /\ inst' = inst /\ Accesses' = Accesses
        /\ \A t, a : Chunk(t, a)' = Chunk(t, a)
        /\ \A tr, t, a : Holds(tr, t, a)' <=> Holds(tr, t, a)
    BY StepFixed
  <2>2. /\ subwarp_transactions' = subwarp_transactions /\ m_accessq' = m_accessq
        /\ \A t \in inst.active, a \in Accesses : Seen(t, a)' <=> Seen(t, a)
    BY <1>1, OtherFacts
  <2>3. /\ \A i, t, a : Serves(i, t, a)' <=> Serves(i, t, a)
        /\ \A t, a : Pending(t, a)' <=> Pending(t, a)
    BY <2>1, <2>2 DEF Serves, Pending
  <2> QED BY <2>1, <2>2, <2>3 DEF ServeInv
<1> QED BY <1>1, CollectServe, SendServe

\* Every access of every active thread is in exactly one entry of the queue,
\* and in full, once generate_mem_accesses is done: merging the threads of a
\* subwarp, splitting the conflicts of an atomic and shrinking to 64 or 32 bytes
\* (memory_coalescing_arch_13_reduce_and_send) lose no byte and repeat none.
THEOREM ServedOnceCorrect ==
  ASSUME LineAligned
  PROVE  Spec => []ServedOnce
<1>1. CollectInv /\ ServeInv => ServedOnce
  <2> SUFFICES ASSUME CollectInv, ServeInv, pc = "done", inst.space # "shared"
               PROVE  /\ \A t \in inst.active, a \in Accesses :
                           Cardinality({i \in DOMAIN m_accessq : Serves(i, t, a)}) = 1
                      /\ \A i \in DOMAIN m_accessq : m_accessq[i].active \subseteq inst.active
    BY DEF ServedOnce, Done, Accesses
  <2>1. /\ inst \in Insns /\ subwarp_transactions = {}
        /\ thread = WarpSize \/ inst.active = {}
    BY DEF CollectInv, LoopInv
  <2>2. ASSUME NEW t \in inst.active, NEW a \in Accesses
        PROVE  Cardinality({i \in DOMAIN m_accessq : Serves(i, t, a)}) = 1
    <3>1. t < WarpSize /\ thread = WarpSize
      BY <2>1, BlockFacts
    <3>2. Seen(t, a) /\ ~Pending(t, a)
      BY <2>1, <3>1 DEF Seen, Pending
    <3>3. PICK i \in DOMAIN m_accessq : Serves(i, t, a)
      BY <3>2 DEF ServeInv
    <3>4. \A j \in DOMAIN m_accessq : Serves(j, t, a) => j = i
      BY <3>3 DEF ServeInv
    <3>5. {j \in DOMAIN m_accessq : Serves(j, t, a)} = {i}
      BY <3>3, <3>4
    <3> QED BY <3>5, FS_Singleton
  <2>3. \A i \in DOMAIN m_accessq : m_accessq[i].active \subseteq inst.active
    BY DEF CollectInv, QueueInv
  <2> QED BY <2>2, <2>3
<1>2. CollectInv /\ ServeInv /\ [Next]_vars => (CollectInv /\ ServeInv)'
  BY NextCollect, NextServe
<1> QED BY <1>1, <1>2, InitCollect, PTL DEF Spec

-----------------------------------------------------------------------------
(* The threads of an atomic are served in order *)

LEMMA SerialFacts ==
  ASSUME CollectInv, inst.isatomic
  PROVE  /\ access = 1 /\ Accesses = {1} /\ thread \in Nat
         /\ \A tr \in subwarp_transactions : \A t \in tr.active :
              t \in inst.active /\ t \in Nat /\ t < thread /\ tr.block = Block(t, 1)
         /\ \A t \in inst.active : t \in Nat /\ Bytes(t, 1) # {}
         /\ \A t, u \in inst.active : inst.memreqaddr[t] = inst.memreqaddr[u] =>
              Block(t, 1) = Block(u, 1) /\ Bytes(t, 1) = Bytes(u, 1)
<1>1. inst \in Insns /\ access \in Accesses /\ thread \in Nat
  BY WarpAssumption DEF CollectInv, LoopInv
<1>2. Accesses = {1} /\ access = 1
  BY <1>1, InsnFacts DEF Accesses
<1>3. ASSUME NEW tr \in subwarp_transactions, NEW t \in tr.active
      PROVE  t \in inst.active /\ t \in Nat /\ t < thread /\ tr.block = Block(t, 1)
  <2>1. t \in inst.active /\ Seen(t, 1) /\ tr.block = Block(t, 1)
    BY <1>2, <1>3 DEF CollectInv, TransInv
  <2>2. t \in Nat
    BY <1>1, <2>1, InsnFacts DEF Lane
  <2> QED BY <1>1, <1>2, <2>1, <2>2 DEF Seen
<1>4. ASSUME NEW t \in inst.active PROVE t \in Nat /\ Bytes(t, 1) # {}
  <2>1. t \in Lane /\ inst.memreqaddr[t][1] \in Nat /\ data_size_coales(inst) \in {1, 2, 4, 8, 16}
    BY <1>1, <1>2, <1>4, InsnFacts DEF Accesses
  <2>2. PICK m : m = inst.memreqaddr[t][1] % 128
    OBVIOUS
  <2>3. m \in m .. m + data_size_coales(inst) - 1
    BY <2>1, <2>2
  <2> QED BY <2>1, <2>2, <2>3 DEF Bytes, Lane
<1>5. \A t, u \in inst.active : inst.memreqaddr[t] = inst.memreqaddr[u] =>
        Block(t, 1) = Block(u, 1) /\ Bytes(t, 1) = Bytes(u, 1)
  BY DEF Block, Bytes
<1> QED BY <1>1, <1>2, <1>3, <1>4, <1>5

LEMMA CollectSerial ==
  ASSUME CollectInv, SerialInv, Collect, [Next]_vars, inst.isatomic
  PROVE  SerialInv'
<1> DEFINE trs == subwarp_transactions
           S == Bytes(thread, 1)
<1>0. inst' = inst /\ \A t, a : Bytes(t, a)' = Bytes(t, a)
  BY StepFixed
<1>1. /\ access = 1 /\ thread \in Nat /\ thread \in inst.active /\ m_accessq' = m_accessq
      /\ \A tr \in trs : \A t \in tr.active :
           t \in inst.active /\ t \in Nat /\ t < thread /\ tr.block = Block(t, 1)
      /\ \A t \in inst.active : t \in Nat /\ Bytes(t, 1) # {}
      /\ \A t, u \in inst.active : inst.memreqaddr[t] = inst.memreqaddr[u] =>
           Block(t, 1) = Block(u, 1) /\ Bytes(t, 1) = Bytes(u, 1)
  BY SerialFacts, CollectFacts
<1>2. PICK J, base, x :
        /\ AddedAs(J, base, x) /\ trs' = (trs \ J) \cup {x}
        /\ \A other \in trs \ J : other.block = base.block => other.n # base.n
  BY CollectFacts
<1>3. /\ x.block = base.block /\ x.n = base.n /\ x.active = base.active \cup {thread}
      /\ x.bytes = base.bytes \cup S
      /\ base.block = Block(thread, 1) /\ base.n \in Nat
  <2>1. /\ x = [block |-> base.block, n |-> base.n, chunks |-> base.chunks \cup {Chunk(thread, 1)},
                active |-> base.active \cup {thread}, bytes |-> base.bytes \cup S]
        /\ base.block = Block(thread, 1) /\ base \in Transaction
    BY <1>1, <1>2 DEF AddedAs
  <2> QED BY <2>1 DEF Transaction
<1>4. \A tr \in trs : tr.n \in Nat
  BY DEF CollectInv, TransInv, Transaction
\* Against the transactions of its block, base is the first the thread fits.
<1>5. /\ \A tr \in trs \ J : tr.block = base.block /\ tr.n < base.n => tr.bytes \cap S # {}
      /\ base.bytes \cap S = {}
      /\ (J = {base} /\ base \in trs)
           \/ (J = {} /\ base.active = {} /\ \A tr \in trs : tr.block = base.block => tr.n < base.n)
  <2>1. CASE J = {base}
    <3>1. /\ base \in trs /\ base.bytes \cap S = {}
          /\ \A other \in trs : other.block = base.block /\ other.n < base.n => other.bytes \cap S # {}
      BY <1>1, <1>2, <2>1 DEF AddedAs
    <3> QED BY <2>1, <3>1
  <2>2. CASE J = {}
    <3>1. /\ base = [block |-> Block(thread, 1), n |-> Cardinality(ListOf(trs, Block(thread, 1))) + 1,
                     chunks |-> {}, active |-> {}, bytes |-> {}]
          /\ \A other \in trs : other.block = base.block => other.bytes \cap S # {}
      BY <1>1, <1>2, <2>2 DEF AddedAs
    <3>2. /\ base.active = {} /\ base.bytes = {}
          /\ base.n = Cardinality(ListOf(trs, base.block)) + 1
      BY <3>1
    <3>3. Cardinality(ListOf(trs, base.block)) \in Nat
      BY FS_Subset, FS_CardinalityType DEF CollectInv, TransInv, ListOf
    <3>4. \A tr \in trs : tr.n <= Cardinality(ListOf(trs, tr.block))
      BY CollectFacts DEF CollectInv, TransInv
    <3>5. \A tr \in trs : tr.block = base.block => tr.n < base.n
      BY <1>4, <3>2, <3>3, <3>4
    <3> QED BY <2>2, <3>1, <3>2, <3>5
  <2> QED BY <1>2, <2>1, <2>2 DEF AddedAs
<1>6. ASSUME NEW tr \in trs', NEW t \in tr.active
      PROVE  /\ Bytes(t, 1) \subseteq tr.bytes /\ t \in inst.active /\ t \in Nat /\ t <= thread
             /\ \/ t = thread /\ tr = x
                \/ t < thread /\ tr \in trs \ J
                \/ t < thread /\ tr = x /\ base \in trs /\ J = {base} /\ t \in base.active
  <2>1. CASE tr \in trs \ J
    BY <1>1, <1>6, <2>1 DEF SerialInv
  <2>2. CASE tr = x /\ t = thread
    BY <1>1, <1>3, <2>2
  <2>3. CASE tr = x /\ t \in base.active
    <3>1. J = {base} /\ base \in trs
      BY <1>5, <2>3
    <3> QED BY <1>1, <1>3, <2>3, <3>1 DEF SerialInv
  <2> QED BY <1>2, <1>3, <1>6, <2>1, <2>2, <2>3
<1>7. ASSUME NEW tr \in trs', NEW other \in trs', NEW t \in tr.active,
             tr.block = other.block, other.n < tr.n
      PROVE  other.bytes \cap Bytes(t, 1) # {}
  <2>1. CASE tr \in trs \ J /\ other \in trs \ J
    BY <1>7, <2>1 DEF SerialInv
  <2>2. CASE tr = x /\ other \in trs \ J
    <3>1. CASE t = thread
      BY <1>3, <1>5, <1>7, <2>2, <3>1
    <3>2. CASE base \in trs /\ t \in base.active
      BY <1>3, <1>7, <2>2, <3>2 DEF SerialInv
    <3> QED BY <1>3, <1>5, <1>7, <2>2, <3>1, <3>2
  <2>3. CASE tr \in trs \ J /\ other = x
    <3>1. tr.n \in Nat /\ ~(tr.n < base.n) /\ base.block = tr.block
      BY <1>3, <1>4, <1>7, <2>3
    <3>2. base \in trs
      BY <1>5, <2>3, <3>1
    <3>3. base.bytes \cap Bytes(t, 1) # {}
      BY <1>3, <1>7, <2>3, <3>2 DEF SerialInv
    <3> QED BY <1>3, <2>3, <3>3
  <2>4. CASE tr = x /\ other = x
    BY <1>3, <1>7, <2>4
  <2> QED BY <1>2, <1>7, <2>1, <2>2, <2>3, <2>4
<1>8. ASSUME NEW t \in inst.active, NEW u \in inst.active, t < u, inst.memreqaddr[t] = inst.memreqaddr[u]
      PROVE  /\ \A tr, other \in trs' : t \in tr.active /\ u \in other.active => tr.n < other.n
             /\ \A tr \in trs', j \in DOMAIN m_accessq : t \in tr.active => u \notin m_accessq[j].active
             /\ \A i, j \in DOMAIN m_accessq :
                  t \in m_accessq[i].active /\ u \in m_accessq[j].active => i < j
  <2>0. Block(t, 1) = Block(u, 1) /\ Bytes(t, 1) = Bytes(u, 1) /\ t \in Nat /\ u \in Nat
    BY <1>1, <1>8
  <2>1. ASSUME NEW tr \in trs', NEW other \in trs', t \in tr.active, u \in other.active
        PROVE  tr.n < other.n
    <3>1. u <= thread /\ t < thread
      BY <1>1, <1>6, <1>8, <2>0, <2>1
    <3>2. CASE u < thread
      <4>1. PICK y \in trs : t \in y.active /\ y.n = tr.n
        BY <1>3, <1>6, <2>1, <3>1
      <4>2. PICK z \in trs : u \in z.active /\ z.n = other.n
        BY <1>1, <1>3, <1>6, <2>1, <3>2
      <4> QED BY <1>8, <4>1, <4>2 DEF SerialInv
    <3>3. CASE u = thread
      <4>1. other = x /\ Bytes(t, 1) = S /\ S # {} /\ Block(t, 1) = base.block
        BY <1>1, <1>3, <1>6, <2>0, <2>1, <3>3
      <4>2. ASSUME base \in trs PROVE t \notin base.active
        <5>1. t \in base.active => S \subseteq base.bytes
          BY <4>1, <4>2 DEF SerialInv
        <5> QED BY <1>5, <4>1, <5>1
      <4>3. tr \in trs \ J
        BY <1>1, <1>6, <2>1, <3>1, <4>2
      <4>4. tr.block = base.block
        BY <1>1, <2>1, <4>1, <4>3
      <4>5. tr.n # base.n /\ tr.n \in Nat
        BY <1>2, <1>4, <4>3, <4>4
      <4>6. ~(base.n < tr.n)
        <5>1. CASE J = {}
          BY <1>3, <1>5, <4>3, <4>4, <4>5, <5>1
        <5>2. CASE base \in trs
          BY <1>5, <2>1, <4>1, <4>3, <4>4, <5>2 DEF SerialInv
        <5> QED BY <1>5, <5>1, <5>2
      <4> QED BY <1>3, <4>1, <4>5, <4>6
    <3> QED BY <1>1, <2>0, <3>1, <3>2, <3>3
  <2>2. ASSUME NEW tr \in trs', NEW j \in DOMAIN m_accessq, t \in tr.active, u \in m_accessq[j].active
        PROVE  FALSE
    <3>1. u < thread
      BY <2>2 DEF CollectInv, QueueInv
    <3>2. t < thread
      BY <1>1, <1>8, <2>0, <3>1
    <3>3. PICK y \in trs : t \in y.active
      BY <1>1, <1>6, <2>2, <3>2
    <3> QED BY <1>8, <2>2, <3>3 DEF SerialInv
  <2>3. \A i, j \in DOMAIN m_accessq : t \in m_accessq[i].active /\ u \in m_accessq[j].active => i < j
    BY <1>8 DEF SerialInv
  <2> QED BY <2>1, <2>2, <2>3
<1> QED BY <1>0, <1>1, <1>6, <1>7, <1>8 DEF SerialInv

LEMMA SendSerial ==
  ASSUME CollectInv, SerialInv, Send, [Next]_vars, inst.isatomic
  PROVE  SerialInv'
<1> DEFINE trs == subwarp_transactions
<1>0. inst' = inst /\ \A t, a : Bytes(t, a)' = Bytes(t, a)
  BY StepFixed
<1>1. /\ \A tr \in trs : \A t \in tr.active : tr.block = Block(t, 1)
      /\ \A t, u \in inst.active : inst.memreqaddr[t] = inst.memreqaddr[u] => Block(t, 1) = Block(u, 1)
  BY SerialFacts
<1>2. PICK tr \in trs :
        /\ \A other \in trs \ {tr} : Before(tr, other)
        /\ m_accessq' = Append(m_accessq, AccessOf(tr)) /\ trs' = trs \ {tr}
  BY SendFacts
<1>3. PICK q, e, r : q = m_accessq /\ e = AccessOf(tr) /\ r = m_accessq'
  OBVIOUS
<1>4. PICK k : k = Len(q) + 1
  OBVIOUS
<1>5. /\ DOMAIN r = DOMAIN q \cup {k} /\ r[k] = e /\ \A i \in DOMAIN q : r[i] = q[i] /\ i < k
  <2>1. q \in Seq(UNION {{q[i]} : i \in DOMAIN q}) /\ r = Append(q, e)
    BY <1>2, <1>3 DEF CollectInv, QueueInv
  <2>2. /\ DOMAIN r = DOMAIN q \cup {Len(q) + 1} /\ r[Len(q) + 1] = e /\ \A i \in DOMAIN q : r[i] = q[i]
        /\ Len(q) \in Nat /\ DOMAIN q = 1 .. Len(q)
    BY <2>1, AppendFacts
  <2>3. \A i \in DOMAIN q : i < k
    BY <1>4, <2>2
  <2> QED BY <1>4, <2>2, <2>3
<1>6. e.active = tr.active
  BY <1>3 DEF AccessOf
<1>7. \A y \in trs : y.n \in Nat /\ y.block \in Nat
  BY DEF CollectInv, TransInv, Transaction
<1>8. ASSUME NEW t \in inst.active, NEW u \in inst.active, t < u, inst.memreqaddr[t] = inst.memreqaddr[u]
      PROVE  /\ \A y, other \in trs' : t \in y.active /\ u \in other.active => y.n < other.n
             /\ \A y \in trs', j \in DOMAIN r : t \in y.active => u \notin r[j].active
             /\ \A i, j \in DOMAIN r : t \in r[i].active /\ u \in r[j].active => i < j
  <2>1. /\ \A y, other \in trs : t \in y.active /\ u \in other.active => y.n < other.n
        /\ \A y \in trs, j \in DOMAIN q : t \in y.active => u \notin q[j].active
        /\ \A i, j \in DOMAIN q : t \in q[i].active /\ u \in q[j].active => i < j
    BY <1>3, <1>8 DEF SerialInv
  <2>2. ASSUME NEW y \in trs \ {tr}, t \in y.active, u \in tr.active PROVE FALSE
    <3>1. y.n < tr.n
      BY <2>1, <2>2
    <3>2. y.block = tr.block
      BY <1>1, <1>8, <2>2
    <3>3. Before(tr, y)
      BY <1>2
    <3> QED BY <1>7, <3>1, <3>2, <3>3 DEF Before
  <2>3. ~(t \in tr.active /\ u \in tr.active)
    BY <1>7, <2>1
  <2>4. ASSUME NEW y \in trs', NEW j \in DOMAIN r, t \in y.active PROVE u \notin r[j].active
    BY <1>2, <1>5, <1>6, <2>1, <2>2, <2>4
  <2>5. ASSUME NEW i \in DOMAIN r, NEW j \in DOMAIN r, t \in r[i].active, u \in r[j].active PROVE i < j
    <3>1. CASE i \in DOMAIN q /\ j \in DOMAIN q
      BY <1>5, <2>1, <2>5, <3>1
    <3>2. CASE i \in DOMAIN q /\ j = k
      BY <1>5, <3>2
    <3>3. CASE i = k /\ j \in DOMAIN q
      BY <1>5, <1>6, <2>1, <2>5, <3>3
    <3>4. CASE i = k /\ j = k
      BY <1>5, <1>6, <2>3, <2>5, <3>4
    <3> QED BY <1>5, <2>5, <3>1, <3>2, <3>3, <3>4
  <2> QED BY <1>2, <2>1, <2>4, <2>5
<1>9. /\ \A y \in trs' : \A t \in y.active : Bytes(t, 1)' \subseteq y.bytes
      /\ \A y, other \in trs' : \A t \in y.active :
           y.block = other.block /\ other.n < y.n => other.bytes \cap Bytes(t, 1)' # {}
  BY <1>0, <1>2 DEF SerialInv
<1>10. \A t, u \in inst.active : t < u /\ inst.memreqaddr[t] = inst.memreqaddr[u] =>
         /\ \A y, other \in trs' : t \in y.active /\ u \in other.active => y.n < other.n
         /\ \A y \in trs', j \in DOMAIN m_accessq' : t \in y.active => u \notin m_accessq'[j].active
         /\ \A i, j \in DOMAIN m_accessq' :
              t \in m_accessq'[i].active /\ u \in m_accessq'[j].active => i < j
  BY <1>3, <1>8
<1> QED BY <1>0, <1>9, <1>10 DEF SerialInv

\* The threads of an atomic that touch the same address are in different
\* entries of the queue, in the order of the threads
\* (memory_coalescing_arch_13_atomic and its lists of transactions).
THEOREM AtomicSerialCorrect == Spec => []AtomicSerial
<1>1. CollectInv /\ SerialInv => AtomicSerial
  BY DEF SerialInv, AtomicSerial
<1>2. CollectInv /\ SerialInv /\ [Next]_vars => (CollectInv /\ SerialInv)'
  <2> SUFFICES ASSUME CollectInv, SerialInv, [Next]_vars PROVE CollectInv' /\ SerialInv'
    OBVIOUS
  <2>1. CollectInv'
    BY NextCollect
  <2>2. CASE ~inst.isatomic
    <3>1. inst' = inst
      BY StepFixed
    <3> QED BY <2>1, <2>2, <3>1, Zenon DEF SerialInv
  <2>3. CASE inst.isatomic /\ ~Collect /\ ~Send
    <3>1. inst' = inst /\ \A t, a : Bytes(t, a)' = Bytes(t, a)
      BY StepFixed
    <3>2. subwarp_transactions' = subwarp_transactions /\ m_accessq' = m_accessq
      BY <2>3, OtherFacts
    <3>3. /\ \A tr \in subwarp_transactions : \A t \in tr.active : Bytes(t, 1)' \subseteq tr.bytes
          /\ \A tr, other \in subwarp_transactions : \A t \in tr.active :
               tr.block = other.block /\ other.n < tr.n => other.bytes \cap Bytes(t, 1)' # {}
      BY <2>3, <3>1 DEF SerialInv
    <3>4. SerialInv'
      BY <2>3, <3>1, <3>2, <3>3 DEF SerialInv
    <3> QED BY <2>1, <3>4
  <2>4. inst.isatomic \in BOOLEAN
    BY InsnFacts DEF CollectInv, LoopInv
  <2> QED BY <2>1, <2>2, <2>3, <2>4, CollectSerial, SendSerial
<1> QED BY <1>1, <1>2, InitCollect, PTL DEF Spec
=============================================================================
