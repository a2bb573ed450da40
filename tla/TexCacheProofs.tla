--------------------------- MODULE TexCacheProofs ---------------------------
(***************************************************************************)
(* Proofs about TexCache for every number of lines, blocks and requests,   *)
(* every size of the four FIFOs and every choice of victims.               *)
(***************************************************************************)
EXTENDS TexCache, TLAPS

-----------------------------------------------------------------------------
(* The inductive invariant *)

Misses == {i \in DOMAIN m_fragment_fifo : m_fragment_fifo[i].miss}
ReqAt(i)  == m_fragment_fifo[i].req
LineAt(i) == m_fragment_fifo[i].line

\* What was accepted and not taken back is in the result FIFO and then in the
\* fragment FIFO, in order, each request once.
OrderInv ==
  /\ Len(accepted) = Len(m_result_fifo) + Len(m_fragment_fifo)
  /\ \A i \in 1 .. Len(m_result_fifo) : accepted[i] = m_result_fifo[i]
  /\ \A i \in 1 .. Len(m_fragment_fifo) : accepted[Len(m_result_fifo) + i] = ReqAt(i)
  /\ \A i, j \in 1 .. Len(accepted) : accepted[i] = accepted[j] => i = j
  /\ \A i \in 1 .. Len(accepted) : addr[accepted[i]] # NoBlock

\* How far ring entry x is from the tail, in the direction of the head
Dist(x) == IF x >= m_rob.tail THEN x - m_rob.tail ELSE x - m_rob.tail + RobSize
MissDist(i) == Dist(rob_index[ReqAt(i)])

\* The entries of the ring that are in use belong to the misses of the fragment
\* FIFO, in the same order, without gaps.
RingInv ==
  /\ m_rob.num < RobSize => Dist(m_rob.head) = m_rob.num
  /\ m_rob.num = RobSize => m_rob.head = m_rob.tail
  /\ \A i \in Misses : MissDist(i) < m_rob.num
  /\ \A i, j \in Misses : i < j => MissDist(i) < MissDist(j)
  /\ \A k \in 0 .. m_rob.num - 1 : \E i \in Misses : MissDist(i) = k

EntryInv ==
  \A i \in Misses : LET e == m_rob.data[rob_index[ReqAt(i)]]
                    IN  e.req = ReqAt(i) /\ e.line = LineAt(i) /\ e.block = addr[ReqAt(i)]

\* A request that memory has not answered belongs to a miss that is not ready.
NetInv ==
  /\ \A f \in net \cup ToSet(m_request_fifo) :
       \E i \in Misses : ReqAt(i) = f /\ ~m_rob.data[rob_index[f]].ready
  /\ \A i, j \in DOMAIN m_request_fifo : m_request_fifo[i] = m_request_fifo[j] => i = j
  /\ net \cap ToSet(m_request_fifo) = {}

\* The last miss of line l before position i, if there is one, will have placed
\* in the cache what a hit at i needs; the tags are ahead of the data by the
\* misses that are still in the FIFO.
LastMissBefore(j, i, l) == /\ j \in Misses /\ j < i /\ LineAt(j) = l
                           /\ \A k \in Misses : j < k /\ k < i => LineAt(k) # l
NoMissBefore(i, l) == \A k \in Misses : k < i => LineAt(k) # l

DataInv ==
  /\ \A i \in DOMAIN m_fragment_fifo \ Misses :
       /\ NoMissBefore(i, LineAt(i)) => m_cache[LineAt(i)] = addr[ReqAt(i)]
       /\ \A j \in Misses : LastMissBefore(j, i, LineAt(i)) => addr[ReqAt(j)] = addr[ReqAt(i)]
  /\ \A l \in Line :
       /\ NoMissBefore(Len(m_fragment_fifo) + 1, l) => m_cache[l] = tags[l]
       /\ \A j \in Misses : LastMissBefore(j, Len(m_fragment_fifo) + 1, l) => tags[l] = addr[ReqAt(j)]

IInv == TypeOK /\ OrderInv /\ RingInv /\ EntryInv /\ NetInv /\ DataInv

-----------------------------------------------------------------------------
(* Lists, and the indices of the ring *)

LEMMA AppendFacts ==
  ASSUME NEW S, NEW s \in Seq(S), NEW x \in S
  PROVE  /\ Append(s, x) \in Seq(S) /\ Len(Append(s, x)) = Len(s) + 1 /\ Len(s) \in Nat
         /\ \A i \in 1 .. Len(s) : Append(s, x)[i] = s[i]
         /\ Append(s, x)[Len(s) + 1] = x
         /\ ToSet(Append(s, x)) = ToSet(s) \cup {x}
<1>1. /\ Append(s, x) \in Seq(S) /\ Len(Append(s, x)) = Len(s) + 1 /\ Len(s) \in Nat
      /\ \A i \in 1 .. Len(s) : Append(s, x)[i] = s[i]
      /\ Append(s, x)[Len(s) + 1] = x
  OBVIOUS
<1>2. DOMAIN Append(s, x) = DOMAIN s \cup {Len(s) + 1} /\ DOMAIN s = 1 .. Len(s)
  OBVIOUS
<1>3. ToSet(Append(s, x)) = ToSet(s) \cup {x}
  BY <1>1, <1>2, Zenon DEF ToSet
<1> QED BY <1>1, <1>3

LEMMA TailFacts ==
  ASSUME NEW S, NEW s \in Seq(S), s # <<>>
  PROVE  /\ Tail(s) \in Seq(S) /\ Len(Tail(s)) = Len(s) - 1 /\ Len(s) \in Nat \ {0}
         /\ Head(s) = s[1] /\ Head(s) \in S
         /\ \A i \in 1 .. Len(s) - 1 : Tail(s)[i] = s[i + 1]
         /\ ToSet(Tail(s)) = {s[i] : i \in 2 .. Len(s)}
<1>1. /\ Tail(s) \in Seq(S) /\ Len(Tail(s)) = Len(s) - 1 /\ Len(s) \in Nat \ {0}
      /\ Head(s) = s[1] /\ Head(s) \in S
      /\ \A i \in 1 .. Len(s) - 1 : Tail(s)[i] = s[i + 1]
  OBVIOUS
<1>2. DOMAIN Tail(s) = 1 .. Len(s) - 1
  BY <1>1
<1>3. \A i \in DOMAIN Tail(s) : i + 1 \in 2 .. Len(s) /\ Tail(s)[i] = s[i + 1]
  BY <1>1, <1>2
<1>4. \A i \in 2 .. Len(s) : i - 1 \in DOMAIN Tail(s) /\ Tail(s)[i - 1] = s[i]
  BY <1>1, <1>2
<1>5. ToSet(Tail(s)) = {s[i] : i \in 2 .. Len(s)}
  <2>1. ToSet(Tail(s)) \subseteq {s[i] : i \in 2 .. Len(s)}
    BY <1>3, Zenon DEF ToSet
  <2>2. {s[i] : i \in 2 .. Len(s)} \subseteq ToSet(Tail(s))
    BY <1>4 DEF ToSet
  <2> QED BY <2>1, <2>2
<1> QED BY <1>1, <1>5

\* Removing the head of a list
LEMMA RemoveHead ==
  ASSUME NEW S, NEW s \in Seq(S), s # <<>>
  PROVE  /\ RemoveFirst(s, s[1]) \in Seq(S)
         /\ Len(RemoveFirst(s, s[1])) = Len(s) - 1
         /\ \A i \in 1 .. Len(s) - 1 : RemoveFirst(s, s[1])[i] = s[i + 1]
<1> DEFINE I == {i \in 1 .. Len(s) : s[i] = s[1]}
<1>1. 1 \in I /\ \A i \in I : 1 <= i
  OBVIOUS
<1>2. Min(I) = 1
  <2>1. \A x \in I : (\A y \in I : x <= y) => x = 1
    BY <1>1
  <2> QED BY <1>1, <2>1 DEF Min
<1>3. RemoveFirst(s, s[1]) = RemoveAt(s, 1)
  BY <1>1, <1>2 DEF RemoveFirst, SelectInSeq
<1> DEFINE a == SubSeq(s, 1, 0)
           b == SubSeq(s, 2, Len(s))
<1>4. a \in Seq(S) /\ Len(a) = 0
  OBVIOUS
<1>5. b \in Seq(S) /\ Len(b) = Len(s) - 1 /\ \A i \in 1 .. Len(s) - 1 : b[i] = s[i + 1]
  OBVIOUS
<1>6. RemoveAt(s, 1) = a \o b
  BY DEF RemoveAt
<1> HIDE DEF a, b
<1>7. a \o b \in Seq(S) /\ Len(a \o b) = Len(b) /\ \A i \in 1 .. Len(b) : (a \o b)[i] = b[i]
  BY <1>4, <1>5
<1> QED BY <1>3, <1>5, <1>6, <1>7

\* The ring goes round.
LEMMA RingNext ==
  ASSUME NEW x \in RobIndex
  PROVE  /\ (x + 1) % RobSize = IF x + 1 = RobSize THEN 0 ELSE x + 1
         /\ (x + 1) % RobSize \in RobIndex
<1>1. RobSize \in Nat \ {0} /\ x \in 0 .. RobSize - 1
  BY TexAssumption DEF RobIndex
<1>2. CASE x + 1 = RobSize
  <2>1. (x + 1) % RobSize = 0
    BY <1>1, <1>2
  <2> QED BY <1>1, <1>2, <2>1 DEF RobIndex
<1>3. CASE x + 1 < RobSize
  <2>1. (x + 1) % RobSize = x + 1
    BY <1>1, <1>3
  <2> QED BY <1>1, <1>3, <2>1 DEF RobIndex
<1> QED BY <1>1, <1>2, <1>3

\* Where the steps of the ring lead, seen from its tail
LEMMA DistFacts ==
  ASSUME TypeOK
  PROVE  /\ RobSize \in Nat \ {0}
         /\ m_rob.head \in Nat /\ m_rob.tail \in Nat /\ m_rob.num \in Nat /\ m_rob.num <= RobSize
         /\ m_rob.head < RobSize /\ m_rob.tail < RobSize
         /\ \A x \in RobIndex : x \in Nat /\ x < RobSize /\ Dist(x) \in Nat /\ Dist(x) < RobSize
         /\ \A x, y \in RobIndex : Dist(x) = Dist(y) => x = y
         /\ \A x \in RobIndex : Dist(x) = 0 <=> x = m_rob.tail
<1>1. /\ RobSize \in Nat \ {0} /\ m_rob.head \in 0 .. RobSize - 1 /\ m_rob.tail \in 0 .. RobSize - 1
      /\ m_rob.num \in 0 .. RobSize /\ RobIndex = 0 .. RobSize - 1
  BY TexAssumption DEF TypeOK, RobIndex
<1>2. \A x \in RobIndex : x \in Nat /\ x < RobSize /\ Dist(x) \in Nat /\ Dist(x) < RobSize
  BY <1>1 DEF Dist
<1>3. \A x, y \in RobIndex : Dist(x) = Dist(y) => x = y
  BY <1>1 DEF Dist
<1>4. \A x \in RobIndex : Dist(x) = 0 <=> x = m_rob.tail
  BY <1>1 DEF Dist
<1> QED BY <1>1, <1>2, <1>3, <1>4

-----------------------------------------------------------------------------
(* access *)

\* The fragment FIFO after an access
LEMMA FragmentAdded ==
  ASSUME TypeOK, NEW f \in Fetch, NEW l \in Line, NEW m \in BOOLEAN, NEW n, n = Len(m_fragment_fifo),
         m_fragment_fifo' = Append(m_fragment_fifo, [req |-> f, line |-> l, miss |-> m])
  PROVE  /\ n \in Nat /\ m_fragment_fifo' \in Seq(Fragment)
         /\ Len(m_fragment_fifo') = n + 1
         /\ DOMAIN m_fragment_fifo = 1 .. n
         /\ DOMAIN m_fragment_fifo' = 1 .. n + 1
         /\ \A i \in 1 .. n :
              /\ ReqAt(i)' = ReqAt(i) /\ LineAt(i)' = LineAt(i) /\ (i \in Misses' <=> i \in Misses)
              /\ ReqAt(i) \in Fetch /\ LineAt(i) \in Line
         /\ ReqAt(n + 1)' = f /\ LineAt(n + 1)' = l
         /\ n + 1 \in Misses' <=> m
         /\ Misses \subseteq 1 .. n /\ Misses' \subseteq 1 .. n + 1
<1> DEFINE e == [req |-> f, line |-> l, miss |-> m]
<1>1. e \in Fragment /\ e.req = f /\ e.line = l /\ e.miss = m
  BY DEF Fragment
<1>2. m_fragment_fifo' = Append(m_fragment_fifo, e) /\ m_fragment_fifo \in Seq(Fragment)
  BY DEF TypeOK
<1> HIDE DEF e
<1>3. /\ n \in Nat /\ m_fragment_fifo' \in Seq(Fragment)
      /\ Len(m_fragment_fifo') = n + 1
      /\ \A i \in 1 .. n : m_fragment_fifo'[i] = m_fragment_fifo[i]
      /\ m_fragment_fifo'[n + 1] = e
  BY <1>1, <1>2, AppendFacts
<1>4. /\ DOMAIN m_fragment_fifo = 1 .. n
      /\ DOMAIN m_fragment_fifo' = 1 .. n + 1
  BY <1>2, <1>3
<1>5. \A i \in 1 .. n : m_fragment_fifo[i] \in Fragment
  BY <1>2
<1>6. \A i \in 1 .. n : /\ ReqAt(i)' = ReqAt(i) /\ LineAt(i)' = LineAt(i)
                                           /\ ReqAt(i) \in Fetch /\ LineAt(i) \in Line
  BY <1>3, <1>5 DEF ReqAt, LineAt, Fragment
<1>7. \A i \in 1 .. n : i \in Misses' <=> i \in Misses
  BY <1>3, <1>4 DEF Misses
<1>8. ReqAt(n + 1)' = f /\ LineAt(n + 1)' = l
  BY <1>1, <1>3 DEF ReqAt, LineAt
<1>9. n + 1 \in Misses' <=> m
  BY <1>1, <1>3, <1>4 DEF Misses
<1>10. Misses \subseteq 1 .. n /\ Misses' \subseteq 1 .. n + 1
  BY <1>4 DEF Misses
<1> QED BY <1>3, <1>4, <1>6, <1>7, <1>8, <1>9, <1>10

\* A request that is not in use is none of the accepted ones.
LEMMA FreshRequest ==
  ASSUME TypeOK, OrderInv, NEW f \in Fetch, addr[f] = NoBlock
  PROVE  /\ \A i \in 1 .. Len(accepted) : accepted[i] # f
         /\ \A i \in 1 .. Len(m_fragment_fifo) : ReqAt(i) # f
<1>1. \A i \in 1 .. Len(accepted) : accepted[i] # f
  BY DEF OrderInv
<1>2. Len(m_result_fifo) \in Nat /\ Len(m_fragment_fifo) \in Nat
  BY DEF TypeOK
<1>3. ASSUME NEW i \in 1 .. Len(m_fragment_fifo) PROVE ReqAt(i) # f
  <2>1. /\ Len(m_result_fifo) + i \in 1 .. Len(accepted)
        /\ accepted[Len(m_result_fifo) + i] = ReqAt(i)
    BY <1>2 DEF OrderInv
  <2> QED BY <1>1, <2>1
<1> QED BY <1>1, <1>3

LEMMA AccessOrder ==
  ASSUME TypeOK, OrderInv, NEW f \in Fetch, NEW b \in Block, addr[f] = NoBlock,
         NEW l \in Line, NEW m \in BOOLEAN,
         m_fragment_fifo' = Append(m_fragment_fifo, [req |-> f, line |-> l, miss |-> m]),
         addr' = [addr EXCEPT ![f] = b], accepted' = Append(accepted, f), UNCHANGED m_result_fifo
  PROVE  OrderInv'
<1>0. PICK n, r, a : n = Len(m_fragment_fifo) /\ r = Len(m_result_fifo) /\ a = Len(accepted)
  OBVIOUS
<1>1. /\ accepted' \in Seq(Fetch) /\ Len(accepted') = a + 1 /\ a \in Nat
      /\ \A i \in 1 .. a : accepted'[i] = accepted[i]
      /\ accepted'[a + 1] = f
  BY <1>0, AppendFacts DEF TypeOK
<1>2. /\ n \in Nat /\ Len(m_fragment_fifo') = n + 1
      /\ \A i \in 1 .. n : ReqAt(i)' = ReqAt(i)
      /\ ReqAt(n + 1)' = f
  BY <1>0, FragmentAdded
<1>3. r \in Nat /\ a = r + n /\ Len(m_result_fifo') = r
  BY <1>0 DEF TypeOK, OrderInv
<1>4. \A i \in 1 .. a : accepted[i] # f /\ accepted[i] \in Fetch
  BY <1>0, FreshRequest DEF TypeOK
<1>5. /\ \A i \in 1 .. r : accepted[i] = m_result_fifo[i]
      /\ \A i \in 1 .. n : accepted[r + i] = ReqAt(i)
      /\ \A i, j \in 1 .. a : accepted[i] = accepted[j] => i = j
      /\ \A i \in 1 .. a : addr[accepted[i]] # NoBlock
  BY <1>0 DEF OrderInv
<1>6. \A i \in 1 .. r : accepted'[i] = m_result_fifo'[i]
  BY <1>1, <1>2, <1>3, <1>5
<1>7. \A i \in 1 .. n + 1 : accepted'[r + i] = ReqAt(i)'
  <2>1. \A i \in 1 .. n : accepted'[r + i] = ReqAt(i)'
    BY <1>1, <1>2, <1>3, <1>5
  <2>2. accepted'[r + (n + 1)] = ReqAt(n + 1)'
    BY <1>1, <1>2, <1>3
  <2>3. \A i \in 1 .. n + 1 : i \in 1 .. n \/ i = n + 1
    BY <1>2
  <2> QED BY <2>1, <2>2, <2>3
<1>8. \A i, j \in 1 .. a + 1 : accepted'[i] = accepted'[j] => i = j
  BY <1>1, <1>4, <1>5
<1>9. \A i \in 1 .. a + 1 : addr'[accepted'[i]] # NoBlock
  <2>1. b # NoBlock /\ addr'[f] = b /\ \A g \in Fetch \ {f} : addr'[g] = addr[g]
    BY TexAssumption DEF TypeOK
  <2> QED BY <1>1, <1>4, <1>5, <2>1
<1>10. Len(accepted') = Len(m_result_fifo') + Len(m_fragment_fifo')
  <2>1. a + 1 = r + (n + 1)
    BY <1>1, <1>2, <1>3
  <2> QED BY <1>1, <1>2, <1>3, <2>1, Zenon
<1>11. \A i \in 1 .. Len(m_fragment_fifo') : accepted'[Len(m_result_fifo') + i] = ReqAt(i)'
  BY <1>2, <1>3, <1>7, Zenon
<1>12. \A i \in 1 .. Len(m_result_fifo') : accepted'[i] = m_result_fifo'[i]
  BY <1>3, <1>6, Zenon
<1>13. /\ \A i, j \in 1 .. Len(accepted') : accepted'[i] = accepted'[j] => i = j
       /\ \A i \in 1 .. Len(accepted') : addr'[accepted'[i]] # NoBlock
  BY <1>1, <1>8, <1>9, Zenon
<1> QED BY <1>10, <1>11, <1>12, <1>13, Zenon DEF OrderInv

\* A hit finds in the tags what the last miss of its line, or the cache, has.
LEMMA AccessData ==
  ASSUME TypeOK, OrderInv, DataInv, NEW f \in Fetch, NEW b \in Block, addr[f] = NoBlock,
         NEW l \in Line, NEW m \in BOOLEAN,
         m_fragment_fifo' = Append(m_fragment_fifo, [req |-> f, line |-> l, miss |-> m]),
         addr' = [addr EXCEPT ![f] = b], UNCHANGED m_cache,
         tags' = IF m THEN [tags EXCEPT ![l] = b] ELSE tags, ~m => tags[l] = b
  PROVE  DataInv'
<1>0. PICK n : n = Len(m_fragment_fifo)
  OBVIOUS
<1>1. /\ n \in Nat /\ Len(m_fragment_fifo') = n + 1
      /\ DOMAIN m_fragment_fifo = 1 .. n /\ DOMAIN m_fragment_fifo' = 1 .. n + 1
      /\ \A i \in 1 .. n :
           /\ ReqAt(i)' = ReqAt(i) /\ LineAt(i)' = LineAt(i) /\ (i \in Misses' <=> i \in Misses)
           /\ ReqAt(i) \in Fetch /\ LineAt(i) \in Line
      /\ ReqAt(n + 1)' = f /\ LineAt(n + 1)' = l /\ (n + 1 \in Misses' <=> m)
      /\ Misses \subseteq 1 .. n /\ Misses' \subseteq 1 .. n + 1
  BY <1>0, FragmentAdded
<1>2. /\ \A i \in 1 .. n : addr'[ReqAt(i)'] = addr[ReqAt(i)]
      /\ addr'[f] = b
  BY <1>0, <1>1, FreshRequest DEF TypeOK
<1>6. ASSUME NEW i \in DOMAIN m_fragment_fifo' \ Misses'
      PROVE  /\ NoMissBefore(i, LineAt(i))' => m_cache'[LineAt(i)'] = addr'[ReqAt(i)']
             /\ \A j \in Misses' : LastMissBefore(j, i, LineAt(i))' => addr'[ReqAt(j)'] = addr'[ReqAt(i)']
  <2>1. CASE i \in 1 .. n
    <3>1. i \in DOMAIN m_fragment_fifo \ Misses
      BY <1>1, <1>6, <2>1
    <3>2. /\ NoMissBefore(i, LineAt(i)) => m_cache[LineAt(i)] = addr[ReqAt(i)]
          /\ \A j \in Misses : LastMissBefore(j, i, LineAt(i)) => addr[ReqAt(j)] = addr[ReqAt(i)]
      BY <3>1 DEF DataInv
    <3>3. NoMissBefore(i, LineAt(i))' => NoMissBefore(i, LineAt(i))
      BY <1>1, <2>1 DEF NoMissBefore
    <3>4. ASSUME NEW j \in Misses', LastMissBefore(j, i, LineAt(i))'
          PROVE  j \in Misses /\ j \in 1 .. n /\ LastMissBefore(j, i, LineAt(i))
      BY <1>1, <2>1, <3>4 DEF LastMissBefore
    <3> QED BY <1>1, <1>2, <2>1, <3>2, <3>3, <3>4
  <2>2. CASE i = n + 1
    <3>1. ~m /\ tags[l] = b /\ LineAt(i)' = l /\ addr'[ReqAt(i)'] = b
      BY <1>1, <1>2, <1>6, <2>2
    <3>2. /\ NoMissBefore(n + 1, l) => m_cache[l] = tags[l]
          /\ \A j \in Misses : LastMissBefore(j, n + 1, l) => tags[l] = addr[ReqAt(j)]
      BY <1>0 DEF DataInv
    <3>3. NoMissBefore(i, LineAt(i))' => NoMissBefore(n + 1, l)
      BY <1>1, <2>2 DEF NoMissBefore
    <3>4. ASSUME NEW j \in Misses', LastMissBefore(j, i, LineAt(i))'
          PROVE  j \in Misses /\ j \in 1 .. n /\ LastMissBefore(j, n + 1, l)
      BY <1>1, <2>2, <3>4 DEF LastMissBefore
    <3> QED BY <1>2, <3>1, <3>2, <3>3, <3>4
  <2> QED BY <1>1, <1>6, <2>1, <2>2
<1>7. ASSUME NEW k \in Line
      PROVE  /\ NoMissBefore(n + 2, k)' => m_cache'[k] = tags'[k]
             /\ \A j \in Misses' : LastMissBefore(j, n + 2, k)' => tags'[k] = addr'[ReqAt(j)']
  <2>1. /\ NoMissBefore(n + 1, k) => m_cache[k] = tags[k]
        /\ \A j \in Misses : LastMissBefore(j, n + 1, k) => tags[k] = addr[ReqAt(j)]
    BY <1>0 DEF DataInv
  <2>2. CASE m /\ k = l
    <3>1. tags'[k] = b /\ n + 1 \in Misses'
      BY <1>1, <2>2 DEF TypeOK
    <3>2. ~NoMissBefore(n + 2, k)'
      BY <1>1, <2>2, <3>1 DEF NoMissBefore
    <3>3. \A j \in Misses' : LastMissBefore(j, n + 2, k)' => j = n + 1
      BY <1>1, <2>2, <3>1 DEF LastMissBefore
    <3> QED BY <1>1, <1>2, <3>1, <3>2, <3>3
  <2>3. CASE ~(m /\ k = l)
    <3>1. tags'[k] = tags[k]
      BY <2>3 DEF TypeOK
    <3>2. NoMissBefore(n + 2, k)' => NoMissBefore(n + 1, k)
      BY <1>1, <2>3 DEF NoMissBefore
    <3>3. ASSUME NEW j \in Misses', LastMissBefore(j, n + 2, k)'
          PROVE  j \in Misses /\ j \in 1 .. n /\ LastMissBefore(j, n + 1, k)
      BY <1>1, <2>3, <3>3 DEF LastMissBefore
    <3> QED BY <1>2, <2>1, <3>1, <3>2, <3>3
  <2> QED BY <2>2, <2>3
<1>8. Len(m_fragment_fifo') + 1 = n + 2
  BY <1>1
<1> QED BY <1>6, <1>7, <1>8 DEF DataInv

\* The reorder buffer after a push
LEMMA RobPushed ==
  ASSUME TypeOK, NEW e \in RobEntry, m_rob.num < RobSize, m_rob' = RobPush(e)
  PROVE  /\ m_rob' \in [data : [RobIndex -> RobEntry], head : RobIndex, tail : RobIndex, num : 0 .. RobSize]
         /\ m_rob'.head = (m_rob.head + 1) % RobSize
         /\ m_rob'.num = m_rob.num + 1 /\ m_rob'.tail = m_rob.tail
         /\ m_rob'.data[m_rob.head] = e
         /\ \A x \in RobIndex \ {m_rob.head} : m_rob'.data[x] = m_rob.data[x]
<1> DEFINE h == (m_rob.head + 1) % RobSize
<1>1. /\ m_rob \in [data : [RobIndex -> RobEntry], head : RobIndex, tail : RobIndex, num : 0 .. RobSize]
      /\ RobSize \in Nat \ {0}
  BY TexAssumption DEF TypeOK
<1>2. h \in RobIndex
  BY <1>1, RingNext
<1>3. m_rob' = [m_rob EXCEPT !.data[m_rob.head] = e, !.head = h, !.num = @ + 1]
  BY DEF RobPush
<1> HIDE DEF h
<1>4. m_rob.num + 1 \in 0 .. RobSize
  BY <1>1
<1>5. /\ m_rob'.head = h /\ m_rob'.num = m_rob.num + 1 /\ m_rob'.tail = m_rob.tail
      /\ m_rob'.data = [m_rob.data EXCEPT ![m_rob.head] = e]
      /\ m_rob' \in [data : [RobIndex -> RobEntry], head : RobIndex, tail : RobIndex, num : 0 .. RobSize]
  BY <1>1, <1>2, <1>3, <1>4
<1>6. /\ m_rob'.data[m_rob.head] = e
      /\ \A x \in RobIndex \ {m_rob.head} : m_rob'.data[x] = m_rob.data[x]
  BY <1>1, <1>5
<1> QED BY <1>5, <1>6 DEF h

\* A hit leaves the ring, its misses and the requests as they are.
LEMMA HitRing ==
  ASSUME IInv, NEW f \in Fetch, NEW b \in Block, addr[f] = NoBlock, NEW l \in Line,
         m_fragment_fifo' = Append(m_fragment_fifo, [req |-> f, line |-> l, miss |-> FALSE]),
         addr' = [addr EXCEPT ![f] = b], UNCHANGED <<m_rob, rob_index, m_request_fifo, net>>
  PROVE  RingInv' /\ EntryInv' /\ NetInv'
<1>0. PICK n : n = Len(m_fragment_fifo)
  OBVIOUS
<1>1. /\ n \in Nat
      /\ \A i \in 1 .. n :
           /\ ReqAt(i)' = ReqAt(i) /\ LineAt(i)' = LineAt(i) /\ (i \in Misses' <=> i \in Misses)
           /\ ReqAt(i) \in Fetch
      /\ n + 1 \notin Misses'
      /\ Misses \subseteq 1 .. n /\ Misses' \subseteq 1 .. n + 1
  BY <1>0, FragmentAdded, Zenon DEF IInv
<1>2. Misses' = Misses
  <2>1. Misses' \subseteq 1 .. n
    BY <1>1
  <2> QED BY <1>1, <2>1
<1>3. \A i \in Misses : addr'[ReqAt(i)'] = addr[ReqAt(i)]
  BY <1>0, <1>1, FreshRequest DEF IInv, TypeOK
<1>4. \A i \in Misses : ReqAt(i)' = ReqAt(i) /\ LineAt(i)' = LineAt(i)
  BY <1>1
<1>5. \A i \in Misses : MissDist(i)' = MissDist(i)
  BY <1>4 DEF MissDist, Dist
<1>6. Dist(m_rob.head)' = Dist(m_rob.head)
  BY DEF Dist
<1>7. RingInv'
  BY <1>2, <1>5, <1>6, Zenon DEF RingInv, IInv
<1>8. EntryInv'
  BY <1>2, <1>3, <1>4 DEF EntryInv, IInv
<1>9. NetInv'
  BY <1>2, <1>4 DEF NetInv, IInv
<1> QED BY <1>7, <1>8, <1>9

\* A miss takes the entry at the head of the ring, the farthest from the tail.
LEMMA MissRing ==
  ASSUME IInv, NEW f \in Fetch, NEW b \in Block, addr[f] = NoBlock, NEW l \in Line, Accepts,
         m_fragment_fifo' = Append(m_fragment_fifo, [req |-> f, line |-> l, miss |-> TRUE]),
         m_rob' = RobPush([req |-> f, line |-> l, block |-> b, ready |-> FALSE]),
         rob_index' = [rob_index EXCEPT ![f] = m_rob.head],
         addr' = [addr EXCEPT ![f] = b],
         m_request_fifo' = Append(m_request_fifo, f), UNCHANGED net
  PROVE  RingInv' /\ EntryInv' /\ NetInv'
<1>0. PICK n : n = Len(m_fragment_fifo)
  OBVIOUS
<1>01. PICK h, v, t : h = m_rob.head /\ v = m_rob.num /\ t = m_rob.tail
  OBVIOUS
<1> DEFINE e == [req |-> f, line |-> l, block |-> b, ready |-> FALSE]
<1>1. /\ n \in Nat
      /\ \A i \in 1 .. n :
           /\ ReqAt(i)' = ReqAt(i) /\ LineAt(i)' = LineAt(i) /\ (i \in Misses' <=> i \in Misses)
           /\ ReqAt(i) \in Fetch /\ ReqAt(i) # f
      /\ n + 1 \in Misses' /\ ReqAt(n + 1)' = f /\ LineAt(n + 1)' = l
      /\ Misses \subseteq 1 .. n /\ Misses' \subseteq 1 .. n + 1
  BY <1>0, FragmentAdded, FreshRequest, Zenon DEF IInv
<1>2. Misses' = Misses \cup {n + 1} /\ \A i \in Misses : i < n + 1 /\ i \in Nat
  <2>1. \A i \in 1 .. n + 1 : i \in 1 .. n \/ i = n + 1
    BY <1>1
  <2>2. \A i \in 1 .. n : i < n + 1 /\ i \in Nat
    BY <1>1
  <2> QED BY <1>1, <2>1, <2>2, Zenon
<1>3. e \in RobEntry /\ e.req = f /\ e.line = l /\ e.block = b /\ ~e.ready
  BY DEF RobEntry
<1>4. /\ RobSize \in Nat \ {0} /\ h \in RobIndex /\ v \in Nat /\ v < RobSize /\ t \in RobIndex
      /\ h \in Nat /\ t \in Nat /\ h < RobSize /\ t < RobSize /\ Dist(h) = v
  BY <1>01, DistFacts DEF IInv, RingInv, Accepts, TypeOK
<1>5. /\ m_rob'.head = (h + 1) % RobSize /\ m_rob'.num = v + 1 /\ m_rob'.tail = t
      /\ m_rob'.data[h] = e
      /\ \A x \in RobIndex \ {h} : m_rob'.data[x] = m_rob.data[x]
  <2> HIDE DEF e
  <2>1. m_rob' = RobPush(e)
    BY DEF e
  <2> QED BY <1>01, <1>3, <1>4, <2>1, RobPushed DEF IInv
<1> HIDE DEF e
<1>6. /\ \A i \in Misses : rob_index'[ReqAt(i)'] = rob_index[ReqAt(i)] /\ rob_index[ReqAt(i)] \in RobIndex
      /\ rob_index'[f] = h
  BY <1>1, <1>01 DEF IInv, TypeOK
<1>7. \A i \in Misses : MissDist(i)' = MissDist(i) /\ MissDist(i) \in Nat /\ MissDist(i) < v
  <2>1. \A i \in Misses : MissDist(i)' = MissDist(i)
    BY <1>01, <1>5, <1>6 DEF MissDist, Dist
  <2>2. \A i \in Misses : MissDist(i) \in Nat
    BY <1>6, DistFacts DEF MissDist, IInv
  <2> QED BY <1>01, <2>1, <2>2 DEF IInv, RingInv
<1>8. MissDist(n + 1)' = v
  <2>1. MissDist(n + 1)' = Dist(h)
    BY <1>01, <1>1, <1>5, <1>6 DEF MissDist, Dist
  <2> QED BY <2>1, <1>4
<1>9. /\ m_rob'.num < RobSize => Dist(m_rob.head)' = m_rob'.num
      /\ m_rob'.num = RobSize => m_rob'.head = m_rob'.tail
  <2>1. m_rob'.head = IF h + 1 = RobSize THEN 0 ELSE h + 1
    BY <1>4, <1>5, RingNext
  <2>2. Dist(m_rob.head)' = IF m_rob'.head >= t THEN m_rob'.head - t ELSE m_rob'.head - t + RobSize
    BY <1>5 DEF Dist
  <2>3. v = IF h >= t THEN h - t ELSE h - t + RobSize
    BY <1>01, <1>4 DEF Dist
  <2>4. PICK x : x = m_rob'.head
    OBVIOUS
  <2>5. x = IF h + 1 = RobSize THEN 0 ELSE h + 1
    BY <2>1, <2>4
  <2>6. v + 1 < RobSize => (IF x >= t THEN x - t ELSE x - t + RobSize) = v + 1
    BY <1>4, <2>3, <2>5
  <2>7. v + 1 = RobSize => x = t
    BY <1>4, <2>3, <2>5
  <2> QED BY <1>5, <2>2, <2>4, <2>6, <2>7
<1>10. \A i \in Misses' : MissDist(i)' < v + 1
  <2>1. \A i \in Misses : MissDist(i)' < v + 1
    BY <1>4, <1>7
  <2>2. v < v + 1
    BY <1>4
  <2> QED BY <1>2, <1>8, <2>1, <2>2
<1>11. \A i, j \in Misses' : i < j => MissDist(i)' < MissDist(j)'
  <2>1. \A i, j \in Misses : i < j => MissDist(i)' < MissDist(j)'
    BY <1>7 DEF IInv, RingInv
  <2>2. \A i \in Misses : MissDist(i)' < MissDist(n + 1)'
    BY <1>7, <1>8
  <2>3. \A j \in Misses : ~(n + 1 < j)
    BY <1>1, <1>2
  <2>4. ~(n + 1 < n + 1)
    BY <1>1
  <2> QED BY <1>2, <2>1, <2>2, <2>3, <2>4
<1>12. \A k \in 0 .. v : \E i \in Misses' : MissDist(i)' = k
  <2>1. \A k \in 0 .. v - 1 : \E i \in Misses : MissDist(i) = k
    BY <1>01 DEF IInv, RingInv
  <2>2. \A k \in 0 .. v : k \in 0 .. v - 1 \/ k = v
    BY <1>4
  <2> QED BY <1>2, <1>7, <1>8, <2>1, <2>2, Zenon
<1>13. RingInv'
  <2>0. v \in Nat /\ (v + 1) - 1 = v
    <3>1. v \in Nat BY <1>4
    <3>2. \A k \in Nat : (k + 1) - 1 = k OBVIOUS
    <3> QED BY <3>1, <3>2, Zenon
  <2>1. m_rob'.num - 1 = v
    <3>1. m_rob'.num = v + 1 BY <1>5, Zenon
    <3> QED BY <2>0, <3>1, Zenon
  <2>2. /\ \A i \in Misses' : MissDist(i)' < m_rob'.num
        /\ \A k \in 0 .. m_rob'.num - 1 : \E i \in Misses' : MissDist(i)' = k
    BY <1>5, <1>10, <1>12, <2>1, Zenon
  <2> QED BY <1>9, <1>11, <2>2, Zenon DEF RingInv
<1>14. \A i \in Misses : /\ rob_index[ReqAt(i)] # h
                         /\ m_rob'.data[rob_index'[ReqAt(i)']] = m_rob.data[rob_index[ReqAt(i)]]
                         /\ addr'[ReqAt(i)'] = addr[ReqAt(i)]
  <2>1. \A i \in Misses : rob_index[ReqAt(i)] # h
    BY <1>4, <1>7 DEF MissDist
  <2>2. \A i \in Misses : addr'[ReqAt(i)'] = addr[ReqAt(i)]
    BY <1>1 DEF IInv, TypeOK
  <2> QED BY <1>5, <1>6, <2>1, <2>2
<1>15. EntryInv'
  <2>1. addr'[f] = b
    BY DEF IInv, TypeOK
  <2>2. ASSUME NEW i \in Misses'
        PROVE  LET e1 == m_rob'.data[rob_index'[ReqAt(i)']]
               IN  e1.req = ReqAt(i)' /\ e1.line = LineAt(i)' /\ e1.block = addr'[ReqAt(i)']
    <3>1. CASE i \in Misses
      BY <1>1, <1>14, <3>1 DEF IInv, EntryInv
    <3>2. CASE i = n + 1
      BY <1>1, <1>3, <1>5, <1>6, <2>1, <3>2
    <3> QED BY <1>2, <3>1, <3>2
  <2> QED BY <2>2 DEF EntryInv
<1>16. NetInv'
  <2>1. PICK q : q = Len(m_request_fifo)
    OBVIOUS
  <2>2. /\ q \in Nat /\ Len(m_request_fifo') = q + 1
        /\ \A i \in 1 .. q : m_request_fifo'[i] = m_request_fifo[i]
        /\ m_request_fifo'[q + 1] = f
        /\ ToSet(m_request_fifo') = ToSet(m_request_fifo) \cup {f}
        /\ m_request_fifo' \in Seq(Fetch)
    BY <2>1, AppendFacts DEF IInv, TypeOK
  <2>3. /\ \A g \in net \cup ToSet(m_request_fifo) :
             \E i \in Misses : ReqAt(i) = g /\ ~m_rob.data[rob_index[g]].ready
        /\ \A i, j \in DOMAIN m_request_fifo : m_request_fifo[i] = m_request_fifo[j] => i = j
        /\ net \cap ToSet(m_request_fifo) = {}
    BY DEF IInv, NetInv
  <2>4. f \notin net \cup ToSet(m_request_fifo)
    BY <1>1, <2>3
  <2>5. \A g \in net' \cup ToSet(m_request_fifo') :
             \E i \in Misses' : ReqAt(i)' = g /\ ~m_rob'.data[rob_index'[g]].ready
    <3>1. ASSUME NEW g \in net \cup ToSet(m_request_fifo)
          PROVE  \E i \in Misses' : ReqAt(i)' = g /\ ~m_rob'.data[rob_index'[g]].ready
      <4>1. PICK i \in Misses : ReqAt(i) = g /\ ~m_rob.data[rob_index[g]].ready
        BY <2>3
      <4>2. i \in Misses' /\ ReqAt(i)' = g
        BY <1>1, <1>2, <4>1
      <4>3. m_rob'.data[rob_index'[g]] = m_rob.data[rob_index[g]]
        BY <1>14, <4>1, <4>2
      <4> QED BY <4>1, <4>2, <4>3
    <3>2. n + 1 \in Misses' /\ ReqAt(n + 1)' = f /\ ~m_rob'.data[rob_index'[f]].ready
      BY <1>1, <1>3, <1>5, <1>6
    <3> QED BY <2>2, <3>1, <3>2, Zenon
  <2>6. \A i, j \in DOMAIN m_request_fifo' : m_request_fifo'[i] = m_request_fifo'[j] => i = j
    <3>1. DOMAIN m_request_fifo = 1 .. q /\ DOMAIN m_request_fifo' = 1 .. q + 1
      BY <2>1, <2>2 DEF IInv, TypeOK
    <3>2. \A i \in 1 .. q : m_request_fifo[i] # f
      BY <2>4, <3>1, Zenon DEF ToSet
    <3>3. \A i \in 1 .. q + 1 : i \in 1 .. q \/ i = q + 1
      BY <2>2
    <3>4. SUFFICES ASSUME NEW i \in 1 .. q + 1, NEW j \in 1 .. q + 1, m_request_fifo'[i] = m_request_fifo'[j]
                   PROVE  i = j
      BY <3>1, Zenon
    <3>5. CASE i \in 1 .. q /\ j \in 1 .. q
      BY <2>2, <2>3, <3>1, <3>4, <3>5, Zenon
    <3>6. CASE i = q + 1 \/ j = q + 1
      BY <2>2, <3>2, <3>3, <3>4, <3>6, Zenon
    <3> QED BY <3>3, <3>5, <3>6
  <2>7. net' \cap ToSet(m_request_fifo') = {}
    BY <2>2, <2>3, <2>4
  <2> QED BY <2>5, <2>6, <2>7, Zenon DEF NetInv
<1> QED BY <1>13, <1>15, <1>16

LEMMA AccessStep ==
  ASSUME IInv, NEW f \in Fetch, NEW b \in Block, Access(f, b)
  PROVE  IInv'
<1>1. /\ Accepts /\ addr[f] = NoBlock /\ addr' = [addr EXCEPT ![f] = b]
      /\ accepted' = Append(accepted, f) /\ UNCHANGED <<m_cache, m_result_fifo, net>>
      /\ TypeOK /\ OrderInv /\ DataInv /\ m_rob.num < RobSize
  BY DEF Access, Accepts, IInv
<1>2. /\ addr' \in [Fetch -> Block \cup {NoBlock}] /\ accepted' \in Seq(Fetch)
      /\ m_cache' \in [Line -> Block \cup {NoBlock}] /\ m_result_fifo' \in Seq(Fetch) /\ net' \subseteq Fetch
  BY <1>1 DEF TypeOK
<1>3. SetOf[b] \subseteq Line
  BY TexAssumption
<1>4. CASE AccessHit(f, b)
  <2>1. PICK l \in HitLine(b) :
          /\ m_fragment_fifo' = Append(m_fragment_fifo, [req |-> f, line |-> l, miss |-> FALSE])
          /\ UNCHANGED <<tags, m_rob, rob_index, m_request_fifo>>
    BY <1>4 DEF AccessHit
  <2>2. l \in Line /\ tags[l] = b
    BY <1>3 DEF HitLine
  <2>3. OrderInv'
    BY <1>1, <2>1, <2>2, AccessOrder
  <2>4. DataInv'
    <3>1. tags' = IF FALSE THEN [tags EXCEPT ![l] = b] ELSE tags
      BY <2>1
    <3> QED BY <1>1, <2>1, <2>2, <3>1, AccessData
  <2>5. RingInv' /\ EntryInv' /\ NetInv'
    BY <1>1, <2>1, <2>2, HitRing
  <2>6. m_fragment_fifo' \in Seq(Fragment)
    BY <1>1, <2>1, <2>2, FragmentAdded
  <2>7. TypeOK'
    BY <1>1, <1>2, <2>1, <2>6 DEF TypeOK
  <2> QED BY <2>3, <2>4, <2>5, <2>7 DEF IInv
<1>5. CASE AccessMiss(f, b)
  <2>1. PICK l \in Victims(b) :
          /\ tags' = [tags EXCEPT ![l] = b]
          /\ m_fragment_fifo' = Append(m_fragment_fifo, [req |-> f, line |-> l, miss |-> TRUE])
          /\ m_rob' = RobPush([req |-> f, line |-> l, block |-> b, ready |-> FALSE])
          /\ rob_index' = [rob_index EXCEPT ![f] = m_rob.head]
          /\ m_request_fifo' = Append(m_request_fifo, f)
    BY <1>5 DEF AccessMiss
  <2>2. l \in Line
    BY <1>3 DEF Victims, Invalid
  <2>3. OrderInv'
    BY <1>1, <2>1, <2>2, AccessOrder
  <2>4. DataInv'
    <3>1. tags' = IF TRUE THEN [tags EXCEPT ![l] = b] ELSE tags
      BY <2>1
    <3> QED BY <1>1, <2>1, <2>2, <3>1, AccessData
  <2>5. RingInv' /\ EntryInv' /\ NetInv'
    BY <1>1, <2>1, <2>2, MissRing
  <2>6. m_fragment_fifo' \in Seq(Fragment)
    BY <1>1, <2>1, <2>2, FragmentAdded
  <2>7. [req |-> f, line |-> l, block |-> b, ready |-> FALSE] \in RobEntry
    BY <2>2 DEF RobEntry
  <2>8. m_rob' \in [data : [RobIndex -> RobEntry], head : RobIndex, tail : RobIndex, num : 0 .. RobSize]
    BY <1>1, <2>1, <2>7, RobPushed
  <2>9. /\ rob_index' \in [Fetch -> RobIndex] /\ m_request_fifo' \in Seq(Fetch)
        /\ tags' \in [Line -> Block \cup {NoBlock}]
    BY <1>1, <2>1, <2>2 DEF TypeOK
  <2>10. TypeOK'
    BY <1>2, <2>6, <2>8, <2>9, Zenon DEF TypeOK
  <2> QED BY <2>3, <2>4, <2>5, <2>10 DEF IInv
<1> QED BY <1>4, <1>5 DEF Access

-----------------------------------------------------------------------------
(* cycle *)

\* The fragment FIFO after the access at its head is answered
LEMMA FragmentTaken ==
  ASSUME TypeOK, m_fragment_fifo # <<>>, NEW n, n = Len(m_fragment_fifo),
         m_fragment_fifo' = Tail(m_fragment_fifo)
  PROVE  /\ n \in Nat \ {0} /\ m_fragment_fifo' \in Seq(Fragment) /\ Len(m_fragment_fifo') = n - 1
         /\ DOMAIN m_fragment_fifo = 1 .. n /\ DOMAIN m_fragment_fifo' = 1 .. n - 1
         /\ Head(m_fragment_fifo).req = ReqAt(1) /\ Head(m_fragment_fifo).line = LineAt(1)
         /\ Head(m_fragment_fifo).miss <=> 1 \in Misses
         /\ \A i \in 1 .. n : ReqAt(i) \in Fetch /\ LineAt(i) \in Line
         /\ \A i \in 1 .. n - 1 :
              /\ i + 1 \in 1 .. n
              /\ ReqAt(i)' = ReqAt(i + 1) /\ LineAt(i)' = LineAt(i + 1)
              /\ (i \in Misses' <=> i + 1 \in Misses)
         /\ \A j \in Misses : j # 1 => j - 1 \in Misses' /\ ReqAt(j - 1)' = ReqAt(j)
                                       /\ LineAt(j - 1)' = LineAt(j) /\ j - 1 + 1 = j
         /\ Misses \subseteq 1 .. n /\ Misses' \subseteq 1 .. n - 1
<1>1. m_fragment_fifo \in Seq(Fragment)
  BY DEF TypeOK
<1>2. /\ n \in Nat \ {0} /\ m_fragment_fifo' \in Seq(Fragment) /\ Len(m_fragment_fifo') = n - 1
      /\ Head(m_fragment_fifo) = m_fragment_fifo[1]
      /\ \A i \in 1 .. n - 1 : m_fragment_fifo'[i] = m_fragment_fifo[i + 1]
  BY <1>1, TailFacts
<1>3. DOMAIN m_fragment_fifo = 1 .. n /\ DOMAIN m_fragment_fifo' = 1 .. n - 1
  BY <1>1, <1>2
<1>4. /\ Head(m_fragment_fifo).req = ReqAt(1) /\ Head(m_fragment_fifo).line = LineAt(1)
      /\ Head(m_fragment_fifo).miss <=> 1 \in Misses
  BY <1>2, <1>3 DEF ReqAt, LineAt, Misses
<1>5. \A i \in 1 .. n : ReqAt(i) \in Fetch /\ LineAt(i) \in Line
  <2>1. \A i \in 1 .. n : m_fragment_fifo[i] \in Fragment
    BY <1>1, <1>3
  <2> QED BY <2>1 DEF ReqAt, LineAt, Fragment
<1>6. \A i \in 1 .. n - 1 : i + 1 \in 1 .. n /\ i \in Nat /\ i + 1 - 1 = i
  BY <1>2
<1>7. \A i \in 1 .. n - 1 : /\ ReqAt(i)' = ReqAt(i + 1) /\ LineAt(i)' = LineAt(i + 1)
                            /\ (i \in Misses' <=> i + 1 \in Misses)
  BY <1>2, <1>3, <1>6, Zenon DEF ReqAt, LineAt, Misses
<1>8. Misses \subseteq 1 .. n /\ Misses' \subseteq 1 .. n - 1
  BY <1>3 DEF Misses
<1>9. \A j \in 1 .. n : j # 1 => j - 1 \in 1 .. n - 1 /\ j - 1 + 1 = j
  BY <1>2
<1>10. \A j \in Misses : j # 1 => j - 1 \in Misses' /\ ReqAt(j - 1)' = ReqAt(j)
                                  /\ LineAt(j - 1)' = LineAt(j) /\ j - 1 + 1 = j
  <2> SUFFICES ASSUME NEW j \in Misses, j # 1
               PROVE  j - 1 \in Misses' /\ ReqAt(j - 1)' = ReqAt(j)
                                  /\ LineAt(j - 1)' = LineAt(j) /\ j - 1 + 1 = j
    OBVIOUS
  <2>1. PICK k : k = j - 1
    OBVIOUS
  <2>2. k \in 1 .. n - 1 /\ k + 1 = j
    BY <1>8, <1>9, <2>1
  <2>3. k \in Misses' /\ ReqAt(k)' = ReqAt(j) /\ LineAt(k)' = LineAt(j)
    BY <1>7, <2>2
  <2> QED BY <2>1, <2>2, <2>3
<1> QED BY <1>2, <1>3, <1>4, <1>5, <1>6, <1>7, <1>8, <1>10

\* The oldest miss is at the tail of the ring.
LEMMA FirstMiss ==
  ASSUME TypeOK, RingInv, 1 \in Misses, ReqAt(1) \in Fetch
  PROVE  MissDist(1) = 0 /\ rob_index[ReqAt(1)] = m_rob.tail /\ m_rob.num > 0
<1>1. rob_index[ReqAt(1)] \in RobIndex
  BY DEF TypeOK
<1>2. MissDist(1) \in Nat /\ MissDist(1) < m_rob.num /\ m_rob.num \in Nat
  BY <1>1, DistFacts DEF MissDist, RingInv
<1>3. 0 \in 0 .. m_rob.num - 1
  BY <1>2
<1>4. PICK i \in Misses : MissDist(i) = 0
  BY <1>3 DEF RingInv
<1>5. i \in Nat \ {0}
  BY DEF Misses, TypeOK
<1>6. MissDist(1) = 0
  <2>1. i = 1 \/ 1 < i
    BY <1>5
  <2>2. 1 < i => MissDist(1) < MissDist(i)
    BY DEF RingInv
  <2> QED BY <1>2, <1>4, <2>1, <2>2
<1> QED BY <1>1, <1>2, <1>6, DistFacts DEF MissDist

\* When the oldest miss leaves, every other entry is one nearer to the tail.
LEMMA RobPopped ==
  ASSUME TypeOK, m_rob.num > 0, m_rob' = [m_rob EXCEPT !.tail = (@ + 1) % RobSize, !.num = @ - 1]
  PROVE  /\ m_rob' \in [data : [RobIndex -> RobEntry], head : RobIndex, tail : RobIndex, num : 0 .. RobSize]
         /\ m_rob'.data = m_rob.data /\ m_rob'.head = m_rob.head /\ m_rob'.num = m_rob.num - 1
         /\ \A x \in RobIndex : Dist(x)' = IF x = m_rob.tail THEN RobSize - 1 ELSE Dist(x) - 1
<1> DEFINE t == (m_rob.tail + 1) % RobSize
<1>1. /\ m_rob \in [data : [RobIndex -> RobEntry], head : RobIndex, tail : RobIndex, num : 0 .. RobSize]
      /\ RobSize \in Nat \ {0} /\ RobIndex = 0 .. RobSize - 1
  BY TexAssumption DEF TypeOK, RobIndex
<1>2. t \in RobIndex /\ t = IF m_rob.tail + 1 = RobSize THEN 0 ELSE m_rob.tail + 1
  BY <1>1, RingNext
<1>3. m_rob' = [m_rob EXCEPT !.tail = t, !.num = @ - 1]
  OBVIOUS
<1> HIDE DEF t
<1>4. m_rob.num - 1 \in 0 .. RobSize
  BY <1>1
<1>5. /\ m_rob'.head = m_rob.head /\ m_rob'.num = m_rob.num - 1 /\ m_rob'.tail = t
      /\ m_rob'.data = m_rob.data
      /\ m_rob' \in [data : [RobIndex -> RobEntry], head : RobIndex, tail : RobIndex, num : 0 .. RobSize]
  BY <1>1, <1>2, <1>3, <1>4
<1>6. ASSUME NEW x \in RobIndex
      PROVE  Dist(x)' = IF x = m_rob.tail THEN RobSize - 1 ELSE Dist(x) - 1
  <2>1. PICK u : u = m_rob.tail
    OBVIOUS
  <2>2. u \in 0 .. RobSize - 1 /\ x \in 0 .. RobSize - 1 /\ t = IF u + 1 = RobSize THEN 0 ELSE u + 1
    BY <1>1, <1>2, <2>1
  <2>3. Dist(x)' = IF x >= t THEN x - t ELSE x - t + RobSize
    BY <1>5 DEF Dist
  <2>4. Dist(x) = IF x >= u THEN x - u ELSE x - u + RobSize
    BY <2>1 DEF Dist
  <2> QED BY <1>1, <2>1, <2>2, <2>3, <2>4
<1> QED BY <1>5, <1>6

\* The oldest access is answered.
Answered ==
  /\ m_fragment_fifo # <<>> /\ HeadReady
  /\ m_result_fifo' = Append(m_result_fifo, Head(m_fragment_fifo).req)
  /\ m_fragment_fifo' = Tail(m_fragment_fifo)
  /\ IF Head(m_fragment_fifo).miss
       THEN /\ m_cache' = [m_cache EXCEPT ![RobHead.line] = RobHead.block]
            /\ m_rob' = [m_rob EXCEPT !.tail = (@ + 1) % RobSize, !.num = @ - 1]
       ELSE UNCHANGED <<m_cache, m_rob>>

LEMMA AnsweredRing ==
  ASSUME IInv, Answered, UNCHANGED rob_index
  PROVE  RingInv'
<1>0. PICK n, v : n = Len(m_fragment_fifo) /\ v = m_rob.num
  OBVIOUS
<1>1. /\ n \in Nat \ {0}
      /\ Head(m_fragment_fifo).miss <=> 1 \in Misses
      /\ \A i \in 1 .. n : ReqAt(i) \in Fetch
      /\ \A i \in 1 .. n - 1 :
           /\ i + 1 \in 1 .. n /\ ReqAt(i)' = ReqAt(i + 1) /\ (i \in Misses' <=> i + 1 \in Misses)
      /\ \A j \in Misses : j # 1 => j - 1 \in Misses' /\ j - 1 + 1 = j
      /\ Misses \subseteq 1 .. n /\ Misses' \subseteq 1 .. n - 1
  BY <1>0, FragmentTaken DEF IInv, Answered
<1>2. /\ RobSize \in Nat \ {0} /\ v \in Nat /\ v <= RobSize
      /\ \A i \in Misses : rob_index[ReqAt(i)] \in RobIndex /\ MissDist(i) \in Nat
      /\ m_rob.head \in RobIndex /\ m_rob.tail \in RobIndex
  <2>1. \A i \in Misses : rob_index[ReqAt(i)] \in RobIndex
    BY <1>1 DEF IInv, TypeOK
  <2> QED BY <1>0, <2>1, DistFacts DEF IInv, MissDist, TypeOK
<1>3. /\ v < RobSize => Dist(m_rob.head) = v
      /\ v = RobSize => m_rob.head = m_rob.tail
      /\ \A i \in Misses : MissDist(i) < v
      /\ \A i, j \in Misses : i < j => MissDist(i) < MissDist(j)
      /\ \A k \in 0 .. v - 1 : \E i \in Misses : MissDist(i) = k
  BY <1>0 DEF IInv, RingInv
<1>4. \A i \in Misses' : i \in 1 .. n - 1 /\ i + 1 \in Misses /\ i + 1 # 1 /\ i \in Nat
  BY <1>1
<1>5. CASE 1 \notin Misses
  <2>1. UNCHANGED m_rob
    BY <1>1, <1>5 DEF Answered
  <2>2. \A i \in Misses' : MissDist(i)' = MissDist(i + 1)
    BY <1>1, <1>4, <2>1 DEF MissDist, Dist
  <2>3. Dist(m_rob.head)' = Dist(m_rob.head)
    BY <2>1 DEF Dist
  <2>4. \A i \in Misses' : MissDist(i)' < m_rob'.num
    BY <1>0, <1>3, <1>4, <2>1, <2>2
  <2>5. \A i, j \in Misses' : i < j => MissDist(i)' < MissDist(j)'
    BY <1>3, <1>4, <2>2
  <2>6. \A k \in 0 .. v - 1 : \E i \in Misses' : MissDist(i)' = k
    <3>1. ASSUME NEW k \in 0 .. v - 1 PROVE \E i \in Misses' : MissDist(i)' = k
      <4>1. PICK j \in Misses : MissDist(j) = k
        BY <1>3
      <4>2. PICK i : i = j - 1
        OBVIOUS
      <4>3. i \in Misses' /\ i + 1 = j
        BY <1>1, <1>5, <4>2
      <4> QED BY <2>2, <4>1, <4>3
    <3> QED BY <3>1
  <2>7. /\ m_rob'.num < RobSize => Dist(m_rob.head)' = m_rob'.num
        /\ m_rob'.num = RobSize => m_rob'.head = m_rob'.tail
    BY <1>0, <1>3, <2>1, <2>3
  <2>8. m_rob'.num = v
    BY <1>0, <2>1
  <2>9. \A k \in 0 .. m_rob'.num - 1 : \E i \in Misses' : MissDist(i)' = k
    BY <2>6, <2>8
  <2> QED BY <2>4, <2>5, <2>7, <2>9, Zenon DEF RingInv
<1>6. CASE 1 \in Misses
  <2>1. m_rob' = [m_rob EXCEPT !.tail = (@ + 1) % RobSize, !.num = @ - 1]
    BY <1>1, <1>6 DEF Answered
  <2>2. MissDist(1) = 0 /\ rob_index[ReqAt(1)] = m_rob.tail /\ m_rob.num > 0
    BY <1>1, <1>6, FirstMiss DEF IInv
  <2>3. /\ m_rob'.head = m_rob.head /\ m_rob'.num = v - 1
        /\ \A x \in RobIndex : Dist(x)' = IF x = m_rob.tail THEN RobSize - 1 ELSE Dist(x) - 1
    BY <1>0, <2>1, <2>2, RobPopped DEF IInv
  <2>4. \A i \in Misses : i # 1 => i \in Nat /\ 1 < i
    BY <1>1
  <2>5. \A i \in Misses : i # 1 => MissDist(i) > 0
    BY <1>2, <1>3, <1>6, <2>2, <2>4
  <2>6. \A i \in Misses : i # 1 => rob_index[ReqAt(i)] # m_rob.tail
    <3>1. \A x \in RobIndex : x = m_rob.tail => Dist(x) = 0
      BY DistFacts DEF IInv
    <3> QED BY <1>2, <2>5, <3>1 DEF MissDist
  <2>7. \A i \in Misses' : MissDist(i)' = MissDist(i + 1) - 1
    <3>1. ASSUME NEW i \in Misses' PROVE MissDist(i)' = MissDist(i + 1) - 1
      <4>1. PICK x : x = rob_index[ReqAt(i + 1)]
        OBVIOUS
      <4>2. x \in RobIndex /\ x # m_rob.tail
        BY <1>2, <1>4, <2>6, <4>1
      <4>3. rob_index'[ReqAt(i)'] = x
        BY <1>1, <1>4, <4>1
      <4>4. MissDist(i)' = Dist(x)' /\ MissDist(i + 1) = Dist(x)
        BY <4>1, <4>3 DEF MissDist, Dist
      <4> QED BY <2>3, <4>2, <4>4
    <3> QED BY <3>1
  <2>8. \A i \in Misses' : MissDist(i)' < m_rob'.num
    BY <1>2, <1>3, <1>4, <2>3, <2>7
  <2>9. \A i, j \in Misses' : i < j => MissDist(i)' < MissDist(j)'
    BY <1>2, <1>3, <1>4, <2>7
  <2>10. \A k \in 0 .. v - 1 - 1 : \E i \in Misses' : MissDist(i)' = k
    <3>1. ASSUME NEW k \in 0 .. v - 1 - 1 PROVE \E i \in Misses' : MissDist(i)' = k
      <4>1. k + 1 \in 0 .. v - 1 /\ k + 1 # 0 /\ k + 1 - 1 = k
        BY <1>2
      <4>2. PICK j \in Misses : MissDist(j) = k + 1
        BY <1>3, <4>1
      <4>3. PICK i : i = j - 1
        OBVIOUS
      <4>4. i \in Misses' /\ i + 1 = j
        BY <1>1, <2>2, <4>1, <4>2, <4>3
      <4> QED BY <2>7, <4>1, <4>2, <4>4
    <3> QED BY <3>1
  <2>11. /\ m_rob'.num < RobSize => Dist(m_rob.head)' = m_rob'.num
         /\ m_rob'.num = RobSize => m_rob'.head = m_rob'.tail
    <3>1. PICK h : h = m_rob.head
      OBVIOUS
    <3>2. Dist(m_rob.head)' = Dist(h)'
      BY <2>3, <3>1 DEF Dist
    <3>3. Dist(h)' = IF h = m_rob.tail THEN RobSize - 1 ELSE Dist(h) - 1
      BY <1>2, <2>3, <3>1
    <3>4. h = m_rob.tail <=> Dist(h) = 0
      BY <1>2, <3>1, DistFacts DEF IInv
    <3>5. v < RobSize => Dist(h) = v
      BY <1>3, <3>1
    <3>6. v = RobSize => h = m_rob.tail
      BY <1>3, <3>1
    <3>7. v > 0
      BY <1>0, <2>2
    <3>8. m_rob'.num # RobSize
      BY <1>2, <2>3
    <3>9. Dist(h)' = v - 1
      BY <1>2, <3>3, <3>4, <3>5, <3>6, <3>7
    <3> QED BY <2>3, <3>2, <3>8, <3>9
  <2>12. \A k \in 0 .. m_rob'.num - 1 : \E i \in Misses' : MissDist(i)' = k
    BY <2>3, <2>10
  <2> QED BY <2>8, <2>9, <2>11, <2>12, Zenon DEF RingInv
<1> QED BY <1>5, <1>6

\* What the answered access leaves behind: the entries are as they were, and a
\* miss has placed its own block in its own line.
LEMMA AnsweredEntry ==
  ASSUME IInv, Answered, UNCHANGED <<addr, rob_index>>
  PROVE  /\ EntryInv' /\ m_rob'.data = m_rob.data
         /\ m_rob' \in [data : [RobIndex -> RobEntry], head : RobIndex, tail : RobIndex, num : 0 .. RobSize]
         /\ 1 \in Misses => /\ m_rob.data[rob_index[ReqAt(1)]].ready
                            /\ m_cache' = [m_cache EXCEPT ![LineAt(1)] = addr[ReqAt(1)]]
         /\ 1 \notin Misses => m_cache' = m_cache
<1>0. PICK n : n = Len(m_fragment_fifo)
  OBVIOUS
<1>1. /\ n \in Nat \ {0} /\ (Head(m_fragment_fifo).miss <=> 1 \in Misses)
      /\ \A i \in 1 .. n : ReqAt(i) \in Fetch
      /\ \A i \in 1 .. n - 1 : /\ i + 1 \in 1 .. n /\ ReqAt(i)' = ReqAt(i + 1)
                               /\ LineAt(i)' = LineAt(i + 1) /\ (i \in Misses' <=> i + 1 \in Misses)
      /\ Misses' \subseteq 1 .. n - 1
  BY <1>0, FragmentTaken DEF IInv, Answered
<1>2. 1 \in Misses => rob_index[ReqAt(1)] = m_rob.tail /\ m_rob.num > 0
  BY <1>1, FirstMiss DEF IInv
<1>3. /\ m_rob'.data = m_rob.data
      /\ m_rob' \in [data : [RobIndex -> RobEntry], head : RobIndex, tail : RobIndex, num : 0 .. RobSize]
  <2>1. CASE 1 \in Misses
    BY <1>1, <1>2, <2>1, RobPopped DEF IInv, Answered
  <2>2. CASE 1 \notin Misses
    BY <1>1, <2>2 DEF IInv, Answered, TypeOK
  <2> QED BY <2>1, <2>2
<1>4. EntryInv'
  <2>1. \A i \in Misses' : LET e == m_rob.data[rob_index[ReqAt(i + 1)]]
                           IN  e.req = ReqAt(i + 1) /\ e.line = LineAt(i + 1) /\ e.block = addr[ReqAt(i + 1)]
    BY <1>1 DEF IInv, EntryInv
  <2>2. \A i \in Misses' : ReqAt(i)' = ReqAt(i + 1) /\ LineAt(i)' = LineAt(i + 1)
    BY <1>1
  <2> QED BY <1>3, <2>1, <2>2 DEF EntryInv
<1>5. 1 \in Misses => /\ m_rob.data[rob_index[ReqAt(1)]].ready
                      /\ m_cache' = [m_cache EXCEPT ![LineAt(1)] = addr[ReqAt(1)]]
  <2> SUFFICES ASSUME 1 \in Misses
               PROVE  /\ m_rob.data[rob_index[ReqAt(1)]].ready
                      /\ m_cache' = [m_cache EXCEPT ![LineAt(1)] = addr[ReqAt(1)]]
    OBVIOUS
  <2>1. RobHead = m_rob.data[rob_index[ReqAt(1)]]
    BY <1>2 DEF RobHead
  <2>2. RobHead.line = LineAt(1) /\ RobHead.block = addr[ReqAt(1)]
    BY <2>1 DEF IInv, EntryInv
  <2>3. RobHead.ready /\ m_cache' = [m_cache EXCEPT ![RobHead.line] = RobHead.block]
    BY <1>1 DEF Answered, HeadReady
  <2> QED BY <2>1, <2>2, <2>3
<1>6. 1 \notin Misses => m_cache' = m_cache
  BY <1>1 DEF Answered
<1> QED BY <1>3, <1>4, <1>5, <1>6

LEMMA AnsweredOrder ==
  ASSUME IInv, Answered, UNCHANGED <<addr, accepted>>
  PROVE  OrderInv'
<1>0. PICK n, r, a : n = Len(m_fragment_fifo) /\ r = Len(m_result_fifo) /\ a = Len(accepted)
  OBVIOUS
<1>1. /\ n \in Nat \ {0} /\ Len(m_fragment_fifo') = n - 1
      /\ Head(m_fragment_fifo).req = ReqAt(1) /\ \A i \in 1 .. n : ReqAt(i) \in Fetch
      /\ \A i \in 1 .. n - 1 : ReqAt(i)' = ReqAt(i + 1)
  BY <1>0, FragmentTaken DEF IInv, Answered
<1>2. ReqAt(1) \in Fetch
  BY <1>1
<1>3. /\ r \in Nat /\ Len(m_result_fifo') = r + 1
      /\ \A i \in 1 .. r : m_result_fifo'[i] = m_result_fifo[i]
      /\ m_result_fifo'[r + 1] = ReqAt(1)
  BY <1>0, <1>1, <1>2, AppendFacts DEF IInv, TypeOK, Answered
<1>4. /\ a = r + n
      /\ \A i \in 1 .. r : accepted[i] = m_result_fifo[i]
      /\ \A i \in 1 .. n : accepted[r + i] = ReqAt(i)
  BY <1>0 DEF IInv, OrderInv
<1>5. \A i \in 1 .. r + 1 : accepted'[i] = m_result_fifo'[i]
  <2>1. \A i \in 1 .. r : accepted'[i] = m_result_fifo'[i]
    BY <1>3, <1>4
  <2>2. accepted'[r + 1] = ReqAt(1)
    BY <1>1, <1>4
  <2>3. \A i \in 1 .. r + 1 : i \in 1 .. r \/ i = r + 1
    BY <1>3
  <2> QED BY <1>3, <2>1, <2>2, <2>3
<1>6. \A i \in 1 .. n - 1 : accepted'[r + 1 + i] = ReqAt(i)'
  <2>1. \A i \in 1 .. n - 1 : i + 1 \in 1 .. n /\ r + 1 + i = r + (i + 1)
    BY <1>1, <1>3
  <2> QED BY <1>1, <1>4, <2>1
<1>7. Len(accepted') = Len(m_result_fifo') + Len(m_fragment_fifo')
  <2>1. a = (r + 1) + (n - 1)
    BY <1>1, <1>3, <1>4
  <2> QED BY <1>0, <1>1, <1>3, <2>1, Zenon
<1>8. /\ \A i \in 1 .. Len(m_result_fifo') : accepted'[i] = m_result_fifo'[i]
      /\ \A i \in 1 .. Len(m_fragment_fifo') : accepted'[Len(m_result_fifo') + i] = ReqAt(i)'
  BY <1>1, <1>3, <1>5, <1>6, Zenon
<1>9. /\ \A i, j \in 1 .. Len(accepted') : accepted'[i] = accepted'[j] => i = j
      /\ \A i \in 1 .. Len(accepted') : addr'[accepted'[i]] # NoBlock
  BY DEF IInv, OrderInv
<1> QED BY <1>7, <1>8, <1>9, Zenon DEF OrderInv

LEMMA AnsweredData ==
  ASSUME IInv, Answered, UNCHANGED <<addr, rob_index, tags>>
  PROVE  DataInv'
<1>0. PICK n : n = Len(m_fragment_fifo)
  OBVIOUS
<1>1. /\ n \in Nat \ {0} /\ Len(m_fragment_fifo') = n - 1
      /\ DOMAIN m_fragment_fifo = 1 .. n /\ DOMAIN m_fragment_fifo' = 1 .. n - 1
      /\ \A i \in 1 .. n : ReqAt(i) \in Fetch /\ LineAt(i) \in Line
      /\ \A i \in 1 .. n - 1 : /\ i + 1 \in 1 .. n /\ ReqAt(i)' = ReqAt(i + 1)
                               /\ LineAt(i)' = LineAt(i + 1) /\ (i \in Misses' <=> i + 1 \in Misses)
      /\ \A j \in Misses : j # 1 => /\ j - 1 \in Misses' /\ LineAt(j - 1)' = LineAt(j)
                                    /\ j - 1 + 1 = j
      /\ Misses \subseteq 1 .. n /\ Misses' \subseteq 1 .. n - 1
  BY <1>0, FragmentTaken DEF IInv, Answered
<1>2. /\ 1 \in Misses => m_cache' = [m_cache EXCEPT ![LineAt(1)] = addr[ReqAt(1)]]
      /\ 1 \notin Misses => m_cache' = m_cache
      /\ m_cache \in [Line -> Block \cup {NoBlock}]
  BY AnsweredEntry DEF IInv, TypeOK
<1>3. ASSUME NEW i \in 1 .. n, NEW l \in Line, NoMissBefore(i, l)'
      PROVE  \/ NoMissBefore(i + 1, l) /\ m_cache'[l] = m_cache[l]
             \/ 1 \in Misses /\ LastMissBefore(1, i + 1, l) /\ m_cache'[l] = addr[ReqAt(1)]
  <2>1. \A k \in Misses : k # 1 /\ k < i + 1 => LineAt(k) # l
    <3>1. ASSUME NEW k \in Misses, k # 1, k < i + 1 PROVE LineAt(k) # l
      <4>1. PICK j : j = k - 1
        OBVIOUS
      <4>2. j \in Misses' /\ LineAt(j)' = LineAt(k) /\ j + 1 = k
        BY <1>1, <3>1, <4>1
      <4>3. j < i
        BY <1>1, <3>1, <4>1
      <4> QED BY <1>3, <4>2, <4>3 DEF NoMissBefore
    <3> QED BY <3>1
  <2>2. CASE 1 \in Misses /\ LineAt(1) = l
    <3>1. \A k \in Misses : 1 < k => k # 1
      OBVIOUS
    <3>2. LastMissBefore(1, i + 1, l)
      BY <2>1, <2>2, <3>1 DEF LastMissBefore
    <3>3. m_cache'[l] = addr[ReqAt(1)]
      BY <1>2, <2>2
    <3> QED BY <2>2, <3>2, <3>3
  <2>3. CASE 1 \in Misses /\ LineAt(1) # l
    <3>1. NoMissBefore(i + 1, l)
      BY <2>1, <2>3 DEF NoMissBefore
    <3>2. m_cache'[l] = m_cache[l]
      BY <1>2, <2>3
    <3> QED BY <3>1, <3>2
  <2>4. CASE 1 \notin Misses
    <3>1. NoMissBefore(i + 1, l)
      BY <2>1, <2>4 DEF NoMissBefore
    <3> QED BY <1>2, <2>4, <3>1
  <2> QED BY <2>2, <2>3, <2>4
<1>4. ASSUME NEW i \in 1 .. n, NEW l \in Line, NEW j \in Misses', LastMissBefore(j, i, l)'
      PROVE  j + 1 \in Misses /\ LastMissBefore(j + 1, i + 1, l) /\ ReqAt(j)' = ReqAt(j + 1)
  <2>1. j \in 1 .. n - 1 /\ j + 1 \in Misses /\ ReqAt(j)' = ReqAt(j + 1) /\ LineAt(j + 1) = l /\ j < i
    BY <1>1, <1>4 DEF LastMissBefore
  <2>2. ASSUME NEW k \in Misses, j + 1 < k, k < i + 1 PROVE LineAt(k) # l
    <3>1. PICK q : q = k - 1
      OBVIOUS
    <3>2. k \in Nat /\ k # 1 /\ j < q /\ q < i
      BY <1>1, <2>1, <2>2, <3>1
    <3>3. q \in Misses' /\ LineAt(q)' = LineAt(k)
      BY <1>1, <3>1, <3>2
    <3> QED BY <1>4, <3>2, <3>3 DEF LastMissBefore
  <2>3. j + 1 < i + 1
    BY <1>1, <2>1
  <2> QED BY <2>1, <2>2, <2>3 DEF LastMissBefore
<1>5. ASSUME NEW i \in DOMAIN m_fragment_fifo' \ Misses'
      PROVE  /\ NoMissBefore(i, LineAt(i))' => m_cache'[LineAt(i)'] = addr'[ReqAt(i)']
             /\ \A j \in Misses' : LastMissBefore(j, i, LineAt(i))' => addr'[ReqAt(j)'] = addr'[ReqAt(i)']
  <2>1. PICK l : l = LineAt(i)'
    OBVIOUS
  <2>2. /\ i \in 1 .. n - 1 /\ i \in 1 .. n /\ i + 1 \in DOMAIN m_fragment_fifo \ Misses
        /\ LineAt(i + 1) = l /\ l \in Line /\ ReqAt(i)' = ReqAt(i + 1)
    BY <1>1, <1>5, <2>1
  <2>3. /\ NoMissBefore(i + 1, l) => m_cache[l] = addr[ReqAt(i + 1)]
        /\ \A j \in Misses : LastMissBefore(j, i + 1, l) => addr[ReqAt(j)] = addr[ReqAt(i + 1)]
    BY <2>2 DEF IInv, DataInv
  <2>4. NoMissBefore(i, LineAt(i))' => NoMissBefore(i, l)'
    BY <2>1 DEF NoMissBefore
  <2>5. \A j \in Misses' : LastMissBefore(j, i, LineAt(i))' => LastMissBefore(j, i, l)'
    BY <2>1 DEF LastMissBefore
  <2>6. NoMissBefore(i, l)' => m_cache'[l] = addr[ReqAt(i + 1)]
    BY <1>3, <2>2, <2>3
  <2>7. \A j \in Misses' : LastMissBefore(j, i, l)' => addr[ReqAt(j)'] = addr[ReqAt(i + 1)]
    BY <1>4, <2>2, <2>3
  <2> QED BY <2>1, <2>2, <2>4, <2>5, <2>6, <2>7
<1>6. ASSUME NEW l \in Line
      PROVE  /\ NoMissBefore(n, l)' => m_cache'[l] = tags'[l]
             /\ \A j \in Misses' : LastMissBefore(j, n, l)' => tags'[l] = addr'[ReqAt(j)']
  <2>1. /\ NoMissBefore(n + 1, l) => m_cache[l] = tags[l]
        /\ \A j \in Misses : LastMissBefore(j, n + 1, l) => tags[l] = addr[ReqAt(j)]
    BY <1>0 DEF IInv, DataInv
  <2>2. n \in 1 .. n
    BY <1>1
  <2>3. NoMissBefore(n, l)' => m_cache'[l] = tags[l]
    BY <1>3, <2>1, <2>2
  <2>4. \A j \in Misses' : LastMissBefore(j, n, l)' => tags[l] = addr[ReqAt(j)']
    BY <1>4, <2>1, <2>2
  <2> QED BY <2>3, <2>4
<1>7. Len(m_fragment_fifo') + 1 = n
  BY <1>1
<1> QED BY <1>5, <1>6, <1>7 DEF DataInv

\* A request that leaves moves from the FIFO to memory.
LEMMA Sent ==
  ASSUME IInv, NEW room \in BOOLEAN, SendRequest(room)
  PROVE  /\ net' \subseteq Fetch /\ m_request_fifo' \in Seq(Fetch)
         /\ net' \cup ToSet(m_request_fifo') = net \cup ToSet(m_request_fifo)
         /\ \A i, j \in DOMAIN m_request_fifo' : m_request_fifo'[i] = m_request_fifo'[j] => i = j
         /\ net' \cap ToSet(m_request_fifo') = {}
<1>1. /\ net \subseteq Fetch /\ m_request_fifo \in Seq(Fetch)
      /\ \A i, j \in DOMAIN m_request_fifo : m_request_fifo[i] = m_request_fifo[j] => i = j
      /\ net \cap ToSet(m_request_fifo) = {}
  BY DEF IInv, TypeOK, NetInv
<1>2. CASE ~(room /\ m_request_fifo # <<>>)
  BY <1>1, <1>2 DEF SendRequest
<1>3. CASE room /\ m_request_fifo # <<>>
  <2>1. net' = net \cup {Head(m_request_fifo)} /\ m_request_fifo' = Tail(m_request_fifo)
    BY <1>3 DEF SendRequest
  <2>2. PICK q : q = Len(m_request_fifo)
    OBVIOUS
  <2>3. /\ m_request_fifo' \in Seq(Fetch) /\ Len(m_request_fifo') = q - 1 /\ q \in Nat \ {0}
        /\ Head(m_request_fifo) = m_request_fifo[1] /\ Head(m_request_fifo) \in Fetch
        /\ \A i \in 1 .. q - 1 : m_request_fifo'[i] = m_request_fifo[i + 1]
        /\ ToSet(m_request_fifo') = {m_request_fifo[i] : i \in 2 .. q}
    BY <1>1, <1>3, <2>1, <2>2, TailFacts
  <2>4. DOMAIN m_request_fifo = 1 .. q /\ DOMAIN m_request_fifo' = 1 .. q - 1
    BY <1>1, <2>2, <2>3
  <2>5. ToSet(m_request_fifo) = {m_request_fifo[1]} \cup {m_request_fifo[i] : i \in 2 .. q}
    <3>1. \A i \in 1 .. q : i = 1 \/ i \in 2 .. q
      BY <2>3
    <3>2. 1 \in 1 .. q /\ \A i \in 2 .. q : i \in 1 .. q
      BY <2>3
    <3> QED BY <2>4, <3>1, <3>2 DEF ToSet
  <2>6. m_request_fifo[1] \notin {m_request_fifo[i] : i \in 2 .. q}
    <3>1. 1 \in 1 .. q /\ \A i \in 2 .. q : i \in 1 .. q /\ i # 1
      BY <2>3
    <3> QED BY <1>1, <2>4, <3>1
  <2>7. \A i, j \in 1 .. q - 1 : m_request_fifo'[i] = m_request_fifo'[j] => i = j
    <3>1. \A i \in 1 .. q - 1 : i + 1 \in 1 .. q
      BY <2>3
    <3>2. \A i, j \in 1 .. q - 1 : i + 1 = j + 1 => i = j
      OBVIOUS
    <3> QED BY <1>1, <2>3, <2>4, <3>1, <3>2
  <2> QED BY <1>1, <2>1, <2>3, <2>4, <2>5, <2>6, <2>7
<1> QED BY <1>2, <1>3

LEMMA CycleStep ==
  ASSUME IInv, NEW room \in BOOLEAN, Cycle(room)
  PROVE  IInv'
<1>1. UNCHANGED <<addr, tags, rob_index, accepted>> /\ SendRequest(room) /\ ReadFragment
  BY DEF Cycle
<1>2. /\ net' \subseteq Fetch /\ m_request_fifo' \in Seq(Fetch)
      /\ net' \cup ToSet(m_request_fifo') = net \cup ToSet(m_request_fifo)
      /\ \A i, j \in DOMAIN m_request_fifo' : m_request_fifo'[i] = m_request_fifo'[j] => i = j
      /\ net' \cap ToSet(m_request_fifo') = {}
  BY <1>1, Sent
<1>3. \A f \in net \cup ToSet(m_request_fifo) :
        \E i \in Misses : ReqAt(i) = f /\ ~m_rob.data[rob_index[f]].ready
  BY DEF IInv, NetInv
<1>4. CASE UNCHANGED <<m_fragment_fifo, m_result_fifo, m_rob, m_cache>>
  <2>1. TypeOK'
    BY <1>1, <1>2, <1>4 DEF IInv, TypeOK
  <2>2. Misses' = Misses /\ \A i : ReqAt(i)' = ReqAt(i) /\ LineAt(i)' = LineAt(i)
    BY <1>4 DEF Misses, ReqAt, LineAt
  <2>3. OrderInv'
    BY <1>1, <1>4, <2>2 DEF IInv, OrderInv
  <2>4. \A x : Dist(x)' = Dist(x)
    BY <1>4 DEF Dist
  <2>5. \A i : MissDist(i)' = MissDist(i)
    BY <1>1, <1>4, <2>2, <2>4 DEF MissDist, Dist
  <2>6. Dist(m_rob.head)' = Dist(m_rob.head)
    BY <1>4 DEF Dist
  <2>7. RingInv'
    BY <1>4, <2>2, <2>5, <2>6, Zenon DEF IInv, RingInv
  <2>8. EntryInv'
    BY <1>1, <1>4, <2>2 DEF IInv, EntryInv
  <2>9. NetInv'
    <3>1. \A f \in net' \cup ToSet(m_request_fifo') :
            \E i \in Misses' : ReqAt(i)' = f /\ ~m_rob'.data[rob_index'[f]].ready
      BY <1>1, <1>2, <1>3, <1>4, <2>2
    <3> QED BY <1>2, <3>1, Zenon DEF NetInv
  <2>10. DataInv'
    BY <1>1, <1>4 DEF IInv, DataInv, Misses, ReqAt, LineAt, NoMissBefore, LastMissBefore
  <2> QED BY <2>1, <2>3, <2>7, <2>8, <2>9, <2>10 DEF IInv
<1>5. CASE Answered
  <2>1. /\ EntryInv' /\ m_rob'.data = m_rob.data
        /\ m_rob' \in [data : [RobIndex -> RobEntry], head : RobIndex, tail : RobIndex, num : 0 .. RobSize]
        /\ 1 \in Misses => m_rob.data[rob_index[ReqAt(1)]].ready
    BY <1>1, <1>5, AnsweredEntry
  <2>2. OrderInv' /\ DataInv' /\ RingInv'
    BY <1>1, <1>5, AnsweredOrder, AnsweredData, AnsweredRing
  <2>3. PICK n : n = Len(m_fragment_fifo)
    OBVIOUS
  <2>4. /\ n \in Nat \ {0} /\ m_fragment_fifo' \in Seq(Fragment)
        /\ Head(m_fragment_fifo).req = ReqAt(1)
        /\ \A i \in 1 .. n : ReqAt(i) \in Fetch /\ LineAt(i) \in Line
        /\ \A j \in Misses : j # 1 => j - 1 \in Misses' /\ ReqAt(j - 1)' = ReqAt(j)
        /\ Misses \subseteq 1 .. n
    BY <1>5, <2>3, FragmentTaken DEF IInv, Answered
  <2>5. NetInv'
    <3>1. ASSUME NEW f \in net' \cup ToSet(m_request_fifo')
          PROVE  \E i \in Misses' : ReqAt(i)' = f /\ ~m_rob'.data[rob_index'[f]].ready
      <4>1. PICK j \in Misses : ReqAt(j) = f /\ ~m_rob.data[rob_index[f]].ready
        BY <1>2, <1>3
      <4>2. j # 1
        BY <2>1, <4>1
      <4> QED BY <1>1, <2>1, <2>4, <4>1, <4>2
    <3> QED BY <1>2, <3>1, Zenon DEF NetInv
  <2>6. m_cache' \in [Line -> Block \cup {NoBlock}]
    <3>1. 1 \in Misses => m_cache' = [m_cache EXCEPT ![LineAt(1)] = addr[ReqAt(1)]]
      BY <1>1, <1>5, AnsweredEntry
    <3>2. 1 \notin Misses => m_cache' = m_cache
      BY <1>1, <1>5, AnsweredEntry
    <3>3. addr[ReqAt(1)] \in Block \cup {NoBlock} /\ m_cache \in [Line -> Block \cup {NoBlock}]
      BY <2>4 DEF IInv, TypeOK
    <3> QED BY <3>1, <3>2, <3>3
  <2>7. m_result_fifo' \in Seq(Fetch)
    <3>1. ReqAt(1) \in Fetch
      BY <2>4
    <3> QED BY <1>5, <2>4, <3>1 DEF Answered, IInv, TypeOK
  <2>8. TypeOK'
    <3>1. /\ addr' \in [Fetch -> Block \cup {NoBlock}] /\ tags' \in [Line -> Block \cup {NoBlock}]
          /\ rob_index' \in [Fetch -> RobIndex] /\ accepted' \in Seq(Fetch)
      BY <1>1 DEF IInv, TypeOK
    <3> QED BY <1>2, <2>1, <2>4, <2>6, <2>7, <3>1, Zenon DEF TypeOK
  <2> QED BY <2>1, <2>2, <2>5, <2>8 DEF IInv
<1>6. UNCHANGED <<m_fragment_fifo, m_result_fifo, m_rob, m_cache>> \/ Answered
  <2>1. ReadFragment
    BY <1>1
  <2> QED BY <2>1, Zenon DEF ReadFragment, Answered
<1> QED BY <1>4, <1>5, <1>6

-----------------------------------------------------------------------------
(* fill, and next_access *)

\* Memory's answer makes ready the entry of its own miss and of no other.
LEMMA FillStep ==
  ASSUME IInv, NEW f \in Fetch, Fill(f)
  PROVE  IInv'
<1>1. /\ f \in net /\ net' = net \ {f}
      /\ m_rob' = [m_rob EXCEPT !.data[rob_index[f]].ready = TRUE]
      /\ UNCHANGED <<addr, tags, m_cache, m_fragment_fifo, m_request_fifo, m_result_fifo, rob_index, accepted>>
  BY DEF Fill
<1>2. rob_index[f] \in RobIndex
  BY DEF IInv, TypeOK
<1>3. PICK x \in RobIndex : x = rob_index[f]
  BY <1>2
<1>4. m_rob \in [data : [RobIndex -> RobEntry], head : RobIndex, tail : RobIndex, num : 0 .. RobSize]
  BY DEF IInv, TypeOK
<1>5. /\ m_rob'.head = m_rob.head /\ m_rob'.tail = m_rob.tail /\ m_rob'.num = m_rob.num
      /\ m_rob'.data = [m_rob.data EXCEPT ![x].ready = TRUE]
      /\ m_rob' = [m_rob EXCEPT !.data = [m_rob.data EXCEPT ![x].ready = TRUE]]
  BY <1>1, <1>3, <1>4
<1>6. /\ \A y \in RobIndex : /\ m_rob'.data[y].req = m_rob.data[y].req
                             /\ m_rob'.data[y].line = m_rob.data[y].line
                             /\ m_rob'.data[y].block = m_rob.data[y].block
      /\ \A y \in RobIndex \ {x} : m_rob'.data[y] = m_rob.data[y]
      /\ m_rob'.data \in [RobIndex -> RobEntry]
  <2>1. PICK d : d = m_rob.data
    OBVIOUS
  <2>2. d \in [RobIndex -> RobEntry] /\ m_rob'.data = [d EXCEPT ![x].ready = TRUE]
    BY <1>4, <1>5, <2>1
  <2>3. d[x] \in RobEntry
    BY <2>2
  <2>4. PICK e : e = [d[x] EXCEPT !.ready = TRUE]
    OBVIOUS
  <2>5. e \in RobEntry /\ e.req = d[x].req /\ e.line = d[x].line /\ e.block = d[x].block
    BY <2>3, <2>4 DEF RobEntry
  <2>6. m_rob'.data = [d EXCEPT ![x] = e]
    BY <2>2, <2>4
  <2> QED BY <2>1, <2>2, <2>5, <2>6
<1>7. m_rob' \in [data : [RobIndex -> RobEntry], head : RobIndex, tail : RobIndex, num : 0 .. RobSize]
  <2>1. PICK d : d = m_rob'.data
    OBVIOUS
  <2>2. m_rob' = [m_rob EXCEPT !.data = d] /\ d \in [RobIndex -> RobEntry]
    BY <1>5, <1>6, <2>1
  <2> QED BY <1>4, <2>2
<1>8. TypeOK'
  BY <1>1, <1>7 DEF IInv, TypeOK
<1>9. Misses' = Misses /\ \A i : ReqAt(i)' = ReqAt(i) /\ LineAt(i)' = LineAt(i)
  BY <1>1 DEF Misses, ReqAt, LineAt
<1>10. OrderInv'
  BY <1>1, <1>9 DEF IInv, OrderInv
<1>11. RingInv'
  <2>1. \A i : MissDist(i)' = MissDist(i)
    BY <1>1, <1>5, <1>9 DEF MissDist, Dist
  <2>2. Dist(m_rob.head)' = Dist(m_rob.head)
    BY <1>5 DEF Dist
  <2> QED BY <1>5, <1>9, <2>1, <2>2, Zenon DEF IInv, RingInv
<1>12. \A i \in Misses : ReqAt(i) \in Fetch /\ rob_index[ReqAt(i)] \in RobIndex /\ i \in Nat
  <2>1. \A i \in Misses : i \in Nat /\ m_fragment_fifo[i] \in Fragment
    BY DEF IInv, TypeOK, Misses
  <2> QED BY <2>1 DEF IInv, TypeOK, ReqAt, Fragment
<1>13. EntryInv'
  BY <1>1, <1>6, <1>9, <1>12 DEF IInv, EntryInv
<1>14. NetInv'
  <2>1. /\ \A g \in net \cup ToSet(m_request_fifo) :
             \E i \in Misses : ReqAt(i) = g /\ ~m_rob.data[rob_index[g]].ready
        /\ \A i, j \in DOMAIN m_request_fifo : m_request_fifo[i] = m_request_fifo[j] => i = j
        /\ net \cap ToSet(m_request_fifo) = {}
    BY DEF IInv, NetInv
  <2>2. PICK i \in Misses : ReqAt(i) = f
    BY <1>1, <2>1
  <2>3. ASSUME NEW j \in Misses, ReqAt(j) # f PROVE rob_index[ReqAt(j)] # x
    <3>1. i \in Nat /\ j \in Nat /\ i # j /\ MissDist(i) \in Nat /\ MissDist(j) \in Nat
      BY <1>12, <2>2, <2>3, DistFacts DEF MissDist, IInv
    <3>2. i < j \/ j < i
      BY <3>1
    <3>3. MissDist(i) # MissDist(j)
      BY <3>1, <3>2 DEF IInv, RingInv
    <3> QED BY <1>3, <2>2, <3>3 DEF MissDist
  <2>4. ASSUME NEW g \in net' \cup ToSet(m_request_fifo')
        PROVE  \E j \in Misses' : ReqAt(j)' = g /\ ~m_rob'.data[rob_index'[g]].ready
    <3>1. g # f /\ g \in net \cup ToSet(m_request_fifo)
      BY <1>1, <2>1
    <3>2. PICK j \in Misses : ReqAt(j) = g /\ ~m_rob.data[rob_index[g]].ready
      BY <2>1, <3>1
    <3>3. rob_index[g] \in RobIndex \ {x}
      BY <1>12, <2>3, <3>1, <3>2
    <3> QED BY <1>1, <1>6, <1>9, <3>2, <3>3
  <2>5. net' \cap ToSet(m_request_fifo') = {}
    BY <1>1, <2>1
  <2> QED BY <1>1, <2>1, <2>4, <2>5, Zenon DEF NetInv
<1>15. DataInv'
  BY <1>1 DEF IInv, DataInv, Misses, ReqAt, LineAt, NoMissBefore, LastMissBefore
<1> QED BY <1>8, <1>10, <1>11, <1>13, <1>14, <1>15 DEF IInv

\* The answer taken is the oldest access: none of those that wait is freed.
LEMMA NextAccessStep ==
  ASSUME IInv, NextAccess
  PROVE  IInv'
<1>0. PICK n, r, a, g : /\ n = Len(m_fragment_fifo) /\ r = Len(m_result_fifo) /\ a = Len(accepted)
                        /\ g = Head(m_result_fifo)
  OBVIOUS
<1>1. /\ m_result_fifo # <<>> /\ m_result_fifo' = Tail(m_result_fifo)
      /\ addr' = [addr EXCEPT ![g] = NoBlock] /\ accepted' = RemoveFirst(accepted, g)
      /\ UNCHANGED <<tags, m_cache, m_fragment_fifo, m_request_fifo, m_rob, rob_index, net>>
  BY <1>0 DEF NextAccess
<1>2. /\ m_result_fifo' \in Seq(Fetch) /\ Len(m_result_fifo') = r - 1 /\ r \in Nat \ {0}
      /\ g = m_result_fifo[1] /\ g \in Fetch
      /\ \A i \in 1 .. r - 1 : m_result_fifo'[i] = m_result_fifo[i + 1]
  BY <1>0, <1>1, TailFacts DEF IInv, TypeOK
<1>3. /\ a = r + n /\ n \in Nat /\ accepted \in Seq(Fetch)
      /\ \A i \in 1 .. r : accepted[i] = m_result_fifo[i]
      /\ \A i \in 1 .. n : accepted[r + i] = ReqAt(i)
      /\ \A i, j \in 1 .. a : accepted[i] = accepted[j] => i = j
      /\ \A i \in 1 .. a : addr[accepted[i]] # NoBlock
  BY <1>0 DEF IInv, OrderInv, TypeOK
<1>4. a \in Nat \ {0} /\ accepted # <<>> /\ accepted[1] = g
  <2>1. 1 \in 1 .. r /\ a \in Nat \ {0}
    BY <1>2, <1>3
  <2>2. accepted # <<>>
    BY <1>0, <1>3, <2>1
  <2> QED BY <1>2, <1>3, <2>1, <2>2
<1>5. /\ accepted' \in Seq(Fetch) /\ Len(accepted') = a - 1
      /\ \A i \in 1 .. a - 1 : accepted'[i] = accepted[i + 1]
  <2>1. accepted' = RemoveFirst(accepted, accepted[1]) /\ accepted \in Seq(Fetch) /\ accepted # <<>>
    BY <1>1, <1>3, <1>4
  <2> QED BY <1>0, <2>1, RemoveHead
<1>6. \A i \in 1 .. a - 1 : i + 1 \in 1 .. a /\ i + 1 # 1 /\ 1 \in 1 .. a /\ accepted[i + 1] \in Fetch
  <2>1. \A i \in 1 .. a : accepted[i] \in Fetch
    <3>1. accepted \in Seq(Fetch) /\ a = Len(accepted)
      BY <1>0, <1>3
    <3> QED BY <3>1
  <2>2. \A i \in 1 .. a - 1 : i + 1 \in 1 .. a /\ i + 1 # 1 /\ 1 \in 1 .. a
    BY <1>4
  <2> QED BY <2>1, <2>2
<1>7. \A i \in 1 .. a - 1 : accepted[i + 1] # g /\ addr'[accepted[i + 1]] = addr[accepted[i + 1]]
  <2>1. \A i \in 1 .. a - 1 : accepted[i + 1] # g
    BY <1>3, <1>4, <1>6
  <2> QED BY <1>1, <1>6, <2>1 DEF IInv, TypeOK
<1>8. Misses' = Misses /\ \A i : ReqAt(i)' = ReqAt(i) /\ LineAt(i)' = LineAt(i)
  BY <1>1 DEF Misses, ReqAt, LineAt
<1>9. \A i \in 1 .. n : addr'[ReqAt(i)] = addr[ReqAt(i)]
  <2>1. \A i \in 1 .. n : r + i - 1 \in 1 .. a - 1 /\ r + i - 1 + 1 = r + i
    BY <1>2, <1>3
  <2>2. \A i \in 1 .. n : addr'[accepted[r + i]] = addr[accepted[r + i]]
    <3>1. ASSUME NEW i \in 1 .. n PROVE addr'[accepted[r + i]] = addr[accepted[r + i]]
      <4>1. PICK k : k = r + i - 1
        OBVIOUS
      <4>2. k \in 1 .. a - 1 /\ k + 1 = r + i
        BY <2>1, <4>1
      <4>3. addr'[accepted[k + 1]] = addr[accepted[k + 1]]
        BY <1>7, <4>2, Zenon
      <4> QED BY <4>2, <4>3, Zenon
    <3> QED BY <3>1
  <2> QED BY <1>3, <2>2
<1>10. DOMAIN m_fragment_fifo = 1 .. n /\ Misses \subseteq 1 .. n
  BY <1>0 DEF IInv, TypeOK, Misses
<1>11. TypeOK'
  <2>1. addr' \in [Fetch -> Block \cup {NoBlock}]
    BY <1>1 DEF IInv, TypeOK
  <2> QED BY <1>1, <1>2, <1>5, <2>1 DEF IInv, TypeOK
<1>12. OrderInv'
  <2>1. a - 1 = (r - 1) + n /\ Len(m_fragment_fifo') = n
    BY <1>0, <1>1, <1>2, <1>3
  <2>2. \A i \in 1 .. r - 1 : accepted'[i] = m_result_fifo'[i]
    <3>1. \A i \in 1 .. r - 1 : i \in 1 .. a - 1 /\ i + 1 \in 1 .. r
      BY <1>2, <1>3
    <3> QED BY <1>2, <1>3, <1>5, <3>1
  <2>3. \A i \in 1 .. n : accepted'[r - 1 + i] = ReqAt(i)'
    <3>1. \A i \in 1 .. n : r - 1 + i \in 1 .. a - 1 /\ r - 1 + i + 1 = r + i
      BY <1>2, <1>3
    <3> QED BY <1>3, <1>5, <1>8, <3>1
  <2>4. \A i, j \in 1 .. a - 1 : accepted'[i] = accepted'[j] => i = j
    <3>1. \A i, j \in 1 .. a - 1 : i + 1 = j + 1 => i = j
      OBVIOUS
    <3> QED BY <1>3, <1>5, <1>6, <3>1
  <2>5. \A i \in 1 .. a - 1 : addr'[accepted'[i]] # NoBlock
    BY <1>3, <1>5, <1>6, <1>7
  <2> QED BY <1>2, <1>5, <2>1, <2>2, <2>3, <2>4, <2>5, Zenon DEF OrderInv
<1>13. RingInv'
  <2>1. \A i : MissDist(i)' = MissDist(i)
    BY <1>1, <1>8 DEF MissDist, Dist
  <2>2. Dist(m_rob.head)' = Dist(m_rob.head)
    BY <1>1 DEF Dist
  <2> QED BY <1>1, <1>8, <2>1, <2>2, Zenon DEF IInv, RingInv
<1>14. EntryInv'
  BY <1>1, <1>8, <1>9, <1>10 DEF IInv, EntryInv
<1>15. NetInv'
  BY <1>1, <1>8 DEF IInv, NetInv
<1>16. DataInv'
  <2>1. \A i, l : /\ NoMissBefore(i, l)' <=> NoMissBefore(i, l)
                  /\ \A j : LastMissBefore(j, i, l)' <=> LastMissBefore(j, i, l)
    BY <1>8 DEF NoMissBefore, LastMissBefore
  <2>2. ASSUME NEW i \in DOMAIN m_fragment_fifo' \ Misses'
        PROVE  /\ NoMissBefore(i, LineAt(i))' => m_cache'[LineAt(i)'] = addr'[ReqAt(i)']
               /\ \A j \in Misses' : LastMissBefore(j, i, LineAt(i))' => addr'[ReqAt(j)'] = addr'[ReqAt(i)']
    <3>1. PICK l : l = LineAt(i) /\ l = LineAt(i)'
      BY <1>8
    <3>2. i \in DOMAIN m_fragment_fifo \ Misses /\ i \in 1 .. n
      BY <1>1, <1>8, <1>10, <2>2
    <3>3. /\ NoMissBefore(i, l) => m_cache[l] = addr[ReqAt(i)]
          /\ \A j \in Misses : LastMissBefore(j, i, l) => addr[ReqAt(j)] = addr[ReqAt(i)]
      BY <3>1, <3>2 DEF IInv, DataInv
    <3>4. NoMissBefore(i, LineAt(i))' => NoMissBefore(i, l)
      BY <1>8, <3>1 DEF NoMissBefore
    <3>5. \A j \in Misses' : LastMissBefore(j, i, LineAt(i))' => LastMissBefore(j, i, l)
      BY <1>8, <3>1 DEF LastMissBefore
    <3> QED BY <1>1, <1>8, <1>9, <1>10, <3>1, <3>2, <3>3, <3>4, <3>5
  <2>3. ASSUME NEW l \in Line
        PROVE  /\ NoMissBefore(n + 1, l)' => m_cache'[l] = tags'[l]
               /\ \A j \in Misses' : LastMissBefore(j, n + 1, l)' => tags'[l] = addr'[ReqAt(j)']
    <3>1. /\ NoMissBefore(n + 1, l) => m_cache[l] = tags[l]
          /\ \A j \in Misses : LastMissBefore(j, n + 1, l) => tags[l] = addr[ReqAt(j)]
      BY <1>0 DEF IInv, DataInv
    <3> QED BY <1>1, <1>8, <1>9, <1>10, <2>1, <3>1
  <2>4. Len(m_fragment_fifo') + 1 = n + 1
    BY <1>0, <1>1
  <2> QED BY <2>2, <2>3, <2>4 DEF DataInv
<1> QED BY <1>11, <1>12, <1>13, <1>14, <1>15, <1>16 DEF IInv

-----------------------------------------------------------------------------
(* The theorems *)

LEMMA InitStep == Init => IInv
<1> SUFFICES ASSUME Init PROVE IInv
  OBVIOUS
<1> DEFINE e == [req |-> NoFetch, line |-> CHOOSE l \in Line : TRUE, block |-> NoBlock, ready |-> FALSE]
<1>1. RobSize \in Nat \ {0} /\ Line # {}
  BY TexAssumption
<1>2. e \in RobEntry
  <2>1. (CHOOSE l \in Line : TRUE) \in Line
    BY <1>1
  <2> QED BY <2>1 DEF RobEntry
<1>3. m_rob = [data |-> [i \in RobIndex |-> e], head |-> 0, tail |-> 0, num |-> 0]
  BY DEF Init
<1> HIDE DEF e
<1>4. 0 \in RobIndex /\ 0 \in 0 .. RobSize
  BY <1>1 DEF RobIndex
<1>5. /\ m_rob \in [data : [RobIndex -> RobEntry], head : RobIndex, tail : RobIndex, num : 0 .. RobSize]
      /\ m_rob.head = 0 /\ m_rob.tail = 0 /\ m_rob.num = 0
  BY <1>2, <1>3, <1>4
<1>6. TypeOK
  BY <1>4, <1>5 DEF Init, TypeOK
<1>7. m_fragment_fifo = <<>> /\ m_request_fifo = <<>> /\ m_result_fifo = <<>> /\ accepted = <<>> /\ net = {}
  BY DEF Init
<1>8. Misses = {} /\ DOMAIN m_fragment_fifo = {} /\ ToSet(m_request_fifo) = {} /\ DOMAIN m_request_fifo = {}
  BY <1>7 DEF Misses, ToSet
<1>9. OrderInv
  BY <1>7 DEF OrderInv
<1>10. RingInv
  BY <1>1, <1>5, <1>8 DEF RingInv, Dist
<1>11. EntryInv /\ NetInv
  BY <1>7, <1>8 DEF EntryInv, NetInv
<1>12. DataInv
  BY <1>8 DEF Init, DataInv
<1> QED BY <1>6, <1>9, <1>10, <1>11, <1>12 DEF IInv

LEMMA NextStep == IInv /\ [Next]_vars => IInv'
<1> SUFFICES ASSUME IInv, [Next]_vars PROVE IInv'
  OBVIOUS
<1>1. ASSUME NEW f \in Fetch, NEW b \in Block, Access(f, b) PROVE IInv'
  BY <1>1, AccessStep
<1>2. ASSUME NEW room \in BOOLEAN, Cycle(room) PROVE IInv'
  BY <1>2, CycleStep
<1>3. ASSUME NEW f \in Fetch, Fill(f) PROVE IInv'
  BY <1>3, FillStep
<1>4. CASE NextAccess
  BY <1>4, NextAccessStep
<1>5. CASE UNCHANGED vars
  <2>1. UNCHANGED <<addr, tags, m_cache, m_fragment_fifo, m_request_fifo, m_result_fifo,
                    m_rob, rob_index, net, accepted>>
    BY <1>5 DEF vars
  <2>2. TypeOK' /\ OrderInv'
    BY <2>1 DEF IInv, TypeOK, OrderInv, ReqAt
  <2>3. RingInv' /\ EntryInv' /\ NetInv'
    BY <2>1 DEF IInv, RingInv, EntryInv, NetInv, Misses, MissDist, Dist, ReqAt, LineAt
  <2>4. DataInv'
    BY <2>1 DEF IInv, DataInv, Misses, ReqAt, LineAt, NoMissBefore, LastMissBefore
  <2> QED BY <2>2, <2>3, <2>4 DEF IInv
<1> QED BY <1>1, <1>2, <1>3, <1>4, <1>5 DEF Next

\* The invariant holds in every reachable state.
LEMMA Inductive == Spec => []IInv
BY InitStep, NextStep, PTL DEF Spec

\* An access that hit in the tags of the texture cache finds its own block in
\* the cache when tex_cache::cycle answers it, although the data may not have
\* been there when it hit and the line may have been given away since.
THEOREM HitCorrect == Spec => []HitFindsBlock
<1>1. IInv => HitFindsBlock
  <2> SUFFICES ASSUME IInv, m_fragment_fifo # <<>>, ~Head(m_fragment_fifo).miss
               PROVE  m_cache[Head(m_fragment_fifo).line] = addr[Head(m_fragment_fifo).req]
    BY DEF HitFindsBlock
  <2>1. /\ Head(m_fragment_fifo) = m_fragment_fifo[1] /\ 1 \in DOMAIN m_fragment_fifo
        /\ DOMAIN m_fragment_fifo \subseteq Nat \ {0}
    BY DEF IInv, TypeOK
  <2>2. 1 \in DOMAIN m_fragment_fifo \ Misses
    BY <2>1 DEF Misses
  <2>3. NoMissBefore(1, LineAt(1))
    BY <2>1 DEF NoMissBefore, Misses
  <2>4. m_cache[LineAt(1)] = addr[ReqAt(1)]
    BY <2>2, <2>3 DEF IInv, DataInv
  <2> QED BY <2>1, <2>4 DEF LineAt, ReqAt
<1> QED BY <1>1, Inductive, PTL

\* The assertions of tex_cache::cycle and tex_cache::fill about the reorder
\* buffer hold: the oldest miss is at its tail, and the index that was saved
\* with a request still names the request's own entry when memory answers.
THEOREM RobCorrect == Spec => []RobInStep
<1>1. IInv => RobInStep
  <2> SUFFICES ASSUME IInv PROVE RobInStep
    OBVIOUS
  <2>1. ASSUME m_fragment_fifo # <<>>, Head(m_fragment_fifo).miss
        PROVE  /\ RobHead.req = Head(m_fragment_fifo).req
               /\ RobHead.line = Head(m_fragment_fifo).line
               /\ RobHead.block = addr[RobHead.req]
               /\ m_rob.num > 0
    <3>1. /\ Head(m_fragment_fifo) = m_fragment_fifo[1] /\ 1 \in DOMAIN m_fragment_fifo
          /\ m_fragment_fifo[1] \in Fragment
      BY <2>1 DEF IInv, TypeOK
    <3>2. 1 \in Misses /\ ReqAt(1) \in Fetch
      BY <2>1, <3>1 DEF Misses, ReqAt, Fragment
    <3>3. rob_index[ReqAt(1)] = m_rob.tail /\ m_rob.num > 0
      BY <3>2, FirstMiss DEF IInv
    <3>4. RobHead.req = ReqAt(1) /\ RobHead.line = LineAt(1) /\ RobHead.block = addr[ReqAt(1)]
      BY <3>2, <3>3 DEF IInv, EntryInv, RobHead
    <3> QED BY <3>1, <3>3, <3>4 DEF ReqAt, LineAt
  <2>2. ASSUME NEW f \in net \cup ToSet(m_request_fifo)
        PROVE  LET e == m_rob.data[rob_index[f]]
               IN  e.req = f /\ e.block = addr[f] /\ ~e.ready
    <3>1. PICK i \in Misses : ReqAt(i) = f /\ ~m_rob.data[rob_index[f]].ready
      BY DEF IInv, NetInv
    <3> QED BY <3>1 DEF IInv, EntryInv
  <2> QED BY <2>1, <2>2 DEF RobInStep
<1> QED BY <1>1, Inductive, PTL

\* The load/store unit takes the answers of the texture cache (next_access) in
\* the order in which the accesses were accepted.
THEOREM OrderCorrect == Spec => InOrder
<1>1. IInv /\ [Next]_vars => [NextAccess => Head(m_result_fifo) = Head(accepted)]_vars
  <2> SUFFICES ASSUME IInv, NextAccess PROVE Head(m_result_fifo) = Head(accepted)
    OBVIOUS
  <2>1. PICK r, a, n : r = Len(m_result_fifo) /\ a = Len(accepted) /\ n = Len(m_fragment_fifo)
    OBVIOUS
  <2>2. /\ m_result_fifo \in Seq(Fetch) /\ accepted \in Seq(Fetch) /\ m_result_fifo # <<>>
        /\ n \in Nat /\ a = r + n
    BY <2>1 DEF IInv, TypeOK, NextAccess, OrderInv
  <2>3. Head(m_result_fifo) = m_result_fifo[1] /\ 1 \in 1 .. r /\ r \in Nat
    BY <2>1, <2>2
  <2>4. Head(accepted) = accepted[1]
    BY <2>1, <2>2, <2>3
  <2>5. accepted[1] = m_result_fifo[1]
    BY <2>1, <2>3 DEF IInv, OrderInv
  <2> QED BY <2>3, <2>4, <2>5
<1> QED BY <1>1, Inductive, PTL DEF Spec, InOrder
=============================================================================
