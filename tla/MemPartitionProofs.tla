------------------------- MODULE MemPartitionProofs -------------------------
(***************************************************************************)
(* Proofs about MemPartition and the Dram it composes, for every number of *)
(* sub-partitions, banks and requests, every queue size and both           *)
(* schedulers.                                                             *)
(***************************************************************************)
EXTENDS MemPartition, FiniteSetTheorems, WellFoundedInduction, TLAPS

-----------------------------------------------------------------------------
(* Queues *)

\* No request is twice in queue q.
NoDup(q) == \A i, j \in DOMAIN q : q[i] = q[j] => i = j

\* What a queue holds
LEMMA SeqFacts ==
  ASSUME NEW S, NEW q \in Seq(S)
  PROVE  /\ Len(q) \in Nat /\ DOMAIN q = 1 .. Len(q)
         /\ \A x : x \in ToSet(q) <=> \E i \in 1 .. Len(q) : q[i] = x
         /\ ToSet(q) \subseteq S
         /\ q = <<>> <=> Len(q) = 0
         /\ q = <<>> => ToSet(q) = {}
<1>1. Len(q) \in Nat /\ DOMAIN q = 1 .. Len(q) /\ \A i \in 1 .. Len(q) : q[i] \in S
  OBVIOUS
<1>2. q = <<>> <=> Len(q) = 0
  OBVIOUS
<1>3. \A x : x \in ToSet(q) <=> \E i \in 1 .. Len(q) : q[i] = x
  BY <1>1 DEF ToSet
<1> QED BY <1>1, <1>2, <1>3

LEMMA SeqAppend ==
  ASSUME NEW S, NEW q \in Seq(S), NEW x \in S
  PROVE  /\ Append(q, x) \in Seq(S) /\ Len(Append(q, x)) = Len(q) + 1
         /\ \A i \in 1 .. Len(q) : Append(q, x)[i] = q[i]
         /\ Append(q, x)[Len(q) + 1] = x
         /\ ToSet(Append(q, x)) = ToSet(q) \cup {x}
         /\ NoDup(q) /\ x \notin ToSet(q) => NoDup(Append(q, x))
<1>1. /\ Append(q, x) \in Seq(S) /\ Len(Append(q, x)) = Len(q) + 1 /\ Len(q) \in Nat
      /\ \A i \in 1 .. Len(q) : Append(q, x)[i] = q[i]
      /\ Append(q, x)[Len(q) + 1] = x
  OBVIOUS
<1> DEFINE a == Append(q, x)
<1> HIDE DEF a
<1>2. /\ a \in Seq(S) /\ Len(a) = Len(q) + 1 /\ Len(q) \in Nat
      /\ \A i \in 1 .. Len(q) : a[i] = q[i]
      /\ a[Len(q) + 1] = x
  BY <1>1 DEF a
<1>3. /\ \A y : y \in ToSet(q) <=> \E i \in 1 .. Len(q) : q[i] = y
      /\ \A y : y \in ToSet(a) <=> \E i \in 1 .. Len(a) : a[i] = y
      /\ DOMAIN a = 1 .. Len(q) + 1 /\ DOMAIN q = 1 .. Len(q)
  <2>1. DOMAIN a = 1 .. Len(q) + 1
    BY <1>2
  <2> QED BY <1>2, <2>1, SeqFacts
<1>4. ToSet(a) = ToSet(q) \cup {x}
  <2>1. ASSUME NEW y \in ToSet(a) PROVE y \in ToSet(q) \cup {x}
    <3>1. PICK i \in 1 .. Len(q) + 1 : a[i] = y
      BY <1>2, <1>3, <2>1
    <3> QED BY <1>2, <1>3, <3>1
  <2>2. ASSUME NEW y \in ToSet(q) PROVE y \in ToSet(a)
    <3>1. PICK i \in 1 .. Len(q) : q[i] = y
      BY <1>3, <2>2
    <3> QED BY <1>2, <1>3, <3>1
  <2>3. x \in ToSet(a)
    BY <1>2, <1>3
  <2> QED BY <2>1, <2>2, <2>3
<1>5. ASSUME NoDup(q), x \notin ToSet(q) PROVE NoDup(a)
  <2> SUFFICES ASSUME NEW i \in 1 .. Len(q) + 1, NEW j \in 1 .. Len(q) + 1, a[i] = a[j] PROVE i = j
    BY <1>3 DEF NoDup
  <2>1. CASE i = Len(q) + 1 \/ j = Len(q) + 1
    BY <1>2, <1>3, <1>5, <2>1
  <2>2. CASE i \in 1 .. Len(q) /\ j \in 1 .. Len(q)
    BY <1>2, <1>3, <1>5, <2>2 DEF NoDup
  <2> QED BY <1>2, <2>1, <2>2
<1> QED BY <1>2, <1>4, <1>5 DEF a

LEMMA SeqTail ==
  ASSUME NEW S, NEW q \in Seq(S), q # <<>>
  PROVE  /\ Tail(q) \in Seq(S) /\ Len(Tail(q)) = Len(q) - 1 /\ Len(q) >= 1
         /\ Head(q) \in S /\ Head(q) = q[1] /\ Head(q) \in ToSet(q)
         /\ \A i \in 1 .. Len(q) - 1 : Tail(q)[i] = q[i + 1]
         /\ ToSet(Tail(q)) \subseteq ToSet(q)
         /\ ToSet(q) = ToSet(Tail(q)) \cup {Head(q)}
         /\ NoDup(q) => NoDup(Tail(q)) /\ ToSet(Tail(q)) = ToSet(q) \ {Head(q)}
<1>1. /\ Tail(q) \in Seq(S) /\ Len(Tail(q)) = Len(q) - 1 /\ Len(q) \in Nat \ {0}
      /\ Head(q) \in S /\ Head(q) = q[1]
      /\ \A i \in 1 .. Len(q) - 1 : Tail(q)[i] = q[i + 1]
  OBVIOUS
<1> DEFINE t == Tail(q)
           h == Head(q)
<1> HIDE DEF t, h
<1>2. /\ t \in Seq(S) /\ Len(t) = Len(q) - 1 /\ Len(q) \in Nat \ {0}
      /\ h \in S /\ h = q[1]
      /\ \A i \in 1 .. Len(q) - 1 : t[i] = q[i + 1]
  BY <1>1 DEF t, h
<1>3. /\ \A y : y \in ToSet(q) <=> \E i \in 1 .. Len(q) : q[i] = y
      /\ \A y : y \in ToSet(t) <=> \E i \in 1 .. Len(t) : t[i] = y
      /\ DOMAIN t = 1 .. Len(q) - 1 /\ DOMAIN q = 1 .. Len(q)
  <2>1. DOMAIN t = 1 .. Len(q) - 1
    BY <1>2
  <2> QED BY <1>2, <2>1, SeqFacts
<1>4. h \in ToSet(q)
  BY <1>2, <1>3
<1>5. ToSet(t) \subseteq ToSet(q)
  <2> SUFFICES ASSUME NEW y \in ToSet(t) PROVE y \in ToSet(q)
    OBVIOUS
  <2>1. PICK i \in 1 .. Len(q) - 1 : t[i] = y
    BY <1>2, <1>3
  <2>2. i + 1 \in 1 .. Len(q) /\ q[i + 1] = y
    BY <1>2, <2>1
  <2> QED BY <1>3, <2>2
<1>6. ASSUME NEW y \in ToSet(q) PROVE y \in ToSet(t) \cup {h}
  <2>1. PICK i \in 1 .. Len(q) : q[i] = y
    BY <1>3, <1>6
  <2>2. CASE i = 1
    BY <1>2, <2>1, <2>2
  <2>3. CASE i # 1
    <3>1. i - 1 \in 1 .. Len(q) - 1 /\ t[i - 1] = q[(i - 1) + 1]
      BY <1>2, <2>1, <2>3
    <3>2. t[i - 1] = y
      BY <2>1, <3>1
    <3> QED BY <1>2, <1>3, <3>1, <3>2
  <2> QED BY <2>2, <2>3
<1>7. ASSUME NoDup(q) PROVE NoDup(t) /\ h \notin ToSet(t)
  <2>1. ASSUME NEW i \in 1 .. Len(q) - 1, NEW j \in 1 .. Len(q) - 1, t[i] = t[j] PROVE i = j
    <3>1. i + 1 \in 1 .. Len(q) /\ j + 1 \in 1 .. Len(q) /\ q[i + 1] = q[j + 1]
      BY <1>2, <2>1
    <3>2. i + 1 = j + 1
      BY <1>3, <1>7, <3>1 DEF NoDup
    <3> QED BY <3>2
  <2>2. ASSUME h \in ToSet(t) PROVE FALSE
    <3>1. PICK i \in 1 .. Len(q) - 1 : t[i] = h
      BY <1>2, <1>3, <2>2
    <3>2. i + 1 \in 1 .. Len(q) /\ 1 \in 1 .. Len(q) /\ q[i + 1] = q[1]
      BY <1>2, <3>1
    <3>3. i + 1 = 1
      BY <1>3, <1>7, <3>2 DEF NoDup
    <3> QED BY <3>3
  <2> QED BY <1>3, <2>1, <2>2 DEF NoDup
<1> QED BY <1>2, <1>4, <1>5, <1>6, <1>7 DEF t, h

LEMMA SeqConcat ==
  ASSUME NEW S, NEW q \in Seq(S), NEW t \in Seq(S)
  PROVE  /\ q \o t \in Seq(S) /\ Len(q \o t) = Len(q) + Len(t)
         /\ \A i \in 1 .. Len(q) : (q \o t)[i] = q[i]
         /\ \A i \in 1 .. Len(t) : (q \o t)[Len(q) + i] = t[i]
         /\ ToSet(q \o t) = ToSet(q) \cup ToSet(t)
         /\ NoDup(q) /\ NoDup(t) /\ ToSet(q) \cap ToSet(t) = {} => NoDup(q \o t)
<1> DEFINE a == q \o t
           m == Len(q)
           n == Len(t)
<1>1. /\ a \in Seq(S) /\ Len(a) = m + n /\ m \in Nat /\ n \in Nat
      /\ \A i \in 1 .. m + n : a[i] = IF i <= m THEN q[i] ELSE t[i - m]
  OBVIOUS
<1>2. /\ \A y : y \in ToSet(q) <=> \E i \in 1 .. m : q[i] = y
      /\ \A y : y \in ToSet(t) <=> \E i \in 1 .. n : t[i] = y
      /\ DOMAIN q = 1 .. m /\ DOMAIN t = 1 .. n
  BY SeqFacts
<1> HIDE DEF a, m, n
<1>3. /\ \A y : y \in ToSet(a) <=> \E i \in 1 .. m + n : a[i] = y
      /\ DOMAIN a = 1 .. m + n
  BY <1>1, SeqFacts
<1>4. \A i \in 1 .. m : a[i] = q[i]
  BY <1>1
<1>5. \A i \in 1 .. n : a[m + i] = t[i]
  <2> TAKE i \in 1 .. n
  <2>1. m + i \in 1 .. m + n /\ ~(m + i <= m) /\ (m + i) - m = i
    BY <1>1
  <2> QED BY <1>1, <2>1
<1>6. ToSet(a) = ToSet(q) \cup ToSet(t)
  <2>1. ASSUME NEW y \in ToSet(a) PROVE y \in ToSet(q) \cup ToSet(t)
    <3>1. PICK i \in 1 .. m + n : a[i] = y
      BY <1>3, <2>1
    <3>2. CASE i <= m
      BY <1>1, <1>2, <3>1, <3>2
    <3>3. CASE ~(i <= m)
      <4>1. i - m \in 1 .. n /\ t[i - m] = y
        BY <1>1, <3>1, <3>3
      <4> QED BY <1>2, <4>1
    <3> QED BY <3>2, <3>3
  <2>2. ASSUME NEW y \in ToSet(q) PROVE y \in ToSet(a)
    <3>1. PICK i \in 1 .. m : q[i] = y
      BY <1>2, <2>2
    <3>2. i \in 1 .. m + n /\ a[i] = y
      BY <1>1, <3>1
    <3> QED BY <1>3, <3>2
  <2>3. ASSUME NEW y \in ToSet(t) PROVE y \in ToSet(a)
    <3>1. PICK i \in 1 .. n : t[i] = y
      BY <1>2, <2>3
    <3>2. m + i \in 1 .. m + n /\ a[m + i] = y
      BY <1>1, <1>5, <3>1
    <3> QED BY <1>3, <3>2
  <2> QED BY <2>1, <2>2, <2>3
<1>7. ASSUME NoDup(q), NoDup(t), ToSet(q) \cap ToSet(t) = {} PROVE NoDup(a)
  <2> SUFFICES ASSUME NEW i \in 1 .. m + n, NEW j \in 1 .. m + n, a[i] = a[j] PROVE i = j
    BY <1>3 DEF NoDup
  <2>1. \A k \in 1 .. m + n : k <= m => k \in 1 .. m /\ a[k] = q[k] /\ a[k] \in ToSet(q)
    BY <1>1, <1>2
  <2>2. \A k \in 1 .. m + n : ~(k <= m) => k - m \in 1 .. n /\ a[k] = t[k - m] /\ a[k] \in ToSet(t)
    BY <1>1, <1>2
  <2>3. CASE i <= m /\ j <= m
    BY <1>2, <1>7, <2>1, <2>3 DEF NoDup
  <2>4. CASE ~(i <= m) /\ ~(j <= m)
    <3>1. i - m \in 1 .. n /\ j - m \in 1 .. n /\ t[i - m] = t[j - m]
      BY <2>2, <2>4
    <3>2. i - m = j - m
      BY <1>2, <1>7, <3>1 DEF NoDup
    <3> QED BY <1>1, <3>2
  <2>5. CASE (i <= m /\ ~(j <= m)) \/ (j <= m /\ ~(i <= m))
    BY <1>7, <2>1, <2>2, <2>5
  <2> QED BY <2>3, <2>4, <2>5
<1> QED BY <1>1, <1>4, <1>5, <1>6, <1>7 DEF a, m, n

LEMMA SeqRemoveAt ==
  ASSUME NEW S, NEW q \in Seq(S), NEW k \in 1 .. Len(q)
  PROVE  /\ RemoveAt(q, k) \in Seq(S) /\ Len(RemoveAt(q, k)) = Len(q) - 1
         /\ \A i \in 1 .. Len(q) - 1 : RemoveAt(q, k)[i] = IF i < k THEN q[i] ELSE q[i + 1]
         /\ NoDup(q) => /\ NoDup(RemoveAt(q, k))
                        /\ ToSet(RemoveAt(q, k)) = ToSet(q) \ {q[k]}
<1> DEFINE a == RemoveAt(q, k)
           n == Len(q)
<1>1. n \in Nat /\ k \in 1 .. n
  OBVIOUS
<1>2. SubSeq(q, 1, k - 1) \in Seq(S) /\ Len(SubSeq(q, 1, k - 1)) = k - 1
        /\ \A i \in 1 .. k - 1 : SubSeq(q, 1, k - 1)[i] = q[i]
  BY <1>1
<1>3. SubSeq(q, k + 1, n) \in Seq(S) /\ Len(SubSeq(q, k + 1, n)) = n - k
        /\ \A i \in 1 .. n - k : SubSeq(q, k + 1, n)[i] = q[k + i]
  BY <1>1
<1>4. a = SubSeq(q, 1, k - 1) \o SubSeq(q, k + 1, n)
  BY DEF RemoveAt
<1> HIDE DEF a, n
<1>5. /\ a \in Seq(S) /\ Len(a) = n - 1
      /\ \A i \in 1 .. k - 1 : a[i] = q[i]
      /\ \A i \in 1 .. n - k : a[(k - 1) + i] = q[k + i]
  <2>0. PICK u \in Seq(S), v \in Seq(S) :
          /\ Len(u) = k - 1 /\ Len(v) = n - k
          /\ \A i \in 1 .. k - 1 : u[i] = q[i]
          /\ \A i \in 1 .. n - k : v[i] = q[k + i]
          /\ a = u \o v
    BY <1>2, <1>3, <1>4, Zenon
  <2>3. /\ u \o v \in Seq(S) /\ Len(u \o v) = Len(u) + Len(v)
        /\ \A i \in 1 .. Len(u) : (u \o v)[i] = u[i]
        /\ \A i \in 1 .. Len(v) : (u \o v)[Len(u) + i] = v[i]
    BY SeqConcat
  <2>4. /\ a \in Seq(S) /\ Len(a) = (k - 1) + (n - k)
        /\ \A i \in 1 .. k - 1 : a[i] = q[i]
    BY <2>0, <2>3
  <2>5. \A i \in 1 .. n - k : a[(k - 1) + i] = q[k + i]
    BY <2>0, <2>3
  <2> QED BY <1>1, <2>4, <2>5
<1>6. \A i \in 1 .. n - 1 : a[i] = IF i < k THEN q[i] ELSE q[i + 1]
  <2> TAKE i \in 1 .. n - 1
  <2>1. CASE i < k
    BY <1>1, <1>5, <2>1
  <2>2. CASE ~(i < k)
    <3>1. i - k + 1 \in 1 .. n - k /\ (k - 1) + (i - k + 1) = i /\ k + (i - k + 1) = i + 1
      BY <1>1, <2>2
    <3> QED BY <1>5, <2>2, <3>1
  <2> QED BY <2>1, <2>2
<1>7. ASSUME NoDup(q) PROVE NoDup(a) /\ ToSet(a) = ToSet(q) \ {q[k]}
  <2>1. /\ \A y : y \in ToSet(q) <=> \E i \in 1 .. n : q[i] = y
        /\ \A y : y \in ToSet(a) <=> \E i \in 1 .. n - 1 : a[i] = y
        /\ DOMAIN q = 1 .. n /\ DOMAIN a = 1 .. n - 1
    BY <1>5, SeqFacts DEF n
  <2> DEFINE up(i) == IF i < k THEN i ELSE i + 1
  <2>2. \A i \in 1 .. n - 1 : up(i) \in 1 .. n /\ up(i) # k /\ a[i] = q[up(i)]
    BY <1>1, <1>6
  <2>3. NoDup(a)
    <3> SUFFICES ASSUME NEW i \in 1 .. n - 1, NEW j \in 1 .. n - 1, a[i] = a[j] PROVE i = j
      BY <2>1 DEF NoDup
    <3>1. up(i) = up(j)
      BY <1>7, <2>1, <2>2 DEF NoDup
    <3> QED BY <1>1, <3>1
  <2>4. ASSUME NEW y \in ToSet(a) PROVE y \in ToSet(q) /\ y # q[k]
    <3>1. PICK i \in 1 .. n - 1 : a[i] = y
      BY <2>1, <2>4
    <3> HIDE DEF up, n
    <3> QED BY <1>1, <1>7, <2>1, <2>2, <3>1 DEF NoDup
  <2>5. ASSUME NEW y \in ToSet(q), y # q[k] PROVE y \in ToSet(a)
    <3>1. PICK i \in 1 .. n : q[i] = y
      BY <2>1, <2>5
    <3>2. CASE i < k
      BY <1>1, <1>6, <2>1, <3>1, <3>2
    <3>3. CASE ~(i < k)
      <4>1. i - 1 \in 1 .. n - 1 /\ ~(i - 1 < k) /\ (i - 1) + 1 = i
        BY <1>1, <2>5, <3>1, <3>3
      <4>2. a[i - 1] = q[i]
        BY <1>6, <4>1
      <4> QED BY <2>1, <3>1, <4>1, <4>2
    <3> QED BY <3>2, <3>3
  <2> QED BY <2>3, <2>4, <2>5
<1> QED BY <1>5, <1>6, <1>7 DEF a, n

\* The least of some positions
LEMMA MinFacts ==
  ASSUME NEW S, S \subseteq Nat, S # {}
  PROVE  Min(S) \in S /\ \A y \in S : Min(S) <= y
<1>1. IsWellFoundedOn({ss \in Nat \X Nat : ss[1] < ss[2]}, Nat)
  BY NatLessThanWellFounded, Zenon DEF OpToRel
<1>2. PICK x \in S : \A y \in S : ~(<<y, x>> \in {ss \in Nat \X Nat : ss[1] < ss[2]})
  BY <1>1, WFMin
<1>3. \A y \in S : x <= y
  <2> TAKE y \in S
  <2>1. x \in Nat /\ y \in Nat
    OBVIOUS
  <2>2. ~(y < x)
    <3> SUFFICES ASSUME y < x PROVE FALSE
      OBVIOUS
    <3>1. <<y, x>> \in {ss \in Nat \X Nat : ss[1] < ss[2]}
      BY <2>1
    <3> QED BY <1>2, <3>1
  <2> QED BY <2>1, <2>2
<1> QED BY <1>3 DEF Min

\* A queue that was taken whole
LEMMA SeqWhole ==
  ASSUME NEW S, NEW q \in Seq(S)
  PROVE  /\ SubSeq(q, 1, Len(q)) = q /\ SubSeq(q, Len(q) + 1, Len(q)) = <<>>
         /\ q # <<>> => SubSeq(q, 2, Len(q)) = Tail(q) /\ ToSet(SubSeq(q, 1, 1)) = {Head(q)}
<1>1. SubSeq(q, 1, Len(q)) = q /\ SubSeq(q, Len(q) + 1, Len(q)) = <<>>
  OBVIOUS
<1>2. ASSUME q # <<>> PROVE SubSeq(q, 2, Len(q)) = Tail(q) /\ ToSet(SubSeq(q, 1, 1)) = {Head(q)}
  <2>1. Len(q) \in Nat \ {0} /\ q[1] \in S /\ Head(q) = q[1]
    BY <1>2
  <2>2. /\ Tail(q) \in Seq(S) /\ Len(Tail(q)) = Len(q) - 1
        /\ \A i \in 1 .. Len(q) - 1 : Tail(q)[i] = q[i + 1]
    BY <1>2
  <2>3. /\ SubSeq(q, 2, Len(q)) \in Seq(S) /\ Len(SubSeq(q, 2, Len(q))) = Len(q) - 1
        /\ \A i \in 1 .. Len(q) - 1 : SubSeq(q, 2, Len(q))[i] = q[i + 1]
    BY <2>1
  <2>4. SubSeq(q, 2, Len(q)) = Tail(q)
    BY <2>1, <2>2, <2>3
  <2>5. ToSet(SubSeq(q, 1, 1)) = {q[1]}
    <3> DEFINE a == SubSeq(q, 1, 1)
    <3>1. a \in Seq(S) /\ Len(a) = 1 /\ a[1] = q[1]
      BY <2>1
    <3> HIDE DEF a
    <3>2. \A x : x \in ToSet(a) <=> \E i \in 1 .. Len(a) : a[i] = x
      BY <3>1, SeqFacts
    <3>3. ToSet(a) = {q[1]}
      BY <3>1, <3>2
    <3> QED BY <3>3 DEF a
  <2> QED BY <2>1, <2>4, <2>5
<1> QED BY <1>1, <1>2

-----------------------------------------------------------------------------
(* The inductive invariant *)

QName == {"rop", "icnt_L2", "L2_dram", "dram_L2", "L2_icnt", "missq", "ready"}

\* The queues of a sub-partition that hold no write-backs
Clean == {"dram_L2", "L2_icnt", "ready"}

\* The requests in the queues and the L2 bank of sub-partition state s
Waiting(s) == UNION {ToSet(s.waiting[q]) : q \in DOMAIN s.waiting}
Queued(s)  == UNION {ToSet(s[n]) : n \in QName}
Held(s)    == Queued(s) \cup Waiting(s)

\* Core request r has not been used by the L2 bank yet.
Unused(s, sn, r) == r \notin sn \/ r \in ToSet(s.rop) \/ r \in ToSet(s.icnt_L2)

(* The state s of sub-partition p when the requests K of p are elsewhere, in *)
(* the DRAM channel or on their way between two queues, and sn were sent.   *)
SubUnique(s) ==
  /\ \A n \in QName : NoDup(s[n])
  /\ \A m, n \in QName : m # n => ToSet(s[m]) \cap ToSet(s[n]) = {}
  /\ \A q \in DOMAIN s.waiting : NoDup(s.waiting[q])
  /\ \A q, r \in DOMAIN s.waiting : q # r => ToSet(s.waiting[q]) \cap ToSet(s.waiting[r]) = {}
  /\ Queued(s) \cap Waiting(s) = {}

SubClean(s) ==
  /\ \A n \in Clean : \A r \in ToSet(s[n]) : ~WriteBack(r)
  /\ \A r \in Waiting(s) : ~WriteBack(r)

SubTracked(p, s, K) ==
  /\ K \subseteq Of(p) /\ Held(s) \cap K = {}
  /\ \A r \in Of(p) \cap CoreRequest : r \in s.tracker <=> r \in Held(s) \cup K

SubFresh(p, s, K, sn) ==
  /\ \A r \in Of(p) \cap CoreRequest : r \notin sn => r \notin Held(s) \cup K
  /\ \A r \in Of(p) : Unused(s, sn, r) => /\ r \in DOMAIN AllocOf => AllocOf[r] \notin Held(s) \cup K
                                          /\ r \in DOMAIN VictimOf => VictimOf[r] \notin Held(s) \cup K

SubInv(p, s, K, sn) ==
  SubOK(p, s) /\ SubUnique(s) /\ SubClean(s) /\ SubTracked(p, s, K) /\ SubFresh(p, s, K, sn)

\* What the scheduler of channel d keeps
SchedInv(d) ==
  /\ d.m_num_pending = Len(d.m_queue)
  /\ Len(d.mrqq) <= MrqqSize
  /\ d.scheduler = "FRFCFS" /\ SchedQueueSize # 0 => d.m_num_pending + Len(d.mrqq) <= SchedQueueSize
  /\ d.scheduler = "FRFCFS" => Len(d.mrqq) <= 1
  /\ d.scheduler = "FIFO" => d.m_queue = <<>>
  /\ \A b \in Bank : d.m_last_row[b] # NoRow => Bin(d, b, d.m_last_row[b]) # {}

\* The requests whose bursts are being commanded or transferred
Flight(d) == ({d.mrq[b] : b \in Bank} \ {NoReq}) \cup ToSet(d.rwq)

\* Where the requests of channel d are
ChanUnique(d) ==
  /\ NoDup(d.mrqq) /\ NoDup(d.m_queue) /\ NoDup(d.returnq)
  /\ ToSet(d.mrqq) \cap ToSet(d.m_queue) = {}
  /\ ToSet(d.mrqq) \cap Flight(d) = {} /\ ToSet(d.m_queue) \cap Flight(d) = {}
  /\ ToSet(d.returnq) \cap Unfinished(d) = {}
  /\ \A r \in ToSet(d.returnq) : ~WriteBack(r)

\* How many bursts of r are under way
Bursts(d, r) == Cardinality(Positions(d.rwq, r))

\* Every request in flight still has a burst to be transferred.
BurstInv(d) ==
  /\ \A b \in Bank : d.mrq[b] # NoReq =>
        Attr[d.mrq[b]].bank = b /\ d.tx[d.mrq[b]] < Attr[d.mrq[b]].bursts
  /\ \A r \in Request : /\ d.dq[r] + Bursts(d, r) = d.tx[r] /\ d.tx[r] <= Attr[r].bursts
                        /\ r \notin Flight(d) => d.tx[r] = 0
                        /\ r \in Flight(d) /\ d.mrq[Attr[r].bank] # r => d.tx[r] = Attr[r].bursts

\* q stands before r wherever both are in queue s.
Before(s, q, r) == \A i, j \in DOMAIN s : s[i] = q /\ s[j] = r => i < j

\* Of two requests for one row, the older one is ahead.
Ahead(d, q, r) ==
  /\ q # r /\ q \in Unfinished(d) /\ r \in Unfinished(d)
  /\ Before(d.mrqq, q, r) /\ Before(d.m_queue, q, r) /\ Before(d.rwq, q, r)
  /\ r \in ToSet(d.m_queue) => q \notin ToSet(d.mrqq)
  /\ r \in Flight(d) => q \in Flight(d) /\ q # d.mrq[Attr[q].bank]

OrderInv(d, o) == \A q, r \in Request : <<q, r>> \in o /\ SameRow(q, r) => Ahead(d, q, r)

\* The requests between borrowing a credit and returning it
Channel(st) == InDram(st.dram) \cup ToSet(st.latency)

\* The sub-partitions that hold their private credit
Holders(c) == {p \in SubPartition : c.private[p] > 0}

CreditInv(c, K) ==
  /\ IsFiniteSet(K)
  /\ \A p \in Holders(c) : K \cap Of(p) # {}
  /\ c.shared + Cardinality(Holders(c)) = Cardinality(K)

IsState(st) == st = [sub |-> st.sub, dram |-> st.dram, latency |-> st.latency,
                     credit |-> st.credit, order |-> st.order]

CreditType == [private : [SubPartition -> 0 .. PrivateLimit], shared : Nat, last : SubPartition]

\* What holds of channel d, whose unfinished requests came in order o
ChanInv(d, o) == d \in DramState /\ SchedInv(d) /\ ChanUnique(d) /\ BurstInv(d) /\ OrderInv(d, o)

\* What holds of the sub-partitions f when the requests K are in the channel
SubsInv(f, K, sn) == /\ DOMAIN f = SubPartition
                     /\ \A p \in SubPartition : SubInv(p, f[p], K \cap Of(p), sn)

StateInv(st, sn) ==
  /\ IsState(st) /\ st.order \subseteq Request \X Request /\ ChanInv(st.dram, st.order)
  /\ st.latency \in Seq(Request) /\ NoDup(st.latency) /\ ToSet(st.latency) \cap InDram(st.dram) = {}
  /\ st.credit \in CreditType /\ CreditInv(st.credit, Channel(st))
  /\ SubsInv(st.sub, Channel(st), sn)

-----------------------------------------------------------------------------
(* Queues of a sub-partition *)

LEMMA SubTypes ==
  ASSUME NEW p \in SubPartition, NEW s, SubOK(p, s)
  PROVE  /\ \A n \in QName : s[n] \in Seq(Of(p))
         /\ s.rop \in Seq(Of(p) \cap CoreRequest) /\ s.icnt_L2 \in Seq(Of(p) \cap CoreRequest)
         /\ s.tracker \subseteq Of(p)
         /\ DOMAIN s = QName \cup {"tracker", "waiting"}
<1>1. \A S : S \in Seq(Of(p) \cap CoreRequest) => S \in Seq(Of(p))
  OBVIOUS
<1>2. s.rop \in Seq(Of(p) \cap CoreRequest) /\ s.icnt_L2 \in Seq(Of(p) \cap CoreRequest) /\ s.tracker \subseteq Of(p)
  BY DEF SubOK
<1>3. s.L2_dram \in Seq(Of(p)) /\ s.dram_L2 \in Seq(Of(p)) /\ s.L2_icnt \in Seq(Of(p))
      /\ s.missq \in Seq(Of(p)) /\ s.ready \in Seq(Of(p))
  BY DEF SubOK
<1>4. DOMAIN s = QName \cup {"tracker", "waiting"}
  BY DEF SubOK, QName
<1> QED BY <1>1, <1>2, <1>3, <1>4 DEF QName

Room(n) == CASE n = "icnt_L2" -> IcntL2 [] n = "L2_icnt" -> L2Icnt [] n = "L2_dram" -> L2Dram
             [] n = "dram_L2" -> DramL2 [] n = "missq" -> MissQueueSize
Bounded == {"icnt_L2", "L2_icnt", "L2_dram", "dram_L2", "missq"}
Holds(p, n) == IF n \in {"rop", "icnt_L2"} THEN Of(p) \cap CoreRequest ELSE Of(p)

SetAt(s, n, v) == [s EXCEPT ![n] = v]

\* One queue, the tracker or the waiting accesses are replaced.
LEMMA SubQueue ==
  ASSUME NEW p \in SubPartition, NEW s, SubOK(p, s), NEW n \in QName, NEW v \in Seq(Holds(p, n)),
         n \in Bounded => Len(v) <= Room(n)
  PROVE  /\ SubOK(p, SetAt(s, n, v))
         /\ SetAt(s, n, v)[n] = v
         /\ \A m \in QName : m # n => SetAt(s, n, v)[m] = s[m]
         /\ SetAt(s, n, v).tracker = s.tracker /\ SetAt(s, n, v).waiting = s.waiting
<1> USE DEF QName, Bounded, Room, Holds, SetAt
<1>0. DOMAIN s = QName \cup {"tracker", "waiting"}
  BY SubTypes
<1>1. CASE n = "rop"
  BY <1>0, <1>1 DEF SubOK
<1>2. CASE n = "icnt_L2"
  BY <1>0, <1>2 DEF SubOK
<1>3. CASE n = "L2_dram"
  BY <1>0, <1>3 DEF SubOK
<1>4. CASE n = "dram_L2"
  BY <1>0, <1>4 DEF SubOK
<1>5. CASE n = "L2_icnt"
  BY <1>0, <1>5 DEF SubOK
<1>6. CASE n = "missq"
  BY <1>0, <1>6 DEF SubOK
<1>7. CASE n = "ready"
  BY <1>0, <1>7 DEF SubOK
<1> QED BY <1>1, <1>2, <1>3, <1>4, <1>5, <1>6, <1>7

LEMMA SubTracker ==
  ASSUME NEW p \in SubPartition, NEW s, SubOK(p, s), NEW v, v \subseteq Of(p)
  PROVE  /\ SubOK(p, SetAt(s, "tracker", v))
         /\ \A m \in QName : SetAt(s, "tracker", v)[m] = s[m]
         /\ SetAt(s, "tracker", v).tracker = v /\ SetAt(s, "tracker", v).waiting = s.waiting
<1>0. DOMAIN s = QName \cup {"tracker", "waiting"}
  BY SubTypes
<1> QED BY <1>0 DEF SubOK, QName, SetAt

LEMMA SubWaiting ==
  ASSUME NEW p \in SubPartition, NEW s, SubOK(p, s), NEW v, DOMAIN v \subseteq Of(p),
         \A q \in DOMAIN v : v[q] \in Seq(Of(p))
  PROVE  /\ SubOK(p, SetAt(s, "waiting", v))
         /\ \A m \in QName : SetAt(s, "waiting", v)[m] = s[m]
         /\ SetAt(s, "waiting", v).tracker = s.tracker /\ SetAt(s, "waiting", v).waiting = v
<1>0. DOMAIN s = QName \cup {"tracker", "waiting"}
  BY SubTypes
<1> QED BY <1>0 DEF SubOK, QName, SetAt

-----------------------------------------------------------------------------
(* Moving requests into and out of a sub-partition *)

\* What SubInv says, one request at a time
LEMMA HeldFacts ==
  ASSUME NEW s
  PROVE  \A r : r \in Held(s) <=> \/ \E n \in QName : r \in ToSet(s[n])
                                  \/ \E q \in DOMAIN s.waiting : r \in ToSet(s.waiting[q])
BY DEF Held, Queued, Waiting

\* The requests the L2 bank makes for r
MadeFor(r) == (IF r \in DOMAIN AllocOf THEN {AllocOf[r]} ELSE {})
              \cup (IF r \in DOMAIN VictimOf THEN {VictimOf[r]} ELSE {})

LEMMA FreshFacts ==
  ASSUME NEW p, NEW s, NEW K, NEW sn
  PROVE  SubFresh(p, s, K, sn) <=>
           /\ \A r \in Of(p) \cap CoreRequest : r \notin sn => r \notin Held(s) \cup K
           /\ \A r \in Of(p) : Unused(s, sn, r) => MadeFor(r) \cap (Held(s) \cup K) = {}
BY DEF SubFresh, MadeFor

\* Request r, which was elsewhere, may be put into queue n, and is.
MayPut(p, s, K, n, r) ==
  /\ r \in K /\ r \in Holds(p, n)
  /\ n \in Bounded => Len(s[n]) < Room(n)
  /\ n \in Clean => ~WriteBack(r)
  /\ n \in {"rop", "icnt_L2"} => MadeFor(r) \cap (Held(s) \cup K) = {}
PutAt(s, n, r) == SetAt(s, n, Append(s[n], r))
IsPut(p, s, K, sn, n, r, t) ==
  /\ SubInv(p, t, K \ {r}, sn)
  /\ Held(t) = Held(s) \cup {r}
  /\ \A m \in QName : m # n => t[m] = s[m]
  /\ t.waiting = s.waiting /\ t.tracker = s.tracker

LEMMA SubPut ==
  ASSUME NEW p \in SubPartition, NEW s, NEW K, NEW sn, SubInv(p, s, K, sn),
         NEW n \in QName, NEW r, MayPut(p, s, K, n, r), NEW t, t = PutAt(s, n, r)
  PROVE  IsPut(p, s, K, sn, n, r, t)
<1> DEFINE v == Append(s[n], r)
<1>a. /\ r \in K /\ r \in Holds(p, n)
      /\ n \in Bounded => Len(s[n]) < Room(n)
      /\ n \in Clean => ~WriteBack(r)
      /\ n \in {"rop", "icnt_L2"} => MadeFor(r) \cap (Held(s) \cup K) = {}
      /\ t = SetAt(s, n, Append(s[n], r))
  BY DEF MayPut, PutAt
<1>0. SubOK(p, s) /\ SubUnique(s) /\ SubClean(s) /\ SubTracked(p, s, K) /\ SubFresh(p, s, K, sn)
  BY DEF SubInv
<1>1. s[n] \in Seq(Holds(p, n))
  BY <1>0, SubTypes DEF Holds
<1>2. r \in Of(p) /\ r \notin Held(s)
  BY <1>0, <1>a DEF SubTracked
<1>3. r \notin ToSet(s[n]) /\ r \notin Waiting(s) /\ \A m \in QName : r \notin ToSet(s[m])
  BY <1>2, HeldFacts DEF Held
<1>4. /\ v \in Seq(Holds(p, n)) /\ Len(v) = Len(s[n]) + 1 /\ Len(s[n]) \in Nat
      /\ ToSet(v) = ToSet(s[n]) \cup {r} /\ (NoDup(s[n]) => NoDup(v))
  BY <1>1, <1>3, <1>a, SeqAppend, SeqFacts
<1>5. n \in Bounded => Len(v) <= Room(n)
  <2>1. n \in Bounded => Room(n) \in Nat
    BY PartitionAssumption DEF Room, Bounded
  <2> QED BY <1>4, <1>a, <2>1
<1> HIDE DEF v
<1>6. /\ SubOK(p, t) /\ t[n] = v /\ \A m \in QName : m # n => t[m] = s[m]
      /\ t.tracker = s.tracker /\ t.waiting = s.waiting
  <2>1. t = SetAt(s, n, v)
    BY <1>a DEF v
  <2> QED BY <1>0, <1>4, <1>5, <2>1, SubQueue
<1>7. Held(t) = Held(s) \cup {r} /\ Queued(t) = Queued(s) \cup {r} /\ Waiting(t) = Waiting(s)
  <2>1. ToSet(t[n]) = ToSet(s[n]) \cup {r} /\ (\A m \in QName : m # n => t[m] = s[m]) /\ t.waiting = s.waiting
    BY <1>4, <1>6
  <2>2. Waiting(t) = Waiting(s)
    BY <2>1 DEF Waiting
  <2>3. ASSUME NEW x \in Queued(t) PROVE x \in Queued(s) \cup {r}
    BY <2>1 DEF Queued
  <2>4. ASSUME NEW x \in Queued(s) \cup {r} PROVE x \in Queued(t)
    BY <2>1 DEF Queued
  <2> QED BY <2>2, <2>3, <2>4 DEF Held
<1>8. SubUnique(t)
  <2>1. \A m \in QName : NoDup(t[m])
    BY <1>0, <1>4, <1>6 DEF SubUnique
  <2>2. \A m, k \in QName : m # k => ToSet(t[m]) \cap ToSet(t[k]) = {}
    <3> SUFFICES ASSUME NEW m \in QName, NEW k \in QName, m # k, NEW x, x \in ToSet(t[m]), x \in ToSet(t[k])
                 PROVE  FALSE
      OBVIOUS
    <3>1. \A l \in QName : ToSet(t[l]) = ToSet(s[l]) \cup (IF l = n THEN {r} ELSE {})
      BY <1>4, <1>6
    <3>2. ToSet(s[m]) \cap ToSet(s[k]) = {}
      BY <1>0 DEF SubUnique
    <3> QED BY <1>3, <3>1, <3>2
  <2>3. Queued(t) \cap Waiting(t) = {}
    BY <1>0, <1>3, <1>7 DEF SubUnique
  <2> QED BY <1>0, <1>6, <2>1, <2>2, <2>3 DEF SubUnique
<1>9. SubClean(t)
  BY <1>0, <1>4, <1>6, <1>7, <1>a DEF SubClean, Clean, QName
<1>10. SubTracked(p, t, K \ {r})
  BY <1>0, <1>6, <1>7, <1>a DEF SubTracked
<1>11. SubFresh(p, t, K \ {r}, sn)
  <2>1. Held(t) \cup (K \ {r}) = Held(s) \cup K
    BY <1>7, <1>a
  <2>2. \A x : Unused(t, sn, x) => Unused(s, sn, x) \/ (x = r /\ n \in {"rop", "icnt_L2"})
    BY <1>4, <1>6 DEF Unused, QName
  <2> QED BY <1>0, <1>a, <2>1, <2>2, FreshFacts
<1> QED BY <1>6, <1>7, <1>8, <1>9, <1>10, <1>11 DEF SubInv, IsPut

\* The first request r of queue n is taken.
TakeFrom(s, n) == SetAt(s, n, Tail(s[n]))
IsTaken(p, s, K, sn, n, r, t) ==
  /\ SubInv(p, t, K \cup {r}, sn)
  /\ Held(t) = Held(s) \ {r}
  /\ r \in Held(s) /\ r \in ToSet(s[n]) /\ r \in Holds(p, n) /\ r \in Of(p) /\ r \notin K
  /\ t[n] = Tail(s[n]) /\ \A m \in QName : m # n => t[m] = s[m]
  /\ t.waiting = s.waiting /\ t.tracker = s.tracker
  /\ n \in {"rop", "icnt_L2"} => MadeFor(r) \cap (Held(s) \cup K) = {}

LEMMA SubTake ==
  ASSUME NEW p \in SubPartition, NEW s, NEW K, NEW sn, SubInv(p, s, K, sn),
         NEW n \in QName, s[n] # <<>>
  PROVE  IsTaken(p, s, K, sn, n, Head(s[n]), TakeFrom(s, n))
<1>a. PICK r : r = Head(s[n])
  OBVIOUS
<1>b. PICK t : t = TakeFrom(s, n)
  OBVIOUS
<1> DEFINE v == Tail(s[n])
<1>0. SubOK(p, s) /\ SubUnique(s) /\ SubClean(s) /\ SubTracked(p, s, K) /\ SubFresh(p, s, K, sn)
  BY DEF SubInv
<1>1. s[n] \in Seq(Holds(p, n))
  BY <1>0, SubTypes DEF Holds
<1>2. NoDup(s[n])
  BY <1>0 DEF SubUnique
<1>4. /\ v \in Seq(Holds(p, n)) /\ Len(v) = Len(s[n]) - 1 /\ Len(s[n]) \in Nat
      /\ ToSet(v) = ToSet(s[n]) \ {r} /\ NoDup(v) /\ r \in ToSet(s[n]) /\ r \in Holds(p, n)
  BY <1>1, <1>2, <1>a, SeqTail, SeqFacts
<1>5. n \in Bounded => Len(v) <= Room(n)
  <2>1. n \in Bounded => Room(n) \in Nat /\ Len(s[n]) <= Room(n)
    BY <1>0, PartitionAssumption DEF Room, Bounded, SubOK
  <2> QED BY <1>4, <2>1
<1> HIDE DEF v
<1>6. /\ SubOK(p, t) /\ t[n] = v /\ \A m \in QName : m # n => t[m] = s[m]
      /\ t.tracker = s.tracker /\ t.waiting = s.waiting
  <2>1. t = SetAt(s, n, v)
    BY <1>b DEF v, TakeFrom
  <2> QED BY <1>0, <1>4, <1>5, <2>1, SubQueue
<1>7. /\ Held(t) = Held(s) \ {r} /\ Queued(t) = Queued(s) \ {r} /\ Waiting(t) = Waiting(s)
      /\ r \in Held(s)
  <2>1. ToSet(t[n]) = ToSet(s[n]) \ {r} /\ (\A m \in QName : m # n => t[m] = s[m]) /\ t.waiting = s.waiting
    BY <1>4, <1>6
  <2>2. Waiting(t) = Waiting(s)
    BY <2>1 DEF Waiting
  <2>3. r \in Queued(s) /\ \A m \in QName : m # n => r \notin ToSet(s[m])
    BY <1>0, <1>4 DEF SubUnique, Queued
  <2>4. ASSUME NEW x \in Queued(t) PROVE x \in Queued(s) \ {r}
    BY <2>1, <2>3 DEF Queued
  <2>5. ASSUME NEW x \in Queued(s) \ {r} PROVE x \in Queued(t)
    BY <2>1 DEF Queued
  <2>6. r \notin Waiting(s)
    BY <1>0, <2>3 DEF SubUnique
  <2> QED BY <2>2, <2>3, <2>4, <2>5, <2>6 DEF Held
<1>3. r \in Of(p) /\ r \notin K
  BY <1>0, <1>4, <1>7 DEF Holds, SubTracked
<1>8. SubUnique(t)
  <2>1. \A m \in QName : NoDup(t[m])
    BY <1>0, <1>4, <1>6 DEF SubUnique
  <2>2. \A m, k \in QName : m # k => ToSet(t[m]) \cap ToSet(t[k]) = {}
    <3> SUFFICES ASSUME NEW m \in QName, NEW k \in QName, m # k, NEW x, x \in ToSet(t[m]), x \in ToSet(t[k])
                 PROVE  FALSE
      OBVIOUS
    <3>1. \A l \in QName : ToSet(t[l]) \subseteq ToSet(s[l])
      BY <1>4, <1>6
    <3>2. ToSet(s[m]) \cap ToSet(s[k]) = {}
      BY <1>0 DEF SubUnique
    <3> QED BY <3>1, <3>2
  <2>3. Queued(t) \cap Waiting(t) = {}
    BY <1>0, <1>7 DEF SubUnique
  <2> QED BY <1>0, <1>6, <2>1, <2>2, <2>3 DEF SubUnique
<1>9. SubClean(t)
  BY <1>0, <1>4, <1>6, <1>7 DEF SubClean, Clean, QName
<1>10. SubTracked(p, t, K \cup {r})
  BY <1>0, <1>3, <1>6, <1>7 DEF SubTracked
<1>11. SubFresh(p, t, K \cup {r}, sn)
  <2>1. Held(t) \cup (K \cup {r}) = Held(s) \cup K
    BY <1>7
  <2>2. \A x : Unused(t, sn, x) => Unused(s, sn, x)
    BY <1>4, <1>6 DEF Unused, QName
  <2> QED BY <1>0, <2>1, <2>2, FreshFacts
<1>12. n \in {"rop", "icnt_L2"} => MadeFor(r) \cap (Held(s) \cup K) = {}
  BY <1>0, <1>3, <1>4, FreshFacts DEF Unused
<1>13. SubInv(p, t, K \cup {r}, sn)
  BY <1>6, <1>8, <1>9, <1>10, <1>11 DEF SubInv
<1>14. IsTaken(p, s, K, sn, n, r, t)
  BY <1>3, <1>4, <1>6, <1>7, <1>12, <1>13 DEF IsTaken, v
<1> QED BY <1>a, <1>b, <1>14, Zenon

\* A request elsewhere ends and is no longer tracked.
Forget(s, r) == SetAt(s, "tracker", s.tracker \ {r})
IsForgotten(p, s, K, sn, r, t) ==
  /\ SubInv(p, t, K \ {r}, sn)
  /\ Held(t) = Held(s)
  /\ \A m \in QName : t[m] = s[m]
  /\ t.waiting = s.waiting

LEMMA SubForget ==
  ASSUME NEW p \in SubPartition, NEW s, NEW K, NEW sn, SubInv(p, s, K, sn), NEW r \in K,
         NEW t, t = Forget(s, r)
  PROVE  IsForgotten(p, s, K, sn, r, t)
<1> DEFINE v == s.tracker \ {r}
<1>0. SubOK(p, s) /\ SubUnique(s) /\ SubClean(s) /\ SubTracked(p, s, K) /\ SubFresh(p, s, K, sn)
  BY DEF SubInv
<1>1. v \subseteq Of(p)
  BY <1>0, SubTypes
<1> HIDE DEF v
<1>2. /\ SubOK(p, t) /\ \A m \in QName : t[m] = s[m]
      /\ t.tracker = v /\ t.waiting = s.waiting
  <2>1. t = SetAt(s, "tracker", v)
    BY DEF v, Forget
  <2>2. /\ SubOK(p, SetAt(s, "tracker", v))
        /\ \A m \in QName : SetAt(s, "tracker", v)[m] = s[m]
        /\ SetAt(s, "tracker", v).tracker = v /\ SetAt(s, "tracker", v).waiting = s.waiting
    BY <1>0, <1>1, SubTracker
  <2> QED BY <2>1, <2>2
<1>3. Held(t) = Held(s) /\ Queued(t) = Queued(s) /\ Waiting(t) = Waiting(s)
  BY <1>2 DEF Held, Queued, Waiting
<1>4. SubUnique(t) /\ SubClean(t)
  BY <1>0, <1>2, <1>3 DEF SubUnique, SubClean, Clean, QName
<1>5. SubTracked(p, t, K \ {r})
  BY <1>0, <1>2, <1>3 DEF SubTracked, v
<1>6. SubFresh(p, t, K \ {r}, sn)
  <2>1. \A x : Unused(t, sn, x) => Unused(s, sn, x)
    BY <1>2 DEF Unused, QName
  <2> QED BY <1>0, <1>3, <2>1, FreshFacts
<1> QED BY <1>2, <1>3, <1>4, <1>5, <1>6 DEF SubInv, IsForgotten

\* The L2 bank makes a request for access x, which it takes.
LEMMA SubMake ==
  ASSUME NEW p \in SubPartition, NEW s, NEW K, NEW sn, SubInv(p, s, K, sn),
         NEW x \in Of(p), NEW r \in MadeFor(x), r \notin Held(s) \cup K, ~Unused(s, sn, x)
  PROVE  SubInv(p, s, K \cup {r}, sn)
<1>0. SubOK(p, s) /\ SubUnique(s) /\ SubClean(s) /\ SubTracked(p, s, K) /\ SubFresh(p, s, K, sn)
  BY DEF SubInv
<1>1. r \in Of(p) /\ r \notin CoreRequest
  BY RequestAssumption DEF MadeFor, Of, CoreRequest
<1>2. \A y \in Of(p) : r \in MadeFor(y) => y = x
  <2> SUFFICES ASSUME NEW y \in Of(p), r \in MadeFor(y) PROVE y = x
    OBVIOUS
  <2>1. CASE Attr[r].kind = "L2_WRBK"
    <3>1. x \in DOMAIN VictimOf /\ r = VictimOf[x] /\ y \in DOMAIN VictimOf /\ r = VictimOf[y]
      BY <2>1, RequestAssumption DEF MadeFor
    <3> QED BY <3>1, RequestAssumption
  <2>2. CASE Attr[r].kind # "L2_WRBK"
    <3>1. x \in DOMAIN AllocOf /\ r = AllocOf[x] /\ y \in DOMAIN AllocOf /\ r = AllocOf[y]
      BY <2>2, RequestAssumption DEF MadeFor
    <3> QED BY <3>1, RequestAssumption
  <2> QED BY <2>1, <2>2
<1>3. SubTracked(p, s, K \cup {r})
  BY <1>0, <1>1 DEF SubTracked
<1>4. SubFresh(p, s, K \cup {r}, sn)
  BY <1>0, <1>1, <1>2, FreshFacts
<1> QED BY <1>0, <1>3, <1>4 DEF SubInv

\* The first request of queue m moves to the end of queue n.
LEMMA SubMove ==
  ASSUME NEW p \in SubPartition, NEW s, NEW K, NEW sn, SubInv(p, s, K, sn),
         NEW m \in QName, NEW n \in QName, m # n, s[m] # <<>>, Head(s[m]) \in Holds(p, n),
         n \in Bounded => Len(s[n]) < Room(n), n \in Clean => ~WriteBack(Head(s[m])),
         n \in {"rop", "icnt_L2"} => m \in {"rop", "icnt_L2"}
  PROVE  SubInv(p, [s EXCEPT ![m] = Tail(@), ![n] = Append(@, Head(s[m]))], K, sn)
<1>1. PICK r : r = Head(s[m])
  OBVIOUS
<1>2. PICK t : t = TakeFrom(s, m)
  OBVIOUS
<1>3. PICK L : L = K \cup {r}
  OBVIOUS
<1>4. IsTaken(p, s, K, sn, m, r, t)
  <2>1. IsTaken(p, s, K, sn, m, Head(s[m]), TakeFrom(s, m))
    BY SubTake
  <2> QED BY <1>1, <1>2, <2>1, Zenon
<1>5. SubInv(p, t, L, sn) /\ L \ {r} = K /\ Held(t) \cup L = Held(s) \cup K
  BY <1>3, <1>4 DEF IsTaken
<1>6. MayPut(p, t, L, n, r)
  BY <1>1, <1>3, <1>4, <1>5 DEF IsTaken, MayPut
<1>7. PICK u : u = PutAt(t, n, r)
  OBVIOUS
<1>8. IsPut(p, t, L, sn, n, r, u)
  BY <1>5, <1>6, <1>7, SubPut
<1>9. DOMAIN s = QName \cup {"tracker", "waiting"}
  BY SubTypes DEF SubInv
<1>10. [s EXCEPT ![m] = Tail(@), ![n] = Append(@, Head(s[m]))] = u
  BY <1>1, <1>2, <1>7, <1>9 DEF SetAt, TakeFrom, PutAt
<1> QED BY <1>5, <1>8, <1>10 DEF IsPut

\* The first request of queue m ends and is no longer tracked.
LEMMA SubEnd ==
  ASSUME NEW p \in SubPartition, NEW s, NEW K, NEW sn, SubInv(p, s, K, sn),
         NEW m \in QName, s[m] # <<>>
  PROVE  SubInv(p, [s EXCEPT ![m] = Tail(@), !.tracker = @ \ {Head(s[m])}], K, sn)
<1>1. PICK r : r = Head(s[m])
  OBVIOUS
<1>2. PICK t : t = TakeFrom(s, m)
  OBVIOUS
<1>3. PICK L : L = K \cup {r}
  OBVIOUS
<1>4. IsTaken(p, s, K, sn, m, r, t)
  <2>1. IsTaken(p, s, K, sn, m, Head(s[m]), TakeFrom(s, m))
    BY SubTake
  <2> QED BY <1>1, <1>2, <2>1, Zenon
<1>5. SubInv(p, t, L, sn) /\ L \ {r} = K /\ r \in L
  BY <1>3, <1>4 DEF IsTaken
<1>7. PICK u : u = Forget(t, r)
  OBVIOUS
<1>8. IsForgotten(p, t, L, sn, r, u)
  BY <1>5, <1>7, SubForget
<1>9. DOMAIN s = QName \cup {"tracker", "waiting"}
  BY SubTypes DEF SubInv
<1>10. [s EXCEPT ![m] = Tail(@), !.tracker = @ \ {Head(s[m])}] = u
  BY <1>1, <1>2, <1>4, <1>7, <1>9 DEF SetAt, TakeFrom, Forget, QName, IsTaken
<1> QED BY <1>5, <1>8, <1>10 DEF IsForgotten

LEMMA MissInv ==
  ASSUME NEW p \in SubPartition, NEW s, NEW K, NEW sn, SubInv(p, s, K, sn)
  PROVE  SubInv(p, MissStage(s), K, sn)
<1>1. CASE s.missq = <<>> \/ Len(s.L2_dram) >= L2Dram
  BY <1>1 DEF MissStage
<1>2. CASE ~(s.missq = <<>> \/ Len(s.L2_dram) >= L2Dram)
  <2>1. s["missq"] # <<>> /\ s["missq"] \in Seq(Of(p)) /\ s["L2_dram"] \in Seq(Of(p))
    BY <1>2, SubTypes DEF SubInv, QName
  <2>2. Head(s["missq"]) \in Of(p) /\ Len(s["L2_dram"]) < L2Dram
    BY <1>2, <2>1, SeqTail, PartitionAssumption
  <2>3. SubInv(p, [s EXCEPT !["missq"] = Tail(@), !["L2_dram"] = Append(@, Head(s["missq"]))], K, sn)
    BY <2>1, <2>2, SubMove DEF Holds, Bounded, Room, Clean, QName
  <2> QED BY <1>2, <2>3 DEF MissStage
<1> QED BY <1>1, <1>2

LEMMA RopInv ==
  ASSUME NEW p \in SubPartition, NEW s, NEW K, NEW sn, SubInv(p, s, K, sn), NEW ripe
  PROVE  SubInv(p, RopStage(s, ripe), K, sn)
<1>1. CASE ~ripe \/ s.rop = <<>> \/ Len(s.icnt_L2) >= IcntL2
  BY <1>1 DEF RopStage
<1>2. CASE ~(~ripe \/ s.rop = <<>> \/ Len(s.icnt_L2) >= IcntL2)
  <2>1. s["rop"] # <<>> /\ s["rop"] \in Seq(Of(p) \cap CoreRequest) /\ s["icnt_L2"] \in Seq(Of(p))
    BY <1>2, SubTypes DEF SubInv, QName
  <2>2. Head(s["rop"]) \in Of(p) \cap CoreRequest /\ Len(s["icnt_L2"]) < IcntL2
    BY <1>2, <2>1, SeqTail, PartitionAssumption
  <2>3. SubInv(p, [s EXCEPT !["rop"] = Tail(@), !["icnt_L2"] = Append(@, Head(s["rop"]))], K, sn)
    BY <2>1, <2>2, SubMove DEF Holds, Bounded, Room, Clean, QName
  <2> QED BY <1>2, <2>3 DEF RopStage
<1> QED BY <1>1, <1>2

LEMMA RespondInv ==
  ASSUME NEW p \in SubPartition, NEW s, NEW K, NEW sn, SubInv(p, s, K, sn)
  PROVE  SubInv(p, RespondStage(s), K, sn)
<1>1. CASE s.ready = <<>> \/ Len(s.L2_icnt) >= L2Icnt
  BY <1>1 DEF RespondStage
<1>2. CASE ~(s.ready = <<>> \/ Len(s.L2_icnt) >= L2Icnt)
  <2>1. s["ready"] # <<>> /\ s["ready"] \in Seq(Of(p)) /\ s["L2_icnt"] \in Seq(Of(p))
    BY <1>2, SubTypes DEF SubInv, QName
  <2>2. /\ Head(s["ready"]) \in Of(p) /\ Head(s["ready"]) \in ToSet(s["ready"])
        /\ Len(s["L2_icnt"]) < L2Icnt
    BY <1>2, <2>1, SeqTail, PartitionAssumption
  <2>3. ~WriteBack(Head(s["ready"]))
    BY <2>2 DEF SubInv, SubClean, Clean
  <2>4. CASE Attr[Head(s.ready)].kind = "L2_WR_ALLOC_R"
    <3>1. SubInv(p, [s EXCEPT !["ready"] = Tail(@), !.tracker = @ \ {Head(s["ready"])}], K, sn)
      BY <2>1, SubEnd DEF QName
    <3> QED BY <1>2, <2>4, <3>1 DEF RespondStage
  <2>5. CASE Attr[Head(s.ready)].kind # "L2_WR_ALLOC_R"
    <3>1. SubInv(p, [s EXCEPT !["ready"] = Tail(@), !["L2_icnt"] = Append(@, Head(s["ready"]))], K, sn)
      BY <2>1, <2>2, <2>3, SubMove DEF Holds, Bounded, Room, Clean, QName
    <3> QED BY <1>2, <2>5, <3>1 DEF RespondStage
  <2> QED BY <2>4, <2>5
<1> QED BY <1>1, <1>2

-----------------------------------------------------------------------------
(* The accesses that wait in the L2 bank *)

\* The requests of s and those elsewhere are, together, those of t and L.
LEMMA SubRearrange ==
  ASSUME NEW p \in SubPartition, NEW s, NEW K, NEW sn, SubInv(p, s, K, sn),
         NEW t, SubOK(p, t), SubUnique(t), SubClean(t), t.rop = s.rop, t.icnt_L2 = s.icnt_L2,
         t.tracker = s.tracker,
         NEW L, L \subseteq Of(p), Held(t) \cap L = {}, Held(t) \cup L = Held(s) \cup K
  PROVE  SubInv(p, t, L, sn)
<1>1. SubTracked(p, t, L)
  BY DEF SubInv, SubTracked
<1>2. \A r : Unused(t, sn, r) => Unused(s, sn, r)
  BY DEF Unused
<1>3. SubFresh(p, t, L, sn)
  BY <1>2, FreshFacts DEF SubInv
<1> QED BY <1>1, <1>3 DEF SubInv

Wake(s, r) == [s EXCEPT !.ready = @ \o s.waiting[r], !.waiting = [q \in DOMAIN @ \ {r} |-> @[q]]]

\* The accesses that waited for r are answered.
LEMMA SubWake ==
  ASSUME NEW p \in SubPartition, NEW s, NEW K, NEW sn, SubInv(p, s, K, sn),
         NEW r \in DOMAIN s.waiting
  PROVE  SubInv(p, Wake(s, r), K, sn)
<1> DEFINE w == [q \in DOMAIN s.waiting \ {r} |-> s.waiting[q]]
<1>0. SubOK(p, s) /\ SubUnique(s) /\ SubClean(s) /\ K \subseteq Of(p) /\ Held(s) \cap K = {}
  BY DEF SubInv, SubTracked
<1>1. PICK x : x = s.waiting[r]
  OBVIOUS
<1>2. PICK y : y = s["ready"]
  OBVIOUS
<1>3. x \in Seq(Of(p)) /\ y \in Seq(Of(p)) /\ NoDup(x) /\ NoDup(y)
  BY <1>0, <1>1, <1>2, SubTypes DEF SubOK, SubUnique, QName
<1>4. ToSet(x) \subseteq Waiting(s) /\ ToSet(y) \subseteq Queued(s) /\ Queued(s) \cap Waiting(s) = {}
  BY <1>0, <1>1, <1>2 DEF Waiting, Queued, SubUnique, QName
<1>5. PICK v : v = y \o x
  OBVIOUS
<1>6. v \in Seq(Of(p)) /\ ToSet(v) = ToSet(y) \cup ToSet(x) /\ NoDup(v)
  <2>1. ToSet(y) \cap ToSet(x) = {}
    BY <1>4
  <2> QED BY <1>3, <1>5, <2>1, SeqConcat
<1>7. DOMAIN w \subseteq Of(p) /\ \A q \in DOMAIN w : w[q] \in Seq(Of(p)) /\ w[q] = s.waiting[q]
  BY <1>0 DEF SubOK
<1> HIDE DEF w
<1>8. PICK u : u = SetAt(s, "ready", v)
  OBVIOUS
<1>9. /\ SubOK(p, u) /\ u.ready = v /\ \A m \in QName : m # "ready" => u[m] = s[m]
      /\ u.tracker = s.tracker /\ u.waiting = s.waiting
  <2>1. "ready" \in QName /\ "ready" \notin Bounded /\ v \in Seq(Holds(p, "ready"))
    BY <1>6 DEF QName, Bounded, Holds
  <2>2. /\ SubOK(p, SetAt(s, "ready", v)) /\ SetAt(s, "ready", v)["ready"] = v
        /\ \A m \in QName : m # "ready" => SetAt(s, "ready", v)[m] = s[m]
        /\ SetAt(s, "ready", v).tracker = s.tracker /\ SetAt(s, "ready", v).waiting = s.waiting
    BY <1>0, <2>1, SubQueue
  <2> QED BY <1>8, <2>2
<1>10. PICK t : t = SetAt(u, "waiting", w)
  OBVIOUS
<1>11. /\ SubOK(p, t) /\ t.ready = v /\ \A m \in QName : m # "ready" => t[m] = s[m]
       /\ t.tracker = s.tracker /\ t.waiting = w
  <2>1. /\ SubOK(p, SetAt(u, "waiting", w)) /\ \A m \in QName : SetAt(u, "waiting", w)[m] = u[m]
        /\ SetAt(u, "waiting", w).tracker = u.tracker /\ SetAt(u, "waiting", w).waiting = w
    BY <1>7, <1>9, SubWaiting
  <2> QED BY <1>9, <1>10, <2>1 DEF QName
<1>12. Wake(s, r) = t
  <2>1. DOMAIN s = QName \cup {"tracker", "waiting"}
    BY <1>0, SubTypes
  <2>2. Wake(s, r) = [s EXCEPT !.ready = v, !.waiting = w]
    BY <1>1, <1>2, <1>5, <2>1 DEF Wake, w, QName
  <2> QED BY <1>8, <1>10, <2>1, <2>2 DEF SetAt, QName
<1>13. DOMAIN w = DOMAIN s.waiting \ {r}
  BY DEF w
<1>14. /\ \A n \in QName : ToSet(t[n]) = ToSet(s[n]) \cup (IF n = "ready" THEN ToSet(x) ELSE {})
       /\ \A n \in QName : NoDup(t[n])
  BY <1>0, <1>2, <1>6, <1>11 DEF SubUnique
<1>15. Queued(t) = Queued(s) \cup ToSet(x)
  <2>1. ASSUME NEW z \in Queued(t) PROVE z \in Queued(s) \cup ToSet(x)
    BY <1>14, <2>1 DEF Queued
  <2>2. ASSUME NEW z \in Queued(s) \cup ToSet(x) PROVE z \in Queued(t)
    BY <1>14, <2>2 DEF Queued, QName
  <2> QED BY <2>1, <2>2
<1>16. Waiting(t) = Waiting(s) \ ToSet(x)
  <2>1. ASSUME NEW z \in Waiting(t) PROVE z \in Waiting(s) \ ToSet(x)
    <3>1. PICK q \in DOMAIN s.waiting \ {r} : z \in ToSet(s.waiting[q])
      BY <1>7, <1>11, <1>13, <2>1 DEF Waiting
    <3>2. ToSet(s.waiting[q]) \cap ToSet(x) = {}
      BY <1>0, <1>1 DEF SubUnique
    <3> QED BY <3>1, <3>2 DEF Waiting
  <2>2. ASSUME NEW z \in Waiting(s) \ ToSet(x) PROVE z \in Waiting(t)
    <3>1. PICK q \in DOMAIN s.waiting : z \in ToSet(s.waiting[q])
      BY <2>2 DEF Waiting
    <3>2. q \in DOMAIN t.waiting /\ t.waiting[q] = s.waiting[q]
      BY <1>1, <1>7, <1>11, <1>13, <2>2, <3>1
    <3> QED BY <3>1, <3>2 DEF Waiting
  <2> QED BY <2>1, <2>2
<1>17. SubUnique(t)
  <2>1. \A m, n \in QName : m # n => ToSet(t[m]) \cap ToSet(t[n]) = {}
    <3> SUFFICES ASSUME NEW m \in QName, NEW n \in QName, m # n, NEW z, z \in ToSet(t[m]), z \in ToSet(t[n])
                 PROVE  FALSE
      OBVIOUS
    <3>1. ToSet(s[m]) \cap ToSet(s[n]) = {}
      BY <1>0 DEF SubUnique
    <3>2. \A l \in QName : ToSet(s[l]) \cap ToSet(x) = {}
      BY <1>4 DEF Queued
    <3> QED BY <1>14, <3>1, <3>2
  <2>2. \A q \in DOMAIN t.waiting : NoDup(t.waiting[q])
    BY <1>0, <1>7, <1>11, <1>13 DEF SubUnique
  <2>3. \A q, z \in DOMAIN t.waiting : q # z => ToSet(t.waiting[q]) \cap ToSet(t.waiting[z]) = {}
    BY <1>0, <1>7, <1>11, <1>13 DEF SubUnique
  <2>4. Queued(t) \cap Waiting(t) = {}
    BY <1>4, <1>15, <1>16
  <2> QED BY <1>14, <2>1, <2>2, <2>3, <2>4 DEF SubUnique
<1>18. SubClean(t)
  <2>1. \A z \in Waiting(s) : ~WriteBack(z)
    BY <1>0 DEF SubClean
  <2>2. \A n \in Clean : \A z \in ToSet(t[n]) : ~WriteBack(z)
    BY <1>0, <1>4, <1>14, <2>1 DEF SubClean, Clean, QName
  <2> QED BY <1>16, <2>1, <2>2 DEF SubClean
<1>19. Held(t) = Held(s)
  BY <1>4, <1>15, <1>16 DEF Held
<1>20. t.rop = s.rop /\ t.icnt_L2 = s.icnt_L2
  BY <1>11 DEF QName
<1>21. SubInv(p, t, K, sn)
  BY <1>0, <1>11, <1>17, <1>18, <1>19, <1>20, SubRearrange
<1> QED BY <1>12, <1>21

Join(s, q, r) == [s EXCEPT !.waiting[q] = Append(@, r)]
Await(s, r)   ==
  [s EXCEPT !.waiting = [q \in DOMAIN @ \cup {r} |-> IF q = r THEN <<>> ELSE @[q]]]

\* t has the requests of s with those elsewhere, and the same to be used.
Kept(p, s, K, t, L, sn) ==
  SubInv(p, t, L, sn) /\ Held(t) \cup L = Held(s) \cup K /\ t.rop = s.rop /\ t.icnt_L2 = s.icnt_L2

\* The waiting accesses become w, which adds the requests N.
LEMMA SubWaits ==
  ASSUME NEW p \in SubPartition, NEW s, NEW K, NEW sn, SubInv(p, s, K, sn),
         NEW w, DOMAIN w \subseteq Of(p), \A q \in DOMAIN w : w[q] \in Seq(Of(p)) /\ NoDup(w[q]),
         \A q, r \in DOMAIN w : q # r => ToSet(w[q]) \cap ToSet(w[r]) = {},
         NEW N, N \subseteq K, \A r \in N : ~WriteBack(r),
         UNION {ToSet(w[q]) : q \in DOMAIN w} = Waiting(s) \cup N
  PROVE  Kept(p, s, K, SetAt(s, "waiting", w), K \ N, sn)
<1>0. SubOK(p, s) /\ SubUnique(s) /\ SubClean(s) /\ K \subseteq Of(p) /\ Held(s) \cap K = {}
  BY DEF SubInv, SubTracked
<1>1. PICK t : t = SetAt(s, "waiting", w)
  OBVIOUS
<1>2. SubOK(p, t) /\ (\A m \in QName : t[m] = s[m]) /\ t.tracker = s.tracker /\ t.waiting = w
  <2>1. \A q \in DOMAIN w : w[q] \in Seq(Of(p))
    OBVIOUS
  <2>2. /\ SubOK(p, SetAt(s, "waiting", w)) /\ \A m \in QName : SetAt(s, "waiting", w)[m] = s[m]
        /\ SetAt(s, "waiting", w).tracker = s.tracker /\ SetAt(s, "waiting", w).waiting = w
    BY <1>0, <2>1, SubWaiting
  <2> QED BY <1>1, <2>2
<1>3. Queued(t) = Queued(s) /\ Waiting(t) = Waiting(s) \cup N
  BY <1>2 DEF Queued, Waiting
<1>4. SubUnique(t)
  <2>1. Queued(t) \cap Waiting(t) = {}
    BY <1>0, <1>3 DEF SubUnique, Held
  <2> QED BY <1>0, <1>2, <2>1 DEF SubUnique
<1>5. SubClean(t)
  <2>1. \A r \in Waiting(t) : ~WriteBack(r)
    BY <1>0, <1>3 DEF SubClean
  <2> QED BY <1>0, <1>2, <2>1 DEF SubClean, Clean, QName
<1>6. PICK L : L = K \ N
  OBVIOUS
<1>7. L \subseteq Of(p) /\ Held(t) \cap L = {} /\ Held(t) \cup L = Held(s) \cup K
  BY <1>0, <1>3, <1>6 DEF Held
<1>8. t.rop = s.rop /\ t.icnt_L2 = s.icnt_L2
  BY <1>2 DEF QName
<1>9. SubInv(p, t, L, sn)
  BY <1>2, <1>4, <1>5, <1>7, <1>8, SubRearrange
<1>10. Kept(p, s, K, t, L, sn)
  BY <1>7, <1>8, <1>9 DEF Kept
<1> QED BY <1>1, <1>6, <1>10, Zenon

LEMMA SubJoin ==
  ASSUME NEW p \in SubPartition, NEW s, NEW K, NEW sn, SubInv(p, s, K, sn),
         NEW q \in DOMAIN s.waiting, NEW r \in K, ~WriteBack(r)
  PROVE  Kept(p, s, K, Join(s, q, r), K \ {r}, sn)
<1> DEFINE w == [s.waiting EXCEPT ![q] = Append(@, r)]
<1>0. SubOK(p, s) /\ SubUnique(s) /\ K \subseteq Of(p) /\ Held(s) \cap K = {}
  BY DEF SubInv, SubTracked
<1>1. PICK x : x = s.waiting[q]
  OBVIOUS
<1>2. PICK v : v = Append(x, r)
  OBVIOUS
<1>3. r \in Of(p) /\ r \notin Held(s) /\ x \in Seq(Of(p)) /\ NoDup(x)
  BY <1>0, <1>1 DEF SubOK, SubUnique
<1>4. \A z \in DOMAIN s.waiting : r \notin ToSet(s.waiting[z])
  BY <1>3 DEF Held, Waiting
<1>5. v \in Seq(Of(p)) /\ ToSet(v) = ToSet(x) \cup {r} /\ NoDup(v)
  BY <1>1, <1>2, <1>3, <1>4, SeqAppend
<1>6. DOMAIN w = DOMAIN s.waiting /\ w[q] = v /\ \A z \in DOMAIN w : z # q => w[z] = s.waiting[z]
  BY <1>1, <1>2
<1>7. Join(s, q, r) = SetAt(s, "waiting", w)
  <2>1. DOMAIN s = QName \cup {"tracker", "waiting"}
    BY <1>0, SubTypes
  <2> QED BY <2>1 DEF Join, SetAt, QName
<1> HIDE DEF w
<1>8. DOMAIN w \subseteq Of(p) /\ \A z \in DOMAIN w : w[z] \in Seq(Of(p)) /\ NoDup(w[z])
  BY <1>0, <1>5, <1>6 DEF SubOK, SubUnique
<1>9. \A z \in DOMAIN w : ToSet(w[z]) = ToSet(s.waiting[z]) \cup (IF z = q THEN {r} ELSE {})
  BY <1>1, <1>5, <1>6
<1>10. \A y, z \in DOMAIN w : y # z => ToSet(w[y]) \cap ToSet(w[z]) = {}
  <2> SUFFICES ASSUME NEW y \in DOMAIN w, NEW z \in DOMAIN w, y # z, NEW a, a \in ToSet(w[y]), a \in ToSet(w[z])
               PROVE  FALSE
    OBVIOUS
  <2>1. ToSet(s.waiting[y]) \cap ToSet(s.waiting[z]) = {}
    BY <1>0, <1>6 DEF SubUnique
  <2> QED BY <1>4, <1>6, <1>9, <2>1
<1>11. UNION {ToSet(w[z]) : z \in DOMAIN w} = Waiting(s) \cup {r}
  <2>1. ASSUME NEW a, NEW z \in DOMAIN w, a \in ToSet(w[z]) PROVE a \in Waiting(s) \cup {r}
    BY <1>6, <1>9, <2>1 DEF Waiting
  <2>2. ASSUME NEW a \in Waiting(s) PROVE \E z \in DOMAIN w : a \in ToSet(w[z])
    BY <1>6, <1>9, <2>2 DEF Waiting
  <2>3. r \in ToSet(w[q]) /\ q \in DOMAIN w
    BY <1>5, <1>6
  <2> QED BY <2>1, <2>2, <2>3
<1>12. PICK N : N = {r}
  OBVIOUS
<1>13. Kept(p, s, K, SetAt(s, "waiting", w), K \ N, sn)
  <2>1. N \subseteq K /\ \A z \in N : ~WriteBack(z)
    BY <1>12
  <2>2. UNION {ToSet(w[z]) : z \in DOMAIN w} = Waiting(s) \cup N
    BY <1>11, <1>12
  <2> QED BY <1>8, <1>10, <2>1, <2>2, SubWaits
<1> QED BY <1>7, <1>12, <1>13, Zenon

LEMMA SubAwait ==
  ASSUME NEW p \in SubPartition, NEW s, NEW K, NEW sn, SubInv(p, s, K, sn),
         NEW r \in Of(p), r \notin DOMAIN s.waiting
  PROVE  Kept(p, s, K, Await(s, r), K, sn)
<1> DEFINE w == [q \in DOMAIN s.waiting \cup {r} |-> IF q = r THEN <<>> ELSE s.waiting[q]]
<1>0. SubOK(p, s) /\ SubUnique(s)
  BY DEF SubInv
<1>1. DOMAIN w = DOMAIN s.waiting \cup {r} /\ w[r] = <<>> /\ \A z \in DOMAIN s.waiting : w[z] = s.waiting[z]
  OBVIOUS
<1>2. Await(s, r) = SetAt(s, "waiting", w)
  <2>1. DOMAIN s = QName \cup {"tracker", "waiting"}
    BY <1>0, SubTypes
  <2> HIDE DEF w
  <2>2. Await(s, r) = [s EXCEPT !.waiting = w]
    BY <2>1 DEF Await, w
  <2> QED BY <2>1, <2>2 DEF SetAt, QName
<1> HIDE DEF w
<1>3. <<>> \in Seq(Of(p)) /\ NoDup(<<>>) /\ ToSet(<<>>) = {}
  <2>1. <<>> \in Seq(Of(p))
    OBVIOUS
  <2> QED BY <2>1, SeqFacts DEF NoDup
<1>4. DOMAIN w \subseteq Of(p) /\ \A z \in DOMAIN w : w[z] \in Seq(Of(p)) /\ NoDup(w[z])
  BY <1>0, <1>1, <1>3 DEF SubOK, SubUnique
<1>5. \A y, z \in DOMAIN w : y # z => ToSet(w[y]) \cap ToSet(w[z]) = {}
  BY <1>0, <1>1, <1>3 DEF SubUnique
<1>6. PICK N : N = {}
  OBVIOUS
<1>7. UNION {ToSet(w[z]) : z \in DOMAIN w} = Waiting(s) \cup N
  BY <1>1, <1>3, <1>6 DEF Waiting
<1>8. N \subseteq K /\ K \ N = K /\ \A z \in N : ~WriteBack(z)
  BY <1>6
<1>9. Kept(p, s, K, SetAt(s, "waiting", w), K \ N, sn)
  BY <1>4, <1>5, <1>7, <1>8, SubWaits
<1> QED BY <1>2, <1>8, <1>9, Zenon

LEMMA SubPutKept ==
  ASSUME NEW p \in SubPartition, NEW s, NEW K, NEW sn, SubInv(p, s, K, sn),
         NEW n \in QName \ {"rop", "icnt_L2"}, NEW r, MayPut(p, s, K, n, r)
  PROVE  Kept(p, s, K, PutAt(s, n, r), K \ {r}, sn)
<1>1. PICK t : t = PutAt(s, n, r)
  OBVIOUS
<1>2. IsPut(p, s, K, sn, n, r, t)
  BY <1>1, SubPut
<1>3. r \in K
  BY DEF MayPut
<1>4. Kept(p, s, K, t, K \ {r}, sn)
  BY <1>2, <1>3 DEF IsPut, Kept, QName
<1> QED BY <1>1, <1>4, Zenon

\* Data that arrived fills the L2 or goes to the cores.
LEMMA FillInv ==
  ASSUME NEW p \in SubPartition, NEW s, NEW K, NEW sn, SubInv(p, s, K, sn)
  PROVE  SubInv(p, FillStage(s), K, sn)
<1>1. CASE s.dram_L2 = <<>>
  BY <1>1 DEF FillStage
<1>2. CASE s.dram_L2 # <<>>
  <2>0. SubOK(p, s)
    BY DEF SubInv
  <2>1. PICK r : r = Head(s["dram_L2"])
    OBVIOUS
  <2>2. /\ s["dram_L2"] \in Seq(Of(p)) /\ s["ready"] \in Seq(Of(p)) /\ s["L2_icnt"] \in Seq(Of(p))
        /\ s["dram_L2"] # <<>>
    BY <1>2, <2>0, SubTypes DEF QName
  <2>3. r \in Of(p) /\ r \in ToSet(s["dram_L2"])
    BY <2>1, <2>2, SeqTail
  <2>4. ~WriteBack(r)
    BY <2>3 DEF SubInv, SubClean, Clean
  <2>5. CASE r \in DOMAIN s.waiting
    <3>1. PICK t : t = [s EXCEPT !["dram_L2"] = Tail(@), !["ready"] = Append(@, Head(s["dram_L2"]))]
      OBVIOUS
    <3>2. SubInv(p, t, K, sn)
      <4>1. SubInv(p, [s EXCEPT !["dram_L2"] = Tail(@), !["ready"] = Append(@, Head(s["dram_L2"]))], K, sn)
        BY <2>1, <2>2, <2>3, <2>4, SubMove DEF Holds, Bounded, Clean, QName
      <4> QED BY <3>1, <4>1
    <3>3. DOMAIN s = QName \cup {"tracker", "waiting"}
      BY <2>0, SubTypes
    <3>4. t.waiting = s.waiting /\ t.ready = Append(s.ready, r)
      BY <2>1, <3>1, <3>3 DEF QName
    <3>5. PICK x : x = s.waiting[r]
      OBVIOUS
    <3>6. x \in Seq(Of(p))
      BY <2>0, <2>5, <3>5 DEF SubOK
    <3>8. FillStage(s) = [s EXCEPT !.dram_L2 = Tail(@), !.ready = Append(@, r) \o s.waiting[r],
                                   !.waiting = [q \in DOMAIN @ \ {r} |-> @[q]]]
      BY <1>2, <2>1, <2>5 DEF FillStage
    <3>9. PICK v : v = Append(s.ready, r) \o x
      OBVIOUS
    <3>10. PICK w : w = [q \in DOMAIN s.waiting \ {r} |-> s.waiting[q]]
      OBVIOUS
    <3>11. FillStage(s) = [s EXCEPT !.dram_L2 = Tail(@), !.ready = v, !.waiting = w]
      BY <3>3, <3>5, <3>8, <3>9, <3>10 DEF QName
    <3>12. DOMAIN t = QName \cup {"tracker", "waiting"} /\ t = [s EXCEPT !.dram_L2 = Tail(@), !.ready = t.ready]
      BY <2>1, <3>1, <3>3 DEF QName
    <3>13. Wake(t, r) = [t EXCEPT !.ready = v, !.waiting = w]
      BY <3>4, <3>5, <3>9, <3>10, <3>12 DEF Wake, QName
    <3>14. FillStage(s) = Wake(t, r)
      BY <3>3, <3>11, <3>12, <3>13 DEF QName
    <3>15. SubInv(p, Wake(t, r), K, sn)
      BY <2>5, <3>2, <3>4, SubWake
    <3> QED BY <3>14, <3>15
  <2>6. CASE r \notin DOMAIN s.waiting /\ Len(s.L2_icnt) >= L2Icnt
    BY <1>2, <2>1, <2>6 DEF FillStage
  <2>7. CASE r \notin DOMAIN s.waiting /\ ~(Len(s.L2_icnt) >= L2Icnt)
    <3>1. Len(s["L2_icnt"]) < L2Icnt
      BY <2>2, <2>7, SeqFacts, PartitionAssumption
    <3>2. SubInv(p, [s EXCEPT !["dram_L2"] = Tail(@), !["L2_icnt"] = Append(@, Head(s["dram_L2"]))], K, sn)
      BY <2>1, <2>2, <2>3, <2>4, <3>1, SubMove DEF Holds, Bounded, Room, Clean, QName
    <3> QED BY <1>2, <2>1, <2>7, <3>2 DEF FillStage
  <2> QED BY <2>5, <2>6, <2>7
<1> QED BY <1>1, <1>2

\* Request r of the cores arrives.
LEMMA PushInv ==
  ASSUME NEW p \in SubPartition, NEW s, NEW K, NEW sn, SubInv(p, s, K, sn),
         NEW r \in Of(p) \cap CoreRequest, r \notin sn, Len(s.icnt_L2) < IcntL2
  PROVE  SubInv(p, Push(s, r), K, sn \cup {r})
<1>0. SubOK(p, s) /\ SubUnique(s) /\ SubClean(s) /\ SubTracked(p, s, K) /\ SubFresh(p, s, K, sn)
  BY DEF SubInv
<1>1. r \notin Held(s) \cup K /\ MadeFor(r) \cap (Held(s) \cup K) = {}
  BY <1>0, FreshFacts DEF Unused
<1>2. r \notin MadeFor(r) /\ r # NoReq
  BY RequestAssumption, DramAssumption DEF MadeFor, CoreRequest
<1>3. PICK u : u = SetAt(s, "tracker", s.tracker \cup {r})
  OBVIOUS
<1>4. /\ SubOK(p, u) /\ \A m \in QName : u[m] = s[m]
      /\ u.tracker = s.tracker \cup {r} /\ u.waiting = s.waiting
  <2>1. PICK v : v = s.tracker \cup {r}
    OBVIOUS
  <2>2. v \subseteq Of(p)
    BY <1>0, <2>1, SubTypes
  <2>3. /\ SubOK(p, SetAt(s, "tracker", v)) /\ \A m \in QName : SetAt(s, "tracker", v)[m] = s[m]
        /\ SetAt(s, "tracker", v).tracker = v /\ SetAt(s, "tracker", v).waiting = s.waiting
    BY <1>0, <2>2, SubTracker
  <2>4. u = SetAt(s, "tracker", v)
    BY <1>3, <2>1, Zenon
  <2> QED BY <2>1, <2>3, <2>4
<1>5. Held(u) = Held(s) /\ Queued(u) = Queued(s) /\ Waiting(u) = Waiting(s)
  BY <1>4 DEF Held, Queued, Waiting
<1>6. SubUnique(u) /\ SubClean(u)
  BY <1>0, <1>4, <1>5 DEF SubUnique, SubClean, Clean, QName
<1>7. PICK L : L = K \cup {r}
  OBVIOUS
<1>8. PICK sm : sm = sn \cup {r}
  OBVIOUS
<1>9. SubTracked(p, u, L)
  BY <1>0, <1>1, <1>4, <1>5, <1>7 DEF SubTracked
<1>10. SubFresh(p, u, L, sm)
  <2>1. \A x : Unused(u, sm, x) => Unused(s, sn, x)
    BY <1>4, <1>8 DEF Unused, QName
  <2>2. \A x : r \notin MadeFor(x)
    BY RequestAssumption DEF MadeFor, CoreRequest
  <2>3. /\ \A x \in Of(p) \cap CoreRequest : x \notin sn => x \notin Held(s) \cup K
        /\ \A x \in Of(p) : Unused(s, sn, x) => MadeFor(x) \cap (Held(s) \cup K) = {}
    BY <1>0, FreshFacts
  <2>4. \A x \in Of(p) \cap CoreRequest : x \notin sm => x \notin Held(u) \cup L
    BY <1>5, <1>7, <1>8, <2>3
  <2>5. \A x \in Of(p) : Unused(u, sm, x) => MadeFor(x) \cap (Held(u) \cup L) = {}
    BY <1>5, <1>7, <2>1, <2>2, <2>3
  <2> QED BY <2>4, <2>5, FreshFacts
<1>11. SubInv(p, u, L, sm)
  BY <1>4, <1>6, <1>9, <1>10 DEF SubInv
<1>12. L \ {r} = K /\ r \in L /\ MadeFor(r) \cap (Held(u) \cup L) = {}
  BY <1>1, <1>2, <1>5, <1>7
<1>13. DOMAIN s = QName \cup {"tracker", "waiting"}
  BY <1>0, SubTypes
<1>14. ASSUME NEW n \in {"rop", "icnt_L2"} PROVE SubInv(p, PutAt(u, n, r), K, sm)
  <2>1. MayPut(p, u, L, n, r)
    BY <1>4, <1>12, <1>14 DEF MayPut, Holds, Bounded, Room, Clean, QName
  <2>2. n \in QName
    BY <1>14 DEF QName
  <2>3. PICK t : t = PutAt(u, n, r)
    OBVIOUS
  <2>4. IsPut(p, u, L, sm, n, r, t)
    BY <1>11, <2>1, <2>2, <2>3, SubPut
  <2> QED BY <1>12, <2>3, <2>4 DEF IsPut
<1>15. CASE Attr[r].tex
  <2>1. Push(s, r) = PutAt(u, "icnt_L2", r)
    BY <1>2, <1>3, <1>13, <1>15 DEF Push, PutAt, SetAt, QName
  <2> QED BY <1>8, <1>14, <2>1
<1>16. CASE ~Attr[r].tex
  <2>1. Push(s, r) = PutAt(u, "rop", r)
    BY <1>2, <1>3, <1>13, <1>16 DEF Push, PutAt, SetAt, QName
  <2> QED BY <1>8, <1>14, <2>1
<1> QED BY <1>15, <1>16

-----------------------------------------------------------------------------
(* The L2 bank *)

\* Read r, which was elsewhere, is sent or waits.
LEMMA L2ReadInv ==
  ASSUME NEW p \in SubPartition, NEW s, NEW K, NEW sn, SubInv(p, s, K, sn),
         NEW r \in K, ~WriteBack(r), Len(L2Read(s, r).missq) <= MissQueueSize
  PROVE  Kept(p, s, K, L2Read(s, r), K \ {r}, sn)
<1>0. SubOK(p, s) /\ r \in Of(p)
  BY DEF SubInv, SubTracked
<1>1. DOMAIN s = QName \cup {"tracker", "waiting"}
  BY <1>0, SubTypes
<1> DEFINE Joins == SelectSeq(s.ready, LAMBDA q : SameBlock(q, r))
<1>2. CASE Outstanding(s, r) # {}
  <2>1. PICK q : q = CHOOSE x \in Outstanding(s, r) : TRUE
    OBVIOUS
  <2>2. q \in DOMAIN s.waiting
    BY <1>2, <2>1 DEF Outstanding
  <2>3. L2Read(s, r) = Join(s, q, r)
    BY <1>2, <2>1, Zenon DEF L2Read, Join
  <2>4. Kept(p, s, K, Join(s, q, r), K \ {r}, sn)
    BY <2>2, SubJoin
  <2> QED BY <2>3, <2>4, Zenon
<1>3. CASE Outstanding(s, r) = {} /\ Joins # <<>>
  <2>1. L2Read(s, r) = [s EXCEPT !.ready = Append(@, r)]
    BY <1>3, Zenon DEF L2Read
  <2>2. L2Read(s, r) = PutAt(s, "ready", r)
    BY <2>1 DEF PutAt, SetAt
  <2>3. "ready" \in QName \ {"rop", "icnt_L2"} /\ MayPut(p, s, K, "ready", r)
    BY <1>0 DEF QName, MayPut, Holds, Bounded
  <2>4. Kept(p, s, K, PutAt(s, "ready", r), K \ {r}, sn)
    BY <2>3, SubPutKept
  <2> QED BY <2>2, <2>4, Zenon
<1>4. CASE Outstanding(s, r) = {} /\ Joins = <<>>
  <2>1. L2Read(s, r) = [s EXCEPT !.missq = Append(@, r),
                                 !.waiting = [q \in DOMAIN @ \cup {r} |-> IF q = r THEN <<>> ELSE @[q]]]
    BY <1>4, Zenon DEF L2Read
  <2>2. PICK t : t = PutAt(s, "missq", r)
    OBVIOUS
  <2>3. L2Read(s, r) = Await(t, r) /\ L2Read(s, r).missq = Append(s.missq, r) /\ t.waiting = s.waiting
    BY <1>1, <2>1, <2>2 DEF PutAt, SetAt, Await, QName
  <2>4. s["missq"] \in Seq(Of(p))
    BY <1>0, SubTypes DEF QName
  <2>5. Len(s["missq"]) < MissQueueSize
    BY <1>0, <2>3, <2>4, SeqAppend, PartitionAssumption
  <2>6. "missq" \in QName \ {"rop", "icnt_L2"} /\ MayPut(p, s, K, "missq", r)
    BY <1>0, <2>5 DEF QName, MayPut, Holds, Bounded, Clean, Room
  <2>7. PICK L : L = K \ {r}
    OBVIOUS
  <2>8. Kept(p, s, K, t, L, sn)
    <3>1. Kept(p, s, K, PutAt(s, "missq", r), K \ {r}, sn)
      BY <2>6, SubPutKept
    <3> QED BY <2>2, <2>7, <3>1, Zenon
  <2>9. r \notin DOMAIN t.waiting
    BY <1>4, <2>3 DEF Outstanding, SameBlock
  <2>10. Kept(p, t, L, Await(t, r), L, sn)
    BY <1>0, <2>8, <2>9, SubAwait DEF Kept
  <2>11. Kept(p, s, K, Await(t, r), L, sn)
    BY <2>8, <2>10 DEF Kept
  <2> QED BY <2>3, <2>7, <2>11, Zenon
<1> QED BY <1>2, <1>3, <1>4

LEMMA L2HitInv ==
  ASSUME NEW p \in SubPartition, NEW s, NEW K, NEW sn, SubInv(p, s, K, sn),
         NEW r \in K, r \in CoreRequest, Len(L2Hit(s, r).missq) <= MissQueueSize, Len(s.L2_icnt) < L2Icnt
  PROVE  SubInv(p, L2Hit(s, r), K \ {r}, sn)
<1>0. SubOK(p, s) /\ r \in Of(p)
  BY DEF SubInv, SubTracked
<1>1. DOMAIN s = QName \cup {"tracker", "waiting"}
  BY <1>0, SubTypes
<1>2. CASE IsWrite(r) /\ mode.write = "through"
  <2>1. L2Hit(s, r) = PutAt(s, "missq", r) /\ L2Hit(s, r).missq = Append(s.missq, r)
    BY <1>1, <1>2 DEF L2Hit, PutAt, SetAt, QName
  <2>2. s["missq"] \in Seq(Of(p))
    BY <1>0, SubTypes DEF QName
  <2>3. Len(s["missq"]) < MissQueueSize
    BY <1>0, <2>1, <2>2, SeqAppend, PartitionAssumption
  <2>4. "missq" \in QName \ {"rop", "icnt_L2"} /\ MayPut(p, s, K, "missq", r)
    BY <1>0, <2>3 DEF QName, MayPut, Holds, Bounded, Clean, Room
  <2>5. Kept(p, s, K, PutAt(s, "missq", r), K \ {r}, sn)
    BY <2>4, SubPutKept
  <2> QED BY <2>1, <2>5 DEF Kept
<1>3. CASE ~(IsWrite(r) /\ mode.write = "through") /\ Attr[r].kind = "L1_WRBK"
  <2>1. PICK t : t = Forget(s, r)
    OBVIOUS
  <2>2. L2Hit(s, r) = t
    BY <1>3, <2>1 DEF L2Hit, Forget, SetAt
  <2>3. IsForgotten(p, s, K, sn, r, t)
    BY <2>1, SubForget
  <2> QED BY <2>2, <2>3 DEF IsForgotten
<1>4. CASE ~(IsWrite(r) /\ mode.write = "through") /\ Attr[r].kind # "L1_WRBK"
  <2>1. L2Hit(s, r) = PutAt(s, "L2_icnt", r)
    BY <1>4 DEF L2Hit, PutAt, SetAt
  <2>2. ~WriteBack(r)
    BY <1>4 DEF WriteBack, CoreRequest
  <2>3. "L2_icnt" \in QName \ {"rop", "icnt_L2"} /\ MayPut(p, s, K, "L2_icnt", r)
    BY <1>0, <2>2 DEF QName, MayPut, Holds, Bounded, Clean, Room
  <2>4. Kept(p, s, K, PutAt(s, "L2_icnt", r), K \ {r}, sn)
    BY <2>3, SubPutKept
  <2> QED BY <2>1, <2>4 DEF Kept
<1> QED BY <1>2, <1>3, <1>4

\* The miss queue only grows.
LEMMA L2ReadQueue ==
  ASSUME NEW p \in SubPartition, NEW s, DOMAIN s = QName \cup {"tracker", "waiting"},
         s.missq \in Seq(Of(p)), NEW r \in Of(p)
  PROVE  /\ L2Read(s, r).missq \in Seq(Of(p)) /\ Len(L2Read(s, r).missq) >= Len(s.missq)
         /\ DOMAIN L2Read(s, r) = DOMAIN s
<1> DEFINE Joins == SelectSeq(s.ready, LAMBDA q : SameBlock(q, r))
<1>1. Append(s.missq, r) \in Seq(Of(p)) /\ Len(Append(s.missq, r)) >= Len(s.missq) /\ Len(s.missq) >= Len(s.missq)
  BY SeqAppend, SeqFacts
<1>2. CASE Outstanding(s, r) # {}
  <2>1. L2Read(s, r) = [s EXCEPT !.waiting[CHOOSE q \in Outstanding(s, r) : TRUE] = Append(@, r)]
    BY <1>2, Zenon DEF L2Read
  <2> QED BY <1>1, <2>1 DEF QName
<1>3. CASE Outstanding(s, r) = {} /\ Joins # <<>>
  <2>1. L2Read(s, r) = [s EXCEPT !.ready = Append(@, r)]
    BY <1>3, Zenon DEF L2Read
  <2> QED BY <1>1, <2>1 DEF QName
<1>4. CASE Outstanding(s, r) = {} /\ Joins = <<>>
  <2>1. L2Read(s, r) = [s EXCEPT !.missq = Append(@, r),
                                 !.waiting = [q \in DOMAIN @ \cup {r} |-> IF q = r THEN <<>> ELSE @[q]]]
    BY <1>4, Zenon DEF L2Read
  <2> QED BY <1>1, <2>1 DEF QName
<1> QED BY <1>2, <1>3, <1>4

LEMMA L2MissQueue ==
  ASSUME NEW p \in SubPartition, NEW s, SubOK(p, s), NEW r \in Of(p) \cap CoreRequest
  PROVE  L2Miss(s, r).missq \in Seq(Of(p)) /\ DOMAIN L2Miss(s, r) = QName \cup {"tracker", "waiting"}
<1>1. DOMAIN s = QName \cup {"tracker", "waiting"} /\ s.missq \in Seq(Of(p))
  BY SubTypes DEF QName
<1>2. CASE ~IsWrite(r)
  BY <1>1, <1>2, L2ReadQueue DEF L2Miss
<1>3. PICK t : t = [s EXCEPT !.missq = Append(@, r)]
  OBVIOUS
<1>4. DOMAIN t = QName \cup {"tracker", "waiting"} /\ t.missq \in Seq(Of(p))
  BY <1>1, <1>3, SeqAppend DEF QName
<1>5. CASE IsWrite(r) /\ mode.write = "through"
  BY <1>3, <1>4, <1>5 DEF L2Miss
<1>6. CASE IsWrite(r) /\ mode.write # "through"
  <2>1. PICK a : a = AllocOf[r]
    OBVIOUS
  <2>2. a \in Of(p)
    BY <1>6, <2>1, RequestAssumption DEF Of
  <2>3. L2Miss(s, r) = L2Read(t, a)
    BY <1>3, <1>6, <2>1, Zenon DEF L2Miss
  <2> QED BY <1>4, <2>2, <2>3, L2ReadQueue
<1> QED BY <1>2, <1>5, <1>6

\* The request access r makes unless it is a victim's
AllocFor(r) == IF r \in DOMAIN AllocOf THEN {AllocOf[r]} ELSE {}

\* The L2 bank may take access r, which was in s.
Taken(s, K, sn, r) == /\ r \in K /\ r \in CoreRequest /\ ~Unused(s, sn, r)
                      /\ MadeFor(r) \cap (Held(s) \cup K) = {}

Missed(p, s, K, sn, r, t) ==
  /\ SubInv(p, t, K \ {r}, sn) /\ Held(t) \cup (K \ {r}) \subseteq Held(s) \cup K \cup AllocFor(r)
  /\ t.rop = s.rop /\ t.icnt_L2 = s.icnt_L2

LEMMA L2MissInv ==
  ASSUME NEW p \in SubPartition, NEW s, NEW K, NEW sn, SubInv(p, s, K, sn),
         NEW r, Taken(s, K, sn, r), Len(L2Miss(s, r).missq) <= MissQueueSize
  PROVE  Missed(p, s, K, sn, r, L2Miss(s, r))
<1>0. /\ SubOK(p, s) /\ r \in Of(p) /\ r \in K /\ r \in CoreRequest /\ ~Unused(s, sn, r)
      /\ MadeFor(r) \cap (Held(s) \cup K) = {}
  BY DEF SubInv, SubTracked, Taken
<1>1. DOMAIN s = QName \cup {"tracker", "waiting"} /\ s.missq \in Seq(Of(p))
  BY <1>0, SubTypes DEF QName
<1>2. CASE ~IsWrite(r)
  <2>1. L2Miss(s, r) = L2Read(s, r)
    BY <1>2 DEF L2Miss
  <2>2. ~WriteBack(r)
    BY <1>0, <1>2 DEF WriteBack, CoreRequest, IsWrite
  <2>3. Kept(p, s, K, L2Read(s, r), K \ {r}, sn)
    BY <1>0, <2>1, <2>2, L2ReadInv
  <2>4. Missed(p, s, K, sn, r, L2Read(s, r))
    BY <2>3 DEF Kept, Missed
  <2> QED BY <2>1, <2>4
<1>3. PICK t : t = PutAt(s, "missq", r)
  OBVIOUS
<1>4. /\ DOMAIN t = QName \cup {"tracker", "waiting"} /\ t.missq \in Seq(Of(p))
      /\ t.missq = Append(s.missq, r) /\ t.missq = Append(s["missq"], r)
  BY <1>0, <1>1, <1>3, SeqAppend DEF QName, PutAt, SetAt
<1>5. PICK L : L = K \ {r}
  OBVIOUS
<1>6. ASSUME Len(t.missq) <= MissQueueSize PROVE Kept(p, s, K, t, L, sn)
  <2>1. Len(s["missq"]) < MissQueueSize
    BY <1>0, <1>1, <1>4, <1>6, SeqAppend, PartitionAssumption
  <2>2. "missq" \in QName \ {"rop", "icnt_L2"} /\ MayPut(p, s, K, "missq", r)
    BY <1>0, <2>1 DEF QName, MayPut, Holds, Bounded, Clean, Room
  <2>3. Kept(p, s, K, PutAt(s, "missq", r), K \ {r}, sn)
    BY <2>2, SubPutKept
  <2> QED BY <1>3, <1>5, <2>3, Zenon
<1>7. t = [s EXCEPT !.missq = Append(@, r)]
  BY <1>3 DEF PutAt, SetAt
<1>8. CASE IsWrite(r) /\ mode.write = "through"
  <2>1. L2Miss(s, r) = t
    BY <1>7, <1>8, Zenon DEF L2Miss
  <2>2. Kept(p, s, K, t, L, sn)
    BY <1>6, <2>1
  <2>3. Missed(p, s, K, sn, r, t)
    BY <1>5, <2>2 DEF Kept, Missed
  <2> QED BY <2>1, <2>3
<1>9. CASE IsWrite(r) /\ mode.write # "through"
  <2>1. PICK a : a = AllocOf[r]
    OBVIOUS
  <2>2. /\ a \in Of(p) /\ a \in MadeFor(r) /\ AllocFor(r) = {a} /\ ~WriteBack(a)
    BY <1>0, <1>9, <2>1, RequestAssumption DEF Of, MadeFor, WriteBack, AllocFor
  <2>3. L2Miss(s, r) = L2Read(t, a)
    BY <1>7, <1>9, <2>1, Zenon DEF L2Miss
  <2>4. Len(t.missq) <= MissQueueSize
    <3>1. Len(L2Read(t, a).missq) >= Len(t.missq) /\ Len(L2Read(t, a).missq) \in Nat /\ Len(t.missq) \in Nat
      BY <1>4, <2>2, L2ReadQueue, SeqFacts
    <3> QED BY <2>3, <3>1, PartitionAssumption
  <2>5. Kept(p, s, K, t, L, sn)
    BY <1>6, <2>4
  <2>6. SubInv(p, t, L, sn) /\ a \notin Held(t) \cup L /\ ~Unused(t, sn, r)
    BY <1>0, <2>2, <2>5 DEF Kept, Unused
  <2>7. PICK M : M = L \cup {a}
    OBVIOUS
  <2>8. SubInv(p, t, M, sn)
    <3>1. SubInv(p, t, L \cup {a}, sn)
      BY <1>0, <2>2, <2>6, SubMake
    <3> QED BY <2>7, <3>1
  <2>9. Kept(p, t, M, L2Read(t, a), M \ {a}, sn)
    BY <2>2, <2>3, <2>7, <2>8, L2ReadInv
  <2>10. M \ {a} = L
    BY <2>6, <2>7
  <2>11. Missed(p, s, K, sn, r, L2Read(t, a))
    BY <1>5, <2>2, <2>5, <2>7, <2>9, <2>10 DEF Kept, Missed
  <2> QED BY <2>3, <2>11, Zenon
<1> QED BY <1>2, <1>8, <1>9

LEMMA EvictInv ==
  ASSUME NEW p \in SubPartition, NEW s, NEW K, NEW sn, SubInv(p, s, K, sn),
         NEW r, Taken(s, K, sn, r), r \in DOMAIN VictimOf,
         Len(Evicting(L2Miss(s, r), r).missq) <= MissQueueSize
  PROVE  SubInv(p, Evicting(L2Miss(s, r), r), K \ {r}, sn)
<1>0. /\ SubOK(p, s) /\ r \in Of(p) /\ r \in K /\ r \in CoreRequest /\ ~Unused(s, sn, r)
      /\ MadeFor(r) \cap (Held(s) \cup K) = {}
  BY DEF SubInv, SubTracked, Taken
<1>1. PICK t : t = L2Miss(s, r)
  OBVIOUS
<1>2. PICK v : v = VictimOf[r]
  OBVIOUS
<1>3. v \in Of(p) /\ v \in MadeFor(r) /\ v \notin AllocFor(r)
  BY <1>0, <1>2, RequestAssumption DEF Of, MadeFor, AllocFor
<1>4. t.missq \in Seq(Of(p)) /\ DOMAIN t = QName \cup {"tracker", "waiting"}
  BY <1>0, <1>1, L2MissQueue
<1>5. Evicting(t, r) = PutAt(t, "missq", v) /\ Evicting(t, r).missq = Append(t.missq, v)
  BY <1>2, <1>4 DEF Evicting, PutAt, SetAt, QName
<1>6. Len(t.missq) < MissQueueSize
  BY <1>1, <1>3, <1>4, <1>5, SeqAppend, SeqFacts, PartitionAssumption
<1>7. PICK L : L = K \ {r}
  OBVIOUS
<1>8. Missed(p, s, K, sn, r, t)
  <2>1. Len(L2Miss(s, r).missq) <= MissQueueSize
    BY <1>1, <1>4, <1>6, SeqFacts, PartitionAssumption
  <2>2. Missed(p, s, K, sn, r, L2Miss(s, r))
    BY <2>1, L2MissInv
  <2> QED BY <1>1, <2>2, Zenon
<1>9. SubInv(p, t, L, sn) /\ v \notin Held(t) \cup L /\ ~Unused(t, sn, r)
  BY <1>0, <1>3, <1>7, <1>8 DEF Missed, Unused
<1>10. PICK M : M = L \cup {v}
  OBVIOUS
<1>11. SubInv(p, t, M, sn)
  <2>1. SubInv(p, t, L \cup {v}, sn)
    BY <1>0, <1>3, <1>9, SubMake
  <2> QED BY <1>10, <2>1
<1>12. "missq" \in QName \ {"rop", "icnt_L2"} /\ MayPut(p, t, M, "missq", v)
  BY <1>3, <1>6, <1>10 DEF QName, MayPut, Holds, Bounded, Clean, Room
<1>13. Kept(p, t, M, PutAt(t, "missq", v), M \ {v}, sn)
  BY <1>11, <1>12, SubPutKept
<1>14. M \ {v} = K \ {r}
  BY <1>7, <1>9, <1>10
<1> QED BY <1>1, <1>5, <1>13, <1>14 DEF Kept

\* The access at the head of icnt_L2
LEMMA AccessInv ==
  ASSUME NEW p \in SubPartition, NEW s, NEW K, NEW sn, SubInv(p, s, K, sn), NEW refuse,
         NEW x \in AccessStage(s, refuse)
  PROVE  SubInv(p, x, K, sn)
<1>0. SubOK(p, s)
  BY DEF SubInv
<1>1. PICK r : r = Head(s["icnt_L2"])
  OBVIOUS
<1>2. PICK t : t = TakeFrom(s, "icnt_L2")
  OBVIOUS
<1>3. t = [s EXCEPT !.icnt_L2 = Tail(@)]
  BY <1>2 DEF TakeFrom, SetAt
<1>4. s["icnt_L2"] \in Seq(Of(p) \cap CoreRequest) /\ s["L2_dram"] \in Seq(Of(p)) /\ s["L2_icnt"] \in Seq(Of(p))
  BY <1>0, SubTypes DEF QName
<1>5. CASE x = s
  BY <1>5
<1>6. CASE AccessReady(s) /\ ~ForL2(r) /\ x = [t EXCEPT !.L2_dram = Append(@, r)]
  <2>1. s["icnt_L2"] # <<>> /\ Len(s["L2_dram"]) < L2Dram
    BY <1>6 DEF AccessReady
  <2>2. r \in Of(p)
    BY <1>1, <1>4, <2>1, SeqTail
  <2>3. SubInv(p, [s EXCEPT !["icnt_L2"] = Tail(@), !["L2_dram"] = Append(@, Head(s["icnt_L2"]))], K, sn)
    BY <1>1, <2>1, <2>2, SubMove DEF Holds, Bounded, Room, Clean, QName
  <2>4. DOMAIN s = QName \cup {"tracker", "waiting"}
    BY <1>0, SubTypes
  <2>5. x = [s EXCEPT !["icnt_L2"] = Tail(@), !["L2_dram"] = Append(@, Head(s["icnt_L2"]))]
    BY <1>1, <1>3, <1>6, <2>4 DEF QName
  <2> QED BY <2>3, <2>5
<1>7. CASE L2Ready(s) /\ x \in L2Outcome(t, r)
  <2>1. s["icnt_L2"] # <<>> /\ Len(s["L2_icnt"]) < L2Icnt /\ "icnt_L2" \in QName
    BY <1>7 DEF L2Ready, AccessReady, QName
  <2>2. IsTaken(p, s, K, sn, "icnt_L2", r, t)
    <3>1. IsTaken(p, s, K, sn, "icnt_L2", Head(s["icnt_L2"]), TakeFrom(s, "icnt_L2"))
      BY <2>1, SubTake
    <3> QED BY <1>1, <1>2, <3>1, Zenon
  <2>3. PICK L : L = K \cup {r}
    OBVIOUS
  <2>4. SubInv(p, t, L, sn) /\ L \ {r} = K /\ r \in L /\ r \in CoreRequest
    BY <2>2, <2>3 DEF IsTaken, Holds
  <2>5. ~Unused(t, sn, r)
    <3>1. r \notin Held(t)
      BY <2>2 DEF IsTaken
    <3>2. r \notin ToSet(t["rop"]) /\ r \notin ToSet(t["icnt_L2"])
      BY <3>1, HeldFacts DEF QName
    <3>3. r \in sn
      BY <2>2 DEF IsTaken, SubInv, SubFresh, Holds
    <3> QED BY <3>2, <3>3 DEF Unused
  <2>6. MadeFor(r) \cap (Held(t) \cup L) = {}
    BY <2>2, <2>3 DEF IsTaken
  <2>7. Taken(t, L, sn, r)
    BY <2>4, <2>5, <2>6 DEF Taken
  <2>8. Len(t.L2_icnt) < L2Icnt
    BY <2>1, <2>2 DEF IsTaken, QName
  <2>9. Len(x.missq) <= MissQueueSize
    BY <1>7 DEF L2Outcome
  <2>10. CASE x = L2Hit(t, r)
    <3>1. SubInv(p, L2Hit(t, r), L \ {r}, sn)
      BY <2>4, <2>8, <2>9, <2>10, L2HitInv
    <3> QED BY <2>4, <2>10, <3>1
  <2>11. CASE x = L2Miss(t, r)
    <3>1. Missed(p, t, L, sn, r, L2Miss(t, r))
      BY <2>4, <2>7, <2>9, <2>11, L2MissInv
    <3> QED BY <2>4, <2>11, <3>1 DEF Missed
  <2>12. CASE r \in DOMAIN VictimOf /\ x = Evicting(L2Miss(t, r), r)
    <3>1. SubInv(p, Evicting(L2Miss(t, r), r), L \ {r}, sn)
      BY <2>4, <2>7, <2>9, <2>12, EvictInv
    <3> QED BY <2>4, <2>12, <3>1
  <2>13. x = L2Hit(t, r) \/ x = L2Miss(t, r) \/ (r \in DOMAIN VictimOf /\ x = Evicting(L2Miss(t, r), r))
    BY <1>7, Zenon DEF L2Outcome
  <2> QED BY <2>10, <2>11, <2>12, <2>13
<1>8. \/ x = s
      \/ AccessReady(s) /\ ~ForL2(r) /\ x = [t EXCEPT !.L2_dram = Append(@, r)]
      \/ L2Ready(s) /\ x \in L2Outcome(t, r)
  <2>1. r = Head(s.icnt_L2) /\ t = [s EXCEPT !.icnt_L2 = Tail(@)]
    BY <1>1, <1>3
  <2> QED BY <2>1, Zenon DEF AccessStage
<1> QED BY <1>5, <1>6, <1>7, <1>8

-----------------------------------------------------------------------------
(* Bursts under way *)

LEMMA CountFacts ==
  ASSUME NEW S, NEW q \in Seq(S), NEW r
  PROVE  /\ IsFiniteSet(Positions(q, r)) /\ Cardinality(Positions(q, r)) \in Nat
         /\ Cardinality(Positions(q, r)) = 0 <=> r \notin ToSet(q)
<1>1. Len(q) \in Nat /\ DOMAIN q = 1 .. Len(q) /\ \A x : x \in ToSet(q) <=> \E i \in 1 .. Len(q) : q[i] = x
  BY SeqFacts
<1>2. 1 \in Int /\ Len(q) \in Int
  BY <1>1
<1>3. IsFiniteSet(1 .. Len(q))
  BY <1>2, FS_Interval
<1>4. Positions(q, r) \subseteq 1 .. Len(q)
  BY <1>1 DEF Positions
<1>5. IsFiniteSet(Positions(q, r))
  BY <1>3, <1>4, FS_Subset
<1>6. Positions(q, r) = {} <=> r \notin ToSet(q)
  BY <1>1 DEF Positions
<1>7. Cardinality(Positions(q, r)) = 0 <=> Positions(q, r) = {}
  BY <1>5, FS_EmptySet
<1> QED BY <1>5, <1>6, <1>7, FS_CardinalityType

LEMMA CountAppend ==
  ASSUME NEW S, NEW q \in Seq(S), NEW x \in S, NEW r
  PROVE  Cardinality(Positions(Append(q, x), r)) = Cardinality(Positions(q, r)) + (IF x = r THEN 1 ELSE 0)
<1>1. PICK a : a = Append(q, x)
  OBVIOUS
<1>2. PICK n \in Nat : n = Len(q)
  BY SeqFacts
<1>3. /\ a \in Seq(S) /\ Len(a) = n + 1 /\ a[n + 1] = x /\ \A i \in 1 .. n : a[i] = q[i]
  BY <1>1, <1>2, SeqAppend
<1>4. DOMAIN a = 1 .. n + 1 /\ DOMAIN q = 1 .. n
  <2>1. DOMAIN a = 1 .. Len(a) /\ DOMAIN q = 1 .. Len(q)
    BY <1>3, SeqFacts
  <2> QED BY <1>2, <1>3, <2>1
<1>5. PICK P : P = Positions(q, r)
  OBVIOUS
<1>6. IsFiniteSet(P) /\ Cardinality(P) \in Nat
  BY <1>5, CountFacts
<1>7. \A i : i \in P <=> i \in 1 .. n /\ q[i] = r
  BY <1>4, <1>5 DEF Positions
<1>8. n + 1 \notin P
  BY <1>7
<1>9. CASE x = r
  <2>1. Positions(a, r) = P \cup {n + 1}
    <3>1. \A i \in 1 .. n + 1 : i \in 1 .. n \/ i = n + 1
      OBVIOUS
    <3>2. \A i \in 1 .. n : i \in 1 .. n + 1
      OBVIOUS
    <3>3. n + 1 \in 1 .. n + 1
      OBVIOUS
    <3> QED BY <1>3, <1>4, <1>7, <1>9, <3>1, <3>2, <3>3 DEF Positions
  <2>2. Cardinality(P \cup {n + 1}) = Cardinality(P) + 1
    BY <1>6, <1>8, FS_AddElement
  <2> QED BY <1>1, <1>5, <1>9, <2>1, <2>2
<1>10. CASE x # r
  <2>1. Positions(a, r) = P
    <3>1. \A i \in 1 .. n + 1 : i \in 1 .. n \/ i = n + 1
      OBVIOUS
    <3>2. \A i \in 1 .. n : i \in 1 .. n + 1
      OBVIOUS
    <3> QED BY <1>3, <1>4, <1>7, <1>10, <3>1, <3>2 DEF Positions
  <2> QED BY <1>1, <1>5, <1>6, <1>10, <2>1
<1> QED BY <1>9, <1>10

LEMMA CountTail ==
  ASSUME NEW S, NEW q \in Seq(S), q # <<>>, NEW r
  PROVE  Cardinality(Positions(Tail(q), r)) = Cardinality(Positions(q, r)) - (IF Head(q) = r THEN 1 ELSE 0)
<1>1. PICK t : t = Tail(q)
  OBVIOUS
<1>2. PICK n \in Nat : n = Len(q)
  BY SeqFacts
<1>3. /\ t \in Seq(S) /\ Len(t) = n - 1 /\ n >= 1 /\ Head(q) = q[1] /\ \A i \in 1 .. n - 1 : t[i] = q[i + 1]
  BY <1>1, <1>2, SeqTail
<1>4. DOMAIN t = 1 .. n - 1 /\ DOMAIN q = 1 .. n
  <2>1. DOMAIN t = 1 .. Len(t) /\ DOMAIN q = 1 .. Len(q)
    BY <1>3, SeqFacts
  <2> QED BY <1>2, <1>3, <2>1
<1>5. PICK P : P = Positions(q, r)
  OBVIOUS
<1>6. PICK T : T = Positions(t, r)
  OBVIOUS
<1>7. IsFiniteSet(P) /\ Cardinality(P) \in Nat /\ IsFiniteSet(T)
  BY <1>3, <1>5, <1>6, CountFacts
<1>8. /\ \A i : i \in P <=> i \in 1 .. n /\ q[i] = r
      /\ \A i : i \in T <=> i \in 1 .. n - 1 /\ t[i] = r
  BY <1>4, <1>5, <1>6 DEF Positions
<1>9. PICK f : f = [i \in T |-> i + 1]
  OBVIOUS
<1>10. \A i \in T : f[i] \in P \ {1}
  <2> TAKE i \in T
  <2>1. i \in 1 .. n - 1 /\ t[i] = r /\ f[i] = i + 1
    BY <1>8, <1>9
  <2>2. i + 1 \in 1 .. n /\ i + 1 # 1 /\ q[i + 1] = r
    BY <1>3, <2>1
  <2> QED BY <1>8, <2>1, <2>2
<1>11. f \in Injection(T, P \ {1})
  <2>1. f \in [T -> P \ {1}]
    BY <1>9, <1>10
  <2>2. \A i, j \in T : f[i] = f[j] => i = j
    BY <1>8, <1>9
  <2> QED BY <1>9, <2>1, <2>2 DEF Injection, IsInjective
<1>12. f \in Surjection(T, P \ {1})
  <2>1. f \in [T -> P \ {1}]
    BY <1>9, <1>10
  <2>2. ASSUME NEW j \in P \ {1} PROVE \E i \in T : f[i] = j
    <3>1. j \in 1 .. n /\ j # 1 /\ q[j] = r
      BY <1>8
    <3>2. j - 1 \in 1 .. n - 1 /\ (j - 1) + 1 = j
      BY <3>1
    <3>3. t[j - 1] = r
      BY <1>3, <3>1, <3>2
    <3>4. j - 1 \in T /\ f[j - 1] = j
      BY <1>8, <1>9, <3>2, <3>3
    <3> QED BY <3>4
  <2> QED BY <2>1, <2>2 DEF Surjection
<1>13. PICK R : R = P \ {1}
  OBVIOUS
<1>14. ExistsBijection(T, R)
  BY <1>11, <1>12, <1>13 DEF ExistsBijection, Bijection
<1>15. Cardinality(R) = Cardinality(T)
  BY <1>7, <1>14, FS_Bijection
<1>16. Cardinality(R) = IF 1 \in P THEN Cardinality(P) - 1 ELSE Cardinality(P)
  BY <1>7, <1>13, FS_RemoveElement
<1>17. 1 \in P <=> Head(q) = r
  BY <1>3, <1>8
<1> QED BY <1>1, <1>5, <1>6, <1>7, <1>15, <1>16, <1>17

-----------------------------------------------------------------------------
(* Order in a queue *)

LEMMA BeforeAppend ==
  ASSUME NEW S, NEW s \in Seq(S), NEW q, NEW r, q # r, Before(s, q, r), NEW x \in S,
         x = q => r \notin ToSet(s)
  PROVE  Before(Append(s, x), q, r)
<1>1. PICK a : a = Append(s, x)
  OBVIOUS
<1>2. PICK n \in Nat : n = Len(s)
  BY SeqFacts
<1>3. a \in Seq(S) /\ Len(a) = n + 1 /\ a[n + 1] = x /\ \A i \in 1 .. n : a[i] = s[i]
  BY <1>1, <1>2, SeqAppend
<1>4. DOMAIN a = 1 .. n + 1 /\ DOMAIN s = 1 .. n
  <2>1. DOMAIN a = 1 .. Len(a) /\ DOMAIN s = 1 .. Len(s)
    BY <1>3, SeqFacts
  <2> QED BY <1>2, <1>3, <2>1
<1>5. \A i \in 1 .. n : s[i] \in ToSet(s)
  BY <1>4 DEF ToSet
<1>6. ASSUME NEW i \in 1 .. n + 1, NEW j \in 1 .. n + 1, a[i] = q, a[j] = r PROVE i < j
  <2>1. CASE i \in 1 .. n /\ j \in 1 .. n
    BY <1>3, <1>4, <1>6, <2>1 DEF Before
  <2>2. CASE i = n + 1 /\ j \in 1 .. n
    BY <1>3, <1>5, <1>6, <2>2
  <2>3. CASE j = n + 1 /\ i \in 1 .. n
    BY <2>3
  <2>4. CASE j = n + 1 /\ i = n + 1
    BY <1>6, <2>4
  <2> QED BY <2>1, <2>2, <2>3, <2>4
<1> QED BY <1>1, <1>4, <1>6 DEF Before

LEMMA BeforeTail ==
  ASSUME NEW S, NEW s \in Seq(S), s # <<>>, NEW q, NEW r, Before(s, q, r)
  PROVE  Before(Tail(s), q, r)
<1>1. PICK t : t = Tail(s)
  OBVIOUS
<1>2. PICK n \in Nat : n = Len(s)
  BY SeqFacts
<1>3. t \in Seq(S) /\ Len(t) = n - 1 /\ \A i \in 1 .. n - 1 : t[i] = s[i + 1]
  BY <1>1, <1>2, SeqTail
<1>4. DOMAIN t = 1 .. n - 1 /\ DOMAIN s = 1 .. n
  <2>1. DOMAIN t = 1 .. Len(t) /\ DOMAIN s = 1 .. Len(s)
    BY <1>3, SeqFacts
  <2> QED BY <1>2, <1>3, <2>1
<1>5. ASSUME NEW i \in 1 .. n - 1, NEW j \in 1 .. n - 1, t[i] = q, t[j] = r PROVE i < j
  <2>1. i + 1 \in 1 .. n /\ j + 1 \in 1 .. n /\ s[i + 1] = q /\ s[j + 1] = r
    BY <1>3, <1>5
  <2>2. i + 1 < j + 1
    BY <1>4, <2>1 DEF Before
  <2> QED BY <2>2
<1> QED BY <1>1, <1>4, <1>5 DEF Before

LEMMA BeforeRemoveAt ==
  ASSUME NEW S, NEW s \in Seq(S), NEW k \in 1 .. Len(s), NEW q, NEW r, Before(s, q, r)
  PROVE  Before(RemoveAt(s, k), q, r)
<1>1. PICK t : t = RemoveAt(s, k)
  OBVIOUS
<1>2. PICK n \in Nat : n = Len(s)
  BY SeqFacts
<1>3. t \in Seq(S) /\ Len(t) = n - 1 /\ \A i \in 1 .. n - 1 : t[i] = IF i < k THEN s[i] ELSE s[i + 1]
  BY <1>1, <1>2, SeqRemoveAt
<1>4. DOMAIN t = 1 .. n - 1 /\ DOMAIN s = 1 .. n /\ k \in 1 .. n
  <2>1. DOMAIN t = 1 .. Len(t) /\ DOMAIN s = 1 .. Len(s)
    BY <1>3, SeqFacts
  <2> QED BY <1>2, <1>3, <2>1
<1>5. ASSUME NEW i \in 1 .. n - 1, NEW j \in 1 .. n - 1, t[i] = q, t[j] = r PROVE i < j
  <2> DEFINE up(l) == IF l < k THEN l ELSE l + 1
  <2>1. up(i) \in 1 .. n /\ up(j) \in 1 .. n /\ s[up(i)] = q /\ s[up(j)] = r
    BY <1>3, <1>4, <1>5
  <2>2. up(i) < up(j)
    BY <1>4, <2>1 DEF Before
  <2> QED BY <1>4, <2>2
<1> QED BY <1>1, <1>4, <1>5 DEF Before

LEMMA BeforeConcat ==
  ASSUME NEW S, NEW s \in Seq(S), NEW t \in Seq(S), NEW q, NEW r, Before(s, q, r), Before(t, q, r),
         r \in ToSet(s) => q \notin ToSet(t)
  PROVE  Before(s \o t, q, r)
<1>1. PICK a : a = s \o t
  OBVIOUS
<1>2. PICK m \in Nat : m = Len(s)
  BY SeqFacts
<1>3. PICK n \in Nat : n = Len(t)
  BY SeqFacts
<1>4. /\ a \in Seq(S) /\ Len(a) = m + n
      /\ \A i \in 1 .. m : a[i] = s[i]
      /\ \A i \in 1 .. n : a[m + i] = t[i]
  BY <1>1, <1>2, <1>3, SeqConcat
<1>5. DOMAIN a = 1 .. m + n /\ DOMAIN s = 1 .. m /\ DOMAIN t = 1 .. n
  <2>1. DOMAIN a = 1 .. Len(a) /\ DOMAIN s = 1 .. Len(s) /\ DOMAIN t = 1 .. Len(t)
    BY <1>4, SeqFacts
  <2> QED BY <1>2, <1>3, <1>4, <2>1
<1>6. (\A i \in 1 .. m : s[i] \in ToSet(s)) /\ (\A i \in 1 .. n : t[i] \in ToSet(t))
  BY <1>5 DEF ToSet
<1>7. \A i \in 1 .. m + n : i \notin 1 .. m => i - m \in 1 .. n /\ a[i] = t[i - m]
  <2> TAKE i \in 1 .. m + n
  <2> HAVE i \notin 1 .. m
  <2>1. i - m \in 1 .. n /\ m + (i - m) = i
    OBVIOUS
  <2> QED BY <1>4, <2>1
<1>8. ASSUME NEW i \in 1 .. m + n, NEW j \in 1 .. m + n, a[i] = q, a[j] = r PROVE i < j
  <2>1. CASE i \in 1 .. m /\ j \in 1 .. m
    BY <1>4, <1>5, <1>8, <2>1 DEF Before
  <2>2. CASE i \in 1 .. m /\ j \notin 1 .. m
    BY <2>2
  <2>3. CASE i \notin 1 .. m /\ j \in 1 .. m
    BY <1>4, <1>6, <1>7, <1>8, <2>3
  <2>4. CASE i \notin 1 .. m /\ j \notin 1 .. m
    <3>1. i - m \in 1 .. n /\ j - m \in 1 .. n /\ t[i - m] = q /\ t[j - m] = r
      BY <1>7, <1>8, <2>4
    <3>2. i - m < j - m
      BY <1>5, <3>1 DEF Before
    <3> QED BY <3>2
  <2> QED BY <2>1, <2>2, <2>3, <2>4
<1> QED BY <1>1, <1>5, <1>8 DEF Before

-----------------------------------------------------------------------------
(* The DRAM channel *)

LEMMA DramTypes ==
  ASSUME NEW d \in DramState
  PROVE  /\ d.mrqq \in Seq(Request) /\ d.m_queue \in Seq(Request)
         /\ d.rwq \in Seq(Request) /\ d.returnq \in Seq(Request)
         /\ d.mrq \in [Bank -> Request \cup {NoReq}] /\ d.m_last_row \in [Bank -> Row \cup {NoRow}]
         /\ d.tx \in [Request -> Nat] /\ d.dq \in [Request -> Nat] /\ d.m_num_pending \in Nat
         /\ d.active \subseteq Bank /\ d.curr_row \in [Bank -> Row \cup {0}] /\ d.prio \in Bank
         /\ d.scheduler \in {"FIFO", "FRFCFS"}
         /\ DOMAIN d = {"scheduler", "mrqq", "m_queue", "m_num_pending", "m_last_row", "mrq", "curr_row",
                        "active", "prio", "tx", "dq", "rwq", "returnq"}
BY DEF DramState

LEMMA Contents ==
  ASSUME NEW d \in DramState
  PROVE  /\ Unfinished(d) = ToSet(d.mrqq) \cup ToSet(d.m_queue) \cup Flight(d)
         /\ InDram(d) = Unfinished(d) \cup ToSet(d.returnq)
         /\ \A r : r \in Flight(d) <=> (r # NoReq /\ \E b \in Bank : d.mrq[b] = r) \/ r \in ToSet(d.rwq)
         /\ Flight(d) \subseteq Request /\ Unfinished(d) \subseteq Request /\ InDram(d) \subseteq Request
<1>1. /\ d.mrqq \in Seq(Request) /\ d.m_queue \in Seq(Request)
      /\ d.rwq \in Seq(Request) /\ d.returnq \in Seq(Request)
      /\ d.mrq \in [Bank -> Request \cup {NoReq}]
  BY DramTypes
<1>2. /\ ToSet(d.mrqq) \subseteq Request /\ ToSet(d.m_queue) \subseteq Request
      /\ ToSet(d.rwq) \subseteq Request /\ ToSet(d.returnq) \subseteq Request
  BY <1>1, SeqFacts
<1>3. NoReq \notin Request
  BY DramAssumption
<1>4. Unfinished(d) = ToSet(d.mrqq) \cup ToSet(d.m_queue) \cup Flight(d)
  BY <1>2, <1>3 DEF Unfinished, Flight
<1>5. \A r : r \in Flight(d) <=> (r # NoReq /\ \E b \in Bank : d.mrq[b] = r) \/ r \in ToSet(d.rwq)
  BY <1>2, <1>3 DEF Flight
<1>6. Flight(d) \subseteq Request
  BY <1>1, <1>2 DEF Flight
<1> QED BY <1>2, <1>4, <1>5, <1>6 DEF InDram

\* Positions of the scheduler's queue
LEMMA BinFacts ==
  ASSUME NEW d \in DramState, NEW b, NEW row
  PROVE  /\ Waits(d, b) \subseteq 1 .. Len(d.m_queue) /\ Bin(d, b, row) \subseteq Waits(d, b)
         /\ Len(d.m_queue) \in Nat
         /\ \A i : i \in Bin(d, b, row) <=> /\ i \in 1 .. Len(d.m_queue)
                                            /\ Attr[d.m_queue[i]].bank = b /\ Attr[d.m_queue[i]].row = row
<1>1. DOMAIN d.m_queue = 1 .. Len(d.m_queue) /\ Len(d.m_queue) \in Nat
  BY DramTypes, SeqFacts
<1> QED BY <1>1 DEF Waits, Bin

\* Request r enters the channel.
PushPre(d, r) == /\ r \in Request /\ r \notin InDram(d) /\ ~DramFull(d)
                 /\ d.scheduler = "FRFCFS" => d.mrqq = <<>>
PushOrder(d, o, r) == o \cup (Unfinished(d) \X {r})

LEMMA PushChan ==
  ASSUME NEW d, NEW o, ChanInv(d, o), NEW r, PushPre(d, r)
  PROVE  ChanInv(DramPush(d, r), PushOrder(d, o, r)) /\ InDram(DramPush(d, r)) = InDram(d) \cup {r}
<1>0. /\ d \in DramState /\ SchedInv(d) /\ ChanUnique(d) /\ BurstInv(d) /\ OrderInv(d, o)
      /\ r \in Request /\ r \notin InDram(d) /\ ~DramFull(d)
      /\ d.scheduler = "FRFCFS" => d.mrqq = <<>>
  BY DEF ChanInv, PushPre
<1>1. PICK q : q = Append(d.mrqq, r)
  OBVIOUS
<1>2. PICK e : e = DramPush(d, r)
  OBVIOUS
<1>3. d.mrqq \in Seq(Request) /\ Len(d.mrqq) \in Nat
  BY <1>0, DramTypes, SeqFacts
<1>4. r \notin ToSet(d.mrqq) /\ r \notin ToSet(d.m_queue) /\ r \notin Flight(d) /\ r \notin ToSet(d.returnq)
      /\ r \notin Unfinished(d)
  BY <1>0, Contents
<1>5. q \in Seq(Request) /\ Len(q) = Len(d.mrqq) + 1 /\ ToSet(q) = ToSet(d.mrqq) \cup {r} /\ NoDup(q)
  BY <1>0, <1>1, <1>3, <1>4, SeqAppend DEF ChanUnique
<1>6. /\ e \in DramState /\ e.mrqq = q
      /\ e.m_queue = d.m_queue /\ e.rwq = d.rwq /\ e.returnq = d.returnq /\ e.mrq = d.mrq
      /\ e.m_last_row = d.m_last_row /\ e.tx = d.tx /\ e.dq = d.dq
      /\ e.m_num_pending = d.m_num_pending /\ e.scheduler = d.scheduler
  BY <1>0, <1>1, <1>2, <1>5 DEF DramPush, DramState
<1>7. /\ Flight(e) = Flight(d) /\ Unfinished(e) = Unfinished(d) \cup {r} /\ InDram(e) = InDram(d) \cup {r}
  <2>1. Flight(e) = Flight(d)
    BY <1>6 DEF Flight
  <2> QED BY <1>0, <1>5, <1>6, <2>1, Contents
<1>8. SchedInv(e)
  <2>1. d.scheduler = "FIFO" => Len(d.mrqq) < MrqqSize
    BY <1>0, <1>3 DEF DramFull, MrqqSize
  <2>2. d.scheduler = "FRFCFS" /\ SchedQueueSize # 0 => d.m_num_pending < SchedQueueSize
    BY <1>0, DramTypes, DramAssumption DEF DramFull
  <2>3. d.scheduler = "FRFCFS" => Len(q) = 1
    BY <1>0, <1>5
  <2>4. Len(q) <= MrqqSize
    BY <1>0, <1>3, <1>5, <2>1, <2>3, DramTypes DEF MrqqSize
  <2>5. \A x : \A b \in Bank : Bin(e, b, x) = Bin(d, b, x)
    BY <1>6 DEF Bin, Waits
  <2>6. d.m_num_pending \in Nat /\ SchedQueueSize \in Nat
    BY <1>0, DramTypes, DramAssumption
  <2>7. d.scheduler = "FRFCFS" /\ SchedQueueSize # 0 => d.m_num_pending + Len(q) <= SchedQueueSize
    <3> SUFFICES ASSUME d.scheduler = "FRFCFS", SchedQueueSize # 0
                 PROVE  d.m_num_pending + Len(q) <= SchedQueueSize
      OBVIOUS
    <3>1. d.m_num_pending < SchedQueueSize /\ Len(q) = 1
      BY <2>2, <2>3
    <3>2. d.m_num_pending + 1 <= SchedQueueSize
      BY <2>6, <3>1
    <3> QED BY <3>1, <3>2
  <2>8. d.scheduler = "FRFCFS" => Len(q) <= 1
    BY <2>3
  <2>9. \A b \in Bank : e.m_last_row[b] # NoRow => Bin(e, b, e.m_last_row[b]) # {}
    BY <1>0, <1>6, <2>5 DEF SchedInv
  <2>10. e.m_num_pending = Len(e.m_queue) /\ (e.scheduler = "FIFO" => e.m_queue = <<>>)
    BY <1>0, <1>6 DEF SchedInv
  <2> QED BY <1>6, <2>4, <2>7, <2>8, <2>9, <2>10 DEF SchedInv
<1>9. ChanUnique(e)
  BY <1>0, <1>4, <1>5, <1>6, <1>7 DEF ChanUnique
<1>10. BurstInv(e)
  BY <1>0, <1>6, <1>7 DEF BurstInv, Bursts
<1>11. OrderInv(e, PushOrder(d, o, r))
  <2> SUFFICES ASSUME NEW x \in Request, NEW y \in Request, <<x, y>> \in PushOrder(d, o, r), SameRow(x, y)
               PROVE  Ahead(e, x, y)
    BY DEF OrderInv
  <2>1. CASE <<x, y>> \in o
    <3>1. Ahead(d, x, y)
      BY <1>0, <2>1 DEF OrderInv
    <3>2. x # y /\ x \in Unfinished(d) /\ y \in Unfinished(d) /\ x # r /\ y # r
      BY <1>4, <3>1 DEF Ahead
    <3>3. Before(q, x, y)
      BY <1>0, <1>1, <1>3, <3>1, <3>2, BeforeAppend DEF Ahead
    <3> QED BY <1>5, <1>6, <1>7, <3>1, <3>2, <3>3 DEF Ahead
  <2>2. CASE x \in Unfinished(d) /\ y = r
    <3>1. x # r
      BY <1>4, <2>2
    <3>2. Before(d.mrqq, x, r) /\ Before(d.m_queue, x, r) /\ Before(d.rwq, x, r)
      <4>1. r \notin ToSet(d.rwq)
        BY <1>0, <1>4, Contents
      <4> QED BY <1>4, <4>1 DEF Before, ToSet
    <3>3. Before(q, x, r)
      BY <1>0, <1>1, <1>3, <3>1, <3>2, BeforeAppend
    <3> QED BY <1>4, <1>6, <1>7, <2>2, <3>1, <3>2, <3>3 DEF Ahead
  <2> QED BY <2>1, <2>2 DEF PushOrder
<1>12. ChanInv(e, PushOrder(d, o, r))
  BY <1>6, <1>8, <1>9, <1>10, <1>11 DEF ChanInv
<1> QED BY <1>2, <1>7, <1>12

\* Only the rows that are open, and the turn, change.
LEMMA ChanSame ==
  ASSUME NEW d, NEW o, ChanInv(d, o), NEW e \in DramState,
         e.mrqq = d.mrqq, e.m_queue = d.m_queue, e.rwq = d.rwq, e.returnq = d.returnq, e.mrq = d.mrq,
         e.m_last_row = d.m_last_row, e.tx = d.tx, e.dq = d.dq, e.m_num_pending = d.m_num_pending,
         e.scheduler = d.scheduler
  PROVE  ChanInv(e, o) /\ InDram(e) = InDram(d) /\ Unfinished(e) = Unfinished(d)
<1>0. d \in DramState /\ SchedInv(d) /\ ChanUnique(d) /\ BurstInv(d) /\ OrderInv(d, o)
  BY DEF ChanInv
<1>1. Flight(e) = Flight(d)
  BY DEF Flight
<1>2. Unfinished(e) = Unfinished(d) /\ InDram(e) = InDram(d)
  BY DEF Unfinished, InDram
<1>3. \A x : \A b \in Bank : Bin(e, b, x) = Bin(d, b, x)
  BY DEF Bin, Waits
<1>4. SchedInv(e)
  <2>1. \A b \in Bank : e.m_last_row[b] # NoRow => Bin(e, b, e.m_last_row[b]) # {}
    BY <1>0, <1>3 DEF SchedInv
  <2> QED BY <1>0, <2>1 DEF SchedInv
<1>5. ChanUnique(e)
  BY <1>0, <1>1, <1>2 DEF ChanUnique
<1>6. BurstInv(e)
  BY <1>0, <1>1 DEF BurstInv, Bursts
<1>7. OrderInv(e, o)
  BY <1>0, <1>1, <1>2 DEF OrderInv, Ahead
<1> QED BY <1>2, <1>4, <1>5, <1>6, <1>7 DEF ChanInv

\* The partition takes an answer.
TakeAnswer(d) == [d EXCEPT !.returnq = Tail(@)]

LEMMA ReturnChan ==
  ASSUME NEW d, NEW o, ChanInv(d, o), d.returnq # <<>>, NEW e, e = TakeAnswer(d), NEW r, r = Head(d.returnq)
  PROVE  /\ ChanInv(e, o) /\ InDram(e) = InDram(d) \ {r} /\ Unfinished(e) = Unfinished(d)
         /\ r \in InDram(d) /\ ~WriteBack(r)
<1>0. d \in DramState /\ SchedInv(d) /\ ChanUnique(d) /\ BurstInv(d) /\ OrderInv(d, o)
  BY DEF ChanInv
<1>1. PICK q : q = Tail(d.returnq)
  OBVIOUS
<1>2. d.returnq \in Seq(Request)
  BY <1>0, DramTypes
<1>3. /\ q \in Seq(Request) /\ NoDup(q) /\ ToSet(q) = ToSet(d.returnq) \ {r}
      /\ r \in ToSet(d.returnq)
  BY <1>0, <1>1, <1>2, SeqTail DEF ChanUnique
<1>4. /\ e \in DramState /\ e.returnq = q /\ e.mrqq = d.mrqq
      /\ e.m_queue = d.m_queue /\ e.rwq = d.rwq /\ e.mrq = d.mrq
      /\ e.m_last_row = d.m_last_row /\ e.tx = d.tx /\ e.dq = d.dq
      /\ e.m_num_pending = d.m_num_pending /\ e.scheduler = d.scheduler
  BY <1>0, <1>1, <1>3 DEF TakeAnswer, DramState
<1>5. Flight(e) = Flight(d) /\ Unfinished(e) = Unfinished(d)
  BY <1>4 DEF Flight, Unfinished
<1>6. r \notin Unfinished(d) /\ ~WriteBack(r)
  BY <1>0, <1>3 DEF ChanUnique
<1>7. InDram(e) = InDram(d) \ {r} /\ r \in InDram(d)
  BY <1>3, <1>4, <1>5, <1>6 DEF InDram
<1>8. SchedInv(e)
  <2>1. \A x : \A b \in Bank : Bin(e, b, x) = Bin(d, b, x)
    BY <1>4 DEF Bin, Waits
  <2>2. \A b \in Bank : e.m_last_row[b] # NoRow => Bin(e, b, e.m_last_row[b]) # {}
    BY <1>0, <1>4, <2>1 DEF SchedInv
  <2> QED BY <1>0, <1>4, <2>2 DEF SchedInv
<1>9. ChanUnique(e)
  BY <1>0, <1>3, <1>4, <1>5 DEF ChanUnique
<1>10. BurstInv(e)
  BY <1>0, <1>4, <1>5 DEF BurstInv, Bursts
<1>11. OrderInv(e, o)
  BY <1>0, <1>4, <1>5 DEF OrderInv, Ahead
<1> QED BY <1>4, <1>5, <1>6, <1>7, <1>8, <1>9, <1>10, <1>11 DEF ChanInv

LEMMA NextTurn ==
  ASSUME NEW b \in Bank
  PROVE  (b + 1) % nbk \in Bank
BY DramAssumption DEF Bank

\* Bank b issues a command.
LEMMA CommandChan ==
  ASSUME NEW d, NEW o, ChanInv(d, o), NEW b \in Bank, CanCommand(d, b), NEW e, e = Command(d, b)
  PROVE  /\ ChanInv(e, o) /\ InDram(e) = InDram(d) /\ Unfinished(e) = Unfinished(d)
         /\ e.mrqq = d.mrqq /\ e.scheduler = d.scheduler /\ e.m_num_pending = d.m_num_pending
<1>0. d \in DramState /\ SchedInv(d) /\ ChanUnique(d) /\ BurstInv(d) /\ OrderInv(d, o)
  BY DEF ChanInv
<1>1. PICK r : r = d.mrq[b]
  OBVIOUS
<1>2. /\ r \in Request /\ r # NoReq /\ Attr[r].bank = b /\ d.tx[r] < Attr[r].bursts
      /\ d.tx[r] \in Nat /\ Attr[r].bursts \in Nat /\ Attr[r].row \in Row
  <2>1. r # NoReq /\ r \in Request
    BY <1>0, <1>1, DramTypes DEF CanCommand
  <2> QED BY <1>0, <1>1, <2>1, DramTypes, DramAssumption DEF BurstInv, Row
<1>3. DOMAIN d = {"scheduler", "mrqq", "m_queue", "m_num_pending", "m_last_row", "mrq", "curr_row",
                  "active", "prio", "tx", "dq", "rwq", "returnq"}
  BY <1>0, DramTypes
<1>4. CASE ~RowOpen(d, b)
  <2>1. (b + 1) % nbk \in Bank
    BY NextTurn
  <2>2. e \in DramState
    BY <1>0, <1>1, <1>2, <1>4, <2>1 DEF Command, DramState
  <2>3. /\ e.mrqq = d.mrqq /\ e.m_queue = d.m_queue /\ e.rwq = d.rwq /\ e.returnq = d.returnq /\ e.mrq = d.mrq
        /\ e.m_last_row = d.m_last_row /\ e.tx = d.tx /\ e.dq = d.dq /\ e.m_num_pending = d.m_num_pending
        /\ e.scheduler = d.scheduler
    BY <1>3, <1>4 DEF Command
  <2> QED BY <2>2, <2>3, ChanSame
<1>5. CASE RowOpen(d, b)
  <2>1. PICK w : w = Append(d.rwq, r)
    OBVIOUS
  <2>2. PICK x : x = IF d.tx[r] + 1 < Attr[r].bursts THEN r ELSE NoReq
    OBVIOUS
  <2>3. e = [d EXCEPT !.rwq = w, !.tx[r] = @ + 1, !.mrq[b] = x]
    BY <1>1, <1>5, <2>1, <2>2 DEF Command
  <2>4. d.rwq \in Seq(Request)
    BY <1>0, DramTypes
  <2>5. w \in Seq(Request) /\ ToSet(w) = ToSet(d.rwq) \cup {r}
    BY <1>2, <2>1, <2>4, SeqAppend
  <2>6. /\ d.mrq \in [Bank -> Request \cup {NoReq}]
        /\ d.tx \in [Request -> Nat] /\ d.dq \in [Request -> Nat]
    BY <1>0, DramTypes
  <2>7. /\ e.mrqq = d.mrqq /\ e.m_queue = d.m_queue /\ e.rwq = w /\ e.returnq = d.returnq
        /\ e.mrq = [d.mrq EXCEPT ![b] = x] /\ e.tx = [d.tx EXCEPT ![r] = @ + 1]
        /\ e.m_last_row = d.m_last_row /\ e.dq = d.dq /\ e.m_num_pending = d.m_num_pending
        /\ e.scheduler = d.scheduler
    BY <1>3, <2>3
  <2>8. e \in DramState
    <3>1. [d.mrq EXCEPT ![b] = x] \in [Bank -> Request \cup {NoReq}]
      BY <1>2, <2>2, <2>6
    <3>2. [d.tx EXCEPT ![r] = @ + 1] \in [Request -> Nat]
      BY <1>2, <2>6
    <3> QED BY <1>0, <2>3, <2>5, <3>1, <3>2 DEF DramState
  <2>9. \A c \in Bank : (c # b => e.mrq[c] = d.mrq[c]) /\ e.mrq[b] = x
    BY <2>6, <2>7
  <2>10. \A y \in Request : e.tx[y] = IF y = r THEN d.tx[r] + 1 ELSE d.tx[y]
    BY <2>6, <2>7
  <2>11. Flight(e) = Flight(d)
    <3>1. \A y : y \in Flight(d) <=> (y # NoReq /\ \E c \in Bank : d.mrq[c] = y) \/ y \in ToSet(d.rwq)
      BY <1>0, Contents
    <3>2. \A y : y \in Flight(e) <=> (y # NoReq /\ \E c \in Bank : e.mrq[c] = y) \/ y \in ToSet(w)
      BY <2>7, <2>8, Contents
    <3>3. ASSUME NEW y \in Flight(d) PROVE y \in Flight(e)
      BY <1>1, <2>5, <2>9, <3>1, <3>2
    <3>4. ASSUME NEW y \in Flight(e) PROVE y \in Flight(d)
      BY <1>1, <1>2, <2>2, <2>5, <2>9, <3>1, <3>2
    <3> QED BY <3>3, <3>4
  <2>12. Unfinished(e) = Unfinished(d) /\ InDram(e) = InDram(d)
    BY <1>0, <2>7, <2>8, <2>11, Contents
  <2>13. SchedInv(e)
    <3>1. \A row : \A c \in Bank : Bin(e, c, row) = Bin(d, c, row)
      BY <2>7 DEF Bin, Waits
    <3>2. \A c \in Bank : e.m_last_row[c] # NoRow => Bin(e, c, e.m_last_row[c]) # {}
      BY <1>0, <2>7, <3>1 DEF SchedInv
    <3> QED BY <1>0, <2>7, <3>2 DEF SchedInv
  <2>14. ChanUnique(e)
    BY <1>0, <2>7, <2>11, <2>12 DEF ChanUnique
  <2>15. BurstInv(e)
    <3>1. ASSUME NEW c \in Bank, e.mrq[c] # NoReq
          PROVE  Attr[e.mrq[c]].bank = c /\ e.tx[e.mrq[c]] < Attr[e.mrq[c]].bursts
      <4>1. CASE c = b
        <5>1. e.mrq[c] = r /\ d.tx[r] + 1 < Attr[r].bursts
          BY <2>2, <2>9, <3>1, <4>1
        <5> QED BY <1>2, <2>10, <4>1, <5>1
      <4>2. CASE c # b
        <5>1. e.mrq[c] = d.mrq[c] /\ d.mrq[c] \in Request
          BY <2>6, <2>9, <3>1, <4>2
        <5>2. Attr[d.mrq[c]].bank = c /\ d.tx[d.mrq[c]] < Attr[d.mrq[c]].bursts
          BY <1>0, <3>1, <5>1 DEF BurstInv
        <5>3. e.tx[d.mrq[c]] = d.tx[d.mrq[c]]
          BY <1>2, <2>10, <4>2, <5>1, <5>2
        <5> QED BY <5>1, <5>2, <5>3
      <4> QED BY <4>1, <4>2
    <3>2. ASSUME NEW y \in Request
          PROVE  /\ e.dq[y] + Bursts(e, y) = e.tx[y] /\ e.tx[y] <= Attr[y].bursts
                 /\ y \notin Flight(e) => e.tx[y] = 0
                 /\ y \in Flight(e) /\ e.mrq[Attr[y].bank] # y => e.tx[y] = Attr[y].bursts
      <4>1. /\ d.dq[y] + Bursts(d, y) = d.tx[y] /\ d.tx[y] <= Attr[y].bursts
            /\ y \notin Flight(d) => d.tx[y] = 0
            /\ y \in Flight(d) /\ d.mrq[Attr[y].bank] # y => d.tx[y] = Attr[y].bursts
        BY <1>0 DEF BurstInv
      <4>2. Bursts(e, y) = Bursts(d, y) + (IF r = y THEN 1 ELSE 0)
        BY <1>2, <2>1, <2>4, <2>7, CountAppend DEF Bursts
      <4>3. Bursts(d, y) \in Nat /\ d.dq[y] \in Nat /\ d.tx[y] \in Nat /\ e.dq[y] = d.dq[y]
        BY <2>4, <2>6, <2>7, CountFacts DEF Bursts
      <4>4. CASE y = r
        <5>1. r \in Flight(e) /\ e.tx[r] = d.tx[r] + 1 /\ e.mrq[b] = x
          BY <1>0, <1>1, <1>2, <2>9, <2>10, <2>11, Contents
        <5>2. e.dq[y] + Bursts(e, y) = e.tx[y]
          BY <4>1, <4>2, <4>3, <4>4, <5>1
        <5>3. e.tx[y] <= Attr[y].bursts
          BY <1>2, <4>4, <5>1
        <5>4. e.mrq[b] # r => e.tx[r] = Attr[r].bursts
          BY <1>2, <2>2, <5>1
        <5> QED BY <1>2, <4>4, <5>1, <5>2, <5>3, <5>4
      <4>5. CASE y # r
        <5>1. e.tx[y] = d.tx[y] /\ Bursts(e, y) = Bursts(d, y)
          BY <2>10, <4>2, <4>3, <4>5
        <5>2. e.mrq[Attr[y].bank] # y => d.mrq[Attr[y].bank] # y
          BY <1>1, <2>9, <4>5, DramAssumption
        <5> QED BY <2>11, <4>1, <4>3, <5>1, <5>2
      <4> QED BY <4>4, <4>5
    <3> QED BY <3>1, <3>2 DEF BurstInv
  <2>16. OrderInv(e, o)
    <3> SUFFICES ASSUME NEW u \in Request, NEW v \in Request, <<u, v>> \in o, SameRow(u, v)
                 PROVE  Ahead(e, u, v)
      BY DEF OrderInv
    <3>1. Ahead(d, u, v)
      BY <1>0 DEF OrderInv
    <3>2. u # v /\ (v \in Flight(d) => u \in Flight(d) /\ u # d.mrq[Attr[u].bank])
      BY <3>1 DEF Ahead
    <3>3. u = r => v \notin ToSet(d.rwq)
      BY <1>0, <1>1, <1>2, <3>2, Contents
    <3>4. Before(w, u, v)
      BY <1>2, <2>1, <2>4, <3>1, <3>2, <3>3, BeforeAppend DEF Ahead
    <3>5. u # d.mrq[Attr[u].bank] => u # e.mrq[Attr[u].bank]
      BY <1>1, <1>2, <2>2, <2>9, DramAssumption
    <3> QED BY <2>7, <2>11, <2>12, <3>1, <3>2, <3>4, <3>5 DEF Ahead
  <2> QED BY <2>7, <2>8, <2>12, <2>13, <2>14, <2>15, <2>16 DEF ChanInv
<1> QED BY <1>4, <1>5

\* Request r leaves the queue it waited in for its bank, which is free.
Starts(d, o, r, e) ==
  /\ r \in ToSet(d.mrqq) \cup ToSet(d.m_queue)
  /\ d.mrq[Attr[r].bank] = NoReq
  /\ \A q \in Request : <<q, r>> \in o /\ SameRow(q, r) => q \in Flight(d)
  /\ e \in DramState
  /\ e.mrq = [d.mrq EXCEPT ![Attr[r].bank] = r]
  /\ e.rwq = d.rwq /\ e.returnq = d.returnq /\ e.tx = d.tx /\ e.dq = d.dq /\ e.scheduler = d.scheduler
  /\ NoDup(e.mrqq) /\ NoDup(e.m_queue)
  /\ ToSet(e.mrqq) = ToSet(d.mrqq) \ {r} /\ ToSet(e.m_queue) = ToSet(d.m_queue) \ {r}
  /\ \A u, v : Before(d.mrqq, u, v) => Before(e.mrqq, u, v)
  /\ \A u, v : Before(d.m_queue, u, v) => Before(e.m_queue, u, v)

LEMMA StartChan ==
  ASSUME NEW d, NEW o, ChanInv(d, o), NEW r, NEW e, Starts(d, o, r, e), SchedInv(e)
  PROVE  ChanInv(e, o) /\ InDram(e) = InDram(d) /\ Unfinished(e) = Unfinished(d)
<1>0. /\ d \in DramState /\ SchedInv(d) /\ ChanUnique(d) /\ BurstInv(d) /\ OrderInv(d, o)
      /\ e \in DramState
  BY DEF ChanInv, Starts
<1>1. PICK b : b = Attr[r].bank
  OBVIOUS
<1>2. /\ d.mrqq \in Seq(Request) /\ d.m_queue \in Seq(Request) /\ d.rwq \in Seq(Request)
      /\ d.mrq \in [Bank -> Request \cup {NoReq}]
      /\ d.tx \in [Request -> Nat] /\ d.dq \in [Request -> Nat]
  BY <1>0, DramTypes
<1>3. r \in Request /\ r # NoReq /\ b \in Bank /\ Attr[r].bursts \in Nat \ {0}
  <2>1. ToSet(d.mrqq) \subseteq Request /\ ToSet(d.m_queue) \subseteq Request
    BY <1>2, SeqFacts
  <2> QED BY <1>1, <2>1, DramAssumption DEF Starts
<1>4. r \notin Flight(d) /\ d.mrq[b] = NoReq
  BY <1>0, <1>1 DEF ChanUnique, Starts
<1>5. \A c \in Bank : (c # b => e.mrq[c] = d.mrq[c]) /\ e.mrq[b] = r
  BY <1>1, <1>2, <1>3 DEF Starts
<1>6. Flight(e) = Flight(d) \cup {r}
  <2>1. \A y : y \in Flight(d) <=> (y # NoReq /\ \E c \in Bank : d.mrq[c] = y) \/ y \in ToSet(d.rwq)
    BY <1>0, Contents
  <2>2. \A y : y \in Flight(e) <=> (y # NoReq /\ \E c \in Bank : e.mrq[c] = y) \/ y \in ToSet(d.rwq)
    BY <1>0, Contents DEF Starts
  <2>3. ASSUME NEW y \in Flight(d) PROVE y \in Flight(e)
    BY <1>4, <1>5, <2>1, <2>2
  <2>4. ASSUME NEW y \in Flight(e), y # r PROVE y \in Flight(d)
    BY <1>5, <2>1, <2>2, <2>4
  <2>5. r \in Flight(e)
    BY <1>3, <1>5, <2>2
  <2> QED BY <2>3, <2>4, <2>5
<1>7. Unfinished(e) = Unfinished(d) /\ InDram(e) = InDram(d)
  <2>1. Unfinished(e) = ToSet(e.mrqq) \cup ToSet(e.m_queue) \cup Flight(e)
    BY <1>0, Contents
  <2>2. Unfinished(d) = ToSet(d.mrqq) \cup ToSet(d.m_queue) \cup Flight(d)
    BY <1>0, Contents
  <2>3. Unfinished(e) = Unfinished(d)
    BY <1>6, <2>1, <2>2 DEF Starts
  <2> QED BY <2>3 DEF InDram, Starts
<1>8. ChanUnique(e)
  BY <1>0, <1>6, <1>7 DEF ChanUnique, Starts
<1>9. BurstInv(e)
  <2>1. d.tx[r] = 0
    BY <1>0, <1>3, <1>4 DEF BurstInv
  <2>2. e.tx = d.tx /\ e.dq = d.dq /\ \A y : Bursts(e, y) = Bursts(d, y)
    BY DEF Starts, Bursts
  <2>3. ASSUME NEW c \in Bank, e.mrq[c] # NoReq
        PROVE  Attr[e.mrq[c]].bank = c /\ e.tx[e.mrq[c]] < Attr[e.mrq[c]].bursts
    <3>1. CASE c = b
      BY <1>1, <1>3, <1>5, <2>1, <2>2, <3>1
    <3>2. CASE c # b
      BY <1>0, <1>5, <2>2, <2>3, <3>2 DEF BurstInv
    <3> QED BY <3>1, <3>2
  <2>4. ASSUME NEW y \in Request, y \in Flight(e), e.mrq[Attr[y].bank] # y
        PROVE  y \in Flight(d) /\ d.mrq[Attr[y].bank] # y
    <3>1. y # r
      BY <1>1, <1>3, <1>5, <2>4
    <3>2. Attr[y].bank \in Bank /\ y # NoReq
      BY DramAssumption
    <3> QED BY <1>4, <1>5, <1>6, <2>4, <3>1, <3>2
  <2>5. ASSUME NEW y \in Request
        PROVE  /\ e.dq[y] + Bursts(e, y) = e.tx[y] /\ e.tx[y] <= Attr[y].bursts
               /\ y \notin Flight(e) => e.tx[y] = 0
               /\ y \in Flight(e) /\ e.mrq[Attr[y].bank] # y => e.tx[y] = Attr[y].bursts
    BY <1>0, <1>6, <2>2, <2>4 DEF BurstInv
  <2> QED BY <2>3, <2>5 DEF BurstInv
<1>10. OrderInv(e, o)
  <2> SUFFICES ASSUME NEW u \in Request, NEW v \in Request, <<u, v>> \in o, SameRow(u, v)
               PROVE  Ahead(e, u, v)
    BY DEF OrderInv
  <2>1. Ahead(d, u, v)
    BY <1>0 DEF OrderInv
  <2>2. Before(e.mrqq, u, v) /\ Before(e.m_queue, u, v) /\ Before(e.rwq, u, v)
    BY <2>1 DEF Ahead, Starts
  <2>3. v \in ToSet(e.m_queue) => u \notin ToSet(e.mrqq)
    BY <2>1 DEF Ahead, Starts
  <2>4. ASSUME v \in Flight(e) PROVE u \in Flight(e) /\ u # e.mrq[Attr[u].bank]
    <3>1. CASE v = r
      <4>1. u \in Flight(d) /\ Attr[u].bank = b
        BY <1>1, <3>1 DEF Starts, SameRow
      <4> QED BY <1>3, <1>4, <1>5, <1>6, <4>1
    <3>2. CASE v # r
      <4>1. u \in Flight(d) /\ u # d.mrq[Attr[u].bank] /\ Attr[u].bank \in Bank
        BY <1>6, <2>1, <2>4, <3>2, DramAssumption DEF Ahead
      <4> QED BY <1>4, <1>5, <1>6, <4>1
    <3> QED BY <3>1, <3>2
  <2> QED BY <1>7, <2>1, <2>2, <2>3, <2>4 DEF Ahead
<1> QED BY <1>0, <1>7, <1>8, <1>9, <1>10 DEF ChanInv

\* scheduler_fifo
LEMMA FifoChan ==
  ASSUME NEW d, NEW o, ChanInv(d, o), d.scheduler = "FIFO", NEW e, e = ScheduleFifo(d)
  PROVE  ChanInv(e, o) /\ InDram(e) = InDram(d) /\ Unfinished(e) = Unfinished(d) /\ e.scheduler = d.scheduler
<1>0. d \in DramState /\ SchedInv(d) /\ ChanUnique(d) /\ BurstInv(d) /\ OrderInv(d, o)
  BY DEF ChanInv
<1>1. PICK r : r = Head(d.mrqq)
  OBVIOUS
<1>2. CASE d.mrqq = <<>> \/ d.mrq[Attr[r].bank] # NoReq
  <2>1. e = d
    BY <1>1, <1>2 DEF ScheduleFifo
  <2> QED BY <2>1
<1>3. CASE ~(d.mrqq = <<>> \/ d.mrq[Attr[r].bank] # NoReq)
  <2>1. PICK q : q = Tail(d.mrqq)
    OBVIOUS
  <2>2. e = [d EXCEPT !.mrqq = q, !.mrq[Attr[r].bank] = r]
    BY <1>1, <1>3, <2>1 DEF ScheduleFifo
  <2>3. d.mrqq \in Seq(Request) /\ d.mrq \in [Bank -> Request \cup {NoReq}]
    BY <1>0, DramTypes
  <2>4. /\ q \in Seq(Request) /\ Len(q) = Len(d.mrqq) - 1 /\ r \in Request /\ r \in ToSet(d.mrqq)
        /\ NoDup(q) /\ ToSet(q) = ToSet(d.mrqq) \ {r} /\ r = d.mrqq[1] /\ Len(d.mrqq) >= 1
    BY <1>0, <1>1, <1>3, <2>1, <2>3, SeqTail DEF ChanUnique
  <2>5. Attr[r].bank \in Bank
    BY <2>4, DramAssumption
  <2>6. DOMAIN d = {"scheduler", "mrqq", "m_queue", "m_num_pending", "m_last_row", "mrq", "curr_row",
                    "active", "prio", "tx", "dq", "rwq", "returnq"}
    BY <1>0, DramTypes
  <2>7. /\ e.mrqq = q /\ e.m_queue = d.m_queue /\ e.rwq = d.rwq /\ e.returnq = d.returnq
        /\ e.mrq = [d.mrq EXCEPT ![Attr[r].bank] = r]
        /\ e.m_last_row = d.m_last_row /\ e.tx = d.tx /\ e.dq = d.dq /\ e.m_num_pending = d.m_num_pending
        /\ e.scheduler = d.scheduler
    BY <2>2, <2>6
  <2>8. e \in DramState
    <3>1. [d.mrq EXCEPT ![Attr[r].bank] = r] \in [Bank -> Request \cup {NoReq}]
      BY <2>3, <2>4
    <3> QED BY <1>0, <2>2, <2>4, <3>1 DEF DramState
  <2>9. SchedInv(e)
    <3>1. \A x : \A b \in Bank : Bin(e, b, x) = Bin(d, b, x)
      BY <2>7 DEF Bin, Waits
    <3>2. \A b \in Bank : e.m_last_row[b] # NoRow => Bin(e, b, e.m_last_row[b]) # {}
      BY <1>0, <2>7, <3>1 DEF SchedInv
    <3>3. Len(d.mrqq) \in Nat /\ Len(d.mrqq) <= MrqqSize
      BY <1>0, <2>3, SeqFacts DEF SchedInv
    <3>4. Len(q) <= MrqqSize
      BY <2>4, <3>3 DEF MrqqSize
    <3>5. e.scheduler # "FRFCFS"
      BY <2>7
    <3> QED BY <1>0, <2>7, <3>2, <3>4, <3>5 DEF SchedInv
  <2>10. d.m_queue = <<>> /\ ToSet(d.m_queue) = {}
    <3>1. d.m_queue = <<>> /\ d.m_queue \in Seq(Request)
      BY <1>0, DramTypes DEF SchedInv
    <3> QED BY <3>1, SeqFacts
  <2>11. ASSUME NEW u \in Request, <<u, r>> \in o, SameRow(u, r) PROVE u \in Flight(d)
    <3>1. Ahead(d, u, r)
      BY <1>0, <2>4, <2>11 DEF OrderInv
    <3>2. u \in ToSet(d.mrqq) \cup Flight(d) /\ Before(d.mrqq, u, r)
      BY <1>0, <2>10, <3>1, Contents DEF Ahead
    <3>3. ASSUME u \in ToSet(d.mrqq) PROVE FALSE
      <4>0. Len(d.mrqq) \in Nat /\ DOMAIN d.mrqq = 1 .. Len(d.mrqq)
        BY <2>3, SeqFacts
      <4>1. PICK i \in 1 .. Len(d.mrqq) : d.mrqq[i] = u
        BY <2>3, <3>3, SeqFacts
      <4>2. 1 \in 1 .. Len(d.mrqq)
        BY <2>4, <4>0
      <4>3. i < 1
        BY <2>4, <3>2, <4>0, <4>1, <4>2 DEF Before
      <4> QED BY <4>1, <4>3
    <3> QED BY <3>2, <3>3
  <2>12. \A u, v : Before(d.mrqq, u, v) => Before(q, u, v)
    BY <1>3, <2>1, <2>3, BeforeTail
  <2>13. r \notin ToSet(d.m_queue)
    BY <2>10
  <2>14. Starts(d, o, r, e)
    BY <1>0, <1>3, <2>4, <2>7, <2>8, <2>10, <2>11, <2>12 DEF Starts, ChanUnique
  <2> QED BY <2>7, <2>9, <2>14, StartChan
<1> QED BY <1>2, <1>3

\* The scheduler takes all of mrqq.
LEMMA DrainChan ==
  ASSUME NEW d, NEW o, ChanInv(d, o), d.scheduler = "FRFCFS", NEW e, e = Drained(d)
  PROVE  /\ ChanInv(e, o) /\ InDram(e) = InDram(d) /\ Unfinished(e) = Unfinished(d)
         /\ e.mrqq = <<>> /\ e.scheduler = d.scheduler
<1>0. d \in DramState /\ SchedInv(d) /\ ChanUnique(d) /\ BurstInv(d) /\ OrderInv(d, o)
  BY DEF ChanInv
<1>1. /\ d.mrqq \in Seq(Request) /\ d.m_queue \in Seq(Request) /\ d.m_num_pending \in Nat
      /\ SchedQueueSize \in Nat
  BY <1>0, DramTypes, DramAssumption
<1>2. PICK n \in Nat : n = Len(d.mrqq)
  BY <1>1, SeqFacts
<1>3. SchedQueueSize # 0 => d.m_num_pending + n <= SchedQueueSize
  BY <1>0, <1>2 DEF SchedInv
<1>4. n = IF SchedQueueSize = 0 \/ SchedQueueSize - d.m_num_pending > Len(d.mrqq)
            THEN Len(d.mrqq) ELSE SchedQueueSize - d.m_num_pending
  BY <1>1, <1>2, <1>3
<1>5. PICK q : q = d.m_queue \o d.mrqq
  OBVIOUS
<1>6. e = [d EXCEPT !.mrqq = <<>>, !.m_queue = q, !.m_num_pending = @ + n]
  <2>1. e = [d EXCEPT !.mrqq = SubSeq(@, n + 1, Len(@)), !.m_queue = @ \o SubSeq(d.mrqq, 1, n),
                      !.m_num_pending = @ + n]
    BY <1>4 DEF Drained
  <2>2. SubSeq(d.mrqq, 1, n) = d.mrqq /\ SubSeq(d.mrqq, n + 1, Len(d.mrqq)) = <<>>
    BY <1>1, <1>2, SeqWhole
  <2> QED BY <1>5, <2>1, <2>2
<1>7. /\ q \in Seq(Request) /\ Len(q) = Len(d.m_queue) + n /\ ToSet(q) = ToSet(d.m_queue) \cup ToSet(d.mrqq)
      /\ NoDup(q) /\ \A i \in 1 .. Len(d.m_queue) : q[i] = d.m_queue[i]
  <2>1. NoDup(d.mrqq) /\ NoDup(d.m_queue) /\ ToSet(d.m_queue) \cap ToSet(d.mrqq) = {}
    BY <1>0 DEF ChanUnique
  <2>2. /\ q \in Seq(Request) /\ Len(q) = Len(d.m_queue) + Len(d.mrqq)
        /\ \A i \in 1 .. Len(d.m_queue) : q[i] = d.m_queue[i]
        /\ ToSet(q) = ToSet(d.m_queue) \cup ToSet(d.mrqq)
        /\ NoDup(d.m_queue) /\ NoDup(d.mrqq) /\ ToSet(d.m_queue) \cap ToSet(d.mrqq) = {} => NoDup(q)
    <3>1. PICK u \in Seq(Request), v \in Seq(Request) : u = d.m_queue /\ v = d.mrqq
      BY <1>1
    <3>2. /\ u \o v \in Seq(Request) /\ Len(u \o v) = Len(u) + Len(v)
          /\ \A i \in 1 .. Len(u) : (u \o v)[i] = u[i]
          /\ ToSet(u \o v) = ToSet(u) \cup ToSet(v)
          /\ NoDup(u) /\ NoDup(v) /\ ToSet(u) \cap ToSet(v) = {} => NoDup(u \o v)
      BY SeqConcat
    <3>3. q = u \o v
      BY <1>5, <3>1
    <3> QED BY <3>1, <3>2, <3>3, Zenon
  <2> QED BY <1>2, <2>1, <2>2
<1>8. DOMAIN d = {"scheduler", "mrqq", "m_queue", "m_num_pending", "m_last_row", "mrq", "curr_row",
                  "active", "prio", "tx", "dq", "rwq", "returnq"}
  BY <1>0, DramTypes
<1>9. /\ e.mrqq = <<>> /\ e.m_queue = q /\ e.rwq = d.rwq /\ e.returnq = d.returnq /\ e.mrq = d.mrq
      /\ e.m_last_row = d.m_last_row /\ e.tx = d.tx /\ e.dq = d.dq
      /\ e.m_num_pending = d.m_num_pending + n /\ e.scheduler = d.scheduler
  BY <1>6, <1>8
<1>10. e \in DramState
  <2>1. <<>> \in Seq(Request) /\ d.m_num_pending + n \in Nat
    BY <1>1
  <2> QED BY <1>0, <1>6, <1>7, <2>1 DEF DramState
<1>11. Len(e.mrqq) = 0 /\ ToSet(e.mrqq) = {} /\ NoDup(e.mrqq)
  BY <1>9 DEF ToSet, NoDup
<1>12. Flight(e) = Flight(d)
  BY <1>9 DEF Flight
<1>13. Unfinished(e) = Unfinished(d) /\ InDram(e) = InDram(d)
  <2>1. Unfinished(e) = ToSet(e.mrqq) \cup ToSet(e.m_queue) \cup Flight(e)
    BY <1>10, Contents
  <2>2. Unfinished(d) = ToSet(d.mrqq) \cup ToSet(d.m_queue) \cup Flight(d)
    BY <1>0, Contents
  <2>3. Unfinished(e) = Unfinished(d)
    BY <1>7, <1>9, <1>11, <1>12, <2>1, <2>2
  <2> QED BY <1>9, <2>3 DEF InDram
<1>14. SchedInv(e)
  <2>1. e.m_num_pending = Len(e.m_queue)
    BY <1>0, <1>7, <1>9 DEF SchedInv
  <2>2. SchedQueueSize # 0 => e.m_num_pending + Len(e.mrqq) <= SchedQueueSize
    BY <1>1, <1>3, <1>9, <1>11
  <2>3. ASSUME NEW b \in Bank, e.m_last_row[b] # NoRow PROVE Bin(e, b, e.m_last_row[b]) # {}
    <3>1. PICK row : row = d.m_last_row[b]
      OBVIOUS
    <3>2. PICK i : i \in Bin(d, b, row)
      BY <1>0, <1>9, <2>3, <3>1 DEF SchedInv
    <3>3. /\ i \in 1 .. Len(d.m_queue) /\ Attr[d.m_queue[i]].bank = b /\ Attr[d.m_queue[i]].row = row
          /\ Len(d.m_queue) \in Nat
      BY <1>0, <3>2, BinFacts
    <3>4. i \in 1 .. Len(q) /\ q[i] = d.m_queue[i]
      <4>1. Len(q) = Len(d.m_queue) + n /\ q[i] = d.m_queue[i]
        BY <1>7, <3>3
      <4> QED BY <3>3, <4>1
    <3>5. i \in Bin(e, b, row)
      BY <1>9, <1>10, <3>3, <3>4, BinFacts
    <3> QED BY <1>9, <3>1, <3>5
  <2>4. Len(e.mrqq) <= MrqqSize /\ Len(e.mrqq) <= 1
    BY <1>11 DEF MrqqSize
  <2>5. e.scheduler # "FIFO"
    BY <1>9
  <2> QED BY <2>1, <2>2, <2>3, <2>4, <2>5 DEF SchedInv
<1>15. ChanUnique(e)
  BY <1>0, <1>7, <1>9, <1>11, <1>12, <1>13 DEF ChanUnique
<1>16. BurstInv(e)
  BY <1>0, <1>9, <1>12 DEF BurstInv, Bursts
<1>17. OrderInv(e, o)
  <2> SUFFICES ASSUME NEW u \in Request, NEW v \in Request, <<u, v>> \in o, SameRow(u, v)
               PROVE  Ahead(e, u, v)
    BY DEF OrderInv
  <2>1. Ahead(d, u, v)
    BY <1>0 DEF OrderInv
  <2>2. Before(q, u, v)
    BY <1>1, <1>5, <2>1, BeforeConcat DEF Ahead
  <2>3. Before(e.mrqq, u, v)
    BY <1>9 DEF Before
  <2> QED BY <1>9, <1>11, <1>12, <1>13, <2>1, <2>2, <2>3 DEF Ahead
<1> QED BY <1>9, <1>10, <1>13, <1>14, <1>15, <1>16, <1>17 DEF ChanInv

\* The row that is served next has a request.
LEMMA NextRowFacts ==
  ASSUME NEW d \in DramState, SchedInv(d), NEW b \in Bank, Waits(d, b) # {}
  PROVE  Bin(d, b, NextRow(d, b)) # {}
<1>1. CASE d.m_last_row[b] # NoRow
  BY <1>1 DEF NextRow, SchedInv
<1>2. CASE d.m_last_row[b] = NoRow /\ Bin(d, b, d.curr_row[b]) # {}
  BY <1>2 DEF NextRow
<1>3. CASE d.m_last_row[b] = NoRow /\ Bin(d, b, d.curr_row[b]) = {}
  <2>1. PICK i : i = Min(Waits(d, b))
    OBVIOUS
  <2>2. Waits(d, b) \subseteq Nat
    BY BinFacts
  <2>3. i \in Waits(d, b)
    BY <2>1, <2>2, MinFacts
  <2>4. NextRow(d, b) = Attr[d.m_queue[i]].row
    BY <1>3, <2>1 DEF NextRow
  <2> QED BY <2>3, <2>4 DEF Bin
<1> QED BY <1>1, <1>2, <1>3

\* Bank b takes the oldest request of that row.
LEMMA BankChan ==
  ASSUME NEW d, NEW o, ChanInv(d, o), d.scheduler = "FRFCFS", NEW b \in Bank, Idle(d, b),
         NEW e, e = ScheduleBank(d, b)
  PROVE  /\ ChanInv(e, o) /\ InDram(e) = InDram(d) /\ Unfinished(e) = Unfinished(d)
         /\ e.mrqq = d.mrqq /\ e.scheduler = d.scheduler
<1>0. d \in DramState /\ SchedInv(d) /\ ChanUnique(d) /\ BurstInv(d) /\ OrderInv(d, o)
  BY DEF ChanInv
<1>1. PICK row : row = NextRow(d, b)
  OBVIOUS
<1>2. PICK B : B = Bin(d, b, row)
  OBVIOUS
<1>3. B # {} /\ B \subseteq Nat
  BY <1>0, <1>1, <1>2, NextRowFacts, BinFacts DEF Idle
<1>4. PICK i : i = Min(B)
  OBVIOUS
<1>5. i \in B /\ \A j \in B : i <= j
  BY <1>3, <1>4, MinFacts
<1>6. PICK r : r = d.m_queue[i]
  OBVIOUS
<1>7. PICK n \in Nat : n = Len(d.m_queue)
  BY <1>0, BinFacts
<1>8. /\ \A j : j \in B <=> j \in 1 .. n /\ Attr[d.m_queue[j]].bank = b /\ Attr[d.m_queue[j]].row = row
      /\ i \in 1 .. n /\ Attr[r].bank = b /\ Attr[r].row = row
  <2>1. \A j : j \in Bin(d, b, row) <=> /\ j \in 1 .. Len(d.m_queue)
                                        /\ Attr[d.m_queue[j]].bank = b /\ Attr[d.m_queue[j]].row = row
    BY <1>0, BinFacts
  <2> QED BY <1>2, <1>5, <1>6, <1>7, <2>1
<1>9. /\ d.m_queue \in Seq(Request) /\ d.mrqq \in Seq(Request) /\ d.mrq \in [Bank -> Request \cup {NoReq}]
      /\ d.m_last_row \in [Bank -> Row \cup {NoRow}] /\ d.m_num_pending \in Nat /\ d.prio \in Bank
  BY <1>0, DramTypes
<1>10. DOMAIN d.m_queue = 1 .. n /\ r \in Request /\ r \in ToSet(d.m_queue) /\ row \in Row
  <2>1. r \in ToSet(d.m_queue) /\ DOMAIN d.m_queue = 1 .. n /\ ToSet(d.m_queue) \subseteq Request
    BY <1>6, <1>7, <1>8, <1>9, SeqFacts
  <2> QED BY <1>8, <2>1 DEF Row
<1>11. PICK q : q = RemoveAt(d.m_queue, i)
  OBVIOUS
<1>12. /\ q \in Seq(Request) /\ Len(q) = n - 1 /\ NoDup(q) /\ ToSet(q) = ToSet(d.m_queue) \ {r}
       /\ \A j \in 1 .. n - 1 : q[j] = IF j < i THEN d.m_queue[j] ELSE d.m_queue[j + 1]
  <2>1. i \in 1 .. Len(d.m_queue) /\ NoDup(d.m_queue)
    BY <1>0, <1>7, <1>8 DEF ChanUnique
  <2>2. d.m_queue \in Seq(Request)
    BY <1>9
  <2>3. /\ q \in Seq(Request) /\ Len(q) = Len(d.m_queue) - 1
        /\ \A j \in 1 .. Len(d.m_queue) - 1 : q[j] = IF j < i THEN d.m_queue[j] ELSE d.m_queue[j + 1]
        /\ NoDup(q) /\ ToSet(q) = ToSet(d.m_queue) \ {d.m_queue[i]}
    BY ONLY <1>11, <2>1, <2>2, SeqRemoveAt
  <2> QED BY <1>6, <1>7, <2>3
<1>13. PICK last : last = IF B = {i} THEN NoRow ELSE row
  OBVIOUS
<1>14. e = [d EXCEPT !.m_queue = q, !.m_num_pending = @ - 1, !.mrq[b] = r, !.m_last_row[b] = last,
                     !.prio = (@ + 1) % nbk]
  BY <1>1, <1>2, <1>4, <1>6, <1>11, <1>13 DEF ScheduleBank
<1>15. DOMAIN d = {"scheduler", "mrqq", "m_queue", "m_num_pending", "m_last_row", "mrq", "curr_row",
                   "active", "prio", "tx", "dq", "rwq", "returnq"}
  BY <1>0, DramTypes
<1>16. /\ e.mrqq = d.mrqq /\ e.m_queue = q /\ e.rwq = d.rwq /\ e.returnq = d.returnq
       /\ e.mrq = [d.mrq EXCEPT ![b] = r] /\ e.m_last_row = [d.m_last_row EXCEPT ![b] = last]
       /\ e.tx = d.tx /\ e.dq = d.dq /\ e.m_num_pending = d.m_num_pending - 1 /\ e.scheduler = d.scheduler
  BY <1>14, <1>15
<1>17. d.m_num_pending = n /\ n >= 1
  BY <1>0, <1>7, <1>8 DEF SchedInv
<1>18. e \in DramState
  <2>1. [d.mrq EXCEPT ![b] = r] \in [Bank -> Request \cup {NoReq}]
    BY <1>9, <1>10
  <2>2. [d.m_last_row EXCEPT ![b] = last] \in [Bank -> Row \cup {NoRow}]
    BY <1>9, <1>10, <1>13
  <2>3. (d.prio + 1) % nbk \in Bank /\ d.m_num_pending - 1 \in Nat
    BY <1>9, <1>17, NextTurn
  <2> QED BY <1>0, <1>12, <1>14, <2>1, <2>2, <2>3 DEF DramState
<1>19. ASSUME NEW c, NEW x, NEW j \in Bin(d, c, x), j # i PROVE Bin(e, c, x) # {}
  <2>1. j \in 1 .. n /\ Attr[d.m_queue[j]].bank = c /\ Attr[d.m_queue[j]].row = x
    BY <1>0, <1>7, <1>19, BinFacts
  <2>2. \A k : k \in Bin(e, c, x) <=> k \in 1 .. n - 1 /\ Attr[q[k]].bank = c /\ Attr[q[k]].row = x
    <3>1. \A k : k \in Bin(e, c, x) <=> /\ k \in 1 .. Len(e.m_queue)
                                        /\ Attr[e.m_queue[k]].bank = c /\ Attr[e.m_queue[k]].row = x
      BY <1>18, BinFacts
    <3> QED BY <1>12, <1>16, <3>1
  <2>3. CASE j < i
    <3>1. j \in 1 .. n - 1 /\ q[j] = d.m_queue[j]
      BY <1>8, <1>12, <2>1, <2>3
    <3> QED BY <2>1, <2>2, <3>1
  <2>4. CASE j > i
    <3>1. j - 1 \in 1 .. n - 1 /\ ~(j - 1 < i) /\ (j - 1) + 1 = j
      BY <1>8, <2>1, <2>4
    <3>2. q[j - 1] = d.m_queue[j]
      BY <1>12, <3>1
    <3> QED BY <2>1, <2>2, <3>1, <3>2
  <2> QED BY <1>8, <1>19, <2>1, <2>3, <2>4
<1>20. SchedInv(e)
  <2>1. e.m_num_pending = Len(e.m_queue)
    BY <1>12, <1>16, <1>17
  <2>2. PICK k \in Nat : k = Len(d.mrqq)
    BY <1>9, SeqFacts
  <2>3. k <= MrqqSize /\ k <= 1 /\ (SchedQueueSize # 0 => n + k <= SchedQueueSize)
    BY <1>0, <1>17, <2>2 DEF SchedInv
  <2>4. SchedQueueSize \in Nat /\ Len(e.mrqq) = k /\ e.m_num_pending = n - 1
    BY <1>16, <1>17, <2>2, DramAssumption
  <2>5. SchedQueueSize # 0 => e.m_num_pending + Len(e.mrqq) <= SchedQueueSize
    BY <2>3, <2>4
  <2>6. ASSUME NEW c \in Bank, e.m_last_row[c] # NoRow PROVE Bin(e, c, e.m_last_row[c]) # {}
    <3>1. CASE c = b
      <4>1. e.m_last_row[c] = row /\ B # {i}
        BY <1>9, <1>13, <1>16, <2>6, <3>1
      <4>2. PICK j \in B : j # i
        BY <1>5, <4>1
      <4> QED BY <1>2, <1>19, <3>1, <4>1, <4>2
    <3>2. CASE c # b
      <4>1. PICK x : x = d.m_last_row[c]
        OBVIOUS
      <4>2. e.m_last_row[c] = x
        BY <1>9, <1>16, <3>2, <4>1
      <4>3. PICK j : j \in Bin(d, c, x)
        BY <1>0, <2>6, <4>1, <4>2 DEF SchedInv
      <4>4. j # i
        BY <1>0, <1>6, <1>8, <3>2, <4>3, BinFacts
      <4> QED BY <1>19, <4>2, <4>3, <4>4
    <3> QED BY <3>1, <3>2
  <2>7. e.scheduler = "FRFCFS" /\ e.scheduler # "FIFO"
    BY <1>16
  <2>8. Len(e.mrqq) <= MrqqSize /\ Len(e.mrqq) <= 1
    BY <2>3, <2>4
  <2> QED BY <2>1, <2>5, <2>6, <2>7, <2>8 DEF SchedInv
<1>21. ASSUME NEW u \in Request, <<u, r>> \in o, SameRow(u, r) PROVE u \in Flight(d)
  <2>1. Ahead(d, u, r)
    BY <1>0, <1>10, <1>21 DEF OrderInv
  <2>2. u \in ToSet(d.m_queue) \cup Flight(d) /\ Before(d.m_queue, u, r)
    BY <1>0, <1>10, <2>1, Contents DEF Ahead
  <2>3. ASSUME u \in ToSet(d.m_queue) PROVE FALSE
    <3>1. PICK j \in 1 .. n : d.m_queue[j] = u
      BY <1>7, <1>9, <2>3, SeqFacts
    <3>2. j < i
      BY <1>6, <1>8, <1>10, <2>2, <3>1 DEF Before
    <3>3. j \in B
      BY <1>8, <1>21, <3>1 DEF SameRow
    <3> QED BY <1>5, <1>8, <3>1, <3>2, <3>3
  <2> QED BY <2>2, <2>3
<1>22. \A u, v : Before(d.m_queue, u, v) => Before(q, u, v)
  BY <1>7, <1>8, <1>9, <1>11, BeforeRemoveAt
<1>23. r \notin ToSet(d.mrqq) /\ d.mrq[Attr[r].bank] = NoReq
  BY <1>0, <1>8, <1>10 DEF ChanUnique, Idle
<1>24. Starts(d, o, r, e)
  BY <1>0, <1>8, <1>10, <1>12, <1>16, <1>18, <1>21, <1>22, <1>23 DEF Starts, ChanUnique
<1> QED BY <1>16, <1>20, <1>24, StartChan

\* What the scheduler makes of the channel
LEMMA ScheduleChan ==
  ASSUME NEW d, NEW o, ChanInv(d, o), NEW e \in Schedule(d)
  PROVE  /\ ChanInv(e, o) /\ InDram(e) = InDram(d) /\ Unfinished(e) = Unfinished(d)
         /\ e.scheduler = "FRFCFS" => e.mrqq = <<>>
<1>1. d.scheduler \in {"FIFO", "FRFCFS"}
  BY DramTypes DEF ChanInv
<1>2. CASE d.scheduler = "FIFO"
  <2>1. e = ScheduleFifo(d)
    BY <1>2 DEF Schedule
  <2> QED BY <1>2, <2>1, FifoChan
<1>3. CASE d.scheduler = "FRFCFS"
  <2>1. PICK c : c = Drained(d)
    OBVIOUS
  <2>2. /\ ChanInv(c, o) /\ InDram(c) = InDram(d) /\ Unfinished(c) = Unfinished(d)
        /\ c.mrqq = <<>> /\ c.scheduler = "FRFCFS"
    BY <1>3, <2>1, DrainChan
  <2>3. e = c \/ \E b \in FirstIdle(c) : e = ScheduleBank(c, b)
    BY <1>3, <2>1 DEF Schedule
  <2>4. CASE e = c
    BY <2>2, <2>4
  <2>5. CASE \E b \in FirstIdle(c) : e = ScheduleBank(c, b)
    <3>1. PICK b \in FirstIdle(c) : e = ScheduleBank(c, b)
      BY <2>5
    <3>2. b \in Bank /\ Idle(c, b)
      BY <3>1 DEF FirstIdle
    <3> QED BY <2>2, <3>1, <3>2, BankChan
  <2> QED BY <2>3, <2>4, <2>5
<1> QED BY <1>1, <1>2, <1>3

\* The request at the head of rwq is behind no other for its row.
LEMMA Leading ==
  ASSUME NEW d, NEW o, ChanInv(d, o), d.rwq # <<>>, NEW q \in Request, NEW r \in Request,
         <<q, r>> \in o, SameRow(q, r)
  PROVE  r # Head(d.rwq)
<1>0. d \in DramState /\ OrderInv(d, o)
  BY DEF ChanInv
<1>1. d.rwq \in Seq(Request)
  BY <1>0, DramTypes
<1>2. Head(d.rwq) = d.rwq[1] /\ Len(d.rwq) >= 1 /\ Head(d.rwq) \in ToSet(d.rwq)
  BY <1>1, SeqTail
<1>3. Ahead(d, q, r)
  BY <1>0 DEF OrderInv
<1> SUFFICES ASSUME r = Head(d.rwq) PROVE FALSE
  OBVIOUS
<1>4. q \in Flight(d) /\ q # d.mrq[Attr[q].bank]
  <2>1. r \in Flight(d)
    BY <1>0, <1>2, Contents
  <2> QED BY <1>3, <2>1 DEF Ahead
<1>5. q \in ToSet(d.rwq)
  <2>1. ASSUME NEW b \in Bank, d.mrq[b] = q PROVE FALSE
    <3>1. q # NoReq
      BY DramAssumption
    <3>2. Attr[d.mrq[b]].bank = b
      BY <2>1, <3>1 DEF ChanInv, BurstInv
    <3> QED BY <1>4, <2>1, <3>2
  <2> QED BY <1>0, <1>4, <2>1, Contents
<1>6. Len(d.rwq) \in Nat /\ DOMAIN d.rwq = 1 .. Len(d.rwq)
  BY <1>1, SeqFacts
<1>7. PICK i \in 1 .. Len(d.rwq) : d.rwq[i] = q
  BY <1>1, <1>5, SeqFacts
<1>8. i < 1
  <2>1. 1 \in 1 .. Len(d.rwq)
    BY <1>2, <1>6
  <2> QED BY <1>2, <1>3, <1>6, <1>7, <2>1 DEF Ahead, Before
<1> QED BY <1>7, <1>8

\* Request r leaves the order.
Cut(o, r) == {x \in o : r \notin {x[1], x[2]}}

LEMMA CutFacts ==
  ASSUME NEW o, NEW r, NEW u, NEW v
  PROVE  <<u, v>> \in Cut(o, r) <=> <<u, v>> \in o /\ u # r /\ v # r
BY DEF Cut

\* A burst of r, but not its last, is transferred.
LEMMA BurstChan ==
  ASSUME NEW d, NEW o, ChanInv(d, o), d.rwq # <<>>, ~Completes(d), NEW e, e = Transfer(d)
  PROVE  ChanInv(e, o) /\ InDram(e) = InDram(d) /\ Unfinished(e) = Unfinished(d)
<1>0. d \in DramState /\ SchedInv(d) /\ ChanUnique(d) /\ BurstInv(d) /\ OrderInv(d, o)
  BY DEF ChanInv
<1>1. PICK r : r = Head(d.rwq)
  OBVIOUS
<1>2. PICK w : w = Tail(d.rwq)
  OBVIOUS
<1>3. /\ d.rwq \in Seq(Request) /\ d.mrq \in [Bank -> Request \cup {NoReq}]
      /\ d.tx \in [Request -> Nat] /\ d.dq \in [Request -> Nat]
  BY <1>0, DramTypes
<1>4. /\ w \in Seq(Request) /\ r \in Request /\ r \in ToSet(d.rwq)
      /\ ToSet(d.rwq) = ToSet(w) \cup {r}
  BY <1>1, <1>2, <1>3, SeqTail
<1>5. /\ Attr[r].bursts \in Nat /\ d.dq[r] \in Nat /\ ~(d.dq[r] + 1 >= Attr[r].bursts)
      /\ Attr[r].bank \in Bank /\ r # NoReq
  BY <1>1, <1>3, <1>4, DramAssumption DEF Completes
<1>6. e = [d EXCEPT !.rwq = w, !.dq[r] = @ + 1]
  BY <1>1, <1>2 DEF Transfer
<1>7. DOMAIN d = {"scheduler", "mrqq", "m_queue", "m_num_pending", "m_last_row", "mrq", "curr_row",
                  "active", "prio", "tx", "dq", "rwq", "returnq"}
  BY <1>0, DramTypes
<1>8. /\ e.mrqq = d.mrqq /\ e.m_queue = d.m_queue /\ e.rwq = w /\ e.returnq = d.returnq
      /\ e.mrq = d.mrq /\ e.tx = d.tx /\ e.dq = [d.dq EXCEPT ![r] = @ + 1]
      /\ e.m_last_row = d.m_last_row /\ e.m_num_pending = d.m_num_pending /\ e.scheduler = d.scheduler
  BY <1>6, <1>7
<1>9. e \in DramState
  <2>0. d.dq[r] + 1 \in Nat
    BY <1>5
  <2>1. [d.dq EXCEPT ![r] = @ + 1] \in [Request -> Nat]
    BY <1>3, <2>0
  <2> QED BY <1>0, <1>4, <1>6, <2>1 DEF DramState
<1>10. \A y \in Request : e.dq[y] = IF y = r THEN d.dq[r] + 1 ELSE d.dq[y]
  BY <1>3, <1>8
<1>11. \A y : Bursts(e, y) = Bursts(d, y) - (IF r = y THEN 1 ELSE 0)
  BY <1>1, <1>2, <1>3, <1>8, CountTail DEF Bursts
<1>12. \A y : Bursts(d, y) \in Nat /\ Bursts(e, y) \in Nat /\ (Bursts(e, y) = 0 <=> y \notin ToSet(w))
  BY <1>3, <1>4, <1>8, CountFacts DEF Bursts
<1>13. \A y \in Request : e.dq[y] + Bursts(e, y) = d.tx[y]
  <2> TAKE y \in Request
  <2>1. d.dq[y] + Bursts(d, y) = d.tx[y] /\ d.dq[y] \in Nat /\ d.tx[y] \in Nat
    BY <1>0, <1>3 DEF BurstInv
  <2>2. CASE y = r
    <3>1. e.dq[y] = d.dq[y] + 1 /\ Bursts(e, y) = Bursts(d, y) - 1
      BY <1>10, <1>11, <2>2
    <3> QED BY <1>12, <2>1, <3>1
  <2>3. CASE y # r
    <3>1. e.dq[y] = d.dq[y] /\ Bursts(e, y) = Bursts(d, y) - 0
      BY <1>10, <1>11, <2>3
    <3> QED BY <1>12, <2>1, <3>1
  <2> QED BY <2>2, <2>3
<1>14. r \in ToSet(w) \/ d.mrq[Attr[r].bank] = r
  <2> SUFFICES ASSUME r \notin ToSet(w), d.mrq[Attr[r].bank] # r PROVE FALSE
    OBVIOUS
  <2>1. r \in Flight(d)
    BY <1>0, <1>4, Contents
  <2>2. d.tx[r] = Attr[r].bursts
    BY <1>0, <1>4, <2>1 DEF BurstInv
  <2>3. Bursts(e, r) = 0 /\ e.dq[r] = d.dq[r] + 1
    BY <1>4, <1>10, <1>12
  <2>4. e.dq[r] + Bursts(e, r) = d.tx[r]
    BY <1>4, <1>13
  <2> QED BY <1>5, <2>2, <2>3, <2>4
<1>15. Flight(e) = Flight(d)
  <2>1. \A y : y \in Flight(d) <=> (y # NoReq /\ \E c \in Bank : d.mrq[c] = y) \/ y \in ToSet(d.rwq)
    BY <1>0, Contents
  <2>2. \A y : y \in Flight(e) <=> (y # NoReq /\ \E c \in Bank : d.mrq[c] = y) \/ y \in ToSet(w)
    BY <1>8, <1>9, Contents
  <2> QED BY <1>4, <1>5, <1>14, <2>1, <2>2
<1>16. Unfinished(e) = Unfinished(d) /\ InDram(e) = InDram(d)
  BY <1>0, <1>8, <1>9, <1>15, Contents
<1>17. SchedInv(e)
  <2>1. \A x : \A b \in Bank : Bin(e, b, x) = Bin(d, b, x)
    BY <1>8 DEF Bin, Waits
  <2>2. \A b \in Bank : e.m_last_row[b] # NoRow => Bin(e, b, e.m_last_row[b]) # {}
    BY <1>0, <1>8, <2>1 DEF SchedInv
  <2> QED BY <1>0, <1>8, <2>2 DEF SchedInv
<1>18. ChanUnique(e)
  BY <1>0, <1>8, <1>15, <1>16 DEF ChanUnique
<1>19. BurstInv(e)
  BY <1>0, <1>8, <1>13, <1>15 DEF BurstInv
<1>20. OrderInv(e, o)
  <2> SUFFICES ASSUME NEW u \in Request, NEW v \in Request, <<u, v>> \in o, SameRow(u, v)
               PROVE  Ahead(e, u, v)
    BY DEF OrderInv
  <2>1. Ahead(d, u, v)
    BY <1>0 DEF OrderInv
  <2>2. Before(w, u, v)
    BY <1>2, <1>3, <2>1, BeforeTail DEF Ahead
  <2> QED BY <1>8, <1>15, <1>16, <2>1, <2>2 DEF Ahead
<1> QED BY <1>9, <1>16, <1>17, <1>18, <1>19, <1>20 DEF ChanInv

\* The last burst of r is transferred.
LEMMA FinishChan ==
  ASSUME NEW d, NEW o, ChanInv(d, o), d.rwq # <<>>, Completes(d), NEW e, e = Transfer(d),
         NEW r, r = Head(d.rwq)
  PROVE  /\ ChanInv(e, Cut(o, r)) /\ Unfinished(e) = Unfinished(d) \ {r}
         /\ r \in Request /\ r \in InDram(d)
         /\ InDram(e) = IF WriteBack(r) THEN InDram(d) \ {r} ELSE InDram(d)
<1>0. d \in DramState /\ SchedInv(d) /\ ChanUnique(d) /\ BurstInv(d) /\ OrderInv(d, o)
  BY DEF ChanInv
<1>2. PICK w : w = Tail(d.rwq)
  OBVIOUS
<1>3. /\ d.rwq \in Seq(Request) /\ d.mrq \in [Bank -> Request \cup {NoReq}] /\ d.returnq \in Seq(Request)
      /\ d.tx \in [Request -> Nat] /\ d.dq \in [Request -> Nat]
  BY <1>0, DramTypes
<1>4. /\ w \in Seq(Request) /\ r \in Request /\ r \in ToSet(d.rwq)
      /\ ToSet(d.rwq) = ToSet(w) \cup {r}
  BY <1>2, <1>3, SeqTail
<1>5. /\ Attr[r].bursts \in Nat /\ d.dq[r] \in Nat /\ d.dq[r] + 1 >= Attr[r].bursts /\ d.tx[r] \in Nat
      /\ Attr[r].bank \in Bank /\ r # NoReq
  BY <1>3, <1>4, DramAssumption DEF Completes
<1>6. r \in Flight(d) /\ r \in Unfinished(d) /\ r \in InDram(d)
      /\ r \notin ToSet(d.mrqq) /\ r \notin ToSet(d.m_queue) /\ r \notin ToSet(d.returnq)
  <2>1. r \in Flight(d) /\ r \in Unfinished(d) /\ r \in InDram(d)
    BY <1>0, <1>4, Contents
  <2> QED BY <1>0, <2>1 DEF ChanUnique
<1>7. PICK a : a = IF WriteBack(r) THEN d.returnq ELSE Append(d.returnq, r)
  OBVIOUS
<1>8. a \in Seq(Request) /\ NoDup(a) /\ ToSet(a) = IF WriteBack(r) THEN ToSet(d.returnq) ELSE ToSet(d.returnq) \cup {r}
  <2>1. CASE WriteBack(r)
    BY <1>0, <1>3, <1>7, <2>1 DEF ChanUnique
  <2>2. CASE ~WriteBack(r)
    BY <1>0, <1>3, <1>4, <1>6, <1>7, <2>2, SeqAppend DEF ChanUnique
  <2> QED BY <2>1, <2>2
<1>9. e = [d EXCEPT !.rwq = w, !.dq[r] = 0, !.tx[r] = 0, !.returnq = a]
  BY <1>2, <1>7 DEF Transfer
<1>10. DOMAIN d = {"scheduler", "mrqq", "m_queue", "m_num_pending", "m_last_row", "mrq", "curr_row",
                   "active", "prio", "tx", "dq", "rwq", "returnq"}
  BY <1>0, DramTypes
<1>11. /\ e.mrqq = d.mrqq /\ e.m_queue = d.m_queue /\ e.rwq = w /\ e.returnq = a
       /\ e.mrq = d.mrq /\ e.tx = [d.tx EXCEPT ![r] = 0] /\ e.dq = [d.dq EXCEPT ![r] = 0]
       /\ e.m_last_row = d.m_last_row /\ e.m_num_pending = d.m_num_pending /\ e.scheduler = d.scheduler
  BY <1>9, <1>10
<1>12. e \in DramState
  <2>1. [d.dq EXCEPT ![r] = 0] \in [Request -> Nat] /\ [d.tx EXCEPT ![r] = 0] \in [Request -> Nat]
    BY <1>3
  <2> QED BY <1>0, <1>4, <1>8, <1>9, <2>1 DEF DramState
<1>13. \A y \in Request : /\ e.dq[y] = IF y = r THEN 0 ELSE d.dq[y]
                          /\ e.tx[y] = IF y = r THEN 0 ELSE d.tx[y]
  BY <1>3, <1>11
<1>14. \A y : Bursts(e, y) = Bursts(d, y) - (IF r = y THEN 1 ELSE 0)
  BY <1>2, <1>3, <1>11, CountTail DEF Bursts
<1>15. \A y : /\ Bursts(d, y) \in Nat /\ Bursts(e, y) \in Nat /\ (Bursts(e, y) = 0 <=> y \notin ToSet(w))
              /\ (Bursts(d, y) = 0 <=> y \notin ToSet(d.rwq))
  BY <1>3, <1>4, <1>11, CountFacts DEF Bursts
<1>16. Bursts(d, r) = 1 /\ d.tx[r] = Attr[r].bursts
  <2>1. d.dq[r] + Bursts(d, r) = d.tx[r] /\ d.tx[r] <= Attr[r].bursts
    BY <1>0, <1>4 DEF BurstInv
  <2>2. Bursts(d, r) \in Nat /\ Bursts(d, r) # 0
    BY <1>4, <1>15
  <2> QED BY <1>5, <2>1, <2>2
<1>17. Bursts(e, r) = 0 /\ r \notin ToSet(w)
  BY <1>14, <1>15, <1>16
<1>18. \A c \in Bank : d.mrq[c] # r
  <2> SUFFICES ASSUME NEW c \in Bank, d.mrq[c] = r PROVE FALSE
    OBVIOUS
  <2>1. d.tx[r] < Attr[r].bursts
    BY <1>0, <1>5 DEF BurstInv
  <2> QED BY <1>5, <1>16, <2>1
<1>19. Flight(e) = Flight(d) \ {r}
  <2>1. \A y : y \in Flight(d) <=> (y # NoReq /\ \E c \in Bank : d.mrq[c] = y) \/ y \in ToSet(d.rwq)
    BY <1>0, Contents
  <2>2. \A y : y \in Flight(e) <=> (y # NoReq /\ \E c \in Bank : d.mrq[c] = y) \/ y \in ToSet(w)
    BY <1>11, <1>12, Contents
  <2> QED BY <1>4, <1>17, <1>18, <2>1, <2>2
<1>20. Unfinished(e) = Unfinished(d) \ {r}
  <2>1. Unfinished(e) = ToSet(e.mrqq) \cup ToSet(e.m_queue) \cup Flight(e)
    BY <1>12, Contents
  <2>2. Unfinished(d) = ToSet(d.mrqq) \cup ToSet(d.m_queue) \cup Flight(d)
    BY <1>0, Contents
  <2> QED BY <1>6, <1>11, <1>19, <2>1, <2>2
<1>21. InDram(e) = IF WriteBack(r) THEN InDram(d) \ {r} ELSE InDram(d)
  BY <1>6, <1>8, <1>11, <1>20 DEF InDram
<1>22. SchedInv(e)
  <2>1. \A x : \A b \in Bank : Bin(e, b, x) = Bin(d, b, x)
    BY <1>11 DEF Bin, Waits
  <2>2. \A b \in Bank : e.m_last_row[b] # NoRow => Bin(e, b, e.m_last_row[b]) # {}
    BY <1>0, <1>11, <2>1 DEF SchedInv
  <2> QED BY <1>0, <1>11, <2>2 DEF SchedInv
<1>23. ChanUnique(e)
  BY <1>0, <1>8, <1>11, <1>19, <1>20 DEF ChanUnique
<1>24. BurstInv(e)
  <2>1. ASSUME NEW c \in Bank, e.mrq[c] # NoReq
        PROVE  Attr[e.mrq[c]].bank = c /\ e.tx[e.mrq[c]] < Attr[e.mrq[c]].bursts
    <3>1. e.mrq[c] = d.mrq[c] /\ d.mrq[c] \in Request /\ d.mrq[c] # r
      BY <1>3, <1>11, <1>18, <2>1
    <3>2. Attr[d.mrq[c]].bank = c /\ d.tx[d.mrq[c]] < Attr[d.mrq[c]].bursts
      BY <1>0, <2>1, <3>1 DEF BurstInv
    <3>3. e.tx[d.mrq[c]] = d.tx[d.mrq[c]]
      BY <1>13, <3>1
    <3> QED BY <3>1, <3>2, <3>3
  <2>2. ASSUME NEW y \in Request
        PROVE  /\ e.dq[y] + Bursts(e, y) = e.tx[y] /\ e.tx[y] <= Attr[y].bursts
               /\ y \notin Flight(e) => e.tx[y] = 0
               /\ y \in Flight(e) /\ e.mrq[Attr[y].bank] # y => e.tx[y] = Attr[y].bursts
    <3>1. CASE y = r
      <4>1. e.dq[y] = 0 /\ e.tx[y] = 0 /\ Bursts(e, y) = 0 /\ y \notin Flight(e)
        BY <1>4, <1>13, <1>17, <1>19, <3>1
      <4> QED BY <1>5, <3>1, <4>1
    <3>2. CASE y # r
      <4>1. /\ d.dq[y] + Bursts(d, y) = d.tx[y] /\ d.tx[y] <= Attr[y].bursts
            /\ y \notin Flight(d) => d.tx[y] = 0
            /\ y \in Flight(d) /\ d.mrq[Attr[y].bank] # y => d.tx[y] = Attr[y].bursts
        BY <1>0 DEF BurstInv
      <4>2. Bursts(e, y) = Bursts(d, y)
        <5>1. Bursts(e, y) = Bursts(d, y) - 0
          BY <1>14, <3>2
        <5> QED BY <1>15, <5>1
      <4>3. e.dq[y] = d.dq[y] /\ e.tx[y] = d.tx[y] /\ (y \in Flight(e) <=> y \in Flight(d))
        BY <1>13, <1>19, <3>2
      <4> QED BY <1>11, <4>1, <4>2, <4>3
    <3> QED BY <3>1, <3>2
  <2> QED BY <2>1, <2>2 DEF BurstInv
<1>25. OrderInv(e, Cut(o, r))
  <2> SUFFICES ASSUME NEW u \in Request, NEW v \in Request, <<u, v>> \in Cut(o, r), SameRow(u, v)
               PROVE  Ahead(e, u, v)
    BY DEF OrderInv
  <2>1. <<u, v>> \in o /\ u # r /\ v # r
    BY CutFacts
  <2>2. Ahead(d, u, v)
    BY <1>0, <2>1 DEF OrderInv
  <2>3. Before(w, u, v)
    BY <1>2, <1>3, <2>2, BeforeTail DEF Ahead
  <2> QED BY <1>11, <1>19, <1>20, <2>1, <2>2, <2>3 DEF Ahead
<1> QED BY <1>4, <1>6, <1>12, <1>20, <1>21, <1>22, <1>23, <1>24, <1>25 DEF ChanInv

-----------------------------------------------------------------------------
(* Credits *)

LEMMA CreditFacts ==
  ASSUME NEW c \in CreditType
  PROVE  /\ c.private \in [SubPartition -> 0 .. 1] /\ c.shared \in Nat /\ c.last \in SubPartition
         /\ DOMAIN c = {"private", "shared", "last"}
         /\ \A q : q \in Holders(c) <=> q \in SubPartition /\ c.private[q] = 1
         /\ IsFiniteSet(Holders(c)) /\ Cardinality(Holders(c)) \in Nat
<1>1. /\ c.private \in [SubPartition -> 0 .. 1] /\ c.shared \in Nat /\ c.last \in SubPartition
      /\ DOMAIN c = {"private", "shared", "last"}
  BY DEF CreditType, PrivateLimit
<1>2. \A q \in SubPartition : c.private[q] > 0 <=> c.private[q] = 1
  <2> TAKE q \in SubPartition
  <2>1. c.private[q] \in 0 .. 1
    BY <1>1
  <2> QED BY <2>1
<1>3. IsFiniteSet(SubPartition)
  <2>1. 0 \in Int /\ NSub - 1 \in Int
    BY PartitionAssumption
  <2> QED BY <2>1, FS_Interval DEF SubPartition
<1>4. IsFiniteSet(Holders(c))
  <2>1. Holders(c) \in SUBSET SubPartition
    BY DEF Holders
  <2> QED BY <1>3, <2>1, FS_Subset
<1> QED BY <1>1, <1>2, <1>4, FS_CardinalityType DEF Holders

\* Every credit a sub-partition of its own holds is for another request.
LEMMA HoldersBound ==
  ASSUME NEW H, NEW K, IsFiniteSet(K), \A q \in H : K \cap Of(q) # {}
  PROVE  IsFiniteSet(H) /\ Cardinality(H) <= Cardinality(K)
<1>1. PICK M : M = {x \in K : Attr[x].sp \in H}
  OBVIOUS
<1>2. M \in SUBSET K
  BY <1>1
<1>3. IsFiniteSet(M) /\ Cardinality(M) <= Cardinality(K)
  BY <1>2, FS_Subset
<1>4. PICK f : f = [x \in M |-> Attr[x].sp]
  OBVIOUS
<1>5. f \in Surjection(M, H)
  <2>1. f \in [M -> H]
    BY <1>1, <1>4
  <2>2. ASSUME NEW q \in H PROVE \E x \in M : f[x] = q
    <3>1. PICK x : x \in K \cap Of(q)
      OBVIOUS
    <3>2. x \in M /\ Attr[x].sp = q
      BY <1>1, <3>1 DEF Of
    <3> QED BY <1>4, <3>2
  <2> QED BY <2>1, <2>2 DEF Surjection
<1>6. IsFiniteSet(H) /\ Cardinality(H) <= Cardinality(M)
  BY <1>3, <1>5, FS_Surjection
<1>7. Cardinality(H) \in Nat /\ Cardinality(M) \in Nat /\ Cardinality(K) \in Nat
  BY <1>3, <1>6, FS_CardinalityType
<1> QED BY <1>3, <1>6, <1>7

\* A request that enters the latency queue takes a credit.
LEMMA CreditBorrow ==
  ASSUME NEW c \in CreditType, NEW K, CreditInv(c, K), NEW p \in SubPartition, NEW r \in Of(p), r \notin K
  PROVE  borrow_credit(c, p) \in CreditType /\ CreditInv(borrow_credit(c, p), K \cup {r})
<1>1. PICK e : e = borrow_credit(c, p)
  OBVIOUS
<1>2. PICK L : L = K \cup {r}
  OBVIOUS
<1>3. /\ c.private \in [SubPartition -> 0 .. 1] /\ c.shared \in Nat /\ c.last \in SubPartition
      /\ DOMAIN c = {"private", "shared", "last"}
      /\ \A q : q \in Holders(c) <=> q \in SubPartition /\ c.private[q] = 1
      /\ IsFiniteSet(Holders(c)) /\ Cardinality(Holders(c)) \in Nat
  BY CreditFacts
<1>4. IsFiniteSet(L) /\ Cardinality(L) = Cardinality(K) + 1 /\ Cardinality(K) \in Nat
  BY <1>2, FS_AddElement, FS_CardinalityType DEF CreditInv
<1>5. c.shared + Cardinality(Holders(c)) = Cardinality(K) /\ \A q \in Holders(c) : K \cap Of(q) # {}
  BY DEF CreditInv
<1>6. CASE c.private[p] < PrivateLimit
  <2>1. c.private[p] = 0
    BY <1>3, <1>6 DEF PrivateLimit
  <2>2. e = [c EXCEPT !.private[p] = @ + 1, !.last = p]
    BY <1>1, <1>6 DEF borrow_credit
  <2>3. e.private = [c.private EXCEPT ![p] = 1] /\ e.shared = c.shared
    BY <1>3, <2>1, <2>2
  <2>4. e \in CreditType
    <3>1. [c.private EXCEPT ![p] = 1] \in [SubPartition -> 0 .. PrivateLimit]
      BY <1>3 DEF PrivateLimit
    <3>2. e = [c EXCEPT !.private = [c.private EXCEPT ![p] = 1], !.last = p]
      BY <1>3, <2>1, <2>2
    <3> QED BY <3>1, <3>2 DEF CreditType
  <2>5. Holders(e) = Holders(c) \cup {p}
    <3>1. \A q : q \in Holders(e) <=> q \in SubPartition /\ e.private[q] = 1
      BY <2>4, CreditFacts
    <3> QED BY <1>3, <2>3, <3>1
  <2>6. p \notin Holders(c)
    BY <1>3, <2>1
  <2>7. Cardinality(Holders(e)) = Cardinality(Holders(c)) + 1
    <3>1. PICK H : H = Holders(c)
      OBVIOUS
    <3>2. Cardinality(H \cup {p}) = Cardinality(H) + 1
      BY <1>3, <2>6, <3>1, FS_AddElement
    <3> QED BY <2>5, <3>1, <3>2, Zenon
  <2>8. e.shared + Cardinality(Holders(e)) = Cardinality(L)
    BY <1>3, <1>4, <1>5, <2>3, <2>7
  <2>9. \A q \in Holders(e) : L \cap Of(q) # {}
    BY <1>2, <1>5, <2>5
  <2>10. CreditInv(e, L)
    BY <1>4, <2>8, <2>9 DEF CreditInv
  <2> QED BY <1>1, <1>2, <2>4, <2>10
<1>7. CASE ~(c.private[p] < PrivateLimit)
  <2>2. e = [c EXCEPT !.shared = @ + 1, !.last = p]
    BY <1>1, <1>7 DEF borrow_credit
  <2>3. e.private = c.private /\ e.shared = c.shared + 1
    BY <1>3, <2>2
  <2>4. e \in CreditType
    <3>1. c.shared + 1 \in Nat
      BY <1>3
    <3> QED BY <2>2, <3>1 DEF CreditType
  <2>5. Holders(e) = Holders(c)
    BY <2>3 DEF Holders
  <2>6. e.shared + Cardinality(Holders(e)) = Cardinality(L)
    BY <1>3, <1>4, <1>5, <2>3, <2>5
  <2>7. \A q \in Holders(e) : L \cap Of(q) # {}
    BY <1>2, <1>5, <2>5
  <2>8. CreditInv(e, L)
    BY <1>4, <2>6, <2>7 DEF CreditInv
  <2> QED BY <1>1, <1>2, <2>4, <2>8
<1> QED BY <1>6, <1>7

\* A request that leaves the channel gives its sub-partition's credit back:
\* when the private one is not taken, a shared one is.
LEMMA CreditReturn ==
  ASSUME NEW c \in CreditType, NEW K, CreditInv(c, K), NEW p \in SubPartition, NEW r \in Of(p), r \in K
  PROVE  return_credit(c, p) \in CreditType /\ CreditInv(return_credit(c, p), K \ {r})
<1>1. PICK e : e = return_credit(c, p)
  OBVIOUS
<1>2. PICK L : L = K \ {r}
  OBVIOUS
<1>3. /\ c.private \in [SubPartition -> 0 .. 1] /\ c.shared \in Nat /\ c.last \in SubPartition
      /\ DOMAIN c = {"private", "shared", "last"}
      /\ \A q : q \in Holders(c) <=> q \in SubPartition /\ c.private[q] = 1
      /\ IsFiniteSet(Holders(c)) /\ Cardinality(Holders(c)) \in Nat
  BY CreditFacts
<1>4. IsFiniteSet(L) /\ Cardinality(L) = Cardinality(K) - 1 /\ Cardinality(K) \in Nat /\ Cardinality(L) \in Nat
  BY <1>2, FS_RemoveElement, FS_CardinalityType DEF CreditInv
<1>5. c.shared + Cardinality(Holders(c)) = Cardinality(K) /\ \A q \in Holders(c) : K \cap Of(q) # {}
  BY DEF CreditInv
<1>6. \A q \in Holders(c) : q # p => L \cap Of(q) # {}
  <2> TAKE q \in Holders(c)
  <2> HAVE q # p
  <2>1. PICK y : y \in K \cap Of(q)
    BY <1>5
  <2>2. y # r
    BY <2>1 DEF Of
  <2> QED BY <1>2, <2>1, <2>2
<1>7. CASE c.private[p] > 0
  <2>1. c.private[p] = 1
    BY <1>3, <1>7
  <2>2. e = [c EXCEPT !.private[p] = @ - 1]
    BY <1>1, <1>7 DEF return_credit
  <2>3. e.private = [c.private EXCEPT ![p] = 0] /\ e.shared = c.shared
    BY <1>3, <2>1, <2>2
  <2>4. e \in CreditType
    <3>1. [c.private EXCEPT ![p] = 0] \in [SubPartition -> 0 .. PrivateLimit]
      BY <1>3 DEF PrivateLimit
    <3>2. e = [c EXCEPT !.private = [c.private EXCEPT ![p] = 0]]
      BY <1>3, <2>1, <2>2
    <3> QED BY <3>1, <3>2 DEF CreditType
  <2>5. Holders(e) = Holders(c) \ {p}
    <3>1. \A q : q \in Holders(e) <=> q \in SubPartition /\ e.private[q] = 1
      BY <2>4, CreditFacts
    <3> QED BY <1>3, <2>3, <3>1
  <2>6. p \in Holders(c)
    BY <1>3, <2>1
  <2>7. Cardinality(Holders(e)) = Cardinality(Holders(c)) - 1
    BY <1>3, <2>5, <2>6, FS_RemoveElement
  <2>8. e.shared + Cardinality(Holders(e)) = Cardinality(L)
    BY <1>3, <1>4, <1>5, <2>3, <2>7
  <2>9. \A q \in Holders(e) : L \cap Of(q) # {}
    BY <1>6, <2>5
  <2>10. CreditInv(e, L)
    BY <1>4, <2>8, <2>9 DEF CreditInv
  <2> QED BY <1>1, <1>2, <2>4, <2>10
<1>8. CASE ~(c.private[p] > 0)
  <2>1. p \notin Holders(c)
    BY <1>8 DEF Holders
  <2>2. e = [c EXCEPT !.shared = @ - 1]
    BY <1>1, <1>8 DEF return_credit
  <2>3. e.private = c.private /\ e.shared = c.shared - 1
    BY <1>3, <2>2
  <2>4. \A q \in Holders(c) : L \cap Of(q) # {}
    BY <1>6, <2>1
  <2>5. Cardinality(Holders(c)) <= Cardinality(L)
    BY <1>4, <2>4, HoldersBound
  <2>6. c.shared - 1 \in Nat
    BY <1>3, <1>4, <1>5, <2>5
  <2>7. e \in CreditType
    BY <2>2, <2>6 DEF CreditType
  <2>8. Holders(e) = Holders(c)
    BY <2>3 DEF Holders
  <2>9. e.shared + Cardinality(Holders(e)) = Cardinality(L)
    BY <1>3, <1>4, <1>5, <2>3, <2>8
  <2>10. CreditInv(e, L)
    BY <1>4, <2>4, <2>8, <2>9 DEF CreditInv
  <2> QED BY <1>1, <1>2, <2>7, <2>10
<1> QED BY <1>7, <1>8

-----------------------------------------------------------------------------
(* The stages of dram_cycle *)

\* Sub-partition p alone changes, and one of its requests may enter or leave the channel.
LEMMA SubsChange ==
  ASSUME NEW f, NEW K, NEW sn, SubsInv(f, K, sn), NEW p \in SubPartition, NEW r \in Of(p), NEW L,
         L \ {r} = K \ {r}, NEW t, SubInv(p, t, L \cap Of(p), sn)
  PROVE  SubsInv([f EXCEPT ![p] = t], L, sn)
<1>1. PICK g : g = [f EXCEPT ![p] = t]
  OBVIOUS
<1>2. DOMAIN g = SubPartition /\ g[p] = t /\ \A q \in SubPartition : q # p => g[q] = f[q]
  BY <1>1 DEF SubsInv
<1>3. ASSUME NEW q \in SubPartition PROVE SubInv(q, g[q], L \cap Of(q), sn)
  <2>1. CASE q = p
    BY <1>2, <2>1
  <2>2. CASE q # p
    <3>1. r \notin Of(q)
      BY <2>2 DEF Of
    <3>2. L \cap Of(q) = K \cap Of(q)
      BY <3>1
    <3>3. SubInv(q, f[q], K \cap Of(q), sn)
      BY DEF SubsInv
    <3> QED BY <1>2, <2>2, <3>2, <3>3
  <2> QED BY <2>1, <2>2
<1>4. SubsInv(g, L, sn)
  BY <1>2, <1>3 DEF SubsInv
<1> QED BY <1>1, <1>4

\* Of the channel only what its requests do changes.
LEMMA DramOnly ==
  ASSUME NEW st, NEW sn, StateInv(st, sn), NEW d, ChanInv(d, st.order), InDram(d) = InDram(st.dram),
         NEW u, u = [st EXCEPT !.dram = d]
  PROVE  StateInv(u, sn) /\ u.dram = d /\ u.order = st.order
<1>1. /\ IsState(u) /\ u.dram = d /\ u.sub = st.sub /\ u.latency = st.latency /\ u.credit = st.credit
      /\ u.order = st.order
  BY DEF StateInv, IsState
<1>2. Channel(u) = Channel(st)
  BY <1>1 DEF Channel
<1> QED BY <1>1, <1>2 DEF StateInv

LEMMA ReturnState ==
  ASSUME NEW st, NEW sn, StateInv(st, sn), NEW u, u = ReturnStage(st)
  PROVE  StateInv(u, sn) /\ u.order = st.order /\ Unfinished(u.dram) = Unfinished(st.dram)
<1>1. PICK d : d = st.dram
  OBVIOUS
<1>2. PICK r : r = Head(d.returnq)
  OBVIOUS
<1>3. PICK p : p = Attr[r].sp
  OBVIOUS
<1>4. CASE d.returnq = <<>> \/ Len(st.sub[p].dram_L2) >= DramL2
  BY <1>1, <1>2, <1>3, <1>4 DEF ReturnStage
<1>5. CASE ~(d.returnq = <<>> \/ Len(st.sub[p].dram_L2) >= DramL2)
  <2>1. PICK e : e = TakeAnswer(d)
    OBVIOUS
  <2>2. ChanInv(d, st.order) /\ d \in DramState
    BY <1>1 DEF StateInv, ChanInv
  <2>3. /\ ChanInv(e, st.order) /\ InDram(e) = InDram(d) \ {r} /\ Unfinished(e) = Unfinished(d)
        /\ r \in InDram(d) /\ ~WriteBack(r)
    BY <1>2, <1>5, <2>1, <2>2, ReturnChan
  <2>4. r \in Request /\ p \in SubPartition /\ r \in Of(p)
    BY <1>3, <2>2, <2>3, Contents, PartitionAssumption DEF Of
  <2>5. PICK s : s = st.sub[p]
    OBVIOUS
  <2>6. PICK K : K = Channel(st)
    OBVIOUS
  <2>7. PICK M : M = K \cap Of(p)
    OBVIOUS
  <2>8. SubInv(p, s, M, sn) /\ SubOK(p, s)
    BY <2>4, <2>5, <2>6, <2>7 DEF StateInv, SubsInv, SubInv
  <2>9. r \in K
    BY <1>1, <2>3, <2>6 DEF Channel
  <2>10. Len(s["dram_L2"]) < DramL2
    <3>1. Len(s["dram_L2"]) \in Nat /\ ~(Len(s["dram_L2"]) >= DramL2) /\ DramL2 \in Nat
      <4>1. s["dram_L2"] \in Seq(Of(p))
        BY <2>4, <2>8, SubTypes DEF QName
      <4>2. Len(s["dram_L2"]) \in Nat
        BY <4>1, SeqFacts
      <4> QED BY <1>5, <2>5, <4>2, PartitionAssumption
    <3> QED BY <3>1
  <2>11. MayPut(p, s, M, "dram_L2", r)
    BY <2>3, <2>4, <2>7, <2>9, <2>10 DEF MayPut, Holds, Bounded, Clean, Room
  <2>12. PICK t : t = PutAt(s, "dram_L2", r)
    OBVIOUS
  <2>13. IsPut(p, s, M, sn, "dram_L2", r, t)
    <3>1. "dram_L2" \in QName
      BY DEF QName
    <3> QED BY <2>4, <2>8, <2>11, <2>12, <3>1, SubPut
  <2>14. PICK L : L = K \ {r}
    OBVIOUS
  <2>15. SubInv(p, t, L \cap Of(p), sn)
    <3>1. M \ {r} = L \cap Of(p)
      BY <2>7, <2>14
    <3> QED BY <2>13, <3>1 DEF IsPut
  <2>16. Attr[r].kind # "L1_WRBK"
    BY <2>3 DEF WriteBack
  <2>17. u = [st EXCEPT !.dram.returnq = Tail(@), !.sub[p].dram_L2 = Append(@, r),
                        !.credit = return_credit(@, p)]
    BY <1>1, <1>2, <1>3, <1>5, <2>16 DEF ReturnStage
  <2>18. /\ IsState(u) /\ u.dram = e /\ u.sub = [st.sub EXCEPT ![p] = t] /\ u.latency = st.latency
         /\ u.credit = return_credit(st.credit, p) /\ u.order = st.order
    <3>1. IsState(st)
      BY DEF StateInv
    <3>2. t = [st.sub[p] EXCEPT !.dram_L2 = Append(@, r)]
      BY <2>5, <2>12 DEF PutAt, SetAt
    <3>3. e = [st.dram EXCEPT !.returnq = Tail(@)]
      BY <1>1, <2>1 DEF TakeAnswer
    <3> QED BY <2>17, <3>1, <3>2, <3>3 DEF IsState
  <2>19. ToSet(st.latency) \cap InDram(d) = {}
    BY <1>1 DEF StateInv
  <2>20. Channel(u) = L
    BY <1>1, <2>3, <2>6, <2>14, <2>18, <2>19 DEF Channel
  <2>21. SubsInv(u.sub, L, sn)
    <3>1. SubsInv(st.sub, K, sn) /\ L \ {r} = K \ {r}
      BY <2>6, <2>14 DEF StateInv
    <3>2. SubsInv([st.sub EXCEPT ![p] = t], L, sn)
      BY <2>4, <2>15, <3>1, SubsChange
    <3> QED BY <2>18, <3>2
  <2>22. u.credit \in CreditType /\ CreditInv(u.credit, L)
    <3>1. PICK c \in CreditType : c = st.credit /\ CreditInv(c, K)
      BY <2>6 DEF StateInv
    <3>2. return_credit(c, p) \in CreditType /\ CreditInv(return_credit(c, p), K \ {r})
      BY <2>4, <2>9, <3>1, CreditReturn
    <3> QED BY <2>14, <2>18, <3>1, <3>2
  <2>23. StateInv(u, sn)
    BY <2>3, <2>18, <2>19, <2>20, <2>21, <2>22 DEF StateInv
  <2> QED BY <1>1, <2>3, <2>18, <2>23
<1> QED BY <1>4, <1>5

\* Requests that have an older one for their row stay unfinished.
Lasting(st, u) == \A q, r \in Request : <<q, r>> \in st.order /\ SameRow(q, r) => r \in Unfinished(u.dram)

LEMMA CutSubset ==
  ASSUME NEW o, NEW r
  PROVE  Cut(o, r) \subseteq o
BY DEF Cut

LEMMA DataState ==
  ASSUME NEW st, NEW sn, StateInv(st, sn), NEW arrives, NEW u, u = DataStage(st, arrives)
  PROVE  StateInv(u, sn) /\ Lasting(st, u)
<1>1. PICK d : d = st.dram
  OBVIOUS
<1>2. PICK r : r = Head(d.rwq)
  OBVIOUS
<1>3. PICK e : e = Transfer(d)
  OBVIOUS
<1>4. ChanInv(d, st.order) /\ d \in DramState
  BY <1>1 DEF StateInv, ChanInv
<1>5. \A x, y \in Request : <<x, y>> \in st.order /\ SameRow(x, y) => y \in Unfinished(d)
  BY <1>4 DEF ChanInv, OrderInv, Ahead
<1>6. CASE ~(arrives /\ DataReady(d))
  <2>1. u = st
    BY <1>1, <1>6 DEF DataStage
  <2> QED BY <1>1, <1>5, <2>1 DEF Lasting
<1>7. CASE arrives /\ DataReady(d) /\ ~Completes(d)
  <2>1. u = [st EXCEPT !.dram = e]
    <3>1. u = [st EXCEPT !.dram = Transfer(@), !.order = @]
      BY <1>1, <1>7 DEF DataStage
    <3> QED BY <1>1, <1>3, <3>1 DEF StateInv, IsState
  <2>2. ChanInv(e, st.order) /\ InDram(e) = InDram(d) /\ Unfinished(e) = Unfinished(d)
    BY <1>3, <1>4, <1>7, BurstChan DEF DataReady
  <2>3. StateInv(u, sn) /\ u.dram = e
    BY <1>1, <2>1, <2>2, DramOnly
  <2> QED BY <1>5, <2>2, <2>3 DEF Lasting
<1>8. CASE arrives /\ DataReady(d) /\ Completes(d)
  <2>1. PICK o : o = Cut(st.order, r)
    OBVIOUS
  <2>2. /\ ChanInv(e, o) /\ Unfinished(e) = Unfinished(d) \ {r} /\ r \in Request /\ r \in InDram(d)
        /\ InDram(e) = IF WriteBack(r) THEN InDram(d) \ {r} ELSE InDram(d)
    BY <1>2, <1>3, <1>4, <1>8, <2>1, FinishChan DEF DataReady
  <2>3. \A x, y \in Request : <<x, y>> \in st.order /\ SameRow(x, y) => y # r
    BY <1>2, <1>4, <1>8, Leading DEF DataReady
  <2>4. \A x, y \in Request : <<x, y>> \in st.order /\ SameRow(x, y) => y \in Unfinished(e)
    BY <1>5, <2>2, <2>3
  <2>5. PICK w : w = [st EXCEPT !.dram = e, !.order = o]
    OBVIOUS
  <2>6. u = IF WriteBack(r) THEN set_done(w, r) ELSE w
    BY <1>1, <1>2, <1>3, <1>8, <2>1, <2>5 DEF DataStage, Cut
  <2>7. /\ IsState(w) /\ w.dram = e /\ w.sub = st.sub /\ w.latency = st.latency /\ w.credit = st.credit
        /\ w.order = o
    BY <2>5 DEF StateInv, IsState
  <2>8. o \subseteq Request \X Request
    BY <2>1, CutSubset DEF StateInv
  <2>9. ToSet(st.latency) \cap InDram(d) = {}
    BY <1>1 DEF StateInv
  <2>10. CASE ~WriteBack(r)
    <3>1. u = w /\ InDram(e) = InDram(d)
      BY <2>2, <2>6, <2>10
    <3>2. Channel(w) = Channel(st)
      BY <1>1, <2>7, <3>1 DEF Channel
    <3>3. StateInv(w, sn)
      BY <2>2, <2>7, <2>8, <2>9, <3>1, <3>2 DEF StateInv
    <3> QED BY <2>4, <2>7, <3>1, <3>3 DEF Lasting
  <2>11. CASE WriteBack(r)
    <3>1. PICK p : p = Attr[r].sp
      OBVIOUS
    <3>2. p \in SubPartition /\ r \in Of(p)
      BY <2>2, <3>1, PartitionAssumption DEF Of
    <3>3. u = [w EXCEPT !.credit = return_credit(@, p), !.sub[p].tracker = @ \ {r}]
      BY <2>6, <2>11, <3>1 DEF set_done
    <3>4. PICK s : s = st.sub[p]
      OBVIOUS
    <3>5. PICK K : K = Channel(st)
      OBVIOUS
    <3>6. PICK L : L = K \ {r}
      OBVIOUS
    <3>7. PICK M : M = K \cap Of(p)
      OBVIOUS
    <3>8. PICK t : t = Forget(s, r)
      OBVIOUS
    <3>9. r \in K
      BY <1>1, <2>2, <3>5 DEF Channel
    <3>10. SubInv(p, s, M, sn)
      BY <3>2, <3>4, <3>5, <3>7 DEF StateInv, SubsInv
    <3>11. IsForgotten(p, s, M, sn, r, t)
      BY <3>2, <3>7, <3>8, <3>9, <3>10, SubForget
    <3>12. SubInv(p, t, L \cap Of(p), sn)
      <4>1. M \ {r} = L \cap Of(p)
        BY <3>6, <3>7
      <4> QED BY <3>11, <4>1 DEF IsForgotten
    <3>13. /\ IsState(u) /\ u.dram = e /\ u.sub = [st.sub EXCEPT ![p] = t] /\ u.latency = st.latency
           /\ u.credit = return_credit(st.credit, p) /\ u.order = o
      <4>1. t = [st.sub[p] EXCEPT !.tracker = @ \ {r}]
        BY <3>4, <3>8 DEF Forget, SetAt
      <4> QED BY <2>7, <3>3, <4>1 DEF IsState
    <3>14. Channel(u) = L
      BY <1>1, <2>2, <2>9, <2>11, <3>5, <3>6, <3>13 DEF Channel
    <3>15. SubsInv(u.sub, L, sn)
      <4>1. SubsInv(st.sub, K, sn) /\ L \ {r} = K \ {r}
        BY <3>5, <3>6 DEF StateInv
      <4>2. SubsInv([st.sub EXCEPT ![p] = t], L, sn)
        BY <3>2, <3>12, <4>1, SubsChange
      <4> QED BY <3>13, <4>2
    <3>16. u.credit \in CreditType /\ CreditInv(u.credit, L)
      <4>1. PICK c \in CreditType : c = st.credit /\ CreditInv(c, K)
        BY <3>5 DEF StateInv
      <4>2. return_credit(c, p) \in CreditType /\ CreditInv(return_credit(c, p), K \ {r})
        BY <3>2, <3>9, <4>1, CreditReturn
      <4> QED BY <3>6, <3>13, <4>1, <4>2
    <3>17. ToSet(u.latency) \cap InDram(e) = {}
      BY <2>2, <2>9, <2>11, <3>13
    <3>18. StateInv(u, sn)
      BY <2>2, <2>8, <3>13, <3>14, <3>15, <3>16, <3>17 DEF StateInv
    <3> QED BY <2>4, <3>13, <3>18 DEF Lasting
  <2> QED BY <2>10, <2>11
<1> QED BY <1>6, <1>7, <1>8

LEMMA ScheduleState ==
  ASSUME NEW st, NEW sn, StateInv(st, sn), NEW u \in ScheduleStage(st)
  PROVE  /\ StateInv(u, sn) /\ u.order = st.order /\ Unfinished(u.dram) = Unfinished(st.dram)
         /\ u.dram.scheduler = "FRFCFS" => u.dram.mrqq = <<>>
<1>1. PICK d \in Schedule(st.dram) : u = [st EXCEPT !.dram = d]
  BY DEF ScheduleStage
<1>2. PICK c : c = st.dram
  OBVIOUS
<1>3. /\ ChanInv(d, st.order) /\ InDram(d) = InDram(c) /\ Unfinished(d) = Unfinished(c)
      /\ d.scheduler = "FRFCFS" => d.mrqq = <<>>
  <2>1. ChanInv(c, st.order) /\ d \in Schedule(c)
    BY <1>1, <1>2 DEF StateInv
  <2> QED BY <2>1, ScheduleChan
<1>4. StateInv(u, sn) /\ u.dram = d /\ u.order = st.order
  BY <1>1, <1>2, <1>3, DramOnly
<1> QED BY <1>2, <1>3, <1>4

LEMMA CommandState ==
  ASSUME NEW st, NEW sn, StateInv(st, sn), NEW b, NEW u, u = CommandStage(st, b)
  PROVE  /\ StateInv(u, sn) /\ u.order = st.order /\ Unfinished(u.dram) = Unfinished(st.dram)
         /\ u.dram.scheduler = st.dram.scheduler /\ u.dram.mrqq = st.dram.mrqq
<1>1. CASE ~(b \in Bank /\ CanCommand(st.dram, b))
  BY <1>1 DEF CommandStage
<1>2. CASE b \in Bank /\ CanCommand(st.dram, b)
  <2>1. PICK c : c = st.dram
    OBVIOUS
  <2>2. PICK d : d = Command(c, b)
    OBVIOUS
  <2>3. ChanInv(c, st.order)
    BY <2>1 DEF StateInv
  <2>4. /\ ChanInv(d, st.order) /\ InDram(d) = InDram(c) /\ Unfinished(d) = Unfinished(c)
        /\ d.mrqq = c.mrqq /\ d.scheduler = c.scheduler
    BY <1>2, <2>1, <2>2, <2>3, CommandChan
  <2>5. u = [st EXCEPT !.dram = d]
    BY <1>2, <2>1, <2>2 DEF CommandStage
  <2>6. StateInv(u, sn) /\ u.dram = d /\ u.order = st.order
    BY <2>1, <2>4, <2>5, DramOnly
  <2> QED BY <2>1, <2>4, <2>6
<1> QED BY <1>1, <1>2

\* A sub-partition borrows a credit and issues.
LEMMA ArbitrateState ==
  ASSUME NEW st, NEW sn, StateInv(st, sn), NEW u \in ArbitrateStage(st)
  PROVE  StateInv(u, sn) /\ u.order = st.order /\ u.dram = st.dram
<1>1. u = st \/ \E p \in FirstAble(st) :
        u = [st EXCEPT !.sub[p].L2_dram = Tail(@), !.latency = Append(@, Head(st.sub[p].L2_dram)),
                       !.credit = borrow_credit(@, p)]
  BY DEF ArbitrateStage
<1>2. CASE u = st
  BY <1>2
<1>3. ASSUME NEW p \in FirstAble(st),
             u = [st EXCEPT !.sub[p].L2_dram = Tail(@), !.latency = Append(@, Head(st.sub[p].L2_dram)),
                            !.credit = borrow_credit(@, p)]
      PROVE  StateInv(u, sn) /\ u.order = st.order /\ u.dram = st.dram
  <2>1. p \in SubPartition /\ st.sub[p].L2_dram # <<>>
    BY DEF FirstAble, Able
  <2>2. PICK s : s = st.sub[p]
    OBVIOUS
  <2>3. PICK r : r = Head(s["L2_dram"])
    OBVIOUS
  <2>4. PICK K : K = Channel(st)
    OBVIOUS
  <2>5. PICK L : L = K \cup {r}
    OBVIOUS
  <2>6. PICK M : M = K \cap Of(p)
    OBVIOUS
  <2>7. PICK t : t = TakeFrom(s, "L2_dram")
    OBVIOUS
  <2>8. SubInv(p, s, M, sn) /\ s["L2_dram"] # <<>>
    BY <2>1, <2>2, <2>4, <2>6 DEF StateInv, SubsInv
  <2>9. IsTaken(p, s, M, sn, "L2_dram", r, t)
    <3>1. "L2_dram" \in QName
      BY DEF QName
    <3>2. IsTaken(p, s, M, sn, "L2_dram", Head(s["L2_dram"]), TakeFrom(s, "L2_dram"))
      BY <2>1, <2>8, <3>1, SubTake
    <3> QED BY <2>3, <2>7, <3>2, Zenon
  <2>10. r \in Of(p) /\ r \notin K /\ r \in Request
    BY <2>6, <2>9 DEF IsTaken, Of
  <2>11. SubInv(p, t, L \cap Of(p), sn)
    <3>1. M \cup {r} = L \cap Of(p)
      BY <2>5, <2>6, <2>10
    <3> QED BY <2>9, <3>1 DEF IsTaken
  <2>12. PICK q : q = Append(st.latency, r)
    OBVIOUS
  <2>13. /\ IsState(u) /\ u.dram = st.dram /\ u.sub = [st.sub EXCEPT ![p] = t] /\ u.latency = q
         /\ u.credit = borrow_credit(st.credit, p) /\ u.order = st.order
    <3>1. t = [st.sub[p] EXCEPT !.L2_dram = Tail(@)]
      BY <2>2, <2>7 DEF TakeFrom, SetAt
    <3>2. Head(st.sub[p].L2_dram) = r /\ IsState(st)
      BY <2>2, <2>3 DEF StateInv
    <3> QED BY <1>3, <2>12, <3>1, <3>2 DEF IsState
  <2>14. q \in Seq(Request) /\ NoDup(q) /\ ToSet(q) = ToSet(st.latency) \cup {r}
    <3>1. st.latency \in Seq(Request) /\ NoDup(st.latency) /\ r \notin ToSet(st.latency)
      BY <2>4, <2>10 DEF StateInv, Channel
    <3> QED BY <2>10, <2>12, <3>1, SeqAppend
  <2>15. Channel(u) = L
    BY <2>4, <2>5, <2>13, <2>14 DEF Channel
  <2>16. ToSet(q) \cap InDram(u.dram) = {}
    BY <2>4, <2>10, <2>13, <2>14 DEF StateInv, Channel
  <2>17. SubsInv(u.sub, L, sn)
    <3>1. SubsInv(st.sub, K, sn) /\ L \ {r} = K \ {r}
      BY <2>4, <2>5 DEF StateInv
    <3>2. SubsInv([st.sub EXCEPT ![p] = t], L, sn)
      BY <2>1, <2>10, <2>11, <3>1, SubsChange
    <3> QED BY <2>13, <3>2
  <2>18. u.credit \in CreditType /\ CreditInv(u.credit, L)
    <3>1. PICK c \in CreditType : c = st.credit /\ CreditInv(c, K)
      BY <2>4 DEF StateInv
    <3>2. borrow_credit(c, p) \in CreditType /\ CreditInv(borrow_credit(c, p), K \cup {r})
      BY <2>1, <2>10, <3>1, CreditBorrow
    <3> QED BY <2>5, <2>13, <3>1, <3>2
  <2>19. ChanInv(u.dram, u.order) /\ u.order \subseteq Request \X Request
    BY <2>13 DEF StateInv
  <2>20. StateInv(u, sn)
    BY <2>13, <2>14, <2>15, <2>16, <2>17, <2>18, <2>19 DEF StateInv
  <2> QED BY <2>13, <2>20
<1> QED BY <1>1, <1>2, <1>3

\* The oldest request enters the channel.
LEMMA LatencyState ==
  ASSUME NEW st, NEW sn, StateInv(st, sn), st.dram.scheduler = "FRFCFS" => st.dram.mrqq = <<>>,
         NEW ripe, NEW u, u = LatencyStage(st, ripe)
  PROVE  StateInv(u, sn) /\ Unfinished(st.dram) \subseteq Unfinished(u.dram)
<1>1. CASE ~ripe \/ st.latency = <<>> \/ DramFull(st.dram)
  BY <1>1 DEF LatencyStage
<1>2. CASE ~(~ripe \/ st.latency = <<>> \/ DramFull(st.dram))
  <2>1. PICK r : r = Head(st.latency)
    OBVIOUS
  <2>2. PICK d : d = st.dram
    OBVIOUS
  <2>3. PICK e : e = DramPush(d, r)
    OBVIOUS
  <2>4. PICK o : o = PushOrder(d, st.order, r)
    OBVIOUS
  <2>5. PICK q : q = Tail(st.latency)
    OBVIOUS
  <2>6. st.latency \in Seq(Request) /\ NoDup(st.latency) /\ st.latency # <<>> /\ ToSet(st.latency) \cap InDram(d) = {}
    BY <1>2, <2>2 DEF StateInv
  <2>7. /\ q \in Seq(Request) /\ NoDup(q) /\ ToSet(q) = ToSet(st.latency) \ {r}
        /\ r \in Request /\ r \in ToSet(st.latency)
    BY <2>1, <2>5, <2>6, SeqTail
  <2>8. PushPre(d, r)
    BY <1>2, <2>2, <2>6, <2>7 DEF PushPre
  <2>9. ChanInv(d, st.order) /\ d \in DramState
    BY <2>2 DEF StateInv, ChanInv
  <2>10. ChanInv(DramPush(d, r), PushOrder(d, st.order, r)) /\ InDram(DramPush(d, r)) = InDram(d) \cup {r}
    BY <2>8, <2>9, PushChan
  <2>11. ChanInv(e, o) /\ InDram(e) = InDram(d) \cup {r}
    BY <2>3, <2>4, <2>10, Zenon
  <2>12. Unfinished(d) \subseteq Unfinished(e)
    <3>1. d.mrqq \in Seq(Request) /\ d.returnq \in Seq(Request) /\ DOMAIN d = {"scheduler", "mrqq", "m_queue",
            "m_num_pending", "m_last_row", "mrq", "curr_row", "active", "prio", "tx", "dq", "rwq", "returnq"}
      BY <2>9, DramTypes
    <3>2. ToSet(Append(d.mrqq, r)) = ToSet(d.mrqq) \cup {r}
      BY <2>7, <3>1, SeqAppend
    <3>3. e.mrqq = Append(d.mrqq, r) /\ e.m_queue = d.m_queue /\ e.mrq = d.mrq /\ e.rwq = d.rwq
      BY <2>3, <3>1 DEF DramPush
    <3> QED BY <3>2, <3>3 DEF Unfinished
  <2>13. o \subseteq Request \X Request
    <3>1. st.order \subseteq Request \X Request /\ Unfinished(d) \subseteq Request
      BY <2>9, Contents DEF StateInv
    <3> QED BY <2>4, <2>7, <3>1 DEF PushOrder
  <2>14. u = [st EXCEPT !.latency = q, !.dram = e, !.order = o]
    BY <1>2, <2>1, <2>2, <2>3, <2>4, <2>5 DEF LatencyStage, PushOrder
  <2>15. /\ IsState(u) /\ u.dram = e /\ u.sub = st.sub /\ u.latency = q /\ u.credit = st.credit /\ u.order = o
    BY <2>14 DEF StateInv, IsState
  <2>16. Channel(u) = Channel(st)
    BY <2>2, <2>7, <2>11, <2>15 DEF Channel
  <2>17. ToSet(q) \cap InDram(e) = {}
    BY <2>6, <2>7, <2>11
  <2>18. StateInv(u, sn)
    BY <2>7, <2>11, <2>13, <2>15, <2>16, <2>17 DEF StateInv
  <2> QED BY <2>2, <2>12, <2>15, <2>18
<1> QED BY <1>1, <1>2

-----------------------------------------------------------------------------
(* Steps *)

Inv == mode \in Modes /\ sent \subseteq CoreRequest /\ StateInv(State, sent)

LEMMA StateFields ==
  /\ State.sub = sub /\ State.dram = dram /\ State.latency = latency
  /\ State.credit = credit /\ State.order = order /\ IsState(State)
BY DEF State, IsState

LEMMA DramStep ==
  ASSUME StateInv(State, sent), DramCycle
  PROVE  /\ StateInv(State, sent)' /\ UNCHANGED <<mode, sent>>
         /\ \A q, r \in Request : <<q, r>> \in order /\ SameRow(q, r) => r \in Unfinished(dram')
<1>1. PICK arrives, b, ripe : dram_cycle(arrives, b, ripe)
  BY DEF DramCycle
<1>2. PICK s1 : s1 = ReturnStage(State) /\
        \E s2 \in {DataStage(s1, arrives)} : \E s3 \in ScheduleStage(s2) : \E s4 \in {CommandStage(s3, b)} :
        \E s5 \in ArbitrateStage(s4) : \E s6 \in {LatencyStage(s5, ripe)} :
          /\ sub' = s6.sub /\ dram' = s6.dram /\ latency' = s6.latency
          /\ credit' = s6.credit /\ order' = s6.order /\ UNCHANGED <<mode, sent>>
  BY <1>1 DEF dram_cycle
<1>3. PICK s2 : s2 = DataStage(s1, arrives) /\
        \E s3 \in ScheduleStage(s2) : \E s4 \in {CommandStage(s3, b)} :
        \E s5 \in ArbitrateStage(s4) : \E s6 \in {LatencyStage(s5, ripe)} :
          /\ sub' = s6.sub /\ dram' = s6.dram /\ latency' = s6.latency
          /\ credit' = s6.credit /\ order' = s6.order /\ UNCHANGED <<mode, sent>>
  BY <1>2
<1>4. PICK s3 \in ScheduleStage(s2) :
        \E s4 \in {CommandStage(s3, b)} :
        \E s5 \in ArbitrateStage(s4) : \E s6 \in {LatencyStage(s5, ripe)} :
          /\ sub' = s6.sub /\ dram' = s6.dram /\ latency' = s6.latency
          /\ credit' = s6.credit /\ order' = s6.order /\ UNCHANGED <<mode, sent>>
  BY <1>3
<1>5. PICK s4 : s4 = CommandStage(s3, b) /\
        \E s5 \in ArbitrateStage(s4) : \E s6 \in {LatencyStage(s5, ripe)} :
          /\ sub' = s6.sub /\ dram' = s6.dram /\ latency' = s6.latency
          /\ credit' = s6.credit /\ order' = s6.order /\ UNCHANGED <<mode, sent>>
  BY <1>4
<1>6. PICK s5 \in ArbitrateStage(s4) : \E s6 \in {LatencyStage(s5, ripe)} :
          /\ sub' = s6.sub /\ dram' = s6.dram /\ latency' = s6.latency
          /\ credit' = s6.credit /\ order' = s6.order /\ UNCHANGED <<mode, sent>>
  BY <1>5
<1>7. PICK s6 : s6 = LatencyStage(s5, ripe) /\
          /\ sub' = s6.sub /\ dram' = s6.dram /\ latency' = s6.latency
          /\ credit' = s6.credit /\ order' = s6.order /\ UNCHANGED <<mode, sent>>
  BY <1>6
<1>8. StateInv(s1, sent) /\ s1.order = order
  BY <1>2, ReturnState, StateFields
<1>9. StateInv(s2, sent) /\ Lasting(s1, s2)
  BY <1>3, <1>8, DataState
<1>10. /\ StateInv(s3, sent) /\ Unfinished(s3.dram) = Unfinished(s2.dram)
       /\ s3.dram.scheduler = "FRFCFS" => s3.dram.mrqq = <<>>
  BY <1>4, <1>9, ScheduleState
<1>11. /\ StateInv(s4, sent) /\ Unfinished(s4.dram) = Unfinished(s3.dram)
       /\ s4.dram.scheduler = s3.dram.scheduler /\ s4.dram.mrqq = s3.dram.mrqq
  BY <1>5, <1>10, CommandState
<1>12. StateInv(s5, sent) /\ s5.dram = s4.dram
  BY <1>6, <1>11, ArbitrateState
<1>13. s5.dram.scheduler = "FRFCFS" => s5.dram.mrqq = <<>>
  BY <1>10, <1>11, <1>12
<1>14. StateInv(s6, sent) /\ Unfinished(s5.dram) \subseteq Unfinished(s6.dram)
  BY <1>7, <1>12, <1>13, LatencyState
<1>15. State' = s6
  <2>1. s6 = [sub |-> s6.sub, dram |-> s6.dram, latency |-> s6.latency, credit |-> s6.credit, order |-> s6.order]
    BY <1>14 DEF StateInv, IsState
  <2>2. State' = [sub |-> s6.sub, dram |-> s6.dram, latency |-> s6.latency, credit |-> s6.credit, order |-> s6.order]
    BY <1>7 DEF State
  <2> QED BY <2>1, <2>2
<1>16. \A q, r \in Request : <<q, r>> \in order /\ SameRow(q, r) => r \in Unfinished(s6.dram)
  BY <1>8, <1>9, <1>10, <1>11, <1>12, <1>14 DEF Lasting
<1>17. sent' = sent /\ StateInv(State', sent')
  BY <1>7, <1>14, <1>15
<1> QED BY <1>7, <1>16, <1>17

\* More requests were sent.
LEMMA SubMore ==
  ASSUME NEW p, NEW s, NEW K, NEW sn, SubInv(p, s, K, sn), NEW x
  PROVE  SubInv(p, s, K, sn \cup {x})
<1>1. \A r : Unused(s, sn \cup {x}, r) => Unused(s, sn, r)
  BY DEF Unused
<1>2. SubFresh(p, s, K, sn)
  BY DEF SubInv
<1>3. SubFresh(p, s, K, sn \cup {x})
  BY <1>1, <1>2, FreshFacts
<1> QED BY <1>3 DEF SubInv

\* Sub-partition p alone changes; what is in the channel does not.
LEMMA SubStep ==
  ASSUME StateInv(State, sent), NEW p \in SubPartition, NEW t, sub' = [sub EXCEPT ![p] = t],
         \A q \in SubPartition : SubInv(q, sub[q], Channel(State) \cap Of(q), sent'),
         SubInv(p, t, Channel(State) \cap Of(p), sent'), UNCHANGED <<dram, latency, credit, order>>
  PROVE  StateInv(State', sent')
<1>1. /\ (State').sub = sub' /\ (State').dram = dram /\ (State').latency = latency
      /\ (State').credit = credit /\ (State').order = order /\ IsState(State')
  BY DEF State, IsState
<1>2. Channel(State') = Channel(State)
  BY <1>1, StateFields DEF Channel
<1>3. DOMAIN sub = SubPartition
  BY StateFields DEF StateInv, SubsInv
<1>4. SubsInv(sub', Channel(State), sent')
  <2>1. DOMAIN sub' = SubPartition /\ \A q \in SubPartition : sub'[q] = IF q = p THEN t ELSE sub[q]
    BY <1>3
  <2> QED BY <2>1 DEF SubsInv
<1> QED BY <1>1, <1>2, <1>4, StateFields DEF StateInv

LEMMA CacheStep ==
  ASSUME Inv, NEW p \in SubPartition, CacheCycle(p)
  PROVE  Inv'
<1>1. PICK r \in Offered(p), refuse \in BOOLEAN, ripe \in BOOLEAN : cache_cycle(p, r, refuse, ripe)
  BY DEF CacheCycle
<1>2. PICK s : s = sub[p]
  OBVIOUS
<1>3. PICK K : K = Channel(State) \cap Of(p)
  OBVIOUS
<1>4. SubInv(p, s, K, sent) /\ SubOK(p, s)
  BY <1>2, <1>3, StateFields DEF Inv, StateInv, SubsInv, SubInv
<1>5. PICK sn : sn = sent \cup ({r} \ {NoReq})
  OBVIOUS
<1>6. r # NoReq => r \in Of(p) \cap CoreRequest /\ r \notin sent /\ Len(s.icnt_L2) < IcntL2
  <2> HAVE r # NoReq
  <2>1. r \in mode.traffic /\ r \notin sent /\ Attr[r].sp = p /\ ~(Len(s.icnt_L2) >= IcntL2)
    BY <1>2 DEF Offered
  <2>2. r \in CoreRequest /\ r \in Request
    BY <2>1, PartitionAssumption DEF Inv, CoreRequest
  <2>3. Len(s.icnt_L2) \in Nat
    BY <1>4, SubTypes, SeqFacts
  <2>4. Len(s.icnt_L2) < IcntL2
    BY <2>1, <2>3, PartitionAssumption
  <2> QED BY <2>1, <2>2, <2>4 DEF Of
<1>7. PICK s0 : s0 = Push(s, r)
  OBVIOUS
<1>8. SubInv(p, s0, K, sn)
  <2>1. CASE r = NoReq
    <3>1. s0 = s /\ sn = sent
      BY <1>5, <1>7, <2>1 DEF Push
    <3> QED BY <1>4, <3>1
  <2>2. CASE r # NoReq
    <3>1. sn = sent \cup {r}
      BY <1>5, <2>2
    <3>2. SubInv(p, s0, K, sent \cup {r})
      BY <1>4, <1>6, <1>7, <2>2, PushInv
    <3> QED BY <3>1, <3>2
  <2> QED BY <2>1, <2>2
<1>9. PICK s1 : s1 = RespondStage(s0)
  OBVIOUS
<1>10. PICK f : f = FillStage(s1)
  OBVIOUS
<1>11. PICK s2 : s2 = MissStage(f)
  OBVIOUS
<1>12. SubInv(p, s1, K, sn)
  BY <1>8, <1>9, RespondInv
<1>13. SubInv(p, f, K, sn)
  BY <1>10, <1>12, FillInv
<1>14. SubInv(p, s2, K, sn)
  BY <1>11, <1>13, MissInv
<1>15. PICK s3 \in AccessStage(s2, refuse) :
          /\ sub' = [sub EXCEPT ![p] = RopStage(s3, ripe)]
          /\ sent' = sn /\ UNCHANGED <<mode, dram, latency, credit, order>>
  BY <1>1, <1>2, <1>5, <1>7, <1>9, <1>10, <1>11 DEF cache_cycle
<1>16. SubInv(p, s3, K, sn)
  BY <1>14, <1>15, AccessInv
<1>17. PICK t : t = RopStage(s3, ripe)
  OBVIOUS
<1>18. SubInv(p, t, K, sn)
  BY <1>16, <1>17, RopInv
<1>19. \A q \in SubPartition : SubInv(q, sub[q], Channel(State) \cap Of(q), sn)
  <2> TAKE q \in SubPartition
  <2>1. SubInv(q, sub[q], Channel(State) \cap Of(q), sent)
    BY StateFields DEF Inv, StateInv, SubsInv
  <2>2. SubInv(q, sub[q], Channel(State) \cap Of(q), sent \cup {r})
    BY <2>1, SubMore
  <2>3. sn = sent \/ sn = sent \cup {r}
    BY <1>5
  <2> QED BY <2>1, <2>2, <2>3
<1>20. StateInv(State', sent')
  BY <1>3, <1>15, <1>17, <1>18, <1>19, SubStep DEF Inv
<1>21. sent' \subseteq CoreRequest /\ mode' \in Modes
  BY <1>5, <1>6, <1>15 DEF Inv
<1> QED BY <1>20, <1>21 DEF Inv

\* The response at the head of L2_icnt is never one top() drops.
LEMMA PopStep ==
  ASSUME Inv, NEW p \in SubPartition, PopResponse(p)
  PROVE  Inv'
<1>1. PICK s : s = sub[p]
  OBVIOUS
<1>2. PICK K : K = Channel(State) \cap Of(p)
  OBVIOUS
<1>3. SubInv(p, s, K, sent) /\ SubOK(p, s)
  BY <1>1, <1>2, StateFields DEF Inv, StateInv, SubsInv, SubInv
<1>4. PICK q : q = s["L2_icnt"]
  OBVIOUS
<1>5. q # <<>> /\ q \in Seq(Of(p)) /\ "L2_icnt" \in QName /\ "L2_icnt" \in Clean
  BY <1>1, <1>3, <1>4, SubTypes DEF PopResponse, QName, Clean
<1>6. ~WriteBack(Head(q))
  <2>1. Head(q) \in ToSet(q)
    BY <1>5, SeqTail
  <2> QED BY <1>3, <1>4, <1>5, <2>1 DEF SubInv, SubClean
<1>7. sub' = [sub EXCEPT ![p].L2_icnt = SubSeq(q, 2, Len(q)), ![p].tracker = @ \ ToSet(SubSeq(q, 1, 1))]
  BY <1>1, <1>4, <1>6 DEF PopResponse
<1>8. SubSeq(q, 2, Len(q)) = Tail(q) /\ ToSet(SubSeq(q, 1, 1)) = {Head(q)}
  BY <1>5, SeqWhole
<1>9. PICK t : t = [s EXCEPT !["L2_icnt"] = Tail(@), !.tracker = @ \ {Head(s["L2_icnt"])}]
  OBVIOUS
<1>10. SubInv(p, [s EXCEPT !["L2_icnt"] = Tail(@), !.tracker = @ \ {Head(s["L2_icnt"])}], K, sent)
  BY <1>3, <1>4, <1>5, SubEnd
<1>11. SubInv(p, t, K, sent)
  BY <1>9, <1>10
<1>12. sub' = [sub EXCEPT ![p] = t]
  <2>1. sub' = [sub EXCEPT ![p].L2_icnt = Tail(q), ![p].tracker = @ \ {Head(q)}]
    BY <1>7, <1>8
  <2>2. t = [sub[p] EXCEPT !.L2_icnt = Tail(q), !.tracker = @ \ {Head(q)}]
    BY <1>1, <1>4, <1>9
  <2> QED BY <2>1, <2>2
<1>13. sent' = sent /\ mode' = mode /\ UNCHANGED <<dram, latency, credit, order>>
  BY DEF PopResponse
<1>14. \A x \in SubPartition : SubInv(x, sub[x], Channel(State) \cap Of(x), sent')
  BY <1>13, StateFields DEF Inv, StateInv, SubsInv
<1>15. SubInv(p, t, Channel(State) \cap Of(p), sent')
  BY <1>2, <1>11, <1>13
<1>16. StateInv(State', sent')
  BY <1>12, <1>13, <1>14, <1>15, SubStep DEF Inv
<1> QED BY <1>13, <1>16 DEF Inv

-----------------------------------------------------------------------------
(* The initial state *)

LEMMA EmptyFacts ==
  /\ \A S : <<>> \in Seq(S)
  /\ Len(<<>>) = 0 /\ ToSet(<<>>) = {} /\ NoDup(<<>>) /\ DOMAIN <<>> = {}
  /\ \A q, r : Before(<<>>, q, r)
<1>1. DOMAIN <<>> = {} /\ Len(<<>>) = 0
  OBVIOUS
<1>2. ToSet(<<>>) = {}
  BY <1>1 DEF ToSet
<1> QED BY <1>1, <1>2 DEF NoDup, Before

LEMMA DramInitChan ==
  ASSUME NEW sch \in {"FIFO", "FRFCFS"}, NEW d, d = DramInit(sch)
  PROVE  ChanInv(d, {}) /\ InDram(d) = {}
<1>1. /\ d.scheduler = sch /\ d.mrqq = <<>> /\ d.m_queue = <<>> /\ d.m_num_pending = 0
      /\ d.m_last_row = [b \in Bank |-> NoRow] /\ d.mrq = [b \in Bank |-> NoReq]
      /\ d.tx = [r \in Request |-> 0] /\ d.dq = [r \in Request |-> 0]
      /\ d.rwq = <<>> /\ d.returnq = <<>>
  BY DEF DramInit
<1>2. d \in DramState
  <2>1. 0 \in Bank /\ 0 \in Nat
    BY DramAssumption DEF Bank
  <2>2. <<>> \in Seq(Request)
    BY EmptyFacts
  <2>3. /\ [b \in Bank |-> NoRow] \in [Bank -> Row \cup {NoRow}]
        /\ [b \in Bank |-> NoReq] \in [Bank -> Request \cup {NoReq}]
        /\ [b \in Bank |-> 0] \in [Bank -> Row \cup {0}]
        /\ [r \in Request |-> 0] \in [Request -> Nat]
    OBVIOUS
  <2> QED BY <2>1, <2>2, <2>3 DEF DramInit, DramState
<1>3. Flight(d) = {}
  BY <1>1, EmptyFacts DEF Flight
<1>4. Unfinished(d) = {} /\ InDram(d) = {}
  BY <1>1, <1>2, <1>3, Contents, EmptyFacts
<1>5. SchedInv(d)
  <2>1. SchedQueueSize # 0 => d.m_num_pending + Len(d.mrqq) <= SchedQueueSize
    BY <1>1, EmptyFacts, DramAssumption
  <2> QED BY <1>1, <2>1, EmptyFacts DEF SchedInv, MrqqSize
<1>6. ChanUnique(d)
  BY <1>1, <1>3, <1>4, EmptyFacts DEF ChanUnique
<1>7. BurstInv(d)
  <2>1. \A r : Bursts(d, r) = 0
    <3>1. \A r : Positions(<<>>, r) = {}
      BY EmptyFacts DEF Positions
    <3> QED BY <1>1, <3>1, FS_EmptySet DEF Bursts
  <2>2. \A r \in Request : d.dq[r] = 0 /\ d.tx[r] = 0 /\ Attr[r].bursts \in Nat
    BY <1>1, DramAssumption
  <2>3. \A b \in Bank : d.mrq[b] = NoReq
    BY <1>1
  <2> QED BY <1>3, <2>1, <2>2, <2>3 DEF BurstInv
<1>8. OrderInv(d, {})
  BY DEF OrderInv
<1> QED BY <1>2, <1>4, <1>5, <1>6, <1>7, <1>8 DEF ChanInv

LEMMA SubInitInv ==
  ASSUME NEW p \in SubPartition
  PROVE  SubInv(p, SubInit, {}, {})
<1>1. /\ SubInit.rop = <<>> /\ SubInit.icnt_L2 = <<>> /\ SubInit.L2_dram = <<>> /\ SubInit.dram_L2 = <<>>
      /\ SubInit.L2_icnt = <<>> /\ SubInit.tracker = {} /\ SubInit.missq = <<>> /\ SubInit.waiting = <<>>
      /\ SubInit.ready = <<>>
  BY DEF SubInit
<1>2. \A n \in QName : SubInit[n] = <<>>
  BY <1>1 DEF QName
<1>3. Queued(SubInit) = {} /\ Waiting(SubInit) = {} /\ Held(SubInit) = {}
  BY <1>1, <1>2, EmptyFacts DEF Queued, Waiting, Held
<1>4. SubOK(p, SubInit)
  <2>1. SubInit \in [rop : Seq(Of(p) \cap CoreRequest), icnt_L2 : Seq(Of(p) \cap CoreRequest),
            L2_dram : Seq(Of(p)), dram_L2 : Seq(Of(p)), L2_icnt : Seq(Of(p)), tracker : SUBSET Of(p),
            missq : Seq(Of(p)), waiting : {SubInit.waiting}, ready : Seq(Of(p))]
    BY EmptyFacts DEF SubInit
  <2>2. 0 <= IcntL2 /\ 0 <= L2Icnt /\ 0 <= L2Dram /\ 0 <= DramL2 /\ 0 <= MissQueueSize
    BY PartitionAssumption
  <2> QED BY <1>1, <2>1, <2>2, EmptyFacts DEF SubOK
<1>5. SubUnique(SubInit) /\ SubClean(SubInit)
  BY <1>1, <1>2, <1>3, EmptyFacts DEF SubUnique, SubClean, Clean, QName
<1>6. SubTracked(p, SubInit, {}) /\ SubFresh(p, SubInit, {}, {})
  BY <1>1, <1>3 DEF SubTracked, SubFresh
<1> QED BY <1>4, <1>5, <1>6 DEF SubInv

LEMMA InitInv ==
  ASSUME Init
  PROVE  Inv
<1>1. /\ mode \in Modes /\ sent = {} /\ sub = [p \in SubPartition |-> SubInit]
      /\ dram = DramInit(mode.scheduler) /\ latency = <<>> /\ order = {}
      /\ credit = [private |-> [p \in SubPartition |-> 0], shared |-> 0, last |-> NSub - 1]
  BY DEF Init
<1>2. ChanInv(dram, {}) /\ InDram(dram) = {}
  BY <1>1, DramInitChan, PartitionAssumption
<1>3. Channel(State) = {}
  BY <1>1, <1>2, StateFields, EmptyFacts DEF Channel
<1>4. credit \in CreditType
  <2>1. NSub - 1 \in SubPartition
    BY PartitionAssumption DEF SubPartition
  <2>2. [p \in SubPartition |-> 0] \in [SubPartition -> 0 .. PrivateLimit]
    BY DEF PrivateLimit
  <2> QED BY <1>1, <2>1, <2>2 DEF CreditType
<1>5. CreditInv(credit, {})
  <2>1. Holders(credit) = {}
    BY <1>1 DEF Holders
  <2>2. credit.shared = 0
    BY <1>1
  <2> QED BY <2>1, <2>2, FS_EmptySet DEF CreditInv
<1>6. SubsInv(sub, {}, {})
  BY <1>1, SubInitInv DEF SubsInv
<1>7. StateInv(State, sent)
  BY <1>1, <1>2, <1>3, <1>4, <1>5, <1>6, StateFields, EmptyFacts DEF StateInv
<1> QED BY <1>1, <1>7 DEF Inv

LEMMA NextInv ==
  ASSUME Inv, [Next]_vars
  PROVE  Inv'
<1>1. CASE DramCycle
  <2>1. StateInv(State', sent') /\ UNCHANGED <<mode, sent>>
    BY <1>1, DramStep DEF Inv
  <2> QED BY <2>1 DEF Inv
<1>2. ASSUME NEW p \in SubPartition, CacheCycle(p) \/ PopResponse(p) PROVE Inv'
  BY <1>2, CacheStep, PopStep
<1>3. CASE UNCHANGED vars
  BY <1>3 DEF Inv, State, vars
<1> QED BY <1>1, <1>2, <1>3 DEF Next

\* Every request is in one place, of the queues of its sub-partition (push to pop) or of
\* the channel (borrow_credit to return_credit), whose queues, bursts, order and credits
\* are as StateInv says: the inductive invariant behind the theorems below.
THEOREM Invariance == Spec => []Inv
<1>1. Init => Inv
  BY InitInv
<1>2. Inv /\ [Next]_vars => Inv'
  BY NextInv
<1> QED BY <1>1, <1>2, PTL DEF Spec

-----------------------------------------------------------------------------
(* What the partition promises *)

\* The requests of a state, by where they are
LEMMA InvFacts ==
  ASSUME Inv
  PROVE  /\ ChanInv(dram, order) /\ dram \in DramState
         /\ latency \in Seq(Request) /\ NoDup(latency) /\ ToSet(latency) \cap InDram(dram) = {}
         /\ credit \in CreditType /\ CreditInv(credit, InDram(dram) \cup ToSet(latency))
         /\ order \subseteq Request \X Request
         /\ DOMAIN sub = SubPartition
         /\ \A p \in SubPartition : SubInv(p, sub[p], (InDram(dram) \cup ToSet(latency)) \cap Of(p), sent)
BY StateFields DEF Inv, StateInv, SubsInv, Channel, ChanInv

\* TypeOK: every queue of the sub-partitions keeps to its size.
THEOREM TypeCorrect == Spec => []TypeOK
<1>1. Inv => TypeOK
  BY InvFacts DEF Inv, TypeOK, CreditType, SubInv
<1> QED BY <1>1, Invariance, PTL

\* SchedulerConsistent: the scheduler's count is right, mrqq never overflows, although
\* full() ignores it, and m_last_row points at a row of m_bins that has requests.
THEOREM SchedulerCorrect == Spec => []SchedulerConsistent
<1>1. Inv => SchedulerConsistent
  BY InvFacts DEF SchedulerConsistent, ChanInv, SchedInv
<1> QED BY <1>1, Invariance, PTL

\* CreditsExact: every request between borrow_credit and return_credit has one credit,
\* although who holds the shared ones is recorded nowhere.
THEOREM CreditsCorrect == Spec => []CreditsExact
<1>1. ASSUME Inv PROVE CreditsExact
  <2>1. PICK K : K = InDram(dram) \cup ToSet(latency)
    OBVIOUS
  <2>2. credit \in CreditType /\ CreditInv(credit, K)
    BY <1>1, <2>1, InvFacts
  <2>3. K \subseteq Request
    <3>1. InDram(dram) \subseteq Request
      BY <1>1, InvFacts, Contents
    <3>2. ToSet(latency) \subseteq Request
      BY <1>1, InvFacts, SeqFacts
    <3> QED BY <2>1, <3>1, <3>2
  <2>4. \A p : InPartition(p) = K \cap Of(p)
    BY <2>1, <2>3 DEF InPartition, Of
  <2>5. \A p \in SubPartition : credit.private[p] \in 0 .. PrivateLimit /\ credit.shared \in Nat
    BY <2>2 DEF CreditType
  <2>6. credit.shared \in Nat
    BY <2>2 DEF CreditType
  <2>7. \A p \in SubPartition : credit.private[p] > 0 => InPartition(p) # {}
    BY <2>2, <2>4 DEF CreditInv, Holders
  <2>8. credit.shared + Cardinality({p \in SubPartition : credit.private[p] > 0}) = Cardinality(K)
    BY <2>2 DEF CreditInv, Holders
  <2> QED BY <2>1, <2>5, <2>6, <2>7, <2>8 DEF CreditsExact
<1> QED BY <1>1, Invariance, PTL

\* RowOrder: of two requests for one row of one bank, the older one finishes first.
THEOREM RowOrderCorrect == Spec => RowOrder
<1>1. ASSUME Inv, [Next]_vars
      PROVE  \A q, r \in Request :
               <<q, r>> \in order /\ SameRow(q, r) /\ q \in Unfinished(dram') => r \in Unfinished(dram')
  <2>1. CASE DramCycle
    BY <1>1, <2>1, DramStep DEF Inv
  <2>2. CASE dram' = dram
    BY <1>1, <2>2, InvFacts DEF ChanInv, OrderInv, Ahead
  <2>3. dram' = dram \/ DramCycle
    BY <1>1 DEF Next, vars, CacheCycle, cache_cycle, PopResponse
  <2> QED BY <2>1, <2>2, <2>3
<1>2. Inv /\ [Next]_vars => [\A q, r \in Request :
        <<q, r>> \in order /\ SameRow(q, r) /\ q \in Unfinished(dram') => r \in Unfinished(dram')]_vars
  BY <1>1
<1> QED BY <1>2, Invariance, PTL DEF Spec, RowOrder

-----------------------------------------------------------------------------
(* Where a request is *)

\* The queues of the channel
CName == {"latency", "mrqq", "m_queue", "returnq"}

LEMMA PositionFacts ==
  ASSUME NEW q, NEW r
  PROVE  /\ \A i \in Positions(q, r) : r \in ToSet(q)
         /\ r \in ToSet(q) => \E i : i \in Positions(q, r)
         /\ NoDup(q) => \A i, j \in Positions(q, r) : i = j
BY DEF Positions, ToSet, NoDup

LEMMA SlotFacts ==
  ASSUME NEW r
  PROVE  \A x : x \in Slots(r) <=>
           \/ \E n \in DOMAIN Queues(Attr[r].sp) :
                 \E i \in Positions(Queues(Attr[r].sp)[n], r) : x = <<n, NoReq, i>>
           \/ \E q \in DOMAIN sub[Attr[r].sp].waiting :
                 \E i \in Positions(sub[Attr[r].sp].waiting[q], r) : x = <<"waiting", q, i>>
           \/ InFlight(dram, r) /\ x = <<"in_flight", NoReq, 1>>
<1> DEFINE p == Attr[r].sp
           A == UNION {{n} \X {NoReq} \X Positions(Queues(p)[n], r) : n \in DOMAIN Queues(p)}
           B == UNION {{"waiting"} \X {q} \X Positions(sub[p].waiting[q], r) : q \in DOMAIN sub[p].waiting}
<1> TAKE x
<1>1. x \in Slots(r) <=> x \in A \/ x \in B \/ (InFlight(dram, r) /\ x = <<"in_flight", NoReq, 1>>)
  BY DEF Slots
<1>2. x \in A <=> \E n \in DOMAIN Queues(p) : \E i \in Positions(Queues(p)[n], r) : x = <<n, NoReq, i>>
  OBVIOUS
<1>3. x \in B <=> \E q \in DOMAIN sub[p].waiting : \E i \in Positions(sub[p].waiting[q], r) : x = <<"waiting", q, i>>
  OBVIOUS
<1> QED BY <1>1, <1>2, <1>3

LEMMA QueueFacts ==
  ASSUME NEW p
  PROVE  /\ DOMAIN Queues(p) = QName \cup CName
         /\ \A n \in QName : Queues(p)[n] = sub[p][n]
         /\ Queues(p)["latency"] = latency /\ Queues(p)["mrqq"] = dram.mrqq
         /\ Queues(p)["m_queue"] = dram.m_queue /\ Queues(p)["returnq"] = dram.returnq
BY DEF Queues, QName, CName

\* No request is in two queues, or in a queue and elsewhere.
LEMMA PlaceFacts ==
  ASSUME Inv, NEW p \in SubPartition, NEW s, s = sub[p], NEW r \in Of(p)
  PROVE  /\ \A n \in QName \cup CName : NoDup(Queues(p)[n])
         /\ \A m, n \in QName \cup CName :
              r \in ToSet(Queues(p)[m]) /\ r \in ToSet(Queues(p)[n]) => m = n
         /\ \A n \in QName \cup CName :
              r \in ToSet(Queues(p)[n]) => r \notin Waiting(s) /\ ~InFlight(dram, r)
         /\ r \in Waiting(s) => ~InFlight(dram, r)
<1>1. PICK K : K = InDram(dram) \cup ToSet(latency)
  OBVIOUS
<1>2. SubUnique(s) /\ SubTracked(p, s, K \cap Of(p))
  BY <1>1, InvFacts DEF SubInv
<1>3. /\ ChanUnique(dram) /\ dram \in DramState /\ NoDup(latency) /\ ToSet(latency) \cap InDram(dram) = {}
  BY InvFacts DEF ChanInv
<1>4. r \in Request /\ r # NoReq
  BY DramAssumption DEF Of
<1>5. InFlight(dram, r) <=> r \in Flight(dram)
  BY <1>3, <1>4, Contents DEF InFlight
<1>6. r \in InDram(dram) <=> \/ r \in ToSet(dram.mrqq) \/ r \in ToSet(dram.m_queue)
                             \/ r \in Flight(dram) \/ r \in ToSet(dram.returnq)
  BY <1>3, Contents
<1>7. r \in K => r \notin Held(s)
  BY <1>2 DEF SubTracked
<1>8. (\E n \in QName : r \in ToSet(s[n])) => r \in Held(s) /\ r \notin Waiting(s)
  BY <1>2 DEF SubUnique, Held, Queued
<1>9. r \in Waiting(s) => r \in Held(s)
  BY DEF Held
<1>10. \A n \in CName : r \in ToSet(Queues(p)[n]) => r \in K /\ r \notin Flight(dram)
  <2>1. r \in ToSet(latency) => r \in K /\ r \notin Flight(dram)
    BY <1>1, <1>3, <1>6
  <2>2. r \in ToSet(dram.mrqq) => r \in K /\ r \notin Flight(dram)
    BY <1>1, <1>3, <1>6 DEF ChanUnique
  <2>3. r \in ToSet(dram.m_queue) => r \in K /\ r \notin Flight(dram)
    BY <1>1, <1>3, <1>6 DEF ChanUnique
  <2>4. r \in ToSet(dram.returnq) => r \in K /\ r \notin Flight(dram)
    BY <1>1, <1>3, <1>6, Contents DEF ChanUnique
  <2> QED BY <2>1, <2>2, <2>3, <2>4, QueueFacts DEF CName
<1>11. r \in Flight(dram) => r \in K
  BY <1>1, <1>6
<1>12. \A m, n \in CName : r \in ToSet(Queues(p)[m]) /\ r \in ToSet(Queues(p)[n]) => m = n
  <2>1. r \in ToSet(latency) => r \notin InDram(dram)
    BY <1>3
  <2>2. r \in ToSet(dram.mrqq) => r \notin ToSet(dram.m_queue)
    BY <1>3 DEF ChanUnique
  <2>3. r \in ToSet(dram.returnq) => r \notin ToSet(dram.mrqq) /\ r \notin ToSet(dram.m_queue)
    BY <1>3, Contents DEF ChanUnique
  <2> QED BY <1>6, <2>1, <2>2, <2>3, QueueFacts DEF CName
<1>13. \A n \in QName : Queues(p)[n] = s[n]
  BY QueueFacts
<1>14. \A n \in QName \cup CName : NoDup(Queues(p)[n])
  <2>1. \A n \in QName : NoDup(s[n])
    BY <1>2 DEF SubUnique
  <2>2. \A n \in CName : NoDup(Queues(p)[n])
    BY <1>3, QueueFacts DEF ChanUnique, CName
  <2> QED BY <1>13, <2>1, <2>2
<1>15. \A m, n \in QName : r \in ToSet(s[m]) /\ r \in ToSet(s[n]) => m = n
  BY <1>2 DEF SubUnique
<1>16. \A m, n \in QName \cup CName : r \in ToSet(Queues(p)[m]) /\ r \in ToSet(Queues(p)[n]) => m = n
  BY <1>7, <1>8, <1>10, <1>12, <1>13, <1>15
<1>17. \A n \in QName \cup CName : r \in ToSet(Queues(p)[n]) => r \notin Waiting(s) /\ ~InFlight(dram, r)
  BY <1>5, <1>7, <1>8, <1>9, <1>10, <1>11, <1>13
<1>18. r \in Waiting(s) => ~InFlight(dram, r)
  BY <1>5, <1>7, <1>9, <1>11
<1> QED BY <1>14, <1>16, <1>17, <1>18

\* TrackerExact: m_request_tracker holds just the requests that are somewhere in the
\* partition, none of them in two places, and no response is one that top() drops.
THEOREM TrackerCorrect == Spec => []TrackerExact
<1>1. ASSUME Inv, NEW r \in CoreRequest
      PROVE  /\ r \in sub[Attr[r].sp].tracker <=> Slots(r) # {}
             /\ \A x, y \in Slots(r) : x = y
  <2>1. PICK p : p = Attr[r].sp
    OBVIOUS
  <2>2. p \in SubPartition /\ r \in Of(p) /\ r \in Request
    BY <2>1, PartitionAssumption DEF Of, CoreRequest
  <2>3. PICK s : s = sub[p]
    OBVIOUS
  <2>4. PICK N : N = QName \cup CName
    OBVIOUS
  <2>5. PICK Q : Q = Queues(p)
    OBVIOUS
  <2>6. \A x : x \in Slots(r) <=>
          \/ \E n \in N : \E i \in Positions(Q[n], r) : x = <<n, NoReq, i>>
          \/ \E q \in DOMAIN s.waiting : \E i \in Positions(s.waiting[q], r) : x = <<"waiting", q, i>>
          \/ InFlight(dram, r) /\ x = <<"in_flight", NoReq, 1>>
    BY <2>1, <2>3, <2>4, <2>5, SlotFacts, QueueFacts
  <2>7. /\ \A n \in N : NoDup(Q[n])
        /\ \A m, n \in N : r \in ToSet(Q[m]) /\ r \in ToSet(Q[n]) => m = n
        /\ \A n \in N : r \in ToSet(Q[n]) => r \notin Waiting(s) /\ ~InFlight(dram, r)
        /\ r \in Waiting(s) => ~InFlight(dram, r)
    BY <1>1, <2>2, <2>3, <2>4, <2>5, PlaceFacts
  <2>8. /\ \A q \in DOMAIN s.waiting : NoDup(s.waiting[q])
        /\ \A q, u \in DOMAIN s.waiting : r \in ToSet(s.waiting[q]) /\ r \in ToSet(s.waiting[u]) => q = u
    BY <1>1, <2>2, <2>3, InvFacts DEF SubInv, SubUnique
  <2>9. r \in Waiting(s) <=> \E q \in DOMAIN s.waiting : r \in ToSet(s.waiting[q])
    BY DEF Waiting
  <2>10. \A x, y \in Slots(r) : x = y
    <3> SUFFICES ASSUME NEW x \in Slots(r), NEW y \in Slots(r) PROVE x = y
      OBVIOUS
    <3>1. \A n \in N : \A i \in Positions(Q[n], r) : r \in ToSet(Q[n])
      BY PositionFacts
    <3>2. \A q \in DOMAIN s.waiting : \A i \in Positions(s.waiting[q], r) : r \in Waiting(s) /\ r \in ToSet(s.waiting[q])
      BY <2>9, PositionFacts
    <3>3. CASE \E n \in N : r \in ToSet(Q[n])
      <4>1. PICK n \in N : r \in ToSet(Q[n])
        BY <3>3
      <4>2. r \notin Waiting(s) /\ ~InFlight(dram, r) /\ \A m \in N : r \in ToSet(Q[m]) => m = n
        BY <2>7, <4>1
      <4>3. PICK i : i \in Positions(Q[n], r) /\ x = <<n, NoReq, i>>
        BY <2>6, <3>1, <3>2, <4>2
      <4>4. PICK j : j \in Positions(Q[n], r) /\ y = <<n, NoReq, j>>
        BY <2>6, <3>1, <3>2, <4>2
      <4>5. i = j
        BY <2>7, <4>3, <4>4, PositionFacts
      <4> QED BY <4>3, <4>4, <4>5
    <3>4. CASE (\A n \in N : r \notin ToSet(Q[n])) /\ r \in Waiting(s)
      <4>1. PICK q \in DOMAIN s.waiting : r \in ToSet(s.waiting[q])
        BY <2>9, <3>4
      <4>2. ~InFlight(dram, r) /\ \A u \in DOMAIN s.waiting : r \in ToSet(s.waiting[u]) => u = q
        BY <2>7, <2>8, <3>4, <4>1
      <4>3. PICK i : i \in Positions(s.waiting[q], r) /\ x = <<"waiting", q, i>>
        BY <2>6, <3>1, <3>2, <3>4, <4>2
      <4>4. PICK j : j \in Positions(s.waiting[q], r) /\ y = <<"waiting", q, j>>
        BY <2>6, <3>1, <3>2, <3>4, <4>2
      <4>5. i = j
        BY <2>8, <4>3, <4>4, PositionFacts
      <4> QED BY <4>3, <4>4, <4>5
    <3>5. CASE (\A n \in N : r \notin ToSet(Q[n])) /\ r \notin Waiting(s)
      <4>1. x = <<"in_flight", NoReq, 1>>
        BY <2>6, <3>1, <3>2, <3>5
      <4>2. y = <<"in_flight", NoReq, 1>>
        BY <2>6, <3>1, <3>2, <3>5
      <4> QED BY <4>1, <4>2
    <3> QED BY <3>3, <3>4, <3>5
  <2>11. Slots(r) # {} <=> (\E n \in N : r \in ToSet(Q[n])) \/ r \in Waiting(s) \/ InFlight(dram, r)
    <3>1. ASSUME Slots(r) # {} PROVE (\E n \in N : r \in ToSet(Q[n])) \/ r \in Waiting(s) \/ InFlight(dram, r)
      BY <2>6, <2>9, <3>1, PositionFacts
    <3>2. ASSUME NEW n \in N, r \in ToSet(Q[n]) PROVE Slots(r) # {}
      BY <2>6, <3>2, PositionFacts
    <3>3. ASSUME r \in Waiting(s) PROVE Slots(r) # {}
      BY <2>6, <2>9, <3>3, PositionFacts
    <3>4. ASSUME InFlight(dram, r) PROVE Slots(r) # {}
      BY <2>6, <3>4
    <3> QED BY <3>1, <3>2, <3>3, <3>4
  <2>12. r \in s.tracker <=> r \in Held(s) \/ r \in InDram(dram) \cup ToSet(latency)
    BY <1>1, <2>2, <2>3, InvFacts DEF SubInv, SubTracked
  <2>13. r \in Held(s) <=> (\E n \in QName : r \in ToSet(Q[n])) \/ r \in Waiting(s)
    BY <2>3, <2>5, QueueFacts DEF Held, Queued
  <2>14. r \in InDram(dram) \cup ToSet(latency) <=> (\E n \in CName : r \in ToSet(Q[n])) \/ InFlight(dram, r)
    <3>1. r \in InDram(dram) <=> \/ r \in ToSet(dram.mrqq) \/ r \in ToSet(dram.m_queue)
                                 \/ r \in Flight(dram) \/ r \in ToSet(dram.returnq)
      BY <1>1, InvFacts, Contents
    <3>2. InFlight(dram, r) <=> r \in Flight(dram)
      BY <1>1, <2>2, InvFacts, Contents, DramAssumption DEF InFlight
    <3>3. (\E n \in CName : r \in ToSet(Q[n])) <=> \/ r \in ToSet(latency) \/ r \in ToSet(dram.mrqq)
                                                   \/ r \in ToSet(dram.m_queue) \/ r \in ToSet(dram.returnq)
      BY <2>5, QueueFacts DEF CName
    <3> QED BY <3>1, <3>2, <3>3
  <2> QED BY <2>1, <2>3, <2>4, <2>10, <2>11, <2>12, <2>13, <2>14
<1>2. ASSUME Inv, NEW p \in SubPartition, NEW r \in ToSet(sub[p].L2_icnt)
      PROVE  ~WriteBack(r)
  BY <1>2, InvFacts DEF SubInv, SubClean, Clean
<1>3. Inv => TrackerExact
  BY <1>1, <1>2 DEF TrackerExact
<1> QED BY <1>3, Invariance, PTL
=============================================================================
