------------------------------ MODULE TexCache ------------------------------
(***************************************************************************)
(* The texture cache (gpu-cache.cc, gpu-cache.h: tex_cache), a latency     *)
(* hiding design: an access updates the tags at once, as if its data were  *)
(* there, and then waits in the fragment FIFO behind every earlier access. *)
(* Misses also take an entry of the reorder buffer, which memory fills out *)
(* of order; data enters the cache only when the access reaches the head.  *)
(*                                                                         *)
(* The load/store unit offers accesses and takes answers, memory answers   *)
(* in any order.  The replacement policy is any choice of a victim.        *)
(***************************************************************************)
EXTENDS Integers, Sequences, SequencesExt, FiniteSets

CONSTANTS
  Fetch, Block, Line,
  SetOf,           \* the lines a block may occupy
  FragmentSize, RequestSize, RobSize, ResultSize, \* capacities of the four FIFOs
  NoBlock, NoFetch

ASSUME TexAssumption ==
  /\ \A n \in {FragmentSize, RequestSize, RobSize, ResultSize} : n \in Nat \ {0}
  /\ \A b \in Block : SetOf[b] \subseteq Line /\ SetOf[b] # {}
  /\ NoBlock \notin Block /\ NoFetch \notin Fetch /\ Line # {}

VARIABLES
  addr,            \* the block each request in use is for
  tags,            \* m_tags: the block each line is allocated to
  m_cache,         \* the block whose data each line holds
  m_fragment_fifo, m_request_fifo, m_result_fifo,
  m_rob,           \* the ring: entries, m_head and m_tail, and how many are in use
  rob_index,       \* m_extra_mf_fields: the ring entry of a miss; never erased
  net,             \* requests memory has yet to answer
  accepted         \* history: accesses accepted and not taken back, in order

vars == <<addr, tags, m_cache, m_fragment_fifo, m_request_fifo, m_result_fifo,
          m_rob, rob_index, net, accepted>>

RobIndex == 0 .. RobSize - 1
\* A fragment is [req, line, miss]; a ring entry [req, line, block, ready].
Fragment == [req : Fetch, line : Line, miss : BOOLEAN]
RobEntry == [req : Fetch \cup {NoFetch}, line : Line, block : Block \cup {NoBlock}, ready : BOOLEAN]

Init ==
  /\ addr = [f \in Fetch |-> NoBlock]
  /\ tags = [l \in Line |-> NoBlock]
  /\ m_cache = [l \in Line |-> NoBlock]
  /\ m_fragment_fifo = <<>> /\ m_request_fifo = <<>> /\ m_result_fifo = <<>>
  /\ m_rob = [data |-> [i \in RobIndex |-> [req |-> NoFetch, line |-> CHOOSE l \in Line : TRUE,
                                             block |-> NoBlock, ready |-> FALSE]],
              head |-> 0, tail |-> 0, num |-> 0]
  /\ rob_index = [f \in Fetch |-> 0]
  /\ net = {}
  /\ accepted = <<>>

(* The definitions named X_... are faulty variants of X, each paired with   *)
(* the property it breaks in PROJECT.json.                                  *)
-----------------------------------------------------------------------------
(* access *)

Accepts_IgnoresRob == /\ Len(m_fragment_fifo) < FragmentSize
                      /\ Len(m_request_fifo) < RequestSize

Accepts == /\ Len(m_fragment_fifo) < FragmentSize
           /\ Len(m_request_fifo) < RequestSize
           /\ m_rob.num < RobSize

\* tag_array::probe: the line of a hit, else an invalid line, else any victim
HitLine(b)   == {l \in SetOf[b] : tags[l] = b}
Invalid(b)   == {l \in SetOf[b] : tags[l] = NoBlock}
Victims(b)   == IF Invalid(b) # {} THEN Invalid(b) ELSE SetOf[b]

\* fifo::push of the reorder buffer, which returns the entry's index
RobPush(e) == [m_rob EXCEPT !.data[m_rob.head] = e, !.head = (@ + 1) % RobSize, !.num = @ + 1]

\* The value will be in the cache by the time the access reaches the head.
AccessHit(f, b) == \E l \in HitLine(b) :
  /\ m_fragment_fifo' = Append(m_fragment_fifo, [req |-> f, line |-> l, miss |-> FALSE])
  /\ UNCHANGED <<tags, m_rob, rob_index, m_request_fifo>>

\* The line is marked valid at once and the request is sent.
AccessMiss(f, b) == \E l \in Victims(b) :
  /\ HitLine(b) = {}
  /\ tags' = [tags EXCEPT ![l] = b]
  /\ m_fragment_fifo' = Append(m_fragment_fifo, [req |-> f, line |-> l, miss |-> TRUE])
  /\ m_rob' = RobPush([req |-> f, line |-> l, block |-> b, ready |-> FALSE])
  /\ rob_index' = [rob_index EXCEPT ![f] = m_rob.head]
  /\ m_request_fifo' = Append(m_request_fifo, f)

Access(f, b) ==
  /\ Accepts
  /\ addr[f] = NoBlock
  /\ addr' = [addr EXCEPT ![f] = b]
  /\ accepted' = Append(accepted, f)
  /\ AccessHit(f, b) \/ AccessMiss(f, b)
  /\ UNCHANGED <<m_cache, m_result_fifo, net>>
-----------------------------------------------------------------------------
(* cycle *)

\* The next request leaves if the memory port has room.
SendRequest(room) ==
  IF room /\ m_request_fifo # <<>>
    THEN /\ net' = net \cup {Head(m_request_fifo)}
         /\ m_request_fifo' = Tail(m_request_fifo)
    ELSE UNCHANGED <<net, m_request_fifo>>

\* The oldest access is answered: a miss once its data is back, which is
\* then placed in the cache, any other at once.
RobHead == m_rob.data[m_rob.tail]
HeadReady_Always == RobHead.ready
HeadReady == Head(m_fragment_fifo).miss => RobHead.ready

\* A ready access overtakes the ones that wait.
ReadFragment_AnyReady ==
  LET Ready == {i \in DOMAIN m_fragment_fifo :
                  m_fragment_fifo[i].miss => m_rob.data[rob_index[m_fragment_fifo[i].req]].ready}
  IN  IF Len(m_result_fifo) >= ResultSize \/ Ready = {}
        THEN UNCHANGED <<m_fragment_fifo, m_result_fifo, m_rob, m_cache>>
      ELSE LET i == CHOOSE i \in Ready : \A k \in Ready : i <= k
               e == m_fragment_fifo[i]
           IN  /\ m_result_fifo' = Append(m_result_fifo, e.req)
               /\ m_fragment_fifo' = RemoveAt(m_fragment_fifo, i)
               /\ IF e.miss
                    THEN /\ m_cache' = [m_cache EXCEPT ![e.line] = addr[e.req]]
                         /\ m_rob' = [m_rob EXCEPT !.tail = (@ + 1) % RobSize, !.num = @ - 1]
                    ELSE UNCHANGED <<m_cache, m_rob>>

ReadFragment ==
  IF m_fragment_fifo = <<>> \/ Len(m_result_fifo) >= ResultSize \/ ~HeadReady
    THEN UNCHANGED <<m_fragment_fifo, m_result_fifo, m_rob, m_cache>>
  ELSE /\ m_result_fifo' = Append(m_result_fifo, Head(m_fragment_fifo).req)
       /\ m_fragment_fifo' = Tail(m_fragment_fifo)
       /\ IF Head(m_fragment_fifo).miss
            THEN /\ m_cache' = [m_cache EXCEPT ![RobHead.line] = RobHead.block]
                 /\ m_rob' = [m_rob EXCEPT !.tail = (@ + 1) % RobSize, !.num = @ - 1]
            ELSE UNCHANGED <<m_cache, m_rob>>

Cycle(room) ==
  /\ SendRequest(room)
  /\ ReadFragment
  /\ UNCHANGED <<addr, tags, rob_index, accepted>>
-----------------------------------------------------------------------------
\* Data is placed in the cache as it comes.
Fill_Places(f) ==
  /\ f \in net
  /\ net' = net \ {f}
  /\ m_rob' = [m_rob EXCEPT !.data[rob_index[f]].ready = TRUE]
  /\ m_cache' = [m_cache EXCEPT ![m_rob.data[rob_index[f]].line] = addr[f]]
  /\ UNCHANGED <<addr, tags, m_fragment_fifo, m_request_fifo, m_result_fifo, rob_index, accepted>>

\* Memory answers: the entry of the miss is ready.
Fill(f) ==
  /\ f \in net
  /\ net' = net \ {f}
  /\ m_rob' = [m_rob EXCEPT !.data[rob_index[f]].ready = TRUE]
  /\ UNCHANGED <<addr, tags, m_cache, m_fragment_fifo, m_request_fifo, m_result_fifo,
                 rob_index, accepted>>

\* next_access: the load/store unit takes an answer and frees the request.
NextAccess ==
  /\ m_result_fifo # <<>>
  /\ m_result_fifo' = Tail(m_result_fifo)
  /\ addr' = [addr EXCEPT ![Head(m_result_fifo)] = NoBlock]
  /\ accepted' = RemoveFirst(accepted, Head(m_result_fifo))
  /\ UNCHANGED <<tags, m_cache, m_fragment_fifo, m_request_fifo, m_rob, rob_index, net>>

Next == \/ \E f \in Fetch, b \in Block : Access(f, b)
        \/ \E room \in BOOLEAN : Cycle(room)
        \/ \E f \in Fetch : Fill(f)
        \/ NextAccess

Spec == Init /\ [][Next]_vars

\* The core cycles, the port has room again and again, memory answers every
\* request, and the load/store unit takes the answers.
Fairness == /\ SF_vars(Cycle(TRUE)) /\ WF_vars(\E room \in BOOLEAN : Cycle(room))
            /\ WF_vars(NextAccess)
            /\ \A f \in Fetch : WF_vars(Fill(f))

FairSpec == Spec /\ Fairness
-----------------------------------------------------------------------------
(* Properties *)

TypeOK ==
  /\ addr \in [Fetch -> Block \cup {NoBlock}]
  /\ tags \in [Line -> Block \cup {NoBlock}]
  /\ m_cache \in [Line -> Block \cup {NoBlock}]
  /\ m_fragment_fifo \in Seq(Fragment)
  /\ m_request_fifo \in Seq(Fetch) /\ m_result_fifo \in Seq(Fetch) /\ accepted \in Seq(Fetch)
  /\ m_rob \in [data : [RobIndex -> RobEntry], head : RobIndex, tail : RobIndex, num : 0 .. RobSize]
  /\ rob_index \in [Fetch -> RobIndex]
  /\ net \subseteq Fetch

(* An access that hit in the tags finds its own block in the cache when it  *)
(* reaches the head of the fragment FIFO, although data that was there when *)
(* it hit may have been replaced, and data that was not may have come.      *)
HitFindsBlock ==
  m_fragment_fifo # <<>> /\ ~Head(m_fragment_fifo).miss
    => m_cache[Head(m_fragment_fifo).line] = addr[Head(m_fragment_fifo).req]

(* The reorder buffer keeps step with the fragment FIFO and with memory, as *)
(* the assertions in tex_cache::cycle and tex_cache::fill say: a miss that  *)
(* reaches the head finds its own entry at the tail of the ring, and the    *)
(* index saved with a request still names its entry, not ready yet, when    *)
(* memory answers.                                                          *)
RobInStep ==
  /\ m_fragment_fifo # <<>> /\ Head(m_fragment_fifo).miss =>
       /\ RobHead.req = Head(m_fragment_fifo).req
       /\ RobHead.line = Head(m_fragment_fifo).line
       /\ RobHead.block = addr[RobHead.req]
       /\ m_rob.num > 0
  /\ \A f \in net \cup ToSet(m_request_fifo) :
       LET e == m_rob.data[rob_index[f]]
       IN  e.req = f /\ e.block = addr[f] /\ ~e.ready

(* Answers are taken in the order of the accesses, whatever the order in    *)
(* which memory answers.                                                    *)
InOrder == [][NextAccess => Head(m_result_fifo) = Head(accepted)]_vars

(* Every access that is accepted is answered.                               *)
TexAnswered == \A f \in Fetch : addr[f] # NoBlock ~> addr[f] = NoBlock
=============================================================================
