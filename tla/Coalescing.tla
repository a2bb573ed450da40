------------------------------ MODULE Coalescing ------------------------------
(***************************************************************************)
(* The memory accesses one warp instruction makes: generate_mem_accesses   *)
(* of abstract_hardware_model.cc, with the switches that disable           *)
(* coalescing for every instruction or for the ones of one source line.    *)
(*                                                                         *)
(* The loops of the code are steps: Collect adds one thread to the         *)
(* transactions of its subwarp, Send turns one transaction into an access. *)
(* A warp that does not coalesce sends after every thread, one that does   *)
(* after every subwarp.  Addresses are below 2^32, where the code's        *)
(* 32-bit block addresses are exact.                                       *)
(***************************************************************************)
EXTENDS Integers, Sequences, FiniteSets, FiniteSetsExt

CONSTANTS
  WarpSize,   \* core_config::warp_size
  WarpParts,  \* core_config::mem_warp_parts
  LineSize,   \* line size of the constant and texture caches
  Banks,      \* core_config::num_shmem_bank
  LimitedBroadcast, \* core_config::shmem_limited_broadcast
  Insns       \* the instructions considered: see InsnType

Lane == 0 .. WarpSize - 1

\* Space, atomic or not, bytes per thread, whether its source line is the one
\* of -gpgpu_coal_line_num, the active mask, and the addresses of each active
\* thread (memreqaddr): several for wide accesses to local memory.
InsnType == [space : {"global", "local", "const", "shared"}, isatomic : BOOLEAN,
             data_size : {1, 2, 4, 8, 16}, on_line : BOOLEAN, active : SUBSET Lane,
             memreqaddr : UNION {[mask -> Seq(Nat)] : mask \in SUBSET Lane}]

num_accesses(i) == IF i.space = "local" /\ i.data_size >= 4 THEN i.data_size \div 4 ELSE 1

\* The bytes of one access of a thread
data_size_coales(i) == i.data_size \div num_accesses(i)

ASSUME WarpAssumption ==
  /\ WarpSize \in Nat \ {0} /\ WarpParts \in Nat \ {0}
  /\ WarpSize % 2 = 0 /\ WarpSize % WarpParts = 0
  /\ LineSize \in Nat \ {0} /\ Banks \in Nat \ {0} /\ LimitedBroadcast \in BOOLEAN

\* Thread addresses are aligned to the size of the access.
ASSUME InsnAssumption ==
  \A i \in Insns :
    /\ i.space \in {"global", "local", "const", "shared"}
    /\ i.isatomic \in BOOLEAN /\ (i.isatomic => i.space = "global")
    /\ i.on_line \in BOOLEAN
    /\ i.data_size \in {1, 2, 4, 8, 16}
    /\ i.active \subseteq Lane
    /\ \A t \in i.active, a \in 1 .. num_accesses(i) :
         /\ i.memreqaddr[t][a] \in Nat
         /\ i.memreqaddr[t][a] % data_size_coales(i) = 0

VARIABLES
  coal_disabled, coal_disabled_dyn, \* the switches of core_config
  inst,                 \* the instruction
  thread, access,       \* the loop counters
  subwarp_transactions, \* transactions not sent yet
  m_accessq,            \* warp_inst_t::m_accessq
  cycles,               \* warp_inst_t::cycles, set for shared memory
  pc                    \* "collect", "send" or "done"

config == <<coal_disabled, coal_disabled_dyn>>
vars == <<config, inst, thread, access, subwarp_transactions, m_accessq, cycles, pc>>

\* The switch for one source line overrides the other one.
coal_disabled_loc ==
  /\ inst.space \in {"global", "local"} /\ ~inst.isatomic
  /\ IF coal_disabled_dyn THEN inst.on_line ELSE coal_disabled

\* line_size_based_tag_func
tag(addr, size) == addr - (addr % size)

segment_size ==
  IF inst.space = "const" THEN LineSize
  ELSE CASE inst.data_size = 1 -> 32
         [] inst.data_size = 2 -> 64
         [] OTHER -> 128

warp_parts == IF inst.space = "const" THEN 1
              ELSE IF inst.isatomic THEN 2 ELSE WarpParts
subwarp_size == WarpSize \div warp_parts

Init ==
  /\ coal_disabled \in BOOLEAN /\ coal_disabled_dyn \in BOOLEAN
  /\ inst \in Insns
  /\ thread = 0 /\ access = 1
  /\ subwarp_transactions = {}
  /\ m_accessq = <<>>
  /\ cycles = 0
  /\ pc = "collect"

\* The bytes access a of thread t touches, within its 128 bytes
Bytes(t, a) == LET idx == inst.memreqaddr[t][a] % 128
               IN  idx .. idx + data_size_coales(inst) - 1

Block(t, a) == tag(inst.memreqaddr[t][a], segment_size)

Chunk(t, a) == (inst.memreqaddr[t][a] % 128) \div 32

\* The transactions of block b, in the order of the list an atomic keeps for
\* it; others have at most one.
ListOf(trs, b) == {tr \in trs : tr.block = b}

\* The transaction of that list that access a of thread t joins: an atomic
\* takes the first one none of whose bytes it would touch again.
Joins_IgnoresBytes(trs, t, a, tr) ==
  /\ tr \in ListOf(trs, Block(t, a))
  /\ \A other \in ListOf(trs, Block(t, a)) : tr.n <= other.n

Joins(trs, t, a, tr) ==
  LET fits(x) == inst.isatomic => x.bytes \cap Bytes(t, a) = {}
  IN  /\ tr \in ListOf(trs, Block(t, a)) /\ fits(tr)
      /\ \A other \in ListOf(trs, Block(t, a)) : other.n < tr.n => ~fits(other)

\* Access a of thread t is added to the transactions.
Added(trs, t, a) ==
  LET joined == {tr \in trs : Joins(trs, t, a, tr)}
      base == IF joined # {}
                THEN CHOOSE tr \in joined : TRUE
                ELSE [block |-> Block(t, a), n |-> Cardinality(ListOf(trs, Block(t, a))) + 1,
                      chunks |-> {}, active |-> {}, bytes |-> {}]
  IN  (trs \ joined) \cup
      {[base EXCEPT !.chunks = @ \cup {Chunk(t, a)}, !.active = @ \cup {t},
                    !.bytes = @ \cup Bytes(t, a)]}

SubwarpEnd(t) == (t + 1) % subwarp_size = 0

EndsHere_SubwarpOnly == SubwarpEnd(thread)
\* After this thread the transactions are sent.
EndsHere == coal_disabled_loc \/ SubwarpEnd(thread)

NextThread == /\ thread' = thread + 1
              /\ access' = 1
              /\ pc' = IF EndsHere THEN "send" ELSE "collect"

\* One iteration of the loop over the accesses of an active thread ...
Collect ==
  /\ pc = "collect" /\ inst.space # "shared"
  /\ thread \in inst.active
  /\ subwarp_transactions' = Added(subwarp_transactions, thread, access)
  /\ IF access < num_accesses(inst)
       THEN access' = access + 1 /\ UNCHANGED <<thread, pc>>
       ELSE NextThread
  /\ UNCHANGED <<config, inst, m_accessq, cycles>>

\* ... and of the loop over the threads for one that is not active.
Skip ==
  /\ pc = "collect" /\ inst.space # "shared"
  /\ inst.active # {} /\ thread \in Lane \ inst.active
  /\ NextThread
  /\ UNCHANGED <<config, inst, subwarp_transactions, m_accessq, cycles>>

-----------------------------------------------------------------------------
(* memory_coalescing_arch_13_reduce_and_send *)

\* The half of a part of size bytes at addr that holds all chunks, if one does
Half_LowerOnly(part, chunks) ==
  LET lower == {c \in chunks : 32 * c < (part.addr % 128) + (part.size \div 2)}
      upper == chunks \ lower
  IN  IF lower # {} /\ upper # {} THEN part
      ELSE [addr |-> part.addr, size |-> part.size \div 2]

Half(part, chunks) ==
  LET lower == {c \in chunks : 32 * c < (part.addr % 128) + (part.size \div 2)}
      upper == chunks \ lower
  IN  IF lower # {} /\ upper # {} THEN part
      ELSE [addr |-> IF lower # {} THEN part.addr ELSE part.addr + (part.size \div 2),
            size |-> part.size \div 2]

\* 128 bytes shrink to 64 and 64 to 32 when the rest is not used.
Reduced(b, chunks) ==
  LET whole == [addr |-> b, size |-> segment_size]
      once  == IF whole.size = 128 THEN Half(whole, chunks) ELSE whole
  IN  IF once.size = 64 THEN Half(once, chunks) ELSE once

\* Accesses to constant and texture lines all get the bytes of the whole warp;
\* without coalescing a transaction is sent in full size.
AccessOf(tr) ==
  LET part == IF inst.space = "const" \/ coal_disabled_loc
                THEN [addr |-> tr.block, size |-> segment_size]
                ELSE Reduced(tr.block, tr.chunks)
  IN  [addr |-> part.addr, size |-> part.size, active |-> tr.active,
       bytes |-> IF inst.space = "const"
                   THEN UNION {{x - Block(t, 1) : x \in inst.memreqaddr[t][1] ..
                                 inst.memreqaddr[t][1] + inst.data_size - 1} : t \in inst.active}
                   ELSE tr.bytes]

Before(x, y) == x.block < y.block \/ (x.block = y.block /\ x.n < y.n)

\* The transactions go out by address, those of a block in list order.
Send ==
  /\ pc = "send"
  /\ \E tr \in subwarp_transactions :
       /\ \A other \in subwarp_transactions \ {tr} : Before(tr, other)
       /\ m_accessq' = Append(m_accessq, AccessOf(tr))
       /\ subwarp_transactions' = subwarp_transactions \ {tr}
  /\ UNCHANGED <<config, inst, thread, access, cycles, pc>>

Sent ==
  /\ pc = "send" /\ subwarp_transactions = {}
  /\ pc' = "collect"
  /\ UNCHANGED <<config, inst, thread, access, subwarp_transactions, m_accessq, cycles>>

-----------------------------------------------------------------------------
(* Shared memory: bank conflicts *)

Word(t) == tag(inst.memreqaddr[t][1], 4)
Bank(t) == (Word(t) \div 4) % Banks

\* The threads of a part that use the same word as t
Users(part, t) == {u \in part : Word(u) = Word(t)}

\* The threads that read the word that can be broadcast: the lowest word that
\* several threads use, in the lowest bank that has one
Broadcast(part) ==
  LET several == {t \in part : Cardinality(Users(part, t)) > 1}
  IN  {t \in several : \A u \in several :
         Bank(t) < Bank(u) \/ (Bank(t) = Bank(u) /\ Word(t) <= Word(u))}

BankCost_OffByOne(part, limited, k) ==
  LET mine == {t \in part : Bank(t) = k}
  IN  IF limited THEN Cardinality(mine \ Broadcast(part))
                 ELSE Cardinality({Word(t) : t \in mine})

\* The accesses to bank k: its words, or with limited broadcast its threads,
\* where the ones of the broadcast word count once.
BankCost(part, limited, k) ==
  LET mine == {t \in part : Bank(t) = k}
      once == mine \cap Broadcast(part)
  IN  IF limited
        THEN Cardinality(mine \ once) + (IF once = {} THEN 0 ELSE 1)
        ELSE Cardinality({Word(t) : t \in mine})

PartCost(part, limited) == Max({BankCost(part, limited, k) : k \in 0 .. Banks - 1})

\* The parts of the warp are served one after the other.
SharedCycles(limited) ==
  MapThenSumSet(LAMBDA s : PartCost({t \in inst.active : t \div subwarp_size = s}, limited),
                0 .. WarpParts - 1)

AccessShared ==
  /\ pc = "collect" /\ inst.space = "shared"
  /\ inst.active # {}
  /\ cycles' = SharedCycles(LimitedBroadcast)
  /\ pc' = "done"
  /\ UNCHANGED <<config, inst, thread, access, subwarp_transactions, m_accessq>>

-----------------------------------------------------------------------------

\* Nothing is generated for an instruction that is predicated off; afterwards
\* m_mem_accesses_created keeps the accesses from being generated again.
Finish ==
  /\ pc = "collect"
  /\ inst.active = {} \/ thread = WarpSize
  /\ pc' = "done"
  /\ UNCHANGED <<config, inst, thread, access, subwarp_transactions, m_accessq, cycles>>

Next == Collect \/ Skip \/ Send \/ Sent \/ AccessShared \/ Finish

Spec == Init /\ [][Next]_vars

-----------------------------------------------------------------------------
(* Properties *)

Done == pc = "done"

\* Access a of thread t is served by entry i of the queue.
Serves(i, t, a) ==
  /\ t \in m_accessq[i].active
  /\ m_accessq[i].addr <= inst.memreqaddr[t][a]
  /\ inst.memreqaddr[t][a] + data_size_coales(inst) <= m_accessq[i].addr + m_accessq[i].size

\* Every access of every active thread is served exactly once: transactions
\* that are merged, split by conflicts and shrunk to 64 or 32 bytes still hold
\* all the bytes of their threads.
ServedOnce ==
  Done /\ inst.space # "shared" =>
    /\ \A t \in inst.active, a \in 1 .. num_accesses(inst) :
         Cardinality({i \in DOMAIN m_accessq : Serves(i, t, a)}) = 1
    /\ \A i \in DOMAIN m_accessq : m_accessq[i].active \subseteq inst.active

\* Without coalescing the number of accesses to global memory depends on the
\* active mask alone, never on the addresses ("the global read without
\* coalescing is stable", README.md).
StableCount ==
  Done /\ inst.space = "global" /\ coal_disabled_loc
    => Len(m_accessq) = Cardinality(inst.active)

\* Threads of an atomic that touch the same bytes are never in one access, and
\* those of a subwarp are served in thread order.
AtomicSerial ==
  Done /\ inst.isatomic =>
    \A t, u \in inst.active : t < u /\ inst.memreqaddr[t] = inst.memreqaddr[u] =>
      \A i, j \in DOMAIN m_accessq :
        t \in m_accessq[i].active /\ u \in m_accessq[j].active => i < j

\* The assertion on total_accesses, and limiting broadcasts to one word never
\* makes an access to shared memory faster.
SharedCost ==
  Done /\ inst.space = "shared" /\ inst.active # {} =>
    /\ cycles \in 1 .. WarpSize
    /\ SharedCycles(FALSE) <= SharedCycles(TRUE)
    /\ SharedCycles(TRUE) <= Cardinality(inst.active)
=============================================================================
