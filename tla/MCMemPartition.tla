--------------------------- MODULE MCMemPartition ---------------------------
(* Instances of MemPartition for TLC: two requests of the cores at a time,  *)
(* and those the L2 makes for them.                                         *)
EXTENDS MemPartition

Mf(sp, kind, tex, block, bank, row, bursts) ==
  [sp |-> sp, kind |-> kind, tex |-> tex, block |-> block, bank |-> bank, row |-> row,
   bursts |-> bursts]

\* r1 and w1 share a block, w2 is in another row of their bank and of the other
\* sub-partition, t1 has its own bank.  a1 and a2 are the write allocations,
\* v1 the victim r1 may evict.
MCRequest == {"r1", "w1", "a1", "v1", "w2", "a2", "t1"}
MCAttr == [r \in MCRequest |->
  CASE r = "r1" -> Mf(0, "READ", FALSE, 1, 0, 0, 2)
    [] r = "w1" -> Mf(0, "WRITE", FALSE, 1, 0, 0, 1)
    [] r = "a1" -> Mf(0, "L2_WR_ALLOC_R", FALSE, 1, 0, 0, 1)
    [] r = "v1" -> Mf(0, "L2_WRBK", FALSE, 2, 0, 1, 1)
    [] r = "w2" -> Mf(1, "L1_WRBK", FALSE, 3, 0, 1, 1)
    [] r = "a2" -> Mf(1, "L2_WR_ALLOC_R", FALSE, 3, 0, 1, 1)
    [] r = "t1" -> Mf(1, "READ", TRUE, 4, 1, 0, 1)]
MCAllocOf  == [r \in {"w1", "w2"} |-> IF r = "w1" THEN "a1" ELSE "a2"]
MCVictimOf == [r \in {"r1"} |-> "v1"]

Mode(for, write, scheduler, traffic) ==
  [for |-> for, write |-> write, scheduler |-> scheduler, traffic |-> traffic]
MCModes == { Mode("all", "back", "FRFCFS", {"r1", "w1"}),
             Mode("all", "back", "FRFCFS", {"w1", "w2"}),
             Mode("all", "through", "FRFCFS", {"w2", "t1"}),
             Mode("texture", "back", "FIFO", {"r1", "w2"}) }
=============================================================================
