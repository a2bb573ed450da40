---------------------------- MODULE MCBarrierSet ----------------------------
(* Instances of BarrierSet for TLC: two CTA contexts and programs of three   *)
(* warps with two barriers.                                                  *)
EXTENDS BarrierSet

Sync(b)        == [bar_type |-> "SYNC", bar_id |-> b, count |-> 0]
Red(b)         == [bar_type |-> "RED", bar_id |-> b, count |-> 0]
SyncN(b, n)    == [bar_type |-> "SYNC", bar_id |-> b, count |-> n]
Arrive(b, n)   == [bar_type |-> "ARRIVE", bar_id |-> b, count |-> n]

\* One warp exits before the last barrier
EarlyExit == << <<Sync(0), Sync(1), Sync(0)>>, <<Sync(0), Sync(1), Sync(0)>>, <<Sync(0)>> >>
\* Reductions, one after the other on the same barrier
Reduce == << <<Red(0), Red(0), Sync(1)>>, <<Red(0), Red(0), Sync(1)>> >>
\* Two warps synchronise apart from the third
Group == << <<SyncN(0, 2), SyncN(0, 2), Sync(1)>>, <<SyncN(0, 2), SyncN(0, 2), Sync(1)>>, <<Sync(1)>> >>
\* A producer announces its data and exits; the consumer waits for it.
Produce == << <<Arrive(0, 2)>>, <<SyncN(0, 2), Sync(1)>>, <<Sync(1)>> >>
\* A producer goes on to a barrier of all warps while it is not consumed.
ProduceOn == << <<Arrive(0, 2), Sync(1)>>, <<SyncN(0, 2), Sync(1)>>, <<Sync(1)>> >>

PassingPrograms == {EarlyExit, Reduce, Group, Produce}
ArrivePrograms == {ProduceOn}
=============================================================================
