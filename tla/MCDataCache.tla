---------------------------- MODULE MCDataCache ----------------------------
(* Instances of DataCache for TLC: two or three blocks that compete for the *)
(* lines of one set.                                                        *)
EXTENDS DataCache, TLC

OneSet == [x \in Block |-> 0]
FetchSymmetry == Permutations(Fetch)
=============================================================================
