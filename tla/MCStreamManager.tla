-------------------------- MODULE MCStreamManager --------------------------
(* Instances of StreamManager for TLC: one or two host threads, up to two   *)
(* streams, a few operations.                                               *)
EXTENDS StreamManager

HostStreamSymmetry == Permutations(Host) \cup Permutations(Stream)
=============================================================================
