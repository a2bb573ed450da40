----------------------------- MODULE MCTexCache -----------------------------
(* Instances of TexCache for TLC: three blocks that share a two-way set.    *)
EXTENDS TexCache

CONSTANTS f1, f2, f3, b1, b2, b3, l1, l2

MCSetOf == [b \in Block |-> {l1, l2}]
=============================================================================
