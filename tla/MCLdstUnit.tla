----------------------------- MODULE MCLdstUnit -----------------------------
(* Instances of LdstUnit for TLC: two warps with two instructions each.     *)
EXTENDS LdstUnit, TLC

MemInsn(op, space, bypass, atomic, out, n) ==
  [op |-> op, space |-> space, bypass |-> bypass, atomic |-> atomic, out |-> out, n |-> n]

Ld(r, n)  == MemInsn("LOAD", "global", FALSE, FALSE, {r}, n)
LdCg(r)   == MemInsn("LOAD", "global", TRUE, FALSE, {r}, 2)
Atom(r)   == MemInsn("LOAD", "global", TRUE, TRUE, {r}, 2)
LdShared(r)   == MemInsn("LOAD", "shared", FALSE, FALSE, {r}, 0)
AtomShared(r) == MemInsn("LOAD", "shared", FALSE, TRUE, {r}, 0)
LdConst(r)    == MemInsn("LOAD", "const", FALSE, FALSE, {r}, 1)
LdTex(rs)     == MemInsn("LOAD", "tex", FALSE, FALSE, rs, 1)
St        == MemInsn("STORE", "global", FALSE, FALSE, {}, 2)
StCg      == MemInsn("STORE", "global", TRUE, FALSE, {}, 1)
StShared  == MemInsn("STORE", "shared", FALSE, FALSE, {}, 0)
Membar    == MemInsn("MEMBAR", "none", FALSE, FALSE, {}, 0)

CONSTANTS w1, w2

TwoWarps(s, t) == [w \in Warp |-> IF w = w1 THEN s ELSE t]

\* Two loads of a warp in flight in one cache; bypassing data that meets a
\* shared-memory load at the arbiter; atomics before a store, with a vector
\* load; stores before a memory barrier; a load with no active thread.
MCPrograms == {
  TwoWarps(<<Ld(1, 2), Ld(2, 1)>>, <<LdConst(1), StShared>>),
  TwoWarps(<<LdCg(1), Ld(1, 1)>>, <<LdShared(1), LdShared(2)>>),
  TwoWarps(<<Atom(1), StCg>>, <<LdTex({1, 2}), LdCg(1)>>),
  TwoWarps(<<St, Membar, Ld(1, 0)>>, <<AtomShared(1), LdShared(1)>>) }
=============================================================================
