---------------------------- MODULE MCCoalescing ----------------------------
(* Instances of Coalescing for TLC: a warp of four threads in two parts and  *)
(* addresses that meet in a chunk, a half, a segment or not at all.          *)
EXTENDS Coalescing

\* Every instruction of a kind, for every active mask and every choice of
\* addresses from A
Family(space, atomic, size, lines, A) ==
  UNION {{[space |-> space, isatomic |-> atomic, data_size |-> size, on_line |-> line,
           active |-> mask, memreqaddr |-> addrs] :
             line \in lines,
             addrs \in [mask -> [1 .. num_accesses([space |-> space, data_size |-> size]) -> A]]} :
           mask \in SUBSET Lane}

Warp4 == Family("global", FALSE, 4, BOOLEAN, {0, 4, 32, 96, 128})
           \cup Family("global", FALSE, 2, {FALSE}, {0, 32, 64, 96})
           \cup Family("global", FALSE, 1, {FALSE}, {0, 1, 32})
           \cup Family("global", TRUE, 4, {FALSE}, {0, 4, 64, 128})
           \cup Family("local", FALSE, 8, {FALSE}, {36, 128})
           \cup Family("const", FALSE, 4, {FALSE}, {0, 4, 64})
           \cup Family("shared", FALSE, 4, {FALSE}, {0, 4, 8, 16})
=============================================================================
