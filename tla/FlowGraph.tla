------------------------------ MODULE FlowGraph ------------------------------
(***************************************************************************)
(* What ptx_assemble computes for the hardware before a kernel runs: the   *)
(* basic blocks of every function, their post-dominators and, for every    *)
(* branch, the address at which threads that part there come together      *)
(* again (cuda-sim/ptx_ir.cc, cuda-sim/cuda-sim.cc).                       *)
(*                                                                         *)
(* A program is [code, start]: code[pc] is the instruction at an address,  *)
(* start the first address of every function, the kernel's first.          *)
(* Instructions have size 1 and labels are the targets of branches.  A     *)
(* block is named by its first address, the exit block by ReturnPC, the    *)
(* address the code gives it (RECONVERGE_RETURN_PC).  Breaks (ptxplus      *)
(* only) are left out.                                                     *)
(***************************************************************************)
EXTENDS Integers, FiniteSets, FiniteSetsExt

\* NO_BRANCH_DIVERGENCE and RECONVERGE_RETURN_PC
NoPC == -1
ReturnPC == -2

\* What ptx_instruction tells the analysis; target of a call or branch, else NoPC.
Opcode == {"alu", "bra", "call", "ret", "exit"}

\* The addresses of the function that holds pc.
Body(p, pc) ==
  LET first == Max({s \in p.start : s <= pc})
  IN  {q \in DOMAIN p.code : q >= first /\ \A s \in p.start : s > first => q < s}

(* The definitions named X_... are faulty variants of X, each paired with   *)
(* the property it breaks in PROJECT.json.                                  *)

EndsBlock(i) == i.op \in {"bra", "ret", "exit"} \/ (i.op = "call" /\ i.pred)

\* create_basic_blocks: the first address of each block of a function.
Leaders(p, body) ==
  {Min(body)} \cup {p.code[q].target : q \in {r \in body : p.code[r].op = "bra"}}
  \cup {q \in body : q - 1 \in body /\ EndsBlock(p.code[q - 1])}

Blocks(p, body) == Leaders(p, body) \cup {ReturnPC}

\* ptx_end of the block that starts at b.
LastOf(p, body, b) ==
  Max({q \in body : q >= b /\ \A l \in Leaders(p, body) : l > b => q < l})

\* connect_basic_blocks: the links between blocks.  A block that a predicated
\* return or exit ends also has the next block as a successor, if there is one.
SuccessorsOf(p, body, e) ==
  LET i == p.code[e]
  IN  CASE i.op \in {"ret", "exit"}  -> {ReturnPC} \cup (IF i.pred THEN {e + 1} \cap body ELSE {})
        [] i.op = "bra"              -> {i.target} \cup (IF i.pred THEN {e + 1} ELSE {})
        [] OTHER                     -> {e + 1}

Links(p, body) ==
  UNION {{b} \X SuccessorsOf(p, body, LastOf(p, body, b)) : b \in Leaders(p, body)}

\* find_postdominators, as pairs <<block, post-dominator>>: from all blocks for
\* every block but the exit, sweep until nothing changes.  A way that avoids a
\* block is no longer than there are blocks.
Postdominators_OneSweep(p, body) ==
  LET B == Blocks(p, body)
      links == Links(p, body)
      all == {e \in B \X B : e[1] # ReturnPC \/ e[2] = ReturnPC}
  IN  {e \in all : e[1] = e[2] \/ \A l \in links : l[1] = e[1] => <<l[2], e[2]>> \in all}

Postdominators(p, body) ==
  LET B == Blocks(p, body)
      links == Links(p, body)
      all == {e \in B \X B : e[1] # ReturnPC \/ e[2] = ReturnPC}
      pdom[n \in 0 .. Cardinality(B)] ==
        IF n = 0 THEN all
        ELSE LET last == pdom[n - 1]
             IN  {e \in all : e[1] = e[2] \/ \A l \in links : l[1] = e[1] => <<l[2], e[2]>> \in last}
  IN  pdom[Cardinality(B)]

\* find_ipostdominators: the strict post-dominators left once those of another
\* strict post-dominator are erased.  The code asserts that one is left.
Ipostdominators(pdom, b) ==
  LET strict == {e[2] : e \in {x \in pdom : x[1] = b}} \ {b}
  IN  {d \in strict : \A s \in strict \ {d} : <<s, d>> \notin pdom}

\* get_reconvergence_pairs and get_converge_point, as pre_decode records them in
\* reconvergence_pc of every instruction.
ConvergePoint(p, pc) ==
  IF p.code[pc].op # "bra" THEN NoPC
  ELSE LET body == Body(p, pc)
           pdom == Postdominators(p, body)
           b == Max({l \in Leaders(p, body) : l <= pc})
       IN  CHOOSE d \in Ipostdominators(pdom, b) : TRUE
-----------------------------------------------------------------------------
(* The reference: a block post-dominates another when every way from it to  *)
(* the function's exit goes through it.                                     *)

\* The blocks reached from b on ways that do not go through another one.
Reach(links, b, without) ==
  LET reach[n \in 0 .. Cardinality(links)] ==
        IF n = 0 THEN {b}
        ELSE LET last == reach[n - 1]
             IN  last \cup {l[2] : l \in {k \in links : k[1] \in last \ {without}}}
  IN  reach[Cardinality(links)]

OnEveryWay(p, body, b) ==
  {d \in Blocks(p, body) : d \in {b, ReturnPC} \/ ReturnPC \notin Reach(Links(p, body), b, d)}

\* Every block has a way to the exit, and control does not run off the end.
WellFormed(p) ==
  \A s \in p.start :
    LET body == Body(p, s)
        last == p.code[Max(body)]
        links == Links(p, body)
    IN  /\ last.op \in {"bra", "ret", "exit"} /\ ~last.pred
        /\ \A b \in Blocks(p, body) : ReturnPC \in Reach(links, b, NoPC)
=============================================================================
