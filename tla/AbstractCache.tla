---------------------------- MODULE AbstractCache ----------------------------
(***************************************************************************)
(* What a cache promises its caller, whatever its sets, ways, MSHR entries *)
(* and queues: DataCache is shown to implement this specification.         *)
(*                                                                         *)
(* The interface is the access at the port and the requests mf; the rest   *)
(* is the least a non-blocking cache must remember.  A block is present    *)
(* after the lower level delivered it, and may be dropped at any time, but *)
(* not its dirty data: that leaves in a write.  A block that is asked for  *)
(* is asked for once; one delivery serves every access that waits for it.  *)
(***************************************************************************)
CONSTANTS Fetch, Block, AccessTypes, Idle, NoFetch

VARIABLES
  mf, port,   \* the requests that exist; the access being offered
  present,    \* blocks whose data the cache holds
  dirty,      \* those of them the lower level has older data of
  asked,      \* blocks requested from the lower level
  waiting,    \* the accesses each block's delivery will serve
  ready,      \* the accesses each block's last delivery has served
  writes      \* writes and write-backs the lower level has not done yet

vars == <<mf, port, present, dirty, asked, waiting, ready, writes>>

Init ==
  /\ mf = [f \in Fetch |-> Idle]
  /\ port = NoFetch
  /\ present = {} /\ dirty = {} /\ asked = {} /\ writes = {}
  /\ waiting = [b \in Block |-> {}]
  /\ ready = [b \in Block |-> {}]

\* Dirty data that is no longer held as such has been handed to a write.
NoDataLost == \A b \in dirty \ dirty' :
                \E f \in writes' \ writes : mf'[f].block = b

Offer(f, t, b) ==
  /\ port = NoFetch /\ mf[f] = Idle
  /\ mf' = [mf EXCEPT ![f] = [type |-> t, block |-> b]]
  /\ port' = f
  /\ UNCHANGED <<present, dirty, asked, waiting, ready, writes>>

\* The access is answered at once, from data that was delivered.  A write or
\* an atomic leaves the block dirty.
Hit(b) ==
  /\ port # NoFetch /\ mf[port].block = b
  /\ b \in present
  /\ mf' = [mf EXCEPT ![port] = Idle]
  /\ port' = NoFetch
  /\ dirty' = IF mf[port].type = "READ" THEN dirty ELSE dirty \cup {b}
  /\ UNCHANGED <<present, asked, waiting, ready, writes>>

\* Access r joins those of block b: the ones being served if a delivery of b
\* is being handed out, otherwise the ones that wait for it.
Join(r, b) ==
  IF ready[b] # {}
    THEN /\ ready' = [ready EXCEPT ![b] = @ \cup {r}]
         /\ UNCHANGED <<asked, waiting>>
    ELSE /\ waiting' = [waiting EXCEPT ![b] = @ \cup {r}]
         /\ asked' = asked \cup {b}
         /\ UNCHANGED ready

\* A write-back of block c by the object wb
WriteBack(reqs, wb, c) == [reqs EXCEPT ![wb] = [type |-> "WRBK", block |-> c]]

\* A read is taken.  Others may be dropped to make room for its block; one
\* that is dirty is written back by wb.
ReadMiss(b, wb) ==
  /\ port # NoFetch /\ mf[port].block = b
  /\ mf[port].type \in {"READ", "ATOMIC"}
  /\ b \notin present
  /\ Join(port, b)
  /\ present' \in SUBSET present
  /\ dirty' = dirty \cap present'
  /\ \/ writes' = writes /\ mf' = mf
     \/ \E c \in present \ present' : mf' = WriteBack(mf, wb, c) /\ writes' = writes \cup {wb}
  /\ NoDataLost
  /\ port' = NoFetch

\* A write is handed to the lower level; the block is updated or dropped.
WriteSent(b) ==
  /\ port # NoFetch /\ mf[port].block = b /\ mf[port].type = "WRITE"
  /\ writes' = writes \cup {port}
  /\ present' \in {present, present \ {b}}
  /\ dirty' \in {dirty \ {b}, dirty \cup ({b} \cap present')}
  /\ port' = NoFetch
  /\ UNCHANGED <<mf, asked, waiting, ready>>

\* A write is handed to the lower level and its block is asked for, in one
\* step: a write is never sent without the read that allocates its block.
WriteMissFetch(b, n, wb) ==
  /\ port # NoFetch /\ mf[port].block = b /\ mf[port].type = "WRITE"
  /\ b \notin present
  /\ mf[n] = Idle /\ mf[wb] = Idle /\ n # wb
  /\ Join(n, b)
  /\ present' \in SUBSET present
  /\ dirty' = dirty \cap present'
  /\ LET reqs == [mf EXCEPT ![n] = [type |-> "WR_ALLOC_R", block |-> b]]
     IN  \/ writes' = writes \cup {port} /\ mf' = reqs
         \/ \E c \in present \ present' : /\ mf' = WriteBack(reqs, wb, c)
                               /\ writes' = writes \cup {port, wb}
  /\ NoDataLost
  /\ port' = NoFetch

\* The lower level delivers a block, once for each time it was asked; a line
\* that an atomic waits for becomes dirty.  Clean blocks may be dropped.
Deliver(b) ==
  /\ b \in asked
  /\ asked' = asked \ {b}
  /\ ready' = [ready EXCEPT ![b] = waiting[b]]
  /\ waiting' = [waiting EXCEPT ![b] = {}]
  /\ present' \in {p \cup {b} : p \in SUBSET present}
  /\ dirty \subseteq present'
  /\ dirty' = IF \E f \in waiting[b] : mf[f].type = "ATOMIC" THEN dirty \cup {b} ELSE dirty
  /\ UNCHANGED <<mf, port, writes>>

\* An access a delivery has served is handed back to the caller.
Answer(f, b) ==
  /\ f \in ready[b]
  /\ ready' = [ready EXCEPT ![b] = @ \ {f}]
  /\ mf' = [mf EXCEPT ![f] = Idle]
  /\ UNCHANGED <<port, present, dirty, asked, waiting, writes>>

WriteDone(f) ==
  /\ f \in writes
  /\ writes' = writes \ {f}
  /\ mf' = [mf EXCEPT ![f] = Idle]
  /\ UNCHANGED <<port, present, dirty, asked, waiting, ready>>

\* The caller has the cache forget its data, dirty or not.
Flush ==
  /\ present' = {} /\ dirty' = {}
  /\ UNCHANGED <<mf, port, asked, waiting, ready, writes>>

Next ==
  \/ \E f \in Fetch, t \in AccessTypes, b \in Block : Offer(f, t, b)
  \/ \E b \in Block : Hit(b) \/ WriteSent(b) \/ Deliver(b)
  \/ \E b \in Block, wb \in Fetch : ReadMiss(b, wb)
  \/ \E b \in Block, n, wb \in Fetch : WriteMissFetch(b, n, wb)
  \/ \E f \in Fetch, b \in Block : Answer(f, b)
  \/ \E f \in Fetch : WriteDone(f)
  \/ Flush

Spec == Init /\ [][Next]_vars
=============================================================================
