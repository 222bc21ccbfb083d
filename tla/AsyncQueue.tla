----------------------------- MODULE AsyncQueue -----------------------------
(***************************************************************************)
(* The one-slot queue that controllers use to wake the proxy syncer        *)
(* (projects/gateway2/proxy_syncer/queue.go).  Enqueue is two separate     *)
(* non-blocking channel operations: it drains the slot, then it tries to   *)
(* send and drops its item when the slot is taken.  Each operation is      *)
(* atomic; the goroutines of several controllers interleave between them.  *)
(***************************************************************************)
EXTENDS Naturals, Sequences

CONSTANTS Producers,   \* goroutines that call Enqueue
          Values,      \* the items
          NoItem       \* not an item

ASSUME NoItemAssumption == NoItem \notin Values

VARIABLES queue,       \* content of the channel
          pend         \* pend[p]: the item p has still to send, after its drain

QueueTypeOK ==
  /\ queue \in {<<>>} \cup {<<v>> : v \in Values}
  /\ pend \in [Producers -> Values \cup {NoItem}]

QueueInit ==
  /\ queue = <<>>
  /\ pend = [p \in Producers |-> NoItem]

\* Mutant: Enqueue that gives up when it found an item to drain.
EnqueueDrainReturns(p, v) ==
  /\ pend[p] = NoItem
  /\ queue' = <<>>
  /\ pend' = IF queue = <<>> THEN [pend EXCEPT ![p] = v] ELSE pend

\* Mutant: Enqueue without the first select.
EnqueueKeepsOld(p, v) ==
  /\ pend[p] = NoItem
  /\ queue' = queue
  /\ pend' = [pend EXCEPT ![p] = v]

\* First select of Enqueue: take whatever sits in the slot, or nothing.
EnqueueDrain(p, v) ==
  /\ pend[p] = NoItem
  /\ queue' = <<>>
  /\ pend' = [pend EXCEPT ![p] = v]

\* Second select of Enqueue: send if the slot is empty, else drop the item.
EnqueueSend(p) ==
  /\ pend[p] # NoItem
  /\ queue' = IF queue = <<>> THEN <<pend[p]>> ELSE queue
  /\ pend' = [pend EXCEPT ![p] = NoItem]

\* A receive from Next(), or Dequeue with a live context.
Dequeue ==
  /\ queue # <<>>
  /\ queue' = <<>>
  /\ UNCHANGED pend

\* Something is in the slot, or is about to be put there.
Raised == queue # <<>> \/ \E p \in Producers : pend[p] # NoItem
=============================================================================
