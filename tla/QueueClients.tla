---------------------------- MODULE QueueClients ----------------------------
(***************************************************************************)
(* The queue under any number of concurrent producers and one reader, as   *)
(* GatewayInputChannels uses it: Kick from every controller's reconciler,  *)
(* UpdateSecretInputs from the one secrets reconciler, and the select loop *)
(* of the proxy syncer as the reader.                                      *)
(***************************************************************************)
EXTENDS AsyncQueue

VARIABLES current,    \* history: items sent since the last Enqueue started
          unserved    \* history: an Enqueue started since the last receive

clientVars == <<queue, pend, current, unserved>>

ClientTypeOK ==
  /\ QueueTypeOK
  /\ current \in SUBSET Values
  /\ unserved \in BOOLEAN

ClientInit ==
  /\ QueueInit
  /\ current = {}
  /\ unserved = FALSE

\* A client enters Enqueue with item v.
Start(p, v) ==
  /\ EnqueueDrain(p, v)
  /\ current' = {}
  /\ unserved' = TRUE

\* It returns from Enqueue.
Finish(p) ==
  /\ EnqueueSend(p)
  /\ current' = current \cup {pend[p]}
  /\ UNCHANGED unserved

Receive ==
  /\ Dequeue
  /\ unserved' = FALSE
  /\ UNCHANGED current

ClientNext ==
  \/ \E p \in Producers, v \in Values : Start(p, v)
  \/ \E p \in Producers : Finish(p)
  \/ Receive

\* A goroutine inside Enqueue runs on.  The reader parks on the channel and
\* a parked reader is handed the next item sent, so it cannot be starved by
\* producers that drain the slot again and again: strong fairness.  Nothing
\* obliges anybody to call Enqueue.
ClientSpec ==
  /\ ClientInit /\ [][ClientNext]_clientVars
  /\ \A p \in Producers : WF_clientVars(Finish(p))
  /\ SF_clientVars(Receive)

-----------------------------------------------------------------------------
\* Producers drain each other's items and drop their own, but as long as an
\* Enqueue has not been followed by a receive, some item is in the slot or
\* on its way there: a kick is coalesced, never lost (queue.go Enqueue).
NoKickLost == unserved => Raised

\* Hence every call of Enqueue is followed by a receive, however the other
\* producers interleave with it (queue.go Enqueue against Next).
KickServed == unserved ~> ~unserved

\* The reader never receives an item whose Enqueue had returned before a
\* later Enqueue began: the drain removes what is out of date, and only
\* overlapping calls may deliver their items in either order.
NoOvertakenItem == \A v \in Values : queue = <<v>> => v \in current
=============================================================================
