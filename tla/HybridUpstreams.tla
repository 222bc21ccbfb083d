--------------------------- MODULE HybridUpstreams ---------------------------
(***************************************************************************)
(* The hybrid upstream client (projects/gloo/pkg/upstreams                 *)
(* /hybrid_client.go): one Watch over several sources of upstreams.  It    *)
(* lists every source, watches every source, merges what the watches       *)
(* deliver into `current`, and pushes the merged list into a channel of    *)
(* one slot when it changed, on a tick.                                    *)
(*                                                                         *)
(* The list of a source is a value.  Two variables belong to the sources:  *)
(* `latest[s]`, what a List of s returns, and `offered[s]`, what its watch  *)
(* has to deliver.  The hash of the merged list is the merged list.        *)
(***************************************************************************)
EXTENDS Sequences

CONSTANTS Sources,    \* gloo, kube, consul
          NoList      \* not a list

VARIABLES
  latest, offered,
  phase,         \* of Watch: "list", "watch", "start", "run", "closing", "done", "failed"
  todo,          \* sources that the loop of this phase has yet to visit
  returned,      \* sources whose aggregateUpstreams has returned
  held,          \* held[s]: the list aggregateUpstreams holds for s
  current, previousHash, needsSync,
  upstreamsOut,  \* the one-slot channel
  received,      \* what the reader got last
  live           \* ctx is not done

HybridInit ==
  /\ phase = "list" /\ todo = Sources /\ returned = {}
  /\ held = [s \in Sources |-> NoList]
  /\ current = [s \in Sources |-> NoList] /\ previousHash = NoList
  /\ needsSync = FALSE /\ upstreamsOut = <<>> /\ received = NoList /\ live = TRUE

\* Watch of source s has been called.
Watched(s) == phase \notin {"list", "failed"} /\ s \notin todo

\* The first loop: List of one more source, in any order (a map).
ListSource(s) ==
  /\ phase = "list" /\ s \in todo
  /\ current' = [current EXCEPT ![s] = latest[s]]
  /\ todo' = IF todo = {s} THEN Sources ELSE todo \ {s}
  /\ phase' = IF todo = {s} THEN "watch" ELSE phase
  /\ UNCHANGED <<held, previousHash, needsSync, upstreamsOut, received, returned, live>>

\* The second loop: Watch of one more source, and its aggregateUpstreams.
WatchSource(s) ==
  /\ phase = "watch" /\ s \in todo
  /\ todo' = todo \ {s}
  /\ phase' = IF todo = {s} THEN "start" ELSE phase
  /\ UNCHANGED <<held, current, previousHash, needsSync, upstreamsOut, received,
                 returned, live>>

\* A List or a Watch fails: Watch returns the error.
WatchFails ==
  /\ phase \in {"list", "watch"}
  /\ phase' = "failed"
  /\ UNCHANGED <<todo, held, current, previousHash, needsSync, upstreamsOut,
                 received, returned, live>>

\* syncFunc: nothing to do when the hash is the previous one, else replace what
\* sits in the slot.  There is no other sender, so the send finds room.
SyncFunc ==
  /\ upstreamsOut' = IF current = previousHash THEN upstreamsOut ELSE <<current>>
  /\ previousHash' = current

\* The goroutine starts with a sync.  needsSync is set to its success.
FirstSync ==
  /\ phase = "start" /\ phase' = "run"
  /\ SyncFunc /\ needsSync' = TRUE
  /\ UNCHANGED <<todo, held, current, received, returned, live>>

\* aggregateUpstreams of s receives from the watch.
Aggregate(s) ==
  /\ Watched(s) /\ s \notin returned /\ offered[s] # NoList /\ held[s] = NoList
  /\ held' = [held EXCEPT ![s] = offered[s]]
  /\ UNCHANGED <<phase, todo, current, previousHash, needsSync, upstreamsOut,
                 received, returned, live>>

\* The loop receives from collectUpstreamsChan.
Collect(s) ==
  /\ phase = "run" /\ held[s] # NoList
  /\ current' = [current EXCEPT ![s] = held[s]] /\ held' = [held EXCEPT ![s] = NoList]
  /\ needsSync' = TRUE
  /\ UNCHANGED <<phase, todo, previousHash, upstreamsOut, received, returned, live>>

\* Mutant: what sits in the slot is not removed first.
TickAppends ==
  /\ phase = "run" /\ needsSync
  /\ upstreamsOut' = Append(upstreamsOut, current)
  /\ previousHash' = current /\ needsSync' = FALSE
  /\ UNCHANGED <<phase, todo, held, current, received, returned, live>>

\* The ticker.
Tick ==
  /\ phase = "run" /\ needsSync
  /\ SyncFunc /\ needsSync' = FALSE
  /\ UNCHANGED <<phase, todo, held, current, received, returned, live>>

\* The reader of the returned channel.
Read ==
  /\ upstreamsOut # <<>>
  /\ received' = Head(upstreamsOut) /\ upstreamsOut' = <<>>
  /\ UNCHANGED <<phase, todo, held, current, previousHash, needsSync, returned, live>>

CancelWatch ==
  /\ live /\ live' = FALSE
  /\ UNCHANGED <<phase, todo, held, current, previousHash, needsSync,
                 upstreamsOut, received, returned>>

\* The loop sees ctx.Done, closes its output and waits for the aggregators.
CloseOut ==
  /\ phase = "run" /\ ~live /\ phase' = "closing"
  /\ UNCHANGED <<todo, held, current, previousHash, needsSync, upstreamsOut,
                 received, returned, live>>

\* Mutant: aggregateUpstreams sends without looking at ctx.
AggregatorReturnsIdle(s) ==
  /\ ~live /\ Watched(s) /\ s \notin returned /\ held[s] = NoList
  /\ returned' = returned \cup {s}
  /\ UNCHANGED <<phase, todo, held, current, previousHash, needsSync,
                 upstreamsOut, received, live>>

\* aggregateUpstreams of s sees ctx.Done, and drops what it holds.
AggregatorReturns(s) ==
  /\ ~live /\ Watched(s) /\ s \notin returned
  /\ returned' = returned \cup {s} /\ held' = [held EXCEPT ![s] = NoList]
  /\ UNCHANGED <<phase, todo, current, previousHash, needsSync, upstreamsOut,
                 received, live>>

\* eg.Wait returns.
CloseDone ==
  /\ phase = "closing" /\ returned = Sources /\ phase' = "done"
  /\ UNCHANGED <<todo, held, current, previousHash, needsSync, upstreamsOut,
                 received, returned, live>>

\* Nothing is on its way from a source to the reader.
Quiet ==
  /\ phase = "run" /\ live /\ ~needsSync /\ upstreamsOut = <<>>
  /\ \A s \in Sources : offered[s] = NoList /\ held[s] = NoList
=============================================================================
