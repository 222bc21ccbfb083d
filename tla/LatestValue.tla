----------------------------- MODULE LatestValue -----------------------------
(***************************************************************************)
(* What every stage between sources and a reader promises: the reader sees *)
(* the values of a source in the order they were written, may miss some,   *)
(* never goes back, and never stays behind while the stage is open.        *)
(* Values are counted: `written[s]` is the number of the newest value of   *)
(* source s, `seen[s]` that of the value the reader has.                   *)
(***************************************************************************)
EXTENDS Naturals

CONSTANT Sources

VARIABLES written, seen,
          open     \* open[s]: the stage is obliged to deliver the values of s

Init == written = [s \in Sources |-> 0] /\ seen = [s \in Sources |-> 0]

Write(s) == written'[s] = written[s] + 1 /\ seen'[s] = seen[s]

Deliver(s) == seen'[s] \in seen[s]..written[s] /\ written'[s] = written[s]

\* One step may concern several sources: a reader gets their values together.
Next == \A s \in Sources : Write(s) \/ Deliver(s)

\* The reader has the newest value again and again, or the stage has closed.
\* (A source that never rests may stay ahead: this is for sources that are
\* written finitely often.)
CatchesUp == \A s \in Sources : []<>(seen[s] = written[s] \/ ~open[s])

Spec == Init /\ [][Next]_<<written, seen>> /\ CatchesUp
=============================================================================
