------------------------- MODULE MCSessionLifecycle -------------------------
(* Instances of SessionLifecycle for TLC. *)
EXTENDS SessionLifecycle, TLC

CONSTANT c1

\* Every session in one chat.
OneChat == [s \in Sessions |-> c1]

HandlerSymmetry == Permutations(Handlers)
SessionSymmetry == Permutations(Handlers) \cup Permutations(Sessions)

\* A closed row's timers, date and roll call are read by no query again, and
\* the questions posted by no property of the runs that use this view: states
\* that differ only there are one state.
LiveRow(s) == IF status[s] = "active"
              THEN <<eventIn[s], idle[s], asked[s], retries[s], snooze[s], rollCall[s]>>
              ELSE <<>>
RaceView == <<status, reason, [s \in Sessions |-> LiveRow(s)],
              clock, worker, bot, budgets, announced>>
=============================================================================
