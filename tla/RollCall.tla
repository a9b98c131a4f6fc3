------------------------------ MODULE RollCall ------------------------------
(***************************************************************************)
(* Roll calls: the tool that starts one and posts its first round          *)
(* (bot/tools/core.py), the worker's step that posts the rest and the      *)
(* summary (worker/roll_call.py), and the statements on the roll_calls     *)
(* table both issue (bot/session.py).                                      *)
(*                                                                         *)
(* A round is claimed, or its row inserted, before it is posted, and the   *)
(* roster is read somewhere in between; the tool and the worker share      *)
(* nothing but the row.  Each SQL statement and each send is a step.       *)
(*                                                                         *)
(* Time passes in units of the shortest gap between rounds.  The worker    *)
(* polls once a minute and a turn of the bot has a deadline well under a   *)
(* gap, so a unit passes only when every worker that is up has polled in   *)
(* it and no tool is between inserting a row and counting its first round. *)
(***************************************************************************)
EXTENDS Naturals, FiniteSets

CONSTANTS
  Sessions, Handlers, Workers, People,
  Rows,            \* ids of roll_calls; bound: as many runs as rows
  MaxRounds,       \* rounds before the summary
  Gap,             \* [0 .. MaxRounds - 1 -> units after that round]
  CountKnown,      \* has chats.member_count been fetched?
  CanFail,         \* may a Telegram send raise?
  ReadsFail,       \* may reading the roster?
  MaxCrashes,      \* bound: worker crashes
  Nobody           \* SQL NULL

ASSUME RollCallAssumption ==
  /\ MaxRounds \in Nat \ {0}
  /\ Gap \in [0 .. MaxRounds - 1 -> Nat \ {0}]
  /\ {CountKnown, CanFail, ReadsFail} \subseteq BOOLEAN
  /\ MaxCrashes \in Nat
  /\ Nobody \notin Rows \cup Sessions

VARIABLES
  \* roll_calls, by id: whose it is, its state, rounds_done, time to next_at
  owner, state, rounds, due,
  \* participants, per session: not on the roster, silent, or answered
  roster,
  awake, polled,
  \* each worker: where its step stands, and the claims it holds
  wpc, claims,
  \* each handler: where the tool stands, its session, the row it inserted,
  \* and the roster it read before
  hpc, view,
  \* the budget spent, and whether a claim was ever lost with its holder
  crashes, lost,
  \* history: rounds and summaries posted, per run; was everyone asked found to
  \* have answered when some message of the run was composed
  questions, summaries, allAnswered

row     == <<owner, state, rounds, due>>
clock   == <<awake, polled>>
worker  == <<wpc, claims>>
tool    == <<hpc, view>>
faults  == <<crashes, lost>>
history == <<questions, summaries, allAnswered>>
vars    == <<row, roster, clock, worker, tool, faults, history>>

-----------------------------------------------------------------------------
PostCap == MaxRounds + 3

Rosters == [silent : BOOLEAN, others : BOOLEAN]
Claims  == [id : Rows, prev : 0 .. MaxRounds + 1,
            at : {"claimed", "read", "failed", "summarised"}, seen : Rosters]
Unread  == [silent |-> FALSE, others |-> FALSE]
Views   == [sid : Sessions \cup {Nobody}, id : Rows \cup {Nobody}, seen : Rosters]
NoView  == [sid |-> Nobody, id |-> Nobody, seen |-> Unread]

TypeOK ==
  /\ owner \in [Rows -> Sessions \cup {Nobody}]
  /\ state \in [Rows -> {"none", "active", "done", "cancelled"}]
  /\ rounds \in [Rows -> 0 .. MaxRounds + 1]
  /\ due \in [Rows -> Nat]
  /\ roster \in [Sessions -> [People -> {"unseen", "silent", "answered"}]]
  /\ awake \in BOOLEAN
  /\ polled \in [Workers -> BOOLEAN]
  /\ wpc \in [Workers -> {"idle", "serving", "down"}]
  /\ claims \in [Workers -> SUBSET Claims]
  /\ hpc \in [Handlers -> {"idle", "starting", "posting", "counting", "undoing"}]
  /\ view \in [Handlers -> Views]
  /\ crashes \in 0 .. MaxCrashes
  /\ lost \in BOOLEAN
  /\ questions \in [Rows -> 0 .. PostCap]
  /\ summaries \in [Rows -> 0 .. PostCap]
  /\ allAnswered \in [Rows -> BOOLEAN]

Init ==
  /\ owner = [r \in Rows |-> Nobody]
  /\ state = [r \in Rows |-> "none"]
  /\ rounds = [r \in Rows |-> 0]
  /\ due = [r \in Rows |-> 0]
  /\ roster \in [Sessions -> [People -> {"unseen", "silent"}]]
  /\ awake = TRUE
  /\ polled = [w \in Workers |-> FALSE]
  /\ wpc = [w \in Workers |-> "idle"]
  /\ claims = [w \in Workers |-> {}]
  /\ hpc = [h \in Handlers |-> "idle"]
  /\ view = [h \in Handlers |-> NoView]
  /\ crashes = 0
  /\ lost = FALSE
  /\ questions = [r \in Rows |-> 0]
  /\ summaries = [r \in Rows |-> 0]
  /\ allAnswered = [r \in Rows |-> FALSE]

-----------------------------------------------------------------------------
\* Composing a round: who has not answered, and who the bot has never seen.

RosterOf(s) ==
  [silent |-> \E p \in People : roster[s][p] = "silent",
   others |-> CountKnown /\ \E p \in People : roster[s][p] = "unseen"]

\* send_round: the run is over when nobody is silent or every round is spent.
Spent_Late(done) == done > MaxRounds
Spent_Exactly(done) == done = MaxRounds
Spent(done) == done >= MaxRounds
Summarises(seen, done) == ~seen.silent \/ Spent(done)

Counted(n) == IF n < PostCap THEN n + 1 ELSE n

\* What reaches the group when a round, or the summary, of run r is posted.
Post(r, seen, done) ==
  /\ IF Summarises(seen, done)
     THEN /\ summaries' = [summaries EXCEPT ![r] = Counted(@)]
          /\ UNCHANGED questions
     ELSE /\ questions' = [questions EXCEPT ![r] = Counted(@)]
          /\ UNCHANGED summaries
  /\ allAnswered' = [allAnswered EXCEPT ![r] = @ \/ ~seen.silent]

\* next_interval_minutes, clamped at the last gap.
NextGap(done) == Gap[IF done < MaxRounds - 1 THEN done ELSE MaxRounds - 1]

-----------------------------------------------------------------------------
\* The group: people turn up in the chat, and answer.

Speak(s, p) ==
  /\ roster[s][p] = "unseen"
  /\ roster' = [roster EXCEPT ![s][p] = "silent"]
  /\ UNCHANGED <<row, clock, worker, tool, faults, history>>

Answer(s, p) ==
  /\ roster[s][p] # "answered"
  /\ roster' = [roster EXCEPT ![s][p] = "answered"]
  /\ UNCHANGED <<row, clock, worker, tool, faults, history>>

\* cancel_roll_calls_for_session, after a close or a change of event.
Running(s) == {r \in Rows : owner[r] = s /\ state[r] = "active"}

Cancelled(s) ==
  state' = [r \in Rows |-> IF r \in Running(s) THEN "cancelled" ELSE state[r]]

CancelRollCalls(s) ==
  /\ Running(s) # {}
  /\ Cancelled(s)
  /\ UNCHANGED <<owner, rounds, due, roster, clock, worker, tool, faults, history>>

-----------------------------------------------------------------------------
\* The tool: nudge_unconfirmed_participants.

Return(h) == /\ hpc' = [hpc EXCEPT ![h] = "idle"]
             /\ view' = [view EXCEPT ![h] = NoView]

\* It reads the roster; with nobody to ask and nobody unknown it stops there.
Nudge(h, s) ==
  /\ hpc[h] = "idle"
  /\ RosterOf(s).silent \/ RosterOf(s).others
  /\ hpc' = [hpc EXCEPT ![h] = "starting"]
  /\ view' = [view EXCEPT ![h] = [sid |-> s, id |-> Nobody, seen |-> RosterOf(s)]]
  /\ UNCHANGED <<row, roster, clock, worker, faults, history>>

\* start_roll_call: a row due at once, unless the index finds one running.
Admits_Any(s) == TRUE
Admits(s) == Running(s) = {}

Fresh == {r \in Rows : state[r] = "none"}

StartRollCall(h) ==
  /\ hpc[h] = "starting"
  /\ IF Admits(view[h].sid) /\ Fresh # {}
     THEN \E r \in Fresh :
            /\ owner' = [owner EXCEPT ![r] = view[h].sid]
            /\ state' = [state EXCEPT ![r] = "active"]
            /\ hpc' = [hpc EXCEPT ![h] = "posting"]
            /\ view' = [view EXCEPT ![h].id = r]
     ELSE Return(h) /\ UNCHANGED <<owner, state>>
  /\ UNCHANGED <<rounds, due, roster, clock, worker, faults, history>>

\* The first round, composed from the roster read at the beginning; whether it
\* was a question or a summary is not looked at.
PostFirst(h) ==
  /\ hpc[h] = "posting"
  /\ Post(view[h].id, view[h].seen, 0)
  /\ hpc' = [hpc EXCEPT ![h] = "counting"]
  /\ UNCHANGED <<row, roster, clock, worker, view, faults>>

\* The send raised; a timed-out one may have been posted all the same.
FirstFails(h) ==
  /\ CanFail
  /\ hpc[h] = "posting"
  /\ Post(view[h].id, view[h].seen, 0) \/ UNCHANGED history
  /\ hpc' = [hpc EXCEPT ![h] = "undoing"]
  /\ UNCHANGED <<row, roster, clock, worker, view, faults>>

UndoNudge(h) ==
  /\ hpc[h] = "undoing"
  /\ Cancelled(view[h].sid)
  /\ Return(h)
  /\ UNCHANGED <<owner, rounds, due, roster, clock, worker, faults, history>>

\* The claim the worker would have made: WHERE id = ... AND status = 'active'.
CountsFirst_Not(r) == FALSE
CountsFirst(r) == state[r] = "active"

CountFirst(h) ==
  /\ hpc[h] = "counting"
  /\ LET r == view[h].id IN
     IF CountsFirst(r)
     THEN /\ rounds' = [rounds EXCEPT ![r] = 1]
          /\ due' = [due EXCEPT ![r] = NextGap(0)]
     ELSE UNCHANGED <<rounds, due>>
  /\ Return(h)
  /\ UNCHANGED <<owner, state, roster, clock, worker, faults, history>>

\* The turn's deadline, or the end of the bot's process, cancels the tool at any
\* await; a cancellation is no Exception, and nothing is undone.
CutShort(h) ==
  /\ hpc[h] # "idle"
  /\ Return(h)
  /\ UNCHANGED <<row, roster, clock, worker, faults, history>>

-----------------------------------------------------------------------------
\* The worker: run_roll_calls.

IsDue(r) == state[r] = "active" /\ due[r] = 0 /\ awake

\* Bound: past the last round every count means the same, and one stands for all.
Advance(n) == IF n <= MaxRounds THEN n + 1 ELSE n

ClaimRounds(w) ==
  /\ wpc[w] = "idle"
  /\ LET now == {r \in Rows : IsDue(r)} IN
     /\ claims' = [claims EXCEPT ![w] =
          {[id |-> r, prev |-> rounds[r], at |-> "claimed", seen |-> Unread] : r \in now}]
     /\ rounds' = [r \in Rows |-> IF r \in now THEN Advance(rounds[r]) ELSE rounds[r]]
     /\ due' = [r \in Rows |-> IF r \in now THEN NextGap(rounds[r]) ELSE due[r]]
  /\ wpc' = [wpc EXCEPT ![w] = "serving"]
  /\ UNCHANGED <<owner, state, roster, clock, tool, faults, history>>

\* The claims are served one after another.
Untouched(w) == \A c \in claims[w] : c.at = "claimed"

Becomes(w, c, at) ==
  claims' = [claims EXCEPT ![w] = (@ \ {c}) \cup {[c EXCEPT !.at = at]}]

ReadRoster(w, c) ==
  /\ Untouched(w)
  /\ claims' = [claims EXCEPT ![w] =
       (@ \ {c}) \cup {[c EXCEPT !.at = "read", !.seen = RosterOf(owner[c.id])]}]
  /\ UNCHANGED <<row, roster, clock, wpc, tool, faults, history>>

\* Outside the try: a failed read abandons the step and every claim left.
AbandonStep(w) ==
  /\ ReadsFail
  /\ wpc[w] = "serving" /\ Untouched(w) /\ claims[w] # {}
  /\ claims' = [claims EXCEPT ![w] = {}]
  /\ lost' = TRUE
  /\ UNCHANGED <<row, roster, clock, wpc, tool, crashes, history>>

SendRound(w, c) ==
  /\ c.at = "read"
  /\ Post(c.id, c.seen, c.prev)
  /\ IF Summarises(c.seen, c.prev)
     THEN Becomes(w, c, "summarised")
     ELSE claims' = [claims EXCEPT ![w] = @ \ {c}]
  /\ UNCHANGED <<row, roster, clock, wpc, tool, faults>>

\* So may a round of the worker's.
SendFails(w, c) ==
  /\ CanFail
  /\ c.at = "read"
  /\ Becomes(w, c, "failed")
  /\ Post(c.id, c.seen, c.prev) \/ UNCHANGED history
  /\ UNCHANGED <<row, roster, clock, wpc, tool, faults>>

\* release_roll_call_claim: rounds_done and next_at as they were, due at once.
Restored_Below(c) == c.prev - 1
Restored_Spent(c) == Advance(c.prev)
Restored(c) == c.prev

ReleaseClaim(w, c) ==
  /\ c.at = "failed"
  /\ rounds' = [rounds EXCEPT ![c.id] = Restored(c)]
  /\ due' = [due EXCEPT ![c.id] = 0]
  /\ claims' = [claims EXCEPT ![w] = @ \ {c}]
  /\ UNCHANGED <<owner, state, roster, clock, wpc, tool, faults, history>>

\* finish_roll_call: only a run still active.
StillActive_Unchecked(r) == TRUE
StillActive(r) == state[r] = "active"

Finish(w, c) ==
  /\ c.at = "summarised"
  /\ state' = IF StillActive(c.id) THEN [state EXCEPT ![c.id] = "done"] ELSE state
  /\ claims' = [claims EXCEPT ![w] = @ \ {c}]
  /\ UNCHANGED <<owner, rounds, due, roster, clock, wpc, tool, faults, history>>

EndStep(w) ==
  /\ wpc[w] = "serving" /\ claims[w] = {}
  /\ wpc' = [wpc EXCEPT ![w] = "idle"]
  /\ polled' = [polled EXCEPT ![w] = TRUE]
  /\ UNCHANGED <<row, roster, awake, claims, tool, faults, history>>

WorkerCrash(w) ==
  /\ crashes < MaxCrashes /\ crashes' = crashes + 1
  /\ wpc[w] # "down"
  /\ wpc' = [wpc EXCEPT ![w] = "down"]
  /\ claims' = [claims EXCEPT ![w] = {}]
  /\ lost' = (lost \/ claims[w] # {})
  /\ UNCHANGED <<row, roster, clock, tool, history>>

WorkerRestart(w) ==
  /\ wpc[w] = "down"
  /\ wpc' = [wpc EXCEPT ![w] = "idle"]
  /\ UNCHANGED <<row, roster, clock, claims, tool, faults, history>>

Tick ==
  /\ \A w \in Workers : wpc[w] = "down" \/ (wpc[w] = "idle" /\ polled[w])
  /\ \A h \in Handlers : hpc[h] \in {"idle", "starting"}
  /\ due' = [r \in Rows |-> IF state[r] = "active" /\ due[r] > 0 THEN due[r] - 1 ELSE due[r]]
  /\ awake' \in BOOLEAN
  /\ polled' = [w \in Workers |-> FALSE]
  /\ UNCHANGED <<owner, state, rounds, roster, worker, tool, faults, history>>

-----------------------------------------------------------------------------
Tool(h) ==
  \/ StartRollCall(h) \/ PostFirst(h) \/ FirstFails(h) \/ UndoNudge(h) \/ CountFirst(h)

Serve(w) ==
  \/ ClaimRounds(w) \/ AbandonStep(w) \/ EndStep(w) \/ WorkerRestart(w)
  \/ \E c \in claims[w] : \/ ReadRoster(w, c) \/ SendRound(w, c) \/ SendFails(w, c)
                          \/ ReleaseClaim(w, c) \/ Finish(w, c)

Next ==
  \/ \E s \in Sessions, p \in People : Speak(s, p) \/ Answer(s, p)
  \/ \E s \in Sessions : CancelRollCalls(s)
  \/ \E h \in Handlers : Tool(h) \/ CutShort(h) \/ \E s \in Sessions : Nudge(h, s)
  \/ \E w \in Workers : Serve(w) \/ WorkerCrash(w)
  \/ Tick

Spec == Init /\ [][Next]_vars

\* Coroutines resume, the worker polls for ever, time passes, the chat is
\* awake for part of every day, and Telegram and the database do not fail the
\* same worker for ever.
Fairness ==
  /\ SF_vars(Tick) /\ SF_vars(Tick /\ awake')
  /\ \A h \in Handlers : WF_vars(Tool(h))
  /\ \A w \in Workers : /\ WF_vars(Serve(w))
                        /\ SF_vars(\E c \in claims[w] : ReadRoster(w, c))
                        /\ SF_vars(\E c \in claims[w] : SendRound(w, c))

FairSpec == Spec /\ Fairness

-----------------------------------------------------------------------------
\* Properties.

\* However nudges race, a session has at most one run going.
OneRunPerSession ==
  \A r, q \in Rows :
    state[r] = "active" /\ state[q] = "active" /\ owner[r] = owner[q] => r = q

\* A run that was cancelled or finished is never revived or relabelled: not by
\* the tool counting its first round late, nor by a worker finishing or
\* releasing what it claimed before.
OverIsOver ==
  [][\A r \in Rows : state[r] \in {"done", "cancelled"} => state'[r] = state[r]]_vars

\* No round is lost to a failed send, or to the tool and the worker racing: as
\* long as no claim died with the worker or with its step, a run ends with
\* everyone asked having answered, or after as many messages as it has rounds
\* and a summary.
EveryRoundPosted ==
  ~lost =>
    \A r \in Rows : state[r] = "done" =>
      \/ allAnswered[r]
      \/ questions[r] + summaries[r] >= MaxRounds + 1

\* While sends succeed, racing for the first round costs at most one question
\* too many (a send that timed out may have been posted, and is sent again).
AtMostOneExtra == ~CanFail => \A r \in Rows : questions[r] <= MaxRounds + 1

\* A run comes to an end: it does not ask, or wait, for ever.
RunsEnd ==
  \A r \in Rows : state[r] = "active" ~> state[r] # "active"
=============================================================================
