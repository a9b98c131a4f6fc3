--------------------------- MODULE RollCallProofs ---------------------------
(***************************************************************************)
(* Proofs about RollCall, for any number of sessions, rows, handlers and   *)
(* workers, any number of rounds and any gaps between them.                *)
(***************************************************************************)
EXTENDS RollCall, TLAPS

-----------------------------------------------------------------------------
\* Typing.

\* The schedule: every gap is positive; a count past the last round is kept.
LEMMA Schedule ==
  /\ \A n \in 0 .. MaxRounds + 1 : NextGap(n) \in Nat \ {0}
  /\ \A n \in 0 .. MaxRounds + 1 : /\ Advance(n) \in 0 .. MaxRounds + 1
                                   /\ Advance(n) <= n + 1
BY RollCallAssumption DEF NextGap, Advance

\* One more message is counted, up to the cap, which no property reaches.
LEMMA CountGrows ==
  /\ \A n \in 0 .. PostCap : Counted(n) \in 0 .. PostCap /\ Counted(n) >= n
  /\ \A n \in 0 .. PostCap : Counted(n) = n + 1 \/ Counted(n) = PostCap
BY RollCallAssumption DEF Counted, PostCap

\* Writing one entry keeps a function's type.
LEMMA Written ==
  ASSUME NEW S, NEW T, NEW f \in [S -> T], NEW x, NEW v \in T
  PROVE  [f EXCEPT ![x] = v] \in [S -> T]
OBVIOUS

\* A roster is read as a roster.
LEMMA RosterRead == \A s : RosterOf(s) \in Rosters
BY DEF RosterOf, Rosters

\* Posting keeps the history's types.
LEMMA PostTypes ==
  ASSUME TypeOK, NEW r, NEW seen \in Rosters, NEW done, Post(r, seen, done)
  PROVE  /\ questions' \in [Rows -> 0 .. PostCap]
         /\ summaries' \in [Rows -> 0 .. PostCap]
         /\ allAnswered' \in [Rows -> BOOLEAN]
<1>1. /\ questions \in [Rows -> 0 .. PostCap]
      /\ summaries \in [Rows -> 0 .. PostCap]
      /\ allAnswered \in [Rows -> BOOLEAN]
  BY DEF TypeOK
<1>2. \A n \in 0 .. PostCap : Counted(n) \in 0 .. PostCap
  BY CountGrows
<1>3. questions' \in [Rows -> 0 .. PostCap] /\ summaries' \in [Rows -> 0 .. PostCap]
  BY <1>1, <1>2 DEF Post
<1>4. seen.silent \in BOOLEAN
  BY DEF Rosters
<1>5. allAnswered' \in [Rows -> BOOLEAN]
  BY <1>1, <1>4, Zenon DEF Post
<1> QED
  BY <1>3, <1>5

\* Each step of the group, of the tool, of the worker and of the clock keeps
\* every variable's type.
LEMMA ToolTypes ==
  ASSUME TypeOK, NEW h \in Handlers,
         Tool(h) \/ CutShort(h) \/ \E s \in Sessions : Nudge(h, s)
  PROVE  TypeOK'
<1> USE RollCallAssumption
<1>1. NoView \in Views
  BY DEF NoView, Views, Unread, Rosters
<1>2. /\ hpc \in [Handlers -> {"idle", "starting", "posting", "counting", "undoing"}]
      /\ view \in [Handlers -> Views]
      /\ rounds \in [Rows -> 0 .. MaxRounds + 1] /\ due \in [Rows -> Nat]
      /\ owner \in [Rows -> Sessions \cup {Nobody}]
      /\ state \in [Rows -> {"none", "active", "done", "cancelled"}]
  BY DEF TypeOK
<1>3. ASSUME Return(h)
      PROVE  /\ hpc' \in [Handlers -> {"idle", "starting", "posting", "counting", "undoing"}]
             /\ view' \in [Handlers -> Views]
  BY <1>1, <1>2, <1>3 DEF Return
<1>4. CASE \E s \in Sessions : Nudge(h, s)
  <2>1. PICK s \in Sessions : Nudge(h, s)
    BY <1>4
  <2>2. [sid |-> s, id |-> Nobody, seen |-> RosterOf(s)] \in Views
    BY RosterRead DEF Views
  <2>3. view' \in [Handlers -> Views]
    BY <1>2, <2>1, <2>2 DEF Nudge
  <2> QED
    BY <2>1, <2>3 DEF TypeOK, Nudge, row, clock, worker, faults, history
<1>5. CASE StartRollCall(h)
  <2>1. CASE \E r \in Fresh :
            /\ owner' = [owner EXCEPT ![r] = view[h].sid]
            /\ state' = [state EXCEPT ![r] = "active"]
            /\ hpc' = [hpc EXCEPT ![h] = "posting"]
            /\ view' = [view EXCEPT ![h].id = r]
    <3>1. PICK r \in Rows :
            /\ owner' = [owner EXCEPT ![r] = view[h].sid]
            /\ state' = [state EXCEPT ![r] = "active"]
            /\ hpc' = [hpc EXCEPT ![h] = "posting"]
            /\ view' = [view EXCEPT ![h].id = r]
      BY <2>1 DEF Fresh
    <3>2. view[h] \in Views
      BY <1>2
    <3>3. [view[h] EXCEPT !.id = r] \in Views /\ view[h].sid \in Sessions \cup {Nobody}
      BY <3>2 DEF Views
    <3>4. view' = [view EXCEPT ![h] = [view[h] EXCEPT !.id = r]]
      BY <3>1
    <3>5. view' \in [Handlers -> Views]
      BY <1>2, <3>3, <3>4
    <3>6. /\ owner' \in [Rows -> Sessions \cup {Nobody}]
          /\ state' \in [Rows -> {"none", "active", "done", "cancelled"}]
      BY <1>2, <3>1, <3>3
    <3> QED
      BY <1>5, <3>1, <3>5, <3>6 DEF TypeOK, StartRollCall, clock, worker, faults, history
  <2>2. CASE Return(h) /\ UNCHANGED <<owner, state>>
    BY <1>3, <1>5, <2>2 DEF TypeOK, StartRollCall, clock, worker, faults, history
  <2> QED
    BY <1>5, <2>1, <2>2 DEF StartRollCall
<1>6. CASE PostFirst(h)
  <2>1. view[h].seen \in Rosters
    BY <1>2 DEF Views
  <2>2. /\ questions' \in [Rows -> 0 .. PostCap] /\ summaries' \in [Rows -> 0 .. PostCap]
        /\ allAnswered' \in [Rows -> BOOLEAN]
    BY <1>6, <2>1, PostTypes DEF PostFirst
  <2> QED
    BY <1>6, <2>2 DEF TypeOK, PostFirst, row, clock, worker, faults
<1>7. CASE FirstFails(h)
  <2>1. view[h].seen \in Rosters
    BY <1>2 DEF Views
  <2>2. /\ questions' \in [Rows -> 0 .. PostCap] /\ summaries' \in [Rows -> 0 .. PostCap]
        /\ allAnswered' \in [Rows -> BOOLEAN]
    BY <1>7, <2>1, PostTypes DEF FirstFails, history, TypeOK
  <2> QED
    BY <1>7, <2>2 DEF TypeOK, FirstFails, row, clock, worker, faults
<1>8. CASE UndoNudge(h)
  BY <1>3, <1>8 DEF TypeOK, UndoNudge, Cancelled, clock, worker, faults, history
<1>9. CASE CountFirst(h)
  <2>1. NextGap(0) \in Nat /\ 1 \in 0 .. MaxRounds + 1
    BY Schedule
  <2>2. \/ rounds' = rounds /\ due' = due
        \/ /\ rounds' = [rounds EXCEPT ![view[h].id] = 1]
           /\ due' = [due EXCEPT ![view[h].id] = NextGap(0)]
    BY <1>9 DEF CountFirst
  <2>4. rounds' \in [Rows -> 0 .. MaxRounds + 1] /\ due' \in [Rows -> Nat]
    <3>1. [rounds EXCEPT ![view[h].id] = 1] \in [Rows -> 0 .. MaxRounds + 1]
      BY <1>2, <2>1, Written
    <3>2. [due EXCEPT ![view[h].id] = NextGap(0)] \in [Rows -> Nat]
      BY <1>2, <2>1, Written
    <3> QED
      BY <1>2, <2>2, <3>1, <3>2
  <2>3. Return(h)
    BY <1>9 DEF CountFirst
  <2> QED
    BY <1>3, <1>9, <2>4, <2>3 DEF TypeOK, CountFirst, clock, worker, faults, history
<1>10. CASE CutShort(h)
  <2>1. Return(h)
    BY <1>10 DEF CutShort
  <2> QED
    BY <1>3, <1>10, <2>1 DEF TypeOK, CutShort, row, clock, worker, faults, history
<1> QED
  BY <1>4, <1>5, <1>6, <1>7, <1>8, <1>9, <1>10 DEF Tool

LEMMA WorkerTypes ==
  ASSUME TypeOK, NEW w \in Workers, Serve(w) \/ WorkerCrash(w)
  PROVE  TypeOK'
<1> USE RollCallAssumption
<1>1. /\ claims \in [Workers -> SUBSET Claims]
      /\ wpc \in [Workers -> {"idle", "serving", "down"}]
      /\ polled \in [Workers -> BOOLEAN]
      /\ rounds \in [Rows -> 0 .. MaxRounds + 1] /\ due \in [Rows -> Nat]
      /\ state \in [Rows -> {"none", "active", "done", "cancelled"}]
      /\ crashes \in 0 .. MaxCrashes /\ lost \in BOOLEAN
  BY DEF TypeOK
<1>2. ASSUME NEW c \in claims[w]
      PROVE  /\ c \in Claims /\ c.id \in Rows /\ c.seen \in Rosters
             /\ c.prev \in 0 .. MaxRounds + 1
             /\ \A at \in {"claimed", "read", "failed", "summarised"} :
                  [c EXCEPT !.at = at] \in Claims
  <2>1. c \in Claims
    BY <1>1
  <2> QED
    BY <2>1 DEF Claims
<1>3. CASE ClaimRounds(w)
  <2>1. \A r \in Rows :
          [id |-> r, prev |-> rounds[r], at |-> "claimed", seen |-> Unread] \in Claims
    BY <1>1 DEF Claims, Unread, Rosters
  <2>2. claims' \in [Workers -> SUBSET Claims]
    BY <1>1, <1>3, <2>1 DEF ClaimRounds
  <2>3. \A r \in Rows : Advance(rounds[r]) \in 0 .. MaxRounds + 1 /\ NextGap(rounds[r]) \in Nat
    BY <1>1, Schedule
  <2>4. rounds' \in [Rows -> 0 .. MaxRounds + 1] /\ due' \in [Rows -> Nat]
    BY <1>1, <1>3, <2>3 DEF ClaimRounds
  <2> QED
    BY <1>3, <2>2, <2>4 DEF TypeOK, ClaimRounds, clock, tool, faults, history
<1>4. CASE AbandonStep(w)
  BY <1>4 DEF TypeOK, AbandonStep, row, clock, tool, faults, history
<1>5. CASE EndStep(w)
  BY <1>5 DEF TypeOK, EndStep, row, tool, faults, history
<1>6. CASE WorkerRestart(w)
  BY <1>6 DEF TypeOK, WorkerRestart, row, clock, tool, faults, history
<1>7. CASE WorkerCrash(w)
  <2>1. crashes' \in 0 .. MaxCrashes /\ lost' \in BOOLEAN
    BY <1>1, <1>7 DEF WorkerCrash
  <2> QED
    BY <1>7, <2>1 DEF TypeOK, WorkerCrash, row, clock, tool, faults, history
<1>8. ASSUME NEW c \in claims[w], ReadRoster(w, c)
      PROVE  TypeOK'
  <2>1. [c EXCEPT !.at = "read", !.seen = RosterOf(owner[c.id])] \in Claims
    BY <1>2, RosterRead DEF Claims
  <2>2. claims' \in [Workers -> SUBSET Claims]
    BY <1>1, <1>8, <2>1 DEF ReadRoster
  <2> QED
    BY <1>8, <2>2 DEF TypeOK, ReadRoster, row, clock, tool, faults, history
<1>9. ASSUME NEW c \in claims[w], SendRound(w, c)
      PROVE  TypeOK'
  <2>3. Becomes(w, c, "summarised") => claims' \in [Workers -> SUBSET Claims]
    <3>1. (claims[w] \ {c}) \cup {[c EXCEPT !.at = "summarised"]} \in SUBSET Claims
      BY <1>1, <1>2
    <3> QED
      BY <1>1, <3>1 DEF Becomes
  <2>4. claims' = [claims EXCEPT ![w] = @ \ {c}] => claims' \in [Workers -> SUBSET Claims]
    BY <1>1
  <2>1. claims' \in [Workers -> SUBSET Claims]
    BY <1>9, <2>3, <2>4 DEF SendRound
  <2>2. /\ questions' \in [Rows -> 0 .. PostCap] /\ summaries' \in [Rows -> 0 .. PostCap]
        /\ allAnswered' \in [Rows -> BOOLEAN]
    BY <1>2, <1>9, PostTypes DEF SendRound
  <2> QED
    BY <1>9, <2>1, <2>2 DEF TypeOK, SendRound, row, clock, tool, faults
<1>10. ASSUME NEW c \in claims[w], SendFails(w, c)
       PROVE  TypeOK'
  <2>1. claims' \in [Workers -> SUBSET Claims]
    BY <1>1, <1>2, <1>10 DEF SendFails, Becomes
  <2>2. /\ questions' \in [Rows -> 0 .. PostCap] /\ summaries' \in [Rows -> 0 .. PostCap]
        /\ allAnswered' \in [Rows -> BOOLEAN]
    <3>1. CASE Post(c.id, c.seen, c.prev)
      BY <1>2, <3>1, PostTypes
    <3>2. CASE UNCHANGED history
      BY <3>2 DEF TypeOK, faults, history
    <3> QED
      BY <1>10, <3>1, <3>2 DEF SendFails
  <2> QED
    BY <1>10, <2>1, <2>2 DEF TypeOK, SendFails, row, clock, tool, faults
<1>11. ASSUME NEW c \in claims[w], ReleaseClaim(w, c)
       PROVE  TypeOK'
  <2>1. claims' \in [Workers -> SUBSET Claims]
    BY <1>1, <1>11 DEF ReleaseClaim
  <2>2. rounds' \in [Rows -> 0 .. MaxRounds + 1] /\ due' \in [Rows -> Nat]
    BY <1>1, <1>2, <1>11 DEF ReleaseClaim, Restored
  <2> QED
    BY <1>11, <2>1, <2>2 DEF TypeOK, ReleaseClaim, clock, tool, faults, history
<1>12. ASSUME NEW c \in claims[w], Finish(w, c)
       PROVE  TypeOK'
  <2>1. claims' \in [Workers -> SUBSET Claims]
    BY <1>1, <1>12 DEF Finish
  <2>2. state' \in [Rows -> {"none", "active", "done", "cancelled"}]
    BY <1>1, <1>12 DEF Finish
  <2> QED
    BY <1>12, <2>1, <2>2 DEF TypeOK, Finish, clock, tool, faults, history
<1> QED
  BY <1>3, <1>4, <1>5, <1>6, <1>7, <1>8, <1>9, <1>10, <1>11, <1>12 DEF Serve

LEMMA OtherTypes ==
  ASSUME TypeOK,
         \/ \E s \in Sessions, p \in People : Speak(s, p) \/ Answer(s, p)
         \/ \E s \in Sessions : CancelRollCalls(s)
         \/ Tick
         \/ UNCHANGED vars
  PROVE  TypeOK'
<1>1. ASSUME NEW s \in Sessions, NEW p \in People, Speak(s, p) \/ Answer(s, p)
      PROVE  TypeOK'
  <2>1. roster \in [Sessions -> [People -> {"unseen", "silent", "answered"}]]
    BY DEF TypeOK
  <2>2. \A v \in {"silent", "answered"} :
          [roster EXCEPT ![s] = [roster[s] EXCEPT ![p] = v]]
            \in [Sessions -> [People -> {"unseen", "silent", "answered"}]]
    BY <2>1
  <2>3. roster' \in [Sessions -> [People -> {"unseen", "silent", "answered"}]]
    BY <1>1, <2>2 DEF Speak, Answer
  <2> QED
    BY <1>1, <2>3 DEF TypeOK, Speak, Answer, row, clock, worker, tool, faults, history
<1>2. ASSUME NEW s \in Sessions, CancelRollCalls(s)
      PROVE  TypeOK'
  BY <1>2 DEF TypeOK, CancelRollCalls, Cancelled, clock, worker, tool, faults, history
<1>3. CASE Tick
  <2>1. due \in [Rows -> Nat]
    BY DEF TypeOK
  <2>2. due' \in [Rows -> Nat]
    BY <1>3, <2>1 DEF Tick
  <2> QED
    BY <1>3, <2>2 DEF TypeOK, Tick, worker, tool, faults, history
<1>4. CASE UNCHANGED vars
  BY <1>4 DEF TypeOK, vars, row, clock, worker, tool, faults, history
<1> QED
  BY <1>1, <1>2, <1>3, <1>4

\* Every variable keeps its type.
THEOREM Typing == Spec => []TypeOK
<1>1. Init => TypeOK
  <2> SUFFICES ASSUME Init
               PROVE  TypeOK
    OBVIOUS
  <2> USE RollCallAssumption
  <2>1. NoView \in Views
    BY DEF NoView, Views, Unread, Rosters
  <2>2. view \in [Handlers -> Views]
    BY <2>1 DEF Init
  <2>3. roster \in [Sessions -> [People -> {"unseen", "silent", "answered"}]]
    BY DEF Init
  <2>4. /\ owner \in [Rows -> Sessions \cup {Nobody}]
        /\ state \in [Rows -> {"none", "active", "done", "cancelled"}]
        /\ rounds \in [Rows -> 0 .. MaxRounds + 1] /\ due \in [Rows -> Nat]
        /\ awake \in BOOLEAN /\ polled \in [Workers -> BOOLEAN]
    BY DEF Init
  <2>5. /\ wpc \in [Workers -> {"idle", "serving", "down"}]
        /\ claims \in [Workers -> SUBSET Claims]
        /\ hpc \in [Handlers -> {"idle", "starting", "posting", "counting", "undoing"}]
        /\ crashes \in 0 .. MaxCrashes /\ lost \in BOOLEAN
    <3>1. /\ wpc \in [Workers -> {"idle", "serving", "down"}]
          /\ claims \in [Workers -> SUBSET Claims]
      BY DEF Init
    <3>2. hpc \in [Handlers -> {"idle", "starting", "posting", "counting", "undoing"}]
      BY DEF Init
    <3>3. crashes \in 0 .. MaxCrashes
      BY DEF Init
    <3>4. lost \in BOOLEAN
      BY DEF Init
    <3> QED
      BY <3>1, <3>2, <3>3, <3>4
  <2>6. /\ questions \in [Rows -> 0 .. PostCap] /\ summaries \in [Rows -> 0 .. PostCap]
        /\ allAnswered \in [Rows -> BOOLEAN]
    BY DEF Init, PostCap
  <2> QED
    BY <2>2, <2>3, <2>4, <2>5, <2>6 DEF TypeOK
<1>2. TypeOK /\ [Next]_vars => TypeOK'
  BY ToolTypes, WorkerTypes, OtherTypes DEF Next
<1> QED
  BY <1>1, <1>2, PTL DEF Spec

-----------------------------------------------------------------------------
\* One run at a time, and the end of a run is its end.

\* What a step does to the state of the runs: one that is not begun may begin,
\* when its session has none going; one that goes on may end; no other changes.
Begins(r) ==
  /\ state[r] = "none" /\ state'[r] = "active"
  /\ Admits(owner'[r])
  /\ \A q \in Rows \ {r} : state'[q] = state[q] /\ owner'[q] = owner[q]

EndsOrStays ==
  /\ owner' = owner
  /\ \A r \in Rows : \/ state'[r] = state[r]
                     \/ state[r] = "active" /\ state'[r] \in {"done", "cancelled"}

LEMMA StateSteps ==
  ASSUME TypeOK, [Next]_vars
  PROVE  (\E r \in Rows : Begins(r)) \/ EndsOrStays
<1>1. /\ state \in [Rows -> {"none", "active", "done", "cancelled"}]
      /\ owner \in [Rows -> Sessions \cup {Nobody}]
  BY DEF TypeOK
<1>2. ASSUME owner' = owner, NEW s, Cancelled(s)
      PROVE  EndsOrStays
  BY <1>1, <1>2 DEF EndsOrStays, Cancelled, Running
<1>3. ASSUME UNCHANGED <<owner, state>>
      PROVE  EndsOrStays
  BY <1>3 DEF EndsOrStays
<1>4. ASSUME NEW s \in Sessions, NEW p \in People, Speak(s, p) \/ Answer(s, p)
      PROVE  EndsOrStays
  BY <1>3, <1>4 DEF Speak, Answer, row
<1>5. ASSUME NEW s \in Sessions, CancelRollCalls(s)
      PROVE  EndsOrStays
  BY <1>2, <1>5 DEF CancelRollCalls
<1>6. ASSUME NEW h \in Handlers, StartRollCall(h)
      PROVE  (\E r \in Rows : Begins(r)) \/ EndsOrStays
  <2>1. CASE Admits(view[h].sid) /\ Fresh # {}
    <3>1. PICK r \in Fresh : /\ owner' = [owner EXCEPT ![r] = view[h].sid]
                             /\ state' = [state EXCEPT ![r] = "active"]
      BY <1>6, <2>1 DEF StartRollCall
    <3>2. r \in Rows /\ state[r] = "none"
      BY DEF Fresh
    <3>3. Begins(r)
      BY <1>1, <2>1, <3>1, <3>2 DEF Begins
    <3> QED
      BY <3>2, <3>3
  <2>2. CASE ~(Admits(view[h].sid) /\ Fresh # {})
    BY <1>3, <1>6, <2>2 DEF StartRollCall
  <2> QED
    BY <2>1, <2>2
<1>7. ASSUME NEW h \in Handlers,
             \/ PostFirst(h) \/ FirstFails(h) \/ UndoNudge(h) \/ CountFirst(h)
             \/ CutShort(h) \/ \E s \in Sessions : Nudge(h, s)
      PROVE  EndsOrStays
  <2>1. CASE UndoNudge(h)
    BY <1>2, <2>1 DEF UndoNudge
  <2> QED
    BY <1>3, <1>7, <2>1 DEF PostFirst, FirstFails, CountFirst, CutShort, Nudge, row
<1>8. ASSUME NEW w \in Workers, NEW c \in claims[w], Finish(w, c)
      PROVE  EndsOrStays
  BY <1>1, <1>8 DEF Finish, StillActive, EndsOrStays
<1>9. ASSUME NEW w \in Workers, Serve(w) \/ WorkerCrash(w)
      PROVE  EndsOrStays
  BY <1>3, <1>8, <1>9
     DEF Serve, ClaimRounds, AbandonStep, EndStep, WorkerRestart, WorkerCrash, ReadRoster,
         SendRound, SendFails, ReleaseClaim, row
<1>10. CASE Tick \/ UNCHANGED vars
  BY <1>3, <1>10 DEF Tick, vars, row
<1> QED
  BY <1>4, <1>5, <1>6, <1>7, <1>9, <1>10 DEF Next, Tool

\* However nudges race, the index keeps one run per session.
THEOREM OneRun == Spec => []OneRunPerSession
<1>1. Init => OneRunPerSession
  BY DEF Init, OneRunPerSession
<1>2. ASSUME TypeOK, TypeOK', OneRunPerSession, [Next]_vars
      PROVE  OneRunPerSession'
  <2>1. ASSUME NEW r \in Rows, Begins(r)
        PROVE  OneRunPerSession'
    <3>1. \A q \in Rows : state[q] = "active" => owner[q] # owner'[r]
      BY <2>1 DEF Begins, Admits, Running
    <3> QED
      BY <1>2, <2>1, <3>1 DEF Begins, OneRunPerSession
  <2>2. CASE EndsOrStays
    BY <1>2, <2>2 DEF EndsOrStays, OneRunPerSession
  <2> QED
    BY <1>2, <2>1, <2>2, StateSteps
<1> QED
  BY <1>1, <1>2, Typing, PTL DEF Spec

\* A finished or cancelled run stays what it is, whatever counts, releases or
\* finishes arrive late.
THEOREM OverStaysOver == Spec => OverIsOver
<1>1. ASSUME TypeOK, [Next]_vars
      PROVE  [\A r \in Rows : state[r] \in {"done", "cancelled"} => state'[r] = state[r]]_vars
  <2>1. ASSUME NEW r \in Rows, Begins(r)
        PROVE  \A q \in Rows : state[q] \in {"done", "cancelled"} => state'[q] = state[q]
    BY <2>1 DEF Begins
  <2>2. CASE EndsOrStays
    BY <2>2 DEF EndsOrStays
  <2> QED
    BY <1>1, <2>1, <2>2, StateSteps
<1> QED
  BY <1>1, Typing, PTL DEF Spec, OverIsOver

-----------------------------------------------------------------------------
\* Why no round is lost.

\* Messages posted by a run.
Messages(r) == questions[r] + summaries[r]

\* Claims taken whose round has not been posted, or was posted and not known to be.
Unsent(w) == {c \in claims[w] : c.at # "summarised"}

\* A worker holds claims only while it serves them.
ServingOnly == \A w \in Workers : wpc[w] # "serving" => claims[w] = {}

\* A row is claimed by one worker at a time, and is not due again before the
\* claim is spent or released.
OneClaim ==
  \A w \in Workers : \A c \in claims[w] :
    /\ due[c.id] > 0
    /\ \A v \in Workers : \A d \in claims[v] : c.id = d.id => v = w /\ c = d

\* rounds_done runs at most one ahead of what has been posted, and only for a
\* claim that knows it.
ClaimBehind ==
  \A w \in Workers : \A c \in Unsent(w) :
    rounds[c.id] <= c.prev + 1 /\ c.prev <= Messages(c.id)

CountedRounds ==
  \A r \in Rows :
    (\A w \in Workers : \A c \in Unsent(w) : c.id # r) => rounds[r] <= Messages(r)

FirstPosted ==
  \A h \in Handlers : hpc[h] = "counting" => Messages(view[h].id) >= 1

\* A summary was due when it was posted.
Complete(r) == allAnswered[r] \/ Messages(r) >= MaxRounds + 1

SummariesDue ==
  \A w \in Workers : \A c \in claims[w] : c.at = "summarised" => Complete(c.id)

\* A tool that has inserted its row knows it.
KnowsItsRow == \A h \in Handlers : hpc[h] \in {"posting", "counting"} => view[h].id \in Rows

Exclusive == ServingOnly /\ OneClaim /\ KnowsItsRow

Accounted ==
  ClaimBehind /\ CountedRounds /\ FirstPosted /\ SummariesDue /\ EveryRoundPosted

\* What is inductive: claims are exclusive whatever fails, and as long as no
\* claim is lost with its holder, every round counted is accounted for.
RoundsInv == Exclusive /\ (~lost => Accounted)

\* A message more for run r is one more, up to a count no run needs; no other
\* run loses any.
LEMMA MessagesGrow ==
  ASSUME TypeOK, NEW r \in Rows, NEW seen, NEW done, Post(r, seen, done)
  PROVE  /\ \A q \in Rows : Messages(q)' >= Messages(q)
         /\ \A n \in 0 .. MaxRounds + 1 : Messages(r) >= n => Messages(r)' >= n + 1
         /\ \A q \in Rows : allAnswered[q] => allAnswered'[q]
         /\ ~seen.silent => allAnswered'[r]
<1> USE RollCallAssumption
<1>1. /\ questions \in [Rows -> 0 .. PostCap] /\ summaries \in [Rows -> 0 .. PostCap]
      /\ allAnswered \in [Rows -> BOOLEAN]
  BY DEF TypeOK
<1>2. PostCap \in Nat /\ PostCap = MaxRounds + 3
  BY DEF PostCap
<1>3. \/ /\ questions' = [questions EXCEPT ![r] = Counted(questions[r])]
         /\ summaries' = summaries
      \/ /\ summaries' = [summaries EXCEPT ![r] = Counted(summaries[r])]
         /\ questions' = questions
  BY DEF Post
<1>4. \A q \in Rows : questions[q] \in 0 .. PostCap /\ summaries[q] \in 0 .. PostCap
  BY <1>1
<1>5. /\ Counted(questions[r]) \in 0 .. PostCap /\ Counted(questions[r]) >= questions[r]
      /\ Counted(questions[r]) = questions[r] + 1 \/ Counted(questions[r]) = PostCap
      /\ Counted(summaries[r]) \in 0 .. PostCap /\ Counted(summaries[r]) >= summaries[r]
      /\ Counted(summaries[r]) = summaries[r] + 1 \/ Counted(summaries[r]) = PostCap
  BY <1>4, CountGrows
<1>6. \A q \in Rows : Messages(q)' >= Messages(q)
  <2>1. \A q \in Rows : questions'[q] >= questions[q] /\ summaries'[q] >= summaries[q]
                        /\ questions'[q] \in Nat /\ summaries'[q] \in Nat
    <3> SUFFICES ASSUME NEW q \in Rows
                 PROVE  /\ questions'[q] >= questions[q] /\ summaries'[q] >= summaries[q]
                        /\ questions'[q] \in Nat /\ summaries'[q] \in Nat
      OBVIOUS
    <3>1. \/ questions'[q] = questions[q]
          \/ q = r /\ questions'[q] = Counted(questions[r])
      BY <1>1, <1>3
    <3>2. \/ summaries'[q] = summaries[q]
          \/ q = r /\ summaries'[q] = Counted(summaries[r])
      BY <1>1, <1>3
    <3> QED
      BY <1>2, <1>4, <1>5, <3>1, <3>2
  <2> QED
    BY <1>2, <1>4, <2>1 DEF Messages
<1>7. \A n \in 0 .. MaxRounds + 1 : Messages(r) >= n => Messages(r)' >= n + 1
  <2>1. CASE questions'[r] = Counted(questions[r]) /\ summaries'[r] = summaries[r]
    BY <1>2, <1>4, <1>5, <2>1 DEF Messages
  <2>2. CASE summaries'[r] = Counted(summaries[r]) /\ questions'[r] = questions[r]
    BY <1>2, <1>4, <1>5, <2>2 DEF Messages
  <2> QED
    BY <1>1, <1>3, <2>1, <2>2
<1>8. allAnswered' = [allAnswered EXCEPT ![r] = @ \/ ~seen.silent]
  BY DEF Post
<1>9. \A q \in Rows : allAnswered[q] => allAnswered'[q]
  BY <1>1, <1>8, Zenon
<1>10. ~seen.silent => allAnswered'[r]
  BY <1>1, <1>8, Zenon
<1> QED
  BY <1>6, <1>7, <1>9, <1>10

\* Claims stay exclusive.
LEMMA ExclusiveStep ==
  ASSUME TypeOK, Exclusive, [Next]_vars
  PROVE  Exclusive'
<1> USE DEF Exclusive
<1>1. /\ claims \in [Workers -> SUBSET Claims]
      /\ wpc \in [Workers -> {"idle", "serving", "down"}]
      /\ rounds \in [Rows -> 0 .. MaxRounds + 1] /\ due \in [Rows -> Nat]
      /\ hpc \in [Handlers -> {"idle", "starting", "posting", "counting", "undoing"}]
      /\ view \in [Handlers -> Views]
  BY DEF TypeOK
<1>2. \A w \in Workers : \A c \in claims[w] :
        c.id \in Rows /\ \A at : [c EXCEPT !.at = at].id = c.id
  BY <1>1 DEF Claims
<1>3. ASSUME UNCHANGED <<due, worker>>
      PROVE  ServingOnly' /\ OneClaim'
  BY <1>3 DEF worker, ServingOnly, OneClaim
<1>4. ASSUME UNCHANGED tool
      PROVE  KnowsItsRow'
  BY <1>4 DEF tool, KnowsItsRow
<1>5. ASSUME NEW h \in Handlers, Return(h)
      PROVE  KnowsItsRow'
  BY <1>1, <1>5 DEF Return, KnowsItsRow
<1>6. ASSUME NEW h \in Handlers,
             Tool(h) \/ CutShort(h) \/ \E s \in Sessions : Nudge(h, s)
      PROVE  Exclusive'
  <2>1. CASE StartRollCall(h)
    <3>1. UNCHANGED <<due, worker>>
      BY <2>1 DEF StartRollCall
    <3>2. CASE \E r \in Fresh : /\ hpc' = [hpc EXCEPT ![h] = "posting"]
                                /\ view' = [view EXCEPT ![h].id = r]
      <4>1. PICK r \in Rows : /\ hpc' = [hpc EXCEPT ![h] = "posting"]
                              /\ view' = [view EXCEPT ![h].id = r]
        BY <3>2 DEF Fresh
      <4>2. view[h] \in Views
        BY <1>1
      <4>3. view'[h].id = r
        BY <1>1, <4>1, <4>2 DEF Views
      <4>4. KnowsItsRow'
        BY <1>1, <4>1, <4>3 DEF KnowsItsRow
      <4> QED
        BY <1>3, <3>1, <4>4
    <3> QED
      BY <1>3, <1>5, <2>1, <3>1, <3>2 DEF StartRollCall
  <2>2. CASE PostFirst(h)
    <3>1. KnowsItsRow'
      BY <1>1, <2>2 DEF PostFirst, KnowsItsRow
    <3> QED
      BY <1>3, <2>2, <3>1 DEF PostFirst, row
  <2>3. CASE FirstFails(h)
    <3>1. KnowsItsRow'
      BY <1>1, <2>3 DEF FirstFails, KnowsItsRow
    <3> QED
      BY <1>3, <2>3, <3>1 DEF FirstFails, row
  <2>4. CASE UndoNudge(h)
    BY <1>3, <1>5, <2>4 DEF UndoNudge
  <2>5. CASE CountFirst(h)
    <3>1. \A r \in Rows : due[r] > 0 => due'[r] > 0
      <4>1. NextGap(0) \in Nat \ {0}
        BY RollCallAssumption, Schedule
      <4>2. due' = due \/ due' = [due EXCEPT ![view[h].id] = NextGap(0)]
        BY <2>5 DEF CountFirst
      <4> QED
        BY <1>1, <4>1, <4>2
    <3>2. claims' = claims /\ wpc' = wpc
      BY <2>5 DEF CountFirst, worker
    <3>3. ServingOnly' /\ OneClaim'
      BY <1>2, <3>1, <3>2 DEF ServingOnly, OneClaim
    <3> QED
      BY <1>5, <2>5, <3>3 DEF CountFirst
  <2>6. CASE CutShort(h)
    BY <1>3, <1>5, <2>6 DEF CutShort, row
  <2>7. CASE \E s \in Sessions : Nudge(h, s)
    <3>1. KnowsItsRow'
      BY <1>1, <2>7 DEF Nudge, KnowsItsRow
    <3> QED
      BY <1>3, <2>7, <3>1 DEF Nudge, row
  <2> QED
    BY <1>6, <2>1, <2>2, <2>3, <2>4, <2>5, <2>6, <2>7 DEF Tool
<1>7. ASSUME NEW w \in Workers, Serve(w) \/ WorkerCrash(w)
      PROVE  Exclusive'
  <2>1. CASE ClaimRounds(w)
    <3> DEFINE now == {r \in Rows : IsDue(r)}
    <3>1. \A v \in Workers \ {w} : claims'[v] = claims[v]
      BY <1>1, <2>1 DEF ClaimRounds
    <3>2. \A c \in claims'[w] : /\ c.id \in now
                                /\ \A d \in claims'[w] : c.id = d.id => c = d
      BY <1>1, <2>1 DEF ClaimRounds
    <3>3. \A v \in Workers : \A d \in claims[v] : d.id \notin now
      BY DEF OneClaim, IsDue
    <3>4. \A r \in Rows : due'[r] = IF r \in now THEN NextGap(rounds[r]) ELSE due[r]
      BY <2>1 DEF ClaimRounds
    <3>5. \A r \in now : due'[r] > 0
      BY <1>1, <3>4, Schedule
    <3>6. OneClaim'
      BY <1>2, <3>1, <3>2, <3>3, <3>4, <3>5 DEF OneClaim
    <3>7. ServingOnly'
      BY <1>1, <2>1, <3>1 DEF ClaimRounds, ServingOnly
    <3> QED
      BY <1>4, <2>1, <3>6, <3>7 DEF ClaimRounds
  <2>2. ASSUME claims' = [claims EXCEPT ![w] = {}], UNCHANGED <<due, tool>>,
               \A v \in Workers \ {w} : wpc'[v] = wpc[v]
        PROVE  Exclusive'
    <3>1. OneClaim' /\ ServingOnly'
      BY <1>1, <2>2 DEF OneClaim, ServingOnly
    <3> QED
      BY <1>4, <2>2, <3>1
  <2>3. ASSUME NEW c \in claims[w],
               claims' = [claims EXCEPT ![w] = @ \ {c}], wpc' = wpc, UNCHANGED tool,
               \A r \in Rows \ {c.id} : due'[r] = due[r]
        PROVE  Exclusive'
    <3>1. \A v \in Workers : claims'[v] \subseteq claims[v] /\ c \notin claims'[w]
      BY <1>1, <2>3
    <3>2. \A v \in Workers : \A d \in claims'[v] : d.id # c.id
      BY <3>1 DEF OneClaim
    <3>3. OneClaim'
      BY <1>2, <2>3, <3>1, <3>2 DEF OneClaim
    <3>4. ServingOnly'
      BY <2>3, <3>1 DEF ServingOnly
    <3> QED
      BY <1>4, <2>3, <3>3, <3>4
  <2>4. ASSUME NEW c \in claims[w], NEW d, d.id = c.id,
               claims' = [claims EXCEPT ![w] = (@ \ {c}) \cup {d}],
               UNCHANGED <<due, wpc, tool>>
        PROVE  Exclusive'
    <3>1. \A v \in Workers : \A e \in claims'[v] :
            \/ e \in claims[v] /\ e.id # c.id
            \/ v = w /\ e = d
      BY <1>1, <2>4 DEF OneClaim
    <3>2. OneClaim'
      BY <2>4, <3>1 DEF OneClaim
    <3>3. ServingOnly'
      BY <1>1, <2>4 DEF ServingOnly
    <3> QED
      BY <1>4, <2>4, <3>2, <3>3
  <2>5. CASE AbandonStep(w)
    BY <2>2, <2>5 DEF AbandonStep, row
  <2>6. CASE WorkerCrash(w)
    BY <1>1, <2>2, <2>6 DEF WorkerCrash, row
  <2>7. CASE EndStep(w)
    <3>1. ServingOnly' /\ OneClaim'
      BY <1>1, <2>7 DEF EndStep, row, ServingOnly, OneClaim
    <3> QED
      BY <1>4, <2>7, <3>1 DEF EndStep
  <2>8. CASE WorkerRestart(w)
    <3>1. ServingOnly' /\ OneClaim'
      BY <1>1, <2>8 DEF WorkerRestart, row, ServingOnly, OneClaim
    <3> QED
      BY <1>4, <2>8, <3>1 DEF WorkerRestart
  <2>9. ASSUME NEW c \in claims[w], ReadRoster(w, c)
        PROVE  Exclusive'
    <3>1. [c EXCEPT !.at = "read", !.seen = RosterOf(owner[c.id])].id = c.id
      BY <1>1 DEF Claims
    <3> QED
      BY <2>4, <2>9, <3>1 DEF ReadRoster, row
  <2>10. ASSUME NEW c \in claims[w], SendRound(w, c)
         PROVE  Exclusive'
    BY <1>2, <2>3, <2>4, <2>10 DEF SendRound, Becomes, row
  <2>11. ASSUME NEW c \in claims[w], SendFails(w, c)
         PROVE  Exclusive'
    BY <1>2, <2>4, <2>11 DEF SendFails, Becomes, row
  <2>12. ASSUME NEW c \in claims[w], ReleaseClaim(w, c) \/ Finish(w, c)
         PROVE  Exclusive'
    <3>1. \A r \in Rows \ {c.id} : due'[r] = due[r]
      BY <1>1, <2>12 DEF ReleaseClaim, Finish
    <3> QED
      BY <2>3, <2>12, <3>1 DEF ReleaseClaim, Finish
  <2> QED
    BY <1>7, <2>1, <2>5, <2>6, <2>7, <2>8, <2>9, <2>10, <2>11, <2>12 DEF Serve
<1>8. CASE Tick
  <2>1. \A w \in Workers : claims[w] = {}
    BY <1>8 DEF Tick, ServingOnly
  <2>2. ServingOnly' /\ OneClaim'
    BY <1>8, <2>1 DEF Tick, worker, ServingOnly, OneClaim
  <2> QED
    BY <1>4, <1>8, <2>2 DEF Tick
<1>9. CASE \/ \E s \in Sessions, p \in People : Speak(s, p) \/ Answer(s, p)
           \/ \E s \in Sessions : CancelRollCalls(s)
           \/ UNCHANGED vars
  BY <1>3, <1>4, <1>9 DEF Speak, Answer, CancelRollCalls, vars, row
<1> QED
  BY <1>6, <1>7, <1>8, <1>9 DEF Next

\* A claim lost is never found again.
LEMMA LostStaysLost ==
  ASSUME [Next]_vars, lost
  PROVE  lost'
<1>1. ASSUME NEW w \in Workers, Serve(w) \/ WorkerCrash(w)
      PROVE  lost'
  BY <1>1 DEF Serve, ClaimRounds, AbandonStep, EndStep, WorkerRestart, WorkerCrash,
              ReadRoster, SendRound, SendFails, ReleaseClaim, Finish, faults
<1>2. ASSUME NEW h \in Handlers,
             Tool(h) \/ CutShort(h) \/ \E s \in Sessions : Nudge(h, s)
      PROVE  lost'
  BY <1>2 DEF Tool, CutShort, Nudge, StartRollCall, PostFirst, FirstFails, UndoNudge,
              CountFirst, faults
<1> QED
  BY <1>1, <1>2 DEF Next, Speak, Answer, CancelRollCalls, Tick, vars, faults

\* Every round counted stays accounted for.
LEMMA AccountedStep ==
  ASSUME TypeOK, TypeOK', Exclusive, ~lost, ~lost', Accounted, [Next]_vars
  PROVE  Accounted'
<1> USE RollCallAssumption DEF Accounted
<1>1. /\ claims \in [Workers -> SUBSET Claims]
      /\ wpc \in [Workers -> {"idle", "serving", "down"}]
      /\ rounds \in [Rows -> 0 .. MaxRounds + 1] /\ due \in [Rows -> Nat]
      /\ state \in [Rows -> {"none", "active", "done", "cancelled"}]
      /\ hpc \in [Handlers -> {"idle", "starting", "posting", "counting", "undoing"}]
      /\ view \in [Handlers -> Views]
      /\ crashes \in 0 .. MaxCrashes
  BY DEF TypeOK
<1>2. \A r \in Rows : Messages(r) \in Nat /\ Messages(r)' \in Nat
  BY DEF TypeOK, Messages, PostCap
<1>3. \A w \in Workers : \A c \in claims[w] :
        /\ c \in Claims /\ c.id \in Rows /\ c.prev \in 0 .. MaxRounds + 1
        /\ \A at : /\ [c EXCEPT !.at = at].id = c.id
                   /\ [c EXCEPT !.at = at].prev = c.prev
                   /\ [c EXCEPT !.at = at].at = at
  <2> SUFFICES ASSUME NEW w \in Workers, NEW c \in claims[w]
               PROVE  /\ c \in Claims /\ c.id \in Rows /\ c.prev \in 0 .. MaxRounds + 1
                      /\ \A at : /\ [c EXCEPT !.at = at].id = c.id
                                 /\ [c EXCEPT !.at = at].prev = c.prev
                                 /\ [c EXCEPT !.at = at].at = at
    OBVIOUS
  <2>1. c \in Claims
    BY <1>1
  <2> QED
    BY <2>1 DEF Claims
\* Steps that post nothing, count nothing and finish nothing.
<1>4. ASSUME UNCHANGED <<rounds, claims, history>>,
             \A r \in Rows : state'[r] = "done" => state[r] = "done",
             \A h \in Handlers : hpc'[h] = "counting" =>
               hpc[h] = "counting" /\ view'[h].id = view[h].id
      PROVE  Accounted'
  <2>1. \A r \in Rows : Messages(r)' = Messages(r) /\ allAnswered'[r] = allAnswered[r]
    BY <1>4 DEF Messages, history
  <2>2. \A w \in Workers : Unsent(w)' = Unsent(w)
    BY <1>4 DEF Unsent
  <2>3. ClaimBehind' /\ CountedRounds' /\ SummariesDue'
    <3>1. ClaimBehind'
      BY <1>3, <1>4, <2>1, <2>2 DEF ClaimBehind, Unsent
    <3>2. CountedRounds'
      BY <1>4, <2>1, <2>2 DEF CountedRounds
    <3>3. SummariesDue'
      BY <1>3, <1>4, <2>1 DEF SummariesDue, Complete
    <3> QED
      BY <3>1, <3>2, <3>3
  <2>4. FirstPosted'
    BY <1>4, <2>1 DEF FirstPosted, Messages, history
  <2>5. EveryRoundPosted'
    BY <1>4 DEF EveryRoundPosted, history
  <2> QED
    BY <2>3, <2>4, <2>5
<1>5. ASSUME NEW h \in Handlers, Return(h)
      PROVE  \A g \in Handlers : hpc'[g] = "counting" =>
               hpc[g] = "counting" /\ view'[g].id = view[g].id
  BY <1>1, <1>5 DEF Return
<1>6. ASSUME UNCHANGED tool
      PROVE  \A g \in Handlers : hpc'[g] = "counting" =>
               hpc[g] = "counting" /\ view'[g].id = view[g].id
  BY <1>6 DEF tool
\* A message more breaks nothing.
<1>7. ASSUME \A r \in Rows : /\ Messages(r)' >= Messages(r)
                             /\ allAnswered[r] => allAnswered'[r]
      PROVE  /\ \A r \in Rows, n \in 0 .. MaxRounds + 1 : Messages(r) >= n => Messages(r)' >= n
             /\ \A r \in Rows : Complete(r) => Complete(r)'
             /\ state' = state => EveryRoundPosted'
  <2>1. \A r \in Rows, n \in 0 .. MaxRounds + 1 : Messages(r) >= n => Messages(r)' >= n
    BY <1>2, <1>7
  <2>2. \A r \in Rows : Complete(r) => Complete(r)'
    BY <1>7, <2>1 DEF Complete
  <2>3. state' = state => EveryRoundPosted'
    BY <2>2 DEF EveryRoundPosted, Complete, Messages
  <2> QED
    BY <2>1, <2>2, <2>3
<1>8. CASE \/ \E s \in Sessions, p \in People : Speak(s, p) \/ Answer(s, p)
           \/ \E s \in Sessions : CancelRollCalls(s)
           \/ Tick
           \/ UNCHANGED vars
  <2>1. UNCHANGED <<rounds, claims, history>> /\ UNCHANGED tool
    BY <1>8 DEF Speak, Answer, CancelRollCalls, Tick, vars, row, worker
  <2>2. \A r \in Rows : state'[r] = "done" => state[r] = "done"
    BY <1>1, <1>8 DEF Speak, Answer, CancelRollCalls, Cancelled, Tick, vars, row
  <2> QED
    BY <1>4, <1>6, <2>1, <2>2
<1>9. ASSUME NEW h \in Handlers,
             \/ StartRollCall(h) \/ UndoNudge(h) \/ CutShort(h)
             \/ FirstFails(h) /\ UNCHANGED history
             \/ \E s \in Sessions : Nudge(h, s)
      PROVE  Accounted'
  <2>1. UNCHANGED <<rounds, claims, history>>
    BY <1>9 DEF StartRollCall, FirstFails, UndoNudge, CutShort, Nudge, row, worker
  <2>2. \A r \in Rows : state'[r] = "done" => state[r] = "done"
    BY <1>1, <1>9 DEF StartRollCall, FirstFails, UndoNudge, Cancelled, CutShort, Nudge, row
  <2>3. \A g \in Handlers : hpc'[g] = "counting" =>
          hpc[g] = "counting" /\ view'[g].id = view[g].id
    <3>1. CASE Return(h)
      BY <1>5, <3>1
    <3>2. CASE ~Return(h)
      BY <1>1, <1>9, <3>2 DEF StartRollCall, FirstFails, UndoNudge, CutShort, Nudge
    <3> QED
      BY <3>1, <3>2
  <2> QED
    BY <1>4, <2>1, <2>2, <2>3
<1>10. ASSUME NEW h \in Handlers,
              \/ PostFirst(h)
              \/ FirstFails(h) /\ Post(view[h].id, view[h].seen, 0)
       PROVE  Accounted'
  <2>1. view[h].id \in Rows
    BY <1>10 DEF PostFirst, FirstFails, Exclusive, KnowsItsRow
  <2>2. /\ \A q \in Rows : Messages(q)' >= Messages(q)
        /\ \A n \in 0 .. MaxRounds + 1 : Messages(view[h].id) >= n => Messages(view[h].id)' >= n + 1
        /\ \A q \in Rows : allAnswered[q] => allAnswered'[q]
    <3>1. PICK r \in Rows : r = view[h].id
      BY <2>1
    <3>2. Post(r, view[h].seen, 0) /\ UNCHANGED view
      BY <1>10, <3>1 DEF PostFirst, FirstFails
    <3> QED
      BY <3>1, <3>2, MessagesGrow
  <2>3. UNCHANGED <<rounds, claims, state, view>>
    BY <1>10 DEF PostFirst, FirstFails, row, worker
  <2>4. FirstPosted'
    <3>1. Messages(view[h].id)' >= 1
      <4>1. 0 \in 0 .. MaxRounds + 1 /\ Messages(view[h].id) >= 0
        BY <1>2, <2>1
      <4>2. Messages(view[h].id)' >= 0 + 1
        BY <2>2, <4>1
      <4> QED
        BY <4>2
    <3>2. \A g \in Handlers : hpc[g] = "counting" => Messages(view[g].id)' >= 1
      <4>1. \A g \in Handlers : hpc[g] = "counting" =>
              view[g].id \in Rows /\ Messages(view[g].id) >= 1
        BY DEF FirstPosted, Exclusive, KnowsItsRow
      <4>2. \A r \in Rows : Messages(r) >= 1 => Messages(r)' >= 1
        BY <1>2, <2>2
      <4>3. \A g \in Handlers : hpc[g] = "counting" =>
              questions'[view[g].id] + summaries'[view[g].id] >= 1
        BY <4>1, <4>2 DEF Messages
      <4> QED
        BY <2>3, <4>3 DEF Messages
    <3>3. \A g \in Handlers : hpc'[g] = "counting" => g = h \/ hpc[g] = "counting"
      BY <1>1, <1>10 DEF PostFirst, FirstFails
    <3> QED
      BY <2>3, <3>1, <3>2, <3>3 DEF FirstPosted, Messages
  <2>5. ClaimBehind' /\ CountedRounds' /\ SummariesDue' /\ EveryRoundPosted'
    <3>1. \A w \in Workers : Unsent(w)' = Unsent(w) /\ Unsent(w) \subseteq claims[w]
      BY <2>3 DEF Unsent
    <3>2. ClaimBehind'
      BY <1>3, <1>7, <2>2, <2>3, <3>1 DEF ClaimBehind
    <3>3. CountedRounds'
      BY <1>1, <1>7, <2>2, <2>3, <3>1 DEF CountedRounds
    <3>4. SummariesDue'
      BY <1>3, <1>7, <2>2, <2>3 DEF SummariesDue
    <3> QED
      BY <1>7, <2>2, <2>3, <3>2, <3>3, <3>4
  <2> QED
    BY <2>4, <2>5
<1>11. ASSUME NEW h \in Handlers, CountFirst(h)
       PROVE  Accounted'
  <2>1. UNCHANGED <<claims, state, history>>
    BY <1>11 DEF CountFirst, worker
  <2>2. /\ view[h].id \in Rows /\ Messages(view[h].id) >= 1
        /\ \/ rounds' = rounds
           \/ rounds' = [rounds EXCEPT ![view[h].id] = 1]
    BY <1>11 DEF CountFirst, Exclusive, KnowsItsRow, FirstPosted
  <2>3. \A r \in Rows : Messages(r)' = Messages(r) /\ allAnswered'[r] = allAnswered[r]
    BY <2>1 DEF Messages, history
  <2>4. \A w \in Workers : Unsent(w)' = Unsent(w) /\ Unsent(w) \subseteq claims[w]
    BY <2>1 DEF Unsent
  <2>5. \A r \in Rows : rounds'[r] = rounds[r] \/ (r = view[h].id /\ rounds'[r] = 1)
    BY <1>1, <2>2
  <2>6. ClaimBehind'
    <3>1. ASSUME NEW w \in Workers, NEW c \in Unsent(w)
          PROVE  rounds'[c.id] <= c.prev + 1 /\ c.prev <= Messages(c.id)'
      <4>1. /\ c.id \in Rows /\ c.prev \in 0 .. MaxRounds + 1
            /\ rounds[c.id] <= c.prev + 1 /\ c.prev <= Messages(c.id)
        BY <1>3, <2>4 DEF ClaimBehind
      <4> QED
        BY <2>3, <2>5, <4>1
    <3> QED
      BY <2>4, <3>1 DEF ClaimBehind
  <2>7. CountedRounds'
    BY <1>1, <2>2, <2>3, <2>4, <2>5 DEF CountedRounds
  <2>8. SummariesDue' /\ EveryRoundPosted'
    BY <1>3, <2>1, <2>3 DEF SummariesDue, EveryRoundPosted, Complete, history, Messages
  <2>9. FirstPosted'
    <3>1. Return(h)
      BY <1>11 DEF CountFirst
    <3> QED
      BY <1>5, <2>1, <3>1 DEF FirstPosted, Messages, history
  <2> QED
    BY <2>6, <2>7, <2>8, <2>9
<1>12. ASSUME NEW w \in Workers, ClaimRounds(w)
       PROVE  Accounted'
  <2> DEFINE now == {r \in Rows : IsDue(r)}
  <2>1. UNCHANGED <<state, tool, history>>
    BY <1>12 DEF ClaimRounds
  <2>2. \A r \in Rows : Messages(r)' = Messages(r) /\ allAnswered'[r] = allAnswered[r]
    BY <2>1 DEF Messages, history
  <2>3. \A r \in Rows : rounds'[r] = IF r \in now THEN Advance(rounds[r]) ELSE rounds[r]
    BY <1>12 DEF ClaimRounds
  <2>4. /\ claims[w] = {}
        /\ \A v \in Workers \ {w} : claims'[v] = claims[v] /\ Unsent(v)' = Unsent(v)
        /\ \A c \in claims'[w] : c.id \in now /\ c.prev = rounds[c.id] /\ c.at = "claimed"
        /\ \A r \in now : \E c \in claims'[w] : c.id = r /\ c.at = "claimed"
    <3>1. claims[w] = {}
      BY <1>12 DEF ClaimRounds, Exclusive, ServingOnly
    <3>2. claims' = [claims EXCEPT ![w] =
            {[id |-> r, prev |-> rounds[r], at |-> "claimed", seen |-> Unread] : r \in now}]
      BY <1>12 DEF ClaimRounds
    <3>3. claims'[w] =
            {[id |-> r, prev |-> rounds[r], at |-> "claimed", seen |-> Unread] : r \in now}
      BY <1>1, <3>2
    <3>4. \A v \in Workers \ {w} : claims'[v] = claims[v] /\ Unsent(v)' = Unsent(v)
      BY <1>1, <3>2 DEF Unsent
    <3>5. \A c \in claims'[w] : c.id \in now /\ c.prev = rounds[c.id] /\ c.at = "claimed"
      BY <3>3
    <3>6. \A r \in now : \E c \in claims'[w] : c.id = r /\ c.at = "claimed"
      <4> SUFFICES ASSUME NEW r \in now
                   PROVE  \E c \in claims'[w] : c.id = r /\ c.at = "claimed"
        OBVIOUS
      <4>1. [id |-> r, prev |-> rounds[r], at |-> "claimed", seen |-> Unread] \in claims'[w]
        BY <3>3
      <4> QED
        BY <4>1
    <3> QED
      BY <3>1, <3>4, <3>5, <3>6
  <2>5. \A v \in Workers : \A c \in claims[v] : c.id \notin now
    BY DEF Exclusive, OneClaim, IsDue
  <2>6. \A r \in now : rounds[r] <= Messages(r)
    BY <2>5 DEF CountedRounds, Unsent
  <2>7. ClaimBehind'
    <3>1. ASSUME NEW c \in claims'[w]
          PROVE  rounds'[c.id] <= c.prev + 1 /\ c.prev <= Messages(c.id)'
      <4>1. c.id \in now /\ c.id \in Rows /\ c.prev = rounds[c.id]
        BY <2>4
      <4>2. rounds[c.id] \in 0 .. MaxRounds + 1
        BY <1>1, <4>1
      <4>3. rounds'[c.id] = Advance(rounds[c.id]) /\ Advance(rounds[c.id]) <= rounds[c.id] + 1
        BY <2>3, <4>1, <4>2, Schedule
      <4> QED
        BY <2>2, <2>6, <4>1, <4>3
    <3>2. ASSUME NEW v \in Workers \ {w}, NEW c \in Unsent(v)
          PROVE  rounds'[c.id] <= c.prev + 1 /\ c.prev <= Messages(c.id)'
      <4>1. c \in claims[v] /\ c.id \in Rows
        BY <1>3 DEF Unsent
      <4> QED
        BY <2>2, <2>3, <2>5, <4>1 DEF ClaimBehind
    <3> QED
      BY <2>4, <3>1, <3>2 DEF ClaimBehind, Unsent
  <2>8. CountedRounds'
    <3> SUFFICES ASSUME NEW r \in Rows, \A v \in Workers : \A c \in Unsent(v)' : c.id # r
                 PROVE  rounds'[r] <= Messages(r)'
      BY DEF CountedRounds
    <3>1. r \notin now
      BY <2>4 DEF Unsent
    <3>2. \A v \in Workers : \A c \in Unsent(v) : c.id # r
      BY <2>4 DEF Unsent
    <3> QED
      BY <2>2, <2>3, <3>1, <3>2 DEF CountedRounds
  <2>9. SummariesDue'
    BY <1>3, <2>2, <2>4 DEF SummariesDue, Complete
  <2>10. FirstPosted' /\ EveryRoundPosted'
    BY <2>1 DEF FirstPosted, EveryRoundPosted, Messages, tool, history
  <2> QED
    BY <2>7, <2>8, <2>9, <2>10
\* Serving one claim: what happens to the others.
<1>13. ASSUME NEW w \in Workers, NEW c \in claims[w],
              claims' = [claims EXCEPT ![w] = @ \ {c}]
       PROVE  /\ \A v \in Workers : claims'[v] \subseteq claims[v] /\ Unsent(v)' \subseteq Unsent(v)
              /\ \A v \in Workers : \A d \in claims'[v] : d.id # c.id
              /\ \A v \in Workers : \A d \in Unsent(v) : d \in Unsent(v)' \/ d = c
  <2>1. /\ claims'[w] = claims[w] \ {c}
        /\ \A v \in Workers \ {w} : claims'[v] = claims[v]
    BY <1>1, <1>13
  <2> QED
    BY <2>1 DEF Unsent, Exclusive, OneClaim
\* A claim that stays unsent keeps its place, whatever was posted.
<1>14. ASSUME NEW w \in Workers, NEW c \in Unsent(w), NEW d,
              d.id = c.id, d.prev = c.prev, d.at # "summarised",
              claims' = [claims EXCEPT ![w] = (@ \ {c}) \cup {d}],
              UNCHANGED <<rounds, state, tool>>,
              \A r \in Rows : /\ Messages(r)' >= Messages(r)
                              /\ allAnswered[r] => allAnswered'[r]
       PROVE  Accounted'
  <2>1. c \in claims[w] /\ c.id \in Rows
    BY <1>3 DEF Unsent
  <2>2. /\ \A v \in Workers : \A e \in claims'[v] :
             (e \in claims[v] /\ e.id # c.id) \/ (v = w /\ e = d)
        /\ d \in claims'[w]
        /\ \A v \in Workers : \A e \in Unsent(v) : e \in Unsent(v)' \/ e = c
    <3>1. /\ claims'[w] = (claims[w] \ {c}) \cup {d}
          /\ \A v \in Workers \ {w} : claims'[v] = claims[v]
      BY <1>1, <1>14
    <3> QED
      BY <2>1, <3>1 DEF Unsent, Exclusive, OneClaim
  <2>3. ClaimBehind'
    <3>1. rounds'[d.id] <= d.prev + 1 /\ d.prev <= Messages(d.id)'
      BY <1>3, <1>7, <1>14, <2>1 DEF ClaimBehind
    <3>2. \A v \in Workers : \A e \in Unsent(v) :
            rounds'[e.id] <= e.prev + 1 /\ e.prev <= Messages(e.id)'
      BY <1>3, <1>7, <1>14 DEF ClaimBehind, Unsent
    <3> QED
      BY <2>2, <3>1, <3>2 DEF ClaimBehind, Unsent
  <2>4. CountedRounds'
    <3> SUFFICES ASSUME NEW r \in Rows, \A v \in Workers : \A e \in Unsent(v)' : e.id # r
                 PROVE  rounds'[r] <= Messages(r)'
      BY DEF CountedRounds
    <3>1. d \in Unsent(w)'
      BY <1>14, <2>2 DEF Unsent
    <3>2. \A v \in Workers : \A e \in Unsent(v) : e.id # r
      BY <1>14, <2>2, <3>1
    <3> QED
      BY <1>1, <1>7, <1>14, <3>2 DEF CountedRounds
  <2>5. SummariesDue'
    BY <1>3, <1>7, <1>14, <2>2 DEF SummariesDue
  <2>6. FirstPosted'
    BY <1>7, <1>14 DEF FirstPosted, tool, Exclusive, KnowsItsRow
  <2> QED
    BY <1>7, <1>14, <2>3, <2>4, <2>5, <2>6
<1>15. ASSUME NEW w \in Workers, NEW c \in claims[w], ReadRoster(w, c)
       PROVE  Accounted'
  <2> DEFINE d == [c EXCEPT !.at = "read", !.seen = RosterOf(owner[c.id])]
  <2>1. d.id = c.id /\ d.prev = c.prev /\ d.at = "read" /\ c \in Unsent(w)
    BY <1>3, <1>15 DEF ReadRoster, Untouched, Unsent, Claims
  <2>2. UNCHANGED <<rounds, state, tool, history>>
    BY <1>15 DEF ReadRoster, row
  <2>3. \A r \in Rows : Messages(r)' >= Messages(r) /\ (allAnswered[r] => allAnswered'[r])
    BY <1>2, <2>2 DEF Messages, history
  <2>4. claims' = [claims EXCEPT ![w] = (@ \ {c}) \cup {d}]
    BY <1>15 DEF ReadRoster
  <2> QED
    BY <1>14, <2>1, <2>2, <2>3, <2>4
<1>16. ASSUME NEW w \in Workers, NEW c \in claims[w], SendFails(w, c)
       PROVE  Accounted'
  <2>1. c.id \in Rows /\ c \in Unsent(w)
    BY <1>3, <1>16 DEF SendFails, Unsent
  <2>2. \A r \in Rows : Messages(r)' >= Messages(r) /\ (allAnswered[r] => allAnswered'[r])
    <3>1. CASE Post(c.id, c.seen, c.prev)
      BY <2>1, <3>1, MessagesGrow
    <3>2. CASE UNCHANGED history
      BY <1>2, <3>2 DEF Messages, history
    <3> QED
      BY <1>16, <3>1, <3>2 DEF SendFails
  <2>3. UNCHANGED <<rounds, state, tool>>
    BY <1>16 DEF SendFails, row
  <2>4. claims' = [claims EXCEPT ![w] = (@ \ {c}) \cup {[c EXCEPT !.at = "failed"]}]
    BY <1>16 DEF SendFails, Becomes
  <2> DEFINE d == [c EXCEPT !.at = "failed"]
  <2>5. d.id = c.id /\ d.prev = c.prev /\ d.at # "summarised"
    BY <1>3
  <2> HIDE DEF d
  <2>6. claims' = [claims EXCEPT ![w] = (@ \ {c}) \cup {d}]
    BY <2>4 DEF d
  <2> QED
    BY <1>14, <2>1, <2>2, <2>3, <2>5, <2>6
<1>17. ASSUME NEW w \in Workers, NEW c \in claims[w], SendRound(w, c)
       PROVE  Accounted'
  <2>1. /\ c.id \in Rows /\ c \in Unsent(w) /\ c.prev \in 0 .. MaxRounds + 1
        /\ c.prev <= Messages(c.id) /\ rounds[c.id] <= c.prev + 1
    BY <1>3, <1>17 DEF SendRound, Unsent, ClaimBehind
  <2>2. /\ \A q \in Rows : Messages(q)' >= Messages(q)
        /\ \A n \in 0 .. MaxRounds + 1 : Messages(c.id) >= n => Messages(c.id)' >= n + 1
        /\ \A q \in Rows : allAnswered[q] => allAnswered'[q]
        /\ ~c.seen.silent => allAnswered'[c.id]
    BY <1>17, <2>1, MessagesGrow DEF SendRound
  <2>3. UNCHANGED <<rounds, state, tool>>
    BY <1>17 DEF SendRound, row
  <2>4. Messages(c.id)' >= c.prev + 1 /\ rounds'[c.id] <= Messages(c.id)'
    BY <1>1, <1>2, <2>1, <2>2, <2>3
  <2>5. Summarises(c.seen, c.prev) => Complete(c.id)'
    BY <1>2, <2>1, <2>2, <2>4 DEF Summarises, Spent, Complete
  <2> DEFINE d == [c EXCEPT !.at = "summarised"]
  <2>6. /\ \A v \in Workers : \A e \in claims'[v] :
             (e \in claims[v] /\ e.id # c.id) \/ (v = w /\ e = d /\ Summarises(c.seen, c.prev))
        /\ \A v \in Workers : \A e \in Unsent(v) : e \in Unsent(v)' \/ e = c
    <3>1. CASE Summarises(c.seen, c.prev)
      <4>1. claims' = [claims EXCEPT ![w] = (@ \ {c}) \cup {d}]
        BY <1>17, <3>1 DEF SendRound, Becomes
      <4>2. d.id = c.id
        BY <1>3
      <4> HIDE DEF d
      <4>3. /\ claims'[w] = (claims[w] \ {c}) \cup {d}
            /\ \A v \in Workers \ {w} : claims'[v] = claims[v]
        BY <1>1, <4>1
      <4> QED
        BY <3>1, <4>2, <4>3 DEF Unsent, Exclusive, OneClaim
    <3>2. CASE ~Summarises(c.seen, c.prev)
      BY <1>13, <1>17, <3>2 DEF SendRound
    <3> QED
      BY <3>1, <3>2
  <2>7. ClaimBehind'
    <3>1. \A v \in Workers : \A e \in Unsent(v) :
            rounds'[e.id] <= e.prev + 1 /\ e.prev <= Messages(e.id)'
      BY <1>3, <1>7, <2>2, <2>3 DEF ClaimBehind, Unsent
    <3>2. d.at = "summarised"
      BY <1>3
    <3> HIDE DEF d
    <3>3. \A v \in Workers : \A e \in Unsent(v)' : e \in Unsent(v)
      BY <2>6, <3>2 DEF Unsent
    <3> QED
      BY <3>1, <3>3 DEF ClaimBehind
  <2>8. CountedRounds'
    <3> SUFFICES ASSUME NEW r \in Rows, \A v \in Workers : \A e \in Unsent(v)' : e.id # r
                 PROVE  rounds'[r] <= Messages(r)'
      BY DEF CountedRounds
    <3>1. CASE r = c.id
      BY <2>4, <3>1
    <3>2. CASE r # c.id
      <4>1. \A v \in Workers : \A e \in Unsent(v) : e.id # r
        BY <2>6, <3>2
      <4> QED
        BY <1>1, <1>7, <2>2, <2>3, <4>1 DEF CountedRounds
    <3> QED
      BY <3>1, <3>2
  <2>9. SummariesDue'
    <3>1. \A v \in Workers : \A e \in claims[v] : e.at = "summarised" => Complete(e.id)'
      BY <1>3, <1>7, <2>2 DEF SummariesDue
    <3>2. d.id = c.id
      BY <1>3
    <3> HIDE DEF d
    <3> QED
      BY <2>5, <2>6, <3>1, <3>2 DEF SummariesDue
  <2>10. FirstPosted'
    BY <1>7, <2>2, <2>3 DEF FirstPosted, tool, Exclusive, KnowsItsRow
  <2> QED
    BY <1>7, <2>2, <2>3, <2>7, <2>8, <2>9, <2>10
<1>18. ASSUME NEW w \in Workers, NEW c \in claims[w], ReleaseClaim(w, c)
       PROVE  Accounted'
  <2>1. c.id \in Rows /\ c.prev \in 0 .. MaxRounds + 1 /\ c.prev <= Messages(c.id)
    BY <1>3, <1>18 DEF ReleaseClaim, ClaimBehind, Unsent
  <2>2. UNCHANGED <<state, tool, history>>
    BY <1>18 DEF ReleaseClaim
  <2>3. \A r \in Rows : rounds'[r] = IF r = c.id THEN c.prev ELSE rounds[r]
    BY <1>1, <1>18 DEF ReleaseClaim, Restored
  <2>4. /\ \A v \in Workers : claims'[v] \subseteq claims[v] /\ Unsent(v)' \subseteq Unsent(v)
        /\ \A v \in Workers : \A d \in claims'[v] : d.id # c.id
        /\ \A v \in Workers : \A d \in Unsent(v) : d \in Unsent(v)' \/ d = c
    BY <1>13, <1>18 DEF ReleaseClaim
  <2>5. \A r \in Rows : Messages(r)' = Messages(r) /\ allAnswered'[r] = allAnswered[r]
    BY <2>2 DEF Messages, history
  <2>6. ClaimBehind'
    BY <1>3, <2>3, <2>4, <2>5 DEF ClaimBehind, Unsent
  <2>7. CountedRounds'
    <3> SUFFICES ASSUME NEW r \in Rows, \A v \in Workers : \A e \in Unsent(v)' : e.id # r
                 PROVE  rounds'[r] <= Messages(r)'
      BY DEF CountedRounds
    <3>1. CASE r # c.id
      BY <2>3, <2>4, <2>5, <3>1 DEF CountedRounds
    <3> QED
      BY <2>1, <2>3, <2>5, <3>1
  <2>8. SummariesDue'
    BY <1>3, <2>4, <2>5 DEF SummariesDue, Complete
  <2>9. FirstPosted' /\ EveryRoundPosted'
    BY <2>2 DEF FirstPosted, EveryRoundPosted, Messages, tool, history
  <2> QED
    BY <2>6, <2>7, <2>8, <2>9
<1>19. ASSUME NEW w \in Workers, NEW c \in claims[w], Finish(w, c)
       PROVE  Accounted'
  <2>1. c.id \in Rows /\ Complete(c.id)
    BY <1>3, <1>19 DEF Finish, SummariesDue
  <2>2. UNCHANGED <<rounds, tool, history>>
    BY <1>19 DEF Finish
  <2>3. /\ \A v \in Workers : claims'[v] \subseteq claims[v] /\ Unsent(v)' \subseteq Unsent(v)
        /\ \A v \in Workers : \A d \in Unsent(v) : d \in Unsent(v)' \/ d = c
    BY <1>13, <1>19 DEF Finish
  <2>4. \A v \in Workers : Unsent(v)' = Unsent(v)
    BY <1>3, <1>19, <2>3 DEF Finish, Unsent, Exclusive, OneClaim
  <2>5. \A r \in Rows : Messages(r)' = Messages(r) /\ allAnswered'[r] = allAnswered[r]
    BY <2>2 DEF Messages, history
  <2>6. ClaimBehind' /\ CountedRounds' /\ SummariesDue'
    BY <1>3, <2>2, <2>3, <2>4, <2>5
       DEF ClaimBehind, CountedRounds, SummariesDue, Complete, Unsent
  <2>7. EveryRoundPosted'
    <3>1. \A r \in Rows : state'[r] = "done" => state[r] = "done" \/ r = c.id
      BY <1>1, <1>19 DEF Finish
    <3> QED
      BY <2>1, <2>2, <3>1 DEF EveryRoundPosted, Complete, Messages, history
  <2>8. FirstPosted'
    BY <2>2 DEF FirstPosted, Messages, tool, history
  <2> QED
    BY <2>6, <2>7, <2>8
<1>20. ASSUME NEW w \in Workers, EndStep(w) \/ WorkerRestart(w)
       PROVE  Accounted'
  BY <1>4, <1>6, <1>20 DEF EndStep, WorkerRestart, row
<1>21. ASSUME NEW w \in Workers
       PROVE  ~AbandonStep(w)
  BY DEF AbandonStep
\* A worker that dies with no claim in hand loses nothing.
<1>22. ASSUME NEW w \in Workers, WorkerCrash(w)
       PROVE  Accounted'
  <2>1. claims[w] = {}
    BY <1>22 DEF WorkerCrash
  <2>2. claims' = claims
    BY <1>1, <1>22, <2>1 DEF WorkerCrash
  <2> QED
    BY <1>4, <1>6, <1>22, <2>2 DEF WorkerCrash, row
<1> QED
  BY <1>8, <1>9, <1>10, <1>11, <1>12, <1>15, <1>16, <1>17, <1>18, <1>19, <1>20, <1>21, <1>22
     DEF Next, Tool, Serve, FirstFails

\* No round is lost to a failed send, to a late count or to a race of the tool
\* and the worker, as long as no claim is lost with its holder.
THEOREM NoRoundLost == Spec => []EveryRoundPosted
<1>1. Init => RoundsInv
  BY RollCallAssumption
     DEF Init, RoundsInv, Exclusive, ServingOnly, OneClaim, KnowsItsRow, Accounted,
         ClaimBehind, CountedRounds, FirstPosted, SummariesDue, EveryRoundPosted, Unsent,
         Messages
<1>2. TypeOK /\ TypeOK' /\ RoundsInv /\ [Next]_vars => RoundsInv'
  BY ExclusiveStep, AccountedStep, LostStaysLost DEF RoundsInv
<1>3. RoundsInv => EveryRoundPosted
  BY DEF RoundsInv, Accounted, EveryRoundPosted
<1> QED
  BY <1>1, <1>2, <1>3, Typing, PTL DEF Spec

-----------------------------------------------------------------------------
\* Why racing for the first round costs one question at most, while no send
\* raises.

\* The tool is between inserting its row and counting the round it posts.
First(h) == hpc[h] \in {"posting", "counting"}

\* Questions still to come: the tool's, and that of a claim in hand.
Opens(r) == \E h \in Handlers : hpc[h] = "posting" /\ view[h].id = r
Asks(r) == \E w \in Workers : \E c \in claims[w] :
  c.id = r /\ c.at # "summarised" /\ c.prev < MaxRounds

NoneFailed == \A w \in Workers : \A c \in claims[w] : c.at # "failed"

\* A row nobody inserted yet is clean.
NotBegun == \A r \in Rows : state[r] = "none" =>
  /\ rounds[r] = 0 /\ questions[r] = 0
  /\ \A w \in Workers : \A c \in claims[w] : c.id # r

\* A row has one tool, and while that is busy with the first round the worker
\* has claimed that round at most: the next is a gap away.
FirstAlone == \A h \in Handlers : First(h) =>
  /\ view[h].id \in Rows /\ state[view[h].id] # "none"
  /\ rounds[view[h].id] = 0 \/ (rounds[view[h].id] = 1 /\ due[view[h].id] > 0)
  /\ \A g \in Handlers : First(g) /\ view[g].id = view[h].id => g = h

\* Questions posted and to come, against the rounds counted.
ToCome(r) == (IF Opens(r) THEN 1 ELSE 0) + (IF Asks(r) THEN 1 ELSE 0)
Allowed(r) == (IF rounds[r] < MaxRounds THEN rounds[r] ELSE MaxRounds) + 1
WithinRounds == \A r \in Rows : questions[r] + ToCome(r) <= Allowed(r)

ExtraInv == NoneFailed /\ NotBegun /\ FirstAlone /\ WithinRounds

RaceInv == Exclusive /\ (~CanFail => ExtraInv)

\* What is compared are numbers.
LEMMA Numbers ==
  ASSUME TypeOK
  PROVE  \A r \in Rows : questions[r] \in Nat /\ ToCome(r) \in 0 .. 2 /\ Allowed(r) \in Nat
BY RollCallAssumption DEF TypeOK, PostCap, ToCome, Allowed

\* A step that asks nothing, counts nothing, inserts nothing and claims nothing.
LEMMA NothingAsked ==
  ASSUME TypeOK, ExtraInv, UNCHANGED <<rounds, questions>>,
         \A r \in Rows : state'[r] = "none" <=> state[r] = "none",
         \A h \in Handlers : First(h)' =>
           First(h) /\ view'[h].id = view[h].id /\ due'[view[h].id] = due[view[h].id],
         \A r \in Rows : Opens(r)' => Opens(r),
         \A w \in Workers : \A d \in claims'[w] : \E c \in claims[w] :
           /\ d.id = c.id /\ d.prev = c.prev
           /\ d.at # "failed" /\ (d.at # "summarised" => c.at # "summarised")
  PROVE  ExtraInv'
<1> USE DEF ExtraInv
<1>1. NoneFailed'
  BY DEF NoneFailed
<1>2. NotBegun'
  BY DEF NotBegun
<1>3. FirstAlone'
  BY DEF FirstAlone
<1>4. \A r \in Rows : Asks(r)' => Asks(r)
  BY DEF Asks
<1>5. WithinRounds'
  <2> SUFFICES ASSUME NEW r \in Rows
               PROVE  questions'[r] + ToCome(r)' <= Allowed(r)'
    BY DEF WithinRounds
  <2>1. ToCome(r)' \in 0 .. 2 /\ ToCome(r)' <= ToCome(r)
    BY <1>4 DEF ToCome
  <2>2. Allowed(r)' = Allowed(r)
    BY DEF Allowed
  <2>3. questions[r] + ToCome(r) <= Allowed(r)
    BY DEF WithinRounds
  <2> QED
    BY <2>1, <2>2, <2>3, Numbers
<1> QED
  BY <1>1, <1>2, <1>3, <1>5

\* The row is inserted: the first question is the tool's to post.
LEMMA ExtraInsert ==
  ASSUME TypeOK, ExtraInv, NEW h \in Handlers, NEW r \in Fresh, hpc[h] = "starting",
         state' = [state EXCEPT ![r] = "active"],
         hpc' = [hpc EXCEPT ![h] = "posting"], view' = [view EXCEPT ![h].id = r],
         UNCHANGED <<rounds, due, claims, questions>>
  PROVE  ExtraInv'
<1> USE DEF ExtraInv
<1>1. /\ r \in Rows /\ state[r] = "none" /\ rounds[r] = 0 /\ questions[r] = 0
      /\ \A w \in Workers : \A c \in claims[w] : c.id # r
  BY DEF Fresh, NotBegun
<1>2. /\ hpc'[h] = "posting" /\ view'[h].id = r
      /\ \A g \in Handlers \ {h} : hpc'[g] = hpc[g] /\ view'[g] = view[g]
  <2>1. hpc \in [Handlers -> {"idle", "starting", "posting", "counting", "undoing"}]
        /\ view \in [Handlers -> Views] /\ view[h] \in Views
    BY DEF TypeOK
  <2> QED
    BY <2>1 DEF Views
<1>3. state'[r] = "active" /\ \A q \in Rows \ {r} : state'[q] = state[q]
  BY <1>1 DEF TypeOK
<1>4. NoneFailed' /\ NotBegun'
  BY <1>3 DEF NoneFailed, NotBegun
<1>5. FirstAlone'
  BY <1>1, <1>2, <1>3 DEF FirstAlone, First
<1>6. WithinRounds'
  <2> SUFFICES ASSUME NEW q \in Rows
               PROVE  questions'[q] + ToCome(q)' <= Allowed(q)'
    BY DEF WithinRounds
  <2>1. Allowed(q)' = Allowed(q) /\ Asks(q)' = Asks(q)
    BY DEF Allowed, Asks
  <2>2. CASE q = r
    <3>1. ~Asks(r)' /\ ToCome(q)' <= 1 /\ ToCome(q)' \in Nat
      BY <1>1, <2>1, <2>2 DEF Asks, ToCome
    <3>2. Allowed(q) = 1
      BY <1>1, <2>2, RollCallAssumption DEF Allowed
    <3> QED
      BY <1>1, <2>1, <2>2, <3>1, <3>2
  <2>3. CASE q # r
    <3>1. Opens(q)' => Opens(q)
      BY <1>2, <2>3 DEF Opens
    <3>2. ToCome(q)' <= ToCome(q) /\ ToCome(q)' \in 0 .. 2
      BY <2>1, <3>1 DEF ToCome
    <3> QED
      BY <2>1, <3>2, Numbers DEF WithinRounds
  <2> QED
    BY <2>2, <2>3
<1> QED
  BY <1>4, <1>5, <1>6

\* The first round is posted: no longer to come.
LEMMA ExtraPosted ==
  ASSUME TypeOK, ExtraInv, NEW h \in Handlers, PostFirst(h)
  PROVE  ExtraInv'
<1> USE DEF ExtraInv
<1> DEFINE r == view[h].id
<1>1. hpc[h] = "posting" /\ r \in Rows /\ state[r] # "none"
  BY DEF PostFirst, FirstAlone, First
<1>2. /\ hpc'[h] = "counting"
      /\ \A g \in Handlers \ {h} : hpc'[g] = hpc[g]
      /\ UNCHANGED <<view, state, rounds, due, claims>>
  BY DEF PostFirst, TypeOK, row, worker
<1>3. /\ questions'[r] = questions[r] \/ questions'[r] = Counted(questions[r])
      /\ \A q \in Rows \ {r} : questions'[q] = questions[q]
  BY <1>1 DEF PostFirst, Post, TypeOK
<1>4. NoneFailed' /\ NotBegun'
  BY <1>1, <1>2, <1>3 DEF NoneFailed, NotBegun
<1>5. FirstAlone'
  BY <1>1, <1>2 DEF FirstAlone, First
<1>6. WithinRounds'
  <2> SUFFICES ASSUME NEW q \in Rows
               PROVE  questions'[q] + ToCome(q)' <= Allowed(q)'
    BY DEF WithinRounds
  <2>1. Allowed(q)' = Allowed(q) /\ Asks(q)' = Asks(q)
    BY <1>2 DEF Allowed, Asks
  <2>2. CASE q = r
    <3>1. Opens(q) /\ ~Opens(q)'
      BY <1>1, <1>2, <2>2 DEF Opens, FirstAlone, First
    <3>2. ToCome(q)' + 1 = ToCome(q) /\ ToCome(q)' \in 0 .. 2
      BY <2>1, <3>1 DEF ToCome
    <3>3. questions'[q] <= questions[q] + 1 /\ questions'[q] \in Nat
      <4>1. questions[q] \in 0 .. PostCap /\ PostCap \in Nat
        BY <2>2, RollCallAssumption DEF TypeOK, PostCap
      <4> QED
        BY <1>3, <2>2, <4>1 DEF Counted
    <3> QED
      BY <2>1, <3>2, <3>3, Numbers DEF WithinRounds
  <2>3. CASE q # r
    <3>1. Opens(q)' => Opens(q)
      BY <1>2 DEF Opens
    <3>2. ToCome(q)' <= ToCome(q) /\ ToCome(q)' \in 0 .. 2
      BY <2>1, <3>1 DEF ToCome
    <3> QED
      BY <1>3, <2>1, <2>3, <3>2, Numbers DEF WithinRounds
  <2> QED
    BY <2>2, <2>3
<1> QED
  BY <1>4, <1>5, <1>6

\* The first round is counted, by the tool or already by a claim.
LEMMA ExtraCounted ==
  ASSUME TypeOK, ExtraInv, NEW h \in Handlers, CountFirst(h)
  PROVE  ExtraInv'
<1> USE RollCallAssumption DEF ExtraInv
<1> DEFINE r == view[h].id
<1>1. hpc[h] = "counting" /\ r \in Rows /\ state[r] # "none" /\ rounds[r] \in {0, 1}
  BY DEF CountFirst, FirstAlone, First
<1>2. /\ hpc'[h] = "idle"
      /\ \A g \in Handlers \ {h} : hpc'[g] = hpc[g] /\ view'[g] = view[g]
      /\ UNCHANGED <<state, claims, questions>>
  BY DEF CountFirst, Return, TypeOK, worker, history
<1>3. /\ rounds'[r] = rounds[r] \/ rounds'[r] = 1
      /\ \A q \in Rows \ {r} : rounds'[q] = rounds[q] /\ due'[q] = due[q]
  BY <1>1 DEF CountFirst, TypeOK
<1>4. NoneFailed' /\ NotBegun'
  BY <1>1, <1>2, <1>3 DEF NoneFailed, NotBegun
<1>5. FirstAlone'
  BY <1>1, <1>2, <1>3 DEF FirstAlone, First
<1>6. WithinRounds'
  <2> SUFFICES ASSUME NEW q \in Rows
               PROVE  questions'[q] + ToCome(q)' <= Allowed(q)'
    BY DEF WithinRounds
  <2>1. ToCome(q)' <= ToCome(q) /\ ToCome(q)' \in 0 .. 2
    <3>1. (Opens(q)' => Opens(q)) /\ Asks(q)' = Asks(q)
      BY <1>2 DEF Opens, Asks
    <3> QED
      BY <3>1 DEF ToCome
  <2>2. Allowed(q) <= Allowed(q)' /\ Allowed(q)' \in Nat
    <3>1. CASE q = r
      BY <1>1, <1>3, <3>1 DEF Allowed
    <3>2. CASE q # r
      <4>1. Allowed(q)' = Allowed(q)
        BY <1>3, <3>2 DEF Allowed
      <4> QED
        BY <4>1, Numbers
    <3> QED
      BY <3>1, <3>2
  <2> QED
    BY <1>2, <2>1, <2>2, Numbers DEF WithinRounds
<1> QED
  BY <1>4, <1>5, <1>6

\* A claim counts the round it is going to ask, and rests till the next gap.
LEMMA ExtraClaimed ==
  ASSUME TypeOK, Exclusive, ExtraInv, NEW w \in Workers, ClaimRounds(w)
  PROVE  ExtraInv'
<1> USE RollCallAssumption DEF ExtraInv
<1> DEFINE now == {r \in Rows : IsDue(r)}
<1>1. /\ \A v \in Workers \ {w} : claims'[v] = claims[v]
      /\ \A c \in claims'[w] : c.id \in now /\ c.prev = rounds[c.id] /\ c.at = "claimed"
      /\ UNCHANGED <<state, tool, questions>>
  BY DEF ClaimRounds, TypeOK, history
<1>2. \A r \in Rows : /\ rounds'[r] = IF r \in now THEN Advance(rounds[r]) ELSE rounds[r]
                      /\ due'[r] = IF r \in now THEN NextGap(rounds[r]) ELSE due[r]
  BY DEF ClaimRounds
<1>3. \A r \in now : r \in Rows /\ state[r] = "active" /\ due[r] = 0
  BY DEF IsDue
<1>4. \A v \in Workers : \A d \in claims[v] : d.id \notin now
  BY <1>3 DEF Exclusive, OneClaim
<1>5. NoneFailed' /\ NotBegun'
  BY <1>1, <1>2, <1>3 DEF NoneFailed, NotBegun
<1>6. FirstAlone'
  <2> SUFFICES ASSUME NEW h \in Handlers, First(h)
               PROVE  /\ view[h].id \in Rows /\ state[view[h].id] # "none"
                      /\ \/ rounds'[view[h].id] = 0
                         \/ rounds'[view[h].id] = 1 /\ due'[view[h].id] > 0
                      /\ \A g \in Handlers : First(g) /\ view[g].id = view[h].id => g = h
    BY <1>1 DEF FirstAlone, First, tool
  <2> DEFINE r == view[h].id
  <2>1. r \in Rows /\ state[r] # "none"
    BY DEF FirstAlone
  <2>2. CASE r \in now
    <3>1. rounds[r] = 0
      BY <1>3, <2>2 DEF FirstAlone
    <3>2. rounds'[r] = 1 /\ due'[r] = NextGap(0)
      BY <1>2, <2>1, <2>2, <3>1 DEF Advance
    <3>3. NextGap(0) > 0
      BY Schedule
    <3>4. \A g \in Handlers : First(g) /\ view[g].id = view[h].id => g = h
      BY DEF FirstAlone
    <3> QED
      BY <2>1, <3>2, <3>3, <3>4
  <2>3. CASE r \notin now
    BY <1>2, <2>1, <2>3 DEF FirstAlone
  <2> QED
    BY <2>2, <2>3
<1>7. WithinRounds'
  <2> SUFFICES ASSUME NEW q \in Rows
               PROVE  questions'[q] + ToCome(q)' <= Allowed(q)'
    BY DEF WithinRounds
  <2>1. Opens(q)' = Opens(q)
    BY <1>1 DEF Opens, tool
  <2>2. rounds[q] \in 0 .. MaxRounds + 1
    BY DEF TypeOK
  <2>3. CASE q \in now
    <3>1. ~Asks(q)
      BY <1>4, <2>3 DEF Asks
    <3>2. Asks(q)' => rounds[q] < MaxRounds
      BY <1>1, <1>4, <2>3 DEF Asks
    <3>3. CASE rounds[q] < MaxRounds
      <4>1. Allowed(q)' = Allowed(q) + 1
        BY <1>2, <2>2, <2>3, <3>3 DEF Allowed, Advance
      <4>2. ToCome(q)' <= ToCome(q) + 1 /\ ToCome(q)' \in 0 .. 2
        BY <2>1, <3>1 DEF ToCome
      <4> QED
        BY <1>1, <4>1, <4>2, Numbers DEF WithinRounds
    <3>4. CASE ~(rounds[q] < MaxRounds)
      <4>1. Allowed(q)' = Allowed(q)
        BY <1>2, <2>2, <2>3, <3>4 DEF Allowed, Advance
      <4>2. ToCome(q)' = ToCome(q)
        BY <2>1, <3>1, <3>2, <3>4 DEF ToCome
      <4> QED
        BY <1>1, <4>1, <4>2 DEF WithinRounds
    <3> QED
      BY <3>3, <3>4
  <2>4. CASE q \notin now
    <3>1. Asks(q)' => Asks(q)
      BY <1>1, <2>4 DEF Asks
    <3>2. ToCome(q)' <= ToCome(q) /\ ToCome(q)' \in 0 .. 2
      BY <2>1, <3>1 DEF ToCome
    <3>3. Allowed(q)' = Allowed(q)
      BY <1>2, <2>4 DEF Allowed
    <3> QED
      BY <1>1, <3>2, <3>3, Numbers DEF WithinRounds
  <2> QED
    BY <2>3, <2>4
<1> QED
  BY <1>5, <1>6, <1>7

\* A question is posted for a claim: no longer to come.
LEMMA ExtraAsked ==
  ASSUME TypeOK, Exclusive, ExtraInv, NEW w \in Workers, NEW c \in claims[w],
         SendRound(w, c)
  PROVE  ExtraInv'
<1> USE RollCallAssumption DEF ExtraInv
<1>1. c.id \in Rows /\ c.at = "read" /\ c.prev \in Nat
  BY DEF TypeOK, Claims, SendRound
<1>2. UNCHANGED <<rounds, due, state, hpc, view>>
  BY DEF SendRound, row, tool
<1>3. CASE Summarises(c.seen, c.prev)
  <2>1. questions' = questions
    BY <1>3 DEF SendRound, Post
  <2>2. claims' = [claims EXCEPT ![w] = (@ \ {c}) \cup {[c EXCEPT !.at = "summarised"]}]
    BY <1>3 DEF SendRound, Becomes
  <2>3. LET d == [c EXCEPT !.at = "summarised"]
        IN  d.id = c.id /\ d.prev = c.prev /\ d.at = "summarised"
    BY DEF TypeOK, Claims
  <2>4. \A v \in Workers : \A d \in claims'[v] : \E e \in claims[v] :
           /\ d.id = e.id /\ d.prev = e.prev
           /\ d.at # "failed" /\ (d.at # "summarised" => e.at # "summarised")
    BY <2>2, <2>3 DEF TypeOK, NoneFailed
  <2> QED
    BY <1>2, <2>1, <2>4, NothingAsked DEF First, Opens
<1>4. CASE ~Summarises(c.seen, c.prev)
  <2>1. c.prev < MaxRounds
    BY <1>1, <1>4 DEF Summarises, Spent
  <2>2. /\ \A v \in Workers : claims'[v] \subseteq claims[v]
        /\ c \notin claims'[w]
    <3>1. claims' = [claims EXCEPT ![w] = @ \ {c}]
      BY <1>4 DEF SendRound
    <3> QED
      BY <3>1 DEF TypeOK
  <2>3. /\ questions'[c.id] = Counted(questions[c.id])
        /\ \A q \in Rows \ {c.id} : questions'[q] = questions[q]
    BY <1>1, <1>4 DEF SendRound, Post, TypeOK
  <2>4. NoneFailed' /\ FirstAlone'
    BY <1>2, <2>2 DEF NoneFailed, FirstAlone, First
  <2>5. NotBegun'
    BY <1>2, <2>2, <2>3 DEF NotBegun
  <2>6. WithinRounds'
    <3> SUFFICES ASSUME NEW q \in Rows
                 PROVE  questions'[q] + ToCome(q)' <= Allowed(q)'
      BY DEF WithinRounds
    <3>1. Allowed(q)' = Allowed(q) /\ Opens(q)' = Opens(q)
      BY <1>2 DEF Allowed, Opens
    <3>2. CASE q = c.id
      <4>1. Asks(q)
        BY <1>1, <2>1, <3>2 DEF Asks
      <4>2. ~Asks(q)'
        BY <2>2, <3>2 DEF Asks, Exclusive, OneClaim
      <4>3. ToCome(q)' + 1 = ToCome(q) /\ ToCome(q)' \in 0 .. 2
        BY <3>1, <4>1, <4>2 DEF ToCome
      <4>4. questions'[q] <= questions[q] + 1 /\ questions'[q] \in Nat
        <5>1. questions[q] \in 0 .. PostCap /\ PostCap \in Nat
          BY DEF TypeOK, PostCap
        <5> QED
          BY <2>3, <3>2, <5>1 DEF Counted
      <4> QED
        BY <3>1, <4>3, <4>4, Numbers DEF WithinRounds
    <3>3. CASE q # c.id
      <4>1. Asks(q)' => Asks(q)
        BY <2>2 DEF Asks
      <4>2. ToCome(q)' <= ToCome(q) /\ ToCome(q)' \in 0 .. 2
        BY <3>1, <4>1 DEF ToCome
      <4> QED
        BY <2>3, <3>1, <3>3, <4>2, Numbers DEF WithinRounds
    <3> QED
      BY <3>2, <3>3
  <2> QED
    BY <2>4, <2>5, <2>6
<1> QED
  BY <1>3, <1>4

\* Every step keeps questions within the rounds counted.
LEMMA ExtraStep ==
  ASSUME TypeOK, Exclusive, ExtraInv, ~CanFail, [Next]_vars
  PROVE  ExtraInv'
<1>1. \A w \in Workers : \A c \in claims[w] :
        \E e \in claims[w] :
           /\ c.id = e.id /\ c.prev = e.prev
           /\ c.at # "failed" /\ (c.at # "summarised" => e.at # "summarised")
  BY DEF ExtraInv, NoneFailed
<1>2. ASSUME NEW h \in Handlers,
             Tool(h) \/ CutShort(h) \/ \E s \in Sessions : Nudge(h, s)
      PROVE  ExtraInv'
  <2>1. /\ hpc \in [Handlers -> {"idle", "starting", "posting", "counting", "undoing"}]
        /\ view \in [Handlers -> Views]
    BY DEF TypeOK
  \* It begins, returns or is cut short.
  <2>2. ASSUME NEW at \in {"idle", "starting"}, hpc' = [hpc EXCEPT ![h] = at],
               \A g \in Handlers \ {h} : view'[g] = view[g],
               UNCHANGED <<rounds, due, claims, questions>>,
               \A r \in Rows : state'[r] = "none" <=> state[r] = "none"
        PROVE  ExtraInv'
    <3>1. \A g \in Handlers : First(g)' => First(g) /\ view'[g] = view[g]
      BY <2>1, <2>2 DEF First
    <3>2. \A r \in Rows : Opens(r)' => Opens(r)
      BY <2>1, <2>2 DEF Opens
    <3> QED
      BY <1>1, <2>2, <3>1, <3>2, NothingAsked
  <2>3. ASSUME Return(h)
        PROVE  /\ hpc' = [hpc EXCEPT ![h] = "idle"]
               /\ \A g \in Handlers \ {h} : view'[g] = view[g]
    BY <2>1, <2>3 DEF Return
  <2>4. CASE StartRollCall(h)
    <3>1. hpc[h] = "starting" /\ UNCHANGED <<rounds, due, claims, questions>>
      BY <2>4 DEF StartRollCall, worker, history
    <3>2. CASE Return(h) /\ UNCHANGED state
      BY <2>2, <2>3, <3>1, <3>2
    <3>3. CASE \E r \in Fresh : /\ state' = [state EXCEPT ![r] = "active"]
                                /\ hpc' = [hpc EXCEPT ![h] = "posting"]
                                /\ view' = [view EXCEPT ![h].id = r]
      BY <3>1, <3>3, ExtraInsert
    <3> QED
      BY <2>4, <3>2, <3>3 DEF StartRollCall
  <2>5. CASE PostFirst(h)
    BY <2>5, ExtraPosted
  <2>6. CASE CountFirst(h)
    BY <2>6, ExtraCounted
  <2>7. CASE UndoNudge(h)
    <3>1. \A r \in Rows : state'[r] = "none" <=> state[r] = "none"
      BY <2>7 DEF UndoNudge, Cancelled, Running
    <3> QED
      BY <2>2, <2>3, <2>7, <3>1 DEF UndoNudge, worker, history
  <2>8. CASE CutShort(h)
    BY <2>2, <2>3, <2>8 DEF CutShort, row, worker, history
  <2>9. CASE \E s \in Sessions : Nudge(h, s)
    BY <2>1, <2>2, <2>9 DEF Nudge, row, worker, history
  <2> QED
    BY <1>2, <2>4, <2>5, <2>6, <2>7, <2>8, <2>9 DEF Tool, FirstFails
<1>3. ASSUME UNCHANGED <<rounds, due, questions, tool>>,
             \A r \in Rows : state'[r] = "none" <=> state[r] = "none",
             \A w \in Workers : \A d \in claims'[w] : \E c \in claims[w] :
               /\ d.id = c.id /\ d.prev = c.prev
               /\ d.at # "failed" /\ (d.at # "summarised" => c.at # "summarised")
      PROVE  ExtraInv'
  BY <1>3, NothingAsked DEF First, Opens, tool
<1>4. ASSUME NEW w \in Workers, Serve(w) \/ WorkerCrash(w)
      PROVE  ExtraInv'
  <2>1. claims \in [Workers -> SUBSET Claims]
    BY DEF TypeOK
  <2>2. CASE ClaimRounds(w)
    BY <2>2, ExtraClaimed
  <2>3. CASE AbandonStep(w) \/ WorkerCrash(w)
    <3>1. claims' = [claims EXCEPT ![w] = {}]
      BY <2>3 DEF AbandonStep, WorkerCrash
    <3>2. \A v \in Workers : claims'[v] \subseteq claims[v]
      BY <2>1, <3>1
    <3> QED
      BY <1>1, <1>3, <2>3, <3>2 DEF AbandonStep, WorkerCrash, row, history
  <2>4. CASE EndStep(w) \/ WorkerRestart(w)
    BY <1>1, <1>3, <2>4 DEF EndStep, WorkerRestart, row, history
  <2>5. ASSUME NEW c \in claims[w], ReadRoster(w, c)
        PROVE  ExtraInv'
    <3> DEFINE d == [c EXCEPT !.at = "read", !.seen = RosterOf(owner[c.id])]
    <3>1. d.id = c.id /\ d.prev = c.prev /\ d.at = "read" /\ c.at = "claimed"
      BY <2>1, <2>5 DEF ReadRoster, Untouched, Claims
    <3>2. claims' = [claims EXCEPT ![w] = (@ \ {c}) \cup {d}]
      BY <2>5 DEF ReadRoster
    <3>3. \A v \in Workers : \A e \in claims'[v] : e \in claims[v] \/ (v = w /\ e = d)
      BY <2>1, <3>2
    <3> HIDE DEF d
    <3>4. \A v \in Workers : \A e \in claims'[v] : \E f \in claims[v] :
            /\ e.id = f.id /\ e.prev = f.prev
            /\ e.at # "failed" /\ (e.at # "summarised" => f.at # "summarised")
      BY <1>1, <3>1, <3>3
    <3> QED
      BY <1>3, <2>5, <3>4 DEF ReadRoster, row, history
  <2>6. ASSUME NEW c \in claims[w], SendRound(w, c)
        PROVE  ExtraInv'
    BY <2>6, ExtraAsked
  <2>7. ASSUME NEW c \in claims[w], SendFails(w, c) \/ ReleaseClaim(w, c)
        PROVE  FALSE
    BY <2>7 DEF SendFails, ReleaseClaim, ExtraInv, NoneFailed
  <2>8. ASSUME NEW c \in claims[w], Finish(w, c)
        PROVE  ExtraInv'
    <3>1. claims' = [claims EXCEPT ![w] = @ \ {c}]
      BY <2>8 DEF Finish
    <3>2. \A v \in Workers : claims'[v] \subseteq claims[v]
      BY <2>1, <3>1
    <3>3. \A r \in Rows : state'[r] = "none" <=> state[r] = "none"
      BY <2>8 DEF Finish, StillActive, TypeOK
    <3> QED
      BY <1>1, <1>3, <2>8, <3>2, <3>3 DEF Finish, history
  <2> QED
    BY <1>4, <2>2, <2>3, <2>4, <2>5, <2>6, <2>7, <2>8 DEF Serve
\* Time waits for the tool.
<1>5. CASE Tick
  <2>1. \A h \in Handlers : ~First(h)'
    BY <1>5 DEF Tick, First, tool
  <2>2. \A r \in Rows : ~Opens(r)'
    BY <1>5 DEF Tick, Opens, tool
  <2> QED
    BY <1>1, <1>5, <2>1, <2>2, NothingAsked DEF Tick, worker, history
<1>6. CASE \/ \E s \in Sessions, p \in People : Speak(s, p) \/ Answer(s, p)
           \/ UNCHANGED vars
  BY <1>1, <1>3, <1>6 DEF Speak, Answer, vars, row, worker, history
<1>7. CASE \E s \in Sessions : CancelRollCalls(s)
  <2>1. \A r \in Rows : state'[r] = "none" <=> state[r] = "none"
    BY <1>7 DEF CancelRollCalls, Cancelled, Running
  <2> QED
    BY <1>1, <1>3, <1>7, <2>1 DEF CancelRollCalls, worker, history
<1> QED
  BY <1>2, <1>4, <1>5, <1>6, <1>7 DEF Next

\* However the tool and the worker race for the first round, a run whose sends
\* all succeed asks once more than it has rounds at most.
THEOREM OneTooMany == Spec => []AtMostOneExtra
<1>1. Init => RaceInv
  BY RollCallAssumption
     DEF Init, RaceInv, Exclusive, ServingOnly, OneClaim, KnowsItsRow, ExtraInv,
         NoneFailed, NotBegun, FirstAlone, First, WithinRounds, ToCome, Opens, Asks,
         Allowed
<1>2. TypeOK /\ RaceInv /\ [Next]_vars => RaceInv'
  BY ExclusiveStep, ExtraStep DEF RaceInv
<1>3. TypeOK /\ RaceInv => AtMostOneExtra
  <2> SUFFICES ASSUME TypeOK, ExtraInv, NEW r \in Rows
               PROVE  questions[r] <= MaxRounds + 1
    BY DEF AtMostOneExtra, RaceInv
  <2>1. Allowed(r) <= MaxRounds + 1
    BY RollCallAssumption DEF Allowed, TypeOK
  <2>2. questions[r] + ToCome(r) <= Allowed(r)
    BY DEF ExtraInv, WithinRounds
  <2> QED
    BY <2>1, <2>2, Numbers, RollCallAssumption
<1> QED
  BY <1>1, <1>2, <1>3, Typing, PTL DEF Spec
=============================================================================
