---------------------------- MODULE SessionProofs ----------------------------
(***************************************************************************)
(* Proofs about SessionLifecycle, for any number of chats, sessions,       *)
(* handlers and workers, any thresholds and any budgets of faults.         *)
(***************************************************************************)
EXTENDS SessionLifecycle, TLAPS

-----------------------------------------------------------------------------
\* Typing.

\* The helpers that move an age, a countdown or a count stay in range.
LEMMA RangesKept ==
  /\ \A limit \in Nat : \A age \in 0 .. limit + 1 : Older(age, limit) \in 0 .. limit + 1
  /\ \A n \in Nat : \A d \in 0 .. n : Sooner(d) \in 0 .. n
  /\ \A n \in 0 .. CountCap : Counted(n) \in 0 .. CountCap
BY DEF Older, Sooner, Counted, CountCap

\* Writing one entry keeps a function's type.
LEMMA Written ==
  ASSUME NEW S, NEW T, NEW f \in [S -> T], NEW x, NEW v \in T
  PROVE  [f EXCEPT ![x] = v] \in [S -> T]
OBVIOUS

\* One more question or notice is still a count.
LEMMA CountedOnce ==
  ASSUME NEW f \in [Sessions -> 0 .. CountCap], NEW s
  PROVE  [f EXCEPT ![s] = Counted(@)] \in [Sessions -> 0 .. CountCap]
<1>1. \A n \in 0 .. CountCap : Counted(n) \in 0 .. CountCap
  BY RangesKept
<1> QED
  BY <1>1

\* What a handler may have read is a proper view.
LEMMA ViewsMade ==
  /\ NoView \in Views
  /\ \A c \in Chats : [NoView EXCEPT !.chat = c] \in Views
  /\ \A s \in Sessions :
       /\ [NoView EXCEPT !.sid = s] \in Views
       /\ \A b \in BOOLEAN : [NoView EXCEPT !.sid = s, !.asked = b] \in Views
       /\ \A e \in EventDates : [NoView EXCEPT !.sid = s, !.date = e] \in Views
BY DEF NoView, Views, EventDates

\* A handler that reads something and moves on with it.
LEMMA HandlerReads ==
  ASSUME TypeOK, NEW h \in Handlers, NEW at \in Places, NEW v \in Views,
         hpc' = [hpc EXCEPT ![h] = at], view' = [view EXCEPT ![h] = v]
  PROVE  hpc' \in [Handlers -> Places] /\ view' \in [Handlers -> Views]
<1>1. hpc \in [Handlers -> Places] /\ view \in [Handlers -> Views]
  BY DEF TypeOK
<1> QED
  BY <1>1

\* A handler that moves on, or returns, stands somewhere with a proper view.
LEMMA HandlerMoves ==
  ASSUME TypeOK, NEW h \in Handlers
  PROVE  /\ \A at \in Places : Goto(h, at) =>
              hpc' \in [Handlers -> Places] /\ view' \in [Handlers -> Views]
         /\ Return(h) =>
              hpc' \in [Handlers -> Places] /\ view' \in [Handlers -> Views]
<1>1. NoView \in Views
  BY ViewsMade
<1>2. "idle" \in Places
  BY DEF Places
<1> QED
  BY <1>1, <1>2 DEF TypeOK, Goto, Return

\* Every variable keeps its type, whatever the handlers, the worker, crashes
\* and the clock do.
THEOREM Typing == Spec => []TypeOK
<1> USE ConstAssumption
<1>1. Init => TypeOK
  BY DEF Init, TypeOK, EventDates, EventDays, NoView, Views, Places, CountCap
<1>2. ASSUME TypeOK, [Next]_vars
      PROVE  TypeOK'
  <2>1. ASSUME TypeOK, NEW h \in Handlers, NEW c \in Chats, RouteToDormant(h, c)
        PROVE  TypeOK'
    <3>1. [NoView EXCEPT !.chat = c] \in Views /\ "starting" \in Places
      BY ViewsMade DEF Places
    <3>2. hpc' \in [Handlers -> Places] /\ view' \in [Handlers -> Views]
      BY <2>1, <3>1, HandlerReads DEF RouteToDormant
    <3> QED
      BY <2>1, <3>2 DEF TypeOK, RouteToDormant, table, clock, worker, budgets, history
  <2>2. ASSUME TypeOK, NEW h \in Handlers, CheckNoneActive(h)
        PROVE  TypeOK'
    <3>1. {"inserting"} \subseteq Places
      BY DEF Places
    <3>2. hpc' \in [Handlers -> Places] /\ view' \in [Handlers -> Views]
      BY <2>2, <3>1, HandlerMoves DEF CheckNoneActive
    <3> QED
      BY <2>2, <3>2 DEF TypeOK, CheckNoneActive, table, clock, worker, budgets, history
  <2>3. ASSUME TypeOK, NEW h \in Handlers, InsertSession(h)
        PROVE  TypeOK'
    <3>1. /\ status \in [Sessions -> {"none", "active", "closed"}]
          /\ eventIn \in [Sessions -> EventDates]
          /\ titles \in 0 .. MaxTitles
      BY <2>3 DEF TypeOK
    <3>2. ASSUME NEW s \in Sessions, NEW e \in EventDates, Insert(h, s, e)
          PROVE  /\ status' \in [Sessions -> {"none", "active", "closed"}]
                 /\ eventIn' \in [Sessions -> EventDates]
                 /\ titles' \in 0 .. MaxTitles
                 /\ hpc' \in [Handlers -> Places] /\ view' \in [Handlers -> Views]
      <4>1. [NoView EXCEPT !.sid = s, !.date = e] \in Views /\ "carrying" \in Places
        BY ViewsMade DEF Places
      <4>2. hpc' \in [Handlers -> Places] /\ view' \in [Handlers -> Views]
        BY <2>3, <3>2, <4>1, HandlerMoves, HandlerReads DEF Insert
      <4>3. titles' \in 0 .. MaxTitles
        BY <3>1, <3>2 DEF Insert
      <4> QED
        BY <3>1, <3>2, <4>2, <4>3 DEF Insert
    <3>3. CASE Return(h) /\ UNCHANGED <<status, eventIn, titles>>
      <4>1. hpc' \in [Handlers -> Places] /\ view' \in [Handlers -> Views]
        BY <2>3, <3>3, HandlerMoves
      <4> QED
        BY <2>3, <3>3, <4>1 DEF TypeOK, InsertSession, clock, worker, history
    <3>4. CASE \E s \in FreshIn(view[h].chat), e \in EventDates : Insert(h, s, e)
      <4>1. PICK s \in FreshIn(view[h].chat), e \in EventDates : Insert(h, s, e)
        BY <3>4
      <4>2. s \in Sessions
        BY DEF FreshIn
      <4> QED
        BY <2>3, <3>2, <4>1, <4>2 DEF TypeOK, InsertSession, clock, worker, history
    <3> QED
      BY <2>3, <3>3, <3>4 DEF InsertSession
  <2>30. ASSUME TypeOK, NEW h \in Handlers, CarryTitle(h)
         PROVE  TypeOK'
    <3>1. hpc' \in [Handlers -> Places] /\ view' \in [Handlers -> Views]
      BY <2>30, HandlerMoves DEF CarryTitle
    <3>2. eventIn' \in [Sessions -> EventDates]
      <4>1. eventIn \in [Sessions -> EventDates] /\ view[h].date \in EventDates
        BY <2>30 DEF TypeOK, Views
      <4> QED
        BY <2>30, <4>1, Written DEF CarryTitle
    <3> QED
      BY <2>30, <3>1, <3>2 DEF TypeOK, CarryTitle, clock, worker, budgets, history
  <2>4. ASSUME TypeOK, NEW h \in Handlers, NEW s \in Sessions, RouteToActive(h, s)
        PROVE  TypeOK'
    <3>1. [NoView EXCEPT !.sid = s, !.asked = asked[s] # Never] \in Views /\ "deciding" \in Places
      BY ViewsMade DEF Places
    <3>2. hpc' \in [Handlers -> Places] /\ view' \in [Handlers -> Views]
      BY <2>4, <3>1, HandlerReads DEF RouteToActive
    <3> QED
      BY <2>4, <3>2 DEF TypeOK, RouteToActive, table, clock, worker, budgets, history
  <2>5. ASSUME TypeOK, NEW h \in Handlers, Touch(h)
        PROVE  TypeOK'
    <3>1. {"tools"} \subseteq Places
      BY DEF Places
    <3>2. hpc' \in [Handlers -> Places] /\ view' \in [Handlers -> Views]
      BY <2>5, <3>1, HandlerMoves DEF Touch
    <3> QED
      <4>1. idle' \in [Sessions -> 0 .. IdleFor + 1]
        <5>1. idle \in [Sessions -> 0 .. IdleFor + 1]
          BY <2>5 DEF TypeOK
        <5>2. 0 \in 0 .. IdleFor + 1
          OBVIOUS
        <5> QED
          BY <2>5, <5>1, <5>2, Written DEF Touch
      <4> QED
        BY <2>5, <3>2, <4>1 DEF TypeOK, Touch, clock, worker, budgets, history
  <2>6. ASSUME TypeOK, NEW h \in Handlers, StartRollCall(h)
        PROVE  TypeOK'
    <3>1. {"undoing"} \subseteq Places
      BY DEF Places
    <3>2. hpc' \in [Handlers -> Places] /\ view' \in [Handlers -> Views]
      BY <2>6, <3>1, HandlerMoves DEF StartRollCall, TypeOK, bot
    <3>3. rollCall' \in [Sessions -> {"none", "active", "over"}]
      <4>1. rollCall \in [Sessions -> {"none", "active", "over"}]
        BY <2>6 DEF TypeOK
      <4> QED
        BY <2>6, <4>1 DEF StartRollCall
    <3>4. UNCHANGED <<table, clock, worker, budgets, history>>
      BY <2>6 DEF StartRollCall
    <3> QED
      BY <2>6, <3>2, <3>3, <3>4 DEF TypeOK, table, clock, worker, budgets, history
  <2>31. ASSUME TypeOK, NEW h \in Handlers, NEW e \in EventDays, SyncTitle(h, e)
         PROVE  TypeOK'
    <3>1. eventIn' \in [Sessions -> EventDates]
      <4>1. eventIn \in [Sessions -> EventDates] /\ e \in EventDates
        BY <2>31 DEF TypeOK, EventDates
      <4> QED
        BY <2>31, <4>1 DEF SyncTitle
    <3>2. titles' \in 0 .. MaxTitles
      BY <2>31 DEF TypeOK, SyncTitle
    <3> QED
      BY <2>31, <3>1, <3>2 DEF TypeOK, SyncTitle, clock, worker, bot, history
  <2>32. ASSUME TypeOK, NEW h \in Handlers, EndTurn(h)
         PROVE  TypeOK'
    <3>1. hpc' \in [Handlers -> Places] /\ view' \in [Handlers -> Views]
      BY <2>32, HandlerMoves DEF EndTurn
    <3> QED
      BY <2>32, <3>1 DEF TypeOK, EndTurn, table, clock, worker, budgets, history
  <2>7. ASSUME TypeOK, NEW h \in Handlers, AnswerYes(h)
        PROVE  TypeOK'
    <3>1. {"cancelling"} \subseteq Places
      BY DEF Places
    <3>2. hpc' \in [Handlers -> Places] /\ view' \in [Handlers -> Views]
      BY <2>7, <3>1, HandlerMoves DEF AnswerYes, Close
    <3> QED
      BY <2>7, <3>2 DEF TypeOK, AnswerYes, Close, table, clock, worker, budgets, history
  <2>8. ASSUME TypeOK, NEW h \in Handlers, AnswerStop(h)
        PROVE  TypeOK'
    <3>1. {"cancelling"} \subseteq Places
      BY DEF Places
    <3>2. hpc' \in [Handlers -> Places] /\ view' \in [Handlers -> Views]
      BY <2>8, <3>1, HandlerMoves DEF AnswerStop, Close
    <3> QED
      BY <2>8, <3>2 DEF TypeOK, AnswerStop, Close, table, clock, worker, budgets, history
  <2>9. ASSUME TypeOK, NEW h \in Handlers, AnswerNo(h)
        PROVE  TypeOK'
    <3>1. {"idle"} \subseteq Places
      BY DEF Places
    <3>2. hpc' \in [Handlers -> Places] /\ view' \in [Handlers -> Views]
      BY <2>9, <3>1, HandlerMoves DEF AnswerNo
    <3> QED
      <4>1. /\ asked' \in [Sessions -> {Never} \cup 0 .. UnansweredFor + 1]
            /\ retries' \in [Sessions -> 0 .. 1]
            /\ snooze' \in [Sessions -> 0 .. SnoozeFor]
            /\ idle' \in [Sessions -> 0 .. IdleFor + 1]
            /\ posted' \in [Sessions -> 0 .. CountCap]
        <5>1. /\ asked \in [Sessions -> {Never} \cup 0 .. UnansweredFor + 1]
              /\ retries \in [Sessions -> 0 .. 1]
              /\ snooze \in [Sessions -> 0 .. SnoozeFor]
              /\ idle \in [Sessions -> 0 .. IdleFor + 1]
              /\ posted \in [Sessions -> 0 .. CountCap]
          BY <2>9 DEF TypeOK
        <5>2. /\ 0 \in 0 .. 1 /\ SnoozeFor \in 0 .. SnoozeFor
              /\ 0 \in 0 .. IdleFor + 1 /\ 0 \in 0 .. CountCap
          BY DEF CountCap
        <5> QED
          BY <2>9, <5>1, <5>2 DEF AnswerNo, Forget
      <4> QED
        BY <2>9, <3>2, <4>1 DEF TypeOK, AnswerNo, clock, worker, budgets
  <2>10. ASSUME TypeOK, NEW h \in Handlers, NEW s \in Sessions, NEW e \in EventDates,
                Retopic(h, s, e)
         PROVE  TypeOK'
    <3>1. [NoView EXCEPT !.sid = s] \in Views /\ "tidying" \in Places
      BY ViewsMade DEF Places
    <3>2. hpc' \in [Handlers -> Places] /\ view' \in [Handlers -> Views]
      BY <2>10, <3>1, HandlerMoves, HandlerReads DEF Retopic
    <3>3. eventIn' \in [Sessions -> EventDates] /\ idle' \in [Sessions -> 0 .. IdleFor + 1]
      <4>1. eventIn \in [Sessions -> EventDates] /\ idle \in [Sessions -> 0 .. IdleFor + 1]
        BY <2>10 DEF TypeOK
      <4>2. 0 \in 0 .. IdleFor + 1
        OBVIOUS
      <4> QED
        BY <2>10, <4>1, <4>2 DEF Retopic
    <3> QED
      BY <2>10, <3>2, <3>3 DEF TypeOK, Retopic, clock, worker, budgets, history
  <2>11. ASSUME TypeOK, NEW h \in Handlers, NEW s \in Sessions, RouteRemoval(h, s)
         PROVE  TypeOK'
    <3>1. [NoView EXCEPT !.sid = s] \in Views /\ "leaving" \in Places
      BY ViewsMade DEF Places
    <3>2. hpc' \in [Handlers -> Places] /\ view' \in [Handlers -> Views]
      BY <2>11, <3>1, HandlerReads DEF RouteRemoval
    <3> QED
      BY <2>11, <3>2 DEF TypeOK, RouteRemoval, table, clock, worker, budgets, history
  <2>12. ASSUME TypeOK, NEW h \in Handlers, Leave(h)
         PROVE  TypeOK'
    <3>1. {"tidying"} \subseteq Places
      BY DEF Places
    <3>2. hpc' \in [Handlers -> Places] /\ view' \in [Handlers -> Views]
      BY <2>12, <3>1, HandlerMoves DEF Leave, Close
    <3> QED
      BY <2>12, <3>2 DEF TypeOK, Leave, Close, table, clock, worker, budgets, history
  <2>13. ASSUME TypeOK, NEW h \in Handlers, CancelRollCalls(h)
         PROVE  TypeOK'
    <3>1. {"farewell", "tools"} \subseteq Places
      BY DEF Places
    <3>2. hpc' \in [Handlers -> Places] /\ view' \in [Handlers -> Views]
      BY <2>13, <3>1, HandlerMoves DEF CancelRollCalls
    <3> QED
      BY <2>13, <3>2 DEF TypeOK, CancelRollCalls, table, clock, worker, budgets, history
  <2>14. ASSUME TypeOK, NEW h \in Handlers, Farewell(h)
         PROVE  TypeOK'
    <3>1. {"idle"} \subseteq Places
      BY DEF Places
    <3>2. hpc' \in [Handlers -> Places] /\ view' \in [Handlers -> Views]
      BY <2>14, <3>1, HandlerMoves DEF Farewell
    <3> QED
      <4>1. announced' \in [Sessions -> 0 .. CountCap]
        <5>1. announced \in [Sessions -> 0 .. CountCap]
          BY <2>14 DEF TypeOK
        <5> QED
          BY <2>14, <5>1, CountedOnce DEF Farewell
      <4> QED
        BY <2>14, <3>2, <4>1 DEF TypeOK, Farewell, table, clock, worker, budgets
  <2>15. ASSUME TypeOK, NEW w \in Workers, ClaimQuestions(w)
         PROVE  TypeOK'
    <3> DEFINE due == {s \in Sessions : DueForClosingQuestion(s)}
    <3>1. \A s \in due : retries[s] = 0 \/ asked[s] = Never
      BY <2>15 DEF DueForClosingQuestion, UnansweredOnce
    <3>2. retries' \in [Sessions -> 0 .. 1]
      BY <2>15, <3>1 DEF TypeOK, ClaimQuestions
    <3>3. asked' \in [Sessions -> {Never} \cup 0 .. UnansweredFor + 1]
      BY <2>15 DEF TypeOK, ClaimQuestions
    <3>4. \A s \in due : [id |-> s, prevAsked |-> asked[s], prevRetries |-> retries[s],
                            failed |-> FALSE] \in Claims
      BY <2>15 DEF TypeOK, Claims
    <3>5. batch' \in [Workers -> SUBSET Claims]
      BY <2>15, <3>4 DEF TypeOK, ClaimQuestions
    <3> QED
      BY <2>15, <3>2, <3>3, <3>5
         DEF TypeOK, ClaimQuestions, WorkerGoto, clock, bot, budgets, history
  <2>16. ASSUME TypeOK, NEW w \in Workers, NEW c \in batch[w], AskClosingQuestion(w, c)
         PROVE  TypeOK'
    BY <2>16, RangesKept
       DEF TypeOK, AskClosingQuestion, Claims, table, clock, bot, budgets
  <2>17. ASSUME TypeOK, NEW w \in Workers, NEW c \in batch[w], AskFails(w, c)
         PROVE  TypeOK'
    <3>1. [c EXCEPT !.failed = TRUE] \in Claims
      <4>1. c \in Claims
        BY <2>17 DEF TypeOK
      <4> QED
        BY <4>1 DEF Claims
    <3>2. batch' \in [Workers -> SUBSET Claims]
      BY <2>17, <3>1 DEF TypeOK, AskFails
    <3>3. posted' \in [Sessions -> 0 .. CountCap]
      <4>1. posted \in [Sessions -> 0 .. CountCap]
        BY <2>17 DEF TypeOK
      <4> QED
        BY <2>17, <4>1, CountedOnce DEF AskFails
    <3> QED
      BY <2>17, <3>2, <3>3 DEF TypeOK, AskFails, table, clock, bot, budgets
  <2>18. ASSUME TypeOK, NEW w \in Workers, NEW c \in batch[w], ReleaseClaim(w, c)
         PROVE  TypeOK'
    BY <2>18 DEF TypeOK, ReleaseClaim, Restored, Claims, clock, bot, budgets, history
  <2>19. ASSUME TypeOK, NEW w \in Workers, ClaimAutoCloses(w)
         PROVE  TypeOK'
    BY <2>19 DEF TypeOK, ClaimAutoCloses, WorkerGoto, clock, bot, budgets, history
  <2>20. ASSUME TypeOK, NEW w \in Workers, NEW s \in Sessions, PostNotice(w, s)
         PROVE  TypeOK'
    <3>1. announced' \in [Sessions -> 0 .. CountCap]
      <4>1. announced \in [Sessions -> 0 .. CountCap]
        BY <2>20 DEF TypeOK
      <4> QED
        BY <2>20, <4>1, CountedOnce DEF PostNotice
    <3> QED
      BY <2>20, <3>1 DEF TypeOK, PostNotice, table, clock, bot, budgets
  <2>21. ASSUME TypeOK, NEW w \in Workers, ReadActive(w)
         PROVE  TypeOK'
    BY <2>21 DEF TypeOK, ReadActive, WorkerGoto, table, clock, bot, budgets, history
  <2>22. ASSUME TypeOK, NEW w \in Workers, NEW s \in Sessions, NEW e \in EventDays,
                ApplyEvent(w, s, e)
         PROVE  TypeOK'
    BY <2>22 DEF TypeOK, ApplyEvent, EventDates, clock, bot, history
  <2>23. ASSUME TypeOK, NEW w \in Workers, NEW s \in Sessions, FinishRollCall(w, s)
         PROVE  TypeOK'
    BY <2>23 DEF TypeOK, FinishRollCall, table, clock, worker, bot, budgets, history
  <2>24. ASSUME TypeOK, NEW w \in Workers, EndPoll(w)
         PROVE  TypeOK'
    BY <2>24 DEF TypeOK, EndPoll, WorkerGoto, table, bot, budgets, history
  <2>25. ASSUME TypeOK, NEW w \in Workers, WorkerCrash(w)
         PROVE  TypeOK'
    BY <2>25 DEF TypeOK, WorkerCrash, WorkerGoto, table, clock, bot, history
  <2>26. ASSUME TypeOK, NEW w \in Workers, WorkerRestart(w)
         PROVE  TypeOK'
    BY <2>26 DEF TypeOK, WorkerRestart, WorkerGoto, table, clock, bot, budgets, history
  <2>27. CASE BotCrash
    <3>1. NoView \in Views /\ "idle" \in Places
      BY ViewsMade DEF Places
    <3> QED
      BY <1>2, <2>27, <3>1 DEF TypeOK, BotCrash, table, clock, worker, history
  <2>28. CASE Tick
    BY <1>2, <2>28, RangesKept
       DEF TypeOK, Tick, EventDates, EventDays, worker, bot, budgets, history
  <2>29. CASE UNCHANGED vars
    BY <1>2, <2>29 DEF TypeOK, vars, table, clock, worker, bot, budgets, history
  <2> QED
    BY <1>2, <2>1, <2>2, <2>3, <2>4, <2>5, <2>6, <2>7, <2>8, <2>9, <2>10, <2>11, <2>12,
       <2>13, <2>14, <2>15, <2>16, <2>17, <2>18, <2>19, <2>20, <2>21, <2>22, <2>23,
       <2>24, <2>25, <2>26, <2>27, <2>28, <2>29, <2>30, <2>31,
       <2>32
       DEF Next, Handler, HandlerContinues, Poll
<1> QED
  BY <1>1, <1>2, PTL DEF Spec

-----------------------------------------------------------------------------
\* What a step can do to a session's status.

\* A session starts, in a chat with none active.
Starts(s) == /\ status[s] = "none" /\ ActiveIn(ChatOf[s]) = {}
             /\ status' = [status EXCEPT ![s] = "active"]
             /\ reason' = reason

\* Sessions end, or nothing happens to them.
EndsOrStays(s) == \/ status'[s] = status[s] /\ reason'[s] = reason[s]
                  \/ status[s] = "active" /\ status'[s] = "closed"

LEMMA ClosingStep ==
  ASSUME TypeOK, NEW h \in Handlers, NEW r, NEW next, Close(h, r, next)
  PROVE  \A s \in Sessions : EndsOrStays(s)
<1>1. CASE StillActive(view[h].sid)
  BY <1>1 DEF TypeOK, Close, StillActive, EndsOrStays
<1>2. CASE ~StillActive(view[h].sid)
  BY <1>2 DEF Close, table, EndsOrStays
<1> QED
  BY <1>1, <1>2

LEMMA StatusSteps ==
  ASSUME TypeOK, [Next]_vars
  PROVE  (\E s \in Sessions : Starts(s)) \/ (\A s \in Sessions : EndsOrStays(s))
<1>1. ASSUME NEW h \in Handlers, InsertSession(h)
      PROVE  (\E s \in Sessions : Starts(s)) \/ (\A s \in Sessions : EndsOrStays(s))
  <2>1. CASE \E s \in FreshIn(view[h].chat), e \in EventDates :
               IndexAdmits(view[h].chat) /\ Insert(h, s, e)
    BY <1>1, <2>1 DEF InsertSession, Insert, Starts, FreshIn, IndexAdmits
  <2>2. CASE UNCHANGED status
    BY <1>1, <2>2 DEF InsertSession, EndsOrStays
  <2> QED
    BY <1>1, <2>1, <2>2 DEF InsertSession
<1>2. ASSUME NEW h \in Handlers, AnswerYes(h) \/ AnswerStop(h) \/ Leave(h)
      PROVE  \A s \in Sessions : EndsOrStays(s)
  BY <1>2, ClosingStep DEF AnswerYes, AnswerStop, Leave
<1>3. ASSUME NEW w \in Workers, ClaimAutoCloses(w)
      PROVE  \A s \in Sessions : EndsOrStays(s)
  BY <1>3 DEF TypeOK, ClaimAutoCloses, DueForAutoClose, EndsOrStays
<1>4. ASSUME UNCHANGED <<status, reason>>
      PROVE  \A s \in Sessions : EndsOrStays(s)
  BY <1>4 DEF EndsOrStays
<1>5. ASSUME NEW h \in Handlers, Handler(h)
      PROVE  \/ InsertSession(h) \/ AnswerYes(h) \/ AnswerStop(h) \/ Leave(h)
             \/ UNCHANGED <<status, reason>>
  BY <1>5
     DEF Handler, HandlerContinues, RouteToDormant, RouteToActive, RouteRemoval,
         CheckNoneActive, CarryTitle, Touch, StartRollCall, EndTurn, SyncTitle,
         AnswerNo, Retopic, CancelRollCalls, Farewell, table
<1>6. ASSUME NEW w \in Workers, Poll(w) \/ WorkerCrash(w)
      PROVE  ClaimAutoCloses(w) \/ UNCHANGED <<status, reason>>
  BY <1>6
     DEF Poll, ClaimQuestions, ReadActive, EndPoll, AskClosingQuestion, AskFails,
         ReleaseClaim, PostNotice, FinishRollCall, ApplyEvent, WorkerRestart,
         WorkerCrash, table
<1>7. ASSUME BotCrash \/ Tick \/ UNCHANGED vars
      PROVE  UNCHANGED <<status, reason>>
  BY <1>7 DEF BotCrash, Tick, vars, table
<1> QED
  BY <1>1, <1>2, <1>3, <1>4, <1>5, <1>6, <1>7 DEF Next

\* The index keeps a chat to one active session.
THEOREM AtMostOneActive == Spec => []OneActivePerChat
<1>1. Init => OneActivePerChat
  BY DEF Init, OneActivePerChat
<1>2. ASSUME TypeOK, OneActivePerChat, [Next]_vars
      PROVE  OneActivePerChat'
  <2>1. CASE \E s \in Sessions : Starts(s)
    BY <1>2, <2>1 DEF TypeOK, OneActivePerChat, Starts, ActiveIn
  <2>2. CASE \A s \in Sessions : EndsOrStays(s)
    BY <1>2, <2>2 DEF OneActivePerChat, EndsOrStays
  <2> QED
    BY <1>2, <2>1, <2>2, StatusSteps
<1> QED
  BY <1>1, <1>2, Typing, PTL DEF Spec

\* Nothing reopens a closed session or rewrites why it was closed.
THEOREM ClosedStaysClosed == Spec => CloseIsFinal
<1>1. ASSUME TypeOK, [Next]_vars, NEW s \in Sessions, status[s] = "closed"
      PROVE  status'[s] = "closed" /\ reason'[s] = reason[s]
  <2>1. CASE \E t \in Sessions : Starts(t)
    BY <1>1, <2>1 DEF TypeOK, Starts
  <2>2. CASE \A t \in Sessions : EndsOrStays(t)
    BY <1>1, <2>2 DEF EndsOrStays
  <2> QED
    BY <1>1, <2>1, <2>2, StatusSteps
<1>2. TypeOK /\ [Next]_vars =>
        [\A s \in Sessions : status[s] = "closed" =>
           status'[s] = "closed" /\ reason'[s] = reason[s]]_vars
  BY <1>1
<1> QED
  BY <1>2, Typing, PTL DEF Spec, CloseIsFinal

-----------------------------------------------------------------------------
\* One goodbye per session.  Whoever closed it has the word, alone, until it
\* is said: a handler between its UPDATE and its farewell, or the worker with
\* the session in its work.

Speaks(h, s) == hpc[h] \in {"cancelling", "farewell"} /\ view[h].sid = s
Posts(w, s)  == wpc[w] = "closing" /\ s \in work[w]

\* A handler that may close a session, or did, knows which.
Placed == \A h \in Handlers :
  hpc[h] \in {"deciding", "leaving", "cancelling", "farewell"} => view[h].sid \in Sessions

\* The word is about a session that is closed and not announced.
Unsaid == \A s \in Sessions :
  (\E h \in Handlers : Speaks(h, s)) \/ (\E w \in Workers : Posts(w, s))
    => status[s] = "closed" /\ announced[s] = 0

\* One party at most has it.
HasTheWord == \A s \in Sessions :
  /\ \A g, h \in Handlers : Speaks(g, s) /\ Speaks(h, s) => g = h
  /\ \A v, w \in Workers : Posts(v, s) /\ Posts(w, s) => v = w
  /\ \A h \in Handlers, w \in Workers : ~(Speaks(h, s) /\ Posts(w, s))

GoodbyeInv == Placed /\ Unsaid /\ HasTheWord /\ AnnouncedOnce

\* A step in which nobody speaks, or gets the word.
LEMMA NobodySpeaks ==
  ASSUME TypeOK, GoodbyeInv, Placed', announced' = announced,
         \A s \in Sessions : status[s] = "closed" => status'[s] = "closed",
         \A s \in Sessions :
           /\ \A h \in Handlers : Speaks(h, s)' => Speaks(h, s)
           /\ \A w \in Workers : Posts(w, s)' => Posts(w, s)
  PROVE  GoodbyeInv'
<1>1. Unsaid'
  BY DEF GoodbyeInv, Unsaid
<1>2. HasTheWord'
  BY DEF GoodbyeInv, HasTheWord
<1>3. AnnouncedOnce'
  BY DEF GoodbyeInv, AnnouncedOnce
<1> QED
  BY <1>1, <1>2, <1>3 DEF GoodbyeInv

\* A handler that reads, moves on or returns, away from the word.
LEMMA HandlerPlaced ==
  ASSUME TypeOK, GoodbyeInv, NEW h \in Handlers,
         NEW at \in Places \ {"cancelling", "farewell"}, NEW v,
         hpc' = [hpc EXCEPT ![h] = at], view' = [view EXCEPT ![h] = v],
         at \in {"deciding", "leaving"} => v.sid \in Sessions,
         UNCHANGED <<wpc, work>>
  PROVE  /\ Placed'
         /\ \A s \in Sessions :
              /\ \A g \in Handlers : Speaks(g, s)' => Speaks(g, s)
              /\ \A w \in Workers : Posts(w, s)' => Posts(w, s)
<1>1. hpc \in [Handlers -> Places] /\ DOMAIN view = Handlers
  BY DEF TypeOK
<1>2. \A g \in Handlers : g # h => hpc'[g] = hpc[g] /\ view'[g] = view[g]
  BY <1>1
<1>3. hpc'[h] = at /\ view'[h] = v
  BY <1>1
<1>4. Placed'
  BY <1>2, <1>3 DEF GoodbyeInv, Placed
<1>5. \A s \in Sessions : \A g \in Handlers : Speaks(g, s)' => Speaks(g, s)
  BY <1>2, <1>3 DEF Speaks
<1>6. \A s \in Sessions : \A w \in Workers : Posts(w, s)' => Posts(w, s)
  BY DEF Posts
<1> QED
  BY <1>4, <1>5, <1>6

\* The steps of a handler that neither closes a session nor speaks of one.
LEMMA HandlerSilent ==
  ASSUME TypeOK, GoodbyeInv, NEW h \in Handlers,
         UNCHANGED <<wpc, work, announced>>,
         \A s \in Sessions : status[s] = "closed" => status'[s] = "closed",
         \/ UNCHANGED bot
         \/ Return(h)
         \/ \E at \in {"inserting", "tools", "undoing", "tidying"} : Goto(h, at)
         \/ \E at \in {"starting", "carrying", "tidying"}, v \in Views :
              hpc' = [hpc EXCEPT ![h] = at] /\ view' = [view EXCEPT ![h] = v]
         \/ \E at \in {"deciding", "leaving"}, v \in Views :
              /\ v.sid \in Sessions
              /\ hpc' = [hpc EXCEPT ![h] = at] /\ view' = [view EXCEPT ![h] = v]
  PROVE  GoodbyeInv'
<1>1. CASE UNCHANGED bot
  <2>1. Placed'
    BY <1>1 DEF GoodbyeInv, Placed, bot
  <2>2. \A s \in Sessions : /\ \A g \in Handlers : Speaks(g, s)' => Speaks(g, s)
                            /\ \A w \in Workers : Posts(w, s)' => Posts(w, s)
    BY <1>1 DEF Speaks, Posts, bot
  <2> QED
    BY <2>1, <2>2, NobodySpeaks
<1>2. CASE Return(h)
  <2>1. "idle" \in Places \ {"cancelling", "farewell"}
    BY DEF Places
  <2> QED
    BY <1>2, <2>1, HandlerPlaced, NobodySpeaks DEF Return
<1>3. ASSUME NEW at \in {"inserting", "tools", "undoing", "tidying"}, Goto(h, at)
      PROVE  GoodbyeInv'
  <2>1. at \in Places \ {"cancelling", "farewell"}
    BY <1>3 DEF Places
  <2>2. view' = [view EXCEPT ![h] = view[h]]
    BY <1>3 DEF TypeOK, Goto
  <2>3. hpc' = [hpc EXCEPT ![h] = at] /\ at \notin {"deciding", "leaving"}
    BY <1>3 DEF Goto
  <2> QED
    BY <2>1, <2>2, <2>3, HandlerPlaced, NobodySpeaks
<1>4. ASSUME NEW at \in {"starting", "carrying", "tidying"}, NEW v \in Views,
             hpc' = [hpc EXCEPT ![h] = at], view' = [view EXCEPT ![h] = v]
      PROVE  GoodbyeInv'
  <2>1. at \in Places \ {"cancelling", "farewell"} /\ at \notin {"deciding", "leaving"}
    BY <1>4 DEF Places
  <2> QED
    BY <1>4, <2>1, HandlerPlaced, NobodySpeaks
<1>5. ASSUME NEW at \in {"deciding", "leaving"}, NEW v \in Views, v.sid \in Sessions,
             hpc' = [hpc EXCEPT ![h] = at], view' = [view EXCEPT ![h] = v]
      PROVE  GoodbyeInv'
  <2>1. at \in Places \ {"cancelling", "farewell"}
    BY <1>5 DEF Places
  <2> QED
    BY <1>5, <2>1, HandlerPlaced, NobodySpeaks
<1> QED
  BY <1>1, <1>2, <1>3, <1>4, <1>5

\* The handler whose UPDATE closed the session gets the word.
LEMMA HandlerWins ==
  ASSUME TypeOK, GoodbyeInv, NEW h \in Handlers, NEW r, hpc[h] = "deciding",
         Close(h, r, "cancelling"), UNCHANGED <<wpc, work, announced>>
  PROVE  GoodbyeInv'
<1>1. CASE StillActive(view[h].sid)
  <2> DEFINE s == view[h].sid
  <2>1. s \in Sessions /\ status[s] = "active" /\ announced[s] = 0
    BY <1>1 DEF GoodbyeInv, Placed, AnnouncedOnce, StillActive, TypeOK
  <2>2. /\ view' = view /\ hpc' = [hpc EXCEPT ![h] = "cancelling"]
        /\ status' = [status EXCEPT ![s] = "closed"]
    BY <1>1 DEF Close, Goto
  <2>3. \A t \in Sessions : status[t] = "closed" => status'[t] = "closed"
    BY <2>2 DEF TypeOK
  <2>4. status'[s] = "closed"
    BY <2>1, <2>2 DEF TypeOK
  <2>5. \A g \in Handlers, t \in Sessions : Speaks(g, t)' => Speaks(g, t) \/ (g = h /\ t = s)
    BY <2>2 DEF TypeOK, Speaks
  <2>6. \A w \in Workers, t \in Sessions : Posts(w, t)' => Posts(w, t)
    BY DEF Posts
  <2>7. /\ \A g \in Handlers : ~Speaks(g, s)
        /\ \A w \in Workers : ~Posts(w, s)
    BY <2>1 DEF GoodbyeInv, Unsaid
  <2>8. Placed'
    BY <2>1, <2>2 DEF TypeOK, GoodbyeInv, Placed
  <2>9. Unsaid'
    BY <2>1, <2>3, <2>4, <2>5, <2>6 DEF GoodbyeInv, Unsaid
  <2>10. HasTheWord'
    BY <2>5, <2>6, <2>7 DEF GoodbyeInv, HasTheWord
  <2>11. AnnouncedOnce'
    BY <2>3 DEF GoodbyeInv, AnnouncedOnce
  <2> QED
    BY <2>8, <2>9, <2>10, <2>11 DEF GoodbyeInv
<1>2. CASE ~StillActive(view[h].sid)
  BY <1>2, HandlerSilent DEF Close, table
<1> QED
  BY <1>1, <1>2

\* The worker that closed a batch gets the word about each.
LEMMA WorkerWins ==
  ASSUME TypeOK, GoodbyeInv, NEW w \in Workers, ClaimAutoCloses(w)
  PROVE  GoodbyeInv'
<1> DEFINE due == {s \in Sessions : DueForAutoClose(s)}
<1>1. \A s \in due : status[s] = "active" /\ announced[s] = 0
  BY DEF DueForAutoClose, GoodbyeInv, AnnouncedOnce, TypeOK
<1>2. \A s \in Sessions : /\ status[s] = "closed" => status'[s] = "closed"
                          /\ s \in due => status'[s] = "closed"
  BY DEF ClaimAutoCloses, DueForAutoClose
<1>3. UNCHANGED <<hpc, view, announced>>
  BY DEF ClaimAutoCloses, bot, history
<1>4. \A s \in Sessions, h \in Handlers : Speaks(h, s)' => Speaks(h, s)
  BY <1>3 DEF Speaks
<1>5. \A s \in Sessions, v \in Workers : Posts(v, s)' => Posts(v, s) \/ (v = w /\ s \in due)
  BY DEF ClaimAutoCloses, WorkerGoto, Posts, TypeOK
<1>6. \A s \in due : /\ \A h \in Handlers : ~Speaks(h, s)
                     /\ \A v \in Workers : ~Posts(v, s)
  BY <1>1 DEF GoodbyeInv, Unsaid
<1>7. Placed'
  BY <1>3 DEF GoodbyeInv, Placed
<1>8. Unsaid'
  BY <1>1, <1>2, <1>3, <1>4, <1>5 DEF GoodbyeInv, Unsaid
<1>9. HasTheWord'
  BY <1>4, <1>5, <1>6 DEF GoodbyeInv, HasTheWord
<1>10. AnnouncedOnce'
  BY <1>2, <1>3 DEF GoodbyeInv, AnnouncedOnce
<1> QED
  BY <1>7, <1>8, <1>9, <1>10 DEF GoodbyeInv

\* The goodbye is said, or refused, and with it the word is gone.
LEMMA OneGoodbye ==
  ASSUME TypeOK, GoodbyeInv, Placed', NEW s \in Sessions, status' = status,
         \/ announced' = [announced EXCEPT ![s] = Counted(@)]
         \/ announced' = announced,
         \/ \E h \in Handlers : Speaks(h, s) /\ ~Speaks(h, s)'
         \/ \E w \in Workers : Posts(w, s) /\ ~Posts(w, s)',
         \A t \in Sessions : /\ \A g \in Handlers : Speaks(g, t)' => Speaks(g, t)
                             /\ \A v \in Workers : Posts(v, t)' => Posts(v, t)
  PROVE  GoodbyeInv'
<1>1. status[s] = "closed" /\ announced[s] = 0
  BY DEF GoodbyeInv, Unsaid
<1>2. /\ \A g \in Handlers : ~Speaks(g, s)'
      /\ \A v \in Workers : ~Posts(v, s)'
  BY DEF GoodbyeInv, HasTheWord
<1>3. /\ announced'[s] \in {0, 1}
      /\ \A t \in Sessions : t # s => announced'[t] = announced[t]
  BY <1>1 DEF TypeOK, Counted, CountCap
<1>4. Unsaid'
  BY <1>2, <1>3 DEF GoodbyeInv, Unsaid
<1>5. HasTheWord'
  BY DEF GoodbyeInv, HasTheWord
<1>6. AnnouncedOnce'
  BY <1>1, <1>3 DEF GoodbyeInv, AnnouncedOnce
<1> QED
  BY <1>4, <1>5, <1>6 DEF GoodbyeInv

LEMMA GoodbyeStep ==
  ASSUME TypeOK, GoodbyeInv, [Next]_vars
  PROVE  GoodbyeInv'
<1>1. \A s \in Sessions : status[s] = "closed" => status'[s] = "closed"
  <2>1. CASE \E t \in Sessions : Starts(t)
    BY <2>1 DEF TypeOK, Starts
  <2>2. CASE \A t \in Sessions : EndsOrStays(t)
    BY <2>2 DEF EndsOrStays
  <2> QED
    BY <2>1, <2>2, StatusSteps
<1>2. ASSUME NEW h \in Handlers, Handler(h)
      PROVE  GoodbyeInv'
  <2>1. UNCHANGED <<wpc, work>>
    BY <1>2
       DEF Handler, HandlerContinues, RouteToDormant, RouteToActive, RouteRemoval,
           CheckNoneActive, InsertSession, CarryTitle, Touch, StartRollCall, EndTurn,
           SyncTitle, AnswerYes, AnswerStop, AnswerNo, Retopic, Leave,
           CancelRollCalls, Farewell, worker
  <2>2. ASSUME NEW c \in Chats, RouteToDormant(h, c) PROVE GoodbyeInv'
    BY <2>1, <2>2, <1>1, ViewsMade, HandlerSilent DEF RouteToDormant, history
  <2>3. ASSUME NEW s \in Sessions, RouteToActive(h, s) \/ RouteRemoval(h, s)
        PROVE  GoodbyeInv'
    <3>1. PICK at \in {"deciding", "leaving"}, v \in Views :
            /\ v.sid \in Sessions
            /\ hpc' = [hpc EXCEPT ![h] = at] /\ view' = [view EXCEPT ![h] = v]
      <4>1. CASE RouteToActive(h, s)
        <5>1. [NoView EXCEPT !.sid = s, !.asked = asked[s] # Never] \in Views
          BY ViewsMade
        <5>2. [NoView EXCEPT !.sid = s, !.asked = asked[s] # Never].sid \in Sessions
          BY DEF NoView
        <5> QED
          BY <4>1, <5>1, <5>2 DEF RouteToActive
      <4>2. CASE RouteRemoval(h, s)
        <5>1. [NoView EXCEPT !.sid = s] \in Views
          BY ViewsMade
        <5>2. [NoView EXCEPT !.sid = s].sid \in Sessions
          BY DEF NoView
        <5> QED
          BY <4>2, <5>1, <5>2 DEF RouteRemoval
      <4> QED
        BY <2>3, <4>1, <4>2
    <3>2. announced' = announced
      BY <2>3 DEF RouteToActive, RouteRemoval, history
    <3> QED
      BY <2>1, <1>1, <3>1, <3>2, HandlerSilent
  <2>4. CASE CheckNoneActive(h) \/ CarryTitle(h) \/ Touch(h) \/ StartRollCall(h)
             \/ EndTurn(h) \/ AnswerNo(h) \/ (\E e \in EventDays : SyncTitle(h, e))
    BY <2>4, <2>1, <1>1, HandlerSilent
       DEF CheckNoneActive, CarryTitle, Touch, StartRollCall, EndTurn, AnswerNo,
           SyncTitle, history
  <2>5. CASE InsertSession(h)
    <3>1. announced' = announced
      BY <2>5 DEF InsertSession, history
    <3>2. CASE Return(h)
      BY <2>1, <1>1, <3>1, <3>2, HandlerSilent
    <3>3. CASE ~Return(h)
      <4>1. PICK s \in Sessions, e \in EventDates : Insert(h, s, e)
        BY <2>5, <3>3 DEF InsertSession, FreshIn
      <4>2. [NoView EXCEPT !.sid = s, !.date = e] \in Views
        BY ViewsMade
      <4> QED
        BY <2>1, <1>1, <3>1, <3>3, <4>1, <4>2, HandlerSilent DEF Insert
    <3> QED
      BY <3>2, <3>3
  <2>6. ASSUME NEW s \in Sessions, NEW e \in EventDates, Retopic(h, s, e)
        PROVE  GoodbyeInv'
    <3>1. [NoView EXCEPT !.sid = s] \in Views
      BY ViewsMade
    <3> QED
      BY <2>1, <2>6, <1>1, <3>1, HandlerSilent DEF Retopic, history
  <2>7. CASE Leave(h)
    <3>1. announced' = announced /\ (Return(h) \/ Goto(h, "tidying"))
      BY <2>7 DEF Leave, Close, history
    <3> QED
      BY <2>1, <1>1, <3>1, HandlerSilent
  <2>8. CASE AnswerYes(h) \/ AnswerStop(h)
    BY <2>1, <2>8, HandlerWins DEF AnswerYes, AnswerStop, history
  <2>9. CASE CancelRollCalls(h)
    <3>1. announced' = announced
      BY <2>9 DEF CancelRollCalls, history
    <3>2. CASE hpc[h] = "cancelling"
      <4>1. hpc' = [hpc EXCEPT ![h] = "farewell"] /\ view' = view
        BY <2>9, <3>2 DEF CancelRollCalls, Goto
      <4>2. Placed'
        BY <3>2, <4>1 DEF TypeOK, GoodbyeInv, Placed
      <4>3. \A s \in Sessions : /\ \A g \in Handlers : Speaks(g, s)' => Speaks(g, s)
                                /\ \A w \in Workers : Posts(w, s)' => Posts(w, s)
        BY <2>1, <3>2, <4>1 DEF TypeOK, Speaks, Posts
      <4> QED
        BY <1>1, <3>1, <4>2, <4>3, NobodySpeaks
    <3>3. CASE hpc[h] # "cancelling"
      <4>1. Return(h) \/ Goto(h, "tools")
        BY <2>9, <3>3 DEF CancelRollCalls
      <4> QED
        BY <2>1, <1>1, <3>1, <4>1, HandlerSilent
    <3> QED
      BY <3>2, <3>3
  <2>10. CASE Farewell(h)
    <3>0. PICK s \in Sessions : s = view[h].sid
      BY <2>10 DEF Farewell, GoodbyeInv, Placed
    <3>1. Speaks(h, s)
      BY <2>10, <3>0 DEF Farewell, Speaks
    <3>2. status' = status /\ Return(h)
      BY <2>10 DEF Farewell, table
    <3>3. \/ announced' = [announced EXCEPT ![s] = Counted(@)]
          \/ announced' = announced
      BY <2>10, <3>0 DEF Farewell
    <3>4. "idle" \in Places \ {"cancelling", "farewell"}
      BY DEF Places
    <3>5. /\ Placed'
          /\ \A t \in Sessions : /\ \A g \in Handlers : Speaks(g, t)' => Speaks(g, t)
                                 /\ \A w \in Workers : Posts(w, t)' => Posts(w, t)
      BY <2>1, <3>2, <3>4, HandlerPlaced DEF Return
    <3>6. ~Speaks(h, s)'
      BY <3>2 DEF TypeOK, Return, Speaks
    <3> QED
      BY <3>1, <3>2, <3>3, <3>5, <3>6, OneGoodbye
  <2> QED
    BY <1>2, <2>2, <2>3, <2>4, <2>5, <2>6, <2>7, <2>8, <2>9, <2>10
       DEF Handler, HandlerContinues
<1>3. ASSUME NEW w \in Workers, Poll(w) \/ WorkerCrash(w)
      PROVE  GoodbyeInv'
  <2>1. UNCHANGED <<hpc, view>>
    BY <1>3
       DEF Poll, ClaimQuestions, ClaimAutoCloses, ReadActive, EndPoll,
           AskClosingQuestion, AskFails, ReleaseClaim, PostNotice, FinishRollCall,
           ApplyEvent, WorkerRestart, WorkerCrash, bot
  <2>2. /\ Placed'
        /\ \A s \in Sessions, g \in Handlers : Speaks(g, s)' <=> Speaks(g, s)
    BY <2>1 DEF GoodbyeInv, Placed, Speaks
  <2>3. CASE ClaimAutoCloses(w)
    BY <2>3, WorkerWins
  <2>4. ASSUME NEW s \in Sessions, PostNotice(w, s)
        PROVE  GoodbyeInv'
    <3>1. Posts(w, s) /\ ~Posts(w, s)'
      BY <2>4 DEF TypeOK, PostNotice, Posts
    <3>2. \A t \in Sessions, v \in Workers : Posts(v, t)' => Posts(v, t)
      BY <2>4 DEF TypeOK, PostNotice, Posts
    <3>3. status' = status
      BY <2>4 DEF PostNotice, table
    <3>4. \/ announced' = [announced EXCEPT ![s] = Counted(@)]
          \/ announced' = announced
      BY <2>4 DEF PostNotice
    <3> QED
      BY <2>2, <3>1, <3>2, <3>3, <3>4, OneGoodbye
  <2>5. CASE ~ClaimAutoCloses(w) /\ ~(\E s \in Sessions : PostNotice(w, s))
    <3>1. announced' = announced
      BY <1>3, <2>5
         DEF Poll, ClaimQuestions, ReadActive, EndPoll, AskClosingQuestion, AskFails,
             ReleaseClaim, FinishRollCall, ApplyEvent, WorkerRestart, WorkerCrash, history
    <3>2. \A s \in Sessions, v \in Workers : Posts(v, s)' => Posts(v, s)
      BY <1>3, <2>5
         DEF TypeOK, Posts, Poll, ClaimQuestions, ReadActive, EndPoll,
             AskClosingQuestion, AskFails, ReleaseClaim, FinishRollCall, ApplyEvent,
             WorkerRestart, WorkerCrash, WorkerGoto, worker
    <3> QED
      BY <1>1, <2>2, <3>1, <3>2, NobodySpeaks
  <2> QED
    BY <2>3, <2>4, <2>5
<1>4. CASE BotCrash
  <2>1. Placed'
    BY <1>4 DEF BotCrash, Placed
  <2>2. \A s \in Sessions : /\ \A g \in Handlers : Speaks(g, s)' => Speaks(g, s)
                            /\ \A w \in Workers : Posts(w, s)' => Posts(w, s)
    BY <1>4 DEF BotCrash, Speaks, Posts, worker
  <2> QED
    BY <1>1, <1>4, <2>1, <2>2, NobodySpeaks DEF BotCrash, history
<1>5. CASE Tick \/ UNCHANGED vars
  <2>1. UNCHANGED <<hpc, view, wpc, work, announced>>
    BY <1>5 DEF Tick, vars, bot, worker, history
  <2>2. Placed'
    BY <2>1 DEF GoodbyeInv, Placed
  <2>3. \A s \in Sessions : /\ \A g \in Handlers : Speaks(g, s)' => Speaks(g, s)
                            /\ \A w \in Workers : Posts(w, s)' => Posts(w, s)
    BY <2>1 DEF Speaks, Posts
  <2> QED
    BY <1>1, <2>1, <2>2, <2>3, NobodySpeaks
<1> QED
  BY <1>2, <1>3, <1>4, <1>5 DEF Next

LEMMA Goodbyes == Spec => []GoodbyeInv
<1>1. Init => GoodbyeInv
  BY DEF Init, GoodbyeInv, Placed, Unsaid, HasTheWord, AnnouncedOnce, Speaks, Posts
<1>2. TypeOK /\ GoodbyeInv /\ [Next]_vars => GoodbyeInv'
  BY GoodbyeStep
<1> QED
  BY <1>1, <1>2, Typing, PTL DEF Spec

\* Whoever loses the race to close a session never speaks of it: one closing
\* message per session at most, and only about a closed one.
THEOREM SaidOnce == Spec => []AnnouncedOnce
<1>1. GoodbyeInv => AnnouncedOnce
  BY DEF GoodbyeInv
<1> QED
  BY <1>1, Goodbyes, PTL

-----------------------------------------------------------------------------
(***************************************************************************)
(* Why silence may be taken for consent: the inductive invariant behind    *)
(* ConsentOfSilence, and its proof for any number of sessions, handlers    *)
(* and workers; from it, a bound on the questions asked; and from both,    *)
(* that the lifecycle implements SessionContract.                          *)
(***************************************************************************)

\* A claim still to be sent is held by a worker that is sending.  Its row was
\* stamped by the claim, and has since been left alone or answered "not yet",
\* so it is due for nothing until the claim is settled.
ClaimsOK ==
  \A w \in Workers : \A c \in batch[w] :
    /\ wpc[w] = "asking"
    /\ c.prevRetries = 0
    /\ status[c.id] # "none"
    /\ asked[c.id] = 0 \/ (asked[c.id] = Never /\ snooze[c.id] > 0)
    /\ c.failed => CanFail

\* A retry is a retry of a question; silence ends only what it closes.
RowsOK ==
  \A s \in Sessions :
    /\ asked[s] = Never => retries[s] = 0
    /\ reason[s] = "auto_close_silence" => status[s] = "closed"

Pending(s) == \E w \in Workers : \E c \in batch[w] : c.id = s

\* How many questions the row says the group has heard, as far as the row can
\* be believed under the faults allowed.
Heard(s) == IF MaxWorkerCrashes > 0 THEN 0
            ELSE IF CanFail THEN retries[s]
            ELSE IF asked[s] = Never THEN 0 ELSE retries[s] + 1

\* The group has heard as many, but for the one still to be sent.
HeardOK ==
  \A s \in Sessions : posted[s] >= Heard(s) \/ (Pending(s) /\ posted[s] + 1 >= Heard(s))

ConsentInv == ClaimsOK /\ ClaimedOnce /\ RowsOK /\ HeardOK /\ ConsentOfSilence

\* A step that leaves the questions alone, and at most starts sessions or lets
\* humans end them.
LEMMA Undisturbed ==
  ASSUME TypeOK, TypeOK', ConsentInv,
         UNCHANGED <<asked, retries, snooze, batch, posted>>,
         \A w \in Workers : batch[w] # {} => wpc'[w] = wpc[w],
         \A s \in Sessions :
           /\ status[s] # "none" => status'[s] # "none"
           /\ status[s] = "closed" => status'[s] = "closed"
           /\ reason'[s] = "auto_close_silence" => reason[s] = "auto_close_silence"
  PROVE  ConsentInv'
<1>1. batch \in [Workers -> SUBSET Claims]
  BY DEF TypeOK
<1>2. ClaimsOK'
  BY <1>1 DEF ConsentInv, ClaimsOK, Claims
<1>3. ClaimedOnce'
  BY DEF ConsentInv, ClaimedOnce
<1>4. RowsOK'
  BY DEF ConsentInv, RowsOK
<1>5. HeardOK'
  BY DEF ConsentInv, HeardOK, Heard, Pending
<1>6. ConsentOfSilence'
  BY DEF ConsentInv, ConsentOfSilence, Owed
<1> QED
  BY <1>2, <1>3, <1>4, <1>5, <1>6 DEF ConsentInv

\* What is being asked is due for nothing.
LEMMA DueNotPending ==
  ASSUME TypeOK, ConsentInv, NEW s \in Sessions,
         DueForClosingQuestion(s) \/ DueForAutoClose(s)
  PROVE  ~Pending(s)
<1>1. asked[s] # 0 /\ ~(asked[s] = Never /\ snooze[s] > 0)
  BY ConstAssumption
     DEF TypeOK, DueForClosingQuestion, DueForAutoClose, Snoozed, UnansweredOnce,
         UnansweredTwice
<1> QED
  BY <1>1 DEF ConsentInv, ClaimsOK, Pending

\* "Not yet" forgets what was asked, whoever is still asking.
LEMMA NotYetStep ==
  ASSUME TypeOK, TypeOK', ConsentInv, NEW h \in Handlers, AnswerNo(h)
  PROVE  ConsentInv'
<1> USE ConstAssumption
<1>1. UNCHANGED <<status, reason, wpc, batch>>
  BY DEF AnswerNo, worker
<1>2. CASE UNCHANGED <<asked, retries, snooze, idle, posted>>
  BY <1>1, <1>2, Undisturbed
<1>3. ASSUME NEW s \in Sessions, status[s] = "active", Forget(s)
      PROVE  ConsentInv'
  <2>1. /\ asked' = [asked EXCEPT ![s] = Never]
        /\ retries' = [retries EXCEPT ![s] = 0]
        /\ snooze' = [snooze EXCEPT ![s] = SnoozeFor]
        /\ posted' = [posted EXCEPT ![s] = 0]
    BY <1>3 DEF Forget
  <2>2. ClaimsOK'
    BY <1>1, <2>1 DEF TypeOK, ConsentInv, ClaimsOK, Claims
  <2>3. ClaimedOnce'
    BY <1>1 DEF ConsentInv, ClaimedOnce
  <2>4. RowsOK'
    BY <1>1, <2>1 DEF TypeOK, ConsentInv, RowsOK
  <2>5. HeardOK'
    BY <1>1, <2>1 DEF TypeOK, ConsentInv, HeardOK, Heard, Pending
  <2>6. ConsentOfSilence'
    BY <1>1, <1>3, <2>1 DEF TypeOK, ConsentInv, ConsentOfSilence, RowsOK, Owed
  <2> QED
    BY <2>2, <2>3, <2>4, <2>5, <2>6 DEF ConsentInv
<1>4. view[h].sid \in Sessions \/ UNCHANGED <<asked, retries, snooze, idle, posted>>
  BY DEF TypeOK, Views, AnswerNo, StillActive, Forget
<1> QED
  BY <1>2, <1>3, <1>4 DEF AnswerNo, StillActive

\* Claiming: the sessions due, none of them claimed already, are stamped and
\* will be asked.
LEMMA ClaimStep ==
  ASSUME TypeOK, TypeOK', ConsentInv, NEW w \in Workers, ClaimQuestions(w)
  PROVE  ConsentInv'
<1> USE ConstAssumption
<1> DEFINE due == {s \in Sessions : DueForClosingQuestion(s)}
           claim(s) == [id |-> s, prevAsked |-> asked[s], prevRetries |-> retries[s],
                        failed |-> FALSE]
<1>1. /\ wpc[w] = "idle" /\ wpc' = [wpc EXCEPT ![w] = "asking"]
      /\ batch' = [batch EXCEPT ![w] = {claim(s) : s \in due}]
      /\ retries' = [s \in Sessions |->
           IF s \in due THEN IF asked[s] = Never THEN 0 ELSE retries[s] + 1
                        ELSE retries[s]]
      /\ asked' = [s \in Sessions |-> IF s \in due THEN 0 ELSE asked[s]]
      /\ UNCHANGED <<status, reason, snooze, posted>>
  BY DEF ClaimQuestions, WorkerGoto, history
<1>2. /\ batch \in [Workers -> SUBSET Claims] /\ wpc \in [Workers -> {"idle", "asking", "closing", "tail", "down"}]
      /\ retries \in [Sessions -> 0 .. 1] /\ posted \in [Sessions -> 0 .. CountCap]
      /\ asked \in [Sessions -> {Never} \cup 0 .. UnansweredFor + 1]
  BY DEF TypeOK
<1>3. batch[w] = {}
  BY <1>1, <1>2 DEF ConsentInv, ClaimsOK
<1>4. \A s \in due : ~Pending(s) /\ status[s] = "active" /\ retries[s] = 0
  BY DueNotPending DEF DueForClosingQuestion, UnansweredOnce, ConsentInv, RowsOK
<1>5. \A v \in Workers : \A c \in batch'[v] :
        \/ v = w /\ c.id \in due /\ c = claim(c.id)
        \/ v # w /\ c \in batch[v] /\ c.id \in Sessions \ due
  BY <1>1, <1>2, <1>4 DEF Pending, Claims
<1>6. ClaimsOK'
  <2> SUFFICES ASSUME NEW v \in Workers, NEW c \in batch'[v]
               PROVE  /\ wpc'[v] = "asking"
                      /\ c.prevRetries = 0
                      /\ status'[c.id] # "none"
                      /\ asked'[c.id] = 0 \/ (asked'[c.id] = Never /\ snooze'[c.id] > 0)
                      /\ c.failed => CanFail
    BY DEF ClaimsOK
  <2>1. CASE v = w /\ c.id \in due /\ c = claim(c.id)
    BY <1>1, <1>2, <1>4, <2>1
  <2>2. CASE v # w /\ c \in batch[v] /\ c.id \in Sessions \ due
    BY <1>1, <1>2, <2>2 DEF ConsentInv, ClaimsOK
  <2> QED
    BY <1>5, <2>1, <2>2
<1>7. ClaimedOnce'
  <2> SUFFICES ASSUME NEW u \in Workers, NEW v \in Workers,
                      NEW c \in batch'[u], NEW d \in batch'[v], c.id = d.id
               PROVE  u = v /\ c = d
    BY DEF ClaimedOnce
  <2>1. CASE c.id \in due
    BY <1>5, <2>1
  <2>2. CASE c.id \notin due
    BY <1>5, <2>2 DEF ConsentInv, ClaimedOnce
  <2> QED
    BY <2>1, <2>2
<1>8. RowsOK'
  BY <1>1, <1>2 DEF ConsentInv, RowsOK
<1>9. HeardOK'
  <2> SUFFICES ASSUME NEW s \in Sessions
               PROVE  \/ posted'[s] >= Heard(s)'
                      \/ Pending(s)' /\ posted'[s] + 1 >= Heard(s)'
    BY DEF HeardOK
  <2>1. CASE s \in due
    <3>1. claim(s) \in batch'[w] /\ claim(s).id = s
      BY <1>1, <1>2, <2>1
    <3>2. Pending(s)'
      BY <3>1 DEF Pending
    <3>3. posted[s] >= Heard(s)
      BY <1>4, <2>1 DEF ConsentInv, HeardOK
    <3>4. posted'[s] + 1 >= Heard(s)'
      BY <1>1, <1>2, <1>4, <2>1, <3>3 DEF Heard, CountCap
    <3> QED
      BY <3>2, <3>4
  <2>2. CASE s \notin due
    <3>1. Heard(s)' = Heard(s)
      BY <1>1, <2>2 DEF Heard
    <3>2. Pending(s) => Pending(s)'
      BY <1>1, <1>2, <1>3 DEF Pending
    <3> QED
      BY <1>1, <3>1, <3>2 DEF ConsentInv, HeardOK
  <2> QED
    BY <2>1, <2>2
<1>10. ConsentOfSilence'
  BY <1>1 DEF ConsentInv, ConsentOfSilence, Owed
<1> QED
  BY <1>6, <1>7, <1>8, <1>9, <1>10 DEF ConsentInv

\* A claim settled: sent, sent as far as the worker can tell, or put back.
\* The only claim on its session leaves its worker's batch, or stays in it as
\* failed.
LEMMA Settled ==
  ASSUME TypeOK, ConsentInv, NEW w \in Workers, NEW c \in batch[w],
         UNCHANGED <<status, reason, wpc, snooze>>,
         batch' = [batch EXCEPT ![w] = @ \ {c}]
  PROVE  /\ c \in Claims /\ c.id \in Sessions
         /\ \A v \in Workers : batch'[v] \subseteq batch[v]
         /\ \A v \in Workers : \A d \in batch'[v] : d.id # c.id
         /\ ~Pending(c.id)'
         /\ \A s \in Sessions \ {c.id} : Pending(s)' <=> Pending(s)
<1>1. batch \in [Workers -> SUBSET Claims]
  BY DEF TypeOK
<1>2. c \in Claims /\ c.id \in Sessions
  BY <1>1 DEF Claims
<1>3. \A v \in Workers : \A d \in batch'[v] : d \in batch[v] /\ d.id # c.id
  BY <1>1 DEF ConsentInv, ClaimedOnce
<1>4. \A s \in Sessions \ {c.id} : Pending(s)' <=> Pending(s)
  BY <1>1 DEF Pending
<1> QED
  BY <1>2, <1>3, <1>4 DEF Pending

\* The question is posted.
LEMMA AskStep ==
  ASSUME TypeOK, TypeOK', ConsentInv, NEW w \in Workers, NEW c \in batch[w],
         AskClosingQuestion(w, c)
  PROVE  ConsentInv'
<1>1. /\ posted' = [posted EXCEPT ![c.id] = Counted(@)]
      /\ batch' = [batch EXCEPT ![w] = @ \ {c}]
      /\ UNCHANGED <<status, reason, asked, retries, snooze, wpc>>
  BY DEF AskClosingQuestion, table
<1>2. /\ c.id \in Sessions
      /\ \A v \in Workers : batch'[v] \subseteq batch[v]
      /\ \A s \in Sessions \ {c.id} : Pending(s)' <=> Pending(s)
  BY <1>1, Settled
<1>3. /\ posted \in [Sessions -> 0 .. CountCap] /\ retries \in [Sessions -> 0 .. 1]
  BY DEF TypeOK
<1>4. ClaimsOK' /\ ClaimedOnce' /\ RowsOK'
  BY <1>1, <1>2 DEF ConsentInv, ClaimsOK, ClaimedOnce, RowsOK
<1>5. HeardOK'
  <2> SUFFICES ASSUME NEW s \in Sessions
               PROVE  \/ posted'[s] >= Heard(s)'
                      \/ Pending(s)' /\ posted'[s] + 1 >= Heard(s)'
    BY DEF HeardOK
  <2>1. Heard(s)' = Heard(s) /\ Heard(s) \in 0 .. 2
    BY <1>1, <1>3 DEF Heard
  <2>2. CASE s = c.id
    BY <1>1, <1>2, <1>3, <2>1, <2>2 DEF ConsentInv, HeardOK, Counted, CountCap
  <2>3. CASE s # c.id
    BY <1>1, <1>2, <1>3, <2>1, <2>3 DEF ConsentInv, HeardOK
  <2> QED
    BY <2>2, <2>3
<1>6. ConsentOfSilence'
  BY <1>1, <1>3 DEF ConsentInv, ConsentOfSilence, Owed, Counted, CountCap
<1> QED
  BY <1>4, <1>5, <1>6 DEF ConsentInv

\* The send raises; whether it was posted or not, the claim is still to be
\* settled.
LEMMA FailStep ==
  ASSUME TypeOK, TypeOK', ConsentInv, NEW w \in Workers, NEW c \in batch[w],
         AskFails(w, c)
  PROVE  ConsentInv'
<1> DEFINE failed == [c EXCEPT !.failed = TRUE]
<1>1. /\ CanFail
      /\ batch' = [batch EXCEPT ![w] = (@ \ {c}) \cup {failed}]
      /\ UNCHANGED <<status, reason, asked, retries, snooze, wpc>>
  BY DEF AskFails, table
<1>2. \A s \in Sessions : posted'[s] >= posted[s]
  <2>1. posted \in [Sessions -> 0 .. CountCap]
    BY DEF TypeOK
  <2> QED
    BY <2>1 DEF AskFails, Counted, CountCap
<1>3. batch \in [Workers -> SUBSET Claims] /\ c \in Claims
  BY DEF TypeOK
<1>4. failed.id = c.id /\ failed.prevRetries = c.prevRetries
  BY <1>3 DEF Claims
<1>5. \A v \in Workers : \A d \in batch'[v] :
        \/ v = w /\ d = failed
        \/ d \in batch[v] /\ d.id # c.id
  BY <1>1, <1>3 DEF ConsentInv, ClaimedOnce
<1>6. ClaimsOK'
  <2> HIDE DEF failed
  <2> SUFFICES ASSUME NEW v \in Workers, NEW d \in batch'[v]
               PROVE  /\ wpc[v] = "asking"
                      /\ d.prevRetries = 0
                      /\ status[d.id] # "none"
                      /\ asked[d.id] = 0 \/ (asked[d.id] = Never /\ snooze[d.id] > 0)
                      /\ d.failed => CanFail
    BY <1>1 DEF ClaimsOK
  <2>1. CASE v = w /\ d = failed
    BY <1>1, <1>4, <2>1 DEF ConsentInv, ClaimsOK
  <2>2. CASE d \in batch[v]
    BY <2>2 DEF ConsentInv, ClaimsOK
  <2> QED
    BY <1>5, <2>1, <2>2
<1>7. ClaimedOnce'
  <2> HIDE DEF failed
  <2> SUFFICES ASSUME NEW u \in Workers, NEW v \in Workers,
                      NEW d \in batch'[u], NEW e \in batch'[v], d.id = e.id
               PROVE  u = v /\ d = e
    BY DEF ClaimedOnce
  <2>1. CASE d = failed \/ e = failed
    BY <1>4, <1>5, <2>1
  <2>2. CASE d # failed /\ e # failed
    BY <1>5, <2>2 DEF ConsentInv, ClaimedOnce
  <2> QED
    BY <2>1, <2>2
<1>8. RowsOK'
  BY <1>1 DEF ConsentInv, RowsOK
<1>9. HeardOK'
  <2>1. \A s \in Sessions : Pending(s) => Pending(s)'
    BY <1>1, <1>3, <1>4 DEF Pending
  <2>2. \A s \in Sessions : Heard(s)' = Heard(s) /\ Heard(s) \in 0 .. 2
    BY <1>1 DEF Heard, TypeOK
  <2>3. posted \in [Sessions -> 0 .. CountCap] /\ posted' \in [Sessions -> 0 .. CountCap]
    BY DEF TypeOK
  <2> QED
    BY <1>2, <2>1, <2>2, <2>3 DEF ConsentInv, HeardOK, CountCap
<1>10. ConsentOfSilence'
  <2>1. posted \in [Sessions -> 0 .. CountCap] /\ posted' \in [Sessions -> 0 .. CountCap]
    BY DEF TypeOK
  <2> QED
    BY <1>1, <1>2, <2>1 DEF ConsentInv, ConsentOfSilence, Owed, CountCap
<1> QED
  BY <1>6, <1>7, <1>8, <1>9, <1>10 DEF ConsentInv

\* The row is put back to what it was, a question fewer.
LEMMA ReleaseStep ==
  ASSUME TypeOK, TypeOK', ConsentInv, NEW w \in Workers, NEW c \in batch[w],
         ReleaseClaim(w, c)
  PROVE  ConsentInv'
<1>1. /\ asked' = [asked EXCEPT ![c.id] = c.prevAsked]
      /\ retries' = [retries EXCEPT ![c.id] = c.prevRetries]
      /\ batch' = [batch EXCEPT ![w] = @ \ {c}]
      /\ UNCHANGED <<status, reason, snooze, posted, wpc>>
  BY DEF ReleaseClaim, Restored, history
<1>2. /\ c \in Claims /\ c.id \in Sessions
      /\ \A v \in Workers : batch'[v] \subseteq batch[v]
      /\ \A v \in Workers : \A d \in batch'[v] : d.id # c.id
      /\ \A s \in Sessions \ {c.id} : Pending(s)' <=> Pending(s)
  BY <1>1, Settled
<1>3. c.prevRetries = 0 /\ CanFail
  BY DEF ReleaseClaim, ConsentInv, ClaimsOK
<1>4. /\ asked \in [Sessions -> {Never} \cup 0 .. UnansweredFor + 1]
      /\ retries \in [Sessions -> 0 .. 1] /\ posted \in [Sessions -> 0 .. CountCap]
      /\ batch \in [Workers -> SUBSET Claims]
  BY DEF TypeOK
<1>5. ClaimsOK'
  <2> SUFFICES ASSUME NEW v \in Workers, NEW d \in batch'[v]
               PROVE  /\ wpc'[v] = "asking"
                      /\ d.prevRetries = 0
                      /\ status'[d.id] # "none"
                      /\ asked'[d.id] = 0 \/ (asked'[d.id] = Never /\ snooze'[d.id] > 0)
                      /\ d.failed => CanFail
    BY DEF ClaimsOK
  <2>1. d \in batch[v] /\ d.id # c.id /\ d.id \in Sessions
    BY <1>2, <1>4 DEF Claims
  <2> QED
    BY <1>1, <1>4, <2>1 DEF ConsentInv, ClaimsOK
<1>6. ClaimedOnce'
  BY <1>2 DEF ConsentInv, ClaimedOnce
<1>7. RowsOK'
  BY <1>1, <1>2, <1>3, <1>4 DEF ConsentInv, RowsOK
<1>8. HeardOK'
  BY <1>1, <1>2, <1>3, <1>4 DEF ConsentInv, HeardOK, Heard, CountCap
<1>9. ConsentOfSilence'
  BY <1>1 DEF ConsentInv, ConsentOfSilence, Owed
<1> QED
  BY <1>5, <1>6, <1>7, <1>8, <1>9 DEF ConsentInv

\* Two questions asked, none pending: silence may be taken for consent.
LEMMA AutoCloseStep ==
  ASSUME TypeOK, TypeOK', ConsentInv, NEW w \in Workers, ClaimAutoCloses(w)
  PROVE  ConsentInv'
<1> USE ConstAssumption
<1> DEFINE due == {s \in Sessions : DueForAutoClose(s)}
<1>1. /\ batch[w] = {} /\ wpc' = [wpc EXCEPT ![w] = "closing"]
      /\ status' = [s \in Sessions |-> IF s \in due THEN "closed" ELSE status[s]]
      /\ reason' = [s \in Sessions |-> IF s \in due THEN "auto_close_silence" ELSE reason[s]]
      /\ UNCHANGED <<asked, retries, snooze, batch, posted>>
  BY DEF ClaimAutoCloses, WorkerGoto, history
<1>2. /\ batch \in [Workers -> SUBSET Claims] /\ retries \in [Sessions -> 0 .. 1]
      /\ wpc \in [Workers -> {"idle", "asking", "closing", "tail", "down"}]
      /\ posted \in [Sessions -> 0 .. CountCap]
  BY DEF TypeOK
<1>3. \A s \in due : ~Pending(s) /\ asked[s] # Never /\ retries[s] = 1
  BY <1>2, DueNotPending DEF DueForAutoClose, UnansweredTwice
<1>4. ClaimsOK'
  <2> SUFFICES ASSUME NEW v \in Workers, NEW d \in batch[v]
               PROVE  /\ wpc'[v] = "asking"
                      /\ d.prevRetries = 0
                      /\ status'[d.id] # "none"
                      /\ asked[d.id] = 0 \/ (asked[d.id] = Never /\ snooze[d.id] > 0)
                      /\ d.failed => CanFail
    BY <1>1 DEF ClaimsOK
  <2>1. v # w /\ d.id \in Sessions
    BY <1>1, <1>2 DEF Claims
  <2> QED
    BY <1>1, <1>2, <2>1 DEF ConsentInv, ClaimsOK
<1>5. ClaimedOnce'
  BY <1>1 DEF ConsentInv, ClaimedOnce
<1>6. RowsOK'
  BY <1>1 DEF ConsentInv, RowsOK
<1>7. HeardOK'
  BY <1>1 DEF ConsentInv, HeardOK, Heard, Pending
<1>8. ConsentOfSilence'
  <2>1. \A s \in due : posted[s] >= Owed
    BY <1>2, <1>3 DEF ConsentInv, HeardOK, Heard, Owed, CountCap
  <2> QED
    BY <1>1, <2>1 DEF ConsentInv, ConsentOfSilence, Owed
<1> QED
  BY <1>4, <1>5, <1>6, <1>7, <1>8 DEF ConsentInv

\* A worker dies with its claims: nothing is owed for a question any more.
LEMMA CrashStep ==
  ASSUME TypeOK, TypeOK', ConsentInv, NEW w \in Workers, WorkerCrash(w)
  PROVE  ConsentInv'
<1>1. /\ wpc' = [wpc EXCEPT ![w] = "down"] /\ batch' = [batch EXCEPT ![w] = {}]
      /\ UNCHANGED <<status, reason, asked, retries, snooze, posted>>
  BY DEF WorkerCrash, WorkerGoto, table, history
<1>2. MaxWorkerCrashes > 0
  BY ConstAssumption DEF WorkerCrash, TypeOK
<1>3. /\ batch \in [Workers -> SUBSET Claims] /\ posted \in [Sessions -> 0 .. CountCap]
      /\ wpc \in [Workers -> {"idle", "asking", "closing", "tail", "down"}]
  BY DEF TypeOK
<1>4. \A v \in Workers : \A d \in batch'[v] : v # w /\ d \in batch[v]
  BY <1>1, <1>3
<1>5. ClaimsOK'
  BY <1>1, <1>3, <1>4 DEF ConsentInv, ClaimsOK
<1>6. ClaimedOnce'
  BY <1>4 DEF ConsentInv, ClaimedOnce
<1>7. RowsOK'
  BY <1>1 DEF ConsentInv, RowsOK
<1>8. HeardOK'
  BY <1>1, <1>2, <1>3 DEF HeardOK, Heard, CountCap
<1>9. ConsentOfSilence'
  BY <1>1 DEF ConsentInv, ConsentOfSilence, Owed
<1> QED
  BY <1>5, <1>6, <1>7, <1>8, <1>9 DEF ConsentInv

\* Half a day passes only when nothing is being asked.
LEMMA TickStep ==
  ASSUME TypeOK, TypeOK', ConsentInv, Tick
  PROVE  ConsentInv'
<1> USE ConstAssumption
<1>1. UNCHANGED <<status, reason, retries, wpc, batch, posted>>
  BY DEF Tick, worker, history
<1>2. \A w \in Workers : batch[w] = {}
  BY DEF Tick, ConsentInv, ClaimsOK
<1>3. ClaimsOK' /\ ClaimedOnce'
  BY <1>1, <1>2 DEF ClaimsOK, ClaimedOnce
<1>4. \A s \in Sessions : asked'[s] = Never <=> asked[s] = Never
  <2>1. asked \in [Sessions -> {Never} \cup 0 .. UnansweredFor + 1]
    BY DEF TypeOK
  <2>2. \A s \in Sessions : asked[s] # Never => Older(asked[s], UnansweredFor) \in Nat
    BY <2>1 DEF Older
  <2> QED
    BY <2>1, <2>2 DEF Tick
<1>5. RowsOK'
  BY <1>1, <1>4 DEF ConsentInv, RowsOK
<1>6. HeardOK'
  BY <1>1, <1>4 DEF ConsentInv, HeardOK, Heard, Pending
<1>7. ConsentOfSilence'
  BY <1>1 DEF ConsentInv, ConsentOfSilence, Owed
<1> QED
  BY <1>3, <1>5, <1>6, <1>7 DEF ConsentInv

\* Every other step leaves the questions alone.
LEMMA OtherSteps ==
  ASSUME TypeOK, TypeOK', ConsentInv,
         UNCHANGED <<asked, retries, snooze, batch, posted>>,
         \A w \in Workers : wpc[w] = "asking" => wpc'[w] = "asking",
         \A s \in Sessions : reason'[s] = "auto_close_silence" => reason[s] = reason'[s],
         [Next]_vars
  PROVE  ConsentInv'
<1>1. \A w \in Workers : batch[w] # {} => wpc'[w] = wpc[w]
  BY DEF ConsentInv, ClaimsOK
<1>2. \A s \in Sessions : /\ status[s] # "none" => status'[s] # "none"
                          /\ status[s] = "closed" => status'[s] = "closed"
  BY StatusSteps DEF TypeOK, Starts, EndsOrStays
<1> QED
  BY <1>1, <1>2, Undisturbed

LEMMA ConsentInvariant == Spec => []ConsentInv
<1> USE ConstAssumption
<1>1. Init => ConsentInv
  BY DEF Init, ConsentInv, ClaimsOK, ClaimedOnce, RowsOK, HeardOK, Heard, ConsentOfSilence
<1>2. ASSUME TypeOK, TypeOK', ConsentInv, [Next]_vars
      PROVE  ConsentInv'
  <2> DEFINE Calm == /\ UNCHANGED <<asked, retries, snooze, batch, posted>>
                     /\ \A w \in Workers : wpc[w] = "asking" => wpc'[w] = "asking"
                     /\ \A s \in Sessions :
                          reason'[s] = "auto_close_silence" => reason[s] = reason'[s]
  <2>1. Calm => ConsentInv'
    BY <1>2, OtherSteps
  <2>2. ASSUME NEW h \in Handlers, Handler(h)
        PROVE  Calm \/ AnswerNo(h)
    <3>1. CASE AnswerYes(h) \/ AnswerStop(h) \/ Leave(h)
      <4>1. \E r \in {"explicit_stop", "closing_question_yes"}, next \in Places : Close(h, r, next)
        BY <3>1 DEF AnswerYes, AnswerStop, Leave, Places
      <4>2. UNCHANGED <<wpc, batch, posted>>
        BY <3>1 DEF AnswerYes, AnswerStop, Leave, worker, history
      <4>3. UNCHANGED <<asked, retries, snooze>>
        BY <4>1 DEF Close, table
      <4>4. \A s \in Sessions : reason'[s] = "auto_close_silence" => reason[s] = reason'[s]
        BY <1>2, <4>1 DEF TypeOK, Close, table
      <4> QED
        BY <4>2, <4>3, <4>4
    <3>2. CASE InsertSession(h)
      BY <3>2 DEF InsertSession, worker, history
    <3>3. CASE \/ CheckNoneActive(h) \/ CarryTitle(h) \/ Touch(h) \/ StartRollCall(h)
               \/ EndTurn(h) \/ CancelRollCalls(h) \/ Farewell(h)
               \/ \E e \in EventDays : SyncTitle(h, e)
               \/ \E c \in Chats : RouteToDormant(h, c)
      BY <3>3
         DEF CheckNoneActive, CarryTitle, Touch, StartRollCall, EndTurn, CancelRollCalls,
             Farewell, SyncTitle, RouteToDormant, table, worker, history
    <3>4. CASE \E s \in Sessions : RouteToActive(h, s) \/ RouteRemoval(h, s)
      BY <3>4 DEF RouteToActive, RouteRemoval, table, worker, history
    <3>5. CASE \E s \in Sessions, e \in EventDates : Retopic(h, s, e)
      BY <3>5 DEF Retopic, worker, history
    <3> QED
      BY <2>2, <3>1, <3>2, <3>3, <3>4, <3>5 DEF Handler, HandlerContinues
  <2>3. ASSUME NEW w \in Workers, Poll(w)
        PROVE  ConsentInv'
    <3>1. CASE ClaimQuestions(w)
      BY <1>2, <3>1, ClaimStep
    <3>2. ASSUME NEW c \in batch[w],
                 AskClosingQuestion(w, c) \/ AskFails(w, c) \/ ReleaseClaim(w, c)
          PROVE  ConsentInv'
      BY <1>2, <3>2, AskStep, FailStep, ReleaseStep
    <3>3. CASE ClaimAutoCloses(w)
      BY <1>2, <3>3, AutoCloseStep
    <3>4. CASE ReadActive(w) \/ EndPoll(w) \/ WorkerRestart(w)
      <4>1. UNCHANGED <<asked, retries, snooze, batch, posted, reason>>
        BY <3>4 DEF ReadActive, EndPoll, WorkerRestart, table, history
      <4>2. \A v \in Workers : wpc[v] = "asking" => wpc'[v] = "asking"
        BY <1>2, <3>4 DEF TypeOK, ReadActive, EndPoll, WorkerRestart, WorkerGoto
      <4> QED
        BY <2>1, <4>1, <4>2
    <3>5. CASE \/ \E s \in Sessions : PostNotice(w, s) \/ FinishRollCall(w, s)
               \/ \E s \in Sessions, e \in EventDays : ApplyEvent(w, s, e)
      <4>1. Calm
        BY <3>5 DEF PostNotice, FinishRollCall, ApplyEvent, table, worker, history
      <4> QED
        BY <2>1, <4>1
    <3> QED
      BY <2>3, <3>1, <3>2, <3>3, <3>4, <3>5 DEF Poll
  <2>4. ASSUME NEW w \in Workers, WorkerCrash(w)
        PROVE  ConsentInv'
    BY <1>2, <2>4, CrashStep
  <2>5. CASE Tick
    BY <1>2, <2>5, TickStep
  <2>6. CASE BotCrash \/ UNCHANGED vars
    <3>1. Calm
      BY <2>6 DEF BotCrash, vars, table, worker, history
    <3> QED
      BY <2>1, <3>1
  <2>7. ASSUME NEW h \in Handlers, Handler(h)
        PROVE  ConsentInv'
    BY <1>2, <2>1, <2>2, <2>7, NotYetStep
  <2> QED
    BY <1>2, <2>3, <2>4, <2>5, <2>6, <2>7 DEF Next
<1> QED
  BY <1>1, <1>2, Typing, PTL DEF Spec

\* Silence counts as consent only after as many questions, really posted since
\* the last "not yet", as Owed names.
THEOREM SilenceIsConsent == Spec => []ConsentOfSilence
<1>1. ConsentInv => ConsentOfSilence
  BY DEF ConsentInv
<1> QED
  BY <1>1, ConsentInvariant, PTL

\* No two pollers hold claims on one session.
THEOREM NeverClaimedTwice == Spec => []ClaimedOnce
<1>1. ConsentInv => ClaimedOnce
  BY DEF ConsentInv
<1> QED
  BY <1>1, ConsentInvariant, PTL

-----------------------------------------------------------------------------
\* Nobody is nagged.  What a row admits to having asked bounds what the group
\* has read, and leaves room for the one question still to be sent.

Most(s) == IF asked[s] = Never THEN 1 ELSE retries[s] + 2

NagInv ==
  ~CanFail => \A s \in Sessions : /\ posted[s] <= Most(s)
                                  /\ Pending(s) => posted[s] + 1 <= Most(s)

\* A step that asks nothing and stamps nothing.
LEMMA NothingAsked ==
  ASSUME NagInv, UNCHANGED <<retries, posted>>,
         \A s \in Sessions : /\ asked'[s] = Never <=> asked[s] = Never
                             /\ Pending(s)' => Pending(s)
  PROVE  NagInv'
BY DEF NagInv, Most

LEMMA NagNotYet ==
  ASSUME TypeOK, NagInv, NEW h \in Handlers, AnswerNo(h)
  PROVE  NagInv'
<1>1. batch' = batch
  BY DEF AnswerNo, worker
<1>2. CASE UNCHANGED <<asked, retries, snooze, idle, posted>>
  BY <1>1, <1>2, NothingAsked DEF Pending
<1>3. ASSUME NEW s \in Sessions, Forget(s)
      PROVE  NagInv'
  <2>1. \A t \in Sessions : t # s => /\ posted'[t] = posted[t] /\ Most(t)' = Most(t)
                                     /\ Pending(t)' <=> Pending(t)
    BY <1>1, <1>3 DEF TypeOK, Forget, Most, Pending
  <2>2. posted'[s] = 0 /\ Most(s)' = 1
    BY <1>3 DEF TypeOK, Forget, Most
  <2> QED
    BY <2>1, <2>2 DEF NagInv
<1>4. view[h].sid \in Sessions \/ UNCHANGED <<asked, retries, snooze, idle, posted>>
  BY DEF TypeOK, Views, AnswerNo, StillActive, Forget
<1> QED
  BY <1>2, <1>3, <1>4 DEF AnswerNo

LEMMA NagClaim ==
  ASSUME TypeOK, ConsentInv, NagInv, NEW w \in Workers, ClaimQuestions(w)
  PROVE  NagInv'
<1> USE ConstAssumption
<1> DEFINE due == {s \in Sessions : DueForClosingQuestion(s)}
<1>1. /\ wpc[w] = "idle"
      /\ batch' = [batch EXCEPT ![w] =
           {[id |-> s, prevAsked |-> asked[s], prevRetries |-> retries[s],
             failed |-> FALSE] : s \in due}]
      /\ retries' = [s \in Sessions |->
           IF s \in due THEN IF asked[s] = Never THEN 0 ELSE retries[s] + 1
                        ELSE retries[s]]
      /\ asked' = [s \in Sessions |-> IF s \in due THEN 0 ELSE asked[s]]
      /\ UNCHANGED posted
  BY DEF ClaimQuestions, history
<1>2. /\ batch \in [Workers -> SUBSET Claims] /\ retries \in [Sessions -> 0 .. 1]
      /\ posted \in [Sessions -> 0 .. CountCap]
  BY DEF TypeOK
<1>3. SUFFICES ASSUME ~CanFail, NEW s \in Sessions
               PROVE  /\ posted'[s] <= Most(s)'
                      /\ Pending(s)' => posted'[s] + 1 <= Most(s)'
  BY DEF NagInv
<1>4. posted[s] <= Most(s) /\ (Pending(s) => posted[s] + 1 <= Most(s))
  BY <1>3 DEF NagInv
<1>5. CASE s \in due
  <2>1. asked[s] = Never \/ retries[s] = 0
    BY <1>5 DEF DueForClosingQuestion, UnansweredOnce
  <2>2. asked'[s] = 0 /\ retries'[s] = IF asked[s] = Never THEN 0 ELSE retries[s] + 1
    BY <1>1, <1>5
  <2>3. Most(s)' = retries'[s] + 2
    BY <2>2 DEF Most
  <2>4. posted'[s] = posted[s] /\ posted[s] \in Nat
    BY <1>1, <1>2 DEF CountCap
  <2> QED
    BY <1>4, <2>1, <2>2, <2>3, <2>4 DEF Most
<1>6. CASE s \notin due
  <2>1. Most(s)' = Most(s) /\ posted'[s] = posted[s]
    BY <1>1, <1>6 DEF Most
  <2>2. Pending(s)' => Pending(s)
    BY <1>1, <1>2, <1>6 DEF Pending
  <2> QED
    BY <1>4, <2>1, <2>2
<1> QED
  BY <1>5, <1>6

LEMMA NagAsk ==
  ASSUME TypeOK, ConsentInv, NagInv, NEW w \in Workers, NEW c \in batch[w],
         AskClosingQuestion(w, c)
  PROVE  NagInv'
<1>1. /\ posted' = [posted EXCEPT ![c.id] = Counted(@)]
      /\ batch' = [batch EXCEPT ![w] = @ \ {c}]
      /\ UNCHANGED <<status, reason, asked, retries, snooze, wpc>>
  BY DEF AskClosingQuestion, table
<1>2. /\ c.id \in Sessions /\ ~Pending(c.id)'
      /\ \A s \in Sessions \ {c.id} : Pending(s)' <=> Pending(s)
  BY <1>1, Settled
<1>3. Pending(c.id)
  BY DEF Pending
<1>4. posted \in [Sessions -> 0 .. CountCap]
  BY DEF TypeOK
<1>5. posted'[c.id] <= posted[c.id] + 1
  BY <1>1, <1>2, <1>4 DEF Counted, CountCap
<1>6. \A s \in Sessions : Most(s)' = Most(s) /\ (s # c.id => posted'[s] = posted[s])
  BY <1>1, <1>4 DEF Most
<1>7. /\ posted'[c.id] \in 0 .. CountCap /\ posted[c.id] \in 0 .. CountCap
      /\ Most(c.id) \in Nat
  <2>1. retries \in [Sessions -> 0 .. 1]
    BY DEF TypeOK
  <2> QED
    BY <1>1, <1>2, <1>4, <2>1 DEF Most, Counted, CountCap
<1> QED
  BY <1>2, <1>3, <1>5, <1>6, <1>7 DEF NagInv, CountCap

LEMMA NagStep ==
  ASSUME TypeOK, ConsentInv, NagInv, [Next]_vars
  PROVE  NagInv'
<1> USE ConstAssumption
<1> DEFINE Still == UNCHANGED <<asked, retries, batch, posted>>
<1>1. Still => NagInv'
  BY NothingAsked DEF Pending
<1>2. ASSUME NEW h \in Handlers, Handler(h)
      PROVE  NagInv'
  <2>1. CASE AnswerYes(h) \/ AnswerStop(h) \/ Leave(h)
    BY <1>1, <2>1 DEF AnswerYes, AnswerStop, Leave, Close, table, worker, history
  <2>2. CASE AnswerNo(h)
    BY <2>2, NagNotYet
  <2>3. CASE \/ InsertSession(h) \/ CheckNoneActive(h) \/ CarryTitle(h) \/ Touch(h)
             \/ StartRollCall(h) \/ EndTurn(h) \/ CancelRollCalls(h) \/ Farewell(h)
             \/ \E e \in EventDays : SyncTitle(h, e)
             \/ \E c \in Chats : RouteToDormant(h, c)
             \/ \E s \in Sessions : RouteToActive(h, s) \/ RouteRemoval(h, s)
             \/ \E s \in Sessions, e \in EventDates : Retopic(h, s, e)
    BY <1>1, <2>3
       DEF InsertSession, CheckNoneActive, CarryTitle, Touch, StartRollCall, EndTurn,
           CancelRollCalls, Farewell, SyncTitle, RouteToDormant, RouteToActive,
           RouteRemoval, Retopic, table, worker, history
  <2> QED
    BY <1>2, <2>1, <2>2, <2>3 DEF Handler, HandlerContinues
<1>3. ASSUME NEW w \in Workers, Poll(w)
      PROVE  NagInv'
  <2>1. CASE ClaimQuestions(w)
    BY <2>1, NagClaim
  <2>2. ASSUME NEW c \in batch[w], AskClosingQuestion(w, c)
        PROVE  NagInv'
    BY <2>2, NagAsk
  <2>3. ASSUME NEW c \in batch[w], AskFails(w, c) \/ ReleaseClaim(w, c)
        PROVE  NagInv'
    <3>1. CanFail
      BY <2>3 DEF AskFails, ReleaseClaim, ConsentInv, ClaimsOK
    <3> QED
      BY <3>1 DEF NagInv
  <2>4. CASE \/ ClaimAutoCloses(w) \/ ReadActive(w) \/ EndPoll(w) \/ WorkerRestart(w)
             \/ \E s \in Sessions : PostNotice(w, s) \/ FinishRollCall(w, s)
             \/ \E s \in Sessions, e \in EventDays : ApplyEvent(w, s, e)
    BY <1>1, <2>4
       DEF ClaimAutoCloses, ReadActive, EndPoll, WorkerRestart, PostNotice,
           FinishRollCall, ApplyEvent, table, worker, history
  <2> QED
    BY <1>3, <2>1, <2>2, <2>3, <2>4 DEF Poll
<1>4. ASSUME NEW w \in Workers, WorkerCrash(w)
      PROVE  NagInv'
  <2>1. UNCHANGED <<asked, retries, posted>> /\ batch' = [batch EXCEPT ![w] = {}]
    BY <1>4 DEF WorkerCrash, table, history
  <2>2. \A s \in Sessions : Pending(s)' => Pending(s)
    BY <2>1 DEF TypeOK, Pending
  <2> QED
    BY <2>1, <2>2, NothingAsked
<1>5. CASE Tick
  <2>1. UNCHANGED <<retries, batch, posted>>
    BY <1>5 DEF Tick, worker, history
  <2>2. \A s \in Sessions : asked'[s] = Never <=> asked[s] = Never
    <3>1. asked \in [Sessions -> {Never} \cup 0 .. UnansweredFor + 1]
      BY DEF TypeOK
    <3>2. \A s \in Sessions : asked[s] # Never => Older(asked[s], UnansweredFor) \in Nat
      BY <3>1 DEF Older
    <3> QED
      BY <1>5, <3>1, <3>2 DEF Tick
  <2> QED
    BY <2>1, <2>2, NothingAsked DEF Pending
<1>6. CASE BotCrash \/ UNCHANGED vars
  BY <1>1, <1>6 DEF BotCrash, vars, table, worker, history
<1> QED
  BY <1>2, <1>3, <1>4, <1>5, <1>6 DEF Next

\* When every send succeeds a group reads three closing questions at most
\* before somebody answers: two, and one that was on its way.
THEOREM ThreeAtMost == Spec => []NeverNagged
<1>1. Init => NagInv
  BY DEF Init, NagInv, Most, Pending
<1>2. TypeOK /\ ConsentInv /\ NagInv /\ [Next]_vars => NagInv'
  BY NagStep
<1>3. TypeOK /\ NagInv => NeverNagged
  BY DEF TypeOK, NagInv, NeverNagged, Most, CountCap
<1> QED
  BY <1>1, <1>2, <1>3, Typing, ConsentInvariant, PTL DEF Spec

-----------------------------------------------------------------------------
\* The lifecycle implements the contract.  Every step is one of the contract's,
\* seen through the four variables they share, or changes none of them.

Kept == [Contract!Next]_(Contract!cvars)

\* What hides the worker, the clocks and the handlers.
LEMMA Hidden ==
  ASSUME UNCHANGED <<status, reason, posted, announced>>
  PROVE  Kept
BY DEF Kept, Contract!cvars

LEMMA StartKept ==
  ASSUME NEW h \in Handlers, InsertSession(h)
  PROVE  Kept
<1>1. UNCHANGED <<reason, posted, announced>>
  BY DEF InsertSession, history
<1>2. CASE \E s \in FreshIn(view[h].chat), e \in EventDates :
             IndexAdmits(view[h].chat) /\ Insert(h, s, e)
  <2>1. PICK s \in Sessions : /\ status[s] = "none" /\ ActiveIn(ChatOf[s]) = {}
                              /\ status' = [status EXCEPT ![s] = "active"]
    BY <1>2 DEF FreshIn, IndexAdmits, Insert
  <2>2. \A t \in Sessions : ChatOf[t] = ChatOf[s] => status[t] # "active"
    BY <2>1 DEF ActiveIn
  <2>3. Contract!Start(s)
    BY <1>1, <2>1, <2>2 DEF Contract!Start
  <2> QED
    BY <2>3 DEF Kept, Contract!Next
<1>3. CASE UNCHANGED status
  BY <1>1, <1>3, Hidden
<1> QED
  BY <1>2, <1>3 DEF InsertSession

LEMMA CloseKept ==
  ASSUME GoodbyeInv, NEW h \in Handlers, hpc[h] \in {"deciding", "leaving"},
         NEW r \in {"explicit_stop", "closing_question_yes"}, NEW next,
         Close(h, r, next), UNCHANGED <<posted, announced>>
  PROVE  Kept
<1>1. CASE StillActive(view[h].sid)
  <2>1. view[h].sid \in Sessions
    BY DEF GoodbyeInv, Placed
  <2>2. Contract!EndedByHuman(view[h].sid)
    BY <1>1 DEF Close, StillActive, Contract!EndedByHuman
  <2> QED
    BY <2>1, <2>2 DEF Kept, Contract!Next
<1>2. CASE ~StillActive(view[h].sid)
  BY <1>2, Hidden DEF Close, table
<1> QED
  BY <1>1, <1>2

LEMMA NotYetKept ==
  ASSUME GoodbyeInv, NEW h \in Handlers, AnswerNo(h)
  PROVE  Kept
<1>1. UNCHANGED <<status, reason, announced>>
  BY DEF AnswerNo
<1>2. CASE StillActive(view[h].sid)
  <2>1. view[h].sid \in Sessions
    BY DEF AnswerNo, GoodbyeInv, Placed
  <2>2. Contract!NotYet(view[h].sid)
    BY <1>1, <1>2 DEF AnswerNo, StillActive, Forget, Contract!NotYet
  <2> QED
    BY <2>1, <2>2 DEF Kept, Contract!Next
<1>3. CASE ~StillActive(view[h].sid)
  BY <1>1, <1>3, Hidden DEF AnswerNo
<1> QED
  BY <1>2, <1>3

\* Said, or refused by Telegram, by whoever has the word.
LEMMA AnnounceKept ==
  ASSUME TypeOK, GoodbyeInv, NEW s \in Sessions,
         (\E h \in Handlers : Speaks(h, s)) \/ (\E w \in Workers : Posts(w, s)),
         UNCHANGED <<status, reason, posted>>,
         \/ announced' = [announced EXCEPT ![s] = Counted(@)]
         \/ announced' = announced
  PROVE  Kept
<1>1. status[s] = "closed" /\ announced[s] = 0
  BY DEF GoodbyeInv, Unsaid
<1>2. Counted(0) = 1
  BY DEF Counted, CountCap
<1>3. CASE announced' = [announced EXCEPT ![s] = Counted(@)]
  <2>1. announced' = [announced EXCEPT ![s] = 1]
    BY <1>1, <1>2, <1>3
  <2>2. Contract!Announce(s)
    BY <1>1, <2>1 DEF Contract!Announce
  <2> QED
    BY <2>2 DEF Kept, Contract!Next
<1>4. CASE announced' = announced
  BY <1>4, Hidden
<1> QED
  BY <1>3, <1>4

LEMMA AskKept ==
  ASSUME TypeOK, ConsentInv, NEW w \in Workers, NEW c \in batch[w],
         AskClosingQuestion(w, c) \/ AskFails(w, c)
  PROVE  Kept
<1>1. c.id \in Sessions /\ status[c.id] # "none"
  <2>1. c \in Claims
    BY DEF TypeOK
  <2> QED
    BY <2>1 DEF Claims, ConsentInv, ClaimsOK
<1>2. UNCHANGED <<status, reason, announced>>
  BY DEF AskClosingQuestion, AskFails, table
<1>3. CASE posted' = [posted EXCEPT ![c.id] = Counted(@)]
  <2>1. Contract!Ask(c.id)
    BY <1>1, <1>2, <1>3 DEF Contract!Ask, Counted
  <2> QED
    BY <1>1, <2>1 DEF Kept, Contract!Next
<1>4. CASE posted' = posted
  BY <1>2, <1>4, Hidden
<1> QED
  BY <1>3, <1>4 DEF AskClosingQuestion, AskFails

LEMMA SilenceKept ==
  ASSUME ConsentInv', NEW w \in Workers, ClaimAutoCloses(w)
  PROVE  Kept
<1> DEFINE due == {s \in Sessions : DueForAutoClose(s)}
<1>1. /\ status' = [s \in Sessions |-> IF s \in due THEN "closed" ELSE status[s]]
      /\ reason' = [s \in Sessions |-> IF s \in due THEN "auto_close_silence" ELSE reason[s]]
      /\ UNCHANGED <<posted, announced>>
  BY DEF ClaimAutoCloses, history
<1>2. \A s \in due : status[s] = "active" /\ posted[s] >= Owed
  <2>1. \A s \in due : reason'[s] = "auto_close_silence"
    BY <1>1
  <2> QED
    BY <1>1, <2>1 DEF ConsentInv, ConsentOfSilence, Owed, DueForAutoClose
<1>3. Contract!EndedBySilence(due)
  BY <1>1, <1>2 DEF Contract!EndedBySilence
<1> QED
  BY <1>3 DEF Kept, Contract!Next

LEMMA ContractStep ==
  ASSUME TypeOK, ConsentInv, ConsentInv', GoodbyeInv, [Next]_vars
  PROVE  Kept
<1>1. ASSUME NEW h \in Handlers, Handler(h)
      PROVE  Kept
  <2>1. CASE InsertSession(h)
    BY <2>1, StartKept
  <2>2. CASE AnswerYes(h) \/ AnswerStop(h) \/ Leave(h)
    BY <2>2, CloseKept DEF AnswerYes, AnswerStop, Leave, history
  <2>3. CASE AnswerNo(h)
    BY <2>3, NotYetKept
  <2>4. CASE Farewell(h)
    <3>1. view[h].sid \in Sessions /\ Speaks(h, view[h].sid)
      BY <2>4 DEF Farewell, GoodbyeInv, Placed, Speaks
    <3> QED
      BY <2>4, <3>1, AnnounceKept DEF Farewell, table
  <2>5. CASE \/ CheckNoneActive(h) \/ CarryTitle(h) \/ Touch(h)
             \/ StartRollCall(h) \/ EndTurn(h) \/ CancelRollCalls(h)
             \/ \E e \in EventDays : SyncTitle(h, e)
             \/ \E c \in Chats : RouteToDormant(h, c)
             \/ \E s \in Sessions : RouteToActive(h, s) \/ RouteRemoval(h, s)
             \/ \E s \in Sessions, e \in EventDates : Retopic(h, s, e)
    BY <2>5, Hidden
       DEF CheckNoneActive, CarryTitle, Touch, StartRollCall, EndTurn,
           CancelRollCalls, SyncTitle, RouteToDormant, RouteToActive,
           RouteRemoval, Retopic, table, history
  <2> QED
    BY <1>1, <2>1, <2>2, <2>3, <2>4, <2>5 DEF Handler, HandlerContinues
<1>2. ASSUME NEW w \in Workers, Poll(w) \/ WorkerCrash(w)
      PROVE  Kept
  <2>1. CASE ClaimAutoCloses(w)
    BY <2>1, SilenceKept
  <2>2. ASSUME NEW c \in batch[w], AskClosingQuestion(w, c) \/ AskFails(w, c)
        PROVE  Kept
    BY <2>2, AskKept
  <2>3. ASSUME NEW s \in Sessions, PostNotice(w, s)
        PROVE  Kept
    BY <2>3, AnnounceKept DEF PostNotice, Posts, table
  <2>4. CASE \/ ClaimQuestions(w) \/ ReadActive(w) \/ EndPoll(w) \/ WorkerRestart(w)
             \/ WorkerCrash(w)
             \/ \E c \in batch[w] : ReleaseClaim(w, c)
             \/ \E s \in Sessions : FinishRollCall(w, s)
             \/ \E s \in Sessions, e \in EventDays : ApplyEvent(w, s, e)
    BY <2>4, Hidden
       DEF ClaimQuestions, ReadActive, EndPoll, WorkerRestart, WorkerCrash,
           ReleaseClaim, FinishRollCall, ApplyEvent, table, history
  <2> QED
    BY <1>2, <2>1, <2>2, <2>3, <2>4 DEF Poll
<1>3. CASE BotCrash \/ Tick \/ UNCHANGED vars
  BY <1>3, Hidden DEF BotCrash, Tick, vars, table, history
<1> QED
  BY <1>1, <1>2, <1>3 DEF Next

\* The code keeps the contract with the group, whatever races, fails or
\* crashes, at the price Owed names.
THEOREM ContractKept == Spec => KeepsContract
<1>1. Init => Contract!Init
  BY DEF Init, Contract!Init
<1>2. TypeOK /\ ConsentInv /\ ConsentInv' /\ GoodbyeInv /\ [Next]_vars
        => [Contract!Next]_(Contract!cvars)
  BY ContractStep DEF Kept
<1> QED
  BY <1>1, <1>2, Typing, ConsentInvariant, Goodbyes, PTL
     DEF Spec, KeepsContract, Contract!Spec
=============================================================================
