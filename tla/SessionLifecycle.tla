-------------------------- MODULE SessionLifecycle --------------------------
(***************************************************************************)
(* The life of a group's sessions: bot/session.py's statements on the      *)
(* sessions table, the bot's message handlers that issue them from a row   *)
(* they read before an await, and the worker's poll that asks the closing  *)
(* question, auto-closes on silence and keeps event dates in step with the *)
(* chat's title.                                                           *)
(*                                                                         *)
(* Each SQL statement is one atomic step; everything between two awaits of *)
(* one coroutine is one step; handlers, workers, crashes and the clock     *)
(* interleave freely between steps.                                        *)
(*                                                                         *)
(* Time is counted in half-days: a chat is alternately awake (09:00-21:00  *)
(* local) and asleep, and its local date rolls over while it sleeps.       *)
(* Timestamps are kept as ages, which grow with the clock and saturate one *)
(* past the threshold they are compared with; no query can tell such a     *)
(* saturated age from an older one, so the clock needs no bound.  The      *)
(* worker polls once a minute, so a half-day passes only when every worker *)
(* that is up has finished a poll in it.                                   *)
(*                                                                         *)
(* Of roll_calls only the status is here (RollCall has the rounds): what   *)
(* closing a session owes it is part of the closing statements.            *)
(***************************************************************************)
EXTENDS Naturals, FiniteSets

CONSTANTS
  Chats, Sessions, Handlers, Workers,
  ChatOf,          \* [Sessions -> Chats]: sessions.chat_id
  Never,           \* SQL NULL
  IdleFor,         \* 7 days without activity, in half-days
  UnansweredFor,   \* 2 days without an answer
  SnoozeFor,       \* SNOOZE_DAYS after a "not yet"
  MaxLead,         \* bound: an event is at most this many days ahead
  CanFail,         \* may a Telegram send raise?
  MaxWorkerCrashes, MaxBotCrashes,  \* bounds: process crashes
  MaxTitles        \* bound: event dates read from a changed title

ASSUME ConstAssumption ==
  /\ ChatOf \in [Sessions -> Chats]
  /\ IdleFor \in Nat /\ UnansweredFor \in Nat /\ SnoozeFor \in Nat \ {0}
  /\ MaxLead \in Nat /\ MaxTitles \in Nat
  /\ MaxWorkerCrashes \in Nat /\ MaxBotCrashes \in Nat
  /\ CanFail \in BOOLEAN
  /\ Never \notin Nat /\ Never \notin Sessions /\ Never \notin Chats

VARIABLES
  \* the sessions table, by row id
  status, reason, eventIn, idle, asked, retries, snooze,
  \* roll_calls.status of the session's latest roll call
  rollCall,
  \* the clock: which chats are in waking hours; who has polled this half-day
  awake, polled,
  \* each worker: where its poll stands, claims it still has to send,
  \* sessions the current step still has to serve
  wpc, batch, work,
  \* each handler: where its coroutine stands, and what it read before
  hpc, view,
  \* budgets spent
  workerCrashes, botCrashes, titles,
  \* history: closing questions posted since the last "not yet", and
  \* closing messages posted, per session
  posted, announced

table   == <<status, reason, eventIn, idle, asked, retries, snooze>>
clock   == <<awake, polled>>
worker  == <<wpc, batch, work>>
bot     == <<hpc, view>>
budgets == <<workerCrashes, botCrashes, titles>>
history == <<posted, announced>>
vars    == <<table, rollCall, clock, worker, bot, budgets, history>>

-----------------------------------------------------------------------------
\* Values.

CountCap   == 4
EventDays  == 0 .. MaxLead           \* 0: before the chat's current date
EventDates == EventDays \cup {Never}

Claims == [id : Sessions, prevAsked : {Never} \cup 0 .. UnansweredFor + 1,
           prevRetries : 0 .. 1, failed : BOOLEAN]

\* Where a handler's coroutine may stand, and what it may have read.
Places == {"idle", "starting", "inserting", "carrying", "deciding", "tools", "undoing",
           "leaving", "cancelling", "farewell", "tidying"}
Views  == [sid : Sessions \cup {Never}, chat : Chats \cup {Never},
           asked : BOOLEAN, date : EventDates]
NoView == [sid |-> Never, chat |-> Never, asked |-> FALSE, date |-> Never]

Older(age, limit) == IF age > limit THEN age ELSE age + 1
Sooner(days)      == IF days = 0 THEN 0 ELSE days - 1
Counted(n)        == IF n < CountCap THEN n + 1 ELSE n

ActiveIn(c) == {s \in Sessions : ChatOf[s] = c /\ status[s] = "active"}

TypeOK ==
  /\ status \in [Sessions -> {"none", "active", "closed"}]
  /\ reason \in [Sessions -> {"open", "explicit_stop", "closing_question_yes",
                              "auto_close_silence"}]
  /\ eventIn \in [Sessions -> EventDates]
  /\ idle \in [Sessions -> 0 .. IdleFor + 1]
  /\ asked \in [Sessions -> {Never} \cup 0 .. UnansweredFor + 1]
  /\ retries \in [Sessions -> 0 .. 1]
  /\ snooze \in [Sessions -> 0 .. SnoozeFor]
  /\ rollCall \in [Sessions -> {"none", "active", "over"}]
  /\ awake \in [Chats -> BOOLEAN]
  /\ polled \in [Workers -> BOOLEAN]
  /\ wpc \in [Workers -> {"idle", "asking", "closing", "tail", "down"}]
  /\ batch \in [Workers -> SUBSET Claims]
  /\ work \in [Workers -> SUBSET Sessions]
  /\ hpc \in [Handlers -> Places]
  /\ view \in [Handlers -> Views]
  /\ workerCrashes \in 0 .. MaxWorkerCrashes
  /\ botCrashes \in 0 .. MaxBotCrashes
  /\ titles \in 0 .. MaxTitles
  /\ posted \in [Sessions -> 0 .. CountCap]
  /\ announced \in [Sessions -> 0 .. CountCap]

Init ==
  /\ status = [s \in Sessions |-> "none"]
  /\ reason = [s \in Sessions |-> "open"]
  /\ eventIn = [s \in Sessions |-> Never]
  /\ idle = [s \in Sessions |-> 0]
  /\ asked = [s \in Sessions |-> Never]
  /\ retries = [s \in Sessions |-> 0]
  /\ snooze = [s \in Sessions |-> 0]
  /\ rollCall = [s \in Sessions |-> "none"]
  /\ awake \in [Chats -> BOOLEAN]
  /\ polled = [w \in Workers |-> FALSE]
  /\ wpc = [w \in Workers |-> "idle"]
  /\ batch = [w \in Workers |-> {}]
  /\ work = [w \in Workers |-> {}]
  /\ hpc = [h \in Handlers |-> "idle"]
  /\ view = [h \in Handlers |-> NoView]
  /\ workerCrashes = 0
  /\ botCrashes = 0
  /\ titles = 0
  /\ posted = [s \in Sessions |-> 0]
  /\ announced = [s \in Sessions |-> 0]

-----------------------------------------------------------------------------
\* The bot: a handler's place in its coroutine, and its return.

Goto(h, at) == hpc' = [hpc EXCEPT ![h] = at] /\ UNCHANGED view

Return(h) == /\ hpc' = [hpc EXCEPT ![h] = "idle"]
             /\ view' = [view EXCEPT ![h] = NoView]

\* route_update found no active session; the model said "start".
RouteToDormant(h, c) ==
  /\ hpc[h] = "idle"
  /\ ActiveIn(c) = {}
  /\ hpc' = [hpc EXCEPT ![h] = "starting"]
  /\ view' = [view EXCEPT ![h] = [NoView EXCEPT !.chat = c]]
  /\ UNCHANGED <<table, rollCall, clock, worker, budgets, history>>

\* start_session's own check, after the model's answer.
CheckNoneActive(h) ==
  /\ hpc[h] = "starting"
  /\ IF ActiveIn(view[h].chat) = {} THEN Goto(h, "inserting") ELSE Return(h)
  /\ UNCHANGED <<table, rollCall, clock, worker, budgets, history>>

\* The unique partial index refuses a second active row of a chat.
IndexAdmits_None(c) == TRUE
IndexAdmits(c) == ActiveIn(c) = {}

\* Bound: row ids run out when every session of the chat has been used.
FreshIn(c) == {s \in Sessions : ChatOf[s] = c /\ status[s] = "none"}

\* start_session's INSERT: a new row, dated by the message or by the chat's
\* title; or SessionAlreadyActiveError and the "already tracking" reply.
Insert(h, s, e) ==
  /\ status' = [status EXCEPT ![s] = "active"]
  /\ eventIn' = [eventIn EXCEPT ![s] = e]
  /\ \/ Return(h) /\ UNCHANGED titles
     \/ /\ titles < MaxTitles /\ titles' = titles + 1
        /\ hpc' = [hpc EXCEPT ![h] = "carrying"]
        /\ view' = [view EXCEPT ![h] = [NoView EXCEPT !.sid = s, !.date = e]]

InsertSession(h) ==
  /\ hpc[h] = "inserting"
  /\ LET c == view[h].chat IN
     IF IndexAdmits(c) /\ FreshIn(c) # {}
     THEN \E s \in FreshIn(c), e \in EventDates : Insert(h, s, e)
     ELSE Return(h) /\ UNCHANGED <<status, eventIn, titles>>
  /\ UNCHANGED <<reason, idle, asked, retries, snooze>>
  /\ UNCHANGED <<rollCall, clock, worker, workerCrashes, botCrashes, history>>

\* apply_event after the INSERT: the title's date again, over whatever the row
\* has come to hold.
CarryTitle(h) ==
  /\ hpc[h] = "carrying"
  /\ eventIn' = [eventIn EXCEPT ![view[h].sid] = view[h].date]
  /\ Return(h)
  /\ UNCHANGED <<status, reason, idle, asked, retries, snooze>>
  /\ UNCHANGED <<rollCall, clock, worker, budgets, history>>

\* route_update found session s active: the row as read here is the one the
\* handler works from, however long the model takes to answer.
RouteToActive(h, s) ==
  /\ hpc[h] = "idle"
  /\ status[s] = "active"
  /\ hpc' = [hpc EXCEPT ![h] = "deciding"]
  /\ view' = [view EXCEPT ![h] = [NoView EXCEPT !.sid = s, !.asked = asked[s] # Never]]
  /\ UNCHANGED <<table, rollCall, clock, worker, budgets, history>>

\* touch_activity, with no status guard: the whole of an unaddressed message
\* and of the replies that end there, and the start of a tool-calling turn.
Touch(h) ==
  /\ hpc[h] = "deciding"
  /\ idle' = [idle EXCEPT ![view[h].sid] = 0]
  /\ Return(h) \/ Goto(h, "tools")
  /\ UNCHANGED <<status, reason, eventIn, asked, retries, snooze>>
  /\ UNCHANGED <<rollCall, clock, worker, budgets, history>>

\* The turn's tools, any number of them.  The roll call's INSERT ... ON CONFLICT
\* DO NOTHING does not ask whether the session is still active; it is taken
\* back when the first round cannot be posted.
StartRollCall(h) ==
  /\ hpc[h] = "tools"
  /\ rollCall[view[h].sid] # "active"
  /\ rollCall' = [rollCall EXCEPT ![view[h].sid] = "active"]
  /\ UNCHANGED bot \/ (CanFail /\ Goto(h, "undoing"))
  /\ UNCHANGED <<table, clock, worker, budgets, history>>

\* sync_chat_info: the date the title states, written by id, closed or not.
SyncTitle(h, e) ==
  /\ hpc[h] = "tools"
  /\ titles < MaxTitles
  /\ titles' = titles + 1
  /\ eventIn' = [eventIn EXCEPT ![view[h].sid] = e]
  /\ UNCHANGED <<status, reason, idle, asked, retries, snooze>>
  /\ UNCHANGED <<rollCall, clock, worker, bot, workerCrashes, botCrashes, history>>

\* The model answers, or the turn's deadline cancels a tool half done.
EndTurn(h) ==
  /\ hpc[h] \in {"tools", "undoing"}
  /\ Return(h)
  /\ UNCHANGED <<table, rollCall, clock, worker, budgets, history>>

\* The guard of every closing UPDATE: WHERE ... status = 'active'.
StillActive_Unchecked(s) == TRUE
StillActive(s) == status[s] = "active"

\* close_session's UPDATE; a call that closed nothing goes no further.
Close(h, r, next) ==
  LET s == view[h].sid IN
  IF StillActive(s)
  THEN /\ status' = [status EXCEPT ![s] = "closed"]
       /\ reason' = [reason EXCEPT ![s] = r]
       /\ Goto(h, next)
       /\ UNCHANGED <<eventIn, idle, asked, retries, snooze>>
  ELSE Return(h) /\ UNCHANGED table

\* "Yes, we're done", to a closing question the handler saw outstanding.
AnswerYes(h) ==
  /\ hpc[h] = "deciding" /\ view[h].asked
  /\ Close(h, "closing_question_yes", "cancelling")
  /\ UNCHANGED <<rollCall, clock, worker, budgets, history>>

\* "That's it, thanks", in any wording, at any time.
AnswerStop(h) ==
  /\ hpc[h] = "deciding"
  /\ Close(h, "explicit_stop", "cancelling")
  /\ UNCHANGED <<rollCall, clock, worker, budgets, history>>

\* cancel_roll_calls_for_session: after a close that won and before its
\* farewell, after a change of event, and to undo a roll call.
CancelRollCalls(h) ==
  /\ hpc[h] \in {"cancelling", "tidying", "undoing"}
  /\ LET s == view[h].sid IN
     rollCall' = IF rollCall[s] = "active" THEN [rollCall EXCEPT ![s] = "over"]
                                           ELSE rollCall
  /\ \/ hpc[h] = "cancelling" /\ Goto(h, "farewell")
     \/ hpc[h] = "undoing" /\ Goto(h, "tools")
     \/ hpc[h] = "tidying" /\ Return(h)
  /\ UNCHANGED <<table, clock, worker, budgets, history>>

Farewell(h) ==
  /\ hpc[h] = "farewell"
  /\ \/ announced' = [announced EXCEPT ![view[h].sid] = Counted(@)]
     \/ CanFail /\ UNCHANGED announced
  /\ Return(h)
  /\ UNCHANGED <<table, rollCall, clock, worker, budgets, posted>>

\* "Not yet": the question is forgotten and the session snoozed, if it is
\* still active; record_closing_reply's guarded UPDATE.
Forget_Snoozed(s) ==
  /\ snooze' = [snooze EXCEPT ![s] = SnoozeFor]
  /\ idle' = [idle EXCEPT ![s] = 0]
  /\ posted' = [posted EXCEPT ![s] = 0]
  /\ UNCHANGED <<asked, retries>>
Forget(s) ==
  /\ asked' = [asked EXCEPT ![s] = Never]
  /\ retries' = [retries EXCEPT ![s] = 0]
  /\ snooze' = [snooze EXCEPT ![s] = SnoozeFor]
  /\ idle' = [idle EXCEPT ![s] = 0]
  /\ posted' = [posted EXCEPT ![s] = 0]

AnswerNo(h) ==
  /\ hpc[h] = "deciding" /\ view[h].asked
  /\ IF StillActive(view[h].sid)
     THEN Forget(view[h].sid)
     ELSE UNCHANGED <<asked, retries, snooze, idle, posted>>
  /\ Return(h)
  /\ UNCHANGED <<status, reason, eventIn>>
  /\ UNCHANGED <<rollCall, clock, worker, budgets, announced>>

\* A confirmed change of event.  The confirmation was found by chat, so its
\* session s may be an earlier one of the same chat: then nothing is updated.
\* A new date replaces the old only when one was stated.
Retopic(h, s, e) ==
  /\ hpc[h] = "deciding"
  /\ ChatOf[s] = ChatOf[view[h].sid] /\ status[s] # "none"
  /\ IF StillActive(s)
     THEN /\ eventIn' = [eventIn EXCEPT ![s] = IF e = Never THEN @ ELSE e]
          /\ idle' = [idle EXCEPT ![s] = 0]
          /\ hpc' = [hpc EXCEPT ![h] = "tidying"]
          /\ view' = [view EXCEPT ![h] = [NoView EXCEPT !.sid = s]]
     ELSE Return(h) /\ UNCHANGED <<eventIn, idle>>
  /\ UNCHANGED <<status, reason, asked, retries, snooze>>
  /\ UNCHANGED <<rollCall, clock, worker, budgets, history>>

\* The bot was removed from the chat: the session it then reads is closed.
RouteRemoval(h, s) ==
  /\ hpc[h] = "idle"
  /\ status[s] = "active"
  /\ hpc' = [hpc EXCEPT ![h] = "leaving"]
  /\ view' = [view EXCEPT ![h] = [NoView EXCEPT !.sid = s]]
  /\ UNCHANGED <<table, rollCall, clock, worker, budgets, history>>

Leave(h) ==
  /\ hpc[h] = "leaving"
  /\ Close(h, "explicit_stop", "tidying")
  /\ UNCHANGED <<rollCall, clock, worker, budgets, history>>

\* The bot process dies or is redeployed: its coroutines are gone.
BotCrash ==
  /\ botCrashes < MaxBotCrashes
  /\ botCrashes' = botCrashes + 1
  /\ hpc' = [h \in Handlers |-> "idle"]
  /\ view' = [h \in Handlers |-> NoView]
  /\ UNCHANGED <<table, rollCall, clock, worker, workerCrashes, titles, history>>

-----------------------------------------------------------------------------
\* The worker's poll: closing questions, auto-closes, group sync, roll calls.

WorkerGoto(w, at) == wpc' = [wpc EXCEPT ![w] = at]

\* _DUE_FOR_CLOSING_QUESTION: a stated event is over; or no date is known and
\* the chat has been idle; or the first question went unanswered.
UnansweredOnce_AnyNumber(s) == asked[s] # Never /\ asked[s] > UnansweredFor
UnansweredOnce(s) ==
  asked[s] # Never /\ asked[s] > UnansweredFor /\ retries[s] = 0

Snoozed_Never(s) == FALSE
Snoozed(s) == snooze[s] > 0

DueForClosingQuestion(s) ==
  /\ status[s] = "active"
  /\ ~Snoozed(s)
  /\ \/ eventIn[s] = 0 /\ asked[s] = Never
     \/ eventIn[s] = Never /\ asked[s] = Never /\ idle[s] > IdleFor
     \/ UnansweredOnce(s)
  /\ awake[ChatOf[s]]

\* _DUE_FOR_AUTO_CLOSE: the second question went unanswered too.
UnansweredTwice_Once(s) == asked[s] # Never /\ asked[s] > UnansweredFor
UnansweredTwice_Thrice(s) ==
  asked[s] # Never /\ asked[s] > UnansweredFor /\ retries[s] > 1
UnansweredTwice(s) ==
  asked[s] # Never /\ asked[s] > UnansweredFor /\ retries[s] >= 1

DueForAutoClose(s) ==
  /\ status[s] = "active"
  /\ ~Snoozed(s)
  /\ UnansweredTwice(s)
  /\ awake[ChatOf[s]]

\* Claim and mark every due session in one statement.
ClaimQuestions(w) ==
  /\ wpc[w] = "idle"
  /\ LET due == {s \in Sessions : DueForClosingQuestion(s)} IN
     /\ batch' = [batch EXCEPT ![w] =
          {[id |-> s, prevAsked |-> asked[s], prevRetries |-> retries[s],
            failed |-> FALSE] : s \in due}]
     /\ retries' = [s \in Sessions |->
          IF s \in due THEN IF asked[s] = Never THEN 0 ELSE retries[s] + 1
                       ELSE retries[s]]
     /\ asked' = [s \in Sessions |-> IF s \in due THEN 0 ELSE asked[s]]
  /\ WorkerGoto(w, "asking")
  /\ UNCHANGED <<status, reason, eventIn, idle, snooze>>
  /\ UNCHANGED <<rollCall, clock, work, bot, budgets, history>>

\* The claims are sent one after another; a failed one is put back before the
\* next is tried.
Sendable(w) == {c \in batch[w] : ~ \E d \in batch[w] : d.failed}

AskClosingQuestion(w, c) ==
  /\ c \in Sendable(w)
  /\ posted' = [posted EXCEPT ![c.id] = Counted(@)]
  /\ batch' = [batch EXCEPT ![w] = @ \ {c}]
  /\ UNCHANGED <<table, rollCall, clock, wpc, work, bot, budgets, announced>>

\* The send raised.  Telegram may have posted the message all the same: a
\* timed-out answer raises too.
AskFails(w, c) ==
  /\ CanFail
  /\ c \in Sendable(w)
  /\ batch' = [batch EXCEPT ![w] = (@ \ {c}) \cup {[c EXCEPT !.failed = TRUE]}]
  /\ posted' \in {posted, [posted EXCEPT ![c.id] = Counted(@)]}
  /\ UNCHANGED <<table, rollCall, clock, wpc, work, bot, budgets, announced>>

\* release_closing_question_claim: the state before the claim, whatever has
\* happened to the row since.
Restored(c) == c.prevAsked

ReleaseClaim(w, c) ==
  /\ c \in batch[w] /\ c.failed
  /\ asked' = [asked EXCEPT ![c.id] = Restored(c)]
  /\ retries' = [retries EXCEPT ![c.id] = c.prevRetries]
  /\ batch' = [batch EXCEPT ![w] = @ \ {c}]
  /\ UNCHANGED <<status, reason, eventIn, idle, snooze>>
  /\ UNCHANGED <<rollCall, clock, wpc, work, bot, budgets, history>>

\* Close every session due for it in one statement, to announce one by one.
\* Unlike close_session, nothing is cancelled.
ClaimAutoCloses(w) ==
  /\ wpc[w] = "asking" /\ batch[w] = {}
  /\ LET due == {s \in Sessions : DueForAutoClose(s)} IN
     /\ status' = [s \in Sessions |-> IF s \in due THEN "closed" ELSE status[s]]
     /\ reason' = [s \in Sessions |->
                     IF s \in due THEN "auto_close_silence" ELSE reason[s]]
     /\ work' = [work EXCEPT ![w] = due]
  /\ WorkerGoto(w, "closing")
  /\ UNCHANGED <<eventIn, idle, asked, retries, snooze>>
  /\ UNCHANGED <<rollCall, clock, batch, bot, budgets, history>>

PostNotice(w, s) ==
  /\ wpc[w] = "closing" /\ s \in work[w]
  /\ \/ announced' = [announced EXCEPT ![s] = Counted(@)]
     \/ CanFail /\ UNCHANGED announced
  /\ work' = [work EXCEPT ![w] = @ \ {s}]
  /\ UNCHANGED <<table, rollCall, clock, wpc, batch, bot, budgets, posted>>

\* sync_group_info reads which sessions are active, and serves them later.
ReadActive(w) ==
  /\ wpc[w] = "closing" /\ work[w] = {}
  /\ work' = [work EXCEPT ![w] = {s \in Sessions : status[s] = "active"}]
  /\ WorkerGoto(w, "tail")
  /\ UNCHANGED <<table, rollCall, clock, batch, bot, budgets, history>>

\* A changed title states a date: apply_event writes it by id, closed or not.
ApplyEvent(w, s, e) ==
  /\ wpc[w] = "tail" /\ s \in work[w]
  /\ titles < MaxTitles
  /\ titles' = titles + 1
  /\ eventIn' = [eventIn EXCEPT ![s] = e]
  /\ work' = [work EXCEPT ![w] = @ \ {s}]
  /\ UNCHANGED <<status, reason, idle, asked, retries, snooze>>
  /\ UNCHANGED <<rollCall, clock, wpc, batch, bot, workerCrashes, botCrashes, history>>

\* The last step of the poll posts a roll call's summary and finishes it.
FinishRollCall(w, s) ==
  /\ wpc[w] = "tail" /\ rollCall[s] = "active"
  /\ rollCall' = [rollCall EXCEPT ![s] = "over"]
  /\ UNCHANGED <<table, clock, worker, bot, budgets, history>>

\* The poll ends: what is left in work had nothing new to say.
EndPoll(w) ==
  /\ wpc[w] = "tail"
  /\ WorkerGoto(w, "idle")
  /\ work' = [work EXCEPT ![w] = {}]
  /\ polled' = [polled EXCEPT ![w] = TRUE]
  /\ UNCHANGED <<table, rollCall, awake, batch, bot, budgets, history>>

\* The worker dies between two steps, its claims with it, and comes back.
WorkerCrash(w) ==
  /\ workerCrashes < MaxWorkerCrashes
  /\ wpc[w] # "down"
  /\ workerCrashes' = workerCrashes + 1
  /\ WorkerGoto(w, "down")
  /\ batch' = [batch EXCEPT ![w] = {}]
  /\ work' = [work EXCEPT ![w] = {}]
  /\ UNCHANGED <<table, rollCall, clock, bot, botCrashes, titles, history>>

WorkerRestart(w) ==
  /\ wpc[w] = "down"
  /\ WorkerGoto(w, "idle")
  /\ UNCHANGED <<table, rollCall, clock, batch, work, bot, budgets, history>>

-----------------------------------------------------------------------------
\* Half a day passes.  Closed rows are never compared with the clock again,
\* so only active ones age; dates come nearer in the chats that wake up.  None
\* passes between start_session's INSERT and the apply_event right after it.
Tick ==
  /\ \A w \in Workers : wpc[w] = "down" \/ (wpc[w] = "idle" /\ polled[w])
  /\ \A h \in Handlers : hpc[h] # "carrying"
  /\ awake' = [c \in Chats |-> ~awake[c]]
  /\ polled' = [w \in Workers |-> FALSE]
  /\ LET live == {s \in Sessions : status[s] = "active"} IN
     /\ eventIn' = [s \in Sessions |->
          IF s \in live /\ eventIn[s] # Never /\ ~awake[ChatOf[s]]
          THEN Sooner(eventIn[s]) ELSE eventIn[s]]
     /\ idle' = [s \in Sessions |->
          IF s \in live THEN Older(idle[s], IdleFor) ELSE idle[s]]
     /\ asked' = [s \in Sessions |->
          IF s \in live /\ asked[s] # Never
          THEN Older(asked[s], UnansweredFor) ELSE asked[s]]
     /\ snooze' = [s \in Sessions |->
          IF s \in live THEN Sooner(snooze[s]) ELSE snooze[s]]
  /\ UNCHANGED <<status, reason, retries>>
  /\ UNCHANGED <<rollCall, worker, bot, budgets, history>>

HandlerContinues(h) ==
  \/ CheckNoneActive(h) \/ InsertSession(h) \/ CarryTitle(h)
  \/ Touch(h) \/ StartRollCall(h) \/ EndTurn(h)
  \/ \E e \in EventDays : SyncTitle(h, e)
  \/ AnswerYes(h) \/ AnswerStop(h) \/ AnswerNo(h)
  \/ \E s \in Sessions, e \in EventDates : Retopic(h, s, e)
  \/ Leave(h) \/ CancelRollCalls(h) \/ Farewell(h)

Handler(h) ==
  \/ \E c \in Chats : RouteToDormant(h, c)
  \/ \E s \in Sessions : RouteToActive(h, s) \/ RouteRemoval(h, s)
  \/ HandlerContinues(h)

Poll(w) ==
  \/ ClaimQuestions(w) \/ ClaimAutoCloses(w) \/ ReadActive(w) \/ EndPoll(w)
  \/ \E c \in batch[w] : AskClosingQuestion(w, c) \/ AskFails(w, c)
                           \/ ReleaseClaim(w, c)
  \/ \E s \in Sessions : PostNotice(w, s) \/ FinishRollCall(w, s)
  \/ \E s \in Sessions, e \in EventDays : ApplyEvent(w, s, e)
  \/ WorkerRestart(w)

Next ==
  \/ \E h \in Handlers : Handler(h)
  \/ \E w \in Workers : Poll(w) \/ WorkerCrash(w)
  \/ BotCrash
  \/ Tick

Spec == Init /\ [][Next]_vars

\* The event loop resumes every coroutine, the worker polls for ever and is
\* restarted when it dies (Kubernetes keeps one replica up), time passes, and
\* Telegram does not refuse the same message for ever.
Fairness ==
  /\ SF_vars(Tick)
  /\ \A h \in Handlers : WF_vars(HandlerContinues(h))
  /\ \A w \in Workers :
       /\ WF_vars(Poll(w))
       /\ SF_vars(\E c \in batch[w] : AskClosingQuestion(w, c))

FairSpec == Spec /\ Fairness

-----------------------------------------------------------------------------
\* Properties.

\* However starts and closes race, a chat never has two sessions running: the
\* check in start_session is not atomic with its INSERT, the index is.
OneActivePerChat ==
  \A s, t \in Sessions :
    status[s] = "active" /\ status[t] = "active" /\ ChatOf[s] = ChatOf[t]
      => s = t

\* A late answer, a second "that's it", an auto-close or a removal never
\* reopens a closed session and never rewrites why it was closed.
CloseIsFinal ==
  [][\A s \in Sessions : status[s] = "closed" =>
        status'[s] = "closed" /\ reason'[s] = reason[s]]_vars

\* Whoever loses the race to close a session stays silent about it: a group
\* reads one closing message per session, and only about a closed one.
AnnouncedOnce ==
  \A s \in Sessions : announced[s] > 0 => announced[s] = 1 /\ status[s] = "closed"

\* How many closing questions the group has really read, since the last "not
\* yet", before silence counts as its consent: two, if every send succeeds;
\* one, if sends may raise, because a claim released after a concurrent "not
\* yet" brings the old question back; none, if the worker may die between
\* claiming and sending.
Owed == IF MaxWorkerCrashes > 0 THEN 0 ELSE IF CanFail THEN 1 ELSE 2

ConsentOfSilence ==
  \A s \in Sessions : reason[s] = "auto_close_silence" => posted[s] >= Owed

\* Two pollers, or one and its successor, never hold claims on the same session
\* at once: the claim stamps the row in the statement that finds it due.
ClaimedOnce ==
  \A v, w \in Workers : \A c \in batch[v] : \A d \in batch[w] :
    c.id = d.id => v = w /\ c = d

\* The group is never asked more than twice in a row about one event, but for
\* one question already claimed when "not yet" arrives.  (A send that raises
\* may still have been posted, and is repeated: hence only without failures.)
NeverNagged == ~CanFail => \A s \in Sessions : posted[s] <= 3

\* A session nobody speaks to any more is asked about, twice, and closed: it
\* neither waits for ever nor asks for ever.
Quiet == \A h \in Handlers : hpc[h] = "idle"

SilenceEnds ==
  <>[]Quiet => \A s \in Sessions : [](status[s] = "active" => <>(status[s] = "closed"))

\* The code keeps the contract with the group, at the price Owed names.
Contract ==
  INSTANCE SessionContract
    WITH Sessions <- Sessions, Chats <- Chats, ChatOf <- ChatOf, Owed <- Owed,
         CountCap <- CountCap, status <- status, reason <- reason,
         posted <- posted, announced <- announced

KeepsContract == Contract!Spec

\* A roll call does not outlive its session, but for the moment between the
\* close and the cancel.
NoRollCallOutlivesSession ==
  \A s \in Sessions : status[s] = "closed" /\ rollCall[s] = "active" =>
    \E h \in Handlers : hpc[h] = "cancelling" /\ view[h].sid = s
=============================================================================
