------------------------------ MODULE Reminders ------------------------------
(***************************************************************************)
(* Reminders: the tools that queue, cancel and re-anchor them              *)
(* (bot/tools/core.py, bot/timezones.py) and the worker's step that        *)
(* delivers them (worker/reminders.py).                                    *)
(*                                                                         *)
(* One chat.  A reminder is a row: a one-off is claimed and stays claimed, *)
(* a series is claimed, sent, counted and moved to its next slot.  Zones   *)
(* are offsets from the configured default; a wall-clock reminder keeps    *)
(* the wall time it was asked for, so that a zone stated later can         *)
(* re-anchor it.  Each SQL statement, HTTP lookup and send is a step;      *)
(* turns, polls, crashes and the clock interleave.                         *)
(*                                                                         *)
(* Time is counted in the shortest interval a series may have.  A poll is  *)
(* never at the very microsecond of a slot: it is half a unit after the    *)
(* last tick of the clock.  A turn's deadline and a poll are far shorter   *)
(* than a unit, so one passes only when no turn is under way and every     *)
(* worker that is up has polled in it.                                     *)
(***************************************************************************)
EXTENDS Integers, FiniteSets

CONSTANTS
  Rows,            \* ids of reminders; bound: as many requests as rows
  People, Chat,    \* targets: a person's direct messages, or the group
  Creator,         \* whose zone stands in for the chat's
  Handlers, Workers,
  Offsets,         \* zones, as offsets; 0 is DEFAULT_TIMEZONE
  Requests,        \* bound: what may be asked for
  Instants,        \* bound: when, with an offset
  MaxDeliveries,   \* REMINDER_MAX_DELIVERIES
  MaxAttempts,     \* MAX_ATTEMPTS
  MinInterval,     \* REMINDER_MIN_INTERVAL_HOURS
  Horizon,         \* bound: the clock stops here, past every slot
  CanFail,         \* may a Telegram send raise?
  MaxZones,        \* bound: zones stated or guessed
  MaxCrashes,      \* bound: worker crashes
  Never            \* SQL NULL

ASSUME RemindersAssumption ==
  /\ Offsets \subseteq Int /\ 0 \in Offsets
  /\ MaxDeliveries \in Nat \ {0} /\ MaxAttempts \in Nat \ {0}
  /\ MinInterval \in Nat /\ Horizon \in Nat
  /\ CanFail \in BOOLEAN /\ MaxZones \in Nat /\ MaxCrashes \in Nat
  /\ Chat \notin People /\ Creator \in People \cup {Never}
  /\ Requests \subseteq [to : People \cup {Chat}, every : (Nat \ {0}) \cup {Never},
                         until : Int, wall : Int \cup {Never}]
  /\ Instants \subseteq Int
  /\ Never \notin Int /\ Never \notin People /\ Never # Chat

VARIABLES
  \* the reminders table, by id: what was asked for, and where it stands
  ask, status, due, attempts, deliveries, sentAge,
  \* chats.timezone, was it stated, and users.timezone
  zone, stated, userZone,
  now, awake, polled,
  \* each worker: where its step stands, the rows it read as due with the
  \* instant they had, and the one it is serving
  wpc, queue, cur,
  \* each turn: where its tool stands, and what it read
  hpc, view,
  zones, crashes,
  \* history: sends that returned, and sends that raised since, per row; and
  \* how long ago each person got a one-off
  told, misses, pinged

table   == <<ask, status, due, attempts, deliveries, sentAge>>
place   == <<zone, stated, userZone>>
clock   == <<now, awake, polled>>
worker  == <<wpc, queue, cur>>
bot     == <<hpc, view>>
budgets == <<zones, crashes>>
history == <<told, misses, pinged>>
vars    == <<table, place, clock, worker, bot, budgets, history>>

-----------------------------------------------------------------------------
\* Bound: messages are counted up to one too many.
ToldCap  == MaxDeliveries + 1

Zones    == Offsets \cup {Never}
Targets  == People \cup {Chat}
NoAsk    == [to |-> Chat, every |-> Never, until |-> 0, wall |-> Never]
Ages     == 0 .. MinInterval
Items    == [id : Rows, at : Int]
Views    == [who : Targets, zone : Zones, rows : SUBSET Rows]
NoView   == [who |-> Chat, zone |-> Never, rows |-> {}]

Repeats(r) == ask[r].every # Never
Most(r)    == IF Repeats(r) THEN MaxDeliveries ELSE 1

TypeOK ==
  /\ ask \in [Rows -> Requests \cup {NoAsk}]
  /\ status \in [Rows -> {"none", "pending", "sent", "cancelled", "failed"}]
  /\ due \in [Rows -> Int]
  /\ attempts \in [Rows -> 0 .. MaxAttempts]
  /\ deliveries \in [Rows -> Nat]
  /\ sentAge \in [Rows -> Ages \cup {Never}]
  /\ zone \in Zones /\ stated \in BOOLEAN /\ userZone \in [People -> Zones]
  /\ now \in 0 .. Horizon /\ awake \in BOOLEAN /\ polled \in [Workers -> BOOLEAN]
  /\ wpc \in [Workers -> {"idle", "serving", "clear", "sending", "missed",
                          "counting", "moving", "down"}]
  /\ queue \in [Workers -> SUBSET Items]
  /\ cur \in [Workers -> Items \cup {Never}]
  /\ hpc \in [Handlers -> {"idle", "inserting", "selecting", "rewriting", "guessing"}]
  /\ view \in [Handlers -> Views]
  /\ zones \in 0 .. MaxZones /\ crashes \in 0 .. MaxCrashes
  /\ told \in [Rows -> 0 .. ToldCap]
  /\ misses \in [Rows -> 0 .. MaxAttempts]
  /\ pinged \in [People -> Ages]

Init ==
  /\ ask = [r \in Rows |-> NoAsk]
  /\ status = [r \in Rows |-> "none"]
  /\ due = [r \in Rows |-> 0]
  /\ attempts = [r \in Rows |-> 0]
  /\ deliveries = [r \in Rows |-> 0]
  /\ sentAge = [r \in Rows |-> Never]
  /\ zone = Never /\ stated = FALSE /\ userZone = [p \in People |-> Never]
  /\ now = 0 /\ awake = TRUE /\ polled = [w \in Workers |-> FALSE]
  /\ wpc = [w \in Workers |-> "idle"]
  /\ queue = [w \in Workers |-> {}]
  /\ cur = [w \in Workers |-> Never]
  /\ hpc = [h \in Handlers |-> "idle"]
  /\ view = [h \in Handlers |-> NoView]
  /\ zones = 0 /\ crashes = 0
  /\ told = [r \in Rows |-> 0]
  /\ misses = [r \in Rows |-> 0]
  /\ pinged = [p \in People |-> MinInterval]

-----------------------------------------------------------------------------
\* Whose clock a time is read on.

\* effective_timezone: what was said about the chat, else where its creator is,
\* else the last guess; Never when nobody knows.
CreatorZone == IF Creator \in People THEN userZone[Creator] ELSE Never
EffectiveZone ==
  IF zone # Never /\ stated THEN zone
  ELSE IF CreatorZone # Never THEN CreatorZone ELSE zone

Reading(z) == IF z = Never THEN 0 ELSE z

\* A person's own zone decides the reminders addressed to them.
HasOwnZone(t) == t \in People /\ userZone[t] # Never
ZoneFor(t) == IF HasOwnZone(t) THEN userZone[t] ELSE Reading(EffectiveZone)

-----------------------------------------------------------------------------
\* The tools.

Return(h) == /\ hpc' = [hpc EXCEPT ![h] = "idle"]
             /\ view' = [view EXCEPT ![h] = NoView]

\* reminder_set reads whose clock the time is on ...
ReadZone(h, t) ==
  /\ hpc[h] = "idle"
  /\ hpc' = [hpc EXCEPT ![h] = "inserting"]
  /\ view' = [view EXCEPT ![h] = [NoView EXCEPT !.who = t, !.zone = ZoneFor(t)]]
  /\ UNCHANGED <<table, place, clock, worker, budgets, history>>

\* ... and inserts the row.  A time with an offset has no wall time to keep.  A
\* repeat needs an end, and the end must be to come.
InsertReminder(h, r, a) ==
  /\ hpc[h] = "inserting"
  /\ status[r] = "none"
  /\ a.to = view[h].who
  /\ a.every # Never => a.until > now
  /\ ask' = [ask EXCEPT ![r] = a]
  /\ status' = [status EXCEPT ![r] = "pending"]
  /\ IF a.wall = Never
     THEN \E at \in Instants : due' = [due EXCEPT ![r] = at]
     ELSE due' = [due EXCEPT ![r] = a.wall - view[h].zone]
  /\ Return(h)
  /\ UNCHANGED <<attempts, deliveries, sentAge>>
  /\ UNCHANGED <<place, clock, worker, budgets, history>>

\* reminder_cancel: only a pending row; one being sent is "not found".
Cancellable_Any(r) == status[r] \in {"pending", "sent"}
Cancellable(r) == status[r] = "pending"

Cancel(r) ==
  /\ Cancellable(r)
  /\ status' = [status EXCEPT ![r] = "cancelled"]
  /\ UNCHANGED <<ask, due, attempts, deliveries, sentAge>>
  /\ UNCHANGED <<place, clock, worker, bot, budgets, history>>

\* set_timezone: the zone is written first, a person's or the chat's.
StateZone(h, t, z) ==
  /\ hpc[h] = "idle"
  /\ zones < MaxZones /\ zones' = zones + 1
  /\ IF t \in People
     THEN userZone' = [userZone EXCEPT ![t] = z] /\ UNCHANGED <<zone, stated>>
     ELSE zone' = z /\ stated' = TRUE /\ UNCHANGED userZone
  /\ hpc' = [hpc EXCEPT ![h] = "selecting"]
  /\ view' = [view EXCEPT ![h] = [who |-> t, zone |-> z, rows |-> {}]]
  /\ UNCHANGED <<table, clock, worker, crashes, history>>

\* Then the pending wall-clock rows it decides are read: all that are addressed
\* to the person; or the chat's, but for people with a zone of their own.
Anchored(t) ==
  {r \in Rows : /\ status[r] = "pending" /\ ask[r].wall # Never
                /\ IF t \in People THEN ask[r].to = t ELSE ~HasOwnZone(ask[r].to)}

SelectPending(h) ==
  /\ hpc[h] = "selecting"
  /\ hpc' = [hpc EXCEPT ![h] = "rewriting"]
  /\ view' = [view EXCEPT ![h].rows = Anchored(view[h].who)]
  /\ UNCHANGED <<table, place, clock, worker, budgets, history>>

\* Each is rewritten from its wall time, whatever has become of it since.
Reanchor(h, r) ==
  /\ hpc[h] = "rewriting" /\ r \in view[h].rows
  /\ due' = [due EXCEPT ![r] = ask[r].wall - view[h].zone]
  /\ view' = [view EXCEPT ![h].rows = @ \ {r}]
  /\ UNCHANGED <<ask, status, attempts, deliveries, sentAge, hpc>>
  /\ UNCHANGED <<place, clock, worker, budgets, history>>

\* A creator's zone moves the chat's reminders too, when the chat falls back to
\* it.
EndReanchor(h) ==
  /\ hpc[h] = "rewriting" /\ view[h].rows = {}
  /\ IF view[h].who = Creator /\ EffectiveZone = view[h].zone
     THEN /\ hpc' = [hpc EXCEPT ![h] = "selecting"]
          /\ view' = [view EXCEPT ![h].who = Chat]
     ELSE Return(h)
  /\ UNCHANGED <<table, place, clock, worker, budgets, history>>

\* learn_timezone_from_coordinates: unless the zone was stated, it is looked up
\* over the network, and the answer written.
LookUpZone(h) ==
  /\ hpc[h] = "idle"
  /\ zones < MaxZones /\ zones' = zones + 1
  /\ ~(zone # Never /\ stated)
  /\ hpc' = [hpc EXCEPT ![h] = "guessing"]
  /\ UNCHANGED <<table, place, clock, worker, view, crashes, history>>

LearnZone(h, z) ==
  /\ hpc[h] = "guessing"
  /\ zone' = z /\ stated' = FALSE
  /\ Return(h)
  /\ UNCHANGED <<table, userZone, clock, worker, budgets, history>>

\* The lookup fails, a request is refused, or the turn's deadline cancels the
\* tool at an await.
CutShort(h) ==
  /\ hpc[h] # "idle"
  /\ Return(h)
  /\ UNCHANGED <<table, place, clock, worker, budgets, history>>

-----------------------------------------------------------------------------
\* The worker: deliver_due_reminders.

\* _DUE: quiet hours hold back repeats, never a one-off.
IsDue(r) == /\ status[r] = "pending" /\ due[r] <= now
            /\ ~Repeats(r) \/ awake

ReadDue(w) ==
  /\ wpc[w] = "idle"
  /\ queue' = [queue EXCEPT ![w] = {[id |-> r, at |-> due[r]] : r \in {r \in Rows : IsDue(r)}}]
  /\ wpc' = [wpc EXCEPT ![w] = "serving"]
  /\ UNCHANGED <<table, place, clock, cur, bot, budgets, history>>

\* ORDER BY remind_at.
First(w) == {c \in queue[w] : \A d \in queue[w] : c.at <= d.at}

\* MAX(sent_at) of the rows addressed to t that stand as sent.
PingedLately_Less(t) ==
  \E r \in Rows : /\ ask[r].to = t /\ status[r] = "sent"
                  /\ sentAge[r] # Never /\ sentAge[r] < MinInterval - 1
PingedLately(t) ==
  \E r \in Rows : /\ ask[r].to = t /\ status[r] = "sent"
                  /\ sentAge[r] # Never /\ sentAge[r] < MinInterval

\* A one-off to a person waits until they have been left alone for a while.
Spaced(r) == ask[r].to \in People /\ ~Repeats(r)

Consider(w, c) ==
  /\ wpc[w] = "serving" /\ c \in First(w)
  /\ queue' = [queue EXCEPT ![w] = @ \ {c}]
  /\ IF Spaced(c.id) /\ PingedLately(ask[c.id].to)
     THEN UNCHANGED <<wpc, cur>>
     ELSE /\ wpc' = [wpc EXCEPT ![w] = "clear"]
          /\ cur' = [cur EXCEPT ![w] = c]
  /\ UNCHANGED <<table, place, clock, bot, budgets, history>>

Goto(w, at) == /\ wpc' = [wpc EXCEPT ![w] = at] /\ UNCHANGED <<queue, cur>>
Done(w) == /\ wpc' = [wpc EXCEPT ![w] = "serving"]
           /\ cur' = [cur EXCEPT ![w] = Never]
           /\ UNCHANGED queue

\* _claim: whoever takes the row out of pending sends it.
Claimable(r) == status[r] = "pending"

Claim(w) ==
  /\ wpc[w] = "clear"
  /\ LET r == cur[w].id IN
     IF Claimable(r)
     THEN /\ status' = [status EXCEPT ![r] = "sent"]
          /\ sentAge' = [sentAge EXCEPT ![r] = 0]
          /\ Goto(w, "sending")
     ELSE Done(w) /\ UNCHANGED <<status, sentAge>>
  /\ UNCHANGED <<ask, due, attempts, deliveries>>
  /\ UNCHANGED <<place, clock, bot, budgets, history>>

\* The message goes out; a one-off is done with.
Send(w) ==
  /\ wpc[w] = "sending"
  /\ LET r == cur[w].id IN
     /\ told' = [told EXCEPT ![r] = IF @ < ToldCap THEN @ + 1 ELSE @]
     /\ misses' = [misses EXCEPT ![r] = 0]
     /\ pinged' = IF ask[r].to \in People /\ ~Repeats(r)
                  THEN [pinged EXCEPT ![ask[r].to] = 0] ELSE pinged
     /\ IF Repeats(r) THEN Goto(w, "counting") ELSE Done(w)
  /\ UNCHANGED <<table, place, clock, bot, budgets>>

\* The send raised.
SendFails(w) ==
  /\ CanFail
  /\ wpc[w] = "sending"
  /\ misses' = [misses EXCEPT ![cur[w].id] = IF @ < MaxAttempts THEN @ + 1 ELSE @]
  /\ Goto(w, "missed")
  /\ UNCHANGED <<table, place, clock, bot, budgets, told, pinged>>

\* _release: handed back, or retired after MaxAttempts.  (Bound: the cap on
\* attempts, one past the last.)
Retired_Never(n) == FALSE
Retired_Late(n) == n > MaxAttempts
Retired(n) == n >= MaxAttempts

AfterMiss_Kept(r) == IF Retired(attempts[r] + 1) THEN "failed" ELSE status[r]
AfterMiss(r) == IF Retired(attempts[r] + 1) THEN "failed" ELSE "pending"

Release(w) ==
  /\ wpc[w] = "missed"
  /\ LET r == cur[w].id IN
     /\ attempts' = [attempts EXCEPT ![r] = IF @ <= MaxAttempts THEN @ + 1 ELSE @]
     /\ status' = [status EXCEPT ![r] = AfterMiss(r)]
     /\ sentAge' = [sentAge EXCEPT ![r] = Never]
  /\ Done(w)
  /\ UNCHANGED <<ask, due, deliveries>>
  /\ UNCHANGED <<place, clock, bot, budgets, history>>

\* _count_delivery.
Count(w) ==
  /\ wpc[w] = "counting"
  /\ deliveries' = [deliveries EXCEPT ![cur[w].id] = @ + 1]
  /\ Goto(w, "moving")
  /\ UNCHANGED <<ask, status, due, attempts, sentAge>>
  /\ UNCHANGED <<place, clock, bot, budgets, history>>

\* _next_occurrence: the slots passed, rounded up and at least one, in units of
\* half a clock tick; missed slots are skipped.
Ceil(a, b) == -((-a) \div b)
SlotsOn(elapsed, every) ==
  LET n == Ceil(2 * elapsed + 1, 2 * every) IN IF n < 1 THEN 1 ELSE n
NextOccurrence(at, every) == at + SlotsOn(now - at, every) * every

\* The series goes on while its end is to come and its count is not spent.
GoesOn_Uncounted(r, next) == next <= ask[r].until
GoesOn(r, next) == next <= ask[r].until /\ deliveries[r] < MaxDeliveries

\* _advance: on from the instant the poll read.
Carried_Over(n) == n
Carried(n) == 0

Advance(w) ==
  /\ wpc[w] = "moving"
  /\ LET r == cur[w].id
         next == NextOccurrence(cur[w].at, ask[r].every) IN
     IF GoesOn(r, next)
     THEN /\ due' = [due EXCEPT ![r] = next]
          /\ status' = [status EXCEPT ![r] = "pending"]
          /\ attempts' = [attempts EXCEPT ![r] = Carried(@)]
          /\ sentAge' = [sentAge EXCEPT ![r] = Never]
     ELSE UNCHANGED <<due, status, attempts, sentAge>>
  /\ Done(w)
  /\ UNCHANGED <<ask, deliveries>>
  /\ UNCHANGED <<place, clock, bot, budgets, history>>

EndStep(w) ==
  /\ wpc[w] = "serving" /\ queue[w] = {}
  /\ wpc' = [wpc EXCEPT ![w] = "idle"]
  /\ polled' = [polled EXCEPT ![w] = TRUE]
  /\ UNCHANGED <<table, place, now, awake, queue, cur, bot, budgets, history>>

\* The worker dies at any point, and comes back; what it had claimed stands as
\* sent.
WorkerCrash(w) ==
  /\ crashes < MaxCrashes /\ crashes' = crashes + 1
  /\ wpc[w] # "down"
  /\ wpc' = [wpc EXCEPT ![w] = "down"]
  /\ queue' = [queue EXCEPT ![w] = {}]
  /\ cur' = [cur EXCEPT ![w] = Never]
  /\ UNCHANGED <<table, place, clock, bot, zones, history>>

WorkerRestart(w) ==
  /\ wpc[w] = "down"
  /\ wpc' = [wpc EXCEPT ![w] = "idle"]
  /\ UNCHANGED <<table, place, clock, queue, cur, bot, budgets, history>>

-----------------------------------------------------------------------------
Older(age) == IF age < MinInterval THEN age + 1 ELSE age

Tick ==
  /\ \A w \in Workers : wpc[w] = "down" \/ (wpc[w] = "idle" /\ polled[w])
  /\ \A h \in Handlers : hpc[h] = "idle"
  /\ now' = IF now < Horizon THEN now + 1 ELSE now
  /\ awake' \in BOOLEAN
  /\ polled' = [w \in Workers |-> FALSE]
  /\ sentAge' = [r \in Rows |-> IF sentAge[r] = Never THEN Never ELSE Older(sentAge[r])]
  /\ pinged' = [p \in People |-> Older(pinged[p])]
  /\ UNCHANGED <<ask, status, due, attempts, deliveries>>
  /\ UNCHANGED <<place, worker, bot, budgets, told, misses>>

-----------------------------------------------------------------------------
Turn(h) ==
  \/ \E r \in Rows, a \in Requests : InsertReminder(h, r, a)
  \/ SelectPending(h) \/ EndReanchor(h)
  \/ \E r \in view[h].rows : Reanchor(h, r)
  \/ \E z \in Offsets : LearnZone(h, z)
  \/ CutShort(h)

Deliver(w) ==
  \/ ReadDue(w) \/ EndStep(w) \/ WorkerRestart(w)
  \/ \E c \in queue[w] : Consider(w, c)
  \/ Claim(w) \/ Send(w) \/ SendFails(w) \/ Release(w) \/ Count(w) \/ Advance(w)

Next ==
  \/ \E h \in Handlers :
       \/ Turn(h) \/ LookUpZone(h)
       \/ \E t \in Targets : ReadZone(h, t) \/ \E z \in Offsets : StateZone(h, t, z)
  \/ \E r \in Rows : Cancel(r)
  \/ \E w \in Workers : Deliver(w) \/ WorkerCrash(w)
  \/ Tick

Spec == Init /\ [][Next]_vars

\* A turn ends, by its deadline at the latest; the worker polls for ever and is
\* restarted; time passes, and the chat is awake for part of every day.  A send
\* may well be refused for ever.
Fairness ==
  /\ SF_vars(Tick /\ awake')
  /\ \A h \in Handlers : WF_vars(Turn(h))
  /\ \A w \in Workers : WF_vars(Deliver(w))

FairSpec == Spec /\ Fairness

-----------------------------------------------------------------------------
\* Properties.

\* A request never becomes more messages than it was told it would: one for a
\* one-off, MaxDeliveries for a series, through releases, moves, re-anchorings
\* and crashes.  (A send that raises may have been posted and is repeated: only
\* sends that returned are counted.)
PromisedCount == \A r \in Rows : told[r] <= Most(r)

\* Once cancelled, nothing more arrives, and nothing revives the row: not the
\* release, nor the move to the next slot, which ask no questions.
CancelledStays ==
  [][\A r \in Rows : status[r] = "cancelled" =>
        status'[r] = "cancelled" /\ told'[r] = told[r]]_vars

\* Nobody gets two one-offs within the minimum interval: what one poll read as
\* due it spaces as well as what several do.  (One worker is deployed; two could
\* both look before either claims.)
SpacedOut ==
  \A w \in Workers : wpc[w] = "sending" =>
    LET r == cur[w].id IN
    ~Repeats(r) /\ ask[r].to \in People => pinged[ask[r].to] >= MinInterval

\* A row is given up on only after MaxAttempts sends in a row have raised: what
\* failed for an earlier slot does not count against a later one.
RetiredForCause == \A r \in Rows : status[r] = "failed" => misses[r] = MaxAttempts

\* The worker has claimed the row it is serving and not yet let go of it.
Holding(w) == wpc[w] \in {"sending", "missed", "counting", "moving"}

\* A row does not stand as sent unsent, but for the worker that has just claimed
\* it, or that died.
NoneSwallowed ==
  crashes = 0 =>
    \A r \in Rows : status[r] = "sent" =>
      told[r] > 0 \/ \E w \in Workers : Holding(w) /\ cur[w].id = r

\* Once nobody talks, every reminder comes to an end, though every send may
\* raise: sent, given up, or its series over.
Settles ==
  <>[](\A h \in Handlers : hpc[h] = "idle") =>
    \A r \in Rows : <>[](status[r] # "pending")
=============================================================================
