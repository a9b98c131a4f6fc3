# Verification of the group organizer bot

TLA+ models of the bot in `../src`, TLC configurations that check them on small
instances, and proofs, checked by TLAPS, of theorems that hold for every value
of the constants. Every definition that models code names its lines in
`PROJECT.json` (`map`).

To run a check: `tlc -config life_race.cfg MCSessionLifecycle.tla`. To check the
proofs: `tlapm RemindersProofs.tla`.

## 1. The system

Two processes share one PostgreSQL database and never talk to each other
otherwise.

* The **bot** (`bot/main.py`) polls Telegram and handles updates *concurrently*
  (`concurrent_updates(True)`): each update is a coroutine, and other coroutines
  run at every `await`. A handler reads the chat's session, asks a language
  model what the message means, and acts on the row it read *before* asking. The
  model's tool calls run under a deadline, which cancels a tool at an await.
* The **worker** (`worker/main.py`) wakes up every 60 seconds and runs five steps
  in order, each isolated from the failures of the others: reminders, closing
  questions, auto-closes, group titles, roll calls.

A single SQL statement is atomic; a sequence of statements is not (there is one
explicit transaction in the whole program, the merge of two identities).
Kubernetes (`k8s/app.yaml`) and docker compose restart either process when it dies. So
the interleavings that matter are statement by statement, between coroutines,
between the two processes, and across a crash of either. The general pattern of
the worker is *claim, then send*: an `UPDATE ... RETURNING` finds what is due and
stamps it in one statement, the message goes out, and a failed send is
compensated by another `UPDATE`.

### Components

| Component | State | Operations | What makes it correct |
|---|---|---|---|
| Session lifecycle (`bot/session.py`) | `sessions` | start, retopic, close (stop, yes, removal), touch, "not yet" | one active session per chat; a close is final and announced once |
| Closing questions and auto-closes (`worker/closing.py`) | `sessions.closing_question_*`, the batch claimed | claim, send, release, auto-close, notice | silence counts as consent only after two questions; nobody is nagged; nobody waits for ever |
| Roll calls (`bot/roll_call.py`, `worker/roll_call.py`) | `roll_calls`, the batch claimed | start, first round, count, claim, send, release, finish, cancel | one run per session; as many rounds as promised; a run ends; a cancelled one is not revived |
| Reminders (`worker/reminders.py`, `core.py`) | `reminders`, the batch read | set, cancel, claim, send, release, count, advance | sent as often as promised, not lost, spaced, ends; a cancel holds |
| Timezones (`bot/timezones.py`) | `chats.timezone`, `users.timezone` | state, guess, re-anchor | whose clock decides; a guess never overwrites a statement |
| Message routing (`bot/router.py`, `bot/main.py`) | the row a handler read | dormant, active, private and removal paths | acts on stale rows without breaking the above |
| Confirmations (`bot/tools/core.py`) | `pending_confirmations` | propose, find, resolve, execute | a destructive action runs once, for whom it was asked |
| Participants and identity (`core.py`, `bot/people.py`) | `participants`, `users` | add, answer, link two rows of one person | one row per person; an answer is not lost in a merge |
| Shopping list (`core.py`, `item_names.py`, `quantity.py`) | `list_items` | add, update, claim, remove | amounts add up under concurrent adds |
| Event facts (`bot/group_info.py`, `worker/group_sync.py`) | `chats.title`, `sessions.event_date` | apply a title's event | the newest word on the date wins |
| Tool loop and turn outcome (`bot/ai/tool_loop.py`, `turn_outcome.py`, `mcp_server.py`) | grants, the turn's results | issue, use, revoke, cut short | a grant lives as long as its turn |
| Model chain (`bot/ai/client.py`, `settings.py`) | the shared fallback index | call, fall back, promote, configure | a healthy model is found; nobody skips it |
| Administration menu (`bot/admin.py`, `bot/dm.py`) | menus rendered earlier | render, tap | a tap does what the button said |
| Deduplication and decision log (`dedup.py`, `decision_log.py`, `history.py`) | `processed_updates`, `decisions` | mark, record | an update is handled at most once |
| Status, places, archive, group tools | facts | read, compose | pure reads |
| Rendering, addressing, classifier, schemas | none | — | pure functions or HTTP |

`PROJECT.json` lists each with what is and is not modelled, and, under
`hazards`, every place in this code where a step of somebody else, a crash, a
failing send or a boundary can do harm that a test would hardly reach.

## 2. The modules

```
SessionContract          what a group is promised about its sessions
      ^  implemented by (Contract == INSTANCE SessionContract WITH ...)
SessionLifecycle         sessions: handlers, worker, crashes, clock
      |-- MCSessionLifecycle    instances for TLC: life_*.cfg
      `-- SessionProofs

RollCall                 roll calls: the tool, the worker, crashes, clock
      |-- MCRollCall            instances: roll_*.cfg
      `-- RollCallProofs

Reminders                reminders and time zones: tools, worker, crashes, clock
      |-- MCReminders           instances: remind_*.cfg
      `-- RemindersProofs

Bot                      the updates in hand at once, and NULL
      |-- ModelChain            the chat's order of models, the menu, the shared object
      |      ^  implemented by (KeepsToTheChain == ChainSpec)
      |      |-- ModelChainProofs
      |      `-- Turn           a message, from the prompt to the reply
      |             |-- MCTurn          instances: turn.cfg, turn_waits.cfg
      |             `-- TurnProofs        (EXTENDS ModelChainProofs)
      |-- Roster                who is on the roster      <- RosterProofs
      |-- ShoppingList          the list and its tools    <- ShoppingListProofs
      `-- Confirmations         proposals and answers     <- ConfirmationsProofs

MCTools                  ModelChain, Roster, ShoppingList, Confirmations: tools.cfg
```

`SessionLifecycle` knows of a roll call only its status, because closing a session
must cancel it; the rounds are in `RollCall`. `Reminders` shares nothing with the
two: closing a session leaves its reminders alone. `Turn` is composed with
`ModelChain`: each of its requests moves the shared object, and its last step lets
it go. `ModelChain` on its own lets the turns move as they like; that a turn of `Turn`
moves no other way is `KeepsToTheChain`, a refinement with the identity on the chain's
variables, so that what holds of `ModelChain` holds of turns.

The tables behind `Roster`, `ShoppingList` and `Confirmations` have no statement in common
but the removal of an item, which `ShoppingList` models on a row with a name, an amount and
a claim, and `Confirmations` on a row that is there or not; and sessions, of which
`Confirmations` keeps what it needs: which is the chat's latest, and whether it is active.

### Conventions shared by the models

* **A step** is one SQL statement, one send, or the code between two awaits.
  Handlers (`hpc`, `view`) and workers (`wpc`, and what they read or claimed)
  have a program counter; what was read is kept in `view`, `batch`, `claims` or
  `queue`, and may be stale when it is used.
* **Rows** are ids `s \in Sessions` or `r \in Rows`, one function per column. A
  `BIGSERIAL` id is taken by `status = "none"` turning into something else.
* **Time.** Columns that hold instants are kept as *ages* or *remaining times*,
  which a `Tick` changes and which saturate one past the threshold they are
  compared with. A saturated age cannot be told from an older one by any query,
  so the clock of `SessionLifecycle` and `RollCall` is unbounded though the state
  space is finite. A unit is half a day, the shortest gap between rounds, and the
  shortest interval of a series, respectively. The worker polls every minute and
  a turn's deadline is shorter than a unit, so `Tick` waits until every worker
  that is up has polled in the unit.
* **Updates in hand.** In the modules under `Bot`, `Handlers` are coroutines: each
  has its own place and what it has read, and takes a new update when it is idle.
* **Quiet hours** are the variable `awake`.
* **Failures.** A send may raise (`CanFail`), posted or not, except that
  `Reminders` counts only the sends that returned. A worker may crash between any
  two steps and come back with nothing but the database; the bot may crash and
  lose its coroutines (`BotCrash`). A failing query is taken as a crash of the
  step that issued it, since no step compensates for one.
* **What a model answers** is nondeterministic wherever the code branches on it.
* **History variables** (`posted`, `announced`, `questions`, `summaries`,
  `allAnswered`, `told`, `misses`, `pinged`, `lost`, `runs`, `heard`, `moot`, `wrote`,
  `latest`, `overlapped`, `mixed`, `crossed`) record what really happened or what the group
  really read. No guard depends on them, except that `told` of `Turn` is the reply
  itself, kept until it is sent.
* **Bounds.** `CountCap`, `PostCap`, `ToldCap` saturate the histories above the
  largest value a property compares with. `MaxTitles`, `MaxZones`, the crash
  budgets, `Horizon`, `Requests`, `MaxRows`, `MaxUpdates`, `MaxItems`, `MaxCalls`,
  `MaxProposals`, `MaxSessions`, `MaxMessages`, `MaxBatch`, `MaxCliCalls` and the
  sizes of the sets bound the rest. `MaxIterations` is the code's own. The
  proofs hold for all of them.

### SessionLifecycle

| Model | Code |
|---|---|
| `RouteToDormant`, `CheckNoneActive`, `Insert`, `InsertSession`, `CarryTitle` | `handle_dormant_message` and `start_session`: read, check, INSERT guarded by the partial unique index, write the title's date |
| `RouteToActive`, `Touch`, `StartRollCall`, `SyncTitle`, `EndTurn` | a turn of `handle_active_message`, as far as it changes the session |
| `AnswerYes`, `AnswerStop`, `AnswerNo`, `RouteRemoval`, `Leave` | the ways to close, and "not yet" |
| `Close`, `CancelRollCalls`, `Farewell` | `close_session` (one guarded UPDATE), then the cancel, then the goodbye by whoever won |
| `Retopic` | the change of event, from a confirmation asked at any earlier time |
| `ClaimQuestions`, `AskClosingQuestion`, `AskFails`, `ReleaseClaim` | `ask_closing_questions` |
| `ClaimAutoCloses`, `PostNotice` | `auto_close_sessions` |
| `ReadActive`, `ApplyEvent`, `FinishRollCall`, `EndPoll` | the later steps of the poll, as far as they touch a session |
| `BotCrash`, `WorkerCrash`, `WorkerRestart`, `Tick` | the environment |

`SessionContract` is the same life with no worker, claim, clock or stale read: a
session is started, asked about, answered, ended by a human or by silence after
`Owed` questions, and announced. The mapping is the identity on `status`, `reason`,
`posted`, `announced`; all else is hidden. `Owed` is the price of the faults: two
questions when every send succeeds, one when sends may raise (a release racing a
"not yet" writes the old question back), none when the worker may die between
claiming and sending.

### RollCall

| Model | Code |
|---|---|
| `Nudge`, `StartRollCall`, `PostFirst`, `FirstFails`, `UndoNudge`, `CountFirst` | the nudge tool: read the roster, insert the run, post the first round, undo it when the send raised (posted or not), count it |
| `CutShort` | the deadline cancels the tool at any await |
| `ClaimRounds`, `ReadRoster`, `SendRound`, `SendFails`, `ReleaseClaim`, `Finish`, `EndStep` | the worker's step |
| `AbandonStep` | a roster read raised: the whole step ends and its claims with it |
| `Speak`, `Answer`, `CancelRollCalls` | people, and the session's close or change of event |

### Reminders

| Model | Code |
|---|---|
| `ReadZone`, `InsertReminder` | `reminder_set`: whose clock (one step for its three reads), then the INSERT. The end of a series is taken as the instant it was converted to |
| `Cancel` | `reminder_cancel` |
| `StateZone`, `SelectPending`, `Reanchor`, `EndReanchor` | `set_timezone`: the zone, the pending rows it decides, each rewritten from its wall time, then the chats the person created |
| `LookUpZone`, `LearnZone` | `learn_timezone_from_coordinates`, around its HTTP call |
| `ReadDue`, `Consider`, `Claim`, `Send`, `SendFails`, `Release`, `Count`, `Advance`, `EndStep` | `deliver_due_reminders` |
| `EffectiveZone`, `ZoneFor`, `NextOccurrence`, `GoesOn`, `PingedLately` | the functions of these names, or their conditions |

### Turn

| Model | Code |
|---|---|
| `Address`, `Issue`, `ReadSetting`, `Adopt` | the start of `handle_active_message`'s model call: a new `TurnRecord`, a grant issued, the order read, the chat's object taken |
| `Request`, `OutOfModels`, `Refused`, `TimedOut`, `Broke` | `ModelFallback.start` and the loop's own sends: the next entry, none left, 429 or 5xx, silence, anything else |
| `AsksForTools`, `CallTool`, `RecordAndSend`, `Repeats`, `Exhausted`, `AnswersText` | `_run_tool_loop`: a batch, its calls one by one, their record and the re-drive, a repeat, the bound on batches, the text |
| `DeadlinePasses`, `TooSlow` | `asyncio.timeout` around the loop, and what is said then |
| `AcceptCall`, `RunCall`, `RecordCall`, `Granted`, `Expire` | the MCP endpoint: the grant looked up, the tool run, the result recorded, on behalf of command-line models the bot may have stopped waiting for. Any number of calls may be in hand at once; a tool may raise after it has changed something, and is then not recorded |
| `HonourVerbatim`, `BreakTheSilence`, `NextBlock`, `Changes` | `turn_outcome.py` |
| `End`, `Revoke`, `Send`, `Restart` | the revoked grant and the reply; a new pod |

A rendered block is `fresh` until something is changed after it was rendered, and
`stale` from then on: that is all a property asks of it. A tool looks, writes, or
speaks for itself, which may change something too (a nudge starts a roll call). It may
find nothing to change, return a block or an error, or raise, before or after it has changed
something. The places of `mcp` are the calls of one turn, each at its own stage.

### ModelChain

| Model | Code |
|---|---|
| `Selection`, `ProviderChain`, `ShownOrder`, `Pick` | `get_stored_chain`, `get_provider_chain`, `_shown_order`, `pick` |
| `PressRead`, `PressWrite`, `PressReset`, `PressForget` | a press on the menu: SELECT, upsert or DELETE, `forget_chat`, with awaits in between |
| `ReadChain`, `FallbackFor`, `Advance`, `At`, `LetGo` | a turn: the order read, the object found or made, `index += 1`, the entry it stands at |
| `Restarted` | memory gone, the row kept, perhaps another `AI_PROXY_MODELS` |

Objects have identities, so that a turn on an object the chat has already dropped
is there; an object nobody refers to is forgotten.

### Roster

| Model | Code |
|---|---|
| `Message`, `LinkById`, `LinkByHandle`, `Link`, `Linked`, `Merges` | `link_identity`: two SELECTs, then the merge in its transaction or one of the two UPDATEs; the unique index on the handle may refuse |
| `Find`, `Matches`, `Best` | `_find_participant`: id, handle, name |
| `Record`, `Set` | `record_speaker`'s INSERT that never touches a row; `set_participant`'s INSERT or UPDATE |
| `ReportAnswer`, `Reports` | what a model may report: any status the declaration offers but "maybe", of anyone, by any id, handle or name; under a name that means the sender, the router puts in what it knows of the sender |
| `Join`, `PrivateReply`, `ReplyClassified`, `AdminSeen` | `handle_new_members`, `handle_private_message`, `_record_admin_handles` |

### ShoppingList

| Model | Code |
|---|---|
| `Add`, `Look`, `InsertNew`, `Fold`, `Drop`, `Rename`, `Again`, `ByName`, `Decide` | `list_add`, a statement each: search by key, INSERT, fold and delete each other match, rename, read again, decide on the amount |
| `Use`, `Resolve`, `Apply` | `list_check_off`, `list_claim`, `list_unclaim` and the confirmed removal: the name resolved, then the write to every row of that name |
| `Held`, `Carried`, `Replaces` | `_amounts_of`, what a fold carries over, when an amount is replaced |

Names are spellings with two given functions, `Canonical` and `KeyOf`: the
morphology of `item_names.py` is outside, and the assumption says of it that a
canonical name is canonical and means the same item. Amounts are values.

### Confirmations

| Model | Code |
|---|---|
| `Arrives`, `ReadPending`, `Open`, `Classified` | an addressed message: the chat's newest pending row of the last day, and the classifier's yes, no or neither |
| `Resolves`, `Confirm`, `Reject` | `resolve_confirmation`, one guarded UPDATE |
| `NotResolved`, `RemoveItem`, `Retopic`, `Broadcast` | `execute_confirmed_action` |
| `SayResult`, `SayCancelled` | the router's reply; it may be refused |
| `Propose`, `NoMoreProposals` | the turn of a message that is no answer |
| `Close`, `Reopen`, `ItemAdded`, `DayPasses`, `Crash` | the chat's sessions, its list, time, a restart |

A zone of `Reminders` is a constant offset. Daylight saving is left out: it would change by how much a
re-anchoring moves a row, and no property depends on that.

## 3. What the runs show

| Run | Instance | Shows |
|---|---|---|
| `life_race` | 1 chat, 2 sessions, 2 handlers, 1 worker | `OneActivePerChat`, `AnnouncedOnce`, `CloseIsFinal`: however starts, stops, answers, removals and the auto-close race |
| `life_consent` | 1 session, 2 handlers, the bot may crash, event dates | `NeverNagged`, and the refinement `KeepsContract`: the lifecycle implements `SessionContract`, which with `Owed = 2` closes by silence only after two questions |
| `life_failures` | 2 workers, failing sends, a title that moves the date | `TypeOK`, `ClaimedOnce`, `ConsentOfSilence` with `Owed = 1` |
| `life_liveness` | 1 session, worker crash, title | `SilenceEnds`: a session nobody speaks in is closed |
| `roll_race` | 2 runs, 2 tools, 1 worker | `OneRunPerSession`, `AtMostOneExtra`, `OverIsOver` |
| `roll_faults` | 1 run, failing sends and reads, crash | `TypeOK`, `EveryRoundPosted` (no round is lost unless a claim was), `RunsEnd` |
| `remind_pair` | 2 reminders of any kind, failing sends, crash | `TypeOK`, `PromisedCount`, `SpacedOut`, `NoneSwallowed` |
| `remind_ends` | 1 reminder, a zone stated or guessed, failing sends, crash | `RetiredForCause`, `CancelledStays`, `Settles` |
| `turn` | 2 turns on one chain of an HTTP and a command-line model, one of them with tools and overlapping calls over MCP; a grant that may expire; restarts | `TypeOK`, `NoSilentChange`, `NoOldBlock`, `GrantEndsWithTurn`, `EveryTurnEnds`, and the refinement `KeepsToTheChain`: the turns implement `ModelChain` |
| `tools` | the menu, a press at a time, and two turns; two updates over two people of one name; two calls over one item under three names; two messages over two proposals and two sessions | for the roster `RosterTypeOK`, `OneRowAfterSpeaking`, `NoAnswerLost`; for the list `ListTypeOK`, `OneRowOnceAdded`, `NothingIsLost`; for the confirmations `ConfirmTypeOK`, `TakenOnce`, `DoneIsTrue`, `ConfirmedIsNotDropped`; for the chain `ChainIsASelection`, `SettingsTakeEffect` |
| `life_rollcall`, `turn_waits` | the smallest that shows it | the two disagreements of section 6 that a run exhibits |

`tools` explores four components that share no variable. `scene` says which of them
moves, so the state spaces add up instead of multiplying, and nothing is lost: a
property speaks of one component, and no step of another could change it. It finds 2.8
million states in two minutes; a second press of the menu under way at once would take
twice the time, and is left to the theorem `StoredOnce`, which has any number of them.

Why these bounds are enough to be interesting:

* Every race here is between two parties over one row, so two handlers and one
  worker, or two workers, meet over one session, run or reminder; a second
  session, run or reminder is there where the property relates two (one active
  session per chat, one run per session, the spacing of two reminders).
* `IdleFor`, `UnansweredFor` and `SnoozeFor` keep the order the code gives them
  (the snooze outlasts the wait for an answer) at one or two half-days instead of days;
  in `life_race` they are as short as they can be, so that the auto-close is in every race.
  In `life_race` a view drops what no query reads of a closed row.
* Two rounds in `roll_faults` and three in `roll_race` tell the first, the last and
  the one in between apart; two attempts and two or three deliveries do the same for reminders.
* In `turn` the two models are the two kinds there are, in the order in which the
  second can inherit what the first did. Two batches of two calls hold a look before a
  write and a write before a look, in one batch and across two; two calls over MCP
  (`MaxCliCalls`) likewise, one after the other or at once. A grant expires only where it may yet
  turn a call away: while a command-line model works and a place for a call is left. The other
  turn uses no tools, but takes, moves and drops the shared object. The view `WithoutWords` drops
  `told`: the properties read it where it is written, and no step does.
* In `tools`, four updates of the roster are enough for two rows of one person to come
  from hearsay, and for the person to speak while they are told apart; two people of one
  name are there because the search by name may find either. Four calls over a list
  which may hold an item twice under names of an earlier version are enough for two adds
  to fold, rename and state an amount while a third claims or checks off. Three messages
  are a proposal, a yes and a rival answer, and a restart may come between any two steps.
* Each property has a mutant of the code in `PROJECT.json` (a dropped guard, an
  off-by-one, a value not reset) under which its run fails: the instance is large
  enough to reach the state where the property matters.

`CHECK_DEADLOCK` is left on in every run but `tools`: time passes, or another message
comes. In `tools` the updates, calls and messages are counted (`MaxUpdates`, `MaxCalls`,
`MaxMessages`), and when the last is handled there is nothing left to do.

### Fairness

* `SilenceEnds`: coroutines resume (`WF` on a handler's continuation, not on new
  messages), the worker polls for ever and is restarted (`WF` on `Poll`, which holds
  the restart), time passes (`SF(Tick)`), and Telegram does not refuse one message for
  ever (`SF` on asking; without it the claim is released and taken again for ever, as
  the code intends).
* `RunsEnd`: the same, with the roster read and the round sent in the end. The chat
  is awake again and again (`SF(Tick /\ awake')`).
* `EveryTurnEnds`: what the bot does by itself, `Continues(h)`, is weakly fair for each
  turn, because the event loop runs whatever is ready and the deadline's timer fires.
  No model need ever answer, and no call over MCP need ever return: what a turn waits
  for there is covered by the deadline, so the property would fail if an await of the
  loop were not.
* `WaitingHelps` (a violation) is about the same specification, and supposes more still:
  that models stop failing and people go on writing.
* `Settles` needs no send to succeed: `MAX_ATTEMPTS` ends the row. It does need people
  to stop restating zones, which is why it is conditioned on turns being over.

## 4. What is proved

For any number of sessions, chats, rows, handlers and workers, any thresholds, any
schedule of rounds, any caps, zones and requests, and any faults the constants allow.
The assumptions are the named `ASSUME`s of the modules: numbers are numbers, the sets
of handlers are finite, NULL is none of the values, a row or an id, a deployment offers
at least one model, a list left by an earlier version is a list.
Every safety property of a passing run is stated by a theorem.

**SessionProofs.** `Typing`, by one lemma per group of actions.
`AtMostOneActive`: `OneActivePerChat` with `TypeOK` is inductive — only `InsertSession`
creates an active row, and the index admits it only when there is none.
`ClosedStaysClosed`: every statement that writes `status` or `reason` is guarded by
`StillActive`, or inserts a row that was not there. `SaidOnce`: `AnnouncedOnce` says
nothing of who is about to speak, so `GoodbyeInv` adds the word. Whoever closed a session
has the word about it until it is said or lost: `Unsaid`, the session is then closed and
not announced, and `HasTheWord`, one party has it at most, because the UPDATE that closes
lets one statement through.

`SilenceIsConsent`, `NeverClaimedTwice`, `ThreeAtMost` and the refinement `ContractKept`,
in the same module, are about the closing question.
`ConsentOfSilence` is not inductive: the number of questions read trails the number on
the row while a claim is pending, and a release takes it back. `ConsentInv` has

* `ClaimsOK`: a claim still to be sent is held by a worker that is sending, its row was
  stamped and has since at most been answered "not yet", so it is due for nothing;
* `RowsOK`: a retry is a retry of a question;
* `HeardOK`: what the row says the group has heard (`Heard`, by the faults allowed) was
  posted, but for the one question of a pending claim;
* `ClaimedOnce`, which `ClaimsOK` keeps: a claimed row is not due, so nobody else claims it.

`NeverNagged` follows from `NagInv`, the opposite bound: `Most` is how many questions can
have been read, by what the row says, and it leaves room for the one that is claimed and
not sent. `ContractKept` is a simulation: one lemma per handler and per step of the poll
maps it to a step of `SessionContract` or a stutter. The abstract guards come from the
invariants: a close by silence is allowed because `HeardOK` says the group has read what
`Owed` asks for, and an announcement because `GoodbyeInv` says the session is closed and
nobody has announced it. It holds for every fault the constants allow; `Owed` names the
price.

**RollCallProofs.** `Typing`, `OneRun`, `OverStaysOver` (a tool counts, and a worker
finishes, only a row that is still active), `OneTooMany` and `NoRoundLost`, whose invariant `RoundsInv`
says that a claim is exclusive (a claimed row is not due until its gap is over, and time
waits for the worker) and that the rounds counted on a row are accounted for: posted,
or in the hands of whoever claimed or inserted it. It holds as long as `~lost`.
`OneTooMany` is the opposite bound, for when no send raises: `WithinRounds` says that the
questions posted and still to come (the tool's, a claim's) exceed the rounds counted by one
at most. The tool sets `rounds_done` to 1 whatever it was, and that takes nothing back,
because `FirstAlone` holds: one tool serves a row, and while it is busy with the first round
the worker has claimed that round at most, the next being a gap away.

**RemindersProofs.** `Typing`, `Promised`, `Cause`, `Swallowing`, `Spacing` and `Cancelled`.
The invariant `IInv` adds to the types

* `HeldOnce`: a row being served stands as sent and has one holder, because `_claim` takes
  it from pending;
* `Ledger`: for each place a row may be in (open, missed, sent, counted), how `deliveries`
  and `attempts` compare with what was really sent and what really failed. That is what
  makes `PromisedCount` inductive: a series is `pending` only with fewer deliveries than
  the cap, and every message is counted before the row is pending again;
* `Readable`: a turn computes instants only from zones and wall times there are (a row it
  read as pending is still a row with a wall time when it rewrites it).

`Cancelled` follows since every write of the worker but the claim is to a row it holds.
`Spacing` is about a deployment of one worker, an assumption of the theorem: two could both
look before either claims. `SpaceInv` says that whoever was sent a one-off lately has a row
that is done with and as old (`Remembered`), which is what `_recently_pinged` reads, and that
what the worker found clear stays clear until it sends (`StaysClear`).

**ConfirmationsProofs.** `ConfirmTyping`, `ActedOnce`, `SaidWhenDone`, `YesIsKept`. That
an action is taken once is not inductive: between the UPDATE that resolves the row and
the act there is an await, where others read and resolve. `Takes` says that whoever is
about to act holds a row that is confirmed and has not been acted upon, `Alone` that
nobody else is about to act on the same one (the guard `status = 'pending'` lets one
UPDATE through), and `Ledger` that nothing was done for a row that is not confirmed.

**RosterProofs.** `RosterTyping`, `AnswersStay` and `OneRowEach`. To see that nothing but a merge, a
join and a report of "unknown" sets an answer back, `Carries` says what each kind of update
carries, and `Unused` that an INSERT lands where there was no row.

`OneRowEach` says that whoever's own message has been recorded has one row at most, by id and
by handle, until that message's turn begins to report, as long as no two updates were ever in
hand at once (`~overlapped`: nothing but the handle has a unique index, and two messages of a
new person can make two rows). Afterwards a report may give the person's handle to another row
again, under a wrong id; the person's next message puts it right. Its invariant has two parts.
`OneHandle` is the index, and holds whatever overlaps. `Calm` holds while nothing has
overlapped: no two rows have one id (`OneId`), what the update in hand has searched for is
still as it found it (`Searched`: no row has the id it did not find, the row it found is
there and bears what it was found by, and the two rows of a merge are two), and once
`link_identity` of a message is through, the sender's rows bear the sender's handle (`Speaks`,
`Bears`). The last is what makes the property more than `OneId`: a row by hearsay with the
handle and another with the id are two rows until the merge. That the index never refuses the
link of an update alone is `LinkAllowed`.

**ModelChainProofs.** `StoredOnce`: the order on record holds each model once, also when
the deployment names one twice. A press takes a model out of the selection it read, or adds
one that is not in it (`PickIsASelection`), and whatever is dropped on the way, the entries
that stay are numbered from 1 without a gap, each once (`RankIsANumbering`,
`EveryRankIsTaken`, `KnownIsAnOrder`). `MenuTakesEffect`, from `Agree`: while the row stands as a turn
read it, the order the turn carries, and then the order of the object it walks, are what
the row says. `fallback_for` compares orders, so it does not matter which object a slower
turn has put back.

**TurnProofs.** `SpeaksOfItsChanges`, `GrantDies`, `TurnTyping`, `OldBlocksStay` and
`TurnsKeepToTheChain`. `NoSilentChange` compares what the
calls did with what the reply says, and the two meet only through the record, which is
written later. `Kept` bridges the gap: while a turn runs, a write the record does not show
is still visible in a result of the loop's batch, in a call over MCP that is done and not
recorded, or in one that raised. Where none of these is, the record shows it, and the two
guards on the reply do the rest. `GrantDies` needs that a turn that is over holds no grant:
every way to end revokes it, and only the next `Address` issues one.

`TypeOK` bounds the batches by the iterations, and so needs `TypeInv`, which says at which
places the iterations may be used up. `OldBlocksStay` follows one list through its two
copies, the loop's and the record's. A turn that used no MCP call has the same list in both,
and it is old only while the batch that made it so waits to be recorded (`ByLoop`); a turn
that ran no batch, and whose calls over MCP came one at a time, has an old one on record only
between a call and its record (`ByCli`). `NoOldBlock` excludes turns that did both, calls that
overlapped (`crossed`) and calls that raised after a change (`Slipped`). The record of a batch
is `AfterBatch`, which says at once what the loop of `turn_outcome.py` finds one result at a
time: the last result that decides, decides.

`TurnsKeepToTheChain` maps each step of a turn to a step of `ModelChain` or a stutter. The
step that takes an invariant is the refusal: `ModelChain` moves an object only so far
past its end as there are turns, because a request goes out only while the object stands at an
entry and each moves it once. `Walked` counts the requests in flight on each object
against what is left of it. The corollary `TurnsTakeTheMenu` then takes the two theorems of
`ModelChainProofs` over to turns, tools, deadlines and restarts included.

**ShoppingListProofs.** `ListTyping`, `OneRow` and `NothingLost`. A call works from the rows it
read at its start, while others fold, rename and delete. `Kept` says what remains true of
them if no add clashed with another call: `Alongside`, another call about the same item goes by the
same name, or is already at its write on the item's only row, and takes nothing off; and
`Progress`, step by step, where the item's rows are by now: none under another name when
an INSERT is due, all of them the twin or still to be folded while it folds, a claim carried
over before its row is dropped, the twin alone from then on. An add clashes (`Clash`) with a
call about the item by another name, with one that takes the item or a claim off, and, where the
item is on several rows none of which bears the name asked for (`Untidy`), with any. Nothing
else is excluded: any number of calls about any items, lists of any earlier version, and adds of
one name that find, insert, fold and rename the same rows. From `ListShape` comes that an
id is given out once and that the index on the name refuses a second row.

### What is only model-checked

* `SilenceEnds`, `RunsEnd`, `Settles`, `EveryTurnEnds`: liveness under fairness is out of
  the prover's reach.
* That `AfterBatch` is the loop over a batch of any length takes an induction over data.
  `AfterBatchIsTheLoop` in `MCTurn` compares it with the fold for batches of up to three.
* `NoRollCallOutlivesSession` and `WaitingHelps` are false (section 6), and TLC shows it.

## 5. What is not modelled

* Rendering, wording, parsing of dates and quantities; addressing; the HTTP calls themselves;
  the morphology and the units behind the shopping list; the classifier's prompts. What a
  model answers is a choice.
* Deduplication and the decision log. An update is marked as seen before it is handled, so
  that a crash drops it: to every model here, an update that never came.
* Ambiguous sends of reminders (an exception after the message was posted): the code sends
  again, and `PromisedCount` counts the sends that returned.
* Daylight saving; the change of a chat's creator; the end of a series given as a wall time,
  which a re-anchoring does not move.
* The topic guard's switch (`settings.py:83-126`, `admin.py:205-216`), and the menu's
  questions of whose chat it is: a row written by one press, read by one turn.
* Of the roster and the turn together: the reports of one turn are taken one at a time, though
  calls over MCP may overlap (`Turn`); reports of different updates do overlap.
* Of the roster: changes of a person's handle or name, the answer "maybe" (which no code
  tells from another answer), `responded_at`, the greetings. Of the list: the category and
  the refusal of a participant's name as an item. Of the confirmations: the texts.
* What is recorded as seen of a title, and the retry after its classifier has failed.
* Status, places, archive: reads composed into a text, and a row written once. Migrations, run
  once at start.

Left with coverage in mind: what remains of `router.py`, `core.py`, `composed.py` and
`pool.py` is prompts, texts, composed reads and DDL.

## 6. Disagreements found

Two are runs that TLC must find violated; `PROJECT.json` quotes the sentence of the
repository each contradicts.

1. `life_rollcall`. The worker's auto-close leaves the session's roll call running.
2. `turn_waits`. Every refusal moves the chat's object on and nothing ever moves it back
   (`bot/ai/client.py:153`): once the last model has refused, every later turn of the chat is
   told to try later, and no model is asked, until the menu changes the order or the pod restarts.

The rest came up while modelling. The models keep what the code does, and the properties
are stated so that they hold of it; there is no run for each.

*Sessions and zones*

* `retopic` moves the event's date and keeps the pending closing question (`bot/session.py:59`,
  against `docs/tasks/0001-group-organizer/EPIC.md:108`): the new event is asked about again, and auto-closed, before it has happened.
* Stating a zone sends a running series back to its first slot, because `local_time` is the
  first occurrence's (`bot/timezones.py:166`, `175`); the group is reminded again at once.
* A guess under way overwrites a zone stated meanwhile, and marks it a guess
  (`bot/timezones.py:304`, against `266`).
* A claim's release racing a "not yet" writes the old question back: the reason `Owed` is one
  with failing sends. A worker may claim round 0 of a run whose tool is about to post it, and a
  first message that is already the summary is counted as a question: the reasons for
  `AtMostOneExtra`. A series cancelled while it is being sent is "not found" and goes on.

*Turns*

* A turn cut short between a tool's write and its record asks for the message to be repeated
  (`bot/router.py:70`, `bot/ai/tool_loop.py:133-147`), though it was acted upon: `Unrecorded` in
  `NoSilentChange`.
* When an HTTP model's batch is followed by a command-line model, the loop still holds the block
  the record has dropped (`bot/turn_outcome.py:118-128` fixed one such case): `Mixed` in `NoOldBlock`.
* Calls over MCP are not serialised (`bot/mcp_server.py:192`), and the record takes the block that
  was recorded last for the freshest ("Latest wins: it reflects the freshest state",
  `bot/turn_outcome.py:114`): a list rendered before a write, and recorded after it, is sent as
  the current one (`crossed` in `NoOldBlock`).
* "a tool that raised changed nothing" (`bot/mcp_server.py:257-258`), but `list_add` may raise on
  the unique index after its folds are committed. The change is then on no record: the group may
  hear nothing, or see a list older than it (`Slipped`). A tool the loop runs is the other way
  round: its error counts as a change, and silence becomes "Записал." though nothing was written.
* An error other than a timeout, or a model that keeps asking for tools, ends a turn with "Не понял,
  переформулируй" also after a recorded write (`bot/router.py:1370-1372`), which the comment at
  `bot/router.py:69-73` calls a live bug where a timeout led to it: the reason `NoSilentChange` is
  about silence and "repeat" only.
* A turn cut short after a nudge or a broadcast asks for the message again, though repeating it
  does the same again: `changed_something` leaves out the tools that speak for themselves.
* A call over MCP accepted before the turn's end may write after the group was told to repeat:
  the grant is looked up when the call comes in, and never again.
* A re-drive moves on after a timeout whatever was changed: `bot/ai/tool_loop.py:163` passes no
  `nothing_changed`, because history tells the next model what the loop did. It does not tell
  what a command-line model that went quiet did over MCP, which is why `bot/ai/client.py:128-133` asks.
* Two turns that meet the same refusal each move the shared index, past a model nobody asked.
* A double press on a position of the menu acts on two different orders (`bot/admin.py:131`).

*Roster*

* A join sets "unknown" on a row it found by name, which may have an answer
  (`bot/main.py:74-82` looks by id only); a merge takes the other row's status as it was
  read before. And `set_participant` offers the model "unknown" (`bot/tools/schema.py:69`) and writes
  it over any answer (`bot/tools/core.py:755-767`). These are the three exceptions `NoAnswerLost` names.
* Two messages of a new person handled at once may leave two rows of one id, since only the
  handle is unique: the reason for `~overlapped` in `OneRowAfterSpeaking`.
* A row that is known by name only never learns the speaker's id by `record_speaker`.

*Shopping list*

* "merging never loses what someone said" (`bot/tools/core.py:380-381`), but the fold carries
  neither the `amounts` column nor the check mark, and an empty `amounts` of the surviving row
  hides an amount carried over.
* Two adds of one item under two names may fold each other's rows away, and both are gone:
  the reason for `~mixed` in `OneRowOnceAdded` and `mixed` in `NothingIsLost`. Two adds under
  one name do the same to a list of an earlier version that holds the item on several rows of
  other names: the search has no ORDER BY (`bot/tools/core.py:342`), each may keep another row, and
  each drops the one the other keeps (`Untidy`).
* The search of an add has no order, so an item of several rows none of which bears the name asked
  for keeps an arbitrary one of them; alone that is harmless.
* "было X" names the amount as it was read before another add replaced it (`bot/tools/core.py:488`).

*Confirmations*

* The pending row is found by chat (`bot/tools/core.py:141`): a yes in a new session may remove an
  item of the one before, and a yes written before the question was asked may confirm it.
* The answer to a "no" is "cancelled" whether or not the row was resolved by it
  (`bot/router.py:1228-1229`), so that it may follow "done" for the same action.

## 7. Plan

Done: `SessionLifecycle`, `SessionContract`, `RollCall`, `Reminders`, `Confirmations`, `Roster`,
`ModelChain`, `Turn`, `ShoppingList`, each with proofs.
In order of what they would tell:

1. **GroupSync** — what is recorded as seen, the classifier's retry, precedence of dates between
   the title, the change of event and the tools, composed with `SessionLifecycle`'s `ApplyEvent`.
2. **Composition** of `Roster` and `RollCall`: whom a round still asks while two rows of one
   person are being merged; of `ShoppingList` and `Confirmations` over the item that is removed.
3. **quantity.py** as functions against a reference definition of adding amounts up.
4. **The topic guard** and the menu's choice of a chat.

Theorems to come: a contract for roll calls and one for confirmations, as `SessionContract` is
for sessions, with the refinements; in `OneRowAfterSpeaking`, overlapping updates of different
people; the safety of what 1 to 3 add.
