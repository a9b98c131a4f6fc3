-------------------------------- MODULE Turn --------------------------------
(***************************************************************************)
(* One message to an active session, from the prompt to the reply: the     *)
(* tool loop (bot/ai/tool_loop.py), the record of what the turn did        *)
(* (bot/turn_outcome.py), the tools a command-line model calls over MCP    *)
(* with the turn's grant (bot/mcp_server.py), and what the router then     *)
(* says (bot/router.py).  The models are outside: they answer, refuse,     *)
(* break, or never come back.                                              *)
(*                                                                         *)
(* A model asked over HTTP has its tools run by the loop, a batch at a     *)
(* time; a command-line model runs them itself while its request is open,  *)
(* several at once if it likes, and goes on after the bot has stopped      *)
(* waiting.  Both write to one record.  A rendered block is fresh until    *)
(* this turn changes something after it was rendered.                      *)
(*                                                                         *)
(* A grant is issued with the turn, revoked at its end, and may expire     *)
(* before: its lifetime and the deadline are settings of their own.        *)
(***************************************************************************)
EXTENDS ModelChain

CONSTANTS
  CliModels,       \* the models that run their own tools
  ToolUsers,       \* bound: the turns whose models use tools
  MaxIterations,   \* MAX_TOOL_ITERATIONS
  MaxBatch,        \* bound: calls in one reply
  MaxCliCalls,     \* bound: MCP calls begun in one turn
  CanRestart       \* may the bot be restarted?

ASSUME TurnAssumption ==
  /\ MaxIterations \in Nat \ {0} /\ MaxBatch \in Nat \ {0}
  /\ MaxCliCalls \in Nat
  /\ CanRestart \in BOOLEAN

VARIABLES
  pc,       \* where the turn stands
  asked,    \* the model asked, or the one whose chat it is
  iter,     \* batches of tools run
  todo,     \* calls of the batch still to run
  results,  \* what those that ran returned
  block,    \* _run_tool_loop's own: the rendered block it holds
  said,     \* ... and whether a tool wrote a sentence
  changed,  \* TurnRecord: did a recorded call change something?
  recorded, \* TurnRecord: the block it holds
  running,  \* is a command-line model of this turn at work?
  grant,    \* is the turn's grant in the store?
  mcp,      \* the calls begun over MCP, in the order they were accepted
  told,     \* what the group was told at the end
  wrote,    \* history: did a tool that does not speak for itself change anything?
  crossed   \* history: was a call accepted over MCP while another was in hand?

loop    == <<asked, iter, todo, results, block, said>>
record  == <<changed, recorded>>
cli     == <<running, grant, mcp>>
history == <<wrote, crossed>>
vars    == <<cvars, pc, loop, record, cli, told, history>>

-----------------------------------------------------------------------------
\* A tool looks (READ_ONLY_TOOLS), writes, or speaks for itself, writing too
\* where it must (nudge_unconfirmed_participants starts a roll call).
Kinds  == {"look", "write", "speak"}
Blocks == {"none", "fresh", "stale"}
Results == [tool : Kinds, block : Blocks, say : BOOLEAN]

\* A call over MCP: accepted (its grant is looked up, its body still to be read),
\* done and not yet recorded, over, or lost: it changed something and raised, so
\* it is never recorded.
Slots  == 1 .. MaxCliCalls
Stages == {"none", "accepted", "done", "over", "lost"}
Calls  == [tool : Kinds, block : Blocks, at : Stages]
NoCall == [tool |-> "look", block |-> "none", at |-> "none"]
NoCalls == [i \in Slots |-> NoCall]
Replies == {"nothing", "text", "block", "old block", "silence",
            "acknowledged", "repeat", "partly", "unavailable", "rephrase"}

AtMost(S) == {s \in Seq(S) : Len(s) <= MaxBatch}

TypeOK ==
  /\ ChainTypeOK
  /\ pc \in [Handlers -> {"idle", "reading", "adopting", "asking", "redriving",
                          "calling", "telling", "sending"}]
  /\ asked \in [Handlers -> Models \cup {None}]
  /\ iter \in [Handlers -> 0 .. MaxIterations]
  /\ todo \in [Handlers -> AtMost(Kinds)]
  /\ results \in [Handlers -> AtMost(Results)]
  /\ block \in [Handlers -> Blocks]
  /\ said \in [Handlers -> BOOLEAN]
  /\ changed \in [Handlers -> BOOLEAN]
  /\ recorded \in [Handlers -> Blocks]
  /\ running \in [Handlers -> BOOLEAN]
  /\ grant \in [Handlers -> BOOLEAN]
  /\ mcp \in [Handlers -> [Slots -> Calls]]
  /\ told \in [Handlers -> Replies]
  /\ wrote \in [Handlers -> BOOLEAN]
  /\ crossed \in [Handlers -> BOOLEAN]

Init ==
  /\ ChainInit
  /\ pc = [h \in Handlers |-> "idle"]
  /\ asked = [h \in Handlers |-> None]
  /\ iter = [h \in Handlers |-> 0]
  /\ todo = [h \in Handlers |-> <<>>]
  /\ results = [h \in Handlers |-> <<>>]
  /\ block = [h \in Handlers |-> "none"]
  /\ said = [h \in Handlers |-> FALSE]
  /\ changed = [h \in Handlers |-> FALSE]
  /\ recorded = [h \in Handlers |-> "none"]
  /\ running = [h \in Handlers |-> FALSE]
  /\ grant = [h \in Handlers |-> FALSE]
  /\ mcp = [h \in Handlers |-> NoCalls]
  /\ told = [h \in Handlers |-> "nothing"]
  /\ wrote = [h \in Handlers |-> FALSE]
  /\ crossed = [h \in Handlers |-> FALSE]

Goto(h, at) == pc' = [pc EXCEPT ![h] = at]

\* The calls of the turn that were accepted and are not over.
InHand(h) == {i \in Slots : mcp[h][i].at \in {"accepted", "done"}}

\* The record of a turn that is over is read by nobody: nothing is left of it
\* but the calls still in hand.
Forget(h) ==
  /\ changed' = [changed EXCEPT ![h] = FALSE]
  /\ recorded' = [recorded EXCEPT ![h] = "none"]
  /\ wrote' = [wrote EXCEPT ![h] = FALSE]
  /\ crossed' = [crossed EXCEPT ![h] = FALSE]
  /\ mcp' = [mcp EXCEPT ![h] =
               [i \in Slots |-> IF i \in InHand(h) THEN @[i] ELSE NoCall]]

-----------------------------------------------------------------------------
\* The reply.  A block held is sent in place of a text without it; a record
\* of a change forbids silence.

HonourVerbatim(text, held_) ==
  IF held_ = "none" THEN text ELSE IF held_ = "fresh" THEN "block" ELSE "old block"

BreakTheSilence_Not(h, text) == text
BreakTheSilence(h, text) ==
  IF text = "silence" /\ changed[h] THEN "acknowledged" ELSE text

\* GrantStore: issue, resolve, revoke.
Issue(h) == grant' = [grant EXCEPT ![h] = TRUE]
Granted(h) == grant[h]
Revoke_LeftToItsTtl(h) == UNCHANGED grant
Revoke(h) == grant' = [grant EXCEPT ![h] = FALSE]

\* handle_active_message after the loop: revoke the grant, choose the reply
\* and log it.
End(h, text) ==
  /\ Goto(h, "sending")
  /\ Revoke(h)
  /\ told' = [told EXCEPT ![h] =
                BreakTheSilence(h, HonourVerbatim(text, recorded[h]))]
  /\ asked' = [asked EXCEPT ![h] = None]
  /\ iter' = [iter EXCEPT ![h] = 0]
  /\ todo' = [todo EXCEPT ![h] = <<>>]
  /\ results' = [results EXCEPT ![h] = <<>>]
  /\ block' = [block EXCEPT ![h] = "none"]
  /\ said' = [said EXCEPT ![h] = FALSE]
  /\ Forget(h)
  /\ UNCHANGED running

Send(h) ==
  /\ pc[h] = "sending"
  /\ Goto(h, "idle")
  /\ told' = [told EXCEPT ![h] = "nothing"]
  /\ UNCHANGED <<cvars, loop, record, cli, history>>

TooSlow(h) == IF changed[h] THEN "partly" ELSE "repeat"

-----------------------------------------------------------------------------
\* The chain, and the request.

\* A message for the model: a new record, a new grant.  A coroutine that still
\* has calls of its last turn to finish is those calls' alone.
Address(h) ==
  /\ pc[h] = "idle" /\ InHand(h) = {}
  /\ Goto(h, "reading")
  /\ Issue(h)
  /\ Forget(h)
  /\ running' = [running EXCEPT ![h] = FALSE]
  /\ UNCHANGED <<cvars, loop, told>>

ReadSetting(h) ==
  /\ pc[h] = "reading"
  /\ ReadChain(h)
  /\ Goto(h, "adopting")
  /\ UNCHANGED <<loop, record, cli, told, history>>

Adopt(h) ==
  /\ pc[h] = "adopting"
  /\ FallbackFor(h)
  /\ Goto(h, "asking")
  /\ UNCHANGED <<loop, record, cli, told, history>>

\* start: the next model of the chain, or AllModelsUnavailable.
Request(h) ==
  /\ pc[h] \in {"asking", "redriving"} /\ asked[h] = None
  /\ At(held[h]) # None
  /\ asked' = [asked EXCEPT ![h] = At(held[h])]
  /\ running' = [running EXCEPT ![h] = @ \/ (At(held[h]) \in CliModels /\ h \in ToolUsers)]
  /\ UNCHANGED <<cvars, pc, iter, todo, results, block, said>>
  /\ UNCHANGED <<record, grant, mcp, told, history>>

OutOfModels(h) ==
  /\ pc[h] \in {"asking", "redriving"} /\ asked[h] = None
  /\ At(held[h]) = None
  /\ End(h, "unavailable")
  /\ LetGo(h)

Waiting(h) ==
  \/ pc[h] \in {"asking", "redriving"} /\ asked[h] # None
  \/ pc[h] = "telling"

\* 429 or 5xx: past this entry, and on.
Refused_StillAsked(h) ==
  /\ Waiting(h)
  /\ Advance(h)
  /\ UNCHANGED asked
  /\ Goto(h, IF pc[h] = "telling" THEN "redriving" ELSE pc[h])
  /\ UNCHANGED <<iter, todo, results, block, said, record, cli, told, history>>
Refused(h) ==
  /\ Waiting(h)
  /\ Advance(h)
  /\ asked' = [asked EXCEPT ![h] = None]
  /\ Goto(h, IF pc[h] = "telling" THEN "redriving" ELSE pc[h])
  /\ UNCHANGED <<iter, todo, results, block, said, record, cli, told, history>>

\* The request timed out.  The opening one moves on only if nothing is
\* recorded; one that carries history always does.
MayMoveOn(h) == pc[h] # "asking" \/ ~changed[h]

TimedOut(h) ==
  /\ Waiting(h)
  /\ IF MayMoveOn(h)
     THEN /\ Advance(h)
          /\ asked' = [asked EXCEPT ![h] = None]
          /\ Goto(h, IF pc[h] = "telling" THEN "redriving" ELSE pc[h])
          /\ UNCHANGED <<iter, todo, results, block, said, record, cli, told, history>>
     ELSE LetGo(h) /\ End(h, TooSlow(h))

\* Any other error ends the turn.
Broke(h) ==
  /\ Waiting(h)
  /\ LetGo(h)
  /\ End(h, "rephrase")

-----------------------------------------------------------------------------
\* The loop.

AnswersText(h) ==
  /\ Waiting(h)
  /\ LetGo(h)
  /\ \E text \in {"text", "silence"} : End(h, HonourVerbatim(text, block[h]))

Batches == UNION {[1 .. n -> Kinds] : n \in 1 .. MaxBatch}

\* The loop's bound on batches of tools.
Spent_Late(h) == iter[h] > MaxIterations
Spent(h) == iter[h] >= MaxIterations

\* The model asks for tools again with the arguments it used before.
Repeats(h) ==
  /\ Waiting(h) /\ asked[h] \notin CliModels
  /\ iter[h] > 0 /\ ~Spent(h)
  /\ said[h] \/ block[h] # "none"
  /\ LetGo(h)
  /\ End(h, IF said[h] THEN "text" ELSE HonourVerbatim("text", block[h]))

AsksForTools(h) ==
  /\ Waiting(h) /\ asked[h] \notin CliModels /\ h \in ToolUsers
  /\ ~Spent(h)
  /\ \E batch \in Batches : todo' = [todo EXCEPT ![h] = batch]
  /\ iter' = [iter EXCEPT ![h] = @ + 1]
  /\ Goto(h, "calling")
  /\ UNCHANGED <<cvars, asked, results, block, said, record, cli, told, history>>

\* Out of iterations with the model still asking.
Exhausted(h) ==
  /\ Waiting(h) /\ asked[h] \notin CliModels /\ Spent(h)
  /\ LetGo(h)
  /\ End(h, HonourVerbatim("rephrase", block[h]))

\* A change makes every block rendered before it in this turn old: those held,
\* those of a batch's results, and those of calls over MCP not yet recorded.
Aged(b) == IF b = "fresh" THEN "stale" ELSE b
Held(h, changes) ==
  IF changes THEN /\ block' = [block EXCEPT ![h] = Aged(@)]
                  /\ recorded' = [recorded EXCEPT ![h] = Aged(@)]
  ELSE UNCHANGED <<block, recorded>>
AgedAll(changes, rs) ==
  IF changes THEN [i \in DOMAIN rs |-> [rs[i] EXCEPT !.block = Aged(@)]] ELSE rs

\* What a tool of each kind may do: only those that look change nothing for
\* certain.  One that changes something may yet raise, and one that does not
\* raise may have had nothing to change.
MayChange(tool) == IF tool = "look" THEN {FALSE} ELSE BOOLEAN
Writes(h, tool, changes) ==
  wrote' = [wrote EXCEPT ![h] = @ \/ (changes /\ tool # "speak")]

\* ... and may return; an error is a result without a block.
Returns(tool) ==
  [tool : {tool},
   block : IF tool = "speak" THEN {"none"} ELSE {"none", "fresh"},
   say : IF tool = "write" THEN BOOLEAN ELSE {FALSE}]

CallTool(h) ==
  /\ pc[h] = "calling" /\ todo[h] # <<>>
  /\ LET tool == Head(todo[h]) IN
     \E changes \in MayChange(tool), result \in Returns(tool) :
       /\ Writes(h, tool, changes)
       /\ Held(h, changes)
       /\ mcp' = [mcp EXCEPT ![h] = AgedAll(changes, @)]
       /\ results' = [results EXCEPT ![h] = Append(AgedAll(changes, @), result)]
  /\ todo' = [todo EXCEPT ![h] = Tail(@)]
  /\ UNCHANGED <<cvars, pc, asked, iter, said, changed, running, grant, told, crossed>>

\* TurnRecord.record, and the loop's own copy of the same rule: the newest
\* block wins, a change that rendered nothing takes the block away.
NextBlock_Kept(b, result) == IF result.block # "none" THEN result.block ELSE b
NextBlock(b, result) ==
  IF result.block # "none" THEN result.block
  ELSE IF result.tool # "look" THEN "none" ELSE b

\* The rule applied to a batch in order: what is left is what the last result
\* says that does not merely leave what was there.
Decides(result) == \A b, c \in Blocks : NextBlock(b, result) = NextBlock(c, result)
AfterBatch(b, batch) ==
  LET deciding == {i \in DOMAIN batch : Decides(batch[i])}
      last == CHOOSE i \in deciding : \A j \in deciding : j <= i
  IN IF deciding = {} THEN b ELSE NextBlock(b, batch[last])

\* changed_something goes by the tool, whatever it returned.
Changes(tool) == tool = "write"

RecordAndSend(h) ==
  /\ pc[h] = "calling" /\ todo[h] = <<>>
  /\ block' = [block EXCEPT ![h] = AfterBatch(@, results[h])]
  /\ recorded' = [recorded EXCEPT ![h] = AfterBatch(@, results[h])]
  /\ said' = [said EXCEPT ![h] = @ \/ \E i \in DOMAIN results[h] : results[h][i].say]
  /\ changed' = [changed EXCEPT ![h] =
                   @ \/ \E i \in DOMAIN results[h] : Changes(results[h][i].tool)]
  /\ results' = [results EXCEPT ![h] = <<>>]
  /\ Goto(h, "telling")
  /\ UNCHANGED <<cvars, asked, iter, todo, cli, told, history>>

\* The deadline cancels the loop wherever it waits: for a model or for a tool.
Covered_Opening(h) == pc[h] = "calling" \/ (Waiting(h) /\ pc[h] # "redriving")
Covered(h) == pc[h] = "calling" \/ Waiting(h)
DeadlinePasses(h) ==
  /\ Covered(h)
  /\ End(h, TooSlow(h))
  /\ LetGo(h)

-----------------------------------------------------------------------------
\* The MCP endpoint.

\* Requests are served as they come: nothing makes a call wait for the one
\* before it.
AcceptCall(h) ==
  /\ running[h] /\ Granted(h)
  /\ \E i \in Slots :
       /\ mcp[h][i].at = "none" /\ \A j \in Slots : j < i => mcp[h][j].at # "none"
       /\ mcp' = [mcp EXCEPT ![h][i] = [NoCall EXCEPT !.at = "accepted"]]
  /\ crossed' = [crossed EXCEPT ![h] = @ \/ InHand(h) # {}]
  /\ UNCHANGED <<cvars, pc, loop, record, running, grant, told, wrote>>

\* The tool the call names returns, or raises, which it may do after its
\* statements were committed.
RunCall(h) ==
  \E i \in Slots, tool \in Kinds :
    /\ mcp[h][i].at = "accepted"
    /\ \E changes \in MayChange(tool), result \in Returns(tool), raises \in BOOLEAN :
         /\ Writes(h, tool, changes)
         /\ Held(h, changes)
         /\ results' = [results EXCEPT ![h] = AgedAll(changes, @)]
         /\ mcp' = [mcp EXCEPT ![h] = [AgedAll(changes, @) EXCEPT ![i] =
              IF raises THEN [NoCall EXCEPT !.at = IF changes THEN "lost" ELSE "over"]
              ELSE [tool |-> tool, block |-> result.block, at |-> "done"]]]
    /\ UNCHANGED <<cvars, pc, asked, iter, todo, said, changed, running, grant, told,
                   crossed>>

\* What returned is recorded, by the rule of the loop.
RecordCall(h) ==
  \E i \in Slots :
    /\ mcp[h][i].at = "done"
    /\ recorded' = [recorded EXCEPT ![h] = NextBlock(@, mcp[h][i])]
    /\ changed' = [changed EXCEPT ![h] = @ \/ Changes(mcp[h][i].tool)]
    /\ mcp' = [mcp EXCEPT ![h][i] = [NoCall EXCEPT !.at = "over"]]
    /\ UNCHANGED <<cvars, pc, loop, running, grant, told, history>>

\* The grant's time is up, which resolve finds out.  Bound: only where it may
\* yet turn a call away.
Expire(h) ==
  /\ grant[h] /\ running[h] /\ \E i \in Slots : mcp[h][i].at = "none"
  /\ grant' = [grant EXCEPT ![h] = FALSE]
  /\ UNCHANGED <<cvars, pc, loop, record, running, mcp, told, history>>

\* The pod is replaced: turns, grants and chains are gone.
Restart ==
  /\ CanRestart
  /\ Restarted
  /\ pc' = [h \in Handlers |-> "idle"]
  /\ asked' = [h \in Handlers |-> None]
  /\ iter' = [h \in Handlers |-> 0]
  /\ todo' = [h \in Handlers |-> <<>>]
  /\ results' = [h \in Handlers |-> <<>>]
  /\ block' = [h \in Handlers |-> "none"]
  /\ said' = [h \in Handlers |-> FALSE]
  /\ changed' = [h \in Handlers |-> FALSE]
  /\ recorded' = [h \in Handlers |-> "none"]
  /\ running' = [h \in Handlers |-> FALSE]
  /\ grant' = [h \in Handlers |-> FALSE]
  /\ mcp' = [h \in Handlers |-> NoCalls]
  /\ told' = [h \in Handlers |-> "nothing"]
  /\ wrote' = [h \in Handlers |-> FALSE]
  /\ crossed' = [h \in Handlers |-> FALSE]

-----------------------------------------------------------------------------
\* What the bot itself does next in a turn; the rest is up to the models.
Continues(h) ==
  \/ ReadSetting(h) \/ Adopt(h) \/ Request(h) \/ OutOfModels(h)
  \/ CallTool(h) \/ RecordAndSend(h) \/ DeadlinePasses(h)
  \/ Send(h)

Answers(h) ==
  \/ Refused(h) \/ TimedOut(h) \/ Broke(h)
  \/ AnswersText(h) \/ AsksForTools(h) \/ Repeats(h) \/ Exhausted(h)

Mcp(h) == AcceptCall(h) \/ RunCall(h) \/ RecordCall(h) \/ Expire(h)

\* The menu's presses are ModelChain's: a turn meets them only through the
\* order it reads and the object it finds.
Next ==
  \/ \E h \in Handlers : Address(h) \/ Continues(h) \/ Answers(h) \/ Mcp(h)
  \/ Restart

Spec == Init /\ [][Next]_vars

\* The event loop runs what is ready, and the deadline comes.  No model need
\* ever answer, and no MCP call need ever finish.
FairSpec == Spec /\ \A h \in Handlers : WF_vars(Continues(h))

-----------------------------------------------------------------------------
\* Properties.

\* Does a call of this turn stand between what it did and the record of it?
Unrecorded(h) == results[h] # <<>> \/ \E i \in Slots : mcp[h][i].at = "done"

\* Did a tool over MCP change something and then raise?
Slipped(h) == \E i \in Slots : mcp[h][i].at = "lost"

\* Did both a loop's batch and a command-line model act in this turn?
Mixed(h) == running[h] /\ iter[h] > 0

Ends(h) == pc[h] # "sending" /\ pc'[h] = "sending"

\* A list rendered before a change of the same turn is not sent after it
\* (TurnRecord.record drops it), but in the four cases where the code does not
\* see to it: the turn was cut short between a call and its record; a tool
\* over MCP raised after it had changed something, which is not recorded; the
\* chain handed the turn from the loop to a command-line model, and the loop
\* keeps a copy of the block the record has dropped; or two calls over MCP
\* overlapped, and what was rendered first was recorded last.
NoOldBlock ==
  [][\A h \in Handlers : Ends(h) /\ told'[h] = "old block"
        => Unrecorded(h) \/ Slipped(h) \/ Mixed(h) \/ crossed[h]]_vars

\* A turn that changed something by a tool that does not speak for itself, and
\* recorded its calls, ends neither in silence nor in "repeat, please"
\* (_break_the_silence, _TOOK_TOO_LONG), whichever of the loop and the MCP
\* endpoint ran the calls, overlapping or not.  "Rephrase, please" is another
\* matter: an error other than a timeout, and a model that will not stop
\* asking for tools, end any turn with it.
NoSilentChange ==
  [][\A h \in Handlers :
        Ends(h) /\ told'[h] \in {"silence", "repeat"}
          => ~wrote[h] \/ Unrecorded(h) \/ Slipped(h)]_vars

\* Every turn comes to an end, though a model may accept a request and never
\* answer it: the deadline covers every await of the loop.
EveryTurnEnds == \A h \in Handlers : pc[h] # "idle" ~> pc[h] = "idle"

\* Whichever way a turn ends, from then on a command-line model still at work
\* gets no further call in: what it may change is what was accepted before.
GrantEndsWithTurn ==
  [][\A h \in Handlers : pc[h] \in {"idle", "sending"}
        => \A i \in Slots : mcp[h][i].at = "none" => mcp'[h][i].at = "none"]_vars

\* To the chat's shared object a turn is what ModelChain takes it for: it reads
\* the order, takes one object, moves it past an entry at most once for each
\* request it sent, and lets it go whichever way it ends (client.py's start and
\* the loop's deadline).  So what ModelChain promises of the order holds of
\* turns that run tools, fall silent, are cut short or die with the pod.
KeepsToTheChain == ChainSpec

\* What a model of another chain refused is not held against this one, and an
\* outage ends: as long as people write and models answer, someone is told
\* something else than "come back later".
SomeModelFails == \E h \in Handlers : Refused(h) \/ TimedOut(h)
WaitingHelps ==
  (<>[][~SomeModelFails]_vars /\ \A h \in Handlers : []<>(pc[h] = "reading"))
    => []<>(\E h \in Handlers : asked[h] # None)
=============================================================================
