------------------------------ MODULE TurnProofs ------------------------------
(***************************************************************************)
(* Theorems about Turn, for any number of turns, batches, calls and        *)
(* models: a turn never hides what it changed, sends no list from before a *)
(* change, a grant dies with its turn, and to the chat's models a turn is  *)
(* what ModelChain takes it for.                                           *)
(*                                                                         *)
(* Both ways of running a tool change the database before they record the  *)
(* change.  Kept says where the evidence is in between: in the batch's     *)
(* results, or in an MCP call that is done and not recorded, or lost.      *)
(* Leased says when a grant is in the store, ByLoop and ByCli where an old *)
(* list may be, and Walked how far a shared object may be moved past its   *)
(* last model.                                                             *)
(***************************************************************************)
EXTENDS Turn, ModelChainProofs, TLAPS

Places == {"idle", "reading", "adopting", "asking", "redriving",
           "calling", "telling", "sending"}
Active == Places \ {"idle", "sending"}

HasWrite(rs) == \E i \in DOMAIN rs : rs[i].tool = "write"
Shows(cs) == \E i \in Slots : \/ cs[i].at = "done" /\ cs[i].tool = "write"
                              \/ cs[i].at = "lost"
Evidence(h) == HasWrite(results[h]) \/ Shows(mcp[h])

Shape ==
  /\ pc \in [Handlers -> Places]
  /\ todo \in [Handlers -> Seq(Kinds)]
  /\ results \in [Handlers -> Seq(Results)]
  /\ mcp \in [Handlers -> [Slots -> Calls]]
  /\ changed \in [Handlers -> BOOLEAN]
  /\ grant \in [Handlers -> BOOLEAN]
  /\ wrote \in [Handlers -> BOOLEAN]
  /\ crossed \in [Handlers -> BOOLEAN]
  /\ told \in [Handlers -> Replies]

Kept == \A h \in Handlers :
          pc[h] \in Active /\ wrote[h] /\ ~changed[h] => Evidence(h)

Leased == \A h \in Handlers : grant[h] => pc[h] \in Active

IInv == Shape /\ Kept /\ Leased

-----------------------------------------------------------------------------
\* What the helpers give.

LEMMA NoCallType == NoCall \in Calls /\ NoCall.at = "none" /\ NoCalls \in [Slots -> Calls]
BY DEF NoCall, NoCalls, Calls, Kinds, Blocks, Stages

LEMMA BatchType ==
  ASSUME NEW batch \in Batches
  PROVE  batch \in Seq(Kinds) /\ Len(batch) <= MaxBatch
<1>1. PICK n \in 1 .. MaxBatch : batch \in [1 .. n -> Kinds]
  BY DEF Batches
<1>2. n \in Nat /\ n <= MaxBatch
  BY TurnAssumption
<1> QED
  BY <1>1, <1>2

LEMMA AgedType ==
  ASSUME NEW b \in Blocks
  PROVE  Aged(b) \in Blocks
BY DEF Aged, Blocks

\* What a tool returns is of its kind, and never a block that is old already.
LEMMA ReturnsType ==
  ASSUME NEW tool \in Kinds, NEW r \in Returns(tool)
  PROVE  r \in Results /\ r.tool = tool /\ r.block # "stale"
<1>1. (IF tool = "write" THEN BOOLEAN ELSE {FALSE}) \subseteq BOOLEAN
  OBVIOUS
<1>2. (IF tool = "speak" THEN {"none"} ELSE {"none", "fresh"}) \subseteq {"none", "fresh"}
  OBVIOUS
<1>3. /\ r \in [tool : {tool}, block : {"none", "fresh"}, say : BOOLEAN]
  BY <1>1, <1>2 DEF Returns
<1> QED
  BY <1>3 DEF Results, Blocks

\* Only tools that do not merely look change anything.
LEMMA MayChangeType ==
  ASSUME NEW tool, NEW changes \in MayChange(tool)
  PROVE  changes \in BOOLEAN /\ (changes => tool # "look")
BY DEF MayChange

\* A change makes blocks old and leaves the rest of the results alone.
LEMMA AgedAllType ==
  ASSUME NEW changes, NEW rs \in Seq(Results)
  PROVE  /\ AgedAll(changes, rs) \in Seq(Results)
         /\ HasWrite(AgedAll(changes, rs)) <=> HasWrite(rs)
<1>1. CASE ~changes
  BY <1>1 DEF AgedAll
<1>2. CASE changes
  <2> DEFINE new == [i \in DOMAIN rs |-> [rs[i] EXCEPT !.block = Aged(@)]]
  <2>1. AgedAll(changes, rs) = new
    BY <1>2 DEF AgedAll
  <2>2. \A i \in DOMAIN rs : rs[i] \in Results
    OBVIOUS
  <2>3. \A i \in DOMAIN rs : new[i] \in Results /\ new[i].tool = rs[i].tool
    BY <2>2, AgedType DEF Results
  <2>4. DOMAIN new = DOMAIN rs /\ DOMAIN rs = 1 .. Len(rs) /\ Len(rs) \in Nat
    OBVIOUS
  <2>5. new \in Seq(Results)
    BY <2>3, <2>4
  <2> QED
    BY <2>1, <2>3, <2>4, <2>5 DEF HasWrite
<1> QED
  BY <1>1, <1>2

\* ... and so with the calls over MCP.
LEMMA AgedCalls ==
  ASSUME NEW changes, NEW cs \in [Slots -> Calls]
  PROVE  /\ AgedAll(changes, cs) \in [Slots -> Calls]
         /\ \A i \in Slots : /\ AgedAll(changes, cs)[i].at = cs[i].at
                             /\ AgedAll(changes, cs)[i].tool = cs[i].tool
<1>1. CASE ~changes
  BY <1>1 DEF AgedAll
<1>2. CASE changes
  <2> DEFINE new == [i \in DOMAIN cs |-> [cs[i] EXCEPT !.block = Aged(@)]]
  <2>1. AgedAll(changes, cs) = new
    BY <1>2 DEF AgedAll
  <2>2. \A i \in Slots : /\ [cs[i] EXCEPT !.block = Aged(@)] \in Calls
                         /\ [cs[i] EXCEPT !.block = Aged(@)].at = cs[i].at
                         /\ [cs[i] EXCEPT !.block = Aged(@)].tool = cs[i].tool
    BY AgedType DEF Calls
  <2>3. DOMAIN cs = Slots
    OBVIOUS
  <2> QED
    BY <2>1, <2>2, <2>3
<1> QED
  BY <1>1, <1>2

LEMMA AppendWrite ==
  ASSUME NEW rs \in Seq(Results), NEW r \in Results
  PROVE  /\ Append(rs, r) \in Seq(Results)
         /\ HasWrite(rs) \/ r.tool = "write" => HasWrite(Append(rs, r))
<1>1. /\ Append(rs, r) \in Seq(Results)
      /\ DOMAIN rs = 1 .. Len(rs) /\ Len(rs) \in Nat
      /\ DOMAIN Append(rs, r) = 1 .. (Len(rs) + 1)
  OBVIOUS
<1>2. Append(rs, r)[Len(rs) + 1] = r /\ \A i \in DOMAIN rs : Append(rs, r)[i] = rs[i]
  OBVIOUS
<1> QED
  BY <1>1, <1>2 DEF HasWrite

\* The reply: whatever the model said, and whichever block is held.
LEMMA ReplyType ==
  ASSUME NEW h, NEW text \in Replies, NEW b
  PROVE  /\ HonourVerbatim(text, b) \in Replies
         /\ BreakTheSilence(h, text) \in Replies
BY DEF HonourVerbatim, BreakTheSilence, Replies

LEMMA Spoken ==
  ASSUME NEW h, changed[h], NEW text \in Replies, text # "repeat", NEW b
  PROVE  BreakTheSilence(h, HonourVerbatim(text, b)) \notin {"silence", "repeat"}
BY DEF HonourVerbatim, BreakTheSilence, Replies

\* A tool of the loop runs: what the step comes to.
LEMMA ToolRuns ==
  ASSUME Shape, NEW h \in Handlers, CallTool(h)
  PROVE  \E tool \in Kinds, changes \in BOOLEAN, r \in Results :
           /\ tool = Head(todo[h]) /\ r.tool = tool /\ r.block # "stale"
           /\ changes => tool # "look"
           /\ Writes(h, tool, changes) /\ Held(h, changes)
           /\ mcp' = [mcp EXCEPT ![h] = AgedAll(changes, mcp[h])]
           /\ results' = [results EXCEPT ![h] = Append(AgedAll(changes, results[h]), r)]
<1> DEFINE tool == Head(todo[h])
<1>1. PICK changes \in MayChange(tool), r \in Returns(tool) :
        /\ Writes(h, tool, changes) /\ Held(h, changes)
        /\ mcp' = [mcp EXCEPT ![h] = AgedAll(changes, mcp[h])]
        /\ results' = [results EXCEPT ![h] = Append(AgedAll(changes, results[h]), r)]
  BY DEF CallTool
<1>2. tool \in Kinds
  BY DEF CallTool, Shape
<1>3. r \in Results /\ r.tool = tool /\ r.block # "stale"
  <2> HIDE DEF tool
  <2> QED
    BY <1>2, ReturnsType
<1>4. changes \in BOOLEAN /\ (changes => tool # "look")
  BY MayChangeType
<1> QED
  BY <1>1, <1>2, <1>3, <1>4

\* A tool over MCP runs: it is done, or it raised.
LEMMA CallRuns ==
  ASSUME Shape, NEW h \in Handlers, RunCall(h)
  PROVE  \E i \in Slots, tool \in Kinds, changes \in BOOLEAN, c \in Calls :
           /\ mcp[h][i].at = "accepted" /\ c.block # "stale"
           /\ changes => tool # "look"
           /\ Writes(h, tool, changes) /\ Held(h, changes)
           /\ results' = [results EXCEPT ![h] = AgedAll(changes, results[h])]
           /\ mcp' = [mcp EXCEPT ![h] = [AgedAll(changes, mcp[h]) EXCEPT ![i] = c]]
           /\ \/ c.at = "done" /\ c.tool = tool
              \/ c.at = "lost"
              \/ c.at = "over" /\ ~changes
<1>1. PICK i \in Slots, tool \in Kinds :
        /\ mcp[h][i].at = "accepted"
        /\ \E changes \in MayChange(tool), r \in Returns(tool), raises \in BOOLEAN :
             /\ Writes(h, tool, changes)
             /\ Held(h, changes)
             /\ results' = [results EXCEPT ![h] = AgedAll(changes, @)]
             /\ mcp' = [mcp EXCEPT ![h] = [AgedAll(changes, @) EXCEPT ![i] =
                  IF raises THEN [NoCall EXCEPT !.at = IF changes THEN "lost" ELSE "over"]
                  ELSE [tool |-> tool, block |-> r.block, at |-> "done"]]]
  BY DEF RunCall
<1>2. PICK changes \in MayChange(tool), r \in Returns(tool), raises \in BOOLEAN :
        /\ Writes(h, tool, changes)
        /\ Held(h, changes)
        /\ results' = [results EXCEPT ![h] = AgedAll(changes, @)]
        /\ mcp' = [mcp EXCEPT ![h] = [AgedAll(changes, @) EXCEPT ![i] =
             IF raises THEN [NoCall EXCEPT !.at = IF changes THEN "lost" ELSE "over"]
             ELSE [tool |-> tool, block |-> r.block, at |-> "done"]]]
  BY <1>1
<1> DEFINE c == IF raises THEN [NoCall EXCEPT !.at = IF changes THEN "lost" ELSE "over"]
                ELSE [tool |-> tool, block |-> r.block, at |-> "done"]
<1>3. changes \in BOOLEAN /\ (changes => tool # "look")
  BY MayChangeType
<1>4. r.block \in Blocks /\ r.block # "stale"
  BY ReturnsType DEF Results
<1>7. /\ mcp' = [mcp EXCEPT ![h] = [AgedAll(changes, mcp[h]) EXCEPT ![i] = c]]
      /\ results' = [results EXCEPT ![h] = AgedAll(changes, results[h])]
      /\ Writes(h, tool, changes) /\ Held(h, changes) /\ mcp[h][i].at = "accepted"
  BY <1>1, <1>2
<1>5. CASE raises
  <2>1. c = [tool |-> "look", block |-> "none", at |-> IF changes THEN "lost" ELSE "over"]
    BY <1>5 DEF NoCall
  <2>2. c \in Calls /\ c.block # "stale" /\ (c.at = "lost" \/ (c.at = "over" /\ ~changes))
    BY <1>3, <2>1 DEF Calls, Kinds, Blocks, Stages
  <2> HIDE DEF c
  <2> QED
    BY <1>3, <1>7, <2>2
<1>6. CASE ~raises
  <2>1. c = [tool |-> tool, block |-> r.block, at |-> "done"]
    BY <1>6
  <2>2. c \in Calls /\ c.block # "stale" /\ c.at = "done" /\ c.tool = tool
    BY <1>4, <2>1 DEF Calls, Stages
  <2> HIDE DEF c
  <2> QED
    BY <1>3, <1>7, <2>2
<1> QED
  BY <1>5, <1>6

\* A turn is forgotten, but for the calls in hand.
LEMMA ForgetIs ==
  ASSUME Shape, NEW h \in Handlers, Forget(h)
  PROVE  /\ mcp' \in [Handlers -> [Slots -> Calls]]
         /\ \A i \in Slots : mcp'[h][i] = IF i \in InHand(h) THEN mcp[h][i] ELSE NoCall
         /\ \A g \in Handlers \ {h} : mcp'[g] = mcp[g]
         /\ changed' = [changed EXCEPT ![h] = FALSE]
         /\ wrote' = [wrote EXCEPT ![h] = FALSE]
         /\ crossed' = [crossed EXCEPT ![h] = FALSE]
         /\ recorded' = [recorded EXCEPT ![h] = "none"]
<1> DEFINE kept == [i \in Slots |-> IF i \in InHand(h) THEN mcp[h][i] ELSE NoCall]
<1>1. mcp' = [mcp EXCEPT ![h] = kept]
  BY DEF Forget
<1>2. kept \in [Slots -> Calls]
  BY NoCallType DEF Shape
<1>3. \A i \in Slots : kept[i] = IF i \in InHand(h) THEN mcp[h][i] ELSE NoCall
  OBVIOUS
<1> HIDE DEF kept
<1> QED
  BY <1>1, <1>2, <1>3 DEF Forget, Shape

-----------------------------------------------------------------------------
\* Three ways a step may touch what the invariant reads: not at all, by
\* moving a turn on, and by ending it.

Moves(h) ==
  /\ pc[h] \in Active /\ \E at \in Active : Goto(h, at)
  /\ todo' \in [Handlers -> Seq(Kinds)]
  /\ UNCHANGED <<results, mcp, grant, changed, wrote, crossed, told>>

Closes(h) ==
  /\ pc[h] \in Active
  /\ \E text \in Replies : /\ End(h, text)
                           /\ text = "repeat" => ~changed[h]
                           /\ text = "old block" => block[h] \notin {"none", "fresh"}

LEMMA MovesKeeps ==
  ASSUME IInv, NEW h \in Handlers, Moves(h)
  PROVE  IInv'
BY DEF IInv, Shape, Kept, Leased, Moves, Goto, Evidence, HasWrite, Shows, Active

LEMMA ClosesKeeps ==
  ASSUME IInv, NEW h \in Handlers, Closes(h)
  PROVE  IInv'
<1>1. PICK text \in Replies : End(h, text)
  BY DEF Closes
<1>2. /\ pc' = [pc EXCEPT ![h] = "sending"]
      /\ todo' = [todo EXCEPT ![h] = <<>>]
      /\ results' = [results EXCEPT ![h] = <<>>]
      /\ grant' = [grant EXCEPT ![h] = FALSE]
      /\ Forget(h)
  BY <1>1 DEF End, Goto, Revoke
<1>3. told' \in [Handlers -> Replies]
  BY <1>1, ReplyType DEF End, IInv, Shape
<1>4. /\ mcp' \in [Handlers -> [Slots -> Calls]]
      /\ \A g \in Handlers \ {h} : mcp'[g] = mcp[g]
      /\ changed' = [changed EXCEPT ![h] = FALSE]
      /\ wrote' = [wrote EXCEPT ![h] = FALSE]
      /\ crossed' = [crossed EXCEPT ![h] = FALSE]
  BY <1>2, ForgetIs DEF IInv
<1>5. Shape'
  <2>1. <<>> \in Seq(Kinds) /\ <<>> \in Seq(Results)
    OBVIOUS
  <2> QED
    BY <1>2, <1>3, <1>4, <2>1 DEF IInv, Shape, Places
<1>6. Kept' /\ Leased'
  <2>1. "sending" \notin Active
    BY DEF Active
  <2>2. /\ pc'[h] = "sending" /\ ~grant'[h]
        /\ \A g \in Handlers \ {h} :
             /\ pc'[g] = pc[g] /\ grant'[g] = grant[g] /\ wrote'[g] = wrote[g]
             /\ changed'[g] = changed[g] /\ results'[g] = results[g] /\ mcp'[g] = mcp[g]
    BY <1>2, <1>4 DEF IInv, Shape
  <2> QED
    BY <2>1, <2>2 DEF IInv, Kept, Leased, Evidence
<1> QED
  BY <1>5, <1>6 DEF IInv

-----------------------------------------------------------------------------
\* What the bot and the models do, by what it touches.

LEMMA MovesOn ==
  ASSUME IInv, NEW h \in Handlers,
         \/ ReadSetting(h) \/ Adopt(h) \/ Request(h) \/ Refused(h)
         \/ (TimedOut(h) /\ MayMoveOn(h)) \/ AsksForTools(h)
  PROVE  Moves(h)
<1> USE DEF IInv, Shape
<1>1. CASE ReadSetting(h)
  BY <1>1 DEF ReadSetting, Moves, Goto, Active, Places, loop, record, cli, history
<1>2. CASE Adopt(h)
  BY <1>2 DEF Adopt, Moves, Goto, Active, Places, loop, record, cli, history
<1>3. CASE Request(h)
  <2>1. pc[h] \in Active /\ pc' = [pc EXCEPT ![h] = pc[h]]
    BY <1>3 DEF Request, Active, Places
  <2> QED
    BY <1>3, <2>1 DEF Request, Moves, Goto, record, history
<1>4. CASE Refused(h)
  BY <1>4 DEF Refused, Waiting, Moves, Goto, Active, Places, record, cli, history
<1>5. CASE TimedOut(h) /\ MayMoveOn(h)
  BY <1>5 DEF TimedOut, Waiting, Moves, Goto, Active, Places, record, cli, history
<1>6. CASE AsksForTools(h)
  <2>1. ASSUME NEW batch \in Batches PROVE batch \in Seq(Kinds)
    BY BatchType
  <2> QED
    BY <1>6, <2>1 DEF AsksForTools, Waiting, Moves, Goto, Active, Places, record, cli, history
<1> QED
  BY <1>1, <1>2, <1>3, <1>4, <1>5, <1>6

LEMMA ComesToAnEnd ==
  ASSUME IInv, NEW h \in Handlers,
         \/ OutOfModels(h) \/ DeadlinePasses(h) \/ Broke(h) \/ AnswersText(h)
         \/ (TimedOut(h) /\ ~MayMoveOn(h)) \/ Repeats(h) \/ Exhausted(h)
  PROVE  Closes(h)
<1> USE DEF IInv, Shape
<1>1. CASE OutOfModels(h)
  BY <1>1 DEF OutOfModels, Closes, Active, Places, Replies
<1>2. CASE DeadlinePasses(h)
  BY <1>2 DEF DeadlinePasses, Closes, Covered, Waiting, TooSlow, Active, Places, Replies
<1>3. CASE TimedOut(h) /\ ~MayMoveOn(h)
  BY <1>3 DEF TimedOut, Waiting, Closes, TooSlow, Active, Places, Replies
<1>4. CASE Broke(h)
  BY <1>4 DEF Broke, Waiting, Closes, Active, Places, Replies
<1> DEFINE honest(text) == /\ text \in Replies \ {"repeat"}
                           /\ text = "old block" => block[h] \notin {"none", "fresh"}
<1>5. \A text \in {"text", "silence", "rephrase"} : honest(HonourVerbatim(text, block[h]))
  BY DEF HonourVerbatim, Replies
<1>6. CASE AnswersText(h)
  <2>1. PICK text \in {"text", "silence"} : End(h, HonourVerbatim(text, block[h]))
    BY <1>6 DEF AnswersText
  <2> QED
    BY <1>5, <1>6, <2>1 DEF AnswersText, Waiting, Closes, Active, Places
<1>7. CASE Repeats(h)
  <2>1. honest(IF said[h] THEN "text" ELSE HonourVerbatim("text", block[h]))
    BY <1>5 DEF Replies
  <2> QED
    BY <1>7, <2>1 DEF Repeats, Waiting, Closes, Active, Places
<1>8. CASE Exhausted(h)
  BY <1>5, <1>8 DEF Exhausted, Waiting, Closes, Active, Places
<1> QED
  BY <1>1, <1>2, <1>3, <1>4, <1>6, <1>7, <1>8

LEMMA MoveOrClose ==
  ASSUME IInv, NEW h \in Handlers,
         \/ ReadSetting(h) \/ Adopt(h) \/ Request(h) \/ OutOfModels(h)
         \/ DeadlinePasses(h) \/ Answers(h)
  PROVE  Moves(h) \/ Closes(h)
BY MovesOn, ComesToAnEnd DEF Answers

\* A call's write is in wrote, and in the results or in the MCP call.
LEMMA RunsKeep ==
  ASSUME IInv, NEW h \in Handlers, CallTool(h) \/ RunCall(h)
  PROVE  IInv'
<1>0. /\ Shape /\ mcp[h] \in [Slots -> Calls] /\ results[h] \in Seq(Results)
  BY DEF IInv, Shape
<1>1. CASE CallTool(h)
  <2>1. PICK tool \in Kinds, changes \in BOOLEAN, r \in Results :
           /\ r.tool = tool /\ (changes => tool # "look")
           /\ Writes(h, tool, changes)
           /\ mcp' = [mcp EXCEPT ![h] = AgedAll(changes, mcp[h])]
           /\ results' = [results EXCEPT ![h] = Append(AgedAll(changes, results[h]), r)]
    BY <1>0, <1>1, ToolRuns
  <2>2. /\ todo' = [todo EXCEPT ![h] = Tail(@)] /\ todo[h] # <<>>
        /\ UNCHANGED <<pc, changed, grant, crossed, told>>
    BY <1>1 DEF CallTool
  <2>3. Tail(todo[h]) \in Seq(Kinds)
    BY <2>2 DEF IInv, Shape
  <2>4. /\ wrote' \in [Handlers -> BOOLEAN]
        /\ \A g \in Handlers : wrote'[g] => wrote[g] \/ (g = h /\ tool = "write")
    BY <2>1 DEF Writes, IInv, Shape, Kinds
  <2>5. /\ Append(AgedAll(changes, results[h]), r) \in Seq(Results)
        /\ HasWrite(results[h]) \/ tool = "write"
             => HasWrite(Append(AgedAll(changes, results[h]), r))
    BY <1>0, <2>1, AgedAllType, AppendWrite
  <2>6. /\ AgedAll(changes, mcp[h]) \in [Slots -> Calls]
        /\ Shows(mcp[h]) => Shows(AgedAll(changes, mcp[h]))
    BY <1>0, AgedCalls DEF Shows
  <2>7. Shape'
    BY <2>1, <2>2, <2>3, <2>4, <2>5, <2>6 DEF IInv, Shape
  <2>8. /\ results'[h] = Append(AgedAll(changes, results[h]), r)
        /\ mcp'[h] = AgedAll(changes, mcp[h])
        /\ \A g \in Handlers \ {h} : mcp'[g] = mcp[g] /\ results'[g] = results[g]
    BY <2>1 DEF IInv, Shape
  <2>9. Kept' /\ Leased'
    BY <2>2, <2>4, <2>5, <2>6, <2>8 DEF IInv, Kept, Leased, Evidence
  <2> QED
    BY <2>7, <2>9 DEF IInv
<1>2. CASE RunCall(h)
  <2>1. PICK i \in Slots, tool \in Kinds, changes \in BOOLEAN, c \in Calls :
           /\ mcp[h][i].at = "accepted"
           /\ changes => tool # "look"
           /\ Writes(h, tool, changes)
           /\ results' = [results EXCEPT ![h] = AgedAll(changes, results[h])]
           /\ mcp' = [mcp EXCEPT ![h] = [AgedAll(changes, mcp[h]) EXCEPT ![i] = c]]
           /\ \/ c.at = "done" /\ c.tool = tool
              \/ c.at = "lost"
              \/ c.at = "over" /\ ~changes
    BY <1>0, <1>2, CallRuns
  <2>2. UNCHANGED <<pc, todo, changed, grant, crossed, told>>
    BY <1>2 DEF RunCall
  <2>3. /\ wrote' \in [Handlers -> BOOLEAN]
        /\ \A g \in Handlers :
             wrote'[g] => wrote[g] \/ (g = h /\ changes /\ tool = "write")
    BY <2>1 DEF Writes, IInv, Shape, Kinds
  <2>4. /\ AgedAll(changes, results[h]) \in Seq(Results)
        /\ HasWrite(AgedAll(changes, results[h])) <=> HasWrite(results[h])
    BY <1>0, AgedAllType
  <2> DEFINE cs == AgedAll(changes, mcp[h])
  <2>5. /\ cs \in [Slots -> Calls]
        /\ \A j \in Slots : cs[j].at = mcp[h][j].at /\ cs[j].tool = mcp[h][j].tool
    BY <1>0, AgedCalls
  <2>6. /\ mcp' = [mcp EXCEPT ![h] = [cs EXCEPT ![i] = c]]
        /\ results'[h] = AgedAll(changes, results[h])
        /\ \A g \in Handlers \ {h} : results'[g] = results[g]
    BY <2>1 DEF IInv, Shape
  <2> HIDE DEF cs
  <2>7. /\ mcp' \in [Handlers -> [Slots -> Calls]]
        /\ mcp'[h][i] = c /\ \A j \in Slots \ {i} : mcp'[h][j] = cs[j]
        /\ \A g \in Handlers \ {h} : mcp'[g] = mcp[g]
    BY <2>5, <2>6 DEF IInv, Shape
  <2>8. Shape'
    BY <2>1, <2>2, <2>3, <2>4, <2>7 DEF IInv, Shape
  <2>9. /\ Shows(mcp[h]) => Shows(mcp'[h])
        /\ changes /\ tool = "write" => Shows(mcp'[h])
    BY <2>1, <2>5, <2>7 DEF Shows
  <2>10. Kept' /\ Leased'
    BY <2>2, <2>3, <2>4, <2>6, <2>7, <2>9 DEF IInv, Kept, Leased, Evidence
  <2> QED
    BY <2>8, <2>10 DEF IInv
<1> QED
  BY <1>1, <1>2

\* The record takes over from the evidence.
LEMMA RecordsKeep ==
  ASSUME IInv, NEW h \in Handlers, RecordAndSend(h) \/ RecordCall(h)
  PROVE  IInv'
<1>1. CASE RecordAndSend(h)
  <2>1. /\ changed' = [changed EXCEPT ![h] =
              @ \/ \E i \in DOMAIN results[h] : Changes(results[h][i].tool)]
        /\ results' = [results EXCEPT ![h] = <<>>]
        /\ pc' = [pc EXCEPT ![h] = "telling"]
        /\ pc[h] = "calling"
        /\ UNCHANGED <<todo, mcp, grant, wrote, crossed, told>>
    BY <1>1 DEF RecordAndSend, Goto, cli, history
  <2>2. HasWrite(results[h]) => changed'[h]
    BY <2>1 DEF HasWrite, Changes, IInv, Shape
  <2>3. <<>> \in Seq(Results)
    OBVIOUS
  <2>4. Shape'
    BY <2>1, <2>3 DEF IInv, Shape, Places
  <2>5. Kept' /\ Leased'
    BY <2>1, <2>2 DEF IInv, Shape, Kept, Leased, Evidence, Active, Places
  <2> QED
    BY <2>4, <2>5 DEF IInv
<1>2. CASE RecordCall(h)
  <2>1. PICK i \in Slots :
          /\ mcp[h][i].at = "done"
          /\ changed' = [changed EXCEPT ![h] = @ \/ Changes(mcp[h][i].tool)]
          /\ mcp' = [mcp EXCEPT ![h][i] = [NoCall EXCEPT !.at = "over"]]
          /\ UNCHANGED <<pc, todo, results, grant, wrote, crossed, told>>
    BY <1>2 DEF RecordCall, loop, history
  <2>2. [NoCall EXCEPT !.at = "over"] \in Calls
    BY DEF NoCall, Calls, Kinds, Blocks, Stages
  <2>3. changed' \in [Handlers -> BOOLEAN]
    BY <2>1 DEF IInv, Shape
  <2>4. /\ mcp' \in [Handlers -> [Slots -> Calls]]
        /\ \A j \in Slots \ {i} : mcp'[h][j] = mcp[h][j]
        /\ \A g \in Handlers \ {h} : mcp'[g] = mcp[g] /\ changed'[g] = changed[g]
    BY <2>1, <2>2 DEF IInv, Shape
  <2>5. Shape'
    BY <2>1, <2>3, <2>4 DEF IInv, Shape
  <2>6. changed'[h] <=> changed[h] \/ mcp[h][i].tool = "write"
    BY <2>1 DEF Changes, IInv, Shape
  <2>7. Shows(mcp[h]) /\ mcp[h][i].tool # "write" => Shows(mcp'[h])
    BY <2>1, <2>4 DEF Shows
  <2>8. Kept' /\ Leased'
    BY <2>1, <2>4, <2>6, <2>7 DEF IInv, Kept, Leased, Evidence
  <2> QED
    BY <2>5, <2>8 DEF IInv
<1> QED
  BY <1>1, <1>2

-----------------------------------------------------------------------------
LEMMA TurnInvInit == Init => IInv
<1>1. <<>> \in Seq(Kinds) /\ <<>> \in Seq(Results)
  OBVIOUS
<1> QED
  BY <1>1, NoCallType DEF Init, IInv, Shape, Kept, Leased, Places, Replies

LEMMA TurnStep ==
  ASSUME IInv, [Next]_vars
  PROVE  IInv'
<1>1. ASSUME NEW h \in Handlers, Address(h) PROVE IInv'
  <2>1. /\ pc' = [pc EXCEPT ![h] = "reading"]
        /\ grant' = [grant EXCEPT ![h] = TRUE]
        /\ Forget(h) /\ UNCHANGED <<todo, results, told>>
    BY <1>1 DEF Address, Goto, Issue, loop
  <2>2. /\ mcp' \in [Handlers -> [Slots -> Calls]]
        /\ \A g \in Handlers \ {h} : mcp'[g] = mcp[g]
        /\ changed' = [changed EXCEPT ![h] = FALSE]
        /\ wrote' = [wrote EXCEPT ![h] = FALSE]
        /\ crossed' = [crossed EXCEPT ![h] = FALSE]
    BY <2>1, ForgetIs DEF IInv
  <2>3. Shape'
    BY <2>1, <2>2 DEF IInv, Shape, Places
  <2>4. Kept' /\ Leased'
    BY <2>1, <2>2 DEF IInv, Shape, Kept, Leased, Evidence, Active, Places
  <2> QED
    BY <2>3, <2>4 DEF IInv
<1>2. ASSUME NEW h \in Handlers, Send(h) PROVE IInv'
  <2>1. /\ pc[h] = "sending" /\ pc' = [pc EXCEPT ![h] = "idle"]
        /\ told' = [told EXCEPT ![h] = "nothing"]
        /\ UNCHANGED <<todo, results, mcp, changed, grant, wrote, crossed>>
    BY <1>2 DEF Send, Goto, loop, record, cli, history
  <2> QED
    BY <2>1 DEF IInv, Shape, Kept, Leased, Evidence, Active, Places, Replies
<1>3. ASSUME NEW h \in Handlers, AcceptCall(h) PROVE IInv'
  <2>1. PICK i \in Slots :
          /\ mcp[h][i].at = "none"
          /\ mcp' = [mcp EXCEPT ![h][i] = [NoCall EXCEPT !.at = "accepted"]]
    BY <1>3 DEF AcceptCall
  <2>2. /\ crossed' = [crossed EXCEPT ![h] = @ \/ InHand(h) # {}]
        /\ UNCHANGED <<pc, todo, results, changed, grant, wrote, told>>
    BY <1>3 DEF AcceptCall, loop, record
  <2>3. [NoCall EXCEPT !.at = "accepted"] \in Calls
    BY DEF NoCall, Calls, Kinds, Blocks, Stages
  <2>4. /\ mcp' \in [Handlers -> [Slots -> Calls]]
        /\ \A j \in Slots \ {i} : mcp'[h][j] = mcp[h][j]
        /\ \A g \in Handlers \ {h} : mcp'[g] = mcp[g]
    BY <2>1, <2>3 DEF IInv, Shape
  <2>5. \A g \in Handlers : Shows(mcp[g]) => Shows(mcp'[g])
    BY <2>1, <2>4 DEF Shows
  <2>6. crossed' \in [Handlers -> BOOLEAN]
    BY <2>2 DEF IInv, Shape
  <2>7. Shape'
    BY <2>2, <2>4, <2>6 DEF IInv, Shape
  <2>8. Kept' /\ Leased'
    BY <2>2, <2>5 DEF IInv, Kept, Leased, Evidence
  <2> QED
    BY <2>7, <2>8 DEF IInv
<1>4. ASSUME NEW h \in Handlers, Expire(h) PROVE IInv'
  BY <1>4 DEF Expire, loop, record, history, IInv, Shape, Kept, Leased, Evidence
<1>5. CASE Restart
  <2>1. <<>> \in Seq(Kinds) /\ <<>> \in Seq(Results)
    OBVIOUS
  <2>2. Shape'
    BY <1>5, <2>1, NoCallType DEF Restart, Shape, Places, Replies
  <2>3. Kept' /\ Leased'
    BY <1>5 DEF Restart, Kept, Leased
  <2> QED
    BY <2>2, <2>3 DEF IInv
<1>6. CASE UNCHANGED vars
  BY <1>6 DEF vars, loop, record, cli, history, IInv, Shape, Kept, Leased, Evidence
<1> QED
  BY <1>1, <1>2, <1>3, <1>4, <1>5, <1>6, MoveOrClose, MovesKeeps, ClosesKeeps,
     RunsKeep, RecordsKeep DEF Next, Continues, Mcp

\* Only the router's last words end a turn.
LEMMA EndsCloses ==
  ASSUME IInv, [Next]_vars, NEW h \in Handlers, Ends(h)
  PROVE  Closes(h)
<1>1. pc[h] # "sending" /\ pc'[h] = "sending"
  BY DEF Ends
<1>2. PICK g \in Handlers : Address(g) \/ Continues(g) \/ Answers(g) \/ Mcp(g)
  BY <1>1 DEF Next, Restart, vars
<1>3. CASE g # h
  <2>1. \E at \in Places : pc' = [pc EXCEPT ![g] = at]
    <3>1. CASE Moves(g) \/ Closes(g)
      BY <3>1 DEF Moves, Closes, End, Goto, Active, Places
    <3>2. CASE Address(g) \/ Send(g) \/ RecordAndSend(g)
      BY <3>2 DEF Address, Send, RecordAndSend, Goto, Places
    <3>3. CASE CallTool(g) \/ Mcp(g)
      <4>1. pc' = pc
        BY <3>3 DEF CallTool, Mcp, AcceptCall, RunCall, RecordCall, Expire
      <4> QED
        BY <4>1 DEF IInv, Shape
    <3> QED
      BY <1>2, <3>1, <3>2, <3>3, MoveOrClose DEF Continues
  <2> QED
    BY <1>1, <1>3, <2>1 DEF IInv, Shape
<1>4. CASE g = h
  <2>1. CASE Moves(h)
    BY <1>1, <2>1 DEF Moves, Goto, Active, IInv, Shape
  <2>2. CASE Address(h) \/ Send(h) \/ RecordAndSend(h)
    BY <1>1, <2>2 DEF Address, Send, RecordAndSend, Goto, IInv, Shape
  <2>3. CASE CallTool(h) \/ Mcp(h)
    BY <1>1, <2>3 DEF CallTool, Mcp, AcceptCall, RunCall, RecordCall, Expire
  <2> QED
    BY <1>2, <1>4, <2>1, <2>2, <2>3, MoveOrClose DEF Continues
<1> QED
  BY <1>3, <1>4

-----------------------------------------------------------------------------
\* A turn that changed something by a tool that does not speak for itself, and
\* recorded its calls, ends neither in silence nor in "repeat, please".
THEOREM SpeaksOfItsChanges == Spec => NoSilentChange
<1>1. ASSUME IInv, [Next]_vars, NEW h \in Handlers,
             Ends(h), wrote[h], ~Unrecorded(h), ~Slipped(h)
      PROVE  told'[h] \notin {"silence", "repeat"}
  <2>1. Closes(h)
    BY <1>1, EndsCloses
  <2>2. ~Evidence(h)
    BY <1>1 DEF Unrecorded, Slipped, Evidence, HasWrite, Shows
  <2>3. changed[h]
    BY <1>1, <2>1, <2>2 DEF IInv, Kept, Closes
  <2>4. PICK text \in Replies : End(h, text) /\ text # "repeat"
    BY <2>1, <2>3 DEF Closes
  <2>5. told'[h] = BreakTheSilence(h, HonourVerbatim(text, recorded[h]))
    <3>1. told' = [told EXCEPT ![h] =
                     BreakTheSilence(h, HonourVerbatim(text, recorded[h]))]
      BY <2>4 DEF End
    <3>2. told \in [Handlers -> Replies]
      BY <1>1 DEF IInv, Shape
    <3> QED
      BY <3>1, <3>2
  <2> QED
    BY <2>3, <2>4, <2>5, Spoken
<1>2. IInv /\ [Next]_vars
        => [\A h \in Handlers : Ends(h) /\ told'[h] \in {"silence", "repeat"}
              => ~wrote[h] \/ Unrecorded(h) \/ Slipped(h)]_vars
  BY <1>1
<1> QED
  BY <1>2, TurnInvInit, TurnStep, PTL DEF Spec, NoSilentChange

\* Whichever way a turn ends its grant is revoked, and no tool call gets in
\* under it any more.
THEOREM GrantDies == Spec => GrantEndsWithTurn
<1>1. ASSUME [Next]_vars, IInv, NEW h \in Handlers,
             pc[h] \in {"idle", "sending"}, NEW i \in Slots, mcp[h][i].at = "none"
      PROVE  mcp'[h][i].at = "none"
  <2>0. /\ mcp[h] \in [Slots -> Calls] /\ Shape /\ ~grant[h]
    BY <1>1 DEF IInv, Shape, Leased, Active
  <2>1. CASE UNCHANGED mcp
    BY <1>1, <2>1
  <2>2. ASSUME NEW g \in Handlers, AcceptCall(g) PROVE mcp'[h][i].at = "none"
    BY <1>1, <2>0, <2>2 DEF AcceptCall, Granted, IInv, Shape
  <2>3. ASSUME NEW g \in Handlers, RunCall(g) PROVE mcp'[h][i].at = "none"
    <3>1. PICK j \in Slots, changes \in BOOLEAN, c \in Calls :
            /\ mcp[g][j].at = "accepted"
            /\ mcp' = [mcp EXCEPT ![g] = [AgedAll(changes, mcp[g]) EXCEPT ![j] = c]]
      BY <2>0, <2>3, CallRuns
    <3>2. CASE g # h
      BY <1>1, <3>1, <3>2 DEF IInv, Shape
    <3>3. CASE g = h
      <4>1. /\ AgedAll(changes, mcp[h]) \in [Slots -> Calls]
            /\ AgedAll(changes, mcp[h])[i].at = "none"
        BY <1>1, <2>0, AgedCalls
      <4>2. i # j /\ mcp'[h] = [AgedAll(changes, mcp[h]) EXCEPT ![j] = c]
        BY <1>1, <3>1, <3>3 DEF IInv, Shape
      <4> QED
        BY <4>1, <4>2
    <3> QED
      BY <3>2, <3>3
  <2>4. ASSUME NEW g \in Handlers, RecordCall(g) PROVE mcp'[h][i].at = "none"
    BY <1>1, <2>4 DEF RecordCall, IInv, Shape
  <2>5. ASSUME NEW g \in Handlers, CallTool(g) PROVE mcp'[h][i].at = "none"
    <3>1. g # h /\ pc[g] = "calling"
      BY <1>1, <2>5 DEF CallTool
    <3> QED
      BY <1>1, <2>5, <3>1 DEF CallTool, IInv, Shape
  <2>6. CASE Restart
    BY <2>6, NoCallType DEF Restart, NoCalls
  <2>7. ASSUME NEW g \in Handlers, Address(g) \/ Closes(g) PROVE mcp'[h][i].at = "none"
    <3>1. Forget(g)
      BY <2>7 DEF Address, Closes, End
    <3> QED
      BY <1>1, <2>0, <3>1, ForgetIs, NoCallType
  <2>8. ASSUME NEW g \in Handlers,
               Send(g) \/ RecordAndSend(g) \/ Moves(g) \/ Expire(g)
        PROVE  UNCHANGED mcp
    BY <2>8 DEF Send, RecordAndSend, Moves, Expire, cli
  <2> QED
    BY <1>1, <2>1, <2>2, <2>3, <2>4, <2>5, <2>6, <2>7, <2>8, MoveOrClose
       DEF Next, Continues, Mcp, vars, cli
<1>2. IInv /\ [Next]_vars
        => [\A h \in Handlers : pc[h] \in {"idle", "sending"}
              => \A i \in Slots : mcp[h][i].at = "none" => mcp'[h][i].at = "none"]_vars
  BY <1>1
<1> QED
  BY <1>2, TurnInvInit, TurnStep, PTL DEF Spec, GrantEndsWithTurn

-----------------------------------------------------------------------------
(* Typing, and what a turn holds at each place. *)

Flags ==
  /\ asked \in [Handlers -> Models \cup {None}]
  /\ iter \in [Handlers -> 0 .. MaxIterations]
  /\ block \in [Handlers -> Blocks]
  /\ said \in [Handlers -> BOOLEAN]
  /\ recorded \in [Handlers -> Blocks]
  /\ running \in [Handlers -> BOOLEAN]

\* A turn that has taken an object of the chain walks it until it ends.
Walks == {"asking", "redriving", "calling", "telling"}
Holds == \A h \in Handlers : pc[h] \in Walks => held[h] # None

\* One batch at a time, and tools only in a turn that has a model to ask.
InTurn ==
  \A h \in Handlers :
    /\ Len(todo[h]) + Len(results[h]) <= MaxBatch
    /\ pc[h] # "calling" => todo[h] = <<>> /\ results[h] = <<>>
    /\ pc[h] = "calling" => iter[h] > 0
    /\ pc[h] \in {"idle", "sending"} => iter[h] = 0
    /\ iter[h] = 0 => block[h] = "none"
    /\ InHand(h) # {} => running[h]

TypeInv == IInv /\ ChainTypeOK /\ Flags /\ Holds /\ InTurn

\* A step that only takes the turn to its next request.
Steers(h) ==
  /\ pc[h] \in Active \ {"calling"} /\ \E at \in Active \ {"calling"} : Goto(h, at)
  /\ \E b \in BOOLEAN : running' = [running EXCEPT ![h] = @ \/ b]
  /\ \E m \in Models \cup {None} : asked' = [asked EXCEPT ![h] = m]
  /\ UNCHANGED <<iter, todo, results, block, said, record, mcp, grant, told, history>>

\* The model a request goes to is one of the chain's.
LEMMA AtType ==
  ASSUME ChainTypeOK, NEW o \in Objects
  PROVE  At(o) \in Models \cup {None}
<1>1. chain[o] \in Seq(Models) /\ index[o] \in Nat
  BY DEF ChainTypeOK, Orders
<1> QED
  BY <1>1 DEF At

LEMMA SteersOn ==
  ASSUME TypeInv, NEW h \in Handlers,
         \/ ReadSetting(h) \/ Adopt(h) \/ Request(h) \/ Refused(h)
         \/ TimedOut(h) /\ MayMoveOn(h)
  PROVE  Steers(h)
<1>1. /\ asked \in [Handlers -> Models \cup {None}] /\ running \in [Handlers -> BOOLEAN]
      /\ pc \in [Handlers -> Places]
  BY DEF TypeInv, IInv, Shape, Flags
<1>2. /\ running = [running EXCEPT ![h] = @ \/ FALSE]
      /\ asked = [asked EXCEPT ![h] = asked[h]] /\ asked[h] \in Models \cup {None}
  BY <1>1
<1>3. CASE ReadSetting(h) \/ Adopt(h)
  <2>1. UNCHANGED <<loop, record, cli, told, history>>
    BY <1>3 DEF ReadSetting, Adopt
  <2>2. pc[h] \in Active \ {"calling"} /\ \E at \in Active \ {"calling"} : Goto(h, at)
    BY <1>3 DEF ReadSetting, Adopt, Active, Places
  <2>3. UNCHANGED <<asked, running, iter, todo, results, block, said, record, mcp,
                    grant, told, history>>
    BY <2>1 DEF loop, cli
  <2>4. \E b \in BOOLEAN : running' = [running EXCEPT ![h] = @ \/ b]
    BY <1>2, <2>3
  <2>5. \E m \in Models \cup {None} : asked' = [asked EXCEPT ![h] = m]
    BY <1>2, <2>3
  <2> QED
    BY <2>2, <2>3, <2>4, <2>5 DEF Steers
<1>4. CASE Request(h)
  <2>1. pc[h] \in Active \ {"calling"} /\ pc' = [pc EXCEPT ![h] = pc[h]]
    BY <1>1, <1>4 DEF Request, Active, Places
  <2>2. held[h] \in Objects
    <3>1. held[h] # None
      BY <1>4 DEF Request, TypeInv, Holds, Walks
    <3> QED
      BY <3>1 DEF TypeInv, ChainTypeOK
  <2>3. At(held[h]) \in Models \cup {None}
    BY <2>2, AtType DEF TypeInv
  <2>4. (At(held[h]) \in CliModels /\ h \in ToolUsers) \in BOOLEAN
    OBVIOUS
  <2>5. \E b \in BOOLEAN : running' = [running EXCEPT ![h] = @ \/ b]
    BY <1>4, <2>4 DEF Request
  <2>6. \E at \in Active \ {"calling"} : Goto(h, at)
    BY <2>1 DEF Goto
  <2> QED
    BY <1>4, <2>1, <2>3, <2>5, <2>6 DEF Request, Steers
<1>5. CASE Refused(h) \/ (TimedOut(h) /\ MayMoveOn(h))
  <2>1. /\ asked' = [asked EXCEPT ![h] = None]
        /\ Goto(h, IF pc[h] = "telling" THEN "redriving" ELSE pc[h])
        /\ UNCHANGED <<iter, todo, results, block, said, record, cli, told, history>>
    BY <1>5 DEF Refused, TimedOut
  <2>2. pc[h] \in {"asking", "redriving", "telling"}
    BY <1>5 DEF Refused, TimedOut, Waiting
  <2>3. /\ pc[h] \in Active \ {"calling"}
        /\ \E at \in Active \ {"calling"} : Goto(h, at)
    BY <2>1, <2>2 DEF Active, Places
  <2>4. UNCHANGED <<mcp, grant, running>>
    BY <2>1 DEF cli
  <2>5. \E b \in BOOLEAN : running' = [running EXCEPT ![h] = @ \/ b]
    BY <1>2, <2>4
  <2> QED
    BY <2>1, <2>3, <2>4, <2>5 DEF Steers
<1> QED
  BY <1>3, <1>4, <1>5

\* Every step of a turn, by what it does to it.
LEMMA StepsOfATurn ==
  ASSUME TypeInv, [Next]_vars
  PROVE  \/ \E h \in Handlers :
              \/ Steers(h) \/ AsksForTools(h) \/ Closes(h) \/ CallTool(h)
              \/ RecordAndSend(h) \/ AcceptCall(h) \/ RunCall(h) \/ RecordCall(h)
              \/ Expire(h) \/ Address(h) \/ Send(h)
         \/ Restart \/ UNCHANGED vars
BY SteersOn, ComesToAnEnd DEF Next, Continues, Answers, Mcp, TypeInv

\* What becomes of the chain in a step of a turn.
LEMMA ChainInATurn ==
  ASSUME TypeInv, [Next]_vars
  PROVE  ChainTypeOK'
<1>0. ChainTypeOK
  BY DEF TypeInv
<1>1. CASE UNCHANGED cvars
  BY <1>0, <1>1 DEF cvars, setting, objects, taps, ChainTypeOK
<1>2. UNCHANGED vars => UNCHANGED cvars
  BY DEF vars
<1>3. ASSUME NEW h \in Handlers, ReadSetting(h) PROVE ChainTypeOK'
  BY <1>0, <1>3, ReadType DEF ReadSetting
<1>4. ASSUME NEW h \in Handlers, Adopt(h) PROVE ChainTypeOK'
  BY <1>0, <1>4, TakeType DEF Adopt
<1>5. ASSUME NEW h \in Handlers, Refused(h) \/ (TimedOut(h) /\ MayMoveOn(h))
      PROVE  ChainTypeOK'
  BY <1>0, <1>5, AdvanceType DEF Refused, TimedOut
<1>6. ASSUME NEW h \in Handlers,
             \/ OutOfModels(h) \/ DeadlinePasses(h) \/ Broke(h) \/ AnswersText(h)
             \/ (TimedOut(h) /\ ~MayMoveOn(h)) \/ Repeats(h) \/ Exhausted(h)
      PROVE  ChainTypeOK'
  <2>1. LetGo(h)
    BY <1>6 DEF OutOfModels, DeadlinePasses, Broke, AnswersText, TimedOut, Repeats,
                Exhausted
  <2> QED
    BY <1>0, <2>1, LetGoType
<1>7. ASSUME NEW h \in Handlers,
             \/ Request(h) \/ AsksForTools(h) \/ CallTool(h) \/ RecordAndSend(h)
             \/ Mcp(h) \/ Address(h) \/ Send(h)
      PROVE  UNCHANGED cvars
  BY <1>7 DEF Request, AsksForTools, CallTool, RecordAndSend, Mcp, AcceptCall, RunCall,
              RecordCall, Expire, Address, Send
<1>8. CASE Restart
  BY <1>0, <1>8, RestartType DEF Restart
<1> QED
  BY <1>1, <1>2, <1>3, <1>4, <1>5, <1>6, <1>7, <1>8 DEF Next, Continues, Answers

LEMMA HoldsInATurn ==
  ASSUME TypeInv, [Next]_vars
  PROVE  Holds'
<1>1. /\ pc \in [Handlers -> Places] /\ held \in [Handlers -> Objects \cup {None}]
      /\ Holds /\ None \notin Objects
  BY ModelChainAssumption DEF TypeInv, IInv, Shape, ChainTypeOK, Objects
<1>2. CASE /\ UNCHANGED held
           /\ \A h \in Handlers : pc'[h] \in Walks => pc[h] \in Walks
  BY <1>1, <1>2 DEF Holds
<1>3. ASSUME NEW h \in Handlers, ReadSetting(h) PROVE Holds'
  <2>1. UNCHANGED held /\ pc' = [pc EXCEPT ![h] = "adopting"]
    BY <1>3 DEF ReadSetting, ReadChain, Goto
  <2> QED
    BY <1>1, <2>1 DEF Holds, Walks
<1>4. ASSUME NEW h \in Handlers, Adopt(h) PROVE Holds'
  <2>1. pc' = [pc EXCEPT ![h] = "asking"]
    BY <1>4 DEF Adopt, Goto
  <2>2. PICK o \in Objects : held' = [held EXCEPT ![h] = o]
    BY <1>4 DEF Adopt, FallbackFor
  <2> QED
    BY <1>1, <2>1, <2>2 DEF Holds
<1>5. ASSUME NEW h \in Handlers, Refused(h) \/ (TimedOut(h) /\ MayMoveOn(h))
      PROVE  Holds'
  <2>1. /\ pc' = [pc EXCEPT ![h] = IF pc[h] = "telling" THEN "redriving" ELSE pc[h]]
        /\ UNCHANGED held
    BY <1>5 DEF Refused, TimedOut, Advance, Goto
  <2> QED
    BY <1>1, <1>2, <2>1 DEF Walks
<1>6. ASSUME NEW h \in Handlers,
             \/ OutOfModels(h) \/ DeadlinePasses(h) \/ Broke(h) \/ AnswersText(h)
             \/ (TimedOut(h) /\ ~MayMoveOn(h)) \/ Repeats(h) \/ Exhausted(h)
      PROVE  Holds'
  <2>1. held' = [held EXCEPT ![h] = None]
    BY <1>6 DEF OutOfModels, DeadlinePasses, Broke, AnswersText, TimedOut, Repeats,
                Exhausted, LetGo
  <2>2. pc' = [pc EXCEPT ![h] = "sending"]
    BY <1>6, ComesToAnEnd DEF TypeInv, Closes, End, Goto
  <2> QED
    BY <1>1, <2>1, <2>2 DEF Holds, Walks
<1>7. ASSUME NEW h \in Handlers, Request(h) \/ CallTool(h) \/ Mcp(h)
      PROVE  UNCHANGED <<held, pc>>
  BY <1>7 DEF Request, CallTool, Mcp, AcceptCall, RunCall, RecordCall, Expire, cvars
<1>8. ASSUME NEW h \in Handlers, AsksForTools(h) PROVE Holds'
  <2>1. pc[h] \in Walks /\ pc' = [pc EXCEPT ![h] = "calling"] /\ UNCHANGED held
    BY <1>8 DEF AsksForTools, Waiting, Goto, cvars, Walks
  <2> QED
    BY <1>1, <1>2, <2>1
<1>9. ASSUME NEW h \in Handlers, RecordAndSend(h) PROVE Holds'
  <2>1. pc[h] \in Walks /\ pc' = [pc EXCEPT ![h] = "telling"] /\ UNCHANGED held
    BY <1>9 DEF RecordAndSend, Goto, cvars, Walks
  <2> QED
    BY <1>1, <1>2, <2>1
<1>10. ASSUME NEW h \in Handlers, Address(h) \/ Send(h) PROVE Holds'
  <2>1. UNCHANGED held /\ \E at \in {"idle", "reading"} : pc' = [pc EXCEPT ![h] = at]
    BY <1>10 DEF Address, Send, Goto, cvars
  <2> QED
    BY <1>1, <1>2, <2>1 DEF Walks
<1>11. CASE Restart
  BY <1>11 DEF Restart, Holds, Walks
<1>12. UNCHANGED vars => UNCHANGED <<held, pc>>
  BY DEF vars, cvars
<1> QED
  BY <1>2, <1>3, <1>4, <1>5, <1>6, <1>7, <1>8, <1>9, <1>10, <1>11, <1>12
     DEF Next, Continues, Answers

-----------------------------------------------------------------------------
(* The block a turn holds after a call and after a batch. *)

\* The last place of a batch with a given property.
LEMMA LastPlace ==
  ASSUME NEW n \in Nat, NEW S \in SUBSET (1 .. n), S # {}
  PROVE  \E i \in S : \A j \in S : j <= i
<1>1. /\ IsFiniteSet(S) /\ Cardinality(S) \in Nat
      /\ \A k \in 1 .. Cardinality(S) : \E i \in S : Rank(S, i) = k
  BY RankIsANumbering, EveryRankIsTaken
<1>2. Cardinality(S) # 0
  BY <1>1, FS_EmptySet
<1>3. PICK i \in S : Rank(S, i) = Cardinality(S)
  BY <1>1, <1>2
<1> DEFINE upTo == {j \in S : j <= i}
<1>4. upTo \in SUBSET S /\ Cardinality(upTo) = Cardinality(S)
  BY <1>3 DEF Rank
<1>5. upTo = S
  <2> HIDE DEF upTo
  <2> QED
    BY <1>1, <1>4, FS_Subset
<1> QED
  BY <1>5

LEMMA NextBlockType ==
  ASSUME NEW b \in Blocks, NEW r, r.block \in Blocks
  PROVE  NextBlock(b, r) \in Blocks
BY DEF NextBlock, Blocks

\* A tool that does not merely look decides what block is left: its own, or none.
LEMMA ActsDecide ==
  ASSUME NEW r, r.tool # "look"
  PROVE  Decides(r)
BY DEF Decides, NextBlock

\* What decides leaves its own block, or none.
LEMMA DecidesForItself ==
  ASSUME NEW b \in Blocks, NEW r, Decides(r)
  PROVE  NextBlock(b, r) \in {r.block, "none"}
<1>1. NextBlock("none", r) = NextBlock(b, r)
  BY DEF Decides, Blocks
<1> QED
  BY <1>1 DEF NextBlock

\* Did a tool of the batch do more than look?
HasAct(rs) == \E i \in DOMAIN rs : rs[i].tool # "look"

\* Blocks that a later call of the batch made old.
Superseded(rs) ==
  \A i \in DOMAIN rs : rs[i].block = "stale"
    => \E j \in DOMAIN rs : i < j /\ rs[j].tool # "look"

LEMMA AfterBatchIs ==
  ASSUME NEW b \in Blocks, NEW rs \in Seq(Results)
  PROVE  /\ AfterBatch(b, rs) \in Blocks
         /\ Superseded(rs) /\ (b = "stale" => HasAct(rs)) => AfterBatch(b, rs) # "stale"
<1> DEFINE deciding == {i \in DOMAIN rs : Decides(rs[i])}
           last == CHOOSE i \in deciding : \A j \in deciding : j <= i
<1>1. Len(rs) \in Nat /\ deciding \in SUBSET (1 .. Len(rs)) /\ DOMAIN rs = 1 .. Len(rs)
  OBVIOUS
<1>2. \A i \in DOMAIN rs : rs[i].block \in Blocks
  <2>1. \A i \in DOMAIN rs : rs[i] \in Results
    OBVIOUS
  <2> QED
    BY <2>1 DEF Results
<1>3. \A i \in DOMAIN rs : rs[i].tool # "look" => i \in deciding
  BY ActsDecide
<1>4. CASE deciding = {}
  <2>1. AfterBatch(b, rs) = b
    BY <1>4 DEF AfterBatch
  <2> QED
    BY <1>3, <1>4, <2>1 DEF HasAct
<1>5. CASE deciding # {}
  <2>1. last \in deciding /\ \A j \in deciding : j <= last
    <3>1. \E i \in deciding : \A j \in deciding : j <= i
      <4> HIDE DEF deciding
      <4> QED
        BY <1>1, <1>5, LastPlace
    <3> HIDE DEF deciding
    <3> QED
      BY <3>1
  <2>2. AfterBatch(b, rs) = NextBlock(b, rs[last])
    BY <1>5 DEF AfterBatch
  <2>3. last \in DOMAIN rs /\ Decides(rs[last])
    BY <2>1
  <2> HIDE DEF last
  <2>4. NextBlock(b, rs[last]) \in {rs[last].block, "none"}
    BY <2>3, DecidesForItself
  <2>5. AfterBatch(b, rs) \in Blocks
    BY <1>2, <2>2, <2>3, NextBlockType
  <2>6. ASSUME Superseded(rs) PROVE rs[last].block # "stale"
    <3>1. SUFFICES ASSUME rs[last].block = "stale" PROVE FALSE
      OBVIOUS
    <3>2. PICK j \in DOMAIN rs : last < j /\ rs[j].tool # "look"
      BY <2>3, <2>6, <3>1 DEF Superseded
    <3>3. j <= last
      BY <1>3, <2>1, <3>2
    <3>4. j \in Nat /\ last \in Nat
      BY <1>1, <2>3
    <3> HIDE DEF deciding
    <3> QED
      BY <3>2, <3>3, <3>4
  <2> QED
    BY <2>2, <2>4, <2>5, <2>6
<1> QED
  BY <1>4, <1>5

LEMMA AgedAllIs ==
  ASSUME NEW changes, NEW rs \in Seq(Results)
  PROVE  /\ Len(AgedAll(changes, rs)) = Len(rs)
         /\ ~changes => AgedAll(changes, rs) = rs
         /\ rs = <<>> => AgedAll(changes, rs) = <<>>
<1>1. CASE ~changes
  BY <1>1 DEF AgedAll
<1>2. CASE changes
  <2> DEFINE new == [i \in DOMAIN rs |-> [rs[i] EXCEPT !.block = Aged(@)]]
  <2>1. AgedAll(changes, rs) = new
    BY <1>2 DEF AgedAll
  <2>2. DOMAIN new = 1 .. Len(rs) /\ Len(rs) \in Nat
    OBVIOUS
  <2>3. new \in Seq(Results)
    BY <2>1, AgedAllType
  <2> HIDE DEF new
  <2>4. Len(new) = Len(rs)
    BY <2>2, <2>3
  <2>5. rs = <<>> => new = <<>>
    BY <2>3, <2>4
  <2> QED
    BY <1>2, <2>1, <2>4, <2>5
<1> QED
  BY <1>1, <1>2

\* Running a call keeps the order of things within its batch.
LEMMA SupersededAppend ==
  ASSUME NEW changes, NEW rs \in Seq(Results), NEW r \in Results,
         changes => r.tool # "look", r.block # "stale", Superseded(rs)
  PROVE  Superseded(Append(AgedAll(changes, rs), r))
<1> DEFINE aged == AgedAll(changes, rs)
           new == Append(aged, r)
<1>1. aged \in Seq(Results) /\ Len(aged) = Len(rs) /\ Len(rs) \in Nat
  BY AgedAllType, AgedAllIs
<1>2. ~changes => aged = rs
  BY AgedAllIs
<1> HIDE DEF aged
<1>3. /\ DOMAIN new = 1 .. (Len(rs) + 1) /\ new[Len(rs) + 1] = r
      /\ \A i \in 1 .. Len(rs) : new[i] = aged[i]
      /\ DOMAIN rs = 1 .. Len(rs)
  BY <1>1
<1> HIDE DEF new
<1>4. SUFFICES ASSUME NEW i \in DOMAIN new, new[i].block = "stale"
               PROVE  \E j \in DOMAIN new : i < j /\ new[j].tool # "look"
  BY DEF Superseded, new, aged
<1>5. i \in 1 .. Len(rs)
  BY <1>1, <1>3, <1>4
<1>6. CASE changes
  BY <1>1, <1>3, <1>5, <1>6
<1>7. CASE ~changes
  <2>1. rs[i].block = "stale"
    BY <1>2, <1>3, <1>4, <1>5, <1>7
  <2>2. PICK j \in DOMAIN rs : i < j /\ rs[j].tool # "look"
    BY <1>3, <1>5, <2>1 DEF Superseded
  <2>3. j \in DOMAIN new /\ new[j].tool # "look"
    BY <1>1, <1>2, <1>3, <1>7, <2>2
  <2> QED
    BY <2>2, <2>3
<1> QED
  BY <1>6, <1>7

-----------------------------------------------------------------------------
(* Each of the steps keeps the typing. *)

LEMMA HeldType ==
  ASSUME TypeInv, NEW h \in Handlers, NEW changes, Held(h, changes)
  PROVE  /\ block' \in [Handlers -> Blocks] /\ recorded' \in [Handlers -> Blocks]
         /\ \A g \in Handlers : block[g] = "none" => block'[g] = "none"
<1>1. block \in [Handlers -> Blocks] /\ recorded \in [Handlers -> Blocks]
  BY DEF TypeInv, Flags
<1>2. CASE changes
  <2>1. /\ block' = [block EXCEPT ![h] = Aged(block[h])]
        /\ recorded' = [recorded EXCEPT ![h] = Aged(recorded[h])]
    BY <1>2 DEF Held
  <2>2. Aged(block[h]) \in Blocks /\ Aged(recorded[h]) \in Blocks
    BY <1>1, AgedType
  <2> QED
    BY <1>1, <1>2, <2>1, <2>2 DEF Aged
<1>3. CASE ~changes
  BY <1>1, <1>3 DEF Held
<1> QED
  BY <1>2, <1>3

LEMMA FlagsInATurn ==
  ASSUME TypeInv, [Next]_vars
  PROVE  Flags'
<1>1. Flags /\ MaxIterations \in Nat
  BY TurnAssumption DEF TypeInv
<1>2. ASSUME NEW h \in Handlers, Steers(h) PROVE Flags'
  <2>1. /\ running' \in [Handlers -> BOOLEAN]
        /\ asked' \in [Handlers -> Models \cup {None}]
    BY <1>1, <1>2 DEF Steers, Flags
  <2> QED
    BY <1>1, <1>2, <2>1 DEF Steers, Flags, record
<1>3. ASSUME NEW h \in Handlers, AsksForTools(h) PROVE Flags'
  <2>1. iter[h] < MaxIterations
    BY <1>1, <1>3 DEF AsksForTools, Spent, Flags
  <2>2. iter' = [iter EXCEPT ![h] = @ + 1]
    BY <1>3 DEF AsksForTools
  <2>3. iter' \in [Handlers -> 0 .. MaxIterations]
    BY <1>1, <2>1, <2>2 DEF Flags
  <2> QED
    BY <1>1, <1>3, <2>3 DEF AsksForTools, Flags, record, cli
<1>4. ASSUME NEW h \in Handlers, Closes(h) PROVE Flags'
  <2>1. PICK text \in Replies : End(h, text)
    BY <1>4 DEF Closes
  <2> QED
    BY <1>1, <2>1 DEF End, Forget, Flags, Blocks
<1>5. ASSUME NEW h \in Handlers, CallTool(h) \/ RunCall(h) PROVE Flags'
  <2>1. \E changes : Held(h, changes)
    BY <1>5 DEF CallTool, RunCall
  <2>2. block' \in [Handlers -> Blocks] /\ recorded' \in [Handlers -> Blocks]
    BY <2>1, HeldType
  <2>3. UNCHANGED <<asked, iter, said, running>>
    BY <1>5 DEF CallTool, RunCall
  <2> QED
    BY <1>1, <2>2, <2>3 DEF Flags
<1>6. ASSUME NEW h \in Handlers, RecordAndSend(h) PROVE Flags'
  <2>1. results[h] \in Seq(Results)
    BY DEF TypeInv, IInv, Shape
  <2>2. AfterBatch(block[h], results[h]) \in Blocks /\ AfterBatch(recorded[h], results[h]) \in Blocks
    BY <1>1, <2>1, AfterBatchIs DEF Flags
  <2>3. /\ block' = [block EXCEPT ![h] = AfterBatch(block[h], results[h])]
        /\ recorded' = [recorded EXCEPT ![h] = AfterBatch(recorded[h], results[h])]
    BY <1>6 DEF RecordAndSend
  <2>4. block' \in [Handlers -> Blocks] /\ recorded' \in [Handlers -> Blocks]
    BY <1>1, <2>2, <2>3 DEF Flags
  <2>5. /\ said' = [said EXCEPT ![h] = @ \/ \E i \in DOMAIN results[h] : results[h][i].say]
        /\ UNCHANGED <<asked, iter, running>>
    BY <1>6 DEF RecordAndSend, cli
  <2>6. said' \in [Handlers -> BOOLEAN]
    BY <1>1, <2>5 DEF Flags
  <2> QED
    BY <1>1, <2>4, <2>5, <2>6 DEF Flags
<1>7. ASSUME NEW h \in Handlers, RecordCall(h) PROVE Flags'
  <2>1. PICK i \in Slots :
          /\ recorded' = [recorded EXCEPT ![h] = NextBlock(recorded[h], mcp[h][i])]
          /\ UNCHANGED <<loop, running>>
    BY <1>7 DEF RecordCall
  <2>2. mcp[h][i].block \in Blocks
    BY DEF TypeInv, IInv, Shape, Calls
  <2>3. NextBlock(recorded[h], mcp[h][i]) \in Blocks
    BY <1>1, <2>2, NextBlockType DEF Flags
  <2>4. recorded' \in [Handlers -> Blocks]
    BY <1>1, <2>1, <2>3 DEF Flags
  <2>5. UNCHANGED <<asked, iter, block, said, running>>
    BY <2>1 DEF loop
  <2> QED
    BY <1>1, <2>4, <2>5 DEF Flags
<1>8. ASSUME NEW h \in Handlers, AcceptCall(h) \/ Expire(h) \/ Send(h) PROVE Flags'
  BY <1>1, <1>8 DEF AcceptCall, Expire, Send, loop, record, cli, Flags
<1>9. ASSUME NEW h \in Handlers, Address(h) PROVE Flags'
  BY <1>1, <1>9 DEF Address, Forget, loop, Flags, Blocks
<1>10. CASE Restart
  BY <1>1, <1>10 DEF Restart, Flags, Blocks
<1>11. CASE UNCHANGED vars
  BY <1>1, <1>11 DEF vars, loop, record, cli, Flags
<1> QED
  BY <1>2, <1>3, <1>4, <1>5, <1>6, <1>7, <1>8, <1>9, <1>10, <1>11, StepsOfATurn

LEMMA InTurnInATurn ==
  ASSUME TypeInv, [Next]_vars
  PROVE  InTurn'
<1>1. /\ pc \in [Handlers -> Places] /\ todo \in [Handlers -> Seq(Kinds)]
      /\ results \in [Handlers -> Seq(Results)] /\ mcp \in [Handlers -> [Slots -> Calls]]
      /\ iter \in [Handlers -> 0 .. MaxIterations] /\ block \in [Handlers -> Blocks]
      /\ running \in [Handlers -> BOOLEAN]
      /\ MaxBatch \in Nat /\ MaxIterations \in Nat
  BY TurnAssumption DEF TypeInv, IInv, Shape, Flags
<1>2. InTurn
  BY DEF TypeInv
<1>3. Len(<<>>) = 0
  OBVIOUS
<1>4. ASSUME NEW h \in Handlers, Steers(h) PROVE InTurn'
  BY <1>1, <1>2, <1>4 DEF Steers, Goto, InTurn, InHand, Active, Places
<1>5. ASSUME NEW h \in Handlers, AsksForTools(h) PROVE InTurn'
  <2>1. PICK batch \in Batches : todo' = [todo EXCEPT ![h] = batch]
    BY <1>5 DEF AsksForTools
  <2>2. /\ pc[h] \in {"asking", "redriving", "telling"}
        /\ pc' = [pc EXCEPT ![h] = "calling"] /\ iter' = [iter EXCEPT ![h] = @ + 1]
        /\ UNCHANGED <<results, block, running, mcp>>
    BY <1>5 DEF AsksForTools, Waiting, Goto, cli
  <2>3. Len(batch) \in Nat /\ Len(batch) <= MaxBatch
    BY BatchType
  <2>4. Len(batch) + Len(results[h]) <= MaxBatch
    BY <1>1, <1>2, <1>3, <2>2, <2>3 DEF InTurn
  <2> QED
    BY <1>1, <1>2, <2>1, <2>2, <2>4 DEF InTurn, InHand
<1>6. ASSUME NEW h \in Handlers, Closes(h) PROVE InTurn'
  <2>1. /\ pc' = [pc EXCEPT ![h] = "sending"] /\ iter' = [iter EXCEPT ![h] = 0]
        /\ todo' = [todo EXCEPT ![h] = <<>>] /\ results' = [results EXCEPT ![h] = <<>>]
        /\ block' = [block EXCEPT ![h] = "none"]
        /\ UNCHANGED running
    BY <1>6 DEF Closes, End, Goto
  <2>2. \A g \in Handlers : InHand(g)' = InHand(g)
    <3>1. Forget(h) /\ Shape
      BY <1>6 DEF Closes, End, TypeInv, IInv
    <3> QED
      BY <1>1, <3>1, ForgetIs, NoCallType DEF InHand
  <2> QED
    BY <1>1, <1>2, <1>3, <2>1, <2>2 DEF InTurn
<1>7. ASSUME NEW h \in Handlers, CallTool(h) PROVE InTurn'
  <2>1. PICK tool \in Kinds, changes \in BOOLEAN, r \in Results :
          /\ Held(h, changes)
          /\ mcp' = [mcp EXCEPT ![h] = AgedAll(changes, mcp[h])]
          /\ results' = [results EXCEPT ![h] = Append(AgedAll(changes, results[h]), r)]
    BY <1>7, ToolRuns DEF TypeInv, IInv
  <2>2. /\ todo' = [todo EXCEPT ![h] = Tail(@)] /\ todo[h] # <<>>
        /\ pc[h] = "calling" /\ UNCHANGED <<pc, iter, running>>
    BY <1>7 DEF CallTool
  <2> DEFINE rs == AgedAll(changes, results[h])
  <2>3. Len(Tail(todo[h])) + Len(Append(rs, r)) = Len(todo[h]) + Len(results[h])
    <3>1. rs \in Seq(Results) /\ Len(rs) = Len(results[h])
      BY <1>1, AgedAllType, AgedAllIs
    <3> HIDE DEF rs
    <3>2. Len(Append(rs, r)) = Len(results[h]) + 1
      BY <3>1
    <3>3. todo[h] \in Seq(Kinds) /\ results[h] \in Seq(Results)
      BY <1>1
    <3>4. Len(Tail(todo[h])) = Len(todo[h]) - 1 /\ Len(todo[h]) \in Nat /\ Len(results[h]) \in Nat
      BY <2>2, <3>3
    <3>5. \A m, n \in Nat : (m - 1) + (n + 1) = m + n
      OBVIOUS
    <3> QED
      BY <3>2, <3>4, <3>5
  <2>4. \A g \in Handlers : InHand(g)' = InHand(g)
    <3>1. mcp'[h] = AgedAll(changes, mcp[h]) /\ \A g \in Handlers \ {h} : mcp'[g] = mcp[g]
      BY <1>1, <2>1
    <3>2. mcp[h] \in [Slots -> Calls]
      BY <1>1
    <3>3. \A i \in Slots : AgedAll(changes, mcp[h])[i].at = mcp[h][i].at
      BY <3>2, AgedCalls
    <3> QED
      BY <3>1, <3>3 DEF InHand
  <2>5. \A g \in Handlers : block'[g] = block[g] \/ g = h
    BY <1>1, <2>1 DEF Held
  <2>6. iter[h] > 0
    BY <1>2, <2>2 DEF InTurn
  <2> QED
    BY <1>1, <1>2, <2>1, <2>2, <2>3, <2>4, <2>5, <2>6 DEF InTurn
<1>8. ASSUME NEW h \in Handlers, RunCall(h) PROVE InTurn'
  <2>1. PICK i \in Slots, changes \in BOOLEAN, c \in Calls :
          /\ mcp[h][i].at = "accepted" /\ Held(h, changes)
          /\ results' = [results EXCEPT ![h] = AgedAll(changes, results[h])]
          /\ mcp' = [mcp EXCEPT ![h] = [AgedAll(changes, mcp[h]) EXCEPT ![i] = c]]
    BY <1>8, CallRuns DEF TypeInv, IInv
  <2>2. UNCHANGED <<pc, todo, iter, running>>
    BY <1>8 DEF RunCall
  <2>3. /\ Len(AgedAll(changes, results[h])) = Len(results[h])
        /\ results[h] = <<>> => AgedAll(changes, results[h]) = <<>>
    BY <1>1, AgedAllIs
  <2>4. \A g \in Handlers : block[g] = "none" => block'[g] = "none"
    BY <2>1, HeldType
  <2>5. running[h] /\ \A g \in Handlers \ {h} : InHand(g)' = InHand(g)
    BY <1>1, <1>2, <2>1 DEF InTurn, InHand
  <2> QED
    BY <1>1, <1>2, <2>1, <2>2, <2>3, <2>4, <2>5 DEF InTurn
<1>9. ASSUME NEW h \in Handlers, RecordAndSend(h) PROVE InTurn'
  <2>1. /\ pc' = [pc EXCEPT ![h] = "telling"] /\ pc[h] = "calling" /\ todo[h] = <<>>
        /\ results' = [results EXCEPT ![h] = <<>>]
        /\ UNCHANGED <<todo, iter, running, mcp>>
        /\ \A g \in Handlers : block'[g] = block[g] \/ g = h
    BY <1>1, <1>9 DEF RecordAndSend, Goto, cli
  <2> QED
    BY <1>1, <1>2, <1>3, <2>1 DEF InTurn, InHand
<1>10. ASSUME NEW h \in Handlers, RecordCall(h) PROVE InTurn'
  <2>1. PICK i \in Slots :
          /\ mcp[h][i].at = "done"
          /\ mcp' = [mcp EXCEPT ![h][i] = [NoCall EXCEPT !.at = "over"]]
          /\ UNCHANGED <<pc, loop, running>>
    BY <1>10 DEF RecordCall
  <2>2. running[h] /\ \A g \in Handlers \ {h} : InHand(g)' = InHand(g)
    BY <1>1, <1>2, <2>1 DEF InTurn, InHand
  <2> QED
    BY <1>1, <1>2, <2>1, <2>2 DEF InTurn, loop
<1>11. ASSUME NEW h \in Handlers, AcceptCall(h) PROVE InTurn'
  <2>1. /\ running[h] /\ \A g \in Handlers : mcp'[g] = mcp[g] \/ g = h
        /\ UNCHANGED <<pc, todo, results, iter, block, running>>
    BY <1>1, <1>11 DEF AcceptCall, loop
  <2> QED
    BY <1>1, <1>2, <2>1 DEF InTurn, InHand
<1>12. ASSUME NEW h \in Handlers, Address(h) PROVE InTurn'
  <2>1. /\ pc[h] = "idle" /\ InHand(h) = {} /\ pc' = [pc EXCEPT ![h] = "reading"]
        /\ running' = [running EXCEPT ![h] = FALSE] /\ Forget(h)
        /\ UNCHANGED <<todo, results, iter, block>>
    BY <1>12 DEF Address, Goto, loop
  <2>2. \A g \in Handlers : InHand(g)' = InHand(g)
    <3>1. Shape
      BY DEF TypeInv, IInv
    <3> QED
      BY <1>1, <2>1, <3>1, ForgetIs, NoCallType DEF InHand
  <2> QED
    BY <1>1, <1>2, <2>1, <2>2 DEF InTurn
<1>13. ASSUME NEW h \in Handlers, Send(h) \/ Expire(h) PROVE InTurn'
  <2>1. /\ pc' = pc \/ (pc[h] = "sending" /\ pc' = [pc EXCEPT ![h] = "idle"])
        /\ UNCHANGED <<loop, running, mcp>>
    BY <1>13 DEF Send, Expire, Goto, cli
  <2> QED
    BY <1>1, <1>2, <2>1 DEF InTurn, InHand, loop
<1>14. CASE Restart
  BY <1>1, <1>3, <1>14, NoCallType DEF Restart, InTurn, InHand, NoCalls
<1>15. CASE UNCHANGED vars
  BY <1>2, <1>15 DEF vars, loop, cli, InTurn, InHand
<1> QED
  BY <1>4, <1>5, <1>6, <1>7, <1>8, <1>9, <1>10, <1>11, <1>12, <1>13, <1>14, <1>15,
     StepsOfATurn

LEMMA TypeInvStep ==
  ASSUME TypeInv, [Next]_vars
  PROVE  TypeInv'
BY TurnStep, ChainInATurn, FlagsInATurn, HoldsInATurn, InTurnInATurn DEF TypeInv

LEMMA TypeInvInit == Init => TypeInv
<1> SUFFICES ASSUME Init PROVE TypeInv
  OBVIOUS
<1>1. IInv /\ ChainTypeOK
  BY TurnInvInit, ChainTypeInit DEF Init
<1>2. Flags
  BY TurnAssumption DEF Init, Flags, Blocks
<1>3. Holds
  BY DEF Init, Holds, Walks
<1>4. InTurn
  <2>1. Len(<<>>) + Len(<<>>) <= MaxBatch
    <3>1. Len(<<>>) = 0 /\ MaxBatch \in Nat
      BY TurnAssumption
    <3> QED
      BY <3>1
  <2>2. SUFFICES ASSUME NEW h \in Handlers
                 PROVE  /\ todo[h] = <<>> /\ results[h] = <<>> /\ pc[h] = "idle"
                        /\ iter[h] = 0 /\ block[h] = "none" /\ InHand(h) = {}
    BY <2>1 DEF InTurn
  <2> QED
    BY NoCallType DEF Init, InHand, NoCalls
<1> QED
  BY <1>1, <1>2, <1>3, <1>4 DEF TypeInv

\* The variables keep their types: no turn outruns its bounds on batches,
\* results and calls, and none asks a model that no chain names.
THEOREM TurnTyping == Spec => []TypeOK
<1>1. TypeInv => TypeOK
  <2> SUFFICES ASSUME TypeInv PROVE TypeOK
    OBVIOUS
  <2>1. ASSUME NEW h \in Handlers
        PROVE  Len(todo[h]) <= MaxBatch /\ Len(results[h]) <= MaxBatch
    <3>1. todo[h] \in Seq(Kinds) /\ results[h] \in Seq(Results)
      BY DEF TypeInv, IInv, Shape
    <3>2. Len(todo[h]) \in Nat /\ Len(results[h]) \in Nat /\ MaxBatch \in Nat
      BY <3>1, TurnAssumption
    <3>3. Len(todo[h]) + Len(results[h]) <= MaxBatch
      BY DEF TypeInv, InTurn
    <3>4. \A m, n, k \in Nat : m + n <= k => m <= k /\ n <= k
      OBVIOUS
    <3> QED
      BY <3>2, <3>3, <3>4
  <2>2. todo \in [Handlers -> AtMost(Kinds)] /\ results \in [Handlers -> AtMost(Results)]
    BY <2>1 DEF TypeInv, IInv, Shape, AtMost
  <2> QED
    BY <2>2 DEF TypeInv, IInv, Shape, Flags, TypeOK, Places, Calls
<1> QED
  BY <1>1, TypeInvInit, TypeInvStep, PTL DEF Spec

-----------------------------------------------------------------------------
(* Where an old block may be.                                             *)
(*                                                                        *)
(* A turn whose model never ran tools of its own holds one block in both  *)
(* places, and it is old only while the call that made it so waits to be  *)
(* recorded.  A turn that ran no batch holds none in the loop; while its  *)
(* calls over MCP come one by one and none is lost, the record's is old   *)
(* only between the call that made it so and the record of that call.     *)

ByLoop ==
  \A h \in Handlers : pc[h] \in Active /\ ~running[h] =>
    /\ recorded[h] = block[h]
    /\ block[h] = "stale" => HasAct(results[h])
    /\ Superseded(results[h])

ByCli ==
  \A h \in Handlers : pc[h] \in Active /\ iter[h] = 0 /\ ~crossed[h] /\ ~Slipped(h) =>
    /\ \A i, j \in InHand(h) : i = j
    /\ \A i \in InHand(h) : mcp[h][i].block # "stale"
    /\ recorded[h] = "stale"
         => \E i \in Slots : mcp[h][i].at = "done" /\ mcp[h][i].tool # "look"

LEMMA ByLoopStep ==
  ASSUME TypeInv, ByLoop, [Next]_vars
  PROVE  ByLoop'
<1>1. /\ pc \in [Handlers -> Places] /\ todo \in [Handlers -> Seq(Kinds)]
      /\ results \in [Handlers -> Seq(Results)] /\ mcp \in [Handlers -> [Slots -> Calls]]
      /\ block \in [Handlers -> Blocks] /\ recorded \in [Handlers -> Blocks]
      /\ running \in [Handlers -> BOOLEAN] /\ InTurn
  BY DEF TypeInv, IInv, Shape, Flags
<1>2. Superseded(<<>>)
  BY DEF Superseded
<1>3. ASSUME NEW h \in Handlers, Steers(h) PROVE ByLoop'
  BY <1>1, <1>3 DEF Steers, Goto, ByLoop, Active, Places, record, HasAct, Superseded
<1>4. ASSUME NEW h \in Handlers, AsksForTools(h) PROVE ByLoop'
  <2>1. /\ pc[h] \in Active /\ pc' = [pc EXCEPT ![h] = "calling"]
        /\ UNCHANGED <<results, block, recorded, running>>
    BY <1>4 DEF AsksForTools, Waiting, Goto, Active, Places, record, cli
  <2> QED
    BY <1>1, <2>1 DEF ByLoop, HasAct, Superseded
<1>5. ASSUME NEW h \in Handlers, Closes(h) PROVE ByLoop'
  <2>1. /\ pc' = [pc EXCEPT ![h] = "sending"]
        /\ \A g \in Handlers \ {h} : /\ block'[g] = block[g] /\ results'[g] = results[g]
                                    /\ recorded'[g] = recorded[g]
        /\ UNCHANGED running
    BY <1>1, <1>5 DEF Closes, End, Forget, Goto
  <2>2. "sending" \notin Active
    BY DEF Active
  <2> QED
    BY <1>1, <2>1, <2>2 DEF ByLoop
<1>6. ASSUME NEW h \in Handlers, CallTool(h) PROVE ByLoop'
  <2>1. PICK changes \in BOOLEAN, r \in Results :
          /\ (changes => r.tool # "look") /\ r.block # "stale" /\ Held(h, changes)
          /\ results' = [results EXCEPT ![h] = Append(AgedAll(changes, results[h]), r)]
    BY <1>6, ToolRuns DEF TypeInv, IInv
  <2>2. UNCHANGED <<pc, running>>
    BY <1>6 DEF CallTool
  <2> DEFINE rs == AgedAll(changes, results[h])
  <2>3. Superseded(results[h]) => Superseded(Append(rs, r))
    BY <1>1, <2>1, SupersededAppend
  <2>4. /\ Len(rs) = Len(results[h]) /\ rs \in Seq(Results)
        /\ \A i \in DOMAIN rs : rs[i].tool = results[h][i].tool
    <3>1. results[h] \in Seq(Results) /\ \A i \in DOMAIN results[h] : results[h][i] \in Results
      BY <1>1
    <3>2. ASSUME changes, NEW i \in DOMAIN results[h]
          PROVE  [results[h][i] EXCEPT !.block = Aged(@)].tool = results[h][i].tool
      BY <3>1 DEF Results
    <3> QED
      BY <3>1, <3>2, AgedAllType, AgedAllIs DEF AgedAll
  <2>5. results'[h] = Append(rs, r) /\ \A g \in Handlers \ {h} : results'[g] = results[g]
    BY <1>1, <2>1
  <2> HIDE DEF rs
  <2>6. HasAct(results[h]) \/ changes => HasAct(Append(rs, r))
    <3>1. /\ DOMAIN Append(rs, r) = 1 .. (Len(rs) + 1) /\ DOMAIN rs = 1 .. Len(rs)
          /\ DOMAIN results[h] = 1 .. Len(rs) /\ Len(rs) \in Nat
          /\ Append(rs, r)[Len(rs) + 1] = r
          /\ \A i \in 1 .. Len(rs) : Append(rs, r)[i] = rs[i]
      BY <1>1, <2>4
    <3> QED
      BY <2>1, <2>4, <3>1 DEF HasAct
  <2>7. /\ \A g \in Handlers \ {h} : block'[g] = block[g] /\ recorded'[g] = recorded[g]
        /\ recorded[h] = block[h] => recorded'[h] = block'[h]
        /\ block'[h] = "stale" => changes \/ block[h] = "stale"
    BY <1>1, <2>1 DEF Held
  <2> QED
    BY <2>2, <2>3, <2>5, <2>6, <2>7 DEF ByLoop
<1>7. ASSUME NEW h \in Handlers, RunCall(h) PROVE ByLoop'
  <2>1. PICK i \in Slots, changes \in BOOLEAN :
          /\ mcp[h][i].at = "accepted" /\ Held(h, changes)
          /\ results' = [results EXCEPT ![h] = AgedAll(changes, results[h])]
    BY <1>7, CallRuns DEF TypeInv, IInv
  <2>2. running[h] /\ UNCHANGED <<pc, running>>
    BY <1>1, <1>7, <2>1 DEF RunCall, InTurn, InHand
  <2>3. \A g \in Handlers \ {h} : /\ block'[g] = block[g] /\ recorded'[g] = recorded[g]
                                  /\ results'[g] = results[g]
    BY <1>1, <2>1 DEF Held
  <2> QED
    BY <1>1, <2>2, <2>3 DEF ByLoop
<1>8. ASSUME NEW h \in Handlers, RecordAndSend(h) PROVE ByLoop'
  <2>1. /\ pc[h] = "calling" /\ pc' = [pc EXCEPT ![h] = "telling"]
        /\ block' = [block EXCEPT ![h] = AfterBatch(block[h], results[h])]
        /\ recorded' = [recorded EXCEPT ![h] = AfterBatch(recorded[h], results[h])]
        /\ results' = [results EXCEPT ![h] = <<>>] /\ UNCHANGED running
    BY <1>8 DEF RecordAndSend, Goto, cli
  <2>2. block[h] \in Blocks /\ results[h] \in Seq(Results)
    BY <1>1
  <2>3. Superseded(results[h]) /\ (block[h] = "stale" => HasAct(results[h]))
          => AfterBatch(block[h], results[h]) # "stale"
    BY <2>2, AfterBatchIs
  <2>4. pc[h] \in Active
    BY <2>1 DEF Active, Places
  <2>5. /\ block'[h] = AfterBatch(block[h], results[h])
        /\ recorded'[h] = AfterBatch(recorded[h], results[h])
        /\ results'[h] = <<>> /\ running'[h] = running[h]
        /\ \A g \in Handlers \ {h} :
             /\ pc'[g] = pc[g] /\ block'[g] = block[g] /\ recorded'[g] = recorded[g]
             /\ results'[g] = results[g] /\ running'[g] = running[g]
    BY <1>1, <2>1
  <2> QED
    BY <1>2, <2>3, <2>4, <2>5 DEF ByLoop
<1>9. ASSUME NEW h \in Handlers, RecordCall(h) PROVE ByLoop'
  <2>1. PICK i \in Slots :
          /\ mcp[h][i].at = "done" /\ UNCHANGED <<pc, loop, running>>
          /\ recorded' = [recorded EXCEPT ![h] = NextBlock(@, mcp[h][i])]
    BY <1>9 DEF RecordCall
  <2>2. /\ running[h] /\ UNCHANGED <<pc, results, block, running>>
        /\ \A g \in Handlers \ {h} : recorded'[g] = recorded[g]
    BY <1>1, <2>1 DEF InTurn, InHand, loop
  <2> QED
    BY <1>1, <2>2 DEF ByLoop
<1>10. ASSUME NEW h \in Handlers, AcceptCall(h) \/ Expire(h)
       PROVE  UNCHANGED <<pc, results, block, recorded, running>>
  BY <1>10 DEF AcceptCall, Expire, loop, record
<1>11. ASSUME NEW h \in Handlers, Address(h) PROVE ByLoop'
  <2>1. /\ pc[h] = "idle" /\ \A g \in Handlers \ {h} : pc'[g] = pc[g]
        /\ recorded' = [recorded EXCEPT ![h] = "none"]
        /\ running' = [running EXCEPT ![h] = FALSE]
        /\ UNCHANGED <<results, block>>
    BY <1>1, <1>11 DEF Address, Forget, Goto, loop
  <2>2. results[h] = <<>> /\ block[h] = "none"
    BY <2>1, <1>1 DEF InTurn
  <2> QED
    BY <1>1, <1>2, <2>1, <2>2 DEF ByLoop
<1>12. ASSUME NEW h \in Handlers, Send(h) PROVE ByLoop'
  <2>1. /\ pc' = [pc EXCEPT ![h] = "idle"]
        /\ UNCHANGED <<results, block, recorded, running>>
    BY <1>12 DEF Send, Goto, loop, record, cli
  <2>2. "idle" \notin Active
    BY DEF Active
  <2> QED
    BY <1>1, <2>1, <2>2 DEF ByLoop
<1>13. CASE Restart
  BY <1>13 DEF Restart, ByLoop, Active
<1>14. UNCHANGED vars => UNCHANGED <<pc, results, block, recorded, running>>
  BY DEF vars, loop, record, cli
<1>15. CASE UNCHANGED <<pc, results, block, recorded, running>>
  BY <1>15 DEF ByLoop, HasAct, Superseded
<1> QED
  BY <1>3, <1>4, <1>5, <1>6, <1>7, <1>8, <1>9, <1>10, <1>11, <1>12, <1>13, <1>14, <1>15,
     StepsOfATurn

LEMMA ByCliStep ==
  ASSUME TypeInv, ByCli, [Next]_vars
  PROVE  ByCli'
<1>1. /\ pc \in [Handlers -> Places] /\ todo \in [Handlers -> Seq(Kinds)]
      /\ mcp \in [Handlers -> [Slots -> Calls]] /\ iter \in [Handlers -> 0 .. MaxIterations]
      /\ recorded \in [Handlers -> Blocks] /\ InTurn
  BY DEF TypeInv, IInv, Shape, Flags
<1>2. ASSUME NEW h \in Handlers, Steers(h) PROVE ByCli'
  <2>1. /\ pc[h] \in Active /\ \A g \in Handlers \ {h} : pc'[g] = pc[g]
        /\ UNCHANGED <<iter, recorded, mcp, crossed>>
    BY <1>1, <1>2 DEF Steers, Goto, record, history
  <2> QED
    BY <2>1 DEF ByCli, Slipped, InHand
<1>3. ASSUME NEW h \in Handlers, AsksForTools(h) PROVE ByCli'
  <2>1. /\ \A g \in Handlers \ {h} : pc'[g] = pc[g] /\ iter'[g] = iter[g]
        /\ iter'[h] = iter[h] + 1 /\ UNCHANGED <<mcp, recorded, crossed>>
    BY <1>1, <1>3 DEF AsksForTools, Goto, record, cli, history
  <2>2. iter[h] \in Nat
    BY <1>1
  <2> QED
    BY <2>1, <2>2 DEF ByCli, Slipped, InHand
<1>4. ASSUME NEW h \in Handlers, Closes(h) PROVE ByCli'
  <2>1. /\ pc'[h] = "sending"
        /\ \A g \in Handlers \ {h} :
             /\ pc'[g] = pc[g] /\ iter'[g] = iter[g] /\ recorded'[g] = recorded[g]
             /\ crossed'[g] = crossed[g] /\ mcp'[g] = mcp[g]
    BY <1>1, <1>4 DEF Closes, End, Forget, Goto, TypeInv, IInv, Shape
  <2>2. "sending" \notin Active
    BY DEF Active
  <2> QED
    BY <2>1, <2>2 DEF ByCli, Slipped, InHand
<1>5. ASSUME NEW h \in Handlers, CallTool(h) PROVE ByCli'
  <2>1. /\ pc[h] = "calling" /\ UNCHANGED <<pc, iter, crossed>>
        /\ \A g \in Handlers \ {h} : mcp'[g] = mcp[g] /\ recorded'[g] = recorded[g]
    BY <1>1, <1>5 DEF CallTool, Held
  <2>2. iter[h] # 0
    BY <1>1, <2>1 DEF InTurn
  <2> QED
    BY <2>1, <2>2 DEF ByCli, Slipped, InHand
<1>6. ASSUME NEW h \in Handlers, RunCall(h) PROVE ByCli'
  <2>1. PICK i \in Slots, tool \in Kinds, changes \in BOOLEAN, c \in Calls :
           /\ mcp[h][i].at = "accepted" /\ c.block # "stale"
           /\ changes => tool # "look"
           /\ Held(h, changes)
           /\ mcp' = [mcp EXCEPT ![h] = [AgedAll(changes, mcp[h]) EXCEPT ![i] = c]]
           /\ \/ c.at = "done" /\ c.tool = tool
              \/ c.at = "lost"
              \/ c.at = "over" /\ ~changes
    BY <1>6, CallRuns DEF TypeInv, IInv
  <2>2. UNCHANGED <<pc, iter, crossed>>
    BY <1>6 DEF RunCall
  <2> DEFINE cs == AgedAll(changes, mcp[h])
  <2>3. /\ cs \in [Slots -> Calls]
        /\ \A j \in Slots : cs[j].at = mcp[h][j].at /\ cs[j].tool = mcp[h][j].tool
    BY <1>1, AgedCalls
  <2>4. mcp' = [mcp EXCEPT ![h] = [cs EXCEPT ![i] = c]]
    BY <2>1
  <2> HIDE DEF cs
  <2>5. /\ mcp'[h][i] = c /\ \A j \in Slots \ {i} : mcp'[h][j] = cs[j]
        /\ \A g \in Handlers \ {h} : mcp'[g] = mcp[g]
    BY <1>1, <2>3, <2>4
  <2>6. /\ \A g \in Handlers \ {h} : recorded'[g] = recorded[g]
        /\ changes \/ recorded'[h] = recorded[h]
    BY <1>1, <2>1 DEF Held
  <2>7. ASSUME pc[h] \in Active, iter[h] = 0, ~crossed[h], ~Slipped(h)'
        PROVE  /\ \A j, k \in InHand(h)' : j = k
               /\ \A j \in InHand(h)' : mcp'[h][j].block # "stale"
               /\ recorded'[h] = "stale"
                    => \E j \in Slots : mcp'[h][j].at = "done" /\ mcp'[h][j].tool # "look"
    <3>1. ~Slipped(h)
      BY <2>1, <2>3, <2>5, <2>7 DEF Slipped
    <3>2. i \in InHand(h) /\ \A j \in InHand(h) : j = i
      BY <2>1, <2>7, <3>1 DEF ByCli, InHand
    <3>3. InHand(h)' \subseteq {i}
      BY <2>3, <2>5, <3>2 DEF InHand
    <3>4. recorded[h] # "stale"
      BY <2>1, <2>7, <3>1, <3>2 DEF ByCli, InHand
    <3>5. c.at # "lost"
      BY <2>5, <2>7 DEF Slipped
    <3> QED
      BY <2>1, <2>5, <2>6, <3>3, <3>4, <3>5
  <2>8. \A g \in Handlers \ {h} : InHand(g)' = InHand(g) /\ (Slipped(g)' <=> Slipped(g))
    BY <2>5 DEF InHand, Slipped
  <2> QED
    BY <2>2, <2>5, <2>6, <2>7, <2>8 DEF ByCli
<1>7. ASSUME NEW h \in Handlers, RecordAndSend(h) PROVE ByCli'
  <2>1. /\ pc[h] = "calling" /\ UNCHANGED <<iter, mcp, crossed>>
        /\ \A g \in Handlers \ {h} : pc'[g] = pc[g] /\ recorded'[g] = recorded[g]
    BY <1>1, <1>7 DEF RecordAndSend, Goto, cli, history
  <2>2. iter[h] # 0
    BY <1>1, <2>1 DEF InTurn
  <2> QED
    BY <2>1, <2>2 DEF ByCli, Slipped, InHand
<1>8. ASSUME NEW h \in Handlers, RecordCall(h) PROVE ByCli'
  <2>1. PICK i \in Slots :
          /\ mcp[h][i].at = "done"
          /\ recorded' = [recorded EXCEPT ![h] = NextBlock(recorded[h], mcp[h][i])]
          /\ mcp' = [mcp EXCEPT ![h][i] = [NoCall EXCEPT !.at = "over"]]
          /\ UNCHANGED <<pc, loop, history>>
    BY <1>8 DEF RecordCall
  <2>2. /\ mcp'[h][i].at = "over" /\ \A j \in Slots \ {i} : mcp'[h][j] = mcp[h][j]
        /\ \A g \in Handlers \ {h} : mcp'[g] = mcp[g] /\ recorded'[g] = recorded[g]
        /\ UNCHANGED <<iter, crossed>>
    BY <1>1, <2>1 DEF NoCall, loop, history
  <2>3. ASSUME pc[h] \in Active, iter[h] = 0, ~crossed[h], ~Slipped(h)'
        PROVE  InHand(h)' = {} /\ recorded'[h] # "stale"
    <3>1. ~Slipped(h)
      BY <2>1, <2>2, <2>3 DEF Slipped
    <3>2. /\ \A j \in InHand(h) : j = i
          /\ mcp[h][i].block # "stale"
          /\ recorded[h] = "stale" => mcp[h][i].tool # "look"
      BY <2>1, <2>3, <3>1 DEF ByCli, InHand
    <3>3. recorded'[h] = NextBlock(recorded[h], mcp[h][i])
      BY <1>1, <2>1
    <3>4. recorded'[h] # "stale"
      BY <3>2, <3>3 DEF NextBlock
    <3> QED
      BY <2>2, <3>2, <3>4 DEF InHand
  <2>4. \A g \in Handlers \ {h} : InHand(g)' = InHand(g) /\ (Slipped(g)' <=> Slipped(g))
    BY <2>2 DEF InHand, Slipped
  <2> QED
    BY <2>1, <2>2, <2>3, <2>4 DEF ByCli
<1>9. ASSUME NEW h \in Handlers, AcceptCall(h) PROVE ByCli'
  <2>1. PICK i \in Slots :
          /\ mcp[h][i].at = "none"
          /\ mcp' = [mcp EXCEPT ![h][i] = [NoCall EXCEPT !.at = "accepted"]]
    BY <1>9 DEF AcceptCall
  <2>2. /\ crossed' = [crossed EXCEPT ![h] = @ \/ InHand(h) # {}]
        /\ UNCHANGED <<pc, iter, recorded>>
    BY <1>9 DEF AcceptCall, loop, record
  <2>3. /\ mcp'[h][i].at = "accepted" /\ mcp'[h][i].block = "none"
        /\ \A j \in Slots \ {i} : mcp'[h][j] = mcp[h][j]
        /\ \A g \in Handlers \ {h} : mcp'[g] = mcp[g] /\ crossed'[g] = crossed[g]
    BY <1>1, <2>1, <2>2 DEF NoCall, TypeInv, IInv, Shape
  <2>4. ASSUME pc[h] \in Active, iter[h] = 0, ~crossed'[h], ~Slipped(h)'
        PROVE  InHand(h)' = {i} /\ recorded[h] # "stale"
    <3>1. InHand(h) = {} /\ ~crossed[h]
      BY <2>2, <2>4 DEF TypeInv, IInv, Shape
    <3>2. ~Slipped(h)
      BY <2>1, <2>3, <2>4 DEF Slipped
    <3>3. recorded[h] # "stale"
      BY <2>4, <3>1, <3>2 DEF ByCli, InHand
    <3> QED
      BY <2>3, <3>1, <3>3 DEF InHand
  <2>5. \A g \in Handlers \ {h} : InHand(g)' = InHand(g) /\ (Slipped(g)' <=> Slipped(g))
    BY <2>3 DEF InHand, Slipped
  <2> QED
    BY <2>2, <2>3, <2>4, <2>5 DEF ByCli
<1>10. ASSUME NEW h \in Handlers, Address(h) PROVE ByCli'
  <2>1. /\ InHand(h) = {} /\ Forget(h) /\ UNCHANGED iter
        /\ \A g \in Handlers \ {h} : pc'[g] = pc[g]
    BY <1>1, <1>10 DEF Address, Goto, loop
  <2>2. /\ \A i \in Slots : mcp'[h][i] = NoCall
        /\ recorded'[h] = "none"
        /\ \A g \in Handlers \ {h} : /\ mcp'[g] = mcp[g] /\ recorded'[g] = recorded[g]
                                    /\ crossed'[g] = crossed[g]
    BY <1>1, <2>1, ForgetIs DEF TypeInv, IInv, Shape
  <2>3. InHand(h)' = {}
    BY <2>2, NoCallType DEF InHand
  <2>4. \A g \in Handlers \ {h} : InHand(g)' = InHand(g) /\ (Slipped(g)' <=> Slipped(g))
    BY <2>2 DEF InHand, Slipped
  <2> QED
    BY <2>1, <2>2, <2>3, <2>4 DEF ByCli
<1>11. ASSUME NEW h \in Handlers, Send(h) PROVE ByCli'
  <2>1. /\ pc'[h] = "idle" /\ \A g \in Handlers \ {h} : pc'[g] = pc[g]
        /\ UNCHANGED <<iter, recorded, mcp, crossed>>
    BY <1>1, <1>11 DEF Send, Goto, loop, record, cli, history
  <2>2. "idle" \notin Active
    BY DEF Active
  <2> QED
    BY <2>1, <2>2 DEF ByCli, Slipped, InHand
<1>12. CASE Restart
  BY <1>12 DEF Restart, ByCli, Active
<1>13. ASSUME NEW h \in Handlers, Expire(h) PROVE ByCli'
  BY <1>13 DEF Expire, loop, record, history, ByCli, Slipped, InHand
<1>14. CASE UNCHANGED vars
  BY <1>14 DEF vars, loop, record, cli, history, ByCli, Slipped, InHand
<1> QED
  BY <1>2, <1>3, <1>4, <1>5, <1>6, <1>7, <1>8, <1>9, <1>10, <1>11, <1>12, <1>13, <1>14,
     StepsOfATurn

\* What was rendered before a change of its turn is not sent after it, unless
\* the turn was cut short before the record, a tool over MCP raised after its
\* change, the turn had its tools run both ways, or two calls over MCP
\* overlapped.
THEOREM OldBlocksStay == Spec => NoOldBlock
<1> DEFINE Inv == TypeInv /\ ByLoop /\ ByCli
<1>1. Init => Inv
  BY TypeInvInit DEF Init, ByLoop, ByCli, Active
<1>2. Inv /\ [Next]_vars => Inv'
  BY TypeInvStep, ByLoopStep, ByCliStep
<1>3. ASSUME Inv, [Next]_vars, NEW h \in Handlers, Ends(h), told'[h] = "old block"
      PROVE  Unrecorded(h) \/ Slipped(h) \/ Mixed(h) \/ crossed[h]
  <2>1. Closes(h)
    BY <1>3, EndsCloses DEF TypeInv
  <2>2. PICK text \in Replies :
          /\ End(h, text)
          /\ text = "old block" => block[h] \notin {"none", "fresh"}
    BY <2>1 DEF Closes
  <2>3. told \in [Handlers -> Replies] /\ Flags
    BY <1>3 DEF TypeInv, IInv, Shape
  <2>0. block[h] \in Blocks /\ recorded[h] \in Blocks /\ iter[h] \in Nat
    BY <2>3, TurnAssumption DEF Flags
  <2>4. told'[h] = BreakTheSilence(h, HonourVerbatim(text, recorded[h]))
    BY <2>2, <2>3 DEF End
  <2>5. recorded[h] = "stale" \/ (recorded[h] = "none" /\ block[h] = "stale")
    <3>1. HonourVerbatim(text, recorded[h]) = "old block"
      BY <1>3, <2>4 DEF BreakTheSilence
    <3>2. CASE recorded[h] = "none"
      <4>1. text = "old block"
        BY <3>1, <3>2 DEF HonourVerbatim
      <4> QED
        BY <2>2, <2>0, <3>2, <4>1 DEF Blocks
    <3>3. CASE recorded[h] # "none"
      BY <2>0, <3>1, <3>3 DEF HonourVerbatim, Blocks
    <3> QED
      BY <3>2, <3>3
  <2>6. pc[h] \in Active
    BY <2>1 DEF Closes
  <2>7. CASE ~running[h]
    <3>1. recorded[h] = block[h] /\ (block[h] = "stale" => HasAct(results[h]))
      BY <1>3, <2>6, <2>7 DEF ByLoop
    <3>2. HasAct(results[h])
      BY <2>5, <3>1
    <3>3. ~HasAct(<<>>)
      BY DEF HasAct
    <3> QED
      BY <3>2, <3>3 DEF Unrecorded
  <2>8. CASE iter[h] = 0
    <3>1. block[h] = "none"
      BY <1>3, <2>8 DEF TypeInv, InTurn
    <3> QED
      BY <1>3, <2>5, <2>6, <2>8, <3>1 DEF ByCli, Unrecorded
  <2> QED
    BY <2>0, <2>7, <2>8 DEF Mixed
<1>4. Inv /\ [Next]_vars
        => [\A h \in Handlers : Ends(h) /\ told'[h] = "old block"
              => Unrecorded(h) \/ Slipped(h) \/ Mixed(h) \/ crossed[h]]_vars
  BY <1>3
<1> QED
  BY <1>1, <1>2, <1>4, PTL DEF Spec, NoOldBlock

-----------------------------------------------------------------------------
(* Turns keep to the chain.                                               *)
(*                                                                        *)
(* Every request in flight on an object was sent while the object stood   *)
(* at an entry, and each moves it on once at most: so an object is never  *)
(* further past its last entry than there are turns.                      *)

Asking(o) == {h \in Handlers : held[h] = o /\ asked[h] # None}

Asks ==
  \A h \in Handlers :
    /\ asked[h] # None => pc[h] \in Walks
    /\ pc[h] \in {"calling", "telling"} => asked[h] # None

Walked ==
  \A o \in Objects, h \in Handlers :
    index[o] + Cardinality(Asking(o)) < Len(chain[o]) + Cardinality(Handlers)

WalkInv == TypeInv /\ Asks /\ Walked

LEMMA AsksStep ==
  ASSUME TypeInv, Asks, [Next]_vars
  PROVE  Asks'
<1>0. /\ asked \in [Handlers -> Models \cup {None}] /\ pc \in [Handlers -> Places]
  BY DEF TypeInv, IInv, Shape, Flags
<1>1. ASSUME NEW h \in Handlers, NEW at \in Places, Goto(h, at), NEW m,
             asked' = [asked EXCEPT ![h] = m],
             m # None => at \in Walks, at \in {"calling", "telling"} => m # None
      PROVE  Asks'
  BY <1>0, <1>1 DEF Goto, Asks
<1>2. ASSUME NEW h \in Handlers, Closes(h) PROVE Asks'
  BY <1>1, <1>2 DEF Closes, End, Places
<1>3. ASSUME NEW h \in Handlers, ReadSetting(h) \/ Adopt(h) \/ Address(h) \/ Send(h)
      PROVE  Asks'
  <2>1. /\ UNCHANGED asked /\ pc[h] \notin Walks
        /\ \E at \in {"idle", "reading", "adopting", "asking"} : Goto(h, at)
    BY <1>3 DEF ReadSetting, Adopt, Address, Send, loop, Walks
  <2>2. PICK at \in {"idle", "reading", "adopting", "asking"} : Goto(h, at)
    BY <2>1
  <2>3. asked' = [asked EXCEPT ![h] = asked[h]] /\ asked[h] = None
    BY <1>0, <2>1 DEF Asks
  <2> QED
    BY <1>1, <2>2, <2>3 DEF Places
<1>4. ASSUME NEW h \in Handlers, Request(h) PROVE Asks'
  <2>1. /\ UNCHANGED pc /\ pc[h] \in {"asking", "redriving"}
        /\ asked' = [asked EXCEPT ![h] = At(held[h])]
    BY <1>4 DEF Request
  <2> QED
    BY <1>0, <2>1 DEF Asks, Walks
<1>5. ASSUME NEW h \in Handlers, Refused(h) \/ (TimedOut(h) /\ MayMoveOn(h))
      PROVE  Asks'
  <2>1. /\ asked' = [asked EXCEPT ![h] = None] /\ Waiting(h)
        /\ Goto(h, IF pc[h] = "telling" THEN "redriving" ELSE pc[h])
    BY <1>5 DEF Refused, TimedOut
  <2>2. PICK at \in {"asking", "redriving"} : Goto(h, at)
    BY <2>1 DEF Waiting
  <2> QED
    BY <1>1, <2>1, <2>2 DEF Places
<1>6. ASSUME NEW h \in Handlers, AsksForTools(h) \/ RecordAndSend(h)
      PROVE  Asks'
  <2>1. /\ UNCHANGED asked /\ asked[h] # None
        /\ \E at \in {"calling", "telling"} : Goto(h, at)
    BY <1>6 DEF AsksForTools, RecordAndSend, Waiting, Asks
  <2>2. PICK at \in {"calling", "telling"} : Goto(h, at)
    BY <2>1
  <2>3. asked' = [asked EXCEPT ![h] = asked[h]]
    BY <1>0, <2>1
  <2>4. at \in Places /\ at \in Walks
    BY DEF Places, Walks
  <2>5. PICK m : m = asked[h]
    OBVIOUS
  <2> QED
    BY <1>1, <2>1, <2>2, <2>3, <2>4, <2>5
<1>7. ASSUME NEW h \in Handlers, CallTool(h) \/ Mcp(h)
      PROVE  UNCHANGED <<asked, pc>>
  BY <1>7 DEF CallTool, Mcp, AcceptCall, RunCall, RecordCall, Expire, loop
<1>8. CASE Restart
  BY <1>8 DEF Restart, Asks
<1>9. CASE UNCHANGED <<asked, pc>>
  BY <1>9 DEF Asks
<1>10. UNCHANGED vars => UNCHANGED <<asked, pc>>
  BY DEF vars, loop
<1> QED
  BY <1>2, <1>3, <1>4, <1>5, <1>6, <1>7, <1>8, <1>9, <1>10, ComesToAnEnd
     DEF Next, Continues, Answers, TypeInv

LEMMA AskingCount ==
  ASSUME NEW o
  PROVE  /\ IsFiniteSet(Asking(o)) /\ Cardinality(Asking(o)) \in Nat
         /\ Cardinality(Asking(o)) <= Cardinality(Handlers)
         /\ Cardinality(Handlers) \in Nat
         /\ \A h \in Handlers : Cardinality(Handlers) > 0
<1>1. IsFiniteSet(Handlers)
  BY ModelChainAssumption
<1>2. Asking(o) \in SUBSET Handlers
  BY DEF Asking
<1>3. Cardinality(Handlers) \in Nat /\ (Handlers # {} => Cardinality(Handlers) # 0)
  BY <1>1, FS_CardinalityType, FS_EmptySet
<1>4. \A n \in Nat : n # 0 => n > 0
  OBVIOUS
<1> QED
  BY <1>1, <1>2, <1>3, <1>4, FS_Subset, FS_CardinalityType

\* Nothing moves on, and nothing more is asked.
LEMMA WalkedStays ==
  ASSUME ChainTypeOK, Walked,
         \A o \in Objects :
           \/ index'[o] = index[o] /\ chain'[o] = chain[o] /\ Asking(o)' \subseteq Asking(o)
           \/ index'[o] = 0 /\ chain'[o] \in Seq(Models) /\ Asking(o)' = {}
  PROVE  Walked'
<1> SUFFICES ASSUME NEW o \in Objects, NEW h \in Handlers
             PROVE  index'[o] + Cardinality(Asking(o)')
                      < Len(chain'[o]) + Cardinality(Handlers)
  BY DEF Walked
<1>1. /\ Cardinality(Asking(o)) \in Nat /\ IsFiniteSet(Asking(o))
      /\ Cardinality(Handlers) \in Nat /\ Cardinality(Handlers) > 0
  BY AskingCount
<1>2. CASE index'[o] = 0 /\ chain'[o] \in Seq(Models) /\ Asking(o)' = {}
  <2>1. Cardinality(Asking(o)') = 0
    BY <1>2, FS_EmptySet
  <2>2. Len(chain'[o]) \in Nat
    BY <1>2
  <2> QED
    BY <1>1, <1>2, <2>1, <2>2
<1>3. CASE index'[o] = index[o] /\ chain'[o] = chain[o] /\ Asking(o)' \subseteq Asking(o)
  <2>1. Cardinality(Asking(o)') \in Nat /\ Cardinality(Asking(o)') <= Cardinality(Asking(o))
    BY <1>1, <1>3, FS_Subset, FS_CardinalityType
  <2>2. index[o] \in Nat /\ Len(chain[o]) \in Nat
    BY DEF ChainTypeOK, Orders
  <2>3. index[o] + Cardinality(Asking(o)) < Len(chain[o]) + Cardinality(Handlers)
    BY DEF Walked
  <2>4. \A i, a, b, n \in Nat : i + a < n /\ b <= a => i + b < n
    OBVIOUS
  <2>5. Len(chain[o]) + Cardinality(Handlers) \in Nat
    BY <1>1, <2>2
  <2> QED
    BY <1>1, <1>3, <2>1, <2>2, <2>3, <2>4, <2>5
<1> QED
  BY <1>2, <1>3

\* One more request is in flight, on an object that stands at an entry.
LEMMA WalkedRequest ==
  ASSUME TypeInv, Walked, NEW h \in Handlers, Request(h)
  PROVE  Walked'
<1> SUFFICES ASSUME NEW o \in Objects, NEW g \in Handlers
             PROVE  index'[o] + Cardinality(Asking(o)')
                      < Len(chain'[o]) + Cardinality(Handlers)
  BY DEF Walked
<1>1. /\ UNCHANGED <<index, chain, held>>
      /\ \A x \in Handlers \ {h} : asked'[x] = asked[x]
  BY DEF Request, cvars, objects, TypeInv, Flags
<1>2. /\ index[o] \in Nat /\ Len(chain[o]) \in Nat
      /\ Cardinality(Handlers) \in Nat
  <2>1. index[o] \in Nat /\ chain[o] \in Seq(Models)
    BY DEF TypeInv, ChainTypeOK, Orders
  <2> QED
    BY <2>1, AskingCount
<1>3. CASE held[h] = o
  <2>1. index[o] < Len(chain[o])
    BY <1>3 DEF Request, At
  <2>2. IsFiniteSet(Handlers) /\ Asking(o)' \in SUBSET Handlers
    BY ModelChainAssumption DEF Asking
  <2>3. Cardinality(Asking(o)') \in Nat /\ Cardinality(Asking(o)') <= Cardinality(Handlers)
    BY <2>2, FS_Subset, FS_CardinalityType
  <2>4. \A i, l, a, n \in Nat : i < l /\ a <= n => i + a < l + n
    OBVIOUS
  <2> QED
    BY <1>1, <1>2, <2>1, <2>3, <2>4
<1>4. CASE held[h] # o
  <2>1. Asking(o)' = Asking(o)
    BY <1>1, <1>4 DEF Asking
  <2> QED
    BY <1>1, <2>1 DEF Walked
<1> QED
  BY <1>3, <1>4

\* A request has been answered by a refusal: the object moves on by one, and
\* there is one less in flight.
LEMMA WalkedAdvance ==
  ASSUME TypeInv, Asks, Walked, NEW h \in Handlers, Refused(h) \/ (TimedOut(h) /\ MayMoveOn(h))
  PROVE  Walked' /\ Refusal(h)
<1>1. /\ Waiting(h) /\ Advance(h) /\ asked' = [asked EXCEPT ![h] = None]
  BY DEF Refused, TimedOut
<1>2. pc[h] \in Walks /\ asked[h] # None
  BY <1>1 DEF Waiting, Walks, Asks
<1>3. PICK o \in Objects : o = held[h]
  BY <1>2 DEF TypeInv, Holds, ChainTypeOK
<1>4. /\ index \in [Objects -> Nat] /\ chain \in [Objects -> Seq(Models)]
      /\ asked \in [Handlers -> Models \cup {None}]
  BY DEF TypeInv, ChainTypeOK, Orders, Flags
<1>5. /\ UNCHANGED <<chain, held>>
      /\ index'[o] = index[o] + 1 /\ \A x \in Objects : x # o => index'[x] = index[x]
  BY <1>1, <1>3, <1>4 DEF Advance
<1>6. Asking(o)' = Asking(o) \ {h} /\ \A x \in Objects : x # o => Asking(x)' = Asking(x)
  BY <1>1, <1>3, <1>4, <1>5 DEF Asking
<1>7. h \in Asking(o)
  BY <1>2, <1>3 DEF Asking
<1>8. /\ IsFiniteSet(Asking(o)) /\ Cardinality(Asking(o)) \in Nat
      /\ Cardinality(Handlers) \in Nat /\ Cardinality(Handlers) > 0
  BY AskingCount
<1>9. Cardinality(Asking(o)') = Cardinality(Asking(o)) - 1 /\ Cardinality(Asking(o)) # 0
  BY <1>6, <1>7, <1>8, FS_RemoveElement, FS_EmptySet
<1>10. index[o] \in Nat /\ Len(chain[o]) \in Nat
  BY <1>4
<1>11. index[o] + Cardinality(Asking(o)) < Len(chain[o]) + Cardinality(Handlers)
  BY DEF Walked
<1>12. \A x \in Objects, g \in Handlers :
         index'[x] + Cardinality(Asking(x)') < Len(chain'[x]) + Cardinality(Handlers)
  <2> SUFFICES ASSUME NEW x \in Objects, NEW g \in Handlers
               PROVE  index'[x] + Cardinality(Asking(x)')
                        < Len(chain'[x]) + Cardinality(Handlers)
    OBVIOUS
  <2>1. CASE x = o
    <3>1. index'[o] + Cardinality(Asking(o)') = index[o] + Cardinality(Asking(o))
      BY <1>5, <1>8, <1>9, <1>10
    <3> QED
      BY <1>5, <1>11, <2>1, <3>1
  <2>2. CASE x # o
    BY <1>5, <1>6, <2>2 DEF Walked
  <2> QED
    BY <2>1, <2>2
<1>13. index[o] < Len(chain[o]) + Cardinality(Handlers)
  <2>1. \A i, a, n \in Nat : i + a < n => i < n
    OBVIOUS
  <2>2. Len(chain[o]) + Cardinality(Handlers) \in Nat
    BY <1>8, <1>10
  <2> QED
    BY <1>8, <1>10, <1>11, <2>1, <2>2
<1>14. held[h] # None
  BY <1>2 DEF TypeInv, Holds
<1> QED
  BY <1>1, <1>3, <1>12, <1>13, <1>14 DEF Walked, Refusal

\* A turn takes the chat's object as it stands, or a new one at the top.
LEMMA WalkedAdopt ==
  ASSUME TypeInv, Asks, Walked, NEW h \in Handlers, Adopt(h)
  PROVE  Walked'
<1>1. /\ pc[h] = "adopting" /\ FallbackFor(h) /\ UNCHANGED asked
  BY DEF Adopt, loop
<1>2. asked[h] = None
  BY <1>1 DEF Asks, Walks
<1>3. PICK o \in Objects :
        /\ IF Fits(h) THEN o = current ELSE IsLeast(o, Unused)
        /\ held' = [held EXCEPT ![h] = o]
        /\ LET live == {o} \cup {held[g] : g \in Handlers} IN
           /\ chain' = [x \in Objects |->
                IF x = o THEN wanted[h] ELSE IF x \in live THEN chain[x] ELSE <<>>]
           /\ index' = [x \in Objects |->
                IF x \in live /\ (x # o \/ Fits(h)) THEN index[x] ELSE 0]
  BY <1>1 DEF FallbackFor
<1>4. /\ held \in [Handlers -> Objects \cup {None}] /\ wanted[h] \in Seq(Models)
      /\ ChainTypeOK
  BY DEF TypeInv, ChainTypeOK, Orders
<1>5. <<>> \in Seq(Models)
  OBVIOUS
<1>6. \A g \in Handlers : g # h => held'[g] = held[g]
  BY <1>3, <1>4
<1>7. \A x \in Objects : Asking(x)' \subseteq Asking(x)
  BY <1>1, <1>2, <1>6 DEF Asking
<1>8. \A x \in Objects : x \notin {held[g] : g \in Handlers} => Asking(x) = {}
  BY DEF Asking
<1>9. ASSUME NEW x \in Objects
      PROVE  \/ index'[x] = index[x] /\ chain'[x] = chain[x] /\ Asking(x)' \subseteq Asking(x)
             \/ index'[x] = 0 /\ chain'[x] \in Seq(Models) /\ Asking(x)' = {}
  <2>1. CASE x = o /\ Fits(h)
    BY <1>3, <1>7, <2>1 DEF Fits
  <2>2. CASE x = o /\ ~Fits(h)
    <3>1. \A g \in Handlers : held[g] # x
      BY <1>3, <2>2 DEF IsLeast, Unused
    <3>2. Asking(x)' = {}
      BY <1>7, <1>8, <3>1
    <3> QED
      BY <1>3, <1>4, <2>2, <3>2
  <2>3. CASE x # o /\ x \in {held[g] : g \in Handlers}
    BY <1>3, <1>7, <2>3
  <2>4. CASE x # o /\ x \notin {held[g] : g \in Handlers}
    <3>1. index'[x] = 0 /\ chain'[x] = <<>>
      BY <1>3, <2>4
    <3> QED
      BY <1>5, <1>7, <1>8, <2>4, <3>1
  <2> QED
    BY <2>1, <2>2, <2>3, <2>4
<1> QED
  BY <1>4, <1>9, WalkedStays

\* A turn that is over has no request in flight, and lets its object go.
LEMMA WalkedClose ==
  ASSUME TypeInv, Walked, NEW h \in Handlers, LetGo(h), asked' = [asked EXCEPT ![h] = None]
  PROVE  Walked'
<1>1. /\ held \in [Handlers -> Objects \cup {None}] /\ ChainTypeOK
      /\ asked \in [Handlers -> Models \cup {None}] /\ None \notin Objects
  BY ModelChainAssumption DEF TypeInv, ChainTypeOK, Flags, Objects
<1>2. held' = [held EXCEPT ![h] = None]
  BY DEF LetGo
<1>3. LET live == {current} \cup {held'[g] : g \in Handlers}
      IN /\ chain' = [o \in Objects |-> IF o \in live THEN chain[o] ELSE <<>>]
         /\ index' = [o \in Objects |-> IF o \in live THEN index[o] ELSE 0]
  BY <1>2 DEF LetGo, Collected
<1>4. /\ \A x \in Objects : Asking(x)' \subseteq Asking(x)
      /\ \A x \in Objects : x \notin {held'[g] : g \in Handlers} => Asking(x)' = {}
  BY <1>1, <1>2 DEF Asking
<1>5. <<>> \in Seq(Models)
  OBVIOUS
<1>6. ASSUME NEW x \in Objects
      PROVE  \/ index'[x] = index[x] /\ chain'[x] = chain[x] /\ Asking(x)' \subseteq Asking(x)
             \/ index'[x] = 0 /\ chain'[x] \in Seq(Models) /\ Asking(x)' = {}
  <2>1. CASE x \in {current} \cup {held'[g] : g \in Handlers}
    BY <1>3, <1>4, <2>1
  <2>2. CASE x \notin {current} \cup {held'[g] : g \in Handlers}
    <3>1. index'[x] = 0 /\ chain'[x] = <<>>
      BY <1>3, <2>2
    <3> QED
      BY <1>4, <1>5, <2>2, <3>1
  <2> QED
    BY <2>1, <2>2
<1> QED
  BY <1>1, <1>6, WalkedStays

\* Every step of a turn is one of ModelChain's, or leaves the chain alone.
LEMMA StepOfTheChain ==
  ASSUME WalkInv, [Next]_vars
  PROVE  Walked' /\ [ChainNext]_cvars
<1>0. TypeInv /\ Asks /\ Walked /\ ChainTypeOK
  BY DEF WalkInv, TypeInv
<1>1. ASSUME UNCHANGED cvars, UNCHANGED asked
      PROVE  Walked' /\ [ChainNext]_cvars
  <2>1. UNCHANGED <<index, chain, held, asked>>
    BY <1>1 DEF cvars, objects
  <2>2. \A o \in Objects : Asking(o)' = Asking(o)
    BY <2>1 DEF Asking
  <2> QED
    BY <1>0, <1>1, <2>1, <2>2, WalkedStays
<1>2. UNCHANGED vars => UNCHANGED cvars /\ UNCHANGED asked
  BY DEF vars, loop
<1>3. ASSUME NEW h \in Handlers, ReadSetting(h)
      PROVE  Walked' /\ [ChainNext]_cvars
  <2>1. ReadChain(h) /\ UNCHANGED asked
    BY <1>3 DEF ReadSetting, loop
  <2>2. UNCHANGED <<index, chain, held>>
    BY <2>1 DEF ReadChain, objects
  <2>3. \A o \in Objects : Asking(o)' = Asking(o)
    BY <2>1, <2>2 DEF Asking
  <2>4. ChainNext
    BY <2>1 DEF ChainNext
  <2> QED
    BY <1>0, <2>2, <2>3, <2>4, WalkedStays
<1>4. ASSUME NEW h \in Handlers, Adopt(h)
      PROVE  Walked' /\ [ChainNext]_cvars
  BY <1>0, <1>4, WalkedAdopt DEF Adopt, ChainNext
<1>5. ASSUME NEW h \in Handlers, Refused(h) \/ (TimedOut(h) /\ MayMoveOn(h))
      PROVE  Walked' /\ [ChainNext]_cvars
  BY <1>0, <1>5, WalkedAdvance DEF ChainNext
<1>6. ASSUME NEW h \in Handlers,
             \/ OutOfModels(h) \/ DeadlinePasses(h) \/ Broke(h) \/ AnswersText(h)
             \/ (TimedOut(h) /\ ~MayMoveOn(h)) \/ Repeats(h) \/ Exhausted(h)
      PROVE  Walked' /\ [ChainNext]_cvars
  <2>1. LetGo(h)
    BY <1>6 DEF OutOfModels, DeadlinePasses, Broke, AnswersText, TimedOut, Repeats,
                Exhausted
  <2>2. asked' = [asked EXCEPT ![h] = None]
    BY <1>0, <1>6, ComesToAnEnd DEF TypeInv, Closes, End
  <2> QED
    BY <1>0, <2>1, <2>2, WalkedClose DEF ChainNext
<1>7. ASSUME NEW h \in Handlers,
             \/ AsksForTools(h) \/ CallTool(h) \/ RecordAndSend(h)
             \/ Mcp(h) \/ Address(h) \/ Send(h)
      PROVE  UNCHANGED cvars /\ UNCHANGED asked
  BY <1>7 DEF AsksForTools, CallTool, RecordAndSend, Mcp, AcceptCall, RunCall,
              RecordCall, Expire, Address, Send, loop
<1>8. ASSUME NEW h \in Handlers, Request(h)
      PROVE  Walked' /\ [ChainNext]_cvars
  BY <1>0, <1>8, WalkedRequest DEF Request
<1>9. ASSUME Restart
      PROVE  Walked' /\ [ChainNext]_cvars
  <2>1. Restarted /\ \A g \in Handlers : asked'[g] = None
    BY <1>9 DEF Restart
  <2>2. \A o \in Objects : index'[o] = 0 /\ chain'[o] = <<>> /\ Asking(o)' = {}
    BY <2>1 DEF Restarted, Asking
  <2>3. <<>> \in Seq(Models)
    OBVIOUS
  <2> QED
    BY <1>0, <2>1, <2>2, <2>3, WalkedStays DEF ChainNext
<1> QED
  BY <1>1, <1>2, <1>3, <1>4, <1>5, <1>6, <1>7, <1>8, <1>9
     DEF Next, Continues, Answers

\* To the shared object a turn is what ModelChain takes it for, tools,
\* deadlines and restarts included.
THEOREM TurnsKeepToTheChain == Spec => KeepsToTheChain
<1>1. Init => WalkInv
  <2> SUFFICES ASSUME Init PROVE WalkInv
    OBVIOUS
  <2>1. Asks
    BY DEF Init, Asks
  <2>2. ASSUME NEW o \in Objects, NEW h \in Handlers
        PROVE  index[o] + Cardinality(Asking(o)) < Len(chain[o]) + Cardinality(Handlers)
    <3>1. index[o] = 0 /\ chain[o] = <<>>
      BY DEF Init, ChainInit
    <3>2. Asking(o) = {}
      BY DEF Init, Asking
    <3>3. Cardinality(Asking(o)) = 0 /\ Len(chain[o]) = 0
      BY <3>1, <3>2, FS_EmptySet
    <3>4. Cardinality(Handlers) \in Nat /\ Cardinality(Handlers) > 0
      BY AskingCount
    <3> QED
      BY <3>1, <3>3, <3>4
  <2> QED
    BY <2>1, <2>2, TypeInvInit DEF WalkInv, Walked
<1>2. WalkInv /\ [Next]_vars => WalkInv'
  BY TypeInvStep, AsksStep, StepOfTheChain DEF WalkInv
<1>3. WalkInv /\ [Next]_vars => [ChainNext]_cvars
  BY StepOfTheChain
<1>4. Init => ChainInit
  BY DEF Init
<1> QED
  BY <1>1, <1>2, <1>3, <1>4, PTL DEF Spec, KeepsToTheChain, ChainSpec

\* So what the menu's order promises holds of the turns that walk it.
COROLLARY TurnsTakeTheMenu == Spec => [](ChainIsASelection /\ SettingsTakeEffect)
BY TurnsKeepToTheChain, StoredOnce, MenuTakesEffect, PTL DEF KeepsToTheChain
=============================================================================
