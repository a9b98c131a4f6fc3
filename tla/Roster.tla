------------------------------- MODULE Roster -------------------------------
(***************************************************************************)
(* Who is on one session's roster (table participants).  A row is found by *)
(* the strongest key that is known of a person: the user id, the @handle,  *)
(* the name.  Rows come from what people say about each other, from their  *)
(* own messages, from joins, private replies and the administrators' list. *)
(*                                                                         *)
(* Each SELECT and each write is a step: what the search found may be gone *)
(* or changed when it is written to.  An exception ends what raised it.    *)
(*                                                                         *)
(* Source: bot/tools/core.py, bot/router.py, bot/main.py, bot/group_info.py*)
(***************************************************************************)
EXTENDS Bot, Naturals, FiniteSets

CONSTANTS
  People,       \* telegram users; as a handle, p is the @username of p, and
                \* as a name, that handle written out ("@p")
  WithHandle,   \* those who have a @username
  NameOf,       \* everyone's display name; two people may share one
  MaxRows,      \* bound: rows ever inserted
  MaxUpdates    \* bound: updates and tool calls

ASSUME RosterAssumption ==
  /\ WithHandle \subseteq People /\ DOMAIN NameOf = People
  /\ MaxRows \in Nat /\ MaxUpdates \in Nat
  /\ None \notin People \cup Nat

VARIABLES
  roster,      \* participants: the row under each id, None if there is none
  inserted,    \* the sequence behind the ids: the last one given out
  step,        \* where each update in hand stands
  job,         \* the arguments it carries
  byId,        \* the row a search by user id found (its id), or None
  byHandle,    \* the row a search by handle found, as it was read, or None
  updates,     \* how many there have been
  overlapped   \* history: have two ever been in hand at once?

tables == <<roster, inserted>>
locals == <<step, job, byId, byHandle>>
rvars  == <<tables, locals, updates, overlapped>>

Rows     == 1 .. MaxRows
GivenAnswers  == {"confirmed", "declined"}
Statuses == GivenAnswers \cup {"unknown"}
Names    == {NameOf[p] : p \in People} \cup People
Row == [uid : People \cup {None}, handle : People \cup {None}, name : Names,
        status : Statuses]

\* NULL is no row, nor what is read of one.
ASSUME RowAssumption == None \notin Row \cup [id : Rows, status : Statuses]

UpdateKinds == {"message", "tool", "join", "dm"}
Job == [kind : UpdateKinds, who : People, args : Row]

RosterTypeOK ==
  /\ roster \in [Rows -> Row \cup {None}]
  /\ inserted \in 0 .. MaxRows
  /\ step \in [Handlers -> {"idle", "linkId", "linkHandle", "link", "findId",
                            "findHandle", "findName", "write", "turn", "wait"}]
  /\ job \in [Handlers -> Job \cup {None}]
  /\ byId \in [Handlers -> Rows \cup {None}]
  /\ byHandle \in [Handlers -> [id : Rows, status : Statuses] \cup {None}]
  /\ updates \in 0 .. MaxUpdates
  /\ overlapped \in BOOLEAN

RosterInit ==
  /\ roster = [r \in Rows |-> None]
  /\ inserted = 0
  /\ step = [h \in Handlers |-> "idle"]
  /\ job = [h \in Handlers |-> None]
  /\ byId = [h \in Handlers |-> None]
  /\ byHandle = [h \in Handlers |-> None]
  /\ updates = 0
  /\ overlapped = FALSE

-----------------------------------------------------------------------------
Present == {r \in Rows : roster[r] # None}

HandleOf(p) == IF p \in WithHandle THEN p ELSE None

\* What Telegram says of the sender of an update.
Sender(p, handle) ==
  [uid |-> p, handle |-> handle, name |-> NameOf[p], status |-> "unknown"]

\* set_participant: a name that is a handle is read as one.
Normalised(a) ==
  IF a.handle = None /\ a.name \in People THEN [a EXCEPT !.handle = a.name] ELSE a

\* COALESCE(_preferred_display_name(...), display_name): a handle is no name.
NameFor_Null(a, row) == IF a.handle # None /\ a.name = a.handle THEN None ELSE a.name
NameFor(a, row) == IF a.handle # None /\ a.name = a.handle THEN row.name ELSE a.name

Coalesce(new, old) == IF new = None THEN old ELSE new

\* The unique index one_username_per_session, after a write to row r.
IndexAllows(handle, r, others) ==
  handle = None \/ \A x \in others \ {r} : roster[x].handle # handle

\* The update is over, or an exception has ended it.
Over(h) ==
  /\ step' = [step EXCEPT ![h] = "idle"]
  /\ job' = [job EXCEPT ![h] = None]
  /\ byId' = [byId EXCEPT ![h] = None]
  /\ byHandle' = [byHandle EXCEPT ![h] = None]

\* On to another step, carrying a job; what was found so far is forgotten.
Onto(h, s, j) ==
  /\ step' = [step EXCEPT ![h] = s]
  /\ job' = [job EXCEPT ![h] = j]
  /\ byId' = [byId EXCEPT ![h] = None]
  /\ byHandle' = [byHandle EXCEPT ![h] = None]

\* What a handler starts with: an update, if there is one more.
Starts(h, s, j) ==
  /\ step[h] = "idle" /\ updates < MaxUpdates
  /\ updates' = updates + 1
  /\ overlapped' = (overlapped \/ \E g \in Handlers : step[g] # "idle")
  /\ Onto(h, s, j)
  /\ UNCHANGED tables

-----------------------------------------------------------------------------
\* A message in the group: link_identity, then record_speaker.

Message(h, p) ==
  Starts(h, "linkId",
         [kind |-> "message", who |-> p, args |-> Sender(p, HandleOf(p))])

LinkById(h) ==
  LET a == job[h].args
      found == {r \in Present : roster[r].uid = a.uid}
  IN /\ step[h] = "linkId"
     /\ \E r \in IF found = {} THEN {None} ELSE found :
          byId' = [byId EXCEPT ![h] = r]
     /\ step' = [step EXCEPT ![h] = IF a.handle = None THEN "link" ELSE "linkHandle"]
     /\ UNCHANGED <<tables, job, byHandle, updates, overlapped>>

LinkByHandle(h) ==
  LET found == {r \in Present : roster[r].handle = job[h].args.handle}
  IN /\ step[h] = "linkHandle"
     /\ IF found = {} THEN UNCHANGED byHandle
        ELSE \E r \in found :
          byHandle' = [byHandle EXCEPT ![h] = [id |-> r, status |-> roster[r].status]]
     /\ step' = [step EXCEPT ![h] = "link"]
     /\ UNCHANGED <<tables, job, byId, updates, overlapped>>

\* UPDATE ... WHERE id = r, of whatever is still there; an exception, and
\* nothing written, when the index forbids it.
Rewrite(r, row, present) ==
  roster' = [x \in Rows |-> IF x \notin present THEN None
                            ELSE IF x = r THEN row ELSE roster[x]]

\* The handle row is folded into the id row: one transaction.
Merges(h) == byId[h] # None /\ byHandle[h] # None /\ byHandle[h].id # byId[h]

Linked(h) ==
  LET a == job[h].args
      left == IF Merges(h) THEN Present \ {byHandle[h].id} ELSE Present
      r == IF byId[h] # None THEN byId[h]
           ELSE IF byHandle[h] # None THEN byHandle[h].id ELSE None
      row == roster[r]
  IN [left |-> left, id |-> r,
      row |-> IF r \notin left THEN None
              ELSE IF Merges(h)
              THEN [row EXCEPT !.status = byHandle[h].status, !.handle = a.handle]
              ELSE IF byId[h] # None
              THEN [row EXCEPT !.handle = Coalesce(a.handle, @), !.name = NameFor(a, row)]
              ELSE [row EXCEPT !.uid = a.uid, !.name = NameFor(a, row)]]

Link_AttachFirst(h) ==
  LET a == job[h].args
      r == IF byHandle[h] # None THEN byHandle[h].id ELSE byId[h]
  IN /\ step[h] = "link"
     /\ Onto(h, "findId", job[h])
     /\ IF r \in Present THEN Rewrite(r, [roster[r] EXCEPT !.uid = a.uid], Present)
        ELSE UNCHANGED roster
     /\ UNCHANGED <<inserted, updates, overlapped>>
Link(h) ==
  LET l == Linked(h)
  IN /\ step[h] = "link"
     /\ \/ /\ l.row # None => IndexAllows(l.row.handle, l.id, l.left)
           /\ Rewrite(l.id, l.row, l.left)
           /\ Onto(h, "findId", job[h])
        \/ /\ l.row # None /\ ~IndexAllows(l.row.handle, l.id, l.left)
           /\ Onto(h, "turn", job[h])
           /\ UNCHANGED roster
     /\ UNCHANGED <<inserted, updates, overlapped>>

-----------------------------------------------------------------------------
\* _find_participant: three SELECTs, and what they lead to.

Matches(stage, a) ==
  {r \in Present :
     CASE stage = "findId"     -> a.uid # None /\ roster[r].uid = a.uid
       [] stage = "findHandle" -> a.handle # None /\ roster[r].handle = a.handle
       [] stage = "findName"   -> /\ roster[r].name = a.name
                                  /\ roster[r].uid \in {None, a.uid}}

\* ORDER BY (user_id IS NULL): a row with the id goes before one without.
Best(found) ==
  LET sure == {r \in found : roster[r].uid # None}
  IN IF sure = {} THEN found ELSE sure

After(stage) == CASE stage = "findId" -> "findHandle"
                  [] stage = "findHandle" -> "findName"
                  [] stage = "findName" -> "write"

Find(h) ==
  /\ step[h] \in {"findId", "findHandle", "findName"}
  /\ LET found == Matches(step[h], job[h].args)
     IN IF found = {}
        THEN /\ step' = [step EXCEPT ![h] = After(@)]
             /\ UNCHANGED byId
        ELSE /\ step' = [step EXCEPT ![h] = "write"]
             /\ \E r \in Best(found) : byId' = [byId EXCEPT ![h] = r]
  /\ UNCHANGED <<tables, job, byHandle, updates, overlapped>>

Insert(a) ==
  /\ inserted < MaxRows
  /\ inserted' = inserted + 1
  /\ roster' = [roster EXCEPT ![inserted + 1] = a]

\* record_speaker's INSERT ... ON CONFLICT DO NOTHING; a row is never touched.
Record_Overwrites(h) ==
  /\ step[h] = "write" /\ job[h].kind = "message"
  /\ IF byId[h] \in Present
     THEN /\ Rewrite(byId[h], [roster[byId[h]] EXCEPT !.status = "unknown"], Present)
          /\ UNCHANGED inserted
     ELSE IF byId[h] = None /\ IndexAllows(job[h].args.handle, None, Present)
     THEN Insert(job[h].args)
     ELSE UNCHANGED tables
  /\ Onto(h, "turn", job[h])
  /\ UNCHANGED <<updates, overlapped>>
Record(h) ==
  /\ step[h] = "write" /\ job[h].kind = "message"
  /\ IF byId[h] = None /\ IndexAllows(job[h].args.handle, None, Present)
     THEN Insert(job[h].args)
     ELSE UNCHANGED tables
  /\ Onto(h, "turn", job[h])
  /\ UNCHANGED <<updates, overlapped>>

\* set_participant's INSERT or UPDATE, either of which the index may refuse.
Set(h) ==
  LET a == job[h].args
      r == byId[h]
      row == [uid |-> Coalesce(a.uid, roster[r].uid),
              handle |-> Coalesce(a.handle, roster[r].handle),
              name |-> NameFor(a, roster[r]), status |-> a.status]
  IN /\ step[h] = "write" /\ job[h].kind # "message"
     /\ IF r = None
        THEN IF IndexAllows(a.handle, None, Present) THEN Insert(a)
             ELSE UNCHANGED tables
        ELSE /\ IF r \in Present /\ IndexAllows(row.handle, r, Present)
                THEN Rewrite(r, row, Present) ELSE UNCHANGED roster
             /\ UNCHANGED inserted
     /\ IF job[h].kind = "tool" THEN Onto(h, "turn", job[h]) ELSE Over(h)
     /\ UNCHANGED <<updates, overlapped>>

-----------------------------------------------------------------------------
\* The turn that may follow a message.  The model may report any status of
\* anybody, by any id, handle and name it comes up with; where it speaks of the
\* sender the router fills in the sender's own.
Reports == {Normalised(a) : a \in Row}

ReportAnswer(h) ==
  /\ step[h] = "turn" /\ updates < MaxUpdates
  /\ updates' = updates + 1
  /\ \E a \in Reports :
       Onto(h, IF a.uid = None THEN "findHandle" ELSE "findId",
            [job[h] EXCEPT !.kind = "tool", !.args = a])
  /\ UNCHANGED <<tables, overlapped>>

SpeakerDone(h) ==
  /\ step[h] = "turn"
  /\ Over(h)
  /\ UNCHANGED <<tables, updates, overlapped>>

\* handle_new_members: somebody who has no row under their id is announced.
Join(h, p) ==
  /\ \A r \in Present : roster[r].uid # p
  /\ Starts(h, "findId", [kind |-> "join", who |-> p, args |-> Sender(p, None)])

\* handle_private_message: the unanswered row is read, the reply classified,
\* and the answer set under the name that was read.
PrivateReply(h, p) ==
  \E r \in Present, answer \in GivenAnswers :
    /\ roster[r].uid = p /\ roster[r].status = "unknown"
    /\ Starts(h, "wait",
              [kind |-> "dm", who |-> p,
               args |-> Normalised([uid |-> p, handle |-> None,
                                    name |-> roster[r].name, status |-> answer])])

ReplyClassified(h) ==
  /\ step[h] = "wait"
  /\ Onto(h, "findId", job[h])
  /\ UNCHANGED <<tables, updates, overlapped>>

\* _record_admin_handles: one UPDATE per administrator.
AdminSeen(p) ==
  LET mine == {r \in Present : roster[r].uid = p /\ roster[r].handle = None}
  IN /\ p \in WithHandle /\ mine # {}
     /\ Cardinality(mine) = 1 /\ \A r \in mine : IndexAllows(p, r, Present)
     /\ roster' = [r \in Rows |->
          IF r \in mine THEN [roster[r] EXCEPT !.handle = p] ELSE roster[r]]
     /\ UNCHANGED <<inserted, locals, updates, overlapped>>

RosterNext ==
  \/ \E h \in Handlers : \/ \E p \in People : Message(h, p) \/ Join(h, p) \/ PrivateReply(h, p)
                         \/ LinkById(h) \/ LinkByHandle(h) \/ Link(h)
                         \/ Find(h) \/ Record(h) \/ Set(h)
                         \/ ReportAnswer(h) \/ SpeakerDone(h) \/ ReplyClassified(h)
  \/ \E p \in People : AdminSeen(p)

RosterSpec == RosterInit /\ [][RosterNext]_rvars

-----------------------------------------------------------------------------
\* However the roster came to know of somebody, by name, by handle, by joining,
\* by a private reply or by what the model made of a message (under a wrong id
\* or handle, too), and in whatever order, their own message leaves one row that
\* bears their id or their handle: two are folded into one, and no second one is
\* inserted.  (Messages handled at once may leave two: nothing but the handle is
\* unique in the table.)
OneRowAfterSpeaking ==
  \A h \in Handlers :
    step[h] = "turn" /\ job[h].kind = "message" /\ ~overlapped =>
      LET p == job[h].who
      IN Cardinality({r \in Present : \/ roster[r].uid = p
                                      \/ p \in WithHandle /\ roster[r].handle = p}) <= 1

\* An answer on record does not go back to "unknown" because somebody spoke,
\* whatever else is in hand: it takes a merge, which takes what the other row
\* said when it was read, a join, which sets "unknown" on whatever row its
\* search by name finds, or a report of the model that says "unknown" in so
\* many words, which set_participant writes as it comes.
NoAnswerLost ==
  [][\A r \in Rows :
       /\ roster[r] # None /\ roster[r].status \in GivenAnswers
       /\ roster'[r] # None /\ roster'[r].status = "unknown"
       => \E h \in Handlers :
            /\ byId[h] = r
            /\ \/ step[h] = "link" /\ Merges(h)
               \/ /\ step[h] = "write" /\ job[h].args.status = "unknown"
                  /\ job[h].kind \in {"join", "tool"}]_rvars
=============================================================================
