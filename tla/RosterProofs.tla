----------------------------- MODULE RosterProofs -----------------------------
(***************************************************************************)
(* Theorems about Roster, for any people, handles and names, any number of *)
(* rows and of updates in hand.                                            *)
(*                                                                         *)
(* NoAnswerLost says who may set a row back; to see that nobody else does, *)
(* the invariant adds what a step carries with it: a private reply carries *)
(* an answer (Carries), and an id that has not been given out has no row,  *)
(* so that an INSERT replaces nothing (Unused).                            *)
(*                                                                         *)
(* That whoever speaks has one row rests on the index for handles          *)
(* (OneHandle), and for user ids, which no index keeps apart, on what the  *)
(* searches found being still so while one update is in hand (Calm).       *)
(***************************************************************************)
EXTENDS Roster, FiniteSetTheorems, TLAPS

Carries ==
  \A h \in Handlers :
    step[h] # "idle" =>
      /\ job[h] \in Job
      /\ job[h].kind = "dm" => job[h].args.status \in GivenAnswers

Unused == \A r \in Rows : r > inserted => roster[r] = None

IInv == RosterTypeOK /\ Carries /\ Unused

-----------------------------------------------------------------------------
\* The rows that updates and reports are made of.
LEMMA SenderType ==
  ASSUME NEW p \in People, NEW handle \in People \cup {None}
  PROVE  Sender(p, handle) \in Row
<1>1. NameOf[p] \in Names
  BY DEF Names
<1> QED
  BY <1>1 DEF Sender, Row, Statuses

LEMMA NormalisedType ==
  ASSUME NEW a \in Row
  PROVE  Normalised(a) \in Row /\ Normalised(a).status = a.status
BY DEF Normalised, Row

LEMMA ReportTypes ==
  ASSUME NEW a \in Reports
  PROVE  a \in Row
BY NormalisedType DEF Reports

LEMMA NameType ==
  ASSUME NEW a \in Row, NEW row \in Row
  PROVE  NameFor(a, row) \in Names
BY DEF NameFor, Row

LEMMA CoalesceType ==
  ASSUME NEW S, NEW a \in S \cup {None}, NEW b \in S \cup {None}
  PROVE  Coalesce(a, b) \in S \cup {None}
BY DEF Coalesce

LEMMA PresentRows ==
  ASSUME RosterTypeOK, NEW r \in Present
  PROVE  r \in Rows /\ roster[r] \in Row
BY DEF RosterTypeOK, Present

\* What link_identity writes: a row, or nothing; and unless it merges, the
\* status stays.
LEMMA LinkedType ==
  ASSUME IInv, NEW h \in Handlers, step[h] = "link"
  PROVE  LET l == Linked(h)
         IN /\ l.left \subseteq Present
            /\ l.id \in l.left => /\ l.row \in Row
                                  /\ ~Merges(h) => l.row.status = roster[l.id].status
                                  /\ Merges(h) => l.id = byId[h]
<1> DEFINE l == Linked(h)
           a == job[h].args
<1>1. a \in Row
  BY DEF IInv, Carries, Job
<1>2. l.left \subseteq Present
  BY DEF Linked
<1>3. l.id = IF byId[h] # None THEN byId[h]
             ELSE IF byHandle[h] # None THEN byHandle[h].id ELSE None
  BY DEF Linked
<1>4. l.row = IF l.id \notin l.left THEN None
              ELSE IF Merges(h)
              THEN [roster[l.id] EXCEPT !.status = byHandle[h].status, !.handle = a.handle]
              ELSE IF byId[h] # None
              THEN [roster[l.id] EXCEPT !.handle = Coalesce(a.handle, @),
                                        !.name = NameFor(a, roster[l.id])]
              ELSE [roster[l.id] EXCEPT !.uid = a.uid, !.name = NameFor(a, roster[l.id])]
  BY DEF Linked
<1>5. SUFFICES ASSUME l.id \in l.left
               PROVE  /\ l.row \in Row
                      /\ ~Merges(h) => l.row.status = roster[l.id].status
                      /\ Merges(h) => l.id = byId[h]
  BY <1>2, <1>4
<1> DEFINE row == roster[l.id]
<1>6. row \in Row
  BY <1>2, <1>5, PresentRows DEF IInv
<1>7. CASE Merges(h)
  <2>1. byHandle[h].status \in Statuses
    BY <1>7 DEF IInv, RosterTypeOK, Merges
  <2>2. a.handle \in People \cup {None}
    BY <1>1 DEF Row
  <2>3. [row EXCEPT !.status = byHandle[h].status, !.handle = a.handle] \in Row
    BY <1>6, <2>1, <2>2 DEF Row
  <2> QED
    BY <1>3, <1>4, <1>5, <1>7, <2>3 DEF Merges
<1>8. CASE ~Merges(h) /\ byId[h] # None
  <2>1. Coalesce(a.handle, row.handle) \in People \cup {None}
    BY <1>1, <1>6, CoalesceType DEF Row
  <2>2. NameFor(a, row) \in Names
    BY <1>1, <1>6, NameType
  <2>3. l.row = [row EXCEPT !.handle = Coalesce(a.handle, row.handle), !.name = NameFor(a, row)]
    BY <1>4, <1>5, <1>8
  <2> QED
    BY <1>6, <1>8, <2>1, <2>2, <2>3 DEF Row
<1>9. CASE ~Merges(h) /\ byId[h] = None
  <2>1. NameFor(a, row) \in Names /\ a.uid \in People \cup {None}
    BY <1>1, <1>6, NameType DEF Row
  <2>2. l.row = [row EXCEPT !.uid = a.uid, !.name = NameFor(a, row)]
    BY <1>4, <1>5, <1>9
  <2> QED
    BY <1>6, <1>9, <2>1, <2>2 DEF Row
<1> QED
  BY <1>7, <1>8, <1>9

-----------------------------------------------------------------------------
\* A message arrives or a step ends in another, without writing.
LEMMA OntoTypes ==
  ASSUME IInv, NEW h \in Handlers,
         NEW s \in {"idle", "linkId", "linkHandle", "link", "findId", "findHandle",
                   "findName", "write", "turn", "wait"},
         NEW j \in Job \cup {None}, Onto(h, s, j),
         s # "idle" => /\ j \in Job
                       /\ j.kind = "dm" => j.args.status \in GivenAnswers
  PROVE  /\ step' \in [Handlers -> {"idle", "linkId", "linkHandle", "link", "findId",
                                   "findHandle", "findName", "write", "turn", "wait"}]
         /\ job' \in [Handlers -> Job \cup {None}]
         /\ byId' \in [Handlers -> Rows \cup {None}]
         /\ byHandle' \in [Handlers -> [id : Rows, status : Statuses] \cup {None}]
         /\ Carries'
<1>1. /\ step' \in [Handlers -> {"idle", "linkId", "linkHandle", "link", "findId",
                                "findHandle", "findName", "write", "turn", "wait"}]
      /\ job' \in [Handlers -> Job \cup {None}]
      /\ byId' \in [Handlers -> Rows \cup {None}]
      /\ byHandle' \in [Handlers -> [id : Rows, status : Statuses] \cup {None}]
  BY DEF IInv, RosterTypeOK, Onto
<1>2. \A g \in Handlers : g # h => step'[g] = step[g] /\ job'[g] = job[g]
  BY DEF IInv, RosterTypeOK, Onto
<1>3. step'[h] = s /\ job'[h] = j
  BY DEF IInv, RosterTypeOK, Onto
<1>4. Carries'
  BY <1>2, <1>3 DEF IInv, Carries
<1> QED
  BY <1>1, <1>4

LEMMA OverTypes ==
  ASSUME IInv, NEW h \in Handlers, Over(h)
  PROVE  /\ step' \in [Handlers -> {"idle", "linkId", "linkHandle", "link", "findId",
                                   "findHandle", "findName", "write", "turn", "wait"}]
         /\ job' \in [Handlers -> Job \cup {None}]
         /\ byId' \in [Handlers -> Rows \cup {None}]
         /\ byHandle' \in [Handlers -> [id : Rows, status : Statuses] \cup {None}]
         /\ Carries'
<1>1. Onto(h, "idle", None)
  BY DEF Over, Onto
<1> QED
  BY <1>1, OntoTypes

\* Whatever starts, starts with a well-typed job.
LEMMA StartTypes ==
  ASSUME IInv, NEW h \in Handlers, NEW s \in {"linkId", "findId", "wait"}, NEW j \in Job,
         j.kind = "dm" => j.args.status \in GivenAnswers,
         Starts(h, s, j)
  PROVE  IInv' /\ UNCHANGED roster
<1>1. Onto(h, s, j) /\ UNCHANGED <<roster, inserted>>
  BY DEF Starts, tables
<1>2. updates' \in 0 .. MaxUpdates /\ overlapped' \in BOOLEAN
  BY RosterAssumption DEF IInv, RosterTypeOK, Starts
<1> QED
  BY <1>1, <1>2, OntoTypes DEF IInv, RosterTypeOK, Unused

\* Writing a row that is there, or taking rows away.
LEMMA RewriteTypes ==
  ASSUME IInv, NEW r \in Rows, NEW row \in Row, NEW left \in SUBSET Present, r \in left,
         Rewrite(r, row, left)
  PROVE  /\ roster' \in [Rows -> Row \cup {None}]
         /\ \A x \in Rows : x > inserted => roster'[x] = None
         /\ \A x \in Rows : x # r => roster'[x] \in {None, roster[x]}
         /\ roster'[r] = row
<1>1. \A x \in Rows : roster[x] \in Row \cup {None}
  BY DEF IInv, RosterTypeOK
<1>2. roster' \in [Rows -> Row \cup {None}]
  BY <1>1 DEF Rewrite
<1>3. \A x \in Rows : x \notin left => roster'[x] = None
  BY DEF Rewrite
<1>4. \A x \in Rows : x > inserted => x \notin left
  BY DEF IInv, Unused, Present
<1> QED
  BY <1>2, <1>3, <1>4 DEF Rewrite

\* An INSERT touches no row there is.
LEMMA InsertTypes ==
  ASSUME IInv, NEW a \in Row, Insert(a)
  PROVE  /\ roster' \in [Rows -> Row \cup {None}] /\ inserted' \in 0 .. MaxRows
         /\ \A x \in Rows : x > inserted' => roster'[x] = None
         /\ \A x \in Rows : roster[x] # None => roster'[x] = roster[x]
<1>1. inserted + 1 \in Rows /\ inserted' = inserted + 1 /\ inserted \in Nat
  BY RosterAssumption DEF IInv, RosterTypeOK, Insert, Rows
<1>2. roster[inserted + 1] = None
  BY <1>1 DEF IInv, Unused, Rows
<1>3. /\ roster \in [Rows -> Row \cup {None}]
      /\ roster' = [roster EXCEPT ![inserted + 1] = a]
  BY DEF IInv, RosterTypeOK, Insert
<1>4. \A x \in Rows : x > inserted' => roster'[x] = None
  <2>1. \A x \in Rows : x > inserted + 1 => x > inserted /\ x # inserted + 1
    BY <1>1 DEF Rows
  <2> QED
    BY <1>1, <1>3, <2>1 DEF IInv, Unused
<1>5. inserted' \in 0 .. MaxRows
  BY <1>1, RosterAssumption DEF Insert
<1>6. roster' \in [Rows -> Row \cup {None}]
  BY <1>1, <1>3
<1>7. \A x \in Rows : roster[x] # None => roster'[x] = roster[x]
  BY <1>2, <1>3
<1> QED
  BY <1>4, <1>5, <1>6, <1>7

-----------------------------------------------------------------------------
\* Who may set a row that has an answer back to "unknown".
Excused(r) ==
  \E h \in Handlers :
    /\ byId[h] = r
    /\ \/ step[h] = "link" /\ Merges(h)
       \/ /\ step[h] = "write" /\ job[h].args.status = "unknown"
          /\ job[h].kind \in {"join", "tool"}

Kept ==
  \A r \in Rows :
    /\ roster[r] # None /\ roster[r].status \in GivenAnswers
    /\ roster'[r] # None /\ roster'[r].status = "unknown"
    => Excused(r)

LEMMA SameRoster ==
  ASSUME UNCHANGED roster
  PROVE  Kept
BY DEF Kept, GivenAnswers

LEMMA RosterInvInit == RosterInit => IInv
<1> SUFFICES ASSUME RosterInit PROVE IInv
  OBVIOUS
<1>1. inserted \in 0 .. MaxRows /\ updates \in 0 .. MaxUpdates
  BY RosterAssumption DEF RosterInit
<1>2. RosterTypeOK
  BY <1>1 DEF RosterInit, RosterTypeOK
<1>3. Carries /\ Unused
  BY DEF RosterInit, Carries, Unused
<1> QED
  BY <1>2, <1>3 DEF IInv

\* Steps that begin something.
LEMMA Beginning ==
  ASSUME IInv, NEW h \in Handlers, NEW p \in People,
         Message(h, p) \/ Join(h, p) \/ PrivateReply(h, p)
  PROVE  IInv' /\ Kept
<1>1. CASE Message(h, p)
  <2> DEFINE j == [kind |-> "message", who |-> p, args |-> Sender(p, HandleOf(p))]
  <2>1. Sender(p, HandleOf(p)) \in Row
    BY SenderType DEF HandleOf
  <2>2. j \in Job /\ j.kind = "message" /\ Starts(h, "linkId", j)
    BY <1>1, <2>1 DEF Job, UpdateKinds, Message
  <2> QED
    BY <2>2, StartTypes, SameRoster
<1>2. CASE Join(h, p)
  <2> DEFINE j == [kind |-> "join", who |-> p, args |-> Sender(p, None)]
  <2>1. Sender(p, None) \in Row
    BY SenderType
  <2>2. j \in Job /\ j.kind = "join" /\ Starts(h, "findId", j)
    BY <1>2, <2>1 DEF Job, UpdateKinds, Join
  <2> QED
    BY <2>2, StartTypes, SameRoster
<1>3. CASE PrivateReply(h, p)
  <2>1. PICK r \in Present, answer \in GivenAnswers :
          Starts(h, "wait",
                 [kind |-> "dm", who |-> p,
                  args |-> Normalised([uid |-> p, handle |-> None,
                                       name |-> roster[r].name, status |-> answer])])
    BY <1>3 DEF PrivateReply
  <2> DEFINE a == [uid |-> p, handle |-> None, name |-> roster[r].name, status |-> answer]
             j == [kind |-> "dm", who |-> p, args |-> Normalised(a)]
  <2>2. a \in Row /\ a.status = answer
    BY <2>1, PresentRows DEF Row, Statuses, IInv
  <2>3. Normalised(a) \in Row /\ Normalised(a).status = answer
    BY <2>2, NormalisedType
  <2>4. j \in Job /\ j.args.status \in GivenAnswers
    BY <2>1, <2>3 DEF Job, UpdateKinds
  <2> QED
    BY <2>1, <2>4, StartTypes, SameRoster
<1> QED
  BY <1>1, <1>2, <1>3

\* Steps that search.
LEMMA Searching ==
  ASSUME IInv, NEW h \in Handlers, LinkById(h) \/ LinkByHandle(h) \/ Find(h)
  PROVE  IInv' /\ Kept
<1>1. /\ UNCHANGED <<roster, inserted, job, updates, overlapped>>
      /\ step[h] # "idle" /\ job[h] \in Job
  BY DEF LinkById, LinkByHandle, Find, tables, IInv, Carries
<1>2. /\ step' \in [Handlers -> {"idle", "linkId", "linkHandle", "link", "findId",
                                "findHandle", "findName", "write", "turn", "wait"}]
      /\ \A g \in Handlers : step'[g] # "idle" => step[g] # "idle"
  <2>1. CASE LinkById(h) \/ LinkByHandle(h)
    BY <1>1, <2>1 DEF LinkById, LinkByHandle, IInv, RosterTypeOK
  <2>2. CASE Find(h)
    <3>1. After(step[h]) \in {"findHandle", "findName", "write"}
      BY <2>2 DEF Find, After
    <3> QED
      BY <1>1, <2>2, <3>1 DEF Find, IInv, RosterTypeOK
  <2> QED
    BY <2>1, <2>2
<1>3. /\ byId' \in [Handlers -> Rows \cup {None}]
      /\ byHandle' \in [Handlers -> [id : Rows, status : Statuses] \cup {None}]
  <2>1. CASE LinkById(h)
    BY <2>1 DEF LinkById, IInv, RosterTypeOK, Present
  <2>2. CASE LinkByHandle(h)
    <3>1. \A r \in Present :
            [id |-> r, status |-> roster[r].status] \in [id : Rows, status : Statuses]
      BY PresentRows DEF IInv, Row
    <3> QED
      BY <2>2, <3>1 DEF LinkByHandle, IInv, RosterTypeOK
  <2>3. CASE Find(h)
    <3>1. Best(Matches(step[h], job[h].args)) \subseteq Rows
      BY DEF Best, Matches, Present
    <3> QED
      BY <2>3, <3>1 DEF Find, IInv, RosterTypeOK
  <2> QED
    BY <2>1, <2>2, <2>3
<1> QED
  BY <1>1, <1>2, <1>3, SameRoster DEF IInv, RosterTypeOK, Carries, Unused

\* link_identity's write.
LEMMA Linking ==
  ASSUME IInv, NEW h \in Handlers, Link(h)
  PROVE  IInv' /\ Kept
<1> DEFINE l == Linked(h)
<1>1. /\ step[h] = "link" /\ UNCHANGED <<inserted, updates, overlapped>>
      /\ job[h] \in Job
      /\ job[h].kind = "dm" => job[h].args.status \in GivenAnswers
  BY DEF Link, IInv, Carries
<1>2. /\ l.left \subseteq Present
      /\ l.id \in l.left => /\ l.row \in Row
                            /\ ~Merges(h) => l.row.status = roster[l.id].status
                            /\ Merges(h) => l.id = byId[h]
  BY <1>1, LinkedType
<1>3. CASE Rewrite(l.id, l.row, l.left) /\ Onto(h, "findId", job[h])
  <2>1. /\ roster' \in [Rows -> Row \cup {None}]
        /\ \A x \in Rows : x > inserted => roster'[x] = None
        /\ \A x \in Rows : x # l.id \/ l.id \notin l.left => roster'[x] \in {None, roster[x]}
        /\ l.id \in l.left => roster'[l.id] = l.row
    <3>1. CASE l.id \in l.left
      BY <1>2, <1>3, <3>1, RewriteTypes DEF Present
    <3>2. CASE l.id \notin l.left
      <4>1. roster' = [x \in Rows |-> IF x \notin l.left THEN None
                                     ELSE IF x = l.id THEN l.row ELSE roster[x]]
        BY <1>3 DEF Rewrite
      <4>2. roster' = [x \in Rows |-> IF x \notin l.left THEN None ELSE roster[x]]
        BY <3>2, <4>1
      <4> HIDE DEF l
      <4> QED
        BY <1>2, <3>2, <4>2 DEF IInv, RosterTypeOK, Unused, Present
    <3> QED
      BY <3>1, <3>2
  <2>2. IInv'
    BY <1>1, <1>3, <2>1, OntoTypes DEF IInv, RosterTypeOK, Unused
  <2>3. Kept
    <3> SUFFICES ASSUME NEW r \in Rows, roster[r].status \in GivenAnswers,
                        roster'[r] # None, roster'[r].status = "unknown"
                 PROVE  Excused(r)
      BY DEF Kept
    <3>1. r = l.id /\ l.id \in l.left /\ l.row.status = "unknown"
      BY <2>1 DEF GivenAnswers
    <3>2. Merges(h) /\ l.id = byId[h]
      BY <1>2, <3>1 DEF GivenAnswers
    <3> QED
      BY <1>1, <3>1, <3>2 DEF Excused
  <2> QED
    BY <2>2, <2>3
<1>4. CASE Onto(h, "turn", job[h]) /\ UNCHANGED roster
  BY <1>1, <1>4, OntoTypes, SameRoster DEF IInv, RosterTypeOK, Unused
<1> QED
  BY <1>3, <1>4 DEF Link

\* The writes of record_speaker and set_participant.
LEMMA Writing ==
  ASSUME IInv, NEW h \in Handlers, Record(h) \/ Set(h)
  PROVE  IInv' /\ Kept
<1> DEFINE a == job[h].args
<1>1. /\ step[h] = "write" /\ UNCHANGED <<updates, overlapped>>
      /\ job[h] \in Job /\ a \in Row
      /\ job[h].kind = "dm" => a.status \in GivenAnswers
  BY DEF Record, Set, IInv, Carries, Job
<1>2. /\ step' \in [Handlers -> {"idle", "linkId", "linkHandle", "link", "findId",
                                "findHandle", "findName", "write", "turn", "wait"}]
      /\ job' \in [Handlers -> Job \cup {None}]
      /\ byId' \in [Handlers -> Rows \cup {None}]
      /\ byHandle' \in [Handlers -> [id : Rows, status : Statuses] \cup {None}]
      /\ Carries'
  <2>1. Onto(h, "turn", job[h]) \/ Over(h)
    BY DEF Record, Set
  <2> QED
    BY <1>1, <2>1, OntoTypes, OverTypes
<1>3. CASE UNCHANGED tables
  BY <1>1, <1>2, <1>3, SameRoster DEF tables, IInv, RosterTypeOK, Unused
<1>4. CASE Insert(a)
  <2>1. /\ roster' \in [Rows -> Row \cup {None}] /\ inserted' \in 0 .. MaxRows
        /\ \A x \in Rows : x > inserted' => roster'[x] = None
        /\ \A x \in Rows : roster[x] # None => roster'[x] = roster[x]
    BY <1>1, <1>4, InsertTypes
  <2>2. Kept
    BY <2>1 DEF Kept, GivenAnswers
  <2> QED
    BY <1>1, <1>2, <2>1, <2>2 DEF IInv, RosterTypeOK, Unused
<1>5. CASE UNCHANGED inserted /\ Set(h) /\ byId[h] \in Present /\ ~UNCHANGED roster
  <2> DEFINE r == byId[h]
             row == [uid |-> Coalesce(a.uid, roster[r].uid),
                     handle |-> Coalesce(a.handle, roster[r].handle),
                     name |-> NameFor(a, roster[r]), status |-> a.status]
  <2>1. r \in Rows /\ roster[r] \in Row
    BY <1>5, PresentRows DEF IInv
  <2>2. Rewrite(r, row, Present) /\ job[h].kind # "message"
    BY <1>4, <1>5, RosterAssumption DEF Set, Present, Rows, Insert
  <2>3. row \in Row /\ row.status = a.status
    <3>1. /\ Coalesce(a.uid, roster[r].uid) \in People \cup {None}
          /\ Coalesce(a.handle, roster[r].handle) \in People \cup {None}
      BY <1>1, <2>1, CoalesceType DEF Row
    <3>2. NameFor(a, roster[r]) \in Names /\ a.status \in Statuses
      BY <1>1, <2>1, NameType DEF Row
    <3> QED
      BY <3>1, <3>2 DEF Row
  <2>4. /\ roster' \in [Rows -> Row \cup {None}]
        /\ \A x \in Rows : x > inserted => roster'[x] = None
        /\ \A x \in Rows : x # r => roster'[x] \in {None, roster[x]}
        /\ roster'[r] = row
    BY <1>5, <2>1, <2>2, <2>3, RewriteTypes
  <2>5. a.status = "unknown" => job[h].kind \in {"join", "tool"}
    BY <1>1, <2>2 DEF Job, UpdateKinds, GivenAnswers
  <2>6. Kept
    <3> SUFFICES ASSUME NEW x \in Rows, roster[x].status \in GivenAnswers,
                        roster'[x] # None, roster'[x].status = "unknown"
                 PROVE  Excused(x)
      BY DEF Kept
    <3>1. x = r
      BY <2>4 DEF GivenAnswers
    <3>2. a.status = "unknown"
      BY <2>3, <2>4, <3>1
    <3> QED
      BY <1>1, <2>5, <3>1, <3>2 DEF Excused
  <2>7. IInv'
    BY <1>1, <1>2, <1>5, <2>4 DEF IInv, RosterTypeOK, Unused
  <2> QED
    BY <2>6, <2>7
<1> QED
  <2>1. CASE Record(h)
    BY <1>3, <1>4, <2>1 DEF Record
  <2>2. CASE Set(h)
    BY <1>3, <1>4, <1>5, <2>2 DEF Set, tables
  <2> QED
    BY <2>1, <2>2

\* The rest of a turn, and the administrators' handles.
LEMMA Others ==
  ASSUME IInv,
         \/ \E h \in Handlers : ReportAnswer(h) \/ SpeakerDone(h) \/ ReplyClassified(h)
         \/ \E p \in People : AdminSeen(p)
  PROVE  IInv' /\ Kept
<1>1. ASSUME NEW h \in Handlers, ReportAnswer(h) PROVE IInv' /\ Kept
  <2>1. job[h] \in Job /\ job[h].who \in People
    BY <1>1 DEF ReportAnswer, IInv, Carries, Job
  <2>2. PICK a \in Reports :
          Onto(h, IF a.uid = None THEN "findHandle" ELSE "findId",
               [job[h] EXCEPT !.kind = "tool", !.args = a])
    BY <1>1 DEF ReportAnswer
  <2>3. a \in Row
    BY <2>2, ReportTypes
  <2> DEFINE j == [job[h] EXCEPT !.kind = "tool", !.args = a]
             s == IF a.uid = None THEN "findHandle" ELSE "findId"
  <2>4. j \in Job /\ j.kind = "tool"
    BY <2>1, <2>3 DEF Job, UpdateKinds
  <2>5. s \in {"findHandle", "findId"}
    OBVIOUS
  <2>6. UNCHANGED <<roster, inserted, overlapped>>
    BY <1>1 DEF ReportAnswer, tables
  <2>7. updates' \in 0 .. MaxUpdates
    <3>1. updates \in 0 .. MaxUpdates /\ updates < MaxUpdates /\ updates' = updates + 1
      BY <1>1 DEF ReportAnswer, IInv, RosterTypeOK
    <3> QED
      BY <3>1, RosterAssumption
  <2> HIDE DEF j, s
  <2> QED
    BY <2>2, <2>4, <2>5, <2>6, <2>7, OntoTypes, SameRoster DEF IInv, RosterTypeOK, Unused, j, s
<1>2. ASSUME NEW h \in Handlers, SpeakerDone(h) PROVE IInv' /\ Kept
  BY <1>2, OverTypes, SameRoster DEF SpeakerDone, tables, IInv, RosterTypeOK, Unused
<1>3. ASSUME NEW h \in Handlers, ReplyClassified(h) PROVE IInv' /\ Kept
  <2>1. /\ job[h] \in Job
        /\ job[h].kind = "dm" => job[h].args.status \in GivenAnswers
    BY <1>3 DEF ReplyClassified, IInv, Carries
  <2> QED
    BY <1>3, <2>1, OntoTypes, SameRoster DEF ReplyClassified, tables, IInv, RosterTypeOK, Unused
<1>4. ASSUME NEW p \in People, AdminSeen(p) PROVE IInv' /\ Kept
  <2>1. \A r \in Rows : \/ roster'[r] = roster[r]
                        \/ r \in Present /\ roster'[r] = [roster[r] EXCEPT !.handle = p]
    BY <1>4 DEF AdminSeen
  <2>2. \A r \in Present : /\ [roster[r] EXCEPT !.handle = p] \in Row
                           /\ [roster[r] EXCEPT !.handle = p].status = roster[r].status
    <3> SUFFICES ASSUME NEW r \in Present
                 PROVE  /\ [roster[r] EXCEPT !.handle = p] \in Row
                        /\ [roster[r] EXCEPT !.handle = p].status = roster[r].status
      OBVIOUS
    <3>1. roster[r] \in Row
      BY PresentRows DEF IInv
    <3> QED
      BY <3>1 DEF Row
  <2>3. roster' \in [Rows -> Row \cup {None}]
    <3>1. DOMAIN roster' = Rows /\ roster' = [r \in Rows |-> roster'[r]]
      BY <1>4 DEF AdminSeen
    <3> QED
      BY <2>1, <2>2, <3>1 DEF IInv, RosterTypeOK
  <2>4. \A r \in Rows : r > inserted => roster'[r] = None
    BY <2>1 DEF IInv, Unused, Present
  <2>5. Kept
    BY <2>1, <2>2 DEF Kept, GivenAnswers
  <2> QED
    BY <1>4, <2>3, <2>4, <2>5 DEF AdminSeen, locals, IInv, RosterTypeOK, Carries, Unused
<1> QED
  BY <1>1, <1>2, <1>3, <1>4

LEMMA RosterStep ==
  ASSUME IInv, [RosterNext]_rvars
  PROVE  IInv' /\ Kept
<1>1. CASE RosterNext
  BY <1>1, Beginning, Searching, Linking, Writing, Others DEF RosterNext
<1>2. CASE UNCHANGED rvars
  BY <1>2, SameRoster
     DEF rvars, tables, locals, IInv, RosterTypeOK, Carries, Unused
<1> QED
  BY <1>1, <1>2

LEMMA RosterInvariance == RosterSpec => []IInv
BY RosterInvInit, RosterStep, PTL DEF RosterSpec

-----------------------------------------------------------------------------
\* Every variable keeps its type: no row loses its name, and no search finds
\* what is no id.
THEOREM RosterTyping == RosterSpec => []RosterTypeOK
BY RosterInvariance, PTL DEF IInv

\* Nobody's answer goes back to "unknown" but by a merge, a join, or a report
\* that says so.
THEOREM AnswersStay == RosterSpec => NoAnswerLost
<1>1. IInv /\ [RosterNext]_rvars =>
        [\A r \in Rows :
           /\ roster[r] # None /\ roster[r].status \in GivenAnswers
           /\ roster'[r] # None /\ roster'[r].status = "unknown"
           => \E h \in Handlers :
                /\ byId[h] = r
                /\ \/ step[h] = "link" /\ Merges(h)
                   \/ /\ step[h] = "write" /\ job[h].args.status = "unknown"
                      /\ job[h].kind \in {"join", "tool"}]_rvars
  BY RosterStep DEF Kept, Excused
<1> QED
  BY <1>1, RosterInvariance, PTL DEF RosterSpec, NoAnswerLost

-----------------------------------------------------------------------------
\* OneRowAfterSpeaking.  The index keeps handles apart, whatever is in hand.
OneHandle ==
  \A r, s \in Present :
    roster[r].handle # None /\ roster[r].handle = roster[s].handle => r = s

\* Nothing keeps user ids apart but the searches, while one update is in hand.
OneId ==
  \A r, s \in Present : roster[r].uid # None /\ roster[r].uid = roster[s].uid => r = s

NoneHas(u) == \A r \in Present : roster[r].uid # u

\* The rows of somebody with a @username bear it.
Bears(p) == p \in WithHandle => \A r \in Present : roster[r].uid = p => roster[r].handle = p

Alone == \A g, h \in Handlers : step[g] # "idle" /\ step[h] # "idle" => g = h

\* What the arguments say of whoever the update is from.
Speaks(h) ==
  LET a == job[h].args
      who == job[h].who
  IN /\ step[h] \in {"linkId", "linkHandle", "link"} => job[h].kind = "message"
     /\ step[h] = "turn" => job[h].kind \in {"message", "tool"}
     /\ step[h] = "wait" => job[h].kind = "dm"
     /\ job[h].kind = "message" => a.uid = who /\ a.handle = HandleOf(who)
     /\ /\ step[h] \in {"findId", "findHandle", "findName", "write", "turn"}
        /\ job[h].kind = "message"
        => Bears(who)

\* What a search found, with nobody else there to change it, is still so.
Searched(h) ==
  LET a == job[h].args
  IN /\ step[h] \in {"linkHandle", "link"} =>
          IF byId[h] = None THEN NoneHas(a.uid)
          ELSE byId[h] \in Present /\ roster[byId[h]].uid = a.uid
     /\ step[h] \in {"linkId", "linkHandle"} => byHandle[h] = None
     /\ step[h] = "linkHandle" => a.handle # None
     /\ step[h] = "link" /\ byHandle[h] # None =>
          /\ a.handle # None /\ byHandle[h].id \in Present
          /\ roster[byHandle[h].id].handle = a.handle
     /\ step[h] = "link" /\ byHandle[h] = None /\ byId[h] # None /\ a.handle # None =>
          \A r \in Present : roster[r].handle = a.handle => r = byId[h]
     /\ step[h] \in {"findId", "findHandle", "findName"} => byId[h] = None
     /\ step[h] \in {"findHandle", "findName"} /\ a.uid # None => NoneHas(a.uid)
     /\ step[h] = "write" /\ byId[h] = None /\ a.uid # None => NoneHas(a.uid)
     /\ step[h] = "write" /\ byId[h] # None =>
          /\ byId[h] \in Present
          /\ a.uid # None => roster[byId[h]].uid = a.uid \/ NoneHas(a.uid)

Calm ==
  ~overlapped => /\ Alone /\ OneId
                 /\ \A h \in Handlers : step[h] # "idle" => Speaks(h) /\ Searched(h)

OneEach == IInv /\ OneHandle /\ Calm

LEMMA OneEachInit == RosterInit => OneHandle /\ Calm
BY DEF RosterInit, OneHandle, Calm, Alone, OneId, Present

\* At the turn, whoever has spoken has one row at most.
LEMMA OneEachMeans == OneEach => OneRowAfterSpeaking
<1>1. ASSUME OneEach, NEW h \in Handlers, step[h] = "turn", ~overlapped,
             job[h].kind = "message",
             NEW p, p = job[h].who, NEW own,
             own = {r \in Present : \/ roster[r].uid = p
                                    \/ p \in WithHandle /\ roster[r].handle = p}
      PROVE  Cardinality(own) <= 1
  <2>1. p \in People /\ p # None
    BY <1>1, RosterAssumption DEF OneEach, IInv, Carries, Job
  <2>2. Bears(p) /\ OneId /\ OneHandle
    BY <1>1 DEF OneEach, Calm, Speaks
  <2>3. ASSUME NEW r \in own, NEW s \in own PROVE r = s
    <3>1. CASE p \in WithHandle
      <4>1. /\ r \in Present /\ roster[r].handle = p
            /\ s \in Present /\ roster[s].handle = p
        BY <1>1, <2>2, <3>1 DEF Bears
      <4> QED
        BY <2>1, <2>2, <4>1 DEF OneHandle
    <3>2. CASE p \notin WithHandle
      <4>1. /\ r \in Present /\ roster[r].uid = p
            /\ s \in Present /\ roster[s].uid = p
        BY <1>1, <3>2
      <4> QED
        BY <2>1, <2>2, <4>1 DEF OneId
    <3> QED
      BY <3>1, <3>2
  <2>4. CASE own = {}
    <3>1. Cardinality(own) = 0
      BY <2>4, FS_EmptySet
    <3> QED
      BY <3>1
  <2>5. CASE own # {}
    <3>1. PICK x : own = {x}
      BY <2>3, <2>5
    <3>2. Cardinality(own) = 1
      BY <3>1, FS_Singleton
    <3> QED
      BY <3>2
  <2> QED
    BY <2>4, <2>5
<1> QED
  BY <1>1 DEF OneRowAfterSpeaking

-----------------------------------------------------------------------------
\* What a write does to the handles and to the ids.
LEMMA RewriteKeys ==
  ASSUME IInv, NEW r \in Rows, NEW row \in Row, NEW left \in SUBSET Present, r \in left,
         Rewrite(r, row, left)
  PROVE  /\ Present' = left
         /\ roster'[r] = row
         /\ \A x \in left : x # r => roster'[x] = roster[x]
BY RowAssumption DEF Rewrite, Present

LEMMA InsertKeys ==
  ASSUME IInv, NEW a \in Row, Insert(a)
  PROVE  \E n \in Rows : /\ Present' = Present \cup {n} /\ n \notin Present
                         /\ roster'[n] = a
                         /\ \A x \in Present : roster'[x] = roster[x]
<1>1. inserted + 1 \in Rows /\ inserted + 1 > inserted
  BY RosterAssumption DEF IInv, RosterTypeOK, Insert, Rows
<1>2. PICK n \in Rows : n = inserted + 1
  BY <1>1
<1>3. n \notin Present
  BY <1>1, <1>2 DEF IInv, Unused, Present
<1>4. /\ roster \in [Rows -> Row \cup {None}]
      /\ roster' = [roster EXCEPT ![n] = a]
  BY <1>2 DEF IInv, RosterTypeOK, Insert
<1>5. roster'[n] = a /\ \A x \in Rows : x # n => roster'[x] = roster[x]
  BY <1>4
<1>6. Present' = Present \cup {n}
  BY <1>5, RowAssumption DEF Present
<1> QED
  BY <1>3, <1>5, <1>6 DEF Present

\* The row that is written is told apart by its handle if the index allows it,
\* and by its id if it had that id or nobody has.
LEMMA RewriteApart ==
  ASSUME IInv, NEW r \in Rows, NEW row \in Row, NEW left \in SUBSET Present, r \in left,
         Rewrite(r, row, left)
  PROVE  /\ OneHandle /\ IndexAllows(row.handle, r, left) => OneHandle'
         /\ OneId /\ (row.uid = roster[r].uid \/ NoneHas(row.uid)) => OneId'
         /\ \A p : Bears(p) /\ (row.uid = p /\ p \in WithHandle => row.handle = p)
                   => Bears(p)'
<1>1. /\ Present' = left /\ left \subseteq Present
      /\ roster'[r] = row
      /\ \A x \in left : x # r => roster'[x] = roster[x]
  BY RewriteKeys
<1>2. OneHandle /\ IndexAllows(row.handle, r, left) => OneHandle'
  BY <1>1 DEF OneHandle, IndexAllows
<1>3. OneId /\ (row.uid = roster[r].uid \/ NoneHas(row.uid)) => OneId'
  BY <1>1 DEF OneId, NoneHas
<1>4. ASSUME NEW p, Bears(p), row.uid = p /\ p \in WithHandle => row.handle = p
      PROVE  Bears(p)'
  BY <1>1, <1>4 DEF Bears
<1> QED
  BY <1>2, <1>3, <1>4

LEMMA InsertApart ==
  ASSUME IInv, NEW a \in Row, Insert(a)
  PROVE  /\ OneHandle /\ IndexAllows(a.handle, None, Present) => OneHandle'
         /\ OneId /\ (a.uid # None => NoneHas(a.uid)) => OneId'
         /\ \A p : Bears(p) /\ (a.uid = p /\ p \in WithHandle => a.handle = p)
                   => Bears(p)'
<1>1. PICK n \in Rows : /\ Present' = Present \cup {n} /\ n \notin Present
                        /\ roster'[n] = a
                        /\ \A x \in Present : roster'[x] = roster[x]
  BY InsertKeys
<1>2. None \notin Present
  BY RosterAssumption DEF Present, Rows
<1>3. OneHandle /\ IndexAllows(a.handle, None, Present) => OneHandle'
  BY <1>1, <1>2 DEF OneHandle, IndexAllows
<1>4. OneId /\ (a.uid # None => NoneHas(a.uid)) => OneId'
  BY <1>1 DEF OneId, NoneHas
<1>5. ASSUME NEW p, Bears(p), a.uid = p /\ p \in WithHandle => a.handle = p
      PROVE  Bears(p)'
  BY <1>1, <1>5 DEF Bears
<1> QED
  BY <1>3, <1>4, <1>5

-----------------------------------------------------------------------------
\* One update moves while it is the only one in hand.
LEMMA CalmAfter ==
  ASSUME OneEach, NEW h \in Handlers, step[h] # "idle", overlapped' = overlapped,
         \A g \in Handlers : g # h => step'[g] = step[g],
         ~overlapped => OneId' /\ (step'[h] # "idle" => Speaks(h)' /\ Searched(h)')
  PROVE  Calm'
<1> SUFFICES ASSUME ~overlapped PROVE Calm'
  BY DEF Calm
<1>1. \A g \in Handlers : g # h => step'[g] = "idle"
  BY DEF OneEach, Calm, Alone
<1>2. Alone'
  BY <1>1 DEF Alone
<1>3. \A g \in Handlers : (step[g] # "idle")' => Speaks(g)' /\ Searched(g)'
  BY <1>1
<1> QED
  BY <1>2, <1>3 DEF Calm

\* Nothing has been found yet where a search begins, or where none is needed.
LEMMA OntoSearched ==
  ASSUME IInv, NEW h \in Handlers, NEW j,
         NEW s \in {"linkId", "findId", "findHandle", "turn", "wait"},
         Onto(h, s, j), s = "findHandle" => j.args.uid = None
  PROVE  /\ Searched(h)' /\ step'[h] = s /\ job'[h] = j
         /\ \A g \in Handlers : g # h => step'[g] = step[g]
<1>1. /\ step'[h] = s /\ job'[h] = j /\ byId'[h] = None /\ byHandle'[h] = None
      /\ \A g \in Handlers : g # h => step'[g] = step[g]
  BY DEF IInv, RosterTypeOK, Onto
<1> QED
  BY <1>1 DEF Searched

\* A start is the only step that can make two of the updates in hand; if it
\* does not, it is alone.
LEMMA StartCalm ==
  ASSUME OneEach, NEW h \in Handlers, NEW s \in {"linkId", "findId", "wait"}, NEW j \in Job,
         Starts(h, s, j), j.kind \in {"message", "join", "dm"},
         s = "linkId" => j.kind = "message",
         s # "linkId" => j.kind # "message", s = "wait" => j.kind = "dm",
         j.kind = "message" => j.args.uid = j.who /\ j.args.handle = HandleOf(j.who)
  PROVE  OneHandle' /\ Calm'
<1>1. Onto(h, s, j) /\ UNCHANGED roster
  BY DEF Starts, tables
<1>2. OneHandle'
  BY <1>1 DEF OneEach, OneHandle, Present
<1>3. /\ Searched(h)' /\ step'[h] = s /\ job'[h] = j
      /\ \A g \in Handlers : g # h => step'[g] = step[g]
  BY <1>1, OntoSearched DEF OneEach
<1>4. SUFFICES ASSUME ~overlapped' PROVE Calm'
  BY <1>2 DEF Calm
<1>5. ~overlapped /\ \A g \in Handlers : step[g] = "idle"
  BY <1>4 DEF Starts, OneEach, IInv, RosterTypeOK
<1>6. OneId'
  BY <1>1, <1>5 DEF OneEach, Calm, OneId, Present
<1>7. Speaks(h)'
  BY <1>3 DEF Speaks
<1>8. Alone'
  BY <1>3, <1>5 DEF Alone
<1>9. \A g \in Handlers : (step[g] # "idle")' => Speaks(g)' /\ Searched(g)'
  BY <1>3, <1>5, <1>7
<1> QED
  BY <1>6, <1>8, <1>9 DEF Calm

LEMMA BeginningCalm ==
  ASSUME OneEach, NEW h \in Handlers, NEW p \in People,
         Message(h, p) \/ Join(h, p) \/ PrivateReply(h, p)
  PROVE  OneHandle' /\ Calm'
<1>1. CASE Message(h, p)
  <2> DEFINE j == [kind |-> "message", who |-> p, args |-> Sender(p, HandleOf(p))]
  <2>1. Sender(p, HandleOf(p)) \in Row
    BY SenderType DEF HandleOf
  <2>2. j \in Job /\ Starts(h, "linkId", j)
    BY <1>1, <2>1 DEF Job, UpdateKinds, Message
  <2>3. j.kind = "message" /\ j.args.uid = j.who /\ j.args.handle = HandleOf(j.who)
    BY DEF Sender
  <2> HIDE DEF j
  <2> QED
    BY <2>2, <2>3, StartCalm
<1>2. CASE Join(h, p)
  <2> DEFINE j == [kind |-> "join", who |-> p, args |-> Sender(p, None)]
  <2>1. Sender(p, None) \in Row
    BY SenderType
  <2>2. j \in Job /\ j.kind = "join" /\ Starts(h, "findId", j)
    BY <1>2, <2>1 DEF Job, UpdateKinds, Join
  <2> HIDE DEF j
  <2> QED
    BY <2>2, StartCalm
<1>3. CASE PrivateReply(h, p)
  <2>1. PICK r \in Present, answer \in GivenAnswers :
          Starts(h, "wait",
                 [kind |-> "dm", who |-> p,
                  args |-> Normalised([uid |-> p, handle |-> None,
                                       name |-> roster[r].name, status |-> answer])])
    BY <1>3 DEF PrivateReply
  <2> DEFINE a == [uid |-> p, handle |-> None, name |-> roster[r].name, status |-> answer]
             j == [kind |-> "dm", who |-> p, args |-> Normalised(a)]
  <2>2. a \in Row
    BY <2>1, PresentRows DEF Row, Statuses, OneEach, IInv
  <2>3. Normalised(a) \in Row
    BY <2>2, NormalisedType
  <2>4. j \in Job /\ j.kind = "dm" /\ Starts(h, "wait", j)
    BY <2>1, <2>3 DEF Job, UpdateKinds
  <2> HIDE DEF j
  <2> QED
    BY <2>4, StartCalm
<1> QED
  BY <1>1, <1>2, <1>3

\* What is known of the one update in hand.
LEMMA CalmKnows ==
  ASSUME OneEach, NEW h \in Handlers, step[h] # "idle"
  PROVE  /\ IInv /\ OneHandle /\ job[h] \in Job /\ job[h].args \in Row /\ job[h].who \in People
         /\ ~overlapped => OneId /\ Speaks(h) /\ Searched(h)
BY DEF OneEach, Calm, IInv, Carries, Job

LEMMA SearchingCalm ==
  ASSUME OneEach, NEW h \in Handlers, LinkById(h) \/ LinkByHandle(h) \/ Find(h)
  PROVE  OneHandle' /\ Calm'
<1> DEFINE a == job[h].args
<1>1. /\ UNCHANGED <<roster, job, overlapped>> /\ Present' = Present
      /\ step[h] # "idle"
      /\ \A g \in Handlers : g # h => step'[g] = step[g]
  BY DEF LinkById, LinkByHandle, Find, tables, OneEach, IInv, RosterTypeOK, Present
<1>2. OneHandle' /\ (OneId => OneId')
  BY <1>1 DEF OneEach, OneHandle, OneId
<1>3. \A u : NoneHas(u)' <=> NoneHas(u)
  BY <1>1 DEF NoneHas
<1>4. \A p : Bears(p) => Bears(p)'
  BY <1>1 DEF Bears
<1>5. /\ ~overlapped => OneId /\ Speaks(h) /\ Searched(h)
      /\ a \in Row
  BY <1>1, CalmKnows
<1>6. SUFFICES ASSUME ~overlapped PROVE Speaks(h)' /\ Searched(h)'
  BY <1>1, <1>2, <1>5, CalmAfter
<1>7. CASE LinkById(h)
  <2>1. /\ step[h] = "linkId" /\ byHandle'[h] = None
        /\ step'[h] = IF a.handle = None THEN "link" ELSE "linkHandle"
    BY <1>5, <1>6, <1>7 DEF LinkById, OneEach, IInv, RosterTypeOK, Searched
  <2>2. IF byId'[h] = None THEN NoneHas(a.uid)
        ELSE byId'[h] \in Present /\ roster[byId'[h]].uid = a.uid
    <3>1. PICK r \in IF {x \in Present : roster[x].uid = a.uid} = {} THEN {None}
                     ELSE {x \in Present : roster[x].uid = a.uid} :
            byId' = [byId EXCEPT ![h] = r]
      BY <1>7 DEF LinkById
    <3>2. byId'[h] = r
      BY <3>1 DEF OneEach, IInv, RosterTypeOK
    <3>3. None \notin Present
      BY RosterAssumption DEF Present, Rows
    <3> QED
      BY <3>1, <3>2, <3>3 DEF NoneHas
  <2>3. Speaks(h)'
    BY <1>1, <1>5, <1>6, <2>1 DEF Speaks
  <2>4. Searched(h)'
    BY <1>1, <1>3, <2>1, <2>2 DEF Searched
  <2> QED
    BY <2>3, <2>4
<1>8. CASE LinkByHandle(h)
  <2>1. /\ step[h] = "linkHandle" /\ step'[h] = "link" /\ byId' = byId
        /\ a.handle # None
    BY <1>5, <1>6, <1>8 DEF LinkByHandle, OneEach, IInv, RosterTypeOK, Searched
  <2>2. byHandle'[h] # None =>
          byHandle'[h].id \in Present /\ roster[byHandle'[h].id].handle = a.handle
    <3>1. CASE UNCHANGED byHandle
      BY <1>5, <1>6, <2>1, <3>1 DEF Searched
    <3>2. CASE ~UNCHANGED byHandle
      <4>1. PICK r \in {x \in Present : roster[x].handle = a.handle} :
              byHandle' = [byHandle EXCEPT ![h] = [id |-> r, status |-> roster[r].status]]
        BY <1>8, <3>2 DEF LinkByHandle
      <4>2. byHandle'[h] = [id |-> r, status |-> roster[r].status]
        BY <4>1 DEF OneEach, IInv, RosterTypeOK
      <4> QED
        BY <4>1, <4>2
    <3> QED
      BY <3>1, <3>2
  <2>3. Speaks(h)'
    BY <1>1, <1>5, <1>6, <2>1 DEF Speaks
  <2>4. byHandle'[h] = None => \A r \in Present : roster[r].handle # a.handle
    <3> DEFINE found == {r \in Present : roster[r].handle = a.handle}
    <3>1. ASSUME found # {} PROVE byHandle'[h] # None
      <4>1. PICK r \in found :
              byHandle' = [byHandle EXCEPT ![h] = [id |-> r, status |-> roster[r].status]]
        BY <1>8, <3>1 DEF LinkByHandle
      <4>2. byHandle'[h] = [id |-> r, status |-> roster[r].status]
        BY <4>1 DEF OneEach, IInv, RosterTypeOK
      <4>3. byHandle'[h] \in [id : Rows, status : Statuses]
        BY <4>1, <4>2, PresentRows DEF Row, OneEach, IInv
      <4> QED
        BY <4>2, <4>3, RowAssumption
    <3> QED
      BY <3>1
  <2>5. Searched(h)'
    BY <1>1, <1>3, <1>5, <1>6, <2>1, <2>2, <2>4 DEF Searched
  <2> QED
    BY <2>3, <2>5
<1>9. CASE Find(h)
  <2> DEFINE found == Matches(step[h], a)
  <2>1. step[h] \in {"findId", "findHandle", "findName"} /\ byId[h] = None
    BY <1>5, <1>6, <1>9 DEF Find, Searched
  <2>2. Speaks(h)'
    <3>1. step'[h] \in {"findHandle", "findName", "write"}
      BY <1>9, <2>1 DEF Find, After, OneEach, IInv, RosterTypeOK
    <3> QED
      BY <1>1, <1>4, <1>5, <1>6, <2>1, <3>1 DEF Speaks
  <2>3. CASE found = {}
    <3>1. step'[h] = After(step[h]) /\ byId'[h] = None
      BY <1>9, <2>1, <2>3 DEF Find, OneEach, IInv, RosterTypeOK
    <3>2. a.uid # None => NoneHas(a.uid)
      BY <1>5, <1>6, <2>1, <2>3 DEF Searched, Matches, NoneHas
    <3>3. Searched(h)'
      BY <1>1, <1>3, <2>1, <3>1, <3>2 DEF Searched, After
    <3> QED
      BY <2>2, <3>3
  <2>4. CASE found # {}
    <3>1. PICK r \in Best(found) : byId' = [byId EXCEPT ![h] = r]
      BY <1>9, <2>4 DEF Find
    <3>2. step'[h] = "write" /\ byId'[h] = r /\ r \in found
      BY <1>9, <2>4, <3>1 DEF Find, OneEach, IInv, RosterTypeOK, Best
    <3>3. r \in Present /\ r # None
      BY <3>2, RosterAssumption DEF Matches, Present, Rows
    <3>4. a.uid # None => roster[r].uid = a.uid \/ NoneHas(a.uid)
      BY <1>5, <1>6, <2>1, <3>2 DEF Searched, Matches
    <3>5. Searched(h)'
      BY <1>1, <1>3, <3>2, <3>3, <3>4 DEF Searched
    <3> QED
      BY <2>2, <3>5
  <2> QED
    BY <2>3, <2>4
<1> QED
  BY <1>7, <1>8, <1>9

\* Nothing is written, and the update goes on or is over.
LEMMA IdleCalm ==
  ASSUME OneEach, NEW h \in Handlers, step[h] # "idle",
         UNCHANGED <<roster, overlapped>>,
         Over(h) \/ (Onto(h, "turn", job[h]) /\ step[h] = "write" /\ job[h].kind # "dm"
                                             /\ job[h].kind # "join")
  PROVE  OneHandle' /\ Calm'
<1>1. /\ OneHandle' /\ (OneId => OneId')
      /\ \A p : Bears(p) => Bears(p)'
  BY DEF OneEach, OneHandle, OneId, Bears, Present
<1>2. CASE Over(h)
  <2>1. step'[h] = "idle" /\ \A g \in Handlers : g # h => step'[g] = step[g]
    BY <1>2 DEF Over, OneEach, IInv, RosterTypeOK
  <2> QED
    BY <1>1, <2>1, CalmAfter, CalmKnows
<1>3. CASE Onto(h, "turn", job[h]) /\ step[h] = "write" /\ job[h].kind \notin {"dm", "join"}
  <2>1. /\ Searched(h)' /\ step'[h] = "turn" /\ job'[h] = job[h]
        /\ \A g \in Handlers : g # h => step'[g] = step[g]
    BY <1>3, OntoSearched DEF OneEach
  <2>2. ~overlapped => Speaks(h)'
    BY <1>1, <1>3, <2>1, CalmKnows DEF Speaks, Job, UpdateKinds
  <2> QED
    BY <1>1, <2>1, <2>2, CalmAfter, CalmKnows
<1> QED
  BY <1>2, <1>3

\* The keys of the row link_identity writes.
LEMMA LinkedKeys ==
  ASSUME IInv, NEW h \in Handlers, step[h] = "link"
  PROVE  LET l == Linked(h)
             a == job[h].args
         IN /\ byId[h] # None => l.id = byId[h]
            /\ byId[h] = None /\ byHandle[h] # None => l.id = byHandle[h].id
            /\ byId[h] = None /\ byHandle[h] = None => l.id = None
            /\ byId[h] = None => l.left = Present
            /\ byId[h] \in Present => byId[h] \in l.left
            /\ l.id \in l.left =>
                 /\ byId[h] # None => /\ l.row.uid = roster[l.id].uid
                                      /\ a.handle # None => l.row.handle = a.handle
                 /\ byId[h] = None => /\ l.row.uid = a.uid
                                      /\ l.row.handle = roster[l.id].handle
<1> DEFINE l == Linked(h)
           a == job[h].args
<1>1. l.id = IF byId[h] # None THEN byId[h]
             ELSE IF byHandle[h] # None THEN byHandle[h].id ELSE None
  BY DEF Linked
<1>2. l.left = IF Merges(h) THEN Present \ {byHandle[h].id} ELSE Present
  BY DEF Linked
<1>3. l.row = IF l.id \notin l.left THEN None
              ELSE IF Merges(h)
              THEN [roster[l.id] EXCEPT !.status = byHandle[h].status, !.handle = a.handle]
              ELSE IF byId[h] # None
              THEN [roster[l.id] EXCEPT !.handle = Coalesce(a.handle, @),
                                        !.name = NameFor(a, roster[l.id])]
              ELSE [roster[l.id] EXCEPT !.uid = a.uid, !.name = NameFor(a, roster[l.id])]
  BY DEF Linked
<1>4. byId[h] = None => l.left = Present
  BY <1>2 DEF Merges
<1>5. byId[h] \in Present => byId[h] \in l.left
  BY <1>2 DEF Merges
<1>6. ASSUME l.id \in l.left
      PROVE  /\ byId[h] # None => /\ l.row.uid = roster[l.id].uid
                                  /\ a.handle # None => l.row.handle = a.handle
             /\ byId[h] = None => /\ l.row.uid = a.uid
                                  /\ l.row.handle = roster[l.id].handle
  <2>1. roster[l.id] \in Row
    BY <1>2, <1>6, PresentRows DEF IInv
  <2> DEFINE row == roster[l.id]
  <2> HIDE DEF row
  <2>2. row \in Row
    BY <2>1 DEF row
  <2>3. CASE Merges(h)
    <3>1. l.row = [row EXCEPT !.status = byHandle[h].status, !.handle = a.handle]
      BY <1>3, <1>6, <2>3 DEF row
    <3>2. l.row.uid = row.uid /\ l.row.handle = a.handle
      BY <2>2, <3>1 DEF Row
    <3> QED
      BY <2>3, <3>2 DEF Merges, row
  <2>4. CASE ~Merges(h) /\ byId[h] # None
    <3>1. l.row = [row EXCEPT !.handle = Coalesce(a.handle, row.handle), !.name = NameFor(a, row)]
      BY <1>3, <1>6, <2>4 DEF row
    <3>2. l.row.uid = row.uid /\ l.row.handle = Coalesce(a.handle, row.handle)
      BY <2>2, <3>1 DEF Row
    <3> QED
      BY <2>4, <3>2 DEF Coalesce, row
  <2>5. CASE byId[h] = None
    <3>1. l.row = [row EXCEPT !.uid = a.uid, !.name = NameFor(a, row)]
      BY <1>3, <1>6, <2>5 DEF row, Merges
    <3>2. l.row.uid = a.uid /\ l.row.handle = row.handle
      BY <2>2, <3>1 DEF Row
    <3> QED
      BY <2>5, <3>2 DEF row
  <2> QED
    BY <2>3, <2>4, <2>5
<1> HIDE DEF l
<1>7. /\ byId[h] # None => l.id = byId[h]
      /\ byId[h] = None /\ byHandle[h] # None => l.id = byHandle[h].id
      /\ byId[h] = None /\ byHandle[h] = None => l.id = None
  BY <1>1
<1> QED
  BY <1>4, <1>5, <1>6, <1>7 DEF l

\* Alone, link_identity is never refused by the index.
LEMMA LinkAllowed ==
  ASSUME OneEach, NEW h \in Handlers, step[h] = "link", ~overlapped, Linked(h).row # None
  PROVE  IndexAllows(Linked(h).row.handle, Linked(h).id, Linked(h).left)
<1> DEFINE l == Linked(h)
           a == job[h].args
<1> SUFFICES IndexAllows(l.row.handle, l.id, l.left)
  OBVIOUS
<1>1. /\ Speaks(h) /\ Searched(h) /\ OneHandle
  BY CalmKnows
<1>2. l.left = IF Merges(h) THEN Present \ {byHandle[h].id} ELSE Present
  BY DEF Linked
<1>3. l.id \in l.left
  BY DEF Linked
<1>4. /\ byId[h] # None => l.id = byId[h] /\ (a.handle # None => l.row.handle = a.handle)
      /\ byId[h] = None /\ byHandle[h] # None => l.id = byHandle[h].id
      /\ byId[h] = None /\ byHandle[h] = None => l.id = None
      /\ byId[h] = None => l.row.handle = roster[l.id].handle
  BY <1>3, LinkedKeys DEF OneEach
<1>5. byId[h] # None /\ a.handle = None => l.row.handle = roster[l.id].handle
  <2>1. ASSUME byId[h] # None, a.handle = None PROVE l.row.handle = roster[l.id].handle
    <3>1. byHandle[h] = None /\ ~Merges(h)
      BY <1>1, <2>1 DEF Searched, Merges
    <3>2. roster[l.id] \in Row
      BY <1>2, <1>3, PresentRows DEF OneEach, IInv
    <3>3. l.row = [roster[l.id] EXCEPT !.handle = Coalesce(a.handle, @),
                                       !.name = NameFor(a, roster[l.id])]
      BY <1>3, <2>1, <3>1 DEF Linked
    <3> HIDE DEF l
    <3> QED
      BY <2>1, <3>2, <3>3 DEF Coalesce, Row
  <2> QED
    BY <2>1
<1> HIDE DEF l
<1>6. l.left \subseteq Present /\ l.id \in Present
  BY <1>2, <1>3
<1>7. CASE l.row.handle = roster[l.id].handle
  BY <1>1, <1>6, <1>7 DEF OneHandle, IndexAllows
<1>8. CASE byId[h] # None /\ a.handle # None
  <2>1. ASSUME NEW r \in l.left, roster[r].handle = a.handle PROVE r = l.id
    <3>1. CASE byHandle[h] = None
      BY <1>1, <1>4, <1>6, <1>8, <2>1, <3>1 DEF Searched
    <3>2. CASE byHandle[h] # None
      <4>1. byHandle[h].id \in Present /\ roster[byHandle[h].id].handle = a.handle
        BY <1>1, <3>2 DEF Searched
      <4>2. r = byHandle[h].id
        BY <1>1, <1>6, <1>8, <2>1, <4>1 DEF OneHandle
      <4> QED
        BY <1>2, <1>4, <1>8, <2>1, <3>2, <4>2 DEF Merges
    <3> QED
      BY <3>1, <3>2
  <2> QED
    BY <1>4, <1>8, <2>1 DEF IndexAllows
<1> QED
  BY <1>4, <1>5, <1>7, <1>8

\* link_identity leaves no row under the sender's id without their handle.
LEMMA LinkCalm ==
  ASSUME OneEach, NEW h \in Handlers, Link(h)
  PROVE  OneHandle' /\ Calm'
<1> DEFINE l == Linked(h)
           a == job[h].args
<1>1. step[h] = "link" /\ overlapped' = overlapped
  BY DEF Link
<1>2. /\ l.left \subseteq Present
      /\ l.id \in l.left => l.row \in Row
  BY <1>1, LinkedType DEF OneEach
<1>3. CASE /\ l.row # None /\ ~IndexAllows(l.row.handle, l.id, l.left)
           /\ Onto(h, "turn", job[h]) /\ UNCHANGED roster
  <2>1. OneHandle' /\ (OneId => OneId')
    BY <1>3 DEF OneEach, OneHandle, OneId, Present
  <2>2. \A g \in Handlers : g # h => step'[g] = step[g]
    BY <1>3, OntoSearched DEF OneEach
  <2>3. overlapped
    BY <1>1, <1>3, LinkAllowed
  <2> QED
    BY <1>1, <2>1, <2>2, <2>3, CalmAfter
<1>4. CASE /\ l.row # None => IndexAllows(l.row.handle, l.id, l.left)
           /\ Rewrite(l.id, l.row, l.left) /\ Onto(h, "findId", job[h])
  <2>1. /\ Searched(h)' /\ step'[h] = "findId" /\ job'[h] = job[h]
        /\ \A g \in Handlers : g # h => step'[g] = step[g]
    BY <1>4, OntoSearched DEF OneEach
  <2> HIDE DEF l
  <2>2. /\ byId[h] # None => l.id = byId[h]
        /\ byId[h] = None /\ byHandle[h] # None => l.id = byHandle[h].id
        /\ byId[h] = None /\ byHandle[h] = None => l.id = None
        /\ byId[h] = None => l.left = Present
        /\ byId[h] \in Present => byId[h] \in l.left
    BY <1>1, LinkedKeys DEF OneEach, l
  <2>3. l.id \in l.left =>
          /\ byId[h] # None => /\ l.row.uid = roster[l.id].uid
                               /\ a.handle # None => l.row.handle = a.handle
          /\ byId[h] = None => /\ l.row.uid = a.uid
                               /\ l.row.handle = roster[l.id].handle
    BY <1>1, LinkedKeys DEF OneEach, l
  <2>4. CASE l.id \notin l.left
    <3>1. /\ Present' \subseteq l.left
          /\ \A x \in l.left : roster'[x] = roster[x]
      BY <1>2, <1>4, <2>4 DEF Rewrite, Present
    <3>2. OneHandle' /\ (OneId => OneId')
      BY <1>2, <3>1 DEF OneEach, OneHandle, OneId
    <3>3. ASSUME ~overlapped PROVE Speaks(h)'
      <4>1. Speaks(h) /\ Searched(h)
        BY <1>1, <3>3, CalmKnows
      <4>2. byId[h] = None /\ NoneHas(a.uid) /\ job[h].kind = "message" /\ a.uid = job[h].who
        BY <1>1, <2>2, <2>4, <4>1 DEF Searched, Speaks
      <4>3. PICK p : p = job[h].who
        OBVIOUS
      <4>4. Bears(p)'
        BY <1>2, <3>1, <4>2, <4>3 DEF Bears, NoneHas
      <4> QED
        BY <2>1, <4>1, <4>2, <4>3, <4>4 DEF Speaks
    <3> QED
      BY <1>1, <2>1, <3>2, <3>3, CalmAfter, CalmKnows
  <2>5. CASE l.id \in l.left
    <3>1. /\ l.id \in Rows /\ l.row \in Row /\ l.row # None
          /\ l.left \in SUBSET Present
      BY <1>2, <2>5, RowAssumption DEF Present
    <3>2. /\ Present' = l.left /\ roster'[l.id] = l.row
          /\ \A x \in l.left : x # l.id => roster'[x] = roster[x]
      BY <1>4, <2>5, <3>1, RewriteKeys DEF OneEach
    <3>3. /\ OneHandle'
          /\ OneId /\ (l.row.uid = roster[l.id].uid \/ NoneHas(l.row.uid)) => OneId'
      BY <1>4, <2>5, <3>1, RewriteApart DEF OneEach
    <3>4. ASSUME ~overlapped PROVE OneId' /\ Speaks(h)'
      <4>1. Speaks(h) /\ Searched(h) /\ OneId
        BY <1>1, <3>4, CalmKnows
      <4>2. /\ job[h].kind = "message" /\ a.uid = job[h].who /\ a.handle = HandleOf(job[h].who)
            /\ IF byId[h] = None THEN NoneHas(a.uid)
               ELSE byId[h] \in Present /\ roster[byId[h]].uid = a.uid
            /\ byHandle[h] # None => roster[byHandle[h].id].handle = a.handle
        BY <1>1, <4>1 DEF Searched, Speaks
      <4>3. OneId'
        BY <2>3, <2>5, <3>3, <4>1, <4>2
      <4>4. byId[h] = None => byHandle[h] # None
        BY <2>2, <2>5, <3>1, RosterAssumption DEF Rows
      <4>5. ASSUME a.uid \in WithHandle PROVE l.row.handle = a.uid
        <5>1. a.handle = a.uid /\ a.handle # None
          BY <4>2, <4>5, RosterAssumption DEF HandleOf
        <5> QED
          BY <2>2, <2>3, <2>5, <4>2, <4>4, <5>1
      <4>6. \A x \in l.left : x # l.id => roster[x].uid # a.uid
        <5>1. a.uid # None
          BY <1>1, <4>2, CalmKnows, RosterAssumption
        <5> QED
          BY <2>2, <3>1, <4>1, <4>2, <5>1 DEF OneId, NoneHas
      <4>7. PICK p : p = job[h].who
        OBVIOUS
      <4>8. Bears(p)'
        BY <3>2, <4>2, <4>5, <4>6, <4>7 DEF Bears
      <4> QED
        BY <2>1, <4>1, <4>2, <4>3, <4>7, <4>8 DEF Speaks
    <3> QED
      BY <1>1, <2>1, <3>3, <3>4, CalmAfter, CalmKnows
  <2> QED
    BY <2>4, <2>5
<1> QED
  BY <1>1, <1>3, <1>4 DEF Link

\* Where the update stands after a write, however it went.
LEMMA WroteCalm ==
  ASSUME OneEach, NEW h \in Handlers, step[h] = "write", overlapped' = overlapped,
         \/ Onto(h, "turn", job[h]) /\ job[h].kind \in {"message", "tool"}
         \/ Over(h),
         OneHandle',
         ~overlapped => OneId' /\ \A p : p = job[h].who /\ job[h].kind = "message"
                                         => Bears(p)'
  PROVE  Calm'
<1>1. CASE Over(h)
  <2>1. step'[h] = "idle" /\ \A g \in Handlers : g # h => step'[g] = step[g]
    BY <1>1 DEF Over, OneEach, IInv, RosterTypeOK
  <2> QED
    BY <2>1, CalmAfter
<1>2. CASE Onto(h, "turn", job[h]) /\ job[h].kind \in {"message", "tool"}
  <2>1. /\ Searched(h)' /\ step'[h] = "turn" /\ job'[h] = job[h]
        /\ \A g \in Handlers : g # h => step'[g] = step[g]
    BY <1>2, OntoSearched DEF OneEach
  <2>2. PICK p : p = job[h].who
    OBVIOUS
  <2>3. ~overlapped => (job[h].kind = "message" => Bears(p)') /\ Speaks(h)
    BY <1>2, <2>2, CalmKnows
  <2>4. ~overlapped => Speaks(h)'
    BY <1>2, <2>1, <2>2, <2>3 DEF Speaks
  <2> QED
    BY <2>1, <2>4, CalmAfter
<1> QED
  BY <1>1, <1>2

\* An INSERT by whoever has found nobody.
LEMMA InsertCalm ==
  ASSUME OneEach, NEW h \in Handlers, step[h] = "write", byId[h] = None,
         IndexAllows(job[h].args.handle, None, Present), Insert(job[h].args)
  PROVE  /\ OneHandle'
         /\ ~overlapped => OneId' /\ \A p : p = job[h].who /\ job[h].kind = "message"
                                            => Bears(p)'
<1> DEFINE a == job[h].args
<1>1. /\ OneHandle'
      /\ OneId /\ (a.uid # None => NoneHas(a.uid)) => OneId'
      /\ \A p : Bears(p) /\ (a.uid = p /\ p \in WithHandle => a.handle = p) => Bears(p)'
  BY CalmKnows, InsertApart
<1>2. SUFFICES ASSUME ~overlapped
               PROVE  OneId' /\ \A p : p = job[h].who /\ job[h].kind = "message"
                                       => Bears(p)'
  BY <1>1
<1>3. OneId /\ Speaks(h) /\ Searched(h)
  BY <1>2, CalmKnows
<1>4. OneId'
  BY <1>1, <1>3 DEF Searched
<1>5. ASSUME job[h].kind = "message", NEW p, p = job[h].who PROVE Bears(p)'
  <2>1. Bears(p) /\ (a.uid = p /\ p \in WithHandle => a.handle = p)
    BY <1>3, <1>5 DEF Speaks, HandleOf
  <2> QED
    BY <1>1, <2>1
<1> QED
  BY <1>4, <1>5

\* An UPDATE of the row that was found.
LEMMA UpdateCalm ==
  ASSUME OneEach, NEW h \in Handlers, step[h] = "write", job[h].kind # "message",
         NEW r \in Present, r = byId[h], r # None, NEW row \in Row,
         row.uid = Coalesce(job[h].args.uid, roster[r].uid),
         row.handle = Coalesce(job[h].args.handle, roster[r].handle),
         IndexAllows(row.handle, r, Present), Rewrite(r, row, Present)
  PROVE  /\ OneHandle'
         /\ ~overlapped => OneId' /\ \A p : p = job[h].who /\ job[h].kind = "message"
                                            => Bears(p)'
<1> DEFINE a == job[h].args
<1>1. /\ OneHandle'
      /\ OneId /\ (row.uid = roster[r].uid \/ NoneHas(row.uid)) => OneId'
  BY CalmKnows, RewriteApart, PresentRows DEF IInv
<1>2. SUFFICES ASSUME ~overlapped PROVE OneId'
  BY <1>1
<1>3. OneId /\ Searched(h)
  BY <1>2, CalmKnows
<1>4. a.uid # None => roster[r].uid = a.uid \/ NoneHas(a.uid)
  BY <1>3 DEF Searched
<1> QED
  BY <1>1, <1>3, <1>4 DEF Coalesce

LEMMA WritingCalm ==
  ASSUME OneEach, NEW h \in Handlers, Record(h) \/ Set(h)
  PROVE  OneHandle' /\ Calm'
<1> DEFINE a == job[h].args
<1>1. /\ step[h] = "write" /\ overlapped' = overlapped
      /\ job[h] \in Job /\ a \in Row /\ IInv
  BY CalmKnows DEF Record, Set
<1>2. \/ Onto(h, "turn", job[h]) /\ job[h].kind \in {"message", "tool"}
      \/ Over(h)
  BY DEF Record, Set
<1>3. CASE UNCHANGED roster
  BY <1>1, <1>2, <1>3, IdleCalm
<1>4. CASE byId[h] = None /\ IndexAllows(a.handle, None, Present) /\ Insert(a)
  BY <1>1, <1>2, <1>4, InsertCalm, WroteCalm
<1>5. CASE Set(h) /\ byId[h] # None /\ ~UNCHANGED roster
  <2> DEFINE row == [uid |-> Coalesce(a.uid, roster[byId[h]].uid),
                     handle |-> Coalesce(a.handle, roster[byId[h]].handle),
                     name |-> NameFor(a, roster[byId[h]]), status |-> a.status]
  <2>1. /\ byId[h] \in Present /\ IndexAllows(row.handle, byId[h], Present)
        /\ Rewrite(byId[h], row, Present) /\ job[h].kind # "message"
    BY <1>5 DEF Set
  <2>2. PICK r \in Present : r = byId[h]
    BY <2>1
  <2>3. row \in Row
    <3>1. roster[r] \in Row
      BY <1>1, <2>2, PresentRows DEF IInv
    <3>2. /\ Coalesce(a.uid, roster[r].uid) \in People \cup {None}
          /\ Coalesce(a.handle, roster[r].handle) \in People \cup {None}
      BY <1>1, <3>1, CoalesceType DEF Row
    <3>3. NameFor(a, roster[r]) \in Names /\ a.status \in Statuses
      BY <1>1, <3>1, NameType DEF Row
    <3> QED
      BY <2>2, <3>2, <3>3 DEF Row
  <2>4. /\ row.uid = Coalesce(a.uid, roster[r].uid)
        /\ row.handle = Coalesce(a.handle, roster[r].handle)
    BY <2>2
  <2> HIDE DEF row
  <2> QED
    BY <1>1, <1>2, <1>5, <2>1, <2>2, <2>3, <2>4, UpdateCalm, WroteCalm
<1> QED
  <2>1. CASE Record(h)
    BY <1>3, <1>4, <2>1 DEF Record, tables
  <2>2. CASE Set(h)
    BY <1>3, <1>4, <1>5, <2>2 DEF Set, tables
  <2> QED
    BY <2>1, <2>2

LEMMA TurnCalm ==
  ASSUME OneEach, NEW h \in Handlers,
         ReportAnswer(h) \/ SpeakerDone(h) \/ ReplyClassified(h)
  PROVE  OneHandle' /\ Calm'
<1>1. UNCHANGED <<roster, overlapped>> /\ step[h] \in {"turn", "wait"}
  BY DEF ReportAnswer, SpeakerDone, ReplyClassified, tables
<1>2. /\ OneHandle' /\ (OneId => OneId')
      /\ \A p : Bears(p) => Bears(p)'
  BY <1>1 DEF OneEach, OneHandle, OneId, Bears, Present
<1>3. CASE SpeakerDone(h)
  BY <1>1, <1>3, IdleCalm DEF SpeakerDone
<1>4. CASE ReplyClassified(h)
  <2>1. /\ Searched(h)' /\ step'[h] = "findId" /\ job'[h] = job[h]
        /\ \A g \in Handlers : g # h => step'[g] = step[g]
    BY <1>4, OntoSearched DEF ReplyClassified, OneEach
  <2>2. ~overlapped => Speaks(h)'
    <3>1. step[h] = "wait"
      BY <1>4 DEF ReplyClassified
    <3> QED
      BY <2>1, <3>1, CalmKnows DEF Speaks
  <2> QED
    BY <1>1, <1>2, <2>1, <2>2, CalmAfter, CalmKnows
<1>5. CASE ReportAnswer(h)
  <2>1. step[h] = "turn" /\ job[h] \in Job
    BY <1>5, CalmKnows DEF ReportAnswer
  <2>2. PICK a \in Reports :
          Onto(h, IF a.uid = None THEN "findHandle" ELSE "findId",
               [job[h] EXCEPT !.kind = "tool", !.args = a])
    BY <1>5 DEF ReportAnswer
  <2>3. PICK j : j = [job[h] EXCEPT !.kind = "tool", !.args = a]
    OBVIOUS
  <2>4. PICK s : s = IF a.uid = None THEN "findHandle" ELSE "findId"
    OBVIOUS
  <2>5. j.kind = "tool" /\ j.args = a
    BY <2>1, <2>3 DEF Job
  <2>6. Onto(h, s, j) /\ s \in {"findHandle", "findId"} /\ (s = "findHandle" => j.args.uid = None)
    BY <2>2, <2>3, <2>4, <2>5
  <2>7. /\ Searched(h)' /\ step'[h] = s /\ job'[h] = j
        /\ \A g \in Handlers : g # h => step'[g] = step[g]
    BY <2>6, OntoSearched DEF OneEach
  <2>8. Speaks(h)'
    BY <2>5, <2>6, <2>7 DEF Speaks
  <2> QED
    BY <1>1, <1>2, <2>7, <2>8, CalmAfter, CalmKnows
<1> QED
  BY <1>3, <1>4, <1>5

\* The administrators' list gives a row its handle, never another id.
LEMMA AdminCalm ==
  ASSUME OneEach, NEW p \in People, AdminSeen(p)
  PROVE  OneHandle' /\ Calm'
<1> DEFINE mine == {r \in Present : roster[r].uid = p /\ roster[r].handle = None}
<1>1. IInv /\ p # None /\ UNCHANGED <<step, job, byId, byHandle, overlapped>>
  BY RosterAssumption DEF OneEach, AdminSeen, locals
<1>2. PICK x : mine = {x}
  <2>1. IsFiniteSet(Rows)
    BY RosterAssumption, FS_Interval DEF Rows
  <2>2. IsFiniteSet(mine)
    BY <2>1, FS_Subset DEF Present
  <2>3. Cardinality(mine) = 1
    BY DEF AdminSeen
  <2> HIDE DEF mine
  <2> QED
    BY <2>2, <2>3, FS_Singleton
<1>3. /\ x \in Present /\ roster[x].uid = p /\ roster[x].handle = None
      /\ IndexAllows(p, x, Present)
      /\ roster' = [r \in Rows |-> IF r \in mine THEN [roster[r] EXCEPT !.handle = p]
                                   ELSE roster[r]]
  BY <1>2 DEF AdminSeen
<1>4. /\ roster'[x] = [roster[x] EXCEPT !.handle = p]
      /\ \A r \in Rows : r # x => roster'[r] = roster[r]
  BY <1>2, <1>3 DEF Present
<1>5. /\ roster'[x].handle = p /\ roster'[x].uid = p /\ roster'[x] # None
  <2>1. PICK row \in Row : row = roster[x]
    BY <1>1, <1>3, PresentRows DEF IInv
  <2>2. [row EXCEPT !.handle = p] \in Row /\ row.uid = p
    BY <1>3, <2>1 DEF Row
  <2>3. roster'[x] = [row EXCEPT !.handle = p]
    BY <1>4, <2>1
  <2> QED
    BY <2>2, <2>3, RowAssumption DEF Row
<1>6. Present' = Present
  BY <1>3, <1>4, <1>5 DEF Present
<1>7. /\ \A r \in Present : roster'[r].uid = roster[r].uid
      /\ \A r \in Present : r # x => roster'[r] = roster[r]
  BY <1>3, <1>4, <1>5 DEF Present
<1>8. OneHandle'
  <2>1. \A y \in Present : y # x => roster'[y].handle # p
    BY <1>1, <1>3, <1>7 DEF IndexAllows
  <2>2. OneHandle
    BY DEF OneEach
  <2> QED
    BY <1>5, <1>6, <1>7, <2>1, <2>2 DEF OneHandle
<1>9. OneId => OneId'
  BY <1>6, <1>7 DEF OneId
<1>10. \A q : (NoneHas(q)' <=> NoneHas(q)) /\ (Bears(q) => Bears(q)')
  BY <1>5, <1>6, <1>7 DEF NoneHas, Bears
<1>11. \A h \in Handlers : Speaks(h) => Speaks(h)'
  BY <1>1, <1>10 DEF Speaks
<1>12. ASSUME OneId, NEW h \in Handlers, Speaks(h), Searched(h)
       PROVE  Searched(h)'
  <2> DEFINE a == job[h].args
  <2>1. \A r \in Present : roster[r].handle # None \/ roster[r].uid = None
                           => roster'[r].handle = roster[r].handle
    BY <1>1, <1>3, <1>7
  <2>2. ASSUME step[h] = "link", byHandle[h] = None, byId[h] # None, a.handle # None,
               NEW r \in Present, roster'[r].handle = a.handle
        PROVE  r = byId[h]
    <3>1. /\ \A y \in Present : roster[y].handle = a.handle => y = byId[h]
          /\ byId[h] \in Present /\ roster[byId[h]].uid = a.uid
          /\ a.uid = job[h].who /\ a.handle = HandleOf(job[h].who)
      BY <1>12, <2>2 DEF Searched, Speaks
    <3>2. CASE r = x
      <4>1. a.handle = p /\ a.uid = p
        BY <1>5, <2>2, <3>1, <3>2 DEF HandleOf
      <4> QED
        BY <1>1, <1>3, <1>12, <3>1, <3>2, <4>1 DEF OneId
    <3>3. CASE r # x
      BY <1>7, <2>2, <3>1, <3>3
    <3> QED
      BY <3>2, <3>3
  <2> QED
    BY <1>1, <1>6, <1>7, <1>10, <1>12, <2>1, <2>2 DEF Searched
<1>13. Alone => Alone'
  BY <1>1 DEF Alone
<1> QED
  BY <1>1, <1>8, <1>9, <1>11, <1>12, <1>13 DEF OneEach, Calm

LEMMA OneEachStep ==
  ASSUME OneEach, [RosterNext]_rvars
  PROVE  OneEach'
<1>1. IInv'
  BY RosterStep DEF OneEach
<1>2. OneHandle' /\ Calm'
  <2>1. CASE RosterNext
    BY <2>1, BeginningCalm, SearchingCalm, LinkCalm, WritingCalm, TurnCalm, AdminCalm
       DEF RosterNext
  <2>2. CASE UNCHANGED rvars
    <3>1. /\ UNCHANGED <<roster, step, job, byId, byHandle, overlapped>>
          /\ Present' = Present
      BY <2>2 DEF rvars, tables, locals, Present
    <3>2. (\A u : NoneHas(u)' <=> NoneHas(u)) /\ (\A p : Bears(p)' <=> Bears(p))
      BY <3>1 DEF NoneHas, Bears
    <3>3. OneHandle' /\ (OneId => OneId') /\ (Alone => Alone')
      BY <3>1 DEF OneEach, OneHandle, OneId, Alone
    <3>4. \A h \in Handlers : Speaks(h) /\ Searched(h) => Speaks(h)' /\ Searched(h)'
      BY <3>1, <3>2 DEF Speaks, Searched
    <3> QED
      BY <3>1, <3>3, <3>4 DEF OneEach, Calm
  <2> QED
    BY <2>1, <2>2
<1> QED
  BY <1>1, <1>2 DEF OneEach

\* Whoever has spoken has one row, by id and by handle, as long as no two
\* updates have ever been in hand at once.
THEOREM OneRowEach == RosterSpec => []OneRowAfterSpeaking
<1>1. RosterInit => OneEach
  BY RosterInvInit, OneEachInit DEF OneEach
<1> QED
  BY <1>1, OneEachStep, OneEachMeans, PTL DEF RosterSpec
=============================================================================
