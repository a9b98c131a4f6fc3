--------------------------- MODULE RemindersProofs ---------------------------
(***************************************************************************)
(* Theorems about Reminders, for any number of reminders, workers, turns   *)
(* and zones, any caps, and any crashes and failing sends.                 *)
(*                                                                         *)
(* The invariants the runs check are not inductive: what a row has been    *)
(* told depends on where the worker holding it stands.  HeldOnce says that *)
(* a row being served has one holder and stands as sent; Ledger says, for  *)
(* every place a row may be in, how its counters compare with what was     *)
(* really sent; Readable says that a turn computes instants from zones and *)
(* wall times there are.                                                   *)
(***************************************************************************)
EXTENDS Reminders, TLAPS

\* A row being served stands as sent, and one worker serves it.
Holds == \A w \in Workers : Holding(w) => cur[w] \in Items /\ status[cur[w].id] = "sent"
Alone == \A v, w \in Workers :
           Holding(v) /\ Holding(w) /\ cur[v].id = cur[w].id => v = w
Picked == \A w \in Workers : /\ wpc[w] = "clear" => cur[w] \in Items
                             /\ wpc[w] \in {"idle", "serving", "down"} => cur[w] = Never

HeldOnce == Holds /\ Alone /\ Picked

\* A slot of the row is still to be sent: everything sent was counted, and
\* every failure since the last success is on the row.
Open(r) == /\ Repeats(r) => told[r] = deliveries[r] /\ deliveries[r] < MaxDeliveries
           /\ ~Repeats(r) => told[r] = 0
           /\ misses[r] = attempts[r] /\ attempts[r] < MaxAttempts

Missed(r) == /\ Repeats(r) => told[r] = deliveries[r] /\ deliveries[r] < MaxDeliveries
             /\ ~Repeats(r) => told[r] = 0
             /\ misses[r] = attempts[r] + 1 /\ attempts[r] < MaxAttempts

Sent(r) == /\ Repeats(r) /\ told[r] = deliveries[r] + 1 /\ deliveries[r] < MaxDeliveries
           /\ misses[r] = 0

Counted(r) == /\ Repeats(r) /\ told[r] = deliveries[r] /\ deliveries[r] \in 1 .. MaxDeliveries
              /\ misses[r] = 0

RowOK(r) ==
  /\ status[r] = "none" =>
       told[r] = 0 /\ deliveries[r] = 0 /\ attempts[r] = 0 /\ misses[r] = 0
  /\ status[r] = "pending" => Open(r)
  /\ status[r] = "failed" => misses[r] = MaxAttempts
  /\ told[r] <= Most(r)

WorkerOK(w) ==
  /\ wpc[w] = "sending"  => Open(cur[w].id)
  /\ wpc[w] = "missed"   => Missed(cur[w].id)
  /\ wpc[w] = "counting" => Sent(cur[w].id)
  /\ wpc[w] = "moving"   => Counted(cur[w].id)

Ledger == /\ \A r \in Rows : RowOK(r)
          /\ \A w \in Workers : WorkerOK(w)
          /\ NoneSwallowed

\* What a turn has read can be turned into an instant.
Readable == \A h \in Handlers :
  /\ hpc[h] \in {"inserting", "selecting", "rewriting"} => view[h].zone \in Offsets
  /\ \A r \in view[h].rows : status[r] # "none" /\ ask[r].wall # Never

IInv == TypeOK /\ HeldOnce /\ Ledger /\ Readable

-----------------------------------------------------------------------------
\* The asks of a well-typed table.
LEMMA AskTypes ==
  ASSUME TypeOK, NEW r \in Rows
  PROVE  /\ ask[r].to \in Targets /\ ask[r].until \in Int
         /\ ask[r].every \in (Nat \ {0}) \cup {Never}
         /\ ask[r].wall \in Int \cup {Never}
<1>1. ask[r] \in Requests \/ ask[r] = NoAsk
  BY DEF TypeOK
<1>2. CASE ask[r] \in Requests
  <2>1. ask[r] \in [to : People \cup {Chat}, every : (Nat \ {0}) \cup {Never},
                    until : Int, wall : Int \cup {Never}]
    BY <1>2, RemindersAssumption
  <2> QED
    BY <2>1 DEF Targets
<1>3. CASE ask[r] = NoAsk
  BY <1>3 DEF NoAsk, Targets
<1> QED
  BY <1>1, <1>2, <1>3

\* A zone read is a zone.
LEMMA ZoneRead ==
  ASSUME TypeOK, NEW t \in Targets
  PROVE  ZoneFor(t) \in Offsets
<1>1. userZone \in [People -> Zones] /\ zone \in Zones
  BY DEF TypeOK
<1>2. CreatorZone \in Zones
  BY <1>1 DEF CreatorZone, Zones
<1>3. EffectiveZone \in Zones
  BY <1>1, <1>2 DEF EffectiveZone
<1>4. Reading(EffectiveZone) \in Offsets
  BY <1>3, RemindersAssumption DEF Reading, Zones
<1> QED
  BY <1>1, <1>4 DEF ZoneFor, HasOwnZone, Zones

\* The next slot is an instant.
LEMMA NextSlot ==
  ASSUME NEW at \in Int, NEW every \in Nat \ {0}, now \in Int
  PROVE  NextOccurrence(at, every) \in Int
<1>1. Ceil(2 * (now - at) + 1, 2 * every) \in Int
  <2>1. -(2 * (now - at) + 1) \in Int /\ 2 * every \in Int /\ 2 * every > 0
    OBVIOUS
  <2>2. (-(2 * (now - at) + 1)) \div (2 * every) \in Int
    BY <2>1
  <2> QED
    BY <2>2 DEF Ceil
<1>2. SlotsOn(now - at, every) \in Int
  BY <1>1 DEF SlotsOn
<1> QED
  BY <1>2 DEF NextOccurrence

-----------------------------------------------------------------------------
\* Steps that leave the rows' counters and the workers where they are.
LEMMA Frame ==
  ASSUME HeldOnce, Ledger,
         UNCHANGED <<ask, status, attempts, deliveries, wpc, cur, crashes, told, misses>>
  PROVE  HeldOnce' /\ Ledger'
<1>1. HeldOnce'
  BY DEF HeldOnce, Holds, Alone, Picked, Holding
<1>2. \A r \in Rows : RowOK(r)'
  BY DEF Ledger, RowOK, Open, Most, Repeats
<1>3. \A w \in Workers : WorkerOK(w)'
  BY DEF Ledger, WorkerOK, Open, Missed, Sent, Counted, Repeats
<1>4. NoneSwallowed'
  BY DEF Ledger, NoneSwallowed, Holding
<1> QED
  BY <1>1, <1>2, <1>3, <1>4 DEF Ledger

\* Steps that touch one row, which no other worker is serving, and one worker
\* at most.
LEMMA OneRow ==
  ASSUME TypeOK, HeldOnce, Ledger, NEW w \in Workers, NEW r \in Rows,
         \A v \in Workers \ {w} : wpc'[v] = wpc[v] /\ cur'[v] = cur[v],
         \A q \in Rows \ {r} :
           /\ ask'[q] = ask[q] /\ status'[q] = status[q]
           /\ attempts'[q] = attempts[q] /\ deliveries'[q] = deliveries[q]
           /\ told'[q] = told[q] /\ misses'[q] = misses[q],
         \A v \in Workers \ {w} : Holding(v) => cur[v].id # r,
         Holding(w) => cur[w].id = r,
         crashes' = crashes,
         Holding(w)' => cur'[w] \in Items /\ cur'[w].id = r /\ status'[r] = "sent",
         wpc'[w] = "clear" => cur'[w] \in Items,
         wpc'[w] \in {"idle", "serving", "down"} => cur'[w] = Never,
         RowOK(r)', WorkerOK(w)',
         crashes' = 0 /\ status'[r] = "sent" =>
           told'[r] > 0 \/ \E v \in Workers : Holding(v)' /\ cur'[v].id = r
  PROVE  HeldOnce' /\ Ledger'
<1>1. \A v \in Workers \ {w} : Holding(v)' = Holding(v) /\ cur'[v] = cur[v]
  BY DEF Holding
<1>2. Holds'
  <2> SUFFICES ASSUME NEW v \in Workers, Holding(v)'
               PROVE  cur'[v] \in Items /\ status'[cur'[v].id] = "sent"
    BY DEF Holds
  <2>1. CASE v = w
    BY <2>1
  <2>2. CASE v # w
    <3>1. cur[v] \in Items /\ status[cur[v].id] = "sent" /\ cur[v].id # r
      BY <1>1, <2>2 DEF HeldOnce, Holds
    <3>2. cur[v].id \in Rows
      BY <3>1 DEF Items
    <3> QED
      BY <1>1, <2>2, <3>1, <3>2
  <2> QED
    BY <2>1, <2>2
<1>3. Alone'
  <2> SUFFICES ASSUME NEW u \in Workers, NEW v \in Workers,
                      Holding(u)', Holding(v)', cur'[u].id = cur'[v].id
               PROVE  u = v
    BY DEF Alone
  <2>1. CASE u # w /\ v # w
    BY <1>1, <2>1 DEF HeldOnce, Alone
  <2>2. CASE u = w /\ v # w
    BY <1>1, <2>2
  <2>3. CASE u # w /\ v = w
    BY <1>1, <2>3
  <2> QED
    BY <2>1, <2>2, <2>3
<1>4. Picked'
  <2> SUFFICES ASSUME NEW v \in Workers
               PROVE  /\ wpc'[v] = "clear" => cur'[v] \in Items
                      /\ wpc'[v] \in {"idle", "serving", "down"} => cur'[v] = Never
    BY DEF Picked
  <2> QED
    BY DEF HeldOnce, Picked
<1>5. \A q \in Rows : RowOK(q)'
  <2> SUFFICES ASSUME NEW q \in Rows \ {r}
               PROVE  RowOK(q)'
    OBVIOUS
  <2>1. RowOK(q)
    BY DEF Ledger
  <2> QED
    BY <2>1 DEF RowOK, Open, Most, Repeats
<1>6. \A v \in Workers : WorkerOK(v)'
  <2> SUFFICES ASSUME NEW v \in Workers \ {w}
               PROVE  WorkerOK(v)'
    OBVIOUS
  <2>1. WorkerOK(v) /\ wpc'[v] = wpc[v] /\ cur'[v] = cur[v]
    BY DEF Ledger
  <2>2. CASE ~Holding(v)
    BY <2>1, <2>2 DEF WorkerOK, Holding
  <2>3. CASE Holding(v)
    <3> DEFINE q == cur[v].id
    <3>1. cur[v] \in Items /\ q # r
      BY <2>3 DEF HeldOnce, Holds
    <3>2. q \in Rows
      BY <3>1 DEF Items
    <3>3. /\ ask'[q] = ask[q] /\ attempts'[q] = attempts[q]
          /\ deliveries'[q] = deliveries[q] /\ told'[q] = told[q] /\ misses'[q] = misses[q]
      BY <3>1, <3>2
    <3> QED
      BY <2>1, <3>3 DEF WorkerOK, Open, Missed, Sent, Counted, Repeats
  <2> QED
    BY <2>2, <2>3
<1>7. NoneSwallowed'
  <2> SUFFICES ASSUME crashes' = 0, NEW q \in Rows, status'[q] = "sent"
               PROVE  told'[q] > 0 \/ \E v \in Workers : Holding(v)' /\ cur'[v].id = q
    BY DEF NoneSwallowed
  <2>1. CASE q = r
    BY <2>1
  <2>2. CASE q # r
    <3>1. told[q] > 0 \/ \E v \in Workers : Holding(v) /\ cur[v].id = q
      BY <2>2 DEF Ledger, NoneSwallowed
    <3>2. ASSUME NEW v \in Workers, Holding(v), cur[v].id = q
          PROVE  Holding(v)' /\ cur'[v] = cur[v]
      BY <1>1, <2>2, <3>2
    <3> QED
      BY <2>2, <3>1, <3>2
  <2> QED
    BY <2>1, <2>2
<1> QED
  BY <1>2, <1>3, <1>4, <1>5, <1>6, <1>7 DEF HeldOnce, Ledger

\* Steps of the tools on one row, which no worker is serving.
LEMMA ToolRow ==
  ASSUME TypeOK, HeldOnce, Ledger, NEW r \in Rows, status[r] # "sent",
         UNCHANGED <<wpc, cur, crashes>>,
         \A q \in Rows \ {r} :
           /\ ask'[q] = ask[q] /\ status'[q] = status[q]
           /\ attempts'[q] = attempts[q] /\ deliveries'[q] = deliveries[q]
           /\ told'[q] = told[q] /\ misses'[q] = misses[q],
         status'[r] # "sent", RowOK(r)'
  PROVE  HeldOnce' /\ Ledger'
<1>1. \A v \in Workers : Holding(v) => cur[v] \in Items /\ cur[v].id \in Rows /\ cur[v].id # r
  BY DEF HeldOnce, Holds, Items
<1>2. HeldOnce'
  BY <1>1 DEF HeldOnce, Holds, Alone, Picked, Holding
<1>3. \A q \in Rows : RowOK(q)'
  <2> SUFFICES ASSUME NEW q \in Rows \ {r}
               PROVE  RowOK(q)'
    OBVIOUS
  <2>1. RowOK(q)
    BY DEF Ledger
  <2> QED
    BY <2>1 DEF RowOK, Open, Most, Repeats
<1>4. \A v \in Workers : WorkerOK(v)'
  <2> SUFFICES ASSUME NEW v \in Workers
               PROVE  WorkerOK(v)'
    OBVIOUS
  <2>1. WorkerOK(v)
    BY DEF Ledger
  <2>2. CASE ~Holding(v)
    BY <2>1, <2>2 DEF WorkerOK, Holding
  <2>3. CASE Holding(v)
    <3> DEFINE q == cur[v].id
    <3>1. /\ ask'[q] = ask[q] /\ attempts'[q] = attempts[q]
          /\ deliveries'[q] = deliveries[q] /\ told'[q] = told[q] /\ misses'[q] = misses[q]
      BY <1>1, <2>3
    <3> QED
      BY <2>1, <3>1 DEF WorkerOK, Open, Missed, Sent, Counted, Repeats
  <2> QED
    BY <2>2, <2>3
<1>5. NoneSwallowed'
  BY DEF Ledger, NoneSwallowed, Holding
<1> QED
  BY <1>2, <1>3, <1>4, <1>5 DEF Ledger

LEMMA InsertHeld ==
  ASSUME IInv, NEW h \in Handlers, NEW r \in Rows, NEW a \in Requests, InsertReminder(h, r, a)
  PROVE  HeldOnce' /\ Ledger'
<1> USE DEF InsertReminder
<1>1. /\ TypeOK /\ HeldOnce /\ Ledger
      /\ ask \in [Rows -> Requests \cup {NoAsk}]
      /\ status \in [Rows -> {"none", "pending", "sent", "cancelled", "failed"}]
  BY DEF IInv, TypeOK
<1>2. RowOK(r) /\ status[r] = "none"
  BY <1>1 DEF Ledger
<1>3. RowOK(r)'
  <2>1. told'[r] = 0 /\ deliveries'[r] = 0 /\ attempts'[r] = 0 /\ misses'[r] = 0
    BY <1>2 DEF RowOK, history
  <2>2. status'[r] = "pending"
    BY <1>1
  <2>3. 0 <= Most(r)'
    BY RemindersAssumption DEF Most
  <2> QED
    BY <2>1, <2>2, <2>3, RemindersAssumption DEF RowOK, Open
<1> QED
  BY <1>1, <1>2, <1>3, ToolRow DEF worker, budgets, history

LEMMA CancelHeld ==
  ASSUME IInv, NEW r \in Rows, Cancel(r)
  PROVE  HeldOnce' /\ Ledger'
<1> USE DEF Cancel, Cancellable
<1>1. /\ TypeOK /\ HeldOnce /\ Ledger
      /\ status \in [Rows -> {"none", "pending", "sent", "cancelled", "failed"}]
  BY DEF IInv, TypeOK
<1>2. RowOK(r)
  BY <1>1 DEF Ledger
<1>3. RowOK(r)'
  BY <1>1, <1>2 DEF RowOK, Most, Repeats, history
<1> QED
  BY <1>1, <1>3, ToolRow DEF worker, budgets, history

-----------------------------------------------------------------------------
\* The worker.

\* What is served is a row of the table.
LEMMA Served ==
  ASSUME IInv, NEW w \in Workers, wpc[w] \notin {"idle", "serving", "down"}
  PROVE  cur[w] \in Items /\ cur[w].id \in Rows /\ cur[w].at \in Int
BY DEF IInv, TypeOK, HeldOnce, Holds, Picked, Holding, Items

\* A step that neither claims nor serves: reading, choosing, ending, dying.
LEMMA Unclaimed ==
  ASSUME IInv, NEW w \in Workers,
         UNCHANGED <<ask, status, attempts, deliveries, told, misses>>,
         \A v \in Workers \ {w} : wpc'[v] = wpc[v] /\ cur'[v] = cur[v],
         (crashes' = crashes /\ ~Holding(w)) \/ crashes' # 0,
         wpc'[w] \in {"idle", "serving", "down", "clear"},
         wpc'[w] = "clear" => cur'[w] \in Items,
         wpc'[w] \in {"idle", "serving", "down"} => cur'[w] = Never
  PROVE  HeldOnce' /\ Ledger'
<1>0. HeldOnce /\ Ledger
  BY DEF IInv
<1>1. HeldOnce'
  BY <1>0 DEF HeldOnce, Holds, Alone, Picked, Holding
<1>2. \A r \in Rows : RowOK(r)'
  BY <1>0 DEF Ledger, RowOK, Open, Most, Repeats
<1>3. \A v \in Workers : WorkerOK(v)'
  <2> SUFFICES ASSUME NEW v \in Workers
               PROVE  WorkerOK(v)'
    OBVIOUS
  <2>1. CASE v = w
    BY <2>1 DEF WorkerOK
  <2>2. CASE v # w
    BY <1>0, <2>2 DEF Ledger, WorkerOK, Open, Missed, Sent, Counted, Repeats
  <2> QED
    BY <2>1, <2>2
<1>4. NoneSwallowed'
  <2> SUFFICES ASSUME crashes' = 0, NEW q \in Rows, status[q] = "sent", ~(told[q] > 0)
               PROVE  \E v \in Workers : Holding(v)' /\ cur'[v].id = q
    BY DEF NoneSwallowed
  <2>1. PICK v \in Workers : Holding(v) /\ cur[v].id = q
    BY <1>0 DEF Ledger, NoneSwallowed
  <2>2. Holding(v)' /\ cur'[v] = cur[v]
    BY <2>1 DEF Holding
  <2> QED
    BY <2>1, <2>2
<1> QED
  BY <1>1, <1>2, <1>3, <1>4 DEF Ledger

\* Reading, choosing, ending, dying and coming back.
LEMMA QuietHeld ==
  ASSUME IInv, NEW w \in Workers,
         \/ ReadDue(w) \/ EndStep(w) \/ WorkerRestart(w) \/ WorkerCrash(w)
         \/ \E c \in queue[w] : Consider(w, c)
  PROVE  HeldOnce' /\ Ledger'
<1> DEFINE Elsewhere == \A v \in Workers \ {w} : wpc'[v] = wpc[v] /\ cur'[v] = cur[v]
           Same == UNCHANGED <<ask, status, attempts, deliveries, told, misses>>
<1>1. /\ wpc \in [Workers -> {"idle", "serving", "clear", "sending", "missed",
                              "counting", "moving", "down"}]
      /\ cur \in [Workers -> Items \cup {Never}] /\ queue \in [Workers -> SUBSET Items]
      /\ crashes \in 0 .. MaxCrashes
  BY DEF IInv, TypeOK
<1>2. wpc[w] \in {"idle", "serving", "down"} => cur[w] = Never
  BY DEF IInv, HeldOnce, Picked
<1>3. CASE ReadDue(w) \/ EndStep(w) \/ WorkerRestart(w)
  <2>1. Same /\ Elsewhere /\ crashes' = crashes /\ cur'[w] = cur[w] /\ ~Holding(w)
        /\ wpc'[w] \in {"idle", "serving"} /\ cur[w] = Never
    BY <1>1, <1>2, <1>3 DEF ReadDue, EndStep, WorkerRestart, Holding, table, history, budgets
  <2> QED
    BY <2>1, Unclaimed
<1>4. CASE WorkerCrash(w)
  <2>1. Same /\ Elsewhere /\ crashes' # 0 /\ cur'[w] = Never /\ wpc'[w] = "down"
    BY <1>1, <1>4, RemindersAssumption DEF WorkerCrash, table, history
  <2> QED
    BY <2>1, Unclaimed
<1>5. CASE \E c \in queue[w] : Consider(w, c)
  <2>1. PICK c \in queue[w] : Consider(w, c)
    BY <1>5
  <2>2. c \in Items
    BY <1>1
  <2>3. Same /\ Elsewhere /\ crashes' = crashes /\ cur[w] = Never /\ ~Holding(w)
    BY <1>1, <1>2, <2>1 DEF Consider, Holding, table, history, budgets
  <2>4. \/ wpc'[w] = "serving" /\ cur'[w] = Never
        \/ wpc'[w] = "clear" /\ cur'[w] \in Items
    BY <1>1, <1>2, <2>1, <2>2, <2>3 DEF Consider
  <2> QED
    BY <2>3, <2>4, Unclaimed
<1> QED
  BY <1>3, <1>4, <1>5

\* A claim: the row was pending, so nobody else serves it.
LEMMA ClaimHeld ==
  ASSUME IInv, NEW w \in Workers, Claim(w)
  PROVE  HeldOnce' /\ Ledger'
<1> DEFINE r == cur[w].id
<1>1. /\ wpc \in [Workers -> {"idle", "serving", "clear", "sending", "missed",
                              "counting", "moving", "down"}]
      /\ cur \in [Workers -> Items \cup {Never}]
      /\ status \in [Rows -> {"none", "pending", "sent", "cancelled", "failed"}]
      /\ TypeOK /\ HeldOnce /\ Ledger
  BY DEF IInv, TypeOK
<1>2. wpc[w] = "clear" /\ UNCHANGED <<ask, attempts, deliveries, told, misses, crashes>>
  BY DEF Claim, history, budgets
<1>3. cur[w] \in Items /\ r \in Rows
  BY <1>2, Served
<1>4. CASE ~Claimable(r)
  <2>1. /\ wpc' = [wpc EXCEPT ![w] = "serving"] /\ cur' = [cur EXCEPT ![w] = Never]
        /\ status' = status
    BY <1>4 DEF Claim, Done
  <2>2. wpc'[w] = "serving" /\ cur'[w] = Never /\ ~Holding(w)
    BY <1>1, <1>2, <2>1 DEF Holding
  <2>3. \A v \in Workers \ {w} : wpc'[v] = wpc[v] /\ cur'[v] = cur[v]
    BY <1>1, <2>1
  <2> QED
    BY <1>2, <2>1, <2>2, <2>3, Unclaimed
<1>5. CASE Claimable(r)
  <2>1. /\ wpc' = [wpc EXCEPT ![w] = "sending"] /\ cur' = cur
        /\ status' = [status EXCEPT ![r] = "sent"]
    BY <1>5 DEF Claim, Goto
  <2>2. wpc'[w] = "sending" /\ Holding(w)' /\ ~Holding(w) /\ status'[r] = "sent"
    BY <1>1, <1>2, <1>3, <2>1 DEF Holding
  <2>3. \A v \in Workers \ {w} : wpc'[v] = wpc[v] /\ cur'[v] = cur[v]
    BY <1>1, <2>1
  <2>4. \A v \in Workers \ {w} : Holding(v) => cur[v].id # r
    BY <1>1, <1>5 DEF HeldOnce, Holds, Claimable
  <2>5. RowOK(r) /\ status[r] = "pending" /\ Open(r)
    BY <1>1, <1>3, <1>5 DEF Ledger, RowOK, Claimable
  <2>6. RowOK(r)'
    BY <1>2, <2>1, <2>2, <2>5 DEF RowOK, Most, Repeats
  <2>7. WorkerOK(w)'
    BY <1>2, <2>1, <2>2, <2>5 DEF WorkerOK, Open, Repeats
  <2>8. \A q \in Rows \ {r} : status'[q] = status[q]
    BY <1>1, <2>1
  <2> QED
    BY <1>1, <1>2, <1>3, <2>1, <2>2, <2>3, <2>4, <2>6, <2>7, <2>8, OneRow
<1> QED
  BY <1>4, <1>5

\* From here on r is the row the worker has claimed: what the step does to it
\* is to be shown, the rest follows.
LEMMA HeldRow ==
  ASSUME IInv, NEW w \in Workers, NEW r \in Rows, Holding(w), cur[w].id = r,
         UNCHANGED <<ask, crashes>>,
         \A v \in Workers \ {w} : wpc'[v] = wpc[v] /\ cur'[v] = cur[v],
         \A q \in Rows \ {r} :
           /\ status'[q] = status[q] /\ attempts'[q] = attempts[q]
           /\ deliveries'[q] = deliveries[q]
           /\ told'[q] = told[q] /\ misses'[q] = misses[q],
         \/ Holding(w)' /\ cur'[w] = cur[w] /\ status'[r] = status[r]
         \/ wpc'[w] = "serving" /\ cur'[w] = Never /\ (status'[r] = "sent" => told'[r] > 0),
         RowOK(r)', WorkerOK(w)'
  PROVE  HeldOnce' /\ Ledger'
<1>1. TypeOK /\ HeldOnce /\ Ledger
  BY DEF IInv
<1>2. cur[w] \in Items /\ status[r] = "sent"
  BY <1>1 DEF HeldOnce, Holds
<1>3. \A v \in Workers \ {w} : Holding(v) => cur[v].id # r
  BY <1>1 DEF HeldOnce, Alone
<1>4. /\ Holding(w)' => cur'[w] \in Items /\ cur'[w].id = r /\ status'[r] = "sent"
      /\ wpc'[w] # "clear"
      /\ wpc'[w] \in {"idle", "serving", "down"} => cur'[w] = Never
  BY <1>2 DEF Holding
<1>5. status'[r] = "sent" => told'[r] > 0 \/ \E v \in Workers : Holding(v)' /\ cur'[v].id = r
  BY <1>4
<1> QED
  BY <1>1, <1>3, <1>4, <1>5, OneRow

\* What the ledger says of the row a worker has claimed.
LEMMA HeldFacts ==
  ASSUME IInv, NEW w \in Workers, NEW r \in Rows, Holding(w), cur[w].id = r
  PROVE  /\ status[r] = "sent" /\ RowOK(r) /\ WorkerOK(w)
         /\ told[r] \in Nat /\ deliveries[r] \in Nat /\ attempts[r] \in Nat /\ misses[r] \in Nat
         /\ wpc \in [Workers -> {"idle", "serving", "clear", "sending", "missed",
                                 "counting", "moving", "down"}]
         /\ cur \in [Workers -> Items \cup {Never}]
         /\ status \in [Rows -> {"none", "pending", "sent", "cancelled", "failed"}]
         /\ MaxDeliveries \in Nat \ {0} /\ MaxAttempts \in Nat \ {0}
<1>1. TypeOK /\ Holds /\ Ledger
  BY DEF IInv, HeldOnce
<1>2. status[r] = "sent" /\ RowOK(r) /\ WorkerOK(w)
  BY <1>1 DEF Holds, Ledger
<1>3. told[r] \in 0 .. ToldCap /\ ToldCap \in Nat /\ misses[r] \in 0 .. MaxAttempts
      /\ attempts[r] \in 0 .. MaxAttempts /\ deliveries[r] \in Nat
  BY <1>1, RemindersAssumption DEF TypeOK, ToldCap
<1>4. MaxDeliveries \in Nat \ {0} /\ MaxAttempts \in Nat \ {0}
  BY RemindersAssumption
<1>5. /\ wpc \in [Workers -> {"idle", "serving", "clear", "sending", "missed",
                              "counting", "moving", "down"}]
      /\ cur \in [Workers -> Items \cup {Never}]
      /\ status \in [Rows -> {"none", "pending", "sent", "cancelled", "failed"}]
  BY <1>1 DEF TypeOK
<1> QED
  BY <1>2, <1>3, <1>4, <1>5

\* The claimed row is sent: the last thing a one-off does.
LEMMA SendHeld ==
  ASSUME IInv, NEW w \in Workers, NEW r \in Rows, cur[w].id = r, Send(w)
  PROVE  HeldOnce' /\ Ledger'
<1>1. wpc[w] = "sending" /\ Holding(w)
  BY DEF Send, Holding
<1>2. told \in [Rows -> 0 .. ToldCap] /\ misses \in [Rows -> 0 .. MaxAttempts]
  BY DEF IInv, TypeOK
<1>3. Open(r) /\ told[r] <= Most(r)
  BY <1>1, HeldFacts DEF WorkerOK, RowOK
<1>4. told[r] < ToldCap
  BY <1>1, <1>3, HeldFacts DEF Open, ToldCap
<1>5. /\ told' = [told EXCEPT ![r] = @ + 1] /\ misses' = [misses EXCEPT ![r] = 0]
      /\ UNCHANGED <<ask, status, attempts, deliveries, crashes>>
  BY <1>4 DEF Send, table, budgets
<1>6. told'[r] = told[r] + 1 /\ misses'[r] = 0
  BY <1>2, <1>5
<1>7. \A q \in Rows \ {r} : told'[q] = told[q] /\ misses'[q] = misses[q]
  BY <1>2, <1>5
<1>8. RowOK(r)'
  BY <1>1, <1>3, <1>5, <1>6, HeldFacts DEF RowOK, Open, Most, Repeats
<1>9. CASE Repeats(r)
  <2>1. wpc' = [wpc EXCEPT ![w] = "counting"] /\ cur' = cur
    BY <1>9 DEF Send, Goto
  <2>2. wpc'[w] = "counting" /\ Holding(w)'
    BY <1>1, <2>1, HeldFacts DEF Holding
  <2>3. WorkerOK(w)'
    BY <1>1, <1>3, <1>5, <1>6, <1>9, <2>1, <2>2, HeldFacts DEF WorkerOK, Open, Sent, Repeats
  <2> QED
    BY <1>1, <1>5, <1>7, <1>8, <2>1, <2>2, <2>3, HeldFacts, HeldRow
<1>10. CASE ~Repeats(r)
  <2>1. wpc' = [wpc EXCEPT ![w] = "serving"] /\ cur' = [cur EXCEPT ![w] = Never]
    BY <1>10 DEF Send, Done
  <2>2. wpc'[w] = "serving" /\ cur'[w] = Never
    BY <1>1, <2>1, HeldFacts
  <2>3. WorkerOK(w)' /\ told'[r] > 0
    BY <1>1, <1>6, <2>2, HeldFacts DEF WorkerOK
  <2> QED
    BY <1>1, <1>5, <1>7, <1>8, <2>1, <2>2, <2>3, HeldFacts, HeldRow
<1> QED
  BY <1>9, <1>10

LEMMA MissHeld ==
  ASSUME IInv, NEW w \in Workers, NEW r \in Rows, cur[w].id = r, SendFails(w)
  PROVE  HeldOnce' /\ Ledger'
<1>1. wpc[w] = "sending" /\ Holding(w)
  BY DEF SendFails, Holding
<1>2. misses \in [Rows -> 0 .. MaxAttempts]
  BY DEF IInv, TypeOK
<1>3. Open(r) /\ told[r] <= Most(r)
  BY <1>1, HeldFacts DEF WorkerOK, RowOK
<1>4. misses[r] < MaxAttempts
  BY <1>3 DEF Open
<1>5. /\ misses' = [misses EXCEPT ![r] = @ + 1]
      /\ UNCHANGED <<ask, status, attempts, deliveries, crashes, told, cur>>
      /\ wpc' = [wpc EXCEPT ![w] = "missed"]
  BY <1>4 DEF SendFails, Goto, table, budgets
<1>6. misses'[r] = misses[r] + 1
  BY <1>2, <1>5
<1>7. \A q \in Rows \ {r} : misses'[q] = misses[q]
  BY <1>2, <1>5
<1>8. RowOK(r)'
  BY <1>1, <1>3, <1>5, HeldFacts DEF RowOK, Most, Repeats
<1>9. wpc'[w] = "missed" /\ Holding(w)'
  BY <1>1, <1>5, HeldFacts DEF Holding
<1>10. WorkerOK(w)'
  BY <1>1, <1>3, <1>5, <1>6, <1>9, HeldFacts DEF WorkerOK, Open, Missed, Repeats
<1>11. \A v \in Workers \ {w} : wpc'[v] = wpc[v]
  BY <1>1, <1>5, HeldFacts
<1> QED
  BY <1>1, <1>5, <1>7, <1>8, <1>9, <1>10, <1>11, HeldRow

LEMMA ReleaseHeld ==
  ASSUME IInv, NEW w \in Workers, NEW r \in Rows, cur[w].id = r, Release(w)
  PROVE  HeldOnce' /\ Ledger'
<1>1. wpc[w] = "missed" /\ Holding(w)
  BY DEF Release, Holding
<1>2. attempts \in [Rows -> 0 .. MaxAttempts]
  BY DEF IInv, TypeOK
<1>3. Missed(r) /\ told[r] <= Most(r)
  BY <1>1, HeldFacts DEF WorkerOK, RowOK
<1>4. /\ attempts' = [attempts EXCEPT ![r] = @ + 1]
      /\ status' = [status EXCEPT ![r] = AfterMiss(r)]
      /\ UNCHANGED <<ask, deliveries, crashes, told, misses>>
      /\ wpc' = [wpc EXCEPT ![w] = "serving"] /\ cur' = [cur EXCEPT ![w] = Never]
  <2>1. attempts[r] <= MaxAttempts
    BY <1>1, <1>3, HeldFacts DEF Missed
  <2> QED
    BY <2>1 DEF Release, Done, history, budgets
<1>5. /\ attempts'[r] = attempts[r] + 1 /\ status'[r] = AfterMiss(r)
      /\ wpc'[w] = "serving" /\ cur'[w] = Never
  BY <1>1, <1>2, <1>4, HeldFacts
<1>6. /\ \A q \in Rows \ {r} : status'[q] = status[q] /\ attempts'[q] = attempts[q]
      /\ \A v \in Workers \ {w} : wpc'[v] = wpc[v] /\ cur'[v] = cur[v]
  BY <1>1, <1>2, <1>4, HeldFacts
<1>7. RowOK(r)'
  <2>1. CASE attempts[r] + 1 >= MaxAttempts
    <3>1. status'[r] = "failed" /\ misses'[r] = MaxAttempts
      BY <1>1, <1>3, <1>4, <1>5, <2>1, HeldFacts DEF AfterMiss, Retired, Missed
    <3> QED
      BY <1>3, <1>4, <3>1 DEF RowOK, Most, Repeats
  <2>2. CASE ~(attempts[r] + 1 >= MaxAttempts)
    <3>1. status'[r] = "pending"
      BY <1>5, <2>2 DEF AfterMiss, Retired
    <3>2. Open(r)'
      BY <1>1, <1>3, <1>4, <1>5, <2>2, HeldFacts DEF Missed, Open, Repeats
    <3> QED
      BY <1>3, <1>4, <3>1, <3>2 DEF RowOK, Most, Repeats
  <2> QED
    BY <2>1, <2>2
<1>8. WorkerOK(w)' /\ status'[r] # "sent"
  BY <1>5 DEF WorkerOK, AfterMiss
<1> QED
  BY <1>1, <1>4, <1>5, <1>6, <1>7, <1>8, HeldRow

LEMMA CountHeld ==
  ASSUME IInv, NEW w \in Workers, NEW r \in Rows, cur[w].id = r, Count(w)
  PROVE  HeldOnce' /\ Ledger'
<1>1. wpc[w] = "counting" /\ Holding(w)
  BY DEF Count, Holding
<1>2. deliveries \in [Rows -> Nat]
  BY DEF IInv, TypeOK
<1>3. Sent(r) /\ told[r] <= Most(r)
  BY <1>1, HeldFacts DEF WorkerOK, RowOK
<1>4. /\ deliveries' = [deliveries EXCEPT ![r] = @ + 1]
      /\ UNCHANGED <<ask, status, attempts, crashes, told, misses, cur>>
      /\ wpc' = [wpc EXCEPT ![w] = "moving"]
  BY DEF Count, Goto, history, budgets
<1>5. deliveries'[r] = deliveries[r] + 1 /\ wpc'[w] = "moving" /\ Holding(w)'
  BY <1>1, <1>2, <1>4, HeldFacts DEF Holding
<1>6. /\ \A q \in Rows \ {r} : deliveries'[q] = deliveries[q]
      /\ \A v \in Workers \ {w} : wpc'[v] = wpc[v]
  BY <1>1, <1>2, <1>4, HeldFacts
<1>7. RowOK(r)'
  BY <1>1, <1>3, <1>4, HeldFacts DEF RowOK, Most, Repeats
<1>8. Counted(r)'
  BY <1>1, <1>3, <1>4, <1>5, HeldFacts DEF Sent, Counted, Repeats
<1>9. WorkerOK(w)'
  BY <1>4, <1>5, <1>8 DEF WorkerOK
<1> QED
  BY <1>1, <1>4, <1>5, <1>6, <1>7, <1>9, HeldRow

LEMMA AdvanceHeld ==
  ASSUME IInv, NEW w \in Workers, NEW r \in Rows, cur[w].id = r, Advance(w)
  PROVE  HeldOnce' /\ Ledger'
<1>1. wpc[w] = "moving" /\ Holding(w)
  BY DEF Advance, Holding
<1>2. attempts \in [Rows -> 0 .. MaxAttempts]
  BY DEF IInv, TypeOK
<1>3. Counted(r) /\ told[r] <= Most(r)
  BY <1>1, HeldFacts DEF WorkerOK, RowOK
<1>4. /\ UNCHANGED <<ask, deliveries, crashes, told, misses>>
      /\ wpc' = [wpc EXCEPT ![w] = "serving"] /\ cur' = [cur EXCEPT ![w] = Never]
  BY DEF Advance, Done, history, budgets
<1>5. wpc'[w] = "serving" /\ cur'[w] = Never /\ WorkerOK(w)'
  BY <1>1, <1>4, HeldFacts DEF WorkerOK
<1>6. \A v \in Workers \ {w} : wpc'[v] = wpc[v] /\ cur'[v] = cur[v]
  BY <1>4, <1>1, HeldFacts
<1>7. told[r] > 0
  BY <1>1, <1>3, HeldFacts DEF Counted
<1> DEFINE next == NextOccurrence(cur[w].at, ask[r].every)
<1>8. CASE ~GoesOn(r, next)
  <2>1. UNCHANGED <<status, attempts>>
    BY <1>8 DEF Advance
  <2>2. RowOK(r)'
    BY <1>1, <1>4, <2>1, HeldFacts DEF RowOK, Open, Most, Repeats
  <2> QED
    BY <1>1, <1>4, <1>5, <1>6, <1>7, <2>1, <2>2, HeldRow
<1>9. CASE GoesOn(r, next)
  <2>1. /\ status' = [status EXCEPT ![r] = "pending"]
        /\ attempts' = [attempts EXCEPT ![r] = 0]
    BY <1>9 DEF Advance, Carried
  <2>2. /\ status'[r] = "pending" /\ attempts'[r] = 0
        /\ \A q \in Rows \ {r} : status'[q] = status[q] /\ attempts'[q] = attempts[q]
    BY <1>1, <1>2, <2>1, HeldFacts
  <2>3. deliveries[r] < MaxDeliveries
    BY <1>9 DEF GoesOn
  <2>4. Open(r)'
    BY <1>1, <1>3, <1>4, <2>2, <2>3, HeldFacts DEF Counted, Open, Repeats
  <2>5. RowOK(r)'
    BY <1>3, <1>4, <2>2, <2>4 DEF RowOK, Most, Repeats
  <2> QED
    BY <1>1, <1>4, <1>5, <1>6, <2>2, <2>5, HeldRow
<1> QED
  BY <1>8, <1>9

\* Every step keeps the holders and the ledger.
LEMMA HeldStep ==
  ASSUME IInv, [Next]_vars
  PROVE  HeldOnce' /\ Ledger'
<1>0. HeldOnce /\ Ledger
  BY DEF IInv
<1>1. ASSUME NEW h \in Handlers,
             \/ Turn(h) \/ LookUpZone(h)
             \/ \E t \in Targets : ReadZone(h, t) \/ \E z \in Offsets : StateZone(h, t, z)
      PROVE  HeldOnce' /\ Ledger'
  <2>1. CASE \E r \in Rows, a \in Requests : InsertReminder(h, r, a)
    BY <2>1, InsertHeld
  <2>2. CASE \/ SelectPending(h) \/ EndReanchor(h) \/ CutShort(h)
             \/ LookUpZone(h) \/ \E z \in Offsets : LearnZone(h, z)
    BY <1>0, <2>2, Frame
       DEF SelectPending, EndReanchor, CutShort, LookUpZone, LearnZone, table, worker, budgets,
           history
  <2>3. CASE \/ \E r \in view[h].rows : Reanchor(h, r)
             \/ \E t \in Targets : ReadZone(h, t) \/ \E z \in Offsets : StateZone(h, t, z)
    BY <1>0, <2>3, Frame DEF Reanchor, ReadZone, StateZone, table, worker, budgets, history
  <2> QED
    BY <1>1, <2>1, <2>2, <2>3 DEF Turn
<1>2. ASSUME NEW w \in Workers, Deliver(w) \/ WorkerCrash(w)
      PROVE  HeldOnce' /\ Ledger'
  <2>1. CASE \/ ReadDue(w) \/ EndStep(w) \/ WorkerRestart(w) \/ WorkerCrash(w)
             \/ \E c \in queue[w] : Consider(w, c)
    BY <2>1, QuietHeld
  <2>2. CASE Claim(w)
    BY <2>2, ClaimHeld
  <2>3. CASE Send(w) \/ SendFails(w) \/ Release(w) \/ Count(w) \/ Advance(w)
    <3>1. cur[w].id \in Rows
      BY <2>3, Served DEF Send, SendFails, Release, Count, Advance
    <3> QED
      BY <2>3, <3>1, SendHeld, MissHeld, ReleaseHeld, CountHeld, AdvanceHeld
  <2> QED
    BY <1>2, <2>1, <2>2, <2>3 DEF Deliver
<1>3. CASE \E r \in Rows : Cancel(r)
  BY <1>3, CancelHeld
<1>4. CASE Tick
  BY <1>0, <1>4, Frame DEF Tick, worker, budgets
<1>5. CASE UNCHANGED vars
  BY <1>0, <1>5, Frame DEF vars, table, worker, budgets, history
<1> QED
  BY <1>1, <1>2, <1>3, <1>4, <1>5 DEF Next

-----------------------------------------------------------------------------
\* Types.  What a turn reads, and what it may turn into an instant, first.

LEMMA ReadableStep ==
  ASSUME IInv, [Next]_vars
  PROVE  Readable'
<1>0. /\ Readable /\ TypeOK
      /\ hpc \in [Handlers -> {"idle", "inserting", "selecting", "rewriting", "guessing"}]
      /\ view \in [Handlers -> Views]
  BY DEF IInv, TypeOK
\* One turn moves, and the table keeps what it holds.
<1>1. ASSUME NEW h \in Handlers, UNCHANGED <<ask, status>>,
             \A g \in Handlers \ {h} : hpc'[g] = hpc[g] /\ view'[g] = view[g],
             hpc'[h] \in {"inserting", "selecting", "rewriting"} => view'[h].zone \in Offsets,
             \A r \in view'[h].rows : status[r] # "none" /\ ask[r].wall # Never
      PROVE  Readable'
  BY <1>0, <1>1 DEF Readable
\* A turn ends, and the table keeps every row that was ever asked for.
<1>2. ASSUME NEW h \in Handlers, hpc'[h] = "idle", view'[h] = NoView,
             \A g \in Handlers \ {h} : hpc'[g] = hpc[g] /\ view'[g] = view[g],
             \A r \in Rows : status[r] # "none" => status'[r] # "none" /\ ask'[r] = ask[r]
      PROVE  Readable'
  <2>1. \A g \in Handlers : view[g].rows \subseteq Rows
    BY <1>0 DEF Views
  <2> QED
    BY <1>0, <1>2, <2>1 DEF Readable, NoView
<1>3. ASSUME NEW h \in Handlers,
             \/ Turn(h) \/ LookUpZone(h)
             \/ \E t \in Targets : ReadZone(h, t) \/ \E z \in Offsets : StateZone(h, t, z)
      PROVE  Readable'
  <2>1. CASE \E r \in Rows, a \in Requests : InsertReminder(h, r, a)
    <3>1. PICK r \in Rows, a \in Requests : InsertReminder(h, r, a)
      BY <2>1
    <3>2. \A q \in Rows : status[q] # "none" => status'[q] # "none" /\ ask'[q] = ask[q]
      <4>1. /\ ask' = [ask EXCEPT ![r] = a] /\ status' = [status EXCEPT ![r] = "pending"]
            /\ status[r] = "none"
        BY <3>1 DEF InsertReminder
      <4>2. ask \in [Rows -> Requests \cup {NoAsk}]
            /\ status \in [Rows -> {"none", "pending", "sent", "cancelled", "failed"}]
        BY <1>0 DEF TypeOK
      <4> QED
        BY <4>1, <4>2
    <3>3. /\ hpc'[h] = "idle" /\ view'[h] = NoView
          /\ \A g \in Handlers \ {h} : hpc'[g] = hpc[g] /\ view'[g] = view[g]
      BY <1>0, <3>1 DEF InsertReminder, Return
    <3> QED
      BY <1>2, <3>2, <3>3
  <2>2. CASE CutShort(h) \/ \E z \in Offsets : LearnZone(h, z)
    <3>1. /\ hpc'[h] = "idle" /\ view'[h] = NoView
          /\ \A g \in Handlers \ {h} : hpc'[g] = hpc[g] /\ view'[g] = view[g]
      <4>1. /\ hpc' = [hpc EXCEPT ![h] = "idle"]
            /\ view' = [view EXCEPT ![h] = NoView]
        BY <2>2 DEF CutShort, LearnZone, Return
      <4> QED
        BY <1>0, <4>1
    <3>2. UNCHANGED <<ask, status>>
      BY <2>2 DEF CutShort, LearnZone, table
    <3> QED
      BY <1>2, <3>1, <3>2
  <2>3. CASE SelectPending(h)
    <3>1. /\ hpc' = [hpc EXCEPT ![h] = "rewriting"] /\ hpc[h] = "selecting"
          /\ view' = [view EXCEPT ![h].rows = Anchored(view[h].who)]
          /\ UNCHANGED <<ask, status>>
      BY <2>3 DEF SelectPending, table
    <3>2. view'[h].zone = view[h].zone /\ view'[h].rows = Anchored(view[h].who)
      BY <1>0, <3>1 DEF Views
    <3>3. \A r \in Anchored(view[h].who) : status[r] # "none" /\ ask[r].wall # Never
      BY DEF Anchored
    <3>4. view[h].zone \in Offsets
      BY <1>0, <3>1 DEF Readable
    <3>5. \A g \in Handlers \ {h} : hpc'[g] = hpc[g] /\ view'[g] = view[g]
      BY <1>0, <3>1
    <3> QED
      BY <1>1, <3>1, <3>2, <3>3, <3>4, <3>5
  <2>4. CASE EndReanchor(h)
    <3>1. CASE view[h].who = Creator /\ EffectiveZone = view[h].zone
      <4>1. /\ hpc' = [hpc EXCEPT ![h] = "selecting"] /\ hpc[h] = "rewriting"
            /\ view' = [view EXCEPT ![h].who = Chat] /\ view[h].rows = {}
            /\ UNCHANGED <<ask, status>>
        BY <2>4, <3>1 DEF EndReanchor, table
      <4>2. view'[h].zone = view[h].zone /\ view'[h].rows = {}
        BY <1>0, <4>1 DEF Views
      <4>3. view[h].zone \in Offsets
        BY <1>0, <4>1 DEF Readable
      <4>4. \A g \in Handlers \ {h} : hpc'[g] = hpc[g] /\ view'[g] = view[g]
        BY <1>0, <4>1
      <4> QED
        BY <1>1, <4>1, <4>2, <4>3, <4>4
    <3>2. CASE ~(view[h].who = Creator /\ EffectiveZone = view[h].zone)
      <4>1. /\ hpc'[h] = "idle" /\ view'[h] = NoView
            /\ \A g \in Handlers \ {h} : hpc'[g] = hpc[g] /\ view'[g] = view[g]
        <5>1. /\ hpc' = [hpc EXCEPT ![h] = "idle"]
              /\ view' = [view EXCEPT ![h] = NoView]
          BY <2>4, <3>2 DEF EndReanchor, Return
        <5> QED
          BY <1>0, <5>1
      <4>2. UNCHANGED <<ask, status>>
        BY <2>4 DEF EndReanchor, table
      <4> QED
        BY <1>2, <4>1, <4>2
    <3> QED
      BY <3>1, <3>2
  <2>5. CASE \E r \in view[h].rows : Reanchor(h, r)
    <3>1. PICK r \in view[h].rows : Reanchor(h, r)
      BY <2>5
    <3>2. /\ hpc' = hpc /\ hpc[h] = "rewriting" /\ UNCHANGED <<ask, status>>
          /\ view' = [view EXCEPT ![h].rows = view[h].rows \ {r}]
      BY <3>1 DEF Reanchor
    <3>3. view'[h].zone = view[h].zone /\ view'[h].rows \subseteq view[h].rows
      BY <1>0, <3>2 DEF Views
    <3>4. view[h].zone \in Offsets /\ \A q \in view[h].rows : status[q] # "none" /\ ask[q].wall # Never
      BY <1>0, <3>2 DEF Readable
    <3>5. \A g \in Handlers \ {h} : hpc'[g] = hpc[g] /\ view'[g] = view[g]
      BY <1>0, <3>2
    <3> QED
      BY <1>1, <3>2, <3>3, <3>4, <3>5
  <2>6. CASE LookUpZone(h)
    <3>1. /\ hpc' = [hpc EXCEPT ![h] = "guessing"] /\ view' = view /\ UNCHANGED <<ask, status>>
      BY <2>6 DEF LookUpZone, table
    <3>2. hpc'[h] = "guessing"
      BY <1>0, <3>1
    <3>3. \A r \in view[h].rows : status[r] # "none" /\ ask[r].wall # Never
      BY <1>0 DEF Readable
    <3>4. \A g \in Handlers \ {h} : hpc'[g] = hpc[g] /\ view'[g] = view[g]
      BY <1>0, <3>1
    <3> QED
      BY <1>1, <3>1, <3>2, <3>3, <3>4
  <2>7. CASE \E t \in Targets : ReadZone(h, t)
    <3>1. PICK t \in Targets : ReadZone(h, t)
      BY <2>7
    <3>2. /\ view' = [view EXCEPT ![h] = [NoView EXCEPT !.who = t, !.zone = ZoneFor(t)]]
          /\ hpc' = [hpc EXCEPT ![h] = "inserting"] /\ UNCHANGED <<ask, status>>
      BY <3>1 DEF ReadZone, table
    <3>3. view'[h].zone = ZoneFor(t) /\ view'[h].rows = {}
      BY <1>0, <3>2 DEF NoView
    <3>4. ZoneFor(t) \in Offsets
      BY <1>0, ZoneRead
    <3>5. \A g \in Handlers \ {h} : hpc'[g] = hpc[g] /\ view'[g] = view[g]
      BY <1>0, <3>2
    <3> QED
      BY <1>1, <3>2, <3>3, <3>4, <3>5
  <2>8. CASE \E t \in Targets, z \in Offsets : StateZone(h, t, z)
    <3>1. PICK t \in Targets, z \in Offsets : StateZone(h, t, z)
      BY <2>8
    <3>2. /\ view' = [view EXCEPT ![h] = [who |-> t, zone |-> z, rows |-> {}]]
          /\ hpc' = [hpc EXCEPT ![h] = "selecting"] /\ UNCHANGED <<ask, status>>
      BY <3>1 DEF StateZone, table
    <3>3. view'[h].zone = z /\ view'[h].rows = {}
      BY <1>0, <3>2
    <3>4. \A g \in Handlers \ {h} : hpc'[g] = hpc[g] /\ view'[g] = view[g]
      BY <1>0, <3>2
    <3> QED
      BY <1>1, <3>2, <3>3, <3>4
  <2> QED
    BY <1>3, <2>1, <2>2, <2>3, <2>4, <2>5, <2>6, <2>7, <2>8 DEF Turn
\* Only the table moves.
<1>4. ASSUME UNCHANGED <<ask, hpc, view>>,
             \A r \in Rows : status'[r] = status[r] \/ status'[r] # "none"
      PROVE  Readable'
  <2>1. \A h \in Handlers : view[h].rows \subseteq Rows
    BY <1>0 DEF Views
  <2> QED
    BY <1>0, <1>4, <2>1 DEF Readable
<1>5. ASSUME NEW w \in Workers, Deliver(w) \/ WorkerCrash(w)
      PROVE  Readable'
  <2>1. UNCHANGED <<ask, hpc, view>>
    BY <1>5 DEF Deliver, WorkerCrash, ReadDue, EndStep, WorkerRestart, Consider, Claim, Send,
                SendFails, Release, Count, Advance, table, bot
  <2>2. \A r \in Rows : status'[r] = status[r] \/ status'[r] # "none"
    <3>0. status \in [Rows -> {"none", "pending", "sent", "cancelled", "failed"}]
      BY <1>0 DEF TypeOK
    <3>1. CASE UNCHANGED status
      BY <3>1
    <3>2. CASE \E r \in Rows, v \in {"sent", "failed", "pending"} :
                 status' = [status EXCEPT ![r] = v]
      BY <3>0, <3>2
    <3>3. CASE Claim(w) \/ Release(w) \/ Advance(w)
      <4>1. cur[w].id \in Rows
        BY <3>3, Served DEF Claim, Release, Advance
      <4>2. \/ UNCHANGED status
            \/ \E v \in {"sent", "failed", "pending"} :
                 status' = [status EXCEPT ![cur[w].id] = v]
        BY <3>3 DEF Claim, Release, Advance, AfterMiss
      <4> QED
        BY <3>1, <3>2, <4>1, <4>2
    <3> QED
      BY <1>5, <3>1, <3>3 DEF Deliver, WorkerCrash, ReadDue, EndStep, WorkerRestart, Consider,
                              Send, SendFails, Count, table
  <2> QED
    BY <1>4, <2>1, <2>2
<1>6. CASE \E r \in Rows : Cancel(r)
  <2>1. UNCHANGED <<ask, hpc, view>>
    BY <1>6 DEF Cancel, bot
  <2>2. \A q \in Rows : status'[q] = status[q] \/ status'[q] # "none"
    BY <1>0, <1>6 DEF Cancel, TypeOK
  <2> QED
    BY <1>4, <2>1, <2>2
<1>7. CASE Tick \/ UNCHANGED vars
  BY <1>4, <1>7 DEF Tick, vars, table, bot
<1> QED
  BY <1>3, <1>5, <1>6, <1>7 DEF Next

\* A turn that ends is well typed.
LEMMA ReturnTypes ==
  ASSUME TypeOK, NEW h \in Handlers, Return(h)
  PROVE  /\ hpc' \in [Handlers -> {"idle", "inserting", "selecting", "rewriting", "guessing"}]
         /\ view' \in [Handlers -> Views]
<1>1. NoView \in Views
  BY DEF NoView, Views, Targets, Zones
<1> QED
  BY <1>1 DEF Return, TypeOK

LEMMA ToolTypes ==
  ASSUME IInv, NEW h \in Handlers,
         \/ Turn(h) \/ LookUpZone(h)
         \/ \E t \in Targets : ReadZone(h, t) \/ \E z \in Offsets : StateZone(h, t, z)
  PROVE  TypeOK'
<1>0. TypeOK /\ Readable
  BY DEF IInv
<1>1. CASE \E r \in Rows, a \in Requests : InsertReminder(h, r, a)
  <2>1. PICK r \in Rows, a \in Requests : InsertReminder(h, r, a)
    BY <1>1
  <2>2. due' \in [Rows -> Int]
    <3>1. due \in [Rows -> Int] /\ Instants \subseteq Int
      BY <1>0, RemindersAssumption DEF TypeOK
    <3>2. CASE a.wall = Never
      BY <2>1, <3>1, <3>2 DEF InsertReminder
    <3>3. CASE a.wall # Never
      <4>1. a.wall \in Int
        BY <3>3, RemindersAssumption
      <4>2. view[h].zone \in Int
        BY <1>0, <2>1, RemindersAssumption DEF InsertReminder, Readable
      <4>3. due' = [due EXCEPT ![r] = a.wall - view[h].zone]
        BY <2>1, <3>3 DEF InsertReminder
      <4> QED
        BY <3>1, <4>1, <4>2, <4>3
    <3> QED
      BY <3>2, <3>3
  <2>3. /\ ask' \in [Rows -> Requests \cup {NoAsk}]
        /\ status' \in [Rows -> {"none", "pending", "sent", "cancelled", "failed"}]
    BY <1>0, <2>1 DEF InsertReminder, TypeOK
  <2>4. /\ hpc' \in [Handlers -> {"idle", "inserting", "selecting", "rewriting", "guessing"}]
        /\ view' \in [Handlers -> Views]
    BY <1>0, <2>1, ReturnTypes DEF InsertReminder
  <2> QED
    BY <1>0, <2>1, <2>2, <2>3, <2>4
       DEF InsertReminder, TypeOK, place, clock, worker, budgets, history
<1>2. CASE CutShort(h)
  <2>1. /\ hpc' \in [Handlers -> {"idle", "inserting", "selecting", "rewriting", "guessing"}]
        /\ view' \in [Handlers -> Views]
    BY <1>0, <1>2, ReturnTypes DEF CutShort
  <2> QED
    BY <1>0, <1>2, <2>1 DEF CutShort, TypeOK, table, place, clock, worker, budgets, history
<1>3. CASE \E z \in Offsets : LearnZone(h, z)
  <2>1. /\ hpc' \in [Handlers -> {"idle", "inserting", "selecting", "rewriting", "guessing"}]
        /\ view' \in [Handlers -> Views]
    BY <1>0, <1>3, ReturnTypes DEF LearnZone
  <2>2. zone' \in Zones /\ stated' \in BOOLEAN
    BY <1>3 DEF LearnZone, Zones
  <2> QED
    BY <1>0, <1>3, <2>1, <2>2 DEF LearnZone, TypeOK, table, clock, worker, budgets, history
<1>4. CASE SelectPending(h)
  <2>1. Anchored(view[h].who) \in SUBSET Rows
    BY DEF Anchored
  <2>2. view' \in [Handlers -> Views]
    BY <1>0, <1>4, <2>1 DEF SelectPending, TypeOK, Views
  <2>3. hpc' \in [Handlers -> {"idle", "inserting", "selecting", "rewriting", "guessing"}]
    BY <1>0, <1>4 DEF SelectPending, TypeOK
  <2> QED
    BY <1>0, <1>4, <2>2, <2>3
       DEF SelectPending, TypeOK, table, place, clock, worker, budgets, history
<1>5. CASE EndReanchor(h)
  <2>1. /\ hpc' \in [Handlers -> {"idle", "inserting", "selecting", "rewriting", "guessing"}]
        /\ view' \in [Handlers -> Views]
    <3>1. CASE view[h].who = Creator /\ EffectiveZone = view[h].zone
      <4>1. /\ hpc' = [hpc EXCEPT ![h] = "selecting"]
            /\ view' = [view EXCEPT ![h].who = Chat]
        BY <1>5, <3>1 DEF EndReanchor
      <4> QED
        BY <1>0, <4>1 DEF TypeOK, Views, Targets
    <3>2. CASE ~(view[h].who = Creator /\ EffectiveZone = view[h].zone)
      BY <1>0, <1>5, <3>2, ReturnTypes DEF EndReanchor
    <3> QED
      BY <3>1, <3>2
  <2> QED
    BY <1>0, <1>5, <2>1
       DEF EndReanchor, TypeOK, table, place, clock, worker, budgets, history
<1>6. CASE \E r \in view[h].rows : Reanchor(h, r)
  <2>1. PICK r \in view[h].rows : Reanchor(h, r)
    BY <1>6
  <2>2. r \in Rows /\ view[h].zone \in Int /\ ask[r].wall \in Int
    <3>1. view[h].rows \subseteq Rows
      BY <1>0 DEF TypeOK, Views
    <3>2. view[h].zone \in Offsets /\ ask[r].wall # Never
      BY <1>0, <2>1 DEF Reanchor, Readable
    <3> QED
      BY <1>0, <3>1, <3>2, AskTypes, RemindersAssumption
  <2>3. due' \in [Rows -> Int]
    BY <1>0, <2>1, <2>2 DEF Reanchor, TypeOK
  <2>4. view' \in [Handlers -> Views]
    BY <1>0, <2>1 DEF Reanchor, TypeOK, Views
  <2> QED
    BY <1>0, <2>1, <2>3, <2>4 DEF Reanchor, TypeOK, place, clock, worker, budgets, history
<1>7. CASE LookUpZone(h)
  <2>1. hpc' \in [Handlers -> {"idle", "inserting", "selecting", "rewriting", "guessing"}]
    BY <1>0, <1>7 DEF LookUpZone, TypeOK
  <2>2. zones' \in 0 .. MaxZones
    BY <1>0, <1>7, RemindersAssumption DEF LookUpZone, TypeOK
  <2> QED
    BY <1>0, <1>7, <2>1, <2>2 DEF LookUpZone, TypeOK, table, place, clock, worker, history
<1>8. CASE \E t \in Targets : ReadZone(h, t)
  <2>1. PICK t \in Targets : ReadZone(h, t)
    BY <1>8
  <2>2. ZoneFor(t) \in Offsets
    BY <1>0, ZoneRead
  <2>3. [NoView EXCEPT !.who = t, !.zone = ZoneFor(t)] \in Views
    BY <2>2 DEF NoView, Views, Zones
  <2>4. view' \in [Handlers -> Views]
    BY <1>0, <2>1, <2>3 DEF ReadZone, TypeOK
  <2>5. hpc' \in [Handlers -> {"idle", "inserting", "selecting", "rewriting", "guessing"}]
    BY <1>0, <2>1 DEF ReadZone, TypeOK
  <2> QED
    BY <1>0, <2>1, <2>4, <2>5
       DEF ReadZone, TypeOK, table, place, clock, worker, budgets, history
<1>9. CASE \E t \in Targets, z \in Offsets : StateZone(h, t, z)
  <2>1. PICK t \in Targets, z \in Offsets : StateZone(h, t, z)
    BY <1>9
  <2>2. [who |-> t, zone |-> z, rows |-> {}] \in Views
    BY DEF Views, Zones
  <2>3. view' \in [Handlers -> Views]
    BY <1>0, <2>1, <2>2 DEF StateZone, TypeOK
  <2>4. hpc' \in [Handlers -> {"idle", "inserting", "selecting", "rewriting", "guessing"}]
    BY <1>0, <2>1 DEF StateZone, TypeOK
  <2>5. zones' \in 0 .. MaxZones
    BY <1>0, <2>1, RemindersAssumption DEF StateZone, TypeOK
  <2>6. zone' \in Zones /\ stated' \in BOOLEAN /\ userZone' \in [People -> Zones]
    BY <1>0, <2>1 DEF StateZone, TypeOK, Zones
  <2> QED
    BY <1>0, <2>1, <2>3, <2>4, <2>5, <2>6 DEF StateZone, TypeOK, table, clock, worker, history
<1> QED
  BY <1>1, <1>2, <1>3, <1>4, <1>5, <1>6, <1>7, <1>8, <1>9 DEF Turn

\* The steps that only move a worker.
LEMMA MoveTypes ==
  ASSUME IInv, NEW w \in Workers,
         \/ ReadDue(w) \/ EndStep(w) \/ WorkerRestart(w) \/ WorkerCrash(w)
         \/ \E c \in queue[w] : Consider(w, c)
  PROVE  TypeOK'
<1>0. TypeOK
  BY DEF IInv
<1>1. CASE ReadDue(w)
  <2>1. {[id |-> r, at |-> due[r]] : r \in {r \in Rows : IsDue(r)}} \in SUBSET Items
    BY <1>0 DEF Items, TypeOK
  <2>2. queue' \in [Workers -> SUBSET Items]
    BY <1>0, <1>1, <2>1 DEF ReadDue, TypeOK
  <2> QED
    BY <1>0, <1>1, <2>2 DEF ReadDue, TypeOK, table, place, clock, bot, budgets, history
<1>2. CASE EndStep(w)
  BY <1>0, <1>2 DEF EndStep, TypeOK, table, place, bot, budgets, history
<1>3. CASE WorkerRestart(w)
  BY <1>0, <1>3 DEF WorkerRestart, TypeOK, table, place, clock, bot, budgets, history
<1>4. CASE WorkerCrash(w)
  <2>1. /\ crashes' \in 0 .. MaxCrashes
        /\ queue' \in [Workers -> SUBSET Items] /\ cur' \in [Workers -> Items \cup {Never}]
    BY <1>0, <1>4, RemindersAssumption DEF WorkerCrash, TypeOK
  <2> QED
    BY <1>0, <1>4, <2>1 DEF WorkerCrash, TypeOK, table, place, clock, bot, history
<1>5. CASE \E c \in queue[w] : Consider(w, c)
  <2>1. PICK c \in queue[w] : Consider(w, c)
    BY <1>5
  <2>2. c \in Items
    BY <1>0 DEF TypeOK
  <2>3. queue' \in [Workers -> SUBSET Items] /\ cur' \in [Workers -> Items \cup {Never}]
    BY <1>0, <2>1, <2>2 DEF Consider, TypeOK
  <2>4. wpc' \in [Workers -> {"idle", "serving", "clear", "sending", "missed",
                              "counting", "moving", "down"}]
    BY <1>0, <2>1 DEF Consider, TypeOK
  <2> QED
    BY <1>0, <2>1, <2>3, <2>4 DEF Consider, TypeOK, table, place, clock, bot, budgets, history
<1> QED
  BY <1>1, <1>2, <1>3, <1>4, <1>5

\* Where a worker goes to is a place.
LEMMA GotoTypes ==
  ASSUME TypeOK, NEW w \in Workers,
         \/ Done(w)
         \/ \E at \in {"sending", "missed", "counting", "moving"} : Goto(w, at)
  PROVE  /\ wpc' \in [Workers -> {"idle", "serving", "clear", "sending", "missed",
                                  "counting", "moving", "down"}]
         /\ queue' \in [Workers -> SUBSET Items]
         /\ cur' \in [Workers -> Items \cup {Never}]
BY DEF TypeOK, Goto, Done

LEMMA ServeTypes ==
  ASSUME IInv, NEW w \in Workers, NEW r \in Rows, cur[w] \in Items, cur[w].id = r,
         Claim(w) \/ Send(w) \/ SendFails(w) \/ Release(w) \/ Count(w) \/ Advance(w)
  PROVE  TypeOK'
<1>0. TypeOK
  BY DEF IInv
<1>1. CASE Claim(w)
  <2>1. Done(w) \/ Goto(w, "sending")
    BY <1>1 DEF Claim
  <2>2. /\ status' \in [Rows -> {"none", "pending", "sent", "cancelled", "failed"}]
        /\ sentAge' \in [Rows -> Ages \cup {Never}]
    BY <1>0, <1>1, RemindersAssumption DEF Claim, TypeOK, Ages
  <2> QED
    BY <1>0, <1>1, <2>1, <2>2, GotoTypes DEF Claim, TypeOK, place, clock, bot, budgets, history
<1>2. CASE Send(w)
  <2>1. Done(w) \/ Goto(w, "counting")
    BY <1>2 DEF Send
  <2>2. told' \in [Rows -> 0 .. ToldCap]
    BY <1>0, <1>2, RemindersAssumption DEF Send, TypeOK, ToldCap
  <2>3. misses' \in [Rows -> 0 .. MaxAttempts]
    BY <1>0, <1>2, RemindersAssumption DEF Send, TypeOK
  <2>4. pinged' \in [People -> Ages]
    BY <1>0, <1>2, RemindersAssumption DEF Send, TypeOK, Ages
  <2> QED
    BY <1>0, <1>2, <2>1, <2>2, <2>3, <2>4, GotoTypes
       DEF Send, TypeOK, table, place, clock, bot, budgets
<1>3. CASE SendFails(w)
  <2>1. Goto(w, "missed")
    BY <1>3 DEF SendFails
  <2>2. misses' \in [Rows -> 0 .. MaxAttempts]
    BY <1>0, <1>3, RemindersAssumption DEF SendFails, TypeOK
  <2> QED
    BY <1>0, <1>3, <2>1, <2>2, GotoTypes
       DEF SendFails, TypeOK, table, place, clock, bot, budgets
<1>4. CASE Release(w)
  <2>1. Done(w)
    BY <1>4 DEF Release
  <2>2. wpc[w] = "missed" /\ attempts[r] < MaxAttempts
    <3>1. wpc[w] = "missed"
      BY <1>4 DEF Release
    <3> QED
      BY <3>1 DEF IInv, Ledger, WorkerOK, Missed
  <2>3. attempts' \in [Rows -> 0 .. MaxAttempts]
    BY <1>0, <1>4, <2>2, RemindersAssumption DEF Release, TypeOK
  <2>4. /\ status' \in [Rows -> {"none", "pending", "sent", "cancelled", "failed"}]
        /\ sentAge' \in [Rows -> Ages \cup {Never}]
    BY <1>0, <1>4 DEF Release, AfterMiss, TypeOK
  <2> QED
    BY <1>0, <1>4, <2>1, <2>3, <2>4, GotoTypes
       DEF Release, TypeOK, place, clock, bot, budgets, history
<1>5. CASE Count(w)
  <2>1. Goto(w, "moving")
    BY <1>5 DEF Count
  <2>2. deliveries' \in [Rows -> Nat]
    BY <1>0, <1>5 DEF Count, TypeOK
  <2> QED
    BY <1>0, <1>5, <2>1, <2>2, GotoTypes
       DEF Count, TypeOK, place, clock, bot, budgets, history
<1>6. CASE Advance(w)
  <2> DEFINE next == NextOccurrence(cur[w].at, ask[r].every)
  <2>1. Done(w)
    BY <1>6 DEF Advance
  <2>2. next \in Int
    <3>1. wpc[w] = "moving"
      BY <1>6 DEF Advance
    <3>2. Repeats(r)
      BY <3>1 DEF IInv, Ledger, WorkerOK, Counted
    <3>3. ask[r].every \in Nat \ {0}
      BY <1>0, <3>2, AskTypes DEF Repeats
    <3>4. cur[w].at \in Int /\ now \in Int
      BY <1>0, RemindersAssumption DEF Items, TypeOK
    <3> QED
      BY <3>3, <3>4, NextSlot
  <2> HIDE DEF next
  <2>3. \/ UNCHANGED <<due, status, attempts, sentAge>>
        \/ /\ due' = [due EXCEPT ![r] = next]
           /\ status' = [status EXCEPT ![r] = "pending"]
           /\ attempts' = [attempts EXCEPT ![r] = 0]
           /\ sentAge' = [sentAge EXCEPT ![r] = Never]
    BY <1>6 DEF Advance, Carried, next
  <2>4. due' \in [Rows -> Int]
    BY <1>0, <2>2, <2>3 DEF TypeOK
  <2>5. /\ status' \in [Rows -> {"none", "pending", "sent", "cancelled", "failed"}]
        /\ sentAge' \in [Rows -> Ages \cup {Never}]
    BY <1>0, <2>3 DEF TypeOK
  <2>6. attempts' \in [Rows -> 0 .. MaxAttempts]
    BY <1>0, <2>3, RemindersAssumption DEF TypeOK
  <2> QED
    BY <1>0, <1>6, <2>1, <2>4, <2>5, <2>6, GotoTypes
       DEF Advance, TypeOK, place, clock, bot, budgets, history
<1> QED
  BY <1>1, <1>2, <1>3, <1>4, <1>5, <1>6

LEMMA TypeStep ==
  ASSUME IInv, [Next]_vars
  PROVE  TypeOK'
<1>0. TypeOK
  BY DEF IInv
<1>1. CASE \E h \in Handlers :
             \/ Turn(h) \/ LookUpZone(h)
             \/ \E t \in Targets : ReadZone(h, t) \/ \E z \in Offsets : StateZone(h, t, z)
  BY <1>1, ToolTypes
<1>2. ASSUME NEW w \in Workers, Deliver(w) \/ WorkerCrash(w)
      PROVE  TypeOK'
  <2>1. CASE \/ ReadDue(w) \/ EndStep(w) \/ WorkerRestart(w) \/ WorkerCrash(w)
             \/ \E c \in queue[w] : Consider(w, c)
    BY <2>1, MoveTypes
  <2>2. CASE Claim(w) \/ Send(w) \/ SendFails(w) \/ Release(w) \/ Count(w) \/ Advance(w)
    <3>1. cur[w] \in Items /\ cur[w].id \in Rows
      BY <2>2, Served DEF Claim, Send, SendFails, Release, Count, Advance
    <3> QED
      BY <2>2, <3>1, ServeTypes
  <2> QED
    BY <1>2, <2>1, <2>2 DEF Deliver
<1>3. CASE \E r \in Rows : Cancel(r)
  BY <1>0, <1>3 DEF Cancel, TypeOK, place, clock, worker, bot, budgets, history
<1>4. CASE Tick
  <2>1. now' \in 0 .. Horizon /\ awake' \in BOOLEAN /\ polled' \in [Workers -> BOOLEAN]
    BY <1>0, <1>4, RemindersAssumption DEF Tick, TypeOK
  <2>2. sentAge' \in [Rows -> Ages \cup {Never}] /\ pinged' \in [People -> Ages]
    <3>1. \A a \in Ages : Older(a) \in Ages
      BY RemindersAssumption DEF Older, Ages
    <3> QED
      BY <1>0, <1>4, <3>1 DEF Tick, TypeOK
  <2> QED
    BY <1>0, <1>4, <2>1, <2>2 DEF Tick, TypeOK, place, worker, bot, budgets
<1>5. CASE UNCHANGED vars
  BY <1>0, <1>5 DEF vars, TypeOK, table, place, clock, worker, bot, budgets, history
<1> QED
  BY <1>1, <1>2, <1>3, <1>4, <1>5 DEF Next

-----------------------------------------------------------------------------
LEMMA InitIInv == Init => IInv
<1> SUFFICES ASSUME Init
             PROVE  IInv
  OBVIOUS
<1> USE RemindersAssumption
<1>1. TypeOK
  <2>1. NoView \in Views
    BY DEF NoView, Views, Targets, Zones
  <2>2. /\ MinInterval \in Ages /\ 0 \in 0 .. ToldCap /\ 0 \in 0 .. MaxAttempts
        /\ 0 \in 0 .. Horizon /\ 0 \in 0 .. MaxZones /\ 0 \in 0 .. MaxCrashes
    BY DEF Ages, ToldCap
  <2> QED
    BY <2>1, <2>2 DEF Init, TypeOK, Zones
<1>2. HeldOnce
  BY DEF Init, HeldOnce, Holds, Alone, Picked, Holding
<1>3. Ledger
  BY DEF Init, Ledger, RowOK, WorkerOK, NoneSwallowed, Most
<1>4. Readable
  BY DEF Init, Readable, NoView
<1> QED
  BY <1>1, <1>2, <1>3, <1>4 DEF IInv

\* The inductive invariant holds for every value of the constants.
THEOREM Invariance == Spec => []IInv
<1>1. IInv /\ [Next]_vars => IInv'
  BY HeldStep, ReadableStep, TypeStep DEF IInv
<1> QED
  BY <1>1, InitIInv, PTL DEF Spec

\* The table, the workers and the turns hold what they are declared to hold:
\* among it, a row is never released more often than MAX_ATTEMPTS
\* (worker/reminders.py _release), and a slot is always an instant.
THEOREM Typing == Spec => []TypeOK
<1>1. IInv => TypeOK
  BY DEF IInv
<1> QED
  BY <1>1, Invariance, PTL

\* However many workers, crashes, failing sends, cancellations and moved zones:
\* a one-off is sent at most once, a series at most REMINDER_MAX_DELIVERIES
\* times (worker/reminders.py _claim, _count_delivery, _advance).
THEOREM Promised == Spec => []PromisedCount
<1>1. IInv => PromisedCount
  BY DEF IInv, Ledger, RowOK, PromisedCount
<1> QED
  BY <1>1, Invariance, PTL

\* _release gives up a row only when its last MAX_ATTEMPTS sends have raised.
THEOREM Cause == Spec => []RetiredForCause
<1>1. IInv => RetiredForCause
  BY DEF IInv, Ledger, RowOK, RetiredForCause
<1> QED
  BY <1>1, Invariance, PTL

\* While no worker dies, a claimed row is sent or handed back: the claim before
\* the send (deliver_due_reminders) loses nothing by itself.
THEOREM Swallowing == Spec => []NoneSwallowed
<1>1. IInv => NoneSwallowed
  BY DEF IInv, Ledger
<1> QED
  BY <1>1, Invariance, PTL

\* reminder_cancel wins over a poll that has already read the row, and over every
\* release and move: what they touch was claimed, and a claimed row is not
\* cancelled.
THEOREM Cancelled == Spec => CancelledStays
<1>1. IInv /\ [Next]_vars =>
        \A r \in Rows : status[r] = "cancelled" =>
          status'[r] = "cancelled" /\ told'[r] = told[r]
  <2> SUFFICES ASSUME IInv, [Next]_vars, NEW r \in Rows, status[r] = "cancelled"
               PROVE  status'[r] = "cancelled" /\ told'[r] = told[r]
    OBVIOUS
  <2>0. /\ status \in [Rows -> {"none", "pending", "sent", "cancelled", "failed"}]
        /\ told \in [Rows -> 0 .. ToldCap]
    BY DEF IInv, TypeOK
  <2>1. CASE UNCHANGED <<status, told>>
    BY <2>1
  <2>2. CASE \E h \in Handlers, q \in Rows, a \in Requests : InsertReminder(h, q, a)
    BY <2>0, <2>2 DEF InsertReminder, history
  <2>3. CASE \E q \in Rows : Cancel(q)
    BY <2>0, <2>3 DEF Cancel, Cancellable, history
  <2>4. ASSUME NEW w \in Workers,
               \/ Claim(w) \/ Send(w) \/ Release(w) \/ Advance(w)
        PROVE  status'[r] = "cancelled" /\ told'[r] = told[r]
    <3>1. CASE Claim(w)
      BY <2>0, <3>1 DEF Claim, Claimable, history
    <3>2. CASE Send(w) \/ Release(w) \/ Advance(w)
      <4>1. cur[w].id # r
        BY <3>2 DEF IInv, HeldOnce, Holds, Holding, Send, Release, Advance
      <4>2. CASE Send(w)
        BY <2>0, <4>1, <4>2 DEF Send, table
      <4>3. CASE Release(w)
        BY <2>0, <4>1, <4>3 DEF Release, history
      <4>4. CASE Advance(w)
        BY <2>0, <4>1, <4>4 DEF Advance, history
      <4> QED
        BY <3>2, <4>2, <4>3, <4>4
    <3> QED
      BY <2>4, <3>1, <3>2
  <2>5. CASE \E h \in Handlers :
               \/ SelectPending(h) \/ EndReanchor(h) \/ CutShort(h) \/ LookUpZone(h)
               \/ \E q \in view[h].rows : Reanchor(h, q)
               \/ \E z \in Offsets : LearnZone(h, z)
               \/ \E t \in Targets : ReadZone(h, t) \/ \E z \in Offsets : StateZone(h, t, z)
    BY <2>1, <2>5 DEF SelectPending, EndReanchor, CutShort, LookUpZone, Reanchor, LearnZone,
                      ReadZone, StateZone, table, history
  <2>6. CASE \E w \in Workers :
               \/ ReadDue(w) \/ EndStep(w) \/ WorkerRestart(w) \/ WorkerCrash(w)
               \/ SendFails(w) \/ Count(w) \/ \E c \in queue[w] : Consider(w, c)
    BY <2>1, <2>6 DEF ReadDue, EndStep, WorkerRestart, WorkerCrash, SendFails, Count, Consider,
                      table, history
  <2>7. CASE Tick \/ UNCHANGED vars
    BY <2>1, <2>7 DEF Tick, vars, table, history
  <2> QED
    BY <2>2, <2>3, <2>4, <2>5, <2>6, <2>7 DEF Next, Turn, Deliver
<1>2. IInv /\ [Next]_vars =>
        [\A r \in Rows : status[r] = "cancelled" =>
          status'[r] = "cancelled" /\ told'[r] = told[r]]_vars
  BY <1>1
<1> QED
  BY <1>2, Invariance, PTL DEF Spec, CancelledStays

-----------------------------------------------------------------------------
\* Why one worker spaces one-offs out.

\* The one-off that person p was sent last: done with, and as old as the ping.
LeftBy(r, p) ==
  /\ ask[r].to = p /\ ~Repeats(r)
  /\ status[r] = "sent" /\ sentAge[r] \in 0 .. pinged[p]
  /\ \A w \in Workers : Holding(w) => cur[w].id # r

\* Whoever was pinged lately has a row that says so.
Remembered == \A p \in People : pinged[p] < MinInterval => \E r \in Rows : LeftBy(r, p)

\* Rows read, chosen and claimed were inserted; a claim is new when it is sent.
Chosen(w) == wpc[w] \in {"clear", "sending"}
Inserted == \A w \in Workers : /\ \A c \in queue[w] : status[c.id] # "none"
                               /\ Chosen(w) => status[cur[w].id] # "none"
NewClaim == \A w \in Workers : wpc[w] = "sending" => sentAge[cur[w].id] = 0

\* What was found clear stays clear until it is sent.
StaysClear == \A w \in Workers :
  Chosen(w) /\ Spaced(cur[w].id) => pinged[ask[cur[w].id].to] >= MinInterval

SpaceInv == Remembered /\ Inserted /\ NewClaim /\ StaysClear

\* Steps of the tools: rows inserted keep what was asked, and sent ones stay so.
LEMMA SpaceFrame ==
  ASSUME IInv, SpaceInv, UNCHANGED <<sentAge, wpc, cur, queue, pinged>>,
         \A q \in Rows : status[q] # "none" =>
           /\ ask'[q] = ask[q] /\ status'[q] # "none"
           /\ status[q] = "sent" => status'[q] = "sent"
  PROVE  SpaceInv'
<1> USE DEF SpaceInv
<1>1. \A w \in Workers : \A c \in queue[w] : c.id \in Rows
  BY DEF IInv, TypeOK, Items
<1>2. \A w \in Workers : Chosen(w) => cur[w].id \in Rows
  BY Served DEF Chosen
<1>3. \A r \in Rows, p \in People : LeftBy(r, p) => LeftBy(r, p)'
  BY DEF LeftBy, Repeats, Holding
<1>4. Remembered'
  BY <1>3 DEF Remembered
<1>5. Inserted' /\ NewClaim'
  BY <1>1, <1>2 DEF Inserted, NewClaim, Chosen
<1>6. StaysClear'
  BY <1>2 DEF StaysClear, Inserted, Chosen, Spaced, Repeats
<1> QED
  BY <1>4, <1>5, <1>6

LEMMA SpaceTools ==
  ASSUME IInv, SpaceInv,
         \/ \E h \in Handlers : \/ Turn(h) \/ LookUpZone(h)
                                \/ \E t \in Targets : \/ ReadZone(h, t)
                                                      \/ \E z \in Offsets : StateZone(h, t, z)
         \/ \E r \in Rows : Cancel(r)
         \/ UNCHANGED vars
  PROVE  SpaceInv'
<1>1. CASE \E h \in Handlers, r \in Rows, a \in Requests : InsertReminder(h, r, a)
  <2>1. PICK h \in Handlers, r \in Rows, a \in Requests : InsertReminder(h, r, a)
    BY <1>1
  <2>2. /\ UNCHANGED <<sentAge, wpc, cur, queue, pinged>> /\ status[r] = "none"
        /\ ask' = [ask EXCEPT ![r] = a] /\ status' = [status EXCEPT ![r] = "pending"]
    BY <2>1 DEF InsertReminder, worker, history
  <2>3. ask \in [Rows -> Requests \cup {NoAsk}] /\ DOMAIN status = Rows
    BY DEF IInv, TypeOK
  <2> QED
    BY <2>2, <2>3, SpaceFrame
<1>2. CASE \E r \in Rows : Cancel(r)
  <2>1. PICK r \in Rows : Cancel(r)
    BY <1>2
  <2>2. /\ UNCHANGED <<ask, sentAge, wpc, cur, queue, pinged>> /\ status[r] = "pending"
        /\ status' = [status EXCEPT ![r] = "cancelled"]
    BY <2>1 DEF Cancel, Cancellable, worker, history
  <2>3. DOMAIN status = Rows
    BY DEF IInv, TypeOK
  <2> QED
    BY <2>2, <2>3, SpaceFrame
<1>3. ASSUME NEW h \in Handlers, NEW t \in Targets, ReadZone(h, t)
      PROVE  SpaceInv'
  BY <1>3, Zenon, SpaceFrame DEF ReadZone, table, worker, history
<1>4. CASE \E h \in Handlers :
             \/ SelectPending(h) \/ EndReanchor(h) \/ CutShort(h) \/ LookUpZone(h)
             \/ \E q \in view[h].rows : Reanchor(h, q)
             \/ \E z \in Offsets : LearnZone(h, z)
             \/ \E t \in Targets, z \in Offsets : StateZone(h, t, z)
  <2>1. UNCHANGED <<ask, status, sentAge, wpc, cur, queue, pinged>>
    BY <1>4 DEF SelectPending, EndReanchor, CutShort, LookUpZone, Reanchor, LearnZone,
                StateZone, table, worker, history
  <2> QED
    BY <2>1, SpaceFrame
<1>5. CASE UNCHANGED vars
  BY <1>5, SpaceFrame DEF vars, table, worker, history
<1> QED
  BY <1>1, <1>2, <1>3, <1>4, <1>5 DEF Turn

\* The one worker leaves what it was about: nothing was sent or claimed.
LEMMA SpaceIdle ==
  ASSUME IInv, SpaceInv, NEW w \in Workers, \A v \in Workers : v = w,
         UNCHANGED <<ask, status, sentAge, pinged>>,
         ~Chosen(w)', Holding(w)' => Holding(w) /\ cur'[w] = cur[w],
         \A c \in queue'[w] : status[c.id] # "none"
  PROVE  SpaceInv'
<1> USE DEF SpaceInv
<1>1. Inserted' /\ NewClaim' /\ StaysClear'
  BY DEF Inserted, NewClaim, StaysClear, Chosen
<1>2. \A r \in Rows, p \in People : LeftBy(r, p) => LeftBy(r, p)'
  BY DEF LeftBy, Repeats
<1>3. Remembered'
  BY <1>2 DEF Remembered
<1> QED
  BY <1>1, <1>3

\* The row it is about to claim was clear when it looked.
LEMMA SpaceConsider ==
  ASSUME IInv, SpaceInv, NEW w \in Workers, \A v \in Workers : v = w,
         NEW c \in queue[w], Consider(w, c)
  PROVE  SpaceInv'
<1> USE DEF SpaceInv
<1>1. /\ wpc \in [Workers -> {"idle", "serving", "clear", "sending", "missed",
                              "counting", "moving", "down"}]
      /\ cur \in [Workers -> Items \cup {Never}] /\ queue \in [Workers -> SUBSET Items]
      /\ pinged \in [People -> Ages] /\ MinInterval \in Nat
  BY RemindersAssumption DEF IInv, TypeOK
<1>2. /\ UNCHANGED <<ask, status, sentAge, pinged>> /\ wpc[w] = "serving"
      /\ queue'[w] = queue[w] \ {c} /\ c.id \in Rows /\ status[c.id] # "none"
  BY <1>1 DEF Consider, table, history, Items, Inserted
<1>3. \A d \in queue'[w] : status[d.id] # "none"
  BY <1>2 DEF Inserted
<1>4. CASE UNCHANGED <<wpc, cur>>
  BY <1>2, <1>3, <1>4, SpaceIdle DEF Chosen, Holding
<1>5. CASE /\ ~(Spaced(c.id) /\ PingedLately(ask[c.id].to))
           /\ wpc' = [wpc EXCEPT ![w] = "clear"] /\ cur' = [cur EXCEPT ![w] = c]
  <2>1. wpc'[w] = "clear" /\ cur'[w] = c
    BY <1>1, <1>5
  <2>2. \A r \in Rows, p \in People : LeftBy(r, p) => LeftBy(r, p)'
    BY <1>2, <2>1 DEF LeftBy, Repeats, Holding
  <2>3. Remembered'
    BY <1>2, <2>2 DEF Remembered
  <2>4. Inserted' /\ NewClaim'
    BY <1>2, <1>3, <2>1 DEF Inserted, NewClaim, Chosen
  <2>5. Spaced(c.id) => pinged[ask[c.id].to] >= MinInterval
    <3> SUFFICES ASSUME Spaced(c.id), ~(pinged[ask[c.id].to] >= MinInterval)
                 PROVE  FALSE
      OBVIOUS
    <3> DEFINE p == ask[c.id].to
    <3>1. p \in People /\ pinged[p] \in Ages
      BY <1>1 DEF Spaced
    <3>2. pinged[p] < MinInterval
      BY <1>1, <3>1 DEF Ages
    <3>3. PICK r \in Rows : LeftBy(r, p)
      BY <3>1, <3>2 DEF Remembered
    <3>4. sentAge[r] # Never /\ sentAge[r] < MinInterval
      BY <1>1, <3>1, <3>2, <3>3, RemindersAssumption DEF LeftBy, Ages
    <3> QED
      BY <1>5, <3>3, <3>4 DEF PingedLately, LeftBy
  <2>6. StaysClear'
    BY <1>2, <2>1, <2>5 DEF StaysClear, Chosen, Spaced, Repeats
  <2> QED
    BY <2>3, <2>4, <2>6
<1> QED
  BY <1>4, <1>5 DEF Consider

\* It claims the row: none that is remembered, for those were sent before.
LEMMA SpaceClaim ==
  ASSUME IInv, SpaceInv, NEW w \in Workers, \A v \in Workers : v = w, Claim(w)
  PROVE  SpaceInv'
<1> USE DEF SpaceInv
<1> DEFINE r == cur[w].id
<1>1. /\ wpc \in [Workers -> {"idle", "serving", "clear", "sending", "missed",
                              "counting", "moving", "down"}]
      /\ cur \in [Workers -> Items \cup {Never}]
      /\ status \in [Rows -> {"none", "pending", "sent", "cancelled", "failed"}]
      /\ DOMAIN sentAge = Rows
  BY DEF IInv, TypeOK
<1>2. /\ wpc[w] = "clear" /\ r \in Rows /\ UNCHANGED <<ask, queue, pinged>>
  BY Served DEF Claim, Goto, Done, history
<1>3. CASE Claimable(r)
  <2>1. /\ status[r] = "pending" /\ cur' = cur /\ wpc'[w] = "sending"
        /\ status'[r] = "sent" /\ sentAge'[r] = 0
        /\ \A q \in Rows \ {r} : status'[q] = status[q] /\ sentAge'[q] = sentAge[q]
    BY <1>1, <1>2, <1>3 DEF Claim, Claimable, Goto
  <2>2. \A q \in Rows, p \in People : LeftBy(q, p) => LeftBy(q, p)'
    BY <1>2, <2>1 DEF LeftBy, Repeats
  <2>3. Remembered'
    BY <1>2, <2>2 DEF Remembered
  <2>4. \A c \in queue[w] : c.id \in Rows
    BY DEF IInv, TypeOK, Items
  <2>5. Inserted' /\ NewClaim'
    BY <1>2, <2>1, <2>4 DEF Inserted, NewClaim, Chosen
  <2>6. StaysClear'
    BY <1>2, <2>1 DEF StaysClear, Chosen, Spaced, Repeats
  <2> QED
    BY <2>3, <2>5, <2>6
<1>4. CASE ~Claimable(r)
  <2>1. UNCHANGED <<status, sentAge>> /\ wpc'[w] = "serving"
    BY <1>1, <1>4 DEF Claim, Done
  <2> QED
    BY <1>2, <2>1, SpaceIdle DEF Chosen, Holding, Inserted
<1> QED
  BY <1>3, <1>4

\* The message goes out: a one-off to a person is what they are remembered by.
LEMMA SpaceSend ==
  ASSUME IInv, SpaceInv, NEW w \in Workers, \A v \in Workers : v = w, Send(w),
         NEW r, r = cur[w].id
  PROVE  SpaceInv'
<1> USE DEF SpaceInv
<1>1. /\ wpc \in [Workers -> {"idle", "serving", "clear", "sending", "missed",
                              "counting", "moving", "down"}]
      /\ cur \in [Workers -> Items \cup {Never}] /\ pinged \in [People -> Ages]
  BY DEF IInv, TypeOK
<1>2. /\ wpc[w] = "sending" /\ r \in Rows /\ status[r] = "sent" /\ sentAge[r] = 0
      /\ UNCHANGED <<ask, status, sentAge, queue>> /\ ~Chosen(w)'
  <2>1. wpc[w] = "sending" /\ Holding(w)
    BY DEF Send, Holding
  <2>2. wpc'[w] \in {"counting", "serving"} /\ queue' = queue
    <3>1. CASE Goto(w, "counting")
      BY <1>1, <3>1 DEF Goto
    <3>2. CASE Done(w)
      BY <1>1, <3>2 DEF Done
    <3> QED
      BY <3>1, <3>2 DEF Send
  <2> QED
    BY <2>1, <2>2, HeldFacts, Served DEF Send, Chosen, NewClaim, table
<1>3. CASE Repeats(r) \/ ask[r].to \notin People
  <2>1. pinged' = pinged /\ (Holding(w)' => cur' = cur)
    <3>1. CASE Repeats(r)
      BY <3>1 DEF Send, Goto
    <3>2. CASE ~Repeats(r)
      <4>1. pinged' = pinged /\ wpc' = [wpc EXCEPT ![w] = "serving"]
        BY <1>3, <3>2 DEF Send, Done
      <4> QED
        BY <1>1, <4>1 DEF Holding
    <3> QED
      BY <3>1, <3>2
  <2> QED
    BY <1>2, <2>1, SpaceIdle DEF Holding, Inserted
<1>4. ASSUME ~Repeats(r), NEW p \in People, p = ask[r].to
      PROVE  SpaceInv'
  <2>1. /\ wpc'[w] = "serving" /\ pinged'[p] = 0
        /\ \A q \in People \ {p} : pinged'[q] = pinged[q]
    BY <1>1, <1>4 DEF Send, Done
  <2>2. LeftBy(r, p)'
    BY <1>2, <1>4, <2>1 DEF LeftBy, Repeats, Holding
  <2>3. \A q \in Rows, u \in People \ {p} : LeftBy(q, u) => LeftBy(q, u)'
    BY <1>2, <2>1 DEF LeftBy, Repeats, Holding
  <2>4. Remembered'
    BY <1>2, <2>1, <2>2, <2>3 DEF Remembered
  <2>5. Inserted' /\ NewClaim' /\ StaysClear'
    BY <1>2, <2>1 DEF Inserted, NewClaim, StaysClear, Chosen
  <2> QED
    BY <2>4, <2>5
<1> QED
  BY <1>3, <1>4

\* A row in hand is released or moved on: none that is remembered.
LEMMA SpaceLetGo ==
  ASSUME IInv, SpaceInv, NEW w \in Workers, \A v \in Workers : v = w,
         Release(w) \/ Advance(w)
  PROVE  SpaceInv'
<1> USE DEF SpaceInv
<1> DEFINE r == cur[w].id
<1>1. Holding(w) /\ r \in Rows /\ status[r] = "sent"
  <2>1. Holding(w)
    BY DEF Release, Advance, Holding
  <2> QED
    BY <2>1, HeldFacts, Served DEF Holding
<1>2. /\ UNCHANGED <<ask, queue, pinged>> /\ wpc' = [wpc EXCEPT ![w] = "serving"]
      /\ \/ UNCHANGED <<status, sentAge>>
         \/ /\ \E at \in {"failed", "pending"} : status' = [status EXCEPT ![r] = at]
            /\ sentAge' = [sentAge EXCEPT ![r] = Never]
  BY DEF Release, AfterMiss, Advance, Done, history
<1>3. wpc'[w] = "serving" /\ \A q \in Rows : status[q] # "none" => status'[q] # "none"
  BY <1>2 DEF IInv, TypeOK
<1>4. \A q \in Rows \ {r} : status'[q] = status[q] /\ sentAge'[q] = sentAge[q]
  BY <1>2 DEF IInv, TypeOK
<1>5. \A q \in Rows, p \in People : LeftBy(q, p) => LeftBy(q, p)'
  BY <1>1, <1>2, <1>3, <1>4 DEF LeftBy, Repeats, Holding
<1>6. Remembered'
  BY <1>2, <1>5 DEF Remembered
<1>7. \A c \in queue[w] : c.id \in Rows
  BY DEF IInv, TypeOK, Items
<1>8. Inserted' /\ NewClaim' /\ StaysClear'
  BY <1>2, <1>3, <1>7 DEF Inserted, NewClaim, StaysClear, Chosen
<1> QED
  BY <1>6, <1>8

LEMMA SpaceWorker ==
  ASSUME IInv, SpaceInv, NEW w \in Workers, \A v \in Workers : v = w,
         Deliver(w) \/ WorkerCrash(w)
  PROVE  SpaceInv'
<1>1. /\ wpc \in [Workers -> {"idle", "serving", "clear", "sending", "missed",
                              "counting", "moving", "down"}]
      /\ queue \in [Workers -> SUBSET Items]
  BY DEF IInv, TypeOK
<1>2. CASE ReadDue(w)
  <2>1. \A c \in queue'[w] : status[c.id] # "none"
    BY <1>1, <1>2 DEF ReadDue, IsDue
  <2>2. UNCHANGED <<ask, status, sentAge, pinged>> /\ wpc'[w] = "serving"
    BY <1>1, <1>2 DEF ReadDue, table, history
  <2> QED
    BY <2>1, <2>2, SpaceIdle DEF Chosen, Holding
<1>3. CASE EndStep(w) \/ WorkerRestart(w) \/ WorkerCrash(w)
  <2>1. /\ UNCHANGED <<ask, status, sentAge, pinged>> /\ wpc'[w] \in {"idle", "down"}
        /\ queue'[w] \subseteq queue[w]
    BY <1>1, <1>3 DEF EndStep, WorkerRestart, WorkerCrash, table, history
  <2> QED
    BY <2>1, SpaceIdle DEF Chosen, Holding, SpaceInv, Inserted
<1>4. CASE SendFails(w) \/ Count(w)
  <2>1. /\ UNCHANGED <<ask, status, sentAge, pinged, cur, queue>>
        /\ wpc'[w] \in {"missed", "moving"} /\ Holding(w)
    BY <1>1, <1>4 DEF SendFails, Count, Goto, table, history, Holding
  <2> QED
    BY <2>1, SpaceIdle DEF Chosen, SpaceInv, Inserted
<1> QED
  BY <1>2, <1>3, <1>4, SpaceConsider, SpaceClaim, SpaceSend, SpaceLetGo DEF Deliver

\* Row and ping grow old together.
LEMMA SpaceTick ==
  ASSUME IInv, SpaceInv, Tick
  PROVE  SpaceInv'
<1> USE RemindersAssumption DEF SpaceInv
<1>1. /\ pinged \in [People -> Ages] /\ sentAge \in [Rows -> Ages \cup {Never}]
      /\ UNCHANGED <<ask, status, wpc, cur, queue>>
  BY DEF IInv, TypeOK, Tick, worker
<1>2. \A w \in Workers : ~Chosen(w)'
  BY DEF Tick, Chosen, worker
<1>3. Inserted' /\ NewClaim' /\ StaysClear'
  BY <1>1, <1>2 DEF Inserted, NewClaim, StaysClear, Chosen
<1>4. Remembered'
  <2> SUFFICES ASSUME NEW p \in People, pinged'[p] < MinInterval
               PROVE  \E r \in Rows : LeftBy(r, p)'
    BY DEF Remembered
  <2>1. pinged[p] \in Ages /\ pinged'[p] = Older(pinged[p])
    BY <1>1 DEF Tick
  <2>2. pinged[p] < MinInterval /\ pinged'[p] = pinged[p] + 1
    BY <2>1 DEF Older, Ages
  <2>3. PICK r \in Rows : LeftBy(r, p)
    BY <2>2 DEF Remembered
  <2>4. sentAge[r] \in 0 .. pinged[p] /\ sentAge'[r] = Older(sentAge[r])
    BY <2>1, <2>3 DEF Tick, LeftBy, Ages
  <2>5. sentAge'[r] \in 0 .. pinged'[p]
    BY <2>1, <2>2, <2>4 DEF Older, Ages
  <2> QED
    BY <1>1, <2>3, <2>5 DEF LeftBy, Repeats, Holding
<1> QED
  BY <1>3, <1>4

\* One worker, which docker-compose runs, never sends a person two one-offs
\* within REMINDER_MIN_INTERVAL_HOURS: what its claims leave in the table is
\* what _recently_pinged reads (worker/reminders.py deliver_due_reminders).
THEOREM Spacing ==
  ASSUME \A v, w \in Workers : v = w
  PROVE  Spec => []SpacedOut
<1>1. Init => SpaceInv
  BY RemindersAssumption
     DEF Init, SpaceInv, Remembered, Inserted, NewClaim, StaysClear, Chosen
<1>2. IInv /\ SpaceInv /\ [Next]_vars => SpaceInv'
  BY SpaceTools, SpaceWorker, SpaceTick DEF Next
<1>3. SpaceInv => SpacedOut
  BY DEF SpaceInv, StaysClear, SpacedOut, Chosen, Spaced
<1> QED
  BY <1>1, <1>2, <1>3, Invariance, PTL DEF Spec
=============================================================================
