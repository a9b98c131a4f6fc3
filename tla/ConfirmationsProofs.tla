------------------------- MODULE ConfirmationsProofs -------------------------
(***************************************************************************)
(* Theorems about Confirmations, for any number of messages in hand,       *)
(* proposals and sessions, any failing sends and any restarts.             *)
(*                                                                         *)
(* TakenOnce and DoneIsTrue do not say what a message is about to do.  The *)
(* invariant does: a message that acts on a row resolved it itself, the    *)
(* row stands as confirmed and nothing has been done for it (Takes), and   *)
(* no other message acts on that row (Alone).                              *)
(***************************************************************************)
EXTENDS Confirmations, TLAPS

Answering(m) ==
  phase[m] \in {"classify", "confirm", "reject", "execute", "say", "cancelled"}

\* A message knows its session, and the row it answers.
Reads ==
  \A m \in Handlers :
    /\ phase[m] # "idle" => of[m] \in Sessions
    /\ Answering(m) => pending[m] \in Made
    /\ resolved[m] => phase[m] \in {"execute", "say", "cancelled"}

Taking(m) == phase[m] = "execute" /\ resolved[m]

Takes ==
  \A m \in Handlers :
    /\ Taking(m) => proposal[pending[m]].status = "confirmed" /\ runs[pending[m]] = 0
    /\ phase[m] = "say" /\ result[m] = "executed" => runs[pending[m]] = 1

Alone ==
  \A m, n \in Handlers : Taking(m) /\ Taking(n) /\ pending[m] = pending[n] => m = n

\* What has been done for a row, and what was said of it.
Ledger ==
  \A p \in Proposals :
    /\ runs[p] <= 1
    /\ ~(p \in Made /\ proposal[p].status = "confirmed") => runs[p] = 0
    /\ "done" \in heard[p] => runs[p] = 1

IInv == ConfirmTypeOK /\ Reads /\ Takes /\ Alone /\ Ledger /\ ConfirmedIsNotDropped

-----------------------------------------------------------------------------
\* A row stays a row when its answer, or its age, is written.
LEMMA RowTypes ==
  ASSUME ConfirmTypeOK, NEW p \in Made
  PROVE  /\ p \in Proposals /\ proposal[p] \in Proposal
         /\ \A s \in {"pending", "confirmed", "rejected"} :
              [proposal[p] EXCEPT !.status = s] \in Proposal
         /\ [proposal[p] EXCEPT !.recent = FALSE] \in Proposal
<1>1. p \in Proposals /\ proposal[p] \in Proposal
  BY DEF Made, ConfirmTypeOK
<1>2. \A s \in {"pending", "confirmed", "rejected"} :
        [proposal[p] EXCEPT !.status = s] \in Proposal
  BY <1>1 DEF Proposal
<1>3. [proposal[p] EXCEPT !.recent = FALSE] \in Proposal
  BY <1>1 DEF Proposal
<1> QED
  BY <1>1, <1>2, <1>3

\* Writing to the row a message answers, or to no row.
LEMMA ResolvesTypes ==
  ASSUME ConfirmTypeOK, NEW m \in Handlers, pending[m] \in Made,
         NEW s \in {"confirmed", "rejected"}, Resolves(m, s)
  PROVE  /\ proposal' \in [Proposals -> Proposal \cup {None}] /\ Made' = Made
         /\ resolved' \in [Handlers -> BOOLEAN]
         /\ \A n \in Handlers \ {m} : resolved'[n] = resolved[n]
         /\ \A p \in Proposals : p # pending[m] => proposal'[p] = proposal[p]
         /\ proposal[pending[m]].status = "pending" =>
              proposal'[pending[m]].status = s /\ resolved'[m]
         /\ proposal[pending[m]].status # "pending" =>
              proposal'[pending[m]] = proposal[pending[m]] /\ resolved'[m] = resolved[m]
<1> DEFINE p == pending[m]
<1>0. /\ proposal \in [Proposals -> Proposal \cup {None}]
      /\ resolved \in [Handlers -> BOOLEAN]
  BY DEF ConfirmTypeOK
<1>1. p \in Proposals /\ [proposal[p] EXCEPT !.status = s] \in Proposal
  BY RowTypes
<1>2. proposal[p] \in Proposal
  BY RowTypes
<1>3. CASE proposal[p].status = "pending"
  <2>1. /\ proposal' = [proposal EXCEPT ![p] = [proposal[p] EXCEPT !.status = s]]
        /\ resolved' = [resolved EXCEPT ![m] = TRUE]
    BY <1>3 DEF Resolves
  <2>2. proposal'[p] # None
    BY <1>0, <1>1, <2>1, NoneAssumption
  <2>3. proposal'[p].status = s
    BY <1>0, <1>1, <1>2, <2>1 DEF Proposal
  <2>4. Made' = Made
    BY <1>0, <1>1, <2>1, <2>2 DEF Made
  <2> QED
    BY <1>0, <1>1, <1>3, <2>1, <2>3, <2>4
<1>4. CASE proposal[p].status # "pending"
  BY <1>0, <1>1, <1>4 DEF Resolves, Made
<1> QED
  BY <1>3, <1>4

-----------------------------------------------------------------------------
\* Typing, and what a message knows.
LEMMA TypingInit == ConfirmInit => IInv
<1> SUFFICES ASSUME ConfirmInit PROVE IInv
  OBVIOUS
<1>1. ConfirmTypeOK
  BY ConfirmationsAssumption DEF ConfirmInit, ConfirmTypeOK, Sessions
<1>2. Made = {}
  BY DEF ConfirmInit, Made
<1> QED
  BY <1>1, <1>2 DEF ConfirmInit, IInv, Reads, Answering, Takes, Taking, Alone, Ledger,
                    ConfirmedIsNotDropped

\* A message that is over, or moves on, keeps the locals' types.
LEMMA LocalsTypes ==
  ASSUME ConfirmTypeOK, Reads, NEW m \in Handlers, Leaves(m)
  PROVE  /\ phase' \in [Handlers -> {"idle", "read", "classify", "confirm", "execute", "say",
                                     "reject", "cancelled", "turn"}]
         /\ of' \in [Handlers -> Sessions \cup {None}]
         /\ pending' \in [Handlers -> Proposals \cup {None}]
         /\ resolved' \in [Handlers -> BOOLEAN]
         /\ result' \in [Handlers -> {"executed", "nothing", None}]
         /\ phase'[m] = "idle" /\ ~resolved'[m]
         /\ \A n \in Handlers \ {m} :
              /\ phase'[n] = phase[n] /\ of'[n] = of[n] /\ pending'[n] = pending[n]
              /\ resolved'[n] = resolved[n] /\ result'[n] = result[n]
BY DEF ConfirmTypeOK, Leaves, Moves

LEMMA TypingStep ==
  ASSUME ConfirmTypeOK, Reads, ConfirmNext
  PROVE  ConfirmTypeOK' /\ Reads'
<1> USE DEF kvars, facts, inHand, ghosts
<1>1. ASSUME NEW m \in Handlers, Arrives(m) PROVE ConfirmTypeOK' /\ Reads'
  <2>1. ConfirmTypeOK'
    BY <1>1, ConfirmationsAssumption DEF ConfirmTypeOK, Arrives, Moves
  <2>2. Reads'
    BY <1>1 DEF ConfirmTypeOK, Reads, Arrives, Moves, Answering, Made
  <2> QED
    BY <2>1, <2>2
<1>2. ASSUME NEW m \in Handlers, ReadPending(m) PROVE ConfirmTypeOK' /\ Reads'
  <2>1. Open \subseteq Made /\ Made \subseteq Proposals
    BY DEF Open, Made
  <2>2. ConfirmTypeOK'
    BY <1>2, <2>1 DEF ConfirmTypeOK, ReadPending, Moves
  <2>3. Reads'
    BY <1>2, <2>1 DEF ConfirmTypeOK, Reads, ReadPending, Moves, Answering, Made
  <2> QED
    BY <2>2, <2>3
<1>3. ASSUME NEW m \in Handlers, Classified(m) PROVE ConfirmTypeOK' /\ Reads'
  <2>1. ConfirmTypeOK'
    BY <1>3 DEF ConfirmTypeOK, Classified, Readings, Moves
  <2>2. Reads'
    BY <1>3 DEF ConfirmTypeOK, Reads, Classified, Readings, Moves, Answering, Made
  <2> QED
    BY <2>1, <2>2
<1>4. ASSUME NEW m \in Handlers, Confirm(m) \/ Reject(m) PROVE ConfirmTypeOK' /\ Reads'
  <2>1. pending[m] \in Made
    BY <1>4 DEF Reads, Confirm, Reject, Answering
  <2>2. PICK s \in {"confirmed", "rejected"} : Resolves(m, s)
    BY <1>4 DEF Confirm, Reject
  <2>3. /\ proposal' \in [Proposals -> Proposal \cup {None}] /\ Made' = Made
        /\ resolved' \in [Handlers -> BOOLEAN]
        /\ \A n \in Handlers \ {m} : resolved'[n] = resolved[n]
    BY <2>1, <2>2, ResolvesTypes
  <2>4. ConfirmTypeOK'
    BY <1>4, <2>3 DEF ConfirmTypeOK, Confirm, Reject, Moves
  <2>5. Reads'
    BY <1>4, <2>1, <2>3 DEF ConfirmTypeOK, Reads, Confirm, Reject, Moves, Answering
  <2> QED
    BY <2>4, <2>5
<1>5. ASSUME NEW m \in Handlers, NotResolved(m) \/ RemoveItem(m) \/ Retopic(m)
      PROVE  ConfirmTypeOK' /\ Reads'
  <2>1. pending[m] \in Proposals
    BY <1>5 DEF Reads, NotResolved, RemoveItem, Retopic, Answering, Made
  <2>2. ConfirmTypeOK'
    <3>1. CASE NotResolved(m)
      BY <3>1 DEF ConfirmTypeOK, NotResolved, Outcome, Moves
    <3>2. CASE RemoveItem(m)
      <4>1. onList' \in [Sessions -> BOOLEAN]
        BY <3>2 DEF ConfirmTypeOK, RemoveItem
      <4>2. /\ runs' \in [Proposals -> Nat] /\ moot' \in SUBSET Proposals
            /\ result' \in [Handlers -> {"executed", "nothing", None}]
        BY <3>2, <2>1 DEF ConfirmTypeOK, RemoveItem, Outcome, Took, Moot
      <4> QED
        BY <3>2, <4>1, <4>2 DEF ConfirmTypeOK, RemoveItem, Outcome, Moves
    <3>3. CASE Retopic(m)
      BY <3>3, <2>1 DEF ConfirmTypeOK, Retopic, Outcome, Moves, Took, Moot
    <3> QED
      BY <1>5, <3>1, <3>2, <3>3
  <2>3. Reads'
    BY <1>5 DEF ConfirmTypeOK, Reads, NotResolved, RemoveItem, Retopic, Outcome, Moves,
                Answering, Made
  <2> QED
    BY <2>2, <2>3
<1>6. ASSUME NEW m \in Handlers, Broadcast(m) PROVE ConfirmTypeOK' /\ Reads'
  <2>1. pending[m] \in Proposals
    BY <1>6 DEF Reads, Broadcast, Answering, Made
  <2>2. CASE Took(pending[m]) /\ Outcome(m, "executed") /\ UNCHANGED <<of, pending, resolved, lost>>
    <3>1. ConfirmTypeOK'
      BY <1>6, <2>1, <2>2 DEF ConfirmTypeOK, Broadcast, Outcome, Moves, Took
    <3>2. Reads'
      BY <1>6, <2>2 DEF ConfirmTypeOK, Reads, Broadcast, Outcome, Moves, Answering, Made
    <3> QED
      BY <3>1, <3>2
  <2>3. CASE lost' = lost \cup {pending[m]} /\ Leaves(m) /\ UNCHANGED <<runs, moot>>
    <3>1. ConfirmTypeOK'
      BY <1>6, <2>1, <2>3, LocalsTypes DEF ConfirmTypeOK, Broadcast
    <3>2. Reads'
      BY <1>6, <2>3, LocalsTypes DEF Reads, Broadcast, Answering, Made
    <3> QED
      BY <3>1, <3>2
  <2> QED
    BY <1>6, <2>2, <2>3 DEF Broadcast
<1>7. ASSUME NEW m \in Handlers, SayResult(m) \/ SayCancelled(m) PROVE ConfirmTypeOK' /\ Reads'
  <2>1. PICK what \in {"done", "nothing", "cancelled"} : Tells(m, what)
    BY <1>7 DEF SayResult, SayCancelled
  <2>2. pending[m] \in Proposals
    BY <1>7 DEF Reads, SayResult, SayCancelled, Answering, Made
  <2>3. heard' \in [Proposals -> SUBSET {"done", "nothing", "cancelled"}]
    BY <2>1, <2>2 DEF Tells, ConfirmTypeOK
  <2>4. ConfirmTypeOK'
    BY <2>1, <2>3, LocalsTypes DEF ConfirmTypeOK, Tells
  <2>5. Reads'
    BY <2>1, LocalsTypes DEF Reads, Tells, Answering, Made
  <2> QED
    BY <2>4, <2>5
<1>8. ASSUME NEW m \in Handlers, Propose(m) PROVE ConfirmTypeOK' /\ Reads'
  <2>1. PICK p \in Proposals \ Made, action \in ActionTypes :
          proposal' = [proposal EXCEPT ![p] =
            [action |-> action, session |-> of[m], recent |-> TRUE, status |-> "pending"]]
    BY <1>8 DEF Propose
  <2>2. of[m] \in Sessions
    BY <1>8 DEF Propose, Reads
  <2>3. [action |-> action, session |-> of[m], recent |-> TRUE, status |-> "pending"]
          \in Proposal
    BY <2>1, <2>2 DEF Proposal
  <2>4. ConfirmTypeOK'
    BY <1>8, <2>1, <2>3 DEF ConfirmTypeOK, Propose
  <2>5. Made \subseteq Made'
    BY <2>1 DEF Made, ConfirmTypeOK
  <2>6. Reads'
    BY <1>8, <2>5 DEF Reads, Propose, Answering
  <2> QED
    BY <2>4, <2>6
<1>9. ASSUME NEW m \in Handlers, NoMoreProposals(m) PROVE ConfirmTypeOK' /\ Reads'
  <2>1. ConfirmTypeOK'
    BY <1>9, LocalsTypes DEF ConfirmTypeOK, NoMoreProposals
  <2>2. Reads'
    BY <1>9, LocalsTypes DEF Reads, NoMoreProposals, Answering, Made
  <2> QED
    BY <2>1, <2>2
<1>10. CASE Close \/ Reopen \/ ItemAdded
  <2>1. ConfirmTypeOK'
    <3>1. CASE Close
      BY <3>1 DEF ConfirmTypeOK, Close
    <3>2. CASE Reopen
      BY <3>2, ConfirmationsAssumption DEF ConfirmTypeOK, Reopen, Sessions
    <3>3. CASE ItemAdded
      BY <3>3 DEF ConfirmTypeOK, ItemAdded
    <3> QED
      BY <1>10, <3>1, <3>2, <3>3
  <2>2. Reads'
    BY <1>10 DEF Reads, Close, Reopen, ItemAdded, Answering, Made
  <2> QED
    BY <2>1, <2>2
<1>11. CASE Crash
  <2>1. {pending[m] : m \in {x \in Handlers : phase[x] = "execute" /\ resolved[x]}}
          \subseteq Proposals
    BY DEF Reads, Answering, Made
  <2>2. ConfirmTypeOK'
    BY <1>11, <2>1 DEF ConfirmTypeOK, Crash
  <2>3. Reads'
    BY <1>11 DEF Reads, Crash, Answering
  <2> QED
    BY <2>2, <2>3
<1>12. ASSUME NEW p \in Proposals, DayPasses(p) PROVE ConfirmTypeOK' /\ Reads'
  <2>1. p \in Made
    BY <1>12 DEF DayPasses, Open
  <2>2. [proposal[p] EXCEPT !.recent = FALSE] \in Proposal
    BY <2>1, RowTypes
  <2>3. proposal' = [proposal EXCEPT ![p] = [proposal[p] EXCEPT !.recent = FALSE]]
    BY <1>12 DEF DayPasses
  <2>4. ConfirmTypeOK'
    BY <1>12, <2>2, <2>3 DEF ConfirmTypeOK, DayPasses
  <2>5. Made' = Made
    <3>1. proposal \in [Proposals -> Proposal \cup {None}]
      BY DEF ConfirmTypeOK
    <3>2. proposal[p] # None /\ proposal'[p] # None
      BY <2>1, <2>2, <2>3, <3>1, NoneAssumption DEF Made
    <3> QED
      BY <2>3, <3>1, <3>2 DEF Made
  <2>6. Reads'
    BY <1>12, <2>5 DEF Reads, DayPasses, Answering
  <2> QED
    BY <2>4, <2>6
<1> QED
  BY <1>1, <1>2, <1>3, <1>4, <1>5, <1>6, <1>7, <1>8, <1>9, <1>10, <1>11, <1>12
     DEF ConfirmNext

-----------------------------------------------------------------------------
\* Steps of a message that neither resolve a row nor act on one.
LEMMA Frame ==
  ASSUME IInv, Reads', NEW m \in Handlers, ~Taking(m), phase'[m] \notin {"execute", "say"},
         UNCHANGED <<proposal, runs, moot>>, lost \subseteq lost',
         \A p \in Proposals : "done" \in heard'[p] => "done" \in heard[p] \/ runs[p] = 1,
         \A n \in Handlers \ {m} :
           /\ phase'[n] = phase[n] /\ pending'[n] = pending[n]
           /\ resolved'[n] = resolved[n] /\ result'[n] = result[n]
  PROVE  Takes' /\ Alone' /\ Ledger' /\ ConfirmedIsNotDropped'
<1>1. Takes'
  BY DEF IInv, Takes, Taking
<1>2. Alone'
  BY DEF IInv, Alone, Taking
<1>3. Made' = Made
  BY DEF Made
<1>4. Ledger'
  BY <1>3 DEF IInv, Ledger
<1>5. ConfirmedIsNotDropped'
  BY <1>3 DEF IInv, ConfirmedIsNotDropped, Taking
<1> QED
  BY <1>1, <1>2, <1>4, <1>5

\* Steps of a message that has resolved its row, and acts on it.
LEMMA Acts ==
  ASSUME IInv, Reads', NEW m \in Handlers, Taking(m), ~Taking(m)',
         UNCHANGED <<proposal, heard>>, moot \subseteq moot', lost \subseteq lost',
         \A p \in Proposals : p # pending[m] => runs'[p] = runs[p],
         \/ runs'[pending[m]] = 1
         \/ runs'[pending[m]] = 0 /\ pending[m] \in moot' \cup lost',
         phase'[m] = "say" /\ result'[m] = "executed" =>
           pending'[m] = pending[m] /\ runs'[pending[m]] = 1,
         \A n \in Handlers \ {m} :
           /\ phase'[n] = phase[n] /\ pending'[n] = pending[n]
           /\ resolved'[n] = resolved[n] /\ result'[n] = result[n]
  PROVE  Takes' /\ Alone' /\ Ledger' /\ ConfirmedIsNotDropped'
<1>0. /\ pending[m] \in Made /\ proposal[pending[m]].status = "confirmed"
      /\ runs[pending[m]] = 0 /\ Made' = Made
      /\ \A n \in Handlers \ {m} : Taking(n) => pending[n] # pending[m]
  BY DEF IInv, Reads, Takes, Taking, Answering, Made, Alone
<1>1. Takes'
  <2> SUFFICES ASSUME NEW n \in Handlers
               PROVE  /\ Taking(n)' => /\ proposal[pending'[n]].status = "confirmed"
                                      /\ runs'[pending'[n]] = 0
                      /\ phase'[n] = "say" /\ result'[n] = "executed" =>
                           runs'[pending'[n]] = 1
    BY DEF Takes
  <2>1. CASE n = m
    BY <2>1
  <2>2. CASE n # m
    <3>1. Taking(n)' => Taking(n)
      BY <2>2 DEF Taking
    <3>2. Taking(n) \/ phase[n] = "say" => pending[n] \in Proposals
      BY DEF IInv, Reads, Taking, Answering, Made
    <3>3. phase[n] = "say" /\ result[n] = "executed" => pending[n] # pending[m]
      BY <1>0 DEF IInv, Takes
    <3> QED
      BY <1>0, <2>2, <3>1, <3>2, <3>3 DEF IInv, Takes
  <2> QED
    BY <2>1, <2>2
<1>2. Alone'
  BY DEF IInv, Alone, Taking
<1>3. Ledger'
  BY <1>0 DEF IInv, Ledger
<1>4. ConfirmedIsNotDropped'
  BY <1>0 DEF IInv, ConfirmedIsNotDropped, Made
<1> QED
  BY <1>1, <1>2, <1>3, <1>4

LEMMA InvariantStep ==
  ASSUME IInv, ConfirmNext
  PROVE  IInv'
<1> USE DEF kvars, facts, inHand, ghosts
<1>0. ConfirmTypeOK' /\ Reads'
  BY TypingStep DEF IInv
<1> DEFINE Rest == Takes /\ Alone /\ Ledger /\ ConfirmedIsNotDropped
<1> SUFFICES Rest'
  BY <1>0 DEF IInv
<1>1. ASSUME NEW m \in Handlers,
             \/ Arrives(m) \/ ReadPending(m) \/ Classified(m) \/ NoMoreProposals(m)
             \/ SayResult(m) \/ SayCancelled(m)
      PROVE  Rest'
  <2>1. ~Taking(m)
    BY <1>1 DEF Taking, Arrives, ReadPending, Classified, NoMoreProposals, SayResult,
                SayCancelled
  <2>2. \A p \in Proposals : "done" \in heard'[p] => "done" \in heard[p] \/ runs[p] = 1
    <3>1. CASE SayResult(m)
      <4>1. pending[m] \in Proposals
        BY <3>1 DEF IInv, Reads, SayResult, Answering, Made
      <4>2. CASE result[m] = "executed"
        BY <3>1, <4>1, <4>2 DEF IInv, ConfirmTypeOK, Takes, SayResult, Tells
      <4>3. CASE result[m] # "executed"
        BY <3>1, <4>1, <4>3 DEF IInv, ConfirmTypeOK, SayResult, Tells
      <4> QED
        BY <4>2, <4>3
    <3>2. CASE SayCancelled(m)
      BY <3>2 DEF IInv, ConfirmTypeOK, Reads, SayCancelled, Answering, Made, Tells
    <3>3. CASE UNCHANGED heard
      BY <3>3
    <3> QED
      BY <1>1, <3>1, <3>2, <3>3 DEF Arrives, ReadPending, Classified, NoMoreProposals
  <2>3. /\ phase'[m] \notin {"execute", "say"} /\ UNCHANGED <<proposal, runs, moot, lost>>
        /\ \A n \in Handlers \ {m} :
             /\ phase'[n] = phase[n] /\ pending'[n] = pending[n]
             /\ resolved'[n] = resolved[n] /\ result'[n] = result[n]
    BY <1>1 DEF IInv, ConfirmTypeOK, Arrives, ReadPending, Classified, Readings,
                NoMoreProposals, SayResult, SayCancelled, Tells, Leaves, Moves
  <2> QED
    BY <1>0, <2>1, <2>2, <2>3, Frame
<1>2. ASSUME NEW m \in Handlers, Confirm(m) \/ Reject(m) PROVE Rest'
  <2> DEFINE p == pending[m]
  <2>1. /\ p \in Made /\ ~resolved[m]
        /\ phase[m] \in {"confirm", "reject"}
        /\ UNCHANGED <<pending, result, runs, heard, moot, lost>>
    BY <1>2 DEF IInv, Reads, Confirm, Reject, Answering, Moves
  <2>2. PICK s \in {"confirmed", "rejected"} :
          /\ Resolves(m, s)
          /\ phase' = [phase EXCEPT ![m] = IF s = "confirmed" THEN "execute" ELSE "cancelled"]
    BY <1>2 DEF Confirm, Reject, Moves
  <2>3. /\ Made' = Made
        /\ \A n \in Handlers \ {m} : resolved'[n] = resolved[n]
        /\ \A q \in Proposals : q # p => proposal'[q] = proposal[q]
        /\ proposal[p].status = "pending" => proposal'[p].status = s /\ resolved'[m]
        /\ proposal[p].status # "pending" =>
             proposal'[p] = proposal[p] /\ resolved'[m] = resolved[m]
    BY <2>1, <2>2, ResolvesTypes DEF IInv
  <2>4. \A n \in Handlers \ {m} : phase'[n] = phase[n]
    BY <2>2 DEF IInv, ConfirmTypeOK
  <2>5. phase'[m] = IF s = "confirmed" THEN "execute" ELSE "cancelled"
    BY <2>2 DEF IInv, ConfirmTypeOK
  <2>6. \A n \in Handlers : Taking(n) =>
          n # m /\ pending[n] \in Made /\ proposal[pending[n]].status = "confirmed"
    BY <2>1 DEF IInv, Reads, Takes, Taking, Answering
  <2>7. \A n \in Handlers : Taking(n)' => n = m \/ Taking(n)
    BY <2>3, <2>4 DEF Taking
  <2>8. Taking(m)' =>
          proposal[p].status = "pending" /\ proposal'[p].status = "confirmed" /\ runs[p] = 0
    <3> SUFFICES ASSUME phase'[m] = "execute", resolved'[m]
                 PROVE  /\ proposal[p].status = "pending" /\ proposal'[p].status = "confirmed"
                        /\ runs[p] = 0
      BY DEF Taking
    <3>1. proposal[p].status = "pending"
      BY <2>1, <2>3
    <3>2. s = "confirmed"
      BY <2>5
    <3>3. runs[p] = 0
      BY <2>1, <3>1 DEF IInv, Ledger, Made
    <3> QED
      BY <2>3, <3>1, <3>2, <3>3
  <2>9. Takes'
    <3>1. \A n \in Handlers : Taking(n) => proposal'[pending[n]].status = "confirmed"
      BY <2>2, <2>3, <2>6 DEF Made
    <3> QED
      BY <2>1, <2>4, <2>5, <2>7, <2>8, <3>1 DEF IInv, Takes
  <2>10. Alone'
    BY <2>1, <2>6, <2>7, <2>8 DEF IInv, Alone
  <2>11. Ledger'
    BY <2>1, <2>2, <2>3 DEF IInv, Ledger
  <2>12. ConfirmedIsNotDropped'
    <3> SUFFICES ASSUME NEW q \in Made, proposal'[q].status = "confirmed"
                 PROVE  \/ runs[q] = 1 \/ q \in moot \cup lost
                        \/ \E n \in Handlers : pending[n] = q /\ Taking(n)'
      BY <2>1, <2>3 DEF ConfirmedIsNotDropped, Taking
    <3>1. CASE proposal[q].status = "confirmed"
      <4>1. \A n \in Handlers : Taking(n) => Taking(n)'
        BY <2>3, <2>4, <2>6 DEF Taking
      <4> QED
        BY <3>1, <4>1 DEF IInv, ConfirmedIsNotDropped, Taking
    <3>2. CASE proposal[q].status # "confirmed"
      <4>1. q = p /\ proposal[p].status = "pending" /\ s = "confirmed"
        BY <2>2, <2>3, <3>2 DEF Made
      <4>2. Taking(m)'
        BY <2>2, <2>3, <2>5, <4>1 DEF Taking
      <4> QED
        BY <4>1, <4>2
    <3> QED
      BY <3>1, <3>2
  <2> QED
    BY <2>9, <2>10, <2>11, <2>12
<1>3. ASSUME NEW m \in Handlers, NotResolved(m) PROVE Rest'
  <2>1. ~Taking(m) /\ ~Taking(m)' /\ result'[m] = "nothing"
    BY <1>3 DEF Taking, NotResolved, Outcome, Moves, IInv, ConfirmTypeOK
  <2>2. /\ UNCHANGED <<proposal, runs, heard, moot, lost, pending, resolved>> /\ Made' = Made
        /\ \A n \in Handlers \ {m} : phase'[n] = phase[n] /\ result'[n] = result[n]
    BY <1>3 DEF NotResolved, Outcome, Moves, IInv, ConfirmTypeOK, Made
  <2>3. Takes' /\ Alone'
    BY <2>1, <2>2 DEF IInv, Takes, Alone, Taking
  <2>4. Ledger' /\ ConfirmedIsNotDropped'
    BY <2>1, <2>2 DEF IInv, Ledger, ConfirmedIsNotDropped, Taking
  <2> QED
    BY <2>3, <2>4
<1>4. ASSUME NEW m \in Handlers, RemoveItem(m) \/ Retopic(m) PROVE Rest'
  <2>1. /\ Taking(m) /\ ~Taking(m)' /\ UNCHANGED <<proposal, heard, lost, pending, resolved>>
        /\ \A n \in Handlers \ {m} : phase'[n] = phase[n] /\ result'[n] = result[n]
    BY <1>4 DEF Taking, RemoveItem, Retopic, Outcome, Moves, IInv, ConfirmTypeOK
  <2>2. \/ Took(pending[m]) /\ Outcome(m, "executed")
        \/ Moot(pending[m]) /\ Outcome(m, "nothing")
    BY <1>4 DEF RemoveItem, Retopic
  <2>3. pending[m] \in Proposals /\ runs[pending[m]] = 0
    BY <2>1 DEF IInv, Reads, Takes, Taking, Answering, Made
  <2>4. /\ \A q \in Proposals : q # pending[m] => runs'[q] = runs[q]
        /\ moot \subseteq moot'
        /\ \/ runs'[pending[m]] = 1
           \/ runs'[pending[m]] = 0 /\ pending[m] \in moot' /\ result'[m] = "nothing"
    BY <2>2, <2>3 DEF Took, Moot, Outcome, IInv, ConfirmTypeOK
  <2> QED
    BY <1>0, <2>1, <2>4, Acts
<1>5. ASSUME NEW m \in Handlers, Broadcast(m) PROVE Rest'
  <2>1. /\ Taking(m) /\ UNCHANGED <<proposal, heard>>
        /\ pending[m] \in Proposals /\ runs[pending[m]] = 0
    BY <1>5 DEF Taking, Broadcast, IInv, Reads, Takes, Answering, Made
  <2>2. CASE Took(pending[m]) /\ Outcome(m, "executed") /\ UNCHANGED <<of, pending, resolved, lost>>
    BY <1>0, <2>1, <2>2, Acts DEF Took, Outcome, Moves, Taking, IInv, ConfirmTypeOK
  <2>3. CASE lost' = lost \cup {pending[m]} /\ Leaves(m) /\ UNCHANGED <<runs, moot>>
    BY <1>0, <2>1, <2>3, Acts DEF Leaves, Moves, Taking, IInv, ConfirmTypeOK
  <2> QED
    BY <1>5, <2>2, <2>3 DEF Broadcast
<1>6. ASSUME NEW m \in Handlers, Propose(m) PROVE Rest'
  <2>1. PICK p \in Proposals \ Made, action \in ActionTypes :
          proposal' = [proposal EXCEPT ![p] =
            [action |-> action, session |-> of[m], recent |-> TRUE, status |-> "pending"]]
    BY <1>6 DEF Propose
  <2>2. /\ UNCHANGED <<phase, pending, resolved, result, runs, heard, moot, lost>>
        /\ proposal'[p].status = "pending" /\ Made \subseteq Made'
        /\ \A q \in Proposals \ {p} : proposal'[q] = proposal[q]
        /\ Made' \subseteq Made \cup {p}
    BY <1>6, <2>1 DEF Propose, IInv, ConfirmTypeOK, Made
  <2>3. \A n \in Handlers : Taking(n) => pending[n] \in Made
    BY DEF IInv, Reads, Taking, Answering
  <2>4. Takes' /\ Alone'
    BY <2>1, <2>2, <2>3 DEF IInv, Takes, Alone, Taking, Made
  <2>5. Ledger'
    <3> SUFFICES ASSUME NEW q \in Proposals, ~(q \in Made' /\ proposal'[q].status = "confirmed")
                 PROVE  runs[q] = 0
      BY <2>2 DEF IInv, Ledger
    <3> QED
      BY <2>1, <2>2 DEF IInv, Ledger
  <2>6. ConfirmedIsNotDropped'
    BY <2>1, <2>2 DEF IInv, ConfirmedIsNotDropped, Made
  <2> QED
    BY <2>4, <2>5, <2>6
<1>7. CASE Close \/ Reopen \/ ItemAdded
  BY <1>7 DEF Close, Reopen, ItemAdded, IInv, Takes, Taking, Alone, Ledger,
              ConfirmedIsNotDropped, Made
<1>8. CASE Crash
  <2>1. Takes' /\ Alone'
    BY <1>8 DEF Crash, Takes, Taking, Alone
  <2>2. Ledger'
    BY <1>8 DEF Crash, IInv, Ledger, Made
  <2>3. ConfirmedIsNotDropped'
    BY <1>8 DEF Crash, IInv, ConfirmedIsNotDropped, Made
  <2> QED
    BY <2>1, <2>2, <2>3
<1>9. ASSUME NEW p \in Proposals, DayPasses(p) PROVE Rest'
  <2>1. p \in Made /\ proposal[p] \in Proposal
    BY <1>9, RowTypes DEF DayPasses, Open, IInv
  <2>2. /\ proposal' = [proposal EXCEPT ![p] = [proposal[p] EXCEPT !.recent = FALSE]]
        /\ UNCHANGED <<phase, pending, resolved, result, runs, heard, moot, lost>>
    BY <1>9 DEF DayPasses
  <2>3. [proposal[p] EXCEPT !.recent = FALSE].status = proposal[p].status
    BY <2>1 DEF Proposal
  <2>4. [proposal[p] EXCEPT !.recent = FALSE] # None
    BY <2>1, RowTypes, NoneAssumption DEF IInv
  <2>5. proposal \in [Proposals -> Proposal \cup {None}]
    BY DEF IInv, ConfirmTypeOK
  <2>6. Made' = Made /\ \A q \in Made : proposal'[q].status = proposal[q].status
    BY <2>1, <2>2, <2>3, <2>4, <2>5 DEF Made
  <2>7. \A n \in Handlers : Taking(n) => pending[n] \in Made
    BY DEF IInv, Reads, Taking, Answering
  <2>8. Takes' /\ Alone'
    BY <2>2, <2>6, <2>7 DEF IInv, Takes, Alone, Taking
  <2>9. Ledger' /\ ConfirmedIsNotDropped'
    BY <2>2, <2>6 DEF IInv, Ledger, ConfirmedIsNotDropped
  <2> QED
    BY <2>8, <2>9
<1> QED
  BY <1>1, <1>2, <1>3, <1>4, <1>5, <1>6, <1>7, <1>8, <1>9 DEF ConfirmNext

LEMMA Invariance == ConfirmSpec => []IInv
<1>1. IInv /\ UNCHANGED kvars => IInv'
  BY DEF kvars, facts, inHand, ghosts, IInv, ConfirmTypeOK, Reads, Answering, Takes, Taking,
         Alone, Ledger, ConfirmedIsNotDropped, Made
<1>2. IInv /\ [ConfirmNext]_kvars => IInv'
  BY <1>1, InvariantStep
<1> QED
  BY <1>2, TypingInit, PTL DEF ConfirmSpec

-----------------------------------------------------------------------------
\* Every variable keeps its type, whatever is proposed, answered, sent and lost.
THEOREM ConfirmTyping == ConfirmSpec => []ConfirmTypeOK
BY Invariance, PTL DEF IInv

\* However many yes and no cross, a proposal is acted upon once at most, and
\* only if a yes resolved it.
THEOREM ActedOnce == ConfirmSpec => []TakenOnce
<1>1. IInv => TakenOnce
  BY DEF IInv, Ledger, TakenOnce, Made
<1> QED
  BY <1>1, Invariance, PTL

\* "Готово" is said only of what was done.
THEOREM SaidWhenDone == ConfirmSpec => []DoneIsTrue
<1>1. IInv => DoneIsTrue
  BY DEF IInv, Ledger, DoneIsTrue, Made
<1> QED
  BY <1>1, Invariance, PTL

\* A yes is acted upon unless there is nothing to act on, a send fails or the
\* bot is restarted.
THEOREM YesIsKept == ConfirmSpec => []ConfirmedIsNotDropped
BY Invariance, PTL DEF IInv
=============================================================================
