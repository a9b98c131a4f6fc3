---------------------------- MODULE Confirmations ---------------------------
(***************************************************************************)
(* Actions the bot takes only after a person has said yes: removing an     *)
(* item, switching the event, writing to the whole chat.  The proposal is  *)
(* a row of pending_confirmations; every later message addressed to the    *)
(* bot is first read as a possible answer to the newest one still open.    *)
(*                                                                         *)
(* One chat, its sessions one after another, messages handled at once.     *)
(* Between the SELECT, the classifier's answer, the UPDATE that resolves   *)
(* the row, the action and the reply, anything else may happen.            *)
(*                                                                         *)
(* Source: bot/tools/core.py and bot/router.py                             *)
(***************************************************************************)
EXTENDS Bot, Naturals, FiniteSets

CONSTANTS
  MaxProposals,   \* bound: rows of pending_confirmations
  MaxSessions,    \* bound: sessions of the chat
  MaxMessages,    \* bound: messages
  SendsFail,      \* may Telegram refuse a message?
  CanCrash        \* may the bot be restarted?

ASSUME ConfirmationsAssumption ==
  /\ MaxProposals \in Nat /\ MaxSessions \in Nat \ {0} /\ MaxMessages \in Nat
  /\ {SendsFail, CanCrash} \subseteq BOOLEAN

Proposals == 1 .. MaxProposals
Sessions  == 1 .. MaxSessions
ActionTypes == {"list_remove_item", "retopic", "broadcast_message"}

VARIABLES
  session, active,   \* the chat's latest session, and whether it is active
  onList,            \* of each session: is the item on its list?
  proposal,          \* pending_confirmations: the row under each id, or None
  phase,             \* of each message: where its handling stands
  of,                \* the session it was read in
  pending,           \* the row it was read against, or None
  resolved,          \* did its UPDATE resolve that row?
  result,            \* what execute_confirmed_action returned
  messages,          \* how many there have been
  runs,              \* history: how often each action has been taken
  heard,             \* history: what the chat was told about each
  moot,              \* history: the actions that found nothing to act on
  lost               \* history: actions an exception or a crash cut short

facts  == <<session, active, onList>>
inHand == <<phase, of, pending, resolved, result>>
ghosts == <<runs, heard, moot, lost>>
kvars  == <<facts, proposal, inHand, messages, ghosts>>

Proposal == [action : ActionTypes, session : Sessions, recent : BOOLEAN,
             status : {"pending", "confirmed", "rejected"}]

\* NULL is no id and no row.
ASSUME NoneAssumption == None \notin Nat \cup Proposal

ConfirmTypeOK ==
  /\ session \in Sessions /\ active \in BOOLEAN
  /\ onList \in [Sessions -> BOOLEAN]
  /\ proposal \in [Proposals -> Proposal \cup {None}]
  /\ phase \in [Handlers -> {"idle", "read", "classify", "confirm", "execute", "say",
                             "reject", "cancelled", "turn"}]
  /\ of \in [Handlers -> Sessions \cup {None}]
  /\ pending \in [Handlers -> Proposals \cup {None}]
  /\ resolved \in [Handlers -> BOOLEAN]
  /\ result \in [Handlers -> {"executed", "nothing", None}]
  /\ messages \in 0 .. MaxMessages
  /\ runs \in [Proposals -> Nat]
  /\ heard \in [Proposals -> SUBSET {"done", "nothing", "cancelled"}]
  /\ moot \in SUBSET Proposals /\ lost \in SUBSET Proposals

ConfirmInit ==
  /\ session = 1 /\ active = TRUE
  /\ onList = [s \in Sessions |-> s = 1]
  /\ proposal = [p \in Proposals |-> None]
  /\ phase = [m \in Handlers |-> "idle"]
  /\ of = [m \in Handlers |-> None]
  /\ pending = [m \in Handlers |-> None]
  /\ resolved = [m \in Handlers |-> FALSE]
  /\ result = [m \in Handlers |-> None]
  /\ messages = 0
  /\ runs = [p \in Proposals |-> 0]
  /\ heard = [p \in Proposals |-> {}]
  /\ moot = {} /\ lost = {}

-----------------------------------------------------------------------------
Made == {p \in Proposals : proposal[p] # None}
Moves(m, ph) == phase' = [phase EXCEPT ![m] = ph]

Leaves(m) ==
  /\ Moves(m, "idle")
  /\ of' = [of EXCEPT ![m] = None]
  /\ pending' = [pending EXCEPT ![m] = None]
  /\ resolved' = [resolved EXCEPT ![m] = FALSE]
  /\ result' = [result EXCEPT ![m] = None]

\* An addressed message in an active session.
Arrives(m) ==
  /\ phase[m] = "idle" /\ active /\ messages < MaxMessages
  /\ messages' = messages + 1
  /\ of' = [of EXCEPT ![m] = session]
  /\ Moves(m, "read")
  /\ UNCHANGED <<facts, proposal, pending, resolved, result, ghosts>>

\* get_pending_confirmation: of the chat, whatever the session, the newest
\* that is pending and not older than a day.
Open == {p \in Made : proposal[p].status = "pending" /\ proposal[p].recent}

ReadPending(m) ==
  /\ phase[m] = "read"
  /\ IF Open = {}
     THEN /\ Moves(m, "turn")
          /\ UNCHANGED pending
     ELSE /\ Moves(m, "classify")
          /\ \E p \in Open : /\ \A q \in Open : q <= p
                             /\ pending' = [pending EXCEPT ![m] = p]
  /\ UNCHANGED <<facts, proposal, of, resolved, result, messages, ghosts>>

\* extract: yes, no or unrelated, and what the model wrote else is unrelated.
Readings_Raw == {"confirm", "reject", "turn", "maybe"}
Readings == {"confirm", "reject", "turn"}
Classified(m) ==
  /\ phase[m] = "classify"
  /\ \E ph \in Readings : Moves(m, ph)
  /\ UNCHANGED <<facts, proposal, of, pending, resolved, result, messages, ghosts>>

\* resolve_confirmation: UPDATE ... WHERE status = 'pending' RETURNING *.
Resolves_Always(m, status) ==
  /\ proposal' = [proposal EXCEPT ![pending[m]].status = status]
  /\ resolved' = [resolved EXCEPT ![m] = TRUE]
Resolves(m, status) ==
  LET p == pending[m]
  IN IF proposal[p].status = "pending"
     THEN /\ proposal' = [proposal EXCEPT ![p].status = status]
          /\ resolved' = [resolved EXCEPT ![m] = TRUE]
     ELSE UNCHANGED <<proposal, resolved>>

Confirm(m) ==
  /\ phase[m] = "confirm"
  /\ Resolves(m, "confirmed")
  /\ Moves(m, "execute")
  /\ UNCHANGED <<facts, of, pending, result, messages, ghosts>>

Reject(m) ==
  /\ phase[m] = "reject"
  /\ Resolves(m, "rejected")
  /\ Moves(m, "cancelled")
  /\ UNCHANGED <<facts, of, pending, result, messages, ghosts>>

-----------------------------------------------------------------------------
\* execute_confirmed_action, of the row the UPDATE returned, if it did.
Outcome(m, res) ==
  /\ result' = [result EXCEPT ![m] = res]
  /\ Moves(m, "say")
Took(p) == runs' = [runs EXCEPT ![p] = @ + 1] /\ UNCHANGED moot
Moot(p) == moot' = moot \cup {p} /\ UNCHANGED runs

NotResolved_Stale(m) ==
  /\ phase[m] = "execute"
  /\ Outcome(m, "nothing")
  /\ UNCHANGED <<facts, proposal, of, pending, resolved, messages, ghosts>>
NotResolved(m) ==
  /\ phase[m] = "execute" /\ ~resolved[m]
  /\ Outcome(m, "nothing")
  /\ UNCHANGED <<facts, proposal, of, pending, resolved, messages, ghosts>>

\* The item may have gone meanwhile; the list may be a closed session's.
RemoveItem_Claims(m) ==
  LET s == proposal[pending[m]].session
  IN /\ phase[m] = "execute" /\ resolved[m]
     /\ proposal[pending[m]].action = "list_remove_item"
     /\ onList' = [onList EXCEPT ![s] = FALSE]
     /\ IF onList[s] THEN Took(pending[m]) ELSE Moot(pending[m])
     /\ Outcome(m, "executed")
     /\ UNCHANGED <<session, active, proposal, of, pending, resolved, messages, heard, lost>>
RemoveItem(m) ==
  LET s == proposal[pending[m]].session
  IN /\ phase[m] = "execute" /\ resolved[m]
     /\ proposal[pending[m]].action = "list_remove_item"
     /\ onList' = [onList EXCEPT ![s] = FALSE]
     /\ IF onList[s] THEN Took(pending[m]) /\ Outcome(m, "executed")
        ELSE Moot(pending[m]) /\ Outcome(m, "nothing")
     /\ UNCHANGED <<session, active, proposal, of, pending, resolved, messages, heard, lost>>

\* retopic finds nothing once the session is closed.
Retopic(m) ==
  LET s == proposal[pending[m]].session
  IN /\ phase[m] = "execute" /\ resolved[m]
     /\ proposal[pending[m]].action = "retopic"
     /\ IF active /\ s = session THEN Took(pending[m]) /\ Outcome(m, "executed")
        ELSE Moot(pending[m]) /\ Outcome(m, "nothing")
     /\ UNCHANGED <<facts, proposal, of, pending, resolved, messages, heard, lost>>

Broadcast(m) ==
  /\ phase[m] = "execute" /\ resolved[m]
  /\ proposal[pending[m]].action = "broadcast_message"
  /\ \/ /\ Took(pending[m]) /\ Outcome(m, "executed")
        /\ UNCHANGED <<of, pending, resolved, lost>>
     \/ /\ SendsFail
        /\ lost' = lost \cup {pending[m]}
        /\ Leaves(m)
        /\ UNCHANGED <<runs, moot>>
  /\ UNCHANGED <<facts, proposal, messages, heard>>

Tells(m, what) ==
  /\ \/ heard' = [heard EXCEPT ![pending[m]] = @ \cup {what}]
     \/ SendsFail /\ UNCHANGED heard
  /\ Leaves(m)
  /\ UNCHANGED <<facts, proposal, messages, runs, moot, lost>>

SayResult(m) ==
  /\ phase[m] = "say"
  /\ Tells(m, IF result[m] = "executed" THEN "done" ELSE "nothing")

\* The answer to a "no" looks at nothing resolve_confirmation returned.
SayCancelled(m) ==
  /\ phase[m] = "cancelled"
  /\ Tells(m, "cancelled")

-----------------------------------------------------------------------------
\* The turn of a message that is no answer.  It may propose, in the session
\* the message was read in, though that may have closed since.
Propose(m) ==
  /\ phase[m] = "turn"
  /\ \E p \in Proposals \ Made, action \in ActionTypes :
       /\ \A q \in Proposals \ Made : p <= q
       /\ proposal' = [proposal EXCEPT ![p] =
            [action |-> action, session |-> of[m], recent |-> TRUE, status |-> "pending"]]
  /\ UNCHANGED <<facts, inHand, messages, ghosts>>

NoMoreProposals(m) ==
  /\ phase[m] = "turn"
  /\ Leaves(m)
  /\ UNCHANGED <<facts, proposal, messages, ghosts>>

\* What else happens in the chat.
Close ==
  /\ active
  /\ active' = FALSE
  /\ UNCHANGED <<session, onList, proposal, inHand, messages, ghosts>>

Reopen ==
  /\ ~active /\ session < MaxSessions
  /\ session' = session + 1
  /\ active' = TRUE
  /\ UNCHANGED <<onList, proposal, inHand, messages, ghosts>>

ItemAdded ==
  /\ active /\ ~onList[session]
  /\ onList' = [onList EXCEPT ![session] = TRUE]
  /\ UNCHANGED <<session, active, proposal, inHand, messages, ghosts>>

DayPasses(p) ==
  /\ p \in Open
  /\ proposal' = [proposal EXCEPT ![p].recent = FALSE]
  /\ UNCHANGED <<facts, inHand, messages, ghosts>>

\* What was resolved and not yet acted upon is nowhere but in memory.
Crash ==
  /\ CanCrash
  /\ \E m \in Handlers : phase[m] # "idle"
  /\ lost' = lost \cup {pending[m] : m \in {x \in Handlers : phase[x] = "execute"
                                                            /\ resolved[x]}}
  /\ phase' = [m \in Handlers |-> "idle"]
  /\ of' = [m \in Handlers |-> None]
  /\ pending' = [m \in Handlers |-> None]
  /\ resolved' = [m \in Handlers |-> FALSE]
  /\ result' = [m \in Handlers |-> None]
  /\ UNCHANGED <<facts, proposal, messages, runs, heard, moot>>

ConfirmNext ==
  \/ \E m \in Handlers :
       \/ Arrives(m) \/ ReadPending(m) \/ Classified(m) \/ Confirm(m) \/ Reject(m)
       \/ NotResolved(m) \/ RemoveItem(m) \/ Retopic(m) \/ Broadcast(m)
       \/ SayResult(m) \/ SayCancelled(m) \/ Propose(m) \/ NoMoreProposals(m)
  \/ Close \/ Reopen \/ ItemAdded \/ Crash
  \/ \E p \in Proposals : DayPasses(p)

ConfirmSpec == ConfirmInit /\ [][ConfirmNext]_kvars

-----------------------------------------------------------------------------
\* However many people say yes at once, and whoever says no meanwhile, an
\* action is taken at most once, and never after its proposal was rejected
\* (resolve_confirmation's guard).
TakenOnce ==
  \A p \in Made : /\ runs[p] <= 1
                  /\ runs[p] = 1 => proposal[p].status = "confirmed"

\* The chat hears "done" only of an action that was taken: not of an item
\* another yes removed first, nor of a session that closed before the yes.
DoneIsTrue ==
  \A p \in Made : "done" \in heard[p] => runs[p] = 1

\* What was confirmed is taken, or about to be, or found to be moot; only a
\* restart or a refused message loses it.
ConfirmedIsNotDropped ==
  \A p \in Made :
    proposal[p].status = "confirmed" =>
      \/ runs[p] = 1 \/ p \in moot \cup lost
      \/ \E m \in Handlers : pending[m] = p /\ resolved[m] /\ phase[m] = "execute"
=============================================================================
