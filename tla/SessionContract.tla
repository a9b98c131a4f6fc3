--------------------------- MODULE SessionContract ---------------------------
(***************************************************************************)
(* What the organizer promises a group about the life of its sessions      *)
(* (EPIC.md, R3 and R4), with no worker, no claims, no clocks and no stale *)
(* reads: a chat has at most one session running, only a human or two      *)
(* unanswered closing questions end it, what ended it never changes, and   *)
(* the end is announced at most once.                                      *)
(*                                                                         *)
(* Owed is the number of closing questions the group must have seen since  *)
(* the last "not yet" before silence may be taken for consent.  The code   *)
(* means 2; SessionLifecycle says what it keeps under each kind of fault.  *)
(***************************************************************************)
EXTENDS Naturals

CONSTANTS
  Sessions,    \* the identities session rows may take
  Chats,       \* the group chats
  ChatOf,      \* the chat each row belongs to
  Owed,        \* closing questions owed before an auto-close
  CountCap     \* posted questions are counted up to this

VARIABLES
  status,      \* of each session: not created, active, closed
  reason,      \* why it was closed
  posted,      \* closing questions posted since the last "not yet"
  announced    \* closing messages posted about it

cvars == <<status, reason, posted, announced>>

Init ==
  /\ status = [s \in Sessions |-> "none"]
  /\ reason = [s \in Sessions |-> "open"]
  /\ posted = [s \in Sessions |-> 0]
  /\ announced = [s \in Sessions |-> 0]

\* A human asked for tracking, and nothing else runs in that chat.
Start(s) ==
  /\ status[s] = "none"
  /\ \A t \in Sessions : ChatOf[t] = ChatOf[s] => status[t] # "active"
  /\ status' = [status EXCEPT ![s] = "active"]
  /\ UNCHANGED <<reason, posted, announced>>

\* A closing question appears in the chat.  It may straggle in after the
\* session has ended; it may never appear for a session that never began.
Ask(s) ==
  /\ status[s] # "none"
  /\ posted' = [posted EXCEPT ![s] = IF @ < CountCap THEN @ + 1 ELSE @]
  /\ UNCHANGED <<status, reason, announced>>

\* "Not yet": the questions so far are answered.
NotYet(s) ==
  /\ status[s] = "active"
  /\ posted' = [posted EXCEPT ![s] = 0]
  /\ UNCHANGED <<status, reason, announced>>

\* A human ended it, in so many words or by answering the question.
EndedByHuman(s) ==
  /\ status[s] = "active"
  /\ status' = [status EXCEPT ![s] = "closed"]
  /\ \E r \in {"explicit_stop", "closing_question_yes"} :
       reason' = [reason EXCEPT ![s] = r]
  /\ UNCHANGED <<posted, announced>>

\* Silence ended every session of S: each had been asked Owed times.
EndedBySilence(S) ==
  /\ \A s \in S : status[s] = "active" /\ posted[s] >= Owed
  /\ status' = [s \in Sessions |-> IF s \in S THEN "closed" ELSE status[s]]
  /\ reason' = [s \in Sessions |->
                  IF s \in S THEN "auto_close_silence" ELSE reason[s]]
  /\ UNCHANGED <<posted, announced>>

\* The closing message, once, about a session that is over.
Announce(s) ==
  /\ status[s] = "closed"
  /\ announced[s] = 0
  /\ announced' = [announced EXCEPT ![s] = 1]
  /\ UNCHANGED <<status, reason, posted>>

Next ==
  \/ \E s \in Sessions : Start(s) \/ Ask(s) \/ NotYet(s) \/ EndedByHuman(s)
                           \/ Announce(s)
  \/ \E S \in SUBSET Sessions : EndedBySilence(S)

Spec == Init /\ [][Next]_cvars
==============================================================================
