----------------------------- MODULE ModelChain -----------------------------
(***************************************************************************)
(* The order in which one chat tries the language models: what its owner   *)
(* chose in the /admin menu (bot/admin.py, stored by bot/settings.py), and *)
(* the ModelFallback object that walks it (bot/ai/client.py).              *)
(*                                                                         *)
(* The choice is a row; the object is in memory, shared by every turn of   *)
(* the chat, and replaced by a new one when the order changes.  A turn     *)
(* that began on the old object keeps it.  Reading the row, acting on what *)
(* was read, writing the row and dropping the object are separate steps.   *)
(*                                                                         *)
(* Turn composes these moves with what a turn says to the models; Spec     *)
(* here lets the turns move as they like.                                  *)
(***************************************************************************)
EXTENDS Bot, Naturals, Sequences, SequencesExt, FiniteSets

CONSTANTS
  Deployments,   \* the lists AI_PROXY_MODELS may give, one per deployment
  Taps           \* the button presses that may be under way at once

Models == UNION {ToSet(d) : d \in Deployments}

ASSUME ModelChainAssumption ==
  /\ \A d \in Deployments : d \in Seq(Models) /\ d # <<>>
  /\ IsFiniteSet(Handlers)
  /\ None \notin Nat

\* Identities for ModelFallback objects: one per turn, and the chat's own.
Objects == 0 .. Cardinality(Handlers)

VARIABLES
  offered,           \* PROXY_MODELS of the deployment that runs
  stored,            \* chat_settings, key provider_chain: None, or an order
  chain, index,      \* of each object: its order, and how far it has walked
  current,           \* _per_chat: the chat's object, or None
  wanted, held,      \* of each turn: the order it read, the object it walks
  latest,            \* history: has the row stayed as the turn read it?
  tap, chosen        \* of each press: where it stands, the selection it read

setting == <<offered, stored>>
objects == <<chain, index, current>>
taps    == <<tap, chosen>>
cvars   == <<setting, objects, wanted, held, latest, taps>>

-----------------------------------------------------------------------------
Orders == Seq(Models)

ChainTypeOK ==
  /\ offered \in Deployments
  /\ stored \in Orders \cup {None}
  /\ chain \in [Objects -> Orders]
  /\ index \in [Objects -> Nat]
  /\ current \in Objects \cup {None}
  /\ wanted \in [Handlers -> Orders]
  /\ held \in [Handlers -> Objects \cup {None}]
  /\ latest \in [Handlers -> BOOLEAN]
  /\ tap \in [Taps -> {"idle", "read", "written"}]
  /\ chosen \in [Taps -> Orders]

ChainInit ==
  /\ offered \in Deployments
  /\ stored = None
  /\ chain = [o \in Objects |-> <<>>]
  /\ index = [o \in Objects |-> 0]
  /\ current = None
  /\ wanted = [h \in Handlers |-> <<>>]
  /\ held = [h \in Handlers |-> None]
  /\ latest = [h \in Handlers |-> FALSE]
  /\ tap = [t \in Taps |-> "idle"]
  /\ chosen = [t \in Taps |-> <<>>]

-----------------------------------------------------------------------------
\* get_stored_chain, [] for None: what is no longer offered is dropped.
\* The k-th entry of what is left is the k-th of those that stay.
Rank(kept, i) == Cardinality({j \in kept : j <= i})
Known(order, models) ==
  LET kept == {i \in DOMAIN order : order[i] \in models}
  IN [k \in 1 .. Cardinality(kept) |-> order[CHOOSE i \in kept : Rank(kept, i) = k]]
Selection == IF stored = None THEN <<>> ELSE Known(stored, ToSet(offered))

\* get_provider_chain: the default stands in for an empty selection.
ProviderChain == IF Selection = <<>> THEN offered ELSE Selection

\* _shown_order: the selection, then everything still unpicked.
ShownOrder(sel) ==
  Known(sel, ToSet(offered)) \o Known(offered, ToSet(offered) \ ToSet(sel))

\* pick: press the button at a position, counted from 0, of the shown order.
Pick_Twice(sel, position) ==
  IF position >= Len(ShownOrder(sel)) THEN sel
  ELSE Append(sel, ShownOrder(sel)[position + 1])
Pick(sel, position) ==
  LET order == ShownOrder(sel)
      model == order[position + 1]
  IN IF position >= Len(order) THEN sel
     ELSE IF model \in ToSet(sel) THEN Known(sel, ToSet(sel) \ {model})
     ELSE Append(sel, model)

\* An object neither the chat nor a turn refers to any more is gone.
Collected(cur, holders) ==
  LET live == {cur} \cup {holders[h] : h \in Handlers}
  IN /\ chain' = [o \in Objects |-> IF o \in live THEN chain[o] ELSE <<>>]
     /\ index' = [o \in Objects |-> IF o \in live THEN index[o] ELSE 0]

-----------------------------------------------------------------------------
\* The menu.  A press carries a position, read against a fresh SELECT.

PressRead(t) ==
  /\ tap[t] = "idle"
  /\ tap' = [tap EXCEPT ![t] = "read"]
  /\ chosen' = [chosen EXCEPT ![t] = Selection]
  /\ UNCHANGED <<setting, objects, wanted, held, latest>>

\* Every turn that read the row before it changed now holds an old order.
Stored(order) ==
  /\ stored' = order
  /\ latest' = [h \in Handlers |-> latest[h] /\ order = stored]

PressWrite(t) ==
  /\ tap[t] = "read"
  /\ \E position \in 0 .. Len(offered) :
       LET updated == Pick(chosen[t], position)
       IN IF updated = chosen[t]
          THEN /\ tap' = [tap EXCEPT ![t] = "idle"]
               /\ UNCHANGED <<stored, latest>>
          ELSE /\ Stored(updated)
               /\ tap' = [tap EXCEPT ![t] = "written"]
  /\ chosen' = [chosen EXCEPT ![t] = <<>>]
  /\ UNCHANGED <<offered, objects, wanted, held>>

\* "По умолчанию" deletes the row.
PressReset(t) ==
  /\ tap[t] = "idle"
  /\ Stored(None)
  /\ tap' = [tap EXCEPT ![t] = "written"]
  /\ UNCHANGED <<offered, objects, wanted, held, chosen>>

\* forget_chat, once the statement has come back.
PressForget(t) ==
  /\ tap[t] = "written"
  /\ current' = None
  /\ Collected(None, held)
  /\ tap' = [tap EXCEPT ![t] = "idle"]
  /\ UNCHANGED <<setting, wanted, held, latest, chosen>>

Press == \E t \in Taps : PressRead(t) \/ PressWrite(t) \/ PressReset(t)
                            \/ PressForget(t)

-----------------------------------------------------------------------------
\* A turn and its chain.

ReadChain(h) ==
  /\ wanted[h] = <<>> /\ held[h] = None
  /\ wanted' = [wanted EXCEPT ![h] = ProviderChain]
  /\ latest' = [latest EXCEPT ![h] = TRUE]
  /\ UNCHANGED <<setting, objects, held, taps>>

IsLeast(o, S) == o \in S /\ \A x \in S : o <= x
Unused == {o \in Objects : o # current /\ \A h \in Handlers : held[h] # o}

\* fallback_for: the chat's object, or a new one at the top of its order when
\* there is none or its order is not the one that was read.
Fits_Any(h) == current # None
Fits(h) == current # None /\ chain[current] = wanted[h]
FallbackFor(h) ==
  /\ wanted[h] # <<>>
  /\ \E o \in Objects :
       /\ IF Fits(h) THEN o = current ELSE IsLeast(o, Unused)
       /\ held' = [held EXCEPT ![h] = o]
       /\ current' = o
       /\ LET live == {o} \cup {held[g] : g \in Handlers} IN
          /\ chain' = [x \in Objects |->
               IF x = o THEN wanted[h] ELSE IF x \in live THEN chain[x] ELSE <<>>]
          /\ index' = [x \in Objects |->
               IF x \in live /\ (x # o \/ Fits(h)) THEN index[x] ELSE 0]
  /\ wanted' = [wanted EXCEPT ![h] = <<>>]
  /\ UNCHANGED <<setting, latest, taps>>

\* The entry an object stands at, None once it has walked past the last.
At(o) == IF index[o] < Len(chain[o]) THEN chain[o][index[o] + 1] ELSE None

\* start: index += 1, wherever another turn has moved it meanwhile.
Advance(h) ==
  /\ index' = [index EXCEPT ![held[h]] = @ + 1]
  /\ UNCHANGED <<setting, chain, current, wanted, held, latest, taps>>

\* The turn is over, and lets its object go.
LetGo(h) ==
  /\ held[h] # None
  /\ held' = [held EXCEPT ![h] = None]
  /\ latest' = [latest EXCEPT ![h] = FALSE]
  /\ Collected(current, [held EXCEPT ![h] = None])
  /\ UNCHANGED <<setting, current, wanted, taps>>

\* A restart, perhaps into another deployment: memory is gone, the row is not.
Restarted ==
  /\ offered' \in Deployments
  /\ chain' = [o \in Objects |-> <<>>]
  /\ index' = [o \in Objects |-> 0]
  /\ current' = None
  /\ wanted' = [h \in Handlers |-> <<>>]
  /\ held' = [h \in Handlers |-> None]
  /\ latest' = [h \in Handlers |-> FALSE]
  /\ tap' = [t \in Taps |-> "idle"]
  /\ chosen' = [t \in Taps |-> <<>>]
  /\ UNCHANGED stored

\* On its own: a request was refused though another turn may have walked the
\* object past its end since it was sent.
Refusal(h) ==
  /\ held[h] # None /\ index[held[h]] < Len(chain[held[h]]) + Cardinality(Handlers)
  /\ Advance(h)

ChainNext ==
  \/ Press
  \/ \E h \in Handlers : ReadChain(h) \/ FallbackFor(h) \/ Refusal(h) \/ LetGo(h)
  \/ Restarted

ChainSpec == ChainInit /\ [][ChainNext]_cvars

-----------------------------------------------------------------------------
\* The chain holds each model once, whatever presses overlap, whatever an
\* older deployment left in the row (admin.pick appends what it has not).  The
\* run has one press at a time under way; the theorem has any number.
ChainIsASelection == stored # None => IsInjective(stored)

\* A turn that read the row after its last change walks exactly that order,
\* though a slower turn may have put an object of the old order back after
\* forget_chat (fallback_for compares the orders and trusts no object).
SettingsTakeEffect ==
  \A h \in Handlers :
    held[h] # None /\ latest[h] => chain[held[h]] = ProviderChain
=============================================================================
