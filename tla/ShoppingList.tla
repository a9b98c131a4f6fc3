---------------------------- MODULE ShoppingList ----------------------------
(***************************************************************************)
(* One session's shopping list (table list_items) and the tools that turns *)
(* running at once apply to it: list_add, list_check_off, list_claim,      *)
(* list_unclaim, and the deletion that list_remove_item leads to once a    *)
(* person has said yes.  Each statement is a step, and decides on what the *)
(* one before it returned, whatever has been written since.                *)
(*                                                                         *)
(* A spelling stands for a name as item_names.canonical leaves it; KeyOf   *)
(* is match_key, which makes several spellings one item.                   *)
(*                                                                         *)
(* Source: bot/tools/core.py, with bot/item_names.py and bot/quantity.py   *)
(***************************************************************************)
EXTENDS Bot, Naturals, Sequences, FiniteSets

CONSTANTS
  Spellings,   \* names of items
  Canonical,   \* canonical: of each, the one it is stored under today
  KeyOf,       \* match_key: of each, the item it names
  Legacy,      \* the lists an earlier version may have left
  Asked,       \* what list_add is asked: [name, amount, relative, several]
  Amounts,     \* amounts of something
  MaxItems,    \* bound: rows ever inserted
  MaxCalls     \* bound: tool calls

ASSUME ShoppingListAssumption ==
  /\ Canonical \in [Spellings -> Spellings] /\ DOMAIN KeyOf = Spellings
  /\ \A s \in Spellings : /\ Canonical[Canonical[s]] = Canonical[s]
                          /\ KeyOf[Canonical[s]] = KeyOf[s]
  /\ MaxItems \in Nat \ {0} /\ MaxCalls \in Nat
  /\ None \notin Amounts \cup Spellings \cup Nat

VARIABLES
  items,     \* list_items: the row under each id, None if there is none
  given,     \* the last id given out
  doing,     \* where each call stands
  call,      \* what it was asked, with the name it goes by
  twin,      \* the row it goes by: an id, or None
  others,    \* the rows it still has to fold into that one
  misspelt,  \* was that one under a name that is no canonical one?
  before,    \* the amount it read there
  calls,     \* how many there have been
  mixed      \* history: has an add clashed with another call in hand?

store  == <<items, given>>
memory == <<doing, call, twin, others, misspelt, before>>
lvars  == <<store, memory, calls, mixed>>

Ids == 1 .. MaxItems
\* amounts is NULL in a legacy row, and "empty" where none was stated.
Empty == "empty"
Item == [name : Spellings, amount : Amounts \cup {None},
         amounts : Amounts \cup {None, Empty}, claimed : BOOLEAN, checked : BOOLEAN]
Verbs == {"add", "check", "claim", "unclaim", "remove"}
Call == [verb : Verbs, name : Spellings, amount : Amounts \cup {None},
         relative : BOOLEAN, several : BOOLEAN]
Steps == {"idle", "look", "insert", "fold", "drop", "rename", "again", "byName",
          "decide", "resolve", "apply"}

ASSUME AskedAssumption ==
  /\ \A list \in Legacy :
       /\ list \in Seq(Item) /\ Len(list) <= MaxItems
       /\ \A i \in 1 .. Len(list) : list[i].amounts = None
       /\ \A i, j \in 1 .. Len(list) : list[i].name = list[j].name => i = j
  /\ Asked \subseteq {c \in Call : c.verb = "add" /\ Canonical[c.name] = c.name}
  /\ None \notin Item \cup Call

ListTypeOK ==
  /\ items \in [Ids -> Item \cup {None}]
  /\ given \in 0 .. MaxItems
  /\ doing \in [Handlers -> Steps]
  /\ call \in [Handlers -> Call \cup {None}]
  /\ twin \in [Handlers -> Ids \cup {None}]
  /\ others \in [Handlers -> SUBSET Ids]
  /\ misspelt \in [Handlers -> BOOLEAN]
  /\ before \in [Handlers -> Amounts \cup {None}]
  /\ calls \in 0 .. MaxCalls
  /\ mixed \in BOOLEAN

ListInit ==
  /\ \E list \in Legacy :
       /\ items = [i \in Ids |-> IF i <= Len(list) THEN list[i] ELSE None]
       /\ given = Len(list)
  /\ doing = [c \in Handlers |-> "idle"]
  /\ call = [c \in Handlers |-> None]
  /\ twin = [c \in Handlers |-> None]
  /\ others = [c \in Handlers |-> {}]
  /\ misspelt = [c \in Handlers |-> FALSE]
  /\ before = [c \in Handlers |-> None]
  /\ calls = 0
  /\ mixed = FALSE

-----------------------------------------------------------------------------
Listed == {i \in Ids : items[i] # None}
Named(s) == {i \in Listed : items[i].name = s}
Alike(s) == {i \in Listed : KeyOf[items[i].name] = KeyOf[s]}

\* _amounts_of: the new column when it says anything, the old one otherwise.
\* Stored as text inside JSON, "[]" says something: that there is no amount.
Held_AsStored(row) == IF row.amounts = None THEN row.amount ELSE row.amounts
Held(row) ==
  CASE row.amounts = None  -> row.amount
    [] row.amounts = Empty -> None
    [] OTHER               -> row.amounts

Idle(c) ==
  /\ doing' = [doing EXCEPT ![c] = "idle"]
  /\ call' = [call EXCEPT ![c] = None]
  /\ twin' = [twin EXCEPT ![c] = None]
  /\ others' = [others EXCEPT ![c] = {}]
  /\ misspelt' = [misspelt EXCEPT ![c] = FALSE]
  /\ before' = [before EXCEPT ![c] = None]

Onwards(c, step) == doing' = [doing EXCEPT ![c] = step]

\* An item on several rows, none under this name: its SELECT has no ORDER BY,
\* and which row comes first is anyone's guess.
Untidy(s) == Named(s) = {} /\ \E i, j \in Alike(s) : i # j

\* An add and another call get in each other's way when they go by two names of
\* one item, when the other takes it off, or a claim off it, or when each may
\* choose another of the item's rows to keep.
Clash(a, b) ==
  /\ KeyOf[a.name] = KeyOf[b.name] /\ "add" \in {a.verb, b.verb}
  /\ \/ a.name # b.name
     \/ {a.verb, b.verb} \cap {"remove", "unclaim"} # {}
     \/ Untidy(a.name)

Begin(c, asked, step) ==
  /\ doing[c] = "idle" /\ calls < MaxCalls
  /\ calls' = calls + 1
  /\ call' = [call EXCEPT ![c] = asked]
  /\ Onwards(c, step)
  /\ mixed' = (mixed \/ \E d \in Handlers : call[d] # None /\ Clash(asked, call[d]))
  /\ UNCHANGED <<store, twin, others, misspelt, before>>

-----------------------------------------------------------------------------
\* list_add.  A name some participant goes by is refused before this.

Add(c) == \E asked \in Asked : Begin(c, asked, "look")

\* The rows of the same item, and the twin: the one already under this name,
\* else any.
Look_First(c) ==
  /\ doing[c] = "look"
  /\ LET same == Alike(call[c].name)
     IN IF same = {}
        THEN /\ Onwards(c, "insert")
             /\ UNCHANGED twin
        ELSE \E t \in same :
               /\ twin' = [twin EXCEPT ![c] = t]
               /\ Onwards(c, "again")
  /\ UNCHANGED <<store, call, others, misspelt, before, calls, mixed>>
Look(c) ==
  /\ doing[c] = "look"
  /\ LET same == Alike(call[c].name)
         exact == Named(call[c].name)
     IN IF same = {}
        THEN /\ Onwards(c, "insert")
             /\ UNCHANGED <<twin, others, misspelt>>
        ELSE \E t \in IF exact = {} THEN same ELSE exact :
               /\ twin' = [twin EXCEPT ![c] = t]
               /\ others' = [others EXCEPT ![c] = same \ {t}]
               /\ misspelt' = [misspelt EXCEPT ![c] =
                                 Canonical[items[t].name] # items[t].name]
               /\ Onwards(c, "fold")
  /\ UNCHANGED <<store, call, before, calls, mixed>>

\* INSERT ... ON CONFLICT DO NOTHING; whoever was first wins.
InsertNew(c) ==
  LET asked == call[c]
      stated == IF asked.amount = None THEN Empty ELSE asked.amount
      single == IF asked.several THEN None ELSE asked.amount
  IN /\ doing[c] = "insert"
     /\ \/ /\ Named(asked.name) = {} /\ given < MaxItems
           /\ given' = given + 1
           /\ items' = [items EXCEPT ![given + 1] =
                          [name |-> asked.name, amount |-> single,
                           amounts |-> stated, claimed |-> FALSE, checked |-> FALSE]]
           /\ Idle(c)
        \/ /\ Named(asked.name) # {}
           /\ Onwards(c, "byName")
           /\ UNCHANGED <<store, call, twin, others, misspelt, before>>
     /\ UNCHANGED <<calls, mixed>>

\* The next of the other rows, in the order they came.
NextOther(c, o) == o \in others[c] /\ \A x \in others[c] : o <= x

\* UPDATE ... FROM: nothing when either row has gone.  The new column of the
\* row to be dropped is not carried over, nor its check mark.
Carried_AmountOnly(row, other) ==
  [row EXCEPT !.amount = IF @ = None THEN other.amount ELSE @]
Carried(row, other) ==
  [row EXCEPT !.amount = IF @ = None THEN other.amount ELSE @,
              !.claimed = @ \/ other.claimed]

Fold(c) ==
  /\ doing[c] = "fold"
  /\ IF others[c] = {}
     THEN /\ Onwards(c, IF misspelt[c] THEN "rename" ELSE "again")
          /\ UNCHANGED items
     ELSE \E o \in others[c] :
          /\ NextOther(c, o)
          /\ Onwards(c, "drop")
          /\ items' = IF {o, twin[c]} \subseteq Listed
                      THEN [items EXCEPT ![twin[c]] = Carried(@, items[o])]
                      ELSE items
  /\ UNCHANGED <<given, call, twin, others, misspelt, before, calls, mixed>>

Drop(c) ==
  /\ doing[c] = "drop"
  /\ \E o \in others[c] :
       /\ NextOther(c, o)
       /\ items' = [items EXCEPT ![o] = None]
       /\ others' = [others EXCEPT ![c] = @ \ {o}]
  /\ Onwards(c, "fold")
  /\ UNCHANGED <<given, call, twin, misspelt, before, calls, mixed>>

\* A name nothing would be stored under today is repaired, if its row is still
\* there; the index may object, which ends the call, its folds kept.
Rename(c) ==
  /\ doing[c] = "rename"
  /\ \/ /\ twin[c] \in Listed => Named(call[c].name) \subseteq {twin[c]}
        /\ items' = [i \in Ids |-> IF i = twin[c] /\ i \in Listed
                                  THEN [items[i] EXCEPT !.name = call[c].name]
                                  ELSE items[i]]
        /\ Onwards(c, "again")
        /\ UNCHANGED <<call, twin, others, misspelt, before>>
     \/ /\ twin[c] \in Listed
        /\ ~ Named(call[c].name) \subseteq {twin[c]}
        /\ Idle(c)
        /\ UNCHANGED items
  /\ UNCHANGED <<given, calls, mixed>>

\* The twin is read once more, by its id, else whatever is under the name; if
\* there is nothing there either, the call fails.
Again(c) ==
  /\ doing[c] = "again"
  /\ IF twin[c] \in Listed
     THEN /\ Onwards(c, "decide")
          /\ before' = [before EXCEPT ![c] = Held(items[twin[c]])]
     ELSE /\ Onwards(c, "byName")
          /\ UNCHANGED before
  /\ UNCHANGED <<store, call, twin, others, misspelt, calls, mixed>>

ByName(c) ==
  /\ doing[c] = "byName"
  /\ IF Named(call[c].name) = {}
     THEN Idle(c)
     ELSE \E i \in Named(call[c].name) :
            /\ twin' = [twin EXCEPT ![c] = i]
            /\ before' = [before EXCEPT ![c] = Held(items[i])]
            /\ Onwards(c, "decide")
            /\ UNCHANGED <<call, others, misspelt>>
  /\ UNCHANGED <<store, calls, mixed>>

\* A stated total replaces what differs, and a blank is filled in whatever
\* they said; anything else is left alone and reported.  _replace_amount goes
\* by the id.
Replaces(asked, was) ==
  /\ asked.amount # None /\ asked.amount # was
  /\ ~asked.relative \/ was = None

Decide(c) ==
  /\ doing[c] = "decide"
  /\ items' = [i \in Ids |->
       IF i = twin[c] /\ i \in Listed /\ Replaces(call[c], before[c])
       THEN [items[i] EXCEPT !.amounts = call[c].amount, !.amount = None]
       ELSE items[i]]
  /\ Idle(c)
  /\ UNCHANGED <<given, calls, mixed>>

-----------------------------------------------------------------------------
\* The tools that go by a name: _resolve_item_name, then the statement.

Use(c) ==
  \E s \in Spellings, verb \in Verbs \ {"add"} :
    Begin(c, [verb |-> verb, name |-> s, amount |-> None, relative |-> FALSE,
              several |-> FALSE], "resolve")

Resolve(c) ==
  /\ doing[c] = "resolve"
  /\ LET s == call[c].name
         found == IF Named(s) # {} THEN Named(s) ELSE Alike(s)
         names == IF found = {} THEN {s} ELSE {items[i].name : i \in found}
     IN \E name \in names : call' = [call EXCEPT ![c].name = name]
  /\ Onwards(c, "apply")
  /\ UNCHANGED <<store, twin, others, misspelt, before, calls, mixed>>

Applied(verb, row) ==
  CASE verb = "check"   -> [row EXCEPT !.checked = TRUE]
    [] verb = "claim"   -> [row EXCEPT !.claimed = TRUE]
    [] verb = "unclaim" -> [row EXCEPT !.claimed = FALSE]
    [] verb = "remove"  -> None

Apply(c) ==
  /\ doing[c] = "apply"
  /\ items' = [i \in Ids |-> IF i \in Named(call[c].name)
                            THEN Applied(call[c].verb, items[i]) ELSE items[i]]
  /\ Idle(c)
  /\ UNCHANGED <<given, calls, mixed>>

ListNext ==
  \E c \in Handlers :
    \/ Add(c) \/ Look(c) \/ InsertNew(c) \/ Fold(c) \/ Drop(c) \/ Rename(c)
    \/ Again(c) \/ ByName(c) \/ Decide(c)
    \/ Use(c) \/ Resolve(c) \/ Apply(c)

ListSpec == ListInit /\ [][ListNext]_lvars

-----------------------------------------------------------------------------
\* By the time list_add decides on the amount, the item is on one row.  A call
\* that is alone makes one of whatever an earlier version left; and calls may
\* add it at once under one name, while others check it off or claim it by that
\* name, if it is on no row, on one, or on one of that name among others.  It
\* does not hold once an add has clashed with another call (Clash): each of two
\* may then fold away the row that the other one keeps.
OneRowOnceAdded ==
  \A c \in Handlers :
    doing[c] = "decide" /\ ~mixed => Cardinality(Alike(call[c].name)) = 1

\* No row goes, and no claim goes, except by a removal or an unclaim, or in
\* favour of a row of the same item that bears the claim, as long as no add has
\* clashed with another call.
NothingIsLost ==
  [][\A i \in Listed :
       \/ mixed
       \/ \E j \in Listed' : /\ KeyOf[items'[j].name] = KeyOf[items[i].name]
                            /\ items[i].claimed => items'[j].claimed
       \/ \E c \in Handlers : /\ doing[c] = "apply"
                             /\ call[c].verb \in {"remove", "unclaim"}]_lvars
=============================================================================
