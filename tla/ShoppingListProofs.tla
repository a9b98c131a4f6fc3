------------------------ MODULE ShoppingListProofs --------------------------
(***************************************************************************)
(* Theorems about ShoppingList, for any names, lists left by earlier       *)
(* versions, requests and number of calls in hand at once: its rows stay   *)
(* rows, and unless two calls clash, an item that is added ends up on one  *)
(* row and nobody's word about an item is lost.                            *)
(*                                                                         *)
(* Each call works from the rows it read at its start.  Kept says what it  *)
(* may still believe of them: Alongside, what the other calls about its    *)
(* item can be, and Progress, where the item's rows are by now.            *)
(***************************************************************************)
EXTENDS ShoppingList, TLAPS, FiniteSetTheorems

AddSteps == {"look", "insert", "fold", "drop", "rename", "again", "byName", "decide"}
UseSteps == {"resolve", "apply"}

\* What is in a call's variables, by where it stands.
CallShape(c) ==
  /\ doing[c] = "idle" => call[c] = None
  /\ doing[c] \in AddSteps => call[c] \in Call /\ call[c].verb = "add"
  /\ doing[c] \in UseSteps => call[c] \in Call /\ call[c].verb # "add"
  /\ doing[c] \in {"fold", "drop", "rename", "again", "decide"} => twin[c] # None
  /\ twin[c] # None => twin[c] <= given
  /\ others[c] \subseteq 1 .. given

\* The unique index, and ids that are given out once.
IndexOK ==
  /\ \A i, j \in Listed : items[i].name = items[j].name => i = j
  /\ \A i \in Listed : i <= given

ListShape == ListTypeOK /\ IndexOK /\ \A c \in Handlers : CallShape(c)

InHand(c) == call[c] # None
Adding(c) == doing[c] \in AddSteps
SameItem(c, d) == KeyOf[call[c].name] = KeyOf[call[d].name]
OneItem(s) == \A i, j \in Alike(s) : i = j

\* While c adds an item, another call d about it goes by the same name, or by
\* the name of the only row; the item is not on several rows of other names,
\* and nobody takes it or a claim off.
Alongside(c, d) ==
  /\ ~Untidy(call[c].name)
  /\ call[d].verb \notin {"remove", "unclaim"}
  /\ \/ call[d].name = call[c].name
     \/ doing[d] = "apply" /\ OneItem(call[c].name)

\* Where the rows of the item that c adds are, step by step.
Unnamed(c) == doing[c] = "insert" => Alike(call[c].name) \subseteq Named(call[c].name)
Folding(c) ==
  doing[c] \in {"fold", "drop"} =>
    /\ twin[c] \in Alike(call[c].name) \ others[c]
    /\ Alike(call[c].name) \subseteq {twin[c]} \cup others[c]
    /\ \A o \in others[c] \cap Listed : o \in Alike(call[c].name) \ Named(call[c].name)
ClaimCarried(c) ==
  doing[c] = "drop" =>
    \A o \in others[c] \cap Listed :
      NextOther(c, o) /\ items[o].claimed => items[twin[c]].claimed
Folded(c) == doing[c] \in {"rename", "again", "decide"} => Alike(call[c].name) = {twin[c]}
Found(c) ==
  doing[c] = "byName" => /\ Alike(call[c].name) = Named(call[c].name)
                         /\ Named(call[c].name) # {}
Progress(c) == Unnamed(c) /\ Folding(c) /\ ClaimCarried(c) /\ Folded(c) /\ Found(c)

Kept ==
  ~mixed => \A c \in Handlers : Adding(c) =>
    /\ Progress(c)
    /\ \A d \in Handlers \ {c} : InHand(d) /\ SameItem(c, d) => Alongside(c, d)

ListInv == ListShape /\ Kept

-----------------------------------------------------------------------------
(***************************************************************************)
(* Typing.                                                                 *)
(***************************************************************************)

\* What the statements make of a row is a row of the same name.
LEMMA CarriedRow ==
  ASSUME NEW row \in Item, NEW other \in Item
  PROVE  /\ Carried(row, other) \in Item
         /\ Carried(row, other).name = row.name
         /\ Carried(row, other).claimed = (row.claimed \/ other.claimed)
BY DEF Carried, Item

LEMMA AppliedRow ==
  ASSUME NEW row \in Item, NEW verb \in {"check", "claim", "unclaim"}
  PROVE  /\ Applied(verb, row) \in Item
         /\ Applied(verb, row).name = row.name
         /\ verb = "unclaim" \/ (row.claimed => Applied(verb, row).claimed)
BY DEF Applied, Item

LEMMA HeldAmount ==
  ASSUME NEW row \in Item
  PROVE  Held(row) \in Amounts \cup {None}
BY DEF Held, Item

LEMMA ListShapeInit == ListInit => ListShape
<1> SUFFICES ASSUME ListInit PROVE ListShape
  OBVIOUS
<1>1. PICK list \in Legacy :
        /\ items = [i \in Ids |-> IF i <= Len(list) THEN list[i] ELSE None]
        /\ given = Len(list)
  BY DEF ListInit
<1>2. /\ Len(list) \in 0 .. MaxItems
      /\ \A i \in 1 .. Len(list) : list[i] \in Item
      /\ \A i, j \in 1 .. Len(list) : list[i].name = list[j].name => i = j
  BY AskedAssumption, ShoppingListAssumption
<1>3. items \in [Ids -> Item \cup {None}] /\ given \in 0 .. MaxItems
  BY <1>1, <1>2 DEF Ids
<1>4. \A i \in Listed : i \in 1 .. Len(list) /\ items[i] = list[i]
  BY <1>1, <1>2 DEF Listed, Ids
<1>5. ListTypeOK
  <2> USE DEF ListInit
  <2>1. /\ doing \in [Handlers -> Steps] /\ call \in [Handlers -> Call \cup {None}]
        /\ twin \in [Handlers -> Ids \cup {None}] /\ others \in [Handlers -> SUBSET Ids]
        /\ misspelt \in [Handlers -> BOOLEAN]
        /\ before \in [Handlers -> Amounts \cup {None}]
    <3>1. doing \in [Handlers -> Steps] /\ misspelt \in [Handlers -> BOOLEAN]
      BY DEF Steps
    <3>2. call \in [Handlers -> Call \cup {None}]
      OBVIOUS
    <3>3. twin \in [Handlers -> Ids \cup {None}] /\ others \in [Handlers -> SUBSET Ids]
      OBVIOUS
    <3>4. before \in [Handlers -> Amounts \cup {None}]
      OBVIOUS
    <3> QED
      BY <3>1, <3>2, <3>3, <3>4
  <2>2. calls = 0 /\ mixed \in BOOLEAN
    OBVIOUS
  <2> HIDE DEF ListInit
  <2>3. calls \in 0 .. MaxCalls
    BY <2>2, ShoppingListAssumption
  <2> QED
    BY <1>3, <2>1, <2>2, <2>3 DEF ListTypeOK
<1>6. IndexOK
  BY <1>1, <1>2, <1>4 DEF IndexOK
<1>7. \A c \in Handlers : CallShape(c)
  BY DEF ListInit, CallShape, AddSteps, UseSteps
<1> QED
  BY <1>5, <1>6, <1>7 DEF ListShape

\* A step of one call is no step of another.
Untouched(d) ==
  /\ doing'[d] = doing[d] /\ call'[d] = call[d]
  /\ twin'[d] = twin[d] /\ others'[d] = others[d]

ListStep(c) ==
  \/ Add(c) \/ Look(c) \/ InsertNew(c) \/ Fold(c) \/ Drop(c) \/ Rename(c)
  \/ Again(c) \/ ByName(c) \/ Decide(c)
  \/ Use(c) \/ Resolve(c) \/ Apply(c)

LEMMA StepsAreOnesOwn ==
  ASSUME ListTypeOK, NEW c \in Handlers, ListStep(c)
  PROVE  \A d \in Handlers \ {c} : Untouched(d)
<1> USE DEF ListTypeOK, Untouched, memory, store
<1>1. ASSUME NEW asked, NEW step, Begin(c, asked, step)
      PROVE  \A d \in Handlers \ {c} : Untouched(d)
  BY <1>1 DEF Begin, Onwards
<1>2. CASE Look(c)
  BY <1>2 DEF Look, Onwards
<1>3. CASE InsertNew(c)
  BY <1>3 DEF InsertNew, Onwards, Idle
<1>4. CASE Fold(c)
  BY <1>4 DEF Fold, Onwards
<1>5. CASE Drop(c)
  BY <1>5 DEF Drop, Onwards
<1>6. CASE Rename(c)
  BY <1>6 DEF Rename, Onwards, Idle
<1>7. CASE Again(c)
  BY <1>7 DEF Again, Onwards
<1>8. CASE ByName(c)
  BY <1>8 DEF ByName, Onwards, Idle
<1>9. CASE Decide(c)
  BY <1>9 DEF Decide, Idle
<1>10. CASE Resolve(c)
  BY <1>10 DEF Resolve, Onwards
<1>11. CASE Apply(c)
  BY <1>11 DEF Apply, Idle
<1>12. CASE Add(c) \/ Use(c)
  BY <1>1, <1>12 DEF Add, Use
<1> QED
  BY <1>2, <1>3, <1>4, <1>5, <1>6, <1>7, <1>8, <1>9, <1>10, <1>11, <1>12 DEF ListStep

\* So a step need only be looked at where it writes.
LEMMA ShapeKept ==
  ASSUME ListShape, NEW c \in Handlers, \A d \in Handlers \ {c} : Untouched(d),
         ListTypeOK', IndexOK', given <= given', CallShape(c)'
  PROVE  ListShape'
<1> SUFFICES ASSUME NEW d \in Handlers \ {c} PROVE CallShape(d)'
  BY DEF ListShape
<1>1. given \in Nat /\ given' \in Nat
  BY ShoppingListAssumption DEF ListShape, ListTypeOK
<1>2. twin[d] \in Nat \cup {None} /\ others[d] \subseteq Nat
  BY ShoppingListAssumption DEF ListShape, ListTypeOK, Ids
<1> QED
  BY <1>1, <1>2 DEF ListShape, CallShape, Untouched

-----------------------------------------------------------------------------
(***************************************************************************)
(* Each step keeps the shape.                                              *)
(***************************************************************************)

\* Rows rewritten in place under their own names leave the index alone.
LEMMA IndexKept ==
  ASSUME ListShape, UNCHANGED given, items' \in [Ids -> Item \cup {None}],
         \A i \in Listed' : i \in Listed /\ items'[i].name = items[i].name
  PROVE  IndexOK'
BY DEF ListShape, IndexOK

LEMMA BeginShape ==
  ASSUME ListShape, NEW c \in Handlers, NEW asked \in Call, NEW step \in Steps,
         Begin(c, asked, step),
         step \in AddSteps => asked.verb = "add" /\ step = "look",
         step \in UseSteps => asked.verb # "add",
         step \in AddSteps \cup UseSteps
  PROVE  ListShape'
<1> USE DEF Begin, Onwards
<1>1. UNCHANGED <<items, given, twin, others, misspelt, before>>
  BY DEF store
<1>2. ListTypeOK'
  <2>1. doing' \in [Handlers -> Steps] /\ call' \in [Handlers -> Call \cup {None}]
    BY DEF ListShape, ListTypeOK
  <2>2. calls' \in 0 .. MaxCalls /\ mixed' \in BOOLEAN
    BY ShoppingListAssumption DEF ListShape, ListTypeOK
  <2> QED
    BY <1>1, <2>1, <2>2 DEF ListShape, ListTypeOK
<1>3. IndexOK'
  BY <1>1 DEF ListShape, IndexOK, Listed
<1>4. CallShape(c)'
  BY <1>1 DEF ListShape, ListTypeOK, CallShape, AddSteps, UseSteps
<1>5. \A d \in Handlers \ {c} : Untouched(d)
  BY <1>1 DEF ListShape, ListTypeOK, Untouched
<1>6. given <= given'
  BY <1>1, ShoppingListAssumption DEF ListShape, ListTypeOK
<1> QED
  BY <1>2, <1>3, <1>4, <1>5, <1>6, ShapeKept

LEMMA AddShape ==
  ASSUME ListShape, NEW c \in Handlers, Add(c) \/ Use(c)
  PROVE  ListShape'
<1>1. CASE Add(c)
  <2>1. PICK asked \in Asked : Begin(c, asked, "look")
    BY <1>1 DEF Add
  <2>2. asked \in Call /\ asked.verb = "add"
    BY AskedAssumption
  <2> QED
    BY <2>1, <2>2, BeginShape DEF Steps, AddSteps, UseSteps
<1>2. CASE Use(c)
  <2>1. PICK s \in Spellings, verb \in Verbs \ {"add"} :
          Begin(c, [verb |-> verb, name |-> s, amount |-> None, relative |-> FALSE,
                    several |-> FALSE], "resolve")
    BY <1>2 DEF Use
  <2>2. [verb |-> verb, name |-> s, amount |-> None, relative |-> FALSE,
         several |-> FALSE] \in Call
    BY DEF Call
  <2> QED
    BY <2>1, <2>2, BeginShape DEF Steps, AddSteps, UseSteps
<1> QED
  BY <1>1, <1>2

\* The rest of the call's variables, and the index, where no row changes.
LEMMA SameRows ==
  ASSUME ListShape, NEW c \in Handlers, ListStep(c), UNCHANGED <<items, given>>,
         ListTypeOK', CallShape(c)'
  PROVE  ListShape'
<1>1. IndexOK'
  BY DEF ListShape, IndexOK, Listed
<1>2. given <= given'
  BY ShoppingListAssumption DEF ListShape, ListTypeOK
<1> QED
  BY <1>1, <1>2, ShapeKept, StepsAreOnesOwn DEF ListShape

LEMMA LookShape ==
  ASSUME ListShape, NEW c \in Handlers, Look(c)
  PROVE  ListShape'
<1>1. UNCHANGED <<items, given, call, before, calls, mixed>> /\ doing[c] = "look"
  BY DEF Look, store
<1>2. /\ doing' \in [Handlers -> Steps] /\ twin' \in [Handlers -> Ids \cup {None}]
      /\ others' \in [Handlers -> SUBSET Ids] /\ misspelt' \in [Handlers -> BOOLEAN]
      /\ doing'[c] \in {"insert", "fold"}
      /\ \/ doing'[c] = "insert" /\ twin'[c] = twin[c] /\ others'[c] = others[c]
         \/ twin'[c] \in Listed /\ others'[c] \subseteq Listed
  <2>1. CASE Alike(call[c].name) = {}
    BY <2>1 DEF Look, Onwards, ListShape, ListTypeOK, Steps
  <2>2. CASE Alike(call[c].name) # {}
    <3>1. PICK t \in IF Named(call[c].name) = {} THEN Alike(call[c].name)
                     ELSE Named(call[c].name) :
            /\ twin' = [twin EXCEPT ![c] = t]
            /\ others' = [others EXCEPT ![c] = Alike(call[c].name) \ {t}]
            /\ misspelt' = [misspelt EXCEPT ![c] = Canonical[items[t].name] # items[t].name]
            /\ doing' = [doing EXCEPT ![c] = "fold"]
      BY <2>2 DEF Look, Onwards
    <3>2. t \in Listed /\ Listed \subseteq Ids
      BY DEF Alike, Named, Listed
    <3>3. (Canonical[items[t].name] # items[t].name) \in BOOLEAN
      OBVIOUS
    <3> QED
      BY <3>1, <3>2, <3>3 DEF ListShape, ListTypeOK, Steps, Alike
  <2> QED
    BY <2>1, <2>2
<1>3. ListTypeOK'
  BY <1>1, <1>2 DEF ListShape, ListTypeOK
<1>4. \A i \in Listed : i \in 1 .. given
  BY ShoppingListAssumption DEF ListShape, ListTypeOK, IndexOK, Listed, Ids
<1>5. CallShape(c)'
  <2>1. CallShape(c) /\ (twin'[c] \in Listed => twin'[c] <= given)
    BY <1>4 DEF ListShape
  <2>2. call[c] \in Call /\ call[c].verb = "add"
    BY <1>1, <2>1 DEF CallShape, AddSteps
  <2>3. None \notin Listed /\ others'[c] \subseteq 1 .. given
    BY <1>2, <1>4, <2>1, ShoppingListAssumption DEF CallShape, Listed, Ids
  <2> QED
    BY <1>1, <1>2, <2>1, <2>2, <2>3 DEF CallShape, AddSteps, UseSteps
<1> QED
  BY <1>1, <1>3, <1>5, SameRows DEF ListStep

LEMMA InsertShape ==
  ASSUME ListShape, NEW c \in Handlers, InsertNew(c)
  PROVE  ListShape'
<1>1. call[c] \in Call /\ doing[c] = "insert" /\ UNCHANGED <<calls, mixed>>
  BY DEF InsertNew, ListShape, CallShape, AddSteps
<1>2. CASE Named(call[c].name) # {}
  <2>1. Onwards(c, "byName") /\ UNCHANGED <<items, given, call, twin, others, misspelt, before>>
    BY <1>2 DEF InsertNew, store
  <2>2. ListTypeOK'
    BY <1>1, <2>1 DEF Onwards, ListShape, ListTypeOK, Steps
  <2>3. CallShape(c)'
    BY <1>1, <2>1 DEF Onwards, ListShape, ListTypeOK, CallShape, AddSteps, UseSteps
  <2> QED
    BY <2>1, <2>2, <2>3, SameRows DEF ListStep
<1>3. CASE Named(call[c].name) = {}
  <2>1. PICK row :
          /\ given < MaxItems /\ given' = given + 1
          /\ items' = [items EXCEPT ![given + 1] = row]
          /\ row = [name |-> call[c].name,
                    amount |-> IF call[c].several THEN None ELSE call[c].amount,
                    amounts |-> IF call[c].amount = None THEN Empty ELSE call[c].amount,
                    claimed |-> FALSE, checked |-> FALSE]
          /\ Idle(c)
    BY <1>3 DEF InsertNew
  <2>2. row \in Item /\ row.name = call[c].name
    BY <1>1, <2>1 DEF Item, Call
  <2>3. given + 1 \in Ids /\ given \in Nat /\ given' \in 0 .. MaxItems
    BY <2>1, ShoppingListAssumption DEF ListShape, ListTypeOK, Ids
  <2>4. ListTypeOK'
    <3>1. items' \in [Ids -> Item \cup {None}]
      BY <2>1, <2>2 DEF ListShape, ListTypeOK
    <3> QED
      BY <1>1, <2>1, <2>3, <3>1 DEF Idle, ListShape, ListTypeOK, Steps
  <2>5. IndexOK'
    <3>1. \A i \in Listed' : i = given + 1 \/ (i \in Listed /\ items'[i] = items[i])
      BY <2>1 DEF ListShape, ListTypeOK, Listed
    <3>2. items'[given + 1] = row
      BY <2>1, <2>3 DEF ListShape, ListTypeOK
    <3>3. \A i \in Listed : items[i].name # row.name
      BY <1>3, <2>2 DEF Named
    <3>4. \A i \in Listed : i <= given
      BY DEF ListShape, IndexOK
    <3>5. \A i, j \in Listed' : items'[i].name = items'[j].name => i = j
      BY <3>1, <3>2, <3>3 DEF ListShape, IndexOK
    <3>6. \A i \in Listed' : i <= given'
      BY <2>1, <2>3, <3>1, <3>4 DEF Listed, Ids
    <3> QED
      BY <3>5, <3>6 DEF IndexOK
  <2>6. CallShape(c)'
    BY <2>1 DEF Idle, ListShape, ListTypeOK, CallShape, AddSteps, UseSteps
  <2> QED
    BY <2>1, <2>3, <2>4, <2>5, <2>6, ShapeKept, StepsAreOnesOwn DEF ListStep, ListShape
<1> QED
  BY <1>2, <1>3

LEMMA FoldShape ==
  ASSUME ListShape, NEW c \in Handlers, Fold(c)
  PROVE  ListShape'
<1>1. /\ doing[c] = "fold" /\ UNCHANGED <<given, call, twin, others, misspelt, before, calls, mixed>>
      /\ call[c] \in Call /\ call[c].verb = "add" /\ twin[c] # None
  BY DEF Fold, ListShape, CallShape, AddSteps
<1>2. PICK step \in {"rename", "again", "drop"} : doing' = [doing EXCEPT ![c] = step]
  BY DEF Fold, Onwards
<1>3. /\ items' \in [Ids -> Item \cup {None}]
      /\ \A i \in Listed' : i \in Listed /\ items'[i].name = items[i].name
  <2>1. CASE UNCHANGED items
    BY <2>1 DEF ListShape, ListTypeOK, Listed
  <2>2. CASE ~UNCHANGED items
    <3>1. PICK o \in others[c] :
            /\ {o, twin[c]} \subseteq Listed
            /\ items' = [items EXCEPT ![twin[c]] = Carried(items[twin[c]], items[o])]
      BY <2>2 DEF Fold
    <3>2. items[o] \in Item /\ items[twin[c]] \in Item
      BY <3>1 DEF ListShape, ListTypeOK, Listed
    <3>3. /\ Carried(items[twin[c]], items[o]) \in Item
          /\ Carried(items[twin[c]], items[o]).name = items[twin[c]].name
      BY <3>2, CarriedRow
    <3> QED
      BY <3>1, <3>3 DEF ListShape, ListTypeOK, Listed
  <2> QED
    BY <2>1, <2>2
<1>4. ListTypeOK'
  BY <1>1, <1>2, <1>3 DEF ListShape, ListTypeOK, Steps
<1>5. CallShape(c)'
  BY <1>1, <1>2 DEF ListShape, ListTypeOK, CallShape, AddSteps, UseSteps
<1>6. IndexOK' /\ given <= given'
  BY <1>1, <1>3, IndexKept, ShoppingListAssumption DEF ListShape, ListTypeOK
<1> QED
  BY <1>4, <1>5, <1>6, ShapeKept, StepsAreOnesOwn DEF ListStep, ListShape

LEMMA DropShape ==
  ASSUME ListShape, NEW c \in Handlers, Drop(c)
  PROVE  ListShape'
<1>1. /\ doing[c] = "drop" /\ UNCHANGED <<given, call, twin, misspelt, before, calls, mixed>>
      /\ call[c] \in Call /\ call[c].verb = "add" /\ twin[c] # None
  BY DEF Drop, ListShape, CallShape, AddSteps
<1>2. PICK o \in others[c] :
        /\ items' = [items EXCEPT ![o] = None]
        /\ others' = [others EXCEPT ![c] = @ \ {o}]
        /\ doing' = [doing EXCEPT ![c] = "fold"]
  BY DEF Drop, Onwards
<1>3. /\ items' \in [Ids -> Item \cup {None}]
      /\ \A i \in Listed' : i \in Listed /\ items'[i].name = items[i].name
  BY <1>2 DEF ListShape, ListTypeOK, Listed
<1>4. ListTypeOK'
  BY <1>1, <1>2, <1>3 DEF ListShape, ListTypeOK, Steps
<1>5. CallShape(c)'
  BY <1>1, <1>2 DEF ListShape, ListTypeOK, CallShape, AddSteps, UseSteps
<1>6. IndexOK' /\ given <= given'
  BY <1>1, <1>3, IndexKept, ShoppingListAssumption DEF ListShape, ListTypeOK
<1> QED
  BY <1>4, <1>5, <1>6, ShapeKept, StepsAreOnesOwn DEF ListStep, ListShape

LEMMA RenameShape ==
  ASSUME ListShape, NEW c \in Handlers, Rename(c)
  PROVE  ListShape'
<1>1. /\ doing[c] = "rename" /\ UNCHANGED <<given, calls, mixed>>
      /\ call[c] \in Call /\ call[c].verb = "add" /\ twin[c] # None
  BY DEF Rename, ListShape, CallShape, AddSteps
<1>2. CASE twin[c] \in Listed => Named(call[c].name) \subseteq {twin[c]}
  <2>1. /\ items' = [i \in Ids |-> IF i = twin[c] /\ i \in Listed
                                  THEN [items[i] EXCEPT !.name = call[c].name]
                                  ELSE items[i]]
        /\ doing' = [doing EXCEPT ![c] = "again"]
        /\ UNCHANGED <<call, twin, others, misspelt, before>>
    BY <1>2 DEF Rename, Onwards
  <2>2. \A i \in Listed : /\ items[i] \in Item
                          /\ [items[i] EXCEPT !.name = call[c].name] \in Item
                          /\ [items[i] EXCEPT !.name = call[c].name].name = call[c].name
    BY <1>1 DEF ListShape, ListTypeOK, Listed, Item, Call
  <2>3. /\ items' \in [Ids -> Item \cup {None}]
        /\ \A i \in Listed' : /\ i \in Listed
                              /\ i # twin[c] => items'[i] = items[i]
                              /\ i = twin[c] => items'[i].name = call[c].name
    BY <2>1, <2>2 DEF ListShape, ListTypeOK, Listed
  <2>4. ListTypeOK'
    BY <1>1, <2>1, <2>3 DEF ListShape, ListTypeOK, Steps
  <2>5. twin[c] \in Listed =>
          \A i \in Listed : i # twin[c] => items[i].name # call[c].name
    BY <1>2 DEF Named
  <2>6. IndexOK' /\ given <= given'
    BY <1>1, <2>3, <2>5, ShoppingListAssumption DEF ListShape, ListTypeOK, IndexOK
  <2>7. CallShape(c)'
    BY <1>1, <2>1 DEF ListShape, ListTypeOK, CallShape, AddSteps, UseSteps
  <2> QED
    BY <2>4, <2>6, <2>7, ShapeKept, StepsAreOnesOwn DEF ListStep, ListShape
<1>3. CASE twin[c] \in Listed /\ ~ Named(call[c].name) \subseteq {twin[c]}
  <2>1. Idle(c) /\ UNCHANGED items
    BY <1>3 DEF Rename
  <2>2. ListTypeOK'
    BY <1>1, <2>1 DEF Idle, ListShape, ListTypeOK, Steps
  <2>3. CallShape(c)'
    BY <1>1, <2>1 DEF Idle, ListShape, ListTypeOK, CallShape, AddSteps, UseSteps
  <2> QED
    BY <1>1, <2>1, <2>2, <2>3, SameRows DEF ListStep
<1> QED
  BY <1>2, <1>3

LEMMA ReadShape ==
  ASSUME ListShape, NEW c \in Handlers, Again(c) \/ ByName(c) \/ Resolve(c)
  PROVE  ListShape'
<1>1. UNCHANGED <<items, given, calls, mixed>>
  BY DEF Again, ByName, Resolve, store
<1>2. \A i \in Listed : i \in Ids /\ i <= given /\ Held(items[i]) \in Amounts \cup {None}
  <2>1. \A i \in Listed : i \in Ids /\ i <= given /\ items[i] \in Item
    BY DEF ListShape, ListTypeOK, IndexOK, Listed
  <2>2. \A row \in Item : Held(row) \in Amounts \cup {None}
    BY HeldAmount
  <2> QED
    BY <2>1, <2>2
<1>3. CASE Again(c)
  <2>1. call[c] \in Call /\ call[c].verb = "add" /\ twin[c] # None
    BY <1>3 DEF Again, ListShape, CallShape, AddSteps
  <2>2. PICK step \in {"decide", "byName"}, b \in Amounts \cup {None} :
          /\ doing' = [doing EXCEPT ![c] = step]
          /\ before' = [before EXCEPT ![c] = b]
          /\ UNCHANGED <<call, twin, others, misspelt>>
    BY <1>2, <1>3 DEF Again, Onwards, ListShape, ListTypeOK
  <2>3. ListTypeOK'
    BY <1>1, <2>2 DEF ListShape, ListTypeOK, Steps
  <2>4. CallShape(c)'
    BY <1>1, <2>1, <2>2 DEF ListShape, ListTypeOK, CallShape, AddSteps, UseSteps
  <2> QED
    BY <1>1, <1>3, <2>3, <2>4, SameRows DEF ListStep
<1>4. CASE ByName(c)
  <2>1. call[c] \in Call /\ call[c].verb = "add"
    BY <1>4 DEF ByName, ListShape, CallShape, AddSteps
  <2>2. CASE Named(call[c].name) = {}
    <3>1. Idle(c)
      BY <1>4, <2>2 DEF ByName
    <3>2. ListTypeOK' /\ CallShape(c)'
      BY <1>1, <3>1 DEF Idle, ListShape, ListTypeOK, Steps, CallShape, AddSteps, UseSteps
    <3> QED
      BY <1>1, <1>4, <3>2, SameRows DEF ListStep
  <2>3. CASE Named(call[c].name) # {}
    <3>1. PICK i \in Named(call[c].name) :
            /\ twin' = [twin EXCEPT ![c] = i]
            /\ before' = [before EXCEPT ![c] = Held(items[i])]
            /\ doing' = [doing EXCEPT ![c] = "decide"]
            /\ UNCHANGED <<call, others, misspelt>>
      BY <1>4, <2>3 DEF ByName, Onwards
    <3>2. i \in Ids /\ i <= given /\ Held(items[i]) \in Amounts \cup {None} /\ i # None
      BY <1>2, ShoppingListAssumption DEF Named, Ids
    <3>3. ListTypeOK'
      BY <1>1, <3>1, <3>2 DEF ListShape, ListTypeOK, Steps
    <3>4. CallShape(c)'
      BY <1>1, <2>1, <3>1, <3>2 DEF ListShape, ListTypeOK, CallShape, AddSteps, UseSteps
    <3> QED
      BY <1>1, <1>4, <3>3, <3>4, SameRows DEF ListStep
  <2> QED
    BY <2>2, <2>3
<1>5. CASE Resolve(c)
  <2>1. call[c] \in Call /\ call[c].verb # "add"
    BY <1>5 DEF Resolve, ListShape, CallShape, UseSteps
  <2>2. PICK name \in Spellings : /\ call' = [call EXCEPT ![c] = [@ EXCEPT !.name = name]]
                                 /\ doing' = [doing EXCEPT ![c] = "apply"]
                                 /\ UNCHANGED <<twin, others, misspelt, before>>
    <3>1. \A i \in Listed : items[i].name \in Spellings
      BY DEF ListShape, ListTypeOK, Listed, Item
    <3>2. Named(call[c].name) \subseteq Listed /\ Alike(call[c].name) \subseteq Listed
      BY DEF Named, Alike
    <3>3. call[c].name \in Spellings
      BY <2>1 DEF Call
    <3> DEFINE found == IF Named(call[c].name) # {} THEN Named(call[c].name)
                        ELSE Alike(call[c].name)
               names == IF found = {} THEN {call[c].name} ELSE {items[i].name : i \in found}
    <3>4. PICK name \in names : call' = [call EXCEPT ![c].name = name]
      BY <1>5 DEF Resolve
    <3>5. names \subseteq Spellings
      BY <3>1, <3>2, <3>3
    <3>6. UNCHANGED <<twin, others, misspelt, before>> /\ doing' = [doing EXCEPT ![c] = "apply"]
      BY <1>5 DEF Resolve, Onwards
    <3> QED
      BY <3>4, <3>5, <3>6
  <2>3. /\ [call[c] EXCEPT !.name = name] \in Call
        /\ [call[c] EXCEPT !.name = name].verb = call[c].verb
    BY <2>1 DEF Call
  <2>4. ListTypeOK'
    BY <1>1, <2>2, <2>3 DEF ListShape, ListTypeOK, Steps
  <2>5. CallShape(c)'
    BY <1>1, <2>1, <2>2, <2>3 DEF ListShape, ListTypeOK, CallShape, AddSteps, UseSteps
  <2> QED
    BY <1>1, <1>5, <2>4, <2>5, SameRows DEF ListStep
<1> QED
  BY <1>3, <1>4, <1>5

LEMMA WriteShape ==
  ASSUME ListShape, NEW c \in Handlers, Decide(c) \/ Apply(c)
  PROVE  ListShape'
<1>1. UNCHANGED <<given, calls, mixed>> /\ Idle(c)
  BY DEF Decide, Apply
<1>2. \A i \in Listed : items[i] \in Item
  BY DEF ListShape, ListTypeOK, Listed
<1>3. /\ items' \in [Ids -> Item \cup {None}]
      /\ \A i \in Listed' : i \in Listed /\ items'[i].name = items[i].name
  <2>1. CASE Decide(c)
    <3>1. call[c] \in Call
      BY <2>1 DEF Decide, ListShape, CallShape, AddSteps
    <3>2. items' = [i \in Ids |->
             IF i = twin[c] /\ i \in Listed /\ Replaces(call[c], before[c])
             THEN [items[i] EXCEPT !.amounts = call[c].amount, !.amount = None]
             ELSE items[i]]
      BY <2>1 DEF Decide
    <3>3. Replaces(call[c], before[c]) => call[c].amount \in Amounts
      BY <3>1 DEF Replaces, Call
    <3>4. \A i \in Listed, a \in Amounts :
            /\ [items[i] EXCEPT !.amounts = a, !.amount = None] \in Item
            /\ [items[i] EXCEPT !.amounts = a, !.amount = None].name = items[i].name
      BY <1>2 DEF Item
    <3> QED
      BY <3>2, <3>3, <3>4 DEF ListShape, ListTypeOK, Listed
  <2>2. CASE Apply(c)
    <3>1. call[c] \in Call /\ call[c].verb # "add"
      BY <2>2 DEF Apply, ListShape, CallShape, UseSteps
    <3>2. items' = [i \in Ids |-> IF i \in Named(call[c].name)
                                THEN Applied(call[c].verb, items[i]) ELSE items[i]]
      BY <2>2 DEF Apply
    <3>3. \A i \in Listed :
            \/ Applied(call[c].verb, items[i]) = None
            \/ /\ Applied(call[c].verb, items[i]) \in Item
               /\ Applied(call[c].verb, items[i]).name = items[i].name
      <4>1. call[c].verb = "remove" \/ call[c].verb \in {"check", "claim", "unclaim"}
        BY <3>1 DEF Call, Verbs
      <4>2. CASE call[c].verb = "remove"
        BY <4>2 DEF Applied
      <4>3. \A row \in Item : \A verb \in {"check", "claim", "unclaim"} :
               Applied(verb, row) \in Item /\ Applied(verb, row).name = row.name
        BY AppliedRow
      <4> QED
        BY <1>2, <4>1, <4>2, <4>3
    <3> QED
      BY <3>2, <3>3 DEF ListShape, ListTypeOK, Listed, Named
  <2> QED
    BY <2>1, <2>2
<1>4. ListTypeOK'
  BY <1>1, <1>3 DEF Idle, ListShape, ListTypeOK, Steps
<1>5. CallShape(c)'
  BY <1>1 DEF Idle, ListShape, ListTypeOK, CallShape, AddSteps, UseSteps
<1>6. IndexOK' /\ given <= given'
  BY <1>1, <1>3, IndexKept, ShoppingListAssumption DEF ListShape, ListTypeOK
<1> QED
  BY <1>4, <1>5, <1>6, ShapeKept, StepsAreOnesOwn DEF ListStep, ListShape

LEMMA ListShapeStep ==
  ASSUME ListShape, [ListNext]_lvars
  PROVE  ListShape'
<1>1. CASE UNCHANGED lvars
  BY <1>1 DEF lvars, store, memory, ListShape, ListTypeOK, IndexOK, CallShape, Listed
<1>2. ASSUME NEW c \in Handlers, ListStep(c) PROVE ListShape'
  BY <1>2, AddShape, LookShape, InsertShape, FoldShape, DropShape, RenameShape, ReadShape,
     WriteShape DEF ListStep
<1> QED
  BY <1>1, <1>2 DEF ListNext, ListStep

-----------------------------------------------------------------------------
(***************************************************************************)
(* What a step does to the rows of an item.                                *)
(***************************************************************************)

\* A name's rows are rows of its item.
LEMMA NamedAreAlike ==
  ASSUME NEW s
  PROVE  Named(s) \subseteq Alike(s) /\ Alike(s) \subseteq Listed /\ Listed \subseteq Ids
BY DEF Named, Alike, Listed

\* Rows come only under new ids.
Numbered == \A i \in Listed' : i \in Listed \/ i > given

\* Names and listing stay; so the rows of every item do.
SameNames == Listed' = Listed /\ \A i \in Listed : items'[i].name = items[i].name

LEMMA SameNamesSameRows ==
  ASSUME SameNames
  PROVE  \A s : Alike(s)' = Alike(s) /\ Named(s)' = Named(s)
<1> SUFFICES ASSUME NEW s PROVE Alike(s)' = Alike(s) /\ Named(s)' = Named(s)
  OBVIOUS
<1> QED
  BY DEF SameNames, Alike, Named

\* Nothing a call relies on in the item of s changes.
Quiet(s) ==
  /\ Alike(s)' = Alike(s) /\ Named(s)' = Named(s)
  /\ \A i \in Alike(s) : items'[i].claimed = items[i].claimed

LEMMA QuietProgress ==
  ASSUME ListShape, NEW a \in Handlers, Adding(a), Progress(a), Untouched(a), Numbered,
         NEW n, n = call[a].name, Quiet(n)
  PROVE  Progress(a)'
<1>1. n = call'[a].name
  BY DEF Untouched
<1>2. \A o \in others[a] \cap Listed' : o \in Listed
  BY ShoppingListAssumption DEF ListShape, ListTypeOK, CallShape, Numbered
<1>3. Unnamed(a)'
  BY <1>1 DEF Progress, Unnamed, Untouched, Quiet
<1>4. Folding(a)'
  BY <1>1, <1>2 DEF Progress, Folding, Untouched, Quiet
<1>5. ClaimCarried(a)'
  <2> SUFFICES ASSUME doing[a] = "drop", NEW o \in others[a] \cap Listed',
                      NextOther(a, o)', items'[o].claimed
               PROVE  items'[twin[a]].claimed
    BY DEF ClaimCarried, Untouched
  <2>1. NextOther(a, o)
    BY DEF NextOther, Untouched
  <2>2. o \in Alike(n) /\ twin[a] \in Alike(n)
    BY <1>2 DEF Progress, Folding
  <2> QED
    BY <1>2, <2>1, <2>2 DEF Progress, ClaimCarried, Quiet
<1>6. Folded(a)' /\ Found(a)'
  BY <1>1 DEF Progress, Folded, Found, Untouched, Quiet
<1> QED
  BY <1>3, <1>4, <1>5, <1>6 DEF Progress

\* The five ways a call in hand can treat the rows.
Inserts(c) ==
  LET n == call[c].name IN
  /\ Named(n) = {}
  /\ Listed' = Listed \cup {given + 1} /\ given + 1 \notin Listed
  /\ items'[given + 1].name = n
  /\ \A i \in Listed : items'[i] = items[i]
Drops(c) ==
  \E o \in others[c] :
    /\ NextOther(c, o)
    /\ Listed' = Listed \ {o} /\ \A i \in Listed \ {o} : items'[i] = items[i]
Renames(c) ==
  /\ twin[c] \in Listed /\ Listed' = Listed
  /\ items'[twin[c]].name = call[c].name
  /\ items'[twin[c]].claimed = items[twin[c]].claimed
  /\ \A i \in Listed \ {twin[c]} : items'[i] = items[i]
Removes(c) ==
  /\ doing[c] = "apply" /\ call[c].verb = "remove"
  /\ Listed' = Listed \ Named(call[c].name)
  /\ \A i \in Listed' : items'[i] = items[i]

\* In place, a row's claim may be carried over, or stated, or withdrawn.
InPlace(c) ==
  /\ SameNames
  /\ \A i \in Listed : items'[i].claimed # items[i].claimed =>
       \/ /\ doing[c] = "fold" /\ i = twin[c]
          /\ items'[i].claimed
       \/ /\ doing[c] = "apply" /\ i \in Named(call[c].name)
          /\ call[c].verb = "unclaim" \/ items'[i].claimed

LEMMA InsertEffect ==
  ASSUME ListShape, NEW c \in Handlers, InsertNew(c)
  PROVE  Inserts(c) \/ (UNCHANGED items /\ InPlace(c))
<1>1. CASE Named(call[c].name) # {}
  BY <1>1 DEF InsertNew, store, InPlace, SameNames, Listed
<1>2. CASE Named(call[c].name) = {}
  <2>1. PICK row :
          /\ given < MaxItems
          /\ items' = [items EXCEPT ![given + 1] = row]
          /\ row = [name |-> call[c].name,
                    amount |-> IF call[c].several THEN None ELSE call[c].amount,
                    amounts |-> IF call[c].amount = None THEN Empty ELSE call[c].amount,
                    claimed |-> FALSE, checked |-> FALSE]
    BY <1>2 DEF InsertNew
  <2>2. row \in Item /\ row.name = call[c].name
    BY <2>1 DEF Item, Call, InsertNew, ListShape, CallShape, AddSteps
  <2>3. given + 1 \in Ids /\ given \in Nat
    BY <2>1, ShoppingListAssumption DEF ListShape, ListTypeOK, Ids
  <2>4. row # None
    BY <2>2, AskedAssumption
  <2>5. given + 1 \notin Listed
    BY <2>3 DEF ListShape, IndexOK
  <2> QED
    BY <1>2, <2>1, <2>2, <2>3, <2>4, <2>5 DEF Inserts, Listed, ListShape, ListTypeOK
<1> QED
  BY <1>1, <1>2

LEMMA FoldEffect ==
  ASSUME ListShape, NEW c \in Handlers, Fold(c)
  PROVE  InPlace(c)
<1>1. CASE UNCHANGED items
  BY <1>1 DEF InPlace, SameNames, Listed
<1>2. CASE ~UNCHANGED items
  <2>1. PICK o \in others[c] :
          /\ {o, twin[c]} \subseteq Listed
          /\ items' = [items EXCEPT ![twin[c]] = Carried(items[twin[c]], items[o])]
    BY <1>2 DEF Fold
  <2>2. items[o] \in Item /\ items[twin[c]] \in Item
    BY <2>1 DEF ListShape, ListTypeOK, Listed
  <2> DEFINE row == Carried(items[twin[c]], items[o])
  <2>3. /\ row \in Item /\ row.name = items[twin[c]].name
        /\ row.claimed = (items[twin[c]].claimed \/ items[o].claimed)
    BY <2>2, CarriedRow
  <2>4. row # None
    BY <2>3, AskedAssumption
  <2> HIDE DEF row
  <2>5. /\ twin[c] \in Listed /\ items'[twin[c]] = row
        /\ \A i \in Ids \ {twin[c]} : items'[i] = items[i]
    BY <2>1 DEF row, Listed, ListShape, ListTypeOK
  <2>6. SameNames /\ \A i \in Listed \ {twin[c]} : items'[i] = items[i]
    BY <2>3, <2>4, <2>5 DEF SameNames, Listed
  <2>7. items[twin[c]].claimed \in BOOLEAN /\ items[o].claimed \in BOOLEAN
    BY <2>2 DEF Item
  <2>8. row.claimed # items[twin[c]].claimed => row.claimed
    BY <2>3, <2>7
  <2>9. \A i \in Listed : items'[i].claimed # items[i].claimed =>
          i = twin[c] /\ items'[i].claimed
    BY <2>5, <2>6, <2>8
  <2> QED
    BY <2>6, <2>9 DEF Fold, InPlace
<1> QED
  BY <1>1, <1>2

LEMMA DropEffect ==
  ASSUME ListShape, NEW c \in Handlers, Drop(c)
  PROVE  Drops(c)
<1>1. PICK o \in others[c] : NextOther(c, o) /\ items' = [items EXCEPT ![o] = None]
  BY DEF Drop
<1>2. o \in Ids
  BY DEF ListShape, ListTypeOK
<1> QED
  BY <1>1, <1>2 DEF Drops, Listed, ListShape, ListTypeOK

LEMMA RenameEffect ==
  ASSUME ListShape, NEW c \in Handlers, Rename(c)
  PROVE  Renames(c) \/ (UNCHANGED items /\ InPlace(c))
<1>1. CASE UNCHANGED items
  BY <1>1 DEF InPlace, SameNames, Listed
<1>2. CASE ~UNCHANGED items
  <2>1. items' = [i \in Ids |-> IF i = twin[c] /\ i \in Listed
                               THEN [items[i] EXCEPT !.name = call[c].name]
                               ELSE items[i]]
    BY <1>2 DEF Rename
  <2>2. twin[c] \in Listed
    BY <1>2, <2>1 DEF ListShape, ListTypeOK
  <2>3. items[twin[c]] \in Item /\ call[c].name \in Spellings /\ twin[c] \in Ids
    BY <2>2 DEF Rename, ListShape, ListTypeOK, Listed, CallShape, AddSteps, Call
  <2> DEFINE row == [items[twin[c]] EXCEPT !.name = call[c].name]
  <2>4. /\ row \in Item /\ row.name = call[c].name
        /\ row.claimed = items[twin[c]].claimed
    BY <2>3 DEF Item
  <2>5. row # None
    BY <2>4, AskedAssumption
  <2>6. items'[twin[c]] = row /\ \A i \in Ids \ {twin[c]} : items'[i] = items[i]
    BY <2>1, <2>2, <2>3
  <2> HIDE DEF row
  <2> QED
    BY <2>2, <2>4, <2>5, <2>6 DEF Renames, Listed
<1> QED
  BY <1>1, <1>2

LEMMA DecideEffect ==
  ASSUME ListShape, NEW c \in Handlers, Decide(c)
  PROVE  InPlace(c)
<1>1. items' = [i \in Ids |->
         IF i = twin[c] /\ i \in Listed /\ Replaces(call[c], before[c])
         THEN [items[i] EXCEPT !.amounts = call[c].amount, !.amount = None]
         ELSE items[i]]
  BY DEF Decide
<1>2. Replaces(call[c], before[c]) => call[c].amount \in Amounts
  BY DEF Replaces, Call, Decide, ListShape, CallShape, AddSteps
<1>3. \A i \in Listed : items[i] \in Item
  BY DEF Listed, ListShape, ListTypeOK
<1>4. \A i \in Listed : /\ i \in Ids /\ items'[i] # None
                        /\ items'[i].name = items[i].name
                        /\ items'[i].claimed = items[i].claimed
  <2> SUFFICES ASSUME NEW i \in Listed
               PROVE  /\ i \in Ids /\ items'[i] # None
                      /\ items'[i].name = items[i].name
                      /\ items'[i].claimed = items[i].claimed
    OBVIOUS
  <2>1. i \in Ids /\ items[i] # None
    BY DEF Listed
  <2>2. CASE i = twin[c] /\ Replaces(call[c], before[c])
    <3> DEFINE row == [items[i] EXCEPT !.amounts = call[c].amount, !.amount = None]
    <3>1. items'[i] = row
      BY <1>1, <2>1, <2>2
    <3>2. items[i] \in Item /\ call[c].amount \in Amounts
      BY <1>2, <1>3, <2>2
    <3>3. row \in Item /\ row.name = items[i].name /\ row.claimed = items[i].claimed
      BY <3>2 DEF Item
    <3> HIDE DEF row
    <3> QED
      BY <2>1, <3>1, <3>3, AskedAssumption
  <2>3. CASE ~(i = twin[c] /\ Replaces(call[c], before[c]))
    BY <1>1, <2>1, <2>3
  <2> QED
    BY <2>1, <2>2, <2>3
<1>5. \A i \in Ids \ Listed : items'[i] = None
  BY <1>1 DEF Listed
<1>6. SameNames
  BY <1>4, <1>5 DEF SameNames, Listed
<1> QED
  BY <1>4, <1>6 DEF InPlace

LEMMA ApplyEffect ==
  ASSUME ListShape, NEW c \in Handlers, Apply(c)
  PROVE  Removes(c) \/ InPlace(c)
<1>1. /\ doing[c] = "apply" /\ call[c] \in Call
      /\ items' = [i \in Ids |-> IF i \in Named(call[c].name)
                               THEN Applied(call[c].verb, items[i]) ELSE items[i]]
  BY DEF Apply, ListShape, CallShape, UseSteps
<1>2. call[c].verb = "remove" \/ call[c].verb \in {"check", "claim", "unclaim"}
  BY DEF Call, Verbs, Apply, ListShape, CallShape, UseSteps
<1>3. CASE call[c].verb = "remove"
  <2>1. \A i \in Ids : items'[i] = IF i \in Named(call[c].name) THEN None ELSE items[i]
    BY <1>1, <1>3 DEF Applied
  <2> QED
    BY <1>1, <1>3, <2>1 DEF Removes, Listed
<1>4. CASE call[c].verb \in {"check", "claim", "unclaim"}
  <2>1. \A i \in Listed : i \in Ids /\ items[i] \in Item
    BY DEF Listed, ListShape, ListTypeOK
  <2>2. ASSUME NEW i \in Named(call[c].name)
        PROVE  /\ i \in Listed /\ items'[i] \in Item
               /\ items'[i].name = items[i].name
               /\ call[c].verb = "unclaim" \/ (items[i].claimed => items'[i].claimed)
               /\ items'[i].claimed \in BOOLEAN /\ items[i].claimed \in BOOLEAN
    <3>1. i \in Listed
      BY DEF Named
    <3>2. items'[i] = Applied(call[c].verb, items[i]) /\ items[i] \in Item
      BY <1>1, <2>1, <3>1
    <3>3. /\ items'[i] \in Item /\ items'[i].name = items[i].name
          /\ call[c].verb = "unclaim" \/ (items[i].claimed => items'[i].claimed)
      BY <1>4, <3>2, AppliedRow
    <3> QED
      BY <3>1, <3>2, <3>3 DEF Item
  <2>3. \A i \in Ids \ Named(call[c].name) : items'[i] = items[i]
    BY <1>1
  <2>4. SameNames
    BY <2>1, <2>2, <2>3, AskedAssumption DEF SameNames, Listed
  <2>5. \A i \in Listed : items'[i].claimed # items[i].claimed =>
          /\ i \in Named(call[c].name)
          /\ call[c].verb = "unclaim" \/ items'[i].claimed
    BY <2>1, <2>2, <2>3
  <2> QED
    BY <1>1, <2>4, <2>5 DEF InPlace
<1> QED
  BY <1>2, <1>3, <1>4

\* All together: what any call in hand may do to the rows.
LEMMA StepEffect ==
  ASSUME ListShape, NEW c \in Handlers, ListStep(c)
  PROVE  \/ InPlace(c)
         \/ doing[c] = "insert" /\ Inserts(c)
         \/ doing[c] = "drop" /\ Drops(c)
         \/ doing[c] = "rename" /\ Renames(c)
         \/ Removes(c)
<1>1. CASE UNCHANGED items
  BY <1>1 DEF InPlace, SameNames, Listed
<1>2. CASE ~UNCHANGED items
  <2>1. \/ InsertNew(c) /\ doing[c] = "insert"
        \/ Fold(c)
        \/ Drop(c) /\ doing[c] = "drop"
        \/ Rename(c) /\ doing[c] = "rename"
        \/ Decide(c) \/ Apply(c)
    BY <1>2 DEF ListStep, Add, Use, Begin, Look, InsertNew, Drop, Rename, Again, ByName,
       Resolve, store
  <2> QED
    BY <2>1, InsertEffect, FoldEffect, DropEffect, RenameEffect, DecideEffect, ApplyEffect
<1> QED
  BY <1>1, <1>2

LEMMA StepNumbered ==
  ASSUME ListShape, NEW c \in Handlers, ListStep(c)
  PROVE  Numbered
<1>1. given \in Nat
  BY ShoppingListAssumption DEF ListShape, ListTypeOK
<1> QED
  BY <1>1, StepEffect DEF Numbered, InPlace, SameNames, Inserts, Drops, Renames, Removes

\* A call in hand leaves the rows of every other item as they are.
LEMMA ElsewhereQuiet ==
  ASSUME ListInv, ~mixed, NEW c \in Handlers, ListStep(c), doing[c] # "idle",
         NEW s, KeyOf[s] # KeyOf[call[c].name]
  PROVE  Quiet(s)
<1> DEFINE n == call[c].name
<1>1. ListShape /\ (Adding(c) => Progress(c))
  BY DEF ListInv, Kept
<1>2. \A i \in Alike(n) : i \notin Alike(s)
  BY DEF Alike
<1>3. Named(n) \subseteq Alike(n) /\ Alike(s) \subseteq Listed
  BY NamedAreAlike
<1>4. CASE InPlace(c)
  <2>1. Alike(s)' = Alike(s) /\ Named(s)' = Named(s)
    BY <1>4, SameNamesSameRows DEF InPlace
  <2>2. doing[c] = "fold" => twin[c] \in Alike(n)
    BY <1>1 DEF Adding, AddSteps, Progress, Folding
  <2>3. \A i \in Alike(s) : items'[i].claimed = items[i].claimed
    BY <1>2, <1>3, <1>4, <2>2 DEF InPlace
  <2> QED
    BY <2>1, <2>3 DEF Quiet
<1>5. CASE Inserts(c)
  BY <1>3, <1>5 DEF Inserts, Quiet, Alike, Named
<1>6. CASE doing[c] = "drop" /\ Drops(c)
  <2>1. PICK o \in others[c] : /\ Listed' = Listed \ {o}
                               /\ \A i \in Listed \ {o} : items'[i] = items[i]
    BY <1>6 DEF Drops
  <2>2. o \in Listed => o \in Alike(n)
    BY <1>1, <1>6 DEF Adding, AddSteps, Progress, Folding
  <2>3. o \notin Alike(s)
    BY <1>2, <1>3, <2>2
  <2> QED
    BY <2>1, <2>3 DEF Quiet, Alike, Named
<1>7. CASE doing[c] = "rename" /\ Renames(c)
  <2>1. twin[c] \in Alike(n)
    BY <1>1, <1>7 DEF Adding, AddSteps, Progress, Folded
  <2>2. twin[c] \notin Alike(s)
    BY <1>2, <2>1
  <2> QED
    BY <1>7, <2>2 DEF Renames, Quiet, Alike, Named
<1>8. CASE Removes(c)
  <2>1. Named(n) \cap Alike(s) = {}
    BY <1>2, <1>3
  <2> QED
    BY <1>8, <2>1 DEF Removes, Quiet, Alike, Named
<1> QED
  BY <1>1, <1>4, <1>5, <1>6, <1>7, <1>8, StepEffect

\* An item stays on one row, or on a row of the name it is being added under.
LEMMA TidyKept ==
  ASSUME ListInv, ~mixed, NEW c \in Handlers, ListStep(c), doing[c] # "idle",
         NEW n, KeyOf[n] = KeyOf[call[c].name],
         Adding(c) => call[c].name = n,
         call[c].verb # "remove"
  PROVE  (~Untidy(n) => ~Untidy(n)') /\ (OneItem(n) => OneItem(n)')
<1>1. ListShape /\ (Adding(c) => Progress(c))
  BY DEF ListInv, Kept
<1>2. Named(n) \subseteq Alike(n)
  BY NamedAreAlike
<1>3. CASE InPlace(c)
  BY <1>3, SameNamesSameRows DEF InPlace, Untidy, OneItem
<1>4. CASE doing[c] = "insert" /\ Inserts(c)
  <2>1. call[c].name = n /\ Alike(n) \subseteq Named(n)
    BY <1>1, <1>4 DEF Adding, AddSteps, Progress, Unnamed
  <2>2. Alike(n) = {}
    BY <1>4, <2>1 DEF Inserts
  <2>3. \A i \in Alike(n)' : i = given + 1
    BY <1>4, <2>2 DEF Inserts, Alike
  <2> QED
    BY <2>3 DEF Untidy, OneItem
<1>5. CASE doing[c] = "drop" /\ Drops(c)
  <2>1. PICK o \in others[c] : /\ Listed' = Listed \ {o}
                               /\ \A i \in Listed \ {o} : items'[i] = items[i]
    BY <1>5 DEF Drops
  <2>2. o \notin Named(n)
    BY <1>1, <1>5 DEF Adding, AddSteps, Progress, Folding, Named
  <2>3. Alike(n)' \subseteq Alike(n) /\ Named(n)' = Named(n)
    BY <2>1, <2>2 DEF Alike, Named
  <2> QED
    BY <2>3 DEF Untidy, OneItem
<1>6. CASE doing[c] = "rename" /\ Renames(c)
  <2>1. call[c].name = n /\ Alike(n) = {twin[c]}
    BY <1>1, <1>6 DEF Adding, AddSteps, Progress, Folded
  <2>2. \A i \in Alike(n)' : i = twin[c]
    BY <1>6, <2>1 DEF Renames, Alike
  <2> QED
    BY <2>2 DEF Untidy, OneItem
<1>7. CASE Removes(c)
  BY <1>7 DEF Removes
<1> QED
  BY <1>1, <1>3, <1>4, <1>5, <1>6, <1>7, StepEffect

LEMMA AddingIsInHand ==
  ASSUME ListShape, NEW c \in Handlers, doing[c] # "idle"
  PROVE  InHand(c) /\ call[c] \in Call /\ call[c].name \in Spellings
<1>1. doing[c] \in AddSteps \cup UseSteps
  BY DEF ListShape, ListTypeOK, Steps, AddSteps, UseSteps
<1> QED
  BY <1>1, AskedAssumption DEF ListShape, CallShape, InHand, Call

\* Two calls that fold the rows of one item keep the same row.
LEMMA OneTwin ==
  ASSUME ListInv, ~mixed, NEW a \in Handlers, NEW c \in Handlers, a # c,
         Adding(a), Adding(c), SameItem(a, c),
         doing[a] \in {"fold", "drop"}, doing[c] \in {"fold", "drop", "rename"}
  PROVE  twin[a] = twin[c]
<1> DEFINE n == call[a].name
<1>1. Progress(a) /\ Progress(c) /\ Alongside(a, c)
  <2>1. InHand(c)
    BY AddingIsInHand DEF ListInv
  <2> QED
    BY <2>1 DEF ListInv, Kept
<1>2. call[c].name = n /\ ~Untidy(n)
  BY <1>1 DEF Alongside, Adding, AddSteps
<1>3. twin[a] \in Alike(n) /\ twin[c] \in Alike(n)
  BY <1>1, <1>2 DEF Progress, Folding, Folded
<1>4. CASE Named(n) = {}
  BY <1>2, <1>3, <1>4 DEF Untidy
<1>5. CASE Named(n) # {}
  <2>1. PICK i : i \in Named(n)
    BY <1>5
  <2>2. i \in Alike(n) /\ i \in Listed
    BY <2>1, NamedAreAlike
  <2>3. i \notin others[a] /\ twin[a] = i
    BY <1>1, <2>1, <2>2 DEF Progress, Folding
  <2>4. twin[c] = i
    BY <1>1, <1>2, <2>1, <2>2 DEF Progress, Folding, Folded
  <2> QED
    BY <2>3, <2>4
<1> QED
  BY <1>4, <1>5

\* What a call about the same item does takes nothing from under an add.
LEMMA BystanderProgress ==
  ASSUME ListInv, ~mixed, NEW a \in Handlers, NEW c \in Handlers, a # c,
         Adding(a), doing[c] # "idle", SameItem(a, c), ListStep(c)
  PROVE  Progress(a)'
<1>1. /\ ListShape /\ Progress(a) /\ Alongside(a, c) /\ (Adding(c) => Progress(c))
      /\ Untouched(a) /\ Numbered
  <2>1. InHand(c)
    BY AddingIsInHand DEF ListInv
  <2> QED
    BY <2>1, StepsAreOnesOwn, StepNumbered DEF ListInv, ListShape, Kept
<1>2. PICK n : n = call[a].name
  OBVIOUS
<1>3. n = call'[a].name /\ KeyOf[n] = KeyOf[call[c].name] /\ ~Untidy(n)
  BY <1>1, <1>2 DEF Untouched, SameItem, Alongside
<1>4. Adding(c) => call[c].name = n
  BY <1>1, <1>2 DEF Alongside, Adding, AddSteps
<1>5. \A o \in others[a] \cap Listed' : o \in Listed
  BY <1>1, ShoppingListAssumption DEF ListShape, ListTypeOK, CallShape, Numbered
<1>6. CASE InPlace(c)
  <2>1. Alike(n)' = Alike(n) /\ Named(n)' = Named(n)
    BY <1>6, SameNamesSameRows DEF InPlace
  <2>2. Unnamed(a)' /\ Folded(a)' /\ Found(a)'
    BY <1>1, <1>2, <1>3, <2>1 DEF Progress, Unnamed, Folded, Found, Untouched
  <2>3. Folding(a)'
    BY <1>1, <1>2, <1>3, <1>5, <2>1 DEF Progress, Folding, Untouched
  <2>4. ClaimCarried(a)'
    <3> SUFFICES ASSUME doing[a] = "drop", NEW o \in others[a] \cap Listed',
                        NextOther(a, o)', items'[o].claimed
                 PROVE  items'[twin[a]].claimed
      BY <1>1 DEF ClaimCarried, Untouched
    <3>1. NextOther(a, o)
      BY <1>1 DEF NextOther, Untouched
    <3>2. /\ o \in Alike(n) \ Named(n) /\ twin[a] \in Alike(n) /\ twin[a] # o
          /\ twin[a] \in Listed /\ o \in Listed
      BY <1>1, <1>2, <1>5, NamedAreAlike DEF Progress, Folding
    <3>3. items[o].claimed
      <4>1. CASE doing[c] = "fold"
        <5>1. twin[c] = twin[a]
          BY <1>1, <4>1, OneTwin DEF Adding, AddSteps
        <5> QED
          BY <1>6, <3>2, <4>1, <5>1 DEF InPlace
      <4>2. CASE doing[c] # "fold"
        <5>1. o \notin Named(call[c].name)
          <6>1. CASE call[c].name = n
            BY <3>2, <6>1
          <6>2. CASE call[c].name # n
            <7>1. OneItem(n)
              BY <1>1, <1>2, <6>2 DEF Alongside
            <7> QED
              BY <3>2, <7>1 DEF OneItem
          <6> QED
            BY <6>1, <6>2
        <5> QED
          BY <1>6, <3>2, <4>2, <5>1 DEF InPlace
      <4> QED
        BY <4>1, <4>2
    <3>4. items[twin[a]].claimed
      BY <1>1, <3>1, <3>2, <3>3 DEF Progress, ClaimCarried
    <3> QED
      BY <1>1, <1>6, <3>2, <3>4 DEF InPlace, Alongside
  <2> QED
    BY <2>2, <2>3, <2>4 DEF Progress
<1>7. CASE doing[c] = "insert" /\ Inserts(c)
  <2>1. call[c].name = n /\ Alike(n) = {}
    BY <1>1, <1>4, <1>7 DEF Adding, AddSteps, Progress, Unnamed, Inserts
  <2>2. doing[a] \notin {"fold", "drop", "rename", "again", "decide", "byName"}
    BY <1>1, <1>2, <1>7, <2>1 DEF Progress, Folding, Folded, Found, Inserts
  <2>3. Alike(n)' \subseteq Named(n)'
    BY <1>7, <2>1 DEF Inserts, Alike, Named
  <2> QED
    BY <1>1, <1>3, <2>2, <2>3 DEF Progress, Unnamed, Folding, ClaimCarried, Folded, Found,
       Untouched
<1>8. CASE doing[c] = "drop" /\ Drops(c)
  <2>1. PICK o \in others[c] : /\ Listed' = Listed \ {o}
                               /\ \A i \in Listed \ {o} : items'[i] = items[i]
    BY <1>8 DEF Drops
  <2>2. /\ call[c].name = n /\ twin[c] \in Alike(n) /\ twin[c] # o
        /\ o \in Listed => o \in Alike(n) \ Named(n)
    BY <1>1, <1>4, <1>8 DEF Adding, AddSteps, Progress, Folding
  <2>3. Alike(n)' = Alike(n) \ {o} /\ Named(n)' = Named(n)
    BY <2>1, <2>2 DEF Alike, Named
  <2>4. Unnamed(a)'
    BY <1>1, <1>2, <1>3, <2>3 DEF Progress, Unnamed, Untouched
  <2>5. doing[a] \in {"fold", "drop"} => twin[a] # o
    BY <1>1, <1>8, <2>2, OneTwin DEF Adding, AddSteps
  <2>6. Folding(a)'
    BY <1>1, <1>2, <1>3, <1>5, <2>1, <2>3, <2>5 DEF Progress, Folding, Untouched
  <2>7. ClaimCarried(a)'
    <3> SUFFICES ASSUME doing[a] = "drop", NEW p \in others[a] \cap Listed',
                        NextOther(a, p)', items'[p].claimed
                 PROVE  items'[twin[a]].claimed
      BY <1>1 DEF ClaimCarried, Untouched
    <3>1. NextOther(a, p)
      BY <1>1 DEF NextOther, Untouched
    <3>2. items[p].claimed /\ p \in Listed
      BY <2>1
    <3>3. items[twin[a]].claimed /\ twin[a] \in Listed
      BY <1>1, <1>2, <3>1, <3>2, NamedAreAlike DEF Progress, ClaimCarried, Folding
    <3> QED
      BY <2>1, <2>5, <3>3
  <2>8. Folded(a)' /\ Found(a)'
    BY <1>1, <1>2, <1>3, <2>2, <2>3 DEF Progress, Folded, Found, Untouched, Alike
  <2> QED
    BY <2>4, <2>6, <2>7, <2>8 DEF Progress
<1>9. CASE doing[c] = "rename" /\ Renames(c)
  <2>1. call[c].name = n /\ Alike(n) = {twin[c]}
    BY <1>1, <1>4, <1>9 DEF Adding, AddSteps, Progress, Folded
  <2>2. Alike(n)' = {twin[c]} /\ Named(n)' = {twin[c]}
    BY <1>9, <2>1 DEF Renames, Alike, Named
  <2>3. doing[a] \in {"fold", "drop"} => others[a] \cap Listed = {} /\ twin[a] = twin[c]
    BY <1>1, <1>2, <2>1 DEF Progress, Folding
  <2> QED
    BY <1>1, <1>2, <1>3, <1>5, <2>1, <2>2, <2>3
       DEF Progress, Unnamed, Folding, ClaimCarried, Folded, Found, Untouched
<1>10. CASE Removes(c)
  BY <1>1, <1>10 DEF Removes, Alongside
<1> QED
  BY <1>1, <1>6, <1>7, <1>8, <1>9, <1>10, StepEffect

-----------------------------------------------------------------------------
(***************************************************************************)
(* The call itself finds the rows where its next step expects them.        *)
(***************************************************************************)

LEMMA LookProgress ==
  ASSUME ListInv, NEW c \in Handlers, Look(c)
  PROVE  Progress(c)'
<1> DEFINE n == call[c].name
<1>1. UNCHANGED <<items, call>> /\ ListShape
  BY DEF Look, store, ListInv
<1>2. CASE Alike(n) = {}
  <2>1. doing'[c] = "insert"
    BY <1>1, <1>2 DEF Look, Onwards, ListShape, ListTypeOK
  <2>2. Alike(call[c].name)' = {}
    BY <1>1, <1>2 DEF Alike, Listed
  <2> QED
    BY <2>1, <2>2 DEF Progress, Unnamed, Folding, ClaimCarried, Folded, Found
<1>3. CASE Alike(n) # {}
  <2>1. PICK t \in IF Named(n) = {} THEN Alike(n) ELSE Named(n) :
          /\ twin' = [twin EXCEPT ![c] = t]
          /\ others' = [others EXCEPT ![c] = Alike(n) \ {t}]
          /\ doing' = [doing EXCEPT ![c] = "fold"]
    BY <1>3 DEF Look, Onwards
  <2>2. twin'[c] = t /\ others'[c] = Alike(n) \ {t} /\ doing'[c] = "fold"
    BY <1>1, <2>1 DEF ListShape, ListTypeOK
  <2>3. t \in Alike(n) /\ (Alike(n) \ {t}) \cap Named(n) = {}
    <3>1. CASE Named(n) = {}
      BY <2>1, <3>1
    <3>2. CASE Named(n) # {}
      <4>1. \A i, j \in Named(n) : i = j
        BY <1>1 DEF ListShape, IndexOK, Named
      <4> QED
        BY <2>1, <3>2, <4>1, NamedAreAlike
    <3> QED
      BY <3>1, <3>2
  <2>4. /\ Alike(call[c].name)' = Alike(n) /\ Named(call[c].name)' = Named(n)
        /\ Listed' = Listed
    BY <1>1 DEF Alike, Named, Listed
  <2> QED
    BY <2>2, <2>3, <2>4 DEF Progress, Unnamed, Folding, ClaimCarried, Folded, Found
<1> QED
  BY <1>2, <1>3

LEMMA FoldProgress ==
  ASSUME ListInv, ~mixed, NEW c \in Handlers, Fold(c)
  PROVE  Progress(c)'
<1>1. /\ doing[c] = "fold" /\ ListShape /\ Folding(c)
      /\ UNCHANGED <<call, twin, others>>
  BY DEF Fold, ListInv, Kept, Adding, AddSteps, Progress
<1>2. PICK n : n = call[c].name
  OBVIOUS
<1>3. /\ twin[c] \in Alike(n) \ others[c] /\ Alike(n) \subseteq {twin[c]} \cup others[c]
      /\ \A o \in others[c] \cap Listed : o \in Alike(n) \ Named(n)
  BY <1>1, <1>2 DEF Folding
<1>4. Alike(n)' = Alike(n) /\ Named(n)' = Named(n) /\ Listed' = Listed
  BY <1>1, FoldEffect, SameNamesSameRows DEF InPlace, SameNames
<1>5. n = call'[c].name
  BY <1>1, <1>2
<1>6. CASE others[c] = {}
  <2>1. doing'[c] \in {"rename", "again"}
    BY <1>1, <1>6 DEF Fold, Onwards, ListShape, ListTypeOK
  <2> QED
    BY <1>1, <1>3, <1>4, <1>5, <1>6, <2>1
       DEF Progress, Unnamed, Folding, ClaimCarried, Folded, Found
<1>7. CASE others[c] # {}
  <2>1. PICK o \in others[c] :
          /\ NextOther(c, o)
          /\ items' = IF {o, twin[c]} \subseteq Listed
                      THEN [items EXCEPT ![twin[c]] = Carried(@, items[o])]
                      ELSE items
          /\ doing' = [doing EXCEPT ![c] = "drop"]
    BY <1>7 DEF Fold, Onwards
  <2>2. doing'[c] = "drop"
    BY <1>1, <2>1 DEF ListShape, ListTypeOK
  <2>3. ClaimCarried(c)'
    <3> SUFFICES ASSUME NEW p \in others[c] \cap Listed', NextOther(c, p)',
                        items'[p].claimed
                 PROVE  items'[twin[c]].claimed
      BY <1>1 DEF ClaimCarried
    <3>1. NextOther(c, p)
      BY <1>1 DEF NextOther
    <3>2. p = o
      <4>1. p \in Nat /\ o \in Nat
        BY <1>1, ShoppingListAssumption DEF ListShape, CallShape
      <4> QED
        BY <2>1, <3>1, <4>1 DEF NextOther
    <3>3. o \in Listed /\ twin[c] \in Listed /\ twin[c] # o /\ twin[c] \in Ids
      BY <1>3, <1>4, <3>2, NamedAreAlike
    <3>4. items' = [items EXCEPT ![twin[c]] = Carried(items[twin[c]], items[o])]
      BY <2>1, <3>3
    <3>5. items[o] \in Item /\ items[twin[c]] \in Item
      BY <1>1, <3>3 DEF ListShape, ListTypeOK, Listed
    <3>6. Carried(items[twin[c]], items[o]).claimed
            = (items[twin[c]].claimed \/ items[o].claimed)
      BY <3>5, CarriedRow
    <3>7. items'[o] = items[o] /\ items'[twin[c]] = Carried(items[twin[c]], items[o])
      BY <1>1, <3>3, <3>4 DEF ListShape, ListTypeOK, Listed
    <3>8. items[o].claimed
      BY <3>2, <3>7
    <3> QED
      BY <3>6, <3>7, <3>8
  <2> QED
    BY <1>1, <1>3, <1>4, <1>5, <2>2, <2>3 DEF Progress, Unnamed, Folding, Folded, Found
<1> QED
  BY <1>6, <1>7

LEMMA DropProgress ==
  ASSUME ListInv, ~mixed, NEW c \in Handlers, Drop(c)
  PROVE  Progress(c)'
<1>1. doing[c] = "drop" /\ ListShape /\ Folding(c) /\ UNCHANGED <<call, twin>>
  BY DEF Drop, ListInv, Kept, Adding, AddSteps, Progress
<1>2. PICK n : n = call[c].name
  OBVIOUS
<1>3. PICK o \in others[c] : /\ items' = [items EXCEPT ![o] = None]
                             /\ others' = [others EXCEPT ![c] = @ \ {o}]
                             /\ doing' = [doing EXCEPT ![c] = "fold"]
  BY DEF Drop, Onwards
<1>4. o \in Ids
  BY <1>1 DEF ListShape, ListTypeOK
<1>5. Listed' = Listed \ {o} /\ \A i \in Listed \ {o} : items'[i] = items[i]
  BY <1>1, <1>3, <1>4 DEF Listed, ListShape, ListTypeOK
<1>6. Alike(n)' = Alike(n) \ {o} /\ Named(n)' = Named(n) \ {o}
  BY <1>5 DEF Alike, Named
<1>7. doing'[c] = "fold" /\ others'[c] = others[c] \ {o}
  BY <1>1, <1>3 DEF ListShape, ListTypeOK
<1>8. Folding(c)'
  BY <1>1, <1>2, <1>3, <1>5, <1>6, <1>7 DEF Folding
<1> QED
  BY <1>7, <1>8 DEF Progress, Unnamed, ClaimCarried, Folded, Found

LEMMA OwnProgress ==
  ASSUME ListInv, ~mixed, NEW c \in Handlers, ListStep(c), Adding(c)'
  PROVE  Progress(c)'
<1>1. ListShape /\ (Adding(c) => Progress(c))
  BY DEF ListInv, Kept
<1> USE DEF ListShape, ListTypeOK, Onwards, Idle
<1>2. PICK n : n = call[c].name
  OBVIOUS
<1>3. CASE Add(c) \/ Use(c)
  <2>1. doing'[c] \in {"look", "resolve"}
    BY <1>1, <1>3 DEF Add, Use, Begin
  <2> QED
    BY <2>1 DEF Progress, Unnamed, Folding, ClaimCarried, Folded, Found
<1>4. CASE InsertNew(c)
  <2>1. doing'[c] = "byName" /\ UNCHANGED <<items, call>> /\ Named(n) # {}
    BY <1>1, <1>2, <1>4 DEF InsertNew, Adding, AddSteps, store
  <2>2. Alike(n) = Named(n)
    <3>1. doing[c] = "insert"
      BY <1>4 DEF InsertNew
    <3>2. Alike(n) \subseteq Named(n)
      BY <1>1, <1>2, <3>1 DEF Adding, AddSteps, Progress, Unnamed
    <3>3. Named(n) \subseteq Alike(n)
      BY NamedAreAlike
    <3> QED
      BY <3>2, <3>3
  <2>3. Alike(n)' = Alike(n) /\ Named(n)' = Named(n)
    BY <2>1 DEF Alike, Named, Listed
  <2> QED
    BY <1>2, <2>1, <2>2, <2>3 DEF Progress, Unnamed, Folding, ClaimCarried, Folded, Found
<1>5. CASE Rename(c)
  <2>1. /\ doing[c] = "rename" /\ doing'[c] = "again"
        /\ UNCHANGED <<call, twin>>
    BY <1>1, <1>5 DEF Rename, Adding, AddSteps
  <2>2. Alike(n) = {twin[c]}
    BY <1>1, <1>2, <2>1 DEF Adding, AddSteps, Progress, Folded
  <2>3. Alike(n)' = Alike(n)
    <3>1. CASE Renames(c)
      BY <1>2, <2>2, <3>1 DEF Renames, Alike
    <3>2. CASE UNCHANGED items
      BY <3>2 DEF Alike, Listed
    <3> QED
      BY <1>1, <1>5, <3>1, <3>2, RenameEffect
  <2> QED
    BY <1>2, <2>1, <2>2, <2>3 DEF Progress, Unnamed, Folding, ClaimCarried, Folded, Found
<1>6. CASE Again(c)
  <2>1. Alike(n) = {twin[c]} /\ UNCHANGED <<items, call, twin>>
    BY <1>1, <1>2, <1>6 DEF Again, store, Adding, AddSteps, Progress, Folded
  <2>2. doing'[c] = "decide"
    BY <1>1, <1>6, <2>1, NamedAreAlike DEF Again
  <2>3. Alike(n)' = Alike(n)
    BY <2>1 DEF Alike, Listed
  <2> QED
    BY <1>2, <2>1, <2>2, <2>3 DEF Progress, Unnamed, Folding, ClaimCarried, Folded, Found
<1>7. CASE ByName(c)
  <2>1. Alike(n) = Named(n) /\ Named(n) # {} /\ UNCHANGED items
    BY <1>1, <1>2, <1>7 DEF ByName, store, Adding, AddSteps, Progress, Found
  <2>2. PICK i \in Named(n) : twin' = [twin EXCEPT ![c] = i] /\ UNCHANGED call
                              /\ doing' = [doing EXCEPT ![c] = "decide"]
    BY <1>2, <1>7, <2>1 DEF ByName
  <2>3. \A j \in Named(n) : j = i
    BY <1>1, <2>2 DEF IndexOK, Named
  <2>4. Alike(n)' = Alike(n) /\ twin'[c] = i /\ doing'[c] = "decide"
    BY <1>1, <2>1, <2>2 DEF Alike, Listed
  <2> QED
    BY <1>2, <2>1, <2>2, <2>3, <2>4 DEF Progress, Unnamed, Folding, ClaimCarried, Folded, Found
<1>8. CASE Decide(c) \/ Apply(c) \/ Resolve(c)
  <2>1. doing'[c] \in {"idle", "apply"}
    BY <1>1, <1>8 DEF Decide, Apply, Resolve
  <2> QED
    BY <2>1 DEF Adding, AddSteps
<1> QED
  BY <1>3, <1>4, <1>5, <1>6, <1>7, <1>8, LookProgress, FoldProgress, DropProgress DEF ListStep

-----------------------------------------------------------------------------
(***************************************************************************)
(* The calls about one item stay the calls they may be.                    *)
(***************************************************************************)

\* A call that begins clashes with none in hand.
LEMMA BeginAlongside ==
  ASSUME ListInv, NEW c \in Handlers, NEW asked \in Call, NEW step \in {"look", "resolve"},
         step = "look" => asked.verb = "add", Begin(c, asked, step), ~mixed',
         NEW a \in Handlers, NEW d \in Handlers \ {a}, c \in {a, d},
         Adding(a)', InHand(d)', SameItem(a, d)'
  PROVE  Alongside(a, d)'
<1>1. /\ UNCHANGED items /\ ListShape
      /\ call'[c] = asked /\ doing'[c] = step
      /\ \A e \in Handlers \ {c} : call'[e] = call[e] /\ doing'[e] = doing[e]
  BY DEF Begin, Onwards, store, ListInv, ListShape, ListTypeOK
<1>2. PICK e \in {a, d} : e # c
  OBVIOUS
<1>3. InHand(e)
  <2>1. CASE e = d
    BY <1>1, <1>2, <2>1 DEF InHand
  <2>2. CASE e = a
    <3>1. doing[e] # "idle"
      BY <1>1, <1>2, <2>2 DEF Adding, AddSteps
    <3> QED
      BY <1>1, <2>2, <3>1, AddingIsInHand
  <2> QED
    BY <1>2, <2>1, <2>2
<1>4. ~Clash(asked, call[e])
  BY <1>2, <1>3 DEF Begin, InHand
<1>5. KeyOf[asked.name] = KeyOf[call[e].name]
  <2>1. KeyOf[call'[a].name] = KeyOf[call'[d].name]
    BY DEF SameItem
  <2> QED
    BY <1>1, <1>2, <2>1
<1>6. /\ asked.name = call[e].name /\ ~Untidy(asked.name)
      /\ asked.verb \notin {"remove", "unclaim"} /\ call[e].verb \notin {"remove", "unclaim"}
  <2>1. "add" \in {asked.verb, call[e].verb}
    <3>1. CASE a = e
      BY <1>1, <1>2, <3>1 DEF ListShape, CallShape, Adding
    <3>2. CASE a = c
      BY <1>1, <3>2 DEF Adding, AddSteps
    <3> QED
      BY <1>2, <3>1, <3>2
  <2> QED
    BY <1>4, <1>5, <2>1 DEF Clash
<1>7. Untidy(asked.name)' = Untidy(asked.name)
  BY <1>1 DEF Untidy, Named, Alike, Listed
<1>8. PICK n : n = asked.name
  OBVIOUS
<1>9. call'[a].name = n /\ call'[d].name = n /\ ~Untidy(n)'
  BY <1>1, <1>2, <1>6, <1>7, <1>8
<1>10. call'[d].verb \notin {"remove", "unclaim"}
  BY <1>1, <1>2, <1>6
<1> QED
  BY <1>9, <1>10 DEF Alongside

\* A call in hand keeps its request; a use may be resolved to the name of a row.
Resolved(c) ==
  /\ doing[c] = "resolve" /\ doing'[c] = "apply"
  /\ call'[c].verb = call[c].verb /\ KeyOf[call'[c].name] = KeyOf[call[c].name]
  /\ call'[c].name = call[c].name \/ Named(call[c].name) = {}

LEMMA CallMoves ==
  ASSUME ListShape, NEW c \in Handlers, ListStep(c), doing[c] # "idle", InHand(c)'
  PROVE  \/ /\ call'[c] = call[c] /\ doing[c] # "apply"
            /\ Adding(c)' => Adding(c)
         \/ Resolved(c) /\ ~Adding(c)'
<1> USE DEF ListShape, ListTypeOK, Onwards, Idle, InHand, Adding, AddSteps
<1>1. CASE Resolve(c)
  <2> DEFINE n == call[c].name
             found == IF Named(n) # {} THEN Named(n) ELSE Alike(n)
             names == IF found = {} THEN {n} ELSE {items[i].name : i \in found}
  <2>1. PICK name \in names : call' = [call EXCEPT ![c].name = name]
    BY <1>1 DEF Resolve
  <2>2. doing[c] = "resolve" /\ doing'[c] = "apply" /\ call[c] \in Call
    BY <1>1 DEF Resolve, CallShape, UseSteps
  <2>3. call'[c].name = name /\ call'[c].verb = call[c].verb
    BY <2>1, <2>2 DEF Call
  <2>4. KeyOf[name] = KeyOf[n] /\ (name = n \/ Named(n) = {})
    BY <2>1 DEF Named, Alike
  <2> QED
    BY <2>2, <2>3, <2>4 DEF Resolved
<1>2. CASE Add(c) \/ Use(c)
  BY <1>2 DEF Add, Use, Begin
<1>3. CASE Apply(c) \/ Decide(c)
  BY <1>3 DEF Apply, Decide
<1>4. CASE Look(c) \/ InsertNew(c) \/ Fold(c) \/ Drop(c)
  BY <1>4 DEF Look, InsertNew, Fold, Drop
<1>5. CASE Rename(c) \/ Again(c) \/ ByName(c)
  BY <1>5 DEF Rename, Again, ByName
<1> QED
  BY <1>1, <1>2, <1>3, <1>4, <1>5 DEF ListStep

LEMMA StepAlongside ==
  ASSUME ListInv, ~mixed, NEW c \in Handlers, ListStep(c), doing[c] # "idle",
         NEW a \in Handlers, NEW d \in Handlers \ {a},
         Adding(a)', InHand(d)', SameItem(a, d)'
  PROVE  Alongside(a, d)'
<1>1. /\ ListShape /\ InHand(c)
      /\ \A e \in Handlers \ {c} : Untouched(e)
  BY AddingIsInHand, StepsAreOnesOwn DEF ListInv, ListShape
<1>2. \A e \in Handlers : \A f \in Handlers \ {e} :
            Adding(e) /\ InHand(f) /\ SameItem(e, f) => Alongside(e, f)
  BY DEF ListInv, Kept
<1>3. Adding(a) /\ call'[a] = call[a]
  <2>1. CASE a = c
    <3>1. InHand(c)'
      BY <2>1, ListShapeStep, AskedAssumption
         DEF ListNext, ListStep, InHand, Adding, ListShape, CallShape, ListInv
    <3> QED
      BY <1>1, <2>1, <3>1, CallMoves
  <2>2. CASE a # c
    BY <1>1, <2>2 DEF Untouched, Adding
  <2> QED
    BY <2>1, <2>2
<1>4. PICK n : n = call[a].name
  OBVIOUS
<1>5. /\ InHand(d)
      /\ \/ /\ call'[d] = call[d]
            /\ doing[d] = "apply" => doing'[d] = "apply"
         \/ d = c /\ Resolved(c)
  <2>1. CASE d = c
    BY <1>1, <2>1, CallMoves
  <2>2. CASE d # c
    BY <1>1, <2>2 DEF Untouched, InHand
  <2> QED
    BY <2>1, <2>2
<1>6. Alongside(a, d)
  <2>1. KeyOf[call[a].name] = KeyOf[call'[d].name]
    BY <1>3 DEF SameItem
  <2>2. SameItem(a, d)
    BY <1>5, <2>1 DEF SameItem, Resolved
  <2> QED
    BY <1>2, <1>3, <1>5, <2>2
<1>7. ~Untidy(n)' /\ (OneItem(n) => OneItem(n)')
  <2>1. ~Untidy(n)
    BY <1>4, <1>6 DEF Alongside
  <2>2. CASE KeyOf[n] # KeyOf[call[c].name]
    <3>1. Quiet(n)
      BY <2>2, ElsewhereQuiet
    <3> QED
      BY <2>1, <3>1 DEF Quiet, Untidy, OneItem
  <2>3. CASE KeyOf[n] = KeyOf[call[c].name]
    <3>1. (Adding(c) => call[c].name = n) /\ call[c].verb # "remove"
      <4>1. CASE a = c
        BY <1>1, <1>3, <1>4, <4>1 DEF ListShape, CallShape, Adding
      <4>2. CASE a # c
        <5>1. Alongside(a, c)
          BY <1>1, <1>2, <1>3, <1>4, <2>3, <4>2 DEF SameItem
        <5> QED
          BY <1>4, <5>1 DEF Alongside, Adding, AddSteps
      <4> QED
        BY <4>1, <4>2
    <3> QED
      BY <2>1, <2>3, <3>1, TidyKept
  <2> QED
    BY <2>2, <2>3
<1>8. call'[d].verb \notin {"remove", "unclaim"}
  BY <1>5, <1>6 DEF Alongside, Resolved
<1>9. call'[d].name = n \/ (doing'[d] = "apply" /\ OneItem(n)')
  <2>1. CASE call'[d] = call[d] /\ (doing[d] = "apply" => doing'[d] = "apply")
    BY <1>4, <1>6, <1>7, <2>1 DEF Alongside
  <2>2. CASE d = c /\ Resolved(c)
    <3>1. call[d].name = n
      BY <1>4, <1>6, <2>2 DEF Alongside, Resolved
    <3>2. CASE Named(n) = {}
      <4>1. OneItem(n)
        BY <1>4, <1>6, <3>2 DEF Alongside, Untidy, OneItem
      <4> QED
        BY <1>7, <2>2, <4>1 DEF Resolved
    <3>3. CASE call'[c].name = call[c].name
      BY <2>2, <3>1, <3>3
    <3> QED
      BY <2>2, <3>1, <3>2, <3>3 DEF Resolved
  <2> QED
    BY <1>5, <2>1, <2>2
<1>10. n = call'[a].name
  BY <1>3, <1>4
<1> QED
  BY <1>7, <1>8, <1>9, <1>10 DEF Alongside

-----------------------------------------------------------------------------
(***************************************************************************)
(* The invariant, and what it is for.                                      *)
(***************************************************************************)

LEMMA ListInvInit == ListInit => ListInv
<1> SUFFICES ASSUME ListInit PROVE ListInv
  OBVIOUS
<1>1. \A c \in Handlers : ~Adding(c)
  BY DEF ListInit, Adding, AddSteps
<1> QED
  BY <1>1, ListShapeInit DEF ListInv, Kept

LEMMA StepProgress ==
  ASSUME ListInv, ~mixed, NEW c \in Handlers, ListStep(c), NEW a \in Handlers, Adding(a)'
  PROVE  Progress(a)'
<1>1. CASE a = c
  BY <1>1, OwnProgress
<1>2. CASE a # c
  <2>1. /\ ListShape /\ Untouched(a) /\ Numbered /\ Adding(a) /\ Progress(a)
    BY <1>2, StepsAreOnesOwn, StepNumbered
       DEF ListInv, ListShape, Kept, Untouched, Adding
  <2>2. PICK n : n = call[a].name
    OBVIOUS
  <2>3. CASE doing[c] = "idle"
    <3>1. UNCHANGED items
      BY <2>3 DEF ListStep, Add, Use, Begin, store, Look, InsertNew, Fold, Drop, Rename, Again,
         ByName, Decide, Resolve, Apply
    <3>2. Quiet(n)
      BY <3>1 DEF Quiet, Alike, Named, Listed
    <3> QED
      BY <2>1, <2>2, <3>2, QuietProgress
  <2>4. CASE doing[c] # "idle" /\ SameItem(a, c)
    BY <1>2, <2>1, <2>4, BystanderProgress
  <2>5. CASE doing[c] # "idle" /\ ~SameItem(a, c)
    <3>1. Quiet(n)
      BY <2>2, <2>5, ElsewhereQuiet DEF SameItem
    <3> QED
      BY <2>1, <2>2, <3>1, QuietProgress
  <2> QED
    BY <2>3, <2>4, <2>5
<1> QED
  BY <1>1, <1>2

LEMMA ListInvStep ==
  ASSUME ListInv, [ListNext]_lvars
  PROVE  ListInv'
<1>1. ListShape'
  BY ListShapeStep DEF ListInv
<1>2. CASE UNCHANGED lvars
  BY <1>1, <1>2 DEF lvars, store, memory, ListInv, Kept, Adding, Progress, Unnamed, Folding,
     ClaimCarried, Folded, Found, NextOther, InHand, SameItem, Alongside, Untidy, OneItem, Alike,
     Named, Listed
<1>3. ASSUME NEW c \in Handlers, ListStep(c) PROVE Kept'
  <2> SUFFICES ASSUME ~mixed', NEW a \in Handlers, Adding(a)'
               PROVE  /\ Progress(a)'
                      /\ \A d \in Handlers \ {a} :
                           InHand(d)' /\ SameItem(a, d)' => Alongside(a, d)'
    BY DEF Kept
  <2>1. ~mixed
    <3>1. mixed' = mixed \/ \E asked, step : Begin(c, asked, step)
      BY <1>3 DEF ListStep, Add, Use, Look, InsertNew, Fold, Drop, Rename, Again, ByName,
         Decide, Resolve, Apply
    <3> QED
      BY <3>1 DEF Begin
  <2>2. Progress(a)'
    BY <1>3, <2>1, StepProgress
  <2>3. ASSUME NEW d \in Handlers \ {a}, InHand(d)', SameItem(a, d)'
        PROVE  Alongside(a, d)'
    <3>1. CASE doing[c] # "idle"
      BY <1>3, <2>1, <2>3, <3>1, StepAlongside
    <3>2. CASE doing[c] = "idle"
      <4>1. PICK asked \in Call, step \in {"look", "resolve"} :
              Begin(c, asked, step) /\ (step = "look" => asked.verb = "add")
        <5>1. CASE Add(c)
          BY <5>1, AskedAssumption DEF Add
        <5>2. CASE Use(c)
          <6>1. PICK s \in Spellings, verb \in Verbs \ {"add"} :
                  Begin(c, [verb |-> verb, name |-> s, amount |-> None, relative |-> FALSE,
                            several |-> FALSE], "resolve")
            BY <5>2 DEF Use
          <6>2. [verb |-> verb, name |-> s, amount |-> None, relative |-> FALSE,
                 several |-> FALSE] \in Call
            BY DEF Call
          <6> QED
            BY <6>1, <6>2
        <5> QED
          BY <1>3, <3>2, <5>1, <5>2 DEF ListStep, Look, InsertNew, Fold, Drop, Rename, Again,
             ByName, Decide, Resolve, Apply
      <4>2. CASE c \in {a, d}
        BY <2>3, <4>1, <4>2, BeginAlongside
      <4>3. CASE c \notin {a, d}
        <5>1. /\ call'[a] = call[a] /\ call'[d] = call[d] /\ UNCHANGED items
              /\ doing'[a] = doing[a] /\ doing'[d] = doing[d]
          BY <4>1, <4>3 DEF Begin, Onwards, store, ListInv, ListShape, ListTypeOK
        <5>2. Alongside(a, d)
          <6>1. SameItem(a, d)
            <7>1. KeyOf[call'[a].name] = KeyOf[call'[d].name]
              BY <2>3 DEF SameItem
            <7> QED
              BY <5>1, <7>1 DEF SameItem
          <6> QED
            BY <2>1, <2>3, <5>1, <6>1 DEF ListInv, Kept, Adding, InHand
        <5>3. PICK n : n = call[a].name
          OBVIOUS
        <5>4. Untidy(n)' = Untidy(n) /\ OneItem(n)' = OneItem(n)
          BY <5>1 DEF Untidy, OneItem, Named, Alike, Listed
        <5>5. n = call'[a].name
          BY <5>1, <5>3
        <5> QED
          BY <5>1, <5>2, <5>3, <5>4, <5>5 DEF Alongside
      <4> QED
        BY <4>2, <4>3
    <3> QED
      BY <3>1, <3>2
  <2> QED
    BY <2>2, <2>3
<1> QED
  BY <1>1, <1>2, <1>3 DEF ListNext, ListStep, ListInv

LEMMA ListInvHolds == ListSpec => []ListInv
BY ListInvInit, ListInvStep, PTL DEF ListSpec

\* The rows stay rows, and each call's memory what its step goes by, whatever
\* calls overlap and whatever an earlier version left on the list.
THEOREM ListTyping == ListSpec => []ListTypeOK
<1>1. ListInv => ListTypeOK
  BY DEF ListInv, ListShape
<1> QED
  BY <1>1, ListInvHolds, PTL

\* Unless an add has clashed, the item is on one row when list_add decides on its
\* amount: what it looked up, folded and renamed is still the item's only row.
THEOREM OneRow == ListSpec => []OneRowOnceAdded
<1>1. ListInv => OneRowOnceAdded
  <2> SUFFICES ASSUME ListInv, NEW c \in Handlers, doing[c] = "decide", ~mixed
               PROVE  Cardinality(Alike(call[c].name)) = 1
    BY DEF OneRowOnceAdded
  <2>1. Alike(call[c].name) = {twin[c]}
    BY DEF ListInv, Kept, Adding, AddSteps, Progress, Folded
  <2> QED
    BY <2>1, FS_Singleton
<1> QED
  BY <1>1, ListInvHolds, PTL

\* Unless an add has clashed, a row goes only by a removal, or when a row of the
\* same item has taken its claim over; and a claim goes only by an unclaim.
THEOREM NothingLost == ListSpec => NothingIsLost
<1> DEFINE Survives(i) ==
       \/ mixed
       \/ \E j \in Listed' : /\ KeyOf[items'[j].name] = KeyOf[items[i].name]
                            /\ items[i].claimed => items'[j].claimed
       \/ \E c \in Handlers : /\ doing[c] = "apply"
                             /\ call[c].verb \in {"remove", "unclaim"}
<1>1. ASSUME ListInv, [ListNext]_lvars PROVE [\A i \in Listed : Survives(i)]_lvars
  <2> SUFFICES ASSUME NEW c \in Handlers, ListStep(c), ~mixed, NEW i \in Listed,
                      ~(doing[c] = "apply" /\ call[c].verb \in {"remove", "unclaim"})
               PROVE  \E j \in Listed' : /\ KeyOf[items'[j].name] = KeyOf[items[i].name]
                                        /\ items[i].claimed => items'[j].claimed
    BY <1>1 DEF ListNext, ListStep
  <2>1. ListShape /\ (Adding(c) => Progress(c))
    BY <1>1 DEF ListInv, Kept
  <2>2. CASE InPlace(c)
    <3>1. i \in Listed' /\ items'[i].name = items[i].name
      BY <2>2 DEF InPlace, SameNames
    <3>2. items[i].claimed => items'[i].claimed
      BY <2>2 DEF InPlace
    <3> QED
      BY <3>1, <3>2
  <2>3. CASE Inserts(c)
    BY <2>3 DEF Inserts
  <2>4. CASE doing[c] = "drop" /\ Drops(c)
    <3>1. PICK o \in others[c] :
            /\ NextOther(c, o)
            /\ Listed' = Listed \ {o} /\ \A j \in Listed \ {o} : items'[j] = items[j]
      BY <2>4 DEF Drops
    <3>2. CASE i # o
      BY <3>1, <3>2
    <3>3. CASE i = o
      <4>1. /\ twin[c] \in Alike(call[c].name) /\ i \in Alike(call[c].name)
            /\ twin[c] # i
        BY <2>1, <2>4, <3>1, <3>3 DEF Adding, AddSteps, Progress, Folding
      <4>2. items[i].claimed => items[twin[c]].claimed
        BY <2>1, <2>4, <3>1, <3>3 DEF Adding, AddSteps, Progress, ClaimCarried
      <4>3. KeyOf[items[twin[c]].name] = KeyOf[items[i].name] /\ twin[c] \in Listed
        BY <4>1 DEF Alike
      <4> QED
        BY <3>1, <3>3, <4>1, <4>2, <4>3
    <3> QED
      BY <3>2, <3>3
  <2>5. CASE doing[c] = "rename" /\ Renames(c)
    <3>1. CASE i = twin[c]
      <4>1. KeyOf[items[i].name] = KeyOf[call[c].name]
        BY <2>1, <2>5, <3>1 DEF Adding, AddSteps, Progress, Folded, Alike
      <4> QED
        BY <2>5, <3>1, <4>1 DEF Renames
    <3>2. CASE i # twin[c]
      BY <2>5, <3>2 DEF Renames
    <3> QED
      BY <3>1, <3>2
  <2>6. CASE Removes(c)
    BY <2>6 DEF Removes
  <2> QED
    BY <2>1, <2>2, <2>3, <2>4, <2>5, <2>6, StepEffect
<1> QED
  BY <1>1, ListInvHolds, PTL DEF ListSpec, NothingIsLost
=============================================================================
