------------------------------- MODULE MCTools ------------------------------
(* Instances for TLC of the modules that keep one thing each for a chat.    *)
(* They share no state, so one run explores each by itself: scene says which *)
(* of them moves, and the others stay as they began.                         *)
EXTENDS ModelChain, Roster, ShoppingList, Confirmations, TLC

CONSTANTS h1, h2, t1, http, cmd, p1, p2, name, banan, banany, ripe, k1, a1, a2

VARIABLE scene

\* A deployment that dropped one model of an earlier one.
OneDropped == {<<http, cmd>>, <<http>>}

\* Two people of one name.
OneName == (p1 :> name) @@ (p2 :> name)

\* Two names for one item, and one that no item is stored under today.
Nominative == (banan :> banan) @@ (banany :> banany) @@ (ripe :> banan)
Lemma == (banan :> k1) @@ (banany :> k1) @@ (ripe :> k1)
Row0(s, amount, claimed) ==
  [name |-> s, amount |-> amount, amounts |-> None, claimed |-> claimed,
   checked |-> FALSE]
OldLists == {<<>>, <<Row0(ripe, None, FALSE)>>,
             <<Row0(banan, None, FALSE), Row0(banany, a1, TRUE)>>,
             <<Row0(ripe, a1, FALSE), Row0(banany, None, TRUE)>>}
Ask(s, amount, relative, several) ==
  [verb |-> "add", name |-> s, amount |-> amount, relative |-> relative,
   several |-> several]
Requests == {Ask(banan, None, FALSE, FALSE), Ask(banan, a2, FALSE, TRUE),
             Ask(banany, a1, FALSE, FALSE), Ask(banany, a2, TRUE, FALSE)}

HandlerSymmetry == Permutations(Handlers)

Init ==
  /\ scene \in {"models", "roster", "list", "confirmations"}
  /\ ChainInit /\ RosterInit /\ ListInit /\ ConfirmInit
  /\ scene # "models" => Len(offered) = 1
  /\ scene # "list" => given = 0

Next ==
  /\ UNCHANGED scene
  /\ \/ scene = "models" /\ ChainNext /\ UNCHANGED <<rvars, lvars, kvars>>
     \/ scene = "roster" /\ RosterNext /\ UNCHANGED <<cvars, lvars, kvars>>
     \/ scene = "list" /\ ListNext /\ UNCHANGED <<cvars, rvars, kvars>>
     \/ scene = "confirmations" /\ ConfirmNext /\ UNCHANGED <<cvars, rvars, lvars>>

Spec == Init /\ [][Next]_<<scene, cvars, rvars, lvars, kvars>>
=============================================================================
