----------------------------- MODULE MCRollCall -----------------------------
(* Instances of RollCall for TLC. *)
EXTENDS RollCall, TLC

\* Three rounds, the last two of a longer gap.
Doubling == (0 :> 1) @@ (1 :> 2) @@ (2 :> 2)
\* Two rounds.
TwoRounds == (0 :> 1) @@ (1 :> 2)

RowSymmetry == Permutations(Rows)
=============================================================================
