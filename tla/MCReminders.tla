---------------------------- MODULE MCReminders ----------------------------
(* Instances of Reminders for TLC. *)
EXTENDS Reminders, TLC

CONSTANT p1

RowSymmetry == Permutations(Rows)

At(t, every, until, wall) == [to |-> t, every |-> every, until |-> until, wall |-> wall]

\* To one person: at an instant, at a wall time.  To the group: every unit, from
\* a wall time.
Mixed == {At(p1, Never, 0, Never), At(p1, Never, 0, 1), At(Chat, 1, 3, 1)}

One      == {1}
Eastward == {0, 1}
============================================================================
