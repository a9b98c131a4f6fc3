------------------------------- MODULE MCTurn -------------------------------
(* Instances of Turn for TLC. *)
EXTENDS Turn

CONSTANTS http, cmd

\* A model over HTTP, and a command-line model behind it.
HttpThenCli == {<<http, cmd>>}

\* What was told is read by no step: two states that differ in it alone go on
\* alike.
WithoutWords == <<cvars, pc, loop, record, cli, history>>

\* AfterBatch is the loop over the results, one by one.
ASSUME AfterBatchIsTheLoop ==
  \A n \in 0 .. 3 : \A batch \in [1 .. n -> Results] : \A b \in Blocks :
    AfterBatch(b, batch) = FoldLeft(NextBlock, b, batch)
=============================================================================
