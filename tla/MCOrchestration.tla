-------------------------- MODULE MCOrchestration --------------------------
(***************************************************************************)
(* Small instances of Orchestration for TLC.                               *)
(***************************************************************************)
EXTENDS Orchestration, TLC

\* Task 1 is the coordinator (priority 100 sorts it first); 3 depends on 2.
ChainDeps == 1 :> {2, 3} @@ 2 :> {} @@ 3 :> {2}
\* A coordinator over one task.
PairDeps == 1 :> {2} @@ 2 :> {}

WorkerSymmetry == Permutations(Worker)
=============================================================================
