-------------------------- MODULE ParallelContract --------------------------
(***************************************************************************)
(* What the parallel tasks promise to whoever submitted a run of them: a   *)
(* task is begun once and ends once, a cancellation takes only what was    *)
(* not begun and is final, and a run is forgotten, or said to be finished, *)
(* only when nothing of it is left to do.  So what wait() is told of a     *)
(* finished run is final.  Multitask implements it for every run.          *)
(***************************************************************************)
CONSTANT Task   \* the tasks of the run

VARIABLES
  status,    \* "new", "known" or "forgotten"
  progress,  \* of each task
  finished   \* the run has a finished_at

contractVars == <<status, progress, finished>>

Over == {"succeeded", "failed", "cancelled"}

Begun == status = "new" /\ progress = [t \in Task |-> "new"] /\ finished = FALSE

Accepted ==
  /\ status = "new" /\ status' = "known"
  /\ progress' = [t \in Task |-> "queued"]
  /\ UNCHANGED finished

\* A thread begins a task, or ends the one it began.
Moves(t, from, to) == progress[t] = from /\ progress' = [progress EXCEPT ![t] = to]
Works ==
  /\ status = "known" /\ UNCHANGED <<status, finished>>
  /\ \E t \in Task : \/ Moves(t, "queued", "running")
                     \/ Moves(t, "running", "succeeded") \/ Moves(t, "running", "failed")

\* finished_at is set only when every task is over.
FinishedWhenOver == finished' = finished \/ (finished' = TRUE /\ \A t \in Task : progress'[t] \in Over)

Cancelled ==
  /\ status = "known" /\ UNCHANGED status
  /\ \E these \in SUBSET {t \in Task : progress[t] = "queued"} :
       progress' = [t \in Task |-> IF t \in these THEN "cancelled" ELSE progress[t]]
  /\ FinishedWhenOver

Noted == status = "known" /\ UNCHANGED <<status, progress>> /\ FinishedWhenOver

Forgotten ==
  /\ status = "known" /\ status' = "forgotten"
  /\ \A t \in Task : progress[t] \in Over
  /\ UNCHANGED <<progress, finished>>

ContractNext == Accepted \/ Works \/ Cancelled \/ Noted \/ Forgotten
ContractStep == ContractNext \/ UNCHANGED contractVars

Contract == Begun /\ [][ContractStep]_contractVars
=============================================================================
