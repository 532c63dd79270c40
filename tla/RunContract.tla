---------------------------- MODULE RunContract ----------------------------
(***************************************************************************)
(* What the orchestration promises to whoever submitted a graph of tasks:  *)
(* a task works only once its dependencies allow it, and is dropped only   *)
(* for a reason; what succeeded stays so; a verdict is given when nothing  *)
(* is left to do, and is earned; a cancellation is final; a restart        *)
(* interrupts, and loses nothing that was settled.  Orchestration          *)
(* implements it for every submitted graph.                                *)
(***************************************************************************)
CONSTANTS
  Task,         \* the tasks of the graph
  Deps,         \* those each one depends on
  Coordinator,  \* the tasks that sum up the others
  Tolerant      \* the tasks that continue on failure

VARIABLES
  status,     \* "new", "open", interrupted, forgotten, or a verdict
  progress,   \* of each task
  withdrawn   \* the run was cancelled

contractVars == <<status, progress, withdrawn>>

Verdicts == {"succeeded", "partial_failure", "failed", "cancelled"}
Over == {"succeeded", "dropped"}
Stages == {"none", "waiting", "working"} \cup Over

Begun ==
  /\ status = "new" /\ withdrawn = FALSE
  /\ progress = [t \in Task |-> "none"]

Submitted ==
  /\ status = "new" /\ status' = "open"
  /\ progress' = [t \in Task |-> "waiting"]
  /\ UNCHANGED withdrawn

-----------------------------------------------------------------------------
\* What may become of one task while the run is open.
Starts(t) ==
  /\ progress[t] = "waiting" /\ progress'[t] = "working" /\ ~ withdrawn
  /\ \A d \in Deps[t] : progress'[d] = "succeeded" \/ (progress'[d] = "dropped" /\ t \in Tolerant)

\* Its work is done, or given up, or waits for another try.
Ends(t) ==
  /\ progress[t] = "working"
  /\ progress'[t] \in IF withdrawn THEN {"dropped"} ELSE {"succeeded", "dropped", "waiting"}

\* A dependency was dropped, and no other is left to wait for.
IsBlocked(t) ==
  /\ progress[t] = "waiting" /\ progress'[t] = "dropped"
  /\ t \notin Tolerant
  /\ \A d \in Deps[t] : progress'[d] \in Over
  /\ \E d \in Deps[t] : progress'[d] = "dropped"

\* The verdict v is earned by what became of the tasks.
Earned(v) ==
  /\ \A t \in Task : progress'[t] \in Over
  /\ v = "succeeded" => \A t \in Task \ Coordinator : progress'[t] = "succeeded"
  /\ withdrawn' => v = "cancelled"

OpenOrOver == status' = "open" \/ (status' \in Verdicts /\ Earned(status'))

Work ==
  /\ status = "open" /\ progress' \in [Task -> Stages]
  /\ \A t \in Task : progress'[t] = progress[t] \/ Starts(t) \/ Ends(t) \/ IsBlocked(t)
  /\ UNCHANGED withdrawn
  /\ OpenOrOver

Withdraw ==
  /\ status = "open" /\ withdrawn' = TRUE
  /\ progress' = [t \in Task |-> IF progress[t] = "waiting" THEN "dropped" ELSE progress[t]]
  /\ OpenOrOver

-----------------------------------------------------------------------------
\* A restart.  A verdict that was not written yet is taken back with it.
Interrupt ==
  /\ status \in {"open"} \cup Verdicts /\ status' = "interrupted"
  /\ progress' = [t \in Task |-> IF progress[t] \in {"waiting", "working"} THEN "dropped"
                                 ELSE progress[t]]
  /\ UNCHANGED withdrawn

\* What succeeded is kept; a retry sums up once more.
Requeued(kept) ==
  /\ ~ withdrawn /\ UNCHANGED withdrawn
  /\ status' = "open" /\ progress' \in [Task -> Stages]
  /\ \A t \in Task :
       progress'[t] = progress[t] \/ (progress'[t] = "waiting" /\ (progress[t] = "dropped" \/ t \notin kept))

Continue == status = "interrupted" /\ Requeued(Task)
Retry == status \in {"failed", "partial_failure"} /\ Requeued(Task \ Coordinator)

Forget ==
  /\ status \in {"interrupted"} \cup Verdicts /\ status' = "gone"
  /\ UNCHANGED <<progress, withdrawn>>

ContractNext ==
  Submitted \/ Work \/ Withdraw \/ Interrupt \/ Continue \/ Retry \/ Forget

ContractStep == ContractNext \/ UNCHANGED contractVars

Contract == Begun /\ [][ContractStep]_contractVars
=============================================================================
