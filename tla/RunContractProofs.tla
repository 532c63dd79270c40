------------------------- MODULE RunContractProofs -------------------------
(***************************************************************************)
(* The refinement: for every submitted graph, whatever the other runs do,  *)
(* Orchestration behaves as RunContract promises.  Each step of the system *)
(* is, for one graph, a step of the contract or none.                      *)
(***************************************************************************)
EXTENDS OrchestrationProofs

-----------------------------------------------------------------------------
(***************************************************************************)
(* What the checkpoint says of a run that has ended, or was forgotten: only *)
(* a verdict that a pass of the scheduler gave is not written yet.         *)
(***************************************************************************)
EndIsKept(r) ==
  /\ journal[r].state \in RunTerminal \cup {"gone"} => runState[r] = journal[r].state
  /\ runState[r] = "gone" => journal[r].state = "gone"
EndInv == \A r \in Run : EndIsKept(r)

LEMMA EndOfPass == ASSUME TypeOK, TypeOK', EndInv, SchedulerPass PROVE EndInv'
<1>1. PICK B \in [Run -> SUBSET Task], S \in SUBSET (Run \X Task) : Pass(B, S)
  BY PassOf
<1>2. Persist \/ journal' = journal
  BY <1>1 DEF Pass, PassStarts
<1>3. ASSUME NEW r \in Run
      PROVE  /\ runState[r] \in RunTerminal \cup {"gone"} => runState'[r] = runState[r]
             /\ runState'[r] = "gone" => runState[r] = "gone"
  <2>1. CASE Schedulable(r)
    <3>1. runState'[r] = Refreshed(r, taskState'[r], outcome[r])
      BY <1>1, <2>1 DEF Pass, PassStarts
    <3>2. taskState'[r] \in [Task -> TaskStates] /\ outcome[r] \in Outcomes
      BY DEF TypeOK
    <3>. QED
      BY <2>1, <3>1, <3>2, RefreshedStates DEF Schedulable, Known
  <2>2. CASE ~ Schedulable(r)
    BY <1>1, <2>2 DEF Pass, PassStarts
  <2>. QED
    BY <2>1, <2>2
<1>. QED
  BY <1>2, <1>3 DEF EndInv, EndIsKept, Persist

LEMMA EndStep == ASSUME TypeOK, TypeOK', EndInv, [Next]_vars PROVE EndInv'
<1>1. CASE Persist
  BY <1>1 DEF Persist, EndInv, EndIsKept
<1>2. CASE UNCHANGED <<runState, journal>>
  BY <1>2 DEF EndInv, EndIsKept
<1>3. ASSUME NEW r \in Run, Requester(r) PROVE Persist \/ UNCHANGED <<runState, journal>>
  BY <1>3 DEF Requester, SubmitGraph, SubmitObjective, Pause, Cancel, Resume, ResumeRestarted,
              RetryFailed, ResumeActive, ResumeRefused, Continue
<1>4. ASSUME NEW r \in Run, Planner(r) PROVE Persist \/ UNCHANGED <<runState, journal>>
  BY <1>4 DEF Planner, PlanBegin, PlanFail, PlanReady, runVars
<1>5. ASSUME NEW w \in Worker, NEW r \in Run, NEW t \in Task, Execution(w, r, t)
      PROVE  Persist \/ UNCHANGED <<runState, journal>>
  BY <1>5 DEF Execution, ExecBegin, ExecEnd, ExecForgotten, ExecCancelled, ExecSucceeded,
              ExecBlocked, ExecWaits, ExecRetries, ExecFails, Finish, runVars
<1>6. CASE \E r \in Run, t \in Task : BackoffElapses(r, t)
  BY <1>2, <1>6 DEF BackoffElapses, runVars
<1>7. CASE Restart
  BY <1>7 DEF Restart, LoadedRun, EndInv, EndIsKept
<1>8. CASE UNCHANGED vars
  BY <1>2, <1>8 DEF vars, runVars
<1>. QED
  BY <1>1, <1>2, <1>3, <1>4, <1>5, <1>6, <1>7, <1>8, EndOfPass DEF Next

\* A run whose end was written is still in that state, and one that was
\* forgotten is forgotten in the checkpoint too (_persist_locked, _prune_locked).
THEOREM WrittenEndStays == Spec => []EndInv
<1>1. Init => EndInv
  <2>. SUFFICES ASSUME Init, NEW r \in Run PROVE EndIsKept(r)
    BY DEF EndInv
  <2>1. runState[r] = "new" /\ journal[r].state = "new"
    BY DEF Init
  <2>. QED
    BY <2>1 DEF EndIsKept, RunTerminal
<1>2. TypeOK /\ TypeOK' /\ EndInv /\ [Next]_vars => EndInv'
  BY EndStep
<1>. QED
  BY <1>1, <1>2, TypeCorrect, PTL DEF Spec

-----------------------------------------------------------------------------
(***************************************************************************)
(* The steps of the contract, in terms of the records.                     *)
(***************************************************************************)
LEMMA SeenStages ==
  ASSUME NEW st \in TaskStates
  PROVE  /\ Seen(st) \in {"none", "waiting", "working", "succeeded", "dropped"}
         /\ Seen(st) = "waiting" <=> st = "queued"
         /\ Seen(st) = "working" <=> st = "running"
         /\ Seen(st) = "succeeded" <=> st = "succeeded"
         /\ Seen(st) = "none" <=> st = "none"
         /\ Seen(st) = "dropped" <=> st \in TaskTerminal \ {"succeeded"}
  BY DEF Seen, TaskStates, TaskTerminal

\* Nothing of the run changes that its requester sees.
LEMMA Stutters ==
  ASSUME NEW r \in GraphRun, Status(runState'[r]) = Status(runState[r]), taskState'[r] = taskState[r],
         cancelled'[r] = cancelled[r]
  PROVE  KeepsPromise(r)
  BY DEF KeepsPromise, Promise!ContractStep, Promise!contractVars

LEMMA IsForgotten ==
  ASSUME NEW r \in GraphRun, runState[r] \in RunTerminal, runState'[r] = "gone",
         taskState'[r] = taskState[r], cancelled'[r] = cancelled[r]
  PROVE  KeepsPromise(r)
<1>1. Promise(r)!Forget
  BY DEF Promise!Forget, Promise!Verdicts, Status, RunTerminal
<1>. QED
  BY <1>1 DEF KeepsPromise, Promise!ContractStep, Promise!ContractNext

\* The verdict _refresh_run_state_locked gives an open run is one it has earned.
Earns(r, ts, st) ==
  \/ st \in {"running", "paused", "cancelling"}
  \/ /\ st \in {"succeeded", "partial_failure", "failed", "cancelled"} /\ Settled(ts)
     /\ st = "succeeded" => \A t \in Task \ Coordinator : ts[t] = "succeeded"
     /\ cancelled[r] => st = "cancelled"

LEMMA RefreshedEarns ==
  ASSUME TypeOK, NEW r \in Run, NEW ts \in [Task -> TaskStates], NEW out \in Outcomes,
         \A t \in Task : ts[t] \notin {"none", "interrupted"}
  PROVE  Earns(r, ts, Refreshed(r, ts, out))
<1>1. ts # NoTasks
  BY ConstantsAssumption DEF NoTasks
<1>2. Verdict(r, ts, out) \in {"succeeded", "partial_failure", "failed", "cancelled"}
  BY DEF Verdict
<1>3. Refreshed(r, ts, out) = "succeeded" => \A t \in Task \ Coordinator : ts[t] = "succeeded"
  BY <1>1, VerdictEarned DEF Earned
<1>4. CASE cancelled[r]
  BY <1>3, <1>4 DEF Refreshed, Earns
<1>5. CASE ~ cancelled[r]
  BY <1>1, <1>2, <1>3, <1>5 DEF Refreshed, Earns
<1>. QED
  BY <1>4, <1>5

\* An open run has tasks, and none that a restart interrupted.
LEMMA OpenRecords ==
  ASSUME GraphInv, EarnedInv, TypeOK, NEW r \in GraphRun, runState[r] \notin RunTerminal \cup {"new", "gone"}
  PROVE  /\ r \in Run /\ runState[r] \in {"running", "paused", "cancelling"} /\ Status(runState[r]) = "open"
         /\ \A t \in Task : taskState[r][t] \notin {"none", "interrupted"}
<1>1. r \in Run /\ Lifecycle(r) /\ EarnedRun(r)
  BY InvOf DEF EarnedInv
<1>2. runState[r] \in {"running", "paused", "cancelling"}
  BY <1>1 DEF Lifecycle, TypeOK, RunStates
<1>3. \A t \in Task : taskState[r][t] \notin {"none", "interrupted"}
  BY <1>1 DEF Lifecycle, EarnedRun, RecordsOK, Asleep
<1>. QED
  BY <1>1, <1>2, <1>3 DEF Status

LEMMA RecordTypes ==
  ASSUME TypeOK', NEW r \in GraphRun
  PROVE  \A t \in Task : taskState'[r][t] \in TaskStates
<1>1. r \in Run
  BY ConstantsAssumption
<1>2. taskState' \in [Run -> [Task -> TaskStates]]
  BY DEF TypeOK
<1>. QED
  BY <1>1, <1>2

\* An open run that goes on, or ends with a verdict its tasks have earned.
LEMMA EarnsOver ==
  ASSUME TypeOK', NEW r \in GraphRun, cancelled'[r] = cancelled[r],
         \A t \in Task : taskState'[r][t] # "none", Earns(r, taskState'[r], runState'[r])
  PROVE  Promise(r)!OpenOrOver
<1>1. \A t \in Task : taskState'[r][t] \in TaskStates
  BY RecordTypes
<1>2. CASE runState'[r] \in {"running", "paused", "cancelling"}
  BY <1>2 DEF Promise!OpenOrOver, Status
<1>3. CASE runState'[r] \notin {"running", "paused", "cancelling"}
  <2>1. \A t \in Task : taskState'[r][t] \in TaskTerminal
    BY <1>3 DEF Earns, Settled
  <2>2. \A t \in Task : Seen(taskState'[r][t]) \in {"succeeded", "dropped"}
    BY <1>1, <2>1, SeenStages
  <2>3. \A t \in Task : taskState'[r][t] = "succeeded" => Seen(taskState'[r][t]) = "succeeded"
    BY DEF Seen
  <2>. QED
    BY <1>3, <2>2, <2>3, ConstantsAssumption
       DEF Earns, Status, Promise!OpenOrOver, Promise!Verdicts, Promise!Earned, Promise!Over
<1>. QED
  BY <1>2, <1>3

\* What a section that works on an open run may do to each of its tasks.
LEMMA Works ==
  ASSUME TypeOK', NEW r \in GraphRun, Status(runState[r]) = "open", cancelled'[r] = cancelled[r],
         \A t \in Task : taskState'[r][t] # "none", Earns(r, taskState'[r], runState'[r]),
         \A t \in Task : \/ taskState'[r][t] = taskState[r][t]
                         \/ Promise(r)!Starts(t) \/ Promise(r)!Ends(t) \/ Promise(r)!IsBlocked(t)
  PROVE  KeepsPromise(r)
<1>1. \A t \in Task : taskState'[r][t] \in TaskStates
  BY RecordTypes
<1>2. \A t \in Task : Seen(taskState'[r][t]) \in {"none", "waiting", "working", "succeeded", "dropped"}
  BY <1>1, SeenStages
<1>3. [t \in Task |-> Seen(taskState'[r][t])] \in [Task -> Promise(r)!Stages]
  BY <1>2 DEF Promise!Stages, Promise!Over
<1>4. Promise(r)!OpenOrOver
  BY EarnsOver
<1>5. Promise(r)!Work
  BY <1>3, <1>4 DEF Promise!Work
<1>. QED
  BY <1>5 DEF KeepsPromise, Promise!ContractStep, Promise!ContractNext

-----------------------------------------------------------------------------
(***************************************************************************)
(* The requester's calls.                                                  *)
(***************************************************************************)
LEMMA OthersCalls ==
  ASSUME TypeOK, NEW q \in Run, Requester(q), NEW r \in GraphRun, r # q
  PROVE  KeepsPromise(r)
<1>1. r \in Run
  BY ConstantsAssumption
<1>2. /\ taskState'[r] = taskState[r] /\ cancelled'[r] = cancelled[r]
      /\ runState'[r] = runState[r] \/ (runState'[r] = "gone" /\ runState[r] \in RunTerminal)
  BY <1>1, RequesterLeaves
<1>. QED
  BY <1>2, Stutters, IsForgotten

LEMMA SubmitKeeps ==
  ASSUME TypeOK, GraphInv, NEW r \in GraphRun, SubmitGraph(r)
  PROVE  KeepsPromise(r)
<1>0. r \in Run /\ Lifecycle(r)
  BY InvOf
<1>1. [runState EXCEPT ![r] = "running"] \in [Run -> RunStates]
  BY DEF TypeOK, RunStates
<1>2. runState[r] = "new" /\ runState'[r] = "running"
  <2>1. [runState EXCEPT ![r] = "running"][r] = "running"
    BY <1>0 DEF TypeOK
  <2>. QED
    BY <1>0, <1>1, <2>1, PrunedStates DEF SubmitGraph, NextId, RunTerminal
<1>3. \A t \in Task : taskState'[r][t] = "queued"
  BY <1>0 DEF SubmitGraph, FreshTasks, TypeOK
<1>4. cancelled'[r] = cancelled[r]
  BY DEF SubmitGraph
<1>5. Promise(r)!Submitted
  BY <1>2, <1>3, <1>4 DEF Promise!Submitted, Status, Seen
<1>. QED
  BY <1>5 DEF KeepsPromise, Promise!ContractStep, Promise!ContractNext

LEMMA CancelKeeps ==
  ASSUME TypeOK, TypeOK', GraphInv, EarnedInv, NEW r \in GraphRun, Cancel(r)
  PROVE  KeepsPromise(r)
<1>0. /\ r \in Run /\ Status(runState[r]) = "open"
      /\ \A t \in Task : taskState[r][t] \notin {"none", "interrupted"}
  <2>1. runState[r] \notin RunTerminal \cup {"new", "gone"}
    BY DEF Cancel, Known
  <2>. QED
    BY <2>1, OpenRecords
<1>1. \A t \in Task :
        taskState'[r][t] = IF taskState[r][t] = "queued" THEN "cancelled" ELSE taskState[r][t]
  BY <1>0 DEF Cancel, TypeOK
<1>2. cancelled'[r] = TRUE
  BY <1>0 DEF Cancel, TypeOK
<1>3. [t \in Task |-> Seen(taskState'[r][t])]
        = [t \in Task |-> IF Seen(taskState[r][t]) = "waiting" THEN "dropped"
                                                             ELSE Seen(taskState[r][t])]
  <2>1. ASSUME NEW t \in Task
        PROVE  Seen(taskState'[r][t])
                 = IF Seen(taskState[r][t]) = "waiting" THEN "dropped" ELSE Seen(taskState[r][t])
    BY <1>1, <2>1 DEF Seen
  <2>. QED
    BY <2>1
<1>4. Promise(r)!OpenOrOver
  <2>1. CASE runState'[r] = "cancelling"
    BY <2>1 DEF Promise!OpenOrOver, Status
  <2>2. CASE runState'[r] # "cancelling"
    <3>1. runState'[r] = "cancelled" /\ \A t \in Task : taskState'[r][t] \in TaskTerminal \cup {"none"}
      BY <1>0, <1>1, <2>2 DEF Cancel, Settled, TypeOK
    <3>2. \A t \in Task : taskState'[r][t] \in TaskTerminal
      BY <1>0, <1>1, <3>1
    <3>3. \A t \in Task : Seen(taskState'[r][t]) \in {"succeeded", "dropped"}
      BY <3>2 DEF Seen, TaskTerminal
    <3>. QED
      BY <3>1, <3>3 DEF Promise!OpenOrOver, Promise!Verdicts, Promise!Earned, Promise!Over, Status
  <2>. QED
    BY <2>1, <2>2
<1>5. Promise(r)!Withdraw
  BY <1>0, <1>2, <1>3, <1>4 DEF Promise!Withdraw
<1>. QED
  BY <1>5 DEF KeepsPromise, Promise!ContractStep, Promise!ContractNext

\* What a resume that queues tasks again leaves of the others.
LEMMA Requeues ==
  ASSUME TypeOK', NEW r \in GraphRun, NEW K \in SUBSET Task, ~ cancelled[r],
         cancelled'[r] = cancelled[r], runState'[r] = "running",
         \A t \in Task : \/ taskState'[r][t] = taskState[r][t]
                         \/ /\ taskState'[r][t] = "queued"
                            /\ taskState[r][t] \in TaskTerminal \ {"succeeded"} \/ t \notin K
  PROVE  Promise(r)!Requeued(K)
<1>1. \A t \in Task : taskState'[r][t] \in TaskStates
  BY RecordTypes
<1>2. \A t \in Task : Seen(taskState'[r][t]) \in {"none", "waiting", "working", "succeeded", "dropped"}
  BY <1>1, SeenStages
<1>3. ASSUME NEW t \in Task
      PROVE  \/ Seen(taskState'[r][t]) = Seen(taskState[r][t])
             \/ /\ Seen(taskState'[r][t]) = "waiting"
                /\ Seen(taskState[r][t]) = "dropped" \/ t \notin K
  BY DEF Seen, TaskTerminal
<1>. QED
  BY <1>2, <1>3 DEF Promise!Requeued, Promise!Stages, Promise!Over, Status

LEMMA ResumeKeeps ==
  ASSUME TypeOK, TypeOK', GraphInv, EarnedInv, NEW r \in GraphRun, Resume(r)
  PROVE  KeepsPromise(r)
<1>0. r \in Run /\ Lifecycle(r)
  BY InvOf
<1>1. ASSUME Continue(r), runState[r] # "new"
      PROVE  runState'[r] = "running" /\ cancelled'[r] = cancelled[r]
  BY <1>0, <1>1 DEF Continue, HasTasks, Lifecycle, TypeOK
<1>2. CASE ResumeRestarted(r)
  <2>1. runState[r] = "interrupted" /\ ~ cancelled[r]
    BY <1>0, <1>2 DEF ResumeRestarted, Resumable, AfterRestart, Known, Lifecycle
  <2>2. runState'[r] = "running" /\ cancelled'[r] = cancelled[r]
    BY <1>1, <1>2, <2>1 DEF ResumeRestarted
  <2>3. \A t \in Task : \/ taskState'[r][t] = taskState[r][t]
                        \/ taskState'[r][t] = "queued" /\ taskState[r][t] \in TaskTerminal \ {"succeeded"}
    BY <1>0, <1>2 DEF ResumeRestarted, Unfinished, TypeOK, TaskTerminal
  <2>4. Promise(r)!Requeued(Task)
    BY <2>1, <2>2, <2>3, Requeues
  <2>. QED
    BY <2>1, <2>4 DEF Status, Promise!Continue, KeepsPromise, Promise!ContractStep, Promise!ContractNext
<1>3. CASE RetryFailed(r)
  <2>1. runState[r] \in {"failed", "partial_failure"} /\ ~ cancelled[r]
    BY <1>3 DEF RetryFailed, Resumable, HasFailed
  <2>2. runState'[r] = "running" /\ cancelled'[r] = cancelled[r]
    BY <1>1, <1>3, <2>1 DEF RetryFailed
  <2>3. taskState[r] # NoTasks
    BY <1>0, <2>1, ConstantsAssumption DEF Lifecycle, NoTasks
  <2>4. \A t \in Task : \/ taskState'[r][t] = taskState[r][t]
                        \/ /\ taskState'[r][t] = "queued"
                           /\ taskState[r][t] \in TaskTerminal \ {"succeeded"} \/ t \notin Task \ Coordinator
    BY <1>0, <1>3, <2>3 DEF RetryFailed, TypeOK, TaskTerminal
  <2>5. Promise(r)!Requeued(Task \ Coordinator)
    BY <2>1, <2>2, <2>4, Requeues
  <2>. QED
    BY <2>1, <2>5 DEF Status, Promise!Retry, KeepsPromise, Promise!ContractStep, Promise!ContractNext
<1>4. CASE ResumeActive(r)
  <2>1. runState[r] \notin RunTerminal \cup {"new", "gone"}
    BY <1>4 DEF ResumeActive, Resumable, Known
  <2>2. runState'[r] = "running" /\ cancelled'[r] = cancelled[r] /\ taskState' = taskState
    BY <1>1, <1>4, <2>1 DEF ResumeActive, taskVars
  <2>. QED
    BY <2>1, <2>2, OpenRecords, Stutters DEF Status
<1>5. CASE ResumeRefused(r)
  BY <1>5, Stutters DEF ResumeRefused, taskVars
<1>. QED
  BY <1>2, <1>3, <1>4, <1>5 DEF Resume

LEMMA CallsKeep ==
  ASSUME TypeOK, TypeOK', GraphInv, EarnedInv, NEW q \in Run, Requester(q), NEW r \in GraphRun
  PROVE  KeepsPromise(r)
<1>1. CASE q # r
  BY <1>1, OthersCalls
<1>2. CASE SubmitObjective(r)
  BY <1>2 DEF SubmitObjective
<1>3. CASE Pause(r)
  <2>1. runState[r] \notin RunTerminal \cup {"new", "gone"}
    BY <1>3 DEF Pause, Known
  <2>2. r \in Run /\ Lifecycle(r)
    BY InvOf
  <2>3. runState'[r] = "paused" /\ cancelled'[r] = cancelled[r] /\ taskState' = taskState
    BY <1>3, <2>2 DEF Pause, Lifecycle, taskVars, TypeOK
  <2>. QED
    BY <2>1, <2>3, OpenRecords, Stutters DEF Status
<1>. QED
  BY <1>1, <1>2, <1>3, SubmitKeeps, CancelKeeps, ResumeKeeps DEF Requester

-----------------------------------------------------------------------------
(***************************************************************************)
(* The threads: planner, scheduler and pool.                               *)
(***************************************************************************)
LEMMA PlannerKeeps ==
  ASSUME TypeOK, GraphInv, NEW q \in Run, Planner(q), NEW r \in GraphRun
  PROVE  KeepsPromise(r)
<1>0. r \in Run /\ Lifecycle(r)
  BY InvOf
<1>1. q # r
  BY <1>0 DEF Planner, PlanBegin, PlanFail, PlanReady, Lifecycle
<1>2. runState'[r] = runState[r] /\ taskState'[r] = taskState[r] /\ cancelled'[r] = cancelled[r]
  BY <1>0, <1>1 DEF Planner, PlanBegin, PlanFail, PlanReady, runVars, taskVars, TypeOK
<1>. QED
  BY <1>2, Stutters

\* A run the pass looks at: its tasks are blocked or started as their
\* dependencies, settled before the pass or blocked by it, have it.
LEMMA PassWorks ==
  ASSUME TypeOK, TypeOK', GraphInv, EarnedInv, NEW B \in [Run -> SUBSET Task],
         NEW S \in SUBSET (Run \X Task), Pass(B, S), NEW r \in GraphRun, Schedulable(r)
  PROVE  KeepsPromise(r)
<1>0. /\ r \in Run /\ Status(runState[r]) = "open" /\ ~ cancelled[r] /\ cancelled'[r] = cancelled[r]
      /\ \A t \in Task : taskState[r][t] \notin {"none", "interrupted"}
  <2>1. runState[r] \notin RunTerminal \cup {"new", "gone"} /\ ~ cancelled[r]
    BY DEF Schedulable, Known
  <2>2. cancelled' = cancelled
    BY DEF Pass, PassStarts
  <2>. QED
    BY <2>1, <2>2, OpenRecords
<1>. DEFINE blocked == Blocked(B)[r]
<1>1. \A t \in Task : /\ blocked[t] = IF t \in B[r] THEN "blocked" ELSE taskState[r][t]
                      /\ taskState'[r][t] = IF <<r, t>> \in S THEN "running" ELSE blocked[t]
  BY <1>0 DEF Pass, PassStarts, Blocked
<1>2. \A t \in Task : <<r, t>> \in S => Ready(r, blocked, t)
  BY DEF Pass
<1>3. \A t \in Task : \A d \in Deps[t] : d \in Task
  BY ConstantsAssumption
<1>4. ASSUME NEW t \in Task, NEW d \in Deps[t], blocked[d] \in TaskTerminal
      PROVE  /\ taskState'[r][d] = blocked[d]
             /\ Seen(taskState'[r][d]) = IF blocked[d] = "succeeded" THEN "succeeded" ELSE "dropped"
  <2>1. <<r, d>> \notin S
    BY <1>2, <1>3, <1>4 DEF Ready, TaskTerminal
  <2>2. taskState'[r][d] = blocked[d]
    BY <1>1, <1>3, <2>1
  <2>. QED
    BY <1>4, <2>2 DEF Seen, TaskTerminal
<1>5. ASSUME NEW t \in Task, <<r, t>> \in S PROVE Promise(r)!Starts(t)
  <2>1. taskState[r][t] = "queued" /\ taskState'[r][t] = "running"
    BY <1>1, <1>2, <1>5 DEF Ready
  <2>2. /\ \A d \in Deps[t] : blocked[d] \in TaskTerminal
        /\ (\E d \in Deps[t] : blocked[d] # "succeeded") => t \in Tolerant
    BY <1>2, <1>5 DEF Ready, DepsDone, DepFailed
  <2>3. ASSUME NEW d \in Deps[t]
        PROVE  \/ Seen(taskState'[r][d]) = "succeeded"
               \/ Seen(taskState'[r][d]) = "dropped" /\ t \in Tolerant
    <3>1. Seen(taskState'[r][d]) = IF blocked[d] = "succeeded" THEN "succeeded" ELSE "dropped"
      BY <1>4, <2>2
    <3>. QED
      BY <2>2, <3>1
  <2>. QED
    BY <1>0, <1>3, <2>1, <2>3 DEF Promise!Starts, Seen
<1>6. ASSUME NEW t \in Task, <<r, t>> \notin S, t \in B[r] PROVE Promise(r)!IsBlocked(t)
  <2>1. BlockedBy(r, B[r])
    BY <1>0 DEF Pass
  <2>2. /\ taskState[r][t] = "queued" /\ t \notin Tolerant
        /\ \A d \in Deps[t] : blocked[d] \in TaskTerminal
        /\ \E d \in Deps[t] : blocked[d] # "succeeded"
    BY <1>1, <1>3, <1>6, <2>1 DEF BlockedBy, DepsDone, DepFailed
  <2>3. /\ \A d \in Deps[t] : Seen(taskState'[r][d]) \in {"succeeded", "dropped"}
        /\ \E d \in Deps[t] : Seen(taskState'[r][d]) = "dropped"
    BY <1>4, <2>2
  <2>4. taskState'[r][t] = "blocked"
    BY <1>1, <1>6
  <2>. QED
    BY <1>3, <2>2, <2>3, <2>4 DEF Promise!IsBlocked, Promise!Over, Seen
<1>7. \A t \in Task : \/ taskState'[r][t] = taskState[r][t]
                      \/ Promise(r)!Starts(t) \/ Promise(r)!Ends(t) \/ Promise(r)!IsBlocked(t)
  BY <1>1, <1>5, <1>6
<1>8. \A t \in Task : taskState'[r][t] \notin {"none", "interrupted"}
  BY <1>0, <1>1
<1>9. Earns(r, taskState'[r], runState'[r])
  <2>1. runState'[r] = Refreshed(r, taskState'[r], outcome[r])
    BY <1>0 DEF Pass, PassStarts
  <2>2. taskState'[r] \in [Task -> TaskStates] /\ outcome[r] \in Outcomes
    BY <1>0 DEF TypeOK
  <2>. QED
    BY <1>0, <1>8, <2>1, <2>2, RefreshedEarns
<1>. QED
  BY <1>0, <1>7, <1>8, <1>9, Works

LEMMA PassKeeps ==
  ASSUME TypeOK, TypeOK', GraphInv, EarnedInv, SchedulerPass, NEW r \in GraphRun
  PROVE  KeepsPromise(r)
<1>1. PICK B \in [Run -> SUBSET Task], S \in SUBSET (Run \X Task) : Pass(B, S)
  BY PassOf
<1>0. r \in Run
  BY ConstantsAssumption
<1>2. CASE ~ Schedulable(r)
  <2>1. runState'[r] = runState[r] /\ cancelled' = cancelled /\ B[r] = {}
    BY <1>0, <1>1, <1>2 DEF Pass, PassStarts
  <2>2. \A t \in Task : <<r, t>> \notin S
    BY <1>1, <1>2 DEF Pass
  <2>3. taskState'[r] = [t \in Task |-> taskState[r][t]]
    BY <1>0, <1>1, <2>1, <2>2 DEF Pass, PassStarts, Blocked
  <2>4. taskState'[r] = taskState[r]
    BY <1>0, <2>3 DEF TypeOK
  <2>. QED
    BY <2>1, <2>4, Stutters
<1>. QED
  BY <1>1, <1>2, PassWorks

LEMMA FinishKeeps ==
  ASSUME TypeOK, TypeOK', GraphInv, EarnedInv, NEW r \in GraphRun, NEW w \in Worker, NEW u \in Task,
         NEW st \in {"cancelled", "succeeded", "failed", "queued"}, cancelled[r] => st = "cancelled",
         Finish(w, r, u, st)
  PROVE  KeepsPromise(r)
<1>0. r \in Run /\ GraphRunOK(r) /\ cancelled' = cancelled
  BY InvOf DEF Finish
<1>1. taskState[r][u] = "running"
  <2>1. Executing(r, u)
    BY DEF Finish, Executing
  <2>. QED
    BY <1>0, <2>1 DEF GraphRunOK, OneExecution, InFlight
<1>2. /\ Status(runState[r]) = "open"
      /\ \A t \in Task : taskState[r][t] \notin {"none", "interrupted"}
  <2>1. runState[r] \notin RunTerminal \cup {"new", "gone"}
    BY <1>0, <1>1 DEF GraphRunOK, Lifecycle, TaskTerminal
  <2>. QED
    BY <2>1, OpenRecords
<1>3. \A t \in Task : taskState'[r][t] = IF t = u THEN st ELSE taskState[r][t]
  BY <1>0 DEF Finish, TypeOK
<1>4. Promise(r)!Ends(u)
  BY <1>0, <1>1, <1>3 DEF Promise!Ends, Seen
<1>5. \A t \in Task : taskState'[r][t] \notin {"none", "interrupted"}
  BY <1>2, <1>3
<1>6. Earns(r, taskState'[r], runState'[r])
  <2>1. runState'[r] = Refreshed(r, taskState'[r], outcome'[r])
    BY <1>0 DEF Finish, TypeOK
  <2>2. taskState'[r] \in [Task -> TaskStates] /\ outcome'[r] \in Outcomes
    BY <1>0 DEF TypeOK
  <2>. QED
    BY <1>0, <1>5, <2>1, <2>2, RefreshedEarns
<1>. QED
  BY <1>0, <1>2, <1>3, <1>4, <1>5, <1>6, Works

LEMMA ExecutionKeeps ==
  ASSUME TypeOK, TypeOK', GraphInv, EarnedInv, NEW w \in Worker, NEW q \in Run, NEW u \in Task,
         Execution(w, q, u), NEW r \in GraphRun
  PROVE  KeepsPromise(r)
<1>1. CASE ExecBegin(w, q, u) \/ ExecForgotten(w, q, u)
  BY <1>1, Stutters DEF ExecBegin, ExecForgotten, runVars, taskVars
<1>2. CASE ExecEnd(w, q, u) /\ ~ ExecForgotten(w, q, u)
  <2>1. PICK st \in {"cancelled", "succeeded", "failed", "queued"} :
          Finish(w, q, u, st) /\ (cancelled[q] => st = "cancelled")
    BY <1>2 DEF ExecEnd, ExecCancelled, ExecSucceeded, ExecBlocked, ExecWaits, ExecRetries, ExecFails
  <2>2. CASE q = r
    BY <2>1, <2>2, FinishKeeps
  <2>3. CASE q # r
    <3>1. r \in Run
      BY ConstantsAssumption
    <3>2. /\ runState'[r] = runState[r] /\ taskState'[r] = taskState[r]
          /\ cancelled'[r] = cancelled[r]
      BY <2>1, <2>3, <3>1 DEF Finish, TypeOK
    <3>. QED
      BY <3>2, Stutters
  <2>. QED
    BY <2>2, <2>3
<1>. QED
  BY <1>1, <1>2 DEF Execution

-----------------------------------------------------------------------------
(***************************************************************************)
(* A restart: what a run's records become is what its requester sees       *)
(* interrupted, or already saw.                                            *)
(***************************************************************************)
LEMMA RestartKeeps ==
  ASSUME TypeOK, GraphInv, JournalInv, EndInv, Restart, NEW r \in GraphRun
  PROVE  KeepsPromise(r)
<1>0. r \in Run /\ Lifecycle(r) /\ EndIsKept(r)
  BY InvOf DEF EndInv
<1>1. /\ runState'[r] = LoadedRun(journal[r].state)
      /\ cancelled'[r] = cancelled[r]
      /\ \A t \in Task : taskState'[r][t] = LoadedTask(taskState[r][t])
  BY <1>0 DEF Restart, JournalInv, JournalIsCurrent
<1>2. taskState'[r] = [t \in Task |-> taskState'[r][t]] /\ taskState[r] = [t \in Task |-> taskState[r][t]]
  BY <1>0 DEF Restart, TypeOK
<1>3. journal[r].state = "new" <=> runState[r] = "new"
  <2>1. \A t \in Task : LoadedTask(journal[r].tasks[t]) = LoadedTask(taskState[r][t])
    BY <1>0 DEF JournalInv, JournalIsCurrent
  <2>2. \A st \in {"none"} \cup TaskStates : LoadedTask(st) = "none" <=> st = "none"
    BY DEF LoadedTask, TaskStates
  <2>3. \A t \in Task : taskState[r][t] \in TaskStates /\ journal[r].tasks[t] \in TaskStates
    BY <1>0 DEF TypeOK, JournalEntry
  <2>4. \A t \in Task : taskState[r][t] = "none" <=> journal[r].tasks[t] = "none"
    BY <2>1, <2>2, <2>3
  <2>. QED
    BY <1>0, <2>4, ConstantsAssumption DEF Lifecycle
\* Nothing was open, so nothing changes.
<1>4. CASE runState[r] \in {"new", "gone", "interrupted"} \/ journal[r].state \in RunTerminal
  <2>1. runState'[r] = runState[r]
    BY <1>0, <1>1, <1>3, <1>4 DEF LoadedRun, EndIsKept, RunTerminal, TypeOK, JournalEntry, RunStates
  <2>2. \A t \in Task : taskState[r][t] \in TaskTerminal \cup {"none"}
    BY <1>0, <1>4 DEF Lifecycle, EndIsKept, RunTerminal
  <2>3. \A t \in Task : taskState'[r][t] = taskState[r][t]
    BY <1>1, <2>2 DEF LoadedTask
  <2>. QED
    BY <1>1, <1>2, <2>1, <2>3, Stutters
<1>5. CASE runState[r] \notin {"new", "gone", "interrupted"} /\ journal[r].state \notin RunTerminal
  <2>1. runState'[r] = "interrupted"
    BY <1>0, <1>1, <1>3, <1>5 DEF LoadedRun, EndIsKept
  <2>2. runState[r] \in {"running", "paused", "cancelling", "succeeded", "partial_failure", "failed",
                         "cancelled"}
    BY <1>0, <1>5 DEF Lifecycle, TypeOK, RunStates, RunTerminal
  <2>3. \A t \in Task : taskState[r][t] \in TaskStates
    BY <1>0 DEF TypeOK
  <2>4. ASSUME NEW t \in Task
        PROVE  Seen(taskState'[r][t]) = IF Seen(taskState[r][t]) \in {"waiting", "working"} THEN "dropped"
                                        ELSE Seen(taskState[r][t])
    BY <1>1, <2>3 DEF Seen, LoadedTask, TaskStates, TaskTerminal
  <2>5. Promise(r)!Interrupt
    BY <1>1, <2>1, <2>2, <2>4 DEF Promise!Interrupt, Promise!Verdicts, Status
  <2>. QED
    BY <2>5 DEF KeepsPromise, Promise!ContractStep, Promise!ContractNext
<1>. QED
  BY <1>4, <1>5

-----------------------------------------------------------------------------
LEMMA StepKeepsPromise ==
  ASSUME TypeOK, TypeOK', GraphInv, JournalInv, EarnedInv, EndInv, [Next]_vars, NEW r \in GraphRun
  PROVE  KeepsPromise(r)
<1>1. ASSUME NEW q \in Run, Requester(q) PROVE KeepsPromise(r)
  BY <1>1, CallsKeep
<1>2. ASSUME NEW q \in Run, Planner(q) PROVE KeepsPromise(r)
  BY <1>2, PlannerKeeps
<1>3. CASE SchedulerPass
  BY <1>3, PassKeeps
<1>4. CASE \E q \in Run, t \in Task : BackoffElapses(q, t)
  BY <1>4, Stutters DEF BackoffElapses, runVars
<1>5. ASSUME NEW w \in Worker, NEW q \in Run, NEW t \in Task, Execution(w, q, t)
      PROVE  KeepsPromise(r)
  BY <1>5, ExecutionKeeps
<1>6. CASE Restart
  BY <1>6, RestartKeeps
<1>7. CASE UNCHANGED vars
  BY <1>7, Stutters DEF vars, runVars, taskVars
<1>. QED
  BY <1>1, <1>2, <1>3, <1>4, <1>5, <1>6, <1>7 DEF Next

\* Every submitted graph begins as RunContract says, and each step of the
\* system is, for that graph, a step of the contract or none: the requesters,
\* the planner, the scheduler, the pool and the restarts, in whatever order,
\* show its requester nothing else (orchestration.py, OrchestrationManager).
THEOREM RunsKeepTheirContract == Spec => ImplementsRunContract
<1>1. Init => \A r \in GraphRun : Promise(r)!Begun
  <2>. SUFFICES ASSUME Init, NEW r \in GraphRun PROVE Promise(r)!Begun
    OBVIOUS
  <2>1. /\ r \in Run /\ runState[r] = "new" /\ cancelled[r] = FALSE
        /\ \A t \in Task : taskState[r][t] = "none"
    BY ConstantsAssumption DEF Init, NoTasks
  <2>. QED
    BY <2>1 DEF Promise!Begun, Status, Seen
<1>2. TypeOK /\ TypeOK' /\ GraphInv /\ JournalInv /\ EarnedInv /\ EndInv /\ [Next]_vars
        => \A r \in GraphRun : KeepsPromise(r)
  BY StepKeepsPromise
<1>. QED
  BY <1>1, <1>2, TypeCorrect, GraphInvariant, JournalInvariant, EarnedInvariant, WrittenEndStays, PTL
     DEF Spec, ImplementsRunContract
=============================================================================
