--------------------------- MODULE Orchestration ---------------------------
(***************************************************************************)
(* OrchestrationManager (src/src/iras/orchestration.py): the supervisor of *)
(* multi-agent runs.  A run is a DAG of tasks; a scheduler thread, a pool  *)
(* of worker threads and one planner thread advance it while requesters    *)
(* submit, pause, resume and cancel.  Every critical section of the code   *)
(* (with self._lock / self._condition) is one action here, with the        *)
(* _persist_locked call that ends it; the runner and the planner execute   *)
(* outside the lock, between two actions.  Crash is a restart of the       *)
(* process from the journal.                                               *)
(***************************************************************************)
EXTENDS Naturals, FiniteSets

CONSTANTS
  Run,          \* run ids, numbered in order of creation (uuid4 in the code)
  GraphRun,     \* the runs submitted with submit_graph; the others are
                \* submitted with submit_objective and need a planner
  Strict,       \* runs submitted as coding_agent or software_installer
  Task,         \* task ids, numbered in the order _ready_tasks_locked sorts
  Deps,         \* depends_on of every task
  Coordinator,  \* the tasks whose role is coordinator
  Tolerant,     \* the tasks with continue_on_failure
  Worker,       \* the threads of the pool: max_workers of them
  Idle,         \* what a worker or the planner holds between two jobs
  MaxRetries,   \* max_retries of every task
  WaitKind,     \* the two infrastructure waits: "device" and "provider"
  MaxWaits,     \* how many waits fit in a wait budget (seconds in the code)
  MaxActive,    \* max_active_runs_per_requester, for the one requester
  Retained,     \* retained_runs
  MaxCrashes,   \* bound: restarts of the process
  MaxResumes    \* bound: resume calls that take effect, over all runs

ASSUME ConstantsAssumption ==
  /\ Run \subseteq Nat /\ IsFiniteSet(Run)
  /\ GraphRun \subseteq Run /\ Strict \subseteq Run
  /\ Task \subseteq Nat /\ IsFiniteSet(Task) /\ Task # {}
  /\ Deps \in [Task -> SUBSET Task]
  /\ Coordinator \subseteq Task /\ Tolerant \subseteq Task
  /\ IsFiniteSet(Worker) /\ Worker # {}
  /\ Idle \notin Run /\ Idle \notin Run \X Task
  /\ MaxRetries \in Nat /\ MaxWaits \in Nat
  /\ MaxActive \in Nat /\ Retained \in Nat /\ MaxActive <= Retained
  /\ MaxCrashes \in Nat /\ MaxResumes \in Nat

VARIABLES
  runState, paused, cancelled, resumeRequired, outcome,   \* OrchestrationRun
  strict,     \* its context says coding_agent or software_installer
  taskState, attempts, waits, delayed,                    \* GraphTaskRecord
  submitted,  \* executions handed to the pool that no thread has begun
  worker,     \* the execution each thread of the pool is running
  planQueue, planner,   \* the same for the planner's pool of one thread
  journal,    \* the checkpoint _persist_locked wrote last
  crashes, resumes      \* bound counters

runVars == <<runState, paused, cancelled, resumeRequired, outcome, strict>>
taskVars == <<taskState, attempts, waits, delayed>>
poolVars == <<submitted, worker>>
planVars == <<planQueue, planner>>
vars == <<runVars, taskVars, poolVars, planVars, journal, crashes, resumes>>

TaskTerminal == {"succeeded", "failed", "cancelled", "blocked", "interrupted"}
RunTerminal == {"succeeded", "partial_failure", "failed", "cancelled", "interrupted"}
\* "none": run.tasks is still empty.  "new" and "gone": no such run in _runs.
TaskStates == TaskTerminal \cup {"none", "queued", "running"}
RunStates == RunTerminal \cup {"new", "planning", "running", "paused", "cancelling", "gone"}
Outcomes == {"", "complete", "incomplete", "failed"}

Known(r) == runState[r] \notin {"new", "gone"}
HasTasks(r) == \A t \in Task : taskState[r][t] # "none"

NoTasks == [t \in Task |-> "none"]
FreshTasks == [t \in Task |-> "queued"]
NoWaits == [t \in Task |-> [k \in WaitKind |-> 0]]
Zero == [t \in Task |-> 0]
NotDelayed == [t \in Task |-> FALSE]

Init ==
  /\ runState = [r \in Run |-> "new"]
  /\ paused = [r \in Run |-> FALSE]
  /\ cancelled = [r \in Run |-> FALSE]
  /\ resumeRequired = [r \in Run |-> FALSE]
  /\ outcome = [r \in Run |-> ""]
  /\ strict = [r \in Run |-> r \in Strict]
  /\ taskState = [r \in Run |-> NoTasks]
  /\ attempts = [r \in Run |-> Zero]
  /\ waits = [r \in Run |-> NoWaits]
  /\ delayed = [r \in Run |-> NotDelayed]
  /\ submitted = [r \in Run |-> Zero]
  /\ worker = [w \in Worker |-> Idle]
  /\ planQueue = [r \in Run |-> 0]
  /\ planner = Idle
  /\ journal = [r \in Run |-> [state |-> "new", cancelled |-> FALSE, outcome |-> "",
                               tasks |-> NoTasks, attempts |-> Zero]]
  /\ crashes = 0
  /\ resumes = 0

-----------------------------------------------------------------------------
(***************************************************************************)
(* Slips one could make in the code, each the faulty twin of a definition  *)
(* below: a property of a run is violated when the twin takes its place.   *)
(***************************************************************************)
SettledUnlessRunning(ts) == \A t \in Task : ts[t] # "queued"
PersistRunsOnly == journal' = [r \in Run |-> [journal[r] EXCEPT !.state = runState'[r]]]
VerdictOfCoordinator(r, ts, out) == IF out = "" THEN "succeeded" ELSE out
VerdictOfTasks(r, ts, out) ==
  IF \E t \in Task : ts[t] \in {"failed", "blocked"} THEN "partial_failure" ELSE "succeeded"
ReadyEarly(r, ts, t) ==
  ts[t] = "queued" /\ ~ delayed[r][t]
  /\ ((\E d \in Deps[t] : ts[d] \in TaskTerminal \ {"succeeded"}) => t \in Tolerant)
ResumableAlways(r) == runState[r] \notin {"new", "gone"}
UnfinishedOrNot(st) == st # "none"
HasFailedOrRuns(r) == runState[r] \in {"failed", "partial_failure", "running"}
WantedUnlessPaused(r, t) == ~ cancelled[r] /\ ~ paused[r] /\ taskState[r][t] # "none"
MayRetryOnceMore(r, t) == attempts[r][t] <= MaxRetries + 1
LoadedRunPaused(st) == IF st \in RunTerminal \cup {"new", "gone"} THEN st ELSE "paused"

-----------------------------------------------------------------------------
(***************************************************************************)
(* The helpers every critical section shares.                              *)
(***************************************************************************)

\* all(task.state in TERMINAL_TASK_STATES for task in run.tasks.values())
Settled(ts) == \A t \in Task : ts[t] \in TaskTerminal \cup {"none"}

\* _persist_locked: the whole of _runs, as it is when the section ends.
Persist ==
  journal' = [r \in Run |-> [state |-> runState'[r], cancelled |-> cancelled'[r],
                             outcome |-> outcome'[r], tasks |-> taskState'[r],
                             attempts |-> attempts'[r]]]

\* The verdict of _refresh_run_state_locked on a run whose tasks are settled.
Verdict(r, ts, out) ==
  LET worked == {ts[t] : t \in Task \ Coordinator}
  IN  IF worked # {} /\ "succeeded" \notin worked THEN "failed"
      ELSE IF worked \cap {"failed", "blocked"} # {} THEN "partial_failure"
      ELSE IF "cancelled" \in worked THEN "cancelled"
      ELSE IF out = "failed" THEN "failed"
      ELSE IF out = "incomplete" THEN "partial_failure"
      ELSE IF strict[r] /\ out # "complete" THEN "partial_failure"
      ELSE "succeeded"

\* _refresh_run_state_locked, on the task states and outcome the section leaves.
Refreshed(r, ts, out) ==
  IF cancelled[r] THEN (IF Settled(ts) THEN "cancelled" ELSE "cancelling")
  ELSE IF paused[r] THEN "paused"
  ELSE IF ts = NoTasks THEN runState[r]
  ELSE IF ~ Settled(ts) THEN "running"
  ELSE Verdict(r, ts, out)

\* _dependency_snapshot
DepsDone(ts, t) == \A d \in Deps[t] : ts[d] \in TaskTerminal
DepFailed(ts, t) == \E d \in Deps[t] : ts[d] # "succeeded"

\* _ready_tasks_locked: next_eligible_at has passed and the dependencies allow it.
Ready(r, ts, t) ==
  /\ ts[t] = "queued" /\ ~ delayed[r][t]
  /\ DepsDone(ts, t)
  /\ DepFailed(ts, t) => t \in Tolerant

\* _mark_blocked_locked walks the tasks once, in the order the plan lists them:
\* a task whose failed dependency is blocked by the same walk is blocked too
\* when it is listed later.  B is the set blocked; the order is left open.
BlockedBy(r, B) ==
  LET ts == [t \in Task |-> IF t \in B THEN "blocked" ELSE taskState[r][t]]
      hopeless(f, t) == DepsDone(f, t) /\ DepFailed(f, t) /\ t \notin Tolerant
  IN  /\ \A t \in B : taskState[r][t] = "queued" /\ hopeless(ts, t)
      /\ \A t \in Task : taskState[r][t] = "queued" /\ hopeless(taskState[r], t) => t \in B

\* _prune_locked: beyond Retained runs, the oldest finished ones are forgotten.
Pruned(st) ==
  LET present == {r \in Run : st[r] \notin {"new", "gone"}}
      finished == {r \in present : st[r] \in RunTerminal}
      older(r) == Cardinality({q \in finished : q < r})
  IN  [r \in Run |-> IF r \in finished /\ Retained + older(r) < Cardinality(present)
                     THEN "gone" ELSE st[r]]

\* _ensure_capacity_locked
HasCapacity ==
  Cardinality({r \in Run : Known(r) /\ runState[r] \notin RunTerminal}) < MaxActive

NextId(r) == runState[r] = "new" /\ \A q \in Run : q < r => runState[q] # "new"

-----------------------------------------------------------------------------
(***************************************************************************)
(* The requester's calls.                                                  *)
(***************************************************************************)

SubmitGraph(r) ==
  /\ r \in GraphRun /\ NextId(r) /\ HasCapacity
  /\ runState' = Pruned([runState EXCEPT ![r] = "running"])
  /\ taskState' = [taskState EXCEPT ![r] = FreshTasks]
  /\ UNCHANGED <<paused, cancelled, resumeRequired, outcome, strict, attempts, waits, delayed,
                 poolVars, planVars, crashes, resumes>>
  /\ Persist

SubmitObjective(r) ==
  /\ r \notin GraphRun /\ NextId(r) /\ HasCapacity
  /\ runState' = Pruned([runState EXCEPT ![r] = "planning"])
  /\ planQueue' = [planQueue EXCEPT ![r] = @ + 1]
  /\ UNCHANGED <<paused, cancelled, resumeRequired, outcome, strict, taskVars,
                 poolVars, planner, crashes, resumes>>
  /\ Persist

\* Before the planner answers, a paused run keeps the state "planning".
Pause(r) ==
  /\ Known(r) /\ runState[r] \notin RunTerminal
  /\ paused' = [paused EXCEPT ![r] = TRUE]
  /\ runState' = [runState EXCEPT ![r] = IF @ = "planning" THEN @ ELSE "paused"]
  /\ UNCHANGED <<cancelled, resumeRequired, outcome, strict, taskVars, poolVars, planVars,
                 crashes, resumes>>
  /\ Persist

\* The common end of resume: go on running, or ask the planner (again).
Continue(r) ==
  /\ paused' = [paused EXCEPT ![r] = FALSE]
  /\ runState' = [runState EXCEPT ![r] = IF HasTasks(r) THEN "running" ELSE "planning"]
  /\ planQueue' = IF HasTasks(r) THEN planQueue ELSE [planQueue EXCEPT ![r] = @ + 1]
  /\ resumes < MaxResumes /\ resumes' = resumes + 1
  /\ UNCHANGED <<cancelled, poolVars, planner, crashes>>
  /\ Persist

Resumable(r) == Known(r) /\ ~ cancelled[r]
AfterRestart(r) == runState[r] = "interrupted" \/ resumeRequired[r]

\* context_update: the resume of the workflow the run belongs to (/v1/coding-agent,
\* /v1/software-installer) says so again, the one of /v1/orchestration does not.
ContextUpdated(r) ==
  strict' = strict \/ (r \in Strict /\ strict' = [strict EXCEPT ![r] = TRUE])

\* What a resume after a restart queues again: only what has not completed.
Unfinished(st) == st \in {"interrupted", "blocked"}

\* resume of a run the restart interrupted.
ResumeRestarted(r) ==
  LET again(t) == Unfinished(taskState[r][t])
  IN  /\ Resumable(r) /\ AfterRestart(r)
      /\ taskState' = [taskState EXCEPT ![r] =
                         [t \in Task |-> IF again(t) THEN "queued" ELSE @[t]]]
      /\ delayed' = [delayed EXCEPT ![r] = [t \in Task |-> ~ again(t) /\ @[t]]]
      /\ resumeRequired' = [resumeRequired EXCEPT ![r] = FALSE]
      /\ outcome' = [outcome EXCEPT ![r] = ""]
      /\ UNCHANGED <<attempts, waits>>
      /\ ContextUpdated(r)
      /\ Continue(r)

\* The runs resume(retry_failed=True) requeues the failed tasks of.
HasFailed(r) == runState[r] \in {"failed", "partial_failure"}

\* resume(retry_failed=True) of a run that failed: the coordinator always runs again.
\* Only /v1/orchestration asks for it.
RetryFailed(r) ==
  LET again(t) == t \in Coordinator \/ taskState[r][t] \in {"failed", "blocked", "interrupted"}
      empty == taskState[r] = NoTasks
  IN  /\ Resumable(r) /\ ~ AfterRestart(r)
      /\ HasFailed(r)
      /\ taskState' = IF empty THEN taskState ELSE
                      [taskState EXCEPT ![r] =
                         [t \in Task |-> IF again(t) THEN "queued" ELSE @[t]]]
      /\ delayed' = [delayed EXCEPT ![r] = [t \in Task |-> ~ again(t) /\ @[t]]]
      /\ waits' = [waits EXCEPT ![r] =
                     [t \in Task |-> IF again(t) THEN [k \in WaitKind |-> 0] ELSE @[t]]]
      /\ outcome' = [outcome EXCEPT ![r] = ""]
      /\ UNCHANGED <<attempts, resumeRequired, strict>>
      /\ Continue(r)

\* Any other resume: of a paused run, but also of one that runs or is planned.
ResumeActive(r) ==
  /\ Resumable(r) /\ ~ AfterRestart(r) /\ runState[r] \notin RunTerminal
  /\ UNCHANGED <<taskVars, resumeRequired, outcome>>
  /\ ContextUpdated(r)
  /\ Continue(r)

\* resume of a run that ended only updates its context, and writes no checkpoint.
ResumeRefused(r) ==
  /\ Resumable(r) /\ ~ AfterRestart(r) /\ runState[r] \in RunTerminal
  /\ ContextUpdated(r) /\ strict' # strict
  /\ UNCHANGED <<runState, paused, cancelled, resumeRequired, outcome, taskVars, poolVars,
                 planVars, journal, crashes, resumes>>

Cancel(r) ==
  LET ts == [t \in Task |-> IF taskState[r][t] = "queued" THEN "cancelled"
                                                          ELSE taskState[r][t]]
  IN  /\ Known(r) /\ runState[r] \notin RunTerminal
      /\ cancelled' = [cancelled EXCEPT ![r] = TRUE]
      /\ paused' = [paused EXCEPT ![r] = FALSE]
      /\ taskState' = [taskState EXCEPT ![r] = ts]
      /\ runState' = [runState EXCEPT ![r] = IF Settled(ts) THEN "cancelled" ELSE "cancelling"]
      /\ UNCHANGED <<resumeRequired, outcome, strict, attempts, waits, delayed, poolVars, planVars,
                     crashes, resumes>>
      /\ Persist

-----------------------------------------------------------------------------
(***************************************************************************)
(* _plan_run, on the planner's only thread: two critical sections around   *)
(* the call of the planner.  (The queue is FIFO in the code.)              *)
(***************************************************************************)

PlanBegin(r) ==
  /\ planner = Idle /\ planQueue[r] > 0
  /\ planQueue' = [planQueue EXCEPT ![r] = @ - 1]
  /\ planner' = IF Known(r) /\ ~ cancelled[r] THEN r ELSE Idle
  /\ UNCHANGED <<runVars, taskVars, poolVars, journal, crashes, resumes>>

\* The planner raised, or its graph did not validate.
PlanFail(r) ==
  /\ planner = r /\ planner' = Idle
  /\ IF Known(r)
     THEN /\ runState' = [runState EXCEPT ![r] = "failed"]
          /\ UNCHANGED <<paused, cancelled, resumeRequired, outcome, strict, taskVars>>
          /\ Persist
     ELSE UNCHANGED <<runVars, taskVars, journal>>
  /\ UNCHANGED <<poolVars, planQueue, crashes, resumes>>

PlanReady(r) ==
  /\ planner = r /\ planner' = Idle
  /\ IF Known(r) /\ ~ cancelled[r]
     THEN /\ taskState' = [taskState EXCEPT ![r] = FreshTasks]
          /\ attempts' = [attempts EXCEPT ![r] = Zero]
          /\ waits' = [waits EXCEPT ![r] = NoWaits]
          /\ delayed' = [delayed EXCEPT ![r] = NotDelayed]
          /\ runState' = [runState EXCEPT ![r] = IF paused[r] THEN "paused" ELSE "running"]
          /\ UNCHANGED <<paused, cancelled, resumeRequired, outcome, strict>>
          /\ Persist
     ELSE UNCHANGED <<runVars, taskVars, journal>>
  /\ UNCHANGED <<poolVars, planQueue, crashes, resumes>>

-----------------------------------------------------------------------------
(***************************************************************************)
(* One pass of _scheduler_loop.                                            *)
(***************************************************************************)

Schedulable(r) ==
  Known(r) /\ runState[r] \notin RunTerminal \cup {"planning"} /\ ~ cancelled[r]

RunningTasks == {x \in Run \X Task : Known(x[1]) /\ taskState[x[1]][x[2]] = "running"}
Free == IF Cardinality(RunningTasks) < Cardinality(Worker)
        THEN Cardinality(Worker) - Cardinality(RunningTasks) ELSE 0

\* Runs in order of creation, the tasks of a run in the order of their numbers.
Before(x, y) == x[1] < y[1] \/ (x[1] = y[1] /\ x[2] < y[2])

\* S is what the pass starts out of the ready tasks R: the first Free of them.
StartsFirst(S, R) ==
  /\ S \subseteq R /\ Cardinality(S) <= Free
  /\ S = R \/ Cardinality(S) = Free
  /\ \A x \in S, y \in R \ S : Before(x, y)

\* What _mark_blocked_locked leaves of the task states, and the tasks that are
\* ready then, of all runs the pass looks at.
Blocked(B) == [r \in Run |-> [t \in Task |->
                 IF t \in B[r] THEN "blocked" ELSE taskState[r][t]]]
ReadyAfter(B) == {x \in Run \X Task : /\ Schedulable(x[1]) /\ ~ paused[x[1]]
                                       /\ Ready(x[1], Blocked(B)[x[1]], x[2])}

\* The pass that blocks the tasks B and starts the tasks S.
PassStarts(B, S) ==
  /\ taskState' = [r \in Run |-> [t \in Task |->
                     IF <<r, t>> \in S THEN "running" ELSE Blocked(B)[r][t]]]
  /\ attempts' = [r \in Run |-> [t \in Task |->
                    IF <<r, t>> \in S THEN attempts[r][t] + 1 ELSE attempts[r][t]]]
  /\ submitted' = [r \in Run |-> [t \in Task |->
                     IF <<r, t>> \in S THEN submitted[r][t] + 1 ELSE submitted[r][t]]]
  /\ runState' = [r \in Run |-> IF Schedulable(r)
                    THEN Refreshed(r, taskState'[r], outcome[r]) ELSE runState[r]]
  /\ UNCHANGED <<paused, cancelled, resumeRequired, outcome, strict, waits, delayed, worker,
                 planVars, crashes, resumes>>
  /\ IF S = {} /\ \A r \in Run : B[r] = {} THEN UNCHANGED journal ELSE Persist

SchedulerPass ==
  \E B \in [Run -> SUBSET Task] :
    /\ \A r \in Run : IF Schedulable(r) THEN BlockedBy(r, B[r]) ELSE B[r] = {}
    /\ \E S \in SUBSET ReadyAfter(B) : StartsFirst(S, ReadyAfter(B)) /\ PassStarts(B, S)

\* time.monotonic() reaches next_eligible_at.
BackoffElapses(r, t) ==
  /\ delayed[r][t]
  /\ delayed' = [delayed EXCEPT ![r][t] = FALSE]
  /\ UNCHANGED <<runVars, taskState, attempts, waits, poolVars, planVars, journal,
                 crashes, resumes>>

-----------------------------------------------------------------------------
(***************************************************************************)
(* _execute_task, on a thread of the pool: the section that begins it,     *)
(* the runner outside the lock, and the section that records its end.      *)
(***************************************************************************)

\* The run and the record still exist, and nobody cancelled the run.
Wanted(r, t) == Known(r) /\ ~ cancelled[r] /\ taskState[r][t] # "none"

\* The early return leaves the record as the scheduler made it.
ExecBegin(w, r, t) ==
  /\ worker[w] = Idle /\ submitted[r][t] > 0
  /\ submitted' = [submitted EXCEPT ![r][t] = @ - 1]
  /\ worker' = IF Wanted(r, t) THEN [worker EXCEPT ![w] = <<r, t>>] ELSE worker
  /\ UNCHANGED <<runVars, taskVars, planVars, journal, crashes, resumes>>

\* What both ends of an execution share; st is the record's new state.
Finish(w, r, t, st) ==
  /\ worker[w] = <<r, t>> /\ worker' = [worker EXCEPT ![w] = Idle]
  /\ Known(r)
  /\ taskState' = [taskState EXCEPT ![r][t] = st]
  /\ runState' = [runState EXCEPT ![r] = Refreshed(r, taskState'[r], outcome'[r])]
  /\ UNCHANGED <<paused, cancelled, resumeRequired, strict, submitted, planVars, crashes, resumes>>
  /\ Persist

\* The run is no longer in _runs.
ExecForgotten(w, r, t) ==
  /\ worker[w] = <<r, t>> /\ worker' = [worker EXCEPT ![w] = Idle]
  /\ ~ Known(r)
  /\ UNCHANGED <<runVars, taskVars, submitted, planVars, journal, crashes, resumes>>

\* The run was cancelled meanwhile: whatever the runner did is discarded.
ExecCancelled(w, r, t) ==
  /\ cancelled[r]
  /\ UNCHANGED <<outcome, attempts, waits, delayed>>
  /\ Finish(w, r, t, "cancelled")

\* The runner returned and no blocker was inferred; the coordinator's text
\* also gives the run its verified_outcome.
ExecSucceeded(w, r, t) ==
  /\ ~ cancelled[r]
  /\ \E out \in Outcomes :
       outcome' = IF t \in Coordinator THEN [outcome EXCEPT ![r] = out] ELSE outcome
  /\ UNCHANGED <<attempts, waits, delayed>>
  /\ Finish(w, r, t, "succeeded")

\* _infer_task_blocker: the worker of a strict run reports a hard blocker.
ExecBlocked(w, r, t) ==
  /\ ~ cancelled[r] /\ strict[r] /\ t \notin Coordinator
  /\ UNCHANGED <<outcome, attempts, waits, delayed>>
  /\ Finish(w, r, t, "failed")

\* The device or every provider is unavailable: wait and do not count the attempt.
ExecWaits(w, r, t) ==
  /\ ~ cancelled[r]
  /\ \E k \in WaitKind :
       /\ waits[r][t][k] < MaxWaits
       /\ waits' = [waits EXCEPT ![r][t][k] = @ + 1]
  /\ attempts' = [attempts EXCEPT ![r][t] = IF @ > 0 THEN @ - 1 ELSE 0]
  /\ delayed' = [delayed EXCEPT ![r][t] = TRUE]
  /\ UNCHANGED outcome
  /\ Finish(w, r, t, "queued")

MayRetry(r, t) == attempts[r][t] <= MaxRetries

\* Any other exception, or a wait whose budget is spent.
ExecRetries(w, r, t) ==
  /\ ~ cancelled[r] /\ MayRetry(r, t)
  /\ delayed' = [delayed EXCEPT ![r][t] = TRUE]
  /\ UNCHANGED <<outcome, attempts, waits>>
  /\ Finish(w, r, t, "queued")

ExecFails(w, r, t) ==
  /\ ~ cancelled[r] /\ ~ MayRetry(r, t)
  /\ UNCHANGED <<outcome, attempts, waits, delayed>>
  /\ Finish(w, r, t, "failed")

ExecEnd(w, r, t) ==
  \/ ExecForgotten(w, r, t)
  \/ ExecCancelled(w, r, t)
  \/ ExecSucceeded(w, r, t)
  \/ ExecBlocked(w, r, t)
  \/ ExecWaits(w, r, t)
  \/ ExecRetries(w, r, t)
  \/ ExecFails(w, r, t)

-----------------------------------------------------------------------------
(***************************************************************************)
(* The process stops between two critical sections and starts again:       *)
(* _load_journal_history rebuilds _runs from the last checkpoint; both     *)
(* pools, their queues and every next_eligible_at are lost, and of the     *)
(* context _safe_checkpoint_context keeps neither of the strict flags.     *)
(***************************************************************************)

LoadedTask(st) == IF st \in TaskTerminal \cup {"none"} THEN st ELSE "interrupted"
LoadedRun(st) == IF st \in RunTerminal \cup {"new", "gone"} THEN st ELSE "interrupted"

Restart ==
  /\ crashes < MaxCrashes /\ crashes' = crashes + 1
  /\ runState' = [r \in Run |-> LoadedRun(journal[r].state)]
  /\ resumeRequired' = [r \in Run |-> LoadedRun(journal[r].state) # journal[r].state]
  /\ paused' = [r \in Run |-> FALSE]
  /\ cancelled' = [r \in Run |-> journal[r].cancelled]
  /\ outcome' = [r \in Run |-> journal[r].outcome]
  /\ strict' = [r \in Run |-> r \in Strict /\ journal[r].state = "new"]
  /\ taskState' = [r \in Run |-> [t \in Task |-> LoadedTask(journal[r].tasks[t])]]
  /\ attempts' = [r \in Run |-> journal[r].attempts]
  /\ waits' = [r \in Run |-> NoWaits]
  /\ delayed' = [r \in Run |-> NotDelayed]
  /\ submitted' = [r \in Run |-> Zero]
  /\ worker' = [w \in Worker |-> Idle]
  /\ planQueue' = [r \in Run |-> 0]
  /\ planner' = Idle
  /\ UNCHANGED <<journal, resumes>>

-----------------------------------------------------------------------------
Resume(r) == ResumeRestarted(r) \/ RetryFailed(r) \/ ResumeActive(r) \/ ResumeRefused(r)

Requester(r) ==
  \/ SubmitGraph(r)
  \/ SubmitObjective(r)
  \/ Pause(r)
  \/ Resume(r)
  \/ Cancel(r)

Planner(r) == PlanBegin(r) \/ PlanFail(r) \/ PlanReady(r)

Execution(w, r, t) == ExecBegin(w, r, t) \/ ExecEnd(w, r, t)

Next ==
  \/ \E r \in Run : Requester(r) \/ Planner(r)
  \/ SchedulerPass
  \/ \E r \in Run, t \in Task : BackoffElapses(r, t)
  \/ \E w \in Worker, r \in Run, t \in Task : Execution(w, r, t)
  \/ Restart

Spec == Init /\ [][Next]_vars

\* The scheduler thread loops, the pools take what they are handed, the runner
\* and the planner return (both are bounded by step budgets and timeouts) and
\* time passes.  Nothing is assumed of the requester, nor of restarts.
Fairness ==
  /\ WF_vars(SchedulerPass)
  /\ \A r \in Run : WF_vars(Planner(r))
  /\ \A r \in Run, t \in Task :
       /\ WF_vars(BackoffElapses(r, t))
       /\ WF_vars(\E w \in Worker : ExecBegin(w, r, t))
       /\ \A w \in Worker : WF_vars(ExecEnd(w, r, t))

FairSpec == Spec /\ Fairness

-----------------------------------------------------------------------------
(***************************************************************************)
(* What is claimed of it.                                                  *)
(***************************************************************************)

JournalEntry == [state : RunStates, cancelled : BOOLEAN, outcome : Outcomes,
                 tasks : [Task -> TaskStates], attempts : [Task -> Nat]]

\* The type invariant: the states, counters and pool slots the code can hold.
TypeOK ==
  /\ runState \in [Run -> RunStates]
  /\ paused \in [Run -> BOOLEAN]
  /\ cancelled \in [Run -> BOOLEAN]
  /\ resumeRequired \in [Run -> BOOLEAN]
  /\ outcome \in [Run -> Outcomes]
  /\ strict \in [Run -> BOOLEAN]
  /\ taskState \in [Run -> [Task -> TaskStates]]
  /\ attempts \in [Run -> [Task -> Nat]]
  /\ waits \in [Run -> [Task -> [WaitKind -> Nat]]]
  /\ delayed \in [Run -> [Task -> BOOLEAN]]
  /\ submitted \in [Run -> [Task -> Nat]]
  /\ worker \in [Worker -> (Run \X Task) \cup {Idle}]
  /\ planQueue \in [Run -> Nat]
  /\ planner \in Run \cup {Idle}
  /\ journal \in [Run -> JournalEntry]
  /\ crashes \in Nat /\ resumes \in Nat

Executing(r, t) == \E w \in Worker : worker[w] = <<r, t>>
InFlight(r, t) == submitted[r][t] > 0 \/ Executing(r, t)

\* A task of a submitted graph never has two executions, queued or running,
\* whatever retries, pauses, resumes and restarts happened, and the record of
\* one that has an execution says "running" (_execute_task, _scheduler_loop).
OneExecution(r, t) ==
  /\ submitted[r][t] <= 1
  /\ \A v, w \in Worker : worker[v] = <<r, t>> /\ worker[w] = <<r, t>> => v = w
  /\ submitted[r][t] = 1 => ~ Executing(r, t)
  /\ InFlight(r, t) => taskState[r][t] = "running"
SingleExecution == \A r \in GraphRun, t \in Task : OneExecution(r, t)

\* Until the run is cancelled, a task that is recorded as running really has an
\* execution that will end it: no path of _execute_task forgets the record.
Carried(r, t) == taskState[r][t] = "running" /\ ~ cancelled[r] => InFlight(r, t)
NothingAbandoned == \A r \in GraphRun, t \in Task : Carried(r, t)

\* While a task runs, its dependencies are settled, and they all succeeded
\* unless it continues on failure: no resume or retry requeues a dependency
\* under a running dependent.
DepsAllow(r, t) ==
  taskState[r][t] = "running" =>
    /\ DepsDone(taskState[r], t)
    /\ DepFailed(taskState[r], t) => t \in Tolerant
DependenciesSettled == \A r \in GraphRun, t \in Task : DepsAllow(r, t)

\* How the state of a submitted graph and those of its tasks go together, in
\* memory and in the checkpoint: the planner never touches it, it has tasks
\* from its submission on, and once it has ended they are settled.
Lifecycle(r) ==
  /\ planQueue[r] = 0 /\ planner # r /\ runState[r] # "planning"
  /\ resumeRequired[r] => runState[r] \in {"interrupted", "gone"}
  /\ \A t \in Task :
       /\ taskState[r][t] = "none" <=> runState[r] = "new"
       /\ journal[r].tasks[t] = "none" <=> journal[r].state = "new"
       /\ runState[r] \in RunTerminal \cup {"gone"} => taskState[r][t] \in TaskTerminal

\* The inductive invariant of the submitted graphs.
GraphRunOK(r) ==
  /\ Lifecycle(r)
  /\ \A t \in Task : OneExecution(r, t) /\ Carried(r, t) /\ DepsAllow(r, t)
GraphInv == \A r \in GraphRun : GraphRunOK(r)

\* A run reported as terminal has nothing left to do: every task is settled,
\* so no execution is in flight either (_refresh_run_state_locked, cancel,
\* _load_journal_history).
TerminalIsSettled ==
  \A r \in GraphRun :
    runState[r] \in RunTerminal =>
      \A t \in Task : taskState[r][t] \in TaskTerminal /\ ~ InFlight(r, t)

\* A run is reported as succeeded only when every task but the coordinator
\* succeeded and the coordinator did not say otherwise; a strict run that lives
\* through no restart also needs its explicit OUTCOME: COMPLETE.
SuccessIsEarned ==
  \A r \in Run :
    runState[r] = "succeeded" =>
      /\ \A t \in Task \ Coordinator : taskState[r][t] = "succeeded"
      /\ outcome[r] \notin {"failed", "incomplete"}
      /\ r \in Strict /\ crashes = 0 => outcome[r] = "complete"

\* A task outside strict runs is given up only when its retry budget is spent,
\* and each resume grants at most one attempt beyond it; waiting for a device
\* or a provider costs none.
RetryBudget ==
  \A r \in GraphRun, t \in Task :
    /\ taskState[r][t] = "failed" /\ r \notin Strict => attempts[r][t] > MaxRetries
    /\ attempts[r][t] <= MaxRetries + 1 + resumes

\* Over all runs together, however they are planned again, retried or forgotten,
\* no more records say "running" than the pool has threads (_scheduler_loop).
WorkerBound == Cardinality(RunningTasks) <= Cardinality(Worker)

\* The checkpoint is never behind on tasks: a crash at any moment restores
\* every settled task as it was and interrupts exactly the others.
JournalIsCurrent ==
  \A r \in Run, t \in Task :
    LoadedTask(journal[r].tasks[t]) = LoadedTask(taskState[r][t])

\* A succeeded task of a submitted graph is never undone, not by a restart, a
\* resume or a late worker; only Retry Failed runs the coordinator again.
PreservesCompleted(R) ==
  \A r \in R, t \in Task :
    taskState[r][t] = "succeeded" =>
      \/ taskState'[r][t] = "succeeded"
      \/ t \in Coordinator /\ RetryFailed(r)
CompletedPreserved == [][PreservesCompleted(GraphRun)]_vars

\* What the requester of a run sees of a task and of the run, which is what
\* RunContract speaks of.
Seen(st) ==
  IF st = "queued" THEN "waiting" ELSE IF st = "running" THEN "working"
  ELSE IF st \in {"none", "succeeded"} THEN st ELSE "dropped"
Status(st) == IF st \in {"running", "paused", "cancelling"} THEN "open" ELSE st
Promise(r) == INSTANCE RunContract
  WITH status <- Status(runState[r]), progress <- [t \in Task |-> Seen(taskState[r][t])],
       withdrawn <- cancelled[r]
KeepsPromise(r) == Promise(r)!ContractStep

\* Each submitted graph behaves as RunContract says, whatever its requester, the
\* planner, the scheduler, the pool, the other runs and restarts do.
ImplementsRunContract ==
  /\ \A r \in GraphRun : Promise(r)!Begun
  /\ [][\A r \in GraphRun : KeepsPromise(r)]_vars

\* Cancel is final for every run: no task of a cancelled run starts, is queued,
\* succeeds or fails any more, across restarts too.
CancelIsFinal ==
  [][\A r \in Run : cancelled[r] =>
       /\ cancelled'[r]
       /\ \A t \in Task : taskState'[r][t] \in {taskState[r][t], "cancelled", "interrupted"}]_vars

Ended(r) == runState[r] \in RunTerminal \cup {"gone"}

\* As long as nobody cancels anything, every run ends or is left paused.
RunsFinish ==
  [](\A q \in Run : ~ cancelled[q]) =>
    \A r \in Run : Known(r) ~> (Ended(r) \/ paused[r])

\* A cancelled run reaches a terminal state.
CancelCompletes == \A r \in Run : cancelled[r] ~> Ended(r)

\* "Dedicated state-changing workflows fail closed when the coordinator did not
\* explicitly verify completion" (_refresh_run_state_locked), restarted or not.
StrictFailsClosed ==
  \A r \in Strict : runState[r] = "succeeded" => outcome[r] = "complete"

\* Completed nodes of every run, also of those the planner made, are kept.
CompletedNodesSurvive == [][PreservesCompleted(Run)]_vars
=============================================================================
