------------------------ MODULE OrchestrationProofs ------------------------
(***************************************************************************)
(* Proofs about Orchestration, for every number of runs, tasks, workers,   *)
(* retries, waits, resumes and restarts and every dependency graph.        *)
(***************************************************************************)
EXTENDS Orchestration, TLAPS, FiniteSetTheorems

-----------------------------------------------------------------------------
(***************************************************************************)
(* The helpers.                                                            *)
(***************************************************************************)

\* _refresh_run_state_locked only yields states of a run, and a terminal one
\* only when the run's tasks are settled.
LEMMA RefreshedStates ==
  ASSUME TypeOK, NEW r \in Run, NEW ts \in [Task -> TaskStates], NEW out \in Outcomes
  PROVE  /\ Refreshed(r, ts, out) \in RunStates
         /\ Refreshed(r, ts, out) \notin {"new", "gone"} \/ runState[r] \in {"new", "gone"}
         /\ Refreshed(r, ts, out) \in RunTerminal => Settled(ts) \/ ts = NoTasks
         /\ Refreshed(r, ts, out) = "planning" => ts = NoTasks
<1>1. Verdict(r, ts, out) \in RunTerminal
  BY DEF Verdict, RunTerminal
<1>. QED
  BY <1>1 DEF Refreshed, RunStates, RunTerminal, TypeOK

\* _prune_locked only forgets runs that ended.
LEMMA PrunedStates ==
  ASSUME NEW st \in [Run -> RunStates]
  PROVE  /\ Pruned(st) \in [Run -> RunStates]
         /\ \A r \in Run : Pruned(st)[r] = st[r] \/ (Pruned(st)[r] = "gone" /\ st[r] \in RunTerminal)
  BY DEF Pruned, RunStates, RunTerminal

\* A checkpoint of well-typed records is a well-typed journal.
LEMMA PersistType ==
  ASSUME Persist, runState' \in [Run -> RunStates], cancelled' \in [Run -> BOOLEAN],
         outcome' \in [Run -> Outcomes], taskState' \in [Run -> [Task -> TaskStates]],
         attempts' \in [Run -> [Task -> Nat]]
  PROVE  journal' \in [Run -> JournalEntry]
  BY DEF Persist, JournalEntry

\* One pass of the scheduler, for the blocked tasks B and the started tasks S it
\* picked: the form in which the proofs use SchedulerPass.
Pass(B, S) ==
  /\ \A r \in Run : IF Schedulable(r) THEN BlockedBy(r, B[r]) ELSE B[r] = {}
  /\ \A x \in S : /\ x \in Run \X Task
                  /\ Schedulable(x[1]) /\ ~ paused[x[1]]
                  /\ Ready(x[1], Blocked(B)[x[1]], x[2])
  /\ PassStarts(B, S)

LEMMA PassOf ==
  SchedulerPass => \E B \in [Run -> SUBSET Task], S \in SUBSET (Run \X Task) : Pass(B, S)
<1>. SUFFICES ASSUME SchedulerPass
              PROVE  \E B \in [Run -> SUBSET Task], S \in SUBSET (Run \X Task) : Pass(B, S)
  OBVIOUS
<1>1. PICK B \in [Run -> SUBSET Task] :
        /\ \A r \in Run : IF Schedulable(r) THEN BlockedBy(r, B[r]) ELSE B[r] = {}
        /\ \E S \in SUBSET ReadyAfter(B) : PassStarts(B, S)
  BY DEF SchedulerPass
<1>2. PICK S \in SUBSET ReadyAfter(B) : PassStarts(B, S)
  BY <1>1
<1>3. /\ S \in SUBSET (Run \X Task)
      /\ \A x \in S : /\ Schedulable(x[1]) /\ ~ paused[x[1]]
                      /\ Ready(x[1], Blocked(B)[x[1]], x[2])
  BY <1>2 DEF ReadyAfter
<1>4. Pass(B, S)
  BY <1>1, <1>2, <1>3 DEF Pass
<1>. QED
  BY <1>3, <1>4

-----------------------------------------------------------------------------
(***************************************************************************)
(* Type correctness.                                                       *)
(***************************************************************************)

LEMMA InitType == Init => TypeOK
<1>. SUFFICES ASSUME Init PROVE TypeOK
  OBVIOUS
<1>1. /\ NoTasks \in [Task -> TaskStates] /\ Zero \in [Task -> Nat]
      /\ NoWaits \in [Task -> [WaitKind -> Nat]] /\ NotDelayed \in [Task -> BOOLEAN]
  BY DEF NoTasks, Zero, NoWaits, NotDelayed, TaskStates
<1>2. /\ runState \in [Run -> RunStates] /\ outcome \in [Run -> Outcomes]
      /\ paused \in [Run -> BOOLEAN] /\ cancelled \in [Run -> BOOLEAN]
      /\ resumeRequired \in [Run -> BOOLEAN] /\ planQueue \in [Run -> Nat]
      /\ crashes \in Nat /\ resumes \in Nat
  BY DEF Init, RunStates, Outcomes
<1>3. strict \in [Run -> BOOLEAN]
  <2>1. \A r \in Run : (r \in Strict) = TRUE \/ (r \in Strict) = FALSE
    OBVIOUS
  <2>2. strict = [r \in Run |-> r \in Strict]
    BY DEF Init
  <2>. QED
    BY <2>1, <2>2
<1>4. /\ taskState \in [Run -> [Task -> TaskStates]] /\ attempts \in [Run -> [Task -> Nat]]
      /\ waits \in [Run -> [Task -> [WaitKind -> Nat]]]
      /\ delayed \in [Run -> [Task -> BOOLEAN]] /\ submitted \in [Run -> [Task -> Nat]]
  BY <1>1 DEF Init
<1>5. worker \in [Worker -> (Run \X Task) \cup {Idle}] /\ planner \in Run \cup {Idle}
  BY DEF Init
<1>6. journal \in [Run -> JournalEntry]
  BY <1>1 DEF Init, JournalEntry, RunStates, Outcomes
<1>. QED
  BY <1>2, <1>3, <1>4, <1>5, <1>6 DEF TypeOK

LEMMA ContinueType ==
  ASSUME TypeOK, NEW r \in Run, Continue(r),
         taskState' \in [Run -> [Task -> TaskStates]], outcome' \in [Run -> Outcomes],
         attempts' \in [Run -> [Task -> Nat]]
  PROVE  /\ paused' \in [Run -> BOOLEAN] /\ runState' \in [Run -> RunStates]
         /\ planQueue' \in [Run -> Nat] /\ resumes' \in Nat
         /\ cancelled' \in [Run -> BOOLEAN]
         /\ journal' \in [Run -> JournalEntry]
<1>1. /\ paused' \in [Run -> BOOLEAN] /\ runState' \in [Run -> RunStates]
      /\ planQueue' \in [Run -> Nat] /\ resumes' \in Nat
      /\ cancelled' \in [Run -> BOOLEAN]
  BY DEF Continue, TypeOK, RunStates
<1>. QED
  BY <1>1, PersistType DEF Continue

LEMMA FinishType ==
  ASSUME TypeOK, NEW w \in Worker, NEW r \in Run, NEW t \in Task, NEW st \in TaskStates,
         Finish(w, r, t, st), outcome' \in [Run -> Outcomes],
         attempts' \in [Run -> [Task -> Nat]]
  PROVE  /\ taskState' \in [Run -> [Task -> TaskStates]]
         /\ runState' \in [Run -> RunStates]
         /\ worker' \in [Worker -> (Run \X Task) \cup {Idle}]
         /\ journal' \in [Run -> JournalEntry]
<1>1. taskState' \in [Run -> [Task -> TaskStates]]
  BY DEF Finish, TypeOK
<1>2. Refreshed(r, taskState'[r], outcome'[r]) \in RunStates
  BY <1>1, RefreshedStates
<1>3. runState' \in [Run -> RunStates]
  BY <1>2 DEF Finish, TypeOK
<1>4. worker' \in [Worker -> (Run \X Task) \cup {Idle}]
  BY DEF Finish, TypeOK
<1>5. journal' \in [Run -> JournalEntry]
  BY <1>1, <1>3, PersistType DEF Finish, TypeOK
<1>. QED
  BY <1>1, <1>3, <1>4, <1>5

LEMMA StepType == TypeOK /\ [Next]_vars => TypeOK'
<1>. SUFFICES ASSUME TypeOK, [Next]_vars PROVE TypeOK'
  OBVIOUS
<1>1. ASSUME NEW r \in Run, SubmitGraph(r) PROVE TypeOK'
  <2>1. [runState EXCEPT ![r] = "running"] \in [Run -> RunStates]
    BY DEF TypeOK, RunStates
  <2>2. runState' \in [Run -> RunStates]
    BY <1>1, <2>1, PrunedStates DEF SubmitGraph
  <2>3. taskState' \in [Run -> [Task -> TaskStates]]
    BY <1>1 DEF SubmitGraph, TypeOK, FreshTasks, TaskStates
  <2>4. journal' \in [Run -> JournalEntry]
    BY <1>1, <2>2, <2>3, PersistType DEF SubmitGraph, TypeOK
  <2>. QED
    BY <1>1, <2>2, <2>3, <2>4 DEF SubmitGraph, TypeOK, poolVars, planVars
<1>2. ASSUME NEW r \in Run, SubmitObjective(r) PROVE TypeOK'
  <2>1. [runState EXCEPT ![r] = "planning"] \in [Run -> RunStates]
    BY DEF TypeOK, RunStates
  <2>2. runState' \in [Run -> RunStates]
    BY <1>2, <2>1, PrunedStates DEF SubmitObjective
  <2>3. journal' \in [Run -> JournalEntry]
    BY <1>2, <2>2, PersistType DEF SubmitObjective, TypeOK, taskVars
  <2>4. planQueue' \in [Run -> Nat]
    BY <1>2 DEF SubmitObjective, TypeOK
  <2>. QED
    BY <1>2, <2>2, <2>3, <2>4 DEF SubmitObjective, TypeOK, poolVars, taskVars
<1>3. ASSUME NEW r \in Run, Pause(r) PROVE TypeOK'
  <2>1. runState' \in [Run -> RunStates] /\ paused' \in [Run -> BOOLEAN]
    BY <1>3 DEF Pause, TypeOK, RunStates
  <2>2. journal' \in [Run -> JournalEntry]
    BY <1>3, <2>1, PersistType DEF Pause, TypeOK, taskVars
  <2>. QED
    BY <1>3, <2>1, <2>2 DEF Pause, TypeOK, poolVars, taskVars, planVars
<1>4. ASSUME NEW r \in Run, Resume(r) PROVE TypeOK'
  <2>0. ContextUpdated(r) => strict' \in [Run -> BOOLEAN]
    BY DEF ContextUpdated, TypeOK
  <2>1. CASE ResumeRestarted(r)
    <3>1. /\ taskState' \in [Run -> [Task -> TaskStates]]
          /\ delayed' \in [Run -> [Task -> BOOLEAN]]
          /\ resumeRequired' \in [Run -> BOOLEAN] /\ outcome' \in [Run -> Outcomes]
      BY <2>1 DEF ResumeRestarted, TypeOK, TaskStates, Outcomes
    <3>2. Continue(r) /\ ContextUpdated(r) /\ UNCHANGED <<attempts, waits>>
      BY <2>1 DEF ResumeRestarted
    <3>. QED
      BY <2>0, <3>1, <3>2, ContinueType DEF Continue, TypeOK, poolVars
  <2>2. CASE RetryFailed(r)
    <3>. DEFINE again(t) == \/ t \in Coordinator
                            \/ taskState[r][t] \in {"failed", "blocked", "interrupted"}
                queued == [t \in Task |-> IF again(t) THEN "queued" ELSE taskState[r][t]]
                still == [t \in Task |-> ~ again(t) /\ delayed[r][t]]
                rested == [t \in Task |-> IF again(t) THEN [k \in WaitKind |-> 0]
                                                      ELSE waits[r][t]]
    <3>1. /\ queued \in [Task -> TaskStates]
          /\ rested \in [Task -> [WaitKind -> Nat]]
      BY DEF TypeOK, TaskStates
    <3>2. still \in [Task -> BOOLEAN]
      BY Zenon
    <3>3. /\ taskState' = taskState \/ taskState' = [taskState EXCEPT ![r] = queued]
          /\ delayed' = [delayed EXCEPT ![r] = still]
          /\ waits' = [waits EXCEPT ![r] = rested]
          /\ outcome' = [outcome EXCEPT ![r] = ""]
      BY <2>2 DEF RetryFailed, TypeOK
    <3>. HIDE DEF queued, still, rested
    <3>4. /\ taskState' \in [Run -> [Task -> TaskStates]]
          /\ delayed' \in [Run -> [Task -> BOOLEAN]]
          /\ waits' \in [Run -> [Task -> [WaitKind -> Nat]]]
          /\ outcome' \in [Run -> Outcomes]
      <4>1. taskState' \in [Run -> [Task -> TaskStates]]
        BY <3>1, <3>3 DEF TypeOK
      <4>2. delayed' \in [Run -> [Task -> BOOLEAN]]
        BY <3>2, <3>3 DEF TypeOK
      <4>3. waits' \in [Run -> [Task -> [WaitKind -> Nat]]]
        BY <3>1, <3>3 DEF TypeOK
      <4>4. outcome' \in [Run -> Outcomes]
        BY <3>3 DEF TypeOK, Outcomes
      <4>. QED
        BY <4>1, <4>2, <4>3, <4>4
    <3>5. Continue(r) /\ UNCHANGED <<attempts, resumeRequired, strict>>
      BY <2>2 DEF RetryFailed
    <3>. QED
      BY <3>4, <3>5, ContinueType DEF Continue, TypeOK, poolVars
  <2>3. CASE ResumeActive(r)
    <3>1. Continue(r) /\ ContextUpdated(r) /\ UNCHANGED <<taskVars, resumeRequired, outcome>>
      BY <2>3 DEF ResumeActive
    <3>. QED
      BY <2>0, <3>1, ContinueType DEF Continue, TypeOK, poolVars, taskVars
  <2>4. CASE ResumeRefused(r)
    BY <2>0, <2>4 DEF ResumeRefused, TypeOK, taskVars, poolVars, planVars
  <2>. QED
    BY <1>4, <2>1, <2>2, <2>3, <2>4 DEF Resume
<1>5. ASSUME NEW r \in Run, Cancel(r) PROVE TypeOK'
  <2>1. /\ runState' \in [Run -> RunStates] /\ paused' \in [Run -> BOOLEAN]
        /\ cancelled' \in [Run -> BOOLEAN] /\ taskState' \in [Run -> [Task -> TaskStates]]
    BY <1>5 DEF Cancel, TypeOK, RunStates, RunTerminal, TaskStates, TaskTerminal
  <2>2. journal' \in [Run -> JournalEntry]
    BY <1>5, <2>1, PersistType DEF Cancel, TypeOK
  <2>. QED
    BY <1>5, <2>1, <2>2 DEF Cancel, TypeOK, poolVars, planVars
<1>6. ASSUME NEW r \in Run, PlanBegin(r) PROVE TypeOK'
  <2>1. planQueue' \in [Run -> Nat] /\ planner' \in Run \cup {Idle}
    BY <1>6 DEF PlanBegin, TypeOK
  <2>. QED
    BY <1>6, <2>1 DEF PlanBegin, TypeOK, runVars, taskVars, poolVars
<1>7. ASSUME NEW r \in Run, PlanFail(r) PROVE TypeOK'
  <2>1. CASE Known(r)
    <3>1. runState' \in [Run -> RunStates]
      BY <1>7, <2>1 DEF PlanFail, TypeOK, RunStates, RunTerminal
    <3>2. journal' \in [Run -> JournalEntry]
      BY <1>7, <2>1, <3>1, PersistType DEF PlanFail, TypeOK, taskVars
    <3>. QED
      BY <1>7, <2>1, <3>1, <3>2 DEF PlanFail, TypeOK, taskVars, poolVars
  <2>2. CASE ~ Known(r)
    BY <1>7, <2>2 DEF PlanFail, TypeOK, runVars, taskVars, poolVars
  <2>. QED
    BY <2>1, <2>2
<1>8. ASSUME NEW r \in Run, PlanReady(r) PROVE TypeOK'
  <2>1. CASE Known(r) /\ ~ cancelled[r]
    <3>1. /\ FreshTasks \in [Task -> TaskStates] /\ Zero \in [Task -> Nat]
          /\ NoWaits \in [Task -> [WaitKind -> Nat]] /\ NotDelayed \in [Task -> BOOLEAN]
      BY DEF FreshTasks, Zero, NoWaits, NotDelayed, TaskStates
    <3>0. /\ taskState' = [taskState EXCEPT ![r] = FreshTasks]
          /\ attempts' = [attempts EXCEPT ![r] = Zero]
          /\ delayed' = [delayed EXCEPT ![r] = NotDelayed]
          /\ runState' = [runState EXCEPT ![r] = IF paused[r] THEN "paused" ELSE "running"]
      BY <1>8, <2>1 DEF PlanReady
    <3>2. /\ runState' \in [Run -> RunStates] /\ taskState' \in [Run -> [Task -> TaskStates]]
      BY <3>0, <3>1 DEF TypeOK, RunStates
    <3>3. /\ attempts' \in [Run -> [Task -> Nat]]
          /\ delayed' \in [Run -> [Task -> BOOLEAN]]
      BY <3>0, <3>1 DEF TypeOK
    <3>4. waits' \in [Run -> [Task -> [WaitKind -> Nat]]]
      BY <1>8, <2>1, <3>1 DEF PlanReady, TypeOK
    <3>5. journal' \in [Run -> JournalEntry]
      BY <1>8, <2>1, <3>2, <3>3, PersistType DEF PlanReady, TypeOK
    <3>. QED
      BY <1>8, <2>1, <3>2, <3>3, <3>4, <3>5 DEF PlanReady, TypeOK, poolVars
  <2>2. CASE ~ (Known(r) /\ ~ cancelled[r])
    BY <1>8, <2>2 DEF PlanReady, TypeOK, runVars, taskVars, poolVars
  <2>. QED
    BY <2>1, <2>2
<1>9. ASSUME SchedulerPass PROVE TypeOK'
  <2>1. PICK B \in [Run -> SUBSET Task], S \in SUBSET (Run \X Task) : Pass(B, S)
    BY <1>9, PassOf
  <2>2. Blocked(B) \in [Run -> [Task -> TaskStates]]
    BY DEF Blocked, TypeOK, TaskStates, TaskTerminal
  <2>3. taskState' \in [Run -> [Task -> TaskStates]]
    BY <2>1, <2>2 DEF Pass, PassStarts, TaskStates
  <2>4. attempts' \in [Run -> [Task -> Nat]] /\ submitted' \in [Run -> [Task -> Nat]]
    BY <2>1 DEF Pass, PassStarts, TypeOK
  <2>5. \A r \in Run : Refreshed(r, taskState'[r], outcome[r]) \in RunStates
    BY <2>3, RefreshedStates DEF TypeOK
  <2>6. runState' \in [Run -> RunStates]
    BY <2>1, <2>5 DEF Pass, PassStarts, TypeOK
  <2>7. journal' \in [Run -> JournalEntry]
    BY <2>1, <2>3, <2>4, <2>6, PersistType DEF Pass, PassStarts, TypeOK
  <2>. QED
    BY <2>1, <2>3, <2>4, <2>6, <2>7 DEF Pass, PassStarts, TypeOK, planVars
<1>10. ASSUME NEW r \in Run, NEW t \in Task, BackoffElapses(r, t) PROVE TypeOK'
  <2>1. delayed' \in [Run -> [Task -> BOOLEAN]]
    BY <1>10 DEF BackoffElapses, TypeOK
  <2>. QED
    BY <1>10, <2>1 DEF BackoffElapses, TypeOK, runVars, poolVars, planVars
<1>11. ASSUME NEW w \in Worker, NEW r \in Run, NEW t \in Task, ExecBegin(w, r, t)
       PROVE TypeOK'
  <2>1. submitted' \in [Run -> [Task -> Nat]]
    BY <1>11 DEF ExecBegin, TypeOK
  <2>2. worker' \in [Worker -> (Run \X Task) \cup {Idle}]
    BY <1>11 DEF ExecBegin, TypeOK
  <2>. QED
    BY <1>11, <2>1, <2>2 DEF ExecBegin, TypeOK, runVars, taskVars, planVars
<1>12. ASSUME NEW w \in Worker, NEW r \in Run, NEW t \in Task, ExecEnd(w, r, t)
       PROVE TypeOK'
  <2>1. CASE ExecForgotten(w, r, t)
    <3>1. worker' \in [Worker -> (Run \X Task) \cup {Idle}]
      BY <2>1 DEF ExecForgotten, TypeOK
    <3>. QED
      BY <2>1, <3>1 DEF ExecForgotten, TypeOK, runVars, taskVars, planVars
  <2>2. ASSUME NEW st \in TaskStates, Finish(w, r, t, st), outcome' \in [Run -> Outcomes],
               attempts' \in [Run -> [Task -> Nat]], delayed' \in [Run -> [Task -> BOOLEAN]],
               waits' \in [Run -> [Task -> [WaitKind -> Nat]]]
        PROVE  TypeOK'
    <3>1. /\ taskState' \in [Run -> [Task -> TaskStates]] /\ runState' \in [Run -> RunStates]
          /\ worker' \in [Worker -> (Run \X Task) \cup {Idle}]
          /\ journal' \in [Run -> JournalEntry]
      BY <2>2, FinishType
    <3>. QED
      BY <2>2, <3>1 DEF Finish, TypeOK, planVars
  <2>3. {"cancelled", "succeeded", "failed", "queued"} \subseteq TaskStates
    BY DEF TaskStates, TaskTerminal
  <2>4. CASE ExecCancelled(w, r, t)
    BY <2>2, <2>3, <2>4 DEF ExecCancelled, TypeOK
  <2>5. CASE ExecSucceeded(w, r, t)
    <3>1. outcome' \in [Run -> Outcomes]
      BY <2>5 DEF ExecSucceeded, TypeOK
    <3>. QED
      BY <2>2, <2>3, <2>5, <3>1 DEF ExecSucceeded, TypeOK
  <2>6. CASE ExecBlocked(w, r, t)
    BY <2>2, <2>3, <2>6 DEF ExecBlocked, TypeOK
  <2>7. CASE ExecWaits(w, r, t)
    <3>1. /\ waits' \in [Run -> [Task -> [WaitKind -> Nat]]]
          /\ attempts' \in [Run -> [Task -> Nat]] /\ delayed' \in [Run -> [Task -> BOOLEAN]]
      BY <2>7 DEF ExecWaits, TypeOK
    <3>. QED
      BY <2>2, <2>3, <2>7, <3>1 DEF ExecWaits, TypeOK
  <2>8. CASE ExecRetries(w, r, t)
    <3>1. delayed' \in [Run -> [Task -> BOOLEAN]]
      BY <2>8 DEF ExecRetries, TypeOK
    <3>. QED
      BY <2>2, <2>3, <2>8, <3>1 DEF ExecRetries, TypeOK
  <2>9. CASE ExecFails(w, r, t)
    BY <2>2, <2>3, <2>9 DEF ExecFails, TypeOK
  <2>. QED
    BY <1>12, <2>1, <2>4, <2>5, <2>6, <2>7, <2>8, <2>9 DEF ExecEnd
<1>13. ASSUME Restart PROVE TypeOK'
  <2>1. \A r \in Run : journal[r] \in JournalEntry
    BY DEF TypeOK
  <2>2. /\ runState' \in [Run -> RunStates] /\ resumeRequired' \in [Run -> BOOLEAN]
        /\ paused' \in [Run -> BOOLEAN] /\ cancelled' \in [Run -> BOOLEAN]
        /\ strict' \in [Run -> BOOLEAN] /\ outcome' \in [Run -> Outcomes] /\ attempts' \in [Run -> [Task -> Nat]]
    BY <1>13, <2>1 DEF Restart, JournalEntry, LoadedRun, RunStates, RunTerminal, TypeOK
  <2>3. taskState' \in [Run -> [Task -> TaskStates]]
    BY <1>13, <2>1 DEF Restart, JournalEntry, LoadedTask, TaskStates, TaskTerminal
  <2>4. /\ waits' \in [Run -> [Task -> [WaitKind -> Nat]]]
        /\ delayed' \in [Run -> [Task -> BOOLEAN]] /\ submitted' \in [Run -> [Task -> Nat]]
    BY <1>13 DEF Restart, NoWaits, NotDelayed, Zero
  <2>5. /\ worker' \in [Worker -> (Run \X Task) \cup {Idle}]
        /\ planQueue' \in [Run -> Nat] /\ planner' \in Run \cup {Idle}
        /\ crashes' \in Nat /\ resumes' \in Nat /\ journal' \in [Run -> JournalEntry]
    BY <1>13 DEF Restart, TypeOK
  <2>. QED
    BY <2>2, <2>3, <2>4, <2>5 DEF TypeOK
<1>14. CASE UNCHANGED vars
  BY <1>14 DEF vars, runVars, taskVars, poolVars, planVars, TypeOK
<1>. QED
  BY <1>1, <1>2, <1>3, <1>4, <1>5, <1>6, <1>7, <1>8, <1>9, <1>10, <1>11, <1>12, <1>13, <1>14
  DEF Next, Requester, Planner, Execution

\* Every reachable state of the manager is well typed.
THEOREM TypeCorrect == Spec => []TypeOK
  BY InitType, StepType, PTL DEF Spec

-----------------------------------------------------------------------------
(***************************************************************************)
(* The inductive invariant of the submitted graphs.                        *)
(***************************************************************************)

\* A step that leaves the records of a run alone, except that a finished run
\* may be forgotten, keeps its invariant.
LEMMA Frame ==
  ASSUME NEW q \in GraphRun, GraphRunOK(q),
         planQueue'[q] = planQueue[q], planner' # q,
         runState'[q] = runState[q] \/ (runState'[q] = "gone" /\ runState[q] \in RunTerminal),
         resumeRequired'[q] = resumeRequired[q], taskState'[q] = taskState[q],
         cancelled'[q] = cancelled[q], submitted'[q] = submitted[q],
         \A w \in Worker, t \in Task : worker'[w] = <<q, t>> <=> worker[w] = <<q, t>>,
         Persist \/ journal' = journal
  PROVE  GraphRunOK(q)'
<1>1. q \in Run
  BY ConstantsAssumption
<1>2. Lifecycle(q)'
  <2>1. \A t \in Task : journal'[q].tasks[t] = "none" <=> journal'[q].state = "new"
    BY <1>1 DEF GraphRunOK, Lifecycle, Persist, RunTerminal
  <2>. QED
    BY <2>1 DEF GraphRunOK, Lifecycle, RunTerminal
<1>3. \A t \in Task : InFlight(q, t)' <=> InFlight(q, t)
  BY DEF InFlight, Executing
<1>4. \A t \in Task : Executing(q, t)' <=> Executing(q, t)
  BY DEF Executing
<1>. QED
  BY <1>2, <1>3, <1>4 DEF GraphRunOK, OneExecution, Carried, DepsAllow, DepsDone, DepFailed

\* What the end of a run's execution, submission and retry have in common: when
\* no task of the run is in flight and none is running, only Lifecycle matters.
LEMMA Quiet ==
  ASSUME NEW q \in GraphRun, Lifecycle(q)',
         \A t \in Task : ~ InFlight(q, t)' /\ submitted'[q][t] = 0 /\ taskState'[q][t] # "running"
  PROVE  GraphRunOK(q)'
  BY DEF GraphRunOK, OneExecution, Carried, DepsAllow, InFlight, Executing

\* A run that has ended, or has not been submitted, has no execution.
LEMMA EndedIsQuiet ==
  ASSUME TypeOK, NEW q \in GraphRun, GraphRunOK(q), runState[q] \in RunTerminal \cup {"new", "gone"}
  PROVE  \A t \in Task : /\ ~ InFlight(q, t) /\ submitted[q][t] = 0
                         /\ taskState[q][t] # "running"
<1>1. \A t \in Task : taskState[q][t] # "running"
  <2>1. CASE runState[q] = "new"
    BY <2>1 DEF GraphRunOK, Lifecycle
  <2>2. CASE runState[q] \in RunTerminal \cup {"gone"}
    BY <2>2 DEF GraphRunOK, Lifecycle, TaskTerminal
  <2>. QED
    BY <2>1, <2>2
<1>2. \A t \in Task : submitted[q][t] \in Nat
  <2>1. q \in Run
    BY ConstantsAssumption
  <2>2. submitted \in [Run -> [Task -> Nat]]
    BY DEF TypeOK
  <2>. QED
    BY <2>1, <2>2
<1>3. \A t \in Task : ~ InFlight(q, t)
  BY <1>1 DEF GraphRunOK, OneExecution
<1>. QED
  BY <1>1, <1>2, <1>3 DEF InFlight

\* What the invariant says of one submitted graph, which no idle thread holds.
LEMMA InvOf ==
  ASSUME GraphInv, NEW q \in GraphRun
  PROVE  q \in Run /\ GraphRunOK(q) /\ Lifecycle(q) /\ \A u \in Task : Idle # <<q, u>>
<1>1. q \in Run
  BY ConstantsAssumption
<1>2. GraphRunOK(q) /\ Lifecycle(q)
  BY DEF GraphInv, GraphRunOK
<1>3. \A u \in Task : Idle # <<q, u>>
  <2>1. Idle \notin Run \X Task /\ \A u \in Task : <<q, u>> \in Run \X Task
    BY <1>1, ConstantsAssumption
  <2>. QED
    BY <2>1
<1>. QED
  BY <1>1, <1>2, <1>3

LEMMA InitGraph == Init => GraphInv
<1>. SUFFICES ASSUME Init, NEW q \in GraphRun PROVE GraphRunOK(q)
  BY DEF GraphInv
<1>1. q \in Run
  BY ConstantsAssumption
<1>2. \A w \in Worker, t \in Task : worker[w] # <<q, t>>
  <2>. SUFFICES ASSUME NEW w \in Worker, NEW t \in Task PROVE worker[w] # <<q, t>>
    OBVIOUS
  <2>1. worker[w] = Idle
    BY DEF Init
  <2>2. <<q, t>> \in Run \X Task
    BY <1>1
  <2>. QED
    BY <2>1, <2>2, ConstantsAssumption
<1>3. \A t \in Task : /\ submitted[q][t] = 0 /\ taskState[q][t] = "none"
                      /\ journal[q].tasks[t] = "none" /\ journal[q].state = "new"
  BY <1>1 DEF Init, NoTasks, Zero
<1>4. \A t \in Task : ~ InFlight(q, t) /\ ~ Executing(q, t)
  BY <1>2, <1>3 DEF InFlight, Executing
<1>5. Lifecycle(q)
  <2>1. runState[q] = "new" /\ planQueue[q] = 0 /\ resumeRequired[q] = FALSE
    BY <1>1 DEF Init
  <2>2. planner # q
    BY <1>1, ConstantsAssumption DEF Init
  <2>. QED
    BY <1>3, <2>1, <2>2 DEF Lifecycle, RunTerminal
<1>. QED
  BY <1>2, <1>3, <1>4, <1>5 DEF GraphRunOK, OneExecution, Carried, DepsAllow

\* The requester's calls.
LEMMA SubmitGraphStep ==
  ASSUME TypeOK, GraphInv, NEW r \in Run, SubmitGraph(r)
  PROVE  GraphInv'
<1>. SUFFICES ASSUME NEW q \in GraphRun PROVE GraphRunOK(q)'
  BY DEF GraphInv
<1>0. q \in Run /\ GraphRunOK(q) /\ planner # q
  BY ConstantsAssumption DEF GraphInv, GraphRunOK, Lifecycle
<1>1. runState'[q] = [runState EXCEPT ![r] = "running"][q]
      \/ (runState'[q] = "gone" /\ [runState EXCEPT ![r] = "running"][q] \in RunTerminal)
  <2>1. [runState EXCEPT ![r] = "running"] \in [Run -> RunStates]
    BY DEF TypeOK, RunStates
  <2>. QED
    BY <1>0, <2>1, PrunedStates DEF SubmitGraph
<1>2. CASE q # r
  BY <1>0, <1>1, <1>2, Frame DEF SubmitGraph, TypeOK, poolVars, planVars
<1>3. CASE q = r
  <2>1. runState[r] = "new" /\ runState'[r] = "running"
    BY <1>1, <1>3 DEF SubmitGraph, NextId, TypeOK, RunTerminal
  <2>2. \A t \in Task : /\ ~ InFlight(r, t) /\ submitted[r][t] = 0
    BY <1>0, <1>3, <2>1, EndedIsQuiet
  <2>3. \A t \in Task : taskState'[r][t] = "queued"
    BY DEF SubmitGraph, TypeOK, FreshTasks
  <2>4. \A t \in Task : ~ InFlight(r, t)' /\ submitted'[r][t] = 0
    BY <2>2 DEF SubmitGraph, poolVars, InFlight, Executing
  <2>5. journal'[r].state = "running" /\ \A t \in Task : journal'[r].tasks[t] = "queued"
    BY <2>1, <2>3 DEF SubmitGraph, Persist
  <2>6. resumeRequired'[r] = FALSE /\ planQueue'[r] = 0 /\ planner' # r
    BY <1>0, <1>3, <2>1 DEF SubmitGraph, GraphRunOK, Lifecycle, TypeOK, planVars
  <2>7. Lifecycle(r)'
    BY <2>1, <2>3, <2>5, <2>6 DEF Lifecycle, RunTerminal
  <2>. QED
    BY <1>3, <2>3, <2>4, <2>7, Quiet
<1>. QED
  BY <1>2, <1>3

\* A step that changes the state of a run and none of its tasks or executions.
LEMMA SameTasks ==
  ASSUME NEW q \in GraphRun, GraphRunOK(q), Lifecycle(q)',
         taskState'[q] = taskState[q], cancelled'[q] = cancelled[q], UNCHANGED poolVars
  PROVE  GraphRunOK(q)'
<1>1. \A t \in Task : /\ InFlight(q, t)' <=> InFlight(q, t)
                      /\ Executing(q, t)' <=> Executing(q, t)
  BY DEF InFlight, Executing, poolVars
<1>. QED
  BY <1>1 DEF GraphRunOK, OneExecution, Carried, DepsAllow, DepsDone, DepFailed, poolVars

\* The states a run with tasks may be given by a section that ends in Persist.
LEMMA LifecycleKept ==
  ASSUME NEW q \in GraphRun, Lifecycle(q), planQueue'[q] = planQueue[q], planner' # q,
         runState'[q] \notin {"new", "planning"},
         resumeRequired'[q] => runState'[q] \in {"interrupted", "gone"},
         \A t \in Task : taskState'[q][t] # "none",
         runState'[q] \in RunTerminal \cup {"gone"} =>
           \A t \in Task : taskState'[q][t] \in TaskTerminal,
         Persist \/ (journal' = journal /\ runState[q] # "new")
  PROVE  Lifecycle(q)'
<1>1. q \in Run
  BY ConstantsAssumption
<1>2. \A t \in Task : journal'[q].tasks[t] = "none" <=> journal'[q].state = "new"
  BY <1>1 DEF Lifecycle, Persist
<1>. QED
  BY <1>2 DEF Lifecycle

LEMMA PauseStep ==
  ASSUME TypeOK, GraphInv, NEW r \in Run, Pause(r)
  PROVE  GraphInv'
<1>. SUFFICES ASSUME NEW q \in GraphRun PROVE GraphRunOK(q)'
  BY DEF GraphInv
<1>0. q \in Run /\ GraphRunOK(q) /\ Lifecycle(q)
  BY InvOf
<1>1. CASE q # r
  BY <1>0, <1>1, Frame DEF Pause, TypeOK, taskVars, poolVars, planVars, Lifecycle
<1>2. CASE q = r
  <2>1. runState[r] # "planning" /\ runState'[r] = "paused"
    BY <1>0, <1>2 DEF Pause, TypeOK, Lifecycle
  <2>2. resumeRequired'[r] = FALSE
    <3>1. resumeRequired[r] = FALSE
      BY <1>0, <1>2 DEF Pause, Lifecycle, Known, RunTerminal, TypeOK
    <3>. QED
      BY <3>1 DEF Pause
  <2>3. \A t \in Task : taskState'[r][t] # "none"
    BY <1>0, <1>2 DEF Pause, Lifecycle, Known, taskVars
  <2>4. planQueue'[r] = planQueue[r] /\ planner' # r /\ Persist
    BY <1>0, <1>2 DEF Pause, planVars, Lifecycle
  <2>5. Lifecycle(r)'
    BY <1>0, <1>2, <2>1, <2>2, <2>3, <2>4, LifecycleKept DEF RunTerminal
  <2>. QED
    BY <1>0, <1>2, <2>5, SameTasks DEF Pause, taskVars
<1>. QED
  BY <1>1, <1>2

\* The end of every resume, for a run that has tasks.
LEMMA ContinueStep ==
  ASSUME TypeOK, NEW r \in GraphRun, Lifecycle(r), Continue(r), Known(r),
         ~ resumeRequired'[r], \A t \in Task : taskState'[r][t] # "none"
  PROVE  Lifecycle(r)'
<1>0. r \in Run
  BY ConstantsAssumption
<1>1. HasTasks(r)
  BY DEF HasTasks, Lifecycle, Known
<1>2. runState'[r] = "running" /\ planQueue'[r] = planQueue[r] /\ planner' # r /\ Persist
  BY <1>0, <1>1 DEF Continue, TypeOK, Lifecycle
<1>. QED
  BY <1>2, LifecycleKept DEF RunTerminal

\* A resume that requeues tasks is only accepted of a run that has ended.
LEMMA RequeueStep ==
  ASSUME TypeOK, GraphInv, NEW r \in Run, ResumeRestarted(r) \/ RetryFailed(r)
  PROVE  GraphInv'
<1>. SUFFICES ASSUME NEW q \in GraphRun PROVE GraphRunOK(q)'
  BY DEF GraphInv
<1>0. q \in Run /\ GraphRunOK(q) /\ Lifecycle(q)
  BY InvOf
<1>1. Continue(r) /\ Known(r)
  BY DEF ResumeRestarted, RetryFailed, Resumable
<1>2. taskState \in [Run -> [Task -> TaskStates]]
  BY DEF TypeOK
<1>3. q # r => taskState'[q] = taskState[q] /\ resumeRequired'[q] = resumeRequired[q]
  <2>1. CASE ResumeRestarted(r)
    BY <1>0, <1>2, <2>1 DEF ResumeRestarted, TypeOK
  <2>2. CASE RetryFailed(r)
    BY <1>0, <1>2, <2>2 DEF RetryFailed
  <2>. QED
    BY <2>1, <2>2
<1>4. CASE q # r
  <2>1. /\ runState'[q] = runState[q] /\ planQueue'[q] = planQueue[q] /\ planner' # q
        /\ cancelled'[q] = cancelled[q] /\ submitted'[q] = submitted[q] /\ worker' = worker
        /\ Persist
    BY <1>0, <1>1, <1>4 DEF Continue, TypeOK, poolVars, Lifecycle
  <2>. QED
    BY <1>0, <1>3, <1>4, <2>1, Frame
<1>5. CASE q = r
  <2>1. runState[r] \in RunTerminal
    BY <1>0, <1>1, <1>5
       DEF ResumeRestarted, RetryFailed, HasFailed, AfterRestart, Lifecycle, RunTerminal, Known
  <2>2. \A t \in Task : /\ ~ InFlight(r, t) /\ submitted[r][t] = 0
                        /\ taskState[r][t] # "running" /\ taskState[r][t] # "none"
    <3>1. \A t \in Task : taskState[r][t] # "none"
      BY <1>0, <1>5, <2>1 DEF Lifecycle, RunTerminal
    <3>. QED
      BY <1>0, <1>5, <2>1, <3>1, EndedIsQuiet
  <2>3. \A t \in Task : taskState'[r][t] \in {"queued", taskState[r][t]}
    <3>1. CASE ResumeRestarted(r)
      BY <1>2, <3>1 DEF ResumeRestarted
    <3>2. CASE RetryFailed(r)
      <4>1. CASE taskState[r] = NoTasks
        BY <1>2, <3>2, <4>1 DEF RetryFailed
      <4>2. CASE taskState[r] # NoTasks
        BY <1>2, <3>2, <4>2 DEF RetryFailed
      <4>. QED
        BY <4>1, <4>2
    <3>. QED
      BY <3>1, <3>2
  <2>4. ~ resumeRequired'[r]
    <3>1. CASE ResumeRestarted(r)
      BY <3>1 DEF ResumeRestarted, TypeOK
    <3>2. CASE RetryFailed(r)
      BY <3>2 DEF RetryFailed, AfterRestart
    <3>. QED
      BY <3>1, <3>2
  <2>5. \A t \in Task : /\ ~ InFlight(r, t)' /\ submitted'[r][t] = 0
                        /\ taskState'[r][t] # "running" /\ taskState'[r][t] # "none"
    BY <1>1, <2>2, <2>3 DEF Continue, poolVars, InFlight, Executing
  <2>6. Lifecycle(r)'
    BY <1>0, <1>1, <1>5, <2>4, <2>5, ContinueStep
  <2>. QED
    BY <1>5, <2>5, <2>6, Quiet
<1>. QED
  BY <1>4, <1>5

LEMMA ResumeActiveStep ==
  ASSUME TypeOK, GraphInv, NEW r \in Run, ResumeActive(r)
  PROVE  GraphInv'
<1>. SUFFICES ASSUME NEW q \in GraphRun PROVE GraphRunOK(q)'
  BY DEF GraphInv
<1>0. q \in Run /\ GraphRunOK(q) /\ Lifecycle(q)
  BY InvOf
<1>1. Continue(r) /\ Known(r) /\ taskState' = taskState
  BY DEF ResumeActive, Resumable, taskVars
<1>2. resumeRequired' = resumeRequired /\ ~ resumeRequired[r]
  BY DEF ResumeActive, AfterRestart
<1>3. CASE q # r
  <2>1. /\ runState'[q] = runState[q] /\ planQueue'[q] = planQueue[q] /\ planner' # q
        /\ cancelled'[q] = cancelled[q] /\ submitted'[q] = submitted[q] /\ worker' = worker
        /\ Persist
    BY <1>0, <1>1, <1>3 DEF Continue, TypeOK, poolVars, Lifecycle
  <2>. QED
    BY <1>0, <1>1, <1>2, <1>3, <2>1, Frame
<1>4. CASE q = r
  <2>1. \A t \in Task : taskState'[r][t] # "none"
    BY <1>0, <1>1, <1>4 DEF Lifecycle, Known
  <2>2. Lifecycle(r)'
    BY <1>0, <1>1, <1>2, <1>4, <2>1, ContinueStep
  <2>. QED
    BY <1>0, <1>1, <1>4, <2>2, SameTasks DEF Continue
<1>. QED
  BY <1>3, <1>4

LEMMA CancelStep ==
  ASSUME TypeOK, GraphInv, NEW r \in Run, Cancel(r)
  PROVE  GraphInv'
<1>. SUFFICES ASSUME NEW q \in GraphRun PROVE GraphRunOK(q)'
  BY DEF GraphInv
<1>0. q \in Run /\ GraphRunOK(q) /\ Lifecycle(q)
  BY InvOf
<1>1. /\ Persist /\ resumeRequired' = resumeRequired /\ submitted' = submitted
      /\ worker' = worker /\ planQueue' = planQueue /\ planner' = planner
  BY DEF Cancel, poolVars, planVars
<1>2. CASE q # r
  <2>1. runState'[q] = runState[q] /\ taskState'[q] = taskState[q] /\ cancelled'[q] = cancelled[q]
    BY <1>0, <1>2 DEF Cancel, TypeOK
  <2>. QED
    BY <1>0, <1>1, <1>2, <2>1, Frame DEF Lifecycle
<1>3. CASE q = r
  <2>0. taskState \in [Run -> [Task -> TaskStates]] /\ runState \in [Run -> RunStates]
        /\ cancelled \in [Run -> BOOLEAN]
    BY DEF TypeOK
  <2>1. \A t \in Task : taskState'[r][t] = IF taskState[r][t] = "queued" THEN "cancelled"
                                           ELSE taskState[r][t]
    BY <2>0 DEF Cancel
  <2>2. \A t \in Task : taskState[r][t] # "none"
    BY <1>0, <1>3 DEF Cancel, Known, Lifecycle
  <2>3. /\ runState'[r] \in {"cancelled", "cancelling"}
        /\ runState'[r] = "cancelled" => \A t \in Task : taskState'[r][t] \in TaskTerminal \cup {"none"}
    BY <2>0 DEF Cancel, Settled
  <2>4. resumeRequired'[r] => FALSE
    BY <1>0, <1>1, <1>3 DEF Cancel, Lifecycle, Known, RunTerminal
  <2>5. Lifecycle(r)'
    <3>1. runState'[r] \in RunTerminal \cup {"gone"} =>
            \A t \in Task : taskState'[r][t] \in TaskTerminal
      BY <2>1, <2>2, <2>3 DEF RunTerminal
    <3>. QED
      BY <1>0, <1>1, <1>3, <2>1, <2>2, <2>3, <2>4, <3>1, LifecycleKept DEF Lifecycle
  <2>6. cancelled'[r]
    BY <2>0 DEF Cancel
  <2>7. \A t \in Task : /\ InFlight(r, t)' <=> InFlight(r, t)
                        /\ Executing(r, t)' <=> Executing(r, t)
    BY <1>1 DEF InFlight, Executing
  <2>8. \A t \in Task : OneExecution(r, t)'
    BY <1>0, <1>1, <1>3, <2>1, <2>7 DEF GraphRunOK, OneExecution
  <2>9. \A t \in Task : DepsAllow(r, t)'
    <3>. SUFFICES ASSUME NEW t \in Task, taskState'[r][t] = "running" PROVE DepsAllow(r, t)'
      BY DEF DepsAllow
    <3>1. taskState[r][t] = "running" /\ DepsAllow(r, t)
      BY <1>0, <1>3, <2>1 DEF GraphRunOK
    <3>2. \A d \in Deps[t] : d \in Task /\ taskState[r][d] \in TaskTerminal
      BY <3>1, ConstantsAssumption DEF DepsAllow, DepsDone
    <3>3. \A d \in Deps[t] : taskState'[r][d] = taskState[r][d]
      BY <2>1, <3>2 DEF TaskTerminal
    <3>. QED
      BY <3>1, <3>2, <3>3 DEF DepsAllow, DepsDone, DepFailed
  <2>. QED
    BY <1>3, <2>5, <2>6, <2>8, <2>9 DEF GraphRunOK, Carried
<1>. QED
  BY <1>2, <1>3

\* The planner only works on runs that were submitted as an objective.
LEMMA PlannerStep ==
  ASSUME TypeOK, GraphInv, NEW r \in Run, Planner(r)
  PROVE  GraphInv'
<1>. SUFFICES ASSUME NEW q \in GraphRun PROVE GraphRunOK(q)'
  BY DEF GraphInv
<1>0. q \in Run /\ GraphRunOK(q) /\ Lifecycle(q) /\ Idle \notin Run
  BY InvOf, ConstantsAssumption
<1>1. CASE PlanBegin(r)
  <2>1. q # r
    BY <1>0, <1>1 DEF PlanBegin, Lifecycle
  <2>2. planner' # q /\ planQueue'[q] = planQueue[q]
    BY <1>0, <1>1, <2>1 DEF PlanBegin, TypeOK
  <2>. QED
    BY <1>0, <1>1, <2>2, Frame DEF PlanBegin, runVars, taskVars, poolVars
<1>2. CASE PlanFail(r) \/ PlanReady(r)
  <2>1. q # r /\ planner' # q /\ planQueue' = planQueue
    BY <1>0, <1>2 DEF PlanFail, PlanReady, Lifecycle
  <2>2. /\ runState'[q] = runState[q] /\ taskState'[q] = taskState[q]
        /\ resumeRequired' = resumeRequired /\ cancelled' = cancelled
    BY <1>0, <1>2, <2>1 DEF PlanFail, PlanReady, TypeOK, runVars, taskVars
  <2>3. submitted' = submitted /\ worker' = worker /\ (Persist \/ journal' = journal)
    BY <1>2 DEF PlanFail, PlanReady, poolVars
  <2>. QED
    BY <1>0, <2>1, <2>2, <2>3, Frame
<1>. QED
  BY <1>1, <1>2 DEF Planner

LEMMA ExecBeginStep ==
  ASSUME TypeOK, GraphInv, NEW w \in Worker, NEW r \in Run, NEW t \in Task, ExecBegin(w, r, t)
  PROVE  GraphInv'
<1>. SUFFICES ASSUME NEW q \in GraphRun PROVE GraphRunOK(q)'
  BY DEF GraphInv
<1>0. q \in Run /\ GraphRunOK(q) /\ Lifecycle(q) /\ \A u \in Task : Idle # <<q, u>>
  BY InvOf
<1>1. /\ submitted \in [Run -> [Task -> Nat]]
      /\ worker \in [Worker -> (Run \X Task) \cup {Idle}]
  BY DEF TypeOK
<1>2. /\ UNCHANGED <<runVars, taskVars, planVars, journal>>
      /\ worker[w] = Idle /\ submitted[r][t] > 0
      /\ submitted' = [submitted EXCEPT ![r][t] = @ - 1]
      /\ worker' = [worker EXCEPT ![w] = <<r, t>>] \/ worker' = worker
  BY DEF ExecBegin
<1>3. CASE q # r
  <2>1. submitted'[q] = submitted[q]
    BY <1>0, <1>1, <1>2, <1>3
  <2>2. \A v \in Worker, u \in Task : worker'[v] = <<q, u>> <=> worker[v] = <<q, u>>
    BY <1>0, <1>1, <1>2, <1>3
  <2>. QED
    BY <1>0, <1>2, <2>1, <2>2, Frame DEF runVars, taskVars, planVars, Lifecycle
<1>4. CASE q = r
  <2>1. InFlight(r, t) /\ taskState[r][t] = "running"
    BY <1>0, <1>2, <1>4 DEF InFlight, GraphRunOK, OneExecution
  <2>2. submitted[r][t] = 1 /\ \A v \in Worker : worker[v] # <<r, t>>
    BY <1>0, <1>1, <1>2, <1>4 DEF GraphRunOK, OneExecution, Executing
  <2>3. submitted'[r][t] = 0 /\ \A u \in Task : u # t => submitted'[r][u] = submitted[r][u]
    BY <1>0, <1>1, <1>2, <1>4, <2>2
  <2>4. \A v \in Worker, u \in Task : u # t => (worker'[v] = <<r, u>> <=> worker[v] = <<r, u>>)
    <3>. SUFFICES ASSUME NEW v \in Worker, NEW u \in Task, u # t
                  PROVE  worker'[v] = <<r, u>> <=> worker[v] = <<r, u>>
      OBVIOUS
    <3>1. worker[w] # <<r, u>> /\ <<r, t>> # <<r, u>>
      BY <1>0, <1>2, <1>4
    <3>. QED
      BY <1>1, <1>2, <3>1
  <2>5. \A v \in Worker : worker'[v] = <<r, t>> => v = w
    BY <1>0, <1>1, <1>2, <2>2
  <2>6. \A u \in Task : u # t => /\ InFlight(r, u)' <=> InFlight(r, u)
                                 /\ Executing(r, u)' <=> Executing(r, u)
    BY <2>3, <2>4 DEF InFlight, Executing
  <2>7. ~ cancelled[r] => worker'[w] = <<r, t>>
    <3>1. Known(r)
      BY <1>0, <1>4, <2>1 DEF Known, Lifecycle, TaskTerminal
    <3>. QED
      BY <1>1, <2>1, <3>1 DEF ExecBegin, Wanted
  <2>8. \A u \in Task : OneExecution(r, u)'
    <3>1. OneExecution(r, t)'
      BY <1>2, <2>1, <2>3, <2>5 DEF OneExecution, taskVars
    <3>2. \A u \in Task : u # t => OneExecution(r, u)'
      BY <1>0, <1>2, <1>4, <2>3, <2>4, <2>6 DEF GraphRunOK, OneExecution, taskVars
    <3>. QED
      BY <3>1, <3>2
  <2>9. \A u \in Task : Carried(r, u)'
    <3>1. Carried(r, t)'
      BY <1>2, <2>7 DEF Carried, InFlight, Executing, runVars
    <3>2. \A u \in Task : u # t => Carried(r, u)'
      BY <1>0, <1>2, <1>4, <2>6 DEF GraphRunOK, Carried, taskVars, runVars
    <3>. QED
      BY <3>1, <3>2
  <2>10. Lifecycle(r)'
    BY <1>0, <1>2, <1>4 DEF Lifecycle, runVars, taskVars, planVars
  <2>11. \A u \in Task : DepsAllow(r, u)'
    BY <1>0, <1>2, <1>4 DEF GraphRunOK, DepsAllow, DepsDone, DepFailed, taskVars
  <2>. QED
    BY <1>4, <2>8, <2>9, <2>10, <2>11 DEF GraphRunOK
<1>. QED
  BY <1>3, <1>4

LEMMA RestartStep ==
  ASSUME TypeOK, GraphInv, Restart
  PROVE  GraphInv'
<1>. SUFFICES ASSUME NEW q \in GraphRun PROVE GraphRunOK(q)'
  BY DEF GraphInv
<1>0. q \in Run /\ GraphRunOK(q) /\ Lifecycle(q) /\ Idle \notin Run
      /\ \A u \in Task : Idle # <<q, u>>
  BY ConstantsAssumption DEF GraphInv, GraphRunOK
<1>1. \A t \in Task : taskState'[q][t] = LoadedTask(journal[q].tasks[t])
  BY <1>0 DEF Restart
<1>2. runState'[q] = LoadedRun(journal[q].state) /\ journal' = journal
      /\ resumeRequired'[q] = (LoadedRun(journal[q].state) # journal[q].state)
      /\ planQueue'[q] = 0 /\ planner' # q
  BY <1>0 DEF Restart
<1>3. \A t \in Task : /\ taskState'[q][t] \in TaskTerminal \cup {"none"}
                      /\ taskState'[q][t] = "none" <=> journal[q].tasks[t] = "none"
  BY <1>1 DEF LoadedTask, TaskTerminal
<1>4. runState'[q] # "planning" /\ (runState'[q] = "new" <=> journal[q].state = "new")
      /\ (resumeRequired'[q] => runState'[q] = "interrupted")
  BY <1>2 DEF LoadedRun, RunTerminal
<1>5. Lifecycle(q)'
  <2>1. \A t \in Task : taskState'[q][t] = "none" <=> runState'[q] = "new"
    BY <1>0, <1>3, <1>4 DEF Lifecycle
  <2>2. \A t \in Task : journal'[q].tasks[t] = "none" <=> journal'[q].state = "new"
    BY <1>0, <1>2 DEF Lifecycle
  <2>. QED
    BY <1>2, <1>3, <1>4, <2>1, <2>2 DEF Lifecycle, RunTerminal
<1>6. \A t \in Task : ~ InFlight(q, t)' /\ submitted'[q][t] = 0
  <2>1. \A t \in Task : submitted'[q][t] = 0
    BY <1>0 DEF Restart, Zero
  <2>2. \A w \in Worker : worker'[w] = Idle
    BY DEF Restart
  <2>. QED
    BY <1>0, <2>1, <2>2 DEF InFlight, Executing
<1>. QED
  BY <1>3, <1>5, <1>6, Quiet DEF TaskTerminal

\* A thread that leaves an execution of one run is none of another run's.
LEMMA OtherRuns ==
  ASSUME TypeOK, NEW q \in Run, NEW r \in Run, q # r, NEW w \in Worker, NEW t \in Task,
         worker[w] = <<r, t>>, worker' = [worker EXCEPT ![w] = Idle]
  PROVE  \A v \in Worker, u \in Task : worker'[v] = <<q, u>> <=> worker[v] = <<q, u>>
<1>. SUFFICES ASSUME NEW v \in Worker, NEW u \in Task
              PROVE  worker'[v] = <<q, u>> <=> worker[v] = <<q, u>>
  OBVIOUS
<1>0. worker \in [Worker -> (Run \X Task) \cup {Idle}]
  BY DEF TypeOK
<1>1. Idle # <<q, u>> /\ <<q, u>> # <<r, t>>
  <2>1. Idle \notin Run \X Task /\ <<q, u>> \in Run \X Task
    BY ConstantsAssumption
  <2>. QED
    BY <2>1
<1>2. CASE v = w
  BY <1>0, <1>1, <1>2
<1>3. CASE v # w
  BY <1>0, <1>3
<1>. QED
  BY <1>2, <1>3

\* The end of an execution, whatever the new state of its record.
LEMMA FinishStep ==
  ASSUME TypeOK, GraphInv, NEW w \in Worker, NEW r \in Run, NEW t \in Task,
         NEW st \in {"succeeded", "failed", "cancelled", "queued"},
         Finish(w, r, t, st), outcome' \in [Run -> Outcomes]
  PROVE  GraphInv'
<1>. SUFFICES ASSUME NEW q \in GraphRun PROVE GraphRunOK(q)'
  BY DEF GraphInv
<1>0. q \in Run /\ GraphRunOK(q) /\ Lifecycle(q) /\ \A u \in Task : Idle # <<q, u>>
  BY InvOf
<1>1. /\ submitted \in [Run -> [Task -> Nat]]
      /\ worker \in [Worker -> (Run \X Task) \cup {Idle}]
      /\ taskState \in [Run -> [Task -> TaskStates]]
      /\ runState \in [Run -> RunStates]
  BY DEF TypeOK
<1>2. /\ worker[w] = <<r, t>> /\ worker' = [worker EXCEPT ![w] = Idle] /\ Persist
      /\ taskState' = [taskState EXCEPT ![r][t] = st]
      /\ runState' = [runState EXCEPT ![r] = Refreshed(r, taskState'[r], outcome'[r])]
      /\ UNCHANGED <<cancelled, resumeRequired, submitted>>
      /\ planQueue' = planQueue /\ planner' = planner /\ Known(r)
  BY DEF Finish, planVars
<1>3. CASE q # r
  <2>1. taskState'[q] = taskState[q] /\ runState'[q] = runState[q]
    BY <1>0, <1>1, <1>2, <1>3
  <2>2. \A v \in Worker, u \in Task : worker'[v] = <<q, u>> <=> worker[v] = <<q, u>>
    BY <1>0, <1>1, <1>2, <1>3, OtherRuns
  <2>. QED
    BY <1>0, <1>2, <2>1, <2>2, Frame DEF Lifecycle
<1>4. CASE q = r
  <2>1. InFlight(r, t) /\ Executing(r, t) /\ taskState[r][t] = "running"
    BY <1>0, <1>2, <1>4 DEF InFlight, Executing, GraphRunOK, OneExecution
  <2>2. submitted[r][t] = 0
    <3>1. submitted[r][t] \in Nat /\ OneExecution(r, t)
      BY <1>0, <1>1, <1>4 DEF GraphRunOK
    <3>. QED
      BY <2>1, <3>1 DEF OneExecution
  <2>3. \A v \in Worker : worker'[v] # <<r, t>>
    BY <1>0, <1>1, <1>2, <1>4 DEF GraphRunOK, OneExecution
  <2>4. /\ taskState'[r][t] = st /\ st # "running"
        /\ \A u \in Task : u # t => taskState'[r][u] = taskState[r][u]
    BY <1>0, <1>1, <1>2, <1>4
  <2>5. \A v \in Worker, u \in Task : u # t => (worker'[v] = <<r, u>> <=> worker[v] = <<r, u>>)
    BY <1>0, <1>1, <1>2, <1>4
  <2>6. \A u \in Task : u # t => /\ InFlight(r, u)' <=> InFlight(r, u)
                                 /\ Executing(r, u)' <=> Executing(r, u)
    BY <1>2, <2>5 DEF InFlight, Executing
  <2>7. ~ InFlight(r, t)' /\ ~ Executing(r, t)'
    BY <1>2, <2>2, <2>3 DEF InFlight, Executing
  <2>8. \A u \in Task : OneExecution(r, u)'
    <3>1. OneExecution(r, t)'
      BY <1>2, <2>2, <2>3, <2>7 DEF OneExecution
    <3>2. \A u \in Task : u # t => OneExecution(r, u)'
      BY <1>0, <1>2, <1>4, <2>4, <2>5, <2>6 DEF GraphRunOK, OneExecution
    <3>. QED
      BY <3>1, <3>2
  <2>9. \A u \in Task : Carried(r, u)'
    BY <1>0, <1>2, <1>4, <2>4, <2>6 DEF GraphRunOK, Carried
  <2>10. \A u \in Task : DepsAllow(r, u)'
    <3>. SUFFICES ASSUME NEW u \in Task, taskState'[r][u] = "running" PROVE DepsAllow(r, u)'
      BY DEF DepsAllow
    <3>1. taskState[r][u] = "running" /\ DepsAllow(r, u)
      BY <1>0, <1>4, <2>4 DEF GraphRunOK
    <3>2. \A d \in Deps[u] : d \in Task /\ taskState[r][d] \in TaskTerminal
      BY <3>1, ConstantsAssumption DEF DepsAllow, DepsDone
    <3>3. \A d \in Deps[u] : taskState'[r][d] = taskState[r][d]
      BY <2>1, <2>4, <3>2 DEF TaskTerminal
    <3>. QED
      BY <3>1, <3>2, <3>3 DEF DepsAllow, DepsDone, DepFailed
  <2>11. Lifecycle(r)'
    <3>1. \A u \in Task : taskState[r][u] # "none"
      BY <1>0, <1>2, <1>4 DEF Lifecycle, Known
    <3>2. \A u \in Task : taskState'[r][u] # "none"
      BY <2>4, <3>1
    <3>3. taskState'[r] \in [Task -> TaskStates] /\ taskState'[r] # NoTasks
      <4>1. taskState'[r] = [taskState[r] EXCEPT ![t] = st]
        BY <1>1, <1>2
      <4>. QED
        BY <1>1, <3>2, <4>1 DEF TaskStates, TaskTerminal, NoTasks
    <3>4. outcome'[r] \in Outcomes
      OBVIOUS
    <3>5. /\ runState'[r] \notin {"new", "gone", "planning"}
          /\ runState'[r] \in RunTerminal => Settled(taskState'[r])
      <4>1. runState'[r] = Refreshed(r, taskState'[r], outcome'[r])
        BY <1>1, <1>2
      <4>. QED
        BY <1>2, <3>3, <3>4, <4>1, RefreshedStates DEF Known
    <3>6. ~ resumeRequired'[r] /\ planner' # r /\ planQueue'[r] = planQueue[r]
      BY <1>0, <1>2, <1>4, <2>1 DEF Lifecycle, TaskTerminal, RunTerminal
    <3>7. runState'[r] \in RunTerminal \cup {"gone"} =>
            \A u \in Task : taskState'[r][u] \in TaskTerminal
      BY <3>2, <3>5 DEF Settled
    <3>. QED
      BY <1>0, <1>2, <1>4, <3>2, <3>5, <3>6, <3>7, LifecycleKept
  <2>. QED
    BY <1>4, <2>8, <2>9, <2>10, <2>11 DEF GraphRunOK
<1>. QED
  BY <1>3, <1>4

LEMMA ExecEndStep ==
  ASSUME TypeOK, GraphInv, NEW w \in Worker, NEW r \in Run, NEW t \in Task, ExecEnd(w, r, t)
  PROVE  GraphInv'
<1>1. CASE ExecForgotten(w, r, t)
  <2>. SUFFICES ASSUME NEW q \in GraphRun PROVE GraphRunOK(q)'
    BY DEF GraphInv
  <2>0. q \in Run /\ GraphRunOK(q) /\ Lifecycle(q) /\ \A u \in Task : Idle # <<q, u>>
    BY InvOf
  <2>1. q # r
    <3>. SUFFICES ASSUME q = r PROVE FALSE
      OBVIOUS
    <3>1. taskState[q][t] = "running"
      BY <1>1, <2>0 DEF ExecForgotten, GraphRunOK, OneExecution, InFlight, Executing
    <3>. QED
      BY <1>1, <2>0, <3>1 DEF ExecForgotten, Known, Lifecycle, TaskTerminal
  <2>2. \A v \in Worker, u \in Task : worker'[v] = <<q, u>> <=> worker[v] = <<q, u>>
    BY <1>1, <2>0, <2>1, OtherRuns DEF ExecForgotten
  <2>. QED
    BY <1>1, <2>0, <2>2, Frame DEF ExecForgotten, runVars, taskVars, planVars, Lifecycle
<1>2. CASE ExecSucceeded(w, r, t)
  <2>1. outcome' \in [Run -> Outcomes]
    BY <1>2 DEF ExecSucceeded, TypeOK
  <2>. QED
    BY <1>2, <2>1, FinishStep DEF ExecSucceeded
<1>3. CASE ExecCancelled(w, r, t) \/ ExecBlocked(w, r, t) \/ ExecWaits(w, r, t)
           \/ ExecRetries(w, r, t) \/ ExecFails(w, r, t)
  <2>1. outcome' = outcome /\ outcome \in [Run -> Outcomes]
    BY <1>3 DEF ExecCancelled, ExecBlocked, ExecWaits, ExecRetries, ExecFails, TypeOK
  <2>2. \E st \in {"succeeded", "failed", "cancelled", "queued"} : Finish(w, r, t, st)
    BY <1>3 DEF ExecCancelled, ExecBlocked, ExecWaits, ExecRetries, ExecFails
  <2>. QED
    BY <2>1, <2>2, FinishStep
<1>. QED
  BY <1>1, <1>2, <1>3 DEF ExecEnd

\* A pass starts and blocks queued tasks only, and starts a task only when its
\* dependencies, settled before the pass or blocked by it, allow it.
LEMMA SchedulerStep ==
  ASSUME TypeOK, GraphInv, SchedulerPass
  PROVE  GraphInv'
<1>1. PICK B \in [Run -> SUBSET Task], S \in SUBSET (Run \X Task) : Pass(B, S)
  BY PassOf
<1>. SUFFICES ASSUME NEW q \in GraphRun PROVE GraphRunOK(q)'
  BY DEF GraphInv
<1>0. q \in Run /\ GraphRunOK(q) /\ Lifecycle(q)
  BY InvOf
<1>2. /\ UNCHANGED <<cancelled, resumeRequired, outcome, worker>>
      /\ planQueue' = planQueue /\ planner' = planner
      /\ Persist \/ (journal' = journal /\ S = {} /\ \A r \in Run : B[r] = {})
  BY <1>1 DEF Pass, PassStarts, planVars
<1>3. /\ taskState \in [Run -> [Task -> TaskStates]]
      /\ submitted \in [Run -> [Task -> Nat]]
      /\ outcome \in [Run -> Outcomes]
  BY DEF TypeOK
<1>4. \A t \in Task :
        /\ taskState'[q][t] = IF <<q, t>> \in S THEN "running"
                              ELSE IF t \in B[q] THEN "blocked" ELSE taskState[q][t]
        /\ submitted'[q][t] = IF <<q, t>> \in S THEN submitted[q][t] + 1 ELSE submitted[q][t]
  BY <1>0, <1>1 DEF Pass, PassStarts, Blocked
<1>5. CASE ~ Schedulable(q)
  <2>1. B[q] = {} /\ runState'[q] = runState[q]
    BY <1>0, <1>1, <1>5 DEF Pass, PassStarts
  <2>2. \A t \in Task : <<q, t>> \notin S
    BY <1>1, <1>5 DEF Pass, PassStarts
  <2>3. taskState'[q] = taskState[q]
    <3>1. taskState' = [r \in Run |-> [t \in Task |->
                          IF <<r, t>> \in S THEN "running" ELSE Blocked(B)[r][t]]]
      BY <1>1 DEF Pass, PassStarts
    <3>2. taskState'[q] = [t \in Task |-> taskState[q][t]]
      BY <1>0, <2>1, <2>2, <3>1 DEF Blocked
    <3>. QED
      BY <1>0, <1>3, <3>2
  <2>4. submitted'[q] = submitted[q]
    <3>1. submitted' = [r \in Run |-> [t \in Task |->
                     IF <<r, t>> \in S THEN submitted[r][t] + 1 ELSE submitted[r][t]]]
      BY <1>1 DEF Pass, PassStarts
    <3>2. submitted'[q] = [t \in Task |-> submitted[q][t]]
      BY <1>0, <2>2, <3>1
    <3>. QED
      BY <1>0, <1>3, <3>2
  <2>. QED
    BY <1>0, <1>2, <2>1, <2>3, <2>4, Frame DEF Lifecycle
<1>6. CASE Schedulable(q)
  <2>1. BlockedBy(q, B[q]) /\ runState'[q] = Refreshed(q, taskState'[q], outcome[q])
    BY <1>0, <1>1, <1>6 DEF Pass, PassStarts
  <2>2. \A t \in Task : t \in B[q] => taskState[q][t] = "queued"
    BY <2>1 DEF BlockedBy
  <2>3. \A t \in Task : <<q, t>> \in S =>
          /\ t \notin B[q] /\ taskState[q][t] = "queued" /\ Ready(q, Blocked(B)[q], t)
    <3>. SUFFICES ASSUME NEW t \in Task, <<q, t>> \in S
                  PROVE  /\ t \notin B[q] /\ taskState[q][t] = "queued"
                         /\ Ready(q, Blocked(B)[q], t)
      OBVIOUS
    <3>1. Ready(q, Blocked(B)[q], t)
      BY <1>1 DEF Pass, PassStarts
    <3>2. Blocked(B)[q][t] = "queued"
      BY <3>1 DEF Ready
    <3>. QED
      BY <1>0, <3>1, <3>2 DEF Blocked
  <2>4. \A t \in Task : taskState[q][t] # "queued" =>
          taskState'[q][t] = taskState[q][t] /\ submitted'[q][t] = submitted[q][t]
    BY <1>4, <2>2, <2>3
  <2>5. \A t \in Task : taskState[q][t] = "queued" => ~ InFlight(q, t) /\ submitted[q][t] = 0
    <3>1. \A t \in Task : submitted[q][t] \in Nat
      BY <1>0, <1>3
    <3>. QED
      BY <1>0, <3>1 DEF GraphRunOK, OneExecution, InFlight
  <2>6. \A t \in Task : Executing(q, t)' <=> Executing(q, t)
    BY <1>2 DEF Executing
  <2>7. \A t \in Task : OneExecution(q, t)' /\ Carried(q, t)'
    <3>. SUFFICES ASSUME NEW t \in Task PROVE OneExecution(q, t)' /\ Carried(q, t)'
      OBVIOUS
    <3>1. CASE taskState[q][t] # "queued"
      BY <1>0, <1>2, <2>4, <2>6, <3>1 DEF GraphRunOK, OneExecution, Carried, InFlight
    <3>2. CASE taskState[q][t] = "queued" /\ <<q, t>> \in S
      <4>1. submitted'[q][t] = 1 /\ taskState'[q][t] = "running" /\ ~ Executing(q, t)'
        BY <1>4, <2>5, <2>6, <3>2 DEF InFlight
      <4>. QED
        BY <4>1 DEF OneExecution, Carried, InFlight, Executing
    <3>3. CASE taskState[q][t] = "queued" /\ <<q, t>> \notin S
      <4>1. submitted'[q][t] = 0 /\ taskState'[q][t] # "running" /\ ~ Executing(q, t)'
        BY <1>4, <2>5, <2>6, <3>3 DEF InFlight
      <4>. QED
        BY <4>1 DEF OneExecution, Carried, InFlight, Executing
    <3>. QED
      BY <3>1, <3>2, <3>3
  <2>8. \A t \in Task : DepsAllow(q, t)'
    <3>. SUFFICES ASSUME NEW t \in Task, taskState'[q][t] = "running" PROVE DepsAllow(q, t)'
      BY DEF DepsAllow
    <3>0. Deps[t] \subseteq Task
      BY ConstantsAssumption
    <3>1. CASE <<q, t>> \in S
      <4>1. DepsDone(Blocked(B)[q], t) /\ (DepFailed(Blocked(B)[q], t) => t \in Tolerant)
        BY <2>3, <3>1 DEF Ready
      <4>2. \A d \in Deps[t] : Blocked(B)[q][d] \in TaskTerminal
        BY <4>1 DEF DepsDone
      <4>3. \A d \in Deps[t] : taskState'[q][d] = Blocked(B)[q][d]
        <5>. SUFFICES ASSUME NEW d \in Deps[t] PROVE taskState'[q][d] = Blocked(B)[q][d]
          OBVIOUS
        <5>1. <<q, d>> \notin S
          BY <2>3, <3>0, <4>2 DEF Ready, TaskTerminal
        <5>. QED
          BY <1>0, <1>4, <3>0, <5>1 DEF Blocked
      <4>. QED
        BY <4>1, <4>3 DEF DepsAllow, DepsDone, DepFailed
    <3>2. CASE <<q, t>> \notin S
      <4>1. taskState[q][t] = "running" /\ DepsAllow(q, t)
        BY <1>0, <1>4, <3>2 DEF GraphRunOK
      <4>2. \A d \in Deps[t] : taskState'[q][d] = taskState[q][d]
        BY <2>4, <3>0, <4>1 DEF DepsAllow, DepsDone, TaskTerminal
      <4>. QED
        BY <4>1, <4>2 DEF DepsAllow, DepsDone, DepFailed
    <3>. QED
      BY <3>1, <3>2
  <2>9. Lifecycle(q)'
    <3>1. \A t \in Task : taskState[q][t] # "none"
      BY <1>0, <1>6 DEF Schedulable, Known, Lifecycle
    <3>2. \A t \in Task : taskState'[q][t] # "none"
      BY <1>4, <3>1
    <3>3. taskState'[q] \in [Task -> TaskStates] /\ taskState'[q] # NoTasks
      <4>1. taskState'[q] = [t \in Task |-> IF <<q, t>> \in S THEN "running"
                                            ELSE Blocked(B)[q][t]]
        BY <1>0, <1>1 DEF Pass, PassStarts
      <4>2. taskState'[q] \in [Task -> TaskStates]
        BY <1>0, <1>3, <4>1 DEF Blocked, TaskStates, TaskTerminal
      <4>. QED
        BY <3>2, <4>2, ConstantsAssumption DEF NoTasks
    <3>4. /\ runState'[q] \notin {"new", "gone", "planning"}
          /\ runState'[q] \in RunTerminal => Settled(taskState'[q])
      <4>1. outcome[q] \in Outcomes
        BY <1>0, <1>3
      <4>. QED
        BY <1>0, <1>6, <2>1, <3>3, <4>1, RefreshedStates DEF Schedulable, Known
    <3>5. ~ resumeRequired'[q] /\ planner' # q /\ planQueue'[q] = planQueue[q]
      BY <1>0, <1>2, <1>6 DEF Lifecycle, Schedulable, Known, RunTerminal
    <3>6. runState'[q] \in RunTerminal \cup {"gone"} =>
            \A t \in Task : taskState'[q][t] \in TaskTerminal
      BY <3>2, <3>4 DEF Settled
    <3>7. Persist \/ (journal' = journal /\ runState[q] # "new")
      BY <1>2, <1>6 DEF Schedulable, Known
    <3>. QED
      BY <1>0, <3>2, <3>4, <3>5, <3>6, <3>7, LifecycleKept
  <2>. QED
    BY <2>7, <2>8, <2>9 DEF GraphRunOK
<1>. QED
  BY <1>5, <1>6

\* The steps that change no record and no execution of a submitted graph.
LEMMA OtherStep ==
  ASSUME TypeOK, GraphInv,
         \/ \E r \in Run : SubmitObjective(r) \/ ResumeRefused(r)
         \/ \E r \in Run, t \in Task : BackoffElapses(r, t)
         \/ UNCHANGED vars
  PROVE  GraphInv'
<1>. SUFFICES ASSUME NEW q \in GraphRun PROVE GraphRunOK(q)'
  BY DEF GraphInv
<1>0. q \in Run /\ GraphRunOK(q) /\ planner # q
  BY ConstantsAssumption DEF GraphInv, GraphRunOK, Lifecycle
<1>1. ASSUME NEW r \in Run, SubmitObjective(r) PROVE GraphRunOK(q)'
  <2>1. q # r
    BY <1>1 DEF SubmitObjective
  <2>2. [runState EXCEPT ![r] = "planning"] \in [Run -> RunStates]
    BY DEF TypeOK, RunStates
  <2>3. runState'[q] = runState[q] \/ (runState'[q] = "gone" /\ runState[q] \in RunTerminal)
    <3>1. [runState EXCEPT ![r] = "planning"][q] = runState[q]
      BY <1>0, <2>1 DEF TypeOK
    <3>. QED
      BY <1>0, <1>1, <2>2, <3>1, PrunedStates DEF SubmitObjective
  <2>4. planQueue'[q] = planQueue[q]
    BY <1>0, <1>1, <2>1 DEF SubmitObjective, TypeOK
  <2>. QED
    BY <1>0, <1>1, <2>3, <2>4, Frame DEF SubmitObjective, taskVars, poolVars
<1>2. ASSUME NEW r \in Run, ResumeRefused(r) PROVE GraphRunOK(q)'
  BY <1>0, <1>2, Frame DEF ResumeRefused, taskVars, poolVars, planVars
<1>3. CASE \E r \in Run, t \in Task : BackoffElapses(r, t)
  BY <1>0, <1>3, Frame DEF BackoffElapses, runVars, poolVars, planVars
<1>4. CASE UNCHANGED vars
  BY <1>0, <1>4, Frame DEF vars, runVars, taskVars, poolVars, planVars
<1>. QED
  BY <1>1, <1>3, <1>4, <1>2

LEMMA GraphStep == TypeOK /\ GraphInv /\ [Next]_vars => GraphInv'
<1>. SUFFICES ASSUME TypeOK, GraphInv, [Next]_vars PROVE GraphInv'
  OBVIOUS
<1>1. ASSUME NEW r \in Run, Requester(r) PROVE GraphInv'
  BY <1>1, SubmitGraphStep, OtherStep, PauseStep, RequeueStep, ResumeActiveStep, CancelStep
     DEF Requester, Resume
<1>2. ASSUME NEW r \in Run, Planner(r) PROVE GraphInv'
  BY <1>2, PlannerStep
<1>3. CASE SchedulerPass
  BY <1>3, SchedulerStep
<1>4. ASSUME NEW w \in Worker, NEW r \in Run, NEW t \in Task, Execution(w, r, t)
      PROVE  GraphInv'
  BY <1>4, ExecBeginStep, ExecEndStep DEF Execution
<1>5. CASE Restart
  BY <1>5, RestartStep
<1>. QED
  BY <1>1, <1>2, <1>3, <1>4, <1>5, OtherStep DEF Next

\* The records, the pool and the checkpoint of every submitted graph stay
\* consistent, whatever its requesters do and whenever the process restarts.
THEOREM GraphInvariant == Spec => []GraphInv
<1>1. Init => TypeOK /\ GraphInv
  BY InitType, InitGraph
<1>2. TypeOK /\ GraphInv /\ [Next]_vars => (TypeOK /\ GraphInv)'
  BY StepType, GraphStep
<1>. QED
  BY <1>1, <1>2, PTL DEF Spec

\* No task of a submitted graph ever has two executions (_execute_task).
THEOREM NoDoubleExecution == Spec => []SingleExecution
<1>1. GraphInv => SingleExecution
  BY DEF GraphInv, GraphRunOK, SingleExecution
<1>. QED
  BY <1>1, GraphInvariant, PTL

\* A record that says "running" has an execution, until the run is cancelled.
THEOREM RunningIsCarried == Spec => []NothingAbandoned
<1>1. GraphInv => NothingAbandoned
  BY DEF GraphInv, GraphRunOK, NothingAbandoned
<1>. QED
  BY <1>1, GraphInvariant, PTL

\* A task only runs on dependencies that are settled and allow it (_scheduler_loop).
THEOREM RunsOnSettledDependencies == Spec => []DependenciesSettled
<1>1. GraphInv => DependenciesSettled
  BY DEF GraphInv, GraphRunOK, DependenciesSettled
<1>. QED
  BY <1>1, GraphInvariant, PTL

\* A run reported as terminal has no execution left (_refresh_run_state_locked).
THEOREM TerminalRunsAreSettled == Spec => []TerminalIsSettled
<1>1. TypeOK /\ GraphInv => TerminalIsSettled
  <2>. SUFFICES ASSUME TypeOK, GraphInv, NEW r \in GraphRun, runState[r] \in RunTerminal,
                       NEW t \in Task
                PROVE  taskState[r][t] \in TaskTerminal /\ ~ InFlight(r, t)
    BY DEF TerminalIsSettled
  <2>1. GraphRunOK(r)
    BY DEF GraphInv
  <2>. QED
    BY <2>1, EndedIsQuiet DEF GraphRunOK, Lifecycle
<1>. QED
  BY <1>1, TypeCorrect, GraphInvariant, PTL

-----------------------------------------------------------------------------
(***************************************************************************)
(* The pool: only a pass of the scheduler makes records run, and it counts *)
(* those that do.                                                          *)
(***************************************************************************)

\* The records of a well-typed state are finitely many.
LEMMA RunningFinite == IsFiniteSet(RunningTasks)
<1>1. IsFiniteSet(Run \X Task)
  BY ConstantsAssumption, FS_Product
<1>. QED
  BY <1>1, FS_Subset DEF RunningTasks

\* A step after which no other record runs than before keeps the bound.
LEMMA FewerRunning ==
  ASSUME WorkerBound,
         \A r \in Run, t \in Task :
           Known(r)' /\ taskState'[r][t] = "running" => Known(r) /\ taskState[r][t] = "running"
  PROVE  WorkerBound'
<1>1. RunningTasks' \subseteq RunningTasks
  BY DEF RunningTasks
<1>2. Cardinality(RunningTasks') <= Cardinality(RunningTasks)
  BY <1>1, RunningFinite, FS_Subset
<1>3. /\ Cardinality(RunningTasks) \in Nat
      /\ Cardinality(RunningTasks') \in Nat
      /\ Cardinality(Worker) \in Nat
  BY <1>1, RunningFinite, ConstantsAssumption, FS_Subset, FS_CardinalityType
<1>. QED
  BY <1>2, <1>3 DEF WorkerBound

\* A run that was not submitted has no record that runs.
NewIsIdle == \A r \in Run : runState[r] = "new" => \A t \in Task : taskState[r][t] # "running"

\* What every step but a restart and a pass does: it makes no record run, brings
\* no forgotten run back and takes no submission back.
Starts ==
  /\ \A r \in Run, t \in Task : taskState'[r][t] = "running" => taskState[r][t] = "running"
  /\ \A r \in Run : runState[r] = "gone" => runState'[r] = "gone"
  /\ \A r \in Run : runState'[r] = "new" => runState[r] = "new"

LEMMA StartsNothing == ASSUME NewIsIdle, WorkerBound, Starts PROVE NewIsIdle' /\ WorkerBound'
<1>1. NewIsIdle'
  BY DEF NewIsIdle, Starts
<1>2. ASSUME NEW r \in Run, NEW t \in Task, Known(r)', taskState'[r][t] = "running"
      PROVE  Known(r) /\ taskState[r][t] = "running"
  BY <1>2 DEF Known, NewIsIdle, Starts
<1>. QED
  BY <1>1, <1>2, FewerRunning

LEMMA SubmitStarts ==
  ASSUME TypeOK, NEW r \in Run, SubmitGraph(r) \/ SubmitObjective(r)
  PROVE  Starts
<1>1. runState[r] = "new" /\ runState \in [Run -> RunStates] /\ taskState \in [Run -> [Task -> TaskStates]]
  BY DEF SubmitGraph, SubmitObjective, NextId, TypeOK
<1>2. ASSUME NEW st \in {"running", "planning"}, runState' = Pruned([runState EXCEPT ![r] = st])
      PROVE  /\ \A q \in Run : runState[q] = "gone" => runState'[q] = "gone"
             /\ \A q \in Run : runState'[q] = "new" => runState[q] = "new"
  <2>1. [runState EXCEPT ![r] = st] \in [Run -> RunStates]
    BY <1>1 DEF RunStates
  <2>. DEFINE next == [runState EXCEPT ![r] = st]
  <2>2. \A q \in Run : runState'[q] = next[q] \/ (runState'[q] = "gone" /\ next[q] \in RunTerminal)
    BY <1>2, <2>1, PrunedStates
  <2>3. \A q \in Run : next[q] = IF q = r THEN st ELSE runState[q]
    BY <1>1
  <2>. HIDE DEF next
  <2>. QED
    BY <1>1, <2>2, <2>3 DEF RunTerminal
<1>3. CASE SubmitGraph(r)
  <2>1. runState' = Pruned([runState EXCEPT ![r] = "running"])
    BY <1>3 DEF SubmitGraph
  <2>2. \A q \in Run, t \in Task : taskState'[q][t] = "running" => taskState[q][t] = "running"
    BY <1>1, <1>3 DEF SubmitGraph, FreshTasks
  <2>. QED
    BY <1>2, <2>1, <2>2 DEF Starts
<1>4. CASE SubmitObjective(r)
  <2>1. runState' = Pruned([runState EXCEPT ![r] = "planning"]) /\ taskState' = taskState
    BY <1>4 DEF SubmitObjective, taskVars
  <2>. QED
    BY <1>2, <2>1 DEF Starts
<1>. QED
  BY <1>3, <1>4

LEMMA RequesterStarts ==
  ASSUME TypeOK, NEW r \in Run, Pause(r) \/ Resume(r) \/ Cancel(r)
  PROVE  Starts
<1>. USE DEF Starts, TypeOK, Known
<1>1. CASE Pause(r)
  BY <1>1 DEF Pause, taskVars
<1>2. CASE ResumeRestarted(r)
  BY <1>2 DEF ResumeRestarted, Resumable, Continue
<1>3. CASE RetryFailed(r)
  BY <1>3 DEF RetryFailed, Resumable, Continue
<1>4. CASE ResumeActive(r)
  BY <1>4 DEF ResumeActive, Resumable, Continue, taskVars
<1>5. CASE ResumeRefused(r)
  BY <1>5 DEF ResumeRefused, taskVars
<1>6. CASE Cancel(r)
  BY <1>6 DEF Cancel
<1>. QED
  BY <1>1, <1>2, <1>3, <1>4, <1>5, <1>6 DEF Resume

LEMMA PlannerStarts ==
  ASSUME TypeOK, NEW r \in Run, Planner(r)
  PROVE  Starts
<1>. USE DEF Starts, TypeOK, Known
<1>1. CASE PlanBegin(r)
  BY <1>1 DEF PlanBegin, runVars, taskVars
<1>2. CASE PlanFail(r)
  BY <1>2 DEF PlanFail, runVars, taskVars
<1>3. CASE PlanReady(r) /\ Known(r) /\ ~ cancelled[r]
  <2>1. taskState' = [taskState EXCEPT ![r] = FreshTasks]
    BY <1>3 DEF PlanReady
  <2>2. runState' = [runState EXCEPT ![r] = IF paused[r] THEN "paused" ELSE "running"]
    BY <1>3 DEF PlanReady
  <2>. QED
    BY <1>3, <2>1, <2>2 DEF FreshTasks
<1>4. CASE PlanReady(r) /\ ~ (Known(r) /\ ~ cancelled[r])
  BY <1>4 DEF PlanReady, runVars, taskVars
<1>. QED
  BY <1>1, <1>2, <1>3, <1>4 DEF Planner

LEMMA ExecutionStarts ==
  ASSUME TypeOK, TypeOK', NEW w \in Worker, NEW r \in Run, NEW t \in Task, Execution(w, r, t)
  PROVE  Starts
<1>1. CASE ExecBegin(w, r, t)
  BY <1>1 DEF ExecBegin, runVars, taskVars, Starts
<1>2. CASE ExecForgotten(w, r, t)
  BY <1>2 DEF ExecForgotten, runVars, taskVars, Starts
<1>3. ASSUME NEW st \in TaskStates \ {"running"}, Finish(w, r, t, st) PROVE Starts
  <2>1. taskState'[r] \in [Task -> TaskStates] /\ outcome'[r] \in Outcomes
    BY DEF TypeOK
  <2>2. Known(r) /\ runState'[r] \notin {"new", "gone"}
    BY <1>3, <2>1, RefreshedStates DEF Finish, Known, TypeOK
  <2>3. \A q \in Run \ {r} : runState'[q] = runState[q]
    BY <1>3 DEF Finish, TypeOK
  <2>4. \A q \in Run, u \in Task : taskState'[q][u] = "running" => taskState[q][u] = "running"
    BY <1>3 DEF Finish, TypeOK
  <2>. QED
    BY <2>2, <2>3, <2>4 DEF Starts, Known
<1>4. CASE ExecEnd(w, r, t) /\ ~ ExecForgotten(w, r, t)
  BY <1>3, <1>4 DEF ExecEnd, ExecCancelled, ExecSucceeded, ExecBlocked, ExecWaits, ExecRetries,
                    ExecFails, TaskStates, TaskTerminal
<1>. QED
  BY <1>1, <1>2, <1>4 DEF Execution

\* A pass starts at most as many records as there are free threads.
LEMMA PassKeepsBound ==
  ASSUME TypeOK, TypeOK', NewIsIdle, WorkerBound, SchedulerPass
  PROVE  NewIsIdle' /\ WorkerBound'
<1>1. PICK B \in [Run -> SUBSET Task] :
        /\ \A r \in Run : IF Schedulable(r) THEN BlockedBy(r, B[r]) ELSE B[r] = {}
        /\ \E S \in SUBSET ReadyAfter(B) : StartsFirst(S, ReadyAfter(B)) /\ PassStarts(B, S)
  BY DEF SchedulerPass
<1>2. PICK S \in SUBSET ReadyAfter(B) : StartsFirst(S, ReadyAfter(B)) /\ PassStarts(B, S)
  BY <1>1
<1>3. S \subseteq Run \X Task /\ \A x \in S : Known(x[1])
  BY DEF ReadyAfter, Schedulable
<1>4. \A r \in Run : runState'[r] = runState[r] \/ (Known(r) /\ Known(r)')
  <2>1. ASSUME NEW r \in Run, Schedulable(r) PROVE Known(r) /\ Known(r)'
    <3>1. runState'[r] = Refreshed(r, taskState'[r], outcome[r])
      BY <1>2, <2>1 DEF PassStarts
    <3>2. taskState'[r] \in [Task -> TaskStates] /\ outcome[r] \in Outcomes
      BY DEF TypeOK
    <3>. QED
      BY <2>1, <3>1, <3>2, RefreshedStates DEF Schedulable, Known
  <2>. QED
    BY <1>2, <2>1 DEF PassStarts
<1>5. \A r \in Run, t \in Task :
        taskState'[r][t] = "running" => <<r, t>> \in S \/ taskState[r][t] = "running"
  BY <1>2 DEF PassStarts, Blocked
<1>6. NewIsIdle'
  BY <1>3, <1>4, <1>5 DEF NewIsIdle, Known
<1>7. RunningTasks' \subseteq RunningTasks \cup S
  BY <1>4, <1>5 DEF RunningTasks, Known
<1>8. WorkerBound'
  <2>1. IsFiniteSet(S)
    <3>1. IsFiniteSet(Run \X Task)
      BY ConstantsAssumption, FS_Product
    <3>. QED
      BY <1>3, <3>1, FS_Subset
  <2>2. /\ IsFiniteSet(RunningTasks \cup S)
        /\ Cardinality(RunningTasks \cup S)
             = Cardinality(RunningTasks) + Cardinality(S) - Cardinality(RunningTasks \cap S)
        /\ IsFiniteSet(RunningTasks \cap S)
    BY <2>1, RunningFinite, FS_Union, FS_Intersection
  <2>3. Cardinality(RunningTasks') <= Cardinality(RunningTasks \cup S)
    BY <1>7, <2>2, FS_Subset
  <2>4. /\ Cardinality(RunningTasks) \in Nat /\ Cardinality(S) \in Nat
        /\ Cardinality(RunningTasks \cap S) \in Nat /\ Cardinality(Worker) \in Nat
        /\ Cardinality(RunningTasks') \in Nat
    BY <1>7, <2>1, <2>2, RunningFinite, ConstantsAssumption, FS_Subset, FS_CardinalityType
  <2>5. Cardinality(S) <= IF Cardinality(RunningTasks) < Cardinality(Worker)
                          THEN Cardinality(Worker) - Cardinality(RunningTasks) ELSE 0
    BY <1>2 DEF StartsFirst, Free
  <2>. QED
    BY <2>2, <2>3, <2>4, <2>5 DEF WorkerBound
<1>. QED
  BY <1>6, <1>8

LEMMA RestartIsIdle == ASSUME Restart PROVE \A r \in Run, t \in Task : taskState'[r][t] # "running"
  BY DEF Restart, LoadedTask, TaskTerminal

LEMMA PoolStep ==
  ASSUME TypeOK, TypeOK', NewIsIdle, WorkerBound, [Next]_vars
  PROVE  NewIsIdle' /\ WorkerBound'
<1>1. ASSUME NEW r \in Run, Requester(r) PROVE Starts
  BY <1>1, SubmitStarts, RequesterStarts DEF Requester
<1>2. ASSUME NEW r \in Run, Planner(r) PROVE Starts
  BY <1>2, PlannerStarts
<1>3. CASE SchedulerPass
  BY <1>3, PassKeepsBound
<1>4. CASE \E r \in Run, t \in Task : BackoffElapses(r, t)
  BY <1>4, StartsNothing DEF BackoffElapses, runVars, Starts
<1>5. ASSUME NEW w \in Worker, NEW r \in Run, NEW t \in Task, Execution(w, r, t) PROVE Starts
  BY <1>5, ExecutionStarts
<1>6. CASE Restart
  BY <1>6, RestartIsIdle, FewerRunning DEF NewIsIdle
<1>7. CASE UNCHANGED vars
  BY <1>7, StartsNothing DEF vars, runVars, taskVars, Starts
<1>. QED
  BY <1>1, <1>2, <1>3, <1>4, <1>5, <1>6, <1>7, StartsNothing DEF Next

\* However runs are planned again, retried, forgotten and restarted, no more
\* records run than the pool has threads (_scheduler_loop).
THEOREM PoolIsBounded == Spec => []WorkerBound
<1>1. Init => NewIsIdle /\ WorkerBound
  <2>. SUFFICES ASSUME Init PROVE NewIsIdle /\ WorkerBound
    OBVIOUS
  <2>1. \A r \in Run : runState[r] = "new" /\ \A t \in Task : taskState[r][t] # "running"
    BY DEF Init, NoTasks
  <2>2. Cardinality(RunningTasks) = 0
    BY <2>1, FS_EmptySet DEF RunningTasks, Known
  <2>. QED
    BY <2>1, <2>2, ConstantsAssumption, FS_CardinalityType DEF NewIsIdle, WorkerBound
<1>2. TypeOK /\ TypeOK' /\ NewIsIdle /\ WorkerBound /\ [Next]_vars => NewIsIdle' /\ WorkerBound'
  BY PoolStep
<1>. QED
  BY <1>1, <1>2, TypeCorrect, PTL DEF Spec

-----------------------------------------------------------------------------
(***************************************************************************)
(* The checkpoint: every critical section that changes a record or cancels *)
(* a run ends with _persist_locked, so a restart finds both as they were.  *)
(***************************************************************************)
JournalInv ==
  /\ JournalIsCurrent
  /\ \A r \in Run :
       /\ journal[r].cancelled = cancelled[r]
       /\ runState[r] = "new" => cancelled[r] = FALSE
       /\ journal[r].state = "new" => cancelled[r] = FALSE

\* What every step but a restart does to what the checkpoint must hold.
Recorded ==
  /\ Persist \/ UNCHANGED <<journal, taskState, cancelled>>
  /\ \A r \in Run : cancelled'[r] = cancelled[r] \/ (cancelled'[r] = TRUE /\ Known(r))
  /\ \A r \in Run : runState'[r] = "new" => runState[r] = "new"

LEMMA RecordedIsCurrent == ASSUME TypeOK, TypeOK', JournalInv, Recorded PROVE JournalInv'
<1>1. ASSUME NEW r \in Run, runState'[r] = "new" PROVE cancelled'[r] = FALSE
  BY <1>1 DEF Recorded, JournalInv, Known
<1>2. CASE Persist
  BY <1>1, <1>2 DEF Persist, JournalInv, JournalIsCurrent
<1>3. CASE UNCHANGED <<journal, taskState, cancelled>>
  BY <1>1, <1>3 DEF JournalInv, JournalIsCurrent
<1>. QED
  BY <1>2, <1>3 DEF Recorded

LEMMA PassRecords == ASSUME TypeOK, TypeOK', SchedulerPass PROVE Recorded
<1>1. PICK B \in [Run -> SUBSET Task], S \in SUBSET (Run \X Task) : Pass(B, S)
  BY PassOf
<1>2. \A r \in Run : runState'[r] = "new" => runState[r] = "new"
  <2>1. ASSUME NEW r \in Run, Schedulable(r) PROVE runState'[r] # "new"
    <3>1. runState'[r] = Refreshed(r, taskState'[r], outcome[r])
      BY <1>1, <2>1 DEF Pass, PassStarts
    <3>2. taskState'[r] \in [Task -> TaskStates] /\ outcome[r] \in Outcomes
      BY DEF TypeOK
    <3>. QED
      BY <2>1, <3>1, <3>2, RefreshedStates DEF Schedulable, Known
  <2>. QED
    BY <1>1, <2>1 DEF Pass, PassStarts
<1>3. cancelled' = cancelled
  BY <1>1 DEF Pass, PassStarts
<1>4. CASE S = {} /\ \A r \in Run : B[r] = {}
  <2>1. journal' = journal
    BY <1>1, <1>4 DEF Pass, PassStarts
  <2>2. taskState' = [r \in Run |-> [t \in Task |-> taskState[r][t]]]
    BY <1>1, <1>4 DEF Pass, PassStarts, Blocked
  <2>3. taskState' = taskState
    BY <2>2 DEF TypeOK
  <2>. QED
    BY <1>2, <1>3, <2>1, <2>3 DEF Recorded
<1>5. CASE ~ (S = {} /\ \A r \in Run : B[r] = {})
  BY <1>1, <1>2, <1>3, <1>5 DEF Pass, PassStarts, Recorded
<1>. QED
  BY <1>4, <1>5

LEMMA RequesterRecords == ASSUME TypeOK, NEW r \in Run, Requester(r) PROVE Recorded
<1>1. \A q \in Run : runState'[q] = "new" => runState[q] = "new"
  BY SubmitStarts, RequesterStarts DEF Requester, Starts
<1>2. CASE SubmitGraph(r) \/ SubmitObjective(r)
  BY <1>1, <1>2 DEF SubmitGraph, SubmitObjective, Recorded
<1>3. CASE Pause(r)
  BY <1>1, <1>3 DEF Pause, Recorded
<1>4. CASE ResumeRestarted(r) \/ RetryFailed(r) \/ ResumeActive(r)
  <2>1. Continue(r)
    BY <1>4 DEF ResumeRestarted, RetryFailed, ResumeActive
  <2>. QED
    BY <1>1, <2>1 DEF Continue, Recorded
<1>5. CASE ResumeRefused(r)
  BY <1>1, <1>5 DEF ResumeRefused, taskVars, Recorded
<1>6. CASE Cancel(r)
  <2>1. Persist /\ Known(r) /\ cancelled' = [cancelled EXCEPT ![r] = TRUE]
    BY <1>6 DEF Cancel
  <2>. QED
    BY <1>1, <2>1 DEF Recorded, TypeOK
<1>. QED
  BY <1>2, <1>3, <1>4, <1>5, <1>6 DEF Requester, Resume

LEMMA OtherRecords ==
  ASSUME TypeOK, TypeOK', [Next]_vars, ~ Restart
  PROVE  Recorded
<1>1. ASSUME NEW r \in Run, Requester(r) PROVE Recorded
  BY <1>1, RequesterRecords
<1>2. ASSUME NEW r \in Run, Planner(r) PROVE Recorded
  <2>1. \A q \in Run : runState'[q] = "new" => runState[q] = "new"
    BY <1>2, PlannerStarts DEF Starts
  <2>. QED
    BY <1>2, <2>1 DEF Planner, PlanBegin, PlanFail, PlanReady, runVars, taskVars, Recorded
<1>3. CASE SchedulerPass
  BY <1>3, PassRecords
<1>4. CASE \E r \in Run, t \in Task : BackoffElapses(r, t)
  BY <1>4 DEF BackoffElapses, runVars, Recorded
<1>5. ASSUME NEW w \in Worker, NEW r \in Run, NEW t \in Task, Execution(w, r, t) PROVE Recorded
  <2>1. \A q \in Run : runState'[q] = "new" => runState[q] = "new"
    BY <1>5, ExecutionStarts DEF Starts
  <2>2. CASE ExecBegin(w, r, t) \/ ExecForgotten(w, r, t)
    BY <2>1, <2>2 DEF ExecBegin, ExecForgotten, runVars, taskVars, Recorded
  <2>3. CASE ExecEnd(w, r, t) /\ ~ ExecForgotten(w, r, t)
    <3>1. PICK st \in TaskStates : Finish(w, r, t, st)
      BY <2>3 DEF ExecEnd, ExecCancelled, ExecSucceeded, ExecBlocked, ExecWaits, ExecRetries,
                  ExecFails, TaskStates, TaskTerminal
    <3>. QED
      BY <2>1, <3>1 DEF Finish, Recorded
  <2>. QED
    BY <1>5, <2>2, <2>3 DEF Execution
<1>6. CASE UNCHANGED vars
  BY <1>6 DEF vars, runVars, taskVars, Recorded
<1>. QED
  BY <1>1, <1>2, <1>3, <1>4, <1>5, <1>6 DEF Next

LEMMA RestartIsCurrent == ASSUME TypeOK, TypeOK', JournalInv, Restart PROVE JournalInv'
<1>1. \A r \in Run, t \in Task :
        LoadedTask(journal'[r].tasks[t]) = LoadedTask(taskState'[r][t])
  BY DEF Restart, LoadedTask, TaskTerminal
<1>2. ASSUME NEW r \in Run
      PROVE  /\ journal'[r].cancelled = cancelled'[r]
             /\ runState'[r] = "new" => cancelled'[r] = FALSE
             /\ journal'[r].state = "new" => cancelled'[r] = FALSE
  BY DEF Restart, LoadedRun, JournalInv
<1>. QED
  BY <1>1, <1>2 DEF JournalInv, JournalIsCurrent

LEMMA JournalInvariant == Spec => []JournalInv
<1>1. Init => JournalInv
  <2>. SUFFICES ASSUME Init PROVE JournalInv
    OBVIOUS
  <2>1. ASSUME NEW r \in Run
        PROVE  /\ journal[r].tasks = taskState[r]
               /\ journal[r].cancelled = cancelled[r]
               /\ cancelled[r] = FALSE
    BY DEF Init
  <2>2. JournalIsCurrent
    BY <2>1 DEF JournalIsCurrent
  <2>. QED
    BY <2>1, <2>2 DEF JournalInv
<1>2. TypeOK /\ TypeOK' /\ JournalInv /\ [Next]_vars => JournalInv'
  BY OtherRecords, RecordedIsCurrent, RestartIsCurrent
<1>. QED
  BY <1>1, <1>2, TypeCorrect, PTL DEF Spec

\* A crash at any moment restores every settled task as it was, and interrupts
\* exactly the others (_persist_locked, _load_journal_history).
THEOREM CheckpointIsCurrent == Spec => []JournalIsCurrent
<1>1. JournalInv => JournalIsCurrent
  BY DEF JournalInv
<1>. QED
  BY <1>1, JournalInvariant, PTL

-----------------------------------------------------------------------------
(***************************************************************************)
(* What no step does to a record: the action properties.                   *)
(***************************************************************************)
FinalFor(r) ==
  cancelled[r] =>
    /\ cancelled'[r]
    /\ \A t \in Task : taskState'[r][t] \in {taskState[r][t], "cancelled", "interrupted"}

LEMMA RequesterIsFinal ==
  ASSUME TypeOK, JournalInv, NEW q \in Run, Requester(q), NEW r \in Run PROVE FinalFor(r)
<1>1. CASE SubmitGraph(q)
  <2>1. cancelled[q] = FALSE
    BY <1>1 DEF SubmitGraph, NextId, JournalInv
  <2>. QED
    BY <1>1, <2>1 DEF SubmitGraph, FinalFor, TypeOK
<1>2. CASE SubmitObjective(q)
  BY <1>2 DEF SubmitObjective, taskVars, FinalFor
<1>3. CASE Pause(q)
  BY <1>3 DEF Pause, taskVars, FinalFor
<1>4. CASE ResumeRestarted(q)
  BY <1>4 DEF ResumeRestarted, Resumable, Continue, FinalFor, TypeOK
<1>5. CASE RetryFailed(q)
  <2>1. cancelled' = cancelled /\ ~ cancelled[q]
    BY <1>5 DEF RetryFailed, Resumable, Continue
  <2>2. r # q => taskState'[r] = taskState[r]
    BY <1>5 DEF RetryFailed, TypeOK
  <2>. QED
    BY <2>1, <2>2 DEF FinalFor
<1>6. CASE ResumeActive(q)
  BY <1>6 DEF ResumeActive, Continue, taskVars, FinalFor
<1>7. CASE ResumeRefused(q)
  BY <1>7 DEF ResumeRefused, taskVars, FinalFor
<1>8. CASE Cancel(q)
  <2>1. /\ cancelled' = [cancelled EXCEPT ![q] = TRUE]
        /\ taskState' = [taskState EXCEPT ![q] =
             [t \in Task |-> IF taskState[q][t] = "queued" THEN "cancelled" ELSE taskState[q][t]]]
    BY <1>8 DEF Cancel
  <2>. QED
    BY <2>1 DEF FinalFor, TypeOK
<1>. QED
  BY <1>1, <1>2, <1>3, <1>4, <1>5, <1>6, <1>7, <1>8 DEF Requester, Resume

LEMMA PassIsFinal == ASSUME TypeOK, SchedulerPass, NEW r \in Run PROVE FinalFor(r)
<1>1. PICK B \in [Run -> SUBSET Task], S \in SUBSET (Run \X Task) : Pass(B, S)
  BY PassOf
<1>2. ASSUME cancelled[r] PROVE B[r] = {} /\ \A t \in Task : <<r, t>> \notin S
  <2>1. ~ Schedulable(r)
    BY <1>2 DEF Schedulable
  <2>. QED
    BY <1>1, <2>1 DEF Pass
<1>3. cancelled' = cancelled
  BY <1>1 DEF Pass, PassStarts
<1>4. ASSUME cancelled[r], NEW t \in Task PROVE taskState'[r][t] = taskState[r][t]
  BY <1>1, <1>2, <1>4 DEF Pass, PassStarts, Blocked
<1>. QED
  BY <1>3, <1>4 DEF FinalFor

LEMMA ExecutionIsFinal ==
  ASSUME TypeOK, NEW w \in Worker, NEW q \in Run, NEW u \in Task, Execution(w, q, u), NEW r \in Run
  PROVE  FinalFor(r)
<1>1. CASE ExecBegin(w, q, u) \/ ExecForgotten(w, q, u)
  BY <1>1 DEF ExecBegin, ExecForgotten, runVars, taskVars, FinalFor
<1>2. CASE ExecCancelled(w, q, u)
  BY <1>2 DEF ExecCancelled, Finish, FinalFor, TypeOK
<1>3. CASE ExecEnd(w, q, u) /\ ~ ExecForgotten(w, q, u) /\ ~ ExecCancelled(w, q, u)
  <2>1. PICK st \in TaskStates : Finish(w, q, u, st) /\ ~ cancelled[q]
    BY <1>3 DEF ExecEnd, ExecSucceeded, ExecBlocked, ExecWaits, ExecRetries, ExecFails,
                TaskStates, TaskTerminal
  <2>. QED
    BY <2>1 DEF Finish, FinalFor, TypeOK
<1>. QED
  BY <1>1, <1>2, <1>3 DEF Execution

LEMMA StepIsFinal ==
  ASSUME TypeOK, JournalInv, [Next]_vars, NEW r \in Run PROVE FinalFor(r)
<1>1. ASSUME NEW q \in Run, Requester(q) PROVE FinalFor(r)
  BY <1>1, RequesterIsFinal
<1>2. ASSUME NEW q \in Run, Planner(q) PROVE FinalFor(r)
  BY <1>2 DEF Planner, PlanBegin, PlanFail, PlanReady, runVars, taskVars, FinalFor, TypeOK
<1>3. CASE SchedulerPass
  BY <1>3, PassIsFinal
<1>4. CASE \E q \in Run, t \in Task : BackoffElapses(q, t)
  BY <1>4 DEF BackoffElapses, runVars, FinalFor
<1>5. ASSUME NEW w \in Worker, NEW q \in Run, NEW t \in Task, Execution(w, q, t) PROVE FinalFor(r)
  BY <1>5, ExecutionIsFinal
<1>6. CASE Restart
  <2>1. cancelled'[r] = cancelled[r]
    BY <1>6 DEF Restart, JournalInv
  <2>2. \A t \in Task : taskState'[r][t] = LoadedTask(taskState[r][t])
    BY <1>6 DEF Restart, JournalInv, JournalIsCurrent
  <2>. QED
    BY <2>1, <2>2 DEF FinalFor, LoadedTask
<1>7. CASE UNCHANGED vars
  BY <1>7 DEF vars, runVars, taskVars, FinalFor
<1>. QED
  BY <1>1, <1>2, <1>3, <1>4, <1>5, <1>6, <1>7 DEF Next

\* Cancel is final for every run, planned or submitted, and across restarts: no
\* task of a cancelled run starts, is queued, succeeds or fails any more (cancel,
\* _execute_task, resume).
THEOREM CancelHolds == Spec => CancelIsFinal
<1>1. TypeOK /\ JournalInv /\ [Next]_vars =>
        [\A r \in Run : cancelled[r] =>
           /\ cancelled'[r]
           /\ \A t \in Task : taskState'[r][t] \in {taskState[r][t], "cancelled", "interrupted"}]_vars
  BY StepIsFinal DEF FinalFor
<1>. QED
  BY <1>1, TypeCorrect, JournalInvariant, PTL DEF Spec, CancelIsFinal

PreservedFor(r) ==
  \A t \in Task : taskState[r][t] = "succeeded" =>
    \/ taskState'[r][t] = "succeeded"
    \/ t \in Coordinator /\ RetryFailed(r)

LEMMA RequesterPreserves ==
  ASSUME TypeOK, GraphInv, NEW q \in Run, Requester(q), NEW r \in GraphRun PROVE PreservedFor(r)
<1>0. r \in Run /\ Lifecycle(r)
  BY InvOf
<1>1. CASE SubmitGraph(q)
  <2>1. \A t \in Task : q = r => taskState[q][t] = "none"
    BY <1>0, <1>1 DEF SubmitGraph, NextId, Lifecycle
  <2>. QED
    BY <1>0, <1>1, <2>1 DEF SubmitGraph, PreservedFor, TypeOK
<1>2. CASE SubmitObjective(q)
  BY <1>2 DEF SubmitObjective, taskVars, PreservedFor
<1>3. CASE Pause(q)
  BY <1>3 DEF Pause, taskVars, PreservedFor
<1>4. CASE ResumeRestarted(q)
  <2>1. taskState' = [taskState EXCEPT ![q] =
          [t \in Task |-> IF Unfinished(taskState[q][t]) THEN "queued" ELSE taskState[q][t]]]
    BY <1>4 DEF ResumeRestarted, TypeOK
  <2>. QED
    BY <1>0, <2>1 DEF Unfinished, PreservedFor, TypeOK
<1>5. CASE RetryFailed(q)
  <2>1. CASE q = r
    <3>1. \A t \in Task \ Coordinator : taskState[r][t] = "succeeded" => taskState'[r][t] = "succeeded"
      BY <1>0, <1>5, <2>1 DEF RetryFailed, TypeOK
    <3>. QED
      BY <1>5, <2>1, <3>1 DEF PreservedFor
  <2>2. CASE q # r
    <3>1. taskState'[r] = taskState[r]
      BY <1>0, <1>5, <2>2 DEF RetryFailed, TypeOK
    <3>. QED
      BY <3>1 DEF PreservedFor
  <2>. QED
    BY <2>1, <2>2
<1>6. CASE ResumeActive(q) \/ ResumeRefused(q)
  BY <1>6 DEF ResumeActive, ResumeRefused, taskVars, PreservedFor
<1>7. CASE Cancel(q)
  <2>1. taskState' = [taskState EXCEPT ![q] =
          [t \in Task |-> IF taskState[q][t] = "queued" THEN "cancelled" ELSE taskState[q][t]]]
    BY <1>7 DEF Cancel
  <2>. QED
    BY <1>0, <2>1 DEF PreservedFor, TypeOK
<1>. QED
  BY <1>1, <1>2, <1>3, <1>4, <1>5, <1>6, <1>7 DEF Requester, Resume

LEMMA PassPreserves == ASSUME TypeOK, SchedulerPass, NEW r \in Run PROVE PreservedFor(r)
<1>1. PICK B \in [Run -> SUBSET Task], S \in SUBSET (Run \X Task) : Pass(B, S)
  BY PassOf
<1>. SUFFICES ASSUME NEW t \in Task, taskState[r][t] = "succeeded"
              PROVE  taskState'[r][t] = "succeeded"
  BY DEF PreservedFor
<1>2. t \notin B[r]
  BY <1>1 DEF Pass, BlockedBy
<1>3. Blocked(B)[r][t] = "succeeded"
  BY <1>2 DEF Blocked
<1>4. <<r, t>> \notin S
  BY <1>1, <1>3 DEF Pass, Ready
<1>. QED
  BY <1>1, <1>3, <1>4 DEF Pass, PassStarts

LEMMA ExecutionPreserves ==
  ASSUME TypeOK, GraphInv, NEW w \in Worker, NEW q \in Run, NEW u \in Task, Execution(w, q, u),
         NEW r \in GraphRun
  PROVE  PreservedFor(r)
<1>0. r \in Run /\ GraphRunOK(r)
  BY InvOf
<1>1. CASE ExecBegin(w, q, u) \/ ExecForgotten(w, q, u)
  BY <1>1 DEF ExecBegin, ExecForgotten, runVars, taskVars, PreservedFor
<1>2. CASE ExecEnd(w, q, u) /\ ~ ExecForgotten(w, q, u)
  <2>1. PICK st \in TaskStates : Finish(w, q, u, st)
    BY <1>2 DEF ExecEnd, ExecCancelled, ExecSucceeded, ExecBlocked, ExecWaits, ExecRetries,
                ExecFails, TaskStates, TaskTerminal
  <2>2. q = r => taskState[q][u] = "running"
    BY <1>0, <2>1 DEF Finish, GraphRunOK, OneExecution, InFlight, Executing
  <2>. QED
    BY <1>0, <2>1, <2>2 DEF Finish, PreservedFor, TypeOK
<1>. QED
  BY <1>1, <1>2 DEF Execution

LEMMA StepPreserves ==
  ASSUME TypeOK, GraphInv, JournalInv, [Next]_vars, NEW r \in GraphRun PROVE PreservedFor(r)
<1>0. r \in Run /\ planner # r
  BY InvOf DEF Lifecycle
<1>1. ASSUME NEW q \in Run, Requester(q) PROVE PreservedFor(r)
  BY <1>1, RequesterPreserves
<1>2. ASSUME NEW q \in Run, Planner(q) PROVE PreservedFor(r)
  <2>1. taskState'[r] = taskState[r]
    BY <1>0, <1>2 DEF Planner, PlanBegin, PlanFail, PlanReady, runVars, taskVars, TypeOK
  <2>. QED
    BY <2>1 DEF PreservedFor
<1>3. CASE SchedulerPass
  BY <1>0, <1>3, PassPreserves
<1>4. CASE \E q \in Run, t \in Task : BackoffElapses(q, t)
  BY <1>4 DEF BackoffElapses, PreservedFor
<1>5. ASSUME NEW w \in Worker, NEW q \in Run, NEW t \in Task, Execution(w, q, t) PROVE PreservedFor(r)
  BY <1>5, ExecutionPreserves
<1>6. CASE Restart
  <2>1. \A t \in Task : taskState'[r][t] = LoadedTask(taskState[r][t])
    BY <1>0, <1>6 DEF Restart, JournalInv, JournalIsCurrent
  <2>. QED
    BY <2>1 DEF PreservedFor, LoadedTask, TaskTerminal
<1>7. CASE UNCHANGED vars
  BY <1>7 DEF vars, taskVars, PreservedFor
<1>. QED
  BY <1>1, <1>2, <1>3, <1>4, <1>5, <1>6, <1>7 DEF Next

\* A task of a submitted graph that succeeded stays succeeded, through restarts,
\* resumes and late workers; only Retry Failed runs the coordinator again.
THEOREM SuccessIsKept == Spec => CompletedPreserved
<1>1. TypeOK /\ GraphInv /\ JournalInv /\ [Next]_vars => [PreservesCompleted(GraphRun)]_vars
  BY StepPreserves DEF PreservedFor, PreservesCompleted
<1>. QED
  BY <1>1, TypeCorrect, GraphInvariant, JournalInvariant, PTL DEF Spec, CompletedPreserved

-----------------------------------------------------------------------------
(***************************************************************************)
(* Retry budgets.  A pass counts an attempt for a queued task, and a       *)
(* resume may queue a task that has spent its budget: so what is queued    *)
(* has one attempt less than the bound.                                    *)
(***************************************************************************)
Waiting(st) == st \in {"none", "queued"}
InBudget(st, n, m) ==
  /\ n <= MaxRetries + 1 + m
  /\ Waiting(st) => n <= MaxRetries + m
SpentIfFailed(r, st, n) == st = "failed" /\ r \notin Strict => n > MaxRetries

BudgetRun(r) ==
  /\ strict[r] => r \in Strict
  /\ journal[r].attempts = attempts[r]
  /\ \A t \in Task : /\ InBudget(taskState[r][t], attempts[r][t], resumes)
                     /\ SpentIfFailed(r, taskState[r][t], attempts[r][t])
BudgetInv == \A r \in GraphRun : BudgetRun(r)

\* A step that leaves the attempts of a run alone: its tasks may only be queued
\* again by a resume, and none fails.
LEMMA SameAttempts ==
  ASSUME TypeOK, TypeOK', NEW r \in Run, BudgetRun(r), attempts'[r] = attempts[r],
         strict'[r] => r \in Strict, Persist \/ journal' = journal,
         resumes' = resumes \/ resumes' = resumes + 1,
         \A t \in Task :
           /\ taskState'[r][t] = "failed" => taskState[r][t] = "failed"
           /\ Waiting(taskState'[r][t]) => Waiting(taskState[r][t]) \/ resumes' = resumes + 1
  PROVE  BudgetRun(r)'
<1>1. \A t \in Task : attempts[r][t] \in Nat /\ attempts'[r][t] = attempts[r][t]
  BY DEF TypeOK
<1>2. resumes \in Nat /\ resumes' \in Nat /\ MaxRetries \in Nat
  BY ConstantsAssumption DEF TypeOK
<1>3. journal'[r].attempts = attempts'[r]
  BY DEF Persist, BudgetRun
<1>4. ASSUME NEW t \in Task PROVE InBudget(taskState'[r][t], attempts'[r][t], resumes')
  BY <1>1, <1>2 DEF BudgetRun, InBudget
<1>5. ASSUME NEW t \in Task PROVE SpentIfFailed(r, taskState'[r][t], attempts'[r][t])
  BY <1>1 DEF BudgetRun, SpentIfFailed
<1>. QED
  BY <1>3, <1>4, <1>5 DEF BudgetRun

LEMMA RequesterBudget ==
  ASSUME TypeOK, TypeOK', GraphInv, NEW q \in Run, Requester(q), NEW r \in GraphRun, BudgetRun(r)
  PROVE  BudgetRun(r)'
<1>0. r \in Run /\ Lifecycle(r)
  BY InvOf
<1>1. CASE SubmitGraph(q)
  <2>1. ASSUME NEW t \in Task
        PROVE  /\ taskState'[r][t] = "failed" => taskState[r][t] = "failed"
               /\ Waiting(taskState'[r][t]) => Waiting(taskState[r][t])
    <3>1. CASE q = r
      BY <1>0, <1>1, <3>1 DEF SubmitGraph, NextId, Lifecycle, FreshTasks, Waiting, TypeOK
    <3>2. CASE q # r
      BY <1>0, <1>1, <3>2 DEF SubmitGraph, TypeOK
    <3>. QED
      BY <3>1, <3>2
  <2>2. attempts' = attempts /\ strict' = strict /\ resumes' = resumes /\ Persist
    BY <1>1 DEF SubmitGraph
  <2>. QED
    BY <1>0, <2>1, <2>2, SameAttempts DEF BudgetRun
<1>2. CASE SubmitObjective(q) \/ Pause(q)
  <2>1. /\ attempts' = attempts /\ strict' = strict /\ resumes' = resumes /\ Persist
        /\ taskState' = taskState
    BY <1>2 DEF SubmitObjective, Pause, taskVars
  <2>. QED
    BY <1>0, <2>1, SameAttempts DEF BudgetRun
<1>3. CASE ResumeRestarted(q) \/ RetryFailed(q) \/ ResumeActive(q)
  <2>1. attempts' = attempts /\ resumes' = resumes + 1 /\ Persist
    BY <1>3 DEF ResumeRestarted, RetryFailed, ResumeActive, Continue, taskVars
  <2>2. strict'[r] => r \in Strict
    BY <1>0, <1>3 DEF ResumeRestarted, RetryFailed, ResumeActive, ContextUpdated, BudgetRun, TypeOK
  <2>3. ASSUME NEW t \in Task, taskState'[r][t] = "failed" PROVE taskState[r][t] = "failed"
    <3>1. CASE ResumeRestarted(q)
      BY <1>0, <2>3, <3>1 DEF ResumeRestarted, TypeOK
    <3>2. CASE RetryFailed(q)
      BY <1>0, <2>3, <3>2 DEF RetryFailed, TypeOK
    <3>3. CASE ResumeActive(q)
      BY <2>3, <3>3 DEF ResumeActive, taskVars
    <3>. QED
      BY <1>3, <3>1, <3>2, <3>3
  <2>. QED
    BY <1>0, <2>1, <2>2, <2>3, SameAttempts
<1>4. CASE ResumeRefused(q)
  <2>1. /\ attempts' = attempts /\ resumes' = resumes /\ journal' = journal
        /\ taskState' = taskState
    BY <1>4 DEF ResumeRefused, taskVars
  <2>2. strict'[r] => r \in Strict
    BY <1>0, <1>4 DEF ResumeRefused, ContextUpdated, BudgetRun, TypeOK
  <2>. QED
    BY <1>0, <2>1, <2>2, SameAttempts
<1>5. CASE Cancel(q)
  <2>1. attempts' = attempts /\ strict' = strict /\ resumes' = resumes /\ Persist
    BY <1>5 DEF Cancel
  <2>2. taskState' = [taskState EXCEPT ![q] =
          [t \in Task |-> IF taskState[q][t] = "queued" THEN "cancelled" ELSE taskState[q][t]]]
    BY <1>5 DEF Cancel
  <2>3. ASSUME NEW t \in Task
        PROVE  /\ taskState'[r][t] = "failed" => taskState[r][t] = "failed"
               /\ Waiting(taskState'[r][t]) => Waiting(taskState[r][t])
    BY <1>0, <2>2 DEF Waiting, TypeOK
  <2>. QED
    BY <1>0, <2>1, <2>3, SameAttempts DEF BudgetRun
<1>. QED
  BY <1>1, <1>2, <1>3, <1>4, <1>5 DEF Requester, Resume

LEMMA PassBudget ==
  ASSUME TypeOK, TypeOK', SchedulerPass, NEW r \in Run, BudgetRun(r)
  PROVE  BudgetRun(r)'
<1>1. PICK B \in [Run -> SUBSET Task], S \in SUBSET (Run \X Task) : Pass(B, S)
  BY PassOf
<1>2. strict' = strict /\ resumes' = resumes
  BY <1>1 DEF Pass, PassStarts
<1>3. /\ resumes \in Nat /\ MaxRetries \in Nat
      /\ \A t \in Task : attempts[r][t] \in Nat
  BY ConstantsAssumption DEF TypeOK
<1>4. ASSUME NEW t \in Task
      PROVE  /\ InBudget(taskState'[r][t], attempts'[r][t], resumes)
             /\ SpentIfFailed(r, taskState'[r][t], attempts'[r][t])
  <2>1. CASE <<r, t>> \in S
    <3>1. taskState'[r][t] = "running" /\ attempts'[r][t] = attempts[r][t] + 1
      BY <1>1, <2>1 DEF Pass, PassStarts
    <3>2. Waiting(taskState[r][t])
      BY <1>1, <2>1 DEF Pass, Ready, Blocked, Waiting
    <3>. QED
      BY <1>3, <3>1, <3>2 DEF BudgetRun, InBudget, SpentIfFailed, Waiting
  <2>2. CASE <<r, t>> \notin S
    <3>1. /\ attempts'[r][t] = attempts[r][t]
          /\ taskState'[r][t] = IF t \in B[r] THEN "blocked" ELSE taskState[r][t]
      BY <1>1, <2>2 DEF Pass, PassStarts, Blocked
    <3>. QED
      BY <1>3, <3>1 DEF BudgetRun, InBudget, SpentIfFailed, Waiting
  <2>. QED
    BY <2>1, <2>2
<1>5. journal'[r].attempts = attempts'[r]
  <2>1. CASE S = {} /\ \A q \in Run : B[q] = {}
    <3>1. journal' = journal /\ \A t \in Task : attempts'[r][t] = attempts[r][t]
      BY <1>1, <2>1 DEF Pass, PassStarts
    <3>2. attempts'[r] = attempts[r]
      BY <3>1 DEF TypeOK
    <3>. QED
      BY <3>1, <3>2 DEF BudgetRun
  <2>2. CASE ~ (S = {} /\ \A q \in Run : B[q] = {})
    <3>1. Persist
      BY <1>1, <2>2 DEF Pass, PassStarts
    <3>. QED
      BY <3>1 DEF Persist
  <2>. QED
    BY <2>1, <2>2
<1>. QED
  BY <1>2, <1>4, <1>5 DEF BudgetRun

LEMMA ExecutionBudget ==
  ASSUME TypeOK, TypeOK', NEW w \in Worker, NEW q \in Run, NEW u \in Task, Execution(w, q, u),
         NEW r \in Run, BudgetRun(r)
  PROVE  BudgetRun(r)'
<1>0. /\ resumes \in Nat /\ MaxRetries \in Nat
      /\ \A t \in Task : attempts[r][t] \in Nat
  BY ConstantsAssumption DEF TypeOK
<1>1. CASE ExecBegin(w, q, u) \/ ExecForgotten(w, q, u)
  BY <1>1 DEF ExecBegin, ExecForgotten, runVars, taskVars, BudgetRun
<1>2. CASE ExecCancelled(w, q, u) \/ ExecSucceeded(w, q, u)
  <2>1. PICK st \in {"cancelled", "succeeded"} : Finish(w, q, u, st) /\ attempts' = attempts
    BY <1>2 DEF ExecCancelled, ExecSucceeded
  <2>2. ASSUME NEW t \in Task
        PROVE  /\ taskState'[r][t] = "failed" => taskState[r][t] = "failed"
               /\ Waiting(taskState'[r][t]) => Waiting(taskState[r][t])
    BY <2>1 DEF Finish, Waiting, TypeOK
  <2>. QED
    BY <2>1, <2>2, SameAttempts DEF Finish, BudgetRun
<1>3. ASSUME NEW st \in {"queued", "failed"}, Finish(w, q, u, st),
             \A p \in Run, t \in Task :
               attempts'[p][t] = attempts[p][t] \/ (p = q /\ t = u),
             q = r => /\ InBudget(st, attempts'[q][u], resumes)
                      /\ SpentIfFailed(q, st, attempts'[q][u])
      PROVE  BudgetRun(r)'
  <2>1. strict' = strict /\ resumes' = resumes /\ journal'[r].attempts = attempts'[r]
    BY <1>3 DEF Finish, Persist
  <2>2. ASSUME NEW t \in Task
        PROVE  /\ InBudget(taskState'[r][t], attempts'[r][t], resumes)
               /\ SpentIfFailed(r, taskState'[r][t], attempts'[r][t])
    <3>1. CASE r = q /\ t = u
      BY <1>3, <3>1 DEF Finish, TypeOK
    <3>2. CASE ~ (r = q /\ t = u)
      BY <1>3, <3>2 DEF Finish, TypeOK, BudgetRun
    <3>. QED
      BY <3>1, <3>2
  <2>. QED
    BY <2>1, <2>2 DEF BudgetRun
<1>4. CASE ExecBlocked(w, q, u)
  <2>1. Finish(w, q, u, "failed") /\ attempts' = attempts /\ strict[q]
    BY <1>4 DEF ExecBlocked
  <2>2. q = r => /\ InBudget("failed", attempts'[q][u], resumes)
                 /\ SpentIfFailed(q, "failed", attempts'[q][u])
    BY <2>1 DEF BudgetRun, InBudget, SpentIfFailed, Waiting
  <2>. QED
    BY <1>3, <2>1, <2>2
<1>5. CASE ExecWaits(w, q, u)
  <2>1. /\ Finish(w, q, u, "queued")
        /\ attempts' = [attempts EXCEPT ![q][u] = IF @ > 0 THEN @ - 1 ELSE 0]
    BY <1>5 DEF ExecWaits
  <2>2. ASSUME NEW p \in Run, NEW t \in Task PROVE attempts'[p][t] = attempts[p][t] \/ (p = q /\ t = u)
    BY <2>1 DEF TypeOK
  <2>3. attempts'[q][u] = IF attempts[q][u] > 0 THEN attempts[q][u] - 1 ELSE 0
    BY <2>1 DEF TypeOK
  <2>4. q = r => /\ InBudget("queued", attempts'[q][u], resumes)
                 /\ SpentIfFailed(q, "queued", attempts'[q][u])
    BY <1>0, <2>3 DEF BudgetRun, InBudget, SpentIfFailed
  <2>. QED
    BY <1>3, <2>1, <2>2, <2>4
<1>6. CASE ExecRetries(w, q, u)
  <2>1. Finish(w, q, u, "queued") /\ attempts' = attempts /\ attempts[q][u] <= MaxRetries
    BY <1>6 DEF ExecRetries, MayRetry
  <2>2. q = r => /\ InBudget("queued", attempts'[q][u], resumes)
                 /\ SpentIfFailed(q, "queued", attempts'[q][u])
    BY <1>0, <2>1 DEF InBudget, SpentIfFailed
  <2>. QED
    BY <1>3, <2>1, <2>2
<1>7. CASE ExecFails(w, q, u)
  <2>1. Finish(w, q, u, "failed") /\ attempts' = attempts /\ ~ (attempts[q][u] <= MaxRetries)
    BY <1>7 DEF ExecFails, MayRetry
  <2>2. q = r => /\ InBudget("failed", attempts'[q][u], resumes)
                 /\ SpentIfFailed(q, "failed", attempts'[q][u])
    BY <1>0, <2>1 DEF BudgetRun, InBudget, SpentIfFailed, Waiting
  <2>. QED
    BY <1>3, <2>1, <2>2
<1>. QED
  BY <1>1, <1>2, <1>4, <1>5, <1>6, <1>7 DEF Execution, ExecEnd

LEMMA StepBudget ==
  ASSUME TypeOK, TypeOK', GraphInv, JournalInv, [Next]_vars, NEW r \in GraphRun, BudgetRun(r)
  PROVE  BudgetRun(r)'
<1>0. r \in Run /\ planner # r
  BY InvOf DEF Lifecycle
<1>1. ASSUME NEW q \in Run, Requester(q) PROVE BudgetRun(r)'
  BY <1>1, RequesterBudget
<1>2. ASSUME NEW q \in Run, Planner(q) PROVE BudgetRun(r)'
  <2>1. /\ taskState'[r] = taskState[r] /\ attempts'[r] = attempts[r] /\ strict' = strict
        /\ resumes' = resumes /\ (Persist \/ journal' = journal)
    BY <1>0, <1>2 DEF Planner, PlanBegin, PlanFail, PlanReady, runVars, taskVars, TypeOK
  <2>. QED
    BY <1>0, <2>1, SameAttempts DEF BudgetRun
<1>3. CASE SchedulerPass
  BY <1>0, <1>3, PassBudget
<1>4. CASE \E q \in Run, t \in Task : BackoffElapses(q, t)
  BY <1>4 DEF BackoffElapses, runVars, BudgetRun
<1>5. ASSUME NEW w \in Worker, NEW q \in Run, NEW t \in Task, Execution(w, q, t) PROVE BudgetRun(r)'
  BY <1>0, <1>5, ExecutionBudget
<1>6. CASE Restart
  <2>1. /\ attempts'[r] = attempts[r] /\ journal' = journal /\ resumes' = resumes
        /\ strict'[r] => r \in Strict
    BY <1>0, <1>6 DEF Restart, BudgetRun
  <2>2. \A t \in Task : taskState'[r][t] = LoadedTask(taskState[r][t])
    BY <1>0, <1>6 DEF Restart, JournalInv, JournalIsCurrent
  <2>. QED
    BY <1>0, <2>1, <2>2, SameAttempts DEF LoadedTask, Waiting, TaskTerminal
<1>7. CASE UNCHANGED vars
  BY <1>7 DEF vars, runVars, taskVars, BudgetRun
<1>. QED
  BY <1>1, <1>2, <1>3, <1>4, <1>5, <1>6, <1>7 DEF Next

\* Outside strict runs a task is given up only when its budget is spent, and each
\* resume grants at most one attempt beyond it (_execute_task, resume).
THEOREM BudgetHolds == Spec => []RetryBudget
<1>1. Init => BudgetInv
  <2>. SUFFICES ASSUME Init, NEW r \in GraphRun PROVE BudgetRun(r)
    BY DEF BudgetInv
  <2>1. /\ r \in Run /\ strict[r] = (r \in Strict) /\ journal[r].attempts = attempts[r]
        /\ \A t \in Task : taskState[r][t] = "none" /\ attempts[r][t] = 0
    BY ConstantsAssumption DEF Init, NoTasks, Zero
  <2>2. resumes = 0 /\ MaxRetries \in Nat
    BY ConstantsAssumption DEF Init
  <2>3. strict[r] => r \in Strict
    BY <2>1
  <2>4. \A t \in Task : InBudget(taskState[r][t], attempts[r][t], resumes)
    BY <2>1, <2>2 DEF InBudget
  <2>5. \A t \in Task : SpentIfFailed(r, taskState[r][t], attempts[r][t])
    BY <2>1 DEF SpentIfFailed
  <2>. QED
    BY <2>1, <2>3, <2>4, <2>5 DEF BudgetRun
<1>2. TypeOK /\ TypeOK' /\ GraphInv /\ JournalInv /\ BudgetInv /\ [Next]_vars => BudgetInv'
  BY StepBudget DEF BudgetInv
<1>3. BudgetInv => RetryBudget
  BY DEF BudgetInv, BudgetRun, InBudget, SpentIfFailed, RetryBudget
<1>. QED
  BY <1>1, <1>2, <1>3, TypeCorrect, GraphInvariant, JournalInvariant, PTL DEF Spec

-----------------------------------------------------------------------------
(***************************************************************************)
(* Earned success.  The verdict of _refresh_run_state_locked looks for     *)
(* what is wrong; that nothing else is possible rests on an interrupted    *)
(* task being requeued before its run goes on (Asleep until then).         *)
(***************************************************************************)
Earned(ts, out) ==
  /\ \A t \in Task \ Coordinator : ts[t] = "succeeded"
  /\ out \notin {"failed", "incomplete"}

\* A run nothing is done for until it is resumed.
Asleep(r) ==
  /\ runState[r] \in RunTerminal \cup {"gone"}
  /\ planner # r /\ planQueue[r] = 0
  /\ \A t \in Task : submitted[r][t] = 0 /\ \A w \in Worker : worker[w] # <<r, t>>

Success(r) ==
  runState[r] = "succeeded" =>
    /\ Earned(taskState[r], outcome[r])
    /\ r \in Strict /\ crashes = 0 => outcome[r] = "complete"

\* What the records of a run say, planned or submitted.
RecordsOK(r) ==
  /\ crashes = 0 /\ r \in Strict => strict[r]
  /\ taskState[r] = NoTasks \/ \A t \in Task : taskState[r][t] # "none"
  /\ \A w \in Worker, t \in Task : worker[w] = <<r, t>> => taskState[r][t] # "none"
  /\ (\E t \in Task : taskState[r][t] = "interrupted") => Asleep(r)
  /\ runState[r] = "new" => taskState[r] = NoTasks

\* What the checkpoint says of it.
JournalOK(r) ==
  /\ journal[r].state = "succeeded" => Earned(journal[r].tasks, journal[r].outcome)
  /\ journal[r].state = "new" => journal[r].tasks = NoTasks

EarnedRun(r) == Success(r) /\ RecordsOK(r) /\ JournalOK(r)
EarnedInv == \A r \in Run : EarnedRun(r)

LEMMA JournalCopied ==
  ASSUME NEW r \in Run, Success(r)', RecordsOK(r)', JournalOK(r), Persist \/ journal' = journal
  PROVE  EarnedRun(r)'
<1>1. CASE Persist
  <2>1. /\ journal'[r].state = runState'[r] /\ journal'[r].outcome = outcome'[r]
        /\ journal'[r].tasks = taskState'[r]
    BY <1>1 DEF Persist
  <2>. QED
    BY <2>1 DEF Success, RecordsOK, JournalOK, EarnedRun
<1>2. CASE journal' = journal
  BY <1>2 DEF JournalOK, EarnedRun
<1>. QED
  BY <1>1, <1>2

\* A step that leaves the records of a run alone, except that it may be forgotten.
LEMMA EarnedFrame ==
  ASSUME NEW r \in Run, EarnedRun(r),
         runState'[r] = runState[r] \/ (runState'[r] = "gone" /\ runState[r] \in RunTerminal),
         taskState'[r] = taskState[r], outcome'[r] = outcome[r], strict'[r] = strict[r],
         crashes' = crashes, submitted'[r] = submitted[r], planQueue'[r] = planQueue[r],
         planner' = r => planner = r,
         \A w \in Worker, t \in Task : worker'[w] = <<r, t>> => worker[w] = <<r, t>>,
         Persist \/ journal' = journal
  PROVE  EarnedRun(r)'
<1>1. Success(r)'
  BY DEF EarnedRun, Success, RunTerminal
<1>2. Asleep(r) => Asleep(r)'
  BY DEF Asleep
<1>3. RecordsOK(r)'
  BY <1>2 DEF EarnedRun, RecordsOK, RunTerminal
<1>. QED
  BY <1>1, <1>3, JournalCopied DEF EarnedRun

\* A step after which the run is in no state a verdict gives, has tasks, and none
\* of them is interrupted.
LEMMA EarnedGoesOn ==
  ASSUME NEW r \in Run, EarnedRun(r), crashes' = crashes,
         runState'[r] \notin {"succeeded", "new"}, strict[r] => strict'[r],
         \/ taskState'[r] = NoTasks
         \/ \A t \in Task : taskState'[r][t] \notin {"none", "interrupted"},
         \A w \in Worker, t \in Task : worker'[w] = <<r, t>> => taskState'[r][t] # "none",
         Persist \/ journal' = journal
  PROVE  EarnedRun(r)'
<1>1. Success(r)'
  BY DEF Success
<1>2. RecordsOK(r)'
  BY DEF EarnedRun, RecordsOK, NoTasks
<1>. QED
  BY <1>1, <1>2, JournalCopied DEF EarnedRun

LEMMA VerdictEarned ==
  ASSUME TypeOK, NEW r \in Run, NEW ts \in [Task -> TaskStates], NEW out \in Outcomes,
         Refreshed(r, ts, out) = "succeeded", runState[r] # "succeeded" \/ ts # NoTasks,
         \A t \in Task : ts[t] # "interrupted",
         ts = NoTasks \/ \A t \in Task : ts[t] # "none"
  PROVE  Earned(ts, out) /\ (strict[r] => out = "complete")
<1>1. Settled(ts) /\ Verdict(r, ts, out) = "succeeded" /\ ts # NoTasks
  BY DEF Refreshed
<1>2. \A t \in Task : ts[t] \in {"succeeded", "failed", "cancelled", "blocked"}
  BY <1>1 DEF Settled, TaskTerminal
<1>3. DEFINE worked == {ts[t] : t \in Task \ Coordinator}
<1>4. /\ worked \cap {"failed", "blocked"} = {} /\ "cancelled" \notin worked
      /\ out \notin {"failed", "incomplete"} /\ (strict[r] => out = "complete")
  BY <1>1 DEF Verdict
<1>5. \A t \in Task \ Coordinator : ts[t] = "succeeded"
  BY <1>2, <1>4
<1>. QED
  BY <1>4, <1>5 DEF Earned

\* What a call of the requester does to the other runs: it may forget one that
\* ended.
LEMMA RequesterLeaves ==
  ASSUME TypeOK, NEW q \in Run, Requester(q), NEW r \in Run, r # q
  PROVE  /\ outcome'[r] = outcome[r] /\ taskState'[r] = taskState[r] /\ strict'[r] = strict[r]
         /\ cancelled'[r] = cancelled[r]
         /\ crashes' = crashes /\ submitted' = submitted /\ worker' = worker
         /\ planQueue'[r] = planQueue[r] /\ planner' = planner /\ (Persist \/ journal' = journal)
         /\ runState'[r] = runState[r] \/ (runState'[r] = "gone" /\ runState[r] \in RunTerminal)
<1>1. /\ outcome'[r] = outcome[r] /\ taskState'[r] = taskState[r] /\ strict'[r] = strict[r]
      /\ cancelled'[r] = cancelled[r]
      /\ crashes' = crashes /\ submitted' = submitted /\ worker' = worker
      /\ planQueue'[r] = planQueue[r] /\ planner' = planner /\ (Persist \/ journal' = journal)
  <2>1. CASE SubmitGraph(q) \/ SubmitObjective(q) \/ Pause(q) \/ Cancel(q)
    BY <2>1 DEF SubmitGraph, SubmitObjective, Pause, Cancel, taskVars, poolVars, planVars, TypeOK
  <2>2. CASE ResumeRestarted(q)
    BY <2>2 DEF ResumeRestarted, ContextUpdated, Continue, poolVars, TypeOK
  <2>3. CASE RetryFailed(q)
    BY <2>3 DEF RetryFailed, Continue, poolVars, TypeOK
  <2>4. CASE ResumeActive(q)
    BY <2>4 DEF ResumeActive, ContextUpdated, Continue, taskVars, poolVars, TypeOK
  <2>5. CASE ResumeRefused(q)
    BY <2>5 DEF ResumeRefused, ContextUpdated, taskVars, poolVars, planVars, TypeOK
  <2>. QED
    BY <2>1, <2>2, <2>3, <2>4, <2>5 DEF Requester, Resume
<1>2. runState'[r] = runState[r] \/ (runState'[r] = "gone" /\ runState[r] \in RunTerminal)
  <2>1. CASE SubmitGraph(q)
    <3>1. [runState EXCEPT ![q] = "running"] \in [Run -> RunStates]
      BY DEF TypeOK, RunStates
    <3>. QED
      BY <2>1, <3>1, PrunedStates DEF SubmitGraph
  <2>2. CASE SubmitObjective(q)
    <3>1. [runState EXCEPT ![q] = "planning"] \in [Run -> RunStates]
      BY DEF TypeOK, RunStates
    <3>. QED
      BY <2>2, <3>1, PrunedStates DEF SubmitObjective
  <2>3. CASE Pause(q) \/ Resume(q) \/ Cancel(q)
    BY <2>3 DEF Pause, Resume, ResumeRestarted, RetryFailed, ResumeActive, ResumeRefused,
                Continue, Cancel, TypeOK
  <2>. QED
    BY <2>1, <2>2, <2>3 DEF Requester
<1>. QED
  BY <1>1, <1>2

LEMMA RequesterElsewhere ==
  ASSUME TypeOK, NEW q \in Run, Requester(q), NEW r \in Run, r # q, EarnedRun(r)
  PROVE  EarnedRun(r)'
  BY RequesterLeaves, EarnedFrame

LEMMA RequesterEarned ==
  ASSUME TypeOK, NEW r \in Run, Requester(r), EarnedRun(r) PROVE EarnedRun(r)'
<1>0. /\ taskState[r] = NoTasks \/ \A t \in Task : taskState[r][t] # "none"
      /\ \A w \in Worker, t \in Task : worker[w] = <<r, t>> => taskState[r][t] # "none"
      /\ runState[r] \notin RunTerminal \cup {"gone"} => \A t \in Task : taskState[r][t] # "interrupted"
  BY DEF EarnedRun, RecordsOK, Asleep
<1>1. CASE SubmitGraph(r)
  <2>1. [runState EXCEPT ![r] = "running"] \in [Run -> RunStates]
    BY DEF TypeOK, RunStates
  <2>2. runState'[r] = "running"
    BY <1>1, <2>1, PrunedStates DEF SubmitGraph, TypeOK, RunTerminal
  <2>3. /\ \A t \in Task : taskState'[r][t] = "queued"
        /\ strict' = strict /\ crashes' = crashes /\ Persist
    BY <1>1 DEF SubmitGraph, FreshTasks, TypeOK
  <2>. QED
    BY <2>2, <2>3, EarnedGoesOn
<1>2. CASE SubmitObjective(r)
  <2>1. [runState EXCEPT ![r] = "planning"] \in [Run -> RunStates]
    BY DEF TypeOK, RunStates
  <2>2. runState'[r] = "planning"
    BY <1>2, <2>1, PrunedStates DEF SubmitObjective, TypeOK, RunTerminal
  <2>3. taskState[r] = NoTasks
    BY <1>2 DEF SubmitObjective, NextId, EarnedRun, RecordsOK
  <2>4. /\ taskState' = taskState /\ worker' = worker /\ strict' = strict /\ crashes' = crashes
        /\ Persist
    BY <1>2 DEF SubmitObjective, taskVars, poolVars
  <2>. QED
    BY <1>0, <2>2, <2>3, <2>4, EarnedGoesOn
<1>3. CASE Pause(r)
  <2>1. /\ taskState' = taskState /\ worker' = worker /\ strict' = strict /\ crashes' = crashes
        /\ Persist /\ runState'[r] \in {"planning", "paused"}
        /\ runState[r] \notin RunTerminal \cup {"gone"}
    BY <1>3 DEF Pause, Known, taskVars, poolVars, TypeOK
  <2>. QED
    BY <1>0, <2>1, EarnedGoesOn
<1>4. CASE ResumeRestarted(r) \/ RetryFailed(r) \/ ResumeActive(r)
  <2>1. /\ runState'[r] \in {"running", "planning"} /\ crashes' = crashes /\ worker' = worker
        /\ Persist
    BY <1>4 DEF ResumeRestarted, RetryFailed, ResumeActive, Continue, poolVars, TypeOK
  <2>2. strict[r] => strict'[r]
    BY <1>4 DEF ResumeRestarted, RetryFailed, ResumeActive, ContextUpdated, TypeOK
  <2>3. ASSUME NEW t \in Task
        PROVE  /\ taskState'[r][t] = "none" <=> taskState[r][t] = "none"
               /\ taskState'[r][t] # "interrupted"
    <3>1. CASE ResumeRestarted(r)
      BY <3>1 DEF ResumeRestarted, Unfinished, TypeOK
    <3>2. CASE RetryFailed(r) /\ taskState[r] = NoTasks
      BY <3>2 DEF RetryFailed, NoTasks
    <3>3. CASE RetryFailed(r) /\ taskState[r] # NoTasks
      BY <1>0, <3>3 DEF RetryFailed, TypeOK
    <3>4. CASE ResumeActive(r)
      BY <1>0, <3>4 DEF ResumeActive, Resumable, Known, taskVars
    <3>. QED
      BY <1>4, <3>1, <3>2, <3>3, <3>4
  <2>4. taskState'[r] = NoTasks \/ \A t \in Task : taskState'[r][t] \notin {"none", "interrupted"}
    <3>1. CASE taskState[r] = NoTasks
      <4>1. \A t \in Task : taskState'[r][t] = "none"
        BY <2>3, <3>1 DEF NoTasks
      <4>2. taskState'[r] = [t \in Task |-> taskState'[r][t]]
        <5>1. CASE RetryFailed(r) \/ ResumeActive(r)
          BY <3>1, <5>1 DEF RetryFailed, ResumeActive, taskVars, TypeOK
        <5>2. CASE ResumeRestarted(r)
          BY <5>2 DEF ResumeRestarted, TypeOK
        <5>. QED
          BY <1>4, <5>1, <5>2
      <4>. QED
        BY <4>1, <4>2 DEF NoTasks
    <3>2. CASE \A t \in Task : taskState[r][t] # "none"
      BY <2>3, <3>2
    <3>. QED
      BY <1>0, <3>1, <3>2
  <2>. QED
    BY <1>0, <2>1, <2>2, <2>3, <2>4, EarnedGoesOn
<1>5. CASE ResumeRefused(r)
  <2>1. /\ taskState' = taskState /\ worker' = worker /\ crashes' = crashes
        /\ journal' = journal /\ runState' = runState /\ outcome' = outcome
        /\ submitted' = submitted /\ planner' = planner /\ planQueue' = planQueue
    BY <1>5 DEF ResumeRefused, taskVars, poolVars, planVars
  <2>2. strict[r] => strict'[r]
    BY <1>5 DEF ResumeRefused, ContextUpdated, TypeOK
  <2>. QED
    BY <2>1, <2>2 DEF EarnedRun, Success, RecordsOK, JournalOK, Asleep
<1>6. CASE Cancel(r)
  <2>1. /\ worker' = worker /\ strict' = strict /\ crashes' = crashes
        /\ Persist /\ runState'[r] \in {"cancelled", "cancelling"}
        /\ runState[r] \notin RunTerminal \cup {"gone"}
    BY <1>6 DEF Cancel, Known, poolVars, TypeOK
  <2>2. taskState' = [taskState EXCEPT ![r] =
          [t \in Task |-> IF taskState[r][t] = "queued" THEN "cancelled" ELSE taskState[r][t]]]
    BY <1>6 DEF Cancel
  <2>3. ASSUME NEW t \in Task
        PROVE  /\ taskState'[r][t] = "none" <=> taskState[r][t] = "none"
               /\ taskState'[r][t] # "interrupted"
    BY <1>0, <2>1, <2>2 DEF TypeOK
  <2>4. taskState[r] = NoTasks => taskState'[r] = NoTasks
    BY <2>2 DEF NoTasks, TypeOK
  <2>. QED
    BY <1>0, <2>1, <2>3, <2>4, EarnedGoesOn
<1>. QED
  BY <1>1, <1>2, <1>3, <1>4, <1>5, <1>6 DEF Requester, Resume

LEMMA PlannerEarned ==
  ASSUME TypeOK, NEW q \in Run, Planner(q), NEW r \in Run, EarnedRun(r) PROVE EarnedRun(r)'
<1>0. /\ taskState[r] = NoTasks \/ \A t \in Task : taskState[r][t] # "none"
      /\ \A w \in Worker, t \in Task : worker[w] = <<r, t>> => taskState[r][t] # "none"
      /\ ~ Asleep(r) => \A t \in Task : taskState[r][t] # "interrupted"
      /\ Idle # r
  BY ConstantsAssumption DEF EarnedRun, RecordsOK
<1>1. CASE q # r
  <2>1. /\ runState'[r] = runState[r] /\ outcome' = outcome /\ taskState'[r] = taskState[r]
        /\ strict' = strict /\ crashes' = crashes /\ submitted' = submitted /\ worker' = worker
        /\ planQueue'[r] = planQueue[r] /\ planner' # r /\ (Persist \/ journal' = journal)
    BY <1>0, <1>1 DEF Planner, PlanBegin, PlanFail, PlanReady, runVars, taskVars, poolVars, TypeOK
  <2>. QED
    BY <2>1, EarnedFrame
<1>2. CASE PlanBegin(r)
  <2>1. /\ UNCHANGED <<runState, outcome, taskState, strict, crashes, submitted, worker, journal>>
        /\ planQueue[r] # 0
    BY <1>2 DEF PlanBegin, runVars, taskVars, poolVars
  <2>2. ~ Asleep(r)
    BY <2>1 DEF Asleep
  <2>. QED
    BY <1>0, <2>1, <2>2 DEF EarnedRun, Success, RecordsOK, JournalOK
<1>3. CASE (PlanFail(r) \/ PlanReady(r)) /\ UNCHANGED <<runVars, taskVars, journal>>
  <2>1. ~ Asleep(r)
    BY <1>3 DEF PlanFail, PlanReady, Asleep
  <2>2. UNCHANGED <<runState, outcome, taskState, strict, crashes, submitted, worker, journal>>
    BY <1>3 DEF PlanFail, PlanReady, runVars, taskVars, poolVars
  <2>. QED
    BY <1>0, <2>1, <2>2 DEF EarnedRun, Success, RecordsOK, JournalOK
<1>4. CASE PlanFail(r) /\ Known(r)
  <2>0. ~ Asleep(r)
    BY <1>4 DEF PlanFail, Asleep
  <2>1. /\ runState'[r] = "failed" /\ UNCHANGED <<taskState, strict, crashes, worker>> /\ Persist
    BY <1>4 DEF PlanFail, taskVars, poolVars, TypeOK
  <2>. QED
    BY <1>0, <2>0, <2>1, EarnedGoesOn
<1>5. CASE PlanReady(r) /\ Known(r) /\ ~ cancelled[r]
  <2>1. /\ runState'[r] \in {"paused", "running"} /\ UNCHANGED <<strict, crashes, worker>> /\ Persist
        /\ \A t \in Task : taskState'[r][t] = "queued"
    BY <1>5 DEF PlanReady, FreshTasks, poolVars, TypeOK
  <2>. QED
    BY <2>1, EarnedGoesOn
<1>6. CASE PlanFail(r)
  BY <1>3, <1>4, <1>6 DEF PlanFail
<1>7. CASE PlanReady(r)
  BY <1>3, <1>5, <1>7 DEF PlanReady
<1>. QED
  BY <1>1, <1>2, <1>6, <1>7 DEF Planner

LEMMA PassEarned == ASSUME TypeOK, TypeOK', SchedulerPass, NEW r \in Run, EarnedRun(r) PROVE EarnedRun(r)'
<1>0. /\ taskState[r] = NoTasks \/ \A t \in Task : taskState[r][t] # "none"
      /\ \A w \in Worker, t \in Task : worker[w] = <<r, t>> => taskState[r][t] # "none"
      /\ ~ Asleep(r) => \A t \in Task : taskState[r][t] # "interrupted"
  BY DEF EarnedRun, RecordsOK
<1>1. PICK B \in [Run -> SUBSET Task], S \in SUBSET (Run \X Task) : Pass(B, S)
  BY PassOf
<1>2. /\ UNCHANGED <<outcome, strict, crashes, worker, planQueue, planner>>
      /\ Persist \/ journal' = journal
  BY <1>1 DEF Pass, PassStarts, planVars
<1>3. CASE ~ Schedulable(r)
  <2>1. B[r] = {} /\ \A t \in Task : <<r, t>> \notin S
    BY <1>1, <1>3 DEF Pass
  <2>2. /\ runState'[r] = runState[r]
        /\ \A t \in Task : taskState'[r][t] = taskState[r][t] /\ submitted'[r][t] = submitted[r][t]
    BY <1>1, <1>3, <2>1 DEF Pass, PassStarts, Blocked
  <2>3. taskState'[r] = taskState[r] /\ submitted'[r] = submitted[r]
    BY <2>2 DEF TypeOK
  <2>. QED
    BY <1>2, <2>2, <2>3, EarnedFrame
<1>4. CASE Schedulable(r)
  <2>1. ~ Asleep(r) /\ runState[r] \notin {"succeeded", "new"}
    BY <1>4 DEF Schedulable, Known, Asleep, RunTerminal
  <2>2. ASSUME NEW t \in Task
        PROVE  /\ taskState'[r][t] # "interrupted"
               /\ taskState'[r][t] = "none" <=> taskState[r][t] = "none"
    <3>1. CASE <<r, t>> \in S
      <4>1. taskState[r][t] # "none"
        BY <1>1, <3>1 DEF Pass, Ready, Blocked
      <4>2. taskState'[r][t] = "running"
        BY <1>1, <3>1 DEF Pass, PassStarts
      <4>. QED
        BY <4>1, <4>2
    <3>2. CASE <<r, t>> \notin S
      <4>1. taskState'[r][t] = IF t \in B[r] THEN "blocked" ELSE taskState[r][t]
        BY <1>1, <3>2 DEF Pass, PassStarts, Blocked
      <4>2. t \in B[r] => taskState[r][t] = "queued"
        BY <1>1, <1>4 DEF Pass, BlockedBy
      <4>. QED
        BY <1>0, <2>1, <4>1, <4>2
    <3>. QED
      BY <3>1, <3>2
  <2>3. taskState'[r] = NoTasks \/ \A t \in Task : taskState'[r][t] # "none"
    <3>1. CASE taskState[r] = NoTasks
      <4>1. \A t \in Task : taskState'[r][t] = "none"
        BY <2>2, <3>1 DEF NoTasks
      <4>. QED
        BY <4>1 DEF NoTasks, TypeOK
    <3>. QED
      BY <1>0, <2>2, <3>1
  <2>4. runState'[r] = Refreshed(r, taskState'[r], outcome[r])
    BY <1>1, <1>4 DEF Pass, PassStarts
  <2>5. taskState'[r] \in [Task -> TaskStates] /\ outcome[r] \in Outcomes
    BY DEF TypeOK
  <2>6. runState'[r] # "new"
    BY <1>4, <2>4, <2>5, RefreshedStates DEF Schedulable, Known
  <2>7. CASE runState'[r] = "succeeded"
    <3>1. Earned(taskState'[r], outcome[r]) /\ (strict[r] => outcome[r] = "complete")
      BY <2>1, <2>2, <2>3, <2>4, <2>5, <2>7, VerdictEarned
    <3>2. crashes = 0 /\ r \in Strict => strict[r]
      BY DEF EarnedRun, RecordsOK
    <3>3. Success(r)'
      BY <1>2, <3>1, <3>2 DEF Success
    <3>4. RecordsOK(r)'
      BY <1>0, <1>2, <2>2, <2>3, <2>6, <3>2 DEF RecordsOK
    <3>. QED
      BY <1>2, <3>3, <3>4, JournalCopied DEF EarnedRun
  <2>8. CASE runState'[r] # "succeeded"
    BY <1>0, <1>2, <2>2, <2>3, <2>6, <2>8, EarnedGoesOn
  <2>. QED
    BY <2>7, <2>8
<1>. QED
  BY <1>3, <1>4

\* No idle thread holds a task.
LEMMA IdleIsNoTask == \A r \in Run, t \in Task : Idle # <<r, t>>
<1>1. \A r \in Run, t \in Task : <<r, t>> \in Run \X Task
  OBVIOUS
<1>. QED
  BY <1>1, ConstantsAssumption

LEMMA FinishEarned ==
  ASSUME TypeOK, TypeOK', NEW r \in Run, EarnedRun(r), NEW w \in Worker, NEW u \in Task,
         NEW st \in {"cancelled", "succeeded", "failed", "queued"}, Finish(w, r, u, st)
  PROVE  EarnedRun(r)'
<1>1. /\ worker[w] = <<r, u>> /\ UNCHANGED <<strict, crashes>> /\ Persist /\ Known(r)
      /\ \A v \in Worker, t \in Task : worker'[v] = <<r, t>> => worker[v] = <<r, t>>
  BY IdleIsNoTask DEF Finish, TypeOK
<1>2. /\ \A t \in Task : taskState[r][t] \notin {"none", "interrupted"}
      /\ \A t \in Task : taskState'[r][t] \notin {"none", "interrupted"}
  <2>1. ~ Asleep(r)
    BY <1>1 DEF Asleep
  <2>2. taskState[r][u] # "none"
    BY <1>1 DEF EarnedRun, RecordsOK
  <2>3. \A t \in Task : taskState[r][t] \notin {"none", "interrupted"}
    BY <2>1, <2>2 DEF EarnedRun, RecordsOK, NoTasks
  <2>4. \A t \in Task : taskState'[r][t] = IF t = u THEN st ELSE taskState[r][t]
    BY DEF Finish, TypeOK
  <2>. QED
    BY <2>3, <2>4
<1>3. runState'[r] = Refreshed(r, taskState'[r], outcome'[r])
  BY DEF Finish, TypeOK
<1>4. taskState'[r] \in [Task -> TaskStates] /\ outcome'[r] \in Outcomes
  BY DEF TypeOK
<1>5. runState'[r] # "new"
  BY <1>1, <1>3, <1>4, RefreshedStates DEF Known
<1>6. CASE runState'[r] = "succeeded"
  <2>1. taskState'[r] # NoTasks
    BY <1>2 DEF NoTasks
  <2>2. Earned(taskState'[r], outcome'[r]) /\ (strict[r] => outcome'[r] = "complete")
    BY <1>2, <1>3, <1>4, <1>6, <2>1, VerdictEarned
  <2>3. crashes = 0 /\ r \in Strict => strict[r]
    BY DEF EarnedRun, RecordsOK
  <2>4. Success(r)'
    BY <1>1, <2>2, <2>3 DEF Success
  <2>5. RecordsOK(r)'
    BY <1>1, <1>2, <1>5, <2>3 DEF RecordsOK
  <2>. QED
    BY <1>1, <2>4, <2>5, JournalCopied DEF EarnedRun
<1>7. CASE runState'[r] # "succeeded"
  BY <1>1, <1>2, <1>5, <1>7, EarnedGoesOn
<1>. QED
  BY <1>6, <1>7

LEMMA ExecutionEarned ==
  ASSUME TypeOK, TypeOK', NEW w \in Worker, NEW q \in Run, NEW u \in Task, Execution(w, q, u),
         NEW r \in Run, EarnedRun(r)
  PROVE  EarnedRun(r)'
<1>1. CASE ExecBegin(w, q, u)
  <2>1. UNCHANGED <<runState, outcome, taskState, strict, crashes, planQueue, planner, journal>>
    BY <1>1 DEF ExecBegin, runVars, taskVars, planVars
  <2>2. CASE q # r
    <3>1. /\ submitted'[r] = submitted[r]
          /\ \A v \in Worker, t \in Task : worker'[v] = <<r, t>> => worker[v] = <<r, t>>
      BY <1>1, <2>2 DEF ExecBegin, TypeOK
    <3>. QED
      BY <2>1, <3>1, EarnedFrame
  <2>3. CASE q = r
    <3>1. submitted[r][u] # 0
      BY <1>1, <2>3 DEF ExecBegin
    <3>2. ~ Asleep(r)
      BY <3>1 DEF Asleep
    <3>3. \A v \in Worker, t \in Task : worker'[v] = <<r, t>> => taskState[r][t] # "none"
      <4>1. worker' = worker \/ (worker' = [worker EXCEPT ![w] = <<r, u>>] /\ taskState[r][u] # "none")
        BY <1>1, <2>3 DEF ExecBegin, Wanted
      <4>2. \A v \in Worker, t \in Task : worker[v] = <<r, t>> => taskState[r][t] # "none"
        BY DEF EarnedRun, RecordsOK
      <4>3. \A v \in Worker : worker'[v] = worker[v] \/ (worker'[v] = <<r, u>> /\ taskState[r][u] # "none")
        BY <4>1 DEF TypeOK
      <4>. QED
        BY <4>2, <4>3
    <3>. QED
      BY <2>1, <3>2, <3>3 DEF EarnedRun, Success, RecordsOK, JournalOK
  <2>. QED
    BY <2>2, <2>3
<1>2. CASE ExecForgotten(w, q, u)
  <2>1. /\ UNCHANGED <<runState, outcome, taskState, strict, crashes, submitted, planQueue, planner,
                       journal>>
        /\ worker' = [worker EXCEPT ![w] = Idle]
    BY <1>2 DEF ExecForgotten, runVars, taskVars, planVars
  <2>2. \A t \in Task : Idle # <<r, t>>
    BY IdleIsNoTask
  <2>3. \A v \in Worker, t \in Task : worker'[v] = <<r, t>> => worker[v] = <<r, t>>
    BY <2>1, <2>2 DEF TypeOK
  <2>. QED
    BY <2>1, <2>3, EarnedFrame
<1>3. CASE ExecEnd(w, q, u) /\ ~ ExecForgotten(w, q, u)
  <2>1. PICK st \in {"cancelled", "succeeded", "failed", "queued"} :
          /\ Finish(w, q, u, st)
          /\ \A p \in Run : outcome'[p] = outcome[p] \/ p = q
    BY <1>3 DEF ExecEnd, ExecCancelled, ExecSucceeded, ExecBlocked, ExecWaits, ExecRetries,
                ExecFails, TypeOK
  <2>2. CASE q = r
    BY <2>1, <2>2, FinishEarned
  <2>3. CASE q # r
    <3>1. /\ outcome'[r] = outcome[r] /\ Persist
          /\ UNCHANGED <<strict, crashes, submitted, planQueue, planner>>
      BY <2>1, <2>3 DEF Finish, planVars
    <3>2. /\ taskState' = [taskState EXCEPT ![q][u] = st]
          /\ runState' = [runState EXCEPT ![q] = Refreshed(q, taskState'[q], outcome'[q])]
          /\ worker' = [worker EXCEPT ![w] = Idle]
      BY <2>1 DEF Finish
    <3>3. taskState'[r] = taskState[r]
      BY <2>3, <3>2 DEF TypeOK
    <3>4. runState'[r] = runState[r]
      BY <2>3, <3>2 DEF TypeOK
    <3>5. \A v \in Worker, t \in Task : worker'[v] = <<r, t>> => worker[v] = <<r, t>>
      BY <3>2, IdleIsNoTask DEF TypeOK
    <3>. QED
      BY <3>1, <3>3, <3>4, <3>5, EarnedFrame
  <2>. QED
    BY <2>2, <2>3
<1>. QED
  BY <1>1, <1>2, <1>3 DEF Execution

LEMMA RestartEarned ==
  ASSUME TypeOK, TypeOK', JournalInv, Restart, NEW r \in Run, EarnedRun(r) PROVE EarnedRun(r)'
<1>1. /\ runState'[r] = LoadedRun(journal[r].state) /\ outcome'[r] = journal[r].outcome
      /\ \A t \in Task : taskState'[r][t] = LoadedTask(journal[r].tasks[t])
      /\ journal' = journal /\ crashes' = crashes + 1
      /\ \A t \in Task : submitted'[r][t] = 0
      /\ worker' = [w \in Worker |-> Idle] /\ planQueue'[r] = 0 /\ planner' = Idle
  BY DEF Restart, Zero
<1>2. \A t \in Task : taskState'[r][t] = LoadedTask(taskState[r][t])
  BY <1>1 DEF JournalInv, JournalIsCurrent
<1>3. crashes' # 0
  BY <1>1 DEF TypeOK
<1>4. Success(r)'
  BY <1>1, <1>3 DEF Success, Earned, LoadedRun, LoadedTask, TaskTerminal, RunTerminal, EarnedRun, JournalOK
<1>5. Idle # r /\ \A t \in Task : Idle # <<r, t>>
  BY ConstantsAssumption, IdleIsNoTask
<1>6. taskState'[r] = NoTasks \/ \A t \in Task : taskState'[r][t] # "none"
  <2>1. \A t \in Task : taskState'[r][t] = "none" <=> taskState[r][t] = "none"
    BY <1>2 DEF LoadedTask
  <2>2. CASE taskState[r] = NoTasks
    <3>1. \A t \in Task : taskState'[r][t] = "none"
      BY <2>1, <2>2 DEF NoTasks
    <3>. QED
      BY <3>1 DEF NoTasks, TypeOK
  <2>. QED
    BY <2>1, <2>2 DEF EarnedRun, RecordsOK
<1>7. runState'[r] = "new" => taskState'[r] = NoTasks
  <2>. SUFFICES ASSUME runState'[r] = "new" PROVE taskState'[r] = NoTasks
    OBVIOUS
  <2>1. journal[r].tasks = NoTasks
    BY <1>1 DEF LoadedRun, EarnedRun, JournalOK
  <2>2. \A t \in Task : taskState'[r][t] = "none"
    BY <1>1, <2>1 DEF NoTasks, LoadedTask
  <2>. QED
    BY <2>2 DEF NoTasks, TypeOK
<1>8. (\E t \in Task : taskState'[r][t] = "interrupted") => Asleep(r)'
  <2>1. runState'[r] # "new" => runState'[r] \in RunTerminal \cup {"gone"}
    BY <1>1 DEF LoadedRun, RunTerminal
  <2>2. taskState'[r] = NoTasks => \A t \in Task : taskState'[r][t] # "interrupted"
    BY DEF NoTasks
  <2>. QED
    BY <1>1, <1>5, <1>7, <2>1, <2>2 DEF Asleep
<1>9. RecordsOK(r)'
  BY <1>1, <1>3, <1>5, <1>6, <1>7, <1>8 DEF RecordsOK
<1>. QED
  BY <1>1, <1>4, <1>9, JournalCopied DEF EarnedRun

LEMMA StepEarned ==
  ASSUME TypeOK, TypeOK', JournalInv, [Next]_vars, NEW r \in Run, EarnedRun(r)
  PROVE  EarnedRun(r)'
<1>1. ASSUME NEW q \in Run, Requester(q) PROVE EarnedRun(r)'
  BY <1>1, RequesterElsewhere, RequesterEarned
<1>2. ASSUME NEW q \in Run, Planner(q) PROVE EarnedRun(r)'
  BY <1>2, PlannerEarned
<1>3. CASE SchedulerPass
  BY <1>3, PassEarned
<1>4. CASE \E q \in Run, t \in Task : BackoffElapses(q, t)
  BY <1>4, EarnedFrame DEF BackoffElapses, runVars, poolVars, planVars
<1>5. ASSUME NEW w \in Worker, NEW q \in Run, NEW t \in Task, Execution(w, q, t) PROVE EarnedRun(r)'
  BY <1>5, ExecutionEarned
<1>6. CASE Restart
  BY <1>6, RestartEarned
<1>7. CASE UNCHANGED vars
  BY <1>7, EarnedFrame DEF vars, runVars, taskVars, poolVars, planVars
<1>. QED
  BY <1>1, <1>2, <1>3, <1>4, <1>5, <1>6, <1>7 DEF Next

LEMMA EarnedInvariant == Spec => []EarnedInv
<1>1. Init => EarnedInv
  <2>. SUFFICES ASSUME Init, NEW r \in Run PROVE EarnedRun(r)
    BY DEF EarnedInv
  <2>1. /\ runState[r] = "new" /\ strict[r] = (r \in Strict) /\ taskState[r] = NoTasks
        /\ journal[r].state = "new" /\ journal[r].tasks = NoTasks
        /\ \A w \in Worker : worker[w] = Idle
    BY DEF Init
  <2>2. \A t \in Task : Idle # <<r, t>> /\ taskState[r][t] # "interrupted"
    BY <2>1, IdleIsNoTask DEF NoTasks
  <2>. QED
    BY <2>1, <2>2 DEF EarnedRun, Success, RecordsOK, JournalOK
<1>2. TypeOK /\ TypeOK' /\ JournalInv /\ EarnedInv /\ [Next]_vars => EarnedInv'
  BY StepEarned DEF EarnedInv
<1>. QED
  BY <1>1, <1>2, TypeCorrect, JournalInvariant, PTL DEF Spec

\* A run is reported as succeeded only when every task but the coordinator did
\* and the coordinator did not say otherwise; a strict run that lives through no
\* restart also needs its explicit outcome (_refresh_run_state_locked).
THEOREM SuccessHasEvidence == Spec => []SuccessIsEarned
<1>1. EarnedInv => SuccessIsEarned
  BY DEF EarnedInv, EarnedRun, Success, Earned, SuccessIsEarned
<1>. QED
  BY <1>1, EarnedInvariant, PTL
=============================================================================
