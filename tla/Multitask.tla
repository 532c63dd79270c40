------------------------------ MODULE Multitask ------------------------------
(***************************************************************************)
(* MultitaskManager (src/src/iras/multitasking.py): runs of independent    *)
(* tasks on one bounded pool of threads.  A requester has at most so many  *)
(* unfinished runs, and old finished runs are forgotten.  Each action is   *)
(* one critical section of the manager's lock, or a step of the pool.  The *)
(* runner is the environment: it returns or raises.                        *)
(***************************************************************************)
EXTENDS Naturals, Sequences, FiniteSets

CONSTANTS
  Run,        \* the runs that may be submitted
  Requester,  \* requester_device of each
  Size,       \* tasks of each run
  Workers,    \* max_workers
  MaxActive,  \* max_active_runs_per_requester
  Retained    \* retained_runs

VARIABLES
  kept,       \* _runs
  state,      \* of each task
  finished,   \* the runs with a finished_at
  queue,      \* the pool's work queue
  work,       \* what a thread of the pool does with a task: see Stages
  closed      \* the pool is shut down

vars == <<kept, state, finished, queue, work, closed>>

Task == {<<r, i>> : r \in Run, i \in 1 .. Size}
TasksOf(r) == {<<r, i>> : i \in 1 .. Size}

ASSUME MultitaskAssumption ==
  /\ IsFiniteSet(Run) /\ Size \in Nat \ {0, 1}
  /\ Workers \in Nat \ {0} /\ MaxActive \in Nat \ {0} /\ Retained \in Nat \ {0}

Terminal == {"succeeded", "failed", "cancelled"}   \* TERMINAL_STATES
\* "taken": out of the queue, the lock not yet taken; "closing": before the
\* finally of _execute.
Stages == {"none", "taken", "running", "closing"}

Init ==
  /\ kept = {} /\ finished = {}
  /\ state = [t \in Task |-> "new"]
  /\ queue = <<>>
  /\ work = [t \in Task |-> "none"]
  /\ closed = FALSE

\* Every task of the run is done.  (A slip: or was begun.)
SettledOnceBegun(r) == \A t \in TasksOf(r) : state[t] # "queued"
Settled(r) == \A t \in TasksOf(r) : state[t] \in Terminal

-----------------------------------------------------------------------------
\* submit counts the unfinished runs of the requester.
Active(q) == {r \in kept : Requester[r] = q /\ ~ Settled(r)}

\* _prune_locked: settled runs go until few enough are left.  They go by
\* created_at, which is read outside the lock: which of them is left open.
Prunable(r) == r \in kept /\ Settled(r)
Pruned(r) ==
  LET excess == Cardinality(kept) + 1 - Retained
      settled == {s \in kept : Prunable(s)}
  IN {gone \in SUBSET settled :
        IF excess <= 0 THEN gone = {}
        ELSE IF excess < Cardinality(settled) THEN Cardinality(gone) = excess
        ELSE gone = settled}

Submit(r) ==
  /\ ~ closed /\ \A t \in TasksOf(r) : state[t] = "new"
  /\ Cardinality(Active(Requester[r])) < MaxActive
  /\ \E gone \in Pruned(r) : kept' = (kept \ gone) \cup {r}
  /\ state' = [t \in Task |-> IF t \in TasksOf(r) THEN "queued" ELSE state[t]]
  /\ queue' = queue \o [i \in 1 .. Size |-> <<r, i>>]
  /\ UNCHANGED <<finished, work, closed>>

\* future.cancel() takes a task that no thread has taken: in the queue, or
\* dropped from it when the pool was shut down.  (A slip: its answer is not asked.)
CancelsOpen(t) == state[t] \notin Terminal
Cancels(t) == state[t] = "queued" /\ work[t] = "none"
FinishedIfSettled(r, settled) == IF r \in kept /\ settled THEN finished \cup {r} ELSE finished

Cancel(r) ==
  /\ r \in kept
  /\ state' = [t \in Task |-> IF t \in TasksOf(r) /\ Cancels(t) THEN "cancelled" ELSE state[t]]
  /\ finished' = FinishedIfSettled(r, \A t \in TasksOf(r) : Cancels(t) \/ state[t] \in Terminal)
  /\ UNCHANGED <<kept, queue, work, closed>>

\* close drops what is queued; the task records stay as they are.
Close ==
  /\ ~ closed /\ closed' = TRUE /\ queue' = <<>>
  /\ UNCHANGED <<kept, state, finished, work>>

-----------------------------------------------------------------------------
\* A free thread takes the next task, unless its future was cancelled.
Take ==
  /\ queue # <<>> /\ Cardinality({t \in Task : work[t] # "none"}) < Workers
  /\ queue' = Tail(queue)
  /\ work' = IF state[Head(queue)] = "cancelled" THEN work
             ELSE [work EXCEPT ![Head(queue)] = "taken"]
  /\ UNCHANGED <<kept, state, finished, closed>>

\* _execute, up to the call of the runner.
Begin(t) ==
  /\ work[t] = "taken"
  /\ IF t[1] \in kept /\ state[t] # "cancelled"
     THEN /\ work' = [work EXCEPT ![t] = "running"]
          /\ state' = [state EXCEPT ![t] = "running"]
     ELSE work' = [work EXCEPT ![t] = "none"] /\ UNCHANGED state
  /\ UNCHANGED <<kept, finished, queue, closed>>

\* The runner returned, or raised.  (A slip: the exception is not handled.)
OutcomesUnlessRaised == {"succeeded", "running"}
Outcomes == {"succeeded", "failed"}
Finish(t) ==
  /\ work[t] = "running"
  /\ work' = [work EXCEPT ![t] = "closing"]
  /\ \E o \in Outcomes : state' = [state EXCEPT ![t] = o]
  /\ UNCHANGED <<kept, finished, queue, closed>>

\* The finally of _execute.
Leave(t) ==
  /\ work[t] = "closing"
  /\ work' = [work EXCEPT ![t] = "none"]
  /\ finished' = FinishedIfSettled(t[1], Settled(t[1]))
  /\ UNCHANGED <<kept, state, queue, closed>>

Next ==
  \/ \E r \in Run : Submit(r) \/ Cancel(r)
  \/ Close \/ Take
  \/ \E t \in Task : Begin(t) \/ Finish(t) \/ Leave(t)

Spec == Init /\ [][Next]_vars

\* The threads of the pool run; the runner returns or raises, its calls being
\* limited in time.
Fairness ==
  /\ WF_vars(Take)
  /\ \A t \in Task : WF_vars(Begin(t) \/ Finish(t) \/ Leave(t))

FairSpec == Spec /\ Fairness

-----------------------------------------------------------------------------
\* The values the variables may have.
TypeOK ==
  /\ kept \subseteq Run /\ finished \subseteq Run
  /\ state \in [Task -> {"new", "queued", "running"} \cup Terminal]
  /\ queue \in Seq(Task) /\ work \in [Task -> Stages] /\ closed \in BOOLEAN

\* However runs are cancelled, settled and forgotten, the pool never works for
\* more than MaxActive unsettled runs of one requester, counted by what its
\* threads and its queue hold.
Queued(t) == \E i \in 1 .. Len(queue) : queue[i] = t
InPool(t) == Queued(t) \/ work[t] \in {"taken", "running"}
Load(q) ==
  {r \in Run : Requester[r] = q /\ \E t \in TasksOf(r) : InPool(t) /\ state[t] # "cancelled"}
ActiveBound == \A r \in Run : Cardinality(Load(Requester[r])) <= MaxActive

\* The run of a task on a thread is known, so that its result is seen; and a
\* settled run has its finished_at once its threads have left it.
RunsAreKnown ==
  /\ \A t \in Task : work[t] \in {"taken", "running"} => t[1] \in kept
  /\ \A r \in kept : Settled(r) /\ (\A t \in TasksOf(r) : work[t] # "closing") => r \in finished

\* What the requester of one run sees of it.
Status(r) ==
  IF r \in kept THEN "known" ELSE IF \A t \in TasksOf(r) : state[t] = "new" THEN "new" ELSE "forgotten"
Promise(r) == INSTANCE ParallelContract
  WITH Task <- TasksOf(r), status <- Status(r), progress <- [t \in TasksOf(r) |-> state[t]],
       finished <- (r \in finished)
KeepsPromise(r) == Promise(r)!ContractStep

\* Each run behaves as ParallelContract says, whatever the threads, the other
\* requesters, the cancellations and the pruning do.
ImplementsParallelContract ==
  /\ \A r \in Run : Promise(r)!Begun
  /\ [][\A r \in Run : KeepsPromise(r)]_vars

\* Whatever was submitted settles, unless the pool is shut down.
RunsSettle == (\E r \in kept : ~ Settled(r)) ~> (closed \/ \A r \in kept : Settled(r))
=============================================================================
