# IRAS: TLA+ models, model checking and proofs

IRAS is a personal assistant made of a cloud server and an agent on the owner's
Windows computer.  This directory holds TLA+ models of the parts of it whose
correctness depends on the order in which threads, messages, time limits and
restarts happen, the TLC configurations that check them on small instances, and
theorems about them that TLAPS proves for every value of the constants.
`PROJECT.json` indexes it: components, runs, faulty twins, the source lines of
each definition, findings, hazards and theorems.

Paths below are relative to `src/src/iras/` unless they say otherwise.

## 1. Inventory

### Components whose control is modelled

**Orchestration manager** (`orchestration.py`, `Orchestration.tla`).
*State:* the runs in memory (state, paused, cancelled, resume_required,
verified_outcome, context), their tasks (state, attempts, waiting times,
next_eligible_at), a pool of worker threads, a planner's pool of one thread and
a journal.  *Operations:* submit_graph, submit_objective, pause, resume (with
context_update and retry_failed), cancel; one pass of the scheduler; the two
critical sections of an execution and of a planning; loading the journal.
*Interactions:* requesters call it from HTTP handlers; the runner it calls goes
through a language model to tools, and through the device bridge to the
computer; the journal is a row of PostgreSQL and a local file.  *Hard:* all of
these interleave at the critical sections of one lock, the runner and the
planner run outside it, and the process can stop between any two sections.
*Correct when:* no task is executed twice at a time or left without an
execution; a task starts only on settled dependencies; retries keep to their
budget; what completed is kept; verdicts are earned; the journal is current; a
cancellation is final; every run ends.

**Device bridge** (`device_bridge/store.py`, `device_bridge/agent.py`, the two
device endpoints of `cloud_api.py`; `DeviceBridge.tla`, `CommandContract.tla`).
*State:* rows of commands (status, expiry, arguments and result), a thread per
requester that waits for its row, the long poll, the agent's main lane and the
lane of its local model.  *Operations:* enqueue, wait, the withdrawal and
scrubbing after it, claim_next, complete, the agent's loop, `_execute`,
`_dispatch_local_ai`.  *Interactions:* requesters and the server share rows; the
agent only speaks HTTP and so loses requests and responses.  *Hard:* a lost
response of a claim or of a report, a caller's time limit racing a claim, a
handler that outlives the agent it polls for, a busy flag read 25 seconds before
it is relied on, restarts of either side.  *Correct when:* a command is executed
at most once, answers are true, given-up work leaves the queue, remote payloads
do not outlive their delivery, and control commands are served beside a long
local inference.

**Persistent scheduler** (`v5/scheduler.py`, `Scheduler.tla`).  *State:* a table of
jobs (next_run, enabled, paused, lease token and its end), a loop and a pool of
threads in each application instance.  *Operations:* add, pause, resume, cancel,
delete; `_release_expired_claims`, `_claim_due`, `submit`; `_execute_claim` and
finish; stop.  *Interactions:* owners call it from HTTP handlers, tools and the
calendar; instances share the table when it is in PostgreSQL; the executor hands
the job's prompt to the orchestration manager.  *Hard:* every statement is a
transaction of its own, so a loop acts on a SELECT that is out of date, finish
checks the lease in one statement and writes in another, a lease can end under
its job, and an instance can stop between a claim and its end.  *Correct when:* a
job is at work once at a time; a job that runs once is run once; a due job is run whichever
instance stops; what an instance claimed before it stopped is settled.

**The agent's turn** (`core/agent.py`, with `device_bridge/task_engine.py`,
`replan_guard.py`, `recovery_runtime.py`, `adaptive_recovery.py`,
`fresh_action_planning.py`, `fresh_action_execution.py`,
`plan_verification_replanning.py`; `Workflow.tla`).  *State:* the step of the
loop, its one-time retries and the `TaskTracker`: counters of calls and recovery
steps, the contract of a required replan, the fresh plan of the last recovery,
what needs verification and what may be learned.  *Operations:* each branch of
the loop of `Agent.handle`: a text, a call that is refused, fails or succeeds, the
grounding probe, the chained verification and the recovery a verdict leads to.
*Interactions:* the language model answers anything, tools may fail; the turn is
run under the chat endpoints' lock or by the orchestration's runner.  *Hard:*
budgets are kept in three places and asked by two paths; some fifteen tools set
and clear the flags that decide what may be said and learned.  *Correct when:*
what is forbidden or stale is not done, by the model or by the controller
itself, a claim has evidence, only replayable work is learned, and no step is free.

**Chat endpoints** (`/v1/chat` and `/v1/chat/stream` of `cloud_api.py`,
`cloud_state.py`; `Chat.tla`).  *State:* one agent that all requests share, its
lock, its settings and last_metrics, the rows of messages.  *Operations:* begin a
turn, answer instantly, queue for the lock, enter and leave the scopes, stream,
report, finish the turn.  *Interactions:* HTTP clients read a stream, stall or
leave; the agent runs a turn.  *Hard:* a generator is closed where it waits,
metrics are read after the lock is released, a stalled client may hold the lock.
*Correct when:* no request runs with the settings of another, a buffered stream
reports its own turn, and a client delays nobody.

**Parallel tasks** (`multitasking.py`, `Multitask.tla`).  *State:* runs, their tasks
and futures in one pool.  *Operations:* submit with capacity and pruning, cancel,
close, the two critical sections of `_execute`.  *Interactions:* requesters call
it from HTTP handlers; each task runs an agent of its own.  *Hard:* capacity is
counted from records, while the pool holds futures that are cancelled, taken but
not begun, or of runs that are forgotten.  *Correct when:* capacity holds for
what the pool works at, the run of a running task is known, runs settle.

**Automation engine and webhooks** (`v5/automation_engine.py`,
`SecureWebhookGateway` of `v5/strengthening_core.py`; `Automation.tla`).  *State:* rows
of automations with a lease, a loop and its pool, the receipts of webhook events.
*Operations:* add, pause, resume, cancel, delete, run_now; the loop's release,
SELECT, claim and submission; `_execute` and `_store_result`; `receive` and
`emit_event`.  *Interactions:* owners, senders of webhooks and the loop act on the
same rows; the executor hands prompts to the orchestration.  *Hard:* a result
writes flags of a row read before the run; run_now and events take no lease; an
event is stored in one statement and published after it.  *Correct when:* an
event is published once, a due automation is served after a crash, and what its
owner disabled stays disabled (it does not: section 13).

### Components that are not modelled

Master Control, the remote policy and the emergency stop
(`master_control.py`, `remote_access.py`, `safety_runtime.py`) are rules about who may
elevate what, written to three local files; `Workflow` and `Automation` take
whether Master Control is armed from their environment.  Mobile approvals
(`v5/mobile.py`) are rows that a phone reads and acknowledges, and again access
rules.  Monitors (`v5/monitoring.py`) read, fetch and write one row in one caller.
Durable runs and checkpoints (`v5/strengthening_core.py`) are written by the owner's
tools only, one statement at a time.  Provider routing keeps statistics and
cooldowns that only order candidates; `Orchestration` takes "every provider is
unavailable" as an outcome that can happen at any time.  The voice runtime is
audio I/O around a few flags.  The execution router and the dedicated workflows
above the agent (coding agent, software installer, research) choose prompts, tools
and step budgets for a turn: `Workflow` is one turn with what they choose as
constants, and the orchestration sees a call that returns or raises.  The executor,
UI control and applications are Windows automation: the bridge sees a call that
returns or raises.  Learning, skills, cognition, continuity and the knowledge
graph are records and statistics.  The permission registry is a sequential check.
The clients, vision, browser, personality, identity and agenda modules are user
interfaces, external processes, wording and local records.  These are most of the
repository's lines, which is why the mapped lines are few beside them.

## 2. Plan

1. `RunContract` (abstract), `Orchestration`, `OrchestrationProofs`,
   `RunContractProofs` - done.
2. `CommandContract` (abstract), `DeviceBridge`, `DeviceBridgeProofs` - done.
3. `Scheduler`, `SchedulerProofs` - done.
4. `Workflow`, `WorkflowProofs`: a turn of the agent and its tracker - done.
5. `Chat`, `ChatProofs`: the requests that share the agent - done.
6. `ParallelContract` (abstract), `Multitask`, `MultitaskProofs` - done.
7. `Automation`, `AutomationProofs`, with the webhooks - done.
8. `BridgedTask`: a task of the orchestration whose runner is a command of the
   bridge, to see what "retry a command that was not accepted" does to the
   bridge's at-most-once; a second manager over one journal - left.
9. Durable runs and monitors, if something but the owner's tools comes to write
   them - left.
10. Abstract contracts, as refinements, of the lease of a job (for `Scheduler` and
   `Automation`) and of the shared agent (for `Chat`) - left.

`MCTurns` extends 4 and 5, `MCServices` 6 and 7, for one run of TLC each; what they
put together shares no state in the code either, so a behaviour is one of a single
part, which a variable names, while the others rest.

Every invariant and every action property that a run checks is proved; what is left
to TLC is the liveness (section 12).

## 3. `Orchestration`: the model and the code

Each `with self._lock:` / `with self._condition:` block is one action, including
the `_refresh_run_state_locked` and `_persist_locked` that end it.

| code | definition |
|---|---|
| `submit_graph`, `submit_objective`, `_ensure_capacity_locked`, `_prune_locked` | `SubmitGraph`, `SubmitObjective`, `HasCapacity`, `Pruned` |
| `pause`, `cancel` | `Pause`, `Cancel` |
| `resume`: after a restart; with retry_failed; otherwise; of an ended run | `ResumeRestarted`; `RetryFailed`; `ResumeActive`; `ResumeRefused` |
| `_plan_run`: its first section; the planner raised; the tasks are installed | `PlanBegin`; `PlanFail`; `PlanReady` |
| `_scheduler_loop`, one pass over all runs | `SchedulerPass` with `BlockedBy`, `ReadyAfter`, `Free`, `StartsFirst`, `PassStarts`, `Refreshed` |
| `next_eligible_at` is reached | `BackoffElapses` |
| `_execute_task`: its first section; each way its last one ends | `ExecBegin`; `ExecForgotten`, `ExecCancelled`, `ExecSucceeded`, `ExecBlocked`, `ExecWaits`, `ExecRetries`, `ExecFails` |
| `_persist_locked`; stopping and `_load_journal_history` | `Persist`; `Restart` |

`RunContract` is what the manager promises to whoever submitted a graph, of one run:
it is new, open, interrupted, forgotten or has a verdict; a task waits, works, has
succeeded or was dropped; the run was withdrawn or not.  Its steps are `Submitted`,
`Work` (any number of tasks start, end or are blocked at once, and a verdict is given
when it is earned), `Withdraw`, `Interrupt`, `Continue`, `Retry` and `Forget`.  It has
no threads, queues, retries, waits, pauses, planner, capacity or journal.
`Orchestration` instantiates it once for each run (`Promise(r)`: the contract's status
and progress are what `Status` and `Seen` make of the run's and its tasks' states),
because each requester is promised something about his own run and one step of the
scheduler is a step of many.  `ImplementsRunContract` says that every submitted graph
behaves so, whatever the others do.  One thing the contract had to be told: a pass
that only refreshes the states does not persist them, so a restart can take back a
verdict that was already visible (`Interrupt` is possible from `Verdicts`).

What is abstracted: prompts, texts, events, metrics and timestamps; a delay is a
flag that time clears; a wait budget of seconds is `MaxWaits` waits; a run's tasks
are the same set in every run, and their order in the plan, which matters to one
walk of `_mark_blocked_locked`, is left open (`BlockedBy`).  `_infer_verified_outcome`
is a choice over its four results.  The order of the planner's queue is left
open.  There is one requester: capacity is counted per requester in the code.

Assumed: `MaxActive <= Retained` (the code's constructor bounds retained_runs
below by 5, its default is 30, and the active runs of a requester by default 4),
so a run is never forgotten to make room for itself.  The dedicated resume
endpoints are called for the runs of their own workflow only.

Not modelled: a journal write that fails (the code swallows it), two server
processes that overlap during a deployment, and the exceptions a broken context
could raise inside a critical section.

## 4. `DeviceBridge`: the model and the code

One statement of the store is one action, because other threads see the rows
between two statements.  `claim_next` is the exception: it sweeps, selects and
compares-and-sets up to four times; only its compare-and-set has an effect that
others see, and a row it has selected can only leave the queue meanwhile, which
is what losing the compare-and-set means.

| code | definition |
|---|---|
| `enqueue`; a SELECT of `wait`; the withdrawal of `request_and_wait`; the end of either call, with `_scrub_remote_command_payload` | `Enqueue`; `Look`; `Withdraw`; `Return`, `AnswerOf`, `Scrubs` |
| `expires_at` passes | `Lapse` |
| `claim_next` in `device_next_command`: delivered; its response lost; its handler left behind; its statement repeated by `_run` after the connection broke | `ClaimDelivered`; `ClaimLost`; `ClaimOrphaned`; `ClaimForgotten` |
| an empty poll; a poll whose connection breaks | `PollFindsNothing`, `OrphanFindsNothing`; `PollBreaks` |
| `DeviceBridgeAgent._run`, `_local_ai_busy`, `_dispatch_local_ai` | `StartPoll`, `NewPoll`, `LaneOf` |
| `_execute`: refused; executed; reported; the report or its answer lost; the exception handler's report and its loss | `Refuse`; `Run`; `Report`; `ReportBreaks`; `ReportFault`; `ReportFaultLost` |
| restarts | `ServerRestart`, `AgentRestart` |

`CommandContract` is what the bridge promises of a command: it is requested,
claimed or expired, executed at most once and only while claimed, and ends with
one outcome.  It has no callers, polls, lanes or network.  `DeviceBridge`
instantiates it with a refinement mapping (INSTANCE ... WITH: the contract's status
and executed are the bridge's), and `ImplementsContract` is the contract's
specification under it: every behaviour of the bridge is one of the contract's.

What is abstracted: actions, arguments and results, except what a row still
holds of them; the time limits, as steps that can happen when the code lets
them.  A handler left behind by a computer is modelled one at a time.  Not
modelled: pairing, device tokens and 401 answers, the capability check, the life
of remote sessions, a database that fails inside `wait`.

## 5. `Scheduler`: the model and the code

The database runs one statement at a time, and each statement is one action; so
are the steps of a claim between two statements.

| code | definition |
|---|---|
| `add`; `pause`, `resume`, `cancel`, `delete` | `Add`; `Pause`, `Resume`, `Cancel`, `Delete` |
| next_run, claim_until are reached | `ComesDue`, `LeaseLapses` |
| `_claim_due`: its first statement; the SELECT; the UPDATE of one row; reading it back | `Release`; `Select`; `Mark`; `Check` |
| the loop of `start`: handing a claim to the pool; its end after `stop` | `Submit`; `Stop`, `Exit` |
| `_execute_claim`: on a thread; the executor returns or raises | `Start`; `Return` |
| `finish(ok=True)` and `finish(ok=False)` up to the lease check; the UPDATE | `FinishOk`, `FinishFailed`; `FinishWrite` |
| a process that dies and starts again | `Crash` |

A claim goes through the stages `marked`, `claimed` (in the list that `_claim_due`
returns), `queued`, `running`, and `ok` or `failed` with their writes.  It is known
by its token; `NewToken` reuses a token that no row and no claim holds, which
nothing in the system can tell from a fresh uuid4.  Time is two flags of a job,
`due` and `lapsed`.  `disturbed` is a history variable: the job was cancelled or
deleted, or a lease lapsed while its claim was still at work.  The code accepts
a second claim there, and the properties say so.

What is abstracted: prompts, results, failure counts and the texts of errors; the
order of next_run among more due jobs than the LIMIT (left open); the two misfire
policies, which both set next_run later than now.  Not modelled: `run_due`, which
only tests call; `start` on an object that was stopped; resume with a next_run,
which nothing calls; a failing database.

## 6. `Workflow`: the model and the code

One action is one step of the sequential loop between two answers of the model or
of a tool.

| code | definition |
|---|---|
| the loop of `Agent.handle`: the watchdog; a narrated deliberation; a text before and after tools were tried; tool calls | `Watchdog`; `Scratchpad`; `TextWithoutAction`, `Text`; `CallTools` |
| a call: refused by `before_call` or by the check of the named app; the tool fails; it succeeds | `CallBlocked`; `CallFails`; `CallSucceeds` |
| the read-only probe; the verification chained to a planned action; what follows a verification | `GroundingProbe`; `ChainedVerification`; `VerificationFollowUp` |
| the end of a call, of a step, of the turn | `EndCall`, `NextStep`, `Finish` |
| `TaskTracker.before_call`, `validate_fresh_plan_execution` | `Refused` with `Stale` and `Repeated`; `Bound`, `Admitted` |
| `TaskTracker.record` | `Failed`, `Succeeded` with `NeedsAfter`, `LimitedAfter`, `CheckpointAfter` |
| `finalization_nudge`, `_finalize_learning` | `Nudges`; `Finalized`, `Learnable` |
| `rank_recovery_routes`, `build_recovery_directive`; `automatic_recovery_guard`; `material_replan_contract`; `record_automatic_recovery` | `Directives`; `MayRecover`; `RequireReplan`; `Recovered` |

What is abstracted: texts and arguments.  A call is a tool and a class of
arguments: those the model chooses, those of a recovery route, and for a computer
action the observation it refers to, numbered by the recovery that made it.  The
grounding probe has arguments too (`ProbeArgs`), which may be those of a route: the
probe observes what `fresh_observe` observes in the foreground.  `before_call` is not
asked about the probe, and still it never makes a call that the contract of a
required replan forbids, because it follows a `device_observe_ui` that succeeded,
which has lifted any contract (`ProbeIsFree` of the proofs).  The tools that `record` treats alike are one (`Tool`).  Which eligible route a verdict
leads to is a ranking by scores and priors, left open among the routes the code
does not exclude; when it excludes all of them it falls back on the preferred one,
and so does `Directives`.  `ESCALATE_VISION` leads where `RETRY` does.

`Left` counts what a turn can still spend: the steps of the budget, the calls of
replies and the stage of the call it is in.  `StepsArePaid` says that every step of
the loop makes it less, so none of the retries, nudges, probes and recoveries is free.

Not modelled: the modes of a turn without a planner, the workflow memory, and the
choice of the step budget.

## 7. `Chat`: the model and the code

| code | definition |
|---|---|
| `_begin_cloud_turn`, with the SELECT and the INSERT of `add_message` | `LookUp`; `Insert` |
| the branches that answer without the agent | `AnswerInstantly` |
| `agent_lock`: taken; a stream in the queue; its time limit | `Acquire`; `Queue`; `QueueTimesOut` |
| the scopes of context, permissions, step budget and provider | `EnterScopes`, `LeaveScopes` |
| a token of a stream without tools; the end of the agent's turn | `MakeToken`; `EndTurn` |
| the release; the metrics read after it; `_finish_cloud_turn` | `Release`; `Report`; `Record` |
| the client reads an event, or is gone (`GeneratorExit`) | `Read`, `Disconnect` |

The four scopes are one value: the request whose settings the agent has.  A stream
with tools is *buffered*: its tokens are made inside the lock and yielded after it;
a *live* one yields inside it.  Not modelled: the bodies of the instant branches,
identity and rollback, and `/v1/tools`-like routes that use the registry without
the lock.

## 8. `Multitask`: the model and the code

| code | definition |
|---|---|
| `submit`, its capacity and `_prune_locked` | `Submit`, `Active`, `Pruned` |
| `cancel`, `future.cancel()` | `Cancel`, `Cancels` |
| `close` | `Close` |
| a thread of the pool takes a future | `Take` |
| `_execute`: its first section; the runner returned or raised; its finally | `Begin`; `Finish`; `Leave` |

Prompts, results, metrics and the polling of `wait` are left out.  Runs are
forgotten in the order of created_at, which is read outside the lock: which of
the settled ones go is left open.  The ids of runs are never used twice.
`future.cancel()` answers True as long as no thread has taken the task, also when the
pool was shut down meanwhile (`Cancels`).

`ParallelContract` is what a requester is told of one run by `get` and `wait`: it is
new, known or forgotten, each task is begun once and ends once, a cancellation takes
only what was not begun and is final, and the run is forgotten, or gets its finished_at,
only when nothing of it is left to do.  It has no pool, queue, threads, capacity or
other requesters.  `Multitask` instantiates it once for each run (`Promise(r)`), and
`ImplementsParallelContract` says that every run behaves so.

## 9. `Automation`: the model and the code

Each statement on the database is one action, as in `Scheduler`.

| code | definition |
|---|---|
| `add`; `pause`, `resume`, `cancel`, `delete`; `run_now` | `Add`; `Pause`, `Resume`, `CancelAutomation`, `Delete`; `RunNow` |
| the unattended authorizer's answer changes; next_run, claim_until are reached | `Arm`; `ComesDue`, `LeaseLapses` |
| `_claim_due`: the release of lapsed leases; the SELECT; the UPDATE of one row; reading it back | `Release`; `Select`; `Mark`; `Check` |
| the loop: submission to the pool; `stop` and its end; the process dies | `SubmitBatch`; `Stop`, `Exit`; `Crash` |
| `_execute`: refused without authority; into the executor; returned or raised, with `_store_result` and `_advance_schedule` | `RefuseRun`; `BeginRun`; `EndRun`, `StoreResult`, `Advanced` |
| `SecureWebhookGateway.receive`: the SELECT; the INSERT; `bus.publish` | `LookUp`; `Store`; `Publish` |
| `emit_event`, one automation after the other | `Emit` |

What is abstracted: prompts, results, filters of events, the interval (an interval
automation is due again when time says so).  Not modelled: the synchronous
`run_due`, the LIMIT of the SELECT, several instances on one database (the claim's
UPDATE is that of the scheduler, so what `sched_twice` shows holds here too),
callbacks of the event bus that raise (the bus swallows it), an exception in
the loop's thread (which ends it).

## 10. The runs

Systems that come to rest (every run ended, every command final) are no
deadlock, so every configuration says `CHECK_DEADLOCK FALSE`.

| run | instance | what it shows |
|---|---|---|
| `orch_graph` | one submitted graph: a coordinator over a chain of two tasks, two workers, one retry, one wait, one restart, two resumes | `TypeOK`, `SingleExecution`, `NothingAbandoned`, `DependenciesSettled`, `RetryBudget`, `CompletedPreserved`, `ImplementsRunContract` |
| `orch_mixed` | a planned strict run and a submitted one, two workers, capacity and retention 1, one restart, one resume | `TerminalIsSettled`, `SuccessIsEarned`, `JournalIsCurrent`, `CancelIsFinal`, and under fairness `RunsFinish`; the second run is admitted only when the first ended, and forgets it |
| `bridge` | two commands (a local inference of a remote session and a direct remote call), two losses, one restart of either side | `TypeOK`, `AnswersAreTrue`, `TimedOutLeavesQueue`, `DeliveredIsScrubbed`, `InferenceLaneFree`, `ExecutedAtMostOnce`, `ImplementsContract`, and under fairness `ControlServed` |
| `sched_leases` | one interval job, two instances of one thread, one stop or crash, one cancellation or deletion, any pauses and resumes | the inductive `LeaseInv`, `OneRunner`, and under fairness `Served` and `Drains` |
| `turns` | one turn of three steps and three calls with two routes and one automatic recovery; or one reply of five calls that verify and observe, with two routes and three recoveries; or one request of each kind over one agent | `ClaimHasEvidence`, `ForbiddenNeverRuns`, `FreshBinding`, `SkillIsReplayable`, `StepsArePaid`, `OwnSettings`, `OwnMetrics`, and under fairness `RequestsServed` |
| `services` | three runs of two parallel tasks of two requesters; or one automation that runs once, two leases, a caller of run_now and one stop or crash; or one that an event triggers, with two deliveries of it | `ActiveBound`, `RunsAreKnown`, `PublishedOnce`, `ImplementsParallelContract`, and under fairness `RunsSettle` and `DueIsServed` |
| `orch_cancel`, `orch_replan`, `orch_strict`, `bridge_late`, `sched_twice`, `automation_cancel` | one run; one run; one run; three commands; one job that runs once and two instances; one interval automation | the divergences of section 13 |

*Why the bounds are enough.*  The hazards of one run involve one task and its
dependencies: two dependent tasks and a coordinator give a chain, a join and the
special case of `RetryFailed`; a second worker is what a double execution needs.
One retry and one wait are enough to spend a budget and to exceed it; two
resumes allow a resume after a retry.  Two runs are what capacity, retention and
the sharing of workers need.  For the bridge, the rows only meet in the order of
claims and in the lanes: an inference and a control command fill both lanes, each
can be queued behind the other, and two losses with a restart give every broken
exchange and its retry (more commands are the theorems' business).  For the scheduler a job
only meets other jobs in the LIMIT and in the pool; two instances, a thread each
and a lease that can lapse at any step give the stale SELECT, the lost UPDATE, the
orphaned claim and the full pool.  Two tokens are one for the lease and one for
the loop that loses it.  In a turn, three calls are an unresolved verification, the
recovery or the replan it leads to and the call that meets the contract or the
fresh plan.  What a contract forbids while there is still a recovery to spend
needs a longer turn with fewer tools, the second instance of the run: two verdicts
that use up a route, a third that asks for a replan, and a fourth that would lead back
to that route take four verifications and a budget of three recoveries, and the
fifth call meets the contract of a budget that is spent.  Its routes are
`fresh_observe`, whose call is the probe's, and `desktop_vision`.  One request of each
kind lets each hold the lock while any other waits, has left or has failed.  Three
runs of which two share a requester, with capacity and retention 1, give refused
capacity, pruning while threads still hold tasks of what is pruned, and a queue
longer than the pool.  Two leases and a caller let a result meet a row that
another claim or the owner changed; two deliveries are all that one event needs.
The theorems of section 12 have no bounds.

*Fairness.*  `Orchestration!FairSpec` assumes that the scheduler thread loops
(`_condition.wait` always has a time limit), that the pools take what they are
handed, that the runner and the planner return (both have step budgets and
timeouts) and that time passes.  `DeviceBridge!FairSpec` assumes that the agent's
loop runs, that the server answers a poll (within 30 seconds), that the executor
returns and that a report that is not lost is answered.  It assumes nothing of
the thread of the local model, so `ControlServed` says that a local inference
that never ends does not keep other commands from being served.  `Scheduler!FairSpec` assumes that an
instance that is up takes its steps, that the executor returns, that a pool serves
its queue in order (strong fairness of `Start`: a claim keeps its place while
others come and go) and that the lease of a claim that is gone runs out.  `Drains`
needs no more than that: a loop that has ended makes no claims, and the threads of
its pool go on with what they were handed.
`Served` itself supposes that some instance stays up and that no lease lapses
under its claim: a job longer than its lease of 900 seconds is claimed again
and again, which the code accepts.  `Workflow` is given no fairness: its run checks
safety, of which `StepsArePaid` is the part of termination.  `ChatFairSpec` of `Chat`
assumes that the server's threads run, that the answer of a live stream has finitely
many tokens (strong fairness of `EndTurn`, whose turn comes between any two of them)
and that the client of a live stream reads or leaves; the client of a buffered stream may
stall for ever.  `Multitask!FairSpec` assumes that the pool's threads run and that
the runner returns or raises; `AutoFairSpec` of `Automation` that the loop and the executions run
and that the lease of a claim that is gone runs out, and `DueIsServed` supposes that
the instance is not stopped (it may crash and start again).  None of them assumes
anything of requesters, of the network, of restarts or of the clock that makes
commands expire.

*The bounds that only serve the checks* are `MaxCrashes` and `MaxResumes` of the
orchestration, `MaxLosses` and `MaxRestarts` of the bridge, `MaxOps` and
`MaxStops` of the scheduler, `MaxCalls` of a turn and `MaxStops` of the automations.
`RunsFinish` supposes that nobody cancels anything (`orch_cancel` shows what a
cancellation in the middle of a task leaves) and lets a run that its requester left
paused stay so.

## 11. Faulty twins

In each of the models stand definitions named after slips one could make in the
code, before the definition they would replace or near the beginning:
`ReadyEarly` starts a task before all its dependencies are settled,
`MayRetryOnceMore` compares with the wrong bound, `PersistRunsOnly` forgets the
tasks in the checkpoint, `WithdrawClaimedToo` takes back what was already claimed,
`PollEverything` ignores the busy local model, `StaleUnlessPlanned` checks the
observation only of a plan that is ready, `DisconnectBare` releases the lock and
not the settings, `SettledOnceBegun` counts a run as settled too early,
`StoreAlways` forgets the UNIQUE of a table, and so on.  `PROJECT.json` pairs each
property of each passing run with one: with the twin in the place of the
definition TLC finds that property violated, so none of them holds by the shape of
the model.  No action or property here uses a twin.

## 12. The proofs

The proof modules rest only on the named assumptions of the models
(`ConstantsAssumption`, `BridgeAssumption`, `SchedulerAssumption`,
`WorkflowAssumption`, `ChatAssumption`, `MultitaskAssumption`, `AutomationAssumption`)
and hold for any numbers of runs, tasks, workers, commands, jobs, instances,
routes, requests, automations, deliveries, losses and restarts.  TLC evaluates each
assumption on the instances it checks.

**`OrchestrationProofs`.**  `GraphInv` is the inductive invariant of the submitted
graphs.  `SingleExecution` alone is not inductive: that a resume does not start a
second execution of a running task depends on the run's state and its tasks'
going together (`Lifecycle`: an ended run has no task that runs, in memory or in
the journal, and the planner never touches a submitted graph); that a dependency
is not requeued under a running dependent needs `DepsAllow`; that a record that
runs is carried needs `OneExecution` and conversely.  The proof has one lemma per
action, each split along the parts of `GraphRunOK`, and lemmas about `Pruned`,
`Refreshed` and `Settled`.  The runs check the promises that follow from it, not
`GraphInv` itself.  Theorems: `TypeCorrect`, `GraphInvariant`,
`NoDoubleExecution`, `RunningIsCarried`, `RunsOnSettledDependencies`,
`TerminalRunsAreSettled`.  These speak of the runs of `GraphRun`; for planned runs
they do not hold, see `orch_replan`.

The other theorems each have an invariant of their own.  `PoolIsBounded` (no run
checks `WorkerBound`, which takes more tasks than TLC's instances have): only a pass
makes records run, and it counts those of all runs; a replanned run loses running
records and never gains one, and an id that is not known has none (`NewIsIdle`).
`CheckpointIsCurrent` (`JournalInv`): every section that changes a task's state or cancels ends
with `_persist_locked`, planned runs included.  From it, `CancelHolds` and
`SuccessIsKept`, which say what each step does to a record and need the checkpoint
only for `Restart`.  `BudgetHolds` (`BudgetInv`): what is queued has one attempt less
than the bound, because a pass counts one.  `SuccessHasEvidence` (`EarnedInv`): the
verdict of `_refresh_run_state_locked` would take an interrupted task beside
succeeded ones for a success; that it never meets one is because a run with an
interrupted task is ended, and nothing of it is queued or executing, until a resume
requeues every such task (`Asleep`).

**`RunContractProofs`.**  `RunsKeepTheirContract`: the manager implements `RunContract`
for every submitted graph, any number of runs, tasks and workers.  Initial states map
to initial states; then each action is taken apart for one run r, which it either
leaves alone, forgets (`IsForgotten`: pruning forgets only ended runs) or moves by one
step of the contract.  Sections that do not touch r are `OthersCalls` and `Stutters`.
`Works` and `EarnsOver` reduce the step `Work` to what happens to each task and to the
verdict, and serve the pass (`PassWorks`, which must see at once the tasks it blocks
and those it starts, and the verdict it gives over both) and the end of an execution
(`FinishKeeps`); `Requeues` serves the resumes.  The argument needs the other
invariants: that a pass starts a task only after what it depends on, and that what a
graph's run works at is open, are `GraphInv`; that a restart reloads what memory held,
`JournalInv`; that a success is earned when it is given, `EarnedInv`.  None of them
says what a restart does to a run that has ended: `EndInv` is the missing one (an end
that the checkpoint holds is the end the run has, and what is forgotten is forgotten
in the checkpoint too), proved as `WrittenEndStays`.  Without it a restart could turn
one written verdict into another, or bring a forgotten run back.

**`DeviceBridgeProofs`.**  `BridgeInv` adds to the promises what relates a row to
the lane that holds its command (`LaneInv`: a command that has not been started is
claimed and was never executed; one whose report is pending ran once), a row to
its number of executions (`RowInv`) and what a caller read to what the row says
(`CallerInv`, the reason why answers stay true: a final status never changes and
nothing returns to the queue).  Theorems: `BridgeInvariant`, `BridgeTypeCorrect`,
`AtMostOnce`, `AnswersHold`, `GivenUpIsOffQueue`, `DeliveredStaysScrubbed`,
`InferenceIsAlone`, and `BridgeImplementsContract`: the initial states of the
bridge map to those of the contract, and under the invariant each step is a step
of the contract or leaves its variables alone.

**`SchedulerProofs`.**  That a job is not at work twice is a fact about two
claims, and no step of one looks at the other: what connects them is the lease.
`LeaseInv` says that a claim that was granted on an undisturbed job holds its lease
until it ends (so two such claims are one), that a lease in use belongs to a claim
on that job (so a release or a write takes nobody else's) and that it has not
lapsed.  Theorems: `TypeCorrect`, `LeasesHold`, `NeverTwice`.

**`WorkflowProofs`.**  The inductive `Inv` says of the tracker, after any call: the
counts of recoveries and of each route are within their budgets, a fresh plan that
is ready carries the number of the newest recovery, a route whose call the
contract of a required replan forbids has no use left, and what accessibility
cannot see was seen by a call that succeeded (`Sound`); that no contract stands when
the probe is made (`ProbeIsFree`); a raw action that was made
and did not fail bars learning (`RawSettled`); and of the loop, that the answer
"tools were tried" means that one succeeded or failed.  The lemmas are about the operators on the tracker
(`SucceededSound`, `RecoveredSound`, `FollowSound`, ...), each with what it keeps, and
one per action of the loop.  From them: `TypeCorrect`,
`ClaimsHaveEvidence`, and the action properties `ForbiddenIsRefused`,
`BindingIsFresh` and `LearnedIsReplayable`.  `LoopIsPaid` proves `StepsArePaid` for
every budget and any number of tools and routes, and `LeftIsNatural` that what is left
is a natural number: the two are the safety half of termination, no turn takes more
than `3 * (Budget + MaxCalls) + 1` steps, whatever the model answers.

**`ChatProofs`.**  `OwnSettings` rests on mutual exclusion, which is not part of it:
`LockInv` (a request is between acquiring and releasing exactly when it holds the
lock), and on what a request saved being the agent's own settings (`SettingsInv`).
Theorems: `TypeCorrect`, `SettingsAreOwn`, `MetricsAreOwn`.

**`MultitaskProofs`.**  The capacity is counted from records, the load from the pool:
`PlaceInv` relates a task's state to where the pool has it (a queued one is in the
queue once or taken, a running one on a thread), `KeptInv` says that the run of an
open task is kept, and `ActiveInv` bounds what `submit` counts; `ActiveBound` is the
sum of them.  `NoTaskIsLost` is the converse of `PlaceInv` (`HeldInv`: what is queued
or running has its place in the pool, until the pool is shut down), the safety half of
`RunsSettle`.  `ParallelRunsKeepTheirContract` is the refinement of `ParallelContract`,
run by run: a submission accepts one run and forgets others, which were settled; a
thread's step moves one task, which `PlaceInv` says is in the state the step expects
(the code writes "succeeded" without looking) and `KeptInv` that its run is known;
`WholeInv` tells a run that was never submitted from one that was forgotten.
Theorems: `TypeCorrect`, `RunsStayKnown`, `ActiveStaysBounded`, and these two.

**`AutomationProofs`.**  Types, part by part, and `ReceiptInv`: an accepted delivery
has its receipt and is the only accepted one of its event.  Theorems:
`TypeCorrect`, `EventsArePublishedOnce`.

*Only model-checked:* the liveness properties `RunsFinish`, `ControlServed`,
`Served` and `Drains` of the scheduler, `RequestsServed`, `RunsSettle` and
`DueIsServed` need ENABLED and fairness, which the prover does not support.

## 13. Where the code and its documents disagree

* **A cancellation can leave a run in `cancelling` for ever** (`orch_cancel`).
  When the cancellation comes between the scheduler's submit and the worker's
  first lock, `_execute_task` returns early (`orchestration.py:979`) and leaves
  its record `running`; nothing looks at it again, and the run keeps its
  place in the capacity and one of the scheduler's slots.
* **A resume during planning replaces completed tasks** (`orch_replan`).  A run
  that is still being planned has no tasks, so a resume submits a second planner
  (`orchestration.py:1271`), whose plan replaces the records of the first, the
  completed ones included.
* **A restarted strict run can succeed unverified** (`orch_strict`).  The journal
  does not keep the flags of the dedicated workflows
  (`_safe_checkpoint_context`), and the general resume endpoint does not restore
  them.
* **A direct remote call that timed out can still be executed** (`bridge_late`).
  `remote_request_and_wait` does not withdraw its command
  (`device_bridge/store.py:1002`); `request_and_wait` does.
* **A job that runs once can run twice** (`sched_twice`).  The UPDATE that claims a
  job asks only that it have no lease (`v5/scheduler.py:128`).  A loop whose SELECT
  is older than another loop's claim and finish takes the lease that has just
  become free, of a job that is no longer enabled or due.
* **A cancelled automation goes on running** (`automation_cancel`).
  `_store_result` writes enabled=1 for an interval automation
  (`v5/automation_engine.py:383`) whoever has changed the row since it was read, so
  one that its owner cancelled during the run is enabled again.

Smaller things seen while modelling, which the models contain or leave out as
said, and which no run is about:

* *Scheduler.*  The result of an interval job writes it enabled again
  (`v5/scheduler.py:151`), so one that was cancelled during its run goes on, as in
  `automation_cancel`; its tool promises "Cancel a persistent schedule without
  deleting its audit record." (`tools/v5.py:125`).
* *Turn.*  When every recovery route is excluded the preferred one is taken all the
  same (`device_bridge/recovery_runtime.py:276`), although the docstring of
  `rank_recovery_routes` calls the exclusions hard; `MayRecover` then refuses it.
  An observation clears needs_verification, so a text may end the turn after an
  action without `device_computer_verify` (`../../docs/MULTIMODAL_GROUNDING_V3.7.0.md:65`).
  A plan that is not ready blocks every computer action until the next recovery.
  The repeat guard's message says that a call failed twice; it counts calls.  A raw
  action that failed does not bar learning.
* *Chat.*  A turn that its client sends again while the first request runs can be
  stored and run twice: the lookup and the insert are two statements.  `/v1/chat`
  and a live stream read last_metrics after the lock is released and may report
  another turn's.
* *Parallel tasks.*  A task that a thread has taken and not begun cannot be
  cancelled; a second cancel rewrites finished_at; `wait` raises KeyError for a run
  that was pruned meanwhile; `close` leaves what was queued "queued".
* *Automations.*  A crash between the receipt and the publication loses the event,
  whose redelivery is then a duplicate.  The result of run_now clears a lease the
  loop holds on the same automation.
