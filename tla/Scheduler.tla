------------------------------ MODULE Scheduler ------------------------------
(***************************************************************************)
(* PersistentScheduler (src/src/iras/v5/scheduler.py): a table of jobs that*)
(* the loops of several application instances claim under leases, run on   *)
(* the threads of their pools and finish, while the owner pauses, resumes, *)
(* cancels and deletes jobs and instances stop or crash.  The database     *)
(* runs one statement at a time: each statement is one action.             *)
(***************************************************************************)
EXTENDS Naturals, FiniteSets

CONSTANTS
  Job,        \* job ids
  Interval,   \* the jobs with interval_seconds; the others run once
  Loop,       \* the loops: one per application instance
  Token,      \* lease tokens (uuid4 in the code), see NewToken
  None,       \* NULL
  Workers,    \* max_workers: threads of each pool and LIMIT of a claim
  MaxOps,     \* bound: jobs cancelled or deleted
  MaxStops    \* bound: application instances that stop, or crash and start again

ASSUME SchedulerAssumption ==
  /\ IsFiniteSet(Job) /\ Interval \subseteq Job /\ None \notin Job
  /\ None \notin Loop
  /\ Token \subseteq Nat /\ IsFiniteSet(Token) /\ None \notin Token
  /\ Workers \in Nat \ {0} /\ MaxOps \in Nat /\ MaxStops \in Nat

VARIABLES
  row,        \* v5_scheduled_jobs: which rows there are
  enabled, paused, due,   \* due: next_run has passed
  token, lapsed,          \* run_token; claim_until has passed
  up,         \* of each loop: its thread runs, is told to stop, has ended
  released,   \* loops that have run the first statement of _claim_due
  batch,      \* what the SELECT of each loop returned and it has not tried yet
  claim,      \* of each token: the claim it was made for
  disturbed,  \* jobs that were cancelled or deleted, or lost a lease in use
  ops, stops  \* bound counters

rowVars == <<row, enabled, paused, due, token, lapsed>>
loopVars == <<up, released, batch>>
bounds == <<ops, stops>>
vars == <<rowVars, loopVars, claim, disturbed, bounds>>

Rows == {"none", "present", "deleted"}

\* "marked": the UPDATE was sent, the row is not read back yet; "claimed": in the
\* list _claim_due returns; "queued": submitted; "ok" and "failed": finish(ok=...)
\* is about to read the row; "ok_write" and "failed_write": it is about to write.
OnThread == {"running", "ok", "ok_write", "failed", "failed_write"}
Granted == {"claimed", "queued"} \cup OnThread
Stages == {"free", "marked"} \cup Granted

Claims == [stage : Stages, loop : Loop \cup {None}, job : Job \cup {None}]
NoClaim == [stage |-> "free", loop |-> None, job |-> None]

Init ==
  /\ row = [j \in Job |-> "none"]
  /\ enabled = [j \in Job |-> FALSE]
  /\ paused = [j \in Job |-> FALSE]
  /\ due = [j \in Job |-> FALSE]
  /\ token = [j \in Job |-> None]
  /\ lapsed = [j \in Job |-> FALSE]
  /\ up = [l \in Loop |-> "on"]
  /\ released = [l \in Loop |-> FALSE]
  /\ batch = [l \in Loop |-> {}]
  /\ claim = [k \in Token |-> NoClaim]
  /\ disturbed = [j \in Job |-> FALSE]
  /\ ops = 0 /\ stops = 0

-----------------------------------------------------------------------------
(***************************************************************************)
(* Faulty twins of definitions below, each named after a slip.             *)
(***************************************************************************)
TakesAlways(j) == TRUE
ReleasableAll(j) == token[j] # None
ReleasableNever(j) == FALSE

-----------------------------------------------------------------------------
(***************************************************************************)
(* The owner: add, pause, resume, cancel, delete.                          *)
(***************************************************************************)
Present(j) == row[j] = "present"

\* add: next_run is now, or later.
Add(j) ==
  /\ row[j] = "none"
  /\ row' = [row EXCEPT ![j] = "present"]
  /\ enabled' = [enabled EXCEPT ![j] = TRUE]
  /\ \E d \in BOOLEAN : due' = [due EXCEPT ![j] = d]
  /\ UNCHANGED <<paused, token, lapsed, loopVars, claim, disturbed, bounds>>

Pause(j) ==
  /\ Present(j) /\ ~ paused[j]
  /\ paused' = [paused EXCEPT ![j] = TRUE]
  /\ UNCHANGED <<row, enabled, due, token, lapsed, loopVars, claim, disturbed, bounds>>

\* resume, as its callers call it: without a next_run.
Resume(j) ==
  /\ Present(j) /\ (paused[j] \/ ~ enabled[j])
  /\ paused' = [paused EXCEPT ![j] = FALSE]
  /\ enabled' = [enabled EXCEPT ![j] = TRUE]
  /\ UNCHANGED <<row, due, token, lapsed, loopVars, claim, disturbed, bounds>>

Unlease(J) ==
  /\ token' = [j \in Job |-> IF j \in J THEN None ELSE token[j]]
  /\ lapsed' = [j \in Job |-> lapsed[j] /\ j \notin J]

Called(j) == Present(j) /\ ops < MaxOps /\ ops' = ops + 1

\* cancel also takes the lease from whoever runs the job.
Cancel(j) ==
  /\ Called(j) /\ (enabled[j] \/ token[j] # None)
  /\ enabled' = [enabled EXCEPT ![j] = FALSE]
  /\ Unlease({j})
  /\ disturbed' = [disturbed EXCEPT ![j] = TRUE]
  /\ UNCHANGED <<row, paused, due, loopVars, claim, stops>>

Delete(j) ==
  /\ Called(j)
  /\ row' = [row EXCEPT ![j] = "deleted"]
  /\ Unlease({j})
  /\ disturbed' = [disturbed EXCEPT ![j] = TRUE]
  /\ UNCHANGED <<enabled, paused, due, loopVars, claim, stops>>

-----------------------------------------------------------------------------
(***************************************************************************)
(* Time.                                                                   *)
(***************************************************************************)

\* next_run is reached.
ComesDue(j) ==
  /\ Present(j) /\ ~ due[j]
  /\ due' = [due EXCEPT ![j] = TRUE]
  /\ UNCHANGED <<row, enabled, paused, token, lapsed, loopVars, claim, disturbed, bounds>>

\* The lease is in use by a claim.
Held(j) == token[j] # None /\ claim[token[j]].stage # "free"

\* claim_until is reached.
LeaseLapses(j) ==
  /\ Present(j) /\ token[j] # None /\ ~ lapsed[j]
  /\ lapsed' = [lapsed EXCEPT ![j] = TRUE]
  /\ disturbed' = [disturbed EXCEPT ![j] = @ \/ Held(j)]
  /\ UNCHANGED <<row, enabled, paused, due, token, loopVars, claim, bounds>>

-----------------------------------------------------------------------------
(***************************************************************************)
(* A loop: _claim_due, submit, and the stop of the instance.               *)
(***************************************************************************)
Has(l, stage) == \E k \in Token : claim[k].loop = l /\ claim[k].stage = stage

\* Every claim of the batch has been tried; every one that was granted is submitted.
Tried(l) == batch[l] = {} /\ ~ Has(l, "marked")
AtHead(l) == ~ released[l] /\ Tried(l) /\ ~ Has(l, "claimed")

\* _release_expired_claims
Releasable(j) == token[j] # None /\ lapsed[j]
Release(l) ==
  /\ up[l] = "on" /\ AtHead(l)
  /\ released' = [released EXCEPT ![l] = TRUE]
  /\ Unlease({j \in Job : Present(j) /\ Releasable(j)})
  /\ UNCHANGED <<row, enabled, paused, due, up, batch, claim, disturbed, bounds>>

Due(j) == Present(j) /\ enabled[j] /\ ~ paused[j] /\ due[j]

\* The SELECT returns at most max_workers of the due rows without a token; the
\* order of next_run is left open.
Select(l) ==
  LET found == {j \in Job : Due(j) /\ token[j] = None}
  IN  /\ released[l]
      /\ released' = [released EXCEPT ![l] = FALSE]
      /\ \E B \in SUBSET found :
           /\ Cardinality(B) <= Workers /\ (B = found \/ Cardinality(B) = Workers)
           /\ batch' = [batch EXCEPT ![l] = B]
      /\ UNCHANGED <<rowVars, up, claim, disturbed, bounds>>

\* A uuid4 is new.  The model takes the least token that neither a row nor a
\* claim knows any more, which nobody can tell from a new one.
Unused(k) == claim[k].stage = "free" /\ \A j \in Job : token[j] # k
NewToken(k) == Unused(k) /\ \A i \in Token : Unused(i) => k <= i

\* UPDATE ... WHERE job_id=? AND run_token IS NULL
Takes(j) == token[j] = None
Mark(l, j, k) ==
  /\ j \in batch[l] /\ ~ Has(l, "marked") /\ NewToken(k)
  /\ batch' = [batch EXCEPT ![l] = @ \ {j}]
  /\ claim' = [claim EXCEPT ![k] = [stage |-> "marked", loop |-> l, job |-> j]]
  /\ IF Present(j) /\ Takes(j)
     THEN /\ token' = [token EXCEPT ![j] = k]
          /\ lapsed' = [lapsed EXCEPT ![j] = FALSE]
     ELSE UNCHANGED <<token, lapsed>>
  /\ UNCHANGED <<row, enabled, paused, due, up, released, disturbed, bounds>>

Moves(k, from, to) ==
  /\ claim[k].stage = from
  /\ claim' = [claim EXCEPT ![k] = IF to = "free" THEN NoClaim ELSE [@ EXCEPT !.stage = to]]

\* get, and the comparison of the tokens.
Check(k) ==
  LET j == claim[k].job
  IN  /\ Moves(k, "marked", IF Present(j) /\ token[j] = k THEN "claimed" ELSE "free")
      /\ UNCHANGED <<rowVars, loopVars, disturbed, bounds>>

\* When the whole batch has been tried.  An instance that is stopping has no
\* pool to submit to: the claim is dropped, its lease stays.
Submit(k) ==
  /\ claim[k].stage = "claimed" /\ Tried(claim[k].loop)
  /\ Moves(k, "claimed", IF up[claim[k].loop] = "on" THEN "queued" ELSE "free")
  /\ UNCHANGED <<rowVars, loopVars, disturbed, bounds>>

\* stop: the claims that were submitted still run.
Stop(l) ==
  /\ up[l] = "on" /\ stops < MaxStops /\ stops' = stops + 1
  /\ up' = [up EXCEPT ![l] = "stopping"]
  /\ UNCHANGED <<rowVars, released, batch, claim, disturbed, ops>>

Exit(l) ==
  /\ up[l] = "stopping" /\ AtHead(l)
  /\ up' = [up EXCEPT ![l] = "off"]
  /\ UNCHANGED <<rowVars, released, batch, claim, disturbed, bounds>>

\* The process of an instance dies and starts again: its loop and its claims are
\* gone, the leases stay in the table.
Crash(l) ==
  /\ stops < MaxStops /\ stops' = stops + 1
  /\ up' = [up EXCEPT ![l] = "on"]
  /\ released' = [released EXCEPT ![l] = FALSE]
  /\ batch' = [batch EXCEPT ![l] = {}]
  /\ claim' = [k \in Token |-> IF claim[k].loop = l THEN NoClaim ELSE claim[k]]
  /\ UNCHANGED <<rowVars, disturbed, ops>>

-----------------------------------------------------------------------------
(***************************************************************************)
(* A thread of a pool: _execute_claim and finish.                          *)
(***************************************************************************)
Busy(l) == {k \in Token : claim[k].stage \in OnThread /\ claim[k].loop = l}
FreeThreadWhileUp(l) == up[l] = "on" /\ Cardinality(Busy(l)) < Workers             \* a slip

\* stop shuts the pool down with cancel_futures=False: what is queued is still run.
FreeThread(l) == Cardinality(Busy(l)) < Workers

Start(k) ==
  /\ Moves(k, "queued", "running") /\ FreeThread(claim[k].loop)
  /\ UNCHANGED <<rowVars, loopVars, disturbed, bounds>>

\* The executor returns or raises.
Return(k) ==
  /\ \E s \in {"ok", "failed"} : Moves(k, "running", s)
  /\ UNCHANGED <<rowVars, loopVars, disturbed, bounds>>

\* The row exists, and run_token in {lease_token, None, ""}
MayFinish(k) == Present(claim[k].job) /\ token[claim[k].job] \in {k, None}

\* finish(ok=True) reads the row; when it raises, finish(ok=False) follows.
FinishOk(k) ==
  /\ Moves(k, "ok", IF MayFinish(k) THEN "ok_write" ELSE "failed")
  /\ UNCHANGED <<rowVars, loopVars, disturbed, bounds>>

FinishFailed(k) ==
  /\ Moves(k, "failed", IF MayFinish(k) THEN "failed_write" ELSE "free")
  /\ UNCHANGED <<rowVars, loopVars, disturbed, bounds>>

\* The UPDATE of finish, of the row whoever holds it by now: an interval job is
\* enabled and its next_run later than now, the others are disabled.
FinishWrite(k) ==
  LET j == claim[k].job
  IN  /\ \E s \in {"ok_write", "failed_write"} : Moves(k, s, "free")
      /\ IF Present(j)
         THEN /\ enabled' = [enabled EXCEPT ![j] = j \in Interval]
              /\ due' = [due EXCEPT ![j] = @ /\ j \notin Interval]
              /\ Unlease({j})
         ELSE UNCHANGED <<enabled, due, token, lapsed>>
      /\ UNCHANGED <<row, paused, loopVars, disturbed, bounds>>

-----------------------------------------------------------------------------
Owner(j) == Add(j) \/ Pause(j) \/ Resume(j) \/ Cancel(j) \/ Delete(j)
Claiming(l) == Release(l) \/ Select(l) \/ Exit(l) \/ \E j \in Job, k \in Token : Mark(l, j, k)
Executing(k) ==
  Check(k) \/ Submit(k) \/ Return(k) \/ FinishOk(k) \/ FinishFailed(k) \/ FinishWrite(k)

Next ==
  \/ \E j \in Job : Owner(j) \/ ComesDue(j) \/ LeaseLapses(j)
  \/ \E l \in Loop : Claiming(l) \/ Stop(l) \/ Crash(l)
  \/ \E k \in Token : Executing(k) \/ Start(k)

Spec == Init /\ [][Next]_vars

\* A running instance takes its steps and the executor returns (it hands a prompt
\* to the orchestration or stores a reminder); a pool serves its queue in order,
\* so a claim that finds a free thread again and again gets one; the lease of a
\* claim that is gone runs out.
FairSpec ==
  /\ Spec
  /\ \A l \in Loop : WF_vars(Claiming(l))
  /\ \A k \in Token : WF_vars(Executing(k)) /\ SF_vars(Start(k))
  /\ \A j \in Job : WF_vars(~ Held(j) /\ LeaseLapses(j))

-----------------------------------------------------------------------------
TypeOK ==
  /\ row \in [Job -> Rows]
  /\ enabled \in [Job -> BOOLEAN] /\ paused \in [Job -> BOOLEAN] /\ due \in [Job -> BOOLEAN]
  /\ token \in [Job -> Token \cup {None}] /\ lapsed \in [Job -> BOOLEAN]
  /\ up \in [Loop -> {"on", "stopping", "off"}]
  /\ released \in [Loop -> BOOLEAN] /\ batch \in [Loop -> SUBSET Job]
  /\ claim \in [Token -> Claims]
  /\ \A k \in Token : claim[k] = NoClaim \/ (claim[k].stage # "free" /\ claim[k].loop # None
                                             /\ claim[k].job # None)
  /\ disturbed \in [Job -> BOOLEAN]
  /\ ops \in Nat /\ stops \in Nat

\* No job has two claims at work at a time, on whatever instances, unless its
\* lease lapsed under a claim or the owner cancelled it: what the leases of
\* _claim_due are for.
OneRunner ==
  \A i, k \in Token :
    /\ claim[i].stage \in Granted /\ claim[k].stage \in Granted
    /\ claim[i].job = claim[k].job /\ ~ disturbed[claim[k].job]
    => i = k

\* Why: a claim that was granted on an undisturbed job holds
\* its lease, a lease in use is the lease of a claim on that very job, and it has
\* not lapsed, unless the job is marked disturbed.
LeaseInv ==
  /\ \A k \in Token : claim[k].stage \in Granted /\ ~ disturbed[claim[k].job]
                        => token[claim[k].job] = k
  /\ \A j \in Job : Held(j) => claim[token[j]].job = j
  /\ \A j \in Job : Held(j) /\ lapsed[j] => disturbed[j]

\* While one instance is up, whichever other stops or crashes at whichever
\* statement, a job that is due is run and finished, or the owner takes it back,
\* provided that no lease lapses under its claim.
Served ==
  [](/\ \A j \in Job : ~ (Held(j) /\ lapsed[j])
     /\ \E l \in Loop : up[l] = "on")
  => \A j \in Job : Due(j) ~> ~ Due(j)

\* An instance whose loop was told to stop and has ended settles every claim it
\* made, those its pool had still in the queue too, whoever takes their leases
\* meanwhile, unless its process dies and starts again first.
Drained(l) == up[l] = "off" => \A k \in Token : claim[k].loop # l
Drains == (\E l \in Loop : ~ Drained(l)) ~> (\A l \in Loop : Drained(l))

\* "A lease prevents the same due job from being claimed twice by overlapping
\* worker loops": a job that runs once is not claimed again after it has run.
ClaimedOnce ==
  [][\A j \in Job \ Interval :
       token[j] = None /\ token'[j] # None => enabled[j] \/ ops > 0]_vars
=============================================================================
