------------------------------ MODULE Workflow ------------------------------
(***************************************************************************)
(* One turn of the agent that operates a computer: the loop of             *)
(* Agent.handle (src/src/iras/core/agent.py) in planner mode, with its     *)
(* TaskTracker (src/src/iras/device_bridge/task_engine.py) and the         *)
(* recovery routes, replan contracts and fresh plans the tracker keeps.    *)
(* The model, the tools and the computer are the environment: the model    *)
(* may answer anything, and a tool may fail.  A call is a pair of a tool   *)
(* and arguments; of a computer action they are the observation it refers  *)
(* to, numbered by the automatic recovery that made it (0: none did).      *)
(***************************************************************************)
EXTENDS Naturals, FiniteSets

CONSTANTS
  Offered,        \* the tools offered to the model
  Route,          \* the recovery routes that run by themselves: they only observe
  RouteArgs,      \* the arguments each gives device_computer_observe
  ProbeArgs,      \* those of the controller's own probe; a route may have the same
  Budget,         \* step_budget
  MaxCalls,       \* bound: calls the model makes in the turn
  MaxRecoveries,  \* MAX_AUTOMATIC_RECOVERY_STEPS
  Master,         \* Master Control is armed
  Compound        \* the goal is compound and names its last target

VARIABLES
  step, phase, calls,   \* steps ended, what comes next, calls made
  attempted, toolRetry, finalRetry,  \* tool_attempted, forced_tool_retry, forced_final_retry
  created, outcome,     \* terminal_device_result, and what final says
  tracker               \* the TaskTracker

loopVars == <<step, phase, calls, attempted, toolRetry, finalRetry, created, outcome>>
vars == <<loopVars, tracker>>

MaxRepeat == 2          \* MAX_REPEAT_CALLS
MaxRouteUses == 2       \* MAX_IDENTICAL_RECOVERY_ROUTE_USES

Tool == {"observe_ui", "observe", "action", "verify", "semantic", "open_app",
         "app_control", "interact", "read", "skill", "other_change", "quick_code"}
ReplanTools == {"observe", "observe_ui", "app_control", "open_app", "semantic", "action"}
RawTools == {"interact", "action", "other_change"}   \* state-changing, not a semantic step
AppTools == {"open_app", "interact", "app_control", "observe_ui", "semantic", "other_change"}

Own == "own"            \* arguments the model chooses
Call ==
  ((Tool \ {"action"}) \X {Own}) \cup ({"observe"} \X ({RouteArgs[r] : r \in Route} \cup {ProbeArgs}))
    \cup ({"action"} \X (0 .. MaxRecoveries))
RouteCall(r) == <<"observe", RouteArgs[r]>>
RouteCalls(R) == {RouteCall(r) : r \in R \cap Route}
Probe == <<"observe", ProbeArgs>>
ChainedVerify == <<"verify", Own>>

\* app_refocus_reacquire and full_replan, which the controller only proposes.
Proposed == {"refocus", "full_replan"}
Unresolved == {"RETRY", "RECOVER"}      \* ESCALATE_VISION leads where RETRY does

ASSUME WorkflowAssumption ==
  /\ Offered \subseteq Tool
  /\ Route \cap (Proposed \cup {"none"}) = {}
  /\ Budget \in Nat \ {0} /\ MaxCalls \in Nat \ {0} /\ MaxRecoveries \in Nat
  /\ Master \in BOOLEAN /\ Compound \in BOOLEAN

NewTracker ==
  [count |-> [c \in Call |-> 0],         \* call_counts
   failed |-> [c \in Call |-> FALSE],    \* call_results is False
   needs |-> FALSE,                      \* needs_verification
   checkpoint |-> FALSE,                 \* goal_checkpoint_required
   limited |-> FALSE,                    \* accessibility_limited
   target |-> "none",                    \* last_semantic_target
   failing |-> FALSE,                    \* consecutive_failures > 0
   succeeded |-> FALSE,                  \* successful_calls > 0
   decision |-> "none",                  \* last_outcome_decision
   recoveries |-> 0,                     \* automatic_recovery_steps
   uses |-> [r \in Route |-> 0],         \* of the routes, in recovery_route_history
   replan |-> FALSE,                     \* material_replan_required, with the contract's
   forbidden |-> {}, noEscape |-> FALSE, \* forbidden_tool_signatures; full_replan is exhausted
   plan |-> "none", planId |-> 0,        \* recovery_fresh_plan and its observation
   bound |-> FALSE, chained |-> FALSE,   \* fresh_action_binding_validated, chained_verification_pending
   steps |-> FALSE, barred |-> FALSE,    \* learnable_steps, learning_blocked
   unlearnt |-> FALSE, skill |-> FALSE,  \* learning_recovery_pending, active_skill_id
   finalized |-> FALSE, learned |-> FALSE]

Init ==
  /\ step = 0 /\ phase = "model" /\ calls = 0
  /\ attempted = FALSE /\ toolRetry = FALSE /\ finalRetry = FALSE
  /\ created = FALSE /\ outcome = "none"
  /\ tracker = NewTracker

-----------------------------------------------------------------------------
(***************************************************************************)
(* TaskTracker.                                                            *)
(***************************************************************************)

\* before_call refuses: the route is exhausted, or the action is not bound to
\* the fresh plan, or the unchanged call has failed.
StaleUnlessPlanned(t, c) == c[1] = "action" /\ t.plan = "ready" /\ c[2] # t.planId   \* a slip
Stale(t, c) == c[1] = "action" /\ t.plan # "none" /\ ~ (t.plan = "ready" /\ c[2] = t.planId)
Repeated(t, c) == t.failed[c] /\ t.count[c] >= MaxRepeat
Refused(t, c) == (t.replan /\ c \in t.forbidden) \/ Stale(t, c) \/ Repeated(t, c)

\* before_call binds an action to the fresh plan, and admits the call.
Bound(t, c) == [t EXCEPT !.bound = @ \/ (c[1] = "action" /\ t.plan # "none" /\ ~ Stale(t, c))]
Admitted(t, c) == [Bound(t, c) EXCEPT !.count[c] = @ + 1]

\* record, of a call that failed or was blocked.
Failed(t, c) ==
  [t EXCEPT !.failed[c] = TRUE, !.failing = TRUE,
            !.unlearnt = @ \/ (t.skill /\ c[1] = "semantic")]

\* What a successful call may return.
Results(tool) ==
  CASE tool \in {"observe_ui", "observe"} -> {"controls", "no_controls"}
    [] tool = "verify" -> Unresolved \cup {"ACCEPT", "PASS", "UNPROVED"}
    [] tool = "semantic" -> {"unverified", "at_target", "elsewhere", "at_target_blind", "elsewhere_blind"}
    [] tool \in {"open_app", "app_control", "other_change"} -> {"unverified", "verified"}
    [] tool = "skill" -> {"none", "match", "stale"}
    [] OTHER -> {"done"}

NeedsAfter(t, tool, res) ==
  CASE tool \in {"observe_ui", "observe", "read"} -> FALSE
    [] tool \in {"action", "interact"} -> TRUE
    [] tool = "verify" -> res \notin {"ACCEPT", "PASS"}
    [] tool \in {"semantic", "open_app", "app_control", "other_change"} -> res = "unverified"
    [] OTHER -> t.needs

LimitedAfter(t, tool, res) ==
  CASE tool \in {"observe_ui", "observe"} -> res = "no_controls"
    [] tool = "semantic" /\ res # "unverified" -> res \in {"at_target_blind", "elsewhere_blind"}
    [] OTHER -> t.limited

CheckpointAfter(t, tool, res) ==
  CASE tool = "observe_ui" -> Compound /\ res = "controls" /\ t.target = "elsewhere"
    [] tool = "semantic" /\ res # "unverified" -> Compound /\ ~ LimitedAfter(t, tool, res)
    [] OTHER -> t.checkpoint

\* record, of a call that succeeded.
Succeeded(t, c, res) ==
  LET tool == c[1]
      verifiedStep == tool = "semantic" /\ res # "unverified"
      clears == tool \in ReplanTools /\ c \notin t.forbidden
  IN [t EXCEPT
       !.failed[c] = FALSE, !.failing = FALSE, !.succeeded = TRUE,
       !.replan = @ /\ ~ clears,
       !.forbidden = IF clears THEN {} ELSE @,
       !.noEscape = @ /\ ~ clears,
       !.needs = NeedsAfter(t, tool, res),
       !.limited = LimitedAfter(t, tool, res),
       !.checkpoint = CheckpointAfter(t, tool, res),
       !.target = IF ~ verifiedStep THEN @
                  ELSE IF res \in {"at_target", "at_target_blind"} THEN "terminal" ELSE "elsewhere",
       !.decision = IF tool # "verify" THEN @ ELSE IF res \in Unresolved THEN res ELSE "none",
       !.plan = IF tool = "action" THEN "none" ELSE @,
       !.planId = IF tool = "action" THEN 0 ELSE @,
       !.chained = IF tool = "action" THEN t.bound ELSE (@ /\ tool # "verify"),
       !.bound = @ /\ tool # "action",
       !.steps = @ \/ verifiedStep,
       !.barred = @ \/ tool \in RawTools,
       !.skill = @ \/ res = "match",
       !.unlearnt = (@ \/ res = "stale") /\ ~ verifiedStep]

\* require_material_replan: the contract forbids the calls of the routes used
\* up and of the blocked one; an exhausted route is one whose call is forbidden.
RequireReplan(t, d) ==
  [t EXCEPT !.replan = TRUE,
            !.forbidden = RouteCalls({r \in Route : t.uses[r] >= MaxRouteUses} \cup {d}),
            !.noEscape = d = "full_replan"]

\* record_automatic_recovery: the observation failed, or grounds a plan that
\* is ready for an action, or one that is not.
Recovered(t, r, p) ==
  [t EXCEPT !.recoveries = @ + 1, !.uses[r] = @ + 1,
            !.plan = p, !.planId = IF p = "none" THEN 0 ELSE t.recoveries + 1,
            !.bound = FALSE, !.chained = FALSE]

\* finalization_nudge says something.
NudgesOnce(t) ==                                                                      \* a slip
  t.needs \/ (~ t.limited /\ (t.checkpoint \/ (t.failing /\ ~ t.succeeded)))
Nudges(t) ==
  \/ t.decision = "RECOVER" \/ t.needs
  \/ ~ t.limited /\ (t.checkpoint \/ (t.failing /\ ~ t.succeeded))

\* _finalize_learning, once, unless nothing can be seen.
LearnableAnyhow(t) == t.steps /\ ~ t.needs /\ ~ t.limited /\ ~ t.failing                \* a slip
Learnable(t) ==
  t.steps /\ ~ t.needs /\ ~ t.barred /\ ~ t.unlearnt /\ ~ t.checkpoint /\ ~ t.limited /\ ~ t.failing
Finalized(t) ==
  IF t.finalized \/ t.limited THEN t
  ELSE [t EXCEPT !.finalized = TRUE, !.learned = Learnable(t)]

-----------------------------------------------------------------------------
(***************************************************************************)
(* Recovery: what the verdict of a verification leads to.                  *)
(***************************************************************************)

\* The directives build_recovery_directive may select: a candidate of
\* rank_recovery_routes that is not excluded or, when full_replan and all others
\* are, the preferred one after all.
Directives(t) ==
  {d \in Route \cup Proposed :
     t.noEscape \/ (d \in Route => RouteCall(d) \notin t.forbidden)}

\* automatic_recovery_guard
MayRecoverByBudget(t, r) == t.recoveries < MaxRecoveries                              \* a slip
MayRecover(t, r) == t.recoveries < MaxRecoveries /\ t.uses[r] < MaxRouteUses

\* The observation failed, or build_fresh_action_plan made a plan of it, ready
\* for an action or not.
Plans == {"none", "unready", "ready"}

\* What a directive leads to: a proposal, a recovery, or a replan.
Follow(t, d) ==
  CASE d = "refocus" -> {t}
    [] d = "full_replan" -> {RequireReplan(t, d)}
    [] d \in Route /\ MayRecover(t, d) -> {Recovered(t, d, p) : p \in Plans}
    [] d \in Route /\ ~ MayRecover(t, d) -> {RequireReplan(t, d)}

FollowVerdict(t) == UNION {Follow(t, d) : d \in Directives(t)}

-----------------------------------------------------------------------------
(***************************************************************************)
(* The loop.                                                               *)
(***************************************************************************)

SameFlags == UNCHANGED <<attempted, toolRetry, finalRetry, created>>

\* The step that began ends without a final answer.
More == step + 1 < Budget
NextStep ==
  /\ step' = step + 1 /\ UNCHANGED calls
  /\ phase' = IF More THEN "model" ELSE "done"
  /\ outcome' = IF More THEN "none" ELSE "limit"

Finish(o) == phase' = "done" /\ outcome' = o /\ UNCHANGED <<step, calls>>

\* The watchdog of Emergency Master execution fires.
Watchdog ==
  /\ phase = "model" /\ Master
  /\ Finish("watchdog") /\ SameFlags /\ UNCHANGED tracker

\* The model narrates its deliberation and is told not to.
Scratchpad ==
  /\ phase = "model" /\ More
  /\ NextStep /\ SameFlags /\ UNCHANGED tracker

\* A text before any tool was tried: once the model is told to use one.
TextWithoutAction ==
  /\ phase = "model" /\ ~ attempted
  /\ IF toolRetry THEN Finish("not_executed") ELSE NextStep
  /\ toolRetry' = TRUE
  /\ UNCHANGED <<attempted, finalRetry, created>> /\ UNCHANGED tracker

\* A text after tools were tried: the tracker nudges, or it learns; an empty
\* one is asked for again, once; and then it ends the turn.
Text(empty) ==
  /\ phase = "model" /\ attempted
  /\ tracker' = IF Nudges(tracker) THEN tracker ELSE Finalized(tracker)
  /\ finalRetry' = (finalRetry \/ (empty /\ More /\ ~ Nudges(tracker)))
  /\ IF More /\ (Nudges(tracker) \/ (empty /\ ~ finalRetry)) THEN NextStep
     ELSE Finish(IF empty THEN "evidence" ELSE "claimed")
  /\ UNCHANGED <<attempted, toolRetry, created>>

\* The model calls tools.
CallTools ==
  /\ phase = "model" /\ calls < MaxCalls
  /\ phase' = "call" /\ calls' = calls + 1
  /\ UNCHANGED <<step, outcome>> /\ SameFlags /\ UNCHANGED tracker

\* A call is done with: the reply holds another one, or the step ends.
EndCall ==
  \/ calls < MaxCalls /\ calls' = calls + 1 /\ phase' = "call" /\ UNCHANGED <<step, outcome>>
  \/ IF created' THEN Finish("created") ELSE NextStep

\* before_call refuses, or the app is not one the user named.
CallBlockedUncounted(c) ==                                                            \* a slip
  /\ phase = "call" /\ Refused(tracker, c) /\ tracker' = Failed(Bound(tracker, c), c)
  /\ phase' = "model" /\ calls' = calls - 1
  /\ UNCHANGED <<step, outcome>> /\ SameFlags
CallBlocked(c) ==
  /\ phase = "call"
  /\ \/ Refused(tracker, c) /\ tracker' = Failed(Bound(tracker, c), c)
     \/ c[1] \in AppTools /\ ~ Refused(tracker, c) /\ tracker' = Failed(Admitted(tracker, c), c)
  /\ SameFlags /\ EndCall

CallFails(c) ==
  /\ phase = "call" /\ ~ Refused(tracker, c)
  /\ tracker' = Failed(Admitted(tracker, c), c)
  /\ attempted' = TRUE /\ UNCHANGED <<toolRetry, finalRetry, created>>
  /\ EndCall

\* What the controller does next by itself.
FollowUp(t, c) ==
  CASE c[1] = "observe_ui" /\ t.limited /\ "observe" \in Offered -> "probe"
    [] c[1] = "action" /\ t.chained -> "chained"
    [] c[1] = "verify" -> "verified"
    [] OTHER -> "none"

CallSucceeds(c, res) ==
  /\ phase = "call" /\ ~ Refused(tracker, c)
  /\ tracker' = Succeeded(Admitted(tracker, c), c, res)
  /\ attempted' = TRUE
  /\ created' = (created \/ c[1] = "quick_code")
  /\ IF FollowUp(tracker', c) = "none" THEN EndCall
     ELSE phase' = FollowUp(tracker', c) /\ UNCHANGED <<step, calls, outcome>>
  /\ UNCHANGED <<toolRetry, finalRetry>>

\* The read-only grounding probe: before_call is not asked, so it is not counted,
\* and it may be the call of a route.
GroundingProbe ==
  /\ phase = "probe"
  /\ \/ tracker' = Failed(tracker, Probe)
     \/ \E res \in Results("observe") : tracker' = Succeeded(tracker, Probe, res)
  /\ SameFlags /\ EndCall

\* The verification chained to an action bound to a fresh plan, and the
\* transition plan_verification_replanning makes of its verdict.
ChainedVerification ==
  /\ phase = "chained"
  /\ \/ tracker' = RequireReplan(Failed(tracker, ChainedVerify), "none")
     \/ \E res \in Results("verify") :
          LET t == Succeeded(tracker, ChainedVerify, res)
          IN tracker' \in CASE res \in Unresolved -> FollowVerdict(t)
                            [] res = "ACCEPT" -> {t}
                            [] OTHER -> {RequireReplan(t, "none")}
  /\ SameFlags /\ EndCall

\* What follows a verification the model asked for.
VerificationFollowUp ==
  /\ phase = "verified"
  /\ tracker' \in IF tracker.decision \in Unresolved THEN FollowVerdict(tracker) ELSE {tracker}
  /\ SameFlags /\ EndCall

-----------------------------------------------------------------------------
\* The calls the model may propose, with the observations there are.
Proposals ==
  {c \in Call : c[1] \in Offered /\ (c[1] = "action" => c[2] <= tracker.recoveries)}

Next ==
  \/ Watchdog \/ Scratchpad \/ TextWithoutAction \/ CallTools
  \/ \E empty \in BOOLEAN : Text(empty)
  \/ \E c \in Proposals : CallBlocked(c) \/ CallFails(c)
  \/ \E c \in Proposals : \E res \in Results(c[1]) : CallSucceeds(c, res)
  \/ GroundingProbe \/ ChainedVerification \/ VerificationFollowUp

Spec == Init /\ [][Next]_vars

-----------------------------------------------------------------------------
\* The values the variables may have.
TrackerType ==
  [count : [Call -> Nat], failed : [Call -> BOOLEAN], needs : BOOLEAN,
   checkpoint : BOOLEAN, limited : BOOLEAN, target : {"none", "terminal", "elsewhere"},
   failing : BOOLEAN, succeeded : BOOLEAN, decision : {"none"} \cup Unresolved,
   recoveries : Nat, uses : [Route -> Nat],
   replan : BOOLEAN, forbidden : SUBSET RouteCalls(Route), noEscape : BOOLEAN,
   plan : Plans, planId : Nat, bound : BOOLEAN, chained : BOOLEAN,
   steps : BOOLEAN, barred : BOOLEAN, unlearnt : BOOLEAN, skill : BOOLEAN,
   finalized : BOOLEAN, learned : BOOLEAN]

TypeOK ==
  /\ step \in 0 .. Budget /\ calls \in 0 .. MaxCalls
  /\ phase \in {"model", "call", "probe", "chained", "verified", "done"}
  /\ attempted \in BOOLEAN /\ toolRetry \in BOOLEAN /\ finalRetry \in BOOLEAN
  /\ created \in BOOLEAN
  /\ outcome \in {"none", "limit", "watchdog", "not_executed", "evidence", "claimed", "created"}
  /\ tracker \in TrackerType

\* While another plan is required, a call the contract forbids is made neither
\* by the model nor by the recovery route it belongs to, when it is the call of
\* one route only, nor by the controller's own probe: the observation that asks
\* for the probe has lifted the contract.
Alone(r) == \A q \in Route \ {r} : RouteCall(q) # RouteCall(r)
ForbiddenNeverRuns ==
  [][\A r \in Route : tracker.replan /\ Alone(r) /\ RouteCall(r) \in tracker.forbidden =>
       /\ tracker'.uses[r] = tracker.uses[r]
       /\ tracker'.count[RouteCall(r)] = tracker.count[RouteCall(r)]
       /\ phase = "probe" => Probe # RouteCall(r)]_vars

\* From a recovery that saw the screen to the next action that reaches it, an
\* action refers to what the newest recovery saw.
FreshBinding ==
  [][\A o \in 0 .. MaxRecoveries :
       tracker.plan # "none" /\ tracker'.count[<<"action", o>>] # tracker.count[<<"action", o>>]
         => o = tracker.recoveries]_vars

\* A skill is learned only from a workflow that reached the computer with
\* verified semantic steps alone.
SkillIsReplayable ==
  [][tracker'.learned /\ ~ tracker.learned =>
       \A c \in Call : c[1] \in RawTools /\ tracker.count[c] > 0 => tracker.failed[c]]_vars

\* A text that ends the turn with steps to spare follows a tool call that
\* succeeded, and no verification that ended in RECOVER.
ClaimHasEvidence ==
  outcome = "claimed" /\ step + 1 < Budget => tracker.succeeded /\ tracker.decision # "RECOVER"

\* What the turn has left to spend, of steps, of calls and of the call it is in.
Stage == CASE phase = "done" -> 0 [] phase = "model" -> 1 [] phase = "call" -> 3 [] OTHER -> 2
Left == 3 * (Budget - step) + 3 * (MaxCalls - calls) + Stage

\* No way round the loop is free: each nudge, retry, refused call, probe and
\* recovery spends a step of the budget or a call of the reply, or brings the
\* call that was made nearer to its end.
StepsArePaid == [][Left' < Left]_vars
=============================================================================
