--------------------------- MODULE WorkflowProofs ---------------------------
(***************************************************************************)
(* Proofs about Workflow: for any tools, routes, budgets and bounds, what  *)
(* the tracker keeps of a turn holds its recoveries, its forbidden calls,  *)
(* its fresh plan, what it learns and what it lets the model claim.        *)
(***************************************************************************)
EXTENDS Workflow, Integers, TLAPS

\* Of one tracker: recoveries are within their budgets, a ready plan is of the
\* newest one, the call of a route is forbidden once the route is used up, and
\* what accessibility cannot see was seen by a call that succeeded.
Sound(t) ==
  /\ t \in TrackerType
  /\ t.recoveries <= MaxRecoveries
  /\ \A r \in Route : t.uses[r] <= MaxRouteUses
  /\ t.plan = "ready" => t.planId = t.recoveries
  /\ \A r \in Route : t.replan /\ Alone(r) /\ RouteCall(r) \in t.forbidden => ~ MayRecover(t, r)
  /\ t.limited => t.succeeded

\* Calls C of raw tools that were made failed, or they bar learning.
RawSettled(t, C) ==
  \A c \in C : c[1] \in RawTools /\ t.count[c] > 0 => t.failed[c] = TRUE \/ t.barred = TRUE

Tried(t) == t.succeeded = TRUE \/ t.failing = TRUE

\* What the probe follows has lifted the contract of a replan.
ProbeIsFree == phase = "probe" => tracker.replan = FALSE

Inv ==
  /\ TypeOK /\ Sound(tracker) /\ RawSettled(tracker, Call)
  /\ attempted => Tried(tracker)
  /\ phase # "done" => step < Budget /\ outcome = "none"
  /\ ClaimHasEvidence /\ ProbeIsFree

\* What n keeps of t when it is neither called nor recovered.
Keeps(t, n) == n.count = t.count /\ n.uses = t.uses /\ n.recoveries = t.recoveries
Same(t, n) == Keeps(t, n) /\ n.succeeded = t.succeeded /\ n.failing = t.failing

-----------------------------------------------------------------------------
(***************************************************************************)
(* The operations of the tracker.                                          *)
(***************************************************************************)
LEMMA RouteCallIsCall == \A r \in Route : RouteCall(r) \in Call
  BY DEF RouteCall, Call

LEMMA OwnCalls == Probe \in Call /\ ChainedVerify \in Call
  BY DEF Probe, ChainedVerify, Call, Tool

LEMMA FailedSound ==
  ASSUME NEW t, NEW c \in Call, Sound(t), RawSettled(t, Call \ {c})
  PROVE  LET n == Failed(t, c)
         IN  /\ Sound(n) /\ RawSettled(n, Call) /\ Tried(n)
             /\ Keeps(t, n) /\ n.learned = t.learned /\ n.failed[c] = TRUE
<1> DEFINE u == (t.unlearnt \/ (t.skill /\ c[1] = "semantic"))
<1> DEFINE f == [t.failed EXCEPT ![c] = TRUE]
<1> DEFINE n == [t EXCEPT !.failed = f, !.failing = TRUE, !.unlearnt = u]
<1>0. t \in TrackerType
  BY DEF Sound
<1>1. Failed(t, c) = n
  BY DEF Failed
<1>2. u \in BOOLEAN /\ f \in [Call -> BOOLEAN]
  BY <1>0 DEF TrackerType
<1> HIDE DEF u
<1>3. /\ n \in TrackerType
      /\ n.count = t.count /\ n.uses = t.uses /\ n.recoveries = t.recoveries
      /\ n.plan = t.plan /\ n.planId = t.planId /\ n.replan = t.replan /\ n.forbidden = t.forbidden
      /\ n.limited = t.limited /\ n.succeeded = t.succeeded /\ n.barred = t.barred
      /\ n.learned = t.learned /\ n.failing = TRUE
      /\ n.failed = f
  <2> HIDE DEF f
  <2> QED BY <1>0, <1>2 DEF TrackerType
<1> HIDE DEF n
<1>4. Sound(n)
  BY <1>3 DEF Sound, MayRecover
<1>5. t.failed \in [Call -> BOOLEAN]
  BY DEF Sound, TrackerType
<1>6. RawSettled(n, Call) /\ n.failed[c] = TRUE
  BY <1>3, <1>5 DEF RawSettled
<1> QED BY <1>1, <1>3, <1>4, <1>6 DEF Tried, Keeps

LEMMA BoundSound ==
  ASSUME NEW t, NEW c \in Call, Sound(t), RawSettled(t, Call)
  PROVE  LET n == Bound(t, c)
         IN  Sound(n) /\ RawSettled(n, Call) /\ Same(t, n) /\ n.learned = t.learned
<1> DEFINE b == (t.bound \/ (c[1] = "action" /\ t.plan # "none" /\ ~ Stale(t, c)))
<1> DEFINE n == [t EXCEPT !.bound = b]
<1>1. Bound(t, c) = n
  BY DEF Bound
<1>2. b \in BOOLEAN
  OBVIOUS
<1> HIDE DEF b
<1>3. /\ n \in TrackerType
      /\ n.count = t.count /\ n.uses = t.uses /\ n.recoveries = t.recoveries
      /\ n.plan = t.plan /\ n.planId = t.planId /\ n.replan = t.replan /\ n.forbidden = t.forbidden
      /\ n.limited = t.limited /\ n.succeeded = t.succeeded /\ n.barred = t.barred
      /\ n.learned = t.learned /\ n.failing = t.failing /\ n.failed = t.failed
  BY <1>2 DEF Sound, TrackerType
<1> HIDE DEF n
<1>4. Sound(n)
  BY <1>3 DEF Sound, MayRecover
<1> QED BY <1>1, <1>3, <1>4 DEF RawSettled, Same, Keeps

LEMMA AdmittedSound ==
  ASSUME NEW t, NEW c \in Call, Sound(t), RawSettled(t, Call)
  PROVE  LET n == Admitted(t, c)
         IN  /\ Sound(n) /\ RawSettled(n, Call \ {c})
             /\ n.uses = t.uses /\ n.recoveries = t.recoveries /\ n.learned = t.learned
             /\ \A d \in Call \ {c} : n.count[d] = t.count[d]
<1> DEFINE b == Bound(t, c)
<1> DEFINE n == [b EXCEPT !.count[c] = @ + 1]
<1>1. Admitted(t, c) = n
  BY DEF Admitted
<1>2. Sound(b) /\ RawSettled(b, Call) /\ Same(t, b) /\ b.learned = t.learned
  BY BoundSound
<1> HIDE DEF b
<1>3. /\ n \in TrackerType
      /\ n.count = [b.count EXCEPT ![c] = @ + 1] /\ n.uses = b.uses /\ n.recoveries = b.recoveries
      /\ n.plan = b.plan /\ n.planId = b.planId /\ n.replan = b.replan /\ n.forbidden = b.forbidden
      /\ n.limited = b.limited /\ n.succeeded = b.succeeded /\ n.barred = b.barred
      /\ n.learned = b.learned /\ n.failed = b.failed
  BY <1>2 DEF Sound, TrackerType
<1>4. b.count \in [Call -> Nat]
  BY <1>2 DEF Sound, TrackerType
<1> HIDE DEF n
<1>5. Sound(n)
  BY <1>2, <1>3 DEF Sound, MayRecover
<1>6. \A d \in Call \ {c} : n.count[d] = b.count[d]
  BY <1>3, <1>4
<1> QED BY <1>1, <1>2, <1>3, <1>5, <1>6 DEF RawSettled, Same, Keeps

LEMMA AfterTypes ==
  ASSUME NEW t \in TrackerType, NEW tool \in Tool, NEW res
  PROVE  /\ NeedsAfter(t, tool, res) \in BOOLEAN
         /\ LimitedAfter(t, tool, res) \in BOOLEAN
         /\ CheckpointAfter(t, tool, res) \in BOOLEAN
<1>1. t.needs \in BOOLEAN /\ t.limited \in BOOLEAN /\ t.checkpoint \in BOOLEAN
  BY DEF TrackerType
<1>2. NeedsAfter(t, tool, res) \in BOOLEAN
  BY <1>1 DEF NeedsAfter
<1>3. LimitedAfter(t, tool, res) \in BOOLEAN
  <2>1. CASE tool \in {"observe_ui", "observe"}
    BY <2>1 DEF LimitedAfter
  <2>2. CASE tool = "semantic" /\ res # "unverified"
    BY <2>2 DEF LimitedAfter
  <2>3. CASE tool \notin {"observe_ui", "observe"} /\ ~ (tool = "semantic" /\ res # "unverified")
    BY <2>3, <1>1 DEF LimitedAfter
  <2> QED BY <2>1, <2>2, <2>3
<1>4. CheckpointAfter(t, tool, res) \in BOOLEAN
  <2>1. CASE tool = "observe_ui"
    BY <2>1 DEF CheckpointAfter
  <2>2. CASE tool = "semantic" /\ res # "unverified"
    BY <2>2 DEF CheckpointAfter
  <2>3. CASE tool # "observe_ui" /\ ~ (tool = "semantic" /\ res # "unverified")
    BY <2>3, <1>1 DEF CheckpointAfter
  <2> QED BY <2>1, <2>2, <2>3
<1> QED BY <1>2, <1>3, <1>4

LEMMA SucceededSound ==
  ASSUME NEW t, NEW c \in Call, NEW res, Sound(t), RawSettled(t, Call \ {c})
  PROVE  LET n == Succeeded(t, c, res)
         IN  /\ Sound(n) /\ RawSettled(n, Call) /\ Tried(n)
             /\ Keeps(t, n) /\ n.learned = t.learned
             /\ c[1] \in ReplanTools /\ c \notin t.forbidden => n.replan = FALSE
<1> DEFINE tool == c[1]
<1> DEFINE step1 == (tool = "semantic" /\ res # "unverified")
<1> DEFINE clears == (tool \in ReplanTools /\ c \notin t.forbidden)
<1> DEFINE f == [t.failed EXCEPT ![c] = FALSE]
<1> DEFINE rp == (t.replan /\ ~ clears)
<1> DEFINE fb == IF clears THEN {} ELSE t.forbidden
<1> DEFINE ne == (t.noEscape /\ ~ clears)
<1> DEFINE nd == NeedsAfter(t, tool, res)
<1> DEFINE lm == LimitedAfter(t, tool, res)
<1> DEFINE cp == CheckpointAfter(t, tool, res)
<1> DEFINE tg == IF ~ step1 THEN t.target
                 ELSE IF res \in {"at_target", "at_target_blind"} THEN "terminal" ELSE "elsewhere"
<1> DEFINE dc == IF tool # "verify" THEN t.decision ELSE IF res \in Unresolved THEN res ELSE "none"
<1> DEFINE pl == IF tool = "action" THEN "none" ELSE t.plan
<1> DEFINE pi == IF tool = "action" THEN 0 ELSE t.planId
<1> DEFINE ch == IF tool = "action" THEN t.bound ELSE (t.chained /\ tool # "verify")
<1> DEFINE bd == (t.bound /\ tool # "action")
<1> DEFINE sp == (t.steps \/ step1)
<1> DEFINE br == (t.barred \/ tool \in RawTools)
<1> DEFINE sk == (t.skill \/ res = "match")
<1> DEFINE ul == ((t.unlearnt \/ res = "stale") /\ ~ step1)
<1> DEFINE n == [t EXCEPT !.failed = f, !.failing = FALSE, !.succeeded = TRUE, !.replan = rp,
                          !.forbidden = fb, !.noEscape = ne, !.needs = nd, !.limited = lm,
                          !.checkpoint = cp, !.target = tg, !.decision = dc, !.plan = pl,
                          !.planId = pi, !.chained = ch, !.bound = bd, !.steps = sp,
                          !.barred = br, !.skill = sk, !.unlearnt = ul]
<1>0. t \in TrackerType /\ tool \in Tool
  BY DEF Sound, Call, Tool
<1>1. Succeeded(t, c, res) = n
  BY DEF Succeeded
<1>2. nd \in BOOLEAN /\ lm \in BOOLEAN /\ cp \in BOOLEAN
  BY <1>0, AfterTypes
<1>3. /\ f \in [Call -> BOOLEAN] /\ fb \in SUBSET RouteCalls(Route)
      /\ tg \in {"none", "terminal", "elsewhere"} /\ dc \in {"none"} \cup Unresolved
      /\ pl \in Plans /\ pi \in Nat
  BY <1>0 DEF TrackerType, Plans
<1>4. /\ rp \in BOOLEAN /\ ne \in BOOLEAN /\ ch \in BOOLEAN /\ bd \in BOOLEAN
      /\ sp \in BOOLEAN /\ br \in BOOLEAN /\ sk \in BOOLEAN /\ ul \in BOOLEAN
  <2>1. t.bound \in BOOLEAN
    BY <1>0 DEF TrackerType
  <2> QED BY <2>1
<1>5. /\ rp => t.replan /\ ~ clears
      /\ ~ clears => fb = t.forbidden
      /\ tool \in ReplanTools /\ c \notin t.forbidden => ~ rp
  OBVIOUS
<1>6. ~ clears => rp = t.replan
  <2>1. t.replan \in BOOLEAN
    BY <1>0 DEF TrackerType
  <2> QED BY <2>1
<1>7. /\ pl = "ready" => t.plan = "ready" /\ pi = t.planId
      /\ \A d \in Call \ {c} : f[d] = t.failed[d]
  BY <1>0 DEF TrackerType
<1>8. tool \in RawTools \/ t.barred = TRUE => br = TRUE
  OBVIOUS
<1> HIDE DEF tool, step1, clears, f, rp, fb, ne, nd, lm, cp, tg, dc, pl, pi, ch, bd, sp, br, sk, ul
<1>9. /\ n \in TrackerType
      /\ n.count = t.count /\ n.uses = t.uses /\ n.recoveries = t.recoveries
      /\ n.plan = pl /\ n.planId = pi /\ n.replan = rp /\ n.forbidden = fb
      /\ n.limited = lm /\ n.succeeded = TRUE /\ n.failing = FALSE /\ n.barred = br
      /\ n.learned = t.learned /\ n.failed = f
  <2>1. n \in TrackerType
    <3> DEFINE n1 == [t EXCEPT !.failed = f, !.failing = FALSE, !.succeeded = TRUE, !.replan = rp]
    <3> DEFINE n2 == [n1 EXCEPT !.forbidden = fb, !.noEscape = ne, !.needs = nd]
    <3> DEFINE n3 == [n2 EXCEPT !.limited = lm, !.checkpoint = cp, !.target = tg]
    <3> DEFINE n4 == [n3 EXCEPT !.decision = dc, !.plan = pl, !.planId = pi]
    <3> DEFINE n5 == [n4 EXCEPT !.chained = ch, !.bound = bd, !.steps = sp]
    <3> DEFINE n6 == [n5 EXCEPT !.barred = br, !.skill = sk, !.unlearnt = ul]
    <3>1. n = n6
      OBVIOUS
    <3>2. n1 \in TrackerType
      BY <1>0, <1>2, <1>3, <1>4 DEF TrackerType
    <3> HIDE DEF n1
    <3>3. n2 \in TrackerType
      BY <3>2, <1>2, <1>3, <1>4 DEF TrackerType
    <3> HIDE DEF n2
    <3>4. n3 \in TrackerType
      BY <3>3, <1>2, <1>3, <1>4 DEF TrackerType
    <3> HIDE DEF n3
    <3>5. n4 \in TrackerType
      BY <3>4, <1>2, <1>3, <1>4 DEF TrackerType
    <3> HIDE DEF n4
    <3>6. n5 \in TrackerType
      BY <3>5, <1>2, <1>3, <1>4 DEF TrackerType
    <3> HIDE DEF n5
    <3>7. n6 \in TrackerType
      BY <3>6, <1>2, <1>3, <1>4 DEF TrackerType
    <3> HIDE DEF n, n6
    <3> QED BY <3>1, <3>7
  <2>2. /\ n.count = t.count /\ n.uses = t.uses /\ n.recoveries = t.recoveries
        /\ n.plan = pl /\ n.planId = pi /\ n.replan = rp /\ n.forbidden = fb
    BY <1>0 DEF TrackerType
  <2>3. /\ n.limited = lm /\ n.succeeded = TRUE /\ n.failing = FALSE /\ n.barred = br
        /\ n.learned = t.learned /\ n.failed = f
    BY <1>0 DEF TrackerType
  <2> QED BY <2>1, <2>2, <2>3
<1> HIDE DEF n
<1>10. Sound(n)
  BY <1>5, <1>6, <1>7, <1>9 DEF Sound, MayRecover
<1>11. RawSettled(n, Call)
  <2> SUFFICES ASSUME NEW d \in Call, d[1] \in RawTools, n.count[d] > 0
               PROVE  n.failed[d] = TRUE \/ n.barred = TRUE
    BY DEF RawSettled
  <2>1. CASE d = c
    BY <2>1, <1>8, <1>9 DEF tool
  <2>2. CASE d # c
    <3>1. t.count[d] > 0
      BY <1>9
    <3>2. t.failed[d] = TRUE \/ t.barred = TRUE
      BY <2>2, <3>1 DEF RawSettled
    <3>3. d \in Call \ {c}
      BY <2>2
    <3>4. n.failed[d] = t.failed[d]
      BY <3>3, <1>7, <1>9, Zenon
    <3> QED BY <3>2, <3>4, <1>8, <1>9
  <2> QED BY <2>1, <2>2
<1>12. tool \in ReplanTools /\ c \notin t.forbidden => n.replan = FALSE
  BY <1>4, <1>5, <1>9
<1> QED BY <1>1, <1>9, <1>10, <1>11, <1>12 DEF Tried, Keeps, tool

-----------------------------------------------------------------------------
(***************************************************************************)
(* Recovery.                                                               *)
(***************************************************************************)
LEMMA DirectiveKinds ==
  /\ "none" \notin Route /\ "refocus" \notin Route /\ "full_replan" \notin Route
  /\ Route \cap Proposed = {}
  BY WorkflowAssumption DEF Proposed

\* What is forbidden is of routes that may not be recovered by again.
LEMMA ReplanSound ==
  ASSUME NEW t, NEW d, Sound(t), RawSettled(t, Call), d \in Route => ~ MayRecover(t, d)
  PROVE  LET n == RequireReplan(t, d)
         IN Sound(n) /\ RawSettled(n, Call) /\ Same(t, n) /\ n.learned = t.learned
<1> DEFINE R == {r \in Route : t.uses[r] >= MaxRouteUses} \cup {d}
<1> DEFINE fb == RouteCalls(R)
<1> DEFINE ne == (d = "full_replan")
<1> DEFINE n == [t EXCEPT !.replan = TRUE, !.forbidden = fb, !.noEscape = ne]
<1>1. RequireReplan(t, d) = n
  BY DEF RequireReplan
<1>2. fb \in SUBSET RouteCalls(Route) /\ ne \in BOOLEAN
  BY DEF RouteCalls
<1>3. \A r \in Route : Alone(r) /\ RouteCall(r) \in fb => ~ MayRecover(t, r)
  <2> SUFFICES ASSUME NEW r \in Route, Alone(r), RouteCall(r) \in fb PROVE ~ MayRecover(t, r)
    OBVIOUS
  <2>1. PICK q \in R \cap Route : RouteCall(r) = RouteCall(q)
    BY DEF RouteCalls
  <2>2. q = r
    BY <2>1 DEF Alone
  <2>3. r \in R
    BY <2>1, <2>2
  <2>4. t.uses[r] \in Nat
    BY DEF Sound, TrackerType
  <2> QED BY <2>3, <2>4 DEF MayRecover, MaxRouteUses
<1>4. t \in TrackerType
  BY DEF Sound
<1> HIDE DEF R, fb, ne
<1>5. /\ n \in TrackerType
      /\ n.count = t.count /\ n.uses = t.uses /\ n.recoveries = t.recoveries
      /\ n.plan = t.plan /\ n.planId = t.planId /\ n.replan = TRUE /\ n.forbidden = fb
      /\ n.limited = t.limited /\ n.succeeded = t.succeeded /\ n.barred = t.barred
      /\ n.learned = t.learned /\ n.failing = t.failing /\ n.failed = t.failed
  BY <1>2, <1>4 DEF TrackerType
<1> HIDE DEF n
<1>6. Sound(n)
  BY <1>3, <1>5 DEF Sound, MayRecover
<1> QED BY <1>1, <1>5, <1>6 DEF RawSettled, Same, Keeps

LEMMA RecoveredSound ==
  ASSUME NEW t, NEW r \in Route, NEW p \in Plans, Sound(t), RawSettled(t, Call), MayRecover(t, r)
  PROVE  LET n == Recovered(t, r, p)
         IN  /\ Sound(n) /\ RawSettled(n, Call)
             /\ n.count = t.count /\ n.succeeded = t.succeeded /\ n.failing = t.failing
             /\ n.learned = t.learned
             /\ \A q \in Route \ {r} : n.uses[q] = t.uses[q]
<1> DEFINE rc == t.recoveries + 1
<1> DEFINE us == [t.uses EXCEPT ![r] = @ + 1]
<1> DEFINE id == IF p = "none" THEN 0 ELSE t.recoveries + 1
<1> DEFINE n == [t EXCEPT !.recoveries = rc, !.uses = us, !.plan = p, !.planId = id,
                          !.bound = FALSE, !.chained = FALSE]
<1>0. t \in TrackerType
  BY DEF Sound
<1>1. t.recoveries \in Nat /\ t.uses \in [Route -> Nat]
  BY <1>0 DEF TrackerType
<1>2. Recovered(t, r, p) = n
  BY DEF Recovered
<1>3. rc \in Nat /\ us \in [Route -> Nat] /\ id \in Nat
  BY <1>1
<1>4. p = "ready" => id = rc
  OBVIOUS
<1>5. rc <= MaxRecoveries /\ rc > t.recoveries
  BY <1>1, WorkflowAssumption DEF MayRecover
<1>6. /\ us[r] = t.uses[r] + 1 /\ us[r] <= MaxRouteUses
      /\ \A q \in Route \ {r} : us[q] = t.uses[q]
  BY <1>1 DEF MayRecover, MaxRouteUses
<1> HIDE DEF rc, us, id
<1>7. /\ n \in TrackerType
      /\ n.count = t.count /\ n.uses = us /\ n.recoveries = rc
      /\ n.plan = p /\ n.planId = id /\ n.replan = t.replan /\ n.forbidden = t.forbidden
      /\ n.limited = t.limited /\ n.succeeded = t.succeeded /\ n.barred = t.barred
      /\ n.learned = t.learned /\ n.failing = t.failing /\ n.failed = t.failed
  BY <1>0, <1>3 DEF TrackerType
<1> HIDE DEF n
<1>8. Sound(n)
  <2>1. \A q \in Route : n.uses[q] <= MaxRouteUses
    BY <1>6, <1>7 DEF Sound
  <2>2. ASSUME NEW q \in Route, MayRecover(n, q) PROVE MayRecover(t, q)
    <3>1. t.uses[q] <= us[q] /\ us[q] \in Nat /\ t.uses[q] \in Nat
      BY <1>1, <1>3, <1>6
    <3> QED BY <3>1, <2>2, <1>1, <1>3, <1>5, <1>7, WorkflowAssumption DEF MayRecover, MaxRouteUses
  <2>3. n.limited => n.succeeded
    BY <1>7 DEF Sound
  <2>4. \A q \in Route : n.replan /\ Alone(q) /\ RouteCall(q) \in n.forbidden => ~ MayRecover(n, q)
    BY <2>2, <1>7 DEF Sound
  <2> QED BY <2>1, <2>3, <2>4, <1>4, <1>5, <1>7 DEF Sound
<1>9. RawSettled(n, Call)
  BY <1>7 DEF RawSettled
<1> QED BY <1>2, <1>6, <1>7, <1>8, <1>9

\* The verdict of a verification: one route at most is recovered by, and it may be.
LEMMA FollowSound ==
  ASSUME NEW t, Sound(t), RawSettled(t, Call), NEW n \in FollowVerdict(t)
  PROVE  /\ Sound(n) /\ RawSettled(n, Call)
         /\ n.count = t.count /\ n.succeeded = t.succeeded /\ n.failing = t.failing
         /\ n.learned = t.learned
         /\ \/ n.uses = t.uses
            \/ \E r \in Route : MayRecover(t, r) /\ \A q \in Route \ {r} : n.uses[q] = t.uses[q]
<1>1. PICK d \in Route \cup Proposed : n \in Follow(t, d)
  BY DEF FollowVerdict, Directives
<1>2. CASE d = "refocus"
  BY <1>1, <1>2, DirectiveKinds DEF Follow
<1>3. CASE d = "full_replan"
  <2>1. n = RequireReplan(t, d)
    BY <1>1, <1>3, DirectiveKinds DEF Follow
  <2>2. d \notin Route
    BY <1>3, DirectiveKinds
  <2> QED BY <2>1, <2>2, ReplanSound DEF Same, Keeps
<1>4. CASE d \in Route /\ MayRecover(t, d)
  <2>1. PICK p \in Plans : n = Recovered(t, d, p)
    BY <1>1, <1>4, DirectiveKinds DEF Follow
  <2> QED BY <2>1, <1>4, RecoveredSound
<1>5. CASE d \in Route /\ ~ MayRecover(t, d)
  <2>1. n = RequireReplan(t, d)
    BY <1>1, <1>5, DirectiveKinds DEF Follow
  <2> QED BY <2>1, <1>5, ReplanSound DEF Same, Keeps
<1> QED BY <1>2, <1>3, <1>4, <1>5 DEF Proposed

LEMMA FinalizedSound ==
  ASSUME NEW t, Sound(t), RawSettled(t, Call)
  PROVE  LET n == Finalized(t)
         IN  /\ Sound(n) /\ RawSettled(n, Call) /\ Same(t, n) /\ n.failed = t.failed
             /\ n.decision = t.decision
             /\ n.learned = t.learned \/ n.learned = Learnable(t)
<1> DEFINE l == Learnable(t)
<1> DEFINE n == [t EXCEPT !.finalized = TRUE, !.learned = l]
<1>0. t \in TrackerType
  BY DEF Sound
<1>1. Finalized(t) = t \/ Finalized(t) = n
  BY DEF Finalized
<1>2. l \in BOOLEAN
  BY DEF Learnable
<1> HIDE DEF l
<1>3. /\ n \in TrackerType
      /\ n.count = t.count /\ n.uses = t.uses /\ n.recoveries = t.recoveries
      /\ n.plan = t.plan /\ n.planId = t.planId /\ n.replan = t.replan /\ n.forbidden = t.forbidden
      /\ n.limited = t.limited /\ n.succeeded = t.succeeded /\ n.barred = t.barred
      /\ n.learned = l /\ n.failing = t.failing /\ n.failed = t.failed /\ n.decision = t.decision
  BY <1>0, <1>2 DEF TrackerType
<1> HIDE DEF n
<1>4. Sound(n)
  BY <1>3 DEF Sound, MayRecover
<1>5. RawSettled(n, Call) /\ Same(t, n)
  BY <1>3 DEF RawSettled, Same, Keeps
<1>6. CASE Finalized(t) = n
  BY <1>6, <1>3, <1>4, <1>5 DEF l
<1>7. CASE Finalized(t) = t
  BY <1>7 DEF Same, Keeps
<1> QED BY <1>1, <1>6, <1>7

-----------------------------------------------------------------------------
(***************************************************************************)
(* The loop, one lemma for each way a step ends.                           *)
(***************************************************************************)
Phases == {"model", "call", "probe", "chained", "verified", "done"}
Says == {"none", "limit", "watchdog", "not_executed", "evidence", "claimed", "created"}

LoopInv ==
  /\ step \in 0 .. Budget /\ calls \in 0 .. MaxCalls /\ phase \in Phases /\ outcome \in Says
  /\ phase # "done" => step < Budget /\ outcome = "none"

Flags == attempted \in BOOLEAN /\ toolRetry \in BOOLEAN /\ finalRetry \in BOOLEAN /\ created \in BOOLEAN

LEMMA NextStepLoop ==
  ASSUME LoopInv, phase # "done", NextStep
  PROVE  LoopInv' /\ outcome' # "claimed" /\ phase' # "probe"
<1>1. step \in Nat /\ Budget \in Nat /\ step < Budget
  BY WorkflowAssumption DEF LoopInv
<1>2. CASE step + 1 < Budget
  BY <1>1, <1>2 DEF LoopInv, NextStep, More, Phases, Says
<1>3. CASE ~ (step + 1 < Budget)
  BY <1>1, <1>3 DEF LoopInv, NextStep, More, Phases, Says
<1> QED BY <1>2, <1>3

LEMMA FinishLoop ==
  ASSUME LoopInv, NEW o \in Says, Finish(o)
  PROVE  LoopInv' /\ outcome' = o /\ phase' # "probe"
  BY DEF LoopInv, Finish, Phases

LEMMA EndCallLoop ==
  ASSUME LoopInv, phase # "done", EndCall
  PROVE  LoopInv' /\ outcome' # "claimed" /\ phase' # "probe"
<1>1. CASE calls < MaxCalls /\ calls' = calls + 1 /\ phase' = "call" /\ UNCHANGED <<step, outcome>>
  BY <1>1, WorkflowAssumption DEF LoopInv, Phases
<1>2. CASE Finish("created")
  BY <1>2, FinishLoop DEF Says
<1>3. CASE NextStep
  BY <1>3, NextStepLoop
<1> QED BY <1>1, <1>2, <1>3 DEF EndCall

-----------------------------------------------------------------------------
(***************************************************************************)
(* What a step of the loop does to the tracker.                            *)
(***************************************************************************)
CountStep == \A c \in Call : tracker'.count[c] # tracker.count[c] => ~ Refused(tracker, c)
UseStep == \A r \in Route : tracker'.uses[r] # tracker.uses[r] => MayRecover(tracker, r)
LearnStep == tracker'.learned = tracker.learned \/ tracker'.learned = Learnable(tracker)
Effect == CountStep /\ UseStep /\ LearnStep

TrackerStep == Sound(tracker') /\ RawSettled(tracker', Call) /\ Effect

\* The step of a call, or of what follows one, never ends the turn in a claim.
LEMMA InvOfParts ==
  ASSUME TrackerStep, LoopInv', Flags', attempted' => Tried(tracker'), outcome' # "claimed",
         phase' # "probe" \/ tracker'.replan = FALSE
  PROVE  Inv' /\ Effect
  BY DEF ProbeIsFree, TrackerStep, Inv, TypeOK, Sound, LoopInv, Flags, ClaimHasEvidence, Phases, Says

LEMMA InvParts == ASSUME Inv PROVE LoopInv /\ Flags /\ Sound(tracker) /\ RawSettled(tracker, Call)
  BY DEF Inv, TypeOK, LoopInv, Flags, Phases, Says

LEMMA SameTracker == ASSUME Inv, UNCHANGED tracker PROVE TrackerStep
  BY DEF Inv, TrackerStep, Effect, CountStep, UseStep, LearnStep

LEMMA InitInv == ASSUME Init PROVE Inv
<1>1. /\ NewTracker \in TrackerType
      /\ NewTracker.recoveries = 0 /\ NewTracker.plan = "none" /\ NewTracker.replan = FALSE
      /\ NewTracker.limited = FALSE
  BY DEF NewTracker, TrackerType, Plans
<1>2. /\ \A r \in Route : NewTracker.uses[r] = 0
      /\ \A c \in Call : NewTracker.count[c] = 0
  BY DEF NewTracker
<1>3. Sound(NewTracker) /\ RawSettled(NewTracker, Call)
  BY <1>1, <1>2, WorkflowAssumption DEF Sound, RawSettled, MaxRouteUses
<1>4. TypeOK
  <2>1. 0 \in 0 .. Budget /\ 0 \in 0 .. MaxCalls
    BY WorkflowAssumption
  <2>2. tracker \in TrackerType
    BY <1>1 DEF Init
  <2> QED BY <2>1, <2>2 DEF Init, TypeOK
<1> QED BY <1>3, <1>4, WorkflowAssumption DEF Init, Inv, ClaimHasEvidence, ProbeIsFree

LEMMA NoCallStep ==
  ASSUME Inv, Watchdog \/ Scratchpad \/ TextWithoutAction \/ CallTools
  PROVE  Inv' /\ Effect
<1> USE InvParts
<1>1. phase = "model" /\ UNCHANGED <<tracker, attempted>>
  BY DEF Watchdog, Scratchpad, TextWithoutAction, CallTools, SameFlags
<1>2. Flags'
  BY DEF Flags, Watchdog, Scratchpad, TextWithoutAction, CallTools, SameFlags
<1>3. LoopInv' /\ outcome' # "claimed" /\ phase' # "probe"
  <2>1. CASE Watchdog
    BY <2>1, FinishLoop DEF Watchdog, Says
  <2>2. CASE Scratchpad
    BY <2>2, <1>1, NextStepLoop DEF Scratchpad
  <2>3. CASE TextWithoutAction
    BY <2>3, <1>1, NextStepLoop, FinishLoop DEF TextWithoutAction, Says
  <2>4. CASE CallTools
    BY <2>4, WorkflowAssumption DEF CallTools, LoopInv, Phases
  <2> QED BY <2>1, <2>2, <2>3, <2>4
<1>4. TrackerStep /\ (attempted' => Tried(tracker'))
  BY <1>1, SameTracker DEF Inv
<1> QED BY <1>2, <1>3, <1>4, InvOfParts

LEMMA TextStep == ASSUME Inv, NEW empty \in BOOLEAN, Text(empty) PROVE Inv' /\ Effect
<1> USE InvParts
<1>1. /\ phase = "model" /\ attempted = TRUE /\ UNCHANGED <<attempted, toolRetry, created>>
      /\ tracker' = IF Nudges(tracker) THEN tracker ELSE Finalized(tracker)
  BY DEF Text, Flags
<1>2. /\ Sound(tracker') /\ RawSettled(tracker', Call) /\ Same(tracker, tracker')
      /\ LearnStep /\ tracker'.decision = tracker.decision
  BY <1>1, FinalizedSound DEF LearnStep, Same, Keeps
<1>3. TrackerStep
  BY <1>2 DEF TrackerStep, Effect, CountStep, UseStep, Same, Keeps
<1>4. Tried(tracker) /\ Tried(tracker')
  BY <1>1, <1>2 DEF Inv, Tried, Same
<1>5. finalRetry' \in BOOLEAN
  BY DEF Text
<1>6. Flags'
  BY <1>1, <1>5 DEF Flags
<1>7. CASE More /\ (Nudges(tracker) \/ (empty /\ ~ finalRetry))
  <2>1. NextStep
    BY <1>7 DEF Text
  <2> QED BY <2>1, <1>1, <1>3, <1>4, <1>6, NextStepLoop, InvOfParts
<1>8. CASE ~ (More /\ (Nudges(tracker) \/ (empty /\ ~ finalRetry)))
  <2>1. Finish(IF empty THEN "evidence" ELSE "claimed")
    BY <1>8 DEF Text
  <2>2. LoopInv' /\ step' = step /\ phase' # "probe"
    BY <2>1, FinishLoop DEF Finish, Says
  <2>3. ClaimHasEvidence'
    <3> SUFFICES ASSUME step + 1 < Budget
                 PROVE  tracker'.succeeded /\ tracker'.decision # "RECOVER"
      BY <2>2 DEF ClaimHasEvidence
    <3>1. ~ Nudges(tracker)
      BY <1>8 DEF More
    <3>2. tracker.succeeded = TRUE
      <4>1. tracker.limited => tracker.succeeded
        BY DEF Sound
      <4>2. tracker.limited \in BOOLEAN /\ tracker.succeeded \in BOOLEAN
        BY DEF Sound, TrackerType
      <4> QED BY <3>1, <4>1, <4>2, <1>4 DEF Nudges, Tried
    <3> QED BY <3>1, <3>2, <1>2 DEF Nudges, Same
  <2> QED BY <2>2, <2>3, <1>3, <1>4, <1>6
        DEF ProbeIsFree, Inv, TypeOK, TrackerStep, Sound, LoopInv, Flags, Phases, Says
<1> QED BY <1>7, <1>8

-----------------------------------------------------------------------------
(***************************************************************************)
(* The calls, and what follows them.                                       *)
(***************************************************************************)
LEMMA WeakerRaw == ASSUME NEW t, NEW c, RawSettled(t, Call) PROVE RawSettled(t, Call \ {c})
  BY DEF RawSettled

LEMMA CallRefused ==
  ASSUME Inv, NEW c \in Call, tracker' = Failed(Bound(tracker, c), c)
  PROVE  TrackerStep /\ Tried(tracker')
<1> USE InvParts
<1> DEFINE b == Bound(tracker, c)
<1>1. Sound(b) /\ RawSettled(b, Call) /\ Same(tracker, b) /\ b.learned = tracker.learned
  BY BoundSound
<1>2. tracker' = Failed(b, c)
  OBVIOUS
<1> HIDE DEF b
<1>3. /\ Sound(tracker') /\ RawSettled(tracker', Call) /\ Tried(tracker')
      /\ Keeps(b, tracker') /\ tracker'.learned = b.learned
  BY <1>1, <1>2, WeakerRaw, FailedSound
<1> QED BY <1>1, <1>3 DEF TrackerStep, Effect, CountStep, UseStep, LearnStep, Same, Keeps

\* A call that is admitted changes what it alone counts.
LEMMA CallMade ==
  ASSUME Inv, NEW c \in Call, ~ Refused(tracker, c), NEW n,
         \/ n = Failed(Admitted(tracker, c), c)
         \/ \E res : n = Succeeded(Admitted(tracker, c), c, res),
         tracker' = n
  PROVE  TrackerStep /\ Tried(tracker')
<1> USE InvParts
<1> DEFINE a == Admitted(tracker, c)
<1>1. /\ Sound(a) /\ RawSettled(a, Call \ {c})
      /\ a.uses = tracker.uses /\ a.learned = tracker.learned
      /\ \A d \in Call \ {c} : a.count[d] = tracker.count[d]
  BY AdmittedSound
<1>2. n = Failed(a, c) \/ \E res : n = Succeeded(a, c, res)
  OBVIOUS
<1> HIDE DEF a
<1>3. /\ Sound(n) /\ RawSettled(n, Call) /\ Tried(n) /\ Keeps(a, n) /\ n.learned = a.learned
  <2>1. CASE n = Failed(a, c)
    BY <2>1, <1>1, FailedSound
  <2>2. ASSUME NEW res, n = Succeeded(a, c, res)
        PROVE  Sound(n) /\ RawSettled(n, Call) /\ Tried(n) /\ Keeps(a, n) /\ n.learned = a.learned
    BY <2>2, <1>1, SucceededSound
  <2> QED BY <2>1, <2>2, <1>2
<1> QED BY <1>1, <1>3 DEF TrackerStep, Effect, CountStep, UseStep, LearnStep, Keeps

\* No route's call is device_observe_ui, so its success lifts any contract.
LEMMA ObserveLifts ==
  ASSUME Inv, NEW c \in Call, NEW res, c[1] = "observe_ui",
         tracker' = Succeeded(Admitted(tracker, c), c, res)
  PROVE  tracker'.replan = FALSE
<1> USE InvParts
<1> DEFINE a == Admitted(tracker, c)
<1>1. Sound(a) /\ RawSettled(a, Call \ {c})
  BY AdmittedSound
<1> HIDE DEF a
<1>2. \A d \in a.forbidden : d[1] = "observe"
  BY <1>1 DEF Sound, TrackerType, RouteCalls, RouteCall
<1>3. c[1] \in ReplanTools /\ c \notin a.forbidden
  BY <1>2 DEF ReplanTools
<1> QED BY <1>1, <1>3, SucceededSound DEF a

\* The controller's own probe and verification are not counted.
LEMMA OwnCallMade ==
  ASSUME Inv, NEW c \in Call, NEW n, n = Failed(tracker, c) \/ \E res : n = Succeeded(tracker, c, res)
  PROVE  /\ Sound(n) /\ RawSettled(n, Call) /\ Tried(n) /\ Keeps(tracker, n)
         /\ n.learned = tracker.learned
<1>1. Sound(tracker) /\ RawSettled(tracker, Call \ {c})
  BY InvParts, WeakerRaw
<1>2. CASE n = Failed(tracker, c)
  BY <1>1, <1>2, FailedSound
<1>3. ASSUME NEW res, n = Succeeded(tracker, c, res)
      PROVE  /\ Sound(n) /\ RawSettled(n, Call) /\ Tried(n) /\ Keeps(tracker, n)
             /\ n.learned = tracker.learned
  BY <1>1, <1>3, SucceededSound
<1> QED BY <1>2, <1>3

\* n is what a recovery or a replan makes of the tracker.
LEMMA RecoveryStep ==
  ASSUME Inv, NEW t, NEW n, tracker' = n, Sound(t), RawSettled(t, Call), Tried(t), Keeps(tracker, t),
         t.learned = tracker.learned,
         n = t \/ n \in FollowVerdict(t) \/ n = RequireReplan(t, "none")
  PROVE  TrackerStep /\ Tried(tracker')
<1>1. CASE n = t
  BY <1>1 DEF TrackerStep, Effect, CountStep, UseStep, LearnStep, Keeps
<1>2. CASE n \in FollowVerdict(t)
  <2>1. /\ Sound(n) /\ RawSettled(n, Call)
        /\ n.count = t.count /\ n.succeeded = t.succeeded /\ n.failing = t.failing
        /\ n.learned = t.learned
        /\ \/ n.uses = t.uses
           \/ \E r \in Route : MayRecover(t, r) /\ \A q \in Route \ {r} : n.uses[q] = t.uses[q]
    BY <1>2, FollowSound
  <2>2. \A r \in Route : MayRecover(t, r) => MayRecover(tracker, r)
    BY DEF MayRecover, Keeps
  <2> QED BY <2>1, <2>2 DEF TrackerStep, Effect, CountStep, UseStep, LearnStep, Keeps, Tried
<1>3. CASE n = RequireReplan(t, "none")
  <2>1. Sound(n) /\ RawSettled(n, Call) /\ Same(t, n) /\ n.learned = t.learned
    BY <1>3, DirectiveKinds, ReplanSound
  <2> QED BY <2>1 DEF TrackerStep, Effect, CountStep, UseStep, LearnStep, Same, Keeps, Tried
<1> QED BY <1>1, <1>2, <1>3

\* The same of a verification that was recorded in an earlier step.
LEMMA FollowTracker ==
  ASSUME Inv, tracker' \in FollowVerdict(tracker)
  PROVE  TrackerStep /\ tracker'.succeeded = tracker.succeeded /\ tracker'.failing = tracker.failing
  BY InvParts, FollowSound DEF TrackerStep, Effect, CountStep, UseStep, LearnStep

-----------------------------------------------------------------------------
LEMMA BlockedStep == ASSUME Inv, NEW c \in Call, CallBlocked(c) PROVE Inv' /\ Effect
<1> USE InvParts
<1>1. phase = "call" /\ SameFlags /\ EndCall
  BY DEF CallBlocked
<1>2. TrackerStep /\ Tried(tracker')
  BY CallRefused, CallMade DEF CallBlocked
<1> QED BY <1>1, <1>2, EndCallLoop, InvOfParts DEF SameFlags, Flags

LEMMA FailsStep == ASSUME Inv, NEW c \in Call, CallFails(c) PROVE Inv' /\ Effect
<1> USE InvParts
<1>1. phase = "call" /\ EndCall /\ attempted' = TRUE /\ UNCHANGED <<toolRetry, finalRetry, created>>
  BY DEF CallFails
<1>2. TrackerStep /\ Tried(tracker')
  BY CallMade DEF CallFails
<1> QED BY <1>1, <1>2, EndCallLoop, InvOfParts DEF Flags

LEMMA SucceedsStep == ASSUME Inv, NEW c \in Call, NEW res, CallSucceeds(c, res) PROVE Inv' /\ Effect
<1> USE InvParts
<1> DEFINE f == FollowUp(tracker', c)
<1>1. /\ phase = "call" /\ attempted' = TRUE /\ UNCHANGED <<toolRetry, finalRetry>>
      /\ created' = (created \/ c[1] = "quick_code")
      /\ IF f = "none" THEN EndCall ELSE phase' = f /\ UNCHANGED <<step, calls, outcome>>
  BY DEF CallSucceeds
<1>2. f \in Phases \cup {"none"}
  BY DEF FollowUp, Phases
<1> HIDE DEF f
<1>3. TrackerStep /\ Tried(tracker')
  BY CallMade DEF CallSucceeds
<1>4. Flags'
  BY <1>1 DEF Flags
<1>5. f = "probe" => tracker'.replan = FALSE
  BY ObserveLifts DEF f, FollowUp, CallSucceeds
<1>6. LoopInv' /\ outcome' # "claimed" /\ (phase' # "probe" \/ tracker'.replan = FALSE)
  <2>1. CASE f = "none"
    BY <2>1, <1>1, EndCallLoop
  <2>2. CASE f # "none"
    BY <2>2, <1>1, <1>2, <1>5 DEF LoopInv
  <2> QED BY <2>1, <2>2
<1> QED BY <1>3, <1>4, <1>6, InvOfParts

LEMMA FollowUpStep ==
  ASSUME Inv, GroundingProbe \/ ChainedVerification \/ VerificationFollowUp
  PROVE  Inv' /\ Effect
<1> USE InvParts
<1>1. phase \notin {"done"} /\ SameFlags /\ EndCall
  BY DEF GroundingProbe, ChainedVerification, VerificationFollowUp
<1>2. TrackerStep /\ (attempted' => Tried(tracker'))
  <2>1. CASE GroundingProbe
    BY <2>1, OwnCalls, OwnCallMade, RecoveryStep DEF GroundingProbe
  <2>2. CASE ChainedVerification
    <3>1. CASE tracker' = RequireReplan(Failed(tracker, ChainedVerify), "none")
      BY <3>1, OwnCalls, OwnCallMade, RecoveryStep
    <3>2. CASE \E res \in Results("verify") :
                 LET t == Succeeded(tracker, ChainedVerify, res)
                 IN tracker' \in CASE res \in Unresolved -> FollowVerdict(t)
                                   [] res = "ACCEPT" -> {t}
                                   [] OTHER -> {RequireReplan(t, "none")}
      <4> PICK res \in Results("verify") :
                 LET t == Succeeded(tracker, ChainedVerify, res)
                 IN tracker' \in CASE res \in Unresolved -> FollowVerdict(t)
                                   [] res = "ACCEPT" -> {t}
                                   [] OTHER -> {RequireReplan(t, "none")}
        BY <3>2
      <4> DEFINE t == Succeeded(tracker, ChainedVerify, res)
      <4>1. \/ tracker' \in FollowVerdict(t)
            \/ tracker' = t
            \/ tracker' = RequireReplan(t, "none")
        BY DEF Unresolved
      <4>2. /\ Sound(t) /\ RawSettled(t, Call) /\ Tried(t) /\ Keeps(tracker, t)
            /\ t.learned = tracker.learned
        BY OwnCalls, OwnCallMade
      <4> HIDE DEF t
      <4> QED BY <4>1, <4>2, RecoveryStep
    <3> QED BY <2>2, <3>1, <3>2 DEF ChainedVerification
  <2>3. CASE VerificationFollowUp
    <3>1. tracker' \in FollowVerdict(tracker) \/ tracker' = tracker
      BY <2>3 DEF VerificationFollowUp
    <3>2. attempted' = attempted
      BY <1>1 DEF SameFlags
    <3>3. CASE tracker' = tracker
      BY <3>2, <3>3, SameTracker DEF Inv
    <3>4. CASE tracker' \in FollowVerdict(tracker)
      BY <3>2, <3>4, FollowTracker DEF Inv, Tried
    <3> QED BY <3>1, <3>3, <3>4
  <2> QED BY <2>1, <2>2, <2>3
<1> QED BY <1>1, <1>2, EndCallLoop, InvOfParts DEF SameFlags, Flags

LEMMA NextStepInv == ASSUME Inv, [Next]_vars PROVE Inv' /\ Effect
<1>1. CASE UNCHANGED vars
  BY <1>1 DEF vars, loopVars, Inv, ProbeIsFree, TypeOK, ClaimHasEvidence, Effect, CountStep, UseStep, LearnStep
<1>2. \A c \in Proposals : c \in Call
  BY DEF Proposals
<1> QED
  BY <1>1, <1>2, NoCallStep, TextStep, BlockedStep, FailsStep, SucceedsStep, FollowUpStep DEF Next

-----------------------------------------------------------------------------
\* What Inv says holds of every turn, and every step has its effect alone.
THEOREM Invariance == Spec => []Inv
<1>1. Init => Inv
  BY InitInv
<1>2. Inv /\ [Next]_vars => Inv'
  BY NextStepInv
<1> QED BY <1>1, <1>2, PTL DEF Spec

\* The variables stay in their types.
THEOREM TypeCorrect == Spec => []TypeOK
<1>1. Inv => TypeOK
  BY DEF Inv
<1> QED BY <1>1, Invariance, PTL

\* A text that ends the turn early has a successful call behind it.
THEOREM ClaimsHaveEvidence == Spec => []ClaimHasEvidence
<1>1. Inv => ClaimHasEvidence
  BY DEF Inv
<1> QED BY <1>1, Invariance, PTL

\* A call the contract forbids is made by nobody while the contract stands.
THEOREM ForbiddenIsRefused == Spec => ForbiddenNeverRuns
<1>1. ASSUME Inv, [Next]_vars, NEW r \in Route, tracker.replan, Alone(r), RouteCall(r) \in tracker.forbidden
      PROVE  /\ tracker'.uses[r] = tracker.uses[r]
             /\ tracker'.count[RouteCall(r)] = tracker.count[RouteCall(r)]
             /\ phase = "probe" => Probe # RouteCall(r)
  <2>1. Effect
    BY <1>1, NextStepInv
  <2>2. ~ MayRecover(tracker, r) /\ Refused(tracker, RouteCall(r))
    BY <1>1 DEF Inv, Sound, Refused
  <2>3. phase # "probe"
    BY <1>1 DEF Inv, ProbeIsFree
  <2> QED BY <2>1, <2>2, <2>3, RouteCallIsCall DEF Effect, UseStep, CountStep
<1>2. Inv /\ [Next]_vars =>
        [\A r \in Route : tracker.replan /\ Alone(r) /\ RouteCall(r) \in tracker.forbidden =>
           /\ tracker'.uses[r] = tracker.uses[r]
           /\ tracker'.count[RouteCall(r)] = tracker.count[RouteCall(r)]
           /\ phase = "probe" => Probe # RouteCall(r)]_vars
  BY <1>1
<1> QED BY <1>2, Invariance, PTL DEF Spec, ForbiddenNeverRuns

\* An action that reaches the computer refers to what the newest recovery saw.
THEOREM BindingIsFresh == Spec => FreshBinding
<1>1. ASSUME Inv, [Next]_vars, NEW o \in 0 .. MaxRecoveries, tracker.plan # "none",
             tracker'.count[<<"action", o>>] # tracker.count[<<"action", o>>]
      PROVE  o = tracker.recoveries
  <2> DEFINE c == <<"action", o>>
  <2>1. c \in Call /\ c[1] = "action" /\ c[2] = o
    BY DEF Call
  <2>2. ~ Refused(tracker, c)
    BY <1>1, <2>1, NextStepInv DEF Effect, CountStep
  <2> HIDE DEF c
  <2> QED BY <1>1, <2>1, <2>2 DEF Refused, Stale, Inv, Sound
<1>2. Inv /\ [Next]_vars =>
        [\A o \in 0 .. MaxRecoveries :
           tracker.plan # "none" /\ tracker'.count[<<"action", o>>] # tracker.count[<<"action", o>>]
             => o = tracker.recoveries]_vars
  BY <1>1
<1> QED BY <1>2, Invariance, PTL DEF Spec, FreshBinding

\* Nothing is learned from a workflow in which a raw call succeeded.
THEOREM LearnedIsReplayable == Spec => SkillIsReplayable
<1>1. ASSUME Inv, [Next]_vars, tracker'.learned, ~ tracker.learned,
             NEW c \in Call, c[1] \in RawTools, tracker.count[c] > 0
      PROVE  tracker.failed[c]
  <2>1. Learnable(tracker)
    BY <1>1, NextStepInv DEF Effect, LearnStep
  <2> QED BY <1>1, <2>1 DEF Learnable, Inv, RawSettled
<1>2. Inv /\ [Next]_vars =>
        [tracker'.learned /\ ~ tracker.learned =>
           \A c \in Call : c[1] \in RawTools /\ tracker.count[c] > 0 => tracker.failed[c]]_vars
  BY <1>1
<1> QED BY <1>2, Invariance, PTL DEF Spec, SkillIsReplayable

-----------------------------------------------------------------------------
(***************************************************************************)
(* The variant of the loop: how often a turn may go round it is bounded.   *)
(***************************************************************************)
LEMMA LeftIsCounted == ASSUME LoopInv PROVE Left \in Nat /\ Stage \in 0 .. 3
  BY WorkflowAssumption DEF LoopInv, Left, Stage

LEMMA NextStepPays == ASSUME LoopInv, phase # "done", NextStep PROVE Left' < Left
<1>1. /\ step \in Nat /\ step' = step + 1 /\ calls \in Nat /\ calls' = calls
      /\ Budget \in Nat /\ MaxCalls \in Nat
  BY WorkflowAssumption DEF LoopInv, NextStep
<1>2. Stage \in {1, 2, 3} /\ Stage' \in {0, 1}
  BY DEF NextStep, Stage
<1>3. Budget - step' = (Budget - step) - 1 /\ Budget - step \in Int /\ MaxCalls - calls \in Int
  BY <1>1
<1>4. \A a, b \in Int, m \in {1, 2, 3}, n \in {0, 1} : 3 * (a - 1) + 3 * b + n < 3 * a + 3 * b + m
  OBVIOUS
<1> QED BY <1>1, <1>2, <1>3, <1>4 DEF Left

LEMMA FinishPays == ASSUME LoopInv, phase # "done", NEW o, Finish(o) PROVE Left' < Left
<1>1. /\ step \in Nat /\ step' = step /\ calls \in Nat /\ calls' = calls
      /\ Budget \in Nat /\ MaxCalls \in Nat
  BY WorkflowAssumption DEF LoopInv, Finish
<1>2. Stage \in 1 .. 3 /\ Stage' = 0
  BY DEF Finish, Stage
<1> QED BY <1>1, <1>2 DEF Left

\* The next call of a reply, of a step that waits for the model or ends a call.
LEMMA CallPays ==
  ASSUME LoopInv, phase # "done", calls < MaxCalls, calls' = calls + 1, phase' = "call", step' = step
  PROVE  Left' < Left
<1>1. step \in Nat /\ calls \in Nat /\ Budget \in Nat /\ MaxCalls \in Nat
  BY WorkflowAssumption DEF LoopInv
<1>2. Stage \in 1 .. 3 /\ Stage' = 3
  BY DEF Stage
<1> QED BY <1>1, <1>2 DEF Left

LEMMA EndCallPays == ASSUME LoopInv, phase # "done", EndCall PROVE Left' < Left
  BY NextStepPays, FinishPays, CallPays DEF EndCall

\* Every step of the loop lowers a number: no turn takes more than
\* 3 * (Budget + MaxCalls) + 1 steps, whatever is nudged, refused, probed,
\* recovered and planned again (Agent.handle).
THEOREM LoopIsPaid == Spec => StepsArePaid
<1>1. ASSUME Inv, Next PROVE Left' < Left
  <2> USE <1>1, InvParts
  <2>1. CASE Watchdog
    BY <2>1, FinishPays DEF Watchdog
  <2>2. CASE Scratchpad
    BY <2>2, NextStepPays DEF Scratchpad
  <2>3. CASE TextWithoutAction
    BY <2>3, NextStepPays, FinishPays DEF TextWithoutAction
  <2>4. CASE CallTools
    BY <2>4, CallPays DEF CallTools
  <2>5. ASSUME NEW empty \in BOOLEAN, Text(empty) PROVE Left' < Left
    BY <2>5, NextStepPays, FinishPays DEF Text
  <2>6. ASSUME NEW c \in Proposals, CallBlocked(c) \/ CallFails(c) PROVE Left' < Left
    BY <2>6, EndCallPays DEF CallBlocked, CallFails
  <2>7. ASSUME NEW c \in Proposals, NEW res, CallSucceeds(c, res) PROVE Left' < Left
    <3>1. CASE FollowUp(tracker', c) = "none"
      BY <2>7, <3>1, EndCallPays DEF CallSucceeds
    <3>2. CASE FollowUp(tracker', c) # "none"
      <4>1. /\ phase = "call" /\ phase' \in {"probe", "chained", "verified"}
            /\ step' = step /\ calls' = calls
        BY <2>7, <3>2 DEF CallSucceeds, FollowUp
      <4>2. Stage = 3 /\ Stage' = 2
        BY <4>1 DEF Stage
      <4>3. step \in Nat /\ calls \in Nat /\ Budget \in Nat /\ MaxCalls \in Nat
        BY WorkflowAssumption DEF LoopInv
      <4> QED BY <4>1, <4>2, <4>3 DEF Left
    <3> QED BY <3>1, <3>2
  <2>8. CASE GroundingProbe \/ ChainedVerification \/ VerificationFollowUp
    BY <2>8, EndCallPays DEF GroundingProbe, ChainedVerification, VerificationFollowUp
  <2> QED BY <1>1, <2>1, <2>2, <2>3, <2>4, <2>5, <2>6, <2>7, <2>8 DEF Next
<1>2. Inv /\ [Next]_vars => [Left' < Left]_vars
  BY <1>1
<1> QED BY <1>2, Invariance, PTL DEF Spec, StepsArePaid

\* What is left is a natural number, so a turn cannot go on for ever.
THEOREM LeftIsNatural == Spec => [](Left \in Nat)
<1>1. Inv => Left \in Nat
  BY InvParts, LeftIsCounted
<1> QED BY <1>1, Invariance, PTL
=============================================================================
