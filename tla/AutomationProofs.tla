-------------------------- MODULE AutomationProofs --------------------------
(***************************************************************************)
(* Proofs about Automation: for any automations, leases, callers and       *)
(* deliveries, an event is published at most once.                         *)
(***************************************************************************)
EXTENDS Automation, TLAPS

\* A delivery that got as far as to store its receipt is the only one of its
\* event that did, and the receipt stays.
Accepted(d) == delivery[d] \in {"stored", "published"}
ReceiptInv ==
  /\ \A d \in Delivery : Accepted(d) => Event[d] \in receipts
  /\ \A d, e \in Delivery : Accepted(d) /\ Accepted(e) /\ Event[d] = Event[e] => d = e

LEMMA InitTypes == ASSUME AutoInit PROVE AutoTypeOK /\ ReceiptInv
<1>1. RowType
  <2>1. [is |-> "none", enabled |-> FALSE, paused |-> FALSE, due |-> FALSE, token |-> None,
         lapsed |-> FALSE] \in Rows
    BY DEF Rows
  <2> QED BY <2>1 DEF AutoInit, RowType
<1>2. RunType
  BY DEF AutoInit, RunType, Runs, NoRun
<1>3. LoopType
  BY AutomationAssumption DEF AutoInit, LoopType, Loops
<1>4. WebhookType /\ ReceiptInv
  BY DEF AutoInit, WebhookType, Deliveries, ReceiptInv, Accepted
<1> QED BY <1>1, <1>2, <1>3, <1>4 DEF AutoTypeOK

-----------------------------------------------------------------------------
(***************************************************************************)
(* The rows.                                                               *)
(***************************************************************************)
LEMMA WriteType ==
  ASSUME RowType, NEW a \in Autos, NEW new \in Rows, Write(a, new) PROVE RowType'
  BY DEF RowType, Write

LEMMA UnleasedType == ASSUME NEW r \in Rows PROVE Unleased(r) \in Rows
  BY DEF Unleased, Rows

LEMMA OwnerRows ==
  ASSUME RowType, NEW a \in Autos,
         \/ Add(a) \/ Pause(a) \/ Resume(a) \/ CancelAutomation(a) \/ Delete(a)
         \/ ComesDue(a) \/ LeaseLapses(a)
  PROVE  RowType'
<1>0. row[a] \in Rows
  BY DEF RowType
<1>1. CASE Add(a)
  <2>1. PICK due \in BOOLEAN :
          Write(a, [row[a] EXCEPT !.is = "present", !.enabled = TRUE, !.due = due])
    BY <1>1 DEF Add
  <2>2. [row[a] EXCEPT !.is = "present", !.enabled = TRUE, !.due = due] \in Rows
    BY <1>0 DEF Rows
  <2> QED BY <2>1, <2>2, WriteType
<1>2. CASE Pause(a)
  <2>1. [row[a] EXCEPT !.paused = TRUE] \in Rows
    BY <1>0 DEF Rows
  <2> QED BY <1>2, <2>1, WriteType DEF Pause
<1>3. CASE Resume(a)
  <2>1. [row[a] EXCEPT !.paused = FALSE, !.enabled = TRUE] \in Rows
    BY <1>0 DEF Rows
  <2> QED BY <1>3, <2>1, WriteType DEF Resume
<1>4. CASE CancelAutomation(a)
  <2>1. [Unleased(row[a]) EXCEPT !.enabled = FALSE, !.paused = FALSE] \in Rows
    BY <1>0, UnleasedType DEF Rows
  <2> QED BY <1>4, <2>1, WriteType DEF CancelAutomation
<1>5. CASE Delete(a)
  <2>1. [Unleased(row[a]) EXCEPT !.is = "deleted"] \in Rows
    BY <1>0, UnleasedType DEF Rows
  <2> QED BY <1>5, <2>1, WriteType DEF Delete
<1>6. CASE ComesDue(a)
  <2>1. [row[a] EXCEPT !.due = TRUE] \in Rows
    BY <1>0 DEF Rows
  <2> QED BY <1>6, <2>1, WriteType DEF ComesDue
<1>7. CASE LeaseLapses(a)
  <2>1. [row[a] EXCEPT !.lapsed = TRUE] \in Rows
    BY <1>0 DEF Rows
  <2> QED BY <1>7, <2>1, WriteType DEF LeaseLapses
<1> QED BY <1>1, <1>2, <1>3, <1>4, <1>5, <1>6, <1>7

LEMMA ResultRows ==
  ASSUME RowType, NEW a \in Autos, NEW waiting \in BOOLEAN, StoreResult(a, waiting) PROVE RowType'
<1>1. Unleased(row[a]) \in Rows /\ row[a] \in Rows
  BY UnleasedType DEF RowType
<1>2. Advanced(a, waiting) \in Rows
  <2> DEFINE e == (Trigger[a] = "once" => waiting)
  <2> DEFINE p == (Trigger[a] = "once" /\ waiting)
  <2> DEFINE d == (row[a].due /\ Trigger[a] # "interval")
  <2> DEFINE u == Unleased(row[a])
  <2>1. e \in BOOLEAN /\ p \in BOOLEAN /\ d \in BOOLEAN /\ u \in Rows
    BY <1>1
  <2>2. u.due = row[a].due
    BY <1>1 DEF Unleased, Rows
  <2>3. Advanced(a, waiting) = [u EXCEPT !.enabled = e, !.paused = p, !.due = d]
    BY <2>2 DEF Advanced
  <2> HIDE DEF e, p, d, u
  <2>4. [u EXCEPT !.enabled = e, !.paused = p, !.due = d] \in Rows
    BY <2>1 DEF Rows
  <2> QED BY <2>3, <2>4
<1> QED BY <1>2, WriteType DEF StoreResult, RowType

LEMMA ReleaseRows == ASSUME RowType, Release PROVE RowType'
<1>1. \A a \in Autos : row[a] \in Rows /\ Unleased(row[a]) \in Rows
  BY UnleasedType DEF RowType
<1>2. row' = [a \in Autos |-> IF Present(a) /\ Lapsed(a) THEN Unleased(row[a]) ELSE row[a]]
  BY DEF Release
<1>3. \A a \in Autos : row'[a] \in Rows
  BY <1>1, <1>2
<1> QED BY <1>2, <1>3 DEF RowType

LEMMA MarkRows == ASSUME RowType, NEW a \in Autos, NEW k \in Token, Mark(a, k) PROVE RowType'
<1>1. [row[a] EXCEPT !.token = k] \in Rows
  BY DEF RowType, Rows
<1> QED BY <1>1, WriteType DEF Mark, RowType

-----------------------------------------------------------------------------
(***************************************************************************)
(* The runs.                                                               *)
(***************************************************************************)
LEMMA GotoType ==
  ASSUME RunType, NEW k \in Runner, NEW s \in {"marked", "claimed", "queued", "running"},
         run[k] # NoRun, Goto(k, s)
  PROVE  RunType'
<1>1. run[k].of \in Autos /\ run[k] \in Runs
  BY DEF RunType
<1> DEFINE n == [stage |-> s, of |-> run[k].of]
<1>2. run[k] = [stage |-> run[k].stage, of |-> run[k].of]
  BY <1>1 DEF Runs
<1>3. [run[k] EXCEPT !.stage = s] = n
  BY <1>2
<1>4. run' = [run EXCEPT ![k] = n]
  BY <1>3 DEF Goto
<1>5. n \in Runs /\ n.stage = s /\ n.of \in Autos
  BY <1>1 DEF Runs
<1> HIDE DEF n
<1> QED BY <1>4, <1>5 DEF RunType

LEMMA FreeType == ASSUME RunType, NEW k \in Runner, Free(k) PROVE RunType'
<1>1. NoRun \in Runs
  BY DEF NoRun, Runs
<1> QED BY <1>1 DEF RunType, Free

LEMMA NewRunType ==
  ASSUME RunType, NEW k \in Runner, NEW a \in Autos, NEW s \in {"marked", "queued"},
         run' = [run EXCEPT ![k] = [stage |-> s, of |-> a]]
  PROVE  RunType'
<1>1. [stage |-> s, of |-> a] \in Runs
  BY DEF Runs
<1> QED BY <1>1 DEF RunType

LEMMA SubmitRuns == ASSUME RunType, SubmitBatch PROVE RunType'
<1>1. NoRun \in Runs
  BY DEF NoRun, Runs
<1>2. \A k \in Runner : run[k].stage = "claimed" =>
        \E n \in Runs : n = [run[k] EXCEPT !.stage = "queued"] /\ n.stage = "queued" /\ n.of \in Autos
  <2> SUFFICES ASSUME NEW k \in Runner, run[k].stage = "claimed"
               PROVE  \E n \in Runs : /\ n = [run[k] EXCEPT !.stage = "queued"]
                                      /\ n.stage = "queued" /\ n.of \in Autos
    OBVIOUS
  <2> DEFINE n == [stage |-> "queued", of |-> run[k].of]
  <2>1. run[k] \in Runs /\ run[k].of \in Autos
    BY DEF RunType, NoRun
  <2>2. run[k] = [stage |-> run[k].stage, of |-> run[k].of]
    BY <2>1 DEF Runs
  <2>3. [run[k] EXCEPT !.stage = "queued"] = n
    BY <2>2
  <2>4. n \in Runs /\ n.stage = "queued" /\ n.of \in Autos
    BY <2>1 DEF Runs
  <2> QED BY <2>3, <2>4
<1>3. run' = [k \in Runner |-> IF run[k].stage # "claimed" THEN run[k]
                               ELSE IF loop[2] = "on" THEN [run[k] EXCEPT !.stage = "queued"]
                               ELSE NoRun]
  BY DEF SubmitBatch
<1>4. \A k \in Runner : run'[k] \in Runs
                        /\ (run'[k] = NoRun \/ (run'[k].stage # "free" /\ run'[k].of \in Autos))
  BY <1>1, <1>2, <1>3 DEF RunType
<1> QED BY <1>3, <1>4 DEF RunType

-----------------------------------------------------------------------------
(***************************************************************************)
(* A step leaves the variables in their types and the receipts in order.   *)
(***************************************************************************)
LEMMA ReceiptsStay == ASSUME ReceiptInv, UNCHANGED webhook PROVE ReceiptInv'
  BY DEF ReceiptInv, Accepted, webhook

Good == RowType /\ RunType /\ LoopType /\ WebhookType /\ ReceiptInv

LEMMA OwnerStep ==
  ASSUME Good, NEW a \in Autos,
         \/ Add(a) \/ Pause(a) \/ Resume(a) \/ CancelAutomation(a) \/ Delete(a)
         \/ ComesDue(a) \/ LeaseLapses(a)
  PROVE  Good'
<1>1. SameRest
  BY DEF Add, Pause, Resume, CancelAutomation, Delete, ComesDue, LeaseLapses
<1>2. RunType' /\ LoopType' /\ WebhookType'
  BY <1>1 DEF Good, SameRest, SameLoop, SameWebhook, webhook, RunType, LoopType, WebhookType
<1>3. ReceiptInv'
  BY <1>1, ReceiptsStay DEF Good, SameRest, SameWebhook
<1>4. RowType'
  BY OwnerRows DEF Good
<1> QED BY <1>2, <1>3, <1>4 DEF Good

LEMMA LoopStep ==
  ASSUME Good, Arm \/ Release \/ Select \/ SubmitBatch \/ Exit \/ Stop PROVE Good'
<1>1. SameWebhook
  BY DEF Arm, Release, Select, SubmitBatch, Exit, Stop, SameOther
<1>2. WebhookType' /\ ReceiptInv'
  BY <1>1, ReceiptsStay DEF Good, SameWebhook, webhook, WebhookType
<1>3. RowType'
  BY ReleaseRows DEF Good, Arm, Release, Select, SubmitBatch, Exit, Stop, RowType
<1>4. RunType'
  <2>1. CASE SubmitBatch
    BY <2>1, SubmitRuns DEF Good
  <2>2. CASE UNCHANGED run
    BY <2>2 DEF Good, RunType
  <2> QED BY <2>1, <2>2 DEF Arm, Release, Select, Exit, Stop
<1>5. LoopType'
  <2>1. \A x \in {"head", "select", "batch", "off"}, y \in {"on", "stopping"} : <<x, y>> \in Loops
    BY DEF Loops
  <2>2. loop[1] \in {"head", "select", "batch", "off"} /\ loop[2] \in {"on", "stopping"}
    BY DEF Good, LoopType, Loops
  <2>3. loop' \in Loops
    BY <2>1, <2>2 DEF Good, LoopType, Arm, Release, Select, SubmitBatch, Exit, Stop, SameLoop
  <2>4. batch' \subseteq Timed
    BY DEF Good, LoopType, Arm, Release, Select, SubmitBatch, Exit, Stop, SameLoop
  <2>5. armed' \in BOOLEAN
    BY DEF Good, LoopType, Arm, Release, Select, SubmitBatch, Exit, Stop, SameOther
  <2>6. stops' \in Nat
    <3>1. stops' = stops \/ stops' = stops + 1
      BY DEF Arm, Release, Select, SubmitBatch, Exit, Stop, SameLoop, SameOther
    <3>2. stops \in Nat
      BY DEF Good, LoopType
    <3> QED BY <3>1, <3>2
  <2> QED BY <2>3, <2>4, <2>5, <2>6 DEF LoopType
<1> QED BY <1>2, <1>3, <1>4, <1>5 DEF Good

LEMMA CrashStep == ASSUME Good, Crash PROVE Good'
<1>1. RowType'
  BY DEF Good, Crash, RowType
<1>2. RunType'
  BY DEF Crash, RunType, NoRun, Runs
<1>3. LoopType'
  BY DEF Good, Crash, LoopType, Loops
<1>4. WebhookType'
  BY DEF Good, Crash, WebhookType, Deliveries
<1>5. ReceiptInv'
  <2>1. \A d \in Delivery : Accepted(d)' => Accepted(d)
    BY DEF Good, WebhookType, Crash, Accepted
  <2> QED BY <2>1 DEF Good, Crash, ReceiptInv
<1> QED BY <1>1, <1>2, <1>3, <1>4, <1>5 DEF Good

LEMMA RunStep ==
  ASSUME Good, NEW k \in Runner,
         (k \in Token /\ Check(k)) \/ RefuseRun(k) \/ BeginRun(k) \/ EndRun(k)
  PROVE  Good'
<1>0. run[k] # NoRun /\ run[k].of \in Autos
  <2>1. run[k].stage \in {"marked", "queued", "running"}
    BY DEF Check, RefuseRun, BeginRun, EndRun
  <2> QED BY <2>1 DEF Good, RunType, NoRun
<1>1. SameOther /\ UNCHANGED <<loop, batch>>
  BY DEF Check, RefuseRun, BeginRun, EndRun
<1>2. LoopType' /\ WebhookType'
  BY <1>1 DEF Good, SameOther, SameWebhook, webhook, LoopType, WebhookType
<1>3. ReceiptInv'
  BY <1>1, ReceiptsStay DEF Good, SameOther, SameWebhook
<1>4. RowType'
  BY <1>0, ResultRows DEF Good, Check, RefuseRun, BeginRun, EndRun, RowType
<1>5. RunType'
  BY <1>0, GotoType, FreeType DEF Good, Check, RefuseRun, BeginRun, EndRun
<1> QED BY <1>2, <1>3, <1>4, <1>5 DEF Good

LEMMA NewRunStep ==
  ASSUME Good, NEW a \in Autos,
         \/ \E k \in Token : Mark(a, k)
         \/ \E c \in Caller : RunNow(c, a)
  PROVE  Good'
<1>1. SameOther /\ UNCHANGED loop
  BY DEF Mark, RunNow
<1>2. WebhookType' /\ ReceiptInv'
  BY <1>1, ReceiptsStay DEF Good, SameOther, SameWebhook, webhook, WebhookType
<1>3. LoopType'
  BY <1>1 DEF Good, Mark, RunNow, SameOther, LoopType
<1>4. RowType'
  BY MarkRows DEF Good, RunNow, RowType
<1>5. RunType'
  BY NewRunType DEF Good, Mark, RunNow, Runner
<1> QED BY <1>2, <1>3, <1>4, <1>5 DEF Good

LEMMA DeliveryStep ==
  ASSUME Good, NEW d \in Delivery,
         LookUp(d) \/ Store(d) \/ Publish(d) \/ (\E a \in Autos : Emit(d, a))
  PROVE  Good'
<1>1. SameEngine
  BY DEF LookUp, Store, Publish, Emit
<1>2. RowType' /\ LoopType'
  BY <1>1 DEF Good, SameEngine, RowType, LoopType
<1>3. RunType'
  <2>1. CASE UNCHANGED run
    BY <2>1 DEF Good, RunType
  <2>2. ASSUME NEW a \in Autos, Emit(d, a) PROVE RunType'
    BY <2>2, NewRunType DEF Good, Emit, Runner
  <2> QED BY <2>1, <2>2 DEF LookUp, Store, Publish
<1>4. receipts' \subseteq {Event[e] : e \in Delivery}
  BY DEF Good, WebhookType, LookUp, Store, Publish, Emit, webhook
<1>5. delivery' \in [Delivery -> Deliveries]
  BY DEF Good, WebhookType, LookUp, Store, Publish, Emit, webhook, Reach, Deliveries
<1>6. todo' \in [Delivery -> SUBSET Autos]
  <2>1. CASE UNCHANGED todo
    BY <2>1 DEF Good, WebhookType
  <2>2. CASE Publish(d)
    BY <2>2 DEF Good, WebhookType, Publish
  <2>3. ASSUME NEW a \in Autos, Emit(d, a) PROVE todo' \in [Delivery -> SUBSET Autos]
    BY <2>3 DEF Good, WebhookType, Emit
  <2> QED BY <2>1, <2>2, <2>3 DEF LookUp, Store
<1>7. ReceiptInv'
  <2>1. CASE LookUp(d)
    BY <2>1 DEF Good, WebhookType, LookUp, Reach, ReceiptInv, Accepted
  <2>2. CASE Store(d)
    BY <2>2 DEF Good, WebhookType, Store, Reach, ReceiptInv, Accepted
  <2>3. CASE Publish(d)
    BY <2>3 DEF Good, WebhookType, Publish, Reach, ReceiptInv, Accepted
  <2>4. ASSUME NEW a \in Autos, Emit(d, a) PROVE ReceiptInv'
    BY <2>4, ReceiptsStay DEF Good, Emit
  <2> QED BY <2>1, <2>2, <2>3, <2>4
<1> QED BY <1>2, <1>3, <1>4, <1>5, <1>6, <1>7 DEF Good, WebhookType

LEMMA Step == ASSUME Good, [AutoNext]_autoVars PROVE Good'
<1>1. CASE UNCHANGED autoVars
  BY <1>1 DEF autoVars, webhook, Good, RowType, RunType, LoopType, WebhookType, ReceiptInv, Accepted
<1>2. CASE AutoNext
  <2>1. ASSUME NEW k \in Token, Check(k) PROVE Good'
    BY <2>1, RunStep DEF Runner
  <2>2. ASSUME NEW k \in Runner, RefuseRun(k) \/ BeginRun(k) \/ EndRun(k) PROVE Good'
    BY <2>2, RunStep
  <2>3. ASSUME NEW a \in Autos, NEW k \in Token, Mark(a, k) PROVE Good'
    BY <2>3, NewRunStep
  <2>4. ASSUME NEW a \in Autos, NEW c \in Caller, RunNow(c, a) PROVE Good'
    BY <2>4, NewRunStep
  <2>5. ASSUME NEW d \in Delivery, LookUp(d) \/ Store(d) \/ Publish(d) PROVE Good'
    BY <2>5, DeliveryStep
  <2>6. ASSUME NEW d \in Delivery, NEW a \in Autos, Emit(d, a) PROVE Good'
    BY <2>6, DeliveryStep
  <2>7. ASSUME NEW a \in Autos,
               \/ Add(a) \/ Pause(a) \/ Resume(a) \/ CancelAutomation(a) \/ Delete(a)
         \/ ComesDue(a) \/ LeaseLapses(a)
        PROVE  Good'
    BY <2>7, OwnerStep
  <2>8. CASE Arm \/ Release \/ Select \/ SubmitBatch \/ Exit \/ Stop \/ Crash
    BY <2>8, LoopStep, CrashStep
  <2> QED BY <1>2, <2>1, <2>2, <2>3, <2>4, <2>5, <2>6, <2>7, <2>8 DEF AutoNext
<1> QED BY <1>1, <1>2

-----------------------------------------------------------------------------
\* What the leases, runs and receipts are at each step: the inductive invariant.
THEOREM Invariance == AutoSpec => []Good
<1>1. AutoInit => Good
  BY InitTypes DEF AutoTypeOK, Good
<1>2. Good /\ [AutoNext]_autoVars => Good'
  BY Step
<1> QED BY <1>1, <1>2, PTL DEF AutoSpec

\* The variables stay in their types.
THEOREM TypeCorrect == AutoSpec => []AutoTypeOK
<1>1. Good => AutoTypeOK
  BY DEF AutoTypeOK, Good
<1> QED BY <1>1, Invariance, PTL

\* An event is published at most once, whatever deliveries of it overlap and
\* whenever the instance crashes.
THEOREM EventsArePublishedOnce == AutoSpec => []PublishedOnce
<1>1. Good => PublishedOnce
  BY DEF Good, ReceiptInv, Accepted, PublishedOnce
<1> QED BY <1>1, Invariance, PTL
=============================================================================
