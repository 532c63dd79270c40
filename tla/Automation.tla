----------------------------- MODULE Automation -----------------------------
(***************************************************************************)
(* The automation engine of one application instance                       *)
(* (src/src/iras/v5/automation_engine.py) and the webhooks that wake it    *)
(* (SecureWebhookGateway.receive, src/src/iras/v5/strengthening_core.py).  *)
(* An automation runs because it is due, because an event was published or *)
(* because the owner says so, while the owner changes it and the instance  *)
(* stops or crashes.  The database runs one statement at a time: each      *)
(* statement is one action.  The executor and the senders of webhooks are  *)
(* the environment.                                                        *)
(***************************************************************************)
EXTENDS Naturals, FiniteSets

CONSTANTS
  Autos,      \* the automations
  Trigger,    \* trigger_type of each
  Harmless,   \* those with permission_mode read_only
  Token,      \* lease tokens, each naming a run of the loop
  Caller,     \* calls of run_now under way
  Delivery,   \* calls of receive: a sender may deliver an event again
  Event,      \* hook_id and event_id of each delivery
  None,       \* NULL
  MaxStops    \* bound: times the instance stops, or crashes and starts again

VARIABLES
  row,        \* v5_automations
  run,        \* what _execute does, by the token, call or delivery it is for
  loop,       \* the thread of start: see Loops
  batch,      \* what its SELECT returned and it has not tried yet
  armed,      \* what the unattended authorizer answers
  receipts,   \* v5_rc8_webhook_events
  delivery,   \* where each delivery is
  todo,       \* the automations a delivery has yet to execute
  stops       \* bound counter

webhook == <<receipts, delivery>>
autoVars == <<row, run, loop, batch, armed, webhook, todo, stops>>

Timed == {a \in Autos : Trigger[a] \in {"once", "interval"}}
Runner == Token \cup Caller \cup Delivery

ASSUME AutomationAssumption ==
  /\ Trigger \in [Autos -> {"once", "interval", "event", "manual"}]
  /\ Harmless \subseteq Autos
  /\ Token \cap Caller = {} /\ Token \cap Delivery = {} /\ Caller \cap Delivery = {}
  /\ None \notin Autos \cup Token
  /\ MaxStops \in Nat

\* The row of an automation: "due" once its next_run has passed.
Rows == [is : {"none", "present", "deleted"}, enabled : BOOLEAN, paused : BOOLEAN,
         due : BOOLEAN, token : Token \cup {None}, lapsed : BOOLEAN]
\* "marked": the lease is written, not read back; "claimed": to be submitted;
\* "queued": _execute is called; "running": in the executor.
Runs == [stage : {"free", "marked", "claimed", "queued", "running"}, of : Autos \cup {None}]
NoRun == [stage |-> "free", of |-> None]
\* "head": before _claim_due; "select": its leases are released; "batch": it claims.
Loops == {"head", "select", "batch", "off"} \X {"on", "stopping"}
Deliveries == {"new", "looked", "stored", "published", "duplicate", "lost"}

AutoInit ==
  /\ row = [a \in Autos |-> [is |-> "none", enabled |-> FALSE, paused |-> FALSE,
                            due |-> FALSE, token |-> None, lapsed |-> FALSE]]
  /\ run = [k \in Runner |-> NoRun]
  /\ loop = <<"head", "on">> /\ batch = {}
  /\ armed = FALSE
  /\ receipts = {}
  /\ delivery = [d \in Delivery |-> "new"] /\ todo = [d \in Delivery |-> {}]
  /\ stops = 0

Present(a) == row[a].is = "present"
Write(a, new) == row' = [row EXCEPT ![a] = new]
Goto(k, stage) == run' = [run EXCEPT ![k].stage = stage]
Free(k) == run' = [run EXCEPT ![k] = NoRun]
SameLoop == UNCHANGED <<loop, batch, stops>>
SameWebhook == UNCHANGED <<webhook, todo>>

-----------------------------------------------------------------------------
(***************************************************************************)
(* The owner.                                                              *)
(***************************************************************************)
SameRest == UNCHANGED <<run, armed>> /\ SameLoop /\ SameWebhook

Add(a) ==
  /\ row[a].is = "none"
  /\ \E due \in BOOLEAN :
       /\ due => Trigger[a] \in {"once", "interval"}
       /\ Write(a, [row[a] EXCEPT !.is = "present", !.enabled = TRUE, !.due = due])
  /\ SameRest

Pause(a) ==
  /\ Present(a) /\ Write(a, [row[a] EXCEPT !.paused = TRUE]) /\ SameRest

Resume(a) ==
  /\ Present(a) /\ Write(a, [row[a] EXCEPT !.paused = FALSE, !.enabled = TRUE]) /\ SameRest

Unleased(r) == [r EXCEPT !.token = None, !.lapsed = FALSE]

\* cancel also takes the lease from whoever runs the automation.
CancelAutomation(a) ==
  /\ Present(a)
  /\ Write(a, [Unleased(row[a]) EXCEPT !.enabled = FALSE, !.paused = FALSE]) /\ SameRest

Delete(a) ==
  /\ Present(a) /\ Write(a, [Unleased(row[a]) EXCEPT !.is = "deleted"]) /\ SameRest

\* Master Control is armed or disarmed on the owner's computer.
Arm ==
  /\ armed' = ~ armed
  /\ UNCHANGED <<row, run>> /\ SameLoop /\ SameWebhook

\* next_run is reached; claim_until is reached.
ComesDue(a) ==
  /\ Present(a) /\ a \in Timed /\ ~ row[a].due
  /\ Write(a, [row[a] EXCEPT !.due = TRUE]) /\ SameRest

LeaseLapses(a) ==
  /\ Present(a) /\ row[a].token # None /\ ~ row[a].lapsed
  /\ Write(a, [row[a] EXCEPT !.lapsed = TRUE]) /\ SameRest

-----------------------------------------------------------------------------
(***************************************************************************)
(* The loop: _claim_due, and the submission to the pool.                   *)
(***************************************************************************)
SameOther == UNCHANGED <<armed, stops>> /\ SameWebhook

\* _release_expired_claims.  (A slip: it compares the wrong way round.)
LapsedNever(a) == FALSE
Lapsed(a) == row[a].token # None /\ row[a].lapsed
Release ==
  /\ loop = <<"head", "on">> /\ loop' = <<"select", "on">>
  /\ row' = [a \in Autos |-> IF Present(a) /\ Lapsed(a) THEN Unleased(row[a]) ELSE row[a]]
  /\ UNCHANGED <<run, batch>> /\ SameOther

\* The SELECT.  Its LIMIT, the threads of the pool, is not reached by the few
\* automations of an instance here.
Select ==
  /\ loop[1] = "select" /\ loop' = <<"batch", loop[2]>>
  /\ batch' = {a \in Timed : /\ Present(a) /\ row[a].enabled /\ ~ row[a].paused
                             /\ row[a].due /\ row[a].token = None}
  /\ UNCHANGED <<row, run>> /\ SameOther

\* UPDATE ... WHERE automation_id=? AND run_token IS NULL, with a new token: one
\* that no row and no run knows any more.
Marked == {k \in Token : run[k].stage = "marked"}
Mark(a, k) ==
  /\ a \in batch /\ Marked = {} /\ batch' = batch \ {a}
  /\ run[k] = NoRun /\ \A b \in Autos : row[b].token # k
  /\ run' = [run EXCEPT ![k] = [stage |-> "marked", of |-> a]]
  /\ IF Present(a) /\ row[a].token = None
     THEN Write(a, [row[a] EXCEPT !.token = k]) ELSE UNCHANGED row
  /\ UNCHANGED loop /\ SameOther

\* The row is read back.
Check(k) ==
  LET a == run[k].of
  IN  /\ run[k].stage = "marked"
      /\ IF Present(a) /\ row[a].token = k THEN Goto(k, "claimed") ELSE Free(k)
      /\ UNCHANGED <<row, loop, batch>> /\ SameOther

\* The batch is claimed: it is submitted, or dropped when the pool is gone.
SubmitBatch ==
  /\ loop[1] = "batch" /\ batch = {} /\ Marked = {}
  /\ loop' = <<"head", loop[2]>>
  /\ run' = [k \in Runner |-> IF run[k].stage # "claimed" THEN run[k]
                              ELSE IF loop[2] = "on" THEN [run[k] EXCEPT !.stage = "queued"]
                              ELSE NoRun]
  /\ UNCHANGED <<row, batch>> /\ SameOther

Exit ==
  /\ loop = <<"head", "stopping">> /\ loop' = <<"off", "stopping">>
  /\ UNCHANGED <<row, run, batch>> /\ SameOther

\* stop: what was submitted still runs.
Stop ==
  /\ stops < MaxStops /\ stops' = stops + 1
  /\ loop[2] = "on" /\ loop' = <<loop[1], "stopping">>
  /\ UNCHANGED <<row, run, batch, armed>> /\ SameWebhook

\* The process dies and starts again; the tables stay.
Crash ==
  /\ stops < MaxStops /\ stops' = stops + 1
  /\ loop' = <<"head", "on">> /\ batch' = {}
  /\ run' = [k \in Runner |-> NoRun]
  /\ todo' = [d \in Delivery |-> {}]
  /\ delivery' = [d \in Delivery |->
       IF delivery[d] \in {"looked", "stored"} THEN "lost" ELSE delivery[d]]
  /\ UNCHANGED <<row, armed, receipts>>

-----------------------------------------------------------------------------
(***************************************************************************)
(* _execute and _store_result.                                             *)
(***************************************************************************)

\* _advance_schedule and the UPDATE, of the row whoever has changed it since it
\* was read.  An event or manual automation was enabled and not paused then.
Advanced(a, waiting) ==
  LET once == Trigger[a] = "once"
  IN  [Unleased(row[a]) EXCEPT
         !.enabled = once => waiting, !.paused = once /\ waiting,
         !.due = @ /\ Trigger[a] # "interval"]
StoreResult(a, waiting) ==
  IF Present(a) THEN Write(a, Advanced(a, waiting)) ELSE UNCHANGED row

\* An unattended run that changes state needs the authorizer; one of run_now is
\* attended.
Authorized(k) == k \in Caller \/ run[k].of \in Harmless \/ armed

RefuseRun(k) ==
  /\ run[k].stage = "queued" /\ ~ Authorized(k)
  /\ StoreResult(run[k].of, TRUE) /\ Free(k)
  /\ UNCHANGED <<loop, batch>> /\ SameOther

BeginRun(k) ==
  /\ run[k].stage = "queued" /\ Authorized(k) /\ Goto(k, "running")
  /\ UNCHANGED <<row, loop, batch>> /\ SameOther

\* The executor returns or raises.
EndRun(k) ==
  /\ run[k].stage = "running"
  /\ StoreResult(run[k].of, FALSE) /\ Free(k)
  /\ UNCHANGED <<loop, batch>> /\ SameOther

\* run_now
RunNow(c, a) ==
  /\ run[c] = NoRun /\ Present(a) /\ row[a].enabled /\ ~ row[a].paused
  /\ run' = [run EXCEPT ![c] = [stage |-> "queued", of |-> a]]
  /\ UNCHANGED <<row, loop, batch>> /\ SameOther

-----------------------------------------------------------------------------
(***************************************************************************)
(* Webhooks: receive, and emit_event in the thread that publishes.         *)
(***************************************************************************)
SameEngine == UNCHANGED <<row, loop, batch, armed, stops>>
Reach(d, stage) == delivery' = [delivery EXCEPT ![d] = stage]

LookUp(d) ==
  /\ delivery[d] = "new" /\ Reach(d, IF Event[d] \in receipts THEN "duplicate" ELSE "looked")
  /\ UNCHANGED <<run, receipts, todo>> /\ SameEngine

\* UNIQUE(hook_id,event_id).  (A slip: the table does not say so.)
StoreAlways(d) ==
  /\ delivery[d] = "looked" /\ receipts' = receipts \cup {Event[d]} /\ Reach(d, "stored")
  /\ UNCHANGED <<run, todo>> /\ SameEngine
Store(d) ==
  /\ delivery[d] = "looked"
  /\ receipts' = receipts \cup {Event[d]}
  /\ Reach(d, IF Event[d] \in receipts THEN "duplicate" ELSE "stored")
  /\ UNCHANGED <<run, todo>> /\ SameEngine

\* emit_event lists the automations the event triggers ...
Publish(d) ==
  /\ delivery[d] = "stored" /\ Reach(d, "published")
  /\ todo' = [todo EXCEPT ![d] = {a \in Autos : /\ Present(a) /\ Trigger[a] = "event"
                                               /\ row[a].enabled /\ ~ row[a].paused}]
  /\ UNCHANGED <<run, receipts>> /\ SameEngine

\* ... and executes them one after the other.
Emit(d, a) ==
  /\ a \in todo[d] /\ run[d] = NoRun
  /\ todo' = [todo EXCEPT ![d] = @ \ {a}]
  /\ run' = [run EXCEPT ![d] = [stage |-> "queued", of |-> a]]
  /\ UNCHANGED webhook /\ SameEngine

-----------------------------------------------------------------------------
Loop == Release \/ Select \/ SubmitBatch \/ Exit \/ \E a \in Autos, k \in Token : Mark(a, k)
Execute(k) == Check(k) \/ RefuseRun(k) \/ BeginRun(k) \/ EndRun(k)

AutoNext ==
  \/ \E a \in Autos :
       \/ Add(a) \/ Pause(a) \/ Resume(a) \/ CancelAutomation(a) \/ Delete(a)
       \/ ComesDue(a) \/ LeaseLapses(a)
  \/ Arm \/ Stop \/ Crash
  \/ Release \/ Select \/ SubmitBatch \/ Exit \/ \E a \in Autos, k \in Token : Mark(a, k)
  \/ \E k \in Token : Check(k)
  \/ \E k \in Runner : RefuseRun(k) \/ BeginRun(k) \/ EndRun(k)
  \/ \E c \in Caller, a \in Autos : RunNow(c, a)
  \/ \E d \in Delivery : LookUp(d) \/ Store(d) \/ Publish(d)
  \/ \E d \in Delivery, a \in Autos : Emit(d, a)

AutoSpec == AutoInit /\ [][AutoNext]_autoVars

\* The threads of the instance run, the executor returns, leases lapse.
Used(a) == row[a].token # None /\ run[row[a].token] # NoRun
AutoFairness ==
  /\ WF_autoVars(Loop)
  /\ \A k \in Runner : WF_autoVars(Execute(k))
  /\ \A a \in Autos : WF_autoVars(~ Used(a) /\ LeaseLapses(a))

AutoFairSpec == AutoSpec /\ AutoFairness

-----------------------------------------------------------------------------
\* The values the variables may have.
RowType == row \in [Autos -> Rows]
RunType ==
  /\ run \in [Runner -> Runs]
  /\ \A k \in Runner : run[k] = NoRun \/ (run[k].stage # "free" /\ run[k].of \in Autos)
LoopType == loop \in Loops /\ batch \subseteq Timed /\ armed \in BOOLEAN /\ stops \in Nat
WebhookType ==
  /\ receipts \subseteq {Event[d] : d \in Delivery}
  /\ delivery \in [Delivery -> Deliveries] /\ todo \in [Delivery -> SUBSET Autos]

AutoTypeOK == RowType /\ RunType /\ LoopType /\ WebhookType

\* "require caller-supplied event IDs for replay protection": however deliveries
\* of an event overlap, and whenever the instance crashes between them, the event
\* is published at most once.
PublishedOnce ==
  \A d, e \in Delivery :
    delivery[d] = "published" /\ delivery[e] = "published" /\ Event[d] = Event[e] => d = e

\* While the instance is up, crashes and all, a timed automation that is due does
\* not wait for ever: it is run, refused, or changed by the owner.
Waits(a) ==
  /\ Present(a) /\ a \in Timed /\ row[a].enabled /\ ~ row[a].paused /\ row[a].due
  /\ \A k \in Runner : run[k] = NoRun \/ run[k].of # a
DueIsServed == [](loop[2] = "on") => \A a \in Autos : ~ <>[]Waits(a)

\* v5_automation_cancel: "Disable one automation while preserving its execution
\* record."  An automation that was disabled is enabled again by its owner alone.
StaysDisabled ==
  [][\A a \in Autos : Present(a) /\ ~ row[a].enabled /\ row'[a].enabled => Resume(a)]_autoVars
=============================================================================
