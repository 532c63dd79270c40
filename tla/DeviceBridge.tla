---------------------------- MODULE DeviceBridge ----------------------------
(***************************************************************************)
(* The bridge between IRAS Cloud and one Windows computer:                 *)
(* DeviceBridgeStore (src/src/iras/device_bridge/store.py), the endpoints  *)
(* a computer polls (src/src/iras/cloud_api.py) and DeviceBridgeAgent      *)
(* (src/src/iras/device_bridge/agent.py).  Requesters write rows and wait  *)
(* for their outcome with a time limit; the computer long-polls for the    *)
(* oldest row, executes it and posts the outcome; messages get lost and    *)
(* both sides restart.  One statement of the store is one action, except   *)
(* that claim_next is one: only its compare-and-set has an effect the      *)
(* others see, and a row it has read can only have left the queue.         *)
(***************************************************************************)
EXTENDS Naturals, FiniteSets

CONSTANTS
  Command,      \* command ids, numbered in order of created_at
  Llm,          \* the commands whose action is local_llm_complete
  Direct,       \* the commands of /v1/remote/invoke (remote_request_and_wait);
                \* the others are sent with request_and_wait
  Session,      \* the commands with a remote_session_id
  Idle,         \* what a lane holds between two commands
  MaxLosses,    \* bound: requests and responses the network loses
  MaxRestarts   \* bound: restarts of the server and of the agent, together

ASSUME BridgeAssumption ==
  /\ Command \subseteq Nat /\ IsFiniteSet(Command) /\ Idle \notin Command
  /\ Llm \subseteq Command /\ Session \subseteq Command /\ Direct \subseteq Session
  /\ MaxLosses \in Nat /\ MaxRestarts \in Nat

VARIABLES
  status,       \* the rows of iras_device_commands
  payload,      \* what the row still holds of arguments and result
  lapsed,       \* expires_at has passed
  caller,       \* the thread that requested the command
  read,         \* the status its last SELECT in wait returned
  answer,       \* what it returned or raised
  poll,         \* the long poll the agent waits for: what it excludes
  orphan,       \* a handler still polling for an agent that has gone
  lane, phase,  \* the agent's two lanes: the command each holds, and how far
  executed,     \* how many times executor.execute was entered for a command
  losses, restarts  \* bound counters

rowVars == <<status, payload, lapsed>>
callVars == <<caller, read, answer>>
pollVars == <<poll, orphan>>
agentVars == <<lane, phase, executed>>
vars == <<rowVars, callVars, pollVars, agentVars, losses, restarts>>

Lane == {"main", "llm"}
Statuses == {"none", "queued", "claimed", "succeeded", "failed", "expired"}
Final == {"succeeded", "failed", "expired"}
Polls == {"none", "all", "no_llm"}

Init ==
  /\ status = [c \in Command |-> "none"]
  /\ payload = [c \in Command |-> {}]
  /\ lapsed = [c \in Command |-> FALSE]
  /\ caller = [c \in Command |-> "none"]
  /\ read = [c \in Command |-> "none"]
  /\ answer = [c \in Command |-> "none"]
  /\ poll = "none" /\ orphan = "none"
  /\ lane = [l \in Lane |-> Idle]
  /\ phase = [l \in Lane |-> "start"]
  /\ executed = [c \in Command |-> 0]
  /\ losses = 0 /\ restarts = 0

-----------------------------------------------------------------------------
(***************************************************************************)
(* Faulty twins of definitions below, named after the bug: a run whose     *)
(* definition is replaced by its twin must see its property violated.      *)
(***************************************************************************)
MainLaneOnly(c) == "main"
PollEverything == "all"
CompletableAgain(c) == status[c] \in {"claimed", "succeeded"}
ScrubsResultsOnly(c) == c \in Session /\ read[c] = "succeeded"
EligibleOrClaimed(p) ==
  {c \in Command : status[c] \in {"queued", "claimed"} /\ ~ lapsed[c] /\ (p = "no_llm" => c \notin Llm)}

WithdrawLapsedOnly(c) ==
  /\ caller[c] = "looked" /\ read[c] = "queued" /\ c \notin Direct
  /\ caller' = [caller EXCEPT ![c] = "withdrawn"]
  /\ status' = [status EXCEPT ![c] = IF @ = "queued" /\ lapsed[c] THEN "expired" ELSE @]
  /\ UNCHANGED <<payload, lapsed, read, answer, pollVars, agentVars, losses, restarts>>

WithdrawClaimedToo(c) ==
  /\ caller[c] = "looked" /\ read[c] = "queued" /\ c \notin Direct
  /\ caller' = [caller EXCEPT ![c] = "withdrawn"]
  /\ status' = [status EXCEPT ![c] = "expired"]
  /\ UNCHANGED <<payload, lapsed, read, answer, pollVars, agentVars, losses, restarts>>

StartPollWhenIdle ==
  /\ \A l \in Lane : lane[l] = Idle
  /\ poll = "none" /\ poll' = "all"
  /\ UNCHANGED <<rowVars, callVars, orphan, agentVars, losses, restarts>>

-----------------------------------------------------------------------------
(***************************************************************************)
(* The requester: request_and_wait and remote_request_and_wait.            *)
(***************************************************************************)

\* enqueue
Enqueue(c) ==
  /\ caller[c] = "none" /\ \A b \in Command : b < c => caller[b] # "none"
  /\ caller' = [caller EXCEPT ![c] = "waiting"]
  /\ status' = [status EXCEPT ![c] = "queued"]
  /\ payload' = [payload EXCEPT ![c] = {"arguments"}]
  /\ UNCHANGED <<lapsed, read, answer, pollVars, agentVars, losses, restarts>>

\* wait: a SELECT sees a final status, or the time limit passes and the last
\* SELECT sees any.
Look(c) ==
  /\ caller[c] = "waiting"
  /\ caller' = [caller EXCEPT ![c] = "looked"]
  /\ read' = [read EXCEPT ![c] = status[c]]
  /\ UNCHANGED <<rowVars, answer, pollVars, agentVars, losses, restarts>>

\* request_and_wait withdraws what it last saw in the queue, if it still is.
Withdraw(c) ==
  /\ caller[c] = "looked" /\ read[c] = "queued" /\ c \notin Direct
  /\ caller' = [caller EXCEPT ![c] = "withdrawn"]
  /\ status' = [status EXCEPT ![c] = IF @ = "queued" THEN "expired" ELSE @]
  /\ UNCHANGED <<payload, lapsed, read, answer, pollVars, agentVars, losses, restarts>>

AnswerOf(c) ==
  CASE read[c] = "succeeded" -> "result"
    [] read[c] \in {"failed", "expired"} -> "error"
    [] read[c] = "queued" /\ c \notin Direct -> "not_accepted"
    [] OTHER -> "not_finished"

\* Which calls end with _scrub_remote_command_payload.
Scrubs(c) == c \in Session /\ AnswerOf(c) # "not_finished"

Return(c) ==
  /\ \/ caller[c] = "withdrawn"
     \/ caller[c] = "looked" /\ (read[c] = "queued" => c \in Direct)
  /\ caller' = [caller EXCEPT ![c] = "returned"]
  /\ answer' = [answer EXCEPT ![c] = AnswerOf(c)]
  /\ payload' = IF Scrubs(c) THEN [payload EXCEPT ![c] = {}] ELSE payload
  /\ UNCHANGED <<status, lapsed, read, pollVars, agentVars, losses, restarts>>

\* expires_at passes.  A command of request_and_wait expires about when its
\* caller stops waiting, one of remote_request_and_wait 30 seconds later.
Lapse(c) ==
  /\ status[c] = "queued" /\ ~ lapsed[c]
  /\ c \in Direct => caller[c] # "waiting"
  /\ lapsed' = [lapsed EXCEPT ![c] = TRUE]
  /\ UNCHANGED <<status, payload, callVars, pollVars, agentVars, losses, restarts>>

-----------------------------------------------------------------------------
(***************************************************************************)
(* The server's side of a poll: device_next_command and claim_next.        *)
(***************************************************************************)

\* The first statement of claim_next.
Swept == [c \in Command |-> IF status[c] = "queued" /\ lapsed[c] THEN "expired" ELSE status[c]]

Eligible(p) == {c \in Command : status[c] = "queued" /\ ~ lapsed[c] /\ (p = "no_llm" => c \notin Llm)}
Oldest(p, c) == c \in Eligible(p) /\ \A b \in Eligible(p) : c <= b

\* claim_next finds the oldest row the poll does not exclude and wins its CAS.
Claimed(p, c) ==
  /\ p # "none" /\ Oldest(p, c)
  /\ status' = [Swept EXCEPT ![c] = "claimed"]
  /\ UNCHANGED <<payload, lapsed>>

\* _run hands local_llm_complete to _dispatch_local_ai.
LaneOf(c) == IF c \in Llm THEN "llm" ELSE "main"

\* The response reaches the agent, which hands the command to its lane.
ClaimDelivered(c) ==
  /\ Claimed(poll, c)
  /\ poll' = "none"
  /\ lane' = [lane EXCEPT ![LaneOf(c)] = c]
  /\ phase' = [phase EXCEPT ![LaneOf(c)] = "start"]
  /\ UNCHANGED <<callVars, orphan, executed, losses, restarts>>

\* The response is lost, and the agent's poll fails.
ClaimLost(c) ==
  /\ Claimed(poll, c)
  /\ losses < MaxLosses /\ losses' = losses + 1
  /\ poll' = "none"
  /\ UNCHANGED <<callVars, orphan, agentVars, restarts>>

\* The agent has gone, but its handler polls until its time limit.
ClaimOrphaned(c) ==
  /\ Claimed(orphan, c)
  /\ orphan' = "none"
  /\ UNCHANGED <<callVars, poll, agentVars, losses, restarts>>

\* DeviceBridgeStore._run repeats the compare-and-set when the connection to
\* the database breaks after it took effect: the repetition changes no row,
\* and claim_next goes on as if another poll had won.
ClaimForgotten(c) ==
  /\ Claimed(poll, c)
  /\ losses < MaxLosses /\ losses' = losses + 1
  /\ UNCHANGED <<callVars, pollVars, agentVars, restarts>>

\* claim_next finds nothing; it goes on, or the time limit of the poll passes.
PollFindsNothing ==
  /\ poll # "none" /\ Eligible(poll) = {}
  /\ status' = Swept /\ poll' \in {"none", poll}
  /\ UNCHANGED <<payload, lapsed, callVars, orphan, agentVars, losses, restarts>>

OrphanFindsNothing ==
  /\ orphan # "none" /\ Eligible(orphan) = {}
  /\ status' = Swept /\ orphan' \in {"none", orphan}
  /\ UNCHANGED <<payload, lapsed, callVars, poll, agentVars, losses, restarts>>

\* The connection of a poll breaks; one such handler at a time is modelled.
PollBreaks ==
  /\ poll # "none" /\ orphan = "none"
  /\ losses < MaxLosses /\ losses' = losses + 1
  /\ poll' = "none" /\ orphan' = poll
  /\ UNCHANGED <<rowVars, callVars, agentVars, restarts>>

-----------------------------------------------------------------------------
(***************************************************************************)
(* The agent: its loop and main lane, and the thread of the local model.   *)
(***************************************************************************)

\* A poll excludes what the local model, busy, cannot take (_local_ai_busy).
NewPoll == IF lane["llm"] = Idle THEN "all" ELSE "no_llm"

\* _run: the next poll.
StartPoll ==
  /\ lane["main"] = Idle /\ poll = "none"
  /\ poll' = NewPoll
  /\ UNCHANGED <<rowVars, callVars, orphan, agentVars, losses, restarts>>

\* _execute: emergency stop or local policy refuse the command.
Refuse(l) ==
  /\ lane[l] # Idle /\ phase[l] = "start"
  /\ phase' = [phase EXCEPT ![l] = "fault"]
  /\ UNCHANGED <<rowVars, callVars, pollVars, lane, executed, losses, restarts>>

\* _execute: the executor runs it, and returns or raises.
Run(l) ==
  /\ lane[l] # Idle /\ phase[l] = "start"
  /\ executed' = [executed EXCEPT ![lane[l]] = @ + 1]
  /\ \E p \in {"done", "fault"} : phase' = [phase EXCEPT ![l] = p]
  /\ UNCHANGED <<rowVars, callVars, pollVars, lane, losses, restarts>>

\* complete, on the server: only a claimed row, and it stores the result.
Completable(c) == status[c] = "claimed"
Complete(c, st) ==
  /\ Completable(c)
  /\ status' = [status EXCEPT ![c] = st]
  /\ payload' = IF st = "succeeded" THEN [payload EXCEPT ![c] = @ \cup {"result"}] ELSE payload
  /\ UNCHANGED lapsed

Freed(l) == lane' = [lane EXCEPT ![l] = Idle] /\ UNCHANGED phase

\* _complete(ok=True) is answered.
Report(l) ==
  /\ lane[l] # Idle /\ phase[l] = "done"
  /\ Complete(lane[l], "succeeded")
  /\ Freed(l)
  /\ UNCHANGED <<callVars, pollVars, executed, losses, restarts>>

\* _complete(ok=True) raises: the request or its response is lost.
ReportBreaks(l) ==
  /\ lane[l] # Idle /\ phase[l] = "done"
  /\ losses < MaxLosses /\ losses' = losses + 1
  /\ Complete(lane[l], "succeeded") \/ UNCHANGED rowVars
  /\ phase' = [phase EXCEPT ![l] = "fault"]
  /\ UNCHANGED <<callVars, pollVars, lane, executed, restarts>>

\* _complete(ok=False): it takes effect, or the row is no longer claimed.
ReportFault(l) ==
  /\ lane[l] # Idle /\ phase[l] = "fault"
  /\ IF Completable(lane[l]) THEN Complete(lane[l], "failed") ELSE UNCHANGED rowVars
  /\ Freed(l)
  /\ UNCHANGED <<callVars, pollVars, executed, losses, restarts>>

\* _complete(ok=False) raises because the request is lost.
ReportFaultLost(l) ==
  /\ lane[l] # Idle /\ phase[l] = "fault"
  /\ losses < MaxLosses /\ losses' = losses + 1
  /\ Freed(l)
  /\ UNCHANGED <<rowVars, callVars, pollVars, executed, restarts>>

-----------------------------------------------------------------------------
(***************************************************************************)
(* Restarts.                                                               *)
(***************************************************************************)

\* The rows are durable; the callers and the handlers are not.
ServerRestart ==
  /\ restarts < MaxRestarts /\ restarts' = restarts + 1
  /\ caller' = [c \in Command |-> IF caller[c] \in {"none", "returned"} THEN caller[c] ELSE "gone"]
  /\ poll' = "none" /\ orphan' = "none"
  /\ UNCHANGED <<rowVars, read, answer, agentVars, losses>>

\* What the agent holds is lost; its poll goes on without it.
AgentRestart ==
  /\ restarts < MaxRestarts /\ restarts' = restarts + 1
  /\ lane' = [l \in Lane |-> Idle] /\ phase' = [l \in Lane |-> "start"]
  /\ poll' = "none" /\ orphan' = IF poll # "none" THEN poll ELSE orphan
  /\ UNCHANGED <<rowVars, callVars, executed, losses>>

-----------------------------------------------------------------------------
Requester(c) == Enqueue(c) \/ Look(c) \/ Withdraw(c) \/ Return(c)
Claim(c) == ClaimDelivered(c) \/ ClaimLost(c) \/ ClaimForgotten(c) \/ ClaimOrphaned(c)
Execution(l) == Refuse(l) \/ Run(l)
Reporting(l) == Report(l) \/ ReportBreaks(l) \/ ReportFault(l) \/ ReportFaultLost(l)

Next ==
  \/ \E c \in Command : Requester(c) \/ Lapse(c) \/ Claim(c)
  \/ PollFindsNothing \/ OrphanFindsNothing \/ PollBreaks \/ StartPoll
  \/ \E l \in Lane : Execution(l) \/ Reporting(l)
  \/ ServerRestart \/ AgentRestart

Spec == Init /\ [][Next]_vars

\* The agent's loop and the handlers of its polls keep running and the
\* executor returns; nothing is assumed of the local model's thread, of the
\* callers or of the clock that makes commands expire.
FairSpec ==
  /\ Spec
  /\ WF_vars(StartPoll) /\ WF_vars(PollFindsNothing)
  /\ WF_vars(\E c \in Command : ClaimDelivered(c))
  /\ WF_vars(Execution("main"))
  /\ WF_vars(Report("main") \/ ReportFault("main"))

-----------------------------------------------------------------------------
(***************************************************************************)
(* Properties.                                                             *)
(***************************************************************************)

\* Every variable has its type, and each lane holds commands of its own kind
\* (_run dispatches on the action).
TypeOK ==
  /\ status \in [Command -> Statuses]
  /\ payload \in [Command -> SUBSET {"arguments", "result"}]
  /\ lapsed \in [Command -> BOOLEAN]
  /\ caller \in [Command -> {"none", "waiting", "looked", "withdrawn", "returned", "gone"}]
  /\ read \in [Command -> Statuses]
  /\ answer \in [Command -> {"none", "result", "error", "not_accepted", "not_finished"}]
  /\ poll \in Polls /\ orphan \in Polls
  /\ lane \in [Lane -> Command \cup {Idle}]
  /\ lane["main"] \notin Llm /\ lane["llm"] \in Llm \cup {Idle}
  /\ phase \in [Lane -> {"start", "done", "fault"}]
  /\ executed \in [Command -> Nat]
  /\ losses \in 0 .. MaxLosses /\ restarts \in 0 .. MaxRestarts

\* Whatever the network loses and whoever restarts, no command is handed to
\* the executor twice: the compare-and-set of claim_next hands it out once.
ExecutedAtMostOnce == \A c \in Command : executed[c] <= 1

\* What a caller is told is so and stays so: a result belongs to a command
\* that was executed once and is recorded as succeeded (the second _complete
\* of a lost answer does not turn it into a failure), and a command reported
\* as expired never ran.
AnswersAreTrue ==
  \A c \in Command :
    /\ answer[c] = "result" => status[c] = "succeeded" /\ executed[c] = 1
    /\ answer[c] = "error" /\ status[c] = "expired" => executed[c] = 0

\* A command whose caller gave up in request_and_wait is off the queue: what
\* was not claimed by then never will be.
TimedOutLeavesQueue ==
  \A c \in Command \ Direct : caller[c] = "returned" => status[c] # "queued"

\* Once a remote command's outcome was delivered, its row holds neither its
\* arguments nor its result, and no late report brings the result back.
DeliveredIsScrubbed ==
  \A c \in Session : answer[c] \in {"result", "error"} => payload[c] = {}

\* The busy flag a poll was built from is still right when it is answered, up
\* to 25 seconds later: a poll that may bring local_llm_complete finds the
\* local model's lane free.
InferenceLaneFree == poll = "all" => lane["llm"] = Idle

\* The inductive invariant of the bridge.  What the row says, what a lane does
\* with the command and how often it ran agree:
RowInv ==
  \A c \in Command :
    /\ status[c] = "none" <=> caller[c] = "none"
    /\ executed[c] <= 1
    /\ status[c] \in {"none", "queued", "expired"} => executed[c] = 0
    /\ status[c] = "succeeded" => executed[c] = 1

LaneInv ==
  \A l \in Lane : lane[l] # Idle =>
    /\ phase[l] \in {"start", "done"} => status[lane[l]] = "claimed"
    /\ phase[l] = "start" => executed[lane[l]] = 0
    /\ phase[l] = "done" => executed[lane[l]] = 1
    /\ phase[l] = "fault" => status[lane[l]] \in {"claimed", "succeeded"}

\* What a caller read of a row stays so, for nothing returns to the queue:
CallerInv ==
  \A c \in Command :
    /\ read[c] \in Final => status[c] = read[c]
    /\ read[c] = "claimed" => status[c] \notin {"none", "queued"}
    /\ caller[c] \in {"none", "waiting"} => read[c] = "none"
    /\ caller[c] = "looked" => read[c] # "none"
    /\ caller[c] = "withdrawn" => status[c] # "queued" /\ read[c] = "queued" /\ c \notin Direct
    /\ answer[c] # "none" => caller[c] = "returned" /\ answer[c] = AnswerOf(c)

\* Together with what the callers are promised it is preserved by every step.
BridgeInv ==
  /\ TypeOK /\ RowInv /\ LaneInv /\ CallerInv
  /\ TimedOutLeavesQueue /\ DeliveredIsScrubbed /\ InferenceLaneFree

\* Local inference, however long, cannot keep the computer from app control:
\* every other command is finished, unless a message that carried it was lost
\* or a side that held it restarted.
ControlServed ==
  \A c \in Command \ Llm :
    status[c] = "queued" ~>
      \/ status[c] \in Final
      \/ status[c] = "claimed" /\ (losses > 0 \/ restarts > 0)

\* The bridge keeps the promise of CommandContract.
Contract == INSTANCE CommandContract
  WITH Command <- Command, status <- status, executed <- executed
ImplementsContract == Contract!Spec

\* What docs/V4_FINAL_NOTES.md says of every command: timed out for its
\* caller before it was claimed, it cannot execute later.
NoLateStart ==
  [][\A c \in Command :
       caller[c] = "returned" /\ status[c] = "queued" => status'[c] # "claimed"]_vars
=============================================================================
