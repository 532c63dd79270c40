------------------------- MODULE DeviceBridgeProofs -------------------------
(***************************************************************************)
(* Proofs about DeviceBridge, for any number of commands, losses and       *)
(* restarts: BridgeInv is inductive, the safety properties follow from it, *)
(* and every step of the bridge is a step of CommandContract or a stutter. *)
(***************************************************************************)
EXTENDS DeviceBridge, TLAPS

\* AnswerOf says "result" and "error" only of what was read in a final state.
LEMMA AnswerOfRead ==
  ASSUME NEW c \in Command
  PROVE  /\ AnswerOf(c) = "result" <=> read[c] = "succeeded"
         /\ AnswerOf(c) = "error" <=> read[c] \in {"failed", "expired"}
         /\ AnswerOf(c) \in {"result", "error", "not_accepted", "not_finished"}
<1>1. CASE read[c] = "succeeded"
  BY <1>1 DEF AnswerOf
<1>2. CASE read[c] \in {"failed", "expired"}
  BY <1>2 DEF AnswerOf
<1>3. CASE read[c] = "queued" /\ c \notin Direct
  BY <1>3 DEF AnswerOf
<1>4. CASE read[c] \notin {"succeeded", "failed", "expired"} /\ (read[c] = "queued" => c \in Direct)
  BY <1>4 DEF AnswerOf
<1> QED
  BY <1>1, <1>2, <1>3, <1>4

\* The bridge starts in its invariant ...
THEOREM InitInv == Init => BridgeInv
<1> SUFFICES ASSUME Init PROVE BridgeInv
  OBVIOUS
<1>1. TypeOK
  <2>1. 0 \in 0 .. MaxLosses /\ 0 \in 0 .. MaxRestarts
    BY BridgeAssumption
  <2>2. payload \in [Command -> SUBSET {"arguments", "result"}]
    BY DEF Init
  <2>3. lane \in [Lane -> Command \cup {Idle}] /\ phase \in [Lane -> {"start", "done", "fault"}]
    BY DEF Init
  <2>4. lane["main"] \notin Llm /\ lane["llm"] \in Llm \cup {Idle}
    BY BridgeAssumption DEF Init, Lane
  <2> QED
    BY <2>1, <2>2, <2>3, <2>4 DEF Init, TypeOK, Statuses, Polls
<1>2. RowInv /\ LaneInv
  BY DEF Init, RowInv, LaneInv, Lane
<1>3. CallerInv /\ TimedOutLeavesQueue
  BY DEF Init, CallerInv, TimedOutLeavesQueue, Final
<1>4. DeliveredIsScrubbed /\ InferenceLaneFree
  BY BridgeAssumption DEF Init, DeliveredIsScrubbed, InferenceLaneFree, Lane
<1> QED
  BY <1>1, <1>2, <1>3, <1>4 DEF BridgeInv

\* claim_next touches no row a lane holds: those have left the queue.
LEMMA HeldIsNotSwept ==
  ASSUME BridgeInv, NEW l \in Lane, lane[l] # Idle
  PROVE  /\ lane[l] \in Command
         /\ status[lane[l]] \in {"claimed", "succeeded"}
         /\ Swept[lane[l]] = status[lane[l]]
<1>1. lane[l] \in Command /\ phase[l] \in {"start", "done", "fault"}
  BY DEF BridgeInv, TypeOK
<1>2. status[lane[l]] \in {"claimed", "succeeded"}
  BY <1>1 DEF BridgeInv, LaneInv
<1> QED
  BY <1>1, <1>2 DEF Swept

LEMMA EnqueueKeeps ==
  ASSUME NEW c \in Command, BridgeInv, Enqueue(c)
  PROVE  BridgeInv'
<1> USE BridgeAssumption DEF BridgeInv, Enqueue, rowVars, callVars, pollVars, agentVars
<1>1. TypeOK'
  BY DEF TypeOK, Statuses, Polls, Lane
<1>2. RowInv'
  BY DEF TypeOK, RowInv, LaneInv, CallerInv, Statuses, Lane
<1>3. LaneInv'
  BY DEF TypeOK, RowInv, LaneInv, Statuses, Lane
<1>4. CallerInv'
  BY AnswerOfRead DEF TypeOK, RowInv, LaneInv, CallerInv, Statuses, Final, Lane, AnswerOf
<1>5. TimedOutLeavesQueue'
  BY DEF TypeOK, RowInv, CallerInv, TimedOutLeavesQueue, Statuses, Final
<1>6. DeliveredIsScrubbed'
  BY AnswerOfRead DEF TypeOK, RowInv, LaneInv, CallerInv, DeliveredIsScrubbed, Statuses, Final, Lane
<1>7. InferenceLaneFree'
  BY DEF TypeOK, InferenceLaneFree, Lane
<1> QED
  BY <1>1, <1>2, <1>3, <1>4, <1>5, <1>6, <1>7

LEMMA LookKeeps ==
  ASSUME NEW c \in Command, BridgeInv, Look(c)
  PROVE  BridgeInv'
<1> USE BridgeAssumption DEF BridgeInv, Look, rowVars, callVars, pollVars, agentVars
<1>1. TypeOK'
  BY DEF TypeOK, Statuses, Polls, Lane
<1>2. RowInv'
  BY DEF TypeOK, RowInv, LaneInv, CallerInv, Statuses, Lane
<1>3. LaneInv'
  BY DEF TypeOK, RowInv, LaneInv, Statuses, Lane
<1>4. CallerInv'
  BY AnswerOfRead DEF TypeOK, RowInv, LaneInv, CallerInv, Statuses, Final, Lane, AnswerOf
<1>5. TimedOutLeavesQueue'
  BY DEF TypeOK, RowInv, CallerInv, TimedOutLeavesQueue, Statuses, Final
<1>6. DeliveredIsScrubbed'
  BY AnswerOfRead DEF TypeOK, RowInv, LaneInv, CallerInv, DeliveredIsScrubbed, Statuses, Final, Lane
<1>7. InferenceLaneFree'
  BY DEF TypeOK, InferenceLaneFree, Lane
<1> QED
  BY <1>1, <1>2, <1>3, <1>4, <1>5, <1>6, <1>7

LEMMA WithdrawKeeps ==
  ASSUME NEW c \in Command, BridgeInv, Withdraw(c)
  PROVE  BridgeInv'
<1> USE BridgeAssumption DEF BridgeInv, Withdraw, rowVars, callVars, pollVars, agentVars
<1>1. TypeOK'
  BY DEF TypeOK, Statuses, Polls, Lane
<1>2. RowInv'
  BY DEF TypeOK, RowInv, LaneInv, CallerInv, Statuses, Lane
<1>3. LaneInv'
  BY DEF TypeOK, RowInv, LaneInv, Statuses, Lane
<1>4. CallerInv'
  BY AnswerOfRead DEF TypeOK, RowInv, LaneInv, CallerInv, Statuses, Final, Lane, AnswerOf
<1>5. TimedOutLeavesQueue'
  BY DEF TypeOK, RowInv, CallerInv, TimedOutLeavesQueue, Statuses, Final
<1>6. DeliveredIsScrubbed'
  BY AnswerOfRead DEF TypeOK, RowInv, LaneInv, CallerInv, DeliveredIsScrubbed, Statuses, Final, Lane
<1>7. InferenceLaneFree'
  BY DEF TypeOK, InferenceLaneFree, Lane
<1> QED
  BY <1>1, <1>2, <1>3, <1>4, <1>5, <1>6, <1>7

LEMMA ReturnKeeps ==
  ASSUME NEW c \in Command, BridgeInv, Return(c)
  PROVE  BridgeInv'
<1> USE BridgeAssumption DEF BridgeInv, Return, Scrubs, rowVars, callVars, pollVars, agentVars
<1>1. TypeOK'
  <2>1. answer' \in [Command -> {"none", "result", "error", "not_accepted", "not_finished"}]
    BY AnswerOfRead DEF TypeOK
  <2>2. payload' \in [Command -> SUBSET {"arguments", "result"}]
    BY DEF TypeOK
  <2> QED
    BY <2>1, <2>2 DEF TypeOK
<1>2. RowInv'
  BY DEF TypeOK, RowInv, LaneInv, CallerInv, Statuses, Lane
<1>3. LaneInv'
  BY DEF TypeOK, RowInv, LaneInv, Statuses, Lane
<1>4. CallerInv'
  BY AnswerOfRead DEF TypeOK, RowInv, LaneInv, CallerInv, Statuses, Final, Lane, AnswerOf
<1>5. TimedOutLeavesQueue'
  BY DEF TypeOK, RowInv, CallerInv, TimedOutLeavesQueue, Statuses, Final
<1>6. DeliveredIsScrubbed'
  BY AnswerOfRead DEF TypeOK, RowInv, LaneInv, CallerInv, DeliveredIsScrubbed, Statuses, Final, Lane
<1>7. InferenceLaneFree'
  BY DEF TypeOK, InferenceLaneFree, Lane
<1> QED
  BY <1>1, <1>2, <1>3, <1>4, <1>5, <1>6, <1>7

LEMMA LapseKeeps ==
  ASSUME NEW c \in Command, BridgeInv, Lapse(c)
  PROVE  BridgeInv'
<1> USE BridgeAssumption DEF BridgeInv, Lapse, rowVars, callVars, pollVars, agentVars
<1>1. TypeOK'
  BY DEF TypeOK, Statuses, Polls, Lane
<1>2. RowInv'
  BY DEF TypeOK, RowInv, LaneInv, CallerInv, Statuses, Lane
<1>3. LaneInv'
  BY DEF TypeOK, RowInv, LaneInv, Statuses, Lane
<1>4. CallerInv'
  BY AnswerOfRead DEF TypeOK, RowInv, LaneInv, CallerInv, Statuses, Final, Lane, AnswerOf
<1>5. TimedOutLeavesQueue'
  BY DEF TypeOK, RowInv, CallerInv, TimedOutLeavesQueue, Statuses, Final
<1>6. DeliveredIsScrubbed'
  BY AnswerOfRead DEF TypeOK, RowInv, LaneInv, CallerInv, DeliveredIsScrubbed, Statuses, Final, Lane
<1>7. InferenceLaneFree'
  BY DEF TypeOK, InferenceLaneFree, Lane
<1> QED
  BY <1>1, <1>2, <1>3, <1>4, <1>5, <1>6, <1>7

LEMMA ClaimDeliveredKeeps ==
  ASSUME NEW c \in Command, BridgeInv, ClaimDelivered(c)
  PROVE  BridgeInv'
<1> USE BridgeAssumption DEF BridgeInv, ClaimDelivered, Claimed, Oldest, Eligible, Swept, LaneOf, rowVars, callVars, pollVars, agentVars
<1>1. TypeOK'
  BY DEF TypeOK, Statuses, Polls, Lane
<1>2. RowInv'
  BY DEF TypeOK, RowInv, LaneInv, CallerInv, Statuses, Lane
<1>3. LaneInv'
  <2> SUFFICES ASSUME NEW l \in Lane, lane'[l] # Idle
               PROVE  /\ phase'[l] \in {"start", "done"} => status'[lane'[l]] = "claimed"
                      /\ phase'[l] = "start" => executed'[lane'[l]] = 0
                      /\ phase'[l] = "done" => executed'[lane'[l]] = 1
                      /\ phase'[l] = "fault" => status'[lane'[l]] \in {"claimed", "succeeded"}
    BY DEF LaneInv
  <2>1. CASE l = LaneOf(c)
    <3>1. lane'[l] = c /\ phase'[l] = "start" /\ status'[c] = "claimed"
      BY <2>1 DEF TypeOK
    <3>2. executed'[c] = 0
      BY DEF RowInv
    <3> QED
      BY <3>1, <3>2
  <2>2. CASE l # LaneOf(c)
    <3>1. lane'[l] = lane[l] /\ phase'[l] = phase[l]
      BY <2>2 DEF TypeOK
    <3>2. status'[lane[l]] = status[lane[l]]
      BY <3>1, HeldIsNotSwept
    <3> QED
      BY <3>1, <3>2 DEF LaneInv
  <2> QED
    BY <2>1, <2>2
<1>4. CallerInv'
  BY AnswerOfRead DEF TypeOK, RowInv, LaneInv, CallerInv, Statuses, Final, Lane, AnswerOf
<1>5. TimedOutLeavesQueue'
  BY DEF TypeOK, RowInv, CallerInv, TimedOutLeavesQueue, Statuses, Final
<1>6. DeliveredIsScrubbed'
  BY AnswerOfRead DEF TypeOK, RowInv, LaneInv, CallerInv, DeliveredIsScrubbed, Statuses, Final, Lane
<1>7. InferenceLaneFree'
  BY DEF TypeOK, InferenceLaneFree, Lane
<1> QED
  BY <1>1, <1>2, <1>3, <1>4, <1>5, <1>6, <1>7

LEMMA ClaimLostKeeps ==
  ASSUME NEW c \in Command, BridgeInv, ClaimLost(c)
  PROVE  BridgeInv'
<1> USE BridgeAssumption DEF BridgeInv, ClaimLost, Claimed, Oldest, Eligible, Swept, rowVars, callVars, pollVars, agentVars
<1>1. TypeOK'
  BY DEF TypeOK, Statuses, Polls, Lane
<1>2. RowInv'
  BY DEF TypeOK, RowInv, LaneInv, CallerInv, Statuses, Lane
<1>3. LaneInv'
  <2> SUFFICES ASSUME NEW l \in Lane, lane[l] # Idle
               PROVE  status'[lane[l]] = status[lane[l]]
    BY DEF LaneInv
  <2> QED
    BY HeldIsNotSwept DEF TypeOK
<1>4. CallerInv'
  BY AnswerOfRead DEF TypeOK, RowInv, LaneInv, CallerInv, Statuses, Final, Lane, AnswerOf
<1>5. TimedOutLeavesQueue'
  BY DEF TypeOK, RowInv, CallerInv, TimedOutLeavesQueue, Statuses, Final
<1>6. DeliveredIsScrubbed'
  BY AnswerOfRead DEF TypeOK, RowInv, LaneInv, CallerInv, DeliveredIsScrubbed, Statuses, Final, Lane
<1>7. InferenceLaneFree'
  BY DEF TypeOK, InferenceLaneFree, Lane
<1> QED
  BY <1>1, <1>2, <1>3, <1>4, <1>5, <1>6, <1>7

LEMMA ClaimForgottenKeeps ==
  ASSUME NEW c \in Command, BridgeInv, ClaimForgotten(c)
  PROVE  BridgeInv'
<1> USE BridgeAssumption DEF BridgeInv, ClaimForgotten, Claimed, Oldest, Eligible, Swept, rowVars, callVars, pollVars, agentVars
<1>1. TypeOK'
  BY DEF TypeOK, Statuses, Polls, Lane
<1>2. RowInv'
  BY DEF TypeOK, RowInv, LaneInv, CallerInv, Statuses, Lane
<1>3. LaneInv'
  <2> SUFFICES ASSUME NEW l \in Lane, lane[l] # Idle
               PROVE  status'[lane[l]] = status[lane[l]]
    BY DEF LaneInv
  <2> QED
    BY HeldIsNotSwept DEF TypeOK
<1>4. CallerInv'
  BY AnswerOfRead DEF TypeOK, RowInv, LaneInv, CallerInv, Statuses, Final, Lane, AnswerOf
<1>5. TimedOutLeavesQueue'
  BY DEF TypeOK, RowInv, CallerInv, TimedOutLeavesQueue, Statuses, Final
<1>6. DeliveredIsScrubbed'
  BY AnswerOfRead DEF TypeOK, RowInv, LaneInv, CallerInv, DeliveredIsScrubbed, Statuses, Final, Lane
<1>7. InferenceLaneFree'
  BY DEF TypeOK, InferenceLaneFree, Lane
<1> QED
  BY <1>1, <1>2, <1>3, <1>4, <1>5, <1>6, <1>7

LEMMA ClaimOrphanedKeeps ==
  ASSUME NEW c \in Command, BridgeInv, ClaimOrphaned(c)
  PROVE  BridgeInv'
<1> USE BridgeAssumption DEF BridgeInv, ClaimOrphaned, Claimed, Oldest, Eligible, Swept, rowVars, callVars, pollVars, agentVars
<1>1. TypeOK'
  BY DEF TypeOK, Statuses, Polls, Lane
<1>2. RowInv'
  BY DEF TypeOK, RowInv, LaneInv, CallerInv, Statuses, Lane
<1>3. LaneInv'
  <2> SUFFICES ASSUME NEW l \in Lane, lane[l] # Idle
               PROVE  status'[lane[l]] = status[lane[l]]
    BY DEF LaneInv
  <2> QED
    BY HeldIsNotSwept DEF TypeOK
<1>4. CallerInv'
  BY AnswerOfRead DEF TypeOK, RowInv, LaneInv, CallerInv, Statuses, Final, Lane, AnswerOf
<1>5. TimedOutLeavesQueue'
  BY DEF TypeOK, RowInv, CallerInv, TimedOutLeavesQueue, Statuses, Final
<1>6. DeliveredIsScrubbed'
  BY AnswerOfRead DEF TypeOK, RowInv, LaneInv, CallerInv, DeliveredIsScrubbed, Statuses, Final, Lane
<1>7. InferenceLaneFree'
  BY DEF TypeOK, InferenceLaneFree, Lane
<1> QED
  BY <1>1, <1>2, <1>3, <1>4, <1>5, <1>6, <1>7

LEMMA PollFindsNothingKeeps ==
  ASSUME BridgeInv, PollFindsNothing
  PROVE  BridgeInv'
<1> USE BridgeAssumption DEF BridgeInv, PollFindsNothing, Swept, rowVars, callVars, pollVars, agentVars
<1>1. TypeOK'
  BY DEF TypeOK, Statuses, Polls, Lane
<1>2. RowInv'
  BY DEF TypeOK, RowInv, LaneInv, CallerInv, Statuses, Lane
<1>3. LaneInv'
  BY DEF TypeOK, RowInv, LaneInv, Statuses, Lane
<1>4. CallerInv'
  BY AnswerOfRead DEF TypeOK, RowInv, LaneInv, CallerInv, Statuses, Final, Lane, AnswerOf
<1>5. TimedOutLeavesQueue'
  BY DEF TypeOK, RowInv, CallerInv, TimedOutLeavesQueue, Statuses, Final
<1>6. DeliveredIsScrubbed'
  BY AnswerOfRead DEF TypeOK, RowInv, LaneInv, CallerInv, DeliveredIsScrubbed, Statuses, Final, Lane
<1>7. InferenceLaneFree'
  BY DEF TypeOK, InferenceLaneFree, Lane
<1> QED
  BY <1>1, <1>2, <1>3, <1>4, <1>5, <1>6, <1>7

LEMMA OrphanFindsNothingKeeps ==
  ASSUME BridgeInv, OrphanFindsNothing
  PROVE  BridgeInv'
<1> USE BridgeAssumption DEF BridgeInv, OrphanFindsNothing, Swept, rowVars, callVars, pollVars, agentVars
<1>1. TypeOK'
  BY DEF TypeOK, Statuses, Polls, Lane
<1>2. RowInv'
  BY DEF TypeOK, RowInv, LaneInv, CallerInv, Statuses, Lane
<1>3. LaneInv'
  BY DEF TypeOK, RowInv, LaneInv, Statuses, Lane
<1>4. CallerInv'
  BY AnswerOfRead DEF TypeOK, RowInv, LaneInv, CallerInv, Statuses, Final, Lane, AnswerOf
<1>5. TimedOutLeavesQueue'
  BY DEF TypeOK, RowInv, CallerInv, TimedOutLeavesQueue, Statuses, Final
<1>6. DeliveredIsScrubbed'
  BY AnswerOfRead DEF TypeOK, RowInv, LaneInv, CallerInv, DeliveredIsScrubbed, Statuses, Final, Lane
<1>7. InferenceLaneFree'
  BY DEF TypeOK, InferenceLaneFree, Lane
<1> QED
  BY <1>1, <1>2, <1>3, <1>4, <1>5, <1>6, <1>7

LEMMA PollBreaksKeeps ==
  ASSUME BridgeInv, PollBreaks
  PROVE  BridgeInv'
<1> USE BridgeAssumption DEF BridgeInv, PollBreaks, rowVars, callVars, pollVars, agentVars
<1>1. TypeOK'
  BY DEF TypeOK, Statuses, Polls, Lane
<1>2. RowInv'
  BY DEF TypeOK, RowInv, LaneInv, CallerInv, Statuses, Lane
<1>3. LaneInv'
  BY DEF TypeOK, RowInv, LaneInv, Statuses, Lane
<1>4. CallerInv'
  BY AnswerOfRead DEF TypeOK, RowInv, LaneInv, CallerInv, Statuses, Final, Lane, AnswerOf
<1>5. TimedOutLeavesQueue'
  BY DEF TypeOK, RowInv, CallerInv, TimedOutLeavesQueue, Statuses, Final
<1>6. DeliveredIsScrubbed'
  BY AnswerOfRead DEF TypeOK, RowInv, LaneInv, CallerInv, DeliveredIsScrubbed, Statuses, Final, Lane
<1>7. InferenceLaneFree'
  BY DEF TypeOK, InferenceLaneFree, Lane
<1> QED
  BY <1>1, <1>2, <1>3, <1>4, <1>5, <1>6, <1>7

LEMMA StartPollKeeps ==
  ASSUME BridgeInv, StartPoll
  PROVE  BridgeInv'
<1> USE BridgeAssumption DEF BridgeInv, StartPoll, NewPoll, rowVars, callVars, pollVars, agentVars
<1>1. TypeOK'
  BY DEF TypeOK, Statuses, Polls, Lane
<1>2. RowInv'
  BY DEF TypeOK, RowInv, LaneInv, CallerInv, Statuses, Lane
<1>3. LaneInv'
  BY DEF TypeOK, RowInv, LaneInv, Statuses, Lane
<1>4. CallerInv'
  BY AnswerOfRead DEF TypeOK, RowInv, LaneInv, CallerInv, Statuses, Final, Lane, AnswerOf
<1>5. TimedOutLeavesQueue'
  BY DEF TypeOK, RowInv, CallerInv, TimedOutLeavesQueue, Statuses, Final
<1>6. DeliveredIsScrubbed'
  BY AnswerOfRead DEF TypeOK, RowInv, LaneInv, CallerInv, DeliveredIsScrubbed, Statuses, Final, Lane
<1>7. InferenceLaneFree'
  BY DEF TypeOK, InferenceLaneFree, Lane
<1> QED
  BY <1>1, <1>2, <1>3, <1>4, <1>5, <1>6, <1>7

LEMMA RefuseKeeps ==
  ASSUME NEW l \in Lane, BridgeInv, Refuse(l)
  PROVE  BridgeInv'
<1> USE BridgeAssumption DEF BridgeInv, Refuse, rowVars, callVars, pollVars, agentVars
<1>1. TypeOK'
  BY DEF TypeOK, Statuses, Polls, Lane
<1>2. RowInv'
  BY DEF TypeOK, RowInv, LaneInv, CallerInv, Statuses, Lane
<1>3. LaneInv'
  BY DEF TypeOK, RowInv, LaneInv, Statuses, Lane
<1>4. CallerInv'
  BY AnswerOfRead DEF TypeOK, RowInv, LaneInv, CallerInv, Statuses, Final, Lane, AnswerOf
<1>5. TimedOutLeavesQueue'
  BY DEF TypeOK, RowInv, CallerInv, TimedOutLeavesQueue, Statuses, Final
<1>6. DeliveredIsScrubbed'
  BY AnswerOfRead DEF TypeOK, RowInv, LaneInv, CallerInv, DeliveredIsScrubbed, Statuses, Final, Lane
<1>7. InferenceLaneFree'
  BY DEF TypeOK, InferenceLaneFree, Lane
<1> QED
  BY <1>1, <1>2, <1>3, <1>4, <1>5, <1>6, <1>7

LEMMA RunKeeps ==
  ASSUME NEW l \in Lane, BridgeInv, Run(l)
  PROVE  BridgeInv'
<1> USE BridgeAssumption DEF BridgeInv, Run, rowVars, callVars, pollVars, agentVars
<1>1. TypeOK'
  <2>1. executed' \in [Command -> Nat]
    <3>1. lane[l] \in Command
      BY HeldIsNotSwept
    <3>2. executed[lane[l]] \in Nat
      BY <3>1 DEF TypeOK
    <3> QED
      BY <3>1, <3>2 DEF TypeOK
  <2>2. phase' \in [Lane -> {"start", "done", "fault"}]
    BY DEF TypeOK
  <2> QED
    BY <2>1, <2>2 DEF TypeOK
<1>2. RowInv'
  BY DEF TypeOK, RowInv, LaneInv, CallerInv, Statuses, Lane
<1>3. LaneInv'
  BY DEF TypeOK, RowInv, LaneInv, Statuses, Lane
<1>4. CallerInv'
  BY AnswerOfRead DEF TypeOK, RowInv, LaneInv, CallerInv, Statuses, Final, Lane, AnswerOf
<1>5. TimedOutLeavesQueue'
  BY DEF TypeOK, RowInv, CallerInv, TimedOutLeavesQueue, Statuses, Final
<1>6. DeliveredIsScrubbed'
  BY AnswerOfRead DEF TypeOK, RowInv, LaneInv, CallerInv, DeliveredIsScrubbed, Statuses, Final, Lane
<1>7. InferenceLaneFree'
  BY DEF TypeOK, InferenceLaneFree, Lane
<1> QED
  BY <1>1, <1>2, <1>3, <1>4, <1>5, <1>6, <1>7

\* The two lanes never hold the same command: each holds its own kind.
LEMMA LanesDiffer ==
  ASSUME BridgeInv, NEW k \in Lane, NEW l \in Lane, k # l, lane[k] # Idle
  PROVE  lane[k] # lane[l]
BY BridgeAssumption DEF BridgeInv, TypeOK, Lane

LEMMA ReportKeeps ==
  ASSUME NEW l \in Lane, BridgeInv, Report(l)
  PROVE  BridgeInv'
<1> USE BridgeAssumption DEF BridgeInv, Report, Complete, Completable, Freed, rowVars, callVars, pollVars, agentVars
<1>1. TypeOK'
  BY DEF TypeOK, Statuses, Polls, Lane
<1>2. RowInv'
  BY DEF TypeOK, RowInv, LaneInv, CallerInv, Statuses, Lane
<1>3. LaneInv'
  BY DEF TypeOK, RowInv, LaneInv, Statuses, Lane
<1>4. CallerInv'
  BY AnswerOfRead DEF TypeOK, RowInv, LaneInv, CallerInv, Statuses, Final, Lane, AnswerOf
<1>5. TimedOutLeavesQueue'
  BY DEF TypeOK, RowInv, CallerInv, TimedOutLeavesQueue, Statuses, Final
<1>6. DeliveredIsScrubbed'
  BY AnswerOfRead DEF TypeOK, RowInv, LaneInv, CallerInv, DeliveredIsScrubbed, Statuses, Final, Lane
<1>7. InferenceLaneFree'
  BY DEF TypeOK, InferenceLaneFree, Lane
<1> QED
  BY <1>1, <1>2, <1>3, <1>4, <1>5, <1>6, <1>7

LEMMA ReportBreaksKeeps ==
  ASSUME NEW l \in Lane, BridgeInv, ReportBreaks(l)
  PROVE  BridgeInv'
<1> USE BridgeAssumption DEF BridgeInv, ReportBreaks, Complete, Completable, rowVars, callVars, pollVars, agentVars
<1>1. TypeOK'
  BY DEF TypeOK, Statuses, Polls, Lane
<1>2. RowInv'
  BY DEF TypeOK, RowInv, LaneInv, CallerInv, Statuses, Lane
<1>3. LaneInv'
  <2> SUFFICES ASSUME NEW k \in Lane, lane'[k] # Idle
               PROVE  /\ phase'[k] \in {"start", "done"} => status'[lane'[k]] = "claimed"
                      /\ phase'[k] = "start" => executed'[lane'[k]] = 0
                      /\ phase'[k] = "done" => executed'[lane'[k]] = 1
                      /\ phase'[k] = "fault" => status'[lane'[k]] \in {"claimed", "succeeded"}
    BY DEF LaneInv
  <2>1. CASE k = l
    <3>1. lane'[l] = lane[l] /\ phase'[l] = "fault" /\ lane[l] \in Command
      BY HeldIsNotSwept DEF TypeOK
    <3>2. status[lane[l]] = "claimed"
      BY DEF LaneInv
    <3>3. status'[lane[l]] \in {"claimed", "succeeded"}
      BY <3>1, <3>2 DEF TypeOK
    <3> QED
      BY <2>1, <3>1, <3>3
  <2>2. CASE k # l
    <3>1. lane'[k] = lane[k] /\ phase'[k] = phase[k] /\ lane[k] # lane[l]
      BY <2>2, LanesDiffer DEF TypeOK
    <3>2. lane[k] \in Command /\ status'[lane[k]] = status[lane[k]]
      BY <3>1, HeldIsNotSwept DEF TypeOK
    <3> QED
      BY <3>1, <3>2 DEF LaneInv
  <2> QED
    BY <2>1, <2>2
<1>4. CallerInv'
  BY AnswerOfRead DEF TypeOK, RowInv, LaneInv, CallerInv, Statuses, Final, Lane, AnswerOf
<1>5. TimedOutLeavesQueue'
  BY DEF TypeOK, RowInv, CallerInv, TimedOutLeavesQueue, Statuses, Final
<1>6. DeliveredIsScrubbed'
  BY AnswerOfRead DEF TypeOK, RowInv, LaneInv, CallerInv, DeliveredIsScrubbed, Statuses, Final, Lane
<1>7. InferenceLaneFree'
  BY DEF TypeOK, InferenceLaneFree, Lane
<1> QED
  BY <1>1, <1>2, <1>3, <1>4, <1>5, <1>6, <1>7

LEMMA ReportFaultKeeps ==
  ASSUME NEW l \in Lane, BridgeInv, ReportFault(l)
  PROVE  BridgeInv'
<1> USE BridgeAssumption DEF BridgeInv, ReportFault, Complete, Completable, Freed, rowVars, callVars, pollVars, agentVars
<1>1. TypeOK'
  <2>1. /\ status' \in [Command -> Statuses]
        /\ payload' \in [Command -> SUBSET {"arguments", "result"}] /\ lapsed' = lapsed
    BY DEF TypeOK, Statuses
  <2>2. /\ lane' \in [Lane -> Command \cup {Idle}]
        /\ lane'["main"] \notin Llm /\ lane'["llm"] \in Llm \cup {Idle}
    BY DEF TypeOK, Lane
  <2> QED
    BY <2>1, <2>2 DEF TypeOK
<1>2. RowInv'
  BY DEF TypeOK, RowInv, LaneInv, CallerInv, Statuses, Lane
<1>3. LaneInv'
  <2> SUFFICES ASSUME NEW k \in Lane, lane'[k] # Idle
               PROVE  /\ phase'[k] \in {"start", "done"} => status'[lane'[k]] = "claimed"
                      /\ phase'[k] = "start" => executed'[lane'[k]] = 0
                      /\ phase'[k] = "done" => executed'[lane'[k]] = 1
                      /\ phase'[k] = "fault" => status'[lane'[k]] \in {"claimed", "succeeded"}
    BY DEF LaneInv
  <2>1. CASE k = l
    BY <2>1 DEF TypeOK
  <2>2. CASE k # l
    <3>1. lane'[k] = lane[k] /\ phase'[k] = phase[k] /\ lane[k] # lane[l]
      BY <2>2, LanesDiffer DEF TypeOK
    <3>2. lane[k] \in Command /\ status'[lane[k]] = status[lane[k]]
      BY <3>1, HeldIsNotSwept DEF TypeOK
    <3> QED
      BY <3>1, <3>2 DEF LaneInv
  <2> QED
    BY <2>1, <2>2
<1>4. CallerInv'
  BY AnswerOfRead DEF TypeOK, RowInv, LaneInv, CallerInv, Statuses, Final, Lane, AnswerOf
<1>5. TimedOutLeavesQueue'
  BY DEF TypeOK, RowInv, CallerInv, TimedOutLeavesQueue, Statuses, Final
<1>6. DeliveredIsScrubbed'
  BY AnswerOfRead DEF TypeOK, RowInv, LaneInv, CallerInv, DeliveredIsScrubbed, Statuses, Final, Lane
<1>7. InferenceLaneFree'
  BY DEF TypeOK, InferenceLaneFree, Lane
<1> QED
  BY <1>1, <1>2, <1>3, <1>4, <1>5, <1>6, <1>7

LEMMA ReportFaultLostKeeps ==
  ASSUME NEW l \in Lane, BridgeInv, ReportFaultLost(l)
  PROVE  BridgeInv'
<1> USE BridgeAssumption DEF BridgeInv, ReportFaultLost, Freed, rowVars, callVars, pollVars, agentVars
<1>1. TypeOK'
  <2>1. losses' \in 0 .. MaxLosses
    BY DEF TypeOK
  <2>2. lane' \in [Lane -> Command \cup {Idle}]
    BY DEF TypeOK
  <2>3. lane'["main"] \notin Llm /\ lane'["llm"] \in Llm \cup {Idle}
    BY DEF TypeOK, Lane
  <2> QED
    BY <2>1, <2>2, <2>3 DEF TypeOK
<1>2. RowInv'
  BY DEF TypeOK, RowInv, LaneInv, CallerInv, Statuses, Lane
<1>3. LaneInv'
  BY DEF TypeOK, RowInv, LaneInv, Statuses, Lane
<1>4. CallerInv'
  BY AnswerOfRead DEF TypeOK, RowInv, LaneInv, CallerInv, Statuses, Final, Lane, AnswerOf
<1>5. TimedOutLeavesQueue'
  BY DEF TypeOK, RowInv, CallerInv, TimedOutLeavesQueue, Statuses, Final
<1>6. DeliveredIsScrubbed'
  BY AnswerOfRead DEF TypeOK, RowInv, LaneInv, CallerInv, DeliveredIsScrubbed, Statuses, Final, Lane
<1>7. InferenceLaneFree'
  BY DEF TypeOK, InferenceLaneFree, Lane
<1> QED
  BY <1>1, <1>2, <1>3, <1>4, <1>5, <1>6, <1>7

LEMMA ServerRestartKeeps ==
  ASSUME BridgeInv, ServerRestart
  PROVE  BridgeInv'
<1> USE BridgeAssumption DEF BridgeInv, ServerRestart, rowVars, callVars, pollVars, agentVars
<1>1. TypeOK'
  BY DEF TypeOK, Statuses, Polls, Lane
<1>2. RowInv'
  BY DEF TypeOK, RowInv, LaneInv, CallerInv, Statuses, Lane
<1>3. LaneInv'
  BY DEF TypeOK, RowInv, LaneInv, Statuses, Lane
<1>4. CallerInv'
  BY AnswerOfRead DEF TypeOK, RowInv, LaneInv, CallerInv, Statuses, Final, Lane, AnswerOf
<1>5. TimedOutLeavesQueue'
  BY DEF TypeOK, RowInv, CallerInv, TimedOutLeavesQueue, Statuses, Final
<1>6. DeliveredIsScrubbed'
  BY AnswerOfRead DEF TypeOK, RowInv, LaneInv, CallerInv, DeliveredIsScrubbed, Statuses, Final, Lane
<1>7. InferenceLaneFree'
  BY DEF TypeOK, InferenceLaneFree, Lane
<1> QED
  BY <1>1, <1>2, <1>3, <1>4, <1>5, <1>6, <1>7

LEMMA AgentRestartKeeps ==
  ASSUME BridgeInv, AgentRestart
  PROVE  BridgeInv'
<1> USE BridgeAssumption DEF BridgeInv, AgentRestart, rowVars, callVars, pollVars, agentVars
<1>1. TypeOK'
  <2>1. restarts' \in 0 .. MaxRestarts
    BY DEF TypeOK
  <2>2. lane' \in [Lane -> Command \cup {Idle}] /\ phase' \in [Lane -> {"start", "done", "fault"}]
    BY DEF TypeOK
  <2>3. lane'["main"] \notin Llm /\ lane'["llm"] \in Llm \cup {Idle}
    BY DEF Lane
  <2>4. poll' \in Polls /\ orphan' \in Polls
    BY DEF TypeOK, Polls
  <2> QED
    BY <2>1, <2>2, <2>3, <2>4 DEF TypeOK
<1>2. RowInv'
  BY DEF TypeOK, RowInv, LaneInv, CallerInv, Statuses, Lane
<1>3. LaneInv'
  BY DEF TypeOK, RowInv, LaneInv, Statuses, Lane
<1>4. CallerInv'
  BY AnswerOfRead DEF TypeOK, RowInv, LaneInv, CallerInv, Statuses, Final, Lane, AnswerOf
<1>5. TimedOutLeavesQueue'
  BY DEF TypeOK, RowInv, CallerInv, TimedOutLeavesQueue, Statuses, Final
<1>6. DeliveredIsScrubbed'
  BY AnswerOfRead DEF TypeOK, RowInv, LaneInv, CallerInv, DeliveredIsScrubbed, Statuses, Final, Lane
<1>7. InferenceLaneFree'
  BY DEF TypeOK, InferenceLaneFree, Lane
<1> QED
  BY <1>1, <1>2, <1>3, <1>4, <1>5, <1>6, <1>7

\* ... and every step of a caller, the server, the agent or the network keeps it.
THEOREM StepKeeps == BridgeInv /\ [Next]_vars => BridgeInv'
<1> SUFFICES ASSUME BridgeInv, [Next]_vars PROVE BridgeInv'
  OBVIOUS
<1>1. ASSUME NEW c \in Command, Requester(c) \/ Lapse(c) \/ Claim(c) PROVE BridgeInv'
  BY <1>1, EnqueueKeeps, LookKeeps, WithdrawKeeps, ReturnKeeps, LapseKeeps, ClaimDeliveredKeeps,
     ClaimLostKeeps, ClaimForgottenKeeps, ClaimOrphanedKeeps DEF Requester, Claim
<1>2. CASE PollFindsNothing \/ OrphanFindsNothing \/ PollBreaks \/ StartPoll
  BY <1>2, PollFindsNothingKeeps, OrphanFindsNothingKeeps, PollBreaksKeeps, StartPollKeeps
<1>3. ASSUME NEW l \in Lane, Execution(l) \/ Reporting(l) PROVE BridgeInv'
  BY <1>3, RefuseKeeps, RunKeeps, ReportKeeps, ReportBreaksKeeps, ReportFaultKeeps,
     ReportFaultLostKeeps DEF Execution, Reporting
<1>4. CASE ServerRestart \/ AgentRestart
  BY <1>4, ServerRestartKeeps, AgentRestartKeeps
<1>5. CASE UNCHANGED vars
  <2> USE <1>5 DEF vars, rowVars, callVars, pollVars, agentVars, BridgeInv
  <2>1. TypeOK' /\ RowInv' /\ LaneInv'
    BY DEF TypeOK, RowInv, LaneInv
  <2>2. CallerInv' /\ TimedOutLeavesQueue' /\ DeliveredIsScrubbed' /\ InferenceLaneFree'
    BY DEF CallerInv, AnswerOf, TimedOutLeavesQueue, DeliveredIsScrubbed, InferenceLaneFree
  <2> QED
    BY <2>1, <2>2
<1> QED
  BY <1>1, <1>2, <1>3, <1>4, <1>5 DEF Next

\* The rows, the lanes and the callers agree in every reachable state: the
\* inductive invariant of the store, the agent and the requesters together.
THEOREM BridgeInvariant == Spec => []BridgeInv
BY InitInv, StepKeeps, PTL DEF Spec

\* Every variable of the bridge keeps its type, and a lane its kind of command.
THEOREM BridgeTypeCorrect == Spec => []TypeOK
<1>1. BridgeInv => TypeOK
  BY DEF BridgeInv
<1> QED
  BY <1>1, BridgeInvariant, PTL

\* However many messages are lost and whoever restarts how often, claim_next
\* hands no command to the executor twice.
THEOREM AtMostOnce == Spec => []ExecutedAtMostOnce
<1>1. BridgeInv => ExecutedAtMostOnce
  BY DEF BridgeInv, RowInv, ExecutedAtMostOnce
<1> QED
  BY <1>1, BridgeInvariant, PTL

\* A caller of request_and_wait or remote_request_and_wait that was given a
\* result was given the result of the one execution, and "expired" means the
\* command did not run.
THEOREM AnswersHold == Spec => []AnswersAreTrue
<1>1. BridgeInv => AnswersAreTrue
  <2> SUFFICES ASSUME BridgeInv, NEW c \in Command
               PROVE  /\ answer[c] = "result" => status[c] = "succeeded" /\ executed[c] = 1
                      /\ answer[c] = "error" /\ status[c] = "expired" => executed[c] = 0
    BY DEF AnswersAreTrue
  <2>1. answer[c] = "result" => read[c] = "succeeded"
    BY AnswerOfRead DEF BridgeInv, CallerInv
  <2> QED
    BY <2>1 DEF BridgeInv, RowInv, CallerInv, Final
<1> QED
  BY <1>1, BridgeInvariant, PTL

\* What request_and_wait gave up on before it was claimed never starts later.
THEOREM GivenUpIsOffQueue == Spec => []TimedOutLeavesQueue
<1>1. BridgeInv => TimedOutLeavesQueue
  BY DEF BridgeInv
<1> QED
  BY <1>1, BridgeInvariant, PTL

\* A delivered remote outcome leaves no payload behind, now or later.
THEOREM DeliveredStaysScrubbed == Spec => []DeliveredIsScrubbed
<1>1. BridgeInv => DeliveredIsScrubbed
  BY DEF BridgeInv
<1> QED
  BY <1>1, BridgeInvariant, PTL

\* A poll that may bring a local inference finds the local model free.
THEOREM InferenceIsAlone == Spec => []InferenceLaneFree
<1>1. BridgeInv => InferenceLaneFree
  BY DEF BridgeInv
<1> QED
  BY <1>1, BridgeInvariant, PTL

-----------------------------------------------------------------------------
(***************************************************************************)
(* The bridge implements CommandContract.                                  *)
(***************************************************************************)

\* A claim_next that found a row is ExpireAndClaim of what it swept and of it.
LEMMA ClaimImplements ==
  ASSUME BridgeInv, NEW p, NEW c \in Command, Claimed(p, c), UNCHANGED executed
  PROVE  Contract!Next
<1> DEFINE E == {b \in Command : status[b] = "queued" /\ lapsed[b]}
<1>1. E \in SUBSET Command /\ {c} \in SUBSET Command
  OBVIOUS
<1>2. status[c] = "queued" /\ ~ lapsed[c]
  BY DEF Claimed, Oldest, Eligible
<1>3. status' = [b \in Command |-> IF b \in {c} THEN "claimed"
                                   ELSE IF b \in E THEN "expired" ELSE status[b]]
  BY DEF Claimed, Swept
<1>4. Contract!ExpireAndClaim(E, {c})
  BY <1>2, <1>3 DEF Contract!ExpireAndClaim
<1> QED
  BY <1>1, <1>4 DEF Contract!Next

\* One that found none is ExpireAndClaim of what it swept alone.
LEMMA SweepImplements ==
  ASSUME BridgeInv, status' = Swept, UNCHANGED executed
  PROVE  Contract!Next
<1> DEFINE E == {b \in Command : status[b] = "queued" /\ lapsed[b]}
<1>1. status' = [b \in Command |-> IF b \in {} THEN "claimed"
                                   ELSE IF b \in E THEN "expired" ELSE status[b]]
  BY DEF Swept
<1>2. Contract!ExpireAndClaim(E, {})
  BY <1>1 DEF Contract!ExpireAndClaim
<1>3. E \in SUBSET Command /\ {} \in SUBSET Command
  OBVIOUS
<1> QED
  BY <1>2, <1>3 DEF Contract!Next

LEMMA RequesterImplements ==
  ASSUME BridgeInv, NEW c \in Command, Requester(c)
  PROVE  Contract!Next \/ UNCHANGED <<status, executed>>
<1>1. CASE Enqueue(c)
  <2>1. Contract!Request(c)
    BY <1>1 DEF BridgeInv, RowInv, Enqueue, agentVars, Contract!Request
  <2> QED
    BY <2>1 DEF Contract!Next
<1>2. CASE Look(c) \/ Return(c)
  BY <1>2 DEF Look, Return, rowVars, agentVars
<1>3. CASE Withdraw(c) /\ status[c] = "queued"
  <2>1. status' = [b \in Command |-> IF b \in {} THEN "claimed"
                                     ELSE IF b \in {c} THEN "expired" ELSE status[b]]
    BY <1>3 DEF Withdraw, BridgeInv, TypeOK
  <2>2. Contract!ExpireAndClaim({c}, {})
    BY <1>3, <2>1 DEF Withdraw, agentVars, Contract!ExpireAndClaim
  <2>3. {c} \in SUBSET Command /\ {} \in SUBSET Command
    OBVIOUS
  <2> QED
    BY <2>2, <2>3 DEF Contract!Next
<1>4. CASE Withdraw(c) /\ status[c] # "queued"
  BY <1>4 DEF Withdraw, agentVars, BridgeInv, TypeOK
<1> QED
  BY <1>1, <1>2, <1>3, <1>4 DEF Requester

\* The agent's steps execute what is claimed, or report its end, or nothing.
LEMMA AgentImplements ==
  ASSUME BridgeInv, NEW l \in Lane, Execution(l) \/ Reporting(l)
  PROVE  Contract!Next \/ UNCHANGED <<status, executed>>
<1>1. lane[l] # Idle
  BY DEF Execution, Reporting, Refuse, Run, Report, ReportBreaks, ReportFault, ReportFaultLost
<1>2. lane[l] \in Command
  BY <1>1, HeldIsNotSwept
<1>3. CASE Refuse(l) \/ ReportFaultLost(l)
  BY <1>3 DEF Refuse, ReportFaultLost, rowVars, agentVars
<1>4. CASE Run(l)
  <2>1. status[lane[l]] = "claimed" /\ executed[lane[l]] = 0
    BY <1>1, <1>4 DEF BridgeInv, LaneInv, Run
  <2>2. executed' = [executed EXCEPT ![lane[l]] = 1] /\ UNCHANGED status
    BY <1>4, <2>1 DEF Run, rowVars
  <2>3. Contract!Execute(lane[l])
    BY <2>1, <2>2 DEF Contract!Execute
  <2> QED
    BY <1>2, <2>3 DEF Contract!Next
<1>5. CASE (Report(l) \/ ReportBreaks(l)) /\ Complete(lane[l], "succeeded")
  <2>1. executed[lane[l]] = 1
    BY <1>1, <1>5 DEF BridgeInv, LaneInv, Report, ReportBreaks
  <2>2. Contract!Succeed(lane[l])
    BY <1>5, <2>1 DEF Report, ReportBreaks, Complete, Completable, agentVars, Contract!Succeed
  <2> QED
    BY <1>2, <2>2 DEF Contract!Next
<1>6. CASE ReportBreaks(l) /\ UNCHANGED rowVars
  BY <1>6 DEF ReportBreaks, rowVars
<1>7. CASE ReportFault(l) /\ Completable(lane[l])
  <2>1. Contract!Fail(lane[l])
    BY <1>7 DEF ReportFault, Complete, Completable, Contract!Fail
  <2> QED
    BY <1>2, <2>1 DEF Contract!Next
<1>8. CASE ReportFault(l) /\ ~ Completable(lane[l])
  BY <1>8 DEF ReportFault, rowVars
<1>9. Report(l) => Complete(lane[l], "succeeded")
  BY DEF Report
<1>10. ReportBreaks(l) => Complete(lane[l], "succeeded") \/ UNCHANGED rowVars
  BY DEF ReportBreaks
<1> QED
  BY <1>3, <1>4, <1>5, <1>6, <1>7, <1>8, <1>9, <1>10 DEF Execution, Reporting

\* Every behaviour of the bridge, with its losses and restarts, is one that
\* CommandContract allows: at most one execution, after the one claim, and
\* final outcomes that never report a success nothing earned.
THEOREM BridgeImplementsContract == Spec => ImplementsContract
<1>1. Init => Contract!Init
  BY DEF Init, Contract!Init
<1>2. BridgeInv /\ [Next]_vars => [Contract!Next]_<<status, executed>>
  <2> SUFFICES ASSUME BridgeInv, [Next]_vars
               PROVE  Contract!Next \/ UNCHANGED <<status, executed>>
    OBVIOUS
  <2>1. ASSUME NEW c \in Command, Claim(c) PROVE Contract!Next
    BY <2>1, ClaimImplements
       DEF Claim, ClaimDelivered, ClaimLost, ClaimForgotten, ClaimOrphaned, agentVars
  <2>2. ASSUME NEW c \in Command, Lapse(c) PROVE UNCHANGED <<status, executed>>
    BY <2>2 DEF Lapse, agentVars
  <2>3. CASE PollFindsNothing \/ OrphanFindsNothing
    BY <2>3, SweepImplements DEF PollFindsNothing, OrphanFindsNothing, agentVars
  <2>4. CASE PollBreaks \/ StartPoll \/ ServerRestart \/ AgentRestart \/ UNCHANGED vars
    BY <2>4 DEF PollBreaks, StartPoll, ServerRestart, AgentRestart, vars, rowVars, agentVars
  <2> QED
    BY <2>1, <2>2, <2>3, <2>4, RequesterImplements, AgentImplements DEF Next
<1> QED
  BY <1>1, <1>2, BridgeInvariant, PTL DEF Spec, ImplementsContract, Contract!Spec
=============================================================================
