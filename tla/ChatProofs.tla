----------------------------- MODULE ChatProofs -----------------------------
(***************************************************************************)
(* Proofs about Chat: for any requests, whatever their kinds and their     *)
(* number, the agent runs with the settings of the request that holds the  *)
(* lock, and a buffered stream reports its own metrics.                    *)
(***************************************************************************)
EXTENDS Chat, TLAPS

\* A request is inside exactly while it holds the lock.
LockInv == \A r \in Request : pc[r] \in Inside <=> lock = r

\* The settings are those of the request between its scopes, which saved the
\* agent's own.
SettingsInv ==
  /\ \A r \in Request : pc[r] \in Scoped => settings = r /\ saved[r] = NoRequest
  /\ (\A r \in Request : pc[r] \notin Scoped) => settings = NoRequest

\* The metrics of a turn stay until its scopes are left, where a buffered stream
\* copies them; nothing writes its copy again.
MetricsInv ==
  /\ \A r \in Request : pc[r] = "leave" /\ r \notin erred => metrics = r
  /\ \A r \in Buffered : pc[r] = "release" /\ r \notin erred => reported[r] = r
  /\ \A r \in Buffered : pc[r] \in {"token", "record", "tail", "done"} => reported[r] = r
  /\ \A r \in Buffered : pc[r] # "report"

Inv == ChatTypeOK /\ LockInv /\ SettingsInv /\ MetricsInv

LEMMA InitInv == ASSUME ChatInit PROVE Inv
  BY ChatAssumption DEF ChatInit, Inv, ChatTypeOK, LockInv, SettingsInv, MetricsInv,
         Inside, Scoped, Buffered, Streamed, Ended

\* Every step leaves the variables in their types.
LEMMA TypeStep == ASSUME ChatTypeOK, [ChatNext]_chatVars PROVE ChatTypeOK'
<1> USE ChatAssumption DEF ChatTypeOK, Goto, Agent, Rows, Inside, Ended, Turns
<1>1. CASE UNCHANGED chatVars
  BY <1>1 DEF chatVars
<1>2. ASSUME NEW r \in Request, LookUp(r) PROVE ChatTypeOK'
  BY <1>2 DEF LookUp
<1>3. ASSUME NEW r \in Request, Insert(r) PROVE ChatTypeOK'
  <2>1. Turn[r] \in Turns /\ users[Turn[r]] \in Nat
    BY DEF Turns
  <2>2. users' \in [Turns -> Nat]
    BY <1>3, <2>1 DEF Insert
  <2> QED BY <1>3, <2>2 DEF Insert
<1>4. ASSUME NEW r \in Request, AnswerInstantly(r) PROVE ChatTypeOK'
  BY <1>4 DEF AnswerInstantly
<1>5. ASSUME NEW r \in Request, Acquire(r) \/ Queue(r) \/ QueueTimesOut(r) PROVE ChatTypeOK'
  BY <1>5 DEF Acquire, Queue, QueueTimesOut
<1>6. ASSUME NEW r \in Request, EnterScopes(r) PROVE ChatTypeOK'
  BY <1>6 DEF EnterScopes
<1>7. ASSUME NEW r \in Request, MakeToken(r) \/ EndTurn(r) PROVE ChatTypeOK'
  BY <1>7 DEF MakeToken, EndTurn
<1>8. ASSUME NEW r \in Request, LeaveScopes(r) PROVE ChatTypeOK'
  BY <1>8 DEF LeaveScopes
<1>9. ASSUME NEW r \in Request, Release(r) \/ Report(r) PROVE ChatTypeOK'
  BY <1>9 DEF Release, Report
<1>10. ASSUME NEW r \in Request, Record(r) PROVE ChatTypeOK'
  BY <1>10 DEF Record
<1>11. ASSUME NEW r \in Request, Read(r) PROVE ChatTypeOK'
  BY <1>11 DEF Read
<1>12. ASSUME NEW r \in Request, Disconnect(r) PROVE ChatTypeOK'
  BY <1>12 DEF Disconnect
<1> QED
  BY <1>1, <1>2, <1>3, <1>4, <1>5, <1>6, <1>7, <1>8, <1>9, <1>10, <1>11, <1>12 DEF ChatNext, Server

\* A step of one request that is in none of the scopes, before and after it, and
\* that keeps the lock with whom it is.
LEMMA OutsideStep ==
  ASSUME Inv, ChatTypeOK', NEW r \in Request, NEW l, pc' = [pc EXCEPT ![r] = l],
         pc[r] \notin Inside, l \notin Inside, UNCHANGED <<Agent, erred>>,
         r \in Buffered => l # "report" /\ UNCHANGED reported
                           /\ (l \in {"token", "record", "tail", "done"}
                               => pc[r] \in {"token", "record", "tail"}),
         \A q \in Request \ {r} : reported'[q] = reported[q]
  PROVE  Inv'
  BY DEF Inv, ChatTypeOK, LockInv, SettingsInv, MetricsInv, Inside, Scoped, Agent, Buffered, Streamed

\* Every step preserves the invariant.
LEMMA StepInv == ASSUME Inv, [ChatNext]_chatVars PROVE Inv'
<1>0. ChatTypeOK' /\ ChatTypeOK
  BY TypeStep DEF Inv
<1>1. CASE UNCHANGED chatVars
  BY <1>1, <1>0 DEF chatVars, Inv, LockInv, SettingsInv, MetricsInv
<1>2. ASSUME NEW r \in Request, LookUp(r) PROVE Inv'
  BY <1>2, <1>0, OutsideStep DEF LookUp, Goto, Inside
<1>3. ASSUME NEW r \in Request, Insert(r) PROVE Inv'
  <2> DEFINE l == IF r \in Plain THEN "route" ELSE "start"
  <2>1. pc' = [pc EXCEPT ![r] = l] /\ pc[r] = "looked" /\ UNCHANGED <<Agent, erred, reported>>
    BY <1>3 DEF Insert, Goto
  <2>2. l \in {"route", "start"}
    OBVIOUS
  <2> HIDE DEF l
  <2> QED BY <2>1, <2>2, <1>0, OutsideStep DEF Inside
<1>4. ASSUME NEW r \in Request, AnswerInstantly(r) PROVE Inv'
  <2>1. PICK l \in {"record", "token", "failed", "error"} : pc' = [pc EXCEPT ![r] = l]
    BY <1>4 DEF AnswerInstantly, Goto
  <2>2. pc[r] = "route" /\ r \notin Buffered /\ UNCHANGED <<Agent, erred, reported>>
    BY <1>4 DEF AnswerInstantly, Buffered
  <2> QED BY <2>1, <2>2, <1>0, OutsideStep DEF Inside
<1>5. ASSUME NEW r \in Request, Acquire(r) PROVE Inv'
  BY <1>5, <1>0, ChatAssumption DEF Acquire, Goto, Inv, ChatTypeOK, LockInv, SettingsInv, MetricsInv,
         Inside, Scoped, Rows, Buffered, Streamed
<1>6. ASSUME NEW r \in Request, Queue(r) \/ QueueTimesOut(r) PROVE Inv'
  <2>1. PICK l \in {"queued", "error"} : pc' = [pc EXCEPT ![r] = l]
    BY <1>6 DEF Queue, QueueTimesOut, Goto
  <2>2. pc[r] \in {"route", "queued"} /\ UNCHANGED <<Agent, erred, reported>>
    BY <1>6 DEF Queue, QueueTimesOut
  <2> QED BY <2>1, <2>2, <1>0, OutsideStep DEF Inside
<1>7. ASSUME NEW r \in Request, EnterScopes(r) PROVE Inv'
  BY <1>7, <1>0, ChatAssumption DEF EnterScopes, Goto, Inv, ChatTypeOK, LockInv, SettingsInv,
         MetricsInv, Inside, Scoped, Rows, Buffered, Streamed
<1>8. ASSUME NEW r \in Request, MakeToken(r) PROVE Inv'
  BY <1>8, <1>0 DEF MakeToken, Goto, Agent, Inv, ChatTypeOK, LockInv, SettingsInv, MetricsInv, Inside,
         Scoped, Rows, Buffered, Streamed
<1>9. ASSUME NEW r \in Request, EndTurn(r) PROVE Inv'
  BY <1>9, <1>0 DEF EndTurn, Goto, Inv, ChatTypeOK, LockInv, SettingsInv, MetricsInv, Inside, Scoped,
         Rows, Buffered, Streamed
<1>10. ASSUME NEW r \in Request, LeaveScopes(r) PROVE Inv'
  BY <1>10, <1>0 DEF LeaveScopes, Goto, Inv, ChatTypeOK, LockInv, SettingsInv, MetricsInv, Inside,
         Scoped, Rows, Buffered, Streamed
<1>11. ASSUME NEW r \in Request, Release(r) PROVE Inv'
  BY <1>11, <1>0, ChatAssumption DEF Release, Goto, Inv, ChatTypeOK, LockInv, SettingsInv,
         MetricsInv, Inside, Scoped, Rows, Buffered, Streamed
<1>12. ASSUME NEW r \in Request, Report(r) PROVE Inv'
  <2>1. r \notin Buffered /\ pc[r] = "report" /\ pc' = [pc EXCEPT ![r] = "record"]
    BY <1>12 DEF Report, Goto, Inv, MetricsInv
  <2>2. \A q \in Request \ {r} : reported'[q] = reported[q]
    BY <1>12, <1>0 DEF Report, ChatTypeOK
  <2> QED BY <1>12, <2>1, <2>2, <1>0, OutsideStep DEF Report, Inside
<1>13. ASSUME NEW r \in Request, Record(r) PROVE Inv'
  <2>1. PICK l \in {"done", "failed", "tail"} : pc' = [pc EXCEPT ![r] = l]
    BY <1>13 DEF Record, Goto
  <2>2. pc[r] = "record" /\ UNCHANGED <<Agent, erred, reported>>
    BY <1>13 DEF Record
  <2> QED BY <2>1, <2>2, <1>0, OutsideStep DEF Inside
<1>14. ASSUME NEW r \in Request, Read(r) PROVE Inv'
  <2>1. CASE pc[r] = "streaming"
    BY <1>14, <2>1, <1>0 DEF Read, Goto, Agent, Inv, ChatTypeOK, LockInv, SettingsInv, MetricsInv, Inside,
         Scoped, Rows, Buffered, Streamed
  <2>2. CASE pc[r] # "streaming"
    <3>1. PICK l \in {"route", "record", "done", "failed"} :
            /\ pc' = [pc EXCEPT ![r] = l]
            /\ l \in {"record", "done"} => pc[r] \in {"token", "tail"}
      BY <1>14, <2>2 DEF Read, Goto
    <3>2. pc[r] \notin Inside /\ UNCHANGED <<Agent, erred, reported>>
      BY <1>14, <2>2 DEF Read, Inside
    <3> QED BY <3>1, <3>2, <1>0, OutsideStep DEF Inside
  <2> QED BY <2>1, <2>2
<1>15. ASSUME NEW r \in Request, Disconnect(r) PROVE Inv'
  <2>1. CASE pc[r] = "streaming"
    BY <1>15, <2>1, <1>0, ChatAssumption DEF Disconnect, Goto, Inv, ChatTypeOK, LockInv, SettingsInv,
         MetricsInv, Inside, Scoped, Rows, Buffered, Streamed
  <2>2. CASE pc[r] # "streaming"
    <3>1. pc' = [pc EXCEPT ![r] = "gone"] /\ pc[r] \notin Inside
      BY <1>15, <2>2 DEF Disconnect, Goto, Inside
    <3>2. UNCHANGED <<Agent, erred, reported>>
      BY <1>15, <2>2 DEF Disconnect, Agent
    <3> QED BY <3>1, <3>2, <1>0, OutsideStep DEF Inside
  <2> QED BY <2>1, <2>2
<1> QED
  BY <1>1, <1>2, <1>3, <1>4, <1>5, <1>6, <1>7, <1>8, <1>9, <1>10, <1>11, <1>12, <1>13, <1>14, <1>15
     DEF ChatNext, Server

\* Who holds the lock, the settings and the metrics: the inductive invariant.
THEOREM Invariance == ChatSpec => []Inv
<1>1. ChatInit => Inv
  BY InitInv
<1>2. Inv /\ [ChatNext]_chatVars => Inv'
  BY StepInv
<1> QED BY <1>1, <1>2, PTL DEF ChatSpec

\* The variables stay in their types.
THEOREM TypeCorrect == ChatSpec => []ChatTypeOK
<1>1. Inv => ChatTypeOK
  BY DEF Inv
<1> QED BY <1>1, Invariance, PTL

\* However many requests of whatever kinds follow each other, fail or lose their
\* client, none runs with the settings of another, and none are left behind.
THEOREM SettingsAreOwn == ChatSpec => []OwnSettings
<1>1. Inv => OwnSettings
  BY DEF Inv, SettingsInv, OwnSettings
<1> QED BY <1>1, Invariance, PTL

\* A buffered stream reports the metrics of its own turn, whoever has run since.
THEOREM MetricsAreOwn == ChatSpec => []OwnMetrics
<1>1. Inv => OwnMetrics
  BY DEF Inv, MetricsInv, OwnMetrics
<1> QED BY <1>1, Invariance, PTL
=============================================================================
