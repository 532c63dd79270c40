-------------------------------- MODULE Chat --------------------------------
(***************************************************************************)
(* The chat endpoints of the cloud API (src/src/iras/cloud_api.py,         *)
(* /v1/chat and /v1/chat/stream): many requests, one agent.  A request     *)
(* stores the user's message, takes agent_lock, puts its own settings into *)
(* the shared agent (context, permissions, step budget, provider: one      *)
(* value here, the request whose settings they are), runs the agent,       *)
(* restores what it found, releases the lock and answers.  A streamed      *)
(* request is a generator: at every event it waits for its client, which   *)
(* may read, be slow, or disconnect.  The agent and the clients are the    *)
(* environment.                                                            *)
(***************************************************************************)
EXTENDS Naturals

CONSTANTS
  Request,     \* the requests
  Plain,       \* those to /v1/chat; the others are streamed
  Live,        \* streamed ones without tools, whose tokens come as they are made
  Instant,     \* ones answered without the agent: a run is started, a command refused ...
  Turn,        \* turn_id of each request: a retry of the client has the same
  NoRequest

VARIABLES
  pc,          \* where the handler of a request is
  lock,        \* who holds agent_lock
  settings,    \* whose settings the shared agent has
  saved,       \* what the scopes of a request restore
  erred,       \* the requests whose agent raised
  metrics,     \* whose turn agent.last_metrics describes
  reported,    \* whose metrics the answer to a request carries
  found,       \* the requests whose lookup found the message of the turn
  users,       \* rows of the user's message, by turn
  answers      \* rows of the answer, by request

chatVars == <<pc, lock, settings, saved, erred, metrics, reported, found, users, answers>>

Streamed == Request \ Plain
Buffered == Streamed \ (Live \cup Instant)
Turns == {Turn[r] : r \in Request}
Ended == {"done", "failed", "gone"}

ASSUME ChatAssumption ==
  /\ Plain \subseteq Request /\ Live \subseteq Request \ Plain
  /\ Instant \subseteq Request \ Live
  /\ NoRequest \notin Request

ChatInit ==
  /\ pc = [r \in Request |-> "new"]
  /\ lock = NoRequest /\ settings = NoRequest /\ metrics = NoRequest
  /\ saved = [r \in Request |-> NoRequest]
  /\ reported = [r \in Request |-> NoRequest]
  /\ erred = {} /\ found = {}
  /\ users = [t \in Turns |-> 0]
  /\ answers = [r \in Request |-> 0]

Goto(r, l) == pc' = [pc EXCEPT ![r] = l]
Agent == <<lock, settings, saved, metrics>>
Rows == <<found, users, answers>>

-----------------------------------------------------------------------------
\* _begin_cloud_turn: add_message looks the message of the turn up ...
LookUp(r) ==
  /\ pc[r] = "new" /\ Goto(r, "looked")
  /\ found' = IF users[Turn[r]] > 0 THEN found \cup {r} ELSE found
  /\ UNCHANGED <<Agent, erred, reported, users, answers>>

\* ... and inserts it when it was not there.
Insert(r) ==
  /\ pc[r] = "looked" /\ Goto(r, IF r \in Plain THEN "route" ELSE "start")
  /\ users' = IF r \in found THEN users ELSE [users EXCEPT ![Turn[r]] = @ + 1]
  /\ UNCHANGED <<Agent, erred, reported, found, answers>>

\* The branches that need no agent: they answer, or raise.
AnswerInstantly(r) ==
  /\ pc[r] = "route" /\ r \in Instant
  /\ \/ Goto(r, IF r \in Plain THEN "record" ELSE "token")
     \/ Goto(r, IF r \in Plain THEN "failed" ELSE "error")
  /\ UNCHANGED <<Agent, erred, reported, Rows>>

\* agent_lock is acquired, by a stream at once or after some "queued" events.
Acquire(r) ==
  /\ pc[r] \in {"route", "queued"} /\ r \notin Instant
  /\ lock = NoRequest /\ lock' = r
  /\ Goto(r, "locked")
  /\ UNCHANGED <<settings, saved, metrics, erred, reported, Rows>>

Queue(r) ==
  /\ pc[r] = "route" /\ r \in Streamed \ Instant
  /\ lock # NoRequest
  /\ Goto(r, "queued")
  /\ UNCHANGED <<Agent, erred, reported, Rows>>

\* The wait of a stream is limited, that of /v1/chat is not.
QueueTimesOut(r) ==
  /\ pc[r] = "queued" /\ lock # NoRequest
  /\ Goto(r, "error")
  /\ UNCHANGED <<Agent, erred, reported, Rows>>

\* The four scopes are entered, unless the messages cannot be read.
EnterScopes(r) ==
  /\ pc[r] = "locked"
  /\ \/ /\ saved' = [saved EXCEPT ![r] = settings] /\ settings' = r
        /\ Goto(r, "running") /\ UNCHANGED erred
     \/ /\ erred' = erred \cup {r} /\ Goto(r, "release")
        /\ UNCHANGED <<saved, settings>>
  /\ UNCHANGED <<lock, metrics, reported, Rows>>

\* A token of a live stream waits for the client inside the lock; those of a
\* buffered one wait until it is released.  (A slip: they do not.)
MakeTokenLocked(r) ==
  /\ pc[r] = "running" /\ r \in Live \cup Buffered
  /\ Goto(r, "streaming")
  /\ UNCHANGED <<Agent, erred, reported, Rows>>
MakeToken(r) ==
  /\ pc[r] = "running" /\ r \in Live
  /\ Goto(r, "streaming")
  /\ UNCHANGED <<Agent, erred, reported, Rows>>

\* The agent ends its turn and describes it in last_metrics, or raises.
EndTurn(r) ==
  /\ pc[r] = "running" /\ Goto(r, "leave")
  /\ \/ metrics' = r /\ UNCHANGED erred
     \/ erred' = erred \cup {r} /\ UNCHANGED metrics
  /\ UNCHANGED <<lock, settings, saved, reported, Rows>>

\* The scopes are left.  A buffered stream copies the metrics then.
LeaveScopes(r) ==
  /\ pc[r] = "leave" /\ Goto(r, "release")
  /\ settings' = saved[r]
  /\ reported' = IF r \in Buffered THEN [reported EXCEPT ![r] = metrics] ELSE reported
  /\ UNCHANGED <<lock, saved, metrics, erred, Rows>>

\* A slip: a buffered stream, too, reads the metrics after the release.
ReleaseThenReport(r) ==
  /\ pc[r] = "release"
  /\ lock' = NoRequest
  /\ Goto(r, IF r \in erred THEN IF r \in Plain THEN "failed" ELSE "error" ELSE "report")
  /\ UNCHANGED <<settings, saved, metrics, erred, reported, Rows>>

Release(r) ==
  /\ pc[r] = "release"
  /\ lock' = NoRequest
  /\ Goto(r, IF r \in erred THEN IF r \in Plain THEN "failed" ELSE "error"
             ELSE IF r \in Buffered THEN "token" ELSE "report")
  /\ UNCHANGED <<settings, saved, metrics, erred, reported, Rows>>

\* /v1/chat and a live stream read the metrics after the release.
Report(r) ==
  /\ pc[r] = "report" /\ Goto(r, "record")
  /\ reported' = [reported EXCEPT ![r] = metrics]
  /\ UNCHANGED <<Agent, erred, Rows>>

\* _finish_cloud_turn, for a stream when its "done" event passes; the row may
\* fail to be written, which /v1/chat reports and a stream does not.
Record(r) ==
  /\ pc[r] = "record"
  /\ \/ answers' = [answers EXCEPT ![r] = @ + 1] /\ Goto(r, IF r \in Plain THEN "done" ELSE "tail")
     \/ UNCHANGED answers /\ Goto(r, IF r \in Plain THEN "failed" ELSE "tail")
  /\ UNCHANGED <<Agent, erred, reported, found, users>>

Server(r) ==
  \/ LookUp(r) \/ Insert(r) \/ AnswerInstantly(r) \/ Acquire(r) \/ Queue(r) \/ QueueTimesOut(r)
  \/ EnterScopes(r) \/ MakeToken(r) \/ EndTurn(r) \/ LeaveScopes(r) \/ Release(r)
  \/ Report(r) \/ Record(r)

-----------------------------------------------------------------------------
\* The client reads the event its stream waits with.
Read(r) ==
  /\ \/ pc[r] = "start" /\ Goto(r, "route")
     \/ pc[r] = "streaming" /\ Goto(r, "running")
     \/ pc[r] = "token" /\ Goto(r, "record")
     \/ pc[r] = "tail" /\ Goto(r, "done")
     \/ pc[r] = "error" /\ Goto(r, "failed")
  /\ UNCHANGED <<Agent, erred, reported, Rows>>

\* A slip: the lock is released, the settings stay.
DisconnectBare(r) ==
  /\ pc[r] \in {"start", "queued", "streaming", "token", "tail", "error"}
  /\ Goto(r, "gone")
  /\ IF pc[r] = "streaming" THEN lock' = NoRequest ELSE UNCHANGED lock
  /\ UNCHANGED <<settings, saved, metrics, erred, reported, Rows>>

\* The client is gone and the generator is closed where it waits: what it
\* entered is left, what it holds is released.
Disconnect(r) ==
  /\ pc[r] \in {"start", "queued", "streaming", "token", "tail", "error"}
  /\ Goto(r, "gone")
  /\ IF pc[r] = "streaming" THEN settings' = saved[r] /\ lock' = NoRequest
     ELSE UNCHANGED <<settings, lock>>
  /\ UNCHANGED <<saved, metrics, erred, reported, Rows>>

ChatNext == \E r \in Request : Server(r) \/ Read(r) \/ Disconnect(r)

ChatSpec == ChatInit /\ [][ChatNext]_chatVars

\* The server's threads run, and the client of a live stream reads or leaves;
\* the client of a buffered stream may stall for ever.  The tokens of a live
\* answer are finitely many; the turns of other requests make none.
ChatFairness ==
  /\ \A r \in Request : WF_chatVars(Server(r))
  /\ \A r \in Live : SF_chatVars(EndTurn(r)) /\ WF_chatVars(Read(r) \/ Disconnect(r))

ChatFairSpec == ChatSpec /\ ChatFairness

-----------------------------------------------------------------------------
Inside == {"locked", "running", "streaming", "leave", "release"}
Scoped == {"running", "streaming", "leave"}

ChatTypeOK ==
  /\ pc \in [Request -> {"new", "looked", "start", "route", "queued", "report", "record",
                         "token", "tail", "error"} \cup Inside \cup Ended]
  /\ lock \in Request \cup {NoRequest} /\ settings \in Request \cup {NoRequest}
  /\ metrics \in Request \cup {NoRequest}
  /\ saved \in [Request -> Request \cup {NoRequest}]
  /\ reported \in [Request -> Request \cup {NoRequest}]
  /\ erred \subseteq Request /\ found \subseteq Request
  /\ users \in [Turns -> Nat] /\ answers \in [Request -> Nat]

\* The shared agent has the settings of the request it runs for, and its own
\* whenever no request is between its scopes: however requests follow each
\* other, fail or lose their client, none runs with the settings of another.
OwnSettings ==
  /\ \A r \in Request : pc[r] \in Scoped => settings = r
  /\ (\A r \in Request : pc[r] \notin Scoped) => settings = NoRequest

\* A buffered stream reports the metrics of its own turn, whichever request the
\* agent has served by the time its client reads them.
OwnMetrics ==
  \A r \in Buffered : pc[r] \in {"record", "tail", "done"} => reported[r] = r

\* A client that stalls on a buffered stream delays nobody: every other request
\* ends.
Served == <>(\A r \in Plain \cup Live : pc[r] \in Ended)
=============================================================================
