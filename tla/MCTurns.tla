------------------------------ MODULE MCTurns ------------------------------
(***************************************************************************)
(* Small instances for TLC of one turn of the agent and of the requests    *)
(* that ask for turns.  A behaviour is one of a single instance: "part"    *)
(* names it, and the others stay in their initial states.                  *)
(***************************************************************************)
EXTENDS Workflow, Chat

VARIABLE part

\* Two routes with calls of their own: fresh_observe and desktop_vision.
DistinctArgs == [r \in Route |-> r]

\* The route whose observation of the foreground is the one the probe makes.
FreshArgs == "fresh_observe"

\* Every request is of a turn of its own.
DistinctTurns == [r \in Request |-> r]

\* Of a whole turn with every tool, TLC sees three calls and one recovery.  The
\* second recovery by one route, and what the contract of a replan does to routes,
\* the model and the probe, need more of both: "recovery" is a turn of one reply that
\* only verifies and observes.
TurnCalls == 3
TurnRecoveries == 1
Observing == {"verify", "observe_ui", "observe"}
OnlyObserves(t) == \A c \in Call : c[1] \notin Observing => t.count[c] = 0 /\ ~ t.failed[c]

TurnsInit == part \in {"turn", "recovery", "requests"} /\ Init /\ ChatInit
TurnNext ==
  /\ part = "turn" /\ Next
  /\ calls' <= TurnCalls /\ tracker'.recoveries <= TurnRecoveries
  /\ UNCHANGED <<part, chatVars>>
RecoveryNext ==
  /\ part = "recovery" /\ Next /\ OnlyObserves(tracker')
  /\ phase = "model" => step = 0 /\ CallTools
  /\ UNCHANGED <<part, chatVars>>
RequestsNext == part = "requests" /\ ChatNext /\ UNCHANGED <<part, vars>>
TurnsNext == TurnNext \/ RecoveryNext \/ RequestsNext

TurnsSpec ==
  /\ TurnsInit /\ [][TurnsNext]_<<part, vars, chatVars>>
  /\ \A r \in Request : WF_chatVars(part = "requests" /\ Server(r))
  /\ \A r \in Live :
       /\ SF_chatVars(part = "requests" /\ EndTurn(r))
       /\ WF_chatVars(part = "requests" /\ (Read(r) \/ Disconnect(r)))

\* What must happen in the instance of the requests: Served of Chat.
RequestsServed == part = "requests" => Served
=============================================================================
