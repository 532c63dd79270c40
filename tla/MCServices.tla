----------------------------- MODULE MCServices -----------------------------
(***************************************************************************)
(* Small instances of background services of the server for TLC: the       *)
(* parallel tasks, an automation that time triggers and one that webhooks  *)
(* trigger.  The services share nothing, so a behaviour is one of a single *)
(* service: "service" names it, and the others stay in their initial       *)
(* states.                                                                 *)
(***************************************************************************)
EXTENDS Multitask, Automation

VARIABLE service

\* Two runs of one requester and a run of another.
MCRequester == [r \in Run |-> IF r = 3 THEN "web" ELSE "cloud"]

\* One automation that runs once and one that an event triggers, of which the
\* deliveries tell.
MCTrigger == [a \in Autos |-> IF a = "timer" THEN "once" ELSE "event"]
MCEvent == [d \in Delivery |-> "e"]

\* The owner adds no automation but a.
Alone(a) == \A b \in Autos \ {a} : row[b].is = "none"

ServicesInit == service \in {"tasks", "timers", "hooks"} /\ Init /\ AutoInit

TasksNext == service = "tasks" /\ Next /\ UNCHANGED <<service, autoVars>>
TimersNext ==
  service = "timers" /\ AutoNext /\ Alone("timer")' /\ UNCHANGED <<service, vars, delivery>>
HooksNext == service = "hooks" /\ AutoNext /\ Alone("hook")' /\ UNCHANGED <<service, vars>>

ServicesNext == TasksNext \/ TimersNext \/ HooksNext

\* The fairness of each service, where it runs.
TimersFairness ==
  /\ WF_autoVars(service = "timers" /\ Loop)
  /\ \A k \in Runner \ Delivery : WF_autoVars(service = "timers" /\ Execute(k))
  /\ WF_autoVars(service = "timers" /\ ~ Used("timer") /\ LeaseLapses("timer"))

ServicesSpec ==
  ServicesInit /\ [][ServicesNext]_<<service, vars, autoVars>> /\ Fairness /\ TimersFairness
=============================================================================
