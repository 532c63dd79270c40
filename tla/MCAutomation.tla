---------------------------- MODULE MCAutomation ----------------------------
(***************************************************************************)
(* One automation of an interval, for TLC: the constants of Automation     *)
(* that a configuration cannot give.                                       *)
(***************************************************************************)
EXTENDS Automation

MCTrigger == [a \in Autos |-> a]
MCEvent == [d \in Delivery |-> "e"]
=============================================================================
