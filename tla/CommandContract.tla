-------------------------- MODULE CommandContract --------------------------
(***************************************************************************)
(* What the device bridge promises about a command, whatever its requester *)
(* and the network do: a command is executed at most once and only after   *)
(* it was claimed, its outcome is final, and it is only reported as        *)
(* succeeded once it was executed.  DeviceBridge implements it.            *)
(***************************************************************************)
EXTENDS Naturals

CONSTANT Command

VARIABLES
  status,   \* the state of the command's row
  executed  \* how many times a device executed it

Statuses == {"none", "queued", "claimed", "succeeded", "failed", "expired"}

Init ==
  /\ status = [c \in Command |-> "none"]
  /\ executed = [c \in Command |-> 0]

Request(c) ==
  /\ status[c] = "none"
  /\ status' = [status EXCEPT ![c] = "queued"]
  /\ UNCHANGED executed

\* Queued commands may expire at any time, and one that has not may be claimed.
ExpireAndClaim(E, C) ==
  /\ \A c \in E \cup C : status[c] = "queued"
  /\ \A b, c \in C : b = c
  /\ status' = [c \in Command |-> IF c \in C THEN "claimed"
                                  ELSE IF c \in E THEN "expired" ELSE status[c]]
  /\ UNCHANGED executed

Execute(c) ==
  /\ status[c] = "claimed" /\ executed[c] = 0
  /\ executed' = [executed EXCEPT ![c] = 1]
  /\ UNCHANGED status

Succeed(c) ==
  /\ status[c] = "claimed" /\ executed[c] = 1
  /\ status' = [status EXCEPT ![c] = "succeeded"]
  /\ UNCHANGED executed

\* A failure says nothing about what the device did.
Fail(c) ==
  /\ status[c] = "claimed"
  /\ status' = [status EXCEPT ![c] = "failed"]
  /\ UNCHANGED executed

Next ==
  \/ \E c \in Command : Request(c) \/ Execute(c) \/ Succeed(c) \/ Fail(c)
  \/ \E E, C \in SUBSET Command : ExpireAndClaim(E, C)

Spec == Init /\ [][Next]_<<status, executed>>
=============================================================================
