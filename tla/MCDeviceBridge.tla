--------------------------- MODULE MCDeviceBridge ---------------------------
(***************************************************************************)
(* Small instances of DeviceBridge for TLC: the first command is a local   *)
(* inference, the last a direct remote call, one between them an action of *)
(* a chat session.                                                         *)
(***************************************************************************)
EXTENDS DeviceBridge
=============================================================================
