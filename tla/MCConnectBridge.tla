-------------------------- MODULE MCConnectBridge --------------------------
(* The instance of ConnectBridge that TLC checks. *)
EXTENDS ConnectBridge
=============================================================================
