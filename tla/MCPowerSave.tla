---------------------------- MODULE MCPowerSave ----------------------------
(* The instance of PowerSave that TLC checks. *)
EXTENDS PowerSave, TLC

=============================================================================
