-------------------------- MODULE MCHostLifecycle --------------------------
(* The instance of HostLifecycle that TLC checks. *)
EXTENDS HostLifecycle, TLC

=============================================================================
