---------------------------- MODULE MCPortQueue ----------------------------
(* Model values for checking PortQueue. *)
EXTENDS PortQueue, TLC

CONSTANTS s1, s2, r1, x, y

=============================================================================
