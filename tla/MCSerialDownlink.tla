------------------------- MODULE MCSerialDownlink -------------------------
(* The instances of SerialDownlink that TLC checks. *)
EXTENDS SerialDownlink, TLC

=============================================================================
