---------------------------- MODULE MCSdioLink ----------------------------
(* The instances of SdioLink that TLC checks. *)
EXTENDS SdioLink, TLC

=============================================================================
