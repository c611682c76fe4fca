-------------------------- MODULE MCSdioThrottle --------------------------
(* The instance of SdioThrottle that TLC checks. *)
EXTENDS SdioThrottle, TLC

=============================================================================
