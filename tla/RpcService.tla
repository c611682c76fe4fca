---------------------------- MODULE RpcService -----------------------------
(***************************************************************************)
(* What the RPC engine promises an application: a request it accepts is    *)
(* settled exactly once, by a response or by giving it up (a timeout, no   *)
(* free slot), and none stays open for ever unless the host stops.  It     *)
(* does not promise that the response is the one to that request: the      *)
(* synchronous callers share one queue of responses.                       *)
(***************************************************************************)
CONSTANT Reqs

VARIABLES
    fate,  \* [Reqs -> {"none", "open", "answered", "mistaken", "abandoned"}]
    down   \* the host stopped

Init == fate = [r \in Reqs |-> "none"] /\ down = FALSE

Open(r) == fate[r] = "none" /\ fate' = [fate EXCEPT ![r] = "open"] /\ UNCHANGED down

Settle(r, how) == fate[r] = "open" /\ fate' = [fate EXCEPT ![r] = how] /\ UNCHANGED down
Answer(r)      == Settle(r, "answered")
Mistake(r)     == Settle(r, "mistaken")
Abandon(r)     == Settle(r, "abandoned")

Stop == ~down /\ down' = TRUE /\ UNCHANGED fate

Next == (\E r \in Reqs : Open(r) \/ Answer(r) \/ Mistake(r) \/ Abandon(r)) \/ Stop

Spec == Init /\ [][Next]_<<fate, down>>

\* A request in the hands of a running host is settled.
FairSpec ==
    /\ Spec
    /\ \A r \in Reqs :
         WF_<<fate, down>>(~down /\ (Answer(r) \/ Mistake(r) \/ Abandon(r)))
=============================================================================
