----------------------------- MODULE ChunkSession ---------------------------
(***************************************************************************)
(* What ChunkSessionManager promises of one upload session to those who    *)
(* build on it: it is open until exactly one of FinalizeSession,           *)
(* AbortSession and the TTL cleaner takes it out of the map; then its file *)
(* is either handed over, complete, or removed, and that is final.         *)
(***************************************************************************)
VARIABLE session

Init == session = "open"

Take == session = "open" /\ session' = "taken"

Deliver == session = "taken" /\ session' = "delivered"

Remove == session = "taken" /\ session' = "removed"

Next == Take \/ Deliver \/ Remove

Steps == Init /\ [][Next]_session

\* No session stays for ever: when its client is gone, the cleaner takes it.
Fairness == WF_session(Take) /\ WF_session(Deliver \/ Remove)

Spec == Steps /\ Fairness

=============================================================================
