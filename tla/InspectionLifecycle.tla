------------------------ MODULE InspectionLifecycle -------------------------
(***************************************************************************)
(* What one inspection promises to the people who watch it, without locks, *)
(* calls or goroutines.  An inspection appears in the list as RUNNING (or, *)
(* imported, as DONE); its phase changes once, when the run is over; it is *)
(* CANCELLED only if somebody asked for that, DONE only if the result can  *)
(* be read, and the end is announced after the phase is settled.           *)
(* InspectionRunner implements this specification.                         *)
(***************************************************************************)
VARIABLES
  view,             \* what the inspection list shows
  cancelRequested,  \* a cancellation was accepted
  readable,         \* the result of the run can be read
  announced         \* those who wait for the end were woken

vars == <<view, cancelRequested, readable, announced>>

Init ==
  /\ cancelRequested = FALSE
  /\ \/ view = "unlisted" /\ ~readable /\ ~announced
     \/ view = "DONE" /\ readable /\ announced

Start ==
  /\ view = "unlisted"
  /\ view' = "RUNNING"
  /\ UNCHANGED <<cancelRequested, readable, announced>>

\* A cancellation may be accepted although the run has just ended.
RequestCancel ==
  /\ view # "unlisted"
  /\ cancelRequested' = TRUE
  /\ UNCHANGED <<view, readable, announced>>

Complete ==
  /\ view = "RUNNING"
  /\ readable' = TRUE
  /\ UNCHANGED <<view, cancelRequested, announced>>

Settle ==
  /\ view = "RUNNING"
  /\ view' \in IF readable THEN {"DONE"}
               ELSE {"ERROR"} \cup (IF cancelRequested THEN {"CANCELLED"} ELSE {})
  /\ UNCHANGED <<cancelRequested, readable, announced>>

Announce ==
  /\ view \in {"DONE", "ERROR", "CANCELLED"}
  /\ announced' = TRUE
  /\ UNCHANGED <<view, cancelRequested, readable>>

Next == Start \/ RequestCancel \/ Complete \/ Settle \/ Announce

Spec == Init /\ [][Next]_vars

=============================================================================
