------------------------- MODULE TaskGraphExecution -------------------------
(***************************************************************************)
(* What one execution of a task graph promises to its caller, without      *)
(* goroutines, locks or result maps.  A task starts only when every task   *)
(* it depends on succeeded; a task that has not started is given up only   *)
(* after the caller cancelled or some task failed; the outcome is          *)
(* announced once, when every task is settled, and it is a success exactly *)
(* when every task succeeded.  TaskRunner implements this specification.   *)
(***************************************************************************)
CONSTANTS
  Task,   \* the tasks of the graph
  Deps    \* Deps[t] is the set of tasks that t depends on; no task reaches itself

VARIABLES
  status,     \* how far each task is
  cancelled,  \* the caller gave up on this execution
  outcome     \* what Wait and Result tell the caller

vars == <<status, cancelled, outcome>>

Settled == {"succeeded", "failed", "skipped"}

TypeOK ==
  /\ status \in [Task -> {"pending", "running"} \cup Settled]
  /\ cancelled \in BOOLEAN
  /\ outcome \in {"none", "success", "error"}

Init ==
  /\ status = [t \in Task |-> "pending"]
  /\ cancelled = FALSE
  /\ outcome = "none"

Start(t) ==
  /\ status[t] = "pending"
  /\ \A d \in Deps[t] : status[d] = "succeeded"
  /\ status' = [status EXCEPT ![t] = "running"]
  /\ UNCHANGED <<cancelled, outcome>>

Settle(t) ==
  /\ status[t] = "running"
  /\ \E s \in {"succeeded", "failed"} : status' = [status EXCEPT ![t] = s]
  /\ UNCHANGED <<cancelled, outcome>>

Skip(t) ==
  /\ status[t] = "pending"
  /\ cancelled \/ \E u \in Task : status[u] = "failed"
  /\ status' = [status EXCEPT ![t] = "skipped"]
  /\ UNCHANGED <<cancelled, outcome>>

Cancel ==
  /\ cancelled' = TRUE
  /\ UNCHANGED <<status, outcome>>

Finish ==
  /\ outcome = "none"
  /\ \A t \in Task : status[t] \in Settled
  /\ outcome' = IF \A t \in Task : status[t] = "succeeded" THEN "success" ELSE "error"
  /\ UNCHANGED <<status, cancelled>>

Next ==
  \/ \E t \in Task : Start(t) \/ Settle(t) \/ Skip(t)
  \/ Cancel
  \/ Finish

Spec == Init /\ [][Next]_vars

=============================================================================
