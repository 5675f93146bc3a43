----------------------------- MODULE TaskRunner -----------------------------
(***************************************************************************)
(* LocalRunner (pkg/core/task/runner.go): one goroutine per task of a      *)
(* resolved graph, a read-write lock per task that its dependents wait on, *)
(* a shared result map whose entries are dropped when the last dependent   *)
(* is done, and an errgroup whose first error becomes the result.          *)
(*                                                                         *)
(* A reference ID names one task, as in every graph built from an          *)
(* inspection's de-duplicated task list, so a task stands for its own      *)
(* reference.  The value of a result, timestamps and logging are left out. *)
(* A goroutine awaits its dependencies one at a time; releases are never   *)
(* taken back, so the order of the waits cannot be observed and any order  *)
(* is allowed.                                                             *)
(***************************************************************************)
EXTENDS Integers, FiniteSets

CONSTANTS
  Task,       \* the tasks of the runnable task set
  Deps,       \* Deps[t]: the tasks that t depends on
  Retained,   \* the tasks that carry LabelKeyTaskResultRetention
  NoError,    \* Go's nil error
  Canceled    \* context.Canceled

\* Errors are NoError, Canceled, or a task: the error wrapped with that task's ID.
Error == {NoError, Canceled} \cup Task

ASSUME TaskAssumption ==
  /\ IsFiniteSet(Task) /\ Task # {}
  /\ Deps \in [Task -> SUBSET Task]
  /\ Retained \subseteq Task
  /\ NoError \notin Task /\ Canceled \notin Task /\ NoError # Canceled

\* sortTaskGraph marks only acyclic sets runnable.
ASSUME AcyclicAssumption ==
  \E rank \in [Task -> 1..Cardinality(Task)] :
    \A t \in Task : \A d \in Deps[t] : rank[d] < rank[t]

VARIABLES
  pc,            \* where each task's goroutine is
  awaited,       \* the dependencies each goroutine has still to wait for
  phase,         \* taskStatuses[i].Phase
  taskErr,       \* the error runTask returned, NoError before
  released,      \* the tasks whose waiter lock is open
  results,       \* the tasks with an entry in resultVariable
  remaining,     \* remainingDependents
  callerDone,    \* the context given to Run is cancelled
  graphDone,     \* the runner's own context is cancelled
  groupErr,      \* the first error given to the errgroup
  resultError,   \* LocalRunner.resultError
  stopped        \* LocalRunner.stopped, and the channel of Wait() closed

goroutineVars == <<pc, awaited, phase, taskErr>>
graphVars == <<released, results, remaining>>
ctxVars == <<callerDone, graphDone>>
endVars == <<groupErr, resultError, stopped>>
vars == <<pc, awaited, phase, taskErr, released, results, remaining,
          callerDone, graphDone, groupErr, resultError, stopped>>

Location == {"idle", "wait", "run", "store", "release", "cleanup",
             "cancel", "report", "exit"}

TypeOK ==
  /\ pc \in [Task -> Location]
  /\ awaited \in [Task -> SUBSET Task]
  /\ phase \in [Task -> {"WAITING", "RUNNING", "STOPPED"}]
  /\ taskErr \in [Task -> Error]
  /\ released \subseteq Task
  /\ results \subseteq Task
  /\ remaining \in [Task -> Int]
  /\ callerDone \in BOOLEAN
  /\ graphDone \in BOOLEAN
  /\ groupErr \in Error
  /\ resultError \in Error
  /\ stopped \in BOOLEAN

Dependents(d) == {t \in Task : d \in Deps[t]}

\* Mutant of ctxDone: the tasks watch the caller's context, not the group's.
ctxDoneOfCallerOnly == callerDone

\* taskCtx.Err() # nil: the context of every task derives from both.
ctxDone == callerDone \/ graphDone

Goto(t, from, to) ==
  /\ pc[t] = from
  /\ pc' = [pc EXCEPT ![t] = to]

-----------------------------------------------------------------------------

Init ==
  /\ pc = [t \in Task |-> "idle"]
  /\ awaited = Deps
  /\ phase = [t \in Task |-> "WAITING"]
  /\ taskErr = [t \in Task |-> NoError]
  /\ released = {}
  /\ results = {}
  /\ remaining = [d \in Task |-> Cardinality(Dependents(d))]
  /\ callerDone = FALSE
  /\ graphDone = FALSE
  /\ groupErr = NoError
  /\ resultError = NoError
  /\ stopped = FALSE

Run ==
  /\ \A t \in Task : pc[t] = "idle"
  /\ ~stopped
  /\ pc' = [t \in Task |-> "wait"]
  /\ UNCHANGED <<awaited, phase, taskErr, graphVars, ctxVars, endVars>>

\* The caller's context ends: the inspection is cancelled.
CallerCancel ==
  /\ ~callerDone
  /\ callerDone' = TRUE
  /\ UNCHANGED <<goroutineVars, graphVars, graphDone, endVars>>

\* Mutant of Openable: the wait does not take the lock.
OpenableWithoutLock(t) == awaited[t]

\* The awaited dependencies whose lock RLock can take.
Openable(t) == awaited[t] \cap released

WaitForDependency(t) ==
  /\ pc[t] = "wait"
  /\ \E d \in Openable(t) : awaited' = [awaited EXCEPT ![t] = @ \ {d}]
  /\ UNCHANGED <<pc, phase, taskErr, graphVars, ctxVars, endVars>>

\* The select of waitForDependency may take ctx.Done() even when the lock is open.
WaitCancelled(t) ==
  /\ awaited[t] # {}
  /\ ctxDone
  /\ Goto(t, "wait", "cancel")
  /\ taskErr' = [taskErr EXCEPT ![t] = Canceled]
  /\ UNCHANGED <<awaited, phase, graphVars, ctxVars, endVars>>

StartTask(t) ==
  /\ awaited[t] = {}
  /\ Goto(t, "wait", "run")
  /\ phase' = [phase EXCEPT ![t] = "RUNNING"]
  /\ UNCHANGED <<awaited, taskErr, graphVars, ctxVars, endVars>>

\* The task body returned while the context was live, without an error.
TaskSucceeds(t) ==
  /\ ~ctxDone
  /\ Goto(t, "run", "store")
  /\ phase' = [phase EXCEPT ![t] = "STOPPED"]
  /\ UNCHANGED <<awaited, taskErr, graphVars, ctxVars, endVars>>

\* The task body returned an error while the context was live.
TaskFails(t) ==
  /\ ~ctxDone
  /\ Goto(t, "run", "cancel")
  /\ phase' = [phase EXCEPT ![t] = "STOPPED"]
  /\ taskErr' = [taskErr EXCEPT ![t] = t]
  /\ resultError' = t
  /\ UNCHANGED <<awaited, graphVars, ctxVars, groupErr, stopped>>

\* The task body returned, whatever it returned, after the context was cancelled.
TaskInterrupted(t) ==
  /\ ctxDone
  /\ Goto(t, "run", "cancel")
  /\ phase' = [phase EXCEPT ![t] = "STOPPED"]
  /\ taskErr' = [taskErr EXCEPT ![t] = Canceled]
  /\ UNCHANGED <<awaited, graphVars, ctxVars, endVars>>

StoreResult(t) ==
  /\ Goto(t, "store", "release")
  /\ results' = results \cup {t}
  /\ UNCHANGED <<awaited, phase, taskErr, released, remaining, ctxVars, endVars>>

releaseTaskWaiter(t) ==
  /\ Goto(t, "release", "cleanup")
  /\ released' = released \cup {t}
  /\ UNCHANGED <<awaited, phase, taskErr, results, remaining, ctxVars, endVars>>

\* Mutants of DecrementedBy and Unneeded: the task's own count drops too; a result
\* goes one dependent too early; the task's own result is not considered.
DecrementedWithOwn(t) ==
  [d \in Task |-> IF d \in {t} \cup Deps[t] THEN remaining[d] - 1 ELSE remaining[d]]
UnneededTooEarly(t) ==
  {d \in {t} \cup Deps[t] :
     d \notin Retained /\ remaining[d] - (IF d = t THEN 0 ELSE 1) <= 1}
UnneededWithoutOwn(t) == {d \in Deps[t] : d \notin Retained /\ remaining[d] = 1}

\* Under remainingDependentsMu: the counts after t is done, and what they free.
DecrementedBy(t) == [d \in Task |-> IF d \in Deps[t] THEN remaining[d] - 1 ELSE remaining[d]]
Unneeded(t) ==
  {d \in {t} \cup Deps[t] : d \notin Retained /\ DecrementedBy(t)[d] = 0}

cleanupCompletedTaskResults(t) ==
  /\ Goto(t, "cleanup", "exit")
  /\ remaining' = DecrementedBy(t)
  /\ results' = results \ Unneeded(t)
  /\ UNCHANGED <<awaited, phase, taskErr, released, ctxVars, endVars>>

\* A goroutine with an error cancels the graph first and reports it afterwards.
CancelGraph(t) ==
  /\ Goto(t, "cancel", "report")
  /\ graphDone' = TRUE
  /\ UNCHANGED <<awaited, phase, taskErr, graphVars, callerDone, endVars>>

\* errgroup keeps the first error it is given and cancels its context.
ReportError(t) ==
  /\ Goto(t, "report", "exit")
  /\ groupErr' = IF groupErr = NoError THEN taskErr[t] ELSE groupErr
  /\ graphDone' = TRUE
  /\ UNCHANGED <<awaited, phase, taskErr, graphVars, callerDone, resultError, stopped>>

\* Mutants of Joined and finalError: the first goroutine to exit ends the run; the
\* error of the group is dropped.
JoinedFirst == \E t \in Task : pc[t] = "exit"
finalErrorWithoutGroup == resultError

\* errgroup.Wait can return, and the error the run then has.
Joined == \A t \in Task : pc[t] = "exit"
finalError == IF groupErr # NoError THEN groupErr ELSE resultError

\* errgroup.Wait returned: take its error, cancel, and finalizeExecution.
Finalize ==
  /\ ~stopped
  /\ Joined
  /\ resultError' = finalError
  /\ graphDone' = TRUE
  /\ stopped' = TRUE
  /\ released' = Task
  /\ UNCHANGED <<goroutineVars, results, remaining, callerDone, groupErr>>

\* The runner is done and nothing of it runs any more.
Terminated == stopped /\ UNCHANGED vars

Goroutine(t) ==
  \/ WaitForDependency(t) \/ WaitCancelled(t) \/ StartTask(t)
  \/ TaskSucceeds(t) \/ TaskFails(t) \/ TaskInterrupted(t)
  \/ StoreResult(t) \/ releaseTaskWaiter(t) \/ cleanupCompletedTaskResults(t)
  \/ CancelGraph(t) \/ ReportError(t)

Next ==
  \/ Run
  \/ CallerCancel
  \/ \E t \in Task : Goroutine(t)
  \/ Finalize
  \/ Terminated

Spec == Init /\ [][Next]_vars

\* Go runs every goroutine that can run, and a task body returns in the end.
Fairness ==
  /\ \A t \in Task : WF_vars(Goroutine(t))
  /\ WF_vars(Finalize)

FairSpec == Spec /\ Fairness

-----------------------------------------------------------------------------
(***************************************************************************)
(* Properties                                                              *)
(***************************************************************************)

\* runTask returned nil.
Succeeded(t) == pc[t] = "exit" /\ taskErr[t] = NoError

\* The body of t ran and returned, and its error is being handled or was.
Failed(t) == taskErr[t] # NoError /\ phase[t] = "STOPPED"

\* GetTaskResult panics when a dependency's result is missing, which ends the
\* process: while a body runs, no result it depends on has been dropped, however
\* the clean-ups of its siblings and of the producer itself interleave.
DependencyResultsAvailable ==
  \A t \in Task : pc[t] = "run" => Deps[t] \subseteq results

\* remainingDependents counts exactly the dependents whose runTask has not
\* returned nil, so a zero really means that nobody can need the result.
CountsExact ==
  \A d \in Task :
    remaining[d] = Cardinality({t \in Dependents(d) : ~Succeeded(t)})

\* After a run without error the result map holds the retained results, all of
\* them and nothing else: no intermediate result survives the run.
OnlyRetainedSurvive ==
  stopped /\ resultError = NoError => results = Retained

\* A body runs only over dependencies that stored a result and opened their
\* lock: the failure of a task keeps every transitive dependent from running,
\* also when finalizeExecution opens the locks of tasks that failed.
FailureStopsDependents ==
  \A t \in Task : phase[t] # "WAITING" =>
    \A d \in Deps[t] : taskErr[d] = NoError /\ pc[d] \in {"cleanup", "exit"}

\* Result() reports success exactly when every task stored its result, and an
\* error of a task only if that task failed: a cancellation that comes too late
\* does not turn success into an error, nor an early one into success.
ResultTellsOutcome ==
  stopped =>
    /\ resultError = NoError <=> \A t \in Task : Succeeded(t)
    /\ resultError \in Task => taskErr[resultError] = resultError
    /\ resultError = Canceled => callerDone \/ \E t \in Task : Failed(t)

\* Once Wait()'s channel is closed no goroutine changes what Result() returned.
StableAfterStop ==
  [][stopped => UNCHANGED <<results, resultError, phase, remaining>>]_vars

\* A runner that was started stops, also when a task fails while others wait
\* for it: nobody waits for a lock that nobody will open.
RunnerStops == (\E t \in Task : pc[t] # "idle") ~> stopped

\* runner_test.go expects Result() to carry the error of the task that failed:
\* without a cancellation by the caller, a failed run reports a task's error.
TaskErrorReported ==
  stopped /\ ~callerDone /\ resultError # NoError => resultError \in Task

-----------------------------------------------------------------------------
(***************************************************************************)
(* The runner implements the execution of a task graph.                    *)
(***************************************************************************)
statusOf(t) ==
  CASE pc[t] \in {"idle", "wait"} -> "pending"
    [] pc[t] \in {"run", "store", "release"} -> "running"
    [] pc[t] = "cleanup" \/ Succeeded(t) -> "succeeded"
    [] Failed(t) -> "failed"
    [] OTHER -> "skipped"

Execution == INSTANCE TaskGraphExecution WITH
  status <- [t \in Task |-> statusOf(t)],
  cancelled <- callerDone,
  outcome <- IF ~stopped THEN "none"
             ELSE IF resultError = NoError THEN "success" ELSE "error"

\* Every behaviour of the goroutines is a behaviour of TaskGraphExecution.
ExecutionSpec == Execution!Spec

=============================================================================
