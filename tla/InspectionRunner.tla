-------------------------- MODULE InspectionRunner --------------------------
(***************************************************************************)
(* InspectionTaskRunner (pkg/core/inspection/runner.go): one inspection,   *)
(* the calls of the API handlers that run, dry-run, cancel and list it,    *)
(* and the goroutine that waits for the task graph and settles the         *)
(* progress.  The graph itself is TaskGraphExecution, which TaskRunner     *)
(* implements, here with the run's cancelable context as its cancellation. *)
(*                                                                         *)
(* Left out: the feature list (ResolveTaskGraph may fail, that is all a    *)
(* run sees of it), the contents of the metadata, and the size of the      *)
(* result.  A panic in a handler ends that call only: net/http recovers    *)
(* it, and the deferred Unlock runs.                                       *)
(***************************************************************************)
EXTENDS Integers, FiniteSets

CONSTANTS
  Task, Deps,  \* the task graph the inspection resolves to
  RunCall,     \* calls of Run
  CancelCall,  \* calls of Cancel
  DryCall,     \* calls of DryRun
  ListCall,    \* calls of collectInspectionListItems for this inspection
  TheRun,      \* the ID of the inspection's own run
  NoCall       \* nobody holds runnerLock

Call == RunCall \cup CancelCall \cup DryCall \cup ListCall

ASSUME CallAssumption ==
  /\ IsFiniteSet(Task) /\ Deps \in [Task -> SUBSET Task]
  /\ IsFiniteSet(RunCall)
  /\ RunCall \cap CancelCall = {} /\ RunCall \cap DryCall = {} /\ RunCall \cap ListCall = {}
  /\ CancelCall \cap DryCall = {} /\ CancelCall \cap ListCall = {} /\ DryCall \cap ListCall = {}
  /\ NoCall \notin Call /\ TheRun \notin Call

VARIABLES
  status,        \* the tasks of i.runner (TaskGraphExecution)
  outcome,       \* what i.runner's Wait and Result tell (TaskGraphExecution)
  runCancelled,  \* cancelableCtx is done
  pc,            \* where each call is; an idle Run or Cancel is at runnerLock.Lock()
  reply,         \* what each call returned
  lock,          \* the holder of runnerLock
  runner,        \* i.runner # nil
  cancelFn,      \* i.cancel # nil
  metadata,      \* i.metadata # nil
  featureTasks,  \* i.featureTasks # nil: the inspection has a type
  worker,        \* where the goroutine started by Run is
  phase,         \* Progress.Phase of i.metadata
  loggers,       \* the runs with loggers in the global registry
  runComplete    \* the channel of Wait() is closed, after inspectionCancel

graphVars == <<status, outcome>>
callVars == <<pc, reply, lock>>
fieldVars == <<runner, cancelFn, metadata, featureTasks>>
endVars == <<worker, phase, loggers, runComplete>>
vars == <<status, outcome, runCancelled, pc, reply, lock, runner, cancelFn,
          metadata, featureTasks, worker, phase, loggers, runComplete>>

Graph == INSTANCE TaskGraphExecution WITH cancelled <- runCancelled

TypeOK ==
  /\ status \in [Task -> {"pending", "running", "succeeded", "failed", "skipped"}]
  /\ outcome \in {"none", "success", "error"}
  /\ runCancelled \in BOOLEAN
  /\ pc \in [Call -> {"idle", "check", "resolve", "prepare", "cancel", "run", "read", "done"}]
  /\ reply \in [Call -> {"none", "ok", "error", "panic"}]
  /\ lock \in RunCall \cup CancelCall \cup {NoCall}
  /\ runner \in BOOLEAN
  /\ cancelFn \in BOOLEAN
  /\ metadata \in BOOLEAN
  /\ featureTasks \in BOOLEAN
  /\ worker \in {"none", "start", "run", "settle", "close", "exit"}
  /\ phase \in {"RUNNING", "DONE", "ERROR", "CANCELLED"}
  /\ loggers \subseteq DryCall \cup {TheRun}
  /\ runComplete \in BOOLEAN

-----------------------------------------------------------------------------

InitCalls ==
  /\ runCancelled = FALSE
  /\ pc = [c \in Call |-> "idle"]
  /\ reply = [c \in Call |-> "none"]
  /\ lock = NoCall
  /\ cancelFn = FALSE
  /\ worker = "none"
  /\ loggers = {}

NewInspectionRunner ==
  /\ InitCalls
  /\ Graph!Init
  /\ runner = FALSE
  /\ metadata = FALSE
  /\ featureTasks = TRUE
  /\ phase = "RUNNING"
  /\ runComplete = FALSE

\* A completedTaskRunner over an imported file: the run is over from the start, and
\* the inspection has no type, so no features either.
NewImportedInspectionRunner ==
  /\ InitCalls
  /\ status = [t \in Task |-> "succeeded"]
  /\ outcome = "success"
  /\ runner = TRUE
  /\ metadata = TRUE
  /\ featureTasks = FALSE
  /\ phase = "DONE"
  /\ runComplete = TRUE

Init == NewInspectionRunner \/ NewImportedInspectionRunner

\* Mutant of Unlocked: the lock does not exclude anybody.
UnlockedAlways == TRUE

Unlocked == lock = NoCall

\* runnerLock.Lock() of Run and Cancel.
Lock(c) ==
  /\ pc[c] = "idle"
  /\ Unlocked
  /\ lock' = c
  /\ pc' = [pc EXCEPT ![c] = "check"]
  /\ UNCHANGED <<reply, graphVars, runCancelled, fieldVars, endVars>>

\* The call returns r, and the deferred Unlock runs if it holds the lock.
Return(c, r) ==
  /\ pc' = [pc EXCEPT ![c] = "done"]
  /\ reply' = [reply EXCEPT ![c] = r]
  /\ lock' = IF c = lock THEN NoCall ELSE lock

RunRefused(c) ==
  /\ pc[c] = "check"
  /\ runner
  /\ Return(c, "error")
  /\ UNCHANGED <<graphVars, runCancelled, fieldVars, endVars>>

RunAdmitted(c) ==
  /\ pc[c] = "check"
  /\ ~runner
  /\ pc' = [pc EXCEPT ![c] = "resolve"]
  /\ UNCHANGED <<reply, lock, graphVars, runCancelled, fieldVars, endVars>>

\* The selected features do not resolve to a runnable task graph.
RunUnresolved(c) ==
  /\ pc[c] = "resolve"
  /\ Return(c, "error")
  /\ UNCHANGED <<graphVars, runCancelled, fieldVars, endVars>>

RunCreates(c) ==
  /\ pc[c] = "resolve"
  /\ featureTasks
  /\ runner' = TRUE
  /\ pc' = [pc EXCEPT ![c] = "prepare"]
  /\ UNCHANGED <<reply, lock, graphVars, runCancelled, cancelFn, metadata, featureTasks,
                 endVars>>

\* A run context option fails: the output file of the builder cannot be opened.
RunSetupFails(c) ==
  /\ pc[c] = "prepare"
  /\ Return(c, "error")
  /\ UNCHANGED <<graphVars, runCancelled, fieldVars, endVars>>

\* Mutant of runContextEnds: the run keeps the context of the request that began it.
runContextEndsWithRequest == TRUE

\* The request of Run ends with the call; context.WithoutCancel detaches the run.
runContextEnds == FALSE

RunStarts(c) ==
  /\ pc[c] = "prepare"
  /\ Return(c, "ok")
  /\ runCancelled' = (runCancelled \/ runContextEnds)
  /\ cancelFn' = TRUE
  /\ metadata' = TRUE
  /\ worker' = "start"
  /\ UNCHANGED <<graphVars, runner, featureTasks, phase, loggers, runComplete>>

CancelRefused(c) ==
  /\ pc[c] = "check"
  /\ ~runner \/ outcome # "none"
  /\ Return(c, "error")
  /\ UNCHANGED <<graphVars, runCancelled, fieldVars, endVars>>

\* The select found the graph still running; it may end before cancel is called.
CancelChecked(c) ==
  /\ pc[c] = "check"
  /\ runner /\ outcome = "none"
  /\ pc' = [pc EXCEPT ![c] = "cancel"]
  /\ UNCHANGED <<reply, lock, graphVars, runCancelled, fieldVars, endVars>>

CancelRun(c) ==
  /\ pc[c] = "cancel"
  /\ cancelFn
  /\ Return(c, "ok")
  /\ runCancelled' = TRUE
  /\ UNCHANGED <<graphVars, fieldVars, endVars>>

\* i.cancel() of a nil function.
CancelPanics(c) ==
  /\ pc[c] = "cancel"
  /\ ~cancelFn
  /\ Return(c, "panic")
  /\ UNCHANGED <<graphVars, runCancelled, fieldVars, endVars>>

\* DryRun takes no lock: it has a task runner, a context and metadata of its own.
\* It ends before any logger is registered when the features do not resolve to a
\* runnable task graph, as those of an import never do, or a run context option fails.
DryRunRefused(c) ==
  /\ pc[c] = "idle"
  /\ Return(c, "error")
  /\ UNCHANGED <<graphVars, runCancelled, fieldVars, endVars>>

DryRunStarts(c) ==
  /\ pc[c] = "idle"
  /\ featureTasks
  /\ pc' = [pc EXCEPT ![c] = "run"]
  /\ loggers' = loggers \cup {c}
  /\ UNCHANGED <<reply, lock, graphVars, runCancelled, fieldVars, worker, phase, runComplete>>

\* InspectionTaskLogger unregisters the loggers of a run that ended without error.
DryRunEnds(c) ==
  /\ pc[c] = "run"
  /\ \E r \in {"ok", "error"} :
       /\ Return(c, r)
       /\ loggers' = IF r = "ok" THEN loggers \ {c} ELSE loggers
  /\ UNCHANGED <<graphVars, runCancelled, fieldVars, worker, phase, runComplete>>

\* collectInspectionListItems reads Started() first and the metadata afterwards.
ListSkips(c) ==
  /\ pc[c] = "idle"
  /\ ~runner
  /\ Return(c, "ok")
  /\ UNCHANGED <<graphVars, runCancelled, fieldVars, endVars>>

ListFindsStarted(c) ==
  /\ pc[c] = "idle"
  /\ runner
  /\ pc' = [pc EXCEPT ![c] = "read"]
  /\ UNCHANGED <<reply, lock, graphVars, runCancelled, fieldVars, endVars>>

ListReads(c) ==
  /\ pc[c] = "read"
  /\ Return(c, IF metadata THEN "ok" ELSE "error")
  /\ UNCHANGED <<graphVars, runCancelled, fieldVars, endVars>>

RegisterLoggers ==
  /\ worker = "start"
  /\ worker' = "run"
  /\ loggers' = loggers \cup {TheRun}
  /\ UNCHANGED <<graphVars, runCancelled, callVars, fieldVars, phase, runComplete>>

\* LocalRunner.Run and Wait.
GraphStep ==
  /\ worker = "run"
  /\ \/ \E t \in Task : Graph!Start(t) \/ Graph!Settle(t) \/ Graph!Skip(t)
     \/ Graph!Finish
  /\ UNCHANGED <<callVars, fieldVars, endVars>>

RunFuncReturns ==
  /\ worker = "run"
  /\ outcome # "none"
  /\ worker' = "settle"
  /\ loggers' = IF outcome = "success" THEN loggers \ {TheRun} ELSE loggers
  /\ UNCHANGED <<graphVars, runCancelled, callVars, fieldVars, phase, runComplete>>

\* Mutant of settledPhase: the context decides before the result is looked at.
settledPhaseByContext ==
  IF runCancelled THEN "CANCELLED" ELSE IF outcome = "success" THEN "DONE" ELSE "ERROR"

settledPhase ==
  IF outcome = "success" THEN "DONE"
  ELSE IF runCancelled THEN "CANCELLED" ELSE "ERROR"

MarkProgress ==
  /\ worker = "settle"
  /\ worker' = "close"
  /\ phase' = settledPhase
  /\ UNCHANGED <<graphVars, runCancelled, callVars, fieldVars, loggers, runComplete>>

\* Mutants of deferred: the channel is closed before the progress is marked; it is
\* closed at the end of the success path only.
deferredEarly == worker \in {"settle", "close"}
deferredOnSuccess == worker = "close" /\ outcome = "success"

\* The deferred calls run when the goroutine returns.
deferred == worker = "close"

CloseRun ==
  /\ deferred
  /\ worker' = "exit"
  /\ runCancelled' = TRUE
  /\ runComplete' = TRUE
  /\ UNCHANGED <<graphVars, callVars, fieldVars, phase, loggers>>

\* Every call returned and no goroutine is left.
Quiet ==
  /\ \A c \in Call : pc[c] = "done"
  /\ worker \in {"none", "exit"}
  /\ UNCHANGED vars

RunStep(c) ==
  \/ Lock(c) \/ RunRefused(c) \/ RunAdmitted(c) \/ RunUnresolved(c)
  \/ RunCreates(c) \/ RunSetupFails(c) \/ RunStarts(c)
CancelStep(c) ==
  Lock(c) \/ CancelRefused(c) \/ CancelChecked(c) \/ CancelRun(c) \/ CancelPanics(c)
DryRunStep(c) == DryRunRefused(c) \/ DryRunStarts(c) \/ DryRunEnds(c)
ListStep(c) == ListSkips(c) \/ ListFindsStarted(c) \/ ListReads(c)
WorkerStep == RegisterLoggers \/ GraphStep \/ RunFuncReturns \/ MarkProgress \/ CloseRun

Next ==
  \/ \E c \in RunCall : RunStep(c)
  \/ \E c \in CancelCall : CancelStep(c)
  \/ \E c \in DryCall : DryRunStep(c)
  \/ \E c \in ListCall : ListStep(c)
  \/ WorkerStep
  \/ Quiet

Spec == Init /\ [][Next]_vars

\* A handler that can run runs, also when it shares a mutex (Go's mutexes do not
\* starve), and a task graph ends, as RunnerStops of TaskRunner says.
Fairness ==
  /\ \A c \in RunCall : SF_vars(RunStep(c))
  /\ \A c \in CancelCall : SF_vars(CancelStep(c))
  /\ WF_vars(WorkerStep)

FairSpec == Spec /\ Fairness

-----------------------------------------------------------------------------
(***************************************************************************)
(* Properties                                                              *)
(***************************************************************************)

Accepted(calls) == {c \in calls : reply[c] = "ok"}

\* However many requests race to run an inspection, one is accepted, and it is the
\* one that owns the goroutine: LocalRunner itself would run again, and a second
\* close of runComplete ends the process.
RunAcceptedOnce ==
  /\ \A c, d \in Accepted(RunCall) : c = d
  /\ worker # "none" <=> Accepted(RunCall) # {}

\* Whoever is woken by Wait() finds the phase settled and in agreement with
\* Result(): DONE exactly when there is a result, and CANCELLED only after a
\* cancellation that was accepted, never because one came too late.
PhaseTellsOutcome ==
  runComplete =>
    /\ outcome # "none" /\ phase # "RUNNING"
    /\ phase = "DONE" <=> outcome = "success"
    /\ phase = "CANCELLED" => Accepted(CancelCall) # {}

\* While tasks run, only an accepted Cancel can have ended their context: the end
\* of the request that started the inspection does not.
CancelledOnlyOnRequest ==
  runCancelled => Accepted(CancelCall) # {} \/ runComplete

\* After Wait() is closed nothing of the run changes any more: job mode reads the
\* result and the list the phase without a lock.
FinalAfterComplete ==
  [][runComplete => UNCHANGED <<graphVars, phase, worker, metadata>>]_vars

\* An inspection whose run was accepted is completed, whether its tasks succeed,
\* fail or are cancelled.
AcceptedRunCompletes == Accepted(RunCall) # {} ~> runComplete

\* No call of Run or Cancel waits for ever for the lock: every early return and
\* the panic of Cancel release it.
CallsReturn == \A c \in RunCall \cup CancelCall : <>(pc[c] = "done")

\* Every request is answered, and every accepted run completes.
RequestsEnd == AcceptedRunCompletes /\ CallsReturn

Lifecycle == INSTANCE InspectionLifecycle WITH
  view <- IF metadata THEN phase ELSE "unlisted",
  cancelRequested <- Accepted(CancelCall) # {},
  readable <- outcome = "success",
  announced <- runComplete

\* The inspection implements what InspectionLifecycle promises.
LifecycleSpec == Lifecycle!Spec

\* runner.go:166 says of Started() that it "returns true if the inspection has been
\* started": once no call of Run is under way, a started inspection is one whose
\* Run was accepted, or an imported one.
StartedTellsTheTruth ==
  runner /\ lock = NoCall => Accepted(RunCall) # {} \/ runComplete

\* global_logger.go:160 says that the loggers of a run are unregistered when the run
\* is complete.
LoggersUnregistered ==
  /\ runComplete => TheRun \notin loggers
  /\ \A c \in DryCall : pc[c] = "done" => c \notin loggers

=============================================================================
