----------------------- MODULE InspectionRunner_proofs -----------------------
(***************************************************************************)
(* Proofs about InspectionTaskRunner for any number of calls and any task  *)
(* graph.  The inductive invariant says what the holder of runnerLock may  *)
(* rely on until it lets go: while a call of Run is between its check and  *)
(* its return, nobody else has started a run; and it follows the goroutine *)
(* of the run from the end of the graph to the closed channel.             *)
(***************************************************************************)
EXTENDS InspectionRunner, TLAPS

\* The locations between Lock and Return.
Critical == {"check", "resolve", "prepare", "cancel"}

\* Where calls can be, what they returned, and that a lock holder is in its
\* critical section.
CallInv ==
  /\ \A c \in RunCall : pc[c] \in {"idle", "check", "resolve", "prepare", "done"}
  /\ \A c \in CancelCall : pc[c] \in {"idle", "check", "cancel", "done"}
  /\ \A c \in Call : pc[c] # "done" => reply[c] = "none"
  /\ \A c \in RunCall \cup CancelCall : pc[c] \in Critical <=> lock = c

\* No run was started: there is nothing to cancel, to list or to wait for.
Unstarted ==
  /\ worker = "none" /\ outcome = "none"
  /\ ~metadata /\ ~cancelFn /\ ~runComplete /\ ~runCancelled
  /\ phase = "RUNNING"

\* The inspection was imported: its run is over.
Imported ==
  /\ worker = "none" /\ outcome = "success" /\ runner
  /\ metadata /\ ~cancelFn /\ runComplete /\ phase = "DONE"

\* What the fields say about how far the run is.
FieldInv ==
  /\ ~runner => Unstarted
  /\ \A c \in RunCall : pc[c] = "resolve" => ~runner
  /\ \A c \in RunCall : pc[c] = "prepare" => Unstarted /\ runner
  /\ worker = "none" => Unstarted \/ Imported
  /\ worker # "none" => runner /\ metadata /\ cancelFn

\* What the goroutine of the run has done.
WorkerInv ==
  /\ worker = "start" => outcome = "none"
  /\ worker \in {"start", "run", "settle"} => phase = "RUNNING" /\ ~runComplete
  /\ worker = "close" => ~runComplete
  /\ worker = "exit" => runComplete
  /\ worker \in {"settle", "close", "exit"} => outcome # "none"
  /\ worker \in {"close", "exit"} =>
       /\ phase # "RUNNING"
       /\ phase = "DONE" <=> outcome = "success"
       /\ phase = "CANCELLED" => Accepted(CancelCall) # {}

IInv == TypeOK /\ CallInv /\ FieldInv /\ WorkerInv /\ RunAcceptedOnce /\ CancelledOnlyOnRequest

-----------------------------------------------------------------------------

LEMMA InitTypeOK == Init => TypeOK
  <1> SUFFICES ASSUME Init PROVE TypeOK
    OBVIOUS
  <1> USE DEF Init, InitCalls, TypeOK
  <1>1. CASE NewInspectionRunner
    BY <1>1 DEF NewInspectionRunner, Graph!Init
  <1>2. CASE NewImportedInspectionRunner
    BY <1>2 DEF NewImportedInspectionRunner
  <1> QED
    BY <1>1, <1>2

LEMMA InitIInv == Init => IInv
  <1> SUFFICES ASSUME Init PROVE IInv
    OBVIOUS
  <1>1. TypeOK
    BY InitTypeOK
  <1> USE DEF Init, InitCalls, NewInspectionRunner, NewImportedInspectionRunner, Graph!Init
  <1>2. CallInv
    BY CallAssumption DEF CallInv, Call, Critical
  <1>3. FieldInv
    BY DEF FieldInv, Unstarted, Imported, Call
  <1>4. WorkerInv /\ RunAcceptedOnce /\ CancelledOnlyOnRequest
    BY DEF WorkerInv, RunAcceptedOnce, CancelledOnlyOnRequest, Accepted, Call
  <1> QED
    BY <1>1, <1>2, <1>3, <1>4 DEF IInv

\* The call is over, its reply is known and the lock is not its own any more.
LEMMA Returned ==
  ASSUME TypeOK, NEW c \in Call, NEW r \in {"ok", "error", "panic"}, Return(c, r)
  PROVE  /\ pc' = [pc EXCEPT ![c] = "done"]
         /\ reply' = [reply EXCEPT ![c] = r]
         /\ lock' \in {lock, NoCall} /\ lock' # c /\ (lock # c => lock' = lock)
         /\ (lock = c => lock' = NoCall)
         /\ pc' \in [Call -> {"idle", "check", "resolve", "prepare", "cancel", "run", "read", "done"}]
         /\ reply' \in [Call -> {"none", "ok", "error", "panic"}]
         /\ lock' \in RunCall \cup CancelCall \cup {NoCall}
  BY CallAssumption DEF TypeOK, Return

LEMMA NextTypeOK == TypeOK /\ [Next]_vars => TypeOK'
  <1> SUFFICES ASSUME TypeOK, [Next]_vars PROVE TypeOK'
    OBVIOUS
  <1> USE DEF TypeOK, Call, graphVars, callVars, fieldVars, endVars
  <1>1. ASSUME NEW c \in RunCall, RunStep(c) PROVE TypeOK'
    <2>1. CASE Lock(c) \/ RunRefused(c) \/ RunAdmitted(c)
      BY <2>1 DEF Lock, RunRefused, RunAdmitted, Return
    <2>2. CASE RunUnresolved(c) \/ RunSetupFails(c)
      BY <2>2, Returned DEF RunUnresolved, RunSetupFails
    <2>3. CASE RunCreates(c)
      BY <2>3 DEF RunCreates
    <2>4. CASE RunStarts(c)
      BY <2>4, Returned DEF RunStarts, runContextEnds
    <2> QED
      BY <1>1, <2>1, <2>2, <2>3, <2>4 DEF RunStep
  <1>2. ASSUME NEW c \in CancelCall, CancelStep(c) PROVE TypeOK'
    <2>1. CASE Lock(c) \/ CancelRefused(c) \/ CancelChecked(c)
      BY <2>1 DEF Lock, CancelRefused, CancelChecked, Return
    <2>2. CASE CancelRun(c)
      BY <2>2, Returned DEF CancelRun
    <2>3. CASE CancelPanics(c)
      BY <2>3, Returned DEF CancelPanics
    <2> QED
      BY <1>2, <2>1, <2>2, <2>3 DEF CancelStep
  <1>3. ASSUME NEW c \in DryCall, DryRunStep(c) PROVE TypeOK'
    BY <1>3 DEF DryRunStep, DryRunRefused, DryRunStarts, DryRunEnds, Return
  <1>4. ASSUME NEW c \in ListCall, ListStep(c) PROVE TypeOK'
    BY <1>4 DEF ListStep, ListSkips, ListFindsStarted, ListReads, Return
  <1>5. CASE WorkerStep
    <2>1. CASE GraphStep
      <3>1. ASSUME NEW t \in Task, Graph!Start(t) \/ Graph!Settle(t) \/ Graph!Skip(t)
            PROVE  /\ status' \in [Task -> {"pending", "running", "succeeded", "failed", "skipped"}]
                   /\ outcome' = outcome /\ runCancelled' = runCancelled
        BY <3>1 DEF Graph!Start, Graph!Settle, Graph!Skip
      <3>2. ASSUME Graph!Finish
            PROVE  /\ status' = status /\ outcome' \in {"success", "error"}
                   /\ runCancelled' = runCancelled
        BY <3>2 DEF Graph!Finish
      <3> QED
        BY <2>1, <3>1, <3>2 DEF GraphStep
    <2>2. CASE RegisterLoggers
      BY <2>2 DEF RegisterLoggers
    <2>3. CASE RunFuncReturns
      BY <2>3 DEF RunFuncReturns
    <2>4. CASE MarkProgress \/ CloseRun
      BY <2>4 DEF MarkProgress, settledPhase, CloseRun, deferred
    <2> QED
      BY <1>5, <2>1, <2>2, <2>3, <2>4 DEF WorkerStep
  <1>6. CASE UNCHANGED vars
    BY <1>6 DEF vars
  <1> QED
    BY <1>1, <1>2, <1>3, <1>4, <1>5, <1>6 DEF Next, Quiet

\* The variables of the inspection keep their types.
THEOREM TypeCorrect == Spec => []TypeOK
  <1> QED
    BY InitTypeOK, NextTypeOK, PTL DEF Spec

-----------------------------------------------------------------------------

\* Kinds of calls do not overlap.
LEMMA Kinds ==
  /\ \A c \in RunCall \cup CancelCall : c \notin DryCall \cup ListCall
  /\ \A c \in RunCall : c \notin CancelCall
  /\ NoCall \notin Call
  BY CallAssumption DEF Call

\* A reply of "ok" makes its call an accepted one; other replies change nothing.
LEMMA AcceptedAfter ==
  ASSUME TypeOK, CallInv, NEW c \in Call, pc[c] # "done", NEW r,
         reply' = [reply EXCEPT ![c] = r], NEW S \in SUBSET Call
  PROVE  Accepted(S)' = IF r = "ok" /\ c \in S THEN Accepted(S) \cup {c} ELSE Accepted(S)
  BY DEF TypeOK, CallInv, Accepted

\* A call that returns leaves its critical section with the lock.
LEMMA ReturnKeepsCalls ==
  ASSUME TypeOK, CallInv, NEW c \in Call, NEW r \in {"ok", "error", "panic"}, Return(c, r)
  PROVE  CallInv'
  <1>1. \A d \in Call : pc'[d] = IF d = c THEN "done" ELSE pc[d]
    BY Returned DEF TypeOK
  <1>2. \A d \in Call : reply'[d] = IF d = c THEN r ELSE reply[d]
    BY Returned DEF TypeOK
  <1>3. \A d \in RunCall \cup CancelCall : pc'[d] \in Critical <=> lock' = d
    BY <1>1, Returned, Kinds DEF CallInv, Critical, Call
  <1> QED
    BY <1>1, <1>2, <1>3 DEF CallInv, Call

\* A call that moves within its critical section keeps the lock.
LEMMA MoveKeepsCalls ==
  ASSUME TypeOK, CallInv, NEW c \in RunCall \cup CancelCall, lock = c,
         NEW to \in Critical, pc' = [pc EXCEPT ![c] = to], lock' = lock, reply' = reply,
         c \in RunCall => to \in {"check", "resolve", "prepare"},
         c \in CancelCall => to \in {"check", "cancel"}
  PROVE  CallInv'
  <1>1. \A d \in Call : pc'[d] = IF d = c THEN to ELSE pc[d]
    BY DEF TypeOK, Call
  <1> QED
    BY <1>1 DEF CallInv, Critical, Call

\* What the run has done so far does not depend on what other calls do.
LEMMA RunKept ==
  ASSUME IInv, UNCHANGED <<outcome, runCancelled, fieldVars, worker, phase, runComplete>>,
         \A c \in RunCall : /\ pc'[c] = "resolve" => pc[c] = "resolve" \/ ~runner
                            /\ pc'[c] = "prepare" => pc[c] = "prepare",
         Accepted(RunCall)' = Accepted(RunCall),
         Accepted(CancelCall)' = Accepted(CancelCall)
  PROVE  FieldInv' /\ WorkerInv' /\ RunAcceptedOnce' /\ CancelledOnlyOnRequest'
  BY DEF IInv, FieldInv, Unstarted, Imported, WorkerInv, RunAcceptedOnce,
         CancelledOnlyOnRequest, fieldVars

\* Calls that return without starting or cancelling anything.
LEMMA ReturnIInv ==
  ASSUME IInv, TypeOK', NEW c \in Call, pc[c] # "done",
         NEW r \in {"ok", "error", "panic"}, Return(c, r),
         UNCHANGED <<outcome, runCancelled, fieldVars, worker, phase, runComplete>>,
         r = "ok" => c \notin RunCall \cup CancelCall
  PROVE  IInv'
  <1>1. CallInv'
    BY ReturnKeepsCalls DEF IInv
  <1>2. reply' = [reply EXCEPT ![c] = r]
    BY Returned DEF IInv
  <1>3. RunCall \in SUBSET Call /\ CancelCall \in SUBSET Call
    BY DEF Call
  <1>4. /\ Accepted(RunCall)' = Accepted(RunCall)
        /\ Accepted(CancelCall)' = Accepted(CancelCall)
    <2>1. TypeOK /\ CallInv
      BY DEF IInv
    <2>2. Accepted(RunCall)' = Accepted(RunCall)
      BY <1>2, <1>3, <2>1, AcceptedAfter
    <2>3. Accepted(CancelCall)' = Accepted(CancelCall)
      BY <1>2, <1>3, <2>1, AcceptedAfter
    <2> QED
      BY <2>2, <2>3
  <1>5. \A d \in RunCall : pc'[d] = IF d = c THEN "done" ELSE pc[d]
    BY Returned DEF IInv, TypeOK, Call
  <1>6. FieldInv' /\ WorkerInv' /\ RunAcceptedOnce' /\ CancelledOnlyOnRequest'
    BY <1>4, <1>5, RunKept
  <1> QED
    BY <1>1, <1>6 DEF IInv

\* Steps that only move a call between locations.
LEMMA MoveIInv ==
  ASSUME IInv, TypeOK', CallInv', NEW c \in Call, NEW to, pc' = [pc EXCEPT ![c] = to],
         reply' = reply,
         UNCHANGED <<outcome, runCancelled, fieldVars, worker, phase, runComplete>>,
         c \in RunCall /\ to = "resolve" => ~runner,
         c \in RunCall => to # "prepare"
  PROVE  IInv'
  <1>1. Accepted(RunCall)' = Accepted(RunCall) /\ Accepted(CancelCall)' = Accepted(CancelCall)
    BY DEF Accepted
  <1>2. \A d \in RunCall : pc'[d] = IF d = c THEN to ELSE pc[d]
    BY DEF IInv, TypeOK, Call
  <1>3. FieldInv' /\ WorkerInv' /\ RunAcceptedOnce' /\ CancelledOnlyOnRequest'
    BY <1>1, <1>2, RunKept
  <1> QED
    BY <1>3 DEF IInv

LEMMA LockIInv ==
  ASSUME IInv, TypeOK', NEW c \in RunCall \cup CancelCall, Lock(c)
  PROVE  IInv'
  <1>1. \A d \in Call : pc'[d] = IF d = c THEN "check" ELSE pc[d]
    BY DEF Lock, IInv, TypeOK, Call
  <1>2. \A d \in RunCall \cup CancelCall : pc[d] \notin Critical
    BY Kinds DEF IInv, CallInv, Lock, Unlocked, Call
  <1>3. CallInv'
    BY <1>1, <1>2 DEF Lock, IInv, CallInv, Critical, Call
  <1> QED
    BY <1>3, MoveIInv DEF Lock, endVars, graphVars, Call

\* One step of a call of Run.
LEMMA RunIInv ==
  ASSUME IInv, TypeOK', NEW c \in RunCall, RunStep(c)
  PROVE  IInv'
  <1> USE DEF graphVars, endVars
  <1>0. c \in Call /\ (pc[c] \in Critical => lock = c)
    BY DEF IInv, CallInv, Call
  <1>1. CASE Lock(c)
    BY <1>1, LockIInv
  <1>2. CASE RunRefused(c) \/ RunUnresolved(c) \/ RunSetupFails(c)
    BY <1>0, <1>2, ReturnIInv DEF RunRefused, RunUnresolved, RunSetupFails
  <1>3. CASE RunAdmitted(c)
    <2>1. CallInv'
      BY <1>0, <1>3, MoveKeepsCalls, Kinds DEF RunAdmitted, IInv, Critical
    <2> QED
      BY <1>0, <1>3, <2>1, MoveIInv DEF RunAdmitted
  <1>4. CASE RunCreates(c)
    <2>1. CallInv'
      BY <1>0, <1>4, MoveKeepsCalls, Kinds DEF RunCreates, IInv, Critical
    <2>2. /\ ~runner /\ runner' /\ Unstarted /\ Unstarted'
      BY <1>4 DEF RunCreates, IInv, FieldInv, Unstarted
    <2>3. \A d \in RunCall : pc'[d] # "resolve"
      BY <1>0, <1>4 DEF RunCreates, IInv, CallInv, TypeOK, Critical, Call
    <2>4. FieldInv'
      BY <2>2, <2>3 DEF FieldInv, Unstarted
    <2>5. WorkerInv' /\ RunAcceptedOnce' /\ CancelledOnlyOnRequest'
      BY <1>4 DEF RunCreates, IInv, WorkerInv, RunAcceptedOnce, CancelledOnlyOnRequest, Accepted
    <2> QED
      BY <2>1, <2>4, <2>5 DEF IInv
  <1>5. CASE RunStarts(c)
    <2>1. Return(c, "ok") /\ pc[c] = "prepare" /\ lock = c
      BY <1>0, <1>5 DEF RunStarts, Critical
    <2>2. CallInv'
      BY <1>0, <2>1, ReturnKeepsCalls DEF IInv
    <2>3. Unstarted /\ runner
      BY <2>1 DEF IInv, FieldInv, Unstarted
    <2>4. \A d \in RunCall : pc'[d] \notin {"resolve", "prepare"}
      BY <2>1, <1>0, Returned DEF IInv, CallInv, TypeOK, Critical, Call
    <2>5. reply' = [reply EXCEPT ![c] = "ok"] /\ RunCall \in SUBSET Call /\ CancelCall \in SUBSET Call
      BY <1>0, <2>1, Returned DEF IInv, Call
    <2>6. /\ Accepted(RunCall)' = Accepted(RunCall) \cup {c}
          /\ Accepted(CancelCall)' = Accepted(CancelCall)
      <3>1. TypeOK /\ CallInv /\ pc[c] # "done" /\ c \notin CancelCall
        BY <2>1, Kinds DEF IInv
      <3>2. Accepted(RunCall)' = Accepted(RunCall) \cup {c}
        BY <1>0, <2>5, <3>1, AcceptedAfter
      <3>3. Accepted(CancelCall)' = Accepted(CancelCall)
        BY <1>0, <2>5, <3>1, AcceptedAfter
      <3> QED
        BY <3>2, <3>3
    <2>7. Accepted(RunCall) = {}
      BY <2>3 DEF IInv, RunAcceptedOnce, Unstarted
    <2>8. FieldInv'
      BY <1>5, <2>3, <2>4 DEF RunStarts, FieldInv
    <2>9. WorkerInv'
      BY <1>5, <2>3 DEF RunStarts, WorkerInv, Unstarted
    <2>10. RunAcceptedOnce' /\ CancelledOnlyOnRequest'
      BY <1>5, <2>3, <2>6, <2>7 DEF RunStarts, runContextEnds, RunAcceptedOnce,
             CancelledOnlyOnRequest, Unstarted
    <2> QED
      BY <2>2, <2>8, <2>9, <2>10 DEF IInv
  <1> QED
    BY <1>1, <1>2, <1>3, <1>4, <1>5 DEF RunStep

\* One step of a call of Cancel.
LEMMA CancelIInv ==
  ASSUME IInv, TypeOK', NEW c \in CancelCall, CancelStep(c)
  PROVE  IInv'
  <1> USE DEF graphVars, endVars
  <1>0. c \in Call /\ (pc[c] \in Critical => lock = c)
    BY DEF IInv, CallInv, Call
  <1>1. CASE Lock(c)
    BY <1>1, LockIInv
  <1>2. CASE CancelRefused(c) \/ CancelPanics(c)
    BY <1>0, <1>2, ReturnIInv DEF CancelRefused, CancelPanics
  <1>3. CASE CancelChecked(c)
    <2>1. CallInv'
      BY <1>0, <1>3, MoveKeepsCalls, Kinds DEF CancelChecked, IInv, Critical
    <2> QED
      BY <1>0, <1>3, <2>1, MoveIInv, Kinds DEF CancelChecked
  <1>4. CASE CancelRun(c)
    <2>1. Return(c, "ok") /\ pc[c] = "cancel" /\ cancelFn
      BY <1>4 DEF CancelRun
    <2>2. CallInv'
      BY <1>0, <2>1, ReturnKeepsCalls DEF IInv
    <2>3. worker # "none" /\ runner
      BY <2>1 DEF IInv, FieldInv, Unstarted, Imported
    <2>4. reply' = [reply EXCEPT ![c] = "ok"] /\ RunCall \in SUBSET Call /\ CancelCall \in SUBSET Call
      BY <1>0, <2>1, Returned DEF IInv, Call
    <2>5. /\ Accepted(RunCall)' = Accepted(RunCall)
          /\ Accepted(CancelCall)' = Accepted(CancelCall) \cup {c}
      <3>1. TypeOK /\ CallInv /\ pc[c] # "done" /\ c \notin RunCall
        BY <2>1, Kinds DEF IInv
      <3>2. Accepted(RunCall)' = Accepted(RunCall)
        BY <1>0, <2>4, <3>1, AcceptedAfter
      <3>3. Accepted(CancelCall)' = Accepted(CancelCall) \cup {c}
        BY <1>0, <2>4, <3>1, AcceptedAfter
      <3> QED
        BY <3>2, <3>3
    <2>6. \A d \in RunCall : pc'[d] \notin {"resolve", "prepare"}
      BY <2>1, <1>0, Returned DEF IInv, CallInv, TypeOK, Critical, Call
    <2>7. FieldInv'
      BY <1>4, <2>3, <2>6 DEF CancelRun, IInv, FieldInv, fieldVars
    <2>8. WorkerInv' /\ RunAcceptedOnce' /\ CancelledOnlyOnRequest'
      BY <1>4, <2>5 DEF CancelRun, IInv, WorkerInv, RunAcceptedOnce, CancelledOnlyOnRequest
    <2> QED
      BY <2>2, <2>7, <2>8 DEF IInv
  <1> QED
    BY <1>1, <1>2, <1>3, <1>4 DEF CancelStep

\* One step of a dry run or of a poll of the list: the run is none of its business.
LEMMA OtherIInv ==
  ASSUME IInv, TypeOK', NEW c \in DryCall \cup ListCall,
         (c \in DryCall /\ DryRunStep(c)) \/ (c \in ListCall /\ ListStep(c))
  PROVE  IInv'
  <1> USE DEF graphVars, endVars
  <1>0. c \in Call /\ c \notin RunCall \cup CancelCall
    BY Kinds DEF Call
  <1>1. CASE DryRunRefused(c) \/ DryRunEnds(c) \/ ListSkips(c) \/ ListReads(c)
    BY <1>0, <1>1, ReturnIInv DEF DryRunRefused, DryRunEnds, ListSkips, ListReads
  <1>2. CASE DryRunStarts(c) \/ ListFindsStarted(c)
    <2>1. CallInv'
      BY <1>0, <1>2 DEF DryRunStarts, ListFindsStarted, IInv, CallInv, TypeOK, Call
    <2> QED
      BY <1>0, <1>2, <2>1, MoveIInv DEF DryRunStarts, ListFindsStarted
  <1> QED
    BY <1>1, <1>2 DEF DryRunStep, ListStep

\* One step of the goroutine of the run.
LEMMA WorkerIInv ==
  ASSUME IInv, TypeOK', WorkerStep
  PROVE  IInv'
  <1> USE DEF graphVars, callVars, fieldVars, endVars
  <1>1. /\ pc' = pc /\ reply' = reply /\ lock' = lock
        /\ runner' = runner /\ cancelFn' = cancelFn /\ metadata' = metadata
        /\ featureTasks' = featureTasks
        /\ worker # "none" /\ worker' # "none"
    BY DEF WorkerStep, RegisterLoggers, GraphStep, RunFuncReturns, MarkProgress, CloseRun, deferred
  <1>2. /\ Accepted(RunCall)' = Accepted(RunCall)
        /\ Accepted(CancelCall)' = Accepted(CancelCall)
    BY <1>1 DEF Accepted
  <1>3. CallInv' /\ RunAcceptedOnce'
    BY <1>1, <1>2 DEF IInv, CallInv, RunAcceptedOnce
  <1>4. FieldInv'
    BY <1>1 DEF IInv, FieldInv, Unstarted
  <1>5. WorkerInv' /\ CancelledOnlyOnRequest'
    <2>1. CASE GraphStep
      <3>1. /\ worker = "run" /\ worker' = worker /\ phase' = phase /\ runComplete' = runComplete
            /\ runCancelled' = runCancelled
        BY <2>1 DEF GraphStep, Graph!Start, Graph!Settle, Graph!Skip, Graph!Finish
      <3> QED
        BY <3>1, <1>2 DEF IInv, WorkerInv, CancelledOnlyOnRequest
    <2>2. CASE RegisterLoggers \/ RunFuncReturns
      BY <2>2, <1>2 DEF RegisterLoggers, RunFuncReturns, IInv, WorkerInv, CancelledOnlyOnRequest
    <2>3. CASE MarkProgress
      BY <2>3, <1>2 DEF MarkProgress, settledPhase, IInv, WorkerInv, CancelledOnlyOnRequest
    <2>4. CASE CloseRun
      BY <2>4, <1>2 DEF CloseRun, deferred, IInv, WorkerInv, CancelledOnlyOnRequest
    <2> QED
      BY <2>1, <2>2, <2>3, <2>4 DEF WorkerStep
  <1> QED
    BY <1>3, <1>4, <1>5 DEF IInv

LEMMA NextIInv == IInv /\ [Next]_vars => IInv'
  <1> SUFFICES ASSUME IInv, [Next]_vars PROVE IInv'
    OBVIOUS
  <1>1. TypeOK'
    BY NextTypeOK DEF IInv
  <1>2. ASSUME NEW c \in RunCall, RunStep(c) PROVE IInv'
    BY <1>1, <1>2, RunIInv
  <1>3. ASSUME NEW c \in CancelCall, CancelStep(c) PROVE IInv'
    BY <1>1, <1>3, CancelIInv
  <1>4. ASSUME NEW c \in DryCall, DryRunStep(c) PROVE IInv'
    BY <1>1, <1>4, OtherIInv
  <1>5. ASSUME NEW c \in ListCall, ListStep(c) PROVE IInv'
    BY <1>1, <1>5, OtherIInv
  <1>6. CASE WorkerStep
    BY <1>1, <1>6, WorkerIInv
  <1>7. CASE UNCHANGED vars
    BY <1>1, <1>7 DEF vars, IInv, CallInv, FieldInv, Unstarted, Imported, WorkerInv,
                      RunAcceptedOnce, CancelledOnlyOnRequest, Accepted
  <1> QED
    BY <1>2, <1>3, <1>4, <1>5, <1>6, <1>7 DEF Next, Quiet

\* The inductive invariant holds in every reachable state.
THEOREM InvariantHolds == Spec => []IInv
  <1> QED
    BY InitIInv, NextIInv, PTL DEF Spec

-----------------------------------------------------------------------------

\* One run is accepted, however many requests race for it.
THEOREM OneRunIsAccepted == Spec => []RunAcceptedOnce
  <1>1. IInv => RunAcceptedOnce
    BY DEF IInv
  <1> QED
    BY <1>1, InvariantHolds, PTL

\* When Wait() wakes anybody, the phase is settled and agrees with the result.
THEOREM PhaseIsTruthful == Spec => []PhaseTellsOutcome
  <1>1. IInv => PhaseTellsOutcome
    BY DEF IInv, FieldInv, WorkerInv, Unstarted, Imported, TypeOK, PhaseTellsOutcome
  <1> QED
    BY <1>1, InvariantHolds, PTL

\* While tasks run, only an accepted Cancel ends their context.
THEOREM OnlyCancelCancels == Spec => []CancelledOnlyOnRequest
  <1>1. IInv => CancelledOnlyOnRequest
    BY DEF IInv
  <1> QED
    BY <1>1, InvariantHolds, PTL

\* Nothing of a run changes after its end was announced.
THEOREM NothingChangesAfterComplete == Spec => FinalAfterComplete
  <1>1. ASSUME IInv, [Next]_vars, runComplete
        PROVE  UNCHANGED <<graphVars, phase, worker, metadata>>
    <2> USE DEF graphVars, callVars, fieldVars, endVars
    <2>1. worker \in {"none", "exit"}
      BY <1>1 DEF IInv, TypeOK, WorkerInv
    <2>2. ASSUME NEW c \in RunCall, RunStep(c)
          PROVE  UNCHANGED <<graphVars, phase, worker, metadata>>
      <3>1. ~RunStarts(c)
        BY <1>1 DEF IInv, FieldInv, Unstarted, RunStarts
      <3> QED
        BY <2>2, <3>1 DEF RunStep, Lock, RunRefused, RunAdmitted, RunUnresolved, RunCreates,
                          RunSetupFails
    <2>3. ASSUME NEW c \in CancelCall, CancelStep(c)
          PROVE  UNCHANGED <<graphVars, phase, worker, metadata>>
      BY <2>3 DEF CancelStep, Lock, CancelRefused, CancelChecked, CancelRun, CancelPanics
    <2>4. ASSUME NEW c \in DryCall, DryRunStep(c)
          PROVE  UNCHANGED <<graphVars, phase, worker, metadata>>
      BY <2>4 DEF DryRunStep, DryRunRefused, DryRunStarts, DryRunEnds
    <2>5. ASSUME NEW c \in ListCall, ListStep(c)
          PROVE  UNCHANGED <<graphVars, phase, worker, metadata>>
      BY <2>5 DEF ListStep, ListSkips, ListFindsStarted, ListReads
    <2>6. ~WorkerStep
      BY <2>1 DEF WorkerStep, RegisterLoggers, GraphStep, RunFuncReturns, MarkProgress,
                  CloseRun, deferred
    <2> QED
      BY <1>1, <2>2, <2>3, <2>4, <2>5, <2>6 DEF Next, Quiet, vars
  <1> QED
    BY <1>1, InvariantHolds, PTL DEF Spec, FinalAfterComplete

-----------------------------------------------------------------------------
(***************************************************************************)
(* The inspection implements InspectionLifecycle.                          *)
(***************************************************************************)

LEMMA InitRefines == Init => Lifecycle!Init
  <1> SUFFICES ASSUME Init PROVE Lifecycle!Init
    OBVIOUS
  <1>1. Accepted(CancelCall) = {}
    BY DEF Init, NewInspectionRunner, NewImportedInspectionRunner, InitCalls, Accepted, Call
  <1> QED
    BY <1>1 DEF Init, NewInspectionRunner, NewImportedInspectionRunner, Graph!Init, Lifecycle!Init

\* A step that leaves what people see alone.
LEMMA SeenKept ==
  ASSUME UNCHANGED <<phase, metadata, outcome, runComplete>>,
         Accepted(CancelCall)' = Accepted(CancelCall)
  PROVE  UNCHANGED Lifecycle!vars
  BY DEF Lifecycle!vars

LEMMA StepRefines == IInv /\ [Next]_vars => [Lifecycle!Next]_(Lifecycle!vars)
  <1> SUFFICES ASSUME IInv, [Next]_vars PROVE Lifecycle!Next \/ UNCHANGED Lifecycle!vars
    OBVIOUS
  <1> USE DEF graphVars, callVars, fieldVars, endVars
  <1>0. CancelCall \in SUBSET Call /\ TypeOK /\ CallInv
    BY DEF Call, IInv
  <1>1. ASSUME NEW c \in Call, NEW r \in {"ok", "error", "panic"}, Return(c, r), pc[c] # "done",
               c \in CancelCall => r # "ok"
        PROVE  Accepted(CancelCall)' = Accepted(CancelCall)
    <2>1. reply' = [reply EXCEPT ![c] = r]
      BY <1>0, <1>1, Returned
    <2> QED
      BY <1>0, <1>1, <2>1, AcceptedAfter
  <1>2. reply' = reply => Accepted(CancelCall)' = Accepted(CancelCall)
    BY DEF Accepted
  <1>3. ASSUME NEW c \in RunCall, RunStep(c)
        PROVE  Lifecycle!Next \/ UNCHANGED Lifecycle!vars
    <2>0. c \in Call /\ c \notin CancelCall
      BY Kinds DEF Call
    <2>1. CASE Lock(c) \/ RunAdmitted(c) \/ RunCreates(c)
      BY <2>1, <1>2, SeenKept DEF Lock, RunAdmitted, RunCreates
    <2>2. CASE RunRefused(c) \/ RunUnresolved(c) \/ RunSetupFails(c)
      BY <2>0, <2>2, <1>1, SeenKept DEF RunRefused, RunUnresolved, RunSetupFails
    <2>3. CASE RunStarts(c)
      <3>1. Accepted(CancelCall)' = Accepted(CancelCall)
        BY <2>0, <2>3, <1>1 DEF RunStarts
      <3>2. ~metadata /\ phase = "RUNNING"
        BY <2>3 DEF RunStarts, IInv, FieldInv, Unstarted
      <3>3. Lifecycle!Start
        BY <2>3, <3>1, <3>2 DEF RunStarts, Lifecycle!Start
      <3> QED
        BY <3>3 DEF Lifecycle!Next
    <2> QED
      BY <1>3, <2>1, <2>2, <2>3 DEF RunStep
  <1>4. ASSUME NEW c \in CancelCall, CancelStep(c)
        PROVE  Lifecycle!Next \/ UNCHANGED Lifecycle!vars
    <2>0. c \in Call
      BY DEF Call
    <2>1. CASE Lock(c) \/ CancelChecked(c)
      BY <2>1, <1>2, SeenKept DEF Lock, CancelChecked
    <2>2. CASE CancelRefused(c) \/ CancelPanics(c)
      BY <2>0, <2>2, <1>1, SeenKept DEF CancelRefused, CancelPanics
    <2>3. CASE CancelRun(c)
      <3>1. reply' = [reply EXCEPT ![c] = "ok"]
        BY <1>0, <2>0, <2>3, Returned DEF CancelRun
      <3>2. Accepted(CancelCall)' = Accepted(CancelCall) \cup {c}
        BY <1>0, <2>0, <2>3, <3>1, AcceptedAfter DEF CancelRun
      <3>3. metadata /\ phase # "unlisted"
        BY <2>3 DEF CancelRun, IInv, TypeOK, FieldInv, Unstarted, Imported
      <3>4. Lifecycle!RequestCancel
        BY <2>3, <3>2, <3>3 DEF CancelRun, Lifecycle!RequestCancel
      <3> QED
        BY <3>4 DEF Lifecycle!Next
    <2> QED
      BY <1>4, <2>1, <2>2, <2>3 DEF CancelStep
  <1>5. ASSUME NEW c \in DryCall, DryRunStep(c)
        PROVE  Lifecycle!Next \/ UNCHANGED Lifecycle!vars
    <2>0. c \in Call /\ c \notin CancelCall
      BY Kinds DEF Call
    <2>1. CASE DryRunStarts(c)
      BY <2>1, <1>2, SeenKept DEF DryRunStarts
    <2>2. CASE DryRunRefused(c) \/ DryRunEnds(c)
      BY <2>0, <2>2, <1>1, SeenKept DEF DryRunRefused, DryRunEnds
    <2> QED
      BY <1>5, <2>1, <2>2 DEF DryRunStep
  <1>6. ASSUME NEW c \in ListCall, ListStep(c)
        PROVE  Lifecycle!Next \/ UNCHANGED Lifecycle!vars
    <2>0. c \in Call /\ c \notin CancelCall
      BY Kinds DEF Call
    <2>1. CASE ListFindsStarted(c)
      BY <2>1, <1>2, SeenKept DEF ListFindsStarted
    <2>2. CASE ListSkips(c) \/ ListReads(c)
      BY <2>0, <2>2, <1>1, SeenKept DEF ListSkips, ListReads
    <2> QED
      BY <1>6, <2>1, <2>2 DEF ListStep
  <1>7. CASE WorkerStep
    <2>0. /\ Accepted(CancelCall)' = Accepted(CancelCall) /\ metadata' = metadata /\ metadata
      BY <1>7, <1>2 DEF WorkerStep, RegisterLoggers, GraphStep, RunFuncReturns, MarkProgress,
                        CloseRun, deferred, IInv, FieldInv
    <2>1. CASE RegisterLoggers \/ RunFuncReturns
      BY <2>0, <2>1, SeenKept DEF RegisterLoggers, RunFuncReturns
    <2>2. CASE GraphStep
      <3>1. phase = "RUNNING" /\ phase' = phase /\ runComplete' = runComplete
        BY <2>2 DEF GraphStep, IInv, WorkerInv
      <3>2. CASE outcome' = "success" /\ outcome # "success"
        <4>1. Lifecycle!Complete
          BY <2>0, <3>1, <3>2 DEF Lifecycle!Complete
        <4> QED
          BY <4>1 DEF Lifecycle!Next
      <3>3. CASE outcome' = outcome
        BY <2>0, <3>1, <3>3, SeenKept
      <3>4. CASE outcome = "none" /\ outcome' = "error"
        BY <2>0, <3>1, <3>4 DEF Lifecycle!vars
      <3>5. outcome' = outcome \/ (outcome = "none" /\ outcome' \in {"success", "error"})
        BY <2>2 DEF GraphStep, Graph!Start, Graph!Settle, Graph!Skip, Graph!Finish
      <3> QED
        BY <3>2, <3>3, <3>4, <3>5
    <2>3. CASE MarkProgress
      <3>1. phase = "RUNNING" /\ (runCancelled => Accepted(CancelCall) # {})
        BY <2>3 DEF MarkProgress, IInv, WorkerInv, CancelledOnlyOnRequest
      <3>2. Lifecycle!Settle
        BY <2>0, <2>3, <3>1 DEF MarkProgress, settledPhase, Lifecycle!Settle
      <3> QED
        BY <3>2 DEF Lifecycle!Next
    <2>4. CASE CloseRun
      <3>1. phase \in {"DONE", "ERROR", "CANCELLED"}
        BY <2>4 DEF CloseRun, deferred, IInv, TypeOK, WorkerInv
      <3>2. Lifecycle!Announce
        BY <2>0, <2>4, <3>1 DEF CloseRun, Lifecycle!Announce
      <3> QED
        BY <3>2 DEF Lifecycle!Next
    <2> QED
      BY <1>7, <2>1, <2>2, <2>3, <2>4 DEF WorkerStep
  <1>8. CASE UNCHANGED vars
    BY <1>2, <1>8, SeenKept DEF vars
  <1> QED
    BY <1>3, <1>4, <1>5, <1>6, <1>7, <1>8 DEF Next, Quiet

\* Every behaviour of an inspection is one of InspectionLifecycle.
THEOREM InspectionImplementsLifecycle == Spec => LifecycleSpec
  <1> QED
    BY InitRefines, StepRefines, InvariantHolds, PTL DEF Spec, LifecycleSpec, Lifecycle!Spec

=============================================================================
