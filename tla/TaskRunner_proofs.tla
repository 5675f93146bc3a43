-------------------------- MODULE TaskRunner_proofs --------------------------
(***************************************************************************)
(* Proofs about LocalRunner for every acyclic task graph.  The inductive   *)
(* invariant ties the three pieces of shared state together: the open      *)
(* locks, the result map and the counts of the dependents still to finish. *)
(***************************************************************************)
EXTENDS TaskRunner, TLAPS, FiniteSetTheorems

\* The dependents of d whose runTask has not returned nil.
Unfinished(d) == {t \in Dependents(d) : ~Succeeded(t)}

\* t has stored its result: it is past the write to the result map.
Stored(t) == pc[t] \in {"release", "cleanup"} \/ Succeeded(t)

\* A goroutine carries an error exactly while it handles one, and errors of
\* tasks and phases agree with how far the goroutine came.
ErrInv ==
  \A t \in Task :
    /\ pc[t] \in {"cancel", "report"} => taskErr[t] # NoError
    /\ pc[t] \notin {"cancel", "report", "exit"} => taskErr[t] = NoError
    /\ phase[t] = "WAITING" =>
         /\ pc[t] \in {"idle", "wait", "cancel", "report", "exit"}
         /\ taskErr[t] \in {NoError, Canceled}
         /\ pc[t] = "exit" => taskErr[t] = Canceled
    /\ pc[t] \in {"idle", "wait"} => phase[t] = "WAITING"
    /\ taskErr[t] \in {NoError, Canceled, t}

\* A dependency that is no longer awaited, or whose lock is open before the
\* runner stopped, completed its critical section.
LockInv ==
  /\ \A t \in Task : t \in released /\ ~stopped =>
       taskErr[t] = NoError /\ pc[t] \in {"cleanup", "exit"}
  /\ \A t \in Task : \A d \in Deps[t] : d \notin awaited[t] =>
       taskErr[d] = NoError /\ pc[d] \in {"cleanup", "exit"}
  /\ \A t \in Task : phase[t] # "WAITING" => awaited[t] = {}
  /\ \A t \in Task : awaited[t] \subseteq Deps[t]

\* The result map holds only stored results, holds every result that is retained
\* or still has an unfinished dependent, and has dropped every other one whose
\* task is done.
ResultInv ==
  \A d \in Task :
    /\ d \in results => Stored(d)
    /\ Stored(d) /\ (d \in Retained \/ Unfinished(d) # {}) => d \in results
    /\ Succeeded(d) /\ d \notin Retained /\ Unfinished(d) = {} => d \notin results

\* How the error of the run comes about.
EndInv ==
  /\ stopped => \A t \in Task : pc[t] = "exit"
  /\ groupErr = NoError <=> \A t \in Task : pc[t] = "exit" => taskErr[t] = NoError
  /\ groupErr \in Task => taskErr[groupErr] = groupErr
  /\ resultError # NoError => \E t \in Task : taskErr[t] # NoError
  /\ stopped => resultError = groupErr
  /\ graphDone => stopped \/ \E t \in Task : taskErr[t] # NoError
  /\ (\E t \in Task : taskErr[t] # NoError) => callerDone \/ \E t \in Task : Failed(t)

IInv == TypeOK /\ ErrInv /\ LockInv /\ CountsExact /\ ResultInv /\ EndInv

-----------------------------------------------------------------------------

\* No task depends on itself: a task's own clean-up and its dependencies' are
\* about different results.
LEMMA NoSelfDependency == \A t \in Task : t \notin Deps[t]
  <1>1. PICK rank \in [Task -> 1..Cardinality(Task)] :
               \A t \in Task : \A d \in Deps[t] : rank[d] < rank[t]
    BY AcyclicAssumption
  <1>2. ASSUME NEW t \in Task, t \in Deps[t]
        PROVE  FALSE
    BY <1>1, <1>2
  <1> QED
    BY <1>2

\* The sets of dependents that are counted are finite.
LEMMA DependentsFinite ==
  \A S : S \subseteq Task => IsFiniteSet(S) /\ Cardinality(S) \in Nat
  BY TaskAssumption, FS_Subset, FS_CardinalityType, Zenon

LEMMA InitTypeOK == Init => TypeOK
  <1>1. \A d \in Task : Cardinality(Dependents(d)) \in Int
    BY DependentsFinite DEF Dependents
  <1> SUFFICES ASSUME Init PROVE TypeOK
    OBVIOUS
  <1>2. remaining \in [Task -> Int]
    BY <1>1 DEF Init
  <1>3. /\ pc \in [Task -> Location]
        /\ awaited \in [Task -> SUBSET Task]
        /\ phase \in [Task -> {"WAITING", "RUNNING", "STOPPED"}]
        /\ taskErr \in [Task -> Error]
    BY TaskAssumption DEF Init, Location, Error
  <1> QED
    BY <1>2, <1>3 DEF Init, TypeOK, Error

LEMMA NextTypeOK == TypeOK /\ [Next]_vars => TypeOK'
  <1> SUFFICES ASSUME TypeOK, [Next]_vars PROVE TypeOK'
    OBVIOUS
  <1> USE TaskAssumption DEF TypeOK, Location, Error, Goto, goroutineVars, graphVars,
        ctxVars, endVars
  <1>1. CASE Run
    BY <1>1 DEF Run
  <1>2. CASE CallerCancel
    BY <1>2 DEF CallerCancel
  <1>3. ASSUME NEW t \in Task, Goroutine(t) PROVE TypeOK'
    <2>1. CASE WaitForDependency(t) \/ WaitCancelled(t) \/ StartTask(t)
      BY <2>1 DEF WaitForDependency, Openable, WaitCancelled, StartTask
    <2>2. CASE TaskSucceeds(t) \/ TaskFails(t) \/ TaskInterrupted(t)
      BY <2>2 DEF TaskSucceeds, TaskFails, TaskInterrupted
    <2>3. CASE StoreResult(t) \/ releaseTaskWaiter(t) \/ cleanupCompletedTaskResults(t)
      BY <2>3 DEF StoreResult, releaseTaskWaiter, cleanupCompletedTaskResults,
                  DecrementedBy, Unneeded
    <2>4. CASE CancelGraph(t)
      BY <2>4 DEF CancelGraph
    <2>5. CASE ReportError(t)
      BY <2>5 DEF ReportError
    <2> QED
      BY <1>3, <2>1, <2>2, <2>3, <2>4, <2>5 DEF Goroutine
  <1>4. CASE Finalize
    BY <1>4 DEF Finalize, Joined, finalError
  <1>5. CASE UNCHANGED vars
    BY <1>5 DEF vars
  <1> QED
    BY <1>1, <1>2, <1>3, <1>4, <1>5 DEF Next, Terminated

\* The state of the runner keeps its types.
THEOREM TypeCorrect == Spec => []TypeOK
  <1> QED
    BY InitTypeOK, NextTypeOK, PTL DEF Spec

-----------------------------------------------------------------------------
(***************************************************************************)
(* The initial states and each part of the invariant under one step.       *)
(***************************************************************************)

LEMMA InitIInv == Init => IInv
  <1> SUFFICES ASSUME Init PROVE IInv
    OBVIOUS
  <1>1. TypeOK
    BY InitTypeOK
  <1>2. ErrInv
    BY TaskAssumption DEF Init, ErrInv
  <1>3. LockInv
    BY TaskAssumption DEF Init, LockInv
  <1>4. CountsExact
    <2>1. \A d \in Task : {t \in Dependents(d) : ~Succeeded(t)} = Dependents(d)
      BY DEF Init, Succeeded, Dependents
    <2> QED
      BY <2>1 DEF Init, CountsExact
  <1>5. ResultInv
    BY DEF Init, ResultInv, Stored, Succeeded
  <1>6. EndInv
    BY TaskAssumption DEF Init, EndInv, Failed
  <1> QED
    BY <1>1, <1>2, <1>3, <1>4, <1>5, <1>6 DEF IInv

LEMMA ErrStep == IInv /\ [Next]_vars => ErrInv'
  <1> SUFFICES ASSUME IInv, [Next]_vars PROVE ErrInv'
    OBVIOUS
  <1> USE TaskAssumption DEF IInv, TypeOK, Location, Error, ErrInv, Goto
  <1>1. CASE Run
    BY <1>1 DEF Run
  <1>2. CASE CallerCancel
    BY <1>2 DEF CallerCancel, goroutineVars
  <1>3. ASSUME NEW t \in Task, Goroutine(t) PROVE ErrInv'
    <2>1. CASE WaitForDependency(t)
      BY <2>1 DEF WaitForDependency, Openable
    <2>2. CASE WaitCancelled(t)
      BY <2>2 DEF WaitCancelled
    <2>3. CASE StartTask(t)
      BY <2>3 DEF StartTask
    <2>4. CASE TaskSucceeds(t)
      BY <2>4 DEF TaskSucceeds
    <2>5. CASE TaskFails(t)
      BY <2>5 DEF TaskFails
    <2>6. CASE TaskInterrupted(t)
      BY <2>6 DEF TaskInterrupted
    <2>7. CASE StoreResult(t)
      BY <2>7 DEF StoreResult
    <2>8. CASE releaseTaskWaiter(t)
      BY <2>8 DEF releaseTaskWaiter
    <2>9. CASE cleanupCompletedTaskResults(t)
      BY <2>9 DEF cleanupCompletedTaskResults
    <2>10. CASE CancelGraph(t)
      BY <2>10 DEF CancelGraph
    <2>11. CASE ReportError(t)
      BY <2>11 DEF ReportError
    <2> QED
      BY <1>3, <2>1, <2>2, <2>3, <2>4, <2>5, <2>6, <2>7, <2>8, <2>9, <2>10, <2>11
         DEF Goroutine
  <1>4. CASE Finalize
    BY <1>4 DEF Finalize, Joined, finalError, goroutineVars
  <1>5. CASE UNCHANGED vars
    BY <1>5 DEF vars
  <1> QED
    BY <1>1, <1>2, <1>3, <1>4, <1>5 DEF Next, Terminated

LEMMA LockStep == IInv /\ [Next]_vars => LockInv'
  <1> SUFFICES ASSUME IInv, [Next]_vars PROVE LockInv'
    OBVIOUS
  <1> USE TaskAssumption DEF IInv, TypeOK, Location, Error, ErrInv, LockInv, Goto,
        goroutineVars, graphVars, ctxVars, endVars
  <1>1. CASE Run
    BY <1>1 DEF Run
  <1>2. CASE CallerCancel
    BY <1>2 DEF CallerCancel
  <1>3. ASSUME NEW t \in Task, Goroutine(t) PROVE LockInv'
    <2>1. CASE WaitForDependency(t)
      <3>1. PICK d \in awaited[t] \cap released : awaited' = [awaited EXCEPT ![t] = @ \ {d}]
        BY <2>1 DEF WaitForDependency, Openable
      <3>2. /\ pc[t] = "wait" /\ ~stopped
            /\ UNCHANGED <<pc, phase, taskErr, released, stopped>>
        BY <2>1 DEF WaitForDependency, Openable, EndInv
      <3>3. taskErr[d] = NoError /\ pc[d] \in {"cleanup", "exit"}
        BY <3>1, <3>2
      <3>4. \A u \in Task : \A x \in Deps[u] :
              x \notin awaited'[u] => x \notin awaited[u] \/ x = d
        BY <3>1
      <3>5. \A u \in Task : awaited'[u] \subseteq awaited[u]
        BY <3>1
      <3> QED
        BY <3>2, <3>3, <3>4, <3>5
    <2>2. CASE WaitCancelled(t)
      BY <2>2 DEF WaitCancelled
    <2>3. CASE StartTask(t)
      BY <2>3 DEF StartTask
    <2>4. CASE TaskSucceeds(t)
      BY <2>4 DEF TaskSucceeds
    <2>5. CASE TaskFails(t)
      BY <2>5 DEF TaskFails
    <2>6. CASE TaskInterrupted(t)
      BY <2>6 DEF TaskInterrupted
    <2>7. CASE StoreResult(t)
      BY <2>7 DEF StoreResult
    <2>8. CASE releaseTaskWaiter(t)
      BY <2>8 DEF releaseTaskWaiter
    <2>9. CASE cleanupCompletedTaskResults(t)
      BY <2>9 DEF cleanupCompletedTaskResults
    <2>10. CASE CancelGraph(t)
      BY <2>10 DEF CancelGraph
    <2>11. CASE ReportError(t)
      BY <2>11 DEF ReportError
    <2> QED
      BY <1>3, <2>1, <2>2, <2>3, <2>4, <2>5, <2>6,
         <2>7, <2>8, <2>9, <2>10, <2>11 DEF Goroutine
  <1>4. CASE Finalize
    BY <1>4 DEF Finalize, Joined, finalError
  <1>5. CASE UNCHANGED vars
    BY <1>5 DEF vars
  <1> QED
    BY <1>1, <1>2, <1>3, <1>4, <1>5 DEF Next, Terminated

\* runTask returns nil only at the end of the clean-up.
LEMMA SucceededStep ==
  ASSUME IInv, [Next]_vars, \A t \in Task : ~cleanupCompletedTaskResults(t)
  PROVE  \A u \in Task : Succeeded(u)' <=> Succeeded(u)
  <1> USE TaskAssumption DEF IInv, TypeOK, Location, Error, ErrInv, Succeeded, Goto, goroutineVars
  <1>1. CASE Run
    BY <1>1 DEF Run
  <1>2. CASE CallerCancel \/ Finalize \/ UNCHANGED vars
    BY <1>2 DEF CallerCancel, Finalize, vars
  <1>3. ASSUME NEW t \in Task, Goroutine(t)
        PROVE  \A u \in Task : Succeeded(u)' <=> Succeeded(u)
    <2>1. CASE WaitForDependency(t) \/ WaitCancelled(t) \/ StartTask(t)
      BY <2>1 DEF WaitForDependency, Openable, WaitCancelled, StartTask
    <2>2. CASE TaskSucceeds(t) \/ TaskFails(t) \/ TaskInterrupted(t)
      BY <2>2 DEF TaskSucceeds, TaskFails, TaskInterrupted
    <2>3. CASE StoreResult(t) \/ releaseTaskWaiter(t)
      BY <2>3 DEF StoreResult, releaseTaskWaiter
    <2>4. CASE CancelGraph(t) \/ ReportError(t)
      BY <2>4 DEF CancelGraph, ReportError
    <2> QED
      BY <1>3, <2>1, <2>2, <2>3, <2>4 DEF Goroutine
  <1> QED
    BY <1>1, <1>2, <1>3 DEF Next, Terminated

\* The clean-up of t takes t, and only t, off the unfinished dependents.
LEMMA CleanupStep ==
  ASSUME IInv, NEW t \in Task, cleanupCompletedTaskResults(t)
  PROVE  /\ \A u \in Task : Succeeded(u)' <=> Succeeded(u) \/ u = t
         /\ \A d \in Task : Unfinished(d)' = Unfinished(d) \ {t}
         /\ \A d \in Task : t \in Unfinished(d) <=> d \in Deps[t]
         /\ \A d \in Task : DecrementedBy(t)[d] = Cardinality(Unfinished(d)')
         /\ \A d \in Task : DecrementedBy(t)[d] = 0 <=> Unfinished(d)' = {}
  <1> USE TaskAssumption DEF IInv, TypeOK, ErrInv
  <1>1. \A u \in Task : Succeeded(u)' <=> Succeeded(u) \/ u = t
    BY DEF cleanupCompletedTaskResults, Goto, Succeeded
  <1>2. ~Succeeded(t)
    BY DEF cleanupCompletedTaskResults, Goto, Succeeded
  <1>3. \A d \in Task : Unfinished(d)' = Unfinished(d) \ {t}
    BY <1>1 DEF Unfinished, Dependents
  <1>4. \A d \in Task : t \in Unfinished(d) <=> d \in Deps[t]
    BY <1>2 DEF Unfinished, Dependents
  <1>5. ASSUME NEW d \in Task
        PROVE  DecrementedBy(t)[d] = Cardinality(Unfinished(d)')
    <2>1. remaining[d] = Cardinality(Unfinished(d))
      BY DEF CountsExact, Unfinished
    <2>2. IsFiniteSet(Unfinished(d)) /\ Cardinality(Unfinished(d)) \in Nat
      BY DependentsFinite DEF Unfinished, Dependents
    <2>3. Cardinality(Unfinished(d) \ {t}) =
            IF t \in Unfinished(d) THEN Cardinality(Unfinished(d)) - 1
                                   ELSE Cardinality(Unfinished(d))
      BY <2>2, FS_RemoveElement
    <2> QED
      BY <1>3, <1>4, <2>1, <2>3 DEF DecrementedBy
  <1>6. ASSUME NEW d \in Task
        PROVE  DecrementedBy(t)[d] = 0 <=> Unfinished(d)' = {}
    <2>1. IsFiniteSet(Unfinished(d)')
      BY <1>3, DependentsFinite DEF Unfinished, Dependents
    <2>2. Cardinality(Unfinished(d)') = 0 <=> Unfinished(d)' = {}
      BY <2>1, FS_EmptySet
    <2> QED
      BY <1>5, <2>2
  <1> QED
    BY <1>1, <1>3, <1>4, <1>5, <1>6

LEMMA CountsStep == IInv /\ [Next]_vars => CountsExact'
  <1> SUFFICES ASSUME IInv, [Next]_vars PROVE CountsExact'
    OBVIOUS
  <1>1. CASE \E t \in Task : cleanupCompletedTaskResults(t)
    <2>1. PICK t \in Task : cleanupCompletedTaskResults(t)
      BY <1>1
    <2>2. \A d \in Task : remaining'[d] = Cardinality(Unfinished(d)')
      BY <2>1, CleanupStep DEF cleanupCompletedTaskResults
    <2> QED
      BY <2>2 DEF CountsExact, Unfinished
  <1>2. CASE \A t \in Task : ~cleanupCompletedTaskResults(t)
    <2>1. UNCHANGED remaining
      BY <1>2 DEF Next, Goroutine, Run, CallerCancel, WaitForDependency, WaitCancelled, StartTask,
           TaskSucceeds, TaskFails, TaskInterrupted, StoreResult, releaseTaskWaiter,
           CancelGraph, ReportError, Finalize, Terminated, vars, graphVars
    <2>2. \A d \in Task : {t \in Dependents(d) : ~Succeeded(t)}' = {t \in Dependents(d) : ~Succeeded(t)}
      BY <1>2, SucceededStep DEF Dependents
    <2> QED
      BY <2>1, <2>2 DEF CountsExact, IInv
  <1> QED
    BY <1>1, <1>2

LEMMA ResultStep == IInv /\ [Next]_vars => ResultInv'
  <1> SUFFICES ASSUME IInv, [Next]_vars PROVE ResultInv'
    OBVIOUS
  <1> USE TaskAssumption DEF IInv, TypeOK, ResultInv, Stored, Goto
  <1>1. CASE \E t \in Task : cleanupCompletedTaskResults(t)
    <2>1. PICK t \in Task : cleanupCompletedTaskResults(t)
      BY <1>1
    <2> SUFFICES ASSUME NEW d \in Task
                 PROVE  /\ d \in results' => Stored(d)'
                        /\ Stored(d)' /\ (d \in Retained \/ Unfinished(d)' # {}) => d \in results'
                        /\ Succeeded(d)' /\ d \notin Retained /\ Unfinished(d)' = {}
                             => d \notin results'
      OBVIOUS
    <2>2. Stored(d)' <=> Stored(d)
      BY <2>1, CleanupStep DEF cleanupCompletedTaskResults
    <2>3. Unfinished(d)' = {} <=> DecrementedBy(t)[d] = 0
      BY <2>1, CleanupStep
    <2>4. results' = results \ Unneeded(t)
      BY <2>1 DEF cleanupCompletedTaskResults
    <2>5. d \in Unneeded(t) <=> d \in {t} \cup Deps[t] /\ d \notin Retained /\ Unfinished(d)' = {}
      BY <2>3 DEF Unneeded
    <2>6. /\ Unfinished(d)' = Unfinished(d) \ {t}
          /\ t \in Unfinished(d) <=> d \in Deps[t]
          /\ Succeeded(d)' <=> Succeeded(d) \/ d = t
      BY <2>1, CleanupStep
    <2>7. /\ d \notin Deps[t] => Unfinished(d)' = Unfinished(d)
          /\ Unfinished(d)' \subseteq Unfinished(d)
      <3>1. \A S : t \notin S => S \ {t} = S
        OBVIOUS
      <3> QED
        BY <2>6, <3>1
    <2> HIDE DEF ResultInv, Stored
    <2>8. /\ d \in results => Stored(d)
          /\ Stored(d) /\ (d \in Retained \/ Unfinished(d) # {}) => d \in results
          /\ Succeeded(d) /\ d \notin Retained /\ Unfinished(d) = {} => d \notin results
      BY DEF ResultInv
    <2> QED
      BY <2>2, <2>4, <2>5, <2>6, <2>7, <2>8
  <1>2. CASE \A t \in Task : ~cleanupCompletedTaskResults(t)
    <2>1. \A u \in Task : Succeeded(u)' <=> Succeeded(u)
      BY <1>2, SucceededStep
    <2>2. \A d \in Task : Unfinished(d)' = Unfinished(d)
      BY <2>1 DEF Unfinished, Dependents
    <2>3. CASE \E t \in Task : StoreResult(t)
      BY <2>1, <2>2, <2>3 DEF StoreResult, Succeeded
    <2>4. CASE \A t \in Task : ~StoreResult(t)
      <3>1. UNCHANGED results
        BY <1>2, <2>4 DEF Next, Goroutine, Run, CallerCancel, WaitForDependency, WaitCancelled,
           StartTask, TaskSucceeds, TaskFails, TaskInterrupted, releaseTaskWaiter,
           CancelGraph, ReportError, Finalize, Terminated, vars, graphVars
      <3>2. \A u \in Task : Stored(u)' <=> Stored(u)
        <4>1. \A u \in Task : pc'[u] \in {"release", "cleanup"} <=> pc[u] \in {"release", "cleanup"}
          BY <1>2, <2>4 DEF Next, Goroutine, Run, CallerCancel, WaitForDependency, WaitCancelled,
             StartTask, TaskSucceeds, TaskFails, TaskInterrupted, releaseTaskWaiter,
             CancelGraph, ReportError, Finalize, Terminated, vars, goroutineVars
        <4> QED
          BY <2>1, <4>1
      <3> QED
        BY <2>1, <2>2, <3>1, <3>2
    <2> QED
      BY <2>3, <2>4
  <1> QED
    BY <1>1, <1>2

LEMMA EndStep == IInv /\ [Next]_vars => EndInv'
  <1> SUFFICES ASSUME IInv, [Next]_vars PROVE EndInv'
    OBVIOUS
  <1> USE TaskAssumption DEF IInv, TypeOK, Location, Error, ErrInv, EndInv, Failed, Goto,
        goroutineVars, graphVars, ctxVars, endVars, ctxDone
  <1>1. CASE Run
    BY <1>1 DEF Run
  <1>2. CASE CallerCancel
    BY <1>2 DEF CallerCancel
  <1>3. ASSUME NEW t \in Task, Goroutine(t) PROVE EndInv'
    <2>1. CASE WaitForDependency(t)
      BY <2>1 DEF WaitForDependency, Openable
    <2>2. CASE WaitCancelled(t)
      BY <2>2 DEF WaitCancelled
    <2>3. CASE StartTask(t)
      BY <2>3 DEF StartTask
    <2>4. CASE TaskSucceeds(t)
      BY <2>4 DEF TaskSucceeds
    <2>5. CASE TaskFails(t)
      BY <2>5 DEF TaskFails
    <2>6. CASE TaskInterrupted(t)
      BY <2>6 DEF TaskInterrupted
    <2>7. CASE StoreResult(t)
      BY <2>7 DEF StoreResult
    <2>8. CASE releaseTaskWaiter(t)
      BY <2>8 DEF releaseTaskWaiter
    <2>9. CASE cleanupCompletedTaskResults(t)
      BY <2>9 DEF cleanupCompletedTaskResults
    <2>10. CASE CancelGraph(t)
      BY <2>10 DEF CancelGraph
    <2>11. CASE ReportError(t)
      BY <2>11 DEF ReportError
    <2> QED
      BY <1>3, <2>1, <2>2, <2>3, <2>4, <2>5, <2>6,
         <2>7, <2>8, <2>9, <2>10, <2>11 DEF Goroutine
  <1>4. CASE Finalize
    BY <1>4 DEF Finalize, Joined, finalError
  <1>5. CASE UNCHANGED vars
    BY <1>5 DEF vars
  <1> QED
    BY <1>1, <1>2, <1>3, <1>4, <1>5 DEF Next, Terminated

-----------------------------------------------------------------------------

\* The strengthening is an invariant of the runner.
THEOREM InvariantHolds == Spec => []IInv
  <1>1. IInv /\ [Next]_vars => IInv'
    BY NextTypeOK, ErrStep, LockStep, CountsStep, ResultStep, EndStep DEF IInv
  <1> QED
    BY <1>1, InitIInv, PTL DEF Spec

\* While a body runs, the results of all its dependencies are in the map: for
\* every graph and every interleaving, no clean-up drops a result too early.
THEOREM DependenciesAvailable == Spec => []DependencyResultsAvailable
  <1>1. IInv => DependencyResultsAvailable
    <2> SUFFICES ASSUME IInv, NEW t \in Task, pc[t] = "run", NEW d \in Deps[t]
                 PROVE  d \in results
      BY DEF DependencyResultsAvailable
    <2> USE TaskAssumption DEF IInv
    <2>1. d \in Task /\ awaited[t] = {}
      BY DEF ErrInv, LockInv
    <2>2. taskErr[d] = NoError /\ pc[d] \in {"cleanup", "exit"}
      BY <2>1 DEF LockInv
    <2>3. Stored(d)
      BY <2>2 DEF Stored, Succeeded
    <2>4. t \in Unfinished(d)
      BY DEF Unfinished, Dependents, Succeeded
    <2> QED
      BY <2>1, <2>3, <2>4 DEF ResultInv
  <1> QED
    BY <1>1, InvariantHolds, PTL

\* remainingDependents is exact in every reachable state.
THEOREM CountsAreExact == Spec => []CountsExact
  <1>1. IInv => CountsExact
    BY DEF IInv
  <1> QED
    BY <1>1, InvariantHolds, PTL

\* The failure of a task keeps all its transitive dependents from running.
THEOREM FailureContained == Spec => []FailureStopsDependents
  <1>1. IInv => FailureStopsDependents
    BY TaskAssumption DEF IInv, LockInv, FailureStopsDependents
  <1> QED
    BY <1>1, InvariantHolds, PTL

\* Result() says success exactly when every task stored its result.
THEOREM ResultIsTruthful == Spec => []ResultTellsOutcome
  <1>1. IInv => ResultTellsOutcome
    <2> SUFFICES ASSUME IInv, stopped PROVE ResultTellsOutcome
      BY DEF ResultTellsOutcome
    <2> USE TaskAssumption DEF IInv, EndInv, ErrInv, TypeOK, Error
    <2>1. resultError = NoError <=> \A t \in Task : Succeeded(t)
      BY DEF Succeeded
    <2>2. resultError \in Task => taskErr[resultError] = resultError
      OBVIOUS
    <2>3. resultError = Canceled => callerDone \/ \E t \in Task : Failed(t)
      OBVIOUS
    <2> QED
      BY <2>1, <2>2, <2>3 DEF ResultTellsOutcome
  <1> QED
    BY <1>1, InvariantHolds, PTL

\* A run without error leaves the retained results and nothing else.
THEOREM NoResultLeaks == Spec => []OnlyRetainedSurvive
  <1>1. IInv => OnlyRetainedSurvive
    <2> SUFFICES ASSUME IInv, stopped, resultError = NoError PROVE results = Retained
      BY DEF OnlyRetainedSurvive
    <2>1. \A t \in Task : Succeeded(t)
      BY DEF IInv, EndInv, Succeeded
    <2>2. \A d \in Task : Unfinished(d) = {} /\ Stored(d)
      BY <2>1 DEF Unfinished, Stored, Dependents
    <2> QED
      BY <2>1, <2>2, TaskAssumption DEF IInv, TypeOK, ResultInv
  <1> QED
    BY <1>1, InvariantHolds, PTL

\* After Wait()'s channel is closed no step changes what was reported.
THEOREM NothingChangesAfterStop == Spec => StableAfterStop
  <1>1. IInv /\ [Next]_vars => [stopped => UNCHANGED <<results, resultError, phase, remaining>>]_vars
    <2> SUFFICES ASSUME IInv, Next, stopped
                 PROVE  UNCHANGED <<results, resultError, phase, remaining>>
      BY DEF vars
    <2>1. \A t \in Task : pc[t] = "exit"
      BY DEF IInv, EndInv
    <2>2. ~Run /\ ~Finalize /\ \A t \in Task : ~Goroutine(t)
      BY <2>1, TaskAssumption DEF Run, Finalize, Goroutine, Goto, WaitForDependency, WaitCancelled,
         StartTask, TaskSucceeds, TaskFails, TaskInterrupted, StoreResult, releaseTaskWaiter,
         cleanupCompletedTaskResults, CancelGraph, ReportError
    <2> QED
      BY <2>2 DEF Next, CallerCancel, Terminated, vars, goroutineVars, graphVars, endVars
  <1> QED
    BY <1>1, InvariantHolds, PTL DEF Spec, StableAfterStop

-----------------------------------------------------------------------------
(***************************************************************************)
(* The runner implements TaskGraphExecution.                               *)
(***************************************************************************)
statuses == [t \in Task |-> statusOf(t)]
outcomeNow == IF ~stopped THEN "none"
              ELSE IF resultError = NoError THEN "success" ELSE "error"

LEMMA InitRefines == Init => Execution!Init
  <1> SUFFICES ASSUME Init PROVE Execution!Init
    OBVIOUS
  <1>1. ASSUME NEW t \in Task PROVE statusOf(t) = "pending"
    <2>1. pc[t] = "idle"
      BY DEF Init
    <2> QED
      BY <2>1 DEF statusOf, Succeeded, Failed, Init
  <1> QED
    BY <1>1 DEF Init, Execution!Init

\* Steps that only move a goroutine along are invisible to the caller; the others
\* start, settle or skip exactly one task.
LEMMA GoroutineRefines ==
  ASSUME IInv, NEW t \in Task, Goroutine(t)
  PROVE  /\ \/ UNCHANGED statuses
            \/ /\ statusOf(t) = "pending"
               /\ \A d \in Deps[t] : statusOf(d) = "succeeded"
               /\ statuses' = [statuses EXCEPT ![t] = "running"]
            \/ /\ statusOf(t) = "running"
               /\ statuses' = [statuses EXCEPT ![t] = "succeeded"]
            \/ /\ statusOf(t) = "running"
               /\ statuses' = [statuses EXCEPT ![t] = "failed"]
            \/ /\ statusOf(t) = "pending"
               /\ callerDone \/ \E u \in Task : statusOf(u) = "failed"
               /\ statuses' = [statuses EXCEPT ![t] = "skipped"]
         /\ UNCHANGED <<callerDone, stopped>>
         /\ ~stopped
  <1> USE TaskAssumption DEF IInv, TypeOK, Location, Error, ErrInv, Goto, statuses,
        ctxVars, endVars
  <1>1. pc[t] # "exit" => ~stopped
    BY DEF EndInv
  <1>2. CASE WaitForDependency(t) \/ StoreResult(t) \/ cleanupCompletedTaskResults(t)
             \/ TaskSucceeds(t) \/ CancelGraph(t) \/ ReportError(t)
    <2>1. \A u \in Task : statusOf(u)' = statusOf(u)
      BY <1>2 DEF WaitForDependency, Openable, StoreResult, cleanupCompletedTaskResults, TaskSucceeds,
         CancelGraph, ReportError, statusOf, Succeeded, Failed
    <2> QED
      BY <1>1, <1>2, <2>1 DEF WaitForDependency, Openable, StoreResult, cleanupCompletedTaskResults,
         TaskSucceeds, CancelGraph, ReportError
  <1>3. CASE StartTask(t)
    <2>1. \A d \in Deps[t] : statusOf(d) = "succeeded"
      <3> SUFFICES ASSUME NEW d \in Deps[t] PROVE statusOf(d) = "succeeded"
        OBVIOUS
      <3>1. d \in Task /\ taskErr[d] = NoError /\ pc[d] \in {"cleanup", "exit"}
        BY <1>3 DEF StartTask, LockInv
      <3>2. pc[d] = "cleanup" \/ Succeeded(d)
        BY <3>1 DEF Succeeded
      <3>3. pc[d] \notin {"idle", "wait", "run", "store", "release"}
        BY <3>1
      <3> QED
        BY <3>1, <3>2, <3>3 DEF statusOf, Failed
    <2>2. /\ statusOf(t) = "pending" /\ statusOf(t)' = "running"
          /\ \A u \in Task \ {t} : statusOf(u)' = statusOf(u)
      BY <1>3 DEF StartTask, statusOf, Succeeded, Failed
    <2> QED
      BY <1>1, <1>3, <2>1, <2>2 DEF StartTask
  <1>4. CASE WaitCancelled(t)
    <2>1. callerDone \/ \E u \in Task : Failed(u)
      BY <1>1, <1>4 DEF WaitCancelled, EndInv, ctxDone
    <2>2. \A u \in Task : Failed(u) => statusOf(u) = "failed"
      BY DEF Failed, statusOf, Succeeded
    <2>3. /\ statusOf(t) = "pending" /\ statusOf(t)' = "skipped"
          /\ \A u \in Task \ {t} : statusOf(u)' = statusOf(u)
      BY <1>4 DEF WaitCancelled, statusOf, Succeeded, Failed
    <2> QED
      BY <1>1, <1>4, <2>1, <2>2, <2>3 DEF WaitCancelled
  <1>5. CASE TaskFails(t) \/ TaskInterrupted(t)
    <2>1. /\ statusOf(t) = "running" /\ statusOf(t)' = "failed"
          /\ \A u \in Task \ {t} : statusOf(u)' = statusOf(u)
      BY <1>5 DEF TaskFails, TaskInterrupted, statusOf, Succeeded, Failed
    <2>2. UNCHANGED <<callerDone, stopped>> /\ pc[t] # "exit"
      BY <1>5 DEF TaskFails, TaskInterrupted
    <2> QED
      BY <1>1, <2>1, <2>2
  <1>6. CASE releaseTaskWaiter(t)
    <2>1. /\ statusOf(t) = "running" /\ statusOf(t)' = "succeeded"
          /\ \A u \in Task \ {t} : statusOf(u)' = statusOf(u)
      BY <1>6 DEF releaseTaskWaiter, statusOf, Succeeded, Failed
    <2> QED
      BY <1>1, <1>6, <2>1 DEF releaseTaskWaiter
  <1> QED
    BY <1>2, <1>3, <1>4, <1>5, <1>6 DEF Goroutine

LEMMA StepRefines == IInv /\ IInv' /\ [Next]_vars => [Execution!Next]_(Execution!vars)
  <1> SUFFICES ASSUME IInv, IInv', [Next]_vars
               PROVE  Execution!Next \/ UNCHANGED <<statuses, callerDone, outcomeNow>>
    BY DEF Execution!vars, statuses, outcomeNow
  <1> USE TaskAssumption
  <1>1. CASE Run
    <2>1. \A u \in Task : statusOf(u)' = statusOf(u)
      BY <1>1 DEF Run, statusOf, Succeeded, Failed
    <2> QED
      BY <1>1, <2>1 DEF Run, statuses, outcomeNow, ctxVars, endVars
  <1>2. CASE CallerCancel
    <2>1. UNCHANGED <<statuses, outcomeNow>>
      BY <1>2 DEF CallerCancel, goroutineVars, endVars, statuses, statusOf, Succeeded, Failed,
                  outcomeNow
    <2>2. Execution!Cancel
      BY <1>2, <2>1 DEF CallerCancel, Execution!Cancel, statuses, outcomeNow
    <2> QED
      BY <2>2 DEF Execution!Next
  <1>3. ASSUME NEW t \in Task, Goroutine(t)
        PROVE  Execution!Next \/ UNCHANGED <<statuses, callerDone, outcomeNow>>
    <2>1. UNCHANGED <<callerDone, outcomeNow>>
      BY <1>3, GoroutineRefines DEF outcomeNow
    <2>2. /\ DOMAIN statuses = Task
          /\ \A u \in Task : statuses[u] = statusOf(u)
      BY DEF statuses
    <2>3. CASE UNCHANGED statuses
      BY <2>1, <2>3
    <2>4. CASE /\ statusOf(t) = "pending"
               /\ \A d \in Deps[t] : statusOf(d) = "succeeded"
               /\ statuses' = [statuses EXCEPT ![t] = "running"]
      <3>1. \A d \in Deps[t] : statuses[d] = "succeeded"
        BY <2>2, <2>4
      <3>2. Execution!Start(t)
        BY <2>1, <2>2, <2>4, <3>1 DEF Execution!Start, statuses, outcomeNow
      <3> QED
        BY <3>2 DEF Execution!Next
    <2>5. CASE /\ statusOf(t) = "running"
               /\ \E s \in {"succeeded", "failed"} : statuses' = [statuses EXCEPT ![t] = s]
      <3>1. Execution!Settle(t)
        BY <2>1, <2>2, <2>5 DEF Execution!Settle, statuses, outcomeNow
      <3> QED
        BY <3>1 DEF Execution!Next
    <2>6. CASE /\ statusOf(t) = "pending"
               /\ callerDone \/ \E u \in Task : statusOf(u) = "failed"
               /\ statuses' = [statuses EXCEPT ![t] = "skipped"]
      <3>1. Execution!Skip(t)
        BY <2>1, <2>2, <2>6 DEF Execution!Skip, statuses, outcomeNow
      <3> QED
        BY <3>1 DEF Execution!Next
    <2> QED
      BY <1>3, <2>3, <2>4, <2>5, <2>6, GoroutineRefines
  <1>4. CASE Finalize
    <2>1. UNCHANGED <<statuses, callerDone>>
      BY <1>4 DEF Finalize, Joined, finalError, goroutineVars, statuses, statusOf, Succeeded, Failed
    <2>2. \A u \in Task : statusOf(u) \in Execution!Settled /\ (statusOf(u) = "succeeded" <=> Succeeded(u))
      BY <1>4 DEF Finalize, Joined, finalError, statusOf, Execution!Settled, Succeeded, Failed
    <2>3. resultError' = NoError <=> \A u \in Task : Succeeded(u)
      BY <1>4 DEF Finalize, Joined, finalError, IInv, EndInv, Succeeded
    <2>4. outcomeNow = "none"
          /\ outcomeNow' = IF \A u \in Task : statusOf(u) = "succeeded" THEN "success" ELSE "error"
      BY <1>4, <2>2, <2>3 DEF Finalize, Joined, finalError, outcomeNow
    <2>5. \A u \in Task : statuses[u] = statusOf(u)
      BY DEF statuses
    <2>6. Execution!Finish
      BY <2>1, <2>2, <2>4, <2>5 DEF Execution!Finish, statuses, outcomeNow
    <2> QED
      BY <2>6 DEF Execution!Next
  <1>5. CASE UNCHANGED vars
    BY <1>5 DEF vars, statuses, statusOf, Succeeded, Failed, outcomeNow
  <1> QED
    BY <1>1, <1>2, <1>3, <1>4, <1>5 DEF Next, Terminated

\* Every behaviour of the goroutines is one of TaskGraphExecution.
THEOREM RunnerImplementsExecution == Spec => ExecutionSpec
  <1> QED
    BY InitRefines, StepRefines, InvariantHolds, PTL DEF Spec, ExecutionSpec, Execution!Spec

=============================================================================
