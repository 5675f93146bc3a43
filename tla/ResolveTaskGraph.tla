--------------------------- MODULE ResolveTaskGraph --------------------------
(***************************************************************************)
(* InspectionTaskRunner.ResolveTaskGraph (pkg/core/inspection/runner.go):  *)
(* the tasks that GraphResolver selects are sorted by TaskSet, and what    *)
(* comes out is the graph that LocalRunner executes.  GraphResolver and    *)
(* TaskSetSort act one after the other.                                    *)
(***************************************************************************)
EXTENDS GraphResolver, Sequences

CONSTANT HasPrefix  \* as in TaskSetSort

VARIABLES tasks, deps, pending, missing, count, sorted, outcome, report,
          starts, from, queue, current, todo, path

Sort == INSTANCE TaskSetSort

\* The tasks are those of the sort: numbered in the order of their IDs.
ASSUME OrderedTasks == Sort!SortAssumption

sortState == <<tasks, deps, pending, missing, count, sorted, outcome, report,
               starts, from, queue, current, todo, path>>

allVars == <<vars, sortState>>

\* The resolver returned tasks; they are made a set and sorted.
ToRunnableTaskSet ==
  /\ result = "resolved"
  /\ Sort!sortTaskGraph(included, [t \in Task |-> IF t \in included THEN Dependencies(t) ELSE {}])
  /\ UNCHANGED vars

InitBoth == Init /\ Sort!Init

\* Resolution failed, or the sort returned.
Ended ==
  /\ result \in {"unresolved", "exhausted"} \/ Sort!Returned
  /\ UNCHANGED allVars

NextBoth ==
  \/ Resolve /\ UNCHANGED sortState
  \/ ToRunnableTaskSet
  \/ Sort!Step /\ UNCHANGED vars
  \/ Ended

SpecBoth == InitBoth /\ [][NextBoth]_allVars

-----------------------------------------------------------------------------
(***************************************************************************)
(* Properties                                                              *)
(***************************************************************************)

\* After a successful resolution the sort never misses a task: the only way left
\* to fail is a cycle.
NeverMissing == outcome # "missing"

\* What LocalRunner takes for granted of a runnable set: it has the features and
\* the required tasks, dependencies stay within it, and each task that must follow
\* others is placed after every one of them.
RunnableIsComplete ==
  outcome = "runnable" =>
    LET before(i) == {sorted[j] : j \in 1..(i - 1)}
        placed == {sorted[i] : i \in 1..Len(sorted)}
    IN  /\ input.requested \cup input.required \subseteq placed
        /\ \A i \in 1..Len(sorted) :
             /\ input.deps[sorted[i]] \subseteq before(i)
             /\ {t \in placed : sorted[i] \in input.subsequent[t]} \subseteq before(i)

\* A cycle is reported only when the declarations of needed tasks, dependencies
\* and followers taken together, are cyclic.
CycleIsDeclared ==
  outcome = "cyclic" =>
    \E S \in SUBSET Needed :
      /\ S # {}
      /\ \A t \in S : \E d \in S : d \in input.deps[t] \/ t \in input.subsequent[d]

\* All that the caller of ResolveTaskGraph counts on.
ResolutionIsRight == NeverMissing /\ RunnableIsComplete /\ CycleIsDeclared

=============================================================================
