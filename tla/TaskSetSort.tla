----------------------------- MODULE TaskSetSort -----------------------------
(***************************************************************************)
(* TaskSet.sortTaskGraph and the search for a cyclic path                  *)
(* (pkg/core/task/taskset.go): Kahn's algorithm over a set of tasks, what  *)
(* it reports when it is stuck, and the breadth-first search that explains *)
(* a cycle, whose maps Go iterates in any order.                           *)
(*                                                                         *)
(* Tasks are numbered in the order of their ID strings, and a task stands  *)
(* for its own reference, since a resolved task list has one task for each *)
(* reference.  Of the strings only what the search compares is kept: which *)
(* references an ID starts with.                                           *)
(***************************************************************************)
EXTENDS Integers, FiniteSets, Sequences

CONSTANTS
  Task,      \* the tasks there are, as naturals
  Ref,       \* the references that dependencies may name; not all have a task
  HasPrefix  \* HasPrefix[t]: the references that the ID string of t starts with

ASSUME SortAssumption ==
  /\ Task \subseteq Nat /\ IsFiniteSet(Task)
  /\ Task \subseteq Ref /\ IsFiniteSet(Ref)
  /\ HasPrefix \in [Task -> SUBSET Ref]
  /\ \A t \in Task : t \in HasPrefix[t]

VARIABLES
  tasks,    \* the tasks of the set
  deps,     \* Dependencies() of each of them
  pending,  \* the keys of nonResolvedTasksMap
  missing,  \* currentMissingTaskDependencies
  count,    \* currentMissingTaskSourceCount
  sorted,   \* topologicalSortedTasks
  outcome,  \* what the sort returned, or how far it is
  report,   \* MissingDependencies
  starts,   \* the tasks the search has still to start from
  from,     \* dependentFrom: who led to each visited task
  queue,    \* the queue of the search
  current,  \* nextTaskID of the search
  todo,     \* the dependencies of current that the search has still to look at
  path      \* the reported cyclic path

setVars == <<tasks, deps>>
sortVars == <<pending, missing, count, sorted>>
searchVars == <<starts, from, queue, current, todo, path>>
vars == <<tasks, deps, pending, missing, count, sorted, outcome, report,
          starts, from, queue, current, todo, path>>

Start == 0 - 1   \* the marker "START"
Nobody == 0 - 2  \* no task

TypeOK ==
  /\ tasks \subseteq Task
  /\ deps \in [Task -> SUBSET Ref]
  /\ pending \subseteq tasks
  /\ missing \in [Task -> SUBSET Ref]
  /\ count \in [Task -> Int]
  /\ sorted \in Seq(Task)
  /\ outcome \in {"idle", "sorting", "searching", "runnable", "missing", "cyclic"}
  /\ report \subseteq Ref
  /\ starts \subseteq Task
  /\ DOMAIN from \subseteq Task
  /\ \A t \in DOMAIN from : from[t] \in Task \cup {Start}
  /\ queue \subseteq Task
  /\ current \in Task \cup {Nobody}
  /\ todo \subseteq Ref
  /\ path \in Seq(Task)

\* The first and the last of a set of tasks in the order of their IDs.
First(S) == {t \in S : \A u \in S : t <= u}
Last(S) == {t \in S : \A u \in S : u <= t}

NothingVisited == [t \in {} |-> Start]

Init ==
  /\ tasks = {}
  /\ deps = [t \in Task |-> {}]
  /\ pending = {}
  /\ missing = [t \in Task |-> {}]
  /\ count = [t \in Task |-> 0]
  /\ sorted = <<>>
  /\ outcome = "idle"
  /\ report = {}
  /\ starts = {}
  /\ from = NothingVisited
  /\ queue = {}
  /\ current = Nobody
  /\ todo = {}
  /\ path = <<>>

\* The call for a set of tasks with the given dependencies.
sortTaskGraph(given, dependencies) ==
  /\ outcome = "idle"
  /\ tasks' = given
  /\ deps' = dependencies
  /\ pending' = given
  /\ missing' = dependencies
  /\ count' = [t \in Task |-> Cardinality(dependencies[t])]
  /\ outcome' = "sorting"
  /\ UNCHANGED <<sorted, report, searchVars>>

\* Mutant of Ready: one missing dependency is overlooked.
ReadyTooEarly == {t \in pending : count[t] <= 1}

Ready == {t \in pending : count[t] = 0}

\* Mutant of Served: a task is served when it misses anything.
ServedAnyway(next) == {t \in pending \ {next} : missing[t] # {}}

\* The unresolved tasks that next was missing for.
Served(next) == {t \in pending \ {next} : next \in missing[t]}

\* The last ready task in the order of the IDs is taken.
TakeReady ==
  /\ outcome = "sorting"
  /\ \E next \in Last(Ready) :
       /\ pending' = pending \ {next}
       /\ missing' = [t \in Task |-> IF t \in Served(next) THEN missing[t] \ {next} ELSE missing[t]]
       /\ count' = [t \in Task |-> IF t \in Served(next) THEN count[t] - 1 ELSE count[t]]
       /\ sorted' = Append(sorted, next)
  /\ UNCHANGED <<setVars, outcome, report, searchVars>>

FinishSort ==
  /\ outcome = "sorting"
  /\ pending = {}
  /\ outcome' = "runnable"
  /\ UNCHANGED <<setVars, sortVars, report, searchVars>>

Stuck == outcome = "sorting" /\ pending # {} /\ Ready = {}

\* Mutant of Absent: the references of tasks that wait themselves are not excluded.
AbsentWithPending == UNION {missing[t] : t \in pending}

\* The references that an unresolved task misses and no unresolved task has.
Absent == (UNION {missing[t] : t \in pending}) \ pending

ReportMissing ==
  /\ Stuck
  /\ Absent # {}
  /\ outcome' = "missing"
  /\ report' = Absent
  /\ UNCHANGED <<setVars, sortVars, searchVars>>

\* The tasks that the search starts from, one after the other.
StartPoints == pending

ReportCycle ==
  /\ Stuck
  /\ Absent = {}
  /\ outcome' = "searching"
  /\ starts' = StartPoints
  /\ UNCHANGED <<setVars, sortVars, report, from, queue, current, todo, path>>

\* The search runs dry at one task and starts over at the next.
NextStart ==
  /\ outcome = "searching"
  /\ queue = {} /\ todo = {}
  /\ \E first \in First(starts) :
       /\ starts' = starts \ {first}
       /\ from' = [t \in {first} |-> Start]
       /\ queue' = {first}
  /\ UNCHANGED <<setVars, sortVars, outcome, report, current, todo, path>>

Dequeue ==
  /\ outcome = "searching"
  /\ todo = {}
  /\ \E next \in First(queue) :
       /\ queue' = queue \ {next}
       /\ current' = next
       /\ todo' = missing[next]
  /\ UNCHANGED <<setVars, sortVars, outcome, report, starts, from, path>>

\* Mutant of Visited: only the tasks that are still queued count as visited.
VisitedInQueue(d) == {t \in queue : d \in HasPrefix[t]}

Visited(d) == {t \in DOMAIN from : d \in HasPrefix[t]}

\* The path that led to t, back to where the search started.
TraceOf == LET trace[t \in DOMAIN from] ==
                 IF from[t] = Start THEN <<t>> ELSE <<t>> \o trace[from[t]]
           IN  trace

\* A visited task matches the dependency; the first one the map yields decides.
MeetVisited(d) ==
  \E t \in Visited(d) :
    IF from[t] = Start
    THEN /\ outcome' = "cyclic"
         /\ path' = TraceOf[current]
         /\ todo' = {}
         /\ UNCHANGED <<from, queue>>
    ELSE /\ todo' = todo \ {d}
         /\ UNCHANGED <<outcome, path, from, queue>>

\* Mutant of Discovered: the search forgets who led to a task.
DiscoveredFromStart(t) == Start

\* What led to a newly visited task.
Discovered(t) == current

\* No visited task matches: the first match among the unresolved tasks is queued.
VisitNew(d) ==
  /\ Visited(d) = {}
  /\ todo' = todo \ {d}
  /\ \/ \E t \in pending :
          /\ d \in HasPrefix[t]
          /\ from' = [u \in DOMAIN from \cup {t} |-> IF u = t THEN Discovered(t) ELSE from[u]]
          /\ queue' = queue \cup {t}
     \/ /\ \A t \in pending : d \notin HasPrefix[t]
        /\ UNCHANGED <<from, queue>>
  /\ UNCHANGED <<outcome, path>>

Look ==
  /\ outcome = "searching"
  /\ \E d \in todo : MeetVisited(d) \/ VisitNew(d)
  /\ UNCHANGED <<setVars, sortVars, report, starts, current>>

\* The search has nothing left to look at: the code panics here, with a message
\* that says this is unreachable, and the model has no step.
SearchExhausted ==
  /\ outcome = "searching"
  /\ queue = {} /\ todo = {}
  /\ starts = {}

Returned == outcome \in {"runnable", "missing", "cyclic"}

Step ==
  \/ TakeReady \/ FinishSort \/ ReportMissing \/ ReportCycle
  \/ NextStart \/ Dequeue \/ Look

Next ==
  \/ \E d \in [Task -> SUBSET Ref] : sortTaskGraph(Task, d)
  \/ Step
  \/ (Returned /\ UNCHANGED vars)

Spec == Init /\ [][Next]_vars

FairSpec == Spec /\ WF_vars(Step)

-----------------------------------------------------------------------------
(***************************************************************************)
(* Properties                                                              *)
(***************************************************************************)

SortedTasks == {sorted[i] : i \in 1..Len(sorted)}

\* A runnable set holds every task once, and no task comes before one it depends
\* on: LocalRunner counts on it, and DumpGraphviz dereferences the task found for
\* each dependency among the ones before it.
OrderIsTopological ==
  outcome = "runnable" =>
    /\ SortedTasks = tasks /\ Len(sorted) = Cardinality(tasks)
    /\ \A i \in 1..Len(sorted) : deps[sorted[i]] \subseteq {sorted[j] : j \in 1..(i - 1)}

\* The counts that decide who is ready agree with the maps they summarise, and the
\* maps with what was sorted so far.
CountsAgree ==
  \A t \in pending :
    /\ missing[t] = deps[t] \ SortedTasks
    /\ count[t] = Cardinality(missing[t])

\* Every reference without a task, and nothing else, is reported as missing.
MissingIsExact ==
  outcome = "missing" => report = (UNION {deps[t] : t \in tasks}) \ tasks

HasCycle == \E S \in SUBSET tasks : S # {} /\ \A t \in S : deps[t] \cap S # {}

\* The graph is called runnable or cyclic exactly when it is.
CyclesAreTold ==
  /\ outcome = "runnable" => ~HasCycle
  /\ outcome \in {"searching", "cyclic"} => HasCycle

\* What the caller is told is right: the sort fails for missing references or for a
\* cycle exactly when there are some.
OutcomeIsExact == MissingIsExact /\ CyclesAreTold

\* From one of the start points the search comes back to where it began, so the
\* panic behind it is not reached.
SearchFinds == ~SearchExhausted

\* The path in the error message is a cycle of dependencies: taskset.go:278 says
\* that the search reports the details of the cyclic dependency.
ReportedCycleIsReal ==
  outcome = "cyclic" =>
    /\ path # <<>>
    /\ path[Len(path)] \in deps[path[1]]
    /\ \A i \in 1..(Len(path) - 1) : path[i] \in deps[path[i + 1]]

\* The search explains each cycle.
SearchExplains == TypeOK /\ SearchFinds /\ ReportedCycleIsReal

\* Sorting and searching end: no task is queued twice from one start.
SortReturns == outcome # "idle" ~> Returned

=============================================================================
