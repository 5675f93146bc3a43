-------------------------- MODULE TaskSetSort_proofs --------------------------
(***************************************************************************)
(* What TaskSet.sortTaskGraph returns, proved for every set of tasks and   *)
(* every dependency graph over them.                                       *)
(*                                                                         *)
(* The invariant says that the sorted and the pending tasks divide the     *)
(* set, that the maps of what is missing agree with that, and that no task *)
(* of a cycle is ever sorted.  A cycle is a set of tasks each of which     *)
(* depends on a task of the set: the first of them to be sorted would have *)
(* a dependency sorted before it.                                          *)
(*                                                                         *)
(* The search for a cycle to report comes back to a start: a least closed  *)
(* set of pending tasks is reached from each of its members.               *)
(***************************************************************************)
EXTENDS TaskSetSort, FiniteSetTheorems, WellFoundedInduction, TLAPS

\* The part of the type invariant that the sort needs.
SortTypeOK ==
  /\ tasks \subseteq Task
  /\ deps \in [Task -> SUBSET Ref]
  /\ pending \subseteq tasks
  /\ missing \in [Task -> SUBSET Ref]
  /\ count \in [Task -> Int]
  /\ sorted \in Seq(Task)
  /\ outcome \in {"idle", "sorting", "searching", "runnable", "missing", "cyclic"}

\* Each task of the set is pending or was sorted once.
Division ==
  /\ outcome = "idle" => sorted = <<>> /\ pending = {} /\ tasks = {}
  /\ SortedTasks \cap pending = {}
  /\ SortedTasks \cup pending = tasks
  /\ Len(sorted) = Cardinality(SortedTasks)

\* What is sorted so far comes after its dependencies.
Ordered ==
  \A i \in 1..Len(sorted) : deps[sorted[i]] \subseteq {sorted[j] : j \in 1..(i - 1)}

\* No task of a cycle is sorted.
CyclesRemain ==
  \A C \in SUBSET tasks : (\A t \in C : deps[t] \cap C # {}) => C \cap SortedTasks = {}

\* What the outcome says of the pending tasks.
OutcomeInv ==
  /\ outcome = "runnable" => pending = {}
  /\ outcome \in {"searching", "cyclic"} =>
       /\ pending # {}
       /\ \A t \in pending : missing[t] # {} /\ missing[t] \subseteq pending

IInv ==
  /\ SortTypeOK
  /\ Division
  /\ CountsAgree
  /\ Ordered
  /\ CyclesRemain
  /\ OutcomeInv
  /\ MissingIsExact

-----------------------------------------------------------------------------

\* Sets of tasks and of references are finite.
LEMMA SetsFinite ==
  /\ \A S : S \subseteq Task => IsFiniteSet(S) /\ Cardinality(S) \in Nat
  /\ \A S : S \subseteq Ref => IsFiniteSet(S) /\ Cardinality(S) \in Nat
  BY SortAssumption, FS_Subset, FS_CardinalityType, Zenon

\* A set of references that counts no member has none.
LEMMA ZeroIsEmpty == \A S : S \subseteq Ref => (Cardinality(S) = 0 <=> S = {})
  BY SetsFinite, FS_EmptySet

\* Sorting one more task.
LEMMA AppendSorted ==
  ASSUME NEW next \in Task, sorted \in Seq(Task), sorted' = Append(sorted, next)
  PROVE  /\ Len(sorted') = Len(sorted) + 1
         /\ \A i \in 1..Len(sorted) : sorted'[i] = sorted[i]
         /\ sorted'[Len(sorted) + 1] = next
         /\ SortedTasks' = SortedTasks \cup {next}
         /\ SortedTasks \subseteq Task
  <1>1. /\ Len(sorted') = Len(sorted) + 1
        /\ \A i \in 1..Len(sorted) : sorted'[i] = sorted[i]
        /\ sorted'[Len(sorted) + 1] = next
    OBVIOUS
  <1>2. SortedTasks \subseteq Task
    BY DEF SortedTasks
  <1>3. SortedTasks' = {sorted'[i] : i \in 1..Len(sorted')}
    BY DEF SortedTasks
  <1>4. 1..Len(sorted') = 1..Len(sorted) \cup {Len(sorted) + 1}
    BY <1>1
  <1>5. SortedTasks' = SortedTasks \cup {next}
    BY <1>1, <1>3, <1>4 DEF SortedTasks
  <1> QED
    BY <1>1, <1>2, <1>5

LEMMA InitIInv == Init => IInv
  <1> SUFFICES ASSUME Init PROVE IInv
    OBVIOUS
  <1>1. SortedTasks = {}
    BY DEF Init, SortedTasks
  <1>2. SortTypeOK
    BY DEF Init, SortTypeOK
  <1>3. Division
    BY <1>1, FS_EmptySet DEF Init, Division
  <1>4. CountsAgree /\ Ordered /\ OutcomeInv /\ MissingIsExact
    BY DEF Init, CountsAgree, Ordered, OutcomeInv, MissingIsExact
  <1>5. CyclesRemain
    BY <1>1 DEF CyclesRemain
  <1> QED
    BY <1>2, <1>3, <1>4, <1>5 DEF IInv

\* The call begins with everything pending and every dependency missing.
LEMMA CallIInv ==
  ASSUME IInv, NEW given \in SUBSET Task, NEW d \in [Task -> SUBSET Ref], sortTaskGraph(given, d)
  PROVE  IInv'
  <1>1. /\ outcome = "idle" /\ outcome' = "sorting"
        /\ tasks' = given /\ pending' = given
        /\ deps' = d /\ missing' = d
        /\ count' = [t \in Task |-> Cardinality(d[t])]
        /\ sorted' = sorted
    BY DEF sortTaskGraph
  <1>2. sorted' = <<>> /\ SortedTasks' = {}
    BY <1>1 DEF IInv, Division, SortedTasks
  <1>3. \A t \in Task : Cardinality(d[t]) \in Int
    BY SetsFinite
  <1>4. SortTypeOK'
    BY <1>1, <1>2, <1>3 DEF SortTypeOK
  <1>5. Division'
    BY <1>1, <1>2, FS_EmptySet DEF Division
  <1>6. CountsAgree'
    BY <1>1, <1>2 DEF CountsAgree
  <1>7. Ordered' /\ CyclesRemain'
    BY <1>2 DEF Ordered, CyclesRemain
  <1>8. OutcomeInv' /\ MissingIsExact'
    BY <1>1 DEF OutcomeInv, MissingIsExact
  <1> QED
    BY <1>4, <1>5, <1>6, <1>7, <1>8 DEF IInv

\* A ready task has all its dependencies sorted.
LEMMA ReadyIsServed ==
  ASSUME IInv, NEW t \in Ready
  PROVE  t \in pending /\ t \in Task /\ deps[t] \subseteq SortedTasks /\ missing[t] = {}
  BY ZeroIsEmpty DEF IInv, SortTypeOK, CountsAgree, Ready

\* What TakeReady does, for the task that it takes.
Take(next) ==
  /\ outcome = "sorting" /\ outcome' = "sorting"
  /\ next \in Ready
  /\ tasks' = tasks /\ deps' = deps
  /\ pending' = pending \ {next}
  /\ missing' = [t \in Task |-> IF t \in Served(next) THEN missing[t] \ {next} ELSE missing[t]]
  /\ count' = [t \in Task |-> IF t \in Served(next) THEN count[t] - 1 ELSE count[t]]
  /\ sorted' = Append(sorted, next)

LEMMA TakeIInv ==
  ASSUME IInv, NEW next, Take(next)
  PROVE  IInv'
  <1>1. /\ next \in pending /\ next \in Task
        /\ deps[next] \subseteq SortedTasks
        /\ next \notin SortedTasks
    BY ReadyIsServed DEF Take, IInv, Division
  <1>2. /\ sorted \in Seq(Task) /\ sorted' = Append(sorted, next)
    BY DEF Take, IInv, SortTypeOK
  <1>3. /\ Len(sorted') = Len(sorted) + 1
        /\ \A i \in 1..Len(sorted) : sorted'[i] = sorted[i]
        /\ sorted'[Len(sorted) + 1] = next
        /\ SortedTasks' = SortedTasks \cup {next}
        /\ SortedTasks \subseteq Task
    BY <1>1, <1>2, AppendSorted
  <1>4. SortTypeOK'
    BY <1>1, <1>2 DEF Take, IInv, SortTypeOK
  <1>5. Division'
    <2>1. Cardinality(SortedTasks \cup {next}) = Cardinality(SortedTasks) + 1
      BY <1>1, <1>3, SetsFinite, FS_AddElement
    <2> QED
      BY <1>1, <1>3, <2>1 DEF Take, IInv, Division
  <1>6. CountsAgree'
    <2> SUFFICES ASSUME NEW t \in pending' PROVE /\ missing'[t] = deps'[t] \ SortedTasks'
                                                  /\ count'[t] = Cardinality(missing'[t])
      BY DEF CountsAgree
    <2>1. /\ t \in pending /\ t # next /\ t \in Task
          /\ missing[t] \subseteq Ref
          /\ missing[t] = deps[t] \ SortedTasks
          /\ count[t] = Cardinality(missing[t])
      BY DEF Take, IInv, SortTypeOK, CountsAgree
    <2>2. CASE next \in missing[t]
      <3>1. missing'[t] = missing[t] \ {next} /\ count'[t] = count[t] - 1
        BY <2>1, <2>2 DEF Take, Served
      <3>2. Cardinality(missing[t] \ {next}) = Cardinality(missing[t]) - 1
        BY <2>1, <2>2, SetsFinite, FS_RemoveElement
      <3> QED
        BY <1>3, <2>1, <3>1, <3>2 DEF Take
    <2>3. CASE next \notin missing[t]
      <3>1. missing'[t] = missing[t] /\ count'[t] = count[t]
        BY <2>1, <2>3 DEF Take, Served
      <3> QED
        BY <1>3, <2>1, <2>3, <3>1 DEF Take
    <2> QED
      BY <2>2, <2>3
  <1>7. Ordered'
    <2> SUFFICES ASSUME NEW i \in 1..Len(sorted')
                 PROVE  deps[sorted'[i]] \subseteq {sorted'[j] : j \in 1..(i - 1)}
      BY DEF Ordered, Take
    <2>1. \A k \in 1..Len(sorted) + 1 : \A j \in 1..(k - 1) : sorted'[j] = sorted[j]
      BY <1>2, <1>3
    <2>2. {sorted'[j] : j \in 1..(i - 1)} = {sorted[j] : j \in 1..(i - 1)}
      BY <1>3, <2>1
    <2>3. CASE i = Len(sorted) + 1
      BY <1>1, <1>2, <1>3, <2>2, <2>3 DEF SortedTasks
    <2>4. CASE i \in 1..Len(sorted)
      BY <1>3, <2>2, <2>4 DEF IInv, Ordered
    <2>5. i = Len(sorted) + 1 \/ i \in 1..Len(sorted)
      BY <1>2, <1>3
    <2> QED
      BY <2>3, <2>4, <2>5
  <1>8. CyclesRemain'
    <2> SUFFICES ASSUME NEW C \in SUBSET tasks, \A t \in C : deps[t] \cap C # {}
                 PROVE  C \cap (SortedTasks \cup {next}) = {}
      BY <1>3 DEF CyclesRemain, Take
    <2>1. C \cap SortedTasks = {}
      BY DEF IInv, CyclesRemain
    <2>2. next \notin C
      BY <1>1, <2>1
    <2> QED
      BY <2>1, <2>2
  <1>9. OutcomeInv' /\ MissingIsExact'
    BY DEF Take, OutcomeInv, MissingIsExact
  <1> QED
    BY <1>4, <1>5, <1>6, <1>7, <1>8, <1>9 DEF IInv

\* The steps that leave the sort as it is keep what is said of it.
LEMMA SortKept ==
  ASSUME IInv, UNCHANGED <<setVars, sortVars>>, outcome' # "idle", outcome' \in
           {"idle", "sorting", "searching", "runnable", "missing", "cyclic"}
  PROVE  SortTypeOK' /\ Division' /\ CountsAgree' /\ Ordered' /\ CyclesRemain'
  <1>1. /\ tasks' = tasks /\ deps' = deps /\ pending' = pending
        /\ missing' = missing /\ count' = count /\ sorted' = sorted
    BY DEF setVars, sortVars
  <1>2. SortedTasks' = SortedTasks
    BY <1>1 DEF SortedTasks
  <1>3. SortTypeOK'
    BY <1>1 DEF IInv, SortTypeOK
  <1>4. Division'
    BY <1>1, <1>2 DEF IInv, Division
  <1>5. CountsAgree'
    BY <1>1, <1>2 DEF IInv, CountsAgree
  <1>6. Ordered'
    BY <1>1 DEF IInv, Ordered
  <1>7. CyclesRemain'
    BY <1>1, <1>2 DEF IInv, CyclesRemain
  <1> QED
    BY <1>3, <1>4, <1>5, <1>6, <1>7

LEMMA FinishSortIInv == IInv /\ FinishSort => IInv'
  <1> SUFFICES ASSUME IInv, FinishSort PROVE IInv'
    OBVIOUS
  <1>1. OutcomeInv' /\ MissingIsExact'
    BY DEF FinishSort, sortVars, OutcomeInv, MissingIsExact
  <1>2. SortTypeOK' /\ Division' /\ CountsAgree' /\ Ordered' /\ CyclesRemain'
    BY SortKept DEF FinishSort
  <1> QED
    BY <1>1, <1>2 DEF IInv

LEMMA InAbsent ==
  \A r : r \in Absent <=> r \notin pending /\ \E t \in pending : r \in missing[t]
  <1>1. \A r : r \in UNION {missing[t] : t \in pending} <=> \E t \in pending : r \in missing[t]
    OBVIOUS
  <1> QED
    BY <1>1 DEF Absent

\* What the pending tasks miss beside each other is what no task of the set has.
LEMMA ReportMissingIInv == IInv /\ ReportMissing => IInv'
  <1> SUFFICES ASSUME IInv, ReportMissing PROVE IInv'
    OBVIOUS
  <1>1. SortTypeOK' /\ Division' /\ CountsAgree' /\ Ordered' /\ CyclesRemain'
    BY SortKept DEF ReportMissing
  <1>2. OutcomeInv'
    BY DEF ReportMissing, OutcomeInv
  <1>3. \A t \in SortedTasks : deps[t] \subseteq SortedTasks
    BY DEF IInv, SortTypeOK, Ordered, SortedTasks
  <1>4. Absent = (UNION {deps[t] : t \in tasks}) \ tasks
    <2>1. /\ tasks = SortedTasks \cup pending
          /\ \A t \in pending : missing[t] = deps[t] \ SortedTasks
      BY DEF IInv, Division, CountsAgree
    <2>2. \A r : r \in Absent <=> r \notin pending /\ \E t \in pending : r \in missing[t]
      BY InAbsent
    <2>3. \A r : r \in UNION {deps[t] : t \in tasks} <=> \E t \in tasks : r \in deps[t]
      OBVIOUS
    <2>4. ASSUME NEW r \in Absent PROVE r \in (UNION {deps[t] : t \in tasks}) \ tasks
      <3>1. PICK t \in pending : r \in missing[t]
        BY <2>2, <2>4
      <3>2. r \in deps[t] /\ r \notin SortedTasks /\ r \notin pending /\ t \in tasks
        BY <2>1, <2>2, <2>4, <3>1
      <3> QED
        BY <2>1, <2>3, <3>2
    <2>5. ASSUME NEW r \in (UNION {deps[t] : t \in tasks}) \ tasks PROVE r \in Absent
      <3>1. PICK t \in tasks : r \in deps[t]
        BY <2>3, <2>5
      <3>2. r \notin SortedTasks /\ r \notin pending
        BY <2>1, <2>5
      <3>3. t \in pending /\ r \in missing[t]
        BY <1>3, <2>1, <3>1, <3>2
      <3> QED
        BY <2>2, <3>2, <3>3
    <2> QED
      BY <2>4, <2>5
  <1>5. MissingIsExact'
    BY <1>4 DEF ReportMissing, MissingIsExact, setVars
  <1> QED
    BY <1>1, <1>2, <1>5 DEF IInv

\* When nothing is ready and nothing absent, each pending task misses another.
LEMMA ReportCycleIInv == IInv /\ ReportCycle => IInv'
  <1> SUFFICES ASSUME IInv, ReportCycle PROVE IInv'
    OBVIOUS
  <1>1. SortTypeOK' /\ Division' /\ CountsAgree' /\ Ordered' /\ CyclesRemain'
    BY SortKept DEF ReportCycle
  <1>2. ASSUME NEW t \in pending PROVE missing[t] # {} /\ missing[t] \subseteq pending
    <2>1. missing[t] \subseteq Ref /\ count[t] = Cardinality(missing[t]) /\ count[t] # 0
      BY DEF ReportCycle, Stuck, Ready, IInv, SortTypeOK, CountsAgree
    <2>2. missing[t] # {}
      BY <2>1, ZeroIsEmpty
    <2>3. missing[t] \subseteq pending
      BY InAbsent DEF ReportCycle
    <2> QED
      BY <2>2, <2>3
  <1>3. OutcomeInv' /\ MissingIsExact'
    BY <1>2 DEF ReportCycle, Stuck, sortVars, OutcomeInv, MissingIsExact
  <1> QED
    BY <1>1, <1>3 DEF IInv

\* The search changes neither the sort nor what it concluded.
LEMMA SearchIInv ==
  ASSUME IInv, UNCHANGED <<setVars, sortVars, report>>, outcome = "searching",
         outcome' \in {"searching", "cyclic"}
  PROVE  IInv'
  <1>1. SortTypeOK' /\ Division' /\ CountsAgree' /\ Ordered' /\ CyclesRemain'
    BY SortKept
  <1>2. OutcomeInv' /\ MissingIsExact'
    BY DEF IInv, OutcomeInv, MissingIsExact, sortVars
  <1> QED
    BY <1>1, <1>2 DEF IInv

LEMMA NextIInv == IInv /\ [Next]_vars => IInv'
  <1> SUFFICES ASSUME IInv, [Next]_vars PROVE IInv'
    OBVIOUS
  <1>1. ASSUME NEW d \in [Task -> SUBSET Ref], sortTaskGraph(Task, d) PROVE IInv'
    BY <1>1, CallIInv
  <1>2. CASE TakeReady
    <2>1. PICK next \in Last(Ready) : Take(next)
      BY <1>2 DEF TakeReady, Take, Last, setVars
    <2> QED
      BY <2>1, TakeIInv
  <1>3. CASE FinishSort \/ ReportMissing \/ ReportCycle
    BY <1>3, FinishSortIInv, ReportMissingIInv, ReportCycleIInv
  <1>4. CASE NextStart \/ Dequeue \/ Look
    <2>1. /\ UNCHANGED <<setVars, sortVars, report>>
          /\ outcome = "searching" /\ outcome' \in {"searching", "cyclic"}
      BY <1>4 DEF NextStart, Dequeue, Look, MeetVisited, VisitNew
    <2> QED
      BY <2>1, SearchIInv
  <1>5. CASE UNCHANGED vars
    <2>1. SortedTasks' = SortedTasks
      BY <1>5 DEF vars, SortedTasks
    <2>2. SortTypeOK' /\ Division' /\ CountsAgree'
      BY <1>5, <2>1 DEF vars, IInv, SortTypeOK, Division, CountsAgree
    <2>3. Ordered' /\ CyclesRemain'
      BY <1>5, <2>1 DEF vars, IInv, Ordered, CyclesRemain
    <2>4. OutcomeInv' /\ MissingIsExact'
      BY <1>5 DEF vars, IInv, OutcomeInv, MissingIsExact
    <2> QED
      BY <2>2, <2>3, <2>4 DEF IInv
  <1> QED
    BY <1>1, <1>2, <1>3, <1>4, <1>5 DEF Next, Step

THEOREM InvariantHolds == Spec => []IInv
  <1> QED
    BY InitIInv, NextIInv, PTL DEF Spec

-----------------------------------------------------------------------------

\* A runnable set holds every task once, each after its dependencies
\* (sortTaskGraph's result, which LocalRunner executes).
THEOREM RunnableIsSorted == Spec => []OrderIsTopological
  <1>1. IInv => OrderIsTopological
    BY DEF IInv, Division, Ordered, OutcomeInv, OrderIsTopological
  <1> QED
    BY <1>1, InvariantHolds, PTL

\* The counts that decide who is ready agree with the maps they summarise.
THEOREM CountsAreRight == Spec => []CountsAgree
  <1>1. IInv => CountsAgree
    BY DEF IInv
  <1> QED
    BY <1>1, InvariantHolds, PTL

\* The references that are reported as missing are those that no task has.
THEOREM MissingIsReported == Spec => []MissingIsExact
  <1>1. IInv => MissingIsExact
    BY DEF IInv
  <1> QED
    BY <1>1, InvariantHolds, PTL

\* A task that waits when nobody is ready depends on one that waits, too.
LEMMA CyclesTold == IInv => CyclesAreTold
  <1>1. ASSUME IInv, outcome = "runnable" PROVE ~HasCycle
    <2>1. SortedTasks = tasks
      BY <1>1 DEF IInv, Division, OutcomeInv
    <2> SUFFICES ASSUME NEW C \in SUBSET tasks, C # {}, \A t \in C : deps[t] \cap C # {}
                 PROVE  FALSE
      BY DEF HasCycle
    <2> QED
      BY <1>1, <2>1 DEF IInv, CyclesRemain
  <1>2. ASSUME IInv, outcome \in {"searching", "cyclic"} PROVE HasCycle
    <2>1. /\ pending \in SUBSET tasks /\ pending # {}
          /\ \A t \in pending : missing[t] # {} /\ missing[t] \subseteq pending
          /\ \A t \in pending : missing[t] \subseteq deps[t]
      BY <1>2 DEF IInv, SortTypeOK, OutcomeInv, CountsAgree
    <2>2. \A t \in pending : deps[t] \cap pending # {}
      BY <2>1
    <2> QED
      BY <2>1, <2>2 DEF HasCycle
  <1> QED
    BY <1>1, <1>2 DEF CyclesAreTold

\* A graph is called runnable only without a cycle, and cyclic only with one.
THEOREM CyclesAreReported == Spec => []CyclesAreTold
  <1> QED
    BY CyclesTold, InvariantHolds, PTL

\* Whatever the graph, the caller is told of missing references and of cycles exactly
\* when there are some, and of those that there are.
THEOREM OutcomeIsRight == Spec => []OutcomeIsExact
  <1> QED
    BY MissingIsReported, CyclesAreReported, PTL DEF OutcomeIsExact

-----------------------------------------------------------------------------
(* The search that explains a cycle, when no ID starts with the reference  *)
(* of another task.  A task from which the search ran dry is on no cycle   *)
(* (RuledOut), and every visited task leads back to the one start (Rooted).*)

IDsApart == \A t \in Task : HasPrefix[t] = {t}

\* The tasks that can be reached from s do not depend on it.
NotOnCycle(s) == \E V \in SUBSET pending : s \in V /\ \A v \in V : missing[v] \subseteq V \ {s}

\* What the search has seen: of a task that left the queue all dependencies but those it
\* still has to look at, and none of them led back to the start.
Explored ==
  /\ starts \subseteq pending /\ DOMAIN from \subseteq pending /\ queue \subseteq DOMAIN from
  /\ todo # {} => current \in DOMAIN from /\ todo \subseteq missing[current]
  /\ \A v \in DOMAIN from \ queue : \A d \in missing[v] :
       (v = current /\ d \in todo) \/ (d \in DOMAIN from /\ from[d] # Start)

RuledOut ==
  \A s \in pending \ starts : (s \in DOMAIN from /\ from[s] = Start) \/ NotOnCycle(s)

\* Who led to a task depends on it, and whoever goes back comes to the one start.
Rooted ==
  /\ \A t \in DOMAIN from : from[t] # Start => from[t] \in DOMAIN from /\ t \in missing[from[t]]
  /\ \A s, t \in DOMAIN from : from[s] = Start /\ from[t] = Start => s = t
  /\ \A X \in SUBSET DOMAIN from : X # {} => \E t \in X : from[t] \notin X

\* trace is what the recursion of tracePath computes.
IsTrace(trace) ==
  trace = [t \in DOMAIN from |-> IF from[t] = Start THEN <<t>> ELSE <<t>> \o trace[from[t]]]

SearchInv ==
  /\ TypeOK /\ ReportedCycleIsReal
  /\ outcome \notin {"searching", "cyclic"} => DOMAIN from = {} /\ queue = {} /\ todo = {}
  /\ outcome = "searching" => Explored /\ RuledOut /\ Rooted /\ \E trace : IsTrace(trace)

LEMMA TraceOfIsTrace == ASSUME NEW trace, IsTrace(trace) PROVE IsTrace(TraceOf)
  <1> DEFINE P(f) == f = [t \in DOMAIN from |-> IF from[t] = Start THEN <<t>>
                                               ELSE <<t>> \o f[from[t]]]
  <1>1. TraceOf = CHOOSE f : P(f)
    BY DEF TraceOf
  <1>2. P(trace)
    BY DEF IsTrace
  <1> HIDE DEF P
  <1>3. P(TraceOf)
    BY <1>1, <1>2
  <1> QED
    BY <1>3 DEF P, IsTrace

\* A trace leads from a task back to the start, against the dependencies.
LEMMA TraceLeadsBack ==
  ASSUME Rooted, NEW f, IsTrace(f), NEW c \in DOMAIN from
  PROVE  /\ f[c] \in Seq(DOMAIN from) /\ f[c] # <<>> /\ f[c][1] = c
         /\ f[c][Len(f[c])] \in DOMAIN from /\ from[f[c][Len(f[c])]] = Start
         /\ \A i \in 1..(Len(f[c]) - 1) : f[c][i] \in missing[f[c][i + 1]]
  <1> DEFINE P(t) == /\ f[t] \in Seq(DOMAIN from) /\ f[t] # <<>> /\ f[t][1] = t
                     /\ f[t][Len(f[t])] \in DOMAIN from /\ from[f[t][Len(f[t])]] = Start
                     /\ \A i \in 1..(Len(f[t]) - 1) : f[t][i] \in missing[f[t][i + 1]]
             X == {t \in DOMAIN from : ~P(t)}
  <1>1. \A t \in DOMAIN from : f[t] = IF from[t] = Start THEN <<t>> ELSE <<t>> \o f[from[t]]
    BY Zenon DEF IsTrace
  <1>3. ASSUME NEW t \in DOMAIN from, from[t] = Start PROVE P(t)
    <2>1. f[t] = <<t>>
      BY <1>1, <1>3
    <2> QED
      BY <1>3, <2>1
  <1>4. ASSUME NEW t \in DOMAIN from, from[t] # Start, P(from[t]) PROVE P(t)
    <2> DEFINE g == f[from[t]]
    <2>1. f[t] = <<t>> \o g
      BY <1>1, <1>4
    <2>2. /\ g \in Seq(DOMAIN from) /\ g # <<>> /\ g[1] = from[t]
          /\ g[Len(g)] \in DOMAIN from /\ from[g[Len(g)]] = Start
          /\ \A i \in 1..(Len(g) - 1) : g[i] \in missing[g[i + 1]]
      BY <1>4
    <2>3. t \in missing[from[t]]
      BY <1>4 DEF Rooted
    <2> HIDE DEF g, P
    <2>4. /\ f[t] \in Seq(DOMAIN from) /\ Len(f[t]) = Len(g) + 1 /\ Len(g) \in Nat \ {0}
          /\ f[t][1] = t /\ \A i \in 1..Len(g) : f[t][i + 1] = g[i]
      BY <2>1, <2>2
    <2>5. f[t][Len(f[t])] = g[Len(g)]
      BY <2>4
    <2>6. ASSUME NEW i \in 1..(Len(f[t]) - 1) PROVE f[t][i] \in missing[f[t][i + 1]]
      <3>1. CASE i = 1
        BY <2>2, <2>3, <2>4, <3>1
      <3>2. CASE i # 1
        <4>1. i - 1 \in 1..(Len(g) - 1) /\ i - 1 \in 1..Len(g) /\ i \in 1..Len(g)
          BY <2>4, <3>2
        <4>2. f[t][i] = g[i - 1] /\ f[t][i + 1] = g[i]
          <5>1. f[t][(i - 1) + 1] = g[i - 1]
            BY <2>4, <4>1
          <5> QED
            BY <2>4, <4>1, <5>1
        <4>3. g[i - 1] \in missing[g[(i - 1) + 1]]
          BY <2>2, <4>1
        <4> QED
          BY <4>1, <4>2, <4>3
      <3> QED
        BY <3>1, <3>2
    <2>7. f[t] # <<>>
      BY <2>4
    <2> QED
      BY <2>2, <2>4, <2>5, <2>6, <2>7 DEF P
  <1> HIDE DEF P
  <1>5. X = {}
    <2> SUFFICES ASSUME X # {} PROVE FALSE
      OBVIOUS
    <2>1. PICK t \in X : from[t] \notin X
      BY DEF Rooted
    <2>2. from[t] # Start => from[t] \in DOMAIN from
      BY DEF Rooted
    <2> QED
      BY <1>3, <1>4, <2>1, <2>2
  <1>6. P(c)
    BY <1>5
  <1> QED
    BY <1>6 DEF P

\* One more task is visited, from one that was visited before.
LEMMA VisitRooted ==
  ASSUME TypeOK, Rooted, NEW trace, IsTrace(trace), NEW d \in Task \ DOMAIN from,
         NEW c \in DOMAIN from, d \in missing[c], missing' = missing,
         from' = [u \in DOMAIN from \cup {d} |-> IF u = d THEN c ELSE from[u]]
  PROVE  Rooted' /\ \E f : IsTrace(f)'
  <1>1. DOMAIN from' = DOMAIN from \cup {d} /\ DOMAIN from \subseteq Task
    BY DEF TypeOK
  <1>2. from'[d] = c /\ \A u \in DOMAIN from : from'[u] = from[u] /\ u # d
    OBVIOUS
  <1>3. c # Start /\ d # Start
    BY <1>1, SortAssumption DEF Start, SortAssumption
  <1>4. \A t \in DOMAIN from : from[t] # d
    BY <1>3 DEF Rooted
  <1>5. \A t \in DOMAIN from' :
          from'[t] # Start => from'[t] \in DOMAIN from' /\ t \in missing'[from'[t]]
    BY <1>1, <1>2 DEF Rooted
  <1>6. \A s, t \in DOMAIN from' : from'[s] = Start /\ from'[t] = Start => s = t
    BY <1>1, <1>2, <1>3 DEF Rooted
  <1>7. ASSUME NEW X \in SUBSET DOMAIN from', X # {} PROVE \E t \in X : from'[t] \notin X
    <2>1. CASE X = {d}
      BY <1>2, <2>1
    <2>2. CASE X # {d}
      <3>1. X \ {d} # {} /\ X \ {d} \in SUBSET DOMAIN from
        BY <1>1, <1>7, <2>2
      <3>2. PICK t \in X \ {d} : from[t] \notin X \ {d}
        BY <3>1 DEF Rooted
      <3> QED
        BY <1>2, <1>4, <3>1, <3>2
    <2> QED
      BY <2>1, <2>2
  <1>8. Rooted'
    BY <1>5, <1>6, <1>7 DEF Rooted
  <1> DEFINE f == [u \in DOMAIN from \cup {d} |-> IF u = d THEN <<d>> \o trace[c] ELSE trace[u]]
  <1>9. ASSUME NEW u \in DOMAIN from'
        PROVE  f[u] = IF from'[u] = Start THEN <<u>> ELSE <<u>> \o f[from'[u]]
    <2>1. CASE u = d
      BY <1>1, <1>2, <1>3, <2>1
    <2>2. CASE u # d
      <3>1. u \in DOMAIN from /\ from'[u] = from[u] /\ f[u] = trace[u]
        BY <1>1, <1>2, <2>2
      <3>2. trace[u] = IF from[u] = Start THEN <<u>> ELSE <<u>> \o trace[from[u]]
        BY <3>1, Zenon DEF IsTrace
      <3>3. from[u] # Start => f[from[u]] = trace[from[u]]
        BY <1>2, <3>1 DEF Rooted
      <3> HIDE DEF f
      <3> QED
        BY <3>1, <3>2, <3>3
    <2> QED
      BY <2>1, <2>2
  <1>10. f = [u \in DOMAIN from' |-> IF from'[u] = Start THEN <<u>> ELSE <<u>> \o f[from'[u]]]
    <2>1. f = [u \in DOMAIN from' |-> f[u]]
      BY <1>1
    <2> HIDE DEF f
    <2> QED
      BY <1>9, <2>1, Zenon
  <1>11. PICK g : g = f
    OBVIOUS
  <1> HIDE DEF f
  <1>12. IsTrace(g)'
    BY <1>10, <1>11 DEF IsTrace
  <1> QED
    BY <1>8, <1>12

\* What the search has ruled out, and how it came to a task, are the same as long as it
\* visits nothing and does not take another start.
LEMMA SameVisits ==
  ASSUME UNCHANGED <<pending, missing, starts, from>>
  PROVE  /\ RuledOut => RuledOut'
         /\ Rooted => Rooted'
         /\ \A f : IsTrace(f) => IsTrace(f)'
  <1>1. \A s : NotOnCycle(s)' <=> NotOnCycle(s)
    BY DEF NotOnCycle
  <1>2. RuledOut => RuledOut'
    BY <1>1 DEF RuledOut
  <1>3. Rooted => Rooted'
    BY DEF Rooted
  <1>4. \A f : IsTrace(f) => IsTrace(f)'
    BY DEF IsTrace
  <1> QED
    BY <1>2, <1>3, <1>4

LEMMA LookSearches ==
  ASSUME IInv, SearchInv, IDsApart, Look PROVE SearchInv'
  <1>1. PICK d \in todo : MeetVisited(d) \/ VisitNew(d)
    BY DEF Look
  <1>2. /\ outcome = "searching" /\ TypeOK /\ Explored /\ RuledOut /\ Rooted
        /\ UNCHANGED <<tasks, deps, pending, missing, count, sorted, report, starts, current>>
    BY DEF Look, SearchInv, setVars, sortVars
  <1>3. PICK trace : IsTrace(trace)
    BY <1>2 DEF SearchInv
  <1>4. /\ current \in DOMAIN from /\ current \in pending /\ todo \subseteq missing[current]
        /\ DOMAIN from \subseteq pending
    BY <1>2 DEF Explored
  <1>5. /\ pending \subseteq Task /\ \A t \in pending : missing[t] \subseteq pending
        /\ \A t \in pending : missing[t] \subseteq deps[t]
    BY <1>2 DEF IInv, SortTypeOK, OutcomeInv, CountsAgree
  <1>6. d \in missing[current] /\ d \in pending /\ d \in Task
    BY <1>4, <1>5
  <1>7. \A t \in Task : d \in HasPrefix[t] <=> t = d
    BY DEF IDsApart
  <1>8. Visited(d) = {d} \cap DOMAIN from
    BY <1>4, <1>5, <1>7 DEF Visited
  <1>9. CASE /\ d \in DOMAIN from /\ from[d] = Start /\ outcome' = "cyclic"
             /\ path' = TraceOf[current] /\ todo' = {} /\ UNCHANGED <<from, queue>>
    <2>1. IsTrace(TraceOf)
      BY <1>3, TraceOfIsTrace
    <2> DEFINE p == TraceOf[current]
    <2>2. /\ p \in Seq(DOMAIN from) /\ p # <<>> /\ p[1] = current
          /\ p[Len(p)] \in DOMAIN from /\ from[p[Len(p)]] = Start
          /\ \A i \in 1..(Len(p) - 1) : p[i] \in missing[p[i + 1]]
      BY <1>2, <1>4, <2>1, TraceLeadsBack
    <2>3. p[Len(p)] = d
      BY <1>9, <2>2, <1>2 DEF Rooted
    <2> HIDE DEF p
    <2>4. path' = p
      BY <1>9 DEF p
    <2>5. \A i \in 1..(Len(p) - 1) : p[i + 1] \in DOMAIN from
      BY <2>2
    <2>6. \A i \in 1..(Len(p) - 1) : p[i] \in deps[p[i + 1]]
      BY <1>4, <1>5, <2>2, <2>5
    <2>7. p[Len(p)] \in deps[p[1]]
      BY <1>4, <1>5, <1>6, <2>2, <2>3
    <2>8. ReportedCycleIsReal'
      BY <1>2, <2>2, <2>4, <2>6, <2>7 DEF ReportedCycleIsReal
    <2>9. path' \in Seq(Task)
      <3>1. Len(p) \in Nat /\ p \in [1..Len(p) -> Task]
        BY <1>4, <1>5, <2>2
      <3> QED
        BY <2>4, <3>1
    <2>10. TypeOK'
      BY <1>2, <1>9, <2>9 DEF TypeOK
    <2> QED
      BY <1>9, <2>8, <2>10 DEF SearchInv
  <1>10. CASE /\ d \in DOMAIN from /\ from[d] # Start /\ todo' = todo \ {d}
              /\ UNCHANGED <<outcome, path, from, queue>>
    <2>1. TypeOK'
      BY <1>2, <1>10 DEF TypeOK
    <2>2. Explored'
      BY <1>2, <1>10 DEF Explored
    <2>3. RuledOut' /\ Rooted' /\ IsTrace(trace)'
      BY <1>2, <1>3, <1>10, SameVisits
    <2>4. ReportedCycleIsReal'
      BY <1>2, <1>10 DEF ReportedCycleIsReal
    <2> QED
      BY <1>2, <1>10, <2>1, <2>2, <2>3, <2>4 DEF SearchInv
  <1>11. CASE /\ d \notin DOMAIN from /\ todo' = todo \ {d}
              /\ from' = [u \in DOMAIN from \cup {d} |-> IF u = d THEN current ELSE from[u]]
              /\ queue' = queue \cup {d} /\ UNCHANGED <<outcome, path>>
    <2>1. DOMAIN from' = DOMAIN from \cup {d}
      BY <1>11
    <2>2. from'[d] = current /\ \A u \in DOMAIN from : from'[u] = from[u]
      BY <1>11
    <2>3. current # Start /\ current \in Task
      BY <1>4, <1>5, SortAssumption DEF Start, SortAssumption
    <2>4. TypeOK'
      BY <1>2, <1>6, <1>11, <2>1, <2>2, <2>3 DEF TypeOK
    <2>5. Explored'
      <3>1. /\ starts' \subseteq pending' /\ DOMAIN from' \subseteq pending'
            /\ queue' \subseteq DOMAIN from'
        BY <1>2, <1>4, <1>6, <1>11, <2>1 DEF Explored
      <3>2. todo' # {} => current' \in DOMAIN from' /\ todo' \subseteq missing'[current']
        BY <1>2, <1>4, <1>11, <2>1
      <3>3. ASSUME NEW v \in DOMAIN from' \ queue', NEW e \in missing'[v]
            PROVE  (v = current' /\ e \in todo') \/ (e \in DOMAIN from' /\ from'[e] # Start)
        <4>1. v \in DOMAIN from \ queue /\ e \in missing[v]
          BY <1>2, <1>11, <2>1, <3>3
        <4>2. (v = current /\ e \in todo) \/ (e \in DOMAIN from /\ from[e] # Start)
          BY <1>2, <4>1 DEF Explored
        <4>3. CASE e = d
          BY <2>1, <2>2, <2>3, <4>3
        <4>4. CASE e # d
          BY <1>2, <1>11, <2>1, <2>2, <4>2, <4>4
        <4> QED
          BY <4>3, <4>4
      <3> QED
        BY <3>1, <3>2, <3>3 DEF Explored
    <2>6. RuledOut'
      BY <1>2, <2>1, <2>2 DEF RuledOut, NotOnCycle
    <2>7. Rooted' /\ \E f : IsTrace(f)'
      BY <1>2, <1>3, <1>4, <1>6, <1>11, VisitRooted
    <2>8. ReportedCycleIsReal'
      BY <1>2, <1>11 DEF ReportedCycleIsReal
    <2> QED
      BY <1>2, <1>11, <2>4, <2>5, <2>6, <2>7, <2>8 DEF SearchInv
  <1>12. CASE MeetVisited(d)
    <2>1. PICK t \in Visited(d) :
            \/ /\ from[t] = Start /\ outcome' = "cyclic" /\ path' = TraceOf[current] /\ todo' = {}
               /\ UNCHANGED <<from, queue>>
            \/ from[t] # Start /\ todo' = todo \ {d} /\ UNCHANGED <<outcome, path, from, queue>>
      BY <1>12 DEF MeetVisited
    <2>2. t = d /\ d \in DOMAIN from
      BY <1>8
    <2> QED
      BY <1>9, <1>10, <2>1, <2>2
  <1>13. CASE VisitNew(d)
    <2>1. d \notin DOMAIN from /\ todo' = todo \ {d} /\ UNCHANGED <<outcome, path>>
      BY <1>8, <1>13 DEF VisitNew
    <2>2. PICK t \in pending :
            /\ d \in HasPrefix[t] /\ queue' = queue \cup {t}
            /\ from' = [u \in DOMAIN from \cup {t} |-> IF u = t THEN current ELSE from[u]]
      BY <1>5, <1>6, <1>7, <1>13 DEF VisitNew, Discovered
    <2>3. t = d
      BY <1>5, <1>7, <2>2
    <2> QED
      BY <1>11, <2>1, <2>2, <2>3
  <1> QED
    BY <1>1, <1>12, <1>13

\* The search runs dry at one task, which is then on no cycle, and starts over.
LEMMA NextStartSearches ==
  ASSUME IInv, SearchInv, NextStart PROVE SearchInv'
  <1>1. PICK first \in First(starts) :
          /\ starts' = starts \ {first} /\ from' = [t \in {first} |-> Start] /\ queue' = {first}
    BY DEF NextStart
  <1>2. /\ outcome = "searching" /\ queue = {} /\ todo = {} /\ TypeOK
        /\ Explored /\ RuledOut /\ ReportedCycleIsReal
        /\ UNCHANGED <<tasks, deps, pending, missing, count, sorted, outcome, report, current,
                       todo, path>>
    BY DEF NextStart, SearchInv, setVars, sortVars
  <1>3. first \in starts /\ first \in pending /\ first \in Task
    BY <1>2 DEF First, Explored, TypeOK
  <1>4. /\ DOMAIN from' = {first} /\ from'[first] = Start
        /\ first # Start
    BY <1>1, <1>3, SortAssumption DEF Start, SortAssumption
  <1>5. TypeOK'
    BY <1>1, <1>2, <1>3, <1>4 DEF TypeOK
  <1>6. Explored'
    BY <1>1, <1>2, <1>3, <1>4 DEF Explored
  <1>7. RuledOut'
    <2>1. ASSUME NEW s \in pending \ starts PROVE NotOnCycle(s)
      <3>1. CASE s \in DOMAIN from /\ from[s] = Start
        <4>1. \A v \in DOMAIN from : \A d \in missing[v] : d \in DOMAIN from /\ d # s
          BY <1>2, <3>1 DEF Explored
        <4>2. DOMAIN from \in SUBSET pending
          BY <1>2 DEF Explored
        <4> QED
          BY <3>1, <4>1, <4>2 DEF NotOnCycle
      <3>2. CASE NotOnCycle(s)
        BY <3>2
      <3> QED
        BY <1>2, <3>1, <3>2 DEF RuledOut
    <2>2. \A s : NotOnCycle(s)' <=> NotOnCycle(s)
      BY <1>2 DEF NotOnCycle
    <2> QED
      BY <1>1, <1>2, <1>4, <2>1, <2>2 DEF RuledOut
  <1>8. Rooted'
    BY <1>4 DEF Rooted
  <1>9. \E f : IsTrace(f)'
    <2>1. PICK f : f = [t \in {first} |-> <<t>>]
      OBVIOUS
    <2>2. [t \in DOMAIN from' |-> IF from'[t] = Start THEN <<t>> ELSE <<t>> \o f[from'[t]]]
            = [t \in {first} |-> <<t>>]
      BY <1>4
    <2>3. IsTrace(f)'
      BY <2>1, <2>2 DEF IsTrace
    <2> QED
      BY <2>3
  <1> QED
    BY <1>2, <1>5, <1>6, <1>7, <1>8, <1>9 DEF SearchInv, ReportedCycleIsReal

LEMMA DequeueSearches ==
  ASSUME IInv, SearchInv, Dequeue PROVE SearchInv'
  <1>1. PICK next \in First(queue) :
          queue' = queue \ {next} /\ current' = next /\ todo' = missing[next]
    BY DEF Dequeue
  <1>2. /\ outcome = "searching" /\ todo = {} /\ TypeOK
        /\ Explored /\ RuledOut /\ Rooted /\ ReportedCycleIsReal /\ \E f : IsTrace(f)
        /\ UNCHANGED <<tasks, deps, pending, missing, count, sorted, outcome, report, starts,
                       from, path>>
    BY DEF Dequeue, SearchInv, setVars, sortVars
  <1>3. next \in queue /\ next \in DOMAIN from /\ next \in Task /\ missing[next] \subseteq Ref
    BY <1>1, <1>2 DEF First, Explored, TypeOK
  <1>4. TypeOK'
    BY <1>1, <1>2, <1>3 DEF TypeOK
  <1>5. Explored'
    BY <1>1, <1>2, <1>3 DEF Explored
  <1>6. RuledOut' /\ Rooted' /\ \E f : IsTrace(f)'
    BY <1>2 DEF RuledOut, Rooted, NotOnCycle, IsTrace
  <1> QED
    BY <1>2, <1>4, <1>5, <1>6 DEF SearchInv, ReportedCycleIsReal

\* The sort before the search.
LEMMA SortingSearches ==
  ASSUME IInv, SearchInv, IInv', outcome \in {"idle", "sorting"}, outcome' # "cyclic",
         report' \subseteq Ref,
         UNCHANGED <<from, queue, current, todo, path>>,
         IF outcome' = "searching" THEN starts' = StartPoints /\ UNCHANGED <<setVars, sortVars>>
         ELSE UNCHANGED starts
  PROVE  SearchInv'
  <1>1. DOMAIN from = {} /\ queue = {} /\ todo = {} /\ TypeOK
    BY DEF SearchInv
  <1>2. pending \subseteq Task /\ SortTypeOK'
    BY DEF IInv, SortTypeOK
  <1>3. TypeOK'
    BY <1>1, <1>2 DEF TypeOK, SortTypeOK, StartPoints
  <1>4. ASSUME outcome' = "searching"
        PROVE  Explored' /\ RuledOut' /\ Rooted' /\ \E f : IsTrace(f)'
    <2>1. DOMAIN from' = {} /\ starts' = pending /\ pending' = pending
      BY <1>1, <1>4 DEF StartPoints, sortVars
    <2>2. Explored' /\ RuledOut' /\ Rooted'
      BY <1>1, <2>1 DEF Explored, RuledOut, Rooted
    <2>3. PICK f : f = [t \in {} |-> <<t>>]
      OBVIOUS
    <2>4. [t \in DOMAIN from' |-> IF from'[t] = Start THEN <<t>> ELSE <<t>> \o f[from'[t]]]
            = [t \in {} |-> <<t>>]
      BY <2>1
    <2> QED
      BY <2>2, <2>3, <2>4 DEF IsTrace
  <1>5. ReportedCycleIsReal'
    BY DEF ReportedCycleIsReal
  <1> QED
    BY <1>1, <1>3, <1>4, <1>5 DEF SearchInv

LEMMA InitSearches == Init => SearchInv
  <1> SUFFICES ASSUME Init PROVE SearchInv
    OBVIOUS
  <1>1. DOMAIN from = {}
    BY DEF Init, NothingVisited
  <1>2. TypeOK
    BY <1>1 DEF Init, TypeOK
  <1> QED
    BY <1>1, <1>2 DEF Init, SearchInv, ReportedCycleIsReal

LEMMA NextSearches == IInv /\ IDsApart /\ SearchInv /\ [Next]_vars => SearchInv'
  <1> SUFFICES ASSUME IInv, IDsApart, SearchInv, [Next]_vars PROVE SearchInv'
    OBVIOUS
  <1>0. IInv'
    BY NextIInv
  <1>1. ASSUME NEW d \in [Task -> SUBSET Ref], sortTaskGraph(Task, d) PROVE SearchInv'
    BY <1>0, <1>1, SortingSearches DEF sortTaskGraph, searchVars, SearchInv, TypeOK
  <1>2. CASE TakeReady
    BY <1>0, <1>2, SortingSearches DEF TakeReady, searchVars, SearchInv, TypeOK
  <1>3. CASE FinishSort
    BY <1>0, <1>3, SortingSearches DEF FinishSort, searchVars, SearchInv, TypeOK
  <1>4. CASE ReportMissing
    <2>1. report' \subseteq Ref
      BY <1>4, InAbsent DEF ReportMissing, IInv, SortTypeOK
    <2> QED
      BY <1>0, <1>4, <2>1, SortingSearches DEF ReportMissing, Stuck, searchVars
  <1>5. CASE ReportCycle
    BY <1>0, <1>5, SortingSearches DEF ReportCycle, Stuck, SearchInv, TypeOK
  <1>6. CASE NextStart \/ Dequeue \/ Look
    BY <1>6, NextStartSearches, DequeueSearches, LookSearches
  <1>7. CASE UNCHANGED vars
    <2>1. TypeOK' /\ ReportedCycleIsReal' /\ (Explored => Explored')
      BY <1>7 DEF vars, SearchInv, TypeOK, ReportedCycleIsReal, Explored
    <2>2. UNCHANGED <<pending, missing, starts, from, queue, todo, outcome>>
      BY <1>7 DEF vars
    <2> QED
      BY <2>1, <2>2, SameVisits DEF SearchInv
  <1> QED
    BY <1>1, <1>2, <1>3, <1>4, <1>5, <1>6, <1>7 DEF Next, Step

\* When no pending task misses anything but pending tasks, there is a least set of that kind.
LEMMA LeastClosed ==
  ASSUME IsFiniteSet(pending), pending # {}, \A t \in pending : missing[t] \subseteq pending
  PROVE  \E C \in SUBSET pending :
           /\ C # {} /\ \A t \in C : missing[t] \subseteq C
           /\ \A D \in SUBSET C : D # {} /\ (\A t \in D : missing[t] \subseteq D) => D = C
  <1> DEFINE U == {C \in SUBSET pending : C # {} /\ \A t \in C : missing[t] \subseteq C}
             R == StrictSubsetOrdering(pending)
  <1>1. IsWellFoundedOn(R, SUBSET pending)
    BY FS_StrictSubsetOrderingWellFounded, FS_FiniteSubsetsOfFinite
  <1>2. U \subseteq SUBSET pending /\ pending \in U
    OBVIOUS
  <1> HIDE DEF U, R
  <1>3. PICK C \in U : \A D \in U : ~(<<D, C>> \in R)
    BY <1>1, <1>2, WFMin
  <1>4. C \in SUBSET pending /\ C # {} /\ \A t \in C : missing[t] \subseteq C
    BY DEF U
  <1>5. ASSUME NEW D \in SUBSET C, D # {}, \A t \in D : missing[t] \subseteq D PROVE D = C
    <2>1. D \in U /\ D \in SUBSET pending
      BY <1>4, <1>5 DEF U
    <2> QED
      BY <1>3, <1>4, <1>5, <2>1 DEF R, StrictSubsetOrdering
  <1> QED
    BY <1>4, <1>5

\* When it has started from every pending task it has come back to one of them: a least
\* closed set of pending tasks is reached from each of its members, and one of them
\* depends on another.
LEMMA SearchComesBack == ASSUME IInv, SearchInv PROVE SearchFinds
  <1> SUFFICES ASSUME SearchExhausted PROVE FALSE
    BY DEF SearchFinds
  <1>1. /\ outcome = "searching" /\ queue = {} /\ todo = {} /\ starts = {}
        /\ Explored /\ RuledOut
    BY DEF SearchExhausted, SearchInv
  <1>2. /\ pending # {} /\ IsFiniteSet(pending)
        /\ \A t \in pending : missing[t] # {} /\ missing[t] \subseteq pending
    BY <1>1, SetsFinite DEF IInv, SortTypeOK, OutcomeInv
  <1>3. PICK C \in SUBSET pending :
          /\ C # {} /\ \A t \in C : missing[t] \subseteq C
          /\ \A D \in SUBSET C : D # {} /\ (\A t \in D : missing[t] \subseteq D) => D = C
    BY <1>2, LeastClosed
  <1>4. PICK t \in C : TRUE
    BY <1>3
  <1>5. PICK s \in missing[t] : s \in C /\ s \in pending
    BY <1>2, <1>3
  <1>6. PICK V \in SUBSET pending : s \in V /\ \A v \in V : missing[v] \subseteq V \ {s}
    <2>1. CASE s \in DOMAIN from /\ from[s] = Start
      <3>1. \A v \in DOMAIN from : \A d \in missing[v] : d \in DOMAIN from /\ d # s
        BY <1>1, <2>1 DEF Explored
      <3> QED
        BY <1>1, <2>1, <3>1 DEF Explored
    <2>2. CASE NotOnCycle(s)
      BY <2>2 DEF NotOnCycle
    <2> QED
      BY <1>1, <1>5, <2>1, <2>2 DEF RuledOut
  <1>7. C \cap V = C
    <2>1. C \cap V # {} /\ \A v \in C \cap V : missing[v] \subseteq C \cap V
      BY <1>3, <1>5, <1>6
    <2> QED
      BY <1>3, <2>1
  <1> QED
    BY <1>4, <1>5, <1>6, <1>7

\* Whatever the graph, the search that explains a cycle finds one, so that its panic is not
\* reached, and the path it reports is a cycle of dependencies, as long as no task ID
\* starts with the reference of another task.
THEOREM CyclesAreExplained == ASSUME IDsApart PROVE Spec => []SearchExplains
  <1>1. Init => IInv /\ SearchInv
    BY InitIInv, InitSearches
  <1>2. IInv /\ SearchInv /\ [Next]_vars => (IInv /\ SearchInv)'
    BY NextIInv, NextSearches
  <1>3. IInv /\ SearchInv => SearchExplains
    BY SearchComesBack DEF SearchInv, SearchExplains
  <1> QED
    BY <1>1, <1>2, <1>3, PTL DEF Spec

=============================================================================
