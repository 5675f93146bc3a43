------------------------- MODULE GraphResolver_proofs -------------------------
(***************************************************************************)
(* What GraphResolver.Resolve returns, proved for every set of tasks and   *)
(* whatever they declare.                                                  *)
(*                                                                         *)
(* The invariant has two halves.  What a pass without a change has checked *)
(* so far holds of the graph as it is, so a pass that ends without one has *)
(* checked everything.  And whatever was added is in every closed set that *)
(* holds the features and the required tasks.                              *)
(*                                                                         *)
(* The last part joins this with what TaskSetSort_proofs proves of the     *)
(* sort: what ResolveTaskGraph returns is right.                           *)
(***************************************************************************)
EXTENDS ResolveTaskGraph, FiniteSetTheorems, TLAPS

\* The tasks that are wanted whatever the others declare.
Roots == input.requested \cup input.required

\* The closed sets that hold the roots.
ClosedOverRoots == {S \in SUBSET Task : Roots \subseteq S /\ Closed(S)}

\* What the rules applied so far found in order, as long as nothing changed.
CheckedSoFar ==
  /\ input.requested \subseteq included
  /\ rule # "required" => input.required \subseteq included
  /\ stabled /\ rule \in {"subsequent", "end"} =>
       \A t \in included : Dependencies(t) \subseteq included
  /\ stabled /\ rule = "end" =>
       \A t \in included : \A s \in input.subsequent[t] : s \in included /\ t \in Dependencies(s)

\* Everything in the graph is needed, and every imposed order was asked for.
OnlyNeeded ==
  /\ \A S \in ClosedOverRoots : included \subseteq S
  /\ \A s \in Task : extra[s] \subseteq Requesters(s) \ input.deps[s]

\* A result is returned at the end of an unchanged pass, or by a rule that found
\* a reference without a task.
ResultInv ==
  /\ result = "resolved" => rule = "end" /\ stabled
  /\ result = "unresolved" =>
       \E t \in included : ~(input.deps[t] \cup input.subsequent[t] \subseteq Task)

IInv == TypeOK /\ CheckedSoFar /\ OnlyNeeded /\ ResultInv

-----------------------------------------------------------------------------

LEMMA InputTyped ==
  TypeOK => /\ input.deps \in [Task -> SUBSET Ref]
            /\ input.subsequent \in [Task -> SUBSET Ref]
            /\ input.required \subseteq Task
            /\ input.requested \subseteq Task
            /\ input.maxIteration \in Nat \ {0}
            /\ Task \subseteq Ref
  BY ResolverAssumption DEF TypeOK, InputType

\* Membership in the sets that the rules compute.
LEMMA Members ==
  /\ \A r : r \in MissingReferences <=> r \notin included /\ \E t \in included : r \in Dependencies(t)
  /\ \A s : s \in Followers <=> \E t \in included : s \in input.subsequent[t]
  /\ \A s : \A t : t \in Requesters(s) <=> t \in included /\ s \in input.subsequent[t]
  BY DEF MissingReferences, Followers, Requesters

LEMMA InitIInv == Init => IInv
  <1> SUFFICES ASSUME Init PROVE IInv
    OBVIOUS
  <1>1. TypeOK
    BY ResolverAssumption DEF Init, TypeOK, InputType
  <1>2. CheckedSoFar /\ ResultInv
    BY DEF Init, CheckedSoFar, ResultInv
  <1>3. OnlyNeeded
    BY DEF Init, OnlyNeeded, ClosedOverRoots, Roots
  <1> QED
    BY <1>1, <1>2, <1>3 DEF IInv

LEMMA NextTypeOK == TypeOK /\ [Next]_vars => TypeOK'
  <1> SUFFICES ASSUME TypeOK, [Next]_vars PROVE TypeOK'
    OBVIOUS
  <1> USE InputTyped DEF TypeOK, Proceed, Unresolved, At
  <1>1. CASE RequiredTaskLabelRule
    BY <1>1 DEF RequiredTaskLabelRule
  <1>2. CASE TaskDependencyRule
    BY <1>2 DEF TaskDependencyRule
  <1>3. CASE SubsequentTaskRefsRule
    <2>1. WithExtra \in [Task -> SUBSET Task]
      BY DEF WithExtra, Requesters
    <2> QED
      BY <1>3, <2>1 DEF SubsequentTaskRefsRule
  <1>4. CASE Resolved \/ Exhausted
    BY <1>4 DEF Resolved, Exhausted, Return
  <1>5. CASE NextPass
    BY <1>5 DEF NextPass, LastPass
  <1>6. CASE UNCHANGED vars
    BY <1>6 DEF vars
  <1> QED
    BY <1>1, <1>2, <1>3, <1>4, <1>5, <1>6 DEF Next, Resolve

\* The closed sets do not change, and what may be added is in each of them.
LEMMA ClosedSetsKept == input' = input => ClosedOverRoots' = ClosedOverRoots
  BY DEF ClosedOverRoots, Roots, Closed

\* A graph that grows and only gets the orders that its tasks ask for stays within
\* what is needed.
LEMMA NeededStep ==
  ASSUME IInv, NEW new \in SUBSET Task, input' = input, included' = included \cup new,
         \A S \in ClosedOverRoots : new \subseteq S,
         \A s \in Task : extra'[s] \subseteq extra[s] \cup (Requesters(s) \ input.deps[s])
  PROVE  OnlyNeeded'
  <1>1. \A S \in ClosedOverRoots : included' \subseteq S
    BY DEF IInv, OnlyNeeded
  <1>2. \A s \in Task : Requesters(s) \subseteq Requesters(s)'
    BY DEF Requesters
  <1>3. \A s \in Task : extra'[s] \subseteq Requesters(s)' \ input.deps[s]
    BY <1>2 DEF IInv, OnlyNeeded
  <1> QED
    BY <1>1, <1>3, ClosedSetsKept DEF OnlyNeeded

LEMMA RequiredIInv == IInv /\ RequiredTaskLabelRule /\ TypeOK' => IInv'
  <1> SUFFICES ASSUME IInv, RequiredTaskLabelRule, TypeOK' PROVE IInv'
    OBVIOUS
  <1> DEFINE new == input.required \ included
  <1>1. /\ included' = included \cup new /\ extra' = extra /\ input' = input
        /\ rule = "required" /\ rule' = "dependency" /\ result = "none" /\ result' = "none"
        /\ new \subseteq Task
    BY InputTyped DEF RequiredTaskLabelRule, Proceed, At, IInv
  <1>2. CheckedSoFar'
    BY <1>1 DEF IInv, CheckedSoFar
  <1>3. \A S \in ClosedOverRoots : new \subseteq S
    BY DEF ClosedOverRoots, Roots
  <1>4. OnlyNeeded'
    BY <1>1, <1>3, NeededStep
  <1>5. ResultInv'
    BY <1>1 DEF ResultInv
  <1> QED
    BY <1>2, <1>4, <1>5 DEF IInv

LEMMA DependencyIInv == IInv /\ TaskDependencyRule /\ TypeOK' => IInv'
  <1> SUFFICES ASSUME IInv, TaskDependencyRule, TypeOK' PROVE IInv'
    OBVIOUS
  <1> DEFINE new == MissingReferences
  <1>1. rule = "dependency" /\ result = "none" /\ extra' = extra /\ input' = input
    BY DEF TaskDependencyRule, Proceed, Unresolved, At
  <1>2. CASE ~(MissingReferences \subseteq Task)
    <2>1. /\ result' = "unresolved" /\ included' = included /\ rule' = rule /\ stabled' = stabled
      BY <1>2 DEF TaskDependencyRule, Unresolved
    <2>2. PICK r \in MissingReferences : r \notin Task
      BY <1>2
    <2>3. PICK t \in included : r \in Dependencies(t)
      BY <2>2, Members
    <2>4. t \in Task /\ r \in input.deps[t]
      BY <2>2, <2>3 DEF Dependencies, IInv, TypeOK
    <2>5. ResultInv'
      BY <1>1, <2>1, <2>2, <2>3, <2>4 DEF ResultInv
    <2>6. CheckedSoFar' /\ OnlyNeeded'
      <3>1. CheckedSoFar'
        BY <1>1, <2>1 DEF IInv, CheckedSoFar, Dependencies
      <3>2. OnlyNeeded'
        BY <1>1, <2>1, ClosedSetsKept DEF IInv, OnlyNeeded, Requesters
      <3> QED
        BY <3>1, <3>2
    <2> QED
      BY <2>5, <2>6 DEF IInv
  <1>3. CASE MissingReferences \subseteq Task
    <2>1. /\ included' = included \cup new /\ rule' = "subsequent" /\ result' = "none"
          /\ stabled' = (stabled /\ ~(new # {}))
      BY <1>3 DEF TaskDependencyRule, Proceed, At
    <2>2. stabled' => included' = included /\ \A t \in included : Dependencies(t) \subseteq included
      BY <2>1, Members
    <2>3. CheckedSoFar'
      BY <1>1, <2>1, <2>2 DEF IInv, CheckedSoFar, Dependencies
    <2>4. ASSUME NEW S \in ClosedOverRoots, NEW r \in new PROVE r \in S
      <3>1. PICK t \in included : r \in Dependencies(t)
        BY Members
      <3>2. included \subseteq S /\ Closed(S) /\ S \subseteq Task
        BY DEF IInv, OnlyNeeded, ClosedOverRoots
      <3>3. r \notin included /\ r \in Task
        BY <1>3, Members
      <3>4. extra[t] \subseteq included
        BY <3>1, Members DEF IInv, OnlyNeeded, TypeOK
      <3>5. r \in input.deps[t]
        BY <3>1, <3>3, <3>4 DEF Dependencies
      <3> QED
        BY <3>1, <3>2, <3>3, <3>5 DEF Closed
    <2>5. OnlyNeeded'
      BY <1>1, <1>3, <2>1, <2>4, NeededStep
    <2>6. ResultInv'
      BY <2>1 DEF ResultInv
    <2> QED
      BY <2>3, <2>5, <2>6 DEF IInv
  <1> QED
    BY <1>2, <1>3

LEMMA SubsequentIInv == IInv /\ SubsequentTaskRefsRule /\ TypeOK' => IInv'
  <1> SUFFICES ASSUME IInv, SubsequentTaskRefsRule, TypeOK' PROVE IInv'
    OBVIOUS
  <1> DEFINE new == Followers
  <1>1. rule = "subsequent" /\ result = "none" /\ input' = input
    BY DEF SubsequentTaskRefsRule, Proceed, Unresolved, At
  <1>2. CASE ~(Followers \subseteq Task)
    <2>1. /\ result' = "unresolved" /\ included' = included /\ rule' = rule /\ stabled' = stabled
          /\ extra' = extra
      BY <1>2 DEF SubsequentTaskRefsRule, Unresolved
    <2>2. PICK s \in Followers : s \notin Task
      BY <1>2
    <2>3. PICK t \in included : s \in input.subsequent[t]
      BY <2>2, Members
    <2>4. ResultInv'
      BY <1>1, <2>1, <2>2, <2>3 DEF ResultInv
    <2>5. CheckedSoFar'
      BY <1>1, <2>1 DEF IInv, CheckedSoFar, Dependencies
    <2>6. OnlyNeeded'
      BY <1>1, <2>1, ClosedSetsKept DEF IInv, OnlyNeeded, Requesters
    <2> QED
      BY <2>4, <2>5, <2>6 DEF IInv
  <1>3. CASE Followers \subseteq Task
    <2>1. /\ included' = included \cup new /\ rule' = "end" /\ result' = "none"
          /\ extra' = WithExtra
          /\ stabled' = (stabled /\ ~(OrderChanged \/ ~(Followers \subseteq included)))
      BY <1>3 DEF SubsequentTaskRefsRule, Proceed, At
    <2>2. ASSUME stabled' PROVE /\ included' = included /\ extra' = extra
                                /\ \A t \in included : Dependencies(t) \subseteq included
      BY <1>1, <2>1, <2>2 DEF OrderChanged, IInv, CheckedSoFar
    <2>3. ASSUME stabled', NEW t \in included, NEW s \in input.subsequent[t]
          PROVE  s \in included /\ t \in Dependencies(s)
      <3>1. s \in Followers /\ t \in Requesters(s)
        BY Members
      <3>2. s \in included /\ s \in Task
        BY <1>3, <2>1, <2>3, <3>1
      <3>3. extra[s] = extra[s] \cup (Requesters(s) \ input.deps[s])
        BY <2>1, <2>2, <2>3, <3>1, <3>2 DEF WithExtra
      <3> QED
        BY <3>1, <3>2, <3>3 DEF Dependencies
    <2>4. CheckedSoFar'
      BY <1>1, <2>1, <2>2, <2>3 DEF IInv, CheckedSoFar, Dependencies
    <2>5. ASSUME NEW S \in ClosedOverRoots, NEW s \in new PROVE s \in S
      <3>1. PICK t \in included : s \in input.subsequent[t]
        BY Members
      <3>2. included \subseteq S /\ Closed(S) /\ s \in Task
        BY <1>3 DEF IInv, OnlyNeeded, ClosedOverRoots
      <3> QED
        BY <3>1, <3>2 DEF Closed
    <2>6. \A s \in Task : extra'[s] \subseteq extra[s] \cup (Requesters(s) \ input.deps[s])
      BY <2>1 DEF WithExtra
    <2>7. OnlyNeeded'
      BY <1>1, <1>3, <2>1, <2>5, <2>6, NeededStep
    <2>8. ResultInv'
      BY <2>1 DEF ResultInv
    <2> QED
      BY <2>4, <2>7, <2>8 DEF IInv
  <1> QED
    BY <1>2, <1>3

LEMMA NextIInv == IInv /\ [Next]_vars => IInv'
  <1> SUFFICES ASSUME IInv, [Next]_vars PROVE IInv'
    OBVIOUS
  <1>1. TypeOK'
    BY NextTypeOK DEF IInv
  <1>2. CASE RequiredTaskLabelRule \/ TaskDependencyRule \/ SubsequentTaskRefsRule
    BY <1>1, <1>2, RequiredIInv, DependencyIInv, SubsequentIInv
  <1>3. CASE Resolved \/ Exhausted \/ NextPass \/ UNCHANGED vars
    <2>1. included' = included /\ extra' = extra /\ input' = input
      BY <1>3 DEF Resolved, Exhausted, Return, NextPass, vars
    <2>2. OnlyNeeded'
      BY <2>1, ClosedSetsKept DEF IInv, OnlyNeeded, Requesters
    <2>3. CheckedSoFar'
      BY <1>3, <2>1 DEF Resolved, Exhausted, Return, NextPass, vars, At, IInv, CheckedSoFar,
                        Dependencies
    <2>4. ResultInv'
      BY <1>3, <2>1 DEF Resolved, Exhausted, Return, NextPass, vars, At, IInv, ResultInv
    <2> QED
      BY <1>1, <2>2, <2>3, <2>4 DEF IInv
  <1> QED
    BY <1>2, <1>3 DEF Next, Resolve

THEOREM InvariantHolds == Spec => []IInv
  <1> QED
    BY InitIInv, NextIInv, PTL DEF Spec

-----------------------------------------------------------------------------

\* The variables of Resolve keep their types, the passes their limit.
THEOREM TypeCorrect == Spec => []TypeOK
  <1>1. IInv => TypeOK
    BY DEF IInv
  <1> QED
    BY <1>1, InvariantHolds, PTL

\* A resolved graph has all that its tasks depend on and all that must follow
\* them, waiting for them.
THEOREM ResolvedGraphIsClosed == Spec => []ResolvedIsClosed
  <1>1. IInv => ResolvedIsClosed
    BY DEF IInv, CheckedSoFar, ResultInv, ResolvedIsClosed
  <1> QED
    BY <1>1, InvariantHolds, PTL

\* There is a smallest closed set over the roots, and Needed is it.
LEMMA NeededIsLeast ==
  ASSUME TypeOK
  PROVE  Needed \in ClosedOverRoots /\ \A S \in ClosedOverRoots : Needed \subseteq S
  <1> DEFINE Core == {t \in Task : \A S \in ClosedOverRoots : t \in S}
  <1>1. Roots \subseteq Core
    BY InputTyped DEF ClosedOverRoots, Roots
  <1>2. Closed(Core)
    <2> SUFFICES ASSUME NEW t \in Core,
                        NEW d \in (input.deps[t] \cup input.subsequent[t]) \cap Task,
                        NEW S \in ClosedOverRoots
                 PROVE  d \in S
      BY DEF Closed
    <2> QED
      BY DEF ClosedOverRoots, Closed
  <1>3. \A R \in SUBSET Task : Roots \subseteq R /\ Closed(R) => Core \subseteq R
    BY DEF ClosedOverRoots
  <1>4. \E N \in SUBSET Task :
           /\ input.requested \cup input.required \subseteq N
           /\ Closed(N)
           /\ \A R \in SUBSET Task :
                input.requested \cup input.required \subseteq R /\ Closed(R) => N \subseteq R
    <2>1. Core \in SUBSET Task
      OBVIOUS
    <2> QED
      BY <1>1, <1>2, <1>3, <2>1 DEF Roots
  <1>5. /\ Needed \in SUBSET Task
        /\ input.requested \cup input.required \subseteq Needed
        /\ Closed(Needed)
        /\ \A R \in SUBSET Task :
             input.requested \cup input.required \subseteq R /\ Closed(R) => Needed \subseteq R
    BY <1>4 DEF Needed
  <1> QED
    BY <1>5 DEF ClosedOverRoots, Roots

\* Nothing gets into the graph that nobody needs, and no order that nobody asked
\* for.
THEOREM OnlyNeededIsIncluded == Spec => []NothingUnneeded
  <1>1. IInv => NothingUnneeded
    BY NeededIsLeast DEF IInv, OnlyNeeded, NothingUnneeded
  <1> QED
    BY <1>1, InvariantHolds, PTL

\* Resolution fails over a reference without a task exactly when a needed task has
\* one.
THEOREM FailureIsRight == Spec => []FailureIsJustified
  <1>1. ASSUME IInv, result = "unresolved"
        PROVE  \E t \in Needed : ~(input.deps[t] \cup input.subsequent[t] \subseteq Task)
    BY <1>1, NeededIsLeast DEF IInv, OnlyNeeded, ResultInv
  <1>2. ASSUME IInv, result = "resolved", NEW t \in Needed
        PROVE  input.deps[t] \cup input.subsequent[t] \subseteq Task
    <2>1. /\ included \subseteq Task /\ Roots \subseteq included
          /\ \A u \in included : input.deps[u] \cup input.subsequent[u] \subseteq included
      BY <1>2 DEF IInv, TypeOK, CheckedSoFar, ResultInv, Roots, Dependencies
    <2>2. included \in ClosedOverRoots
      BY <2>1 DEF ClosedOverRoots, Closed
    <2>3. t \in included
      BY <1>2, <2>2, NeededIsLeast DEF IInv
    <2> QED
      BY <2>1, <2>3
  <1>3. IInv => FailureIsJustified
    BY <1>1, <1>2 DEF FailureIsJustified
  <1> QED
    BY <1>3, InvariantHolds, PTL

-----------------------------------------------------------------------------
(***************************************************************************)
(* The number of passes.  A pass that ends with a change has added a task, *)
(* or it has only imposed orders: then the next pass changes nothing.      *)
(***************************************************************************)

\* The tasks that were added, counted.
Grown == Cardinality(included \ input.requested)

DepsIncluded == \A t \in included : Dependencies(t) \subseteq included

\* No rule would change the graph.
Settled ==
  /\ input.required \subseteq included
  /\ DepsIncluded
  /\ Followers \subseteq included
  /\ extra = WithExtra

\* What the rules of this pass have found, if they added no task.
FoundComplete ==
  /\ rule # "required" => input.required \subseteq included
  /\ rule \in {"subsequent", "end"} => DepsIncluded
  /\ rule = "end" => Settled

PassInv ==
  /\ \/ iteration <= Grown
     \/ iteration <= Grown + 1 /\ FoundComplete
     \/ iteration <= Grown + 2 /\ stabled /\ Settled
  /\ result = "exhausted" => rule = "end" /\ ~stabled /\ iteration = input.maxIteration

\* What is added is counted.
LEMMA GrownBy ==
  ASSUME TypeOK, NEW new \in SUBSET Task, input' = input, included' = included \cup new,
         input.requested \subseteq included
  PROVE  /\ Grown \in Nat /\ Grown' \in Nat /\ Grown <= Grown'
         /\ ~(new \subseteq included) => Grown + 1 <= Grown'
  <1> DEFINE Old == included \ input.requested
             New == included' \ input.requested
  <1>1. input.requested \subseteq Task /\ included \subseteq Task
    BY InputTyped DEF TypeOK
  <1>2. IsFiniteSet(Task)
    BY ResolverAssumption, FS_Subset
  <1>3. IsFiniteSet(New) /\ IsFiniteSet(Old) /\ Old \subseteq New
    BY <1>1, <1>2, FS_Subset
  <1>4. Grown = Cardinality(Old) /\ Grown' = Cardinality(New)
    BY DEF Grown
  <1>5. Cardinality(Old) \in Nat /\ Cardinality(New) \in Nat /\ Cardinality(Old) <= Cardinality(New)
    BY <1>3, FS_CardinalityType, FS_Subset
  <1>6. ASSUME ~(new \subseteq included)
        PROVE  Cardinality(Old) # Cardinality(New)
    <2>1. Old # New
      BY <1>6
    <2> QED
      BY <1>3, <2>1, FS_Subset
  <1> QED
    BY <1>4, <1>5, <1>6

LEMMA SettledKept ==
  Settled /\ UNCHANGED <<input, included, extra>> => Settled'
  <1> SUFFICES ASSUME Settled, UNCHANGED <<input, included, extra>> PROVE Settled'
    OBVIOUS
  <1>1. DepsIncluded'
    BY DEF Settled, DepsIncluded, Dependencies
  <1>2. Followers' = Followers
    BY DEF Followers
  <1>3. WithExtra' = WithExtra
    BY <1>2 DEF WithExtra, Requesters
  <1> QED
    BY <1>1, <1>2, <1>3 DEF Settled

\* Imposing the orders once more adds none, as long as no task is added.
LEMMA WithExtraIsStable ==
  ASSUME TypeOK, UNCHANGED <<input, included>>, extra' = WithExtra
  PROVE  extra' = WithExtra'
  <1>1. Followers' = Followers /\ \A s : Requesters(s)' = Requesters(s)
    BY DEF Followers, Requesters
  <1>2. ASSUME NEW s \in Task
        PROVE  WithExtra[s] = IF s \in Followers
                              THEN WithExtra[s] \cup (Requesters(s) \ input.deps[s])
                              ELSE WithExtra[s]
    BY DEF WithExtra
  <1>3. WithExtra' = [s \in Task |-> IF s \in Followers
                                     THEN extra'[s] \cup (Requesters(s) \ input.deps[s])
                                     ELSE extra'[s]]
    BY <1>1 DEF WithExtra
  <1>4. WithExtra = [s \in Task |-> WithExtra[s]]
    BY DEF WithExtra
  <1> QED
    BY <1>2, <1>3, <1>4

\* A settled graph that no rule changes.
LEMMA NothingLeft ==
  Settled =>
    /\ input.required \ included = {}
    /\ MissingReferences = {}
    /\ Followers \subseteq included
    /\ ~OrderChanged
  BY Members DEF Settled, DepsIncluded, OrderChanged

LEMMA PassInit == Init => PassInv
  <1> SUFFICES ASSUME Init PROVE PassInv
    OBVIOUS
  <1>1. Grown = 0
    BY FS_EmptySet DEF Init, Grown
  <1> QED
    BY <1>1 DEF Init, PassInv, FoundComplete

\* The bounds on the passes survive when tasks are added, and gain by it.
LEMMA BoundsKept ==
  ASSUME TypeOK, NEW new \in SUBSET Task, included' = included \cup new,
         UNCHANGED <<input, iteration>>, input.requested \subseteq included
  PROVE  /\ iteration <= Grown => iteration' <= Grown'
         /\ iteration <= Grown + 1 => iteration' <= Grown' + 1
         /\ iteration <= Grown + 2 => iteration' <= Grown' + 2
         /\ iteration <= Grown + 1 /\ ~(new \subseteq included) => iteration' <= Grown'
         /\ iteration <= Grown => iteration <= Grown + 1
  <1>1. /\ Grown \in Nat /\ Grown' \in Nat /\ Grown <= Grown'
        /\ ~(new \subseteq included) => Grown + 1 <= Grown'
    BY GrownBy
  <1>2. iteration \in Nat /\ iteration' = iteration
    BY InputTyped DEF TypeOK
  <1>3. \A i, g, k \in Nat : g <= k =>
          /\ i <= g => i <= k
          /\ i <= g => i <= g + 1
          /\ i <= g + 1 => i <= k + 1
          /\ i <= g + 2 => i <= k + 2
    OBVIOUS
  <1>4. \A i, g, k \in Nat : g + 1 <= k /\ i <= g + 1 => i <= k
    OBVIOUS
  <1>5. /\ iteration <= Grown => iteration <= Grown'
        /\ iteration <= Grown => iteration <= Grown + 1
        /\ iteration <= Grown + 1 => iteration <= Grown' + 1
        /\ iteration <= Grown + 2 => iteration <= Grown' + 2
    BY <1>1, <1>2, <1>3, Zenon
  <1>6. iteration <= Grown + 1 /\ ~(new \subseteq included) => iteration <= Grown'
    BY <1>1, <1>2, <1>4, Zenon
  <1> QED
    BY <1>2, <1>5, <1>6, Zenon

LEMMA PassStep == IInv /\ PassInv /\ [Next]_vars => PassInv'
  <1> SUFFICES ASSUME IInv, PassInv, [Next]_vars PROVE PassInv'
    OBVIOUS
  <1>0. /\ TypeOK /\ input.requested \subseteq included /\ iteration \in Nat
        /\ rule # "required" => input.required \subseteq included
    BY InputTyped DEF IInv, CheckedSoFar, TypeOK
  <1> USE DEF At
  <1>1. CASE RequiredTaskLabelRule
    <2> DEFINE new == input.required \ included
    <2>1. /\ included' = included \cup new /\ new \in SUBSET Task
          /\ rule = "required" /\ rule' = "dependency" /\ result' = result /\ result = "none"
          /\ stabled' = (stabled /\ new = {})
          /\ UNCHANGED <<input, extra, iteration>>
      BY <1>0, <1>1, InputTyped DEF RequiredTaskLabelRule, Proceed
    <2>2. iteration' = iteration /\ result' # "exhausted"
      BY <2>1
    <2>3. /\ iteration <= Grown => iteration' <= Grown'
          /\ iteration <= Grown + 1 => iteration' <= Grown' + 1
          /\ iteration <= Grown + 2 => iteration' <= Grown' + 2
          /\ iteration <= Grown + 1 /\ ~(new \subseteq included) => iteration' <= Grown'
          /\ iteration <= Grown => iteration <= Grown + 1
      BY <1>0, <2>1, BoundsKept
    <2>4. CASE iteration <= Grown + 1
      <3>1. FoundComplete'
        BY <2>1 DEF FoundComplete
      <3> QED
        BY <2>2, <2>3, <2>4, <3>1 DEF PassInv
    <2>5. CASE iteration <= Grown + 2 /\ stabled /\ Settled
      <3>1. new = {} /\ included' = included
        BY <2>1, <2>5, NothingLeft
      <3>2. Settled'
        BY <2>1, <2>5, <3>1, SettledKept
      <3>3. stabled'
        BY <2>1, <2>5, <3>1
      <3> QED
        BY <2>2, <2>3, <2>5, <3>2, <3>3 DEF PassInv
    <2> QED
      BY <2>3, <2>4, <2>5 DEF PassInv
  <1>2. CASE TaskDependencyRule /\ MissingReferences \subseteq Task
    <2> DEFINE new == MissingReferences
    <2>1. /\ included' = included \cup new /\ new \in SUBSET Task
          /\ rule = "dependency" /\ rule' = "subsequent" /\ result' = result /\ result = "none"
          /\ stabled' = (stabled /\ new = {})
          /\ UNCHANGED <<input, extra, iteration>>
      BY <1>0, <1>2 DEF TaskDependencyRule, Proceed
    <2>2. iteration' = iteration /\ result' # "exhausted"
      BY <2>1
    <2>3. /\ iteration <= Grown => iteration' <= Grown'
          /\ iteration <= Grown + 1 => iteration' <= Grown' + 1
          /\ iteration <= Grown + 2 => iteration' <= Grown' + 2
          /\ iteration <= Grown + 1 /\ ~(new \subseteq included) => iteration' <= Grown'
          /\ iteration <= Grown => iteration <= Grown + 1
      BY <1>0, <2>1, BoundsKept
    <2>4. CASE iteration <= Grown
      BY <2>2, <2>3, <2>4 DEF PassInv
    <2>5. CASE iteration <= Grown + 1 /\ ~(new \subseteq included)
      BY <2>2, <2>3, <2>5 DEF PassInv
    <2>6. CASE iteration <= Grown + 1 /\ new \subseteq included
      <3>1. new = {} /\ included' = included
        BY <2>1, <2>6 DEF MissingReferences
      <3>2. DepsIncluded'
        BY <2>1, <3>1, Members DEF DepsIncluded, Dependencies
      <3>3. FoundComplete'
        BY <1>0, <2>1, <3>1, <3>2 DEF FoundComplete
      <3> QED
        BY <2>2, <2>3, <2>6, <3>3 DEF PassInv
    <2>7. CASE iteration <= Grown + 2 /\ stabled /\ Settled
      <3>1. new = {} /\ included' = included
        BY <2>1, <2>7, NothingLeft
      <3>2. Settled'
        BY <2>1, <2>7, <3>1, SettledKept
      <3>3. stabled'
        BY <2>1, <2>7, <3>1
      <3> QED
        BY <2>2, <2>3, <2>7, <3>2, <3>3 DEF PassInv
    <2> QED
      BY <2>4, <2>5, <2>6, <2>7 DEF PassInv
  <1>3. CASE SubsequentTaskRefsRule /\ Followers \subseteq Task
    <2> DEFINE new == Followers
    <2>1. /\ included' = included \cup new /\ new \in SUBSET Task
          /\ rule = "subsequent" /\ rule' = "end" /\ result' = result /\ result = "none"
          /\ stabled' = (stabled /\ ~(OrderChanged \/ ~(new \subseteq included)))
          /\ extra' = WithExtra
          /\ UNCHANGED <<input, iteration>>
      BY <1>0, <1>3 DEF SubsequentTaskRefsRule, Proceed
    <2>2. iteration' = iteration /\ result' # "exhausted"
      BY <2>1
    <2>3. /\ iteration <= Grown => iteration' <= Grown'
          /\ iteration <= Grown + 1 => iteration' <= Grown' + 1
          /\ iteration <= Grown + 2 => iteration' <= Grown' + 2
          /\ iteration <= Grown + 1 /\ ~(new \subseteq included) => iteration' <= Grown'
          /\ iteration <= Grown => iteration <= Grown + 1
      BY <1>0, <2>1, BoundsKept
    <2>4. CASE iteration <= Grown
      BY <2>2, <2>3, <2>4 DEF PassInv
    <2>5. CASE iteration <= Grown + 1 /\ ~(new \subseteq included)
      BY <2>2, <2>3, <2>5 DEF PassInv
    <2>6. CASE iteration <= Grown + 1 /\ FoundComplete /\ new \subseteq included
      <3>1. included' = included
        BY <2>1, <2>6
      <3>2. extra' = WithExtra'
        BY <1>0, <2>1, <3>1, WithExtraIsStable
      <3>3. \A t \in Task : extra'[t] \subseteq extra[t] \cup included
        BY <2>1 DEF WithExtra, Requesters
      <3>4. DepsIncluded'
        <4>1. ASSUME NEW t \in included PROVE Dependencies(t)' \subseteq included
          BY <1>0, <2>1, <2>6, <3>3 DEF FoundComplete, DepsIncluded, Dependencies, TypeOK
        <4> QED
          BY <3>1, <4>1 DEF DepsIncluded
      <3>5. Followers' \subseteq included'
        BY <2>1, <2>6, <3>1 DEF Followers
      <3>6. Settled' /\ FoundComplete'
        BY <1>0, <2>1, <3>1, <3>2, <3>4, <3>5 DEF Settled, FoundComplete
      <3> QED
        BY <2>2, <2>3, <2>6, <3>6 DEF PassInv
    <2>7. CASE iteration <= Grown + 2 /\ stabled /\ Settled
      <3>1. included' = included /\ extra' = extra /\ stabled'
        BY <2>1, <2>7, NothingLeft DEF OrderChanged
      <3>2. Settled'
        BY <2>1, <2>7, <3>1, SettledKept
      <3>3. stabled'
        BY <2>1, <2>7, <3>1
      <3> QED
        BY <2>2, <2>3, <2>7, <3>2, <3>3 DEF PassInv
    <2> QED
      BY <2>4, <2>5, <2>6, <2>7 DEF PassInv
  <1>4. CASE UNCHANGED <<input, included, extra, rule, stabled, iteration>>
             /\ (result' = "exhausted" => result = "exhausted" \/ Exhausted)
    <2>1. Grown' = Grown
      BY <1>4 DEF Grown
    <2>2. Settled => Settled'
      BY <1>4, SettledKept
    <2>3. DepsIncluded => DepsIncluded'
      BY <1>4 DEF DepsIncluded, Dependencies
    <2>4. FoundComplete => FoundComplete'
      BY <1>4, <2>2, <2>3 DEF FoundComplete
    <2>5. result' = "exhausted" => rule' = "end" /\ ~stabled' /\ iteration' = input'.maxIteration
      BY <1>4 DEF PassInv, Exhausted, Return, LastPass
    <2> QED
      BY <1>4, <2>1, <2>2, <2>4, <2>5 DEF PassInv
  <1>5. CASE NextPass
    <2>1. /\ UNCHANGED <<input, included, extra>> /\ iteration' = iteration + 1
          /\ rule = "end" /\ rule' = "required" /\ ~stabled /\ stabled'
          /\ result = "none" /\ result' = "none"
      BY <1>5 DEF NextPass
    <2>2. Grown' = Grown /\ Grown \in Nat
      <3>1. included' = included \cup {} /\ {} \in SUBSET Task
        BY <2>1
      <3>2. Grown \in Nat
        BY <1>0, <2>1, <3>1, GrownBy
      <3> QED
        BY <2>1, <3>2 DEF Grown
    <2>3. CASE iteration <= Grown
      BY <1>0, <2>1, <2>2, <2>3 DEF PassInv, FoundComplete
    <2>4. CASE iteration <= Grown + 1 /\ Settled
      <3>1. Settled'
        BY <2>1, <2>4, SettledKept
      <3> QED
        BY <1>0, <2>1, <2>2, <2>4, <3>1 DEF PassInv
    <2> QED
      BY <2>1, <2>3, <2>4 DEF PassInv, FoundComplete
  <1>6. CASE TaskDependencyRule /\ ~(MissingReferences \subseteq Task)
    BY <1>4, <1>6 DEF TaskDependencyRule, Unresolved
  <1>7. CASE SubsequentTaskRefsRule /\ ~(Followers \subseteq Task)
    BY <1>4, <1>7 DEF SubsequentTaskRefsRule, Unresolved
  <1>8. CASE Resolved \/ Exhausted
    BY <1>4, <1>8 DEF Resolved, Exhausted, Return
  <1>9. CASE UNCHANGED vars
    BY <1>4, <1>9 DEF vars
  <1> QED
    BY <1>1, <1>2, <1>3, <1>5, <1>6, <1>7, <1>8, <1>9 DEF Next, Resolve

\* No more passes are made than there are tasks to add, and two; the limit ends the
\* resolution only when it is below that.
THEOREM PassesAreBounded == Spec => []PassesBounded
  <1>1. IInv /\ PassInv => PassesBounded
    <2> SUFFICES ASSUME IInv, PassInv PROVE PassesBounded
      OBVIOUS
    <2>1. included \subseteq Task /\ iteration \in Nat
      BY InputTyped DEF IInv, TypeOK
    <2>2. IsFiniteSet(Task \ input.requested)
      BY ResolverAssumption, FS_Subset
    <2>3. included \ input.requested \in SUBSET (Task \ input.requested)
      BY <2>1
    <2>4. /\ Grown \in Nat /\ Cardinality(Task \ input.requested) \in Nat
          /\ Grown <= Cardinality(Task \ input.requested)
      BY <2>2, <2>3, FS_Subset, FS_CardinalityType DEF Grown
    <2> QED
      BY <2>1, <2>4 DEF PassInv, PassesBounded
  <1>2. Spec => []PassInv
    BY PassInit, PassStep, InvariantHolds, PTL DEF Spec
  <1> QED
    BY <1>1, <1>2, InvariantHolds, PTL

-----------------------------------------------------------------------------
(***************************************************************************)
(* ResolveTaskGraph: what was resolved is sorted.  While one of the two    *)
(* acts the other stands still, so each keeps its invariant; and what is   *)
(* sorted is what was resolved, in which nothing is missing.               *)
(***************************************************************************)

SortProofs == INSTANCE TaskSetSort_proofs

\* The set that is sorted is the one that was resolved.
Handover ==
  /\ outcome # "idle" =>
       /\ result = "resolved"
       /\ tasks = included
       /\ deps = [t \in Task |-> IF t \in included THEN Dependencies(t) ELSE {}]
  /\ outcome = "missing" => report # {}

JointInv == IInv /\ SortProofs!IInv /\ Handover

\* The sort of this module is the one of which the invariant is proved.
LEMMA SameSort ==
  /\ Sort!Init => SortProofs!Init
  /\ Sort!Step => SortProofs!Step
  /\ \A S, d : Sort!sortTaskGraph(S, d) => SortProofs!sortTaskGraph(S, d)
  /\ Sort!SortAssumption => SortProofs!SortAssumption
  <1>1. Sort!Init => SortProofs!Init
    BY DEF Sort!Init, SortProofs!Init, Sort!NothingVisited, SortProofs!NothingVisited, Sort!Start,
       SortProofs!Start, Sort!Nobody, SortProofs!Nobody
  <1>2. Sort!Step => SortProofs!Step
    <2>1. Sort!TakeReady => SortProofs!TakeReady
      BY DEF Sort!TakeReady, SortProofs!TakeReady, Sort!Last, SortProofs!Last, Sort!Ready,
         SortProofs!Ready, Sort!Served, SortProofs!Served, Sort!setVars, SortProofs!setVars,
         Sort!searchVars, SortProofs!searchVars
    <2>2. Sort!FinishSort => SortProofs!FinishSort
      BY DEF Sort!FinishSort, SortProofs!FinishSort, Sort!setVars, SortProofs!setVars,
         Sort!sortVars, SortProofs!sortVars, Sort!searchVars, SortProofs!searchVars
    <2>3. Sort!ReportMissing => SortProofs!ReportMissing
      BY DEF Sort!ReportMissing, SortProofs!ReportMissing, Sort!Stuck, SortProofs!Stuck,
         Sort!Ready, SortProofs!Ready, Sort!Absent, SortProofs!Absent, Sort!setVars,
         SortProofs!setVars, Sort!sortVars, SortProofs!sortVars, Sort!searchVars,
         SortProofs!searchVars
    <2>4. Sort!ReportCycle => SortProofs!ReportCycle
      BY DEF Sort!ReportCycle, SortProofs!ReportCycle, Sort!Stuck, SortProofs!Stuck,
         Sort!Ready, SortProofs!Ready, Sort!Absent, SortProofs!Absent, Sort!StartPoints,
         SortProofs!StartPoints, Sort!setVars, SortProofs!setVars, Sort!sortVars,
         SortProofs!sortVars
    <2>5. Sort!NextStart => SortProofs!NextStart
      BY DEF Sort!NextStart, SortProofs!NextStart, Sort!First, SortProofs!First, Sort!Start,
         SortProofs!Start, Sort!setVars, SortProofs!setVars, Sort!sortVars, SortProofs!sortVars
    <2>6. Sort!Dequeue => SortProofs!Dequeue
      BY DEF Sort!Dequeue, SortProofs!Dequeue, Sort!First, SortProofs!First, Sort!setVars,
         SortProofs!setVars, Sort!sortVars, SortProofs!sortVars
    <2>7. Sort!Look => SortProofs!Look
      BY DEF Sort!Look, SortProofs!Look, Sort!MeetVisited, SortProofs!MeetVisited, Sort!VisitNew,
         SortProofs!VisitNew, Sort!Visited, SortProofs!Visited, Sort!Discovered,
         SortProofs!Discovered, Sort!TraceOf, SortProofs!TraceOf, Sort!Start, SortProofs!Start,
         Sort!setVars, SortProofs!setVars, Sort!sortVars, SortProofs!sortVars
    <2> QED
      BY <2>1, <2>2, <2>3, <2>4, <2>5, <2>6, <2>7 DEF Sort!Step, SortProofs!Step
  <1>3. \A S, d : Sort!sortTaskGraph(S, d) => SortProofs!sortTaskGraph(S, d)
    BY DEF Sort!sortTaskGraph, SortProofs!sortTaskGraph, Sort!searchVars, SortProofs!searchVars,
       Sort!Cardinality, SortProofs!Cardinality
  <1>4. Sort!SortAssumption => SortProofs!SortAssumption
    BY DEF SortProofs!SortAssumption, Sort!SortAssumption, Sort!IsFiniteSet, SortProofs!IsFiniteSet
  <1> QED
    BY <1>1, <1>2, <1>3, <1>4

LEMMA JointInit == InitBoth => JointInv
  <1> SUFFICES ASSUME InitBoth PROVE JointInv
    OBVIOUS
  <1>1. IInv
    BY InitIInv DEF InitBoth
  <1>2. SortProofs!IInv
    BY OrderedTasks, SameSort, SortProofs!InitIInv DEF InitBoth
  <1>3. Handover
    BY DEF InitBoth, Sort!Init, Handover
  <1> QED
    BY <1>1, <1>2, <1>3 DEF JointInv

\* What is handed to the sort is a graph over the tasks.
LEMMA GraphTyped ==
  TypeOK => /\ included \in SUBSET Task
            /\ [t \in Task |-> IF t \in included THEN Dependencies(t) ELSE {}] \in [Task -> SUBSET Ref]
  BY InputTyped DEF TypeOK, Dependencies

\* The sort keeps its invariant in every step of the two.
LEMMA SortStep == JointInv /\ NextBoth => SortProofs!IInv'
  <1> SUFFICES ASSUME JointInv, NextBoth PROVE SortProofs!IInv'
    OBVIOUS
  <1> USE OrderedTasks, SameSort DEF JointInv
  <1>1. CASE UNCHANGED sortState
    <2>1. UNCHANGED SortProofs!vars
      BY <1>1 DEF sortState, SortProofs!vars
    <2> QED
      BY <2>1, SortProofs!NextIInv
  <1>2. CASE ToRunnableTaskSet
    <2> DEFINE d == [t \in Task |-> IF t \in included THEN Dependencies(t) ELSE {}]
    <2>1. included \in SUBSET Task /\ d \in [Task -> SUBSET Ref]
      BY GraphTyped DEF IInv
    <2>2. SortProofs!sortTaskGraph(included, d)
      BY <1>2 DEF ToRunnableTaskSet
    <2> QED
      BY <2>1, <2>2, SortProofs!CallIInv
  <1>3. CASE Sort!Step
    BY <1>3, SortProofs!NextIInv DEF SortProofs!Next
  <1> QED
    BY <1>1, <1>2, <1>3 DEF NextBoth, Ended, allVars

LEMMA JointStep == JointInv /\ [NextBoth]_allVars => JointInv'
  <1> SUFFICES ASSUME JointInv, [NextBoth]_allVars PROVE JointInv'
    OBVIOUS
  <1>1. IInv'
    <2>1. [Next]_vars
      BY DEF NextBoth, ToRunnableTaskSet, Ended, allVars, Next
    <2> QED
      BY <2>1, NextIInv DEF JointInv
  <1>2. SortProofs!IInv'
    <2>1. CASE NextBoth
      BY <2>1, SortStep
    <2>2. CASE UNCHANGED allVars
      <3>1. UNCHANGED SortProofs!vars
        BY <2>2 DEF allVars, sortState, SortProofs!vars
      <3> QED
        BY <3>1, OrderedTasks, SameSort, SortProofs!NextIInv DEF JointInv
    <2> QED
      BY <2>1, <2>2
  <1>3. Handover'
    <2>1. CASE Resolve /\ UNCHANGED sortState
      <3>1. result = "none"
        BY <2>1 DEF Resolve, RequiredTaskLabelRule, TaskDependencyRule, SubsequentTaskRefsRule,
           Resolved, Exhausted, NextPass, Return, At
      <3>2. outcome' = "idle"
        BY <2>1, <3>1 DEF JointInv, Handover, sortState
      <3> QED
        BY <3>2 DEF Handover
    <2>2. CASE ToRunnableTaskSet
      BY <2>2 DEF ToRunnableTaskSet, Sort!sortTaskGraph, Handover, vars, Dependencies
    <2>3. CASE Sort!Step /\ UNCHANGED vars
      <3>1. /\ outcome # "idle" /\ tasks' = tasks /\ deps' = deps
            /\ outcome' = "missing" => report' # {}
        BY <2>3 DEF Sort!Step, Sort!TakeReady, Sort!FinishSort, Sort!ReportMissing,
           Sort!ReportCycle, Sort!NextStart, Sort!Dequeue, Sort!Look, Sort!MeetVisited,
           Sort!VisitNew, Sort!Stuck, Sort!setVars
      <3> QED
        BY <2>3, <3>1 DEF JointInv, Handover, vars, Dependencies
    <2>4. CASE UNCHANGED allVars
      BY <2>4 DEF JointInv, Handover, allVars, vars, sortState, Dependencies
    <2> QED
      BY <2>1, <2>2, <2>3, <2>4 DEF NextBoth, Ended
  <1> QED
    BY <1>1, <1>2, <1>3 DEF JointInv

\* What the sort is given has a task for each dependency.
LEMMA SortedGraph ==
  ASSUME JointInv, outcome # "idle"
  PROVE  /\ result = "resolved" /\ tasks = included /\ included \subseteq Task
         /\ \A t \in tasks : deps[t] = Dependencies(t) /\ deps[t] \subseteq tasks
         /\ Roots \subseteq tasks
         /\ \A t \in tasks : \A s \in input.subsequent[t] : s \in tasks /\ t \in deps[s]
  <1>1. result = "resolved" /\ tasks = included /\ included \subseteq Task
    BY DEF JointInv, Handover, IInv, TypeOK
  <1>2. \A t \in tasks : deps[t] = Dependencies(t)
    BY <1>1 DEF JointInv, Handover
  <1>3. /\ rule = "end" /\ stabled
    BY <1>1 DEF JointInv, IInv, ResultInv
  <1>4. /\ Roots \subseteq tasks
        /\ \A t \in tasks : Dependencies(t) \subseteq tasks
        /\ \A t \in tasks : \A s \in input.subsequent[t] : s \in tasks /\ t \in Dependencies(s)
    BY <1>1, <1>3 DEF JointInv, IInv, CheckedSoFar, Roots
  <1> QED
    BY <1>1, <1>2, <1>4

LEMMA NoneMissing == JointInv => NeverMissing
  <1> SUFFICES ASSUME JointInv, outcome = "missing" PROVE FALSE
    BY DEF NeverMissing
  <1>1. \A t \in tasks : deps[t] \subseteq tasks
    BY SortedGraph
  <1>2. report = (UNION {deps[t] : t \in tasks}) \ tasks
    BY DEF JointInv, SortProofs!IInv, SortProofs!MissingIsExact
  <1>3. report = {}
    BY <1>1, <1>2
  <1> QED
    BY <1>3 DEF JointInv, Handover

LEMMA CompleteWhenRunnable == JointInv => RunnableIsComplete
  <1> SUFFICES ASSUME JointInv, outcome = "runnable" PROVE RunnableIsComplete
    BY DEF RunnableIsComplete
  <1> DEFINE before(i) == {sorted[j] : j \in 1..(i - 1)}
             placed == {sorted[i] : i \in 1..Len(sorted)}
  <1>1. placed = tasks
    BY DEF JointInv, SortProofs!IInv, SortProofs!Division, SortProofs!OutcomeInv,
       SortProofs!SortedTasks
  <1>2. \A i \in 1..Len(sorted) : deps[sorted[i]] \subseteq before(i)
    BY DEF JointInv, SortProofs!IInv, SortProofs!Ordered
  <1>3. Roots \subseteq placed
    BY <1>1, SortedGraph
  <1>4. ASSUME NEW i \in 1..Len(sorted)
        PROVE  /\ input.deps[sorted[i]] \subseteq before(i)
               /\ {t \in placed : sorted[i] \in input.subsequent[t]} \subseteq before(i)
    <2>1. sorted[i] \in tasks
      BY <1>1
    <2>2. input.deps[sorted[i]] \subseteq deps[sorted[i]]
      BY <2>1, SortedGraph DEF Dependencies
    <2>3. \A t \in placed : sorted[i] \in input.subsequent[t] => t \in deps[sorted[i]]
      BY <1>1, SortedGraph
    <2> QED
      BY <1>2, <2>2, <2>3
  <1> QED
    BY <1>3, <1>4 DEF RunnableIsComplete, Roots

\* The cycle of the sorted graph is one of the declarations: the orders that were
\* imposed were asked for.
LEMMA DeclaredWhenCyclic == JointInv => CycleIsDeclared
  <1> SUFFICES ASSUME JointInv, outcome = "cyclic" PROVE CycleIsDeclared
    BY DEF CycleIsDeclared
  <1>1. SortProofs!CyclesAreTold
    BY OrderedTasks, SameSort, SortProofs!CyclesTold DEF JointInv
  <1>2. PICK S \in SUBSET tasks : S # {} /\ \A t \in S : deps[t] \cap S # {}
    BY <1>1 DEF SortProofs!CyclesAreTold, SortProofs!HasCycle
  <1>3. S \subseteq Needed
    BY SortedGraph, NeededIsLeast DEF JointInv, IInv, OnlyNeeded
  <1>4. ASSUME NEW t \in S PROVE \E d \in S : d \in input.deps[t] \/ t \in input.subsequent[d]
    <2>1. PICK d \in S : d \in deps[t]
      BY <1>2
    <2>2. t \in Task /\ deps[t] = input.deps[t] \cup extra[t]
      BY SortedGraph DEF Dependencies
    <2>3. d \in extra[t] => t \in input.subsequent[d]
      BY <2>2, Members DEF JointInv, IInv, OnlyNeeded
    <2> QED
      BY <2>1, <2>2, <2>3
  <1> QED
    BY <1>2, <1>3, <1>4 DEF CycleIsDeclared

\* What ResolveTaskGraph gives its caller is right: no task is missing in the sort,
\* a runnable set has what was asked for and keeps every declared order, and a
\* cycle is reported only when the declarations have one.
THEOREM ResolvedGraphIsSorted == SpecBoth => []ResolutionIsRight
  <1>1. SpecBoth => []JointInv
    BY JointInit, JointStep, PTL DEF SpecBoth
  <1>2. JointInv => ResolutionIsRight
    BY NoneMissing, CompleteWhenRunnable, DeclaredWhenCyclic DEF ResolutionIsRight
  <1> QED
    BY <1>1, <1>2, PTL

=============================================================================
