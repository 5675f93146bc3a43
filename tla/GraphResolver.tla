---------------------------- MODULE GraphResolver ----------------------------
(***************************************************************************)
(* GraphResolver.Resolve with the default rules                            *)
(* (pkg/core/task/graphresolver.go): starting from the tasks of the        *)
(* selected features, add the tasks every graph needs, the tasks that      *)
(* others depend on, and the tasks that must follow others, and make the   *)
(* latter depend on those they follow, until a pass changes nothing.       *)
(*                                                                         *)
(* The available tasks of an inspection have one task for each reference,  *)
(* so a task stands for its own reference; the order of the list and the   *)
(* binary search in it are left out.                                       *)
(***************************************************************************)
EXTENDS Integers, FiniteSets

CONSTANTS
  Task,   \* the available tasks
  Ref,    \* the references that tasks may name; not all have a task
  Inputs  \* what the tasks may declare and the caller ask for

InputType ==
  [deps : [Task -> SUBSET Ref],        \* Dependencies()
   subsequent : [Task -> SUBSET Ref],  \* LabelKeySubsequentTaskRefs
   required : SUBSET Task,             \* LabelKeyRequiredTask
   requested : SUBSET Task,            \* the feature tasks given to Resolve
   maxIteration : Nat \ {0}]           \* GraphResolver.MaxIteration

ASSUME ResolverAssumption ==
  /\ Task \subseteq Ref /\ IsFiniteSet(Ref)
  /\ Inputs \subseteq InputType

VARIABLES
  input,      \* one of Inputs, fixed
  included,   \* currentTasks
  extra,      \* AdditionalDependencies of dependencyOverridenUntypedTask
  rule,       \* the rule that is applied next
  stabled,    \* no rule changed anything in this pass
  iteration,  \* the passes begun
  result      \* what Resolve returned

vars == <<input, included, extra, rule, stabled, iteration, result>>

TypeOK ==
  /\ input \in Inputs
  /\ included \subseteq Task
  /\ extra \in [Task -> SUBSET Task]
  /\ rule \in {"required", "dependency", "subsequent", "end"}
  /\ stabled \in BOOLEAN
  /\ iteration \in 1..input.maxIteration
  /\ result \in {"none", "resolved", "unresolved", "exhausted"}

Init ==
  /\ input \in Inputs
  /\ included = input.requested
  /\ extra = [t \in Task |-> {}]
  /\ rule = "required"
  /\ stabled = TRUE
  /\ iteration = 1
  /\ result = "none"

-----------------------------------------------------------------------------

At(r) == rule = r /\ result = "none"

\* Dependencies() of a task as wrapped by the resolver.
Dependencies(t) == input.deps[t] \cup extra[t]

\* The rule named next follows; this one added the tasks in new.
Proceed(next, new, changed) ==
  /\ included' = included \cup new
  /\ stabled' = (stabled /\ ~changed)
  /\ rule' = next
  /\ UNCHANGED <<input, iteration, result>>

Unresolved ==
  /\ result' = "unresolved"
  /\ UNCHANGED <<input, included, extra, rule, stabled, iteration>>

RequiredTaskLabelRule ==
  /\ At("required")
  /\ LET new == input.required \ included
     IN  Proceed("dependency", new, new # {})
  /\ UNCHANGED extra

\* Mutant of MissingReferences: only the tasks that were requested are looked at.
MissingReferencesOfRequested == (UNION {Dependencies(t) : t \in input.requested}) \ included

\* The references that a task of the graph depends on and no task of it has.
MissingReferences == (UNION {Dependencies(t) : t \in included}) \ included

TaskDependencyRule ==
  /\ At("dependency")
  /\ IF MissingReferences \subseteq Task
     THEN /\ Proceed("subsequent", MissingReferences, MissingReferences # {})
          /\ UNCHANGED extra
     ELSE Unresolved

\* Mutant of Requesters: a task that follows is not made to wait for a task that
\* was in the graph before it.
RequestersOfNew(s) == IF s \in included THEN {} ELSE {t \in included : s \in input.subsequent[t]}

\* The tasks of the graph that ask for s to follow them.
Requesters(s) == {t \in included : s \in input.subsequent[t]}

\* Mutant of Followers: the labels of all available tasks are read.
FollowersOfAny == UNION {input.subsequent[t] : t \in Task}

\* The references that tasks of the graph ask to follow them.
Followers == UNION {input.subsequent[t] : t \in included}

WithExtra ==
  [s \in Task |-> IF s \in Followers THEN extra[s] \cup (Requesters(s) \ input.deps[s])
                  ELSE extra[s]]

\* Mutant of OrderChanged: a task that is followed always counts as a change.
OrderChangedAlways == Followers # {}

\* AddDependency added something to some task.
OrderChanged == extra # WithExtra

SubsequentTaskRefsRule ==
  /\ At("subsequent")
  /\ IF Followers \subseteq Task
     THEN /\ extra' = WithExtra
          /\ Proceed("end", Followers, OrderChanged \/ ~(Followers \subseteq included))
     ELSE Unresolved

\* Mutant of LastPass: one pass more than allowed.
LastPassOffByOne == iteration > input.maxIteration

LastPass == iteration = input.maxIteration

Return(r) ==
  /\ At("end")
  /\ result' = r
  /\ UNCHANGED <<input, included, extra, rule, stabled, iteration>>

Resolved == stabled /\ Return("resolved")
Exhausted == ~stabled /\ LastPass /\ Return("exhausted")

NextPass ==
  /\ At("end")
  /\ ~stabled /\ ~LastPass
  /\ iteration' = iteration + 1
  /\ rule' = "required"
  /\ stabled' = TRUE
  /\ UNCHANGED <<input, included, extra, result>>

Resolve ==
  \/ RequiredTaskLabelRule \/ TaskDependencyRule \/ SubsequentTaskRefsRule
  \/ Resolved \/ Exhausted \/ NextPass

Next == Resolve \/ (result # "none" /\ UNCHANGED vars)

Spec == Init /\ [][Next]_vars

-----------------------------------------------------------------------------
(***************************************************************************)
(* Properties                                                              *)
(***************************************************************************)

\* What a resolved graph must have: all that was asked for and required, with all
\* dependencies in it, and each task that follows others present and waiting for
\* all of them, whichever pass brought either in.
ResolvedIsClosed ==
  result = "resolved" =>
    /\ input.requested \cup input.required \subseteq included
    /\ \A t \in included :
         /\ Dependencies(t) \subseteq included
         /\ \A s \in input.subsequent[t] : s \in included /\ t \in Dependencies(s)

Closed(S) == \A t \in S : (input.deps[t] \cup input.subsequent[t]) \cap Task \subseteq S

\* The tasks that the input needs: the smallest closed set that holds its tasks.
Needed ==
  CHOOSE S \in SUBSET Task :
    /\ input.requested \cup input.required \subseteq S
    /\ Closed(S)
    /\ \A R \in SUBSET Task :
         input.requested \cup input.required \subseteq R /\ Closed(R) => S \subseteq R

\* Nothing is in the graph that nobody needs, and no order is imposed that no task
\* of the graph asked for: a spurious dependency could make the graph cyclic.
NothingUnneeded ==
  /\ included \subseteq Needed
  /\ \A s \in Task : extra[s] \subseteq Requesters(s) \ input.deps[s]

\* Resolution fails exactly when a needed task names a reference that no task has,
\* in whichever pass that shows.
FailureIsJustified ==
  /\ result = "unresolved" =>
       \E t \in Needed : ~(input.deps[t] \cup input.subsequent[t] \subseteq Task)
  /\ result = "resolved" =>
       \A t \in Needed : input.deps[t] \cup input.subsequent[t] \subseteq Task

\* Each pass but the last two brings a task in, so no more passes are made than
\* there are available tasks beside the features, and two: the limit of 100 passes
\* is never what ends the resolution when there are at most 98 of them.
PassesBounded ==
  /\ iteration <= Cardinality(Task \ input.requested) + 2
  /\ result = "exhausted" => input.maxIteration < Cardinality(Task \ input.requested) + 2

=============================================================================
