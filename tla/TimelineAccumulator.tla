-------------------------- MODULE TimelineAccumulator -------------------------
(***************************************************************************)
(* The timelines of a KHI file (pkg/model/khifile/v6): workers of the      *)
(* timeline mappers add the items of their change sets to the builders of  *)
(* timeline paths, from which they are streamed to the file when enough of *)
(* them are pending; the hierarchy of the paths is written at the end and  *)
(* tells which items belong to which path.  A path may be an alias of      *)
(* another.                                                                *)
(*                                                                         *)
(* Events and revisions are both items here, and a path is its name.  A    *)
(* change set has at most one alias.  A log for which a mapper fails, or a *)
(* cancellation, stops the workers as an error of a flush does.            *)
(***************************************************************************)
EXTENDS Integers, Sequences, FiniteSets

CONSTANTS
  Worker,      \* the goroutines of the mappers
  Path,
  ChangeSets,  \* of a worker: its change sets, each with an alias and items
  Threshold,   \* flushThreshold
  Serializer,
  None

VARIABLES
  builderOf,     \* TimelineRegistry.builders: 0 where there is none
  pending,       \* of a builder: the items it has in memory
  ever,          \* the builders that ever had an item
  pendingCount,  \* the items announced since the last flush
  flushLock,     \* flushMu
  toVisit,       \* of a flush: the builders that were there when it began
  visited,       \* and those it extracted the items of
  extracted,     \* of a flush: what it will write
  flushed,       \* the items in the file, with the number they are under
  twice,         \* the items written more than once
  hierarchy,     \* the numbers that the paths of the file refer to, 0 for none
  done,          \* of a worker: the change sets it flushed
  at,            \* of a worker: what it does next
  added,         \* of a worker: the items of the change set that it added
  builder,       \* of a worker: the builder it has made or been given
  hasErr,
  result         \* of TimelineAccumulator.Flush

vars == <<builderOf, pending, ever, pendingCount, flushLock, toVisit, visited, extracted,
          flushed, twice, hierarchy, done, at, added, builder, hasErr, result>>

Init ==
  /\ builderOf = [p \in Path |-> 0]
  /\ pending = <<>> /\ ever = {}
  /\ pendingCount = 0
  /\ flushLock = None /\ toVisit = {} /\ visited = {} /\ extracted = {}
  /\ flushed = {} /\ twice = {}
  /\ hierarchy = [p \in Path |-> 0]
  /\ done = [w \in Worker |-> 0]
  /\ at = [w \in Worker \cup {Serializer} |-> "idle"]
  /\ added = [w \in Worker |-> 0]
  /\ builder = [w \in Worker |-> 0]
  /\ hasErr = FALSE
  /\ result = "none"

-----------------------------------------------------------------------------
(* A change set                                                            *)

ChangeSet(w) == ChangeSets[w][done[w] + 1]

Become(w, s) == at' = [at EXCEPT ![w] = s]

registryVars == <<builderOf, pending, ever>>
flushVars == <<pendingCount, flushLock, toVisit, visited, extracted, flushed, twice,
               hierarchy, result>>

\* The alias of a change set comes first; a path is not made an alias of itself.
Begin(w) ==
  /\ at[w] = "idle" /\ done[w] < Len(ChangeSets[w])
  /\ LET alias == ChangeSet(w).alias
     IN  Become(w, IF alias = <<>> \/ alias[1] = alias[2] THEN "item" ELSE "target")
  /\ UNCHANGED <<registryVars, flushVars, done, added, builder, hasErr>>

\* The path whose builder the worker needs.
Wanted(w) ==
  IF at[w] \in {"target", "makeTarget"} THEN ChangeSet(w).alias[2]
  ELSE ChangeSet(w).items[added[w] + 1]

\* What a worker does when it has the builder.
Then(w) == IF at[w] \in {"target", "makeTarget"} THEN "alias" ELSE "add"

HasNext(w) == added[w] < Len(ChangeSet(w).items)

\* GetBuilder: the builder that is there, or else a new one.
LoadBuilder(w) ==
  /\ at[w] = "target" \/ (at[w] = "item" /\ HasNext(w))
  /\ LET b == builderOf[Wanted(w)]
     IN  IF b # 0
         THEN /\ builder' = [builder EXCEPT ![w] = b]
              /\ Become(w, Then(w))
              /\ UNCHANGED pending
         ELSE /\ pending' = Append(pending, {})
              /\ builder' = [builder EXCEPT ![w] = Len(pending) + 1]
              /\ Become(w, IF at[w] = "target" THEN "makeTarget" ELSE "makeItem")
  /\ UNCHANGED <<builderOf, ever, flushVars, done, added, hasErr>>

\* Mutant of StoreBuilder: the new builder is stored without looking again.
StoreBuilderAlways(w) ==
  /\ at[w] \in {"makeTarget", "makeItem"}
  /\ builderOf' = [builderOf EXCEPT ![Wanted(w)] = builder[w]]
  /\ Become(w, Then(w))
  /\ UNCHANGED <<pending, ever, flushVars, done, added, builder, hasErr>>

\* LoadOrStore: whoever was first is used by both.
StoreBuilder(w) ==
  /\ at[w] \in {"makeTarget", "makeItem"}
  /\ LET actual == builderOf[Wanted(w)]
     IN  IF actual # 0
         THEN builder' = [builder EXCEPT ![w] = actual] /\ UNCHANGED builderOf
         ELSE builderOf' = [builderOf EXCEPT ![Wanted(w)] = builder[w]] /\ UNCHANGED builder
  /\ Become(w, Then(w))
  /\ UNCHANGED <<pending, ever, flushVars, done, added, hasErr>>

EndOf(w) ==
  /\ Become(w, "idle")
  /\ done' = [done EXCEPT ![w] = @ + 1]
  /\ added' = [added EXCEPT ![w] = 0]

\* SetAlias fails when the path has another builder already.
SetAlias(w) ==
  /\ at[w] = "alias"
  /\ LET path == ChangeSet(w).alias[1]
     IN  \/ /\ builderOf[path] \in {0, builder[w]}
            /\ builderOf' = [builderOf EXCEPT ![path] = builder[w]]
            /\ Become(w, "item")
            /\ UNCHANGED <<hasErr, done, added>>
         \/ /\ builderOf[path] \notin {0, builder[w]}
            /\ hasErr' = TRUE
            /\ EndOf(w)
            /\ UNCHANGED builderOf
  /\ UNCHANGED <<pending, ever, flushVars, builder>>

\* Item k of the change set i of the worker.
ItemOf(w, i, k) == [worker |-> w, set |-> i, item |-> k]

\* AddEvent and AddRevision.
AddItem(w) ==
  /\ at[w] = "add"
  /\ pending' = [pending EXCEPT ![builder[w]] = @ \cup {ItemOf(w, done[w] + 1, added[w] + 1)}]
  /\ ever' = ever \cup {builder[w]}
  /\ added' = [added EXCEPT ![w] = @ + 1]
  /\ Become(w, "item")
  /\ UNCHANGED <<builderOf, flushVars, done, builder, hasErr>>

\* The end of the change set: its items are announced, and when enough of them are
\* pending this worker flushes.
NotifyItemsAdded(w) ==
  /\ at[w] = "item" /\ ~HasNext(w)
  /\ pendingCount' = pendingCount + added[w]
  /\ IF added[w] > 0 /\ pendingCount' >= Threshold
     THEN Become(w, "flush") /\ UNCHANGED <<done, added>>
     ELSE EndOf(w)
  /\ UNCHANGED <<registryVars, flushLock, toVisit, visited, extracted, flushed, twice,
                 hierarchy, result, builder, hasErr>>

GiveUp(w) ==
  /\ at[w] = "idle" /\ hasErr /\ done[w] < Len(ChangeSets[w])
  /\ done' = [done EXCEPT ![w] = Len(ChangeSets[w])]
  /\ UNCHANGED <<registryVars, flushVars, at, added, builder, hasErr>>

-----------------------------------------------------------------------------
(* FlushPendingItems                                                       *)

Builders == {builderOf[p] : p \in Path} \ {0}

\* The count starts again before anything is extracted.
BeginFlush(who) ==
  /\ at[who] = "flush" /\ flushLock = None
  /\ flushLock' = who
  /\ pendingCount' = 0
  /\ toVisit' = Builders /\ visited' = {}
  /\ Become(who, "flushing")
  /\ UNCHANGED <<registryVars, extracted, flushed, twice, hierarchy, result, done, added,
                 builder, hasErr>>

\* The registry is ranged over while others go on: builders that were there when it
\* began are visited, later ones may be.
Extract(who) ==
  /\ at[who] = "flushing"
  /\ \E b \in Builders \ visited :
       /\ visited' = visited \cup {b}
       /\ extracted' = extracted \cup {[id |-> b, item |-> i] : i \in pending[b]}
       /\ pending' = [pending EXCEPT ![b] = {}]
  /\ UNCHANGED <<builderOf, ever, pendingCount, flushLock, toVisit, flushed, twice,
                 hierarchy, result, done, at, added, builder, hasErr>>

\* Mutant of EndFlush: the count starts again when the items are written.
EndFlushAndCount(who, ok) ==
  /\ at[who] = "flushing" /\ toVisit \subseteq visited
  /\ flushLock' = None /\ pendingCount' = 0
  /\ toVisit' = {} /\ visited' = {} /\ extracted' = {}
  /\ IF ok THEN /\ flushed' = flushed \cup extracted
                /\ twice' = twice \cup (flushed \cap extracted)
     ELSE UNCHANGED <<flushed, twice>>
  /\ UNCHANGED <<registryVars, hierarchy, builder>>

\* What was extracted is written, or lost when that fails.
EndFlush(who, ok) ==
  /\ at[who] = "flushing" /\ toVisit \subseteq visited
  /\ flushLock' = None
  /\ toVisit' = {} /\ visited' = {} /\ extracted' = {}
  /\ IF ok THEN /\ flushed' = flushed \cup extracted
                /\ twice' = twice \cup (flushed \cap extracted)
     ELSE UNCHANGED <<flushed, twice>>
  /\ UNCHANGED <<registryVars, pendingCount, hierarchy, builder>>

WorkerFlushes(w) ==
  \/ BeginFlush(w)
  \/ Extract(w)
  \/ \E ok \in BOOLEAN :
       /\ EndFlush(w, ok) /\ EndOf(w)
       /\ hasErr' = (hasErr \/ ~ok)
       /\ UNCHANGED result

Work(w) ==
  \/ Begin(w) \/ LoadBuilder(w) \/ StoreBuilder(w) \/ SetAlias(w) \/ AddItem(w)
  \/ NotifyItemsAdded(w) \/ GiveUp(w) \/ WorkerFlushes(w)

-----------------------------------------------------------------------------
(* TimelineAccumulator.Flush, called by the serializer after all mappers   *)

AllDone == \A w \in Worker : at[w] = "idle" /\ done[w] = Len(ChangeSets[w])

BeginBuild ==
  /\ at[Serializer] = "idle" /\ AllDone /\ ~hasErr /\ result = "none"
  /\ Become(Serializer, "flush")
  /\ UNCHANGED <<registryVars, flushVars, done, added, builder, hasErr>>

SerializerFlushes ==
  \/ BeginFlush(Serializer)
  \/ Extract(Serializer)
  \/ \E ok \in BOOLEAN :
       /\ EndFlush(Serializer, ok)
       /\ Become(Serializer, IF ok THEN "hierarchy" ELSE "end")
       /\ result' = IF ok THEN result ELSE "failed"
       /\ UNCHANGED <<done, added, hasErr>>

\* extractTimelines: a path refers to the items of its builder if there ever were any.
WriteHierarchy ==
  /\ at[Serializer] = "hierarchy"
  /\ Become(Serializer, "end")
  /\ \/ /\ hierarchy' = [p \in Path |-> IF builderOf[p] \in ever THEN builderOf[p] ELSE 0]
        /\ result' = "ok"
     \/ result' = "failed" /\ UNCHANGED hierarchy
  /\ UNCHANGED <<registryVars, pendingCount, flushLock, toVisit, visited, extracted,
                 flushed, twice, done, added, builder, hasErr>>

Build == BeginBuild \/ SerializerFlushes \/ WriteHierarchy

Next == Build \/ \E w \in Worker : Work(w)

Fairness == WF_vars(Build) /\ \A w \in Worker : WF_vars(Work(w))

Spec == Init /\ [][Next]_vars /\ Fairness

-----------------------------------------------------------------------------
(***************************************************************************)
(* Properties                                                              *)
(***************************************************************************)

ItemsOf(w) ==
  UNION {{ItemOf(w, i, k) : k \in DOMAIN ChangeSets[w][i].items} : i \in DOMAIN ChangeSets[w]}
AllItems == UNION {ItemsOf(w) : w \in Worker}

PathOf(i) == ChangeSets[i.worker][i.set].items[i.item]

\* A timeline file that was completed has every item exactly once, under the number
\* that its path refers to, whoever streamed it and when.
EveryItemInItsTimeline ==
  result = "ok" =>
    /\ twice = {}
    /\ flushed =
         {[id |-> hierarchy[PathOf(i)], item |-> i] : i \in AllItems}

\* After every alias was accepted, a path and its alias show the same items.
AliasesShare ==
  result = "ok" =>
    \A w \in Worker : \A i \in DOMAIN ChangeSets[w] :
      LET alias == ChangeSets[w][i].alias
      IN  alias # <<>> => hierarchy[alias[1]] = hierarchy[alias[2]]

\* The items that were announced and are still in memory: those of change sets that
\* their worker is done with, or is about to flush for.
Announced ==
  {i \in UNION {pending[b] : b \in DOMAIN pending} :
     i.set <= done[i.worker] \/ at[i.worker] \in {"flush", "flushing"}}

\* Streaming bounds what is kept: as long as no one is flushing or about to, fewer
\* announced items than the threshold are in memory, whatever was added while the
\* last flush went on.
BacklogBounded ==
  (\A u \in Worker \cup {Serializer} : at[u] \notin {"flush", "flushing"}) =>
    Cardinality(Announced) <= pendingCount /\ pendingCount < Threshold

TimelinesSafe == EveryItemInItsTimeline /\ AliasesShare /\ BacklogBounded

\* Every mapper gets its items in or fails, and then the timelines are completed.
TimelinesEnd == <>(result # "none" \/ (hasErr /\ AllDone))

=============================================================================
