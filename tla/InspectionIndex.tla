--------------------------- MODULE InspectionIndex --------------------------
(***************************************************************************)
(* The text search index of one inspection: InspectionIndexManager         *)
(* (pkg/server/workbench/index_manager.go), the workbenches that wait for  *)
(* it (BuildAsyncIndexesWithProgress, index.go) and the handler that has   *)
(* just imported the inspection (api/v1/import_inspection.go).             *)
(*                                                                         *)
(* Inspections share nothing but the manager's mutex.  The content of the  *)
(* index is that of the inspection, whoever builds it; what matters is     *)
(* where there is one.  Left out: events that only report progress, so     *)
(* that no channel is ever full (the code makes one a second for sixteen   *)
(* places), and unreadable or outdated .trigram files, which no run of the *)
(* server leaves behind.                                                   *)
(***************************************************************************)
EXTENDS Naturals, Sequences

CONSTANT Workbench

VARIABLES
  mem,       \* memoryCache has the index
  disk,      \* the .trigram file is there
  tmp,       \* the .trigram.tmp file is there
  event,     \* latestEvent
  load,      \* the flight of loadGroup: what it found
  build,     \* where the flight of buildGroup is
  pending,   \* goroutines of StartAsyncIndexing that have not called buildGroup.Do
  asks,      \* asks[p]: where GetTrigramIndex, called by p, is
  workbench, \* workbench[w]: where its background indexing is
  initial,   \* initial[w]: the event SubscribeIndexProgress determined for w
  inbox,     \* inbox[w]: the channel of w, while it is subscribed
  importer,  \* where CompleteImportInspection is, "none" if not imported
  closed,    \* the workbenches that were closed
  built      \* history: builds that succeeded

indexVars == <<mem, disk, tmp>>
vars == <<indexVars, event, load, build, pending, asks, workbench, initial, inbox,
          importer, closed, built>>

Caller == Workbench \cup {"importer", "builder"}

Terminal == {"Ready", "Failed"}
State == {"NotStarted", "Building"} \cup Terminal

TypeOK ==
  /\ mem \in BOOLEAN /\ disk \in BOOLEAN /\ tmp \in BOOLEAN
  /\ event \in State
  /\ load \in {"idle", "cached", "read", "absent"}
  /\ build \in {"idle", "get", "announce", "open", "read", "save", "rename", "store",
                "ready", "returning"}
  /\ pending \in Nat
  /\ asks \in [Caller -> {"no", "loading", "hit", "miss"}]
  /\ workbench \in [Workbench -> {"start", "subscribe", "emit", "check", "starting", "waiting",
                                  "final", "indexed", "unindexed", "failed"}]
  /\ initial \in [Workbench -> State]
  /\ inbox \in [Workbench -> Seq(Terminal)]
  /\ importer \in {"none", "invalidate", "remove", "removeTmp", "start", "done"}
  /\ closed \subseteq Workbench
  /\ built \in Nat

\* The inspection has been run, or registered by its import.
Init ==
  /\ mem = FALSE /\ disk = FALSE /\ tmp = FALSE
  /\ event = "NotStarted"
  /\ load = "idle" /\ build = "idle" /\ pending = 0
  /\ asks = [p \in Caller |-> "no"]
  /\ workbench = [w \in Workbench |-> "start"]
  /\ initial = [w \in Workbench |-> "NotStarted"]
  /\ inbox = [w \in Workbench |-> <<>>]
  /\ importer \in {"none", "invalidate"}
  /\ closed = {}
  /\ built = 0

Subscribed(w) == workbench[w] \in {"emit", "check", "starting", "waiting"}

\* What w has in its channel after e was sent.
Sent(w, e) == IF e \in Terminal THEN Append(inbox[w], e) ELSE inbox[w]

Broadcast(e) ==
  /\ event' = e
  /\ inbox' = [w \in Workbench |-> IF Subscribed(w) THEN Sent(w, e) ELSE inbox[w]]

NoBroadcast == UNCHANGED <<event, inbox>>

Status == IF mem THEN "Ready" ELSE event

-----------------------------------------------------------------------------
(* GetTrigramIndex: the memory cache, then one flight that reads the disk   *)
(* for all who ask meanwhile.                                               *)

Wants(p) ==
  \/ p \in Workbench /\ workbench[p] \in {"start", "starting", "final"}
  \/ p = "importer" /\ importer = "start"
  \/ p = "builder" /\ build = "get"

Ask(p) ==
  /\ Wants(p) /\ asks[p] = "no"
  /\ asks' = [asks EXCEPT ![p] = IF mem THEN "hit" ELSE "loading"]
  /\ UNCHANGED <<indexVars, event, load, build, pending, workbench, initial, inbox, importer, closed, built>>

LoadBegins ==
  /\ load = "idle" /\ \E p \in Caller : asks[p] = "loading"
  /\ load' = IF mem THEN "cached" ELSE IF disk THEN "read" ELSE "absent"
  /\ UNCHANGED <<indexVars, event, build, pending, asks, workbench, initial, inbox, importer, closed, built>>

\* What was read from the disk is stored, with its event; nobody is told.
LoadEnds ==
  /\ load # "idle"
  /\ load' = "idle"
  /\ asks' = [p \in Caller |-> IF asks[p] # "loading" THEN asks[p]
                               ELSE IF load = "absent" THEN "miss" ELSE "hit"]
  /\ mem' = (mem \/ load = "read")
  /\ event' = IF load = "read" THEN "Ready" ELSE event
  /\ UNCHANGED <<disk, tmp, build, pending, workbench, initial, inbox, importer, closed, built>>

\* p goes on with what GetTrigramIndex returned.
Got(p, answer) == asks[p] = answer /\ asks' = [asks EXCEPT ![p] = "no"]

\* StartAsyncIndexing, once it knows whether there is an index.
StartAsyncIndexing(p) ==
  \/ Got(p, "hit") /\ Broadcast("Ready") /\ UNCHANGED pending
  \/ Got(p, "miss") /\ pending' = pending + 1 /\ NoBroadcast

-----------------------------------------------------------------------------
(* The background indexing of a workbench.                                  *)

Step(w, from, to) ==
  /\ workbench[w] = from
  /\ workbench' = [workbench EXCEPT ![w] = to]
  /\ UNCHANGED <<indexVars, load, build, importer, closed, built>>

FindIndex(w) ==
  /\ \/ Step(w, "start", "indexed") /\ Got(w, "hit")
     \/ Step(w, "start", "subscribe") /\ Got(w, "miss")
  /\ NoBroadcast /\ UNCHANGED <<pending, initial>>

\* Under mu: the event the new subscriber is told first, and the subscription.
SubscribeIndexProgress(w) ==
  /\ Step(w, "subscribe", "emit")
  /\ initial' = [initial EXCEPT ![w] = Status]
  /\ NoBroadcast /\ UNCHANGED <<pending, asks>>

\* After it; a broadcast may have come first.
EmitInitial(w) ==
  /\ Step(w, "emit", "check")
  /\ inbox' = [inbox EXCEPT ![w] = Sent(w, initial[w])]
  /\ UNCHANGED <<event, pending, asks, initial>>

CheckStatus(w) ==
  /\ \/ Status = "NotStarted" /\ Step(w, "check", "starting")
     \/ Status # "NotStarted" /\ Step(w, "check", "waiting")
  /\ NoBroadcast /\ UNCHANGED <<pending, asks, initial>>

StartIndexing(w) ==
  /\ Step(w, "starting", "waiting")
  /\ StartAsyncIndexing(w)
  /\ UNCHANGED initial

Receive(w) ==
  /\ inbox[w] # <<>>
  /\ inbox' = [inbox EXCEPT ![w] = <<>>]
  /\ Step(w, "waiting", IF Head(inbox[w]) = "Ready" THEN "final" ELSE "failed")
  /\ UNCHANGED <<event, pending, asks, initial>>

\* Workbench.Close cancels the context, which closes the channel.
CloseWorkbench(w) ==
  /\ workbench[w] = "waiting"
  /\ workbench' = [workbench EXCEPT ![w] = "final"]
  /\ inbox' = [inbox EXCEPT ![w] = <<>>]
  /\ closed' = closed \cup {w}
  /\ UNCHANGED <<indexVars, event, load, build, pending, asks, initial, importer, built>>

\* The workbench is ready, with an index or without.
Finish(w) ==
  /\ \/ Step(w, "final", "indexed") /\ Got(w, "hit")
     \/ Step(w, "final", "unindexed") /\ Got(w, "miss")
  /\ NoBroadcast /\ UNCHANGED <<pending, initial>>

-----------------------------------------------------------------------------
(* The handler that completes an import: InvalidateInspectionIndex, then    *)
(* StartAsyncIndexing.  The inspection is registered by now.                *)

InvalidateMemory ==
  /\ importer = "invalidate" /\ importer' = "remove"
  /\ mem' = FALSE /\ event' = "NotStarted"
  /\ UNCHANGED <<disk, tmp, load, build, pending, asks, workbench, initial, inbox, closed, built>>

RemoveIndexFile ==
  /\ importer = "remove" /\ importer' = "removeTmp"
  /\ disk' = FALSE
  /\ UNCHANGED <<mem, tmp, event, load, build, pending, asks, workbench, initial, inbox, closed, built>>

RemoveTmpFile ==
  /\ importer = "removeTmp" /\ importer' = "start"
  /\ tmp' = FALSE
  /\ UNCHANGED <<mem, disk, event, load, build, pending, asks, workbench, initial, inbox, closed, built>>

InvalidateDisk == RemoveIndexFile \/ RemoveTmpFile

StartAfterImport ==
  /\ importer = "start" /\ importer' = "done"
  /\ StartAsyncIndexing("importer")
  /\ UNCHANGED <<indexVars, load, build, workbench, initial, closed, built>>

-----------------------------------------------------------------------------
(* The goroutines of StartAsyncIndexing; buildGroup lets one of them build. *)

JoinBuild ==
  /\ pending > 0 /\ pending' = pending - 1
  /\ build' = IF build = "idle" THEN "get" ELSE build
  /\ UNCHANGED <<indexVars, event, load, asks, workbench, initial, inbox, importer, closed, built>>

BuildStep(from, to) ==
  /\ build = from /\ build' = to
  /\ UNCHANGED <<load, pending, workbench, initial, importer, closed>>

\* Mutant of CheckAgain: the index is not looked for again.
CheckNever ==
  /\ \/ BuildStep("get", "announce") /\ Got("builder", "hit") /\ NoBroadcast
     \/ BuildStep("get", "announce") /\ Got("builder", "miss") /\ NoBroadcast
  /\ UNCHANGED <<indexVars, built>>

\* Check again under singleflight.
CheckAgain ==
  /\ \/ BuildStep("get", "returning") /\ Got("builder", "hit") /\ Broadcast("Ready")
     \/ BuildStep("get", "announce") /\ Got("builder", "miss") /\ NoBroadcast
  /\ UNCHANGED <<indexVars, built>>

Announce ==
  /\ BuildStep("announce", "open") /\ Broadcast("Building")
  /\ UNCHANGED <<indexVars, asks, built>>

OpenReader ==
  /\ \/ BuildStep("open", "read") /\ NoBroadcast
     \/ BuildStep("open", "returning") /\ Broadcast("Failed")
  /\ UNCHANGED <<indexVars, asks, built>>

BuildIndex ==
  /\ \/ BuildStep("read", "save") /\ NoBroadcast /\ built' = built + 1
     \/ BuildStep("read", "returning") /\ Broadcast("Failed") /\ UNCHANGED built
  /\ UNCHANGED <<indexVars, asks>>

\* An error while saving is only logged.
SaveTmp ==
  /\ \/ BuildStep("save", "rename") /\ tmp' = TRUE
     \/ BuildStep("save", "store") /\ UNCHANGED tmp
  /\ NoBroadcast /\ UNCHANGED <<mem, disk, asks, built>>

RenameTmp ==
  /\ BuildStep("rename", "store")
  /\ disk' = (disk \/ tmp) /\ tmp' = FALSE
  /\ NoBroadcast /\ UNCHANGED <<mem, asks, built>>

Store ==
  /\ BuildStep("store", "ready") /\ mem' = TRUE
  /\ NoBroadcast /\ UNCHANGED <<disk, tmp, asks, built>>

AnnounceReady ==
  /\ BuildStep("ready", "returning") /\ Broadcast("Ready")
  /\ UNCHANGED <<indexVars, asks, built>>

BuildReturns ==
  /\ BuildStep("returning", "idle")
  /\ NoBroadcast /\ UNCHANGED <<indexVars, asks, built>>

Background(w) ==
  \/ FindIndex(w) \/ SubscribeIndexProgress(w) \/ EmitInitial(w) \/ CheckStatus(w)
  \/ StartIndexing(w) \/ Receive(w) \/ Finish(w)

Builder ==
  \/ JoinBuild \/ CheckAgain \/ Announce \/ OpenReader \/ BuildIndex \/ SaveTmp
  \/ RenameTmp \/ Store \/ AnnounceReady \/ BuildReturns

Import == InvalidateMemory \/ InvalidateDisk \/ StartAfterImport

Next ==
  \/ \E p \in Caller : Ask(p)
  \/ LoadBegins \/ LoadEnds
  \/ \E w \in Workbench : Background(w) \/ CloseWorkbench(w)
  \/ Import \/ Builder

Spec == Init /\ [][Next]_vars

\* Every goroutine runs on; nobody has to close a workbench.
Fairness ==
  /\ \A p \in Caller : WF_vars(Ask(p))
  /\ WF_vars(LoadBegins) /\ WF_vars(LoadEnds)
  /\ \A w \in Workbench : WF_vars(Background(w))
  /\ WF_vars(Import) /\ WF_vars(Builder)

FairSpec == Spec /\ Fairness

-----------------------------------------------------------------------------

\* The dataset is read once for the index, however many workbenches open it at the
\* same time, and once more if the index was invalidated.
BuiltOnce ==
  built <= IF importer \in {"none", "invalidate"} THEN 1 ELSE 2

\* A workbench that is told of a ready index finds it: it goes without only when it
\* was closed, or when the import took the index away.
ReadyIsFound ==
  \A w \in Workbench :
    workbench[w] = "unindexed" => w \in closed \/ importer \notin {"none", "invalidate"}

\* A workbench of an inspection that was run here and waits is answered: the build it
\* waits for was started by it or by another one, and it subscribed before or after the
\* last event of that build.
WaitersAreAnswered ==
  importer = "none" =>
    \A w \in Workbench : <>(workbench[w] \in {"indexed", "unindexed", "failed"})

\* What holds of the index at any time.
InspectionIndexSafe == TypeOK /\ BuiltOnce /\ ReadyIsFound

=============================================================================
