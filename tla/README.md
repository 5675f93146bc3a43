# A verification of KHI's task execution, inspection server and file writer

KHI (Kubernetes History Inspector) is a Go server with an Angular client. A user
creates an *inspection* of a cluster, selects features, fills in a form and runs it:
the server resolves the features to a graph of tasks, executes the graph, and stores
the result as a file that the client opens in a *workbench*.

These modules model the part of KHI whose correctness depends on the order in
which things happen. Everything is translated from the sources; a comment above
each definition says what it stands for, and `PROJECT.json` maps each to its lines.

- [1. The system](#1-the-system)
- [2. The modules](#2-the-modules)
- [3. The runs](#3-the-runs)
- [4. Fairness](#4-fairness)
- [5. The proofs](#5-the-proofs)
- [6. Where the code disagrees with itself](#6-where-the-code-disagrees-with-itself)
- [7. What is not modelled](#7-what-is-not-modelled)
- [8. The plan](#8-the-plan)

## 1. The system

### The core: from features to a finished inspection

| Component | State it keeps | Operations | What is hard | What makes it correct |
|---|---|---|---|---|
| `GraphResolver` (`core/task/graphresolver.go`) | the tasks included so far, the dependencies added to them, whether a pass changed anything | `Resolve`: three rules applied in turn until a pass changes nothing | a follower may bring in tasks that bring in followers; the order of arrival differs from the order to impose; a limit on passes | the result is closed and minimal, every imposed order was asked for, failure has a reason, the limit does not bite |
| `TaskSet` (`core/task/taskset.go`) | a set of tasks, the counters of Kahn's algorithm, the maps of the cycle search | `ToRunnableTaskSet`, `sortTaskGraph`, `findShortestCyclicDependencyPath` | a counter kept beside the map it counts; maps iterated in any order; a panic called unreachable | a topological order; missing tasks and cycles told apart; the reported cycle is one; the search ends |
| `LocalRunner` (`core/task/runner.go`) | a goroutine and a waiter lock per task, result map, counts of remaining dependents, two contexts, the errgroup's error | `Run`, `Wait`, `Result` | every interleaving of goroutines; a failure or a cancellation at any point; results dropped while the graph runs | no result is dropped that is still needed, none leaks, the outcome is truthful, the run ends |
| `InspectionTaskRunner` (`core/inspection/runner.go`, `imported_runner.go`) | `runner`, `cancel`, `metadata`, `runnerLock`, the goroutine of the run, the progress phase | `Run`, `Cancel`, `DryRun`, `Result`, `GetCurrentMetadata`, `Started` | requests race; a step of `Run` fails after the first assignment; readers take no lock | one run per inspection; the phase agrees with the result; only a user cancels; every call returns |
| feature selection (same file) | `enabledFeatures`, `featureTasks` | `SetFeatureList`, `UpdateFeatureMap`, `ResolveTaskGraph` | no lock; a map iterated with an early return | the two fields agree; a failed update changes nothing |
| progress metadata (`core/inspection/metadata/progress_metadata.go`, `taskbase`) | phase, counts, the list of running tasks | `GetOrCreateTaskProgress`, `ResolveTask`, `MarkDone`, `MarkError`, `MarkCancelled` | late tasks report after the end | the counts never exceed the total, the list holds running tasks |

`InspectionTaskRunner.Run` calls `ResolveTaskGraph`, which calls `GraphResolver.Resolve`
and then `TaskSet.ToRunnableTaskSet`; it gives the sorted set to a new `LocalRunner`,
starts that with a context detached from the request, and leaves a goroutine behind
that waits for it, settles the progress and closes the channel on which others wait.

### The file of an inspection

| Component | State it keeps | Operations | What is hard | What makes it correct |
|---|---|---|---|---|
| intern pools (`model/khifile/v6/intern.go`, `struct.go`, `flat_struct.go`) | numbers of strings, field sets and struct bodies, in a client and a server pool; staged items; `flushMu`, the store's `mu` | `InternString`, `InternFieldSet`, `InternStruct`, `Flush` | a number is published before its item is staged; a struct is interned again under the store's lock; chunks are cut at any moment | everything a written item refers to is in the file, once; nobody waits for ever; a failed write surfaces |
| log accumulator, builder (`log_accumulator.go`, `builder.go`, `timeline_path.go`) | staged logs, timelines, the order of the final flushes | `AddLog`, `Build` | the pools are flushed last because logs and timelines still add to them | a file built without an error has every log and timeline |
| timeline accumulator (`timeline_accumulator.go`, `timeline_builder.go`, `timeline_registry.go`) | a builder per path, a count of pending items, `flushMu` | `GetBuilder`, `SetAlias`, `NotifyItemsAdded`, `FlushPendingItems`, `Flush` | the count is reset before the items are extracted from builders that grow meanwhile; builders become aliases | every item is written once, under the number its path refers to; what stays in memory is bounded |

Its users are the *log ingesters* and *timeline mappers*: tasks of the graph above, each a
pool of workers over the logs.

### Around the core

| Component | State it keeps | Operations | What is hard | What makes it correct |
|---|---|---|---|---|
| chunked uploads (`server/chunkedupload`), TTL cleaner (`common/ttlcleaner`), uploader of the web client (`chunked-uploader.ts`) | sessions with received ranges and a temporary file; the client's queue and retries | start, write, finalise, abort, evict; retry | a chunk waits while its session is finalised; lost answers, duplicates; eviction by a stale snapshot | a session ends once; an upload that is reported complete has all its bytes |
| upload store, verifiers (`server/upload`), form task (`formtask/fileform.go`) | the file, its status, its verdict | `StartUploadSession`, `CompleteUploadSession`, `GetResult` | a failed step leaves "uploading"; the old verdict for the new file | the form shows the verdict that was reached on the file |
| async tasks (`core/inspection/asynctask`) | one flight per slot, a cache of results | `DoAsyncOrGet`, `Cancel`, `Reset`, `Close` | a replaced worker finishes late | no outdated result is stored |
| import of inspections (`server/importinspection`) | sessions, files, registered inspections | `StartSession`, `CompleteSession` | failure between rename and registration; a restart, after which numbers begin again | inspections have files of their own |
| index manager (`server/workbench/index_manager.go`, `index.go`) | the index in memory and on disk, two single flights, subscribers | `GetTrigramIndex`, `StartAsyncIndexing`, `SubscribeIndexProgress`, `InvalidateInspectionIndex` | subscription, broadcast and invalidation between any two steps of a build | built once; who was told of an index finds it; waiters are answered |
| workbench manager, sweeper (`manager.go`, `sweeper.go`) | workbenches with leases, loads merged per ID | `GetOrOpen`, `Close`, `Remove`, `Heartbeat`, sweep | loads of two inspections under one ID; loads that end late; eviction by a snapshot | no workbench is lost, and the map holds open ones |
| loading of a workbench (`server/workbench/reader.go`) | two channels between one reader, the workers and the collector; a buffer of chunks that came too early | `NewFromReader` | workers overtake each other; one of the goroutines fails, or the context ends, at any moment | a workbench has every chunk of its file, once; no goroutine stays behind |
| text search (`server/workbench/cel`, `model/khifile/v6/direct_yaml.go`) | the index of trigrams, absent at first | `MatchLogField`, `FindCandidateLogsWithField` | the index and the match see different forms of a value | the index excludes no log that matches |
| cached log estimator (`api/googlecloud/logestimator`) | flights and a cache per query, the active query of a slot | `EstimateWithTaskSlot`, `Close` | joining a cancelled flight; identity of flights | one live estimation per query, each held by somebody |
| async jobs (`server/streamingutil/async_job.go`), polling client | the jobs, the current one, expiry times | `Poll`, `Cancel`, `Evict`, `Close` | polls race with eviction and with `Close`; lost answers | one live job; abandoned ones end |
| OAuth, popups (`api/googlecloud/oauth`, `server/popup`), the page | one popup, its subscribers, channels shared by all requests | `requestToken`, redirect handler, `ShowPopup`, `DismissActivePopup` | late redirects, a full channel, a dismissal of the next popup | who waits is asked; a code is exchanged once |
| adaptive rate limiter | rate, cooldown | | late answers during a cooldown | the rate stays in its bounds |
| inspection server | the map of inspections | | concurrent map access | |
| handlers, parsers, mappers, file reader, cloud clients, containers, other filters, start-up, user interface | transformations of data, or code that runs once | | nothing that depends on order | |

`PROJECT.json` lists all of them with their sources, and under `hazards` the lines where
each can go wrong, with the properties that would show it.

## 2. The modules

    InspectionLifecycle <== InspectionRunner -- uses --> TaskGraphExecution <== TaskRunner
    ResolveTaskGraph = GraphResolver ; TaskSetSort

    ChunkSession <== ChunkedUpload
    FileUpload    over  AsyncTask, ChunkSession
    ImportSession over  ChunkSession
    LogIngestion  extends InternPool          TimelineAccumulator
    InspectionIndex    WorkbenchManager    WorkbenchLoad    LogSearch over TrigramQuery
    CachedEstimator    AsyncJob    OAuthPopup

`<==` reads "is implemented by".

### The core

**TaskGraphExecution** (abstract): what one execution of a graph promises: a task starts
only over dependencies that succeeded, is skipped only after a failure or a cancellation,
and the outcome is announced once, when all is settled, and is a success exactly if all
succeeded.

**TaskRunner** models `LocalRunner`, one action per step between two points at which
another goroutine can observe something. `pc[t]` is where the goroutine of `t` is in
`runTask`; `released` are the open waiter locks; `results` and `remaining` are the result
map and `remainingDependents`; `graphDone` is the runner's own context and `callerDone` the
one of its caller; `groupErr` is the error the errgroup keeps. The body of a task is
external: it succeeds, fails, or returns after the context ended. Values of results are
left out, only their presence in the map matters. A goroutine waits for its dependencies
one by one in list order; open locks stay open, so the order of the waits cannot be
observed and the model allows any.

**InspectionLifecycle** (abstract): what those who watch an inspection see: listed as
RUNNING, then one final phase that agrees with whether a result can be read, and with
whether a cancellation was accepted, and only then the announcement.

**InspectionRunner** models `Run`, `Cancel`, `DryRun` and the poll of the list as calls with
a program counter, `runnerLock`, and the goroutine of the run (`worker`). The graph it waits
for is `TaskGraphExecution`, instantiated with the run's cancelable context as its
cancellation, which TaskRunner is shown to implement. An imported inspection starts with
its run over; it has no type, hence no features (`featureTasks`), and its `Run` and `DryRun`
end before they register anything. A handler that panics ends alone and releases its lock, as `net/http` and the
deferred `Unlock` have it.

**GraphResolver** models `Resolve` with its three default rules, one action per rule, and the
loop around them. A task stands for its own reference: the available tasks of an
inspection are de-duplicated by reference before (`deduplicateTasksByPriority`). `extra` is
what the wrapper `dependencyOverridenUntypedTask` adds to a task's dependencies.

**TaskSetSort** models `sortTaskGraph` and the breadth-first search behind its error message.
The sort takes the ready tasks in the order of their ID strings, so tasks are numbers in
that order. Go yields a map in any order, so `MeetVisited` and `VisitNew` choose any match.
The search compares a reference with an ID by prefix, so the model keeps exactly that
relation, `HasPrefix`, and nothing else of the strings.

**ResolveTaskGraph** runs the sort of TaskSetSort on what GraphResolver returned, as
`InspectionTaskRunner.ResolveTaskGraph` does.

### The file of an inspection

**InternPool** models the pools and the struct store. A worker carries the stack of the calls
it is in, the innermost last, since interning a struct interns the names, strings and maps in
it; `Continue` goes on to the next call that others can notice. A step is what a worker does between two accesses that
others can see: looking a text up in one pool, then in the other, taking a number, publishing
it, staging the item, cutting a chunk. `storeLock` and `flushLock` are held across steps.

**LogIngestion** extends it with those who call it: a job of a worker is a log, with a body and a
summary, or a timeline with a name; `Builder.Build` then flushes logs, timelines and pools, each
as one step of the serializer. The first error stops the workers.

**TimelineAccumulator** has the workers of the mappers flush change sets: an alias first, then the
items one by one, then the count, and the chunk when the count reaches the threshold; the flush
visits the builders in any order while others add to them.

### Files that come in

**ChunkSession** (abstract): a session is open, is taken out by exactly one of finalisation, abort and
the cleaner, and is then delivered or removed for good.

**ChunkedUpload** follows one upload through `executeChunkedUpload` of the client (workers, retries,
abort, completion), the `ChunkSessionManager` and the cleaner. A request or its answer may be
lost; the handler of a chunk finds the session in one step and writes in another; a session
expires at any time after its last chunk. Sessions share nothing, so there is one.

**FileUpload** has one token and several sessions; the content of the file is the session that wrote it.
The form reads status and verdict in two steps, and verifiers are flights of AsyncTask.

**AsyncTask** has one action per method, which hold `mu` from their first to their last access, and
one for the goroutine that compares its flight. `outdated` and `tainted` are history variables.

**ImportSession** follows importers through finalising, validating, renaming, measuring and registering,
each of which may fail. IDs and tokens are numbered from 1 in each process, and the process
restarts at any time.

### What a server keeps

**InspectionIndex** models both single flights (`loadGroup`, `buildGroup`), the subscription of workbenches,
the broadcast and the invalidation by an import, with one action between any two of them.

**WorkbenchManager** has `GetOrOpen` step by step, with the merging of loads per ID, `Close`, `Remove`,
heartbeats, leases that run out, and the sweeper that acts on a snapshot.

**WorkbenchLoad** is the load that is one step of WorkbenchManager: the goroutine that reads chunks, the workers that
parse them, and the collector that puts them in order, each stopped by the failure of another or by
the end of the context. A channel of tasks is a count, since it is in order; that of results is a set.

**TrigramQuery** has the operators of the text search: how a log is printed, its trigrams, the ones that a pattern
needs, and a matcher of patterns to compare with, which is Go's. Its alphabet, the escapes of YAML and the words YAML
takes for something else are constants. Patterns and queries are trees, one level of them over the one below
(`Patterns`, `Queries`, up to a height of `MaxHeight`), and what is computed of a tree is a recursive function over
these sets. **LogSearch** lets the index appear at any time during the search of one log.

**CachedEstimator** has one action per method, for the same reason as AsyncTask, and the slots of a form
that edits its queries.

**AsyncJob** models the manager with its cleaner, and clients whose answers get lost, over restarts.

**OAuthPopup** models `requestToken`, the redirect handlers and the goroutine of each popup, which meet on
unbuffered channels, and the page behind a bounded inbox.

### The instances

**Files** and **Server** put the components of the last two parts side by side, with the assumptions
on their constants and the name of what each promises. The components of a part share no variable.

The `MC*` modules give the constants their values; the `*_proofs` modules hold theorems. `focus` says which component
runs in a behaviour; the others stay where they begin, and their invariants hold there. The
run checks each component exactly as it runs alone; nothing is claimed of their interaction,
since they have none.

## 3. The runs

| Run | Instance | Distinct states | What it shows |
|---|---|---|---|
| `task_runner` | a diamond `a -> {b, c} -> d` and a leaf `e` on `c`; `b` and `d` retained; cancellation by the caller at any time | 30 866 | no interleaving of failures, cancellation and clean-ups drops a result somebody needs (`DependencyResultsAvailable`, `CountsExact`) or leaves one behind (`OnlyRetainedSurvive`); failure stays contained; `Result` is truthful and final; the run ends; it implements `TaskGraphExecution` |
| `inspection_runner` | two tasks in a row, two `Run`, two `Cancel`, one `DryRun`, one list poll; a new or an imported inspection | 60 228 | one run is accepted; the phase agrees with the result when anybody is woken; nobody but an accepted `Cancel` cancels; accepted runs complete and calls return (`RequestsEnd`); it implements `InspectionLifecycle` |
| `task_set_sort` | all graphs over three tasks and a missing reference | 12 106 | the order is topological, missing references and cycles are told apart (`OutcomeIsExact`), the path in the message is a cycle (`SearchExplains`), the sort returns |
| `resolve_task_graph` | four tasks and a reference nobody has; 3 choices of dependencies and 4 of followers per task, task 4 required or not; limits of 6 passes, and of 1 and 2 on some | 368 892 | what is resolved is closed and minimal, failures are justified, passes are bounded by the number of tasks; and what is then sorted misses nothing, is complete and ordered when runnable, and refused only for a declared cycle (`ResolutionIsRight`) |
| `files` | two uploads to one field, one of them refused by the verifier; three bytes in two chunks with two attempts each; two workers, slots and inputs; two importers and a restart; two log workers whose bodies nest and share a text, and a timeline of that name; two mappers with two change sets each and an alias between them | 226 063 | the form shows the verdict on its file and a reported upload is whole (`UploadsSafe`) and implements `ChunkSession`, no outdated result is stored, imports have files of their own (`ImportSafe`), a file built without an error has every log and decodes by itself (`LogsSafe`), and has every item in its timeline, of which memory holds few (`TimelinesSafe`); log workers do not wait for each other or themselves as long as no text of a nested map has a number in both pools (`NoDeadlock`); uploads, verdicts and timelines end (`WorkEnds`) |
| `server` | two openers with two IDs and two inspections; two workers and four chunks, of which the second may be broken; two workbenches that wait for the index, or one while the inspection is imported; 23 values, 17 patterns, a search in the body, in a field, and in one with a name that is quoted; two slots, two queries of which one fails, three flights, one edit; two jobs of one client, or one that two clients may come to poll, and another after a restart; two requests, two redirects, a channel for two events | 152 032 | no workbench is lost, one that was not cancelled is whole (`WorkbenchLoadSafe`), the index is built once and found, and no search depends on whether it is there, for values printed without escapes (`LogSearchSafe`), one live estimation per query and one live job at a time, the popup is that of the request in turn; those who open, load, wait, poll or log in are answered (`ClientsAreAnswered`); expired workbenches and jobs that nobody polls go (`UnusedGoes`) |
| `task_runner_error`, `inspection_started`, `inspection_loggers`, `task_set_sort_colliding`, `intern_deadlock`, `workbench_load` | as above; the last two have three workers, a timeline and two logs, and two workers and three chunks | - | the findings of section 6 |

Why these bounds are enough. In the diamond a result has two consumers that race with each
other and with the producer's own clean-up, a task has two dependencies of which one may
fail, a retained result also has a consumer, and one leaf is retained and one is not; a
larger graph repeats these situations, and the proofs cover it. Two calls of each kind are
what a race needs, and the lock makes a third wait like the second. Four tasks allow a chain
of followers in which each pass brings in the next; the smallest instances with a limit of
one or two passes reach the error for it. Three tasks have cycles of one, two and three
tasks, cycles with tails, and two cycles that share a task.

Two chunks, the last one shorter, have a first and a last, in any order, and each is sent
twice; two sessions are an old and a new file; the third flight of the estimator is one that was
started while an old one of either query still ran; two inspections under two IDs are what
loads can confuse; a job that was superseded and its successor are two jobs, and two clients are one that left or is
silent and one that polls the same ID after a restart. A worker of
the pools that meets another needs a text, a field set and a struct in common, which two
nested bodies give; that a collector fails while the channel is full, both workers hold a chunk and the reader another
needs four chunks; values of up to four characters contain, miss or overlap the trigrams of the patterns, whose height
of two puts a choice or a repetition within a sequence; a chunk limit of three cuts chunks in the middle of a body. A second mapper
adds to the builder that the first is making an alias of another.

What would count without bound is limited by a constant: the passes by `maxIteration`, which the code has,
and `MaxRestarts`, `MaxJobs`, `MaxEdits`, `MaxRequests` and `MaxRedirects`, which name how often the
environment acts. `MaxRetries` and `Capacity` are the code's own limits, with smaller values.

Deadlock is checked where the system is never to stop before its work is done; `CHECK_DEADLOCK FALSE` is set in
`files`, `server`, `intern_deadlock` and `workbench_load`, where uploads, jobs and workers come to a proper end.
For the pools and their workers `NoDeadlock` says in its place that nobody waits for ever. It has
a condition, since `intern_deadlock` is true: no text of a map that is a part of another has a number in both pools
(`Doubled`). Two workers reach that self-lock when one of them has a timeline and a log, as in `files`; they do not when
each has one log only, and three do with one job each.

Each property is also checked against a mutant: a definition changed the way a mistake
would (a dropped lock, an off-by-one, a forgotten field), next to the definition it changes.
TLC finds each property violated by its mutant.

## 4. Fairness

The Go scheduler runs every goroutine that can run: that is weak fairness of each step of a
goroutine. Requests, edits, cancellations, restarts, lost messages and failures are never fair: nobody has
to make them.

- **TaskRunner**: weak fairness of each goroutine and of `Finalize`. A body returns: bodies get
  a context and the code gives no other promise, so the property says that the *runner*
  never adds a reason to hang.
- **InspectionRunner**: strong fairness of the calls of `Run` and `Cancel`, because they compete for a
  mutex, and Go's mutexes hand over to a waiter that waits too long; weak fairness of the
  goroutine. `DryRun` and the list poll need none, no property depends on them.
- **TaskSetSort**: weak fairness of `Step`: a sequential function runs on.
- **ChunkedUpload**: the client goes on, handlers of finalisation and abort end, sessions expire and the cleaner
  ticks. Of the chunks only what the client does about them is fair, since its requests time out.
- **FileUpload**: completions go on, the verifier of each flight returns, and the form keeps polling.
- **TimelineAccumulator**: workers and the serializer go on.
- **InspectionIndex**: all its goroutines, the builder included; closing a workbench is not fair.
- **WorkbenchManager**: calls go on (a load ends, as a success or not), and the sweeper ticks; no lease has to run out.
- **WorkbenchLoad**: its goroutines go on. Nobody has to cancel, and every wait has to end by itself.
- **CachedEstimator**: the page polls each slot, and every flight ends.
- **AsyncJob**: time passes for jobs nobody polls, the cleaner evicts, work whose context is cancelled ends. Clients
  need not poll; a job that is polled again and again may go on.
- **OAuthPopup**: popups appear and go, and the page receives events and reconnects. The user need not log in.
- **GraphResolver**, **ResolveTaskGraph**, **AsyncTask**, **ImportSession**, **LogIngestion** and **LogSearch** state only safety. The passes are limited by
  `PassesBounded`; a worker of the pools never does a step twice, so `NoDeadlock` is what is left to ask.

In `files` and `server` a temporal property has the form `focus = x /\ Fairness => ...`, one conjunct for each
component. `SessionSpec` says that every step of ChunkedUpload is one of ChunkSession or a stutter; `SessionEnds`, a
part of `WorkEnds`, that the fairness of ChunkSession follows from that of ChunkedUpload.

## 5. The proofs

The proofs hold for every value of the constants under the assumptions that the modules
name, and TLC evaluates each assumption on the instance of a run:

- the sets of tasks, references and importers are finite; limits are natural numbers, and sizes, `Threshold` and `Capacity` are positive;
- for TaskRunner the graph is acyclic (`AcyclicAssumption`), which is what TaskSetSort proves of a runnable set;
- values for "none" are not among the things they are none of (`NoneAssumption`, and parts of `ServerAssumption`,
  `UploadAssumption`, `TimelineAssumption`);
- what a mapper makes of its logs are sequences of paths, with an alias or none (`TimelineAssumption`);
- the characters contain those that printing adds, what is put for an escaped one is a text, and what is searched for
  are patterns of texts, of a height of at most `MaxHeight`, any natural number (`SearchAssumption`);
- the bodies of logs are maps that do not contain themselves, each of its own content, and no two logs are equal, as
  each has an insert ID (`IngestionAssumption`).

One theorem has a hypothesis of its own: `CyclesAreExplained`, below.

**TaskRunner_proofs.** Invariant `IInv`: `CountsExact` alone is not inductive, because whether
a count may drop depends on where each goroutine is, and whether a result is present depends
on the counts. `ErrInv` ties a goroutine's error to its location; `LockInv` says that a
dependency no longer awaited has stored its result and opened its lock; `ResultInv` says that the
map holds a stored result as long as it is retained or some dependent is unfinished; `EndInv`
follows the error from the goroutine to `Result`. The step that needs care is the clean-up:
two dependents of one task decrement the same count in any order, and the one that brings it
to zero is the last unfinished one (`CountsExact` over cardinalities of `Unfinished`).
Proved: `TypeCorrect`, `DependenciesAvailable`, `CountsAreExact`, `FailureContained`,
`ResultIsTruthful`, `NoResultLeaks`, `NothingChangesAfterStop`, and the refinement
`RunnerImplementsExecution` (each step of a goroutine is a step of `TaskGraphExecution` or a
stutter, under the invariant).

**InspectionRunner_proofs.** Invariant: a call is in its critical section exactly while it holds the lock
(`CallInv`); between its check and its return a `Run` sees an inspection that nobody else has
started (`FieldInv`, also after `i.runner` is assigned); and what the goroutine has settled
so far (`WorkerInv`). `PhaseTellsOutcome` alone is not inductive: a late `Cancel` may end the
context at any time, and only `WorkerInv` says that the phase is decided by then or that the
cancellation was accepted. Proved for any number of calls: `OneRunIsAccepted`, `PhaseIsTruthful`,
`OnlyCancelCancels`, `NothingChangesAfterComplete`, and `InspectionImplementsLifecycle`.

**GraphResolver_proofs.** Invariant: what an unchanged pass has checked so far holds of the graph as it
is now (`CheckedSoFar`), so the end of an unchanged pass is a fixpoint; and everything
included lies in every closed set that holds the roots (`OnlyNeeded`). `Needed` is defined by `CHOOSE`, and
`NeededIsLeast` shows that the intersection of the closed sets is one, so the choice exists.
Proved: `TypeCorrect`, `ResolvedGraphIsClosed`, `OnlyNeededIsIncluded`, `FailureIsRight`. A second
invariant, `PassInv`, counts the passes: each pass so far but one or two has added a task, and
when one only imposed orders the graph is settled and the next pass changes nothing. It
gives `PassesAreBounded`: with `n` tasks beside the features, `n + 2` passes are enough.
The last part is about ResolveTaskGraph. Resolver and sort act one after the other, so each keeps its own
invariant, and `Handover` says that what is sorted is what was resolved (`JointInv`). Since that
is closed, nothing is missing in it; what the sort places first includes every imposed order; and a
cycle the sort finds is one of the declarations, since no order was imposed unasked:
`ResolvedGraphIsSorted`, which is all of `ResolutionIsRight`, for tasks numbered in the order of their IDs (`OrderedTasks`).

**TaskSetSort_proofs.** Invariant: sorted and pending tasks divide the set, `missing` is what is
unsorted of the dependencies, and no set of tasks in which each depends on another of the
set ever loses a member to `sorted` (`CyclesRemain`). Proved: `RunnableIsSorted`,
`CountsAreRight`, and `OutcomeIsRight`, from `MissingIsReported`, `CyclesAreReported` and the fact
that tasks left over without a missing reference contain a cycle.

The search for a cycle to report has an invariant of its own, `SearchInv`: of a task that left the queue all dependencies
were visited, but for those it still has to look at, and none of them led back to the start (`Explored`); so when a search
runs dry, what it visited is closed under dependencies and its start is on no cycle (`RuledOut`);
and every visited task leads back to the one start (`Rooted`, by sets: each set of visited tasks has one whose
predecessor is outside), so the recursive function that reads the path off the map of predecessors
is defined, and what it returns are edges (`TraceLeadsBack`). That not every start can be ruled out is an
argument by a least closed set of pending tasks: each of its members is reached from every other (well-founded
induction over the subsets of a finite set). `CyclesAreExplained` assumes
`IDsApart`, that no ID begins with the reference of another task. It needs it: without it the
path need not be a cycle, as `task_set_sort_colliding` shows.

**AsyncTask_proofs.** What a slot serves is the result of its current flight, since a flight that was given up is
cancelled or no longer the one its goroutine compares (`LateAreCancelled`): `NoLateResult`, `ResultsStay`.

**Server_proofs** has one invariant for each component of Server.

- Workbenches: `NoneIsLost` is not inductive without the history of a workbench: from its making it
  has exactly one owner, the call that loads it, the map, a pending close, or the set of closed
  ones, and the single flight of an ID has one leader (`WhereItIs`). Proved: `NoWorkbenchIsLost`.
- The loading of one, for any number of workers and chunks: each chunk
  is waiting, with one worker, a result, buffered or ingested (`OnItsWay`), unless a goroutine failed or the context
  ended; so when the reader has ended, the workers have stopped and nothing is left to receive, all are ingested (`CollectedInv`,
  `ReturnedInv`): `LoadIsSafe`.
- Estimates: what the maps hold runs, for the key it is held under, and
  only the slot that started a flight can leave it without a live holder, having cancelled it by then (`FlightsRun`): `EstimationsAreHeld`.
- Jobs: the ones the manager, an answer or the cleaner knows of were started (`KnownWereStarted`); one that works and is not the current
  one was cancelled, even when no call finds it any more (`OthersAreCancelled`); one that works expires only if it was not polled for
  long (`ExpiredAreQuiet`): `OneJobWorks`.
- The index: `BuildsCounted` counts what was built against what may still be: a builder that found no index, or that is between the
  announcement and the save, is the first to build until an import invalidates. `ReadyIsKept` follows a "Ready" from
  the index in memory through the broadcast, the channel and the initial event of a subscriber; `WantedOnly` says
  that a workbench asks for the index only at a few points of its way: `IndexIsFound`, with an import or without.
- Login: requests come one after the other, so the popup of an earlier one can be shown
  only in a few phases of the later; codes belong to requests that began (`LoginHistory`): `LoginIsSafe`.
- The search: the invariant, that the answer is that of the evaluator the worker took, is the short part. That the index excludes no
  log that matches is one of the operators, whatever the alphabet, the text and the pattern. A match of a pattern
  takes a match of every part its query asks for, and what a literal matched is a part of the text with all its trigrams
  (`MatchNeeds`); a value without escapes is a part of the body, and so is the printed key (`BodyTrigrams`); a query and the
  simplified one are met by the same logs (`SimplifyKeeps`). What a recursive function over patterns or queries is
  has to be proved first: it exists, since what is below a tree has a smaller height (`RecursionExists`), and what
  has a lower counterexample for each has none (`ByHeight`). Proved: `SearchIsUnaffected`.

**Files_proofs** has one for each component of Files but the logs.

- Imports: tokens and IDs are numbers of one process, and a restart gives them out again, so that two clients may hold
  the same token. `GivenOut` counts: there are no more numbers than calls that were given one (over cardinalities), so a number always is
  within bounds; an ID belongs to one call and nothing is registered under it (`OwnID`); a client that *took* a session has it for itself, and its
  file is what was uploaded under that token (`OwnSession`): `ImportsAreSafe`.
- The file of a form field: the file is that of a session which renamed its own to it (`FileOfASession`), and once the store
  was told of it no verifier of an older one counts (`VerifiedIsTheFile`, `OpenedAreRunning`). Its verification is
  an AsyncTask with one slot and one input, step by step (`FilesAreVerified`), so the theorem about those holds of it.
- A chunked upload: the file is the union of the attempts that were recorded (`Recorded`), an attempt that was not made has no
  handler (`Attempted`), and who took the session decides on its file (`OneDecides`). That ranges which pass
  the server's check cover the file once (`ValidIsTiled`) is an argument by the least byte that is not covered. With the file of a field: `UploadsAreSafe`;
  and `UploadsAreSessions`, the refinement of ChunkSession.
- Timelines: an item that was added is in one builder, in what the current flush extracted, or in the file, under the builder of its path
  (`InOnePlace`), and unless something failed it is still there (`NothingLost`). `Mapped` says of each worker that it holds the builder
  that its path has, and that the aliases it was done with were set. `OneFlush` and `SerializerLast` give the last flush all builders undisturbed.
  The count of pending items is a bound only of what the current flush will *not* take, since the count is reset before
  anything is extracted: `Counted` bounds `Fresh`, the announced items in builders the flush has visited or will not have to visit, and a count that has reached the threshold has a
  worker about to flush. `TimelinesAreSafe`, for any mappers, change sets and threshold.

**Logs_proofs.** A worker that interns a body is in several calls at once, and while it is in them others give out, publish and
give up numbers. The proof fixes, beside the tables of the pools, for each body in the store the map that it is a body of (`node`, a
history that the tables do not have; the invariant says that there is one). By it a reference denotes a text or a map (`Is`),
and the invariant `LogsInv` has these parts:

- The tables (`TablesOK`): a published number resolves to its text or names; a published struct has a key and a body, which may
  consist of *different* references, and both denote the map it stands for. Keys are looked up, bodies are written.
- The stack of a worker (`StackOK`): what a call has collected are references that denote what it asked for so far, and each call
  serves the one below it. A number that a call took and did not publish is published by nobody, and no two calls have
  the same (`Owning`, `Unpublished`).
- What is published is in the file, staged, about to be staged by its one owner, or its pool has failed; and it is in one of
  these places only, as the table has it (`Staging`). So an item is written once, and a chunk that is cut
  anywhere has bodies that are complete.
- Jobs and the serializer (`AccountsOK`, `BuildOK`): each job that was done has left one entry unless something failed, and
  a step of `Build` begins with what the steps before it have to leave.

Tables only grow (`Grows`), apart from numbers nobody was given, so what holds of a stack or an entry goes on holding when another
worker moves: each of these is a lemma of its own, and then each action keeps the invariant. That a file decodes (`Decoded`, a function
recursive over maps) follows by a minimal counterexample, since maps do not contain themselves. Proved: `LogsAreSafe`, for any workers, logs and
sizes of chunks.

The types of TaskRunner and InspectionRunner (`TypeCorrect`) and the counts of the sort (`CountsAreRight`, which the order
rests on) are proved, and no run repeats them.

Only model-checked:

- liveness (`RunnerStops`, `RequestsEnd`, `SortReturns`, `WorkEnds`, `ClientsAreAnswered`, `UnusedGoes`): fairness and ENABLED are
  out of the prover's reach;
- `NoDeadlock`, for the two workers of `files`.

Every other invariant of a passing run is stated by a theorem.

Induction is used where it can be stated of a set instead of a predicate: a least element of a set of numbers (`Least`), a minimal
subset of a finite set, a well-founded relation, the counterexamples by their height.

## 6. Where the code disagrees with itself

| Run | What happens |
|---|---|
| `task_runner_error` | `runTask` cancels the graph before it hands its error to the errgroup (`core/task/runner.go:155`). A dependent woken in between hands in `context.Canceled` first, and `Result` says so instead of naming the failure that `runner_test.go:392` expects |
| `inspection_started` | `Run` assigns `i.runner` before the run context is built (`core/inspection/runner.go:372`). If that fails, `Started()` is true of an inspection that never ran, a retry is refused, the list of all inspections fails, and a `Cancel` calls a nil function (`:569`) |
| `inspection_loggers` | the loggers of a run that ended with an error stay registered (`core/inspection/runner.go:644`) |
| `task_set_sort_colliding` | the search takes `foo-bar#default` for a task of reference `foo` (`core/task/taskset.go:298`), so the reported path need not be a cycle |
| `intern_deadlock` | maps are interned before the struct store is locked so that interning them again under the lock finds them (`flat_struct.go:143`); a text that another worker publishes in the server pool in between changes their key, and the worker locks the store twice (`flat_struct.go:276`) |
| `workbench_load` | when a load is cancelled after the end of the file was read, its workers drop their chunks without an error (`server/workbench/reader.go:152`) and `NewFromReader` returns, and the manager registers, an incomplete workbench, where `reader_test.go:109` expects an error |

The passing properties of InspectionRunner hold in spite of the failed start, which is an action of
the model (`RunSetupFails`).

These behaviours are in the models too, and the properties are stated so that they allow them.
No run is given to them; of most the sources do not say clearly enough what they should do instead:

- A chunk that is sent again after its answer was lost is recorded twice, and the upload fails as overlapping.
- The cleaner aborts a session that a chunk refreshed after the cleaner's snapshot.
- A file field says "uploading" for ever when its session was never made (`server/upload/session.go:63`), failed or
  expired; `SetResultOnCompletedUpload`, which would take the mark back, is called by tests only.
- `GetOrOpen` that joins a load of the same ID returns a workbench of the other inspection.
- The sweeper counts and picks on a snapshot and removes afterwards (`server/workbench/sweeper.go:93`): when a client
  renews the lease in between, or closes the other workbench, one in use goes, or the only one, which
  `sweeper.go:72-73` says is preserved.
- A workbench that subscribed before an import invalidates the index may be told Ready of an index that
  is gone; one that waits for the build of the old index can wait until it is closed.
- After a restart inspection IDs and upload tokens begin at 1 again, so chunks of a client of the old process go to a file of the new.
- The failure of an estimation is not kept: the page that polls starts it again. A slot that returns to a
  query joins the flight it has just cancelled.
- After a restart a client that still polls gets the answer of another client's job with the same ID, and keeps it alive if nobody else
  polls it, which `AbandonedEnds` allows; a job started by a poll during `Close` is cancelled by nobody.
- A redirect from the window of an earlier request answers the next one; a redirect nobody waits for blocks its
  handler; a popup can appear when its request has ended.
- Once the index of trigrams is there, a search in a field misses values that are printed with escapes (quotes,
  backslashes, line ends) or, as timestamps, in another form: the index has the printed form, and the pattern is matched
  against the value (`cel/functions.go:160-171`, `:222`). `LogSearchSafe` says so by its condition `Verbatim`.
- The list of excluded timelines that a filter sends in place of a long list of included ones (`sparsebitset/bitset.go:50`)
  takes their numbers to be all of `1..count`, but two goroutines that add the same path use up two (`timeline_path.go:110`).
- `HasRevision` (`timeline_accumulator.go:84`) looks at items still in memory and turns false after a flush.
- Structs of the server pool with equal content may be stored twice with different numbers.

## 7. What is not modelled

- In the modelled components: values of results and metadata, log messages, timestamps,
  `WrapGraph` and `DumpGraphviz`, `Add` and `Remove` of a task set, the choice among tasks with one
  reference, the size of the result, and which features are selected.
- Feature selection and the map of inspections (`core/inspection/server.go:136`) are unsynchronised: the outcome of the race
  is anything, an end of the process included. A model could only restate it; its end is the
  restart of ImportSession.
- `ProgressReport`: counters under one lock, read by the page only.
- The adaptive rate limiter: real numbers and the pace of a service.
- Of the file format: metadata and style chunks, values other than texts and maps, sorting within chunks, `Dispose`, and reading.
- Pure transformations (parsers, mappers' contents, filters but for the text search, conversions in handlers)
  have no order to explore; their tests with tables of inputs fit them better.
- Start-up code runs once, sequentially. `common/token` has no user outside its tests.
- The user interface beyond the uploader and the clients that poll, and the generated code.

## 8. The plan

Done, in this order: TaskGraphExecution, TaskRunner; InspectionLifecycle, InspectionRunner; GraphResolver,
TaskSetSort and ResolveTaskGraph; ChunkSession, ChunkedUpload, AsyncTask, FileUpload, ImportSession; WorkbenchManager,
InspectionIndex, WorkbenchLoad, LogSearch, CachedEstimator, AsyncJob, OAuthPopup; InternPool, LogIngestion, TimelineAccumulator; the proofs of section 5.

Next:

- Feature selection (`runner.go:306`), which races with itself.
