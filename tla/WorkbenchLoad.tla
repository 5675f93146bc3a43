---------------------------- MODULE WorkbenchLoad ---------------------------
(***************************************************************************)
(* NewFromReader (pkg/server/workbench/reader.go): one goroutine reads the *)
(* chunks of a file, as many workers as there are processors decompress    *)
(* and parse them, and a collector puts them into the workbench in the     *)
(* order of the file.  The step Load of WorkbenchManager is all of this.   *)
(*                                                                         *)
(* The channel of tasks holds the chunks taken + 1 .. sent.  That of the   *)
(* results is a set: the collector sorts what comes out of it.  Left out:  *)
(* what a chunk says, and the goroutine that closes the channel of the     *)
(* results once all workers have ended.                                    *)
(***************************************************************************)
EXTENDS Integers, FiniteSets

CONSTANTS
  Worker,  \* finitely many, and at least one
  Chunks   \* how many chunks the file has

VARIABLES
  file,       \* file[n]: what is in the n-th chunk
  reader,     \* the goroutine that reads
  sent,       \* how many chunks it has handed to the workers
  taken,      \* how many of these the workers took
  work,       \* work[w]: the chunk that the worker has, or 0
  stopped,    \* the workers that have returned
  results,    \* the chunks in the channel of results
  buffered,   \* those that came too early
  ingested,   \* how many chunks the collector has put into the workbench
  strings,    \* the chunks whose strings are in the intern pool of the workbench
  collector,  \* the goroutine that collects
  cancelled,  \* the context of the caller
  outcome     \* what NewFromReader returns

vars ==
  <<file, reader, sent, taken, work, stopped, results, buffered, ingested,
    strings, collector, cancelled, outcome>>

\* A corrupt chunk cannot be decompressed, a malformed one not be parsed.
Kind == {"part", "strings", "corrupt", "malformed"}
Bad == {n \in 1..Chunks : file[n] \in {"corrupt", "malformed"}}

TypeOK ==
  /\ file \in [1..Chunks -> Kind]
  /\ reader \in {"reading", "sending", "ended", "failed"}
  /\ sent \in 0..Chunks /\ taken \in 0..sent
  /\ work \in [Worker -> 0..Chunks]
  /\ stopped \subseteq Worker
  /\ results \subseteq 1..Chunks /\ buffered \subseteq 1..Chunks
  /\ ingested \in 0..Chunks
  /\ strings \subseteq 1..Chunks
  /\ collector \in {"collecting", "ended", "failed"}
  /\ cancelled \in BOOLEAN
  /\ outcome \in {"none", "workbench", "error"}

Init ==
  /\ file \in [1..Chunks -> Kind]
  /\ reader = "reading" /\ sent = 0 /\ taken = 0
  /\ work = [w \in Worker |-> 0] /\ stopped = {}
  /\ results = {} /\ buffered = {} /\ ingested = 0 /\ strings = {}
  /\ collector = "collecting" /\ cancelled = FALSE
  /\ outcome = "none"

\* Both channels hold one entry per worker.
ChannelSize == Cardinality(Worker)

\* gCtx: the errgroup cancels it when a goroutine of it fails, and in the end.
Stopping ==
  cancelled \/ reader = "failed" \/ collector = "failed" \/ outcome # "none"

-----------------------------------------------------------------------------

\* It looks at the context, then takes the next chunk from the file.
NextRawChunk ==
  /\ reader = "reading"
  /\ \/ Stopping /\ reader' = "failed"
     \/ ~Stopping /\ reader' \in {IF sent < Chunks THEN "sending" ELSE "ended", "failed"}
  /\ UNCHANGED <<file, sent, taken, work, stopped, results, buffered, ingested,
                 strings, collector, cancelled, outcome>>

SendTask ==
  /\ reader = "sending"
  /\ \/ sent - taken < ChannelSize /\ sent' = sent + 1 /\ reader' = "reading"
     \/ Stopping /\ reader' = "failed" /\ UNCHANGED sent
  /\ UNCHANGED <<file, taken, work, stopped, results, buffered, ingested,
                 strings, collector, cancelled, outcome>>

\* The strings of a chunk go into the pool at once, in any order.
Parse(w) ==
  /\ w \notin stopped /\ work[w] = 0
  /\ taken < sent /\ ~Stopping
  /\ taken' = taken + 1
  /\ work' = [work EXCEPT ![w] = taken + 1]
  /\ strings' = IF file[taken + 1] = "strings" THEN strings \cup {taken + 1} ELSE strings
  /\ UNCHANGED <<file, reader, sent, stopped, results, buffered, ingested,
                 collector, cancelled, outcome>>

\* The worker of a corrupt chunk returns once it has sent the error.
SendResult(w) ==
  /\ work[w] # 0 /\ Cardinality(results) < ChannelSize
  /\ results' = results \cup {work[w]}
  /\ work' = [work EXCEPT ![w] = 0]
  /\ stopped' = IF file[work[w]] = "corrupt" THEN stopped \cup {w} ELSE stopped
  /\ UNCHANGED <<file, reader, sent, taken, buffered, ingested, strings,
                 collector, cancelled, outcome>>

\* Mutant of Abandon: a worker that has a result does not look at the context.
AbandonTask(w) ==
  /\ w \notin stopped /\ Stopping
  /\ work[w] = 0 /\ taken < sent
  /\ taken' = taken + 1
  /\ stopped' = stopped \cup {w}
  /\ UNCHANGED <<file, reader, sent, work, results, buffered, ingested, strings,
                 collector, cancelled, outcome>>

\* In either select the worker drops the chunk it has, and returns.
Abandon(w) ==
  /\ w \notin stopped /\ Stopping
  /\ \/ work[w] = 0 /\ taken < sent /\ taken' = taken + 1 /\ UNCHANGED work
     \/ work[w] # 0 /\ work' = [work EXCEPT ![w] = 0] /\ UNCHANGED taken
  /\ stopped' = stopped \cup {w}
  /\ UNCHANGED <<file, reader, sent, results, buffered, ingested, strings,
                 collector, cancelled, outcome>>

\* The channel of tasks is closed and empty.
EndWorker(w) ==
  /\ w \notin stopped /\ work[w] = 0
  /\ taken = sent /\ reader \in {"ended", "failed"}
  /\ stopped' = stopped \cup {w}
  /\ UNCHANGED <<file, reader, sent, taken, work, results, buffered, ingested,
                 strings, collector, cancelled, outcome>>

-----------------------------------------------------------------------------
(* The collector, which does not look at the context.                      *)

Receive(n) ==
  /\ collector = "collecting" /\ ingested + 1 \notin buffered
  /\ n \in results
  /\ results' = results \ {n}
  /\ \/ n \in Bad /\ collector' = "failed" /\ UNCHANGED buffered
     \/ n \notin Bad /\ buffered' = buffered \cup {n} /\ UNCHANGED collector
  /\ UNCHANGED <<file, reader, sent, taken, work, stopped, ingested, strings,
                 cancelled, outcome>>

\* ingestParsedChunk; then onProgress may fail, when the client of a stream has left.
Ingest ==
  /\ collector = "collecting" /\ ingested + 1 \in buffered
  /\ buffered' = buffered \ {ingested + 1}
  /\ ingested' = ingested + 1
  /\ collector' \in {"collecting", "failed"}
  /\ UNCHANGED <<file, reader, sent, taken, work, stopped, results, strings,
                 cancelled, outcome>>

\* Mutant of EndCollector: it ends when nothing more is there to receive.
EndCollectorEarly ==
  /\ collector = "collecting" /\ ingested + 1 \notin buffered
  /\ results = {} /\ reader = "ended" /\ taken = sent
  /\ collector' = "ended"
  /\ UNCHANGED <<file, reader, sent, taken, work, stopped, results, buffered,
                 ingested, strings, cancelled, outcome>>

\* The channel of results is closed and empty.  What is left in the buffer is lost.
EndCollector ==
  /\ collector = "collecting" /\ ingested + 1 \notin buffered
  /\ results = {} /\ stopped = Worker
  /\ collector' = "ended"
  /\ UNCHANGED <<file, reader, sent, taken, work, stopped, results, buffered,
                 ingested, strings, cancelled, outcome>>

\* g.Wait, and BuildBaseSearchIndex with its calls of onProgress.  Nothing looks at
\* the context of the caller any more.
Return ==
  /\ outcome = "none"
  /\ reader \in {"ended", "failed"} /\ collector # "collecting"
  /\ outcome' \in IF reader = "failed" \/ collector = "failed"
                  THEN {"error"} ELSE {"workbench", "error"}
  /\ UNCHANGED <<file, reader, sent, taken, work, stopped, results, buffered,
                 ingested, strings, collector, cancelled>>

\* The caller gives up: a poll that starts another job, Cancel, Evict or Close of the
\* job manager, or the end of a stream.
Cancel ==
  /\ ~cancelled /\ outcome = "none"
  /\ cancelled' = TRUE
  /\ UNCHANGED <<file, reader, sent, taken, work, stopped, results, buffered,
                 ingested, strings, collector, outcome>>

Reader == NextRawChunk \/ SendTask
WorkerStep(w) == Parse(w) \/ SendResult(w) \/ Abandon(w) \/ EndWorker(w)
Collector == (\E n \in results : Receive(n)) \/ Ingest \/ EndCollector

Next == Reader \/ (\E w \in Worker : WorkerStep(w)) \/ Collector \/ Return \/ Cancel

Spec == Init /\ [][Next]_vars

\* Goroutines run on.  Nobody has to cancel.
Fairness ==
  /\ WF_vars(Reader) /\ WF_vars(Collector) /\ WF_vars(Return)
  /\ \A w \in Worker : WF_vars(WorkerStep(w))

FairSpec == Spec /\ Fairness

-----------------------------------------------------------------------------

\* The whole file is in the workbench.
Whole ==
  /\ ingested = Chunks /\ Bad = {}
  /\ strings = {n \in 1..Chunks : file[n] = "strings"}

\* A workbench that was loaded without being cancelled has every chunk of its file:
\* none is lost on its way through the two channels and the buffer, wherever the
\* workers overtake each other, and no failure of one goroutine is lost either.
WholeUnlessCancelled == outcome = "workbench" /\ ~cancelled => Whole

\* A chunk is in one place only, so that none is ingested twice; one that is out of
\* order waits until those before it are there.
EachOnce ==
  /\ results \cap buffered = {}
  /\ results \cup buffered \subseteq (ingested + 1)..taken
  /\ \A w \in Worker : work[w] # 0 =>
       /\ work[w] \in ((ingested + 1)..taken) \ (results \cup buffered)
       /\ \A v \in Worker : work[v] = work[w] => v = w

\* All of this at once.
WorkbenchLoadSafe == TypeOK /\ WholeUnlessCancelled /\ EachOnce

\* NewFromReader returns, and none of its goroutines stays behind, whichever of the
\* others fails, is cancelled or still holds a chunk.
LoadEnds == <>(outcome # "none" /\ stopped = Worker)

\* What the loading promises: a cancelled load fails (the test case "fails on canceled
\* context"), so that a workbench is always whole.  It is not so once the file has been
\* read to its end: the workers drop what they have and the collector takes the closed
\* channel for the end of the file.
LoadedIsWhole == outcome = "workbench" => Whole

=============================================================================
