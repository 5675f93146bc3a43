----------------------------- MODULE LogIngestion -----------------------------
(***************************************************************************)
(* The workers of log ingesters and timeline mappers fill a KHI file, and  *)
(* the serializer completes it (pkg/core/inspection/taskbase/              *)
(* logingester_task.go, pkg/model/khifile/v6/log_accumulator.go,           *)
(* timeline_path.go, builder.go).  A job of a worker is a log, with a body *)
(* and a summary, or a timeline, with a name.  The first error makes the   *)
(* workers stop before their next job, and no file is built.               *)
(***************************************************************************)
EXTENDS InternPool

CONSTANTS
  Jobs,     \* of a worker: the jobs it has to do, in order
  LogBatch  \* chunkSizeLimit of the log accumulator, in logs

VARIABLES
  done,      \* of a worker: the jobs it did
  hasErr,    \* a job failed
  logs,      \* LogAccumulator: the staged logs
  paths,     \* TimelinePathPool: the timelines
  written,   \* the logs and timelines in the file
  building,  \* the step of Builder.Build
  result     \* what Build returned, "none" before

ingestionVars == <<done, hasErr, logs, paths, written, building, result>>
vars == <<poolVars, ingestionVars>>

Init ==
  /\ InitPools
  /\ done = [w \in Worker |-> 0]
  /\ hasErr = FALSE
  /\ logs = {} /\ paths = {} /\ written = {}
  /\ building = "logs"
  /\ result = "none"

-----------------------------------------------------------------------------
(* Workers                                                                 *)

Idle(w) == stack[w] = <<>>
Job(w) == Jobs[w][done[w] + 1]

\* AddLog interns the body in the server pool and then the summary in the client
\* pool; the path of a timeline has a name of the client pool.
Begin(w) ==
  /\ Idle(w) /\ done[w] < Len(Jobs[w])
  /\ LET job == Job(w)
     IN  stack' = [stack EXCEPT ![w] =
           IF job.kind = "log"
           THEN <<[call |-> "log", at |-> "body", body |-> <<>>, text |-> <<>>]>>
                  \o Continue(StructCall(job.body))
           ELSE <<[call |-> "timeline", at |-> "text", body |-> <<>>, text |-> <<>>],
                  StringCall("client", job.text)>>]
  /\ UNCHANGED <<strToID, idToStr, structVars, stagingVars, ingestionVars>>

InternSummary(w) ==
  /\ In(w, "log", "body")
  /\ stack' = [stack EXCEPT ![w] = <<[Top(w) EXCEPT !.at = "text"], StringCall("client", Job(w).text)>>]
  /\ UNCHANGED <<strToID, idToStr, structVars, stagingVars, ingestionVars>>

Entry(w) == [job |-> Job(w), body |-> Top(w).body, text |-> Top(w).text]

\* flushLocked: the staged logs are written, or stay when that fails.
WriteLogs(ok) ==
  IF ok THEN /\ written' = written \cup logs
             /\ twice' = twice \cup (written \cap logs)
  ELSE UNCHANGED <<written, twice>>

EndJob(w) ==
  /\ stack' = [stack EXCEPT ![w] = <<>>]
  /\ done' = [done EXCEPT ![w] = @ + 1]

\* The rest of AddLog: a full batch is written before the log is staged.
AddLog(w) ==
  /\ In(w, "log", "text") /\ EndJob(w)
  /\ \/ /\ Cardinality(logs) < LogBatch
        /\ logs' = logs \cup {Entry(w)}
        /\ UNCHANGED <<written, twice, hasErr>>
     \/ /\ Cardinality(logs) >= LogBatch
        /\ \E ok \in BOOLEAN :
             /\ WriteLogs(ok)
             /\ logs' = IF ok THEN {Entry(w)} ELSE logs
             /\ hasErr' = (hasErr \/ ~ok)
  /\ UNCHANGED <<strToID, idToStr, structVars, flushLock, unflushed, err, file,
                 paths, building, result>>

\* getOrCreateSingle: a path is known by the reference of its name.
AddPath(w) ==
  /\ In(w, "timeline", "text") /\ EndJob(w)
  /\ paths' = paths \cup {Entry(w)}
  /\ UNCHANGED <<strToID, idToStr, structVars, stagingVars, hasErr, logs, written,
                 building, result>>

\* A worker sees the error, or that its task was cancelled because of it.
GiveUp(w) ==
  /\ Idle(w) /\ hasErr /\ done[w] < Len(Jobs[w])
  /\ done' = [done EXCEPT ![w] = Len(Jobs[w])]
  /\ UNCHANGED <<poolVars, hasErr, logs, paths, written, building, result>>

Work(w) ==
  \/ Begin(w) \/ InternSummary(w) \/ AddLog(w) \/ AddPath(w) \/ GiveUp(w)
  \/ Intern(w) /\ stack[w] # <<>> /\ UNCHANGED ingestionVars

-----------------------------------------------------------------------------
(* The serializer                                                          *)

AllDone == \A w \in Worker : Idle(w) /\ done[w] = Len(Jobs[w])

\* The serializer runs after all of the other tasks, and only if none failed.
At(step) == AllDone /\ ~hasErr /\ result = "none" /\ building = step

Follow(step) == building' = step /\ UNCHANGED result
Fail == result' = "failed" /\ UNCHANGED building

FlushLogs ==
  /\ At("logs")
  /\ \E ok \in BOOLEAN :
       /\ WriteLogs(ok)
       /\ logs' = IF ok THEN {} ELSE logs
       /\ IF ok THEN Follow("timelines") ELSE Fail
  /\ UNCHANGED <<strToID, idToStr, structVars, flushLock, unflushed, err, file, stack,
                 done, hasErr, paths>>

WriteTimelines ==
  /\ At("timelines")
  /\ \/ written' = written \cup paths /\ Follow("client")
     \/ UNCHANGED written /\ Fail
  /\ UNCHANGED <<poolVars, done, hasErr, logs, paths>>

\* InternPool.Flush returns the error of the first write that failed, if any.
FlushPool(pool) ==
  /\ At(pool)
  /\ flushLock[pool] = None
  /\ FlushLocked(pool)
  /\ IF err'[pool] THEN Fail
     ELSE IF pool = "client" THEN Follow("server")
     ELSE result' = "ok" /\ UNCHANGED building
  /\ UNCHANGED <<strToID, idToStr, structVars, flushLock, stack, done, hasErr, logs,
                 paths, written>>

Build == FlushLogs \/ WriteTimelines \/ \E pool \in Pool : FlushPool(pool)

Next == Build \/ \E w \in Worker : Work(w)

Spec == Init /\ [][Next]_vars

-----------------------------------------------------------------------------
(***************************************************************************)
(* Properties                                                              *)
(***************************************************************************)

AllJobs == UNION {Range(Jobs[w]) : w \in Worker}

EntryDecodes(e) ==
  /\ StringDecodes(Last(e.text), e.job.text)
  /\ e.job.kind = "log" => Last(e.body) \in Decoded[e.job.body]

\* A file that was built without an error has each log and timeline, once, and from
\* the file alone all of it decodes to what was logged, however the workers took
\* turns and wherever chunks were cut.
FileIsComplete ==
  result = "ok" =>
    /\ twice = {} /\ \A i, j \in file : i.ref = j.ref => i = j
    /\ {e.job : e \in written} = AllJobs
    /\ \A e \in written : EntryDecodes(e)

\* A write that failed is always noticed, though interning ignores it when it occurs.
ErrorsSurface ==
  result = "ok" => ~hasErr /\ \A pool \in Pool : ~err[pool] /\ unflushed[pool] = {}

\* What holds of the ingestion at any time.
IngestionSafe == ReferencesResolve /\ FileIsComplete /\ ErrorsSurface

=============================================================================
