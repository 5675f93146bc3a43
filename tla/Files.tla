--------------------------------- MODULE Files --------------------------------
(***************************************************************************)
(* The components that take in files and write them, side by side: the     *)
(* files of a form field, one chunked upload, the asynchronous tasks that  *)
(* verify files, the import of inspections, and the workers that fill the  *)
(* file of an inspection with logs and with timelines.  They share no      *)
(* variable.                                                               *)
(***************************************************************************)
EXTENDS FileUpload, Integers, Sequences

CONSTANTS
  TotalSize, ChunkSize, MaxConcurrency, MaxRetries,  \* of ChunkedUpload
  Slot, Key,                                         \* of AsyncTask
  Importer, MaxRestarts,                             \* of ImportSession
  Worker, None,                                      \* of the two that follow
  Text, Struct, Names, Values, BatchLimit, Jobs,     \* of LogIngestion
  LogBatch,
  Path, ChangeSets, Threshold, Serializer            \* of TimelineAccumulator

VARIABLES
  chunked_client, chunked_upload, chunked_tries, chunked_firstError,
  chunked_request, chunked_asked, chunked_answer, chunked_open, chunked_taker,
  chunked_received, chunked_written, chunked_temp, chunked_expired, chunked_doomed,
  task_cache, task_inFlight, task_slotOf, task_keyOf, task_running,
  task_cancelled, task_outdated, task_tainted,
  import_chunk, import_parts, import_temp, import_tokens, import_ids, import_step,
  import_token, import_id, import_file, import_registered, import_old,
  import_restarts,
  log_strToID, log_idToStr, log_fieldSetToID, log_idToFieldSet,
  log_structToID, log_flatStructs, log_storeLock, log_flushLock,
  log_unflushed, log_err, log_file, log_twice, log_stack, log_done,
  log_hasErr, log_logs, log_paths, log_written, log_building, log_result,
  tl_builderOf, tl_pending, tl_ever, tl_pendingCount, tl_flushLock,
  tl_toVisit, tl_visited, tl_extracted, tl_flushed, tl_twice, tl_hierarchy,
  tl_done, tl_at, tl_added, tl_builder, tl_hasErr, tl_result

chunkedVars ==
  <<chunked_client, chunked_upload, chunked_tries, chunked_firstError,
    chunked_request, chunked_asked, chunked_answer, chunked_open, chunked_taker,
    chunked_received, chunked_written, chunked_temp, chunked_expired,
    chunked_doomed>>
taskVars ==
  <<task_cache, task_inFlight, task_slotOf, task_keyOf, task_running,
    task_cancelled, task_outdated, task_tainted>>
importVars ==
  <<import_chunk, import_parts, import_temp, import_tokens, import_ids,
    import_step, import_token, import_id, import_file, import_registered,
    import_old, import_restarts>>
logVars ==
  <<log_strToID, log_idToStr, log_fieldSetToID, log_idToFieldSet,
    log_structToID, log_flatStructs, log_storeLock, log_flushLock,
    log_unflushed, log_err, log_file, log_twice, log_stack, log_done,
    log_hasErr, log_logs, log_paths, log_written, log_building, log_result>>
timelineVars ==
  <<tl_builderOf, tl_pending, tl_ever, tl_pendingCount, tl_flushLock,
    tl_toVisit, tl_visited, tl_extracted, tl_flushed, tl_twice, tl_hierarchy,
    tl_done, tl_at, tl_added, tl_builder, tl_hasErr, tl_result>>

Chunked ==
  INSTANCE ChunkedUpload WITH
    client <- chunked_client, upload <- chunked_upload, tries <- chunked_tries,
    firstError <- chunked_firstError, request <- chunked_request,
    asked <- chunked_asked, answer <- chunked_answer, open <- chunked_open,
    taker <- chunked_taker, received <- chunked_received,
    written <- chunked_written, temp <- chunked_temp, expired <- chunked_expired,
    doomed <- chunked_doomed

Async ==
  INSTANCE AsyncTask WITH
    cache <- task_cache, inFlight <- task_inFlight, slotOf <- task_slotOf,
    keyOf <- task_keyOf, running <- task_running, cancelled <- task_cancelled,
    outdated <- task_outdated, tainted <- task_tainted

Import ==
  INSTANCE ImportSession WITH
    Client <- Importer, chunk <- import_chunk, parts <- import_parts,
    temp <- import_temp, tokens <- import_tokens, ids <- import_ids,
    step <- import_step, token <- import_token, id <- import_id,
    file <- import_file, registered <- import_registered, old <- import_old,
    restarts <- import_restarts

Logs ==
  INSTANCE LogIngestion WITH
    strToID <- log_strToID, idToStr <- log_idToStr,
    fieldSetToID <- log_fieldSetToID, idToFieldSet <- log_idToFieldSet,
    structToID <- log_structToID, flatStructs <- log_flatStructs,
    storeLock <- log_storeLock, flushLock <- log_flushLock,
    unflushed <- log_unflushed, err <- log_err, file <- log_file,
    twice <- log_twice, stack <- log_stack, done <- log_done,
    hasErr <- log_hasErr, logs <- log_logs, paths <- log_paths,
    written <- log_written, building <- log_building, result <- log_result

Timelines ==
  INSTANCE TimelineAccumulator WITH
    builderOf <- tl_builderOf, pending <- tl_pending, ever <- tl_ever,
    pendingCount <- tl_pendingCount, flushLock <- tl_flushLock,
    toVisit <- tl_toVisit, visited <- tl_visited, extracted <- tl_extracted,
    flushed <- tl_flushed, twice <- tl_twice, hierarchy <- tl_hierarchy,
    done <- tl_done, at <- tl_at, added <- tl_added, builder <- tl_builder,
    hasErr <- tl_hasErr, result <- tl_result

ASSUME UploadAssumption ==
  /\ Invalid \subseteq Session /\ NoFile \notin Session /\ NoFlight \notin Flight
  /\ {TotalSize, ChunkSize, MaxConcurrency} \subseteq Nat \ {0} /\ MaxRetries \in Nat

ASSUME ImportAssumption ==
  /\ IsFiniteSet(Importer) /\ MaxRestarts \in Nat

\* What a worker is given to do: the logs of an ingester, the timelines of a mapper.
JobSet == [kind : {"log"}, body : Struct, text : Text] \cup [kind : {"timeline"}, text : Text]

\* Struct stands for the maps in the logs: each of its own content, and none a part of
\* itself.  A log is given to one ingester, once; it has an insert ID
\* (pkg/api/googlecloud/logconvert/logconvert.go:32), so that no two are the same.
ASSUME IngestionAssumption ==
  /\ Names \in [Struct -> Seq(Text)] /\ Values \in [Struct -> Seq(Text \cup Struct)]
  /\ \A s \in Struct : Len(Names[s]) = Len(Values[s])
  /\ \A s, t \in Struct : Names[s] = Names[t] /\ Values[s] = Values[t] => s = t
  /\ \A X \in SUBSET Struct : X # {} =>
       \E s \in X : \A k \in DOMAIN Values[s] : Values[s][k] \notin X
  /\ Text \cap Struct = {} /\ None \notin Worker /\ None \notin Text
  /\ Jobs \in [Worker -> Seq(JobSet)]
  /\ \A w, v \in Worker : \A i \in DOMAIN Jobs[w], j \in DOMAIN Jobs[v] :
       Jobs[w][i].kind = "log" /\ Jobs[w][i] = Jobs[v][j] => w = v /\ i = j
  /\ BatchLimit \in Nat \ {0} /\ LogBatch \in Nat \ {0}

ASSUME TimelineAssumption ==
  /\ Threshold \in Nat \ {0} /\ {None, Serializer} \cap Worker = {} /\ None # Serializer
  /\ ChangeSets \in
       [Worker -> Seq([alias : {<<>>} \cup (Path \X Path), items : Seq(Path)])]

-----------------------------------------------------------------------------
(* What each component promises; that of FileUpload is its own.            *)

\* A file is handed over when all its bytes were written, and no sooner is the client told.
ChunkedUploadSafe == Chunked!ChunkedUploadSafe

\* One upload is one session: taken once, then delivered or removed.
SessionSpec == Chunked!SessionSpec

\* No result of a flight that was given up is memoised.
AsyncTaskSafe == Async!AsyncTaskSafe

\* A registered inspection is the file of its ID, and no file is left without a reason.
ImportSafe == Import!ImportSessionSafe

\* The file of an inspection has every log and timeline and what they refer to, once.
LogsSafe == Logs!IngestionSafe

\* A file that is taken in is whole, and a form shows the verdict on the file it has.
UploadsSafe == FileUploadSafe /\ ChunkedUploadSafe

\* Every item is in its timeline, that of an alias included, and the backlog is bounded.
TimelinesSafe == Timelines!TimelinesSafe

=============================================================================
