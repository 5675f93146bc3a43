-------------------------------- MODULE Server --------------------------------
(***************************************************************************)
(* What a server keeps for its clients, side by side: the workbenches, the *)
(* loading of one, the index of an inspection and the search in it, the    *)
(* estimates of log queries, the jobs that are polled, and the popups of a *)
(* login.  They share no variable.                                         *)
(***************************************************************************)
EXTENDS WorkbenchManager, Sequences

CONSTANTS
  Worker, Chunks,                         \* of WorkbenchLoad
  Workbench,                              \* of InspectionIndex
  Slot, Key, Failing, Flight, NoFlight, MaxEdits,  \* of CachedEstimator
  Client, MaxJobs, MaxRestarts,           \* of AsyncJob
  MaxRequests, MaxRedirects, Capacity,    \* of OAuthPopup
  Char, Letter, Digit, Escape, Reserved, MaxHeight, Search  \* of LogSearch

VARIABLES
  load_file, load_reader, load_sent, load_taken, load_work, load_stopped,
  load_results, load_buffered, load_ingested, load_strings, load_collector,
  load_cancelled, load_outcome,
  index_mem, index_disk, index_tmp, index_event, index_load, index_build,
  index_pending, index_asks, index_workbench, index_initial, index_inbox,
  index_importer, index_closed, index_built,
  est_cache, est_flights, est_active, est_call, est_query, est_waiting,
  est_answer, est_edits, est_closed,
  job_job, job_jobs, job_current, job_cancelled, job_quiet, job_expired,
  job_sweep, job_generated, job_closed, job_client, job_id, job_restarts,
  oauth_phase, oauth_answered, oauth_popup, oauth_current, oauth_dismissing,
  oauth_codes, oauth_login, oauth_of, oauth_inbox, oauth_screen, oauth_windows,
  search_search, search_index, search_evaluator, search_matched

loadVars ==
  <<load_file, load_reader, load_sent, load_taken, load_work, load_stopped,
    load_results, load_buffered, load_ingested, load_strings, load_collector,
    load_cancelled, load_outcome>>
indexVars ==
  <<index_mem, index_disk, index_tmp, index_event, index_load, index_build,
    index_pending, index_asks, index_workbench, index_initial, index_inbox,
    index_importer, index_closed, index_built>>
estVars ==
  <<est_cache, est_flights, est_active, est_call, est_query, est_waiting,
    est_answer, est_edits, est_closed>>
jobVars ==
  <<job_job, job_jobs, job_current, job_cancelled, job_quiet, job_expired,
    job_sweep, job_generated, job_closed, job_client, job_id, job_restarts>>
oauthVars ==
  <<oauth_phase, oauth_answered, oauth_popup, oauth_current, oauth_dismissing,
    oauth_codes, oauth_login, oauth_of, oauth_inbox, oauth_screen, oauth_windows>>
searchVars == <<search_search, search_index, search_evaluator, search_matched>>

Loading ==
  INSTANCE WorkbenchLoad WITH
    file <- load_file, reader <- load_reader, sent <- load_sent,
    taken <- load_taken, work <- load_work, stopped <- load_stopped,
    results <- load_results, buffered <- load_buffered,
    ingested <- load_ingested, strings <- load_strings,
    collector <- load_collector, cancelled <- load_cancelled,
    outcome <- load_outcome

Index ==
  INSTANCE InspectionIndex WITH
    mem <- index_mem, disk <- index_disk, tmp <- index_tmp, event <- index_event,
    load <- index_load, build <- index_build, pending <- index_pending,
    asks <- index_asks, workbench <- index_workbench, initial <- index_initial,
    inbox <- index_inbox, importer <- index_importer, closed <- index_closed,
    built <- index_built

Estimator ==
  INSTANCE CachedEstimator WITH
    cache <- est_cache, flights <- est_flights, active <- est_active,
    call <- est_call, query <- est_query, waiting <- est_waiting,
    answer <- est_answer, edits <- est_edits, closed <- est_closed

Jobs ==
  INSTANCE AsyncJob WITH
    job <- job_job, jobs <- job_jobs, current <- job_current,
    cancelled <- job_cancelled, quiet <- job_quiet, expired <- job_expired,
    sweep <- job_sweep, generated <- job_generated, closed <- job_closed,
    client <- job_client, id <- job_id, restarts <- job_restarts

OAuth ==
  INSTANCE OAuthPopup WITH
    phase <- oauth_phase, answered <- oauth_answered, popup <- oauth_popup,
    current <- oauth_current, dismissing <- oauth_dismissing,
    codes <- oauth_codes, login <- oauth_login, of <- oauth_of,
    inbox <- oauth_inbox, screen <- oauth_screen, windows <- oauth_windows

Searching ==
  INSTANCE LogSearch WITH
    search <- search_search, index <- search_index,
    evaluator <- search_evaluator, matched <- search_matched

ASSUME ServerAssumption ==
  /\ Worker # {} /\ Chunks \in Nat
  /\ {"importer", "builder"} \cap Workbench = {}
  /\ Failing \subseteq Key /\ NoFlight \notin Flight /\ "none" \notin Key
  /\ {MaxEdits, MaxJobs, MaxRestarts, MaxRequests, MaxRedirects} \subseteq Nat
  /\ Capacity \in Nat \ {0}

\* The patterns are any that Go parses, the texts any of the characters.
ASSUME SearchAssumption ==
  /\ MaxHeight \in Nat
  /\ {Searching!Quote, ":", " ", "\n"} \subseteq Char
  /\ Escape \in [DOMAIN Escape -> Seq(Char)]
  /\ Search \subseteq
       [name : Seq(Char), key : Seq(Char), value : Seq(Char), pattern : Searching!Pattern]

-----------------------------------------------------------------------------
(* What each component promises; that of WorkbenchManager is its own.      *)

\* A workbench that was loaded, and not cancelled meanwhile, has every chunk of its
\* file, and each of them once.
WorkbenchLoadSafe == Loading!WorkbenchLoadSafe

\* The dataset is read once for the index, and who is told of a ready index finds it.
InspectionIndexSafe == Index!InspectionIndexSafe

\* The answer of a search does not depend on when the index of the trigrams comes.
LogSearchSafe == Searching!LogSearchSafe

\* A query is estimated by one flight, which the slot that started it can cancel.
CachedEstimatorSafe == Estimator!CachedEstimatorSafe

\* At most one job works that was not told to stop, however calls are lost and swept.
AsyncJobSafe == Jobs!AsyncJobSafe

\* No popup takes the place of one that is awaited, and a code is exchanged once.
OAuthPopupSafe == OAuth!OAuthPopupSafe

=============================================================================
