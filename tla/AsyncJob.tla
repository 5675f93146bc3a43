------------------------------- MODULE AsyncJob -----------------------------
(***************************************************************************)
(* AsyncJobManager (pkg/server/streamingutil/async_job.go), with the       *)
(* clients that open workbenches through it (OpenWorkbenchSync and         *)
(* legacy-polling.interceptor.ts): a client starts a job, learns its ID    *)
(* unless the answer is lost, and polls it.  The manager is one for all    *)
(* clients, and knows them by the ID they send; IDs are numbered from 1 in *)
(* each process.                                                           *)
(*                                                                         *)
(* Time is what the cleaner compares: whether a job was polled within      *)
(* abandonTimeout, and whether its expiresAt has passed.  Left out: the    *)
(* progress a job reports.                                                 *)
(***************************************************************************)
EXTENDS Naturals, FiniteSets

CONSTANTS
  Client,
  MaxJobs,      \* jobs a process starts
  MaxRestarts

VARIABLES
  job,        \* job[j]: "none", or what its goroutine came to
  jobs,       \* the IDs in m.jobs
  current,    \* currentJobID, 0 if none
  cancelled,  \* those whose context is cancelled
  quiet,      \* those whose lastPollAt is more than abandonTimeout ago
  expired,    \* those whose expiresAt has passed
  sweep,      \* what the cleaner has still to evict
  generated,  \* IDs generated by this process
  closed,     \* Close was called
  client,     \* client[c]: where the call of c is
  id,         \* id[c]: the job c polls
  restarts

timeVars == <<quiet, expired, sweep>>
jobVars == <<job, jobs, current, cancelled, generated>>
vars == <<jobVars, timeVars, closed, client, id, restarts>>

Job == 1 .. MaxJobs

TypeOK ==
  /\ job \in [Job -> {"none", "running", "done", "error"}]
  /\ jobs \subseteq Job /\ current \in {0} \cup Job
  /\ cancelled \subseteq Job /\ quiet \subseteq Job /\ expired \subseteq Job
  /\ sweep \subseteq Job
  /\ generated \in {0} \cup Job
  /\ closed \in BOOLEAN
  /\ client \in [Client -> {"calling", "started", "polling", "ready", "failed", "gone"}]
  /\ id \in [Client -> {0} \cup Job]
  /\ restarts \in 0 .. MaxRestarts

NoJobs == [j \in Job |-> "none"]

Init ==
  /\ job = NoJobs /\ jobs = {} /\ current = 0
  /\ cancelled = {} /\ quiet = {} /\ expired = {} /\ sweep = {}
  /\ generated = 0 /\ closed = FALSE
  /\ client = [c \in Client |-> "calling"]
  /\ id = [c \in Client |-> 0]
  /\ restarts = 0

Running == {j \in Job : job[j] = "running"}

-----------------------------------------------------------------------------
(* Poll.                                                                   *)

\* Mutant of Superseded: the job is cancelled when it is over.
SupersededIfOver == {j \in jobs \ Running : j = current}

\* The previous job, unless it is over.
Superseded == {j \in jobs \cap Running : j = current}

StartJob(c) ==
  /\ client[c] = "calling" /\ generated < MaxJobs
  /\ generated' = generated + 1
  /\ job' = [job EXCEPT ![generated'] = "running"]
  /\ jobs' = jobs \cup {generated'}
  /\ current' = generated'
  /\ cancelled' = cancelled \cup Superseded
  /\ client' = [client EXCEPT ![c] = "started"]
  /\ id' = [id EXCEPT ![c] = generated']
  /\ UNCHANGED <<timeVars, closed, restarts>>

Answered(c, outcome) ==
  client' = [client EXCEPT ![c] = CASE outcome = "done" -> "ready"
                                    [] outcome = "error" -> "failed"
                                    [] outcome = "running" -> "polling"]

\* The job is over at once, or fastWait is.
FastAnswer(c) ==
  /\ client[c] = "started"
  /\ Answered(c, job[id[c]])
  /\ UNCHANGED <<jobVars, timeVars, closed, id, restarts>>

\* The interceptor sends the call again, without an ID.
AnswerLost(c) ==
  /\ client[c] = "started"
  /\ client' = [client EXCEPT ![c] = "calling"]
  /\ id' = [id EXCEPT ![c] = 0]
  /\ UNCHANGED <<jobVars, timeVars, closed, restarts>>

PollJob(c) ==
  /\ client[c] = "polling" /\ id[c] \in jobs
  /\ quiet' = quiet \ {id[c]}
  /\ expired' = IF id[c] \in Running THEN expired \ {id[c]} ELSE expired
  /\ Answered(c, job[id[c]])
  /\ UNCHANGED <<jobVars, sweep, closed, id, restarts>>

\* The error is not one the client tries again after.
JobNotFound(c) ==
  /\ client[c] = "polling" /\ id[c] \notin jobs
  /\ client' = [client EXCEPT ![c] = "failed"]
  /\ UNCHANGED <<jobVars, timeVars, closed, id, restarts>>

\* The goroutine: the work fails of itself, or stops early when its context is
\* cancelled, if it looks.
JobEnds(j, outcome) ==
  /\ j \in Running
  /\ job' = [job EXCEPT ![j] = outcome]
  /\ expired' = expired \ {j}
  /\ UNCHANGED <<jobs, current, cancelled, generated, quiet, sweep, closed, client, id, restarts>>

-----------------------------------------------------------------------------
(* The client leaves, Cancel, the cleaner, and Close.                      *)

\* Aborted, the client cancels the job it knows of.
Leave(c) ==
  /\ client[c] \in {"calling", "started", "polling"}
  /\ client' = [client EXCEPT ![c] = "gone"]
  /\ cancelled' = IF client[c] = "polling" THEN cancelled \cup (jobs \cap {id[c]}) ELSE cancelled
  /\ UNCHANGED <<job, jobs, current, generated, timeVars, closed, id, restarts>>

TimePasses(j) ==
  /\ \/ j \in Running \ quiet /\ quiet' = quiet \cup {j} /\ UNCHANGED expired
     \/ /\ job[j] # "none" /\ (j \in Running => j \in quiet) /\ j \notin expired
        /\ expired' = expired \cup {j} /\ UNCHANGED quiet
  /\ UNCHANGED <<jobVars, sweep, closed, client, id, restarts>>

\* Mutant of Expirations: only jobs that are over are looked at.
ExpirationsOfEnded ==
  /\ ~closed /\ sweep = {}
  /\ sweep' = (jobs \cap expired) \ Running
  /\ UNCHANGED <<job, jobs, current, cancelled, generated, quiet, expired, closed, client, id, restarts>>

Expirations ==
  /\ ~closed /\ sweep = {}
  /\ cancelled' = cancelled \cup (jobs \cap Running \cap quiet)
  /\ sweep' = jobs \cap expired
  /\ UNCHANGED <<job, jobs, current, generated, quiet, expired, closed, client, id, restarts>>

\* The snapshot may be out of date.
Evict(j) ==
  /\ j \in sweep
  /\ sweep' = sweep \ {j}
  /\ cancelled' = cancelled \cup (jobs \cap {j})
  /\ jobs' = jobs \ {j}
  /\ UNCHANGED <<job, current, generated, quiet, expired, closed, client, id, restarts>>

\* The cleaner has stopped, its sweep is over.  Jobs may still be started.
Close ==
  /\ ~closed /\ sweep = {}
  /\ closed' = TRUE
  /\ cancelled' = cancelled \cup jobs
  /\ jobs' = {}
  /\ UNCHANGED <<job, current, generated, timeVars, client, id, restarts>>

\* Calls fail with the process, except those the client has not sent yet.
Restart ==
  /\ restarts < MaxRestarts /\ restarts' = restarts + 1
  /\ job' = NoJobs /\ jobs' = {} /\ current' = 0
  /\ cancelled' = {} /\ quiet' = {} /\ expired' = {} /\ sweep' = {}
  /\ generated' = 0 /\ closed' = FALSE
  /\ client' = [c \in Client |-> IF client[c] = "started" THEN "calling" ELSE client[c]]
  /\ UNCHANGED id

Ends(j) == \E outcome \in {"done", "error"} : JobEnds(j, outcome)
Cleaner == Expirations \/ \E j \in Job : Evict(j)
PollStep(c) == StartJob(c) \/ FastAnswer(c) \/ AnswerLost(c) \/ PollJob(c) \/ JobNotFound(c)

Next ==
  \/ \E c \in Client : PollStep(c) \/ Leave(c)
  \/ \E j \in Job : Ends(j) \/ TimePasses(j)
  \/ Cleaner \/ Close \/ Restart

Spec == Init /\ [][Next]_vars

\* The cleaner runs every ten seconds, time passes, and the work stops when cancelled.
Fairness ==
  /\ WF_vars(Expirations)
  /\ \A j \in Job : /\ WF_vars(Evict(j)) /\ WF_vars(TimePasses(j))
                    /\ WF_vars(j \in cancelled /\ Ends(j))

FairSpec == Spec /\ Fairness

-----------------------------------------------------------------------------

\* However calls are lost, repeated, cancelled and swept: at most one job works that
\* has not been told to stop.
OneLiveJob == Cardinality(Running \ cancelled) <= 1

\* A job that is swept while a poll renews it had been told to stop before.
SweptAreCancelled == \A j \in sweep \cap Running : j \in cancelled

Polled(j) == \E c \in Client : id[c] = j /\ PollJob(c)

\* A job that nobody polls any more does not work for ever: not when its client has
\* left or is silent, nor when the client never learned its ID and could not cancel
\* it.  (Whoever still polls the ID, which a restart gives out again, keeps it.)
AbandonedEnds ==
  \A j \in Job : []<><<Polled(j)>>_vars \/ []<>(job[j] # "running" \/ closed)

\* What holds of the jobs at any time.
AsyncJobSafe == TypeOK /\ OneLiveJob /\ SweptAreCancelled

=============================================================================
