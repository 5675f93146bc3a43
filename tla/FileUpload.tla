------------------------------ MODULE FileUpload ----------------------------
(***************************************************************************)
(* Files given to a form field: FileParameterUploadManager and             *)
(* UploadFileStore (pkg/server/upload), over the chunk sessions of         *)
(* ChunkSession and the asynchronous verification of AsyncTask, and the    *)
(* form task (pkg/core/inspection/formtask/fileform.go) that polls.        *)
(*                                                                         *)
(* Upload tokens do not touch each other, so there is one, already issued; *)
(* several sessions may upload to it.  The content of a file is the        *)
(* session that wrote it; the verifier refuses that of Invalid.            *)
(***************************************************************************)
EXTENDS FiniteSets

CONSTANTS
  Session,          \* as many uploads as are ever started
  Invalid,          \* those whose file the verifier refuses
  Flight, NoFlight, \* of AsyncTask
  NoFile

VARIABLES
  status,      \* results[token].Status
  sessionMap,  \* the sessions FileParameterUploadManager knows
  chunk,       \* chunk[s]: the session as ChunkSession describes it, "none" before
  start,       \* start[s]: where StartUploadSession is
  complete,    \* complete[s]: where CompleteUploadSession is
  file,        \* the content of the file at the destination path
  opened,      \* opened[f]: what the verifier of flight f reads
  poll,        \* GetResult has read status "Completed" and goes on to the verdict
  answer,      \* what the form last showed
  cache, inFlight, slotOf, keyOf, running, cancelled, outdated, tainted

asyncVars == <<cache, inFlight, slotOf, keyOf, running, cancelled, outdated, tainted>>
formVars == <<opened, poll, answer>>
vars == <<status, sessionMap, chunk, start, complete, file, formVars, asyncVars>>

Token == "token"

Verification == INSTANCE AsyncTask WITH Slot <- {Token}, Key <- {Token}
Chunks(s) == INSTANCE ChunkSession WITH session <- chunk[s]

verdict == cache[Token][Token]

TypeOK ==
  /\ status \in {"Waiting", "Uploading", "Completed"}
  /\ sessionMap \subseteq Session
  /\ chunk \in [Session -> {"none", "open", "taken", "delivered", "removed"}]
  /\ start \in [Session -> {"none", "marked", "created", "answered", "failed"}]
  /\ complete \in [Session -> {"none", "resolved", "finalizing", "renamed",
                               "unnoticed", "notified", "failed"}]
  /\ file \in Session \cup {NoFile}
  /\ opened \in [Flight -> Session \cup {NoFile}]
  /\ poll \in BOOLEAN
  /\ answer \in {"none", "Waiting", "Uploading", "Verifying", "accepted", "refused"}
  /\ Verification!TypeOK

\* GetUploadToken
Init ==
  /\ status = "Waiting"
  /\ sessionMap = {}
  /\ chunk = [s \in Session |-> "none"]
  /\ start = [s \in Session |-> "none"]
  /\ complete = [s \in Session |-> "none"]
  /\ file = NoFile
  /\ opened = [f \in Flight |-> NoFile]
  /\ poll = FALSE
  /\ answer = "none"
  /\ Verification!Init

\* The next step of session s, one of those of ChunkSession.
ChunkStep(s, to) ==
  /\ chunk' = [chunk EXCEPT ![s] = to]
  /\ Chunks(s)!Next

-----------------------------------------------------------------------------
(* StartUploadSession.                                                     *)

SetResultOnStartingUpload(s) ==
  /\ start[s] = "none"
  /\ start' = [start EXCEPT ![s] = "marked"]
  /\ status' = "Uploading"
  /\ UNCHANGED <<sessionMap, chunk, complete, file, formVars, asyncVars>>

\* The temporary file may fail to be created.
StartSession(s) ==
  /\ start[s] = "marked"
  /\ \/ /\ start' = [start EXCEPT ![s] = "created"]
        /\ chunk' = [chunk EXCEPT ![s] = "open"]
        /\ Chunks(s)!Init'
     \/ /\ start' = [start EXCEPT ![s] = "failed"]
        /\ UNCHANGED chunk
  /\ UNCHANGED <<status, sessionMap, complete, file, formVars, asyncVars>>

RememberSession(s) ==
  /\ start[s] = "created"
  /\ start' = [start EXCEPT ![s] = "answered"]
  /\ sessionMap' = sessionMap \cup {s}
  /\ UNCHANGED <<status, chunk, complete, file, formVars, asyncVars>>

-----------------------------------------------------------------------------
(* CompleteUploadSession.                                                  *)

Resolve(s) ==
  /\ start[s] = "answered" /\ complete[s] = "none"
  /\ s \in sessionMap
  /\ sessionMap' = sessionMap \ {s}
  /\ complete' = [complete EXCEPT ![s] = "resolved"]
  /\ UNCHANGED <<status, chunk, start, file, formVars, asyncVars>>

\* GetDestinationPath fails, or the session was aborted or evicted.
ResolveFails(s) ==
  /\ complete[s] = "resolved"
  /\ complete' = [complete EXCEPT ![s] = "failed"]
  /\ UNCHANGED <<status, sessionMap, chunk, start, file, formVars, asyncVars>>

TakeToFinalize(s) ==
  /\ complete[s] = "resolved" /\ chunk[s] = "open"
  /\ ChunkStep(s, "taken")
  /\ complete' = [complete EXCEPT ![s] = "finalizing"]
  /\ UNCHANGED <<status, sessionMap, start, file, formVars, asyncVars>>

\* The complete file is renamed to the destination path, over an older one.
FinalizeSession(s) ==
  /\ complete[s] = "finalizing"
  /\ ChunkStep(s, "delivered")
  /\ file' = s
  /\ complete' = [complete EXCEPT ![s] = "renamed"]
  /\ UNCHANGED <<status, sessionMap, start, formVars, asyncVars>>

FinalizeFails(s) ==
  /\ complete[s] = "finalizing"
  /\ ChunkStep(s, "removed")
  /\ complete' = [complete EXCEPT ![s] = "failed"]
  /\ UNCHANGED <<status, sessionMap, start, file, formVars, asyncVars>>

\* os.Stat fails: the new file stays, and the store does not learn of it.
StatFails(s) ==
  /\ complete[s] = "renamed"
  /\ complete' = [complete EXCEPT ![s] = "unnoticed"]
  /\ UNCHANGED <<status, sessionMap, chunk, start, file, formVars, asyncVars>>

\* Mutant of NotifyFileUploaded: the flight is cancelled, the verdict stays.
NotifyWithoutReset(s) ==
  /\ complete[s] = "renamed"
  /\ complete' = [complete EXCEPT ![s] = "notified"]
  /\ status' = "Completed"
  /\ \/ Verification!Cancel(Token)
     \/ inFlight[Token] = NoFlight /\ UNCHANGED asyncVars
  /\ UNCHANGED <<sessionMap, chunk, start, file, formVars>>

\* Under resultLock: the status, then the reset of the verification.
NotifyFileUploaded(s) ==
  /\ complete[s] = "renamed"
  /\ complete' = [complete EXCEPT ![s] = "notified"]
  /\ status' = "Completed"
  /\ Verification!Reset(Token)
  /\ UNCHANGED <<sessionMap, chunk, start, file, formVars>>

-----------------------------------------------------------------------------
(* AbortUploadSession and the TTL cleaner, which knows nothing of the map.  *)

ForgetSession(s) ==
  /\ s \in sessionMap
  /\ sessionMap' = sessionMap \ {s}
  /\ UNCHANGED <<status, chunk, start, complete, file, formVars, asyncVars>>

TakeToRemove(s) ==
  /\ chunk[s] = "open"
  /\ ChunkStep(s, "taken")
  /\ UNCHANGED <<status, sessionMap, start, complete, file, formVars, asyncVars>>

RemoveSession(s) ==
  /\ chunk[s] = "taken" /\ complete[s] # "finalizing"
  /\ ChunkStep(s, "removed")
  /\ UNCHANGED <<status, sessionMap, start, complete, file, formVars, asyncVars>>

-----------------------------------------------------------------------------
(* GetResult, called by each dry run of the form task, and the verifier.   *)

ReadStatus ==
  /\ ~poll
  /\ \/ status = "Completed" /\ poll' = TRUE /\ UNCHANGED answer
     \/ status # "Completed" /\ answer' = status /\ UNCHANGED poll
  /\ UNCHANGED <<status, sessionMap, chunk, start, complete, file, opened, asyncVars>>

\* Mutant of AskVerdict: a verdict is only looked up.
LookUpVerdict ==
  /\ poll /\ poll' = FALSE
  /\ answer' = CASE verdict = "completed" -> "accepted"
                 [] verdict = "failed" -> "refused"
                 [] OTHER -> "Verifying"
  /\ UNCHANGED asyncVars
  /\ UNCHANGED <<status, sessionMap, chunk, start, complete, file, opened>>

\* DoAsyncOrGet
AskVerdict ==
  /\ poll /\ poll' = FALSE
  /\ answer' = CASE verdict = "completed" -> "accepted"
                 [] verdict = "failed" -> "refused"
                 [] OTHER -> "Verifying"
  /\ \/ Verification!DoAsyncOrGet(Token, Token)
     \/ Verification!Known(Token, Token) /\ UNCHANGED asyncVars
  /\ UNCHANGED <<status, sessionMap, chunk, start, complete, file, opened>>

\* The verifier opens the file, and reads that one to the end.
OpenFile(f) ==
  /\ f \in running /\ opened[f] = NoFile
  /\ opened' = [opened EXCEPT ![f] = file]
  /\ UNCHANGED <<status, sessionMap, chunk, start, complete, file, poll, answer, asyncVars>>

Verdict(s) == IF s \in Invalid THEN "failed" ELSE "completed"

Verified(f) ==
  /\ opened[f] # NoFile
  /\ Verification!FlightEnds(f, Verdict(opened[f]))
  /\ opened' = [opened EXCEPT ![f] = NoFile]
  /\ UNCHANGED <<status, sessionMap, chunk, start, complete, file, poll, answer>>

Form == ReadStatus \/ AskVerdict
Verifier(f) == OpenFile(f) \/ Verified(f)

Completion(s) ==
  \/ ResolveFails(s) \/ TakeToFinalize(s) \/ FinalizeSession(s) \/ FinalizeFails(s)
  \/ StatFails(s) \/ NotifyFileUploaded(s)

Next ==
  \/ \E s \in Session : \/ SetResultOnStartingUpload(s) \/ StartSession(s) \/ RememberSession(s)
                        \/ Resolve(s) \/ Completion(s)
                        \/ ForgetSession(s) \/ TakeToRemove(s) \/ RemoveSession(s)
  \/ Form
  \/ \E f \in Flight : Verifier(f)

Spec == Init /\ [][Next]_vars

\* A handler runs to its end, the page keeps polling, and verifiers return.
Fairness ==
  /\ \A s \in Session : WF_vars(Completion(s))
  /\ WF_vars(ReadStatus) /\ WF_vars(AskVerdict)
  /\ \A f \in Flight : WF_vars(Verifier(f))

FairSpec == Spec /\ Fairness

-----------------------------------------------------------------------------

\* Between the rename and NotifyFileUploaded, or after a failed os.Stat, the store
\* does not know the file that is there.
Unknown == \E s \in Session : complete[s] = "renamed" \/ (complete[s] = "unnoticed" /\ file = s)

\* The verdict is that of the file the inspection will read, although files are
\* replaced while verifiers of older ones still run and while the form is asking.
VerdictIsOfTheFile ==
  ~Unknown /\ verdict # "absent" => verdict = Verdict(file)

\* An inspection that is told of a completed upload finds a file, and so does each
\* verifier.
CompletedHasFile ==
  status = "Completed" \/ poll \/ running # {} => file # NoFile

\* A form that is polled ends up showing the verdict of the file last uploaded, not
\* that of an older one, and not "is being processed".
VerdictArrives ==
  <>[](status = "Completed" /\ ~Unknown
         => answer = IF file \in Invalid THEN "refused" ELSE "accepted")

\* What the form and the inspection rely on.
FileUploadSafe == TypeOK /\ VerdictIsOfTheFile /\ CompletedHasFile

=============================================================================
