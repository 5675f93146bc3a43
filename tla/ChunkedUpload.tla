---------------------------- MODULE ChunkedUpload ---------------------------
(***************************************************************************)
(* One chunked upload, from end to end: executeChunkedUpload of the web    *)
(* client (web/src/app/services/api/chunked-uploader.ts), the session of   *)
(* ChunkSessionManager (pkg/server/chunkedupload), and the TTL cleaner     *)
(* (pkg/common/ttlcleaner).  Sessions do not touch each other, so there is *)
(* one, from the answer to StartSession on.                                *)
(*                                                                         *)
(* A request, or the answer to it, may be lost; the client then sees a     *)
(* network error while the handler may still run, and tries again.  Time   *)
(* is left out: a session expires at any moment after its last chunk.  Of  *)
(* the data only the offsets matter, since every attempt sends the same.   *)
(***************************************************************************)
EXTENDS Integers, Sequences, FiniteSets

CONSTANTS
  TotalSize, ChunkSize,
  MaxConcurrency,  \* maxConcurrency, at least 1
  MaxRetries       \* maxRetriesPerChunk

VARIABLES
  client,      \* where uploadFile is
  upload,      \* upload[i]: what the client knows of chunk i
  tries,       \* tries[i]: requests sent for chunk i
  firstError,  \* firstError # null
  request,     \* request[i][n]: the handler of the n-th request for chunk i
  asked,       \* of CompleteFileUpload and AbortFileUpload, those that were sent
  answer,      \* what FinalizeSession returned
  open,        \* m.sessions has the token
  taker,       \* who took it out
  received,    \* session.ReceivedRanges
  written,     \* the bytes of the temporary file that were written
  temp,        \* the temporary file
  expired,     \* ExpiresAt has passed
  doomed       \* the cleaner holds a snapshot in which it has

clientVars == <<client, upload, tries, firstError>>
sessionVars == <<open, taker, received, written, temp>>
vars == <<client, upload, tries, firstError, request, asked, answer,
          open, taker, received, written, temp, expired, doomed>>

Chunk == 1 .. (TotalSize + ChunkSize - 1) \div ChunkSize

Lesser(x, y) == IF x < y THEN x ELSE y

ByteRange(i) ==
  [start |-> (i - 1) * ChunkSize,
   end |-> (i - 1) * ChunkSize + Lesser(ChunkSize, TotalSize - (i - 1) * ChunkSize)]

Bytes(r) == r.start .. r.end - 1

TypeOK ==
  /\ client \in {"uploading", "completing", "aborting", "succeeded", "failed", "gone"}
  /\ upload \in [Chunk -> {"todo", "sending", "backoff", "uploaded", "dropped"}]
  /\ tries \in [Chunk -> 0 .. MaxRetries + 1]
  /\ firstError \in BOOLEAN
  /\ request \in [Chunk -> [1 .. MaxRetries + 1 -> {"none", "sent", "found", "ok", "refused"}]]
  /\ asked \subseteq {"complete", "abort"}
  /\ answer \in {"none", "ok", "error"}
  /\ open \in BOOLEAN
  /\ taker \in {"none", "finalize", "abort", "evict"}
  /\ received \in Seq({ByteRange(i) : i \in Chunk})
  /\ written \subseteq 0 .. TotalSize - 1
  /\ temp \in {"open", "delivered", "removed"}
  /\ expired \in BOOLEAN /\ doomed \in BOOLEAN

\* StartSession
Init ==
  /\ client = "uploading"
  /\ upload = [i \in Chunk |-> "todo"]
  /\ tries = [i \in Chunk |-> 0]
  /\ firstError = FALSE
  /\ request = [i \in Chunk |-> [n \in 1 .. MaxRetries + 1 |-> "none"]]
  /\ asked = {}
  /\ answer = "none"
  /\ open = TRUE
  /\ taker = "none"
  /\ received = <<>>
  /\ written = {}
  /\ temp = "open"
  /\ expired = FALSE
  /\ doomed = FALSE

-----------------------------------------------------------------------------
(* The client.                                                             *)

\* Mutant of Busy: a dropped call still counts as running.
BusyOrDropped == {i \in Chunk : upload[i] \notin {"todo", "uploaded"}}

\* The chunks a worker is busy with.
Busy == {i \in Chunk : upload[i] \in {"sending", "backoff"}}

\* The next attempt for chunk i leaves; its number names the request.
Send(i) ==
  /\ upload' = [upload EXCEPT ![i] = "sending"]
  /\ tries' = [tries EXCEPT ![i] = @ + 1]
  /\ request' = [request EXCEPT ![i][tries[i] + 1] = "sent"]

\* A worker takes the next index.
TakeChunk(i) ==
  /\ client = "uploading" /\ ~firstError
  /\ upload[i] = "todo" /\ \A j \in 1 .. i - 1 : upload[j] # "todo"
  /\ Cardinality(Busy) < MaxConcurrency
  /\ Send(i)
  /\ UNCHANGED <<client, firstError, asked, answer, sessionVars, expired, doomed>>

Acknowledged(i) ==
  /\ client = "uploading" /\ upload[i] = "sending"
  /\ request[i][tries[i]] = "ok"
  /\ upload' = [upload EXCEPT ![i] = "uploaded"]
  /\ UNCHANGED <<client, tries, firstError, request, asked, answer, sessionVars, expired, doomed>>

\* The worker gives up, and the abort signal stops the others: a call of theirs
\* that is under way fails with a cancellation, which is not retried.
GiveUp ==
  /\ firstError' = TRUE
  /\ upload' = [j \in Chunk |-> IF j \in Busy THEN "dropped" ELSE upload[j]]
  /\ UNCHANGED tries

\* The handler refused the chunk: not a transient error.
RefusedByServer(i) ==
  /\ client = "uploading" /\ upload[i] = "sending"
  /\ request[i][tries[i]] = "refused"
  /\ GiveUp
  /\ UNCHANGED <<client, request, asked, answer, sessionVars, expired, doomed>>

\* chunkRetryCount <= maxRetriesPerChunk; a network error is retryable.
Retryable(i) == tries[i] <= MaxRetries

NetworkError(i) ==
  /\ client = "uploading" /\ upload[i] = "sending"
  /\ \/ Retryable(i) /\ upload' = [upload EXCEPT ![i] = "backoff"] /\ UNCHANGED <<tries, firstError>>
     \/ ~Retryable(i) /\ GiveUp
  /\ UNCHANGED <<client, request, asked, answer, sessionVars, expired, doomed>>

Retry(i) ==
  /\ client = "uploading" /\ upload[i] = "backoff"
  /\ Send(i)
  /\ UNCHANGED <<client, firstError, asked, answer, sessionVars, expired, doomed>>

\* The user aborts; the CancellationError thrown then counts as the first error.
AbortedByUser ==
  /\ client = "uploading" /\ ~firstError
  /\ GiveUp
  /\ UNCHANGED <<client, request, asked, answer, sessionVars, expired, doomed>>

\* All workers have ended: the session is completed, or aborted after an error.
WorkersEnd ==
  /\ client = "uploading" /\ Busy = {}
  /\ \/ /\ ~firstError /\ \A i \in Chunk : upload[i] = "uploaded"
        /\ client' = "completing" /\ asked' = asked \cup {"complete"}
     \/ /\ firstError
        /\ client' = "aborting" /\ asked' = asked \cup {"abort"}
  /\ UNCHANGED <<upload, tries, firstError, request, answer, sessionVars, expired, doomed>>

CompleteSucceeds ==
  /\ client = "completing" /\ answer = "ok"
  /\ client' = "succeeded"
  /\ UNCHANGED <<upload, tries, firstError, request, asked, answer, sessionVars, expired, doomed>>

\* The answer is an error, or the call is lost.
CompleteFails ==
  /\ client = "completing"
  /\ client' = "aborting" /\ asked' = asked \cup {"abort"}
  /\ UNCHANGED <<upload, tries, firstError, request, answer, sessionVars, expired, doomed>>

\* Best-effort abort: whatever comes of it, the first error is thrown.
AbortReturns ==
  /\ client = "aborting"
  /\ client' = "failed"
  /\ UNCHANGED <<upload, tries, firstError, request, asked, answer, sessionVars, expired, doomed>>

\* The tab is closed.
ClientGone ==
  /\ client \in {"uploading", "completing", "aborting"}
  /\ client' = "gone"
  /\ UNCHANGED <<upload, tries, firstError, request, asked, answer, sessionVars, expired, doomed>>

-----------------------------------------------------------------------------
(* The session on the server.  Its own mutex covers the second step of each *)
(* handler, the manager's the first.                                        *)

\* WriteChunk looks the session up.
FindSession(i, n) ==
  /\ request[i][n] = "sent"
  /\ request' = [request EXCEPT ![i][n] = IF open THEN "found" ELSE "refused"]
  /\ UNCHANGED <<clientVars, asked, answer, sessionVars, expired, doomed>>

\* WriteAt fails on a closed file.
Writable == temp = "open"

\* WriteChunk holds the session's mutex and writes.
WriteChunk(i, n) ==
  /\ request[i][n] = "found"
  /\ Writable
  /\ request' = [request EXCEPT ![i][n] = "ok"]
  /\ received' = Append(received, ByteRange(i))
  /\ written' = written \cup Bytes(ByteRange(i))
  /\ expired' = FALSE
  /\ UNCHANGED <<clientVars, asked, answer, open, taker, temp, doomed>>

\* The file is closed, or the disk is full.
WriteFails(i, n) ==
  /\ request[i][n] = "found"
  /\ request' = [request EXCEPT ![i][n] = "refused"]
  /\ UNCHANGED <<clientVars, asked, answer, sessionVars, expired, doomed>>

\* Mutant of Take: the session stays in the map until its file is dealt with.
TakeLater(by) ==
  /\ open
  /\ taker' = by
  /\ UNCHANGED open

\* Looked up and deleted under the manager's mutex.
Take(by) ==
  /\ open
  /\ open' = FALSE
  /\ taker' = by

FinalizeSession ==
  /\ "complete" \in asked /\ answer = "none"
  /\ \/ Take("finalize") /\ UNCHANGED answer
     \/ ~open /\ taker # "finalize" /\ answer' = "error" /\ UNCHANGED <<open, taker>>
  /\ UNCHANGED <<clientVars, request, asked, received, written, temp, expired, doomed>>

AbortSession ==
  /\ "abort" \in asked
  /\ Take("abort")
  /\ UNCHANGED <<clientVars, request, asked, answer, received, written, temp, expired, doomed>>

\* The orders sort.Slice may put the ranges in: where each comes from.
Orders(ranges) ==
  {from \in [DOMAIN ranges -> DOMAIN ranges] :
     \A i, j \in DOMAIN ranges :
       i < j => from[i] # from[j] /\ ranges[from[i]].start <= ranges[from[j]].start}

\* Ranges are not empty, so two with the same start fail in either order.
ValidateReceivedRanges(ranges) ==
  \E from \in Orders(ranges) :
    LET sorted == [i \in DOMAIN ranges |-> ranges[from[i]]]
        last == Len(ranges)
    IN /\ ranges # <<>>
       /\ sorted[1].start = 0
       /\ \A i \in 1 .. last - 1 : sorted[i].end = sorted[i + 1].start
       /\ sorted[last].end = TotalSize

\* The second half of FinalizeSession, under the session's mutex; closing or
\* renaming the file may fail.
FinishFinalize ==
  /\ taker = "finalize" /\ temp = "open"
  /\ \/ /\ ValidateReceivedRanges(received)
        /\ temp' = "delivered" /\ answer' = "ok"
     \/ temp' = "removed" /\ answer' = "error"
  /\ UNCHANGED <<clientVars, request, asked, open, taker, received, written, expired, doomed>>

\* The second half of AbortSession, for the client or the cleaner.
FinishAbort ==
  /\ taker \in {"abort", "evict"} /\ temp # "removed"
  /\ temp' = "removed"
  /\ UNCHANGED <<clientVars, request, asked, answer, open, taker, received, written, expired, doomed>>

\* The TTL passes without a chunk.
Expire ==
  /\ open /\ ~expired
  /\ expired' = TRUE
  /\ UNCHANGED <<clientVars, request, asked, answer, sessionVars, doomed>>

\* Sweep takes its snapshot with Expirations.
Expirations ==
  /\ open /\ expired /\ ~doomed
  /\ doomed' = TRUE
  /\ UNCHANGED <<clientVars, request, asked, answer, sessionVars, expired>>

\* Mutant of Evict: an expired session is seen, and kept.
EvictNothing ==
  /\ doomed
  /\ doomed' = FALSE
  /\ UNCHANGED <<clientVars, request, asked, answer, sessionVars, expired>>

\* Sweep evicts what had expired in the snapshot.
Evict ==
  /\ doomed
  /\ doomed' = FALSE
  /\ \/ Take("evict")
     \/ ~open /\ UNCHANGED <<open, taker>>
  /\ UNCHANGED <<clientVars, request, asked, answer, received, written, temp, expired>>

Sweeper == Expirations \/ Evict

\* All is over.
Quiet ==
  /\ client \in {"succeeded", "failed", "gone"} /\ temp # "open" /\ ~doomed
  /\ UNCHANGED vars

ClientStep ==
  \/ \E i \in Chunk : \/ TakeChunk(i) \/ Acknowledged(i) \/ RefusedByServer(i)
                      \/ NetworkError(i) \/ Retry(i)
  \/ WorkersEnd \/ CompleteSucceeds \/ CompleteFails \/ AbortReturns

Handler(i, n) == FindSession(i, n) \/ WriteChunk(i, n) \/ WriteFails(i, n)

Next ==
  \/ ClientStep \/ AbortedByUser \/ ClientGone
  \/ \E i \in Chunk, n \in 1 .. MaxRetries + 1 : Handler(i, n)
  \/ FinalizeSession \/ AbortSession \/ FinishFinalize \/ FinishAbort
  \/ Expire \/ Sweeper
  \/ Quiet

Spec == Init /\ [][Next]_vars

\* Handlers and the cleaner run on; the client's calls end, if only in a timeout.
\* Nothing else is fair: no request has to arrive.
Fairness ==
  /\ WF_vars(ClientStep)
  /\ WF_vars(FinishFinalize) /\ WF_vars(FinishAbort)
  /\ WF_vars(Expire) /\ WF_vars(Sweeper)

FairSpec == Spec /\ Fairness

-----------------------------------------------------------------------------

\* Tiles: each byte lies in exactly one of the ranges.
Tiled(ranges) ==
  \A b \in 0 .. TotalSize - 1 :
    Cardinality({k \in DOMAIN ranges : b \in Bytes(ranges[k])}) = 1

\* A file that is handed over was written from the first byte to the last, each
\* recorded once, whatever handlers of earlier attempts did meanwhile.
DeliveredIsComplete ==
  temp = "delivered" => written = 0 .. TotalSize - 1 /\ Tiled(received)

\* The client is told of success only if the file was handed over, and what it
\* was told stays true.
SuccessIsDelivered ==
  client = "succeeded" => temp = "delivered"

\* The bytes a client was told of are in the file as long as there is one: an
\* acknowledgement is never given for a chunk that was not recorded.
AcknowledgedIsRecorded ==
  \A i \in Chunk :
    Cardinality({k \in DOMAIN received : received[k] = ByteRange(i)})
      = Cardinality({n \in DOMAIN request[i] : request[i][n] = "ok"})

\* Every call of the client ends.
UploadEnds == <>(client \in {"succeeded", "failed", "gone"})

AbstractSession ==
  INSTANCE ChunkSession WITH
    session <- IF temp # "open" THEN temp ELSE IF open THEN "open" ELSE "taken"

\* One upload is one session: taken once, by whichever of a completion, an abort and
\* the cleaner comes first, then delivered or removed, and that is final.
SessionSpec == AbstractSession!Steps

\* If the process runs on, no session is left.
SessionEnds == AbstractSession!Fairness

\* What holds of the bytes of an upload at any time.
ChunkedUploadSafe ==
  TypeOK /\ DeliveredIsComplete /\ SuccessIsDelivered /\ AcknowledgedIsRecorded

=============================================================================
