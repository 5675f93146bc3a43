---------------------------- MODULE ImportSession ---------------------------
(***************************************************************************)
(* Import of inspections: ImportSessionManager                             *)
(* (pkg/server/importinspection) over the chunk sessions of ChunkSession,  *)
(* and the inspections the server knows (pkg/core/inspection/server.go),   *)
(* while the process may be restarted at any time.                         *)
(*                                                                         *)
(* Upload tokens and inspection IDs are numbered from 1 in each process.   *)
(* A file is two chunks long, and its content the set of pairs of a chunk  *)
(* and the client that wrote it.                                           *)
(***************************************************************************)
EXTENDS Naturals, FiniteSets

CONSTANTS Client, MaxRestarts

VARIABLES
  chunk,      \* chunk[t]: the session of token t as ChunkSession describes it
  parts,      \* parts[t]: what its file received
  temp,       \* the tokens whose temporary file is there
  tokens,     \* tokens generated by this process
  ids,        \* inspection IDs generated by this process
  step,       \* step[c]: where the import of c is
  token, id,  \* token[c], id[c]: what c was given, 0 for nothing
  file,       \* file[i]: the content of the .khi file of i
  registered, \* registered[i]: the content InspectionTaskServer knows i to have
  old,        \* the IDs whose file an earlier process left
  restarts

sessionVars == <<chunk, parts, temp, tokens>>
fileVars == <<file, old, registered>>
vars == <<sessionVars, fileVars, ids, step, token, id, restarts>>

Number == 1 .. Cardinality(Client)
Content == SUBSET ({1, 2} \X Client)
NoContent == {}

Chunks(t) == INSTANCE ChunkSession WITH session <- chunk[t]

Handler == {"finalize", "validate", "rename", "measure", "register"}
Over == {"done", "refused", "unmeasured", "failed"}

TypeOK ==
  /\ chunk \in [Number -> {"none", "open", "taken", "delivered", "removed"}]
  /\ parts \in [Number -> Content]
  /\ temp \subseteq Number
  /\ tokens \in {0} \cup Number /\ ids \in {0} \cup Number
  /\ step \in [Client -> {"idle", "first", "second", "complete"} \cup Handler \cup Over]
  /\ token \in [Client -> {0} \cup Number] /\ id \in [Client -> {0} \cup Number]
  /\ file \in [Number -> Content] /\ registered \in [Number -> Content]
  /\ old \subseteq Number
  /\ restarts \in 0 .. MaxRestarts

Nothing == [n \in Number |-> NoContent]
NoSession == [t \in Number |-> "none"]

\* NewImportSessionManager
Init ==
  /\ chunk = NoSession /\ parts = Nothing /\ temp = {}
  /\ tokens = 0 /\ ids = 0
  /\ registered = Nothing
  /\ step = [c \in Client |-> "idle"]
  /\ token = [c \in Client |-> 0] /\ id = [c \in Client |-> 0]
  /\ file = Nothing /\ old = {}
  /\ restarts = 0

Go(c, from, to) == step[c] = from /\ step' = [step EXCEPT ![c] = to]

ChunkStep(of, to) ==
  \E t \in Number \cap {of} : chunk' = [chunk EXCEPT ![t] = to] /\ Chunks(t)!Next

-----------------------------------------------------------------------------

StartSession(c) ==
  /\ Go(c, "idle", "first")
  /\ tokens' = tokens + 1
  /\ token' = [token EXCEPT ![c] = tokens']
  /\ chunk' = [chunk EXCEPT ![tokens'] = "open"]
  /\ temp' = temp \cup {tokens'}
  /\ UNCHANGED <<parts, fileVars, ids, id, restarts>>

\* The server knows a client by its token only.
WriteChunk(c, n) ==
  /\ \/ n = 1 /\ Go(c, "first", "second")
     \/ n = 2 /\ Go(c, "second", "complete")
  /\ chunk[token[c]] = "open"
  /\ parts' = [parts EXCEPT ![token[c]] = @ \cup {<<n, c>>}]
  /\ UNCHANGED <<chunk, temp, tokens, fileVars, ids, token, id, restarts>>

\* Every call of c that uses its token finds no session.
SessionNotFound(c) ==
  /\ \E from \in {"first", "second", "finalize"} : Go(c, from, "failed")
  /\ chunk[token[c]] # "open"
  /\ UNCHANGED <<sessionVars, fileVars, ids, token, id, restarts>>

\* AbortImportInspection, and the cleaner that evicts the session of a client.
AbortSession(t) ==
  /\ chunk[t] = "open"
  /\ ChunkStep(t, "taken")
  /\ UNCHANGED <<parts, temp, tokens, fileVars, ids, step, token, id, restarts>>

\* The rest of AbortSession, or of a FinalizeSession that found the file incomplete.
RemoveTempFile(t) ==
  /\ chunk[t] = "taken"
  /\ \A c \in Client : ~(token[c] = t /\ step[c] = "validate")
  /\ ChunkStep(t, "removed")
  /\ temp' = temp \ {t}
  /\ UNCHANGED <<parts, tokens, fileVars, ids, step, token, id, restarts>>

-----------------------------------------------------------------------------
(* CompleteSession.                                                        *)

\* Mutant of GenerateID: the ID is one that another call may have read as well.
ReuseID(c) ==
  /\ Go(c, "complete", "finalize")
  /\ ids' = 1
  /\ id' = [id EXCEPT ![c] = ids']
  /\ UNCHANGED <<sessionVars, fileVars, token, restarts>>

GenerateID(c) ==
  /\ Go(c, "complete", "finalize")
  /\ ids' = ids + 1
  /\ id' = [id EXCEPT ![c] = ids']
  /\ UNCHANGED <<sessionVars, fileVars, token, restarts>>

\* ValidateReceivedRanges: each chunk arrived, and none twice.
Complete(t) == \A n \in {1, 2} : Cardinality({c \in Client : <<n, c>> \in parts[t]}) = 1

FinalizeSession(c) ==
  /\ ChunkStep(token[c], "taken")
  /\ \/ Complete(token[c]) /\ Go(c, "finalize", "validate")
     \/ ~Complete(token[c]) /\ Go(c, "finalize", "failed")
  /\ UNCHANGED <<parts, temp, tokens, fileVars, ids, token, id, restarts>>

\* The file is closed, which may fail, and ValidateAndExtractMetadata reads it: it may be
\* no KHI file, or not be readable.
Validate(c) ==
  /\ \/ Go(c, "validate", "rename") /\ ChunkStep(token[c], "delivered") /\ UNCHANGED temp
     \/ /\ Go(c, "validate", "refused") /\ ChunkStep(token[c], "delivered")
        /\ temp' = temp \ {token[c]}
     \/ /\ Go(c, "validate", "failed") /\ ChunkStep(token[c], "removed")
        /\ temp' = temp \ {token[c]}
  /\ UNCHANGED <<parts, tokens, fileVars, ids, token, id, restarts>>

\* Over an older file of that ID, which another process left.
Rename(c) ==
  /\ \/ /\ Go(c, "rename", "measure")
        /\ file' = [file EXCEPT ![id[c]] = parts[token[c]]] /\ old' = old \ {id[c]}
     \/ Go(c, "rename", "failed") /\ UNCHANGED <<file, old>>
  /\ temp' = temp \ {token[c]}
  /\ UNCHANGED <<chunk, parts, tokens, registered, ids, token, id, restarts>>

Measure(c) ==
  /\ Go(c, "measure", "register") \/ Go(c, "measure", "unmeasured")
  /\ UNCHANGED <<sessionVars, fileVars, ids, token, id, restarts>>

RegisterImportedInspection(c) ==
  /\ Go(c, "register", "done")
  /\ registered' = [registered EXCEPT ![id[c]] = parts[token[c]]]
  /\ UNCHANGED <<sessionVars, file, old, ids, token, id, restarts>>

CompleteSession(c) ==
  FinalizeSession(c) \/ Validate(c) \/ Rename(c) \/ Measure(c) \/ RegisterImportedInspection(c)

-----------------------------------------------------------------------------

\* The process ends, killed or by two handlers at the map of inspections (server.go:136,
\* :184).  Requests fail with it; a client between two of them does not notice.
Restart ==
  /\ restarts < MaxRestarts
  /\ restarts' = restarts + 1
  /\ chunk' = NoSession /\ parts' = Nothing /\ temp' = {}
  /\ tokens' = 0 /\ ids' = 0
  /\ registered' = Nothing
  /\ step' = [c \in Client |-> IF step[c] \in Handler THEN "failed" ELSE step[c]]
  /\ old' = {i \in Number : file[i] # NoContent}
  /\ UNCHANGED <<file, token, id>>

Next ==
  \/ \E c \in Client : \/ StartSession(c) \/ WriteChunk(c, 1) \/ WriteChunk(c, 2)
                       \/ SessionNotFound(c) \/ GenerateID(c) \/ CompleteSession(c)
  \/ \E t \in Number : AbortSession(t) \/ RemoveTempFile(t)
  \/ Restart

Spec == Init /\ [][Next]_vars

-----------------------------------------------------------------------------

\* The inspection an ID stands for is the file of that ID, although several imports
\* complete at once, fail at any step, and write over what earlier processes left.
RegisteredIsOnDisk ==
  \A i \in Number : registered[i] # NoContent => file[i] = registered[i]

\* A temporary file of this process is that of a session that is not over, or in the
\* hands of the CompleteSession that has still to rename or remove it.
TempFilesAreOwned ==
  \A t \in temp : \/ chunk[t] \in {"open", "taken"}
                  \/ \E c \in Client : token[c] = t /\ step[c] = "rename"

\* A .khi file that no inspection owns comes of an import under way, of a size that
\* could not be read (session.go:147), or of an earlier process.
OrphansAreExplained ==
  \A i \in Number : file[i] # NoContent /\ registered[i] = NoContent =>
    \/ \E c \in Client : id[c] = i /\ step[c] \in {"measure", "register", "unmeasured"}
    \/ i \in old

\* What holds of the files of imports at any time.
ImportSessionSafe == TypeOK /\ RegisteredIsOnDisk /\ TempFilesAreOwned /\ OrphansAreExplained

=============================================================================
