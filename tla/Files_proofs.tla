---------------------------- MODULE Files_proofs ---------------------------
(***************************************************************************)
(* Proofs about the components that take in files, for any sets and        *)
(* numbers of them: the imports, the file of a form field and the tasks    *)
(* that verify files, a chunked upload, and the timelines of the file of   *)
(* an inspection.  Those about its logs are in Logs_proofs.                *)
(***************************************************************************)
EXTENDS Files, FiniteSetTheorems, WellFoundedInduction, TLAPS

-----------------------------------------------------------------------------
(* Imports.  A token, a temporary file and an ID belong to one client at a *)
(* time, over a restart too, that gives out the numbers again.             *)

Taking == {"validate", "rename", "measure", "register"}

Uploading == {c \in Importer : import_step[c] # "idle"}
Numbered == {c \in Importer : import_step[c] \notin {"idle", "first", "second", "complete"}}

\* No more tokens and IDs than there were calls to be given one.
GivenOut ==
  /\ import_tokens <= Cardinality(Uploading) /\ import_ids <= Cardinality(Numbered)
  /\ \A t \in Import!Number : import_chunk[t] # "none" => t <= import_tokens
  /\ \A i \in Import!Number : import_registered[i] # {} => i <= import_ids
  /\ \A c \in Uploading : import_token[c] \in Import!Number

\* The ID of a CompleteSession is its own, and nothing is registered under it yet.
OwnID ==
  \A c \in Importer : import_step[c] \in Import!Handler =>
    /\ import_id[c] \in Import!Number /\ import_id[c] <= import_ids
    /\ import_registered[import_id[c]] = {}
    /\ \A d \in Importer : import_step[d] \in Import!Handler /\ import_id[d] = import_id[c] => d = c

\* One that took a session has it for itself, although clients of an earlier process may
\* use the same token.
OwnSession ==
  \A c \in Importer : import_step[c] \in Taking =>
    /\ import_chunk[import_token[c]] = IF import_step[c] = "validate" THEN "taken" ELSE "delivered"
    /\ \A d \in Importer : import_step[d] \in Taking /\ import_token[d] = import_token[c] => d = c
    /\ import_step[c] \in {"measure", "register"} =>
         import_file[import_id[c]] = import_parts[import_token[c]]

ImportIInv == ImportSafe /\ GivenOut /\ OwnID /\ OwnSession

\* One more call in a state is one more in the count of it.
LEMMA CountGrows ==
  ASSUME NEW S, NEW T, IsFiniteSet(T), S \subseteq T, NEW x \in T, x \notin S
  PROVE  Cardinality(S) \in Nat /\ Cardinality(S) + 1 <= Cardinality(T)
  <1>1. IsFiniteSet(S) /\ IsFiniteSet(S \cup {x}) /\ S \cup {x} \subseteq T
    BY FS_Subset, FS_AddElement
  <1>2. Cardinality(S \cup {x}) = Cardinality(S) + 1
    BY <1>1, FS_AddElement
  <1> QED
    BY <1>1, <1>2, FS_Subset, FS_CardinalityType

\* Calls only go on, so the counts do not fall.
LEMMA CountsKept ==
  ASSUME NEW S, NEW T, IsFiniteSet(T), S \subseteq T
  PROVE  /\ Cardinality(S) \in Nat /\ Cardinality(T) \in Nat
         /\ Cardinality(S) <= Cardinality(T)
  BY FS_Subset, FS_CardinalityType

LEMMA ChunkStepIs ==
  ASSUME NEW t, NEW to, ImportSafe, Import!ChunkStep(t, to)
  PROVE  /\ t \in Import!Number
         /\ import_chunk' = [import_chunk EXCEPT ![t] = to]
         /\ \/ import_chunk[t] = "open" /\ to = "taken"
            \/ import_chunk[t] = "taken" /\ to \in {"delivered", "removed"}
  BY DEF Import!ChunkStep, Import!Chunks!Next, Import!Chunks!Take, Import!Chunks!Deliver,
         Import!Chunks!Remove, ImportSafe, Import!ImportSessionSafe, Import!TypeOK

\* A step that gives out no token and no ID.
LEMMA NothingGivenOut ==
  ASSUME IsFiniteSet(Importer), GivenOut, UNCHANGED <<import_tokens, import_ids, import_token>>,
         Uploading' = Uploading, Numbered \subseteq Numbered',
         \A t \in Import!Number : import_chunk'[t] # "none" => import_chunk[t] # "none",
         \A i \in Import!Number : import_registered'[i] # {} => i <= import_ids,
         import_ids \in Nat
  PROVE  GivenOut'
  <1>1. Numbered' \subseteq Importer
    BY DEF Numbered
  <1>2. IsFiniteSet(Numbered')
    BY <1>1, FS_Subset
  <1>3. /\ Cardinality(Numbered) \in Nat /\ Cardinality(Numbered') \in Nat
        /\ Cardinality(Numbered) <= Cardinality(Numbered')
    BY <1>2, CountsKept
  <1> QED
    BY <1>3 DEF GivenOut

\* An instance has a copy of the operators its module extends.
LEMMA ImportCardinality == \A S : Import!Cardinality(S) = Cardinality(S)
  BY Zenon DEF Import!Cardinality, Cardinality

LEMMA NextNumber ==
  ASSUME NEW n \in Nat, Cardinality(Importer) \in Nat, n + 1 <= Cardinality(Importer)
  PROVE  n + 1 \in Import!Number
  BY ImportCardinality DEF Import!Number

LEMMA ImportTypes ==
  ASSUME ImportIInv
  PROVE  /\ Cardinality(Importer) \in Nat => import_tokens \in Nat /\ import_ids \in Nat
         /\ Import!TypeOK /\ Import!RegisteredIsOnDisk /\ Import!TempFilesAreOwned
         /\ Import!OrphansAreExplained /\ GivenOut /\ OwnID /\ OwnSession
  BY DEF ImportIInv, ImportSafe, Import!ImportSessionSafe, Import!TypeOK, Import!Number

LEMMA StartSessionImport ==
  ASSUME IsFiniteSet(Importer), ImportIInv, NEW c \in Importer, Import!StartSession(c)
  PROVE  ImportIInv'
  <1> USE ImportTypes DEF Import!TypeOK, Import!StartSession, Import!Go, Import!fileVars
  <1> DEFINE t == import_tokens + 1
  <1>1. /\ import_step[c] = "idle" /\ import_step' = [import_step EXCEPT ![c] = "first"]
        /\ import_tokens' = t /\ import_token' = [import_token EXCEPT ![c] = t]
        /\ import_chunk' = [import_chunk EXCEPT ![t] = "open"]
        /\ import_temp' = import_temp \cup {t}
    OBVIOUS
  <1>2. /\ Uploading' \subseteq Importer /\ IsFiniteSet(Uploading')
        /\ Uploading \subseteq Uploading' /\ c \in Uploading' /\ c \notin Uploading
    BY <1>1, FS_Subset DEF Uploading
  <1>3. /\ Cardinality(Uploading) \in Nat /\ Cardinality(Uploading) + 1 <= Cardinality(Uploading')
    BY <1>2, CountGrows
  <1>4. Cardinality(Uploading') <= Cardinality(Importer) /\ Cardinality(Importer) \in Nat
    BY <1>2, CountsKept
  <1>5. t \in Import!Number /\ t <= Cardinality(Uploading') /\ import_chunk[t] = "none"
    <2>1. import_tokens \in Nat /\ import_tokens <= Cardinality(Uploading)
      BY <1>4 DEF GivenOut
    <2>2. /\ t \in Nat /\ t <= Cardinality(Uploading')
          /\ import_tokens + 1 <= Cardinality(Importer)
      BY <1>2, <1>3, <1>4, <2>1, CountsKept
    <2>3. t \in Import!Number
      BY <1>4, <2>1, <2>2, NextNumber
    <2> QED
      BY <2>1, <2>2, <2>3 DEF GivenOut
  <1>6. Import!TypeOK'
    BY <1>5
  <1>7. Import!RegisteredIsOnDisk' /\ Import!OrphansAreExplained'
    BY DEF Import!RegisteredIsOnDisk, Import!OrphansAreExplained
  <1>8. Import!TempFilesAreOwned'
    BY <1>5 DEF Import!TempFilesAreOwned
  <1>9. Numbered' = Numbered
    BY <1>1 DEF Numbered
  <1>10. GivenOut'
    <2>1. \A u \in Import!Number : import_chunk'[u] # "none" => u <= import_tokens'
      BY <1>1, <1>4, <1>5 DEF GivenOut, Import!Number
    <2>2. \A d \in Uploading' : import_token'[d] \in Import!Number
      BY <1>1, <1>5 DEF GivenOut, Uploading
    <2>3. import_tokens' <= Cardinality(Uploading')
      BY <1>5
    <2> QED
      BY <1>9, <2>1, <2>2, <2>3 DEF GivenOut
  <1>11. OwnID'
    BY DEF OwnID, Import!Handler
  <1>12. OwnSession'
    <2>1. \A d \in Importer : import_step'[d] \in Taking =>
            d # c /\ import_step[d] = import_step'[d] /\ import_token'[d] = import_token[d]
      BY DEF Taking
    <2>2. \A d \in Importer : import_step[d] \in Taking => import_chunk[import_token[d]] # "none"
      BY DEF OwnSession
    <2> QED
      BY <1>5, <2>1, <2>2 DEF OwnSession, Taking
  <1> QED
    BY <1>6, <1>7, <1>8, <1>10, <1>11, <1>12
    DEF ImportIInv, ImportSafe, Import!ImportSessionSafe

LEMMA WriteChunkImport ==
  ASSUME IsFiniteSet(Importer), ImportIInv, NEW c \in Importer, NEW n \in {1, 2},
         Import!WriteChunk(c, n)
  PROVE  ImportIInv'
  <1> USE ImportTypes, FS_CardinalityType DEF Import!TypeOK, Import!WriteChunk, Import!Go,
          Import!fileVars
  <1>1. /\ import_step[c] \in {"first", "second"}
        /\ \E to \in {"second", "complete"} : import_step' = [import_step EXCEPT ![c] = to]
    OBVIOUS
  <1>2. \A d \in Importer : import_step'[d] \in Import!Handler
          => import_step'[d] = import_step[d] /\ d # c
    BY <1>1 DEF Import!Handler
  <1>3. import_parts' \in [Import!Number -> Import!Content]
    <2>1. \A P \in Import!Content : P \cup {<<n, c>>} \in Import!Content
      BY DEF Import!Content
    <2> QED
      BY <2>1
  <1>4. Import!TypeOK'
    BY <1>1, <1>3
  <1>5. Import!RegisteredIsOnDisk' /\ Import!TempFilesAreOwned' /\ Import!OrphansAreExplained'
    BY DEF Import!RegisteredIsOnDisk, Import!TempFilesAreOwned, Import!OrphansAreExplained
  <1>6. Uploading' = Uploading /\ Numbered \subseteq Numbered'
    BY DEF Uploading, Numbered
  <1>7. GivenOut'
    BY <1>6, NothingGivenOut DEF GivenOut
  <1>8. OwnID'
    BY <1>2 DEF OwnID
  <1>9. OwnSession'
    <2>1. \A d \in Importer : import_step'[d] \in Taking => import_step'[d] = import_step[d]
      BY <1>1 DEF Taking
    <2>2. \A d \in Importer : import_step[d] \in Taking => import_token[d] # import_token[c]
      BY DEF OwnSession
    <2>3. \A t : t # import_token[c] => import_parts'[t] = import_parts[t]
      OBVIOUS
    <2> QED
      BY <2>1, <2>2, <2>3 DEF OwnSession
  <1> QED
    BY <1>4, <1>5, <1>7, <1>8, <1>9 DEF ImportIInv, ImportSafe, Import!ImportSessionSafe

\* The chunk of one session goes on from "open" or "taken", and some calls go on to an end.
LEMMA SessionStepImport ==
  ASSUME IsFiniteSet(Importer), ImportIInv, NEW t \in Import!Number, NEW to,
         Import!ChunkStep(t, to),
         UNCHANGED <<import_parts, import_tokens, import_ids, import_token, import_id,
                     Import!fileVars, import_restarts>>,
         import_temp' \in {import_temp, import_temp \ {t}},
         to = "removed" => import_temp' = import_temp \ {t},
         to = "delivered" => import_temp' = import_temp \ {t}
                             \/ \E c \in Importer :
                                  import_token[c] = t /\ import_step'[c] = "rename",
         import_step'
           \in [Importer -> {"idle", "first", "second", "complete"} \cup Import!Handler
             \cup Import!Over],
         \A d \in Importer : import_step'[d] # import_step[d] =>
           /\ import_token[d] = t /\ import_step[d] \in {"finalize", "validate"}
           /\ import_step'[d] \in CASE to = "taken" -> {"validate", "failed"}
                                   [] to = "delivered" -> {"rename", "refused"}
                                   [] to = "removed" -> {"failed"},
         \A d, e \in Importer :
           import_step'[d] # import_step[d] /\ import_step'[e] # import_step[e] => d = e,
         \A d \in Importer : import_step[d] = "validate" /\ import_token[d] = t =>
           import_step'[d] # import_step[d]
  PROVE  ImportIInv'
  <1> USE ImportTypes DEF Import!fileVars
  <1>1. /\ import_chunk' = [import_chunk EXCEPT ![t] = to]
        /\ \/ import_chunk[t] = "open" /\ to = "taken"
           \/ import_chunk[t] = "taken" /\ to \in {"delivered", "removed"}
    BY ChunkStepIs DEF ImportIInv
  <1>2. \A d \in Importer : import_step'[d] # import_step[d] =>
          /\ import_step[d] \in {"finalize", "validate"}
          /\ import_step'[d] \in {"validate", "rename", "failed", "refused"}
    BY <1>1
  <1>3. Import!TypeOK'
    BY <1>1 DEF Import!TypeOK
  <1>4. Import!RegisteredIsOnDisk'
    BY DEF Import!RegisteredIsOnDisk
  <1>5. Import!TempFilesAreOwned'
    <2>1. \A d \in Importer : import_step[d] = "rename" => import_step'[d] = "rename"
      BY <1>2
    <2>2. \A u \in import_temp' : u \in import_temp /\ u \in Import!Number
      BY DEF Import!TypeOK
    <2>3. \A u \in import_temp' : u # t => import_chunk'[u] = import_chunk[u]
      BY <1>1, <2>2
    <2>4. import_chunk'[t] = to
      BY <1>1 DEF Import!TypeOK
    <2> QED
      BY <1>1, <2>1, <2>2, <2>3, <2>4 DEF Import!TempFilesAreOwned
  <1>6. Import!OrphansAreExplained'
    BY <1>2 DEF Import!OrphansAreExplained
  <1>7. GivenOut'
    <2>1. Uploading' = Uploading /\ Numbered \subseteq Numbered'
      BY <1>2 DEF Uploading, Numbered
    <2>2. \A u \in Import!Number : import_chunk'[u] # "none" => import_chunk[u] # "none"
      BY <1>1 DEF Import!TypeOK
    <2>3. import_ids \in Nat
      BY FS_CardinalityType
    <2> QED
      BY <2>1, <2>2, <2>3, NothingGivenOut DEF GivenOut
  <1>8. \A d \in Importer : import_step'[d] \in Import!Handler => import_step[d] \in Import!Handler
    BY <1>2 DEF Import!Handler
  <1>9. OwnID'
    BY <1>8 DEF OwnID
  <1>10. ASSUME NEW d \in Importer, import_step'[d] \in Taking
         PROVE  /\ import_chunk'[import_token[d]] = IF import_step'[d] = "validate" THEN "taken"
                     ELSE "delivered"
                /\ \A e \in Importer :
                     import_step'[e] \in Taking /\ import_token[e] = import_token[d] => e = d
                /\ import_step'[d] \in {"measure", "register"} =>
                     import_file[import_id[d]] = import_parts[import_token[d]]
    <2>1. \A e \in Importer : import_step[e] \in Taking
            => import_chunk[import_token[e]] \in {"taken", "delivered"}
      BY DEF OwnSession
    <2>2. \A e \in Importer : import_step'[e] \in Taking /\ import_step'[e] = import_step[e]
            => import_token[e] # t
      <3> SUFFICES ASSUME NEW e \in Importer, import_step'[e] \in Taking,
                          import_step'[e] = import_step[e],
                          import_token[e] = t
                   PROVE  FALSE
        OBVIOUS
      <3>1. import_step[e] # "validate"
        OBVIOUS
      <3>2. import_chunk[t] = "delivered"
        BY <3>1 DEF OwnSession
      <3> QED
        BY <1>1, <3>2
    <2>3. CASE import_step'[d] = import_step[d]
      <3>1. import_token[d] # t
        BY <1>10, <2>2, <2>3
      <3>2. import_chunk'[import_token[d]] = import_chunk[import_token[d]]
        BY <1>1, <3>1
      <3>3. \A e \in Importer : import_step'[e] \in Taking /\ import_token[e] = import_token[d] =>
              import_step'[e] = import_step[e]
        BY <3>1
      <3> QED
        BY <1>10, <2>3, <3>2, <3>3 DEF OwnSession
    <2>4. CASE import_step'[d] # import_step[d]
      <3>1. import_token[d] = t /\ import_chunk'[t] = to
        BY <1>1, <2>4 DEF Import!TypeOK
      <3>2. \A e \in Importer : import_step'[e] \in Taking /\ import_token[e] = t => e = d
        BY <2>2, <2>4
      <3>3. \/ to = "taken" /\ import_step'[d] = "validate"
            \/ to = "delivered" /\ import_step'[d] = "rename"
        BY <1>1, <1>10, <2>4 DEF Taking
      <3> QED
        BY <3>1, <3>2, <3>3
    <2> QED
      BY <2>3, <2>4
  <1>11. OwnSession'
    BY <1>10 DEF OwnSession
  <1> QED
    BY <1>3, <1>4, <1>5, <1>6, <1>7, <1>9, <1>11
    DEF ImportIInv, ImportSafe, Import!ImportSessionSafe

LEMMA AbortSessionImport ==
  ASSUME IsFiniteSet(Importer), ImportIInv, NEW t \in Import!Number, Import!AbortSession(t)
  PROVE  ImportIInv'
  <1>1. /\ Import!ChunkStep(t, "taken") /\ import_step' = import_step /\ import_temp' = import_temp
        /\ UNCHANGED <<import_parts, import_tokens, import_ids, import_token, import_id,
                       Import!fileVars, import_restarts>>
    BY DEF Import!AbortSession, Import!fileVars
  <1>2. import_chunk[t] = "open"
    BY DEF Import!AbortSession
  <1>3. \A d \in Importer : import_step[d] = "validate" => import_token[d] # t
    BY <1>2, ImportTypes DEF OwnSession, Taking
  <1> QED
    BY <1>1, <1>3, ImportTypes, SessionStepImport DEF Import!TypeOK

LEMMA RemoveTempFileImport ==
  ASSUME IsFiniteSet(Importer), ImportIInv, NEW t \in Import!Number, Import!RemoveTempFile(t)
  PROVE  ImportIInv'
  <1>1. /\ Import!ChunkStep(t, "removed") /\ import_step' = import_step
        /\ import_temp' = import_temp \ {t}
        /\ UNCHANGED <<import_parts, import_tokens, import_ids, import_token, import_id,
                       Import!fileVars, import_restarts>>
        /\ \A d \in Importer : ~(import_token[d] = t /\ import_step[d] = "validate")
    BY DEF Import!RemoveTempFile, Import!fileVars
  <1> QED
    BY <1>1, ImportTypes, SessionStepImport DEF Import!TypeOK

LEMMA FinalizeSessionImport ==
  ASSUME IsFiniteSet(Importer), ImportIInv, NEW c \in Importer, Import!FinalizeSession(c)
  PROVE  ImportIInv'
  <1>1. /\ Import!ChunkStep(import_token[c], "taken") /\ import_temp' = import_temp
        /\ import_step[c] = "finalize"
        /\ \E to \in {"validate", "failed"} : import_step' = [import_step EXCEPT ![c] = to]
        /\ UNCHANGED <<import_parts, import_tokens, import_ids, import_token, import_id,
                       Import!fileVars, import_restarts>>
    BY DEF Import!FinalizeSession, Import!fileVars, Import!Go
  <1>2. import_token[c] \in Import!Number /\ import_chunk[import_token[c]] = "open"
    BY <1>1, ChunkStepIs DEF ImportIInv
  <1>3. \A d \in Importer : import_step[d] = "validate" => import_token[d] # import_token[c]
    BY <1>2, ImportTypes DEF OwnSession, Taking
  <1>4. import_step'
          \in [Importer -> {"idle", "first", "second", "complete"} \cup Import!Handler
            \cup Import!Over]
    BY <1>1, ImportTypes DEF Import!TypeOK, Import!Handler, Import!Over
  <1>5. \A d \in Importer : import_step'[d] # import_step[d]
          => d = c /\ import_step'[d] \in {"validate", "failed"}
    BY <1>1, ImportTypes DEF Import!TypeOK
  <1> QED
    BY <1>1, <1>2, <1>3, <1>4, <1>5, SessionStepImport

LEMMA ValidateImport ==
  ASSUME IsFiniteSet(Importer), ImportIInv, NEW c \in Importer, Import!Validate(c)
  PROVE  ImportIInv'
  <1>1. /\ import_step[c] = "validate"
        /\ UNCHANGED <<import_parts, import_tokens, import_ids, import_token, import_id,
                       Import!fileVars, import_restarts>>
    BY DEF Import!Validate, Import!fileVars, Import!Go
  <1>2. PICK to \in {"delivered", "removed"}, next \in {"rename", "refused", "failed"} :
          /\ Import!ChunkStep(import_token[c], to)
          /\ import_step' = [import_step EXCEPT ![c] = next]
          /\ \/ to = "delivered" /\ next = "rename" /\ import_temp' = import_temp
             \/ /\ to = "delivered" /\ next = "refused"
                /\ import_temp' = import_temp \ {import_token[c]}
             \/ to = "removed" /\ next = "failed" /\ import_temp' = import_temp \ {import_token[c]}
    BY DEF Import!Validate, Import!Go
  <1>3. import_token[c] \in Import!Number
    BY <1>2, ChunkStepIs DEF ImportIInv
  <1>4. \A d \in Importer : import_step[d] = "validate" /\ import_token[d] = import_token[c]
          => d = c
    BY <1>1, ImportTypes DEF OwnSession, Taking
  <1>5. import_step'
          \in [Importer -> {"idle", "first", "second", "complete"} \cup Import!Handler
            \cup Import!Over]
    BY <1>2, ImportTypes DEF Import!TypeOK, Import!Handler, Import!Over
  <1>6. import_step'[c] = next /\ \A d \in Importer : d # c => import_step'[d] = import_step[d]
    BY <1>2, ImportTypes DEF Import!TypeOK
  <1> QED
    BY <1>1, <1>2, <1>3, <1>4, <1>5, <1>6, SessionStepImport

LEMMA SessionNotFoundImport ==
  ASSUME IsFiniteSet(Importer), ImportIInv, NEW c \in Importer, Import!SessionNotFound(c)
  PROVE  ImportIInv'
  <1> USE ImportTypes
  <1>1. /\ import_step[c] \in {"first", "second", "finalize"}
        /\ import_step' = [import_step EXCEPT ![c] = "failed"]
        /\ UNCHANGED <<Import!sessionVars, Import!fileVars, import_ids, import_token, import_id,
                       import_restarts>>
    BY DEF Import!SessionNotFound, Import!Go
  <1> USE DEF Import!sessionVars, Import!fileVars
  <1>2. Import!TypeOK'
    BY <1>1 DEF Import!TypeOK, Import!Over
  <1>3. \A d \in Importer : import_step'[d] # import_step[d] =>
          /\ import_step[d] \in {"first", "second", "finalize"} /\ import_step'[d] = "failed"
    BY <1>1 DEF Import!TypeOK
  <1>4. Import!RegisteredIsOnDisk' /\ Import!TempFilesAreOwned' /\ Import!OrphansAreExplained'
    BY <1>1, <1>3
    DEF Import!RegisteredIsOnDisk, Import!TempFilesAreOwned, Import!OrphansAreExplained
  <1>5. Uploading' = Uploading /\ Numbered \subseteq Numbered' /\ import_ids \in Nat
    BY <1>3, FS_CardinalityType DEF Uploading, Numbered
  <1>6. GivenOut'
    BY <1>1, <1>5, NothingGivenOut DEF GivenOut
  <1>7. OwnID'
    BY <1>1, <1>3 DEF OwnID, Import!Handler
  <1>8. OwnSession'
    BY <1>1, <1>3 DEF OwnSession, Taking
  <1> QED
    BY <1>2, <1>4, <1>6, <1>7, <1>8 DEF ImportIInv, ImportSafe, Import!ImportSessionSafe

LEMMA GenerateIDImport ==
  ASSUME IsFiniteSet(Importer), ImportIInv, NEW c \in Importer, Import!GenerateID(c)
  PROVE  ImportIInv'
  <1> USE ImportTypes
  <1> DEFINE i == import_ids + 1
  <1>1. /\ import_step[c] = "complete" /\ import_step' = [import_step EXCEPT ![c] = "finalize"]
        /\ import_ids' = i /\ import_id' = [import_id EXCEPT ![c] = i]
        /\ UNCHANGED <<Import!sessionVars, Import!fileVars, import_token, import_restarts>>
    BY DEF Import!GenerateID, Import!Go
  <1>2. /\ Numbered' \subseteq Importer /\ IsFiniteSet(Numbered') /\ Numbered \subseteq Numbered'
        /\ c \in Numbered' /\ c \notin Numbered
    BY <1>1, FS_Subset DEF Numbered, Import!TypeOK
  <1>3. Cardinality(Numbered) \in Nat /\ Cardinality(Numbered) + 1 <= Cardinality(Numbered')
    BY <1>2, CountGrows
  <1>4. /\ Cardinality(Numbered') \in Nat
        /\ Cardinality(Numbered') <= Cardinality(Importer) /\ Cardinality(Importer) \in Nat
    BY <1>2, CountsKept
  <1>5. import_ids \in Nat /\ import_ids <= Cardinality(Numbered)
    BY <1>4 DEF GivenOut
  <1>6. i \in Nat /\ i <= Cardinality(Numbered') /\ import_ids + 1 <= Cardinality(Importer)
    BY <1>3, <1>4, <1>5
  <1>7. i \in Import!Number
    BY <1>4, <1>5, <1>6, NextNumber
  <1> HIDE DEF i
  <1> USE DEF Import!sessionVars, Import!fileVars
  <1>8. Import!TypeOK'
    BY <1>1, <1>7 DEF Import!TypeOK, Import!Handler
  <1>9. import_step'[c] = "finalize" /\ \A d \in Importer : d # c =>
          import_step'[d] = import_step[d] /\ import_id'[d] = import_id[d]
    BY <1>1 DEF Import!TypeOK
  <1>10. Import!RegisteredIsOnDisk' /\ Import!TempFilesAreOwned'
    BY <1>1, <1>9 DEF Import!RegisteredIsOnDisk, Import!TempFilesAreOwned
  <1>11. Import!OrphansAreExplained'
    BY <1>1, <1>9 DEF Import!OrphansAreExplained
  <1>12. \A n \in Import!Number : n <= import_ids => n <= i
    BY <1>5 DEF i, Import!Number
  <1>13. GivenOut'
    <2>1. Uploading' = Uploading
      BY <1>1, <1>9 DEF Uploading
    <2> QED
      BY <1>1, <1>6, <1>12, <2>1 DEF GivenOut
  <1>14. OwnID'
    <2>1. import_id'[c] = i
      BY <1>1 DEF Import!TypeOK
    <2>2. import_registered[i] = {}
      BY <1>5, <1>7 DEF i, GivenOut
    <2>3. \A d \in Importer : d # c /\ import_step'[d] \in Import!Handler =>
            /\ import_id'[d] \in Import!Number /\ import_id'[d] <= import_ids
            /\ import_registered[import_id'[d]] = {}
            /\ \A e \in Importer :
                 e # c /\ import_step'[e] \in Import!Handler /\ import_id'[e] = import_id'[d]
                   => e = d
      BY <1>9 DEF OwnID
    <2>4. \A d \in Importer : d # c /\ import_step'[d] \in Import!Handler => import_id'[d] # i
      BY <1>5, <2>3 DEF i, Import!Number
    <2>5. i <= i
      BY <1>6
    <2> QED
      BY <1>1, <1>7, <1>12, <2>1, <2>2, <2>3, <2>4, <2>5 DEF OwnID
  <1>15. OwnSession'
    BY <1>1, <1>9 DEF OwnSession, Taking
  <1> QED
    BY <1>8, <1>10, <1>11, <1>13, <1>14, <1>15
    DEF ImportIInv, ImportSafe, Import!ImportSessionSafe

LEMMA RenameImport ==
  ASSUME IsFiniteSet(Importer), ImportIInv, NEW c \in Importer, Import!Rename(c)
  PROVE  ImportIInv'
  <1> USE ImportTypes
  <1>1. /\ import_step[c] = "rename" /\ import_temp' = import_temp \ {import_token[c]}
        /\ UNCHANGED <<import_chunk, import_parts, import_tokens, import_registered, import_ids,
                       import_token, import_id, import_restarts>>
    BY DEF Import!Rename, Import!Go
  <1>2. PICK next \in {"measure", "failed"} :
          /\ import_step' = [import_step EXCEPT ![c] = next]
          /\ \/ /\ next = "measure"
                /\ import_file'
                     = [import_file EXCEPT ![import_id[c]] = import_parts[import_token[c]]]
                /\ import_old' = import_old \ {import_id[c]}
             \/ next = "failed" /\ UNCHANGED <<import_file, import_old>>
    BY DEF Import!Rename, Import!Go
  <1>3. /\ import_id[c] \in Import!Number /\ import_registered[import_id[c]] = {}
        /\ \A d \in Importer : import_step[d] \in Import!Handler /\ import_id[d] = import_id[c]
             => d = c
    BY <1>1 DEF OwnID, Import!Handler
  <1>4. import_token[c] \in Import!Number
    BY <1>1 DEF GivenOut, Uploading
  <1>5. import_step'[c] = next /\ \A d \in Importer : d # c => import_step'[d] = import_step[d]
    BY <1>2 DEF Import!TypeOK
  <1>6. \A i \in Import!Number : i # import_id[c] =>
          /\ import_file'[i] = import_file[i] /\ (i \in import_old => i \in import_old')
    BY <1>2 DEF Import!TypeOK
  <1>7. Import!TypeOK'
    <2>1. import_parts[import_token[c]] \in Import!Content /\ import_old \subseteq Import!Number
          /\ import_file \in [Import!Number -> Import!Content]
      BY <1>4 DEF Import!TypeOK
    <2>4. import_file' \in [Import!Number -> Import!Content] /\ import_old' \subseteq Import!Number
      BY <1>2, <2>1
    <2>2. import_step'
            \in [Importer -> {"idle", "first", "second", "complete"} \cup Import!Handler
              \cup Import!Over]
      BY <1>2 DEF Import!TypeOK, Import!Handler, Import!Over
    <2>3. import_temp' \subseteq Import!Number
      BY <1>1 DEF Import!TypeOK
    <2> QED
      BY <1>1, <2>2, <2>3, <2>4 DEF Import!TypeOK
  <1>8. Import!RegisteredIsOnDisk'
    BY <1>1, <1>3, <1>6 DEF Import!RegisteredIsOnDisk, Import!NoContent
  <1>9. Import!TempFilesAreOwned'
    BY <1>1, <1>5 DEF Import!TempFilesAreOwned
  <1>10. Import!OrphansAreExplained'
    <2>1. ASSUME NEW i \in Import!Number, import_file'[i] # Import!NoContent,
                 import_registered'[i] = Import!NoContent, i \notin import_old'
          PROVE  \E d \in Importer :
                   import_id'[d] = i /\ import_step'[d] \in {"measure", "register", "unmeasured"}
      <3>1. CASE i = import_id[c] /\ next = "measure"
        BY <1>1, <1>5, <3>1
      <3>2. CASE ~(i = import_id[c] /\ next = "measure")
        <4>1. /\ import_file[i] # Import!NoContent /\ import_registered[i] = Import!NoContent
              /\ i \notin import_old
          BY <1>1, <1>2, <1>6, <2>1, <3>2
        <4>2. PICK d \in Importer :
                     import_id[d] = i /\ import_step[d] \in {"measure", "register", "unmeasured"}
          BY <4>1 DEF Import!OrphansAreExplained
        <4>3. d # c
          BY <1>1, <4>2
        <4> QED
          BY <1>1, <1>5, <4>2, <4>3
      <3> QED
        BY <3>1, <3>2
    <2> QED
      BY <2>1 DEF Import!OrphansAreExplained
  <1>11. GivenOut'
    <2>1. Uploading' = Uploading /\ Numbered \subseteq Numbered' /\ import_ids \in Nat
      BY <1>1, <1>5, FS_CardinalityType DEF Uploading, Numbered
    <2> QED
      BY <1>1, <2>1, NothingGivenOut DEF GivenOut
  <1>12. OwnID'
    BY <1>1, <1>5 DEF OwnID, Import!Handler
  <1>13. OwnSession'
    <2>1. \A d \in Importer : d # c /\ import_step'[d] \in {"measure", "register"}
            => import_id[d] # import_id[c] /\ import_id[d] \in Import!Number
      BY <1>3, <1>5 DEF Import!Handler, OwnID
    <2>2. \A d \in Importer : d # c /\ import_step'[d] \in {"measure", "register"} =>
            import_file'[import_id[d]] = import_file[import_id[d]]
      BY <1>6, <2>1
    <2>3. next = "measure" => import_file'[import_id[c]] = import_parts[import_token[c]]
      BY <1>2, <1>3 DEF Import!TypeOK
    <2>4. \A d \in Importer : import_step'[d] \in Taking =>
            /\ import_step[d] \in Taking
            /\ (import_step'[d] = "validate" <=> import_step[d] = "validate")
            /\ d # c => import_step'[d] = import_step[d]
      BY <1>1, <1>5 DEF Taking
    <2>5. \A d \in Importer : import_step'[d] \in {"measure", "register"} =>
            import_file'[import_id[d]] = import_parts[import_token[d]]
      BY <1>5, <2>2, <2>3 DEF OwnSession, Taking
    <2>6. /\ import_chunk' = import_chunk /\ import_token' = import_token
          /\ import_parts' = import_parts
          /\ import_id' = import_id
      BY <1>1
    <2>7. ASSUME NEW d \in Importer, import_step'[d] \in Taking
          PROVE  /\ import_chunk[import_token[d]] = IF import_step'[d] = "validate" THEN "taken"
                      ELSE "delivered"
                 /\ \A e \in Importer :
                      import_step'[e] \in Taking /\ import_token[e] = import_token[d] => e = d
      BY <2>4, <2>7 DEF OwnSession
    <2> QED
      BY <2>5, <2>6, <2>7 DEF OwnSession
  <1> QED
    BY <1>7, <1>8, <1>9, <1>10, <1>11, <1>12, <1>13
    DEF ImportIInv, ImportSafe, Import!ImportSessionSafe

LEMMA MeasureImport ==
  ASSUME IsFiniteSet(Importer), ImportIInv, NEW c \in Importer, Import!Measure(c)
  PROVE  ImportIInv'
  <1> USE ImportTypes DEF Import!sessionVars, Import!fileVars
  <1>1. /\ import_step[c] = "measure"
        /\ \E next \in {"register", "unmeasured"} : import_step' = [import_step EXCEPT ![c] = next]
        /\ UNCHANGED <<Import!sessionVars, Import!fileVars, import_ids, import_token, import_id,
                       import_restarts>>
    BY DEF Import!Measure, Import!Go
  <1>2. \A d \in Importer : import_step'[d] # import_step[d] =>
          import_step[d] = "measure" /\ import_step'[d] \in {"register", "unmeasured"}
    BY <1>1 DEF Import!TypeOK
  <1>3. Import!TypeOK'
    BY <1>1 DEF Import!TypeOK, Import!Handler, Import!Over
  <1>4. Import!RegisteredIsOnDisk' /\ Import!TempFilesAreOwned'
    BY <1>1, <1>2 DEF Import!RegisteredIsOnDisk, Import!TempFilesAreOwned
  <1>5. Import!OrphansAreExplained'
    BY <1>1, <1>2 DEF Import!OrphansAreExplained
  <1>6. Uploading' = Uploading /\ Numbered \subseteq Numbered' /\ import_ids \in Nat
    BY <1>2, FS_CardinalityType DEF Uploading, Numbered
  <1>7. GivenOut'
    BY <1>1, <1>6, NothingGivenOut DEF GivenOut
  <1>8. OwnID'
    BY <1>1, <1>2 DEF OwnID, Import!Handler
  <1>9. OwnSession'
    BY <1>1, <1>2 DEF OwnSession, Taking
  <1> QED
    BY <1>3, <1>4, <1>5, <1>7, <1>8, <1>9
    DEF ImportIInv, ImportSafe, Import!ImportSessionSafe

LEMMA RegisterImport ==
  ASSUME IsFiniteSet(Importer), ImportIInv, NEW c \in Importer, Import!RegisterImportedInspection(c)
  PROVE  ImportIInv'
  <1> USE ImportTypes DEF Import!sessionVars
  <1> DEFINE content == import_parts[import_token[c]]
  <1>1. /\ import_step[c] = "register" /\ import_step' = [import_step EXCEPT ![c] = "done"]
        /\ import_registered' = [import_registered EXCEPT ![import_id[c]] = content]
        /\ UNCHANGED <<Import!sessionVars, import_file, import_old, import_ids, import_token,
                       import_id, import_restarts>>
    BY DEF Import!RegisterImportedInspection, Import!Go
  <1>2. /\ import_id[c] \in Import!Number /\ import_id[c] <= import_ids
        /\ \A d \in Importer : import_step[d] \in Import!Handler /\ import_id[d] = import_id[c]
             => d = c
    BY <1>1 DEF OwnID, Import!Handler
  <1>3. import_token[c] \in Import!Number /\ content \in Import!Content
    BY <1>1 DEF GivenOut, Uploading, Import!TypeOK
  <1>4. import_file[import_id[c]] = content
    BY <1>1 DEF OwnSession, Taking
  <1>5. import_step'[c] = "done" /\ \A d \in Importer : d # c => import_step'[d] = import_step[d]
    BY <1>1 DEF Import!TypeOK
  <1>6. /\ import_registered'[import_id[c]] = content
        /\ \A i \in Import!Number : i # import_id[c] => import_registered'[i] = import_registered[i]
    BY <1>1, <1>2 DEF Import!TypeOK
  <1> HIDE DEF content
  <1>7. Import!TypeOK'
    BY <1>1, <1>3 DEF Import!TypeOK, Import!Over
  <1>8. Import!RegisteredIsOnDisk'
    BY <1>1, <1>4, <1>6 DEF Import!RegisteredIsOnDisk
  <1>9. Import!TempFilesAreOwned'
    BY <1>1, <1>5 DEF Import!TempFilesAreOwned
  <1>10. Import!OrphansAreExplained'
    BY <1>1, <1>4, <1>5, <1>6 DEF Import!OrphansAreExplained
  <1>11. GivenOut'
    <2>1. Uploading' = Uploading /\ Numbered \subseteq Numbered' /\ import_ids \in Nat
      BY <1>1, <1>5, FS_CardinalityType DEF Uploading, Numbered
    <2>2. \A i \in Import!Number : import_registered'[i] # {} => i <= import_ids
      BY <1>2, <1>6 DEF GivenOut
    <2> QED
      BY <1>1, <2>1, <2>2, NothingGivenOut DEF GivenOut
  <1>12. OwnID'
    BY <1>1, <1>2, <1>5, <1>6 DEF OwnID, Import!Handler
  <1>13. OwnSession'
    BY <1>1, <1>5 DEF OwnSession, Taking
  <1> QED
    BY <1>7, <1>8, <1>9, <1>10, <1>11, <1>12, <1>13
    DEF ImportIInv, ImportSafe, Import!ImportSessionSafe

LEMMA RestartImport ==
  ASSUME IsFiniteSet(Importer), MaxRestarts \in Nat, ImportIInv, Import!Restart
  PROVE  ImportIInv'
  <1> USE ImportTypes
  <1>1. /\ import_restarts < MaxRestarts /\ import_restarts' = import_restarts + 1
        /\ import_chunk' = Import!NoSession /\ import_parts' = Import!Nothing /\ import_temp' = {}
        /\ import_tokens' = 0 /\ import_ids' = 0 /\ import_registered' = Import!Nothing
        /\ import_step'
             = [c \in Importer |-> IF import_step[c] \in Import!Handler THEN "failed"
               ELSE import_step[c]]
        /\ import_old' = {i \in Import!Number : import_file[i] # Import!NoContent}
        /\ UNCHANGED <<import_file, import_token, import_id>>
    BY DEF Import!Restart
  <1>2. /\ Import!NoSession \in [Import!Number -> {"none", "open", "taken", "delivered", "removed"}]
        /\ Import!Nothing \in [Import!Number -> Import!Content]
        /\ \A n \in Import!Number : Import!NoSession[n] = "none" /\ Import!Nothing[n] = {}
    BY DEF Import!NoSession, Import!Nothing, Import!NoContent, Import!Content
  <1>3. import_step'
          \in [Importer -> {"idle", "first", "second", "complete"} \cup Import!Handler
            \cup Import!Over]
    BY <1>1 DEF Import!TypeOK, Import!Over
  <1>4. import_restarts' \in 0 .. MaxRestarts
    BY <1>1 DEF Import!TypeOK
  <1>5. Import!TypeOK'
    BY <1>1, <1>2, <1>3, <1>4 DEF Import!TypeOK
  <1>6. Import!RegisteredIsOnDisk' /\ Import!TempFilesAreOwned' /\ Import!OrphansAreExplained'
    BY <1>1, <1>2
    DEF Import!RegisteredIsOnDisk, Import!TempFilesAreOwned, Import!OrphansAreExplained,
        Import!NoContent
  <1>7. \A c \in Importer : import_step'[c] \notin Import!Handler /\ import_step'[c] \notin Taking
    BY <1>1 DEF Import!Handler, Taking
  <1>8. GivenOut'
    <2>1. IsFiniteSet(Uploading') /\ IsFiniteSet(Numbered')
      BY FS_Subset DEF Uploading, Numbered
    <2>2. Cardinality(Uploading') >= 0 /\ Cardinality(Numbered') >= 0
      BY <2>1, FS_CardinalityType
    <2>3. Uploading' = Uploading
      BY <1>1 DEF Uploading, Import!Handler, Import!TypeOK
    <2> QED
      BY <1>1, <1>2, <2>2, <2>3 DEF GivenOut
  <1>9. OwnID' /\ OwnSession'
    BY <1>7 DEF OwnID, OwnSession
  <1> QED
    BY <1>5, <1>6, <1>8, <1>9 DEF ImportIInv, ImportSafe, Import!ImportSessionSafe

LEMMA InitImport ==
  ASSUME IsFiniteSet(Importer), MaxRestarts \in Nat, Import!Init PROVE ImportIInv
  <1>1. IsFiniteSet(Uploading) /\ IsFiniteSet(Numbered)
    BY FS_Subset DEF Uploading, Numbered
  <1>2. Cardinality(Uploading) >= 0 /\ Cardinality(Numbered) >= 0
    BY <1>1, FS_CardinalityType
  <1>3. Import!TypeOK
    BY DEF Import!Init, Import!TypeOK, Import!NoSession, Import!Nothing, Import!NoContent,
           Import!Content
  <1>4. Import!RegisteredIsOnDisk /\ Import!TempFilesAreOwned /\ Import!OrphansAreExplained
    BY DEF Import!Init, Import!RegisteredIsOnDisk, Import!TempFilesAreOwned,
           Import!OrphansAreExplained, Import!NoContent, Import!Nothing
  <1>5. GivenOut
    BY <1>2 DEF Import!Init, GivenOut, Import!NoSession, Import!Nothing, Import!NoContent, Uploading
  <1>6. OwnID /\ OwnSession
    BY DEF Import!Init, OwnID, OwnSession, Taking, Import!Handler
  <1> QED
    BY <1>3, <1>4, <1>5, <1>6 DEF ImportIInv, ImportSafe, Import!ImportSessionSafe

LEMMA NextImport ==
  ASSUME IsFiniteSet(Importer), MaxRestarts \in Nat, ImportIInv, [Import!Next]_(Import!vars)
  PROVE  ImportIInv'
  <1>1. ASSUME NEW c \in Importer,
               \/ Import!StartSession(c) \/ Import!WriteChunk(c, 1) \/ Import!WriteChunk(c, 2)
               \/ Import!SessionNotFound(c) \/ Import!GenerateID(c)
        PROVE  ImportIInv'
    BY <1>1, StartSessionImport, WriteChunkImport, SessionNotFoundImport, GenerateIDImport
  <1>2. ASSUME NEW c \in Importer, Import!CompleteSession(c) PROVE ImportIInv'
    BY <1>2, FinalizeSessionImport, ValidateImport, RenameImport, MeasureImport, RegisterImport
       DEF Import!CompleteSession
  <1>3. ASSUME NEW t \in Import!Number, Import!AbortSession(t) \/ Import!RemoveTempFile(t)
        PROVE ImportIInv'
    BY <1>3, AbortSessionImport, RemoveTempFileImport
  <1>4. CASE Import!Restart
    BY <1>4, RestartImport
  <1>5. CASE UNCHANGED Import!vars
    BY <1>5 DEF Import!vars, Import!sessionVars, Import!fileVars, ImportIInv, ImportSafe,
                Import!ImportSessionSafe, Import!TypeOK, Import!RegisteredIsOnDisk,
                Import!TempFilesAreOwned, Import!OrphansAreExplained, GivenOut, Uploading, Numbered,
                OwnID, OwnSession
  <1> QED
    BY <1>1, <1>2, <1>3, <1>4, <1>5 DEF Import!Next

\* However many clients import at once, whatever step of CompleteSession fails, and over
\* restarts after which tokens and IDs are given out again: what is registered is what
\* lies on the disk, temporary files have an owner, and other files have a reason.
THEOREM ImportsAreSafe == Import!Spec => []ImportSafe
  <1>1. Import!Init => ImportIInv
    BY ImportAssumption, InitImport
  <1>2. ImportIInv /\ [Import!Next]_(Import!vars) => ImportIInv'
    BY ImportAssumption, NextImport
  <1>3. ImportIInv => ImportSafe
    BY DEF ImportIInv
  <1> QED
    BY <1>1, <1>2, <1>3, PTL DEF Import!Spec

-----------------------------------------------------------------------------
(* Asynchronous tasks, and the file of a form field that such a task       *)
(* verifies.                                                               *)

AsyncProofs ==
  INSTANCE AsyncTask_proofs WITH
    cache <- task_cache, inFlight <- task_inFlight, slotOf <- task_slotOf,
    keyOf <- task_keyOf, running <- task_running, cancelled <- task_cancelled,
    outdated <- task_outdated, tainted <- task_tainted

\* No result of a flight that was given up stays behind, whatever is asked, cancelled and
\* reset while it runs.
THEOREM TasksAreSafe == Async!Spec => []AsyncTaskSafe
  <1>1. Async!Init <=> AsyncProofs!Init
    BY DEF Async!Init, AsyncProofs!Init, Async!EmptyCache, AsyncProofs!EmptyCache
  <1>2. [Async!Next]_(Async!vars) <=> [AsyncProofs!Next]_(AsyncProofs!vars)
    BY Zenon DEF
           Async!Next, AsyncProofs!Next, Async!vars, AsyncProofs!vars, Async!DoAsyncOrGet,
           AsyncProofs!DoAsyncOrGet, Async!FlightEnds, AsyncProofs!FlightEnds, Async!Cancel,
           AsyncProofs!Cancel, Async!Reset, AsyncProofs!Reset, Async!Close, AsyncProofs!Close,
           Async!Known, AsyncProofs!Known, Async!Current, AsyncProofs!Current, Async!Cancelled,
           AsyncProofs!Cancelled, Async!Outdated, AsyncProofs!Outdated, Async!Flying,
           AsyncProofs!Flying, Async!EmptyCache, AsyncProofs!EmptyCache
  <1>3. AsyncProofs!AsyncTaskSafe <=> AsyncTaskSafe
    BY Zenon DEF AsyncTaskSafe, Async!AsyncTaskSafe, AsyncProofs!AsyncTaskSafe, Async!TypeOK,
                 AsyncProofs!TypeOK, Async!NothingOutdatedIsStored,
                 AsyncProofs!NothingOutdatedIsStored, Async!GivenUpIsCancelled,
                 AsyncProofs!GivenUpIsCancelled, Async!FlightsAreAlive, AsyncProofs!FlightsAreAlive,
                 Async!Current, AsyncProofs!Current
  <1>4. AsyncProofs!Spec => []AsyncProofs!AsyncTaskSafe
    BY UploadAssumption, AsyncProofs!NoLateResult
  <1> QED
    BY <1>1, <1>2, <1>3, <1>4, PTL DEF Async!Spec, AsyncProofs!Spec

TaskProofs == INSTANCE AsyncTask_proofs WITH Slot <- {Token}, Key <- {Token}

-----------------------------------------------------------------------------
(* The files of a form field.                                              *)

Renamed == {"renamed", "unnoticed", "notified"}

\* The file at the destination is that of a session which renamed its own to it; before
\* the first there is nothing to verify.
FileOfASession ==
  /\ file # NoFile => complete[file] \in Renamed
  /\ file = NoFile => verdict = "absent" /\ \A s \in Session : complete[s] \notin Renamed

\* Once the store was told of the file that is there, no verifier of an older one still
\* counts.
VerifiedIsTheFile ==
  file # NoFile /\ complete[file] = "notified" =>
    /\ verdict # "absent" => verdict = Verdict(file)
    /\ \A f \in running \ outdated : opened[f] \in {NoFile, file}

OpenedAreRunning == \A f \in Flight \ running : opened[f] = NoFile

FileIInv ==
  /\ TypeOK /\ CompletedHasFile
  /\ FileOfASession /\ VerifiedIsTheFile /\ OpenedAreRunning

\* The asynchronous verification of a field is a use of AsyncTaskManager.
LEMMA VerificationStep == [Next]_vars => [Verification!Next]_(Verification!vars)
  <1> SUFFICES ASSUME [Next]_vars PROVE [Verification!Next]_(Verification!vars)
    OBVIOUS
  <1>1. ASSUME UNCHANGED asyncVars PROVE UNCHANGED Verification!vars
    BY <1>1 DEF asyncVars, Verification!vars
  <1>2. ASSUME NEW s \in Session, NotifyFileUploaded(s) PROVE Verification!Next
    BY <1>2 DEF NotifyFileUploaded, Verification!Next
  <1>3. ASSUME AskVerdict PROVE Verification!Next \/ UNCHANGED asyncVars
    BY <1>3 DEF AskVerdict, Verification!Next
  <1>4. ASSUME NEW f \in Flight, Verified(f) PROVE Verification!Next
    BY <1>4 DEF Verified, Verdict, Verification!Next
  <1>5. ASSUME Next, ~(\E s \in Session : NotifyFileUploaded(s)), ~AskVerdict,
               ~(\E f \in Flight : Verified(f))
        PROVE  UNCHANGED asyncVars
    BY <1>5 DEF Next, SetResultOnStartingUpload, StartSession, RememberSession, Resolve, Completion,
                ResolveFails, TakeToFinalize, FinalizeSession, FinalizeFails, StatFails,
                ForgetSession, TakeToRemove, RemoveSession, Form, ReadStatus, Verifier, OpenFile
  <1> QED
    BY <1>1, <1>2, <1>3, <1>4, <1>5 DEF vars

\* The verification of a form field is that of AsyncTaskManager, with one slot and one
\* input: what it promises holds of the field.
THEOREM FilesAreVerified == Spec => Verification!Spec /\ []Verification!AsyncTaskSafe
  <1>1. TaskProofs!Spec => []TaskProofs!AsyncTaskSafe
    BY UploadAssumption, TaskProofs!NoLateResult
  <1>2. Init => Verification!Init
    BY DEF Init
  <1>3. Verification!Init <=> TaskProofs!Init
    BY DEF Verification!Init, TaskProofs!Init, Verification!EmptyCache, TaskProofs!EmptyCache
  <1>4. [Verification!Next]_(Verification!vars) <=> [TaskProofs!Next]_(TaskProofs!vars)
    BY Zenon
    DEF Verification!Next, TaskProofs!Next, Verification!vars, TaskProofs!vars,
        Verification!DoAsyncOrGet, TaskProofs!DoAsyncOrGet, Verification!FlightEnds,
        TaskProofs!FlightEnds, Verification!Cancel, TaskProofs!Cancel, Verification!Reset,
        TaskProofs!Reset, Verification!Close, TaskProofs!Close, Verification!Known,
        TaskProofs!Known, Verification!Current, TaskProofs!Current, Verification!Cancelled,
        TaskProofs!Cancelled, Verification!Outdated, TaskProofs!Outdated, Verification!Flying,
        TaskProofs!Flying, Verification!EmptyCache, TaskProofs!EmptyCache
  <1>5. Verification!AsyncTaskSafe <=> TaskProofs!AsyncTaskSafe
    BY Zenon
    DEF Verification!AsyncTaskSafe, TaskProofs!AsyncTaskSafe, Verification!TypeOK,
        TaskProofs!TypeOK, Verification!NothingOutdatedIsStored, TaskProofs!NothingOutdatedIsStored,
        Verification!GivenUpIsCancelled, TaskProofs!GivenUpIsCancelled,
        Verification!FlightsAreAlive, TaskProofs!FlightsAreAlive, Verification!Current,
        TaskProofs!Current
  <1> QED
    BY <1>1, <1>2, <1>3, <1>4, <1>5, VerificationStep, PTL
    DEF Spec, Verification!Spec, TaskProofs!Spec

LEMMA FileIInvImplies == FileIInv => FileUploadSafe
  <1> SUFFICES ASSUME FileIInv, ~Unknown, verdict # "absent" PROVE verdict = Verdict(file)
    BY DEF FileIInv, FileUploadSafe, VerdictIsOfTheFile
  <1> QED
    BY DEF FileIInv, TypeOK, FileOfASession, Renamed, VerifiedIsTheFile, Unknown

LEMMA FileInit == Init => FileIInv
  <1> SUFFICES ASSUME Init PROVE FileIInv
    OBVIOUS
  <1>1. Verification!TypeOK /\ verdict = "absent" /\ running = {}
    BY DEF Init, Verification!Init, Verification!TypeOK, Verification!EmptyCache, Token, verdict
  <1>2. TypeOK
    BY <1>1 DEF Init, TypeOK
  <1> QED
    BY <1>1, <1>2, UploadAssumption
       DEF Init, FileIInv, CompletedHasFile, FileOfASession, Renamed, VerifiedIsTheFile,
           OpenedAreRunning

\* What a step does to the verification: nothing, or the form asks, or a flight ends, or
\* the store is told of a file.
LEMMA FileStep ==
  ASSUME FileIInv, Verification!AsyncTaskSafe, Verification!AsyncTaskSafe', [Next]_vars
  PROVE  FileIInv'
  <1> USE UploadAssumption DEF FileIInv, TypeOK, CompletedHasFile, FileOfASession, Renamed,
          VerifiedIsTheFile, OpenedAreRunning,
             formVars, asyncVars, verdict, Token
  <1>0. Verification!TypeOK /\ Verification!TypeOK'
    BY DEF Verification!AsyncTaskSafe
  <1>1. ASSUME NEW s \in Session, SetResultOnStartingUpload(s) PROVE FileIInv'
    BY <1>0, <1>1 DEF SetResultOnStartingUpload
  <1>2. ASSUME NEW s \in Session, StartSession(s) PROVE FileIInv'
    BY <1>0, <1>2 DEF StartSession
  <1>3. ASSUME NEW s \in Session, RememberSession(s) PROVE FileIInv'
    BY <1>0, <1>3 DEF RememberSession
  <1>4. ASSUME NEW s \in Session, Resolve(s) PROVE FileIInv'
    BY <1>0, <1>4 DEF Resolve
  <1>5. ASSUME NEW s \in Session, ResolveFails(s) PROVE FileIInv'
    BY <1>0, <1>5 DEF ResolveFails
  <1>6. ASSUME NEW s \in Session, TakeToFinalize(s) PROVE FileIInv'
    BY <1>0, <1>6 DEF TakeToFinalize, ChunkStep
  <1>7. ASSUME NEW s \in Session, FinalizeSession(s) PROVE FileIInv'
    BY <1>0, <1>7 DEF FinalizeSession, ChunkStep
  <1>8. ASSUME NEW s \in Session, FinalizeFails(s) PROVE FileIInv'
    BY <1>0, <1>8 DEF FinalizeFails, ChunkStep
  <1>9. ASSUME NEW s \in Session, StatFails(s) PROVE FileIInv'
    BY <1>0, <1>9 DEF StatFails
  <1>10. ASSUME NEW s \in Session, NotifyFileUploaded(s) PROVE FileIInv'
    <2> USE DEF NotifyFileUploaded, Verification!Reset
    <2>1. TypeOK' /\ CompletedHasFile' /\ OpenedAreRunning'
      BY <1>0, <1>10
    <2>2. cache'[Token] = Verification!EmptyCache /\ verdict' = "absent"
      BY <1>0, <1>10 DEF Verification!TypeOK, Verification!EmptyCache
    <2>3. FileOfASession'
      BY <1>0, <1>10, <2>2
    <2>4. running \subseteq Verification!Outdated({Token})
      BY <1>0 DEF Verification!TypeOK, Verification!Outdated
    <2>5. VerifiedIsTheFile'
      BY <1>0, <1>10, <2>2, <2>4
    <2> QED
      BY <2>1, <2>3, <2>5
  <1>11. ASSUME NEW s \in Session, ForgetSession(s) PROVE FileIInv'
    BY <1>0, <1>11 DEF ForgetSession
  <1>12. ASSUME NEW s \in Session, TakeToRemove(s) PROVE FileIInv'
    BY <1>0, <1>12 DEF TakeToRemove, ChunkStep
  <1>13. ASSUME NEW s \in Session, RemoveSession(s) PROVE FileIInv'
    BY <1>0, <1>13 DEF RemoveSession, ChunkStep
  <1>14. ASSUME ReadStatus PROVE FileIInv'
    <2> USE DEF ReadStatus
    <2>1. TypeOK'
      <3>1. /\ answer' \in {"none", "Waiting", "Uploading", "Verifying", "accepted", "refused"}
            /\ poll' \in BOOLEAN
        BY <1>14
      <3> QED
        BY <1>0, <1>14, <3>1
    <2>2. CompletedHasFile'
      BY <1>14
    <2> QED
      BY <1>14, <2>1, <2>2
  <1>15. ASSUME AskVerdict PROVE FileIInv'
    <2>1. file # NoFile /\ UNCHANGED <<status, complete, file, opened, cache>> /\ poll' = FALSE
      BY <1>15 DEF AskVerdict, Verification!DoAsyncOrGet
    <2>2. TypeOK'
      BY <1>0, <1>15 DEF AskVerdict
    <2>3. /\ running \subseteq running'
          /\ \A f \in running' \ outdated' :
               opened[f] \in {NoFile, file} \/ f \in running \ outdated
      BY <1>0, <1>15
      DEF AskVerdict, Verification!DoAsyncOrGet, Verification!Outdated, Verification!TypeOK
    <2> QED
      BY <1>0, <2>1, <2>2, <2>3
  <1>16. ASSUME NEW f \in Flight, OpenFile(f) PROVE FileIInv'
    BY <1>0, <1>16 DEF OpenFile
  <1>17. ASSUME NEW f \in Flight, Verified(f) PROVE FileIInv'
    <2> USE DEF Verified
    <2>1. /\ f \in running /\ running' = running \ {f} /\ outdated' = outdated
          /\ opened' = [opened EXCEPT ![f] = NoFile] /\ opened[f] # NoFile
          /\ UNCHANGED <<status, complete, file, poll, answer, chunk, start, sessionMap>>
      BY <1>17 DEF Verification!FlightEnds
    <2>2. TypeOK'
      BY <1>0, <1>17, <2>1
    <2>3. verdict' # verdict => verdict' = Verdict(opened[f]) /\ f \notin outdated
      <3>1. tainted' = {} /\ slotOf[f] = Token /\ keyOf[f] = Token
        BY <1>0 DEF Verification!AsyncTaskSafe, Verification!NothingOutdatedIsStored,
                    Verification!TypeOK
      <3>2. \/ cache' = cache
            \/ cache' = [cache EXCEPT ![Token][Token] = Verdict(opened[f])] /\ f \notin outdated
        <4>1. CASE cache' = cache
          BY <4>1
        <4>2. CASE cache' # cache
          <5>1. /\ cache' = [cache EXCEPT ![slotOf[f]][keyOf[f]] = Verdict(opened[f])]
                /\ f \in outdated => tainted' = tainted \cup {<<slotOf[f], keyOf[f]>>}
            BY <1>17, <4>2 DEF Verification!FlightEnds
          <5> QED
            BY <3>1, <5>1
        <4> QED
          BY <4>1, <4>2
      <3>3. Token \in DOMAIN cache /\ Token \in DOMAIN cache[Token]
        BY <1>0 DEF Verification!TypeOK
      <3> QED
        BY <3>2, <3>3
    <2> QED
      BY <1>0, <2>1, <2>2, <2>3
  <1>18. ASSUME UNCHANGED vars PROVE FileIInv'
    BY <1>0, <1>18 DEF vars
  <1> HIDE DEF FileIInv
  <1> QED
    BY <1>1, <1>2, <1>3, <1>4, <1>5, <1>6, <1>7, <1>8, <1>9, <1>10, <1>11, <1>12, <1>13, <1>14,
       <1>15, <1>16, <1>17, <1>18 DEF Next, Completion, Form, Verifier

THEOREM FilesAreSafe == Spec => []FileUploadSafe
  BY FileIInvImplies, FileInit, FileStep, FilesAreVerified, PTL DEF Spec

-----------------------------------------------------------------------------
(* A chunked upload.                                                       *)

\* A set of natural numbers has a least element.
LEMMA Least == ASSUME NEW T \in SUBSET Nat, T # {} PROVE \E x \in T : \A y \in T : x <= y
  <1> PICK m \in T : TRUE
    OBVIOUS
  <1> DEFINE S == 1..m
             U == {1..n : n \in {k \in T : k <= m}}
             R == StrictSubsetOrdering(S)
  <1>1. IsWellFoundedOn(R, SUBSET S)
    <2>1. IsFiniteSet(S)
      BY FS_Interval
    <2> HIDE DEF S
    <2>2. IsWellFoundedOn(R, FiniteSubsetsOf(S)) /\ FiniteSubsetsOf(S) = SUBSET S
      BY <2>1, FS_StrictSubsetOrderingWellFounded, FS_FiniteSubsetsOfFinite
    <2> QED
      BY <2>2
  <1>2. U \subseteq SUBSET S /\ 1..m \in U
    OBVIOUS
  <1> HIDE DEF U, R
  <1>3. PICK u \in U : \A v \in U : ~(<<v, u>> \in R)
    BY <1>1, <1>2, WFMin
  <1>4. PICK x \in T : x <= m /\ u = 1..x
    BY DEF U
  <1>5. ASSUME NEW y \in T, y < x PROVE FALSE
    <2>1. 1..y \in U /\ 1..y \in SUBSET S /\ u \in SUBSET S
      BY <1>2, <1>4, <1>5 DEF U
    <2>2. 1..y \subseteq u
      BY <1>4, <1>5
    <2>3. x \in u /\ x \notin 1..y
      BY <1>4, <1>5
    <2>4. <<1..y, u>> \in R
      BY <2>1, <2>2, <2>3 DEF R, StrictSubsetOrdering
    <2> QED
      BY <1>3, <2>1, <2>4
  <1> QED
    BY <1>5

\* The range of a chunk is not empty, and lies within the file.
LEMMA RangeOfChunk ==
  ASSUME NEW i \in Chunked!Chunk
  PROVE  /\ Chunked!ByteRange(i).start \in Nat /\ Chunked!ByteRange(i).end \in Nat
         /\ Chunked!ByteRange(i).start < Chunked!ByteRange(i).end
         /\ Chunked!ByteRange(i).end <= TotalSize
  <1> DEFINE first == (i - 1) * ChunkSize
             count == (TotalSize + ChunkSize - 1) \div ChunkSize
  <1>1. TotalSize \in Nat /\ ChunkSize \in Nat /\ ChunkSize > 0 /\ i \in Nat /\ 1 <= i /\ i <= count
    BY UploadAssumption DEF Chunked!Chunk
  <1>2. count \in Nat /\ count * ChunkSize <= TotalSize + ChunkSize - 1
    BY <1>1
  <1>3. first \in Nat /\ i * ChunkSize = first + ChunkSize /\ i * ChunkSize <= count * ChunkSize
    BY <1>1, <1>2
  <1>4. first < TotalSize
    BY <1>1, <1>2, <1>3
  <1> QED
    BY <1>1, <1>3, <1>4 DEF Chunked!ByteRange, Chunked!Lesser

LEMMA RangesDiffer ==
  ASSUME NEW i \in Chunked!Chunk, NEW j \in Chunked!Chunk,
         Chunked!ByteRange(i) = Chunked!ByteRange(j)
  PROVE  i = j
  <1>1. ChunkSize \in Nat /\ ChunkSize > 0 /\ i \in Int /\ j \in Int
    BY UploadAssumption DEF Chunked!Chunk
  <1>2. (i - 1) * ChunkSize = (j - 1) * ChunkSize
    BY DEF Chunked!ByteRange
  <1> QED
    BY <1>1, <1>2

LEMMA ChunkedCardinality == \A S : Chunked!Cardinality(S) = Cardinality(S)
  BY Zenon DEF Chunked!Cardinality, Cardinality

Ranges == {Chunked!ByteRange(i) : i \in Chunked!Chunk}

\* What ValidateReceivedRanges accepts has every byte of the file once: sorted, each range
\* begins where the one before it ends.
LEMMA ValidIsTiled ==
  ASSUME NEW ranges \in Seq(Ranges), Chunked!ValidateReceivedRanges(ranges)
  PROVE  /\ \A b \in 0 .. TotalSize - 1 : \E k \in DOMAIN ranges : b \in Chunked!Bytes(ranges[k])
         /\ Chunked!Tiled(ranges)
  <1>1. PICK from \in Chunked!Orders(ranges) :
          LET sorted == [i \in DOMAIN ranges |-> ranges[from[i]]]
              last == Len(ranges)
          IN /\ ranges # <<>>
             /\ sorted[1].start = 0
             /\ \A i \in 1 .. last - 1 : sorted[i].end = sorted[i + 1].start
             /\ sorted[last].end = TotalSize
    BY DEF Chunked!ValidateReceivedRanges
  <1> DEFINE n == Len(ranges)
             s == [i \in 1 .. n |-> ranges[from[i]]]
  <1>2. n \in Nat /\ n > 0 /\ DOMAIN ranges = 1 .. n /\ TotalSize \in Nat
    BY <1>1, UploadAssumption
  <1>3. from \in [1 .. n -> 1 .. n]
    BY <1>2 DEF Chunked!Orders
  <1>4. \A i \in 1 .. n : s[i] = ranges[from[i]] /\ s[i] \in Ranges
    BY <1>2, <1>3
  <1>5. \A i \in 1 .. n : /\ s[i].start \in Nat /\ s[i].end \in Nat
                          /\ s[i].start < s[i].end /\ s[i].end <= TotalSize
    BY <1>4, RangeOfChunk DEF Ranges
  <1>6. /\ s[1].start = 0 /\ s[n].end = TotalSize
        /\ \A i \in 1 .. n - 1 : s[i].end = s[i + 1].start
    BY <1>1, <1>2
  <1>7. \A i, j \in 1 .. n : i < j => from[i] # from[j] /\ s[i].start <= s[j].start
    BY <1>2, <1>4 DEF Chunked!Orders
  <1> HIDE DEF n, s
  <1>8. ASSUME NEW i \in 1 .. n, NEW j \in 1 .. n, i < j PROVE s[i].end <= s[j].start
    <2>1. i \in 1 .. n - 1 /\ i + 1 \in 1 .. n /\ (i + 1 = j \/ i + 1 < j)
      BY <1>2, <1>8
    <2>2. s[i + 1].start <= s[j].start
      BY <2>1, <1>5, <1>7
    <2> QED
      BY <2>1, <2>2, <1>6
  <1>9. ASSUME NEW b \in 0 .. TotalSize - 1
        PROVE  \E i \in 1 .. n : b \in Chunked!Bytes(s[i])
    <2> DEFINE Ending == {i \in 1 .. n : b < s[i].end}
    <2>1. Ending \in SUBSET Nat /\ n \in Ending
      BY <1>2, <1>6
    <2>2. PICK i \in Ending : \A j \in Ending : i <= j
      BY <2>1, Least
    <2>3. s[i].start <= b
      <3>1. CASE i = 1
        BY <3>1, <1>6
      <3>2. CASE i # 1
        <4>1. i - 1 \in 1 .. n - 1 /\ i - 1 \in 1 .. n /\ i - 1 \notin Ending
          BY <3>2, <2>2, <1>2
        <4>2. ~(b < s[i - 1].end) /\ s[i - 1].end = s[i].start
          BY <4>1, <1>6
        <4> QED
          BY <4>1, <4>2, <1>5
      <3> QED
        BY <3>1, <3>2
    <2> QED
      BY <2>2, <2>3, <1>5 DEF Chunked!Bytes
  <1>10. ASSUME NEW b \in 0 .. TotalSize - 1, NEW i \in 1 .. n, NEW j \in 1 .. n,
                b \in Chunked!Bytes(s[i]), b \in Chunked!Bytes(s[j])
         PROVE  i = j
    <2>1. s[i].start <= b /\ b < s[i].end /\ s[j].start <= b /\ b < s[j].end
      BY <1>5, <1>10 DEF Chunked!Bytes
    <2> QED
      BY <2>1, <1>5, <1>8
  <1>11. from \in Injection(1 .. n, 1 .. n)
    BY <1>2, <1>3, <1>7 DEF Injection, IsInjective
  <1>12. from \in Surjection(1 .. n, 1 .. n)
    BY <1>2, <1>11, FS_Interval, FS_Injection
  <1>13. ASSUME NEW b \in 0 .. TotalSize - 1
         PROVE  \E k \in 1 .. n : {l \in 1 .. n : b \in Chunked!Bytes(ranges[l])} = {k}
    <2>1. PICK i \in 1 .. n : b \in Chunked!Bytes(s[i])
      BY <1>9
    <2>2. ASSUME NEW l \in 1 .. n, b \in Chunked!Bytes(ranges[l]) PROVE l = from[i]
      <3>1. PICK j \in 1 .. n : from[j] = l
        BY <1>12 DEF Surjection
      <3> QED
        BY <3>1, <2>1, <2>2, <1>4, <1>10
    <2> QED
      BY <2>1, <2>2, <1>3, <1>4
  <1> QED
    <2>1. \A k : Cardinality({k}) = 1
      BY FS_Singleton
    <2> QED
      BY <1>2, <1>13, <2>1, ChunkedCardinality DEF Chunked!Tiled

Request == 1 .. MaxRetries + 1

\* The file is what was recorded: each attempt once that was answered.
Recorded ==
  chunked_written = UNION {Chunked!Bytes(chunked_received[k]) : k \in DOMAIN chunked_received}

\* An attempt that was not made has no handler.
Attempted ==
  \A i \in Chunked!Chunk :
    /\ \A n \in Request : n > chunked_tries[i] => chunked_request[i][n] = "none"
    /\ chunked_upload[i] = "todo" => chunked_tries[i] = 0
    /\ chunked_upload[i] = "backoff" => chunked_tries[i] <= MaxRetries

\* Who took the session out decides on its file, and what was handed over was complete.
OneDecides ==
  /\ chunked_open <=> chunked_taker = "none"
  /\ chunked_temp # "open" => ~chunked_open
  /\ chunked_temp = "delivered" =>
       chunked_taker = "finalize" /\ Chunked!ValidateReceivedRanges(chunked_received)
  /\ chunked_answer = "ok" => chunked_temp = "delivered"
  /\ chunked_client = "succeeded" => chunked_answer = "ok"

ChunkedIInv ==
  /\ Chunked!TypeOK /\ Chunked!AcknowledgedIsRecorded
  /\ Recorded /\ Attempted /\ OneDecides

LEMMA ChunkedIInvImplies == ChunkedIInv => ChunkedUploadSafe
  <1> SUFFICES ASSUME ChunkedIInv
               PROVE  Chunked!DeliveredIsComplete /\ Chunked!SuccessIsDelivered
    BY DEF ChunkedIInv, ChunkedUploadSafe, Chunked!ChunkedUploadSafe
  <1> USE DEF ChunkedIInv, Recorded, OneDecides, Chunked!TypeOK
  <1>1. Chunked!SuccessIsDelivered
    BY DEF Chunked!SuccessIsDelivered
  <1>2. ASSUME chunked_temp = "delivered"
        PROVE  chunked_written = 0 .. TotalSize - 1 /\ Chunked!Tiled(chunked_received)
    <2>1. chunked_received \in Seq(Ranges) /\ Chunked!ValidateReceivedRanges(chunked_received)
      BY <1>2 DEF Ranges
    <2>2. /\ \A b \in 0 .. TotalSize - 1 :
               \E k \in DOMAIN chunked_received : b \in Chunked!Bytes(chunked_received[k])
          /\ Chunked!Tiled(chunked_received)
      BY <2>1, ValidIsTiled
    <2> QED
      BY <2>2
  <1> QED
    BY <1>1, <1>2 DEF Chunked!DeliveredIsComplete

LEMMA ChunkedInit == Chunked!Init => ChunkedIInv
  <1> SUFFICES ASSUME Chunked!Init PROVE ChunkedIInv
    OBVIOUS
  <1> USE DEF Chunked!Init
  <1>1. Chunked!TypeOK
    <2>1. <<>> \in Seq({Chunked!ByteRange(i) : i \in Chunked!Chunk})
      OBVIOUS
    <2>2. 0 \in 0 .. MaxRetries + 1
      BY UploadAssumption
    <2> QED
      BY <2>1, <2>2 DEF Chunked!TypeOK
  <1>2. Chunked!AcknowledgedIsRecorded
    <2> SUFFICES ASSUME NEW i \in Chunked!Chunk
                 PROVE  Chunked!Cardinality({k \in DOMAIN chunked_received :
                          chunked_received[k] = Chunked!ByteRange(i)})
                          = Chunked!Cardinality({n \in DOMAIN chunked_request[i] :
                            chunked_request[i][n] = "ok"})
      BY DEF Chunked!AcknowledgedIsRecorded
    <2>1. {k \in DOMAIN chunked_received : chunked_received[k] = Chunked!ByteRange(i)} = {}
      OBVIOUS
    <2>2. {n \in DOMAIN chunked_request[i] : chunked_request[i][n] = "ok"} = {}
      OBVIOUS
    <2> QED
      BY <2>1, <2>2
  <1>3. Recorded
    BY DEF Recorded
  <1> QED
    BY <1>1, <1>2, <1>3 DEF ChunkedIInv, Attempted, Request, OneDecides

Kept(i) == {k \in DOMAIN chunked_received : chunked_received[k] = Chunked!ByteRange(i)}
Oks(i) == {n \in DOMAIN chunked_request[i] : chunked_request[i][n] = "ok"}

LEMMA Acknowledged ==
  /\ Chunked!AcknowledgedIsRecorded
       <=> \A i \in Chunked!Chunk : Cardinality(Kept(i)) = Cardinality(Oks(i))
  /\ Chunked!AcknowledgedIsRecorded'
       <=> \A i \in Chunked!Chunk : Cardinality(Kept(i)') = Cardinality(Oks(i)')
  BY ChunkedCardinality DEF Chunked!AcknowledgedIsRecorded, Kept, Oks

\* What a request becomes short of an acknowledgement changes nothing that was acknowledged.
LEMMA NotAcknowledged ==
  ASSUME Chunked!TypeOK, Chunked!AcknowledgedIsRecorded, NEW i \in Chunked!Chunk, NEW n \in Request,
         NEW to \in {"sent", "found", "refused"}, chunked_request[i][n] # "ok",
         chunked_request' = [chunked_request EXCEPT ![i][n] = to],
         UNCHANGED chunked_received
  PROVE  Chunked!AcknowledgedIsRecorded'
  <1> USE DEF Chunked!TypeOK, Request
  <1>1. ASSUME NEW j \in Chunked!Chunk PROVE Kept(j)' = Kept(j) /\ Oks(j)' = Oks(j)
    <2>1. Kept(j)' = Kept(j)
      BY DEF Kept
    <2>2. /\ DOMAIN chunked_request'[j] = Request /\ DOMAIN chunked_request[j] = Request
          /\ \A m \in Request : chunked_request'[j][m] = "ok" <=> chunked_request[j][m] = "ok"
      OBVIOUS
    <2> QED
      BY <2>1, <2>2 DEF Oks
  <1> QED
    BY <1>1, Acknowledged

\* One that is acknowledged is recorded at the same time.
LEMMA AcknowledgedOnce ==
  ASSUME Chunked!TypeOK, Chunked!AcknowledgedIsRecorded, NEW i \in Chunked!Chunk, NEW n \in Request,
         chunked_request[i][n] # "ok",
         chunked_request' = [chunked_request EXCEPT ![i][n] = "ok"],
         chunked_received' = Append(chunked_received, Chunked!ByteRange(i))
  PROVE  Chunked!AcknowledgedIsRecorded'
  <1> USE DEF Chunked!TypeOK, Request
  <1> DEFINE l == Len(chunked_received)
  <1>1. /\ l \in Nat /\ DOMAIN chunked_received = 1 .. l /\ DOMAIN chunked_received' = 1 .. l + 1
        /\ chunked_received'[l + 1] = Chunked!ByteRange(i)
        /\ \A k \in 1 .. l : chunked_received'[k] = chunked_received[k]
    OBVIOUS
  <1> HIDE DEF l
  <1>2. ASSUME NEW j \in Chunked!Chunk PROVE Cardinality(Kept(j)') = Cardinality(Oks(j)')
    <2>1. /\ DOMAIN chunked_request'[j] = Request /\ DOMAIN chunked_request[j] = Request
          /\ \A m \in Request : chunked_request'[j][m] = "ok" <=>
                                  chunked_request[j][m] = "ok" \/ (j = i /\ m = n)
      OBVIOUS
    <2>2. Cardinality(Kept(j)) = Cardinality(Oks(j))
      BY Acknowledged
    <2>3. IsFiniteSet(Kept(j)) /\ IsFiniteSet(Oks(j))
      <3>1. IsFiniteSet(1 .. l) /\ IsFiniteSet(Request)
        BY <1>1, UploadAssumption, FS_Interval
      <3>2. Kept(j) \subseteq 1 .. l /\ Oks(j) \subseteq Request
        BY <1>1, <2>1 DEF Kept, Oks
      <3> QED
        BY <3>1, <3>2, FS_Subset
    <2>4. CASE j = i
      <3>1. Kept(j)' = Kept(j) \cup {l + 1} /\ l + 1 \notin Kept(j)
        <4>1. 1 .. l + 1 = 1 .. l \cup {l + 1} /\ l + 1 \notin 1 .. l
          BY <1>1
        <4> QED
          BY <1>1, <2>4, <4>1 DEF Kept
      <3>2. Oks(j)' = Oks(j) \cup {n} /\ n \notin Oks(j)
        BY <2>1, <2>4 DEF Oks
      <3>3. /\ Cardinality(Kept(j)') = Cardinality(Kept(j)) + 1
            /\ Cardinality(Oks(j)') = Cardinality(Oks(j)) + 1
        <4> HIDE DEF Kept, Oks, Chunked!TypeOK
        <4> QED
          BY <3>1, <3>2, <2>3, FS_AddElement
      <3> QED
        BY <3>3, <2>2
    <2>5. CASE j # i
      <3>1. Kept(j)' = Kept(j)
        BY <1>1, <2>5, RangesDiffer DEF Kept
      <3>2. Oks(j)' = Oks(j)
        BY <2>1, <2>5 DEF Oks
      <3> QED
        BY <3>1, <3>2, <2>2
    <2> QED
      BY <2>4, <2>5
  <1> QED
    BY <1>2, Acknowledged

LEMMA ChunkedStep == ChunkedIInv /\ [Chunked!Next]_(Chunked!vars) => ChunkedIInv'
  <1> SUFFICES ASSUME ChunkedIInv, [Chunked!Next]_(Chunked!vars) PROVE ChunkedIInv'
    OBVIOUS
  <1> USE UploadAssumption
      DEF ChunkedIInv, Chunked!TypeOK, Recorded, Attempted, OneDecides, Request, Chunked!clientVars,
          Chunked!sessionVars
  \* What the client learns changes nothing on the server.
  <1>1. ASSUME UNCHANGED <<chunked_received, chunked_written, chunked_request>>,
               Chunked!TypeOK', Attempted', OneDecides'
        PROVE  ChunkedIInv'
    <2>1. \A i : Kept(i)' = Kept(i) /\ Oks(i)' = Oks(i)
      BY <1>1 DEF Kept, Oks
    <2>2. Chunked!AcknowledgedIsRecorded'
      BY <2>1, Acknowledged
    <2>3. Recorded'
      BY <1>1
    <2> QED
      BY <1>1, <2>2, <2>3
  <1>2. ASSUME NEW i \in Chunked!Chunk, Chunked!TakeChunk(i) \/ Chunked!Retry(i) PROVE ChunkedIInv'
    <2> USE DEF Chunked!TakeChunk, Chunked!Retry, Chunked!Send
    <2>1. chunked_tries[i] \in 0 .. MaxRetries /\ chunked_tries[i] + 1 \in Request
      BY <1>2
    <2>2. chunked_request' = [chunked_request EXCEPT ![i][chunked_tries[i] + 1] = "sent"]
          /\ chunked_request[i][chunked_tries[i] + 1] = "none"
      BY <1>2, <2>1
    <2>3. Chunked!AcknowledgedIsRecorded'
      BY <1>2, <2>1, <2>2, NotAcknowledged
    <2>4. Chunked!TypeOK'
      <3>1. chunked_tries' \in [Chunked!Chunk -> 0 .. MaxRetries + 1]
        BY <1>2, <2>1
      <3>2. chunked_request'
              \in [Chunked!Chunk -> [Request -> {"none", "sent", "found", "ok", "refused"}]]
        BY <2>1, <2>2
      <3>3. chunked_upload'
              \in [Chunked!Chunk -> {"todo", "sending", "backoff", "uploaded", "dropped"}]
        BY <1>2
      <3> QED
        BY <1>2, <3>1, <3>2, <3>3
    <2>5. Attempted'
      <3> SUFFICES ASSUME NEW j \in Chunked!Chunk
                   PROVE  /\ \A n \in Request : n > chunked_tries'[j]
                               => chunked_request'[j][n] = "none"
                          /\ chunked_upload'[j] = "todo" => chunked_tries'[j] = 0
                          /\ chunked_upload'[j] = "backoff" => chunked_tries'[j] <= MaxRetries
        OBVIOUS
      <3>1. CASE j = i
        <4>1. chunked_tries'[j] = chunked_tries[i] + 1 /\ chunked_upload'[j] = "sending"
          BY <1>2, <3>1
        <4>2. \A n \in Request : n # chunked_tries[i] + 1
                => chunked_request'[j][n] = chunked_request[i][n]
          BY <2>2, <3>1
        <4> QED
          BY <2>1, <4>1, <4>2
      <3>2. CASE j # i
        BY <1>2, <2>2, <3>2
      <3> QED
        BY <3>1, <3>2
    <2>6. OneDecides' /\ Recorded'
      BY <1>2
    <2> QED
      BY <2>3, <2>4, <2>5, <2>6
  <1>3. ASSUME NEW i \in Chunked!Chunk, Chunked!Acknowledged(i) PROVE ChunkedIInv'
    BY <1>1, <1>3 DEF Chunked!Acknowledged
  <1>4. ASSUME NEW i \in Chunked!Chunk, Chunked!RefusedByServer(i) PROVE ChunkedIInv'
    BY <1>1, <1>4 DEF Chunked!RefusedByServer, Chunked!GiveUp, Chunked!Busy
  <1>5. ASSUME NEW i \in Chunked!Chunk, Chunked!NetworkError(i) PROVE ChunkedIInv'
    <2> USE DEF Chunked!NetworkError, Chunked!Retryable, Chunked!GiveUp, Chunked!Busy
    <2>1. Chunked!TypeOK' /\ OneDecides'
      BY <1>5
    <2>2. Attempted'
      BY <1>5
    <2> QED
      BY <1>1, <1>5, <2>1, <2>2
  <1>6. ASSUME Chunked!WorkersEnd PROVE ChunkedIInv'
    BY <1>1, <1>6 DEF Chunked!WorkersEnd
  <1>7. ASSUME \/ Chunked!CompleteSucceeds \/ Chunked!CompleteFails
               \/ Chunked!AbortReturns \/ Chunked!ClientGone
        PROVE  ChunkedIInv'
    <2> USE DEF Chunked!CompleteSucceeds, Chunked!CompleteFails, Chunked!AbortReturns,
                Chunked!ClientGone
    <2>1. Chunked!TypeOK'
      BY <1>7
    <2>2. Attempted' /\ OneDecides'
      BY <1>7
    <2> QED
      BY <1>1, <1>7, <2>1, <2>2
  <1>8. ASSUME Chunked!AbortedByUser PROVE ChunkedIInv'
    BY <1>1, <1>8 DEF Chunked!AbortedByUser, Chunked!GiveUp, Chunked!Busy
  <1>9. ASSUME NEW i \in Chunked!Chunk, NEW n \in Request,
               Chunked!FindSession(i, n) \/ Chunked!WriteFails(i, n)
        PROVE  ChunkedIInv'
    <2> USE DEF Chunked!FindSession, Chunked!WriteFails
    <2>1. PICK to \in {"sent", "found", "refused"} :
                 chunked_request' = [chunked_request EXCEPT ![i][n] = to]
      BY <1>9
    <2>2. chunked_request[i][n] # "ok" /\ chunked_request[i][n] # "none"
      BY <1>9
    <2>3. Chunked!AcknowledgedIsRecorded'
      BY <1>9, <2>1, <2>2, NotAcknowledged
    <2>4. Chunked!TypeOK'
      <3>1. chunked_request'
              \in [Chunked!Chunk -> [Request -> {"none", "sent", "found", "ok", "refused"}]]
        BY <2>1
      <3> QED
        BY <1>9, <3>1
    <2>5. Attempted'
      <3> SUFFICES ASSUME NEW j \in Chunked!Chunk, NEW m \in Request, m > chunked_tries[j]
                   PROVE  chunked_request'[j][m] = "none"
        BY <1>9
      <3>1. chunked_request[j][m] = "none" /\ ~(j = i /\ m = n)
        BY <2>2
      <3> QED
        BY <2>1, <3>1
    <2>6. OneDecides' /\ Recorded'
      BY <1>9
    <2> QED
      BY <2>3, <2>4, <2>5, <2>6
  <1>10. ASSUME NEW i \in Chunked!Chunk, NEW n \in Request, Chunked!WriteChunk(i, n)
         PROVE  ChunkedIInv'
    <2> USE DEF Chunked!WriteChunk, Chunked!Writable
    <2>1. Chunked!AcknowledgedIsRecorded'
      BY <1>10, AcknowledgedOnce
    <2>2. Chunked!Bytes(Chunked!ByteRange(i)) \subseteq 0 .. TotalSize - 1
      BY RangeOfChunk DEF Chunked!Bytes
    <2>3. Chunked!TypeOK'
      <3>1. chunked_request'
              \in [Chunked!Chunk -> [Request -> {"none", "sent", "found", "ok", "refused"}]]
        BY <1>10
      <3>2. chunked_received' \in Seq({Chunked!ByteRange(j) : j \in Chunked!Chunk})
        BY <1>10
      <3> QED
        BY <1>10, <2>2, <3>1, <3>2
    <2>4. Attempted'
      <3> SUFFICES ASSUME NEW j \in Chunked!Chunk, NEW m \in Request, m > chunked_tries[j]
                   PROVE  chunked_request'[j][m] = "none"
        BY <1>10
      <3>1. chunked_request[j][m] = "none" /\ ~(j = i /\ m = n)
        BY <1>10
      <3> QED
        BY <1>10, <3>1
    <2>5. Recorded'
      <3> DEFINE l == Len(chunked_received)
      <3>1. /\ l \in Nat /\ DOMAIN chunked_received = 1 .. l
            /\ DOMAIN chunked_received' = 1 .. l + 1
            /\ chunked_received'[l + 1] = Chunked!ByteRange(i)
            /\ \A k \in 1 .. l : chunked_received'[k] = chunked_received[k]
        BY <1>10
      <3> HIDE DEF l
      <3>2. \A k : k \in 1 .. l + 1 <=> k \in 1 .. l \/ k = l + 1
        BY <3>1
      <3>3. chunked_written' = chunked_written \cup Chunked!Bytes(Chunked!ByteRange(i))
        BY <1>10
      <3>4. DOMAIN chunked_received' = DOMAIN chunked_received \cup {l + 1}
        BY <3>1, <3>2
      <3> HIDE DEF Chunked!TypeOK, Attempted, OneDecides
      <3> SUFFICES ASSUME NEW b
                   PROVE  b \in chunked_written' <=>
                            \E k \in DOMAIN chunked_received' :
                              b \in Chunked!Bytes(chunked_received'[k])
        OBVIOUS
      <3>5. b \in chunked_written <=>
              \E k \in DOMAIN chunked_received : b \in Chunked!Bytes(chunked_received[k])
        OBVIOUS
      <3> QED
        BY <3>1, <3>3, <3>4, <3>5
    <2>6. OneDecides'
      BY <1>10
    <2> QED
      BY <2>1, <2>3, <2>4, <2>5, <2>6
  <1>11. ASSUME Chunked!FinalizeSession PROVE ChunkedIInv'
    <2> USE DEF Chunked!FinalizeSession, Chunked!Take
    <2>1. Chunked!TypeOK'
      BY <1>11
    <2>2. Attempted'
      BY <1>11
    <2>3. OneDecides'
      BY <1>11
    <2> QED
      BY <1>1, <1>11, <2>1, <2>2, <2>3
  <1>12. ASSUME Chunked!AbortSession \/ Chunked!Evict PROVE ChunkedIInv'
    <2> USE DEF Chunked!AbortSession, Chunked!Evict, Chunked!Take
    <2>1. Chunked!TypeOK'
      <3>1. /\ chunked_open' \in BOOLEAN /\ chunked_doomed' \in BOOLEAN
            /\ chunked_taker' \in {"none", "finalize", "abort", "evict"}
        BY <1>12
      <3>2. UNCHANGED <<Chunked!clientVars, chunked_request, chunked_asked, chunked_answer,
                        chunked_received, chunked_written, chunked_temp, chunked_expired>>
        BY <1>12
      <3> HIDE DEF Chunked!AbortSession, Chunked!Evict, Chunked!Take
      <3> QED
        BY <3>1, <3>2
    <2>2. Attempted'
      BY <1>12
    <2>3. OneDecides'
      BY <1>12
    <2> QED
      BY <1>1, <1>12, <2>1, <2>2, <2>3
  <1>13. ASSUME Chunked!FinishFinalize PROVE ChunkedIInv'
    BY <1>1, <1>13 DEF Chunked!FinishFinalize
  <1>14. ASSUME Chunked!FinishAbort PROVE ChunkedIInv'
    BY <1>1, <1>14 DEF Chunked!FinishAbort
  <1>15. ASSUME Chunked!Expire \/ Chunked!Expirations PROVE ChunkedIInv'
    <2> USE DEF Chunked!Expire, Chunked!Expirations
    <2>1. Chunked!TypeOK'
      <3>1. CASE Chunked!Expire
        BY <3>1
      <3>2. CASE Chunked!Expirations
        BY <3>2
      <3> QED
        BY <1>15, <3>1, <3>2
    <2>2. Attempted'
      BY <1>15
    <2>3. OneDecides'
      BY <1>15
    <2> QED
      BY <1>1, <1>15, <2>1, <2>2, <2>3
  <1>16. ASSUME UNCHANGED Chunked!vars PROVE ChunkedIInv'
    BY <1>1, <1>16 DEF Chunked!vars
  <1> HIDE DEF ChunkedIInv
  <1> QED
    BY <1>2, <1>3, <1>4, <1>5, <1>6, <1>7, <1>8, <1>9, <1>10, <1>11, <1>12, <1>13, <1>14, <1>15,
       <1>16
       DEF Chunked!Next, Chunked!ClientStep, Chunked!Handler, Chunked!Sweeper, Chunked!Quiet

\* A file that is handed over was written from the first byte to the last, and each byte
\* once, for any number and size of chunks, attempts and lost answers.
THEOREM UploadsAreComplete == Chunked!Spec => []ChunkedUploadSafe
  BY ChunkedInit, ChunkedStep, ChunkedIInvImplies, PTL DEF Chunked!Spec

\* So both ways of taking in a file are safe.
THEOREM UploadsAreSafe == Spec /\ Chunked!Spec => []UploadsSafe
  BY FilesAreSafe, UploadsAreComplete, PTL DEF UploadsSafe

\* One upload is one session of ChunkSession.
THEOREM UploadsAreSessions == Chunked!Spec => SessionSpec
  <1> DEFINE session == IF chunked_temp # "open" THEN chunked_temp
                        ELSE IF chunked_open THEN "open" ELSE "taken"
  <1>1. Chunked!Init => Chunked!AbstractSession!Init
    BY DEF Chunked!Init, Chunked!AbstractSession!Init
  <1>2. ChunkedIInv /\ [Chunked!Next]_(Chunked!vars) => [Chunked!AbstractSession!Next]_session
    <2> SUFFICES ASSUME ChunkedIInv, [Chunked!Next]_(Chunked!vars), session' # session
                 PROVE  Chunked!AbstractSession!Next
      OBVIOUS
    <2> USE DEF ChunkedIInv, OneDecides, Chunked!TypeOK, Chunked!clientVars, Chunked!sessionVars,
                Chunked!AbstractSession!Next, Chunked!AbstractSession!Take,
                Chunked!AbstractSession!Deliver, Chunked!AbstractSession!Remove
    <2>1. CASE Chunked!FinalizeSession \/ Chunked!AbortSession \/ Chunked!Evict
      BY <2>1 DEF Chunked!FinalizeSession, Chunked!AbortSession, Chunked!Evict, Chunked!Take
    <2>2. CASE Chunked!FinishFinalize \/ Chunked!FinishAbort
      BY <2>2 DEF Chunked!FinishFinalize, Chunked!FinishAbort
    <2>3. CASE UNCHANGED <<chunked_temp, chunked_open>>
      BY <2>3
    <2> QED
      BY <2>1, <2>2, <2>3
         DEF Chunked!vars, Chunked!Next, Chunked!ClientStep, Chunked!Handler, Chunked!Sweeper,
             Chunked!Quiet, Chunked!TakeChunk, Chunked!Retry, Chunked!Acknowledged,
             Chunked!RefusedByServer, Chunked!NetworkError, Chunked!WorkersEnd,
             Chunked!CompleteSucceeds, Chunked!CompleteFails, Chunked!AbortReturns,
             Chunked!ClientGone, Chunked!AbortedByUser, Chunked!FindSession, Chunked!WriteFails,
             Chunked!WriteChunk, Chunked!Expire, Chunked!Expirations
  <1> QED
    BY <1>1, <1>2, ChunkedInit, ChunkedStep, PTL
       DEF Chunked!Spec, SessionSpec, Chunked!SessionSpec, Chunked!AbstractSession!Steps

-----------------------------------------------------------------------------
(* The timelines.                                                          *)

Item ==
  {i \in [worker : Worker, set : Nat, item : Nat] :
     i.set \in DOMAIN ChangeSets[i.worker] /\ i.item \in DOMAIN ChangeSets[i.worker][i.set].items}

\* The items that were added so far, when no mapper failed.
Added ==
  {i \in Item : \/ i.set <= tl_done[i.worker]
                \/ i.set = tl_done[i.worker] + 1 /\ i.item <= tl_added[i.worker]}

Builder == 1..Len(tl_pending)

Activity ==
  {"idle", "target", "makeTarget", "alias", "item", "makeItem", "add", "flush", "flushing"}

TimelineTypeOK ==
  /\ tl_builderOf \in [Path -> {0} \cup Builder]
  /\ tl_pending \in Seq(SUBSET Item) /\ tl_ever \subseteq Builder
  /\ tl_pendingCount \in Nat
  /\ tl_toVisit \subseteq Builder /\ tl_visited \subseteq Builder
  /\ tl_done \in [Worker -> Nat] /\ tl_added \in [Worker -> Nat] /\ tl_builder \in [Worker -> Nat]
  /\ tl_at \in [Worker \cup {Serializer} -> Activity \cup {"hierarchy", "end"}]
  /\ tl_hasErr \in BOOLEAN /\ tl_result \in {"none", "ok", "failed"}

\* Where a worker is in its change set, and that it has the builder of the path that it
\* is about to add to.
InItsChangeSet(w) ==
  /\ tl_at[w] \in Activity /\ tl_done[w] <= Len(ChangeSets[w])
  /\ tl_at[w] = "idle" => tl_added[w] = 0
  /\ tl_at[w] # "idle"
       => tl_done[w] < Len(ChangeSets[w]) /\ tl_added[w] <= Len(Timelines!ChangeSet(w).items)
  /\ tl_at[w] \in {"makeItem", "add"} => Timelines!HasNext(w)
  /\ tl_at[w] \in {"flush", "flushing"} => ~Timelines!HasNext(w)
  /\ tl_at[w] \in {"target", "makeTarget", "alias"} =>
       tl_added[w] = 0 /\ Timelines!ChangeSet(w).alias \in Path \X Path
  /\ tl_at[w] \in {"makeTarget", "makeItem"} => tl_builder[w] \in Builder
  /\ tl_at[w] = "alias"
       => tl_builder[w] \in Builder /\ tl_builderOf[Timelines!ChangeSet(w).alias[2]] = tl_builder[w]
  /\ tl_at[w] = "add" =>
       /\ tl_builder[w] \in Builder
       /\ tl_builderOf[Timelines!ChangeSet(w).items[tl_added[w] + 1]] = tl_builder[w]

\* The aliases of the worker that were set.
AliasesSet(w) ==
  \A i \in DOMAIN ChangeSets[w] :
    LET alias == ChangeSets[w][i].alias
    IN  /\ alias # <<>> /\ alias[1] # alias[2]
        /\ \/ i <= tl_done[w]
           \/ i = tl_done[w] + 1 /\ tl_at[w] \notin {"idle", "target", "makeTarget", "alias"}
        => tl_builderOf[alias[1]] # 0 /\ tl_builderOf[alias[1]] = tl_builderOf[alias[2]]

Mapped == \A w \in Worker : InItsChangeSet(w) /\ (~tl_hasErr => AliasesSet(w))

\* An item as it is written.
Entry(i) == [id |-> tl_builderOf[Timelines!PathOf(i)], item |-> i]

\* What was added is in one place, under the builder of its path.
InOnePlace ==
  /\ \A b \in Builder : \A i \in tl_pending[b] :
       /\ i \in Added /\ tl_builderOf[Timelines!PathOf(i)] = b /\ b \in tl_ever
       /\ Entry(i) \notin tl_extracted \cup tl_flushed
  /\ \A x \in tl_extracted \cup tl_flushed : \E i \in Added : x = Entry(i) /\ x.id \in tl_ever
  /\ tl_extracted \cap tl_flushed = {} /\ tl_twice = {}

InMemory(i) == \E b \in Builder : i \in tl_pending[b]

\* Unless something failed, it is still there.
NothingLost ==
  ~tl_hasErr /\ tl_result # "failed" =>
    \A i \in Added : InMemory(i) \/ Entry(i) \in tl_extracted \cup tl_flushed

\* One flushes at a time; the last flush is not disturbed.
OneFlush ==
  /\ \A a \in Worker \cup {Serializer} : tl_at[a] = "flushing" <=> tl_flushLock = a
  /\ tl_flushLock \in Worker \cup {Serializer, None}
  /\ tl_flushLock = None => tl_toVisit = {} /\ tl_visited = {} /\ tl_extracted = {}
  /\ tl_at[Serializer] = "flushing" =>
       Timelines!Builders \subseteq tl_toVisit /\ \A b \in tl_visited : tl_pending[b] = {}

\* The serializer comes last.
SerializerLast ==
  /\ tl_at[Serializer] \in {"idle", "flush", "flushing", "hierarchy", "end"}
  /\ tl_at[Serializer] # "idle" => Timelines!AllDone /\ ~tl_hasErr
  /\ tl_result # "none" => tl_at[Serializer] = "end"
  /\ tl_at[Serializer] = "hierarchy" \/ tl_result = "ok" => \A i \in Item : Entry(i) \in tl_flushed
  /\ tl_result = "ok" =>
       tl_hierarchy = [p \in Path |-> IF tl_builderOf[p] \in tl_ever THEN tl_builderOf[p] ELSE 0]

\* What was announced and the flush that goes on, if any, will not extract.
Fresh == {i \in Timelines!Announced :
  tl_builderOf[Timelines!PathOf(i)] \notin tl_toVisit \ tl_visited}

Counted ==
  /\ IsFiniteSet(Fresh) /\ Cardinality(Fresh) <= tl_pendingCount
  /\ tl_pendingCount >= Threshold => \E w \in Worker : tl_at[w] = "flush"

TimelineIInv ==
  /\ TimelineTypeOK /\ Mapped /\ InOnePlace /\ NothingLost
  /\ OneFlush /\ SerializerLast /\ Counted

LEMMA ChangeSetTypes ==
  ASSUME NEW w \in Worker, NEW i \in DOMAIN ChangeSets[w]
  PROVE  /\ Len(ChangeSets[w]) \in Nat /\ DOMAIN ChangeSets[w] = 1..Len(ChangeSets[w])
         /\ ChangeSets[w][i].alias \in {<<>>} \cup (Path \X Path)
         /\ ChangeSets[w][i].items \in Seq(Path)
  <1> DEFINE R == [alias : {<<>>} \cup (Path \X Path), items : Seq(Path)]
  <1>1. ChangeSets[w] \in Seq(R)
    BY TimelineAssumption DEF TimelineAssumption
  <1> HIDE DEF R
  <1>2. /\ Len(ChangeSets[w]) \in Nat /\ DOMAIN ChangeSets[w] = 1..Len(ChangeSets[w])
        /\ ChangeSets[w][i] \in R
    BY <1>1
  <1> QED
    BY <1>2 DEF R

LEMMA LengthTypes ==
  ASSUME NEW w \in Worker
  PROVE  Len(ChangeSets[w]) \in Nat /\ DOMAIN ChangeSets[w] = 1..Len(ChangeSets[w])
  BY TimelineAssumption DEF TimelineAssumption

LEMMA ItemTypes ==
  ASSUME NEW i \in Item
  PROVE  /\ Timelines!PathOf(i) \in Path /\ i.worker \in Worker
         /\ i.set \in 1..Len(ChangeSets[i.worker])
         /\ i.item \in 1..Len(ChangeSets[i.worker][i.set].items)
  <1>1. i.worker \in Worker /\ i.set \in DOMAIN ChangeSets[i.worker]
        /\ i.item \in DOMAIN ChangeSets[i.worker][i.set].items
    BY DEF Item
  <1>2. /\ DOMAIN ChangeSets[i.worker] = 1..Len(ChangeSets[i.worker])
        /\ ChangeSets[i.worker][i.set].items \in Seq(Path)
    BY <1>1, ChangeSetTypes
  <1> QED
    BY <1>1, <1>2 DEF Timelines!PathOf

\* What the invariant says is Item, and what the properties say.
LEMMA ItemsAreAll == Timelines!AllItems = Item
  <1>1. ASSUME NEW i \in Timelines!AllItems PROVE i \in Item
    <2>1. PICK w \in Worker : i \in Timelines!ItemsOf(w)
      BY DEF Timelines!AllItems
    <2>2. PICK s \in DOMAIN ChangeSets[w] :
                 i \in {Timelines!ItemOf(w, s, k) : k \in DOMAIN ChangeSets[w][s].items}
      BY <2>1 DEF Timelines!ItemsOf
    <2>3. PICK k \in DOMAIN ChangeSets[w][s].items : i = Timelines!ItemOf(w, s, k)
      BY <2>2
    <2>4. s \in Nat /\ k \in Nat
      BY ChangeSetTypes
    <2> QED
      BY <2>3, <2>4 DEF Timelines!ItemOf, Item
  <1>2. ASSUME NEW i \in Item PROVE i \in Timelines!AllItems
    <2>1. i = Timelines!ItemOf(i.worker, i.set, i.item)
      BY DEF Item, Timelines!ItemOf
    <2>2. i \in {Timelines!ItemOf(i.worker, i.set, k) :
            k \in DOMAIN ChangeSets[i.worker][i.set].items}
      BY <2>1 DEF Item
    <2>3. i \in Timelines!ItemsOf(i.worker)
      BY <2>2 DEF Timelines!ItemsOf, Item
    <2> QED
      BY <2>3 DEF Timelines!AllItems, Item
  <1> QED
    BY <1>1, <1>2

AnnouncedAre ==
  \A i : i \in Timelines!Announced <=>
    /\ \E b \in DOMAIN tl_pending : i \in tl_pending[b]
    /\ i.set <= tl_done[i.worker] \/ tl_at[i.worker] \in {"flush", "flushing"}

LEMMA InAnnounced == AnnouncedAre /\ AnnouncedAre'
  <1>1. \A i : i \in UNION {tl_pending[b] : b \in DOMAIN tl_pending}
          <=> \E b \in DOMAIN tl_pending : i \in tl_pending[b]
    OBVIOUS
  <1>2. \A i : i \in UNION {tl_pending'[b] : b \in DOMAIN tl_pending'} <=>
               \E b \in DOMAIN tl_pending' : i \in tl_pending'[b]
    OBVIOUS
  <1>3. AnnouncedAre
    BY <1>1 DEF Timelines!Announced, AnnouncedAre
  <1>4. AnnouncedAre'
    BY <1>2 DEF Timelines!Announced, AnnouncedAre
  <1> QED
    BY <1>3, <1>4

\* The mapping of the steps that move no item: builders are only added, and what was
\* announced before is what is announced now.
LEMMA ItemsStay ==
  ASSUME TimelineIInv, TimelineTypeOK',
         \A b \in Builder : b \in Builder' /\ tl_pending'[b] = tl_pending[b],
         \A b \in Builder' : b \notin Builder => tl_pending'[b] = {},
         \A p \in Path : tl_builderOf[p] # 0 => tl_builderOf'[p] = tl_builderOf[p],
         UNCHANGED <<tl_extracted, tl_flushed, tl_twice, tl_ever, tl_toVisit, tl_visited>>,
         Added' = Added \/ (tl_hasErr' /\ Added \subseteq Added'),
         ~tl_hasErr' /\ tl_result' # "failed" => ~tl_hasErr /\ tl_result # "failed"
  PROVE  /\ InOnePlace' /\ NothingLost'
         /\ \A i \in Fresh' :
              /\ i \in Added
              /\ i.set <= tl_done'[i.worker] \/ tl_at'[i.worker] \in {"flush", "flushing"}
              /\ i.set <= tl_done[i.worker] \/ tl_at[i.worker] \in {"flush", "flushing"}
                   => i \in Fresh
  <1>1. Added \subseteq Added' /\ Added \subseteq Item
    BY DEF Added
  <1>2. \A b \in Builder : \A i \in tl_pending[b] :
          /\ i \in Added /\ tl_builderOf[Timelines!PathOf(i)] = b /\ b \in tl_ever
          /\ Entry(i) \notin tl_extracted \cup tl_flushed
    BY DEF TimelineIInv, InOnePlace
  <1>3. \A i \in Added : Timelines!PathOf(i) \in Path /\ Timelines!PathOf(i)' = Timelines!PathOf(i)
    BY <1>1, ItemTypes DEF Timelines!PathOf
  <1>4. tl_ever \subseteq Builder /\ \A b \in Builder : b # 0
    BY DEF TimelineIInv, TimelineTypeOK, Builder
  <1>5. \A i \in Added : tl_builderOf[Timelines!PathOf(i)] # 0 =>
          /\ tl_builderOf'[Timelines!PathOf(i)] = tl_builderOf[Timelines!PathOf(i)]
          /\ Entry(i)' = Entry(i)
    BY <1>3 DEF Entry
  <1>6. \A b \in Builder' : \A i \in tl_pending'[b] : b \in Builder /\ i \in tl_pending[b]
    OBVIOUS
  <1>7. ASSUME NEW b \in Builder', NEW i \in tl_pending'[b]
        PROVE  /\ i \in Added' /\ tl_builderOf'[Timelines!PathOf(i)] = b /\ b \in tl_ever'
               /\ Entry(i)' \notin tl_extracted' \cup tl_flushed'
    BY <1>1, <1>2, <1>4, <1>5, <1>6, <1>7
  <1>8. ASSUME NEW x \in tl_extracted' \cup tl_flushed'
        PROVE  \E i \in Added' : x = Entry(i)' /\ x.id \in tl_ever'
    <2>1. PICK i \in Added : x = Entry(i) /\ x.id \in tl_ever
      BY <1>8 DEF TimelineIInv, InOnePlace
    <2>2. tl_builderOf[Timelines!PathOf(i)] # 0
      BY <1>4, <2>1 DEF Entry
    <2> QED
      BY <1>1, <1>5, <2>1, <2>2
  <1>9. InOnePlace'
    BY <1>3, <1>7, <1>8 DEF InOnePlace, TimelineIInv
  <1>10. NothingLost'
    <2> SUFFICES ASSUME ~tl_hasErr', tl_result' # "failed", NEW i \in Added'
                 PROVE  InMemory(i)' \/ Entry(i)' \in tl_extracted' \cup tl_flushed'
      BY DEF NothingLost
    <2>1. i \in Added /\ (InMemory(i) \/ Entry(i) \in tl_extracted \cup tl_flushed)
      BY DEF TimelineIInv, NothingLost
    <2>2. InMemory(i) => InMemory(i)'
      BY DEF InMemory
    <2>3. Entry(i) \in tl_extracted \cup tl_flushed => tl_builderOf[Timelines!PathOf(i)] \in tl_ever
      BY DEF TimelineIInv, InOnePlace, Entry
    <2> QED
      BY <1>4, <1>5, <2>1, <2>2, <2>3
  <1>11. ASSUME NEW i \in Fresh'
         PROVE  /\ i \in Added
                /\ i.set <= tl_done'[i.worker] \/ tl_at'[i.worker] \in {"flush", "flushing"}
                /\ i.set <= tl_done[i.worker] \/ tl_at[i.worker] \in {"flush", "flushing"}
                     => i \in Fresh
    <2>1. /\ i \in Timelines!Announced'
          /\ tl_builderOf'[Timelines!PathOf(i)] \notin tl_toVisit \ tl_visited
      BY <1>11 DEF Fresh, Timelines!PathOf
    <2>2. /\ \E b \in Builder' : i \in tl_pending'[b]
          /\ i.set <= tl_done'[i.worker] \/ tl_at'[i.worker] \in {"flush", "flushing"}
      <3>1. DOMAIN tl_pending' = Builder'
        BY DEF TimelineTypeOK, Builder
      <3> QED
        BY <2>1, <3>1, InAnnounced DEF AnnouncedAre
    <2>3. PICK b \in Builder : i \in tl_pending[b]
      BY <1>6, <2>2
    <2>4. /\ i \in Added /\ tl_builderOf[Timelines!PathOf(i)] = b
          /\ tl_builderOf'[Timelines!PathOf(i)] = tl_builderOf[Timelines!PathOf(i)]
      BY <1>2, <1>4, <1>5, <2>3
    <2>5. i.set <= tl_done[i.worker] \/ tl_at[i.worker] \in {"flush", "flushing"}
            => i \in Timelines!Announced
      <3>1. DOMAIN tl_pending = Builder
        BY DEF TimelineIInv, TimelineTypeOK, Builder
      <3> QED
        BY <2>2, <2>3, <2>4, <3>1, InAnnounced DEF AnnouncedAre
    <2> QED
      BY <2>1, <2>2, <2>4, <2>5 DEF Fresh
  <1> QED
    BY <1>9, <1>10, <1>11

\* The count stays right.
LEMMA CountStays ==
  ASSUME TimelineIInv, Fresh' \subseteq Fresh, tl_pendingCount' = tl_pendingCount,
         \A w \in Worker : tl_at[w] = "flush" => tl_at'[w] = "flush"
  PROVE  Counted'
  <1>1. IsFiniteSet(Fresh) /\ Cardinality(Fresh) <= tl_pendingCount /\ tl_pendingCount \in Nat
    BY DEF TimelineIInv, Counted, TimelineTypeOK
  <1>2. IsFiniteSet(Fresh') /\ Cardinality(Fresh') <= Cardinality(Fresh)
    BY <1>1, FS_Subset
  <1>3. Cardinality(Fresh) \in Nat /\ Cardinality(Fresh') \in Nat
    BY <1>1, <1>2, FS_CardinalityType
  <1>4. IsFiniteSet(Fresh') /\ Cardinality(Fresh') <= tl_pendingCount'
    BY <1>1, <1>2, <1>3
  <1>5. tl_pendingCount' >= Threshold => \E w \in Worker : tl_at'[w] = "flush"
    BY DEF TimelineIInv, Counted
  <1> QED
    BY <1>4, <1>5 DEF Counted

LEMMA WorkerTypes ==
  ASSUME TimelineIInv, NEW w \in Worker
  PROVE  /\ w # Serializer /\ w # None
         /\ tl_done[w] \in Nat /\ tl_added[w] \in Nat /\ tl_builder[w] \in Nat
         /\ tl_done[w] < Len(ChangeSets[w]) =>
              /\ tl_done[w] + 1 \in DOMAIN ChangeSets[w]
              /\ Timelines!ChangeSet(w).alias \in {<<>>} \cup (Path \X Path)
              /\ Timelines!ChangeSet(w).items \in Seq(Path)
              /\ Len(Timelines!ChangeSet(w).items) \in Nat
  <1>1. /\ w # Serializer /\ w # None
        /\ tl_done[w] \in Nat /\ tl_added[w] \in Nat /\ tl_builder[w] \in Nat
    BY TimelineAssumption DEF TimelineAssumption, TimelineIInv, TimelineTypeOK
  <1>2. ASSUME tl_done[w] < Len(ChangeSets[w])
        PROVE  /\ tl_done[w] + 1 \in DOMAIN ChangeSets[w]
               /\ Timelines!ChangeSet(w).alias \in {<<>>} \cup (Path \X Path)
               /\ Timelines!ChangeSet(w).items \in Seq(Path)
               /\ Len(Timelines!ChangeSet(w).items) \in Nat
    <2>1. tl_done[w] + 1 \in DOMAIN ChangeSets[w]
      BY <1>1, <1>2, LengthTypes
    <2> QED
      BY <2>1, ChangeSetTypes DEF Timelines!ChangeSet
  <1> QED
    BY <1>1, <1>2

\* While a mapper has work to do the serializer has not begun.
LEMMA SerializerWaits ==
  ASSUME TimelineIInv, NEW w \in Worker, tl_at[w] # "idle" \/ tl_done[w] # Len(ChangeSets[w])
  PROVE  tl_at[Serializer] = "idle" /\ tl_result = "none"
  BY DEF TimelineIInv, SerializerLast, Timelines!AllDone

\* The other workers do not notice a step that leaves the paths their builders.
LEMMA OthersMapped ==
  ASSUME TimelineIInv, NEW w \in Worker, Builder \subseteq Builder',
         \A p \in Path : tl_builderOf[p] # 0 => tl_builderOf'[p] = tl_builderOf[p],
         tl_hasErr => tl_hasErr',
         \A u \in Worker \ {w} :
           /\ tl_at'[u] = tl_at[u] /\ tl_done'[u] = tl_done[u] /\ tl_added'[u] = tl_added[u]
           /\ tl_builder'[u] = tl_builder[u],
         InItsChangeSet(w)', ~tl_hasErr' => AliasesSet(w)'
  PROVE  Mapped'
  <1> SUFFICES ASSUME NEW u \in Worker \ {w}
               PROVE  InItsChangeSet(u)' /\ (~tl_hasErr' => AliasesSet(u)')
    BY DEF Mapped
  <1>1. InItsChangeSet(u) /\ (~tl_hasErr => AliasesSet(u))
    BY DEF TimelineIInv, Mapped
  <1>2. /\ Timelines!ChangeSet(u)' = Timelines!ChangeSet(u)
        /\ Timelines!HasNext(u)' = Timelines!HasNext(u)
    BY DEF Timelines!ChangeSet, Timelines!HasNext
  <1>3. \A b \in Builder : b # 0 /\ b \in Builder'
    BY DEF Builder
  <1>4. ASSUME tl_at[u] = "alias"
        PROVE tl_builderOf'[Timelines!ChangeSet(u).alias[2]] = tl_builder[u]
    <2>1. Timelines!ChangeSet(u).alias[2] \in Path /\ tl_builder[u] # 0
      BY <1>1, <1>3, <1>4 DEF InItsChangeSet
    <2> QED
      BY <1>1, <1>4, <2>1 DEF InItsChangeSet
  <1>5. ASSUME tl_at[u] = "add"
        PROVE tl_builderOf'[Timelines!ChangeSet(u).items[tl_added[u] + 1]] = tl_builder[u]
    <2>1. Timelines!ChangeSet(u).items[tl_added[u] + 1] \in Path /\ tl_builder[u] # 0
      BY <1>1, <1>3, <1>5, WorkerTypes DEF InItsChangeSet, Timelines!HasNext
    <2> QED
      BY <1>1, <1>5, <2>1 DEF InItsChangeSet
  <1>6. InItsChangeSet(u)'
    BY <1>1, <1>2, <1>3, <1>4, <1>5 DEF InItsChangeSet
  <1>7. ASSUME ~tl_hasErr' PROVE AliasesSet(u)'
    <2> SUFFICES ASSUME NEW i \in DOMAIN ChangeSets[u],
                        ChangeSets[u][i].alias # <<>>,
                        ChangeSets[u][i].alias[1] # ChangeSets[u][i].alias[2],
                        \/ i <= tl_done[u]
                        \/ /\ i = tl_done[u] + 1
                           /\ tl_at[u] \notin {"idle", "target", "makeTarget", "alias"}
                 PROVE  /\ tl_builderOf'[ChangeSets[u][i].alias[1]] # 0
                        /\ tl_builderOf'[ChangeSets[u][i].alias[1]]
                             = tl_builderOf'[ChangeSets[u][i].alias[2]]
      BY DEF AliasesSet
    <2>1. ChangeSets[u][i].alias \in Path \X Path
      BY ChangeSetTypes
    <2>2. /\ tl_builderOf[ChangeSets[u][i].alias[1]] # 0
          /\ tl_builderOf[ChangeSets[u][i].alias[1]] = tl_builderOf[ChangeSets[u][i].alias[2]]
      BY <1>1, <1>7 DEF AliasesSet
    <2> QED
      BY <2>1, <2>2
  <1> QED
    BY <1>6, <1>7

\* The steps of a mapper that move no item.
LEMMA MapperStep ==
  ASSUME TimelineIInv, TimelineTypeOK', NEW w \in Worker,
         tl_at[w] # "idle" \/ tl_done[w] # Len(ChangeSets[w]),
         tl_at[w] \notin {"flush", "flushing"}, tl_at'[w] \notin {"flush", "flushing"},
         \A a \in (Worker \cup {Serializer}) \ {w} : tl_at'[a] = tl_at[a],
         \A u \in Worker \ {w} :
           tl_done'[u] = tl_done[u] /\ tl_added'[u] = tl_added[u] /\ tl_builder'[u] = tl_builder[u],
         InItsChangeSet(w)', ~tl_hasErr' => AliasesSet(w)', tl_hasErr => tl_hasErr',
         \A b \in Builder : b \in Builder' /\ tl_pending'[b] = tl_pending[b],
         \A b \in Builder' : b \notin Builder => tl_pending'[b] = {},
         \A p \in Path : tl_builderOf[p] # 0 => tl_builderOf'[p] = tl_builderOf[p],
         UNCHANGED <<tl_extracted, tl_flushed, tl_twice, tl_ever, tl_toVisit, tl_visited,
           tl_pendingCount, tl_flushLock,
                     tl_result, tl_hierarchy>>,
         \/ tl_done'[w] = tl_done[w] /\ tl_added'[w] = tl_added[w]
         \/ tl_hasErr' /\ tl_added[w] = 0 /\ tl_done[w] <= tl_done'[w]
  PROVE  TimelineIInv'
  <1>1. Mapped'
    BY OthersMapped, WorkerTypes
  <1>2. \A i \in Added : i.worker \in Worker /\ i.set \in Nat /\ i.item \in Nat \ {0}
    BY ItemTypes, LengthTypes DEF Added, Item
  <1>3. Added' = Added \/ (tl_hasErr' /\ Added \subseteq Added')
    <2>1. CASE tl_done'[w] = tl_done[w] /\ tl_added'[w] = tl_added[w]
      <3>1. \A u \in Worker : tl_done'[u] = tl_done[u] /\ tl_added'[u] = tl_added[u]
        BY <2>1
      <3> QED
        BY <3>1, ItemTypes DEF Added
    <2>2. CASE tl_hasErr' /\ tl_added[w] = 0 /\ tl_done[w] <= tl_done'[w]
      <3>1. \A i \in Added : i \in Added'
        <4> SUFFICES ASSUME NEW i \in Added PROVE i \in Added'
          OBVIOUS
        <4>1. CASE i.worker = w
          <5>1. i.set <= tl_done[w]
            BY <1>2, <2>2, <4>1 DEF Added
          <5> QED
            BY <1>2, <2>2, <4>1, <5>1, WorkerTypes DEF Added, TimelineTypeOK
        <4>2. CASE i.worker # w
          BY <1>2, <4>2 DEF Added
        <4> QED
          BY <4>1, <4>2
      <3> QED
        BY <2>2, <3>1
    <2> QED
      BY <2>1, <2>2
  <1>4. ASSUME NEW i \in Added,
               i.set <= tl_done'[i.worker] \/ tl_at'[i.worker] \in {"flush", "flushing"}
        PROVE  i.set <= tl_done[i.worker] \/ tl_at[i.worker] \in {"flush", "flushing"}
    <2>1. CASE i.worker # w
      BY <1>2, <1>4, <2>1
    <2>2. CASE i.worker = w
      BY <1>2, <1>4, <2>2, WorkerTypes DEF Added
    <2> QED
      BY <2>1, <2>2
  <1>5. /\ tl_at[Serializer] = "idle" /\ tl_at'[Serializer] = "idle" /\ tl_result = "none"
        /\ w # Serializer
    BY SerializerWaits, WorkerTypes
  <1>6. InOnePlace' /\ NothingLost' /\ Fresh' \subseteq Fresh
    <2>1. InOnePlace' /\ NothingLost' /\
          \A i \in Fresh' :
              /\ i \in Added
              /\ i.set <= tl_done'[i.worker] \/ tl_at'[i.worker] \in {"flush", "flushing"}
              /\ i.set <= tl_done[i.worker] \/ tl_at[i.worker] \in {"flush", "flushing"}
                   => i \in Fresh
      BY <1>3, ItemsStay
    <2> QED
      BY <1>4, <2>1
  <1>7. Counted'
    BY <1>6, CountStays
  <1>8. OneFlush'
    BY <1>5 DEF OneFlush, TimelineIInv
  <1>9. SerializerLast'
    BY <1>5 DEF SerializerLast
  <1> QED
    BY <1>1, <1>6, <1>7, <1>8, <1>9 DEF TimelineIInv

LEMMA BeginTimeline ==
  ASSUME TimelineIInv, NEW w \in Worker, Timelines!Begin(w) PROVE TimelineIInv'
  <1>1. /\ tl_at[w] = "idle" /\ tl_done[w] < Len(ChangeSets[w]) /\ InItsChangeSet(w)
        /\ tl_at' = [tl_at EXCEPT ![w] =
             IF \/ Timelines!ChangeSet(w).alias = <<>>
                \/ Timelines!ChangeSet(w).alias[1] = Timelines!ChangeSet(w).alias[2]
             THEN "item" ELSE "target"]
        /\ UNCHANGED <<Timelines!registryVars, Timelines!flushVars, tl_done, tl_added, tl_builder,
             tl_hasErr>>
    BY DEF Timelines!Begin, Timelines!Become, TimelineIInv, Mapped
  <1>2. /\ w # Serializer /\ tl_done[w] \in Nat
        /\ tl_at'[w] =
             IF \/ Timelines!ChangeSet(w).alias = <<>>
                \/ Timelines!ChangeSet(w).alias[1] = Timelines!ChangeSet(w).alias[2]
             THEN "item" ELSE "target"
        /\ \A a \in (Worker \cup {Serializer}) \ {w} : tl_at'[a] = tl_at[a]
    BY <1>1, WorkerTypes DEF TimelineIInv, TimelineTypeOK
  <1>3. TimelineTypeOK'
    <2>1. tl_at' \in [Worker \cup {Serializer} -> Activity \cup {"hierarchy", "end"}]
      BY <1>1 DEF TimelineIInv, TimelineTypeOK, Activity
    <2> QED
      BY <1>1, <2>1
      DEF TimelineIInv, TimelineTypeOK, Builder, Timelines!registryVars, Timelines!flushVars
  <1>4. Timelines!ChangeSet(w)' = Timelines!ChangeSet(w) /\ Builder' = Builder
    BY <1>1 DEF Timelines!ChangeSet, Builder, Timelines!registryVars
  <1>5. InItsChangeSet(w)'
    BY <1>1, <1>2, <1>4, WorkerTypes DEF InItsChangeSet, Activity
  <1>6. ~tl_hasErr' => AliasesSet(w)'
    <2>1. ~tl_hasErr => AliasesSet(w)
      BY DEF TimelineIInv, Mapped
    <2> QED
      BY <1>1, <1>2, <2>1, LengthTypes DEF AliasesSet, Timelines!ChangeSet, Timelines!registryVars
  <1> QED
    BY <1>1, <1>2, <1>3, <1>4, <1>5, <1>6, MapperStep
    DEF Timelines!registryVars, Timelines!flushVars

LEMMA LoadBuilderTimeline ==
  ASSUME TimelineIInv, NEW w \in Worker, Timelines!LoadBuilder(w) PROVE TimelineIInv'
  <1> DEFINE b == tl_builderOf[Timelines!Wanted(w)]
  <1>1. /\ tl_at[w] = "target" \/ (tl_at[w] = "item" /\ Timelines!HasNext(w))
        /\ InItsChangeSet(w) /\ TimelineTypeOK
        /\ UNCHANGED <<tl_builderOf, tl_ever, Timelines!flushVars, tl_done, tl_added, tl_hasErr>>
    BY DEF Timelines!LoadBuilder, TimelineIInv, Mapped
  <1>2. /\ w # Serializer /\ tl_done[w] \in Nat /\ tl_added[w] \in Nat
        /\ tl_at[w] \notin {"idle", "flush", "flushing"}
    BY <1>1, WorkerTypes
  <1>3. Timelines!Wanted(w) \in Path /\ b \in {0} \cup Builder
    <2>1. CASE tl_at[w] = "target"
      BY <1>1, <2>1 DEF Timelines!Wanted, InItsChangeSet, TimelineTypeOK
    <2>2. CASE tl_at[w] = "item" /\ Timelines!HasNext(w)
      <3>1. /\ tl_added[w] + 1 \in 1..Len(Timelines!ChangeSet(w).items)
            /\ Timelines!ChangeSet(w).items \in Seq(Path)
        BY <1>1, <1>2, <2>2, WorkerTypes DEF InItsChangeSet, Timelines!HasNext
      <3> QED
        BY <1>1, <2>2, <3>1 DEF Timelines!Wanted, TimelineTypeOK
    <2> QED
      BY <1>1, <2>1, <2>2
  <1>4. /\ Timelines!ChangeSet(w)' = Timelines!ChangeSet(w)
        /\ Timelines!HasNext(w)' = Timelines!HasNext(w)
    BY <1>1 DEF Timelines!ChangeSet, Timelines!HasNext
  <1> HIDE DEF b
  <1>5. CASE b # 0
    <2>1. /\ tl_builder' = [tl_builder EXCEPT ![w] = b]
          /\ tl_at' = [tl_at EXCEPT ![w] = Timelines!Then(w)] /\ tl_pending' = tl_pending
      BY <1>5 DEF Timelines!LoadBuilder, Timelines!Become, b
    <2>2. /\ tl_builder'[w] = b /\ tl_at'[w] = Timelines!Then(w)
          /\ \A a \in (Worker \cup {Serializer}) \ {w} : tl_at'[a] = tl_at[a]
          /\ \A u \in Worker \ {w} : tl_builder'[u] = tl_builder[u]
      BY <1>1, <2>1 DEF TimelineTypeOK
    <2>3. Timelines!Then(w) = (IF tl_at[w] = "target" THEN "alias" ELSE "add") /\ Builder' = Builder
      BY <1>1, <2>1 DEF Timelines!Then, Builder
    <2>4. TimelineTypeOK'
      <3>1. Timelines!Then(w) \in Activity /\ b \in Nat
        BY <1>3, <2>3 DEF Activity, Builder
      <3>2. tl_at' \in [Worker \cup {Serializer} -> Activity \cup {"hierarchy", "end"}]
        BY <1>1, <2>1, <3>1 DEF TimelineTypeOK
      <3>3. tl_builder' \in [Worker -> Nat]
        BY <1>1, <2>1, <3>1 DEF TimelineTypeOK
      <3> QED
        BY <1>1, <2>1, <2>3, <3>2, <3>3 DEF TimelineTypeOK, Timelines!flushVars
    <2>5. InItsChangeSet(w)'
      BY <1>1, <1>2, <1>3, <1>4, <1>5, <2>2, <2>3
      DEF InItsChangeSet, Activity, Timelines!Wanted, b, Timelines!HasNext
    <2>6. ~tl_hasErr' => AliasesSet(w)'
      <3>1. ~tl_hasErr => AliasesSet(w)
        BY DEF TimelineIInv, Mapped
      <3> QED
        BY <1>1, <2>2, <2>3, <3>1 DEF AliasesSet
    <2> QED
      BY <1>1, <1>2, <2>1, <2>2, <2>3, <2>4, <2>5, <2>6, MapperStep DEF Timelines!flushVars
  <1>6. CASE b = 0
    <2>1. /\ tl_pending' = Append(tl_pending, {})
          /\ tl_builder' = [tl_builder EXCEPT ![w] = Len(tl_pending) + 1]
          /\ tl_at' = [tl_at EXCEPT ![w] = IF tl_at[w] = "target" THEN "makeTarget" ELSE "makeItem"]
      BY <1>6 DEF Timelines!LoadBuilder, Timelines!Become, b
    <2>2. /\ tl_builder'[w] = Len(tl_pending) + 1
          /\ tl_at'[w] = IF tl_at[w] = "target" THEN "makeTarget" ELSE "makeItem"
          /\ \A a \in (Worker \cup {Serializer}) \ {w} : tl_at'[a] = tl_at[a]
          /\ \A u \in Worker \ {w} : tl_builder'[u] = tl_builder[u]
      BY <1>1, <2>1 DEF TimelineTypeOK
    <2>3. /\ tl_pending' \in Seq(SUBSET Item) /\ Len(tl_pending') = Len(tl_pending) + 1
          /\ Len(tl_pending) \in Nat
          /\ \A c \in Builder : c \in Builder' /\ tl_pending'[c] = tl_pending[c]
          /\ \A c \in Builder' : c \notin Builder => tl_pending'[c] = {}
      BY <1>1, <2>1 DEF TimelineTypeOK, Builder
    <2>4. TimelineTypeOK'
      <3>1. tl_at' \in [Worker \cup {Serializer} -> Activity \cup {"hierarchy", "end"}]
        BY <1>1, <2>1 DEF TimelineTypeOK, Activity
      <3>2. tl_builder' \in [Worker -> Nat]
        BY <1>1, <2>1, <2>3 DEF TimelineTypeOK
      <3>3. tl_builderOf' \in [Path -> {0} \cup Builder']
        BY <1>1, <2>3 DEF TimelineTypeOK
      <3> QED
        BY <1>1, <2>1, <2>3, <3>1, <3>2, <3>3 DEF TimelineTypeOK, Timelines!flushVars
    <2>5. tl_builder'[w] \in Builder'
      BY <2>2, <2>3 DEF Builder
    <2>6. InItsChangeSet(w)'
      BY <1>1, <1>2, <1>4, <2>2, <2>5 DEF InItsChangeSet, Activity
    <2>7. ~tl_hasErr' => AliasesSet(w)'
      <3>1. ~tl_hasErr => AliasesSet(w)
        BY DEF TimelineIInv, Mapped
      <3> QED
        BY <1>1, <2>2, <3>1 DEF AliasesSet
    <2> QED
      BY <1>1, <1>2, <2>2, <2>3, <2>4, <2>6, <2>7, MapperStep DEF Timelines!flushVars
  <1> QED
    BY <1>5, <1>6

LEMMA StoreBuilderTimeline ==
  ASSUME TimelineIInv, NEW w \in Worker, Timelines!StoreBuilder(w) PROVE TimelineIInv'
  <1> DEFINE b == tl_builderOf[Timelines!Wanted(w)]
  <1>1. /\ tl_at[w] \in {"makeTarget", "makeItem"} /\ tl_builder[w] \in Builder
        /\ InItsChangeSet(w) /\ TimelineTypeOK
        /\ tl_at' = [tl_at EXCEPT ![w] = Timelines!Then(w)]
        /\ UNCHANGED <<tl_pending, tl_ever, Timelines!flushVars, tl_done, tl_added, tl_hasErr>>
    BY DEF Timelines!StoreBuilder, Timelines!Become, TimelineIInv, Mapped, InItsChangeSet
  <1>2. /\ w # Serializer /\ tl_done[w] \in Nat /\ tl_added[w] \in Nat
        /\ tl_at[w] \notin {"idle", "flush", "flushing"}
    BY <1>1, WorkerTypes
  <1>3. Timelines!Wanted(w) \in Path /\ b \in {0} \cup Builder
    <2>1. CASE tl_at[w] = "makeTarget"
      BY <1>1, <2>1 DEF Timelines!Wanted, InItsChangeSet, TimelineTypeOK
    <2>2. CASE tl_at[w] = "makeItem"
      <3>1. /\ tl_added[w] + 1 \in 1..Len(Timelines!ChangeSet(w).items)
            /\ Timelines!ChangeSet(w).items \in Seq(Path)
        BY <1>1, <1>2, <2>2, WorkerTypes DEF InItsChangeSet, Timelines!HasNext
      <3> QED
        BY <1>1, <2>2, <3>1 DEF Timelines!Wanted, TimelineTypeOK
    <2> QED
      BY <1>1, <2>1, <2>2
  <1>4. /\ Timelines!ChangeSet(w)' = Timelines!ChangeSet(w)
        /\ Timelines!HasNext(w)' = Timelines!HasNext(w) /\ Builder' = Builder
    BY <1>1 DEF Timelines!ChangeSet, Timelines!HasNext, Builder
  <1>5. /\ tl_at'[w] = IF tl_at[w] = "makeTarget" THEN "alias" ELSE "add"
        /\ \A a \in (Worker \cup {Serializer}) \ {w} : tl_at'[a] = tl_at[a]
    BY <1>1 DEF TimelineTypeOK, Timelines!Then
  <1> HIDE DEF b
  <1>6. /\ tl_builderOf' \in [Path -> {0} \cup Builder] /\ tl_builder' \in [Worker -> Nat]
        /\ \A u \in Worker \ {w} : tl_builder'[u] = tl_builder[u]
        /\ \A p \in Path : tl_builderOf[p] # 0 => tl_builderOf'[p] = tl_builderOf[p]
        /\ tl_builder'[w] \in Builder /\ tl_builderOf'[Timelines!Wanted(w)] = tl_builder'[w]
    <2>1. CASE b # 0
      <3>1. tl_builder' = [tl_builder EXCEPT ![w] = b] /\ tl_builderOf' = tl_builderOf
        BY <2>1 DEF Timelines!StoreBuilder, b
      <3>2. b \in Nat /\ b \in Builder
        BY <1>3, <2>1 DEF Builder
      <3> QED
        BY <1>1, <3>1, <3>2 DEF TimelineTypeOK, b
    <2>2. CASE b = 0
      <3>1. /\ tl_builderOf' = [tl_builderOf EXCEPT ![Timelines!Wanted(w)] = tl_builder[w]]
            /\ tl_builder' = tl_builder
        BY <2>2 DEF Timelines!StoreBuilder, b
      <3> QED
        BY <1>1, <1>3, <2>2, <3>1 DEF TimelineTypeOK, b
    <2> QED
      BY <2>1, <2>2
  <1>7. TimelineTypeOK'
    <2>1. tl_at' \in [Worker \cup {Serializer} -> Activity \cup {"hierarchy", "end"}]
      BY <1>1 DEF TimelineTypeOK, Activity, Timelines!Then
    <2> QED
      BY <1>1, <1>4, <1>6, <2>1 DEF TimelineTypeOK, Timelines!flushVars
  <1>8. InItsChangeSet(w)'
    BY <1>1, <1>2, <1>4, <1>5, <1>6 DEF InItsChangeSet, Activity, Timelines!Wanted
  <1>9. ~tl_hasErr' => AliasesSet(w)'
    <2>1. ~tl_hasErr => AliasesSet(w)
      BY DEF TimelineIInv, Mapped
    <2> QED
      BY <1>1, <1>5, <1>6, <2>1, ChangeSetTypes DEF AliasesSet
  <1> QED
    BY <1>1, <1>2, <1>4, <1>5, <1>6, <1>7, <1>8, <1>9, MapperStep DEF Timelines!flushVars

LEMMA SetAliasTimeline ==
  ASSUME TimelineIInv, NEW w \in Worker, Timelines!SetAlias(w) PROVE TimelineIInv'
  <1> DEFINE path == Timelines!ChangeSet(w).alias[1]
             target == Timelines!ChangeSet(w).alias[2]
  <1>1. /\ tl_at[w] = "alias" /\ InItsChangeSet(w) /\ TimelineTypeOK
        /\ tl_builder[w] \in Builder /\ tl_builderOf[target] = tl_builder[w] /\ tl_added[w] = 0
        /\ Timelines!ChangeSet(w).alias \in Path \X Path /\ path \in Path /\ target \in Path
        /\ UNCHANGED <<tl_pending, tl_ever, Timelines!flushVars, tl_builder>>
        /\ tl_done[w] < Len(ChangeSets[w])
    BY DEF Timelines!SetAlias, TimelineIInv, Mapped, InItsChangeSet
  <1>2. w # Serializer /\ tl_done[w] \in Nat /\ tl_added[w] \in Nat /\ tl_builder[w] # 0
    BY <1>1, WorkerTypes DEF Builder
  <1>3. Builder' = Builder
    BY <1>1 DEF Builder
  <1>4. CASE tl_builderOf[path] \in {0, tl_builder[w]}
    <2>1. /\ tl_builderOf' = [tl_builderOf EXCEPT ![path] = tl_builder[w]]
          /\ tl_at' = [tl_at EXCEPT ![w] = "item"] /\ UNCHANGED <<tl_hasErr, tl_done, tl_added>>
      BY <1>4 DEF Timelines!SetAlias, Timelines!Become
    <2>2. /\ tl_at'[w] = "item" /\ \A a \in (Worker \cup {Serializer}) \ {w} : tl_at'[a] = tl_at[a]
          /\ tl_builderOf' \in [Path -> {0} \cup Builder']
          /\ \A p \in Path : tl_builderOf[p] # 0 => tl_builderOf'[p] = tl_builderOf[p]
          /\ tl_builderOf'[path] = tl_builder[w]
      BY <1>1, <1>3, <1>4, <2>1 DEF TimelineTypeOK
    <2>3. Timelines!ChangeSet(w)' = Timelines!ChangeSet(w)
      BY <2>1 DEF Timelines!ChangeSet
    <2> HIDE DEF path, target
    <2>4. TimelineTypeOK'
      <3>1. tl_at' \in [Worker \cup {Serializer} -> Activity \cup {"hierarchy", "end"}]
        BY <1>1, <2>1 DEF TimelineTypeOK, Activity
      <3> QED
        BY <1>1, <1>3, <2>1, <2>2, <3>1 DEF TimelineTypeOK, Timelines!flushVars
    <2>5. InItsChangeSet(w)'
      BY <1>1, <1>2, <2>1, <2>2, <2>3, WorkerTypes DEF InItsChangeSet, Activity
    <2>6. ~tl_hasErr' => AliasesSet(w)'
      <3>1. ~tl_hasErr => AliasesSet(w)
        BY DEF TimelineIInv, Mapped
      <3>2. tl_builderOf'[path] = tl_builder[w] /\ tl_builderOf'[target] = tl_builder[w]
        BY <1>1, <1>2, <2>2
      <3>3. /\ path = ChangeSets[w][tl_done[w] + 1].alias[1]
            /\ target = ChangeSets[w][tl_done[w] + 1].alias[2]
        BY DEF path, target, Timelines!ChangeSet
      <3> SUFFICES ASSUME ~tl_hasErr', NEW i \in DOMAIN ChangeSets[w], i <= tl_done[w] + 1,
                          ChangeSets[w][i].alias # <<>>,
                          ChangeSets[w][i].alias[1] # ChangeSets[w][i].alias[2]
                   PROVE  /\ tl_builderOf'[ChangeSets[w][i].alias[1]] # 0
                          /\ tl_builderOf'[ChangeSets[w][i].alias[1]]
                               = tl_builderOf'[ChangeSets[w][i].alias[2]]
        BY <1>2, <2>1, LengthTypes DEF AliasesSet
      <3>4. CASE i = tl_done[w] + 1
        BY <1>2, <3>2, <3>3, <3>4
      <3>5. CASE i # tl_done[w] + 1
        <4>1. i <= tl_done[w] /\ ChangeSets[w][i].alias \in Path \X Path
          BY <1>2, <3>5, ChangeSetTypes
        <4>2. /\ tl_builderOf[ChangeSets[w][i].alias[1]] # 0
              /\ tl_builderOf[ChangeSets[w][i].alias[1]] = tl_builderOf[ChangeSets[w][i].alias[2]]
          BY <2>1, <3>1, <4>1 DEF AliasesSet
        <4> QED
          BY <2>2, <4>1, <4>2
      <3> QED
        BY <3>4, <3>5
    <2> QED
      BY <1>1, <1>3, <2>1, <2>2, <2>4, <2>5, <2>6, MapperStep DEF Timelines!flushVars
  <1>5. CASE tl_builderOf[path] \notin {0, tl_builder[w]}
    <2>1. /\ tl_at' = [tl_at EXCEPT ![w] = "idle"] /\ tl_done' = [tl_done EXCEPT ![w] = @ + 1]
          /\ tl_added' = [tl_added EXCEPT ![w] = 0] /\ tl_hasErr' = TRUE
          /\ tl_builderOf' = tl_builderOf
      BY <1>5 DEF Timelines!SetAlias, Timelines!EndOf, Timelines!Become
    <2>2. /\ tl_at'[w] = "idle" /\ \A a \in (Worker \cup {Serializer}) \ {w} : tl_at'[a] = tl_at[a]
          /\ tl_done'[w] = tl_done[w] + 1 /\ tl_added'[w] = 0
          /\ \A u \in Worker \ {w} : tl_done'[u] = tl_done[u] /\ tl_added'[u] = tl_added[u]
      BY <1>1, <2>1 DEF TimelineTypeOK
    <2> HIDE DEF path, target
    <2>3. TimelineTypeOK'
      <3>1. tl_at' \in [Worker \cup {Serializer} -> Activity \cup {"hierarchy", "end"}]
        BY <1>1, <2>1 DEF TimelineTypeOK, Activity
      <3>2. tl_done' \in [Worker -> Nat] /\ tl_added' \in [Worker -> Nat]
        BY <1>1, <1>2, <2>1 DEF TimelineTypeOK
      <3> QED
        BY <1>1, <1>3, <2>1, <3>1, <3>2 DEF TimelineTypeOK, Timelines!flushVars
    <2>4. InItsChangeSet(w)'
      BY <1>1, <1>2, <2>2, LengthTypes DEF InItsChangeSet, Activity
    <2> QED
      BY <1>1, <1>2, <1>3, <2>1, <2>2, <2>3, <2>4, MapperStep DEF Timelines!flushVars
  <1> QED
    BY <1>4, <1>5

LEMMA GiveUpTimeline ==
  ASSUME TimelineIInv, NEW w \in Worker, Timelines!GiveUp(w) PROVE TimelineIInv'
  <1>1. /\ tl_at[w] = "idle" /\ tl_hasErr /\ tl_done[w] < Len(ChangeSets[w])
        /\ tl_done' = [tl_done EXCEPT ![w] = Len(ChangeSets[w])]
        /\ InItsChangeSet(w) /\ TimelineTypeOK /\ tl_added[w] = 0
        /\ UNCHANGED <<Timelines!registryVars, Timelines!flushVars, tl_at, tl_added, tl_builder,
             tl_hasErr>>
    BY DEF Timelines!GiveUp, TimelineIInv, Mapped, InItsChangeSet
  <1>2. /\ tl_done'[w] = Len(ChangeSets[w]) /\ tl_done[w] \in Nat /\ Len(ChangeSets[w]) \in Nat
        /\ \A u \in Worker \ {w} : tl_done'[u] = tl_done[u]
    BY <1>1, WorkerTypes, LengthTypes DEF TimelineTypeOK
  <1>3. Builder' = Builder
    BY <1>1 DEF Builder, Timelines!registryVars
  <1>4. TimelineTypeOK'
    <2>1. tl_done' \in [Worker -> Nat]
      BY <1>1, <1>2 DEF TimelineTypeOK
    <2> QED
      BY <1>1, <1>3, <2>1 DEF TimelineTypeOK, Timelines!flushVars, Timelines!registryVars
  <1>5. InItsChangeSet(w)'
    BY <1>1, <1>2 DEF InItsChangeSet, Activity
  <1> QED
    BY <1>1, <1>2, <1>3, <1>4, <1>5, MapperStep DEF Timelines!flushVars, Timelines!registryVars

\* An item is added to the builder of its path.
LEMMA AddItemTimeline ==
  ASSUME TimelineIInv, NEW w \in Worker, Timelines!AddItem(w) PROVE TimelineIInv'
  <1>0. PICK b, new : /\ b = tl_builder[w]
                       /\ new = Timelines!ItemOf(w, tl_done[w] + 1, tl_added[w] + 1)
    OBVIOUS
  <1>1. /\ tl_at[w] = "add" /\ InItsChangeSet(w) /\ TimelineTypeOK
        /\ tl_pending' = [tl_pending EXCEPT ![b] = @ \cup {new}] /\ tl_ever' = tl_ever \cup {b}
        /\ tl_added' = [tl_added EXCEPT ![w] = @ + 1] /\ tl_at' = [tl_at EXCEPT ![w] = "item"]
        /\ UNCHANGED <<tl_builderOf, Timelines!flushVars, tl_done, tl_builder, tl_hasErr>>
    BY <1>0 DEF Timelines!AddItem, Timelines!Become, TimelineIInv, Mapped
  <1>2. /\ w # Serializer /\ tl_done[w] \in Nat /\ tl_added[w] \in Nat
        /\ tl_done[w] < Len(ChangeSets[w]) /\ tl_added[w] < Len(Timelines!ChangeSet(w).items)
        /\ tl_done[w] + 1 \in DOMAIN ChangeSets[w] /\ Timelines!ChangeSet(w).items \in Seq(Path)
        /\ tl_added[w] + 1 \in DOMAIN Timelines!ChangeSet(w).items
        /\ b \in Builder /\ tl_builderOf[Timelines!ChangeSet(w).items[tl_added[w] + 1]] = b
    BY <1>0, <1>1, WorkerTypes DEF InItsChangeSet, Timelines!HasNext
  <1>3. /\ new.worker = w /\ new.set = tl_done[w] + 1 /\ new.item = tl_added[w] + 1
        /\ new \in Item /\ Timelines!PathOf(new) = Timelines!ChangeSet(w).items[tl_added[w] + 1]
    BY <1>0, <1>2 DEF Timelines!ItemOf, Item, Timelines!PathOf, Timelines!ChangeSet
  <1>4. /\ tl_at'[w] = "item" /\ \A a \in (Worker \cup {Serializer}) \ {w} : tl_at'[a] = tl_at[a]
        /\ tl_added'[w] = tl_added[w] + 1 /\ \A u \in Worker \ {w} : tl_added'[u] = tl_added[u]
        /\ tl_pending' \in Seq(SUBSET Item) /\ Len(tl_pending') = Len(tl_pending)
        /\ \A c \in Builder : tl_pending'[c] = IF c = b THEN tl_pending[c] \cup {new}
             ELSE tl_pending[c]
    <2>1. /\ tl_pending \in Seq(SUBSET Item) /\ b \in 1..Len(tl_pending)
          /\ tl_pending[b] \cup {new} \in SUBSET Item
      BY <1>1, <1>2, <1>3 DEF TimelineTypeOK, Builder
    <2>2. tl_pending' \in Seq(SUBSET Item) /\ Len(tl_pending') = Len(tl_pending)
      BY <1>1, <2>1
    <2>3. \A c \in Builder : tl_pending'[c] = IF c = b THEN tl_pending[c] \cup {new}
            ELSE tl_pending[c]
      <3>1. DOMAIN tl_pending = Builder
        BY <2>1 DEF Builder
      <3>2. \A c \in DOMAIN tl_pending :
              tl_pending'[c] = IF c = b THEN tl_pending[b] \cup {new} ELSE tl_pending[c]
        BY <1>1, Zenon
      <3> QED
        BY <3>1, <3>2
    <2> QED
      BY <1>1, <2>2, <2>3 DEF TimelineTypeOK
  <1>5. Builder' = Builder /\ DOMAIN tl_pending = Builder /\ DOMAIN tl_pending' = Builder
    BY <1>1, <1>4 DEF Builder, TimelineTypeOK
  <1>6. TimelineTypeOK'
    <2>1. tl_at' \in [Worker \cup {Serializer} -> Activity \cup {"hierarchy", "end"}]
      BY <1>1 DEF TimelineTypeOK, Activity
    <2>2. tl_added' \in [Worker -> Nat]
      BY <1>1, <1>2 DEF TimelineTypeOK
    <2>3. tl_ever' \subseteq Builder
      BY <1>1, <1>2 DEF TimelineTypeOK
    <2> QED
      BY <1>1, <1>4, <1>5, <2>1, <2>2, <2>3 DEF TimelineTypeOK, Timelines!flushVars
  <1>7. Mapped'
    <2>1. Timelines!ChangeSet(w)' = Timelines!ChangeSet(w)
      BY <1>1 DEF Timelines!ChangeSet
    <2>2. InItsChangeSet(w)'
      BY <1>1, <1>2, <1>4, <2>1 DEF InItsChangeSet, Activity
    <2>3. ~tl_hasErr' => AliasesSet(w)'
      <3>1. ~tl_hasErr => AliasesSet(w)
        BY DEF TimelineIInv, Mapped
      <3> QED
        BY <1>1, <1>4, <3>1 DEF AliasesSet
    <2> QED
      BY <1>1, <1>4, <1>5, <2>2, <2>3, OthersMapped
  <1>8. \A i \in Item : i \in Added' <=> i \in Added \/ i = new
    <2>1. ASSUME NEW i \in Item, i \in Added' PROVE i \in Added \/ i = new
      <3>1. /\ i.worker \in Worker /\ i.set \in Nat /\ i.item \in Nat
            /\ i = Timelines!ItemOf(i.worker, i.set, i.item)
        BY DEF Item, Timelines!ItemOf
      <3>2. i.set <= tl_done[i.worker] \/
              (i.set = tl_done[i.worker] + 1 /\ i.item <= tl_added'[i.worker])
        <4>1. tl_done' = tl_done
          BY <1>1
        <4> QED
          BY <2>1, <4>1 DEF Added
      <3>3. CASE i.worker = w /\ i.set = tl_done[w] + 1 /\ i.item = tl_added[w] + 1
        BY <1>0, <3>1, <3>3
      <3>4. CASE ~(i.worker = w /\ i.set = tl_done[w] + 1 /\ i.item = tl_added[w] + 1)
        BY <1>2, <1>4, <3>1, <3>2, <3>4 DEF Added
      <3> QED
        BY <3>3, <3>4
    <2>2. ASSUME NEW i \in Added PROVE i \in Added'
      <3>1. i \in Item /\ i.worker \in Worker /\ i.set \in Nat /\ i.item \in Nat
        BY DEF Added, Item
      <3> QED
        BY <1>1, <1>2, <1>4, <3>1 DEF Added
    <2>3. new \in Added'
      BY <1>1, <1>2, <1>3, <1>4 DEF Added
    <2> QED
      BY <2>1, <2>2, <2>3
  <1>9. new \notin Added /\ Added \subseteq Item /\ Added' \subseteq Item
    BY <1>2, <1>3 DEF Added
  <1>10. /\ \A i : Entry(i)' = Entry(i) /\
              UNCHANGED <<tl_extracted, tl_flushed, tl_twice, tl_toVisit, tl_visited>>
         /\ \A i : Timelines!PathOf(i)' = Timelines!PathOf(i)
    BY <1>1 DEF Entry, Timelines!PathOf, Timelines!flushVars
  <1>11. /\ \A c \in Builder : \A i \in tl_pending[c] :
              /\ i \in Added /\ tl_builderOf[Timelines!PathOf(i)] = c /\ c \in tl_ever
              /\ Entry(i) \notin tl_extracted \cup tl_flushed
         /\ \A x \in tl_extracted \cup tl_flushed : \E i \in Added : x = Entry(i) /\
              x.id \in tl_ever
         /\ tl_extracted \cap tl_flushed = {} /\ tl_twice = {}
    BY DEF TimelineIInv, InOnePlace
  <1>12. Entry(new) \notin tl_extracted \cup tl_flushed
    <2>1. \A i : Entry(i).item = i
      BY DEF Entry
    <2> QED
      BY <1>9, <1>11, <2>1
  <1>13. InOnePlace'
    <2>1. ASSUME NEW c \in Builder, NEW i \in tl_pending'[c]
          PROVE  /\ i \in Added' /\ tl_builderOf[Timelines!PathOf(i)] = c /\ c \in tl_ever'
                 /\ Entry(i) \notin tl_extracted \cup tl_flushed
      <3>1. CASE i = new /\ c = b
        BY <1>1, <1>2, <1>3, <1>8, <1>12, <3>1
      <3>2. CASE i \in tl_pending[c]
        BY <1>1, <1>8, <1>9, <1>11, <3>2
      <3> QED
        BY <1>4, <2>1, <3>1, <3>2
    <2>2. \A x \in tl_extracted \cup tl_flushed : \E i \in Added' : x = Entry(i) /\
            x.id \in tl_ever'
      BY <1>1, <1>8, <1>9, <1>11
    <2> QED
      BY <1>1, <1>5, <1>10, <1>11, <2>1, <2>2 DEF InOnePlace
  <1>14. NothingLost'
    <2>1. InMemory(new)'
      BY <1>2, <1>4, <1>5 DEF InMemory
    <2>2. \A i : InMemory(i) => InMemory(i)'
      BY <1>4, <1>5 DEF InMemory
    <2>3. ~tl_hasErr' /\ tl_result' # "failed" => ~tl_hasErr /\ tl_result # "failed"
      BY <1>1 DEF Timelines!flushVars
    <2> QED
      BY <1>8, <1>9, <1>10, <2>1, <2>2, <2>3 DEF TimelineIInv, NothingLost
  <1>15. Fresh' \subseteq Fresh
    <2>1. ASSUME NEW i \in Timelines!Announced' PROVE i \in Timelines!Announced
      <3>1. PICK c \in Builder : i \in tl_pending'[c]
        BY <1>5, <2>1, InAnnounced DEF AnnouncedAre
      <3>2. i.set <= tl_done[i.worker] \/ tl_at'[i.worker] \in {"flush", "flushing"}
        BY <1>1, <2>1, InAnnounced DEF AnnouncedAre
      <3>3. i # new
        BY <1>2, <1>3, <1>4, <3>2
      <3>4. i \in tl_pending[c] /\ i \in Item
        <4>1. i \in tl_pending[c]
          BY <1>4, <3>1, <3>3
        <4>2. i \in Added
          BY <1>11, <4>1
        <4> QED
          BY <1>9, <4>1, <4>2
      <3>5. i.worker \in Worker
        BY <3>4 DEF Item
      <3>6. i.set <= tl_done[i.worker] \/ tl_at[i.worker] \in {"flush", "flushing"}
        BY <1>4, <3>2, <3>5
      <3> QED
        BY <1>5, <3>4, <3>6, InAnnounced DEF AnnouncedAre
    <2> QED
      BY <1>1, <1>10, <2>1 DEF Fresh
  <1>16. Counted'
    BY <1>1, <1>4, <1>15, CountStays DEF Timelines!flushVars
  <1>17. /\ tl_at[Serializer] = "idle" /\ tl_at'[Serializer] = "idle" /\ tl_result = "none"
         /\ tl_result' = "none"
    BY <1>1, <1>2, <1>4, SerializerWaits DEF Timelines!flushVars
  <1>18. OneFlush'
    BY <1>1, <1>4, <1>17 DEF OneFlush, TimelineIInv, Timelines!flushVars
  <1>19. SerializerLast'
    BY <1>17 DEF SerializerLast
  <1> QED
    BY <1>6, <1>7, <1>13, <1>14, <1>16, <1>18, <1>19 DEF TimelineIInv

\* The items of a change set are announced together.
LEMMA AnnouncedTogether ==
  ASSUME NEW S, NEW T, IsFiniteSet(S), NEW n \in Nat, NEW e,
         T \subseteq S \cup {e[k] : k \in 1..n}
  PROVE  IsFiniteSet(T) /\ Cardinality(T) \in Nat /\ Cardinality(S) \in Nat
         /\ Cardinality(T) <= Cardinality(S) + n
  <1>0. PICK N : N = {e[k] : k \in 1..n}
    OBVIOUS
  <1>1. IsFiniteSet(1..n) /\ Cardinality(1..n) = n
    BY FS_Interval
  <1>2. IsFiniteSet(N) /\ Cardinality(N) <= n
    <2>1. [k \in 1..n |-> e[k]] \in Surjection(1..n, N)
      BY <1>0 DEF Surjection
    <2> QED
      BY <1>1, <2>1, FS_Surjection
  <1>3. /\ IsFiniteSet(S \cup N)
        /\ Cardinality(S \cup N) = Cardinality(S) + Cardinality(N) - Cardinality(S \cap N)
    BY <1>2, FS_Union
  <1>4. IsFiniteSet(S \cap N)
    BY <1>2, FS_Intersection
  <1>5. IsFiniteSet(T) /\ Cardinality(T) <= Cardinality(S \cup N)
    BY <1>0, <1>3, FS_Subset
  <1>6. /\ Cardinality(T) \in Nat /\ Cardinality(S) \in Nat /\ Cardinality(N) \in Nat
        /\ Cardinality(S \cap N) \in Nat /\ Cardinality(S \cup N) \in Nat
    BY <1>2, <1>3, <1>4, <1>5, FS_CardinalityType
  <1> QED
    BY <1>2, <1>3, <1>5, <1>6

\* The items of a change set are all there when it ends.
LEMMA EndKeepsAdded ==
  ASSUME TimelineIInv, NEW w \in Worker, tl_at[w] \in {"item", "flushing"}, ~Timelines!HasNext(w),
         \A u \in Worker \ {w} : tl_done'[u] = tl_done[u] /\ tl_added'[u] = tl_added[u],
         \/ tl_done'[w] = tl_done[w] /\ tl_added'[w] = tl_added[w]
         \/ tl_done'[w] = tl_done[w] + 1 /\ tl_added'[w] = 0
  PROVE  Added' = Added
  <1>1. /\ InItsChangeSet(w) /\ tl_done[w] \in Nat /\ tl_added[w] \in Nat
        /\ tl_done[w] < Len(ChangeSets[w]) /\ tl_added[w] = Len(Timelines!ChangeSet(w).items)
    BY WorkerTypes DEF TimelineIInv, Mapped, InItsChangeSet, Timelines!HasNext
  <1>2. ASSUME NEW i \in Item
        PROVE  /\ i.worker \in Worker /\ i.set \in Nat /\ i.item \in Nat \ {0}
               /\ i.worker = w /\ i.set = tl_done[w] + 1 => i.item <= tl_added[w]
    <2>1. /\ i.worker \in Worker /\ i.set \in Nat /\ i.item \in Nat
          /\ i.item \in 1..Len(ChangeSets[i.worker][i.set].items)
      BY ItemTypes DEF Item
    <2> QED
      BY <1>1, <2>1 DEF Timelines!ChangeSet
  <1>3. ASSUME NEW i \in Item PROVE i \in Added' <=> i \in Added
    <2>1. CASE i.worker # w
      BY <1>2, <2>1 DEF Added
    <2>2. CASE i.worker = w
      BY <1>1, <1>2, <2>2 DEF Added
    <2> QED
      BY <2>1, <2>2
  <1> QED
    BY <1>3 DEF Added

LEMMA EndKeepsAliases ==
  ASSUME TimelineIInv, NEW w \in Worker, tl_at[w] \in {"item", "flushing"},
         tl_at'[w] = "idle", tl_done'[w] = tl_done[w] + 1, tl_builderOf' = tl_builderOf, tl_hasErr
           => tl_hasErr'
  PROVE  ~tl_hasErr' => AliasesSet(w)'
  <1>1. (~tl_hasErr => AliasesSet(w)) /\ tl_done[w] \in Nat
    BY WorkerTypes DEF TimelineIInv, Mapped
  <1>2. \A i \in DOMAIN ChangeSets[w] : i \in Nat
    BY LengthTypes
  <1>3. \A i \in Nat : i <= tl_done[w] + 1 => i <= tl_done[w] \/ i = tl_done[w] + 1
    BY <1>1
  <1> QED
    BY <1>1, <1>2, <1>3 DEF AliasesSet

LEMMA NotifyTimeline ==
  ASSUME TimelineIInv, NEW w \in Worker, Timelines!NotifyItemsAdded(w) PROVE TimelineIInv'
  <1>1. /\ tl_at[w] = "item" /\ ~Timelines!HasNext(w) /\ InItsChangeSet(w) /\ TimelineTypeOK
        /\ tl_pendingCount' = tl_pendingCount + tl_added[w]
        /\ UNCHANGED <<Timelines!registryVars, tl_flushLock, tl_toVisit, tl_visited, tl_extracted,
             tl_flushed, tl_twice,
                       tl_hierarchy, tl_result, tl_builder, tl_hasErr>>
    BY DEF Timelines!NotifyItemsAdded, TimelineIInv, Mapped
  <1>2. /\ w # Serializer /\ tl_done[w] \in Nat /\ tl_added[w] \in Nat /\ tl_pendingCount \in Nat
        /\ tl_done[w] < Len(ChangeSets[w]) /\ tl_added[w] = Len(Timelines!ChangeSet(w).items)
        /\ Len(ChangeSets[w]) \in Nat
    BY <1>1, WorkerTypes, LengthTypes DEF InItsChangeSet, Timelines!HasNext, TimelineTypeOK
  <1>3. \/ /\ tl_added[w] > 0 /\ tl_pendingCount' >= Threshold
           /\ tl_at' = [tl_at EXCEPT ![w] = "flush"] /\ UNCHANGED <<tl_done, tl_added>>
        \/ /\ ~(tl_added[w] > 0 /\ tl_pendingCount' >= Threshold)
           /\ tl_at' = [tl_at EXCEPT ![w] = "idle"] /\ tl_done' = [tl_done EXCEPT ![w] = @ + 1]
           /\ tl_added' = [tl_added EXCEPT ![w] = 0]
    BY DEF Timelines!NotifyItemsAdded, Timelines!EndOf, Timelines!Become
  <1>4. /\ \A a \in (Worker \cup {Serializer}) \ {w} : tl_at'[a] = tl_at[a]
        /\ \A u \in Worker \ {w} : tl_done'[u] = tl_done[u] /\ tl_added'[u] = tl_added[u]
        /\ \/ tl_at'[w] = "flush" /\ tl_done'[w] = tl_done[w] /\ tl_added'[w] = tl_added[w]
           \/ tl_at'[w] = "idle" /\ tl_done'[w] = tl_done[w] + 1 /\ tl_added'[w] = 0
    BY <1>1, <1>3 DEF TimelineTypeOK
  <1>5. TimelineTypeOK'
    <2>1. tl_at' \in [Worker \cup {Serializer} -> Activity \cup {"hierarchy", "end"}]
      BY <1>1, <1>3 DEF TimelineTypeOK, Activity
    <2>2. tl_done' \in [Worker -> Nat] /\ tl_added' \in [Worker -> Nat]
      <3>1. tl_done[w] + 1 \in Nat /\ 0 \in Nat
        BY <1>2
      <3> QED
        BY <1>1, <1>3, <3>1 DEF TimelineTypeOK
    <2>3. tl_pendingCount' \in Nat
      BY <1>1, <1>2
    <2> QED
      BY <1>1, <2>1, <2>2, <2>3 DEF TimelineTypeOK, Builder, Timelines!registryVars
  <1>6. Builder' = Builder /\ tl_pending' = tl_pending /\ tl_builderOf' = tl_builderOf
    BY <1>1 DEF Builder, Timelines!registryVars
  <1>7. Mapped'
    <2>1. InItsChangeSet(w)'
      <3>1. CASE tl_at'[w] = "flush" /\ tl_done'[w] = tl_done[w] /\ tl_added'[w] = tl_added[w]
        <4>1. Timelines!ChangeSet(w)' = Timelines!ChangeSet(w)
          BY <3>1 DEF Timelines!ChangeSet
        <4> QED
          BY <1>1, <1>2, <3>1, <4>1 DEF InItsChangeSet, Activity, Timelines!HasNext
      <3>2. CASE tl_at'[w] = "idle" /\ tl_done'[w] = tl_done[w] + 1 /\ tl_added'[w] = 0
        BY <1>2, <3>2 DEF InItsChangeSet, Activity
      <3> QED
        BY <1>4, <3>1, <3>2
    <2>2. ~tl_hasErr' => AliasesSet(w)'
      <3>1. CASE tl_at'[w] = "flush" /\ tl_done'[w] = tl_done[w]
        <4>1. ~tl_hasErr => AliasesSet(w)
          BY DEF TimelineIInv, Mapped
        <4> QED
          BY <1>1, <1>6, <3>1, <4>1 DEF AliasesSet
      <3>2. CASE tl_at'[w] = "idle" /\ tl_done'[w] = tl_done[w] + 1
        BY <1>1, <1>6, <3>2, EndKeepsAliases
      <3> QED
        BY <1>4, <3>1, <3>2
    <2> QED
      BY <1>1, <1>4, <1>6, <2>1, <2>2, OthersMapped
  <1>8. Added' = Added
    BY <1>1, <1>4, EndKeepsAdded DEF Added
  <1>9. /\ InOnePlace' /\ NothingLost'
        /\ \A i \in Fresh' :
              /\ i \in Added
              /\ i.set <= tl_done'[i.worker] \/ tl_at'[i.worker] \in {"flush", "flushing"}
              /\ i.set <= tl_done[i.worker] \/ tl_at[i.worker] \in {"flush", "flushing"}
                   => i \in Fresh
    <2>1. \A b \in Builder : b \in Builder' /\ tl_pending'[b] = tl_pending[b]
      BY <1>6
    <2>2. \A b \in Builder' : b \notin Builder => tl_pending'[b] = {}
      BY <1>6
    <2>3. \A p \in Path : tl_builderOf[p] # 0 => tl_builderOf'[p] = tl_builderOf[p]
      BY <1>6
    <2>4. UNCHANGED <<tl_extracted, tl_flushed, tl_twice, tl_ever, tl_toVisit, tl_visited,
            tl_hasErr, tl_result>>
      BY <1>1 DEF Timelines!registryVars
    <2> QED
      BY <1>5, <1>8, <2>1, <2>2, <2>3, <2>4, ItemsStay
  <1>10. Counted'
    <2>1. PICK e : e = [k \in 1..tl_added[w] |-> Timelines!ItemOf(w, tl_done[w] + 1, k)]
      OBVIOUS
    <2>2. ASSUME NEW i \in Fresh' PROVE i \in Fresh \cup {e[k] : k \in 1..tl_added[w]}
      <3>1. /\ i \in Item /\ i.worker \in Worker /\ i.set \in Nat /\ i.item \in Nat \ {0}
            /\ i = Timelines!ItemOf(i.worker, i.set, i.item)
        BY <1>9, <2>2, ItemTypes DEF Added, Item, Timelines!ItemOf
      <3>2. CASE i.worker = w /\ i.set = tl_done[w] + 1
        <4>1. i.item \in 1..tl_added[w]
          BY <1>2, <1>9, <2>2, <3>1, <3>2, ItemTypes DEF Added
        <4> QED
          BY <2>1, <3>1, <3>2, <4>1
      <3>3. CASE ~(i.worker = w /\ i.set = tl_done[w] + 1)
        <4>1. i.worker = w => i.set <= tl_done[w]
          BY <1>2, <1>9, <2>2, <3>1, <3>3 DEF Added
        <4> QED
          BY <1>4, <1>9, <2>2, <3>1, <4>1
      <3> QED
        BY <3>2, <3>3
    <2>3. IsFiniteSet(Fresh) /\ Cardinality(Fresh) <= tl_pendingCount
      BY DEF TimelineIInv, Counted
    <2>4. /\ IsFiniteSet(Fresh') /\ Cardinality(Fresh') \in Nat /\ Cardinality(Fresh) \in Nat
          /\ Cardinality(Fresh') <= Cardinality(Fresh) + tl_added[w]
      <3>1. PICK S, T : S = Fresh /\ T = Fresh'
        OBVIOUS
      <3>2. IsFiniteSet(S)
        BY <2>3, <3>1
      <3>3. PICK n \in Nat : n = tl_added[w]
        BY <1>2
      <3>4. T \subseteq S \cup {e[k] : k \in 1..n}
        BY <2>2, <3>1, <3>3
      <3>5. /\ IsFiniteSet(T) /\ Cardinality(T) \in Nat /\ Cardinality(S) \in Nat
            /\ Cardinality(T) <= Cardinality(S) + n
        BY <3>2, <3>4, AnnouncedTogether, Zenon
      <3> QED
        BY <3>1, <3>3, <3>5
    <2>5. tl_pendingCount' >= Threshold => \E u \in Worker : tl_at'[u] = "flush"
      <3>1. CASE tl_at'[w] = "flush"
        BY <3>1
      <3>2. CASE tl_at'[w] # "flush" /\ tl_pendingCount' >= Threshold
        <4>1. tl_pendingCount >= Threshold
          BY <1>1, <1>2, <1>3, <1>4, <3>2
        <4>2. PICK u \in Worker : tl_at[u] = "flush"
          BY <4>1 DEF TimelineIInv, Counted
        <4> QED
          BY <1>1, <1>4, <4>2
      <3> QED
        BY <3>1, <3>2
    <2> QED
      BY <1>1, <1>2, <2>3, <2>4, <2>5 DEF Counted
  <1>11. /\ tl_at[Serializer] = "idle" /\ tl_at'[Serializer] = "idle" /\ tl_result = "none"
         /\ tl_result' = "none"
    BY <1>1, <1>2, <1>4, SerializerWaits
  <1>12. OneFlush'
    BY <1>1, <1>4, <1>11 DEF OneFlush, TimelineIInv
  <1>13. SerializerLast'
    BY <1>11 DEF SerializerLast
  <1> QED
    BY <1>5, <1>7, <1>9, <1>10, <1>12, <1>13 DEF TimelineIInv

LEMMA BeginFlushTimeline ==
  ASSUME TimelineIInv, NEW who \in Worker \cup {Serializer}, Timelines!BeginFlush(who)
  PROVE TimelineIInv'
  <1>1. /\ tl_at[who] = "flush" /\ tl_flushLock = None /\ tl_flushLock' = who
        /\ tl_pendingCount' = 0 /\ tl_toVisit' = Timelines!Builders /\ tl_visited' = {}
        /\ tl_at' = [tl_at EXCEPT ![who] = "flushing"] /\ TimelineTypeOK
        /\ UNCHANGED <<Timelines!registryVars, tl_extracted, tl_flushed, tl_twice, tl_hierarchy,
             tl_result, tl_done, tl_added,
                       tl_builder, tl_hasErr>>
    BY DEF Timelines!BeginFlush, Timelines!Become, TimelineIInv
  <1>2. /\ tl_at'[who] = "flushing"
        /\ \A a \in (Worker \cup {Serializer}) \ {who} : tl_at'[a] = tl_at[a]
        /\ None \notin Worker \cup {Serializer} /\ Serializer \notin Worker
    BY <1>1, TimelineAssumption DEF TimelineTypeOK, TimelineAssumption
  <1>3. /\ Builder' = Builder /\ Timelines!Builders' = Timelines!Builders
        /\ Timelines!Builders \subseteq Builder
    BY <1>1 DEF Builder, Timelines!Builders, Timelines!registryVars, TimelineTypeOK
  <1>4. TimelineTypeOK'
    <2>1. tl_at' \in [Worker \cup {Serializer} -> Activity \cup {"hierarchy", "end"}]
      BY <1>1 DEF TimelineTypeOK, Activity
    <2> QED
      BY <1>1, <1>3, <2>1 DEF TimelineTypeOK, Timelines!registryVars
  <1>5. Mapped'
    <2>1. ASSUME NEW w \in Worker PROVE InItsChangeSet(w)' /\ (~tl_hasErr' => AliasesSet(w)')
      <3>1. InItsChangeSet(w) /\ (~tl_hasErr => AliasesSet(w))
        BY DEF TimelineIInv, Mapped
      <3>2. /\ Timelines!ChangeSet(w)' = Timelines!ChangeSet(w)
            /\ Timelines!HasNext(w)' = Timelines!HasNext(w)
        BY <1>1 DEF Timelines!ChangeSet, Timelines!HasNext
      <3>3. tl_at'[w] = tl_at[w] \/ (tl_at[w] = "flush" /\ tl_at'[w] = "flushing")
        BY <1>1, <1>2
      <3>4. InItsChangeSet(w)'
        BY <1>1, <1>3, <3>1, <3>2, <3>3 DEF InItsChangeSet, Activity, Timelines!registryVars
      <3>5. ~tl_hasErr' => AliasesSet(w)'
        BY <1>1, <3>1, <3>3 DEF AliasesSet, Timelines!registryVars
      <3> QED
        BY <3>4, <3>5
    <2> QED
      BY <2>1 DEF Mapped
  <1>6. Added' = Added /\ \A i : Entry(i)' = Entry(i) /\ Timelines!PathOf(i)' = Timelines!PathOf(i)
    BY <1>1 DEF Added, Entry, Timelines!PathOf, Timelines!registryVars
  <1>7. InOnePlace' /\ NothingLost'
    <2>1. UNCHANGED <<tl_pending, tl_builderOf, tl_ever, tl_extracted, tl_flushed, tl_twice,
            tl_hasErr, tl_result>>
      BY <1>1 DEF Timelines!registryVars
    <2>2. InOnePlace'
      BY <1>3, <1>6, <2>1 DEF InOnePlace, TimelineIInv
    <2>3. NothingLost'
      BY <1>3, <1>6, <2>1 DEF NothingLost, InMemory, TimelineIInv
    <2> QED
      BY <2>2, <2>3
  <1>8. Fresh' = {}
    <2>1. ASSUME NEW i \in Fresh' PROVE FALSE
      <3>1. DOMAIN tl_pending' = Builder /\ tl_pending' = tl_pending /\ tl_builderOf' = tl_builderOf
        BY <1>1 DEF Timelines!registryVars, TimelineTypeOK, Builder
      <3>2. /\ i \in Timelines!Announced'
            /\ tl_builderOf[Timelines!PathOf(i)] \notin Timelines!Builders
        BY <1>1, <1>6, <2>1, <3>1 DEF Fresh
      <3>3. PICK b \in Builder : i \in tl_pending[b]
        BY <3>1, <3>2, InAnnounced DEF AnnouncedAre
      <3>4. i \in Item /\ tl_builderOf[Timelines!PathOf(i)] = b /\ b # 0
        BY <3>3 DEF TimelineIInv, InOnePlace, Added, Builder
      <3> QED
        BY <3>2, <3>4, ItemTypes DEF Timelines!Builders
    <2> QED
      BY <2>1
  <1>9. Counted'
    <2>1. IsFiniteSet({}) /\ Cardinality({}) = 0
      BY FS_EmptySet
    <2> QED
      BY <1>1, <1>8, <2>1, TimelineAssumption DEF Counted, TimelineAssumption
  <1>10. OneFlush'
    <2>1. \A a \in Worker \cup {Serializer} : tl_at[a] # "flushing"
      BY <1>1, <1>2 DEF TimelineIInv, OneFlush
    <2>2. \A a \in Worker \cup {Serializer} : tl_at'[a] = "flushing" <=> tl_flushLock' = a
      BY <1>1, <1>2, <2>1
    <2> QED
      BY <1>1, <1>2, <1>3, <2>2 DEF OneFlush
  <1>11. SerializerLast'
    <2>1. CASE who = Serializer
      <3>1. /\ Timelines!AllDone' = Timelines!AllDone /\ tl_at'[Serializer] = "flushing"
            /\ tl_result' = tl_result
        BY <1>1, <1>2, <2>1 DEF Timelines!AllDone
      <3> QED
        BY <1>1, <2>1, <3>1 DEF TimelineIInv, SerializerLast
    <2>2. CASE who # Serializer
      <3>1. /\ tl_at[Serializer] = "idle" /\ tl_at'[Serializer] = "idle"
            /\ tl_result = "none" /\ tl_result' = "none"
        BY <1>1, <1>2, <2>2, SerializerWaits
      <3> QED
        BY <3>1 DEF SerializerLast
    <2> QED
      BY <2>1, <2>2
  <1> QED
    BY <1>4, <1>5, <1>7, <1>9, <1>10, <1>11 DEF TimelineIInv

\* The items of a builder move from the memory to what the flush will write.
LEMMA ExtractTimeline ==
  ASSUME TimelineIInv, NEW who \in Worker \cup {Serializer}, Timelines!Extract(who)
  PROVE TimelineIInv'
  <1>1. PICK b \in Timelines!Builders \ tl_visited :
          /\ tl_visited' = tl_visited \cup {b}
          /\ tl_extracted' = tl_extracted \cup {[id |-> b, item |-> i] : i \in tl_pending[b]}
          /\ tl_pending' = [tl_pending EXCEPT ![b] = {}]
    BY DEF Timelines!Extract
  <1>2. /\ tl_at[who] = "flushing" /\ TimelineTypeOK
        /\ UNCHANGED <<tl_builderOf, tl_ever, tl_pendingCount, tl_flushLock, tl_toVisit,
             tl_flushed, tl_twice,
                       tl_hierarchy, tl_result, tl_done, tl_at, tl_added, tl_builder, tl_hasErr>>
    BY DEF Timelines!Extract, TimelineIInv
  <1>3. b \in Builder /\ b # 0 /\ DOMAIN tl_pending = Builder
    BY <1>2 DEF Timelines!Builders, TimelineTypeOK, Builder
  <1>4. /\ tl_pending' \in Seq(SUBSET Item) /\ Len(tl_pending') = Len(tl_pending)
        /\ \A c \in Builder : tl_pending'[c] = IF c = b THEN {} ELSE tl_pending[c]
    <2>1. tl_pending \in Seq(SUBSET Item) /\ b \in 1..Len(tl_pending) /\ {} \in SUBSET Item
      BY <1>2, <1>3 DEF TimelineTypeOK, Builder
    <2>2. tl_pending' \in Seq(SUBSET Item) /\ Len(tl_pending') = Len(tl_pending)
      BY <1>1, <2>1
    <2>3. \A c \in DOMAIN tl_pending : tl_pending'[c] = IF c = b THEN {} ELSE tl_pending[c]
      BY <1>1, Zenon
    <2> QED
      BY <1>3, <2>2, <2>3
  <1>5. /\ Builder' = Builder /\ DOMAIN tl_pending' = Builder
        /\ Timelines!Builders' = Timelines!Builders
    BY <1>2, <1>4 DEF Builder, Timelines!Builders
  <1>6. TimelineTypeOK'
    <2>1. tl_visited' \subseteq Builder
      BY <1>1, <1>2, <1>3 DEF TimelineTypeOK
    <2> QED
      BY <1>2, <1>4, <1>5, <2>1 DEF TimelineTypeOK
  <1>7. Mapped'
    <2>1. ASSUME NEW w \in Worker PROVE InItsChangeSet(w)' /\ (~tl_hasErr' => AliasesSet(w)')
      <3>1. InItsChangeSet(w) /\ (~tl_hasErr => AliasesSet(w))
        BY DEF TimelineIInv, Mapped
      <3>2. /\ Timelines!ChangeSet(w)' = Timelines!ChangeSet(w)
            /\ Timelines!HasNext(w)' = Timelines!HasNext(w)
        BY <1>2 DEF Timelines!ChangeSet, Timelines!HasNext
      <3>3. InItsChangeSet(w)'
        BY <1>2, <1>5, <3>1, <3>2 DEF InItsChangeSet
      <3>4. ~tl_hasErr' => AliasesSet(w)'
        BY <1>2, <3>1 DEF AliasesSet
      <3> QED
        BY <3>3, <3>4
    <2> QED
      BY <2>1 DEF Mapped
  <1>8. Added' = Added /\ \A i : Entry(i)' = Entry(i) /\ Timelines!PathOf(i)' = Timelines!PathOf(i)
    BY <1>2 DEF Added, Entry, Timelines!PathOf
  <1>9. /\ \A c \in Builder : \A i \in tl_pending[c] :
              /\ i \in Added /\ tl_builderOf[Timelines!PathOf(i)] = c /\ c \in tl_ever
              /\ Entry(i) \notin tl_extracted \cup tl_flushed
        /\ \A x \in tl_extracted \cup tl_flushed : \E i \in Added : x = Entry(i) /\ x.id \in tl_ever
        /\ tl_extracted \cap tl_flushed = {} /\ tl_twice = {}
    BY DEF TimelineIInv, InOnePlace
  <1>10. \A x : x \in tl_extracted' <=> x \in tl_extracted \/ \E i \in tl_pending[b] : x = Entry(i)
    <2>1. \A i \in tl_pending[b] : Entry(i) = [id |-> b, item |-> i]
      BY <1>3, <1>9 DEF Entry
    <2>2. \A x : x \in {[id |-> b, item |-> i] : i \in tl_pending[b]} <=>
                 \E i \in tl_pending[b] : x = Entry(i)
      BY <2>1
    <2> QED
      BY <1>1, <2>2
  <1>11. InOnePlace'
    <2>1. ASSUME NEW c \in Builder, NEW i \in tl_pending'[c]
          PROVE  /\ i \in Added /\ tl_builderOf[Timelines!PathOf(i)] = c /\ c \in tl_ever
                 /\ Entry(i) \notin tl_extracted' \cup tl_flushed
      <3>1. c # b /\ i \in tl_pending[c]
        BY <1>4, <2>1
      <3>2. /\ i \in Added /\ tl_builderOf[Timelines!PathOf(i)] = c /\ c \in tl_ever
            /\ Entry(i) \notin tl_extracted \cup tl_flushed
        BY <1>9, <3>1
      <3>3. \A j \in tl_pending[b] : Entry(j) # Entry(i)
        BY <1>3, <1>9, <3>1, <3>2 DEF Entry
      <3> QED
        BY <1>10, <3>2, <3>3
    <2>2. ASSUME NEW x \in tl_extracted' \cup tl_flushed
          PROVE \E i \in Added : x = Entry(i) /\ x.id \in tl_ever
      <3>1. CASE x \in tl_extracted \cup tl_flushed
        BY <1>9, <3>1
      <3>2. CASE \E i \in tl_pending[b] : x = Entry(i)
        <4>1. PICK i \in tl_pending[b] : x = Entry(i)
          BY <3>2
        <4>2. i \in Added /\ Entry(i).id = b /\ b \in tl_ever
          BY <1>3, <1>9 DEF Entry
        <4> QED
          BY <4>1, <4>2
      <3> QED
        BY <1>10, <2>2, <3>1, <3>2
    <2>3. tl_extracted' \cap tl_flushed = {}
      BY <1>3, <1>9, <1>10
    <2> QED
      BY <1>2, <1>5, <1>8, <1>9, <2>1, <2>2, <2>3 DEF InOnePlace
  <1>12. NothingLost'
    <2> SUFFICES ASSUME ~tl_hasErr, tl_result # "failed", NEW i \in Added
                 PROVE  InMemory(i)' \/ Entry(i) \in tl_extracted' \cup tl_flushed
      BY <1>2, <1>8 DEF NothingLost
    <2>1. InMemory(i) \/ Entry(i) \in tl_extracted \cup tl_flushed
      BY DEF TimelineIInv, NothingLost
    <2>2. InMemory(i) => InMemory(i)' \/ Entry(i) \in tl_extracted'
      BY <1>4, <1>5, <1>10 DEF InMemory
    <2> QED
      BY <1>10, <2>1, <2>2
  <1>13. Fresh' \subseteq Fresh
    <2>1. ASSUME NEW i \in Fresh' PROVE i \in Fresh
      <3>1. /\ i \in Timelines!Announced'
            /\ tl_builderOf[Timelines!PathOf(i)] \notin tl_toVisit \ tl_visited'
        BY <1>2, <1>8, <2>1 DEF Fresh
      <3>2. /\ \E c \in Builder : i \in tl_pending'[c]
            /\ i.set <= tl_done[i.worker] \/ tl_at[i.worker] \in {"flush", "flushing"}
        BY <1>2, <1>5, <3>1, InAnnounced DEF AnnouncedAre
      <3>3. PICK c \in Builder : i \in tl_pending[c] /\ c # b
        BY <1>4, <3>2
      <3>4. tl_builderOf[Timelines!PathOf(i)] = c
        BY <1>9, <3>3
      <3>5. i \in Timelines!Announced
        BY <1>3, <3>2, <3>3, InAnnounced DEF AnnouncedAre
      <3> QED
        BY <1>1, <3>1, <3>3, <3>4, <3>5 DEF Fresh
    <2> QED
      BY <2>1
  <1>14. Counted'
    BY <1>2, <1>13, CountStays
  <1>15. OneFlush'
    <2>1. tl_flushLock # None
      BY <1>2, TimelineAssumption DEF TimelineIInv, OneFlush, TimelineAssumption
    <2>2. ASSUME tl_at[Serializer] = "flushing"
          PROVE  Timelines!Builders \subseteq tl_toVisit /\
                   \A c \in tl_visited' : tl_pending'[c] = {}
      <3>1. Timelines!Builders \subseteq tl_toVisit /\ \A c \in tl_visited : tl_pending[c] = {} /\
              c \in Builder
        BY <1>2, <2>2 DEF TimelineIInv, OneFlush, TimelineTypeOK
      <3> QED
        BY <1>1, <1>3, <1>4, <3>1
    <2> QED
      BY <1>2, <1>5, <2>1, <2>2 DEF TimelineIInv, OneFlush
  <1>16. SerializerLast'
    BY <1>2, <1>8 DEF TimelineIInv, SerializerLast, Timelines!AllDone
  <1> QED
    BY <1>6, <1>7, <1>11, <1>12, <1>14, <1>15, <1>16 DEF TimelineIInv

\* A worker is done with its flush, and with its change set.
LEMMA WorkerEndsFlush ==
  ASSUME TimelineIInv, NEW w \in Worker, NEW ok \in BOOLEAN, Timelines!EndFlush(w, ok),
         Timelines!EndOf(w),
         tl_hasErr' = (tl_hasErr \/ ~ok), tl_result' = tl_result
  PROVE  TimelineIInv'
  <1>1. /\ tl_at[w] = "flushing" /\ tl_toVisit \subseteq tl_visited /\ tl_flushLock' = None
        /\ tl_toVisit' = {} /\ tl_visited' = {} /\ tl_extracted' = {}
        /\ IF ok THEN /\ tl_flushed' = tl_flushed \cup tl_extracted
                      /\ tl_twice' = tl_twice \cup (tl_flushed \cap tl_extracted)
           ELSE UNCHANGED <<tl_flushed, tl_twice>>
        /\ UNCHANGED <<Timelines!registryVars, tl_pendingCount, tl_hierarchy, tl_builder>>
        /\ TimelineTypeOK /\ InItsChangeSet(w)
        /\ tl_at' = [tl_at EXCEPT ![w] = "idle"] /\ tl_done' = [tl_done EXCEPT ![w] = @ + 1]
        /\ tl_added' = [tl_added EXCEPT ![w] = 0]
    BY DEF Timelines!EndFlush, Timelines!EndOf, Timelines!Become, TimelineIInv, Mapped
  <1>2. /\ w # Serializer /\ tl_done[w] \in Nat /\ ~Timelines!HasNext(w)
        /\ tl_done[w] < Len(ChangeSets[w]) /\ Len(ChangeSets[w]) \in Nat
    BY <1>1, WorkerTypes, LengthTypes DEF InItsChangeSet
  <1>3. /\ \A a \in (Worker \cup {Serializer}) \ {w} : tl_at'[a] = tl_at[a]
        /\ \A u \in Worker \ {w} : tl_done'[u] = tl_done[u] /\ tl_added'[u] = tl_added[u]
        /\ tl_at'[w] = "idle" /\ tl_done'[w] = tl_done[w] + 1 /\ tl_added'[w] = 0
    BY <1>1 DEF TimelineTypeOK
  <1>4. TimelineTypeOK'
    <2>1. tl_at' \in [Worker \cup {Serializer} -> Activity \cup {"hierarchy", "end"}]
      BY <1>1 DEF TimelineTypeOK, Activity
    <2>2. tl_done[w] + 1 \in Nat /\ 0 \in Nat
      BY <1>2
    <2>3. tl_done' \in [Worker -> Nat] /\ tl_added' \in [Worker -> Nat]
      BY <1>1, <2>2 DEF TimelineTypeOK
    <2> QED
      BY <1>1, <2>1, <2>3 DEF TimelineTypeOK, Builder, Timelines!registryVars
  <1>5. /\ Builder' = Builder /\ tl_pending' = tl_pending /\ tl_builderOf' = tl_builderOf
        /\ DOMAIN tl_pending = Builder
    BY <1>1 DEF Builder, Timelines!registryVars, TimelineTypeOK
  <1>6. Mapped'
    <2>1. InItsChangeSet(w)'
      BY <1>2, <1>3 DEF InItsChangeSet, Activity
    <2>2. ~tl_hasErr' => AliasesSet(w)'
      BY <1>1, <1>3, <1>5, EndKeepsAliases
    <2> QED
      BY <1>1, <1>3, <1>5, <2>1, <2>2, OthersMapped
  <1>7. Added' = Added
    BY <1>1, <1>2, <1>3, EndKeepsAdded
  <1>8. \A i : Entry(i)' = Entry(i) /\ Timelines!PathOf(i)' = Timelines!PathOf(i)
    BY <1>5 DEF Entry, Timelines!PathOf
  <1>9. /\ \A c \in Builder : \A i \in tl_pending[c] :
              /\ i \in Added /\ tl_builderOf[Timelines!PathOf(i)] = c /\ c \in tl_ever
              /\ Entry(i) \notin tl_extracted \cup tl_flushed
        /\ \A x \in tl_extracted \cup tl_flushed : \E i \in Added : x = Entry(i) /\ x.id \in tl_ever
        /\ tl_extracted \cap tl_flushed = {} /\ tl_twice = {}
    BY DEF TimelineIInv, InOnePlace
  <1>10. /\ tl_flushed' \subseteq tl_extracted \cup tl_flushed /\ tl_twice' = {}
         /\ tl_ever' = tl_ever
         /\ ok => tl_flushed' = tl_extracted \cup tl_flushed
    BY <1>1, <1>9 DEF Timelines!registryVars
  <1>11. InOnePlace'
    BY <1>1, <1>5, <1>7, <1>8, <1>9, <1>10 DEF InOnePlace
  <1>12. NothingLost'
    <2> SUFFICES ASSUME ok, ~tl_hasErr, tl_result # "failed", NEW i \in Added
                 PROVE  InMemory(i)' \/ Entry(i) \in tl_extracted' \cup tl_flushed'
      BY <1>7, <1>8 DEF NothingLost
    <2>1. InMemory(i) \/ Entry(i) \in tl_extracted \cup tl_flushed
      BY DEF TimelineIInv, NothingLost
    <2> QED
      BY <1>5, <1>10, <2>1 DEF InMemory
  <1>13. Fresh' \subseteq Fresh
    <2>1. ASSUME NEW i \in Fresh' PROVE i \in Fresh
      <3>1. i \in Timelines!Announced'
        BY <2>1 DEF Fresh
      <3>2. PICK c \in Builder : i \in tl_pending[c]
        BY <1>5, <3>1, InAnnounced DEF AnnouncedAre
      <3>3. i.worker \in Worker
        BY <1>9, <3>2 DEF Added, Item
      <3>4. i.set <= tl_done[i.worker] \/ tl_at[i.worker] \in {"flush", "flushing"}
        <4>1. i.set <= tl_done'[i.worker] \/ tl_at'[i.worker] \in {"flush", "flushing"}
          BY <3>1, InAnnounced DEF AnnouncedAre
        <4> QED
          BY <1>1, <1>3, <3>3, <4>1
      <3>5. i \in Timelines!Announced
        BY <1>5, <3>2, <3>4, InAnnounced DEF AnnouncedAre
      <3> QED
        BY <1>1, <3>5 DEF Fresh
    <2> QED
      BY <2>1
  <1>14. Counted'
    BY <1>1, <1>3, <1>13, CountStays
  <1>15. /\ tl_at[Serializer] = "idle" /\ tl_at'[Serializer] = "idle"
         /\ tl_result = "none" /\ tl_result' = "none"
    BY <1>1, <1>2, <1>3, SerializerWaits
  <1>16. OneFlush'
    <2>1. tl_flushLock = w /\ \A a \in Worker \cup {Serializer} : tl_at[a] = "flushing" => a = w
      BY <1>1 DEF TimelineIInv, OneFlush
    <2>2. \A a \in Worker \cup {Serializer} : tl_at'[a] # "flushing" /\ a # None
      BY <1>3, <2>1, TimelineAssumption DEF TimelineAssumption
    <2> QED
      BY <1>1, <2>2 DEF OneFlush
  <1>17. SerializerLast'
    BY <1>15 DEF SerializerLast
  <1> QED
    BY <1>4, <1>6, <1>11, <1>12, <1>14, <1>16, <1>17 DEF TimelineIInv

\* The workers do not notice what the serializer does.
LEMMA SerializerMaps ==
  ASSUME TimelineIInv, \A w \in Worker : tl_at'[w] = tl_at[w],
         UNCHANGED <<tl_builderOf, tl_pending, tl_done, tl_added, tl_builder, tl_hasErr>>
  PROVE  Mapped' /\ Timelines!AllDone' = Timelines!AllDone
  <1>1. Builder' = Builder
    BY DEF Builder
  <1>2. ASSUME NEW w \in Worker PROVE InItsChangeSet(w)' /\ (~tl_hasErr' => AliasesSet(w)')
    <2>1. InItsChangeSet(w) /\ (~tl_hasErr => AliasesSet(w))
      BY DEF TimelineIInv, Mapped
    <2>2. /\ Timelines!ChangeSet(w)' = Timelines!ChangeSet(w)
          /\ Timelines!HasNext(w)' = Timelines!HasNext(w)
      BY DEF Timelines!ChangeSet, Timelines!HasNext
    <2>3. InItsChangeSet(w)'
      BY <1>1, <2>1, <2>2 DEF InItsChangeSet
    <2>4. ~tl_hasErr' => AliasesSet(w)'
      BY <2>1 DEF AliasesSet
    <2> QED
      BY <2>3, <2>4
  <1>3. Mapped'
    BY <1>2 DEF Mapped
  <1>4. Timelines!AllDone' = Timelines!AllDone
    BY DEF Timelines!AllDone
  <1> QED
    BY <1>3, <1>4

\* The serializer has written what was left, or it failed.
LEMMA SerializerEndsFlush ==
  ASSUME TimelineIInv, NEW ok \in BOOLEAN, Timelines!EndFlush(Serializer, ok),
         Timelines!Become(Serializer, IF ok THEN "hierarchy" ELSE "end"),
         tl_result' = (IF ok THEN tl_result ELSE "failed"),
         UNCHANGED <<tl_done, tl_added, tl_hasErr>>
  PROVE  TimelineIInv'
  <1>1. /\ tl_at[Serializer] = "flushing" /\ tl_toVisit \subseteq tl_visited /\ tl_flushLock' = None
        /\ tl_toVisit' = {} /\ tl_visited' = {} /\ tl_extracted' = {}
        /\ IF ok THEN /\ tl_flushed' = tl_flushed \cup tl_extracted
                      /\ tl_twice' = tl_twice \cup (tl_flushed \cap tl_extracted)
           ELSE UNCHANGED <<tl_flushed, tl_twice>>
        /\ UNCHANGED <<Timelines!registryVars, tl_pendingCount, tl_hierarchy, tl_builder>>
        /\ TimelineTypeOK
        /\ tl_at' = [tl_at EXCEPT ![Serializer] = IF ok THEN "hierarchy" ELSE "end"]
    BY DEF Timelines!EndFlush, Timelines!Become, TimelineIInv
  <1>2. /\ Serializer \notin Worker /\ \A w \in Worker : tl_at'[w] = tl_at[w]
        /\ tl_at'[Serializer] = IF ok THEN "hierarchy" ELSE "end"
    BY <1>1, TimelineAssumption DEF TimelineTypeOK, TimelineAssumption
  <1>3. TimelineTypeOK'
    <2>1. tl_at' \in [Worker \cup {Serializer} -> Activity \cup {"hierarchy", "end"}]
      BY <1>1 DEF TimelineTypeOK
    <2> QED
      BY <1>1, <2>1 DEF TimelineTypeOK, Builder, Timelines!registryVars
  <1>4. /\ Builder' = Builder /\ tl_pending' = tl_pending /\ tl_builderOf' = tl_builderOf
        /\ DOMAIN tl_pending = Builder /\ tl_ever' = tl_ever
    BY <1>1 DEF Builder, Timelines!registryVars, TimelineTypeOK
  <1>5. Mapped' /\ Timelines!AllDone' = Timelines!AllDone
    BY <1>1, <1>2, <1>4, SerializerMaps
  <1>6. Added' = Added /\ \A i : Entry(i)' = Entry(i) /\ Timelines!PathOf(i)' = Timelines!PathOf(i)
    BY <1>4 DEF Added, Entry, Timelines!PathOf
  <1>7. /\ \A c \in Builder : \A i \in tl_pending[c] :
              /\ i \in Added /\ tl_builderOf[Timelines!PathOf(i)] = c /\ c \in tl_ever
              /\ Entry(i) \notin tl_extracted \cup tl_flushed
        /\ \A x \in tl_extracted \cup tl_flushed : \E i \in Added : x = Entry(i) /\ x.id \in tl_ever
        /\ tl_extracted \cap tl_flushed = {} /\ tl_twice = {}
    BY DEF TimelineIInv, InOnePlace
  <1>8. /\ tl_flushed' \subseteq tl_extracted \cup tl_flushed /\ tl_twice' = {}
        /\ ok => tl_flushed' = tl_extracted \cup tl_flushed
    BY <1>1, <1>7
  <1>9. InOnePlace'
    BY <1>1, <1>4, <1>6, <1>7, <1>8 DEF InOnePlace
  <1>10. /\ Timelines!AllDone /\ ~tl_hasErr /\ tl_result = "none"
         /\ \A b \in Timelines!Builders : tl_pending[b] = {}
    BY <1>1 DEF TimelineIInv, SerializerLast, OneFlush
  <1>11. \A i \in Item : i \in Added
    <2> SUFFICES ASSUME NEW i \in Item PROVE i.set <= tl_done[i.worker]
      BY DEF Added
    <2> QED
      BY <1>10, ItemTypes, LengthTypes DEF Timelines!AllDone
  <1>12. \A i \in Item : Entry(i) \in tl_extracted \cup tl_flushed
    <2>1. ASSUME NEW i \in Item, InMemory(i) PROVE FALSE
      <3>1. PICK b \in Builder : i \in tl_pending[b]
        BY <2>1 DEF InMemory
      <3>2. tl_builderOf[Timelines!PathOf(i)] = b /\ b # 0 /\ Timelines!PathOf(i) \in Path
        BY <1>7, <3>1, ItemTypes DEF Builder
      <3> QED
        BY <1>10, <3>1, <3>2 DEF Timelines!Builders
    <2> QED
      BY <1>10, <1>11, <2>1 DEF TimelineIInv, NothingLost
  <1>13. NothingLost'
    BY <1>6, <1>8, <1>11, <1>12 DEF NothingLost, Added
  <1>14. Fresh' \subseteq Fresh
    <2>1. Timelines!Announced' = Timelines!Announced
      <3>1. UNCHANGED <<tl_pending, tl_done>>
        BY <1>4
      <3>2. \A i \in Timelines!Announced \cup Timelines!Announced' : i.worker \in Worker
        BY <1>4, <1>7, InAnnounced DEF AnnouncedAre, Added, Item
      <3>3. ASSUME NEW i PROVE i \in Timelines!Announced' <=> i \in Timelines!Announced
        BY <1>2, <3>1, <3>2, InAnnounced DEF AnnouncedAre
      <3> QED
        BY <3>3
    <2> QED
      BY <1>1, <2>1 DEF Fresh
  <1>15. Counted'
    BY <1>1, <1>2, <1>14, CountStays
  <1>16. OneFlush'
    <2>1. \A a \in Worker \cup {Serializer} : tl_at[a] = "flushing" => a = Serializer
      BY <1>1 DEF TimelineIInv, OneFlush
    <2>2. \A a \in Worker \cup {Serializer} : tl_at'[a] # "flushing" /\ a # None
      BY <1>2, <2>1, TimelineAssumption DEF TimelineAssumption
    <2> QED
      BY <1>1, <1>2, <2>2 DEF OneFlush
  <1>17. SerializerLast'
    <2>1. /\ tl_at'[Serializer] \in {"hierarchy", "end"} /\ tl_result' # "ok"
          /\ tl_result' # "none" => tl_at'[Serializer] = "end"
          /\ tl_at'[Serializer] = "hierarchy" => ok
      BY <1>2, <1>10
    <2> QED
      BY <1>5, <1>6, <1>8, <1>10, <1>12, <2>1 DEF SerializerLast
  <1> QED
    BY <1>3, <1>5, <1>9, <1>13, <1>15, <1>16, <1>17 DEF TimelineIInv

\* The other steps of the serializer write nothing of the items.
LEMMA SerializerStep ==
  ASSUME TimelineIInv, Timelines!BeginBuild \/ Timelines!WriteHierarchy PROVE TimelineIInv'
  <1>1. /\ Timelines!AllDone /\ ~tl_hasErr /\ TimelineTypeOK
        /\ UNCHANGED <<Timelines!registryVars, tl_pendingCount, tl_flushLock, tl_toVisit,
             tl_visited, tl_extracted,
                       tl_flushed, tl_twice, tl_done, tl_added, tl_builder, tl_hasErr>>
        /\ \/ /\ tl_at[Serializer] = "idle" /\ tl_at' = [tl_at EXCEPT ![Serializer] = "flush"]
              /\ tl_result = "none" /\ UNCHANGED <<tl_hierarchy, tl_result>>
           \/ /\ tl_at[Serializer] = "hierarchy" /\ tl_at' = [tl_at EXCEPT ![Serializer] = "end"]
              /\ \/ /\ tl_hierarchy'
                         = [p \in Path |->
                              IF tl_builderOf[p] \in tl_ever THEN tl_builderOf[p] ELSE 0]
                    /\ tl_result' = "ok"
                 \/ tl_result' = "failed" /\ tl_hierarchy' = tl_hierarchy
    BY DEF Timelines!BeginBuild, Timelines!WriteHierarchy, Timelines!Become, Timelines!flushVars,
           TimelineIInv, SerializerLast
  <1>2. /\ Serializer \notin Worker /\ \A w \in Worker : tl_at'[w] = tl_at[w]
        /\ \/ /\ tl_at[Serializer] = "idle" /\ tl_at'[Serializer] = "flush"
              /\ tl_result = "none" /\ tl_result' = "none"
           \/ /\ tl_at[Serializer] = "hierarchy" /\ tl_at'[Serializer] = "end"
              /\ tl_result' \in {"ok", "failed"}
    BY <1>1, TimelineAssumption DEF TimelineTypeOK, TimelineAssumption
  <1>3. /\ Builder' = Builder /\ UNCHANGED <<tl_pending, tl_builderOf, tl_ever>>
        /\ DOMAIN tl_pending = Builder
    BY <1>1 DEF Builder, Timelines!registryVars, TimelineTypeOK
  <1>4. TimelineTypeOK'
    <2>1. tl_at' \in [Worker \cup {Serializer} -> Activity \cup {"hierarchy", "end"}]
      BY <1>1 DEF TimelineTypeOK, Activity
    <2> QED
      BY <1>1, <1>2, <1>3, <2>1 DEF TimelineTypeOK
  <1>5. Mapped' /\ Timelines!AllDone' = Timelines!AllDone
    BY <1>1, <1>2, <1>3, SerializerMaps
  <1>6. Added' = Added /\ \A i : Entry(i)' = Entry(i) /\ Timelines!PathOf(i)' = Timelines!PathOf(i)
    BY <1>1, <1>3 DEF Added, Entry, Timelines!PathOf
  <1>7. InOnePlace'
    BY <1>1, <1>3, <1>6 DEF TimelineIInv, InOnePlace
  <1>8. NothingLost'
    <2>1. tl_result # "failed"
      BY <1>2 DEF TimelineIInv, SerializerLast
    <2> QED
      BY <1>1, <1>3, <1>6, <2>1 DEF TimelineIInv, NothingLost, InMemory
  <1>9. Fresh' \subseteq Fresh
    <2>1. ASSUME NEW i \in Timelines!Announced' PROVE i \in Timelines!Announced
      <3>1. PICK c \in Builder : i \in tl_pending[c]
        BY <1>3, <2>1, InAnnounced DEF AnnouncedAre
      <3>2. i.worker \in Worker
        BY <3>1 DEF TimelineIInv, InOnePlace, Added, Item
      <3>3. i.set <= tl_done'[i.worker] \/ tl_at'[i.worker] \in {"flush", "flushing"}
        BY <2>1, InAnnounced DEF AnnouncedAre
      <3>4. i.set <= tl_done[i.worker] \/ tl_at[i.worker] \in {"flush", "flushing"}
        BY <1>1, <1>2, <3>2, <3>3
      <3> QED
        BY <1>3, <3>1, <3>4, InAnnounced DEF AnnouncedAre
    <2> QED
      BY <1>1, <1>3, <1>6, <2>1 DEF Fresh
  <1>10. Counted'
    BY <1>1, <1>2, <1>9, CountStays
  <1>11. OneFlush'
    <2>1. \A a \in Worker \cup {Serializer} : tl_at'[a] = "flushing" <=> tl_at[a] = "flushing"
      BY <1>2
    <2>2. tl_at'[Serializer] # "flushing" /\ Timelines!Builders' = Timelines!Builders
      BY <1>2, <1>3 DEF Timelines!Builders
    <2> QED
      BY <1>1, <2>1, <2>2 DEF TimelineIInv, OneFlush
  <1>12. SerializerLast'
    <2>1. /\ tl_at'[Serializer] \in {"flush", "end"}
          /\ tl_result' # "none" => tl_at'[Serializer] = "end"
      BY <1>2
    <2>2. tl_at'[Serializer] = "hierarchy" \/ tl_result' = "ok"
            => \A i \in Item : Entry(i) \in tl_flushed
      BY <1>2 DEF TimelineIInv, SerializerLast
    <2>3. tl_result' = "ok" =>
            tl_hierarchy'
              = [p \in Path |-> IF tl_builderOf'[p] \in tl_ever' THEN tl_builderOf'[p] ELSE 0]
      <3>1. tl_ever' = tl_ever /\ tl_builderOf' = tl_builderOf
        BY <1>3
      <3>2. tl_result' = "ok" =>
              tl_hierarchy'
                = [p \in Path |-> IF tl_builderOf[p] \in tl_ever THEN tl_builderOf[p] ELSE 0]
        BY <1>1, <1>2
      <3> QED
        BY <3>1, <3>2
    <2>4. Timelines!AllDone' /\ ~tl_hasErr'
      BY <1>1, <1>5
    <2>5. \A i \in Item : Entry(i) \in tl_flushed => Entry(i)' \in tl_flushed'
      BY <1>1, <1>6
    <2> QED
      BY <2>1, <2>2, <2>3, <2>4, <2>5 DEF SerializerLast
  <1> QED
    BY <1>4, <1>5, <1>7, <1>8, <1>10, <1>11, <1>12 DEF TimelineIInv

LEMMA InitTimeline == Timelines!Init => TimelineIInv
  <1> SUFFICES ASSUME Timelines!Init PROVE TimelineIInv
    OBVIOUS
  <1> USE DEF Timelines!Init
  <1>0. Threshold \in Nat \ {0} /\ None \notin Worker \cup {Serializer}
    BY TimelineAssumption DEF TimelineAssumption
  <1>1. Builder = {} /\ Timelines!Announced = {} /\ Added = {}
    <2>1. Builder = {}
      BY DEF Builder
    <2>2. Timelines!Announced = {}
      BY InAnnounced DEF AnnouncedAre
    <2>3. Added = {}
      <3>1. \A i \in Item : i.worker \in Worker /\ i.set \in Nat \ {0} /\ i.item \in Nat \ {0}
        BY ItemTypes, LengthTypes DEF Item
      <3> QED
        BY <3>1 DEF Added
    <2> QED
      BY <2>1, <2>2, <2>3
  <1>2. TimelineTypeOK
    <2>1. tl_pending \in Seq(SUBSET Item) /\ tl_builderOf \in [Path -> {0} \cup Builder]
      OBVIOUS
    <2>2. tl_at \in [Worker \cup {Serializer} -> Activity \cup {"hierarchy", "end"}]
      BY DEF Activity
    <2>3. /\ tl_done \in [Worker -> Nat] /\ tl_added \in [Worker -> Nat]
          /\ tl_builder \in [Worker -> Nat]
      OBVIOUS
    <2> QED
      BY <2>1, <2>2, <2>3 DEF TimelineTypeOK
  <1>3. Mapped
    BY LengthTypes DEF Mapped, InItsChangeSet, AliasesSet, Activity
  <1>4. InOnePlace /\ NothingLost /\ OneFlush /\ SerializerLast
    BY <1>0, <1>1 DEF InOnePlace, NothingLost, OneFlush, SerializerLast
  <1>5. Counted
    <2>1. Fresh = {} /\ IsFiniteSet({}) /\ Cardinality({}) = 0
      BY <1>1, FS_EmptySet DEF Fresh
    <2> QED
      BY <1>0, <2>1 DEF Counted
  <1> QED
    BY <1>2, <1>3, <1>4, <1>5 DEF TimelineIInv

LEMMA NextTimeline == TimelineIInv /\ [Timelines!Next]_(Timelines!vars) => TimelineIInv'
  <1> SUFFICES ASSUME TimelineIInv, [Timelines!Next]_(Timelines!vars) PROVE TimelineIInv'
    OBVIOUS
  <1>1. ASSUME NEW w \in Worker, Timelines!Work(w) PROVE TimelineIInv'
    BY <1>1, BeginTimeline, LoadBuilderTimeline, StoreBuilderTimeline, SetAliasTimeline,
       AddItemTimeline, NotifyTimeline, GiveUpTimeline, BeginFlushTimeline, ExtractTimeline,
       WorkerEndsFlush DEF Timelines!Work, Timelines!WorkerFlushes
  <1>2. CASE Timelines!Build
    BY <1>2, BeginFlushTimeline, ExtractTimeline, SerializerEndsFlush, SerializerStep
       DEF Timelines!Build, Timelines!SerializerFlushes
  <1>3. CASE UNCHANGED Timelines!vars
    <2>1. /\ Added' = Added /\ Builder' = Builder /\ Timelines!Builders' = Timelines!Builders
          /\ Timelines!AllDone' = Timelines!AllDone
          /\ Timelines!Announced' = Timelines!Announced /\ TimelineTypeOK' = TimelineTypeOK
          /\ \A i : Entry(i)' = Entry(i) /\ Timelines!PathOf(i)' = Timelines!PathOf(i) /\
               (InMemory(i)' <=> InMemory(i))
      BY <1>3 DEF Timelines!vars, Added, Builder, Timelines!Builders, Timelines!AllDone,
         Timelines!Announced, TimelineTypeOK, Entry, Timelines!PathOf,
                  InMemory
    <2>2. /\ \A w \in Worker : tl_at'[w] = tl_at[w]
          /\ UNCHANGED <<tl_builderOf, tl_pending, tl_done, tl_added, tl_builder, tl_hasErr>>
      BY <1>3 DEF Timelines!vars
    <2>3. Mapped'
      BY <2>2, SerializerMaps
    <2>4. InOnePlace' /\ NothingLost'
      BY <1>3, <2>1 DEF Timelines!vars, TimelineIInv, InOnePlace, NothingLost
    <2>5. OneFlush' /\ SerializerLast'
      BY <1>3, <2>1 DEF Timelines!vars, TimelineIInv, OneFlush, SerializerLast
    <2>6. Fresh' = Fresh
      BY <1>3, <2>1 DEF Timelines!vars, Fresh
    <2>7. Counted'
      BY <1>3, <2>2, <2>6, CountStays DEF Timelines!vars
    <2> QED
      BY <2>1, <2>3, <2>4, <2>5, <2>7 DEF TimelineIInv
  <1> QED
    BY <1>1, <1>2, <1>3 DEF Timelines!Next

LEMMA TimelineCardinality == \A S : Timelines!Cardinality(S) = Cardinality(S)
  BY Zenon DEF Timelines!Cardinality, Cardinality

LEMMA TimelineIInvImplies == TimelineIInv => TimelinesSafe
  <1> SUFFICES ASSUME TimelineIInv PROVE TimelinesSafe
    OBVIOUS
  <1>1. /\ \A x \in tl_flushed : \E i \in Added : x = Entry(i) /\ x.id \in tl_ever
        /\ tl_twice = {} /\ Added \subseteq Item /\ TimelineTypeOK
    BY DEF TimelineIInv, InOnePlace, Added
  <1>2. ASSUME tl_result = "ok"
        PROVE  /\ \A i \in Item : Entry(i) \in tl_flushed /\
                    tl_hierarchy[Timelines!PathOf(i)] = tl_builderOf[Timelines!PathOf(i)]
               /\ Timelines!AllDone /\ ~tl_hasErr
               /\ \A p \in Path :
                    tl_hierarchy[p] = IF tl_builderOf[p] \in tl_ever THEN tl_builderOf[p] ELSE 0
    <2>1. /\ \A i \in Item : Entry(i) \in tl_flushed
          /\ Timelines!AllDone /\ ~tl_hasErr
          /\ \A p \in Path :
               tl_hierarchy[p] = IF tl_builderOf[p] \in tl_ever THEN tl_builderOf[p] ELSE 0
      BY <1>2 DEF TimelineIInv, SerializerLast
    <2>2. ASSUME NEW i \in Item PROVE tl_builderOf[Timelines!PathOf(i)] \in tl_ever
      <3>1. PICK j \in Added : Entry(i) = Entry(j) /\ Entry(i).id \in tl_ever
        BY <1>1, <2>1
      <3> QED
        BY <3>1 DEF Entry
    <2> QED
      BY <2>1, <2>2, ItemTypes
  <1>3. Timelines!EveryItemInItsTimeline
    <2> SUFFICES ASSUME tl_result = "ok"
                 PROVE  tl_flushed
                          = {[id |-> tl_hierarchy[Timelines!PathOf(i)], item |-> i] : i \in Item}
      BY <1>1, ItemsAreAll DEF Timelines!EveryItemInItsTimeline
    <2>1. \A i \in Item : Entry(i) = [id |-> tl_hierarchy[Timelines!PathOf(i)], item |-> i] /\
            Entry(i) \in tl_flushed
      BY <1>2 DEF Entry
    <2>2. \A x \in tl_flushed : \E i \in Item : x = Entry(i)
      BY <1>1
    <2> QED
      BY <2>1, <2>2
  <1>4. Timelines!AliasesShare
    <2> SUFFICES ASSUME tl_result = "ok", NEW w \in Worker, NEW i \in DOMAIN ChangeSets[w],
                        ChangeSets[w][i].alias # <<>>
                 PROVE  tl_hierarchy[ChangeSets[w][i].alias[1]]
                          = tl_hierarchy[ChangeSets[w][i].alias[2]]
      BY DEF Timelines!AliasesShare
    <2>1. ChangeSets[w][i].alias \in Path \X Path
      BY ChangeSetTypes
    <2>2. i <= tl_done[w]
      BY <1>2, LengthTypes DEF Timelines!AllDone
    <2>3. AliasesSet(w)
      BY <1>2 DEF TimelineIInv, Mapped
    <2>4. \/ ChangeSets[w][i].alias[1] = ChangeSets[w][i].alias[2]
          \/ tl_builderOf[ChangeSets[w][i].alias[1]] = tl_builderOf[ChangeSets[w][i].alias[2]]
      BY <2>2, <2>3 DEF AliasesSet
    <2> QED
      BY <1>2, <2>1, <2>4
  <1>5. Timelines!BacklogBounded
    <2> SUFFICES ASSUME \A u \in Worker \cup {Serializer} : tl_at[u] \notin {"flush", "flushing"}
                 PROVE  /\ Cardinality(Timelines!Announced) <= tl_pendingCount
                        /\ tl_pendingCount < Threshold
      BY TimelineCardinality DEF Timelines!BacklogBounded
    <2>1. tl_flushLock = None
      BY DEF TimelineIInv, OneFlush
    <2>2. Fresh = Timelines!Announced
      BY <2>1 DEF TimelineIInv, OneFlush, Fresh
    <2>3. ~(tl_pendingCount >= Threshold) /\ Cardinality(Fresh) <= tl_pendingCount
      BY DEF TimelineIInv, Counted
    <2> QED
      BY <1>1, <2>2, <2>3, TimelineAssumption DEF TimelineTypeOK, TimelineAssumption
  <1> QED
    BY <1>3, <1>4, <1>5 DEF TimelinesSafe, Timelines!TimelinesSafe

\* A timeline file that was completed has every item once, in the timeline of its path and
\* of its aliases, and the items kept in memory are bounded, for any number of mappers and
\* any change sets.
THEOREM TimelinesAreSafe == Timelines!Spec => []TimelinesSafe
  BY InitTimeline, NextTimeline, TimelineIInvImplies, PTL DEF Timelines!Spec

=============================================================================
