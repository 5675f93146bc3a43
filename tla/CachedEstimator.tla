--------------------------- MODULE CachedEstimator --------------------------
(***************************************************************************)
(* CachedStructuredLogEstimator (pkg/api/googlecloud/logestimator), which  *)
(* the dry runs of an inspection poll (structured_listlogentries_task.go): *)
(* estimates shared by query, and cancelled when the task slot that asked  *)
(* for one moves on to another.  estimateWithTaskSlotInternal, the end of  *)
(* a flight and Close hold mu throughout, so each is one action.           *)
(*                                                                         *)
(* A key stands for container, query and time range; queries with a preset *)
(* and calls without a slot, which touch nothing else, are left out.       *)
(***************************************************************************)
EXTENDS Naturals

CONSTANTS
  Slot, Key,
  Failing,    \* the queries the Google Cloud APIs refuse
  Flight,     \* as many flights as may run at once
  NoFlight,
  MaxEdits    \* how often the form changes a query

VARIABLES
  cache,      \* the keys with a cached estimate
  flights,    \* flights[k], or NoFlight
  active,     \* activeTasks[s]: its cacheKey, and the flight it can cancel
  call,       \* call[f]: what f was started for, and whether its context is cancelled
  query,      \* query[s]: what the form asks for now
  waiting,    \* waiting[s]: the flight EstimateWithTaskSlot waits for
  answer,     \* answer[s]: what was last returned for that query
  edits, closed

formVars == <<query, edits>>
vars == <<cache, flights, active, call, waiting, answer, formVars, closed>>

Idle == [slot |-> "none", key |-> "none", cancelled |-> FALSE]
NoTask == [key |-> "none", flight |-> NoFlight]

TypeOK ==
  /\ cache \subseteq Key
  /\ flights \in [Key -> Flight \cup {NoFlight}]
  /\ active \in [Slot -> {NoTask} \cup [key : Key, flight : Flight \cup {NoFlight}]]
  /\ call \in [Flight -> {Idle} \cup [slot : Slot, key : Key, cancelled : BOOLEAN]]
  /\ query \in [Slot -> Key]
  /\ waiting \in [Slot -> Flight \cup {NoFlight}]
  /\ answer \in [Slot -> {"none", "pending", "estimate", "error"}]
  /\ edits \in 0 .. MaxEdits /\ closed \in BOOLEAN

Init ==
  /\ cache = {}
  /\ flights = [k \in Key |-> NoFlight]
  /\ active = [s \in Slot |-> NoTask]
  /\ call = [f \in Flight |-> Idle]
  /\ query \in [Slot -> Key]
  /\ waiting = [s \in Slot |-> NoFlight]
  /\ answer = [s \in Slot |-> "none"]
  /\ edits = 0 /\ closed = FALSE

Running == {f \in Flight : call[f] # Idle}
Live == {f \in Running : ~call[f].cancelled}

-----------------------------------------------------------------------------

EditQuery(s, k) ==
  /\ edits < MaxEdits /\ k # query[s]
  /\ query' = [query EXCEPT ![s] = k]
  /\ edits' = edits + 1
  /\ answer' = [answer EXCEPT ![s] = "none"]
  /\ UNCHANGED <<cache, flights, active, call, waiting, closed>>

\* The calls once the contexts of F are cancelled.
Cancel(F) == [f \in Flight |-> IF f \in F \cap Running THEN [call[f] EXCEPT !.cancelled = TRUE]
                               ELSE call[f]]

\* The flight of the previous query of s.
Outdated(s) == {f \in Flight : active[s].flight = f /\ active[s].key # query[s]}

Activate(s, f) == active' = [active EXCEPT ![s] = [key |-> query[s], flight |-> f]]

Cached(s) ==
  /\ query[s] \in cache
  /\ answer' = [answer EXCEPT ![s] = "estimate"]
  /\ UNCHANGED <<flights, active, call>>

Join(s) ==
  /\ query[s] \notin cache /\ flights[query[s]] # NoFlight
  /\ Activate(s, flights[query[s]])
  /\ call' = Cancel(Outdated(s))
  /\ UNCHANGED flights

\* Mutant of Start: what the slot did before is not looked at.
StartOnly(s) ==
  /\ query[s] \notin cache /\ flights[query[s]] = NoFlight
  /\ \E f \in Flight \ Running :
       /\ Activate(s, f)
       /\ flights' = [flights EXCEPT ![query[s]] = f]
       /\ call' = [call EXCEPT ![f] = [slot |-> s, key |-> query[s], cancelled |-> FALSE]]

Start(s) ==
  /\ query[s] \notin cache /\ flights[query[s]] = NoFlight
  /\ \E f \in Flight \ Running :
       /\ Activate(s, f)
       /\ flights' = [flights EXCEPT ![query[s]] = f]
       /\ call' = [Cancel(Outdated(s)) EXCEPT
                    ![f] = [slot |-> s, key |-> query[s], cancelled |-> FALSE]]

\* EstimateWithTaskSlotNonBlocking: the errors of a flight are not kept.
Poll(s) ==
  /\ \/ Cached(s)
     \/ (Join(s) \/ Start(s)) /\ answer' = [answer EXCEPT ![s] = "pending"]
  /\ UNCHANGED <<cache, waiting, formVars, closed>>

\* EstimateWithTaskSlot
Wait(s) ==
  /\ waiting[s] = NoFlight
  /\ Join(s) \/ Start(s)
  /\ waiting' = [waiting EXCEPT ![s] = active'[s].flight]
  /\ UNCHANGED <<cache, answer, formVars, closed>>

\* Whatever flight the maps now hold for the key and the slot of f; the entries of other
\* slots keep a cancel function that has no effect any more.
Forget(f) ==
  /\ flights' = [flights EXCEPT ![call[f].key] = NoFlight]
  /\ active' = [s \in Slot |->
       IF s = call[f].slot /\ active[s].key = call[f].key THEN NoTask
       ELSE IF active[s].flight = f THEN [active[s] EXCEPT !.flight = NoFlight] ELSE active[s]]

\* Mutant of FlightEnds: only an estimate takes the flight out of the maps.
EndsIfEstimated(f, estimated) ==
  /\ f \in Running
  /\ estimated => call[f].key \notin Failing
  /\ ~estimated => call[f].key \in Failing \/ call[f].cancelled
  /\ cache' = IF estimated THEN cache \cup {call[f].key} ELSE cache
  /\ IF estimated THEN Forget(f) ELSE UNCHANGED <<flights, active>>
  /\ answer' = [s \in Slot |-> IF waiting[s] # f \/ call[f].key # query[s] THEN answer[s]
                               ELSE IF estimated THEN "estimate" ELSE "error"]
  /\ waiting' = [s \in Slot |-> IF waiting[s] = f THEN NoFlight ELSE waiting[s]]
  /\ call' = [call EXCEPT ![f] = Idle]
  /\ UNCHANGED <<formVars, closed>>

\* A cancelled flight may still have got its answer.  Those who wait are given it.
FlightEnds(f, estimated) ==
  /\ f \in Running
  /\ estimated => call[f].key \notin Failing
  /\ ~estimated => call[f].key \in Failing \/ call[f].cancelled
  /\ cache' = IF estimated THEN cache \cup {call[f].key} ELSE cache
  /\ Forget(f)
  /\ answer' = [s \in Slot |-> IF waiting[s] # f \/ call[f].key # query[s] THEN answer[s]
                               ELSE IF estimated THEN "estimate" ELSE "error"]
  /\ waiting' = [s \in Slot |-> IF waiting[s] = f THEN NoFlight ELSE waiting[s]]
  /\ call' = [call EXCEPT ![f] = Idle]
  /\ UNCHANGED <<formVars, closed>>

\* When the inspection has run; a dry run may still be under way.
Close ==
  /\ ~closed /\ closed' = TRUE
  /\ call' = Cancel({f \in Flight : \/ \E s \in Slot : active[s].flight = f
                                   \/ \E k \in Key : flights[k] = f})
  /\ active' = [s \in Slot |-> NoTask]
  /\ flights' = [k \in Key |-> NoFlight]
  /\ cache' = {}
  /\ UNCHANGED <<waiting, answer, formVars>>

Ends(f) == \E estimated \in BOOLEAN : FlightEnds(f, estimated)

Next ==
  \/ \E s \in Slot : \/ \E k \in Key : EditQuery(s, k)
                     \/ Poll(s) \/ Wait(s)
  \/ \E f \in Flight : Ends(f)
  \/ Close

Spec == Init /\ [][Next]_vars

\* The page keeps polling, and the calls of the Google Cloud APIs return.
Fairness ==
  /\ \A s \in Slot : WF_vars(Poll(s))
  /\ \A f \in Flight : WF_vars(Ends(f))

FairSpec == Spec /\ Fairness

-----------------------------------------------------------------------------

\* However slots share flights, move between queries and come back: until Close there
\* is one live estimation of a query, the slot that started it has not moved on to
\* another that has to be estimated, and can cancel it.
LiveIsHeld ==
  ~closed => \A f \in Live : flights[call[f].key] = f
                              /\ active[call[f].slot] = [key |-> call[f].key, flight |-> f]

\* No estimation is under way for a query whose estimate is there, nor twice.
EstimatedOnce ==
  ~closed => \A f \in Running : call[f].key \notin cache /\ flights[call[f].key] = f

\* When the form no longer changes, and each query can be estimated, every slot ends up
\* with its estimate, also when its flight was cancelled under it.
SettledIsEstimated ==
  \A s \in Slot : <>[](answer[s] = "estimate") \/ []<>(query[s] \in Failing)

\* All of this at once; NoFlight is not one of Flight.
CachedEstimatorSafe == TypeOK /\ LiveIsHeld /\ EstimatedOnce

=============================================================================
