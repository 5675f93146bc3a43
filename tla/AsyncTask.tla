------------------------------ MODULE AsyncTask -----------------------------
(***************************************************************************)
(* AsyncTaskManager (pkg/core/inspection/asynctask/manager.go): memoised   *)
(* background work, at most one flight per task slot.  Every method holds  *)
(* mu from its first to its last access, so each is one action; the        *)
(* goroutine of a flight takes mu once, when its worker has returned.      *)
(*                                                                         *)
(* A flight is the pointer the goroutine compares; a finished one may be   *)
(* allocated again.  Left out: the values, all but success and failure,    *)
(* and the answers of DoAsyncOrGet, which read the state off.              *)
(***************************************************************************)
EXTENDS FiniteSets

CONSTANTS
  Slot,      \* the slot keys
  Key,       \* the input keys
  Flight,    \* as many workers as may run at once
  NoFlight

VARIABLES
  cache,      \* cache[s][k]: what is memoised, "absent" if nothing
  inFlight,   \* inFlight[s]: the flight of the slot, or NoFlight
  slotOf,     \* the slot and the input each flight was started for
  keyOf,
  running,    \* the flights whose worker has not returned
  cancelled,  \* the flights whose context is cancelled
  outdated,   \* history: those that were given up since they started
  tainted     \* history: the entries stored by a flight that had been given up

vars == <<cache, inFlight, slotOf, keyOf, running, cancelled, outdated, tainted>>

TypeOK ==
  /\ cache \in [Slot -> [Key -> {"absent", "completed", "failed"}]]
  /\ inFlight \in [Slot -> Flight \cup {NoFlight}]
  /\ slotOf \in [Flight -> Slot]
  /\ keyOf \in [Flight -> Key]
  /\ running \subseteq Flight
  /\ cancelled \subseteq Flight
  /\ outdated \subseteq Flight
  /\ tainted \subseteq Slot \X Key

EmptyCache == [k \in Key |-> "absent"]

\* NewAsyncTaskManager; nothing reads slotOf and keyOf of a flight not started.
Init ==
  /\ cache = [s \in Slot |-> EmptyCache]
  /\ inFlight = [s \in Slot |-> NoFlight]
  /\ slotOf \in {g \in [Flight -> Slot] : \A f1, f2 \in Flight : g[f1] = g[f2]}
  /\ keyOf \in {g \in [Flight -> Key] : \A f1, f2 \in Flight : g[f1] = g[f2]}
  /\ running = {}
  /\ cancelled = {}
  /\ outdated = {}
  /\ tainted = {}

\* The flights of the slots S.
Flying(S) == {f \in Flight : \E s \in S : inFlight[s] = f}

\* The contexts that are done once the flights of the slots S are cancelled.
Cancelled(S) == cancelled \cup Flying(S)

\* Those whose result nobody asks for any more: all that still run for the slots S.
Outdated(S) == outdated \cup {f \in running : slotOf[f] \in S}

\* DoAsyncOrGet answers at once and changes nothing: the result is cached, or
\* the flight of the slot is for the same input.
Known(s, k) ==
  \/ cache[s][k] # "absent"
  \/ inFlight[s] # NoFlight /\ keyOf[inFlight[s]] = k

\* DoAsyncOrGet starts a worker; a flight for another input is cancelled.
DoAsyncOrGet(s, k) ==
  /\ ~Known(s, k)
  /\ \E f \in Flight \ running :
       /\ inFlight' = [inFlight EXCEPT ![s] = f]
       /\ slotOf' = [slotOf EXCEPT ![f] = s]
       /\ keyOf' = [keyOf EXCEPT ![f] = k]
       /\ running' = running \cup {f}
       /\ cancelled' = Cancelled({s}) \ {f}
       /\ outdated' = Outdated({s}) \ {f}
  /\ UNCHANGED <<cache, tainted>>

\* Mutant of Current: the flight is recognised by its input.
CurrentInput(f) ==
  /\ inFlight[slotOf[f]] # NoFlight
  /\ keyOf[inFlight[slotOf[f]]] = keyOf[f]

\* current == flight
Current(f) == inFlight[slotOf[f]] = f

\* The worker of f has returned, and its goroutine takes mu; a result is stored
\* unless the flight was given up.
FlightEnds(f, result) ==
  /\ f \in running
  /\ running' = running \ {f}
  /\ LET stores == Current(f) /\ f \notin cancelled
     IN /\ inFlight' = IF Current(f) THEN [inFlight EXCEPT ![slotOf[f]] = NoFlight] ELSE inFlight
        /\ cache' = IF stores THEN [cache EXCEPT ![slotOf[f]][keyOf[f]] = result] ELSE cache
        /\ tainted' = IF stores /\ f \in outdated THEN tainted \cup {<<slotOf[f], keyOf[f]>>}
                                                  ELSE tainted
  /\ UNCHANGED <<slotOf, keyOf, cancelled, outdated>>

Cancel(s) ==
  /\ inFlight[s] # NoFlight
  /\ cancelled' = Cancelled({s})
  /\ outdated' = Outdated({s})
  /\ inFlight' = [inFlight EXCEPT ![s] = NoFlight]
  /\ UNCHANGED <<cache, slotOf, keyOf, running, tainted>>

Reset(s) ==
  /\ cancelled' = Cancelled({s})
  /\ outdated' = Outdated({s})
  /\ inFlight' = [inFlight EXCEPT ![s] = NoFlight]
  /\ cache' = [cache EXCEPT ![s] = EmptyCache]
  /\ tainted' = tainted \ ({s} \X Key)
  /\ UNCHANGED <<slotOf, keyOf, running>>

Close ==
  /\ cancelled' = Cancelled(Slot)
  /\ outdated' = Outdated(Slot)
  /\ inFlight' = [s \in Slot |-> NoFlight]
  /\ cache' = [s \in Slot |-> EmptyCache]
  /\ tainted' = {}
  /\ UNCHANGED <<slotOf, keyOf, running>>

Next ==
  \/ \E s \in Slot, k \in Key : DoAsyncOrGet(s, k)
  \/ \E f \in Flight, result \in {"completed", "failed"} : FlightEnds(f, result)
  \/ \E s \in Slot : Cancel(s) \/ Reset(s)
  \/ Close

Spec == Init /\ [][Next]_vars

-----------------------------------------------------------------------------

\* What is memoised was computed by a flight that nobody had given up: after a
\* reset, a cancellation or a change of the input, a worker that finishes late
\* never leaves its result behind.
NothingOutdatedIsStored == tainted = {}

\* Whoever is given up learns it: every worker that still runs is either the
\* flight of its slot or cancelled, so at most one of a slot works on.
GivenUpIsCancelled ==
  \A f \in running : Current(f) \/ f \in cancelled

\* The flight of a slot is never a cancelled one: polls do not wait for a result
\* that will not come, and the check of the context in the goroutine never bites.
FlightsAreAlive ==
  \A s \in Slot : inFlight[s] # NoFlight =>
    /\ inFlight[s] \in running \ cancelled
    /\ slotOf[inFlight[s]] = s
    /\ cache[s][keyOf[inFlight[s]]] = "absent"

\* A result once given is given again until a reset: no step replaces one.
ResultsAreStable ==
  [][\A s \in Slot, k \in Key :
       cache[s][k] # "absent" => cache'[s][k] \in {cache[s][k], "absent"}]_vars

\* All of this at once; NoFlight is not one of Flight.
AsyncTaskSafe == TypeOK /\ NothingOutdatedIsStored /\ GivenUpIsCancelled /\ FlightsAreAlive

=============================================================================
