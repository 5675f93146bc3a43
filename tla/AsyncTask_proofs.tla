--------------------------- MODULE AsyncTask_proofs --------------------------
(***************************************************************************)
(* Proofs about AsyncTaskManager for any slots, inputs and number of       *)
(* workers.  What no late worker leaves a result behind rests on is that a *)
(* worker that was given up is cancelled for as long as it runs, although  *)
(* the goroutine looks at neither the slot's history nor its own.          *)
(***************************************************************************)
EXTENDS AsyncTask, TLAPS

LateAreCancelled == running \cap outdated \subseteq cancelled

IInv == AsyncTaskSafe /\ LateAreCancelled

\* What giving up the flights of the slots S comes to.
LEMMA GivingUp ==
  ASSUME NoFlight \notin Flight, IInv, NEW S \in SUBSET Slot
  PROVE  /\ Cancelled(S) \subseteq Flight /\ Outdated(S) \subseteq Flight
         /\ cancelled \subseteq Cancelled(S)
         /\ running \cap Outdated(S) \subseteq Cancelled(S)
         /\ \A f \in running : slotOf[f] \in S => f \in Cancelled(S)
         /\ \A s \in Slot \ S : inFlight[s] \notin Flying(S)
  <1>1. ASSUME NEW f \in running, slotOf[f] \in S PROVE f \in Cancelled(S)
    <2>1. f \in Flight /\ (inFlight[slotOf[f]] = f \/ f \in cancelled)
      BY DEF IInv, AsyncTaskSafe, TypeOK, GivenUpIsCancelled, Current
    <2> QED
      BY <1>1, <2>1 DEF Cancelled, Flying
  <1>2. ASSUME NEW s \in Slot \ S, inFlight[s] \in Flying(S) PROVE FALSE
    <2>1. PICK t \in S : inFlight[t] = inFlight[s] /\ inFlight[s] \in Flight
      BY <1>2 DEF Flying
    <2> QED
      BY <2>1 DEF IInv, AsyncTaskSafe, FlightsAreAlive
  <1>3. /\ Cancelled(S) \subseteq Flight /\ Outdated(S) \subseteq Flight
        /\ cancelled \subseteq Cancelled(S)
    BY DEF IInv, AsyncTaskSafe, TypeOK, Cancelled, Outdated, Flying
  <1>4. running \cap Outdated(S) \subseteq Cancelled(S)
    BY <1>1, <1>3 DEF IInv, LateAreCancelled, Outdated
  <1> QED
    BY <1>1, <1>2, <1>3, <1>4

LEMMA InitIInv == ASSUME NoFlight \notin Flight, Init PROVE IInv
  BY DEF Init, EmptyCache, IInv, AsyncTaskSafe, TypeOK, NothingOutdatedIsStored,
         GivenUpIsCancelled, FlightsAreAlive, LateAreCancelled

LEMMA DoAsyncOrGetIInv ==
  ASSUME NoFlight \notin Flight, IInv, NEW s \in Slot, NEW k \in Key, DoAsyncOrGet(s, k)
  PROVE  IInv'
  <1>1. PICK f \in Flight \ running :
          /\ inFlight' = [inFlight EXCEPT ![s] = f]
          /\ slotOf' = [slotOf EXCEPT ![f] = s]
          /\ keyOf' = [keyOf EXCEPT ![f] = k]
          /\ running' = running \cup {f}
          /\ cancelled' = Cancelled({s}) \ {f}
          /\ outdated' = Outdated({s}) \ {f}
    BY DEF DoAsyncOrGet
  <1>2. cache' = cache /\ tainted' = tainted /\ cache[s][k] = "absent"
    BY DEF DoAsyncOrGet, Known
  <1> USE GivingUp DEF IInv, AsyncTaskSafe, TypeOK
  <1>3. TypeOK'
    BY <1>1, <1>2
  <1>4. NothingOutdatedIsStored'
    BY <1>2 DEF NothingOutdatedIsStored
  <1>5. ASSUME NEW g \in running' PROVE Current(g)' \/ g \in cancelled'
    <2>1. CASE g = f
      BY <1>1, <2>1 DEF Current
    <2>2. CASE g # f /\ slotOf[g] = s
      BY <1>1, <1>5, <2>2
    <2>3. CASE g # f /\ slotOf[g] # s
      BY <1>1, <1>5, <2>3 DEF GivenUpIsCancelled, Current
    <2> QED
      BY <2>1, <2>2, <2>3
  <1>6. ASSUME NEW t \in Slot, inFlight'[t] # NoFlight
        PROVE  /\ inFlight'[t] \in running' \ cancelled'
               /\ slotOf'[inFlight'[t]] = t
               /\ cache'[t][keyOf'[inFlight'[t]]] = "absent"
    <2>1. CASE t = s
      BY <1>1, <1>2, <2>1
    <2>2. CASE t # s
      <3>1. /\ inFlight'[t] = inFlight[t] /\ inFlight[t] \in running \ cancelled
            /\ slotOf[inFlight[t]] = t /\ cache[t][keyOf[inFlight[t]]] = "absent"
        BY <1>1, <1>6, <2>2 DEF FlightsAreAlive
      <3>2. inFlight[t] # f /\ inFlight[t] \notin Flying({s})
        BY <1>1, <2>2, <3>1
      <3> QED
        BY <1>1, <1>2, <3>1, <3>2 DEF Cancelled
    <2> QED
      BY <2>1, <2>2
  <1>7. LateAreCancelled'
    BY <1>1 DEF LateAreCancelled
  <1> QED
    BY <1>3, <1>4, <1>5, <1>6, <1>7 DEF GivenUpIsCancelled, FlightsAreAlive

LEMMA FlightEndsIInv ==
  ASSUME NoFlight \notin Flight, IInv, NEW f \in Flight,
         NEW result \in {"completed", "failed"}, FlightEnds(f, result)
  PROVE  IInv'
  <1> DEFINE stores == Current(f) /\ f \notin cancelled
  <1> USE DEF IInv, AsyncTaskSafe, TypeOK
  <1>1. /\ f \in running /\ running' = running \ {f}
        /\ inFlight' = IF Current(f) THEN [inFlight EXCEPT ![slotOf[f]] = NoFlight] ELSE inFlight
        /\ cache' = IF stores THEN [cache EXCEPT ![slotOf[f]][keyOf[f]] = result] ELSE cache
        /\ slotOf' = slotOf /\ keyOf' = keyOf /\ cancelled' = cancelled /\ outdated' = outdated
    BY DEF FlightEnds
  <1>2. stores => f \notin outdated
    BY <1>1 DEF LateAreCancelled
  <1>3. tainted' = tainted
    BY <1>2 DEF FlightEnds
  <1>4. slotOf[f] \in Slot /\ keyOf[f] \in Key
    OBVIOUS
  <1>5. cache' \in [Slot -> [Key -> {"absent", "completed", "failed"}]]
    BY <1>1, <1>4
  <1>6. TypeOK'
    BY <1>1, <1>3, <1>4, <1>5
  <1>7. ASSUME NEW g \in running' PROVE Current(g)' \/ g \in cancelled'
    <2>1. g \in running /\ g # f /\ (Current(g) \/ g \in cancelled)
      BY <1>1 DEF GivenUpIsCancelled
    <2> QED
      BY <1>1, <1>4, <2>1 DEF Current
  <1>8. ASSUME NEW t \in Slot, inFlight'[t] # NoFlight
        PROVE  /\ inFlight'[t] \in running' \ cancelled'
               /\ slotOf'[inFlight'[t]] = t
               /\ cache'[t][keyOf'[inFlight'[t]]] = "absent"
    <2>1. inFlight'[t] = inFlight[t]
      BY <1>1, <1>4, <1>8
    <2>2. /\ inFlight[t] \in running \ cancelled /\ slotOf[inFlight[t]] = t
          /\ cache[t][keyOf[inFlight[t]]] = "absent"
      BY <1>8, <2>1 DEF FlightsAreAlive
    <2>3. inFlight[t] # f
      BY <1>1, <1>8, <2>1, <2>2 DEF Current
    <2>4. stores => t # slotOf[f]
      BY <2>2, <2>3 DEF Current
    <2>5. cache'[t] = cache[t]
      BY <1>1, <1>4, <2>4
    <2> QED
      BY <1>1, <2>1, <2>2, <2>3, <2>5
  <1>9. LateAreCancelled'
    BY <1>1 DEF LateAreCancelled
  <1> QED
    BY <1>3, <1>6, <1>7, <1>8, <1>9 DEF NothingOutdatedIsStored, GivenUpIsCancelled, FlightsAreAlive

\* Cancel, Reset and Close give up the flights of the slots S, and nothing else becomes
\* outdated; the cache may be emptied there.
LEMMA GiveUpIInv ==
  ASSUME NoFlight \notin Flight, IInv, NEW S \in SUBSET Slot, TypeOK',
         cancelled' = Cancelled(S), outdated' = Outdated(S),
         inFlight' = [s \in Slot |-> IF s \in S THEN NoFlight ELSE inFlight[s]],
         \A s \in Slot \ S : cache'[s] = cache[s],
         tainted' \subseteq tainted, UNCHANGED <<slotOf, keyOf, running>>
  PROVE  IInv'
  <1> USE GivingUp DEF IInv, AsyncTaskSafe, TypeOK
  <1>1. NothingOutdatedIsStored'
    BY DEF NothingOutdatedIsStored
  <1>2. GivenUpIsCancelled'
    BY DEF GivenUpIsCancelled, Current
  <1>3. FlightsAreAlive'
    BY DEF FlightsAreAlive, Cancelled
  <1>4. LateAreCancelled'
    BY DEF LateAreCancelled
  <1> QED
    BY <1>1, <1>2, <1>3, <1>4

LEMMA NextIInv == ASSUME NoFlight \notin Flight, IInv, [Next]_vars PROVE IInv'
  <1> USE DEF IInv, AsyncTaskSafe, TypeOK
  <1>1. ASSUME NEW s \in Slot, NEW k \in Key, DoAsyncOrGet(s, k) PROVE IInv'
    BY <1>1, DoAsyncOrGetIInv
  <1>2. ASSUME NEW f \in Flight, NEW result \in {"completed", "failed"}, FlightEnds(f, result)
        PROVE  IInv'
    BY <1>2, FlightEndsIInv
  <1>3. ASSUME NEW s \in Slot, Cancel(s) PROVE IInv'
    <2>1. TypeOK'
      BY <1>3, GivingUp DEF Cancel
    <2>2. inFlight' = [t \in Slot |-> IF t \in {s} THEN NoFlight ELSE inFlight[t]]
      BY <1>3 DEF Cancel
    <2>3. /\ cancelled' = Cancelled({s}) /\ outdated' = Outdated({s})
          /\ \A t \in Slot \ {s} : cache'[t] = cache[t]
          /\ tainted' \subseteq tainted /\ UNCHANGED <<slotOf, keyOf, running>>
      BY <1>3 DEF Cancel
    <2> HIDE DEF IInv, AsyncTaskSafe
    <2> QED
      BY <2>1, <2>2, <2>3, GiveUpIInv
  <1>4. ASSUME NEW s \in Slot, Reset(s) PROVE IInv'
    <2>1. TypeOK'
      BY <1>4, GivingUp DEF Reset, EmptyCache
    <2>2. inFlight' = [t \in Slot |-> IF t \in {s} THEN NoFlight ELSE inFlight[t]]
      BY <1>4 DEF Reset
    <2>3. /\ cancelled' = Cancelled({s}) /\ outdated' = Outdated({s})
          /\ \A t \in Slot \ {s} : cache'[t] = cache[t]
          /\ tainted' \subseteq tainted /\ UNCHANGED <<slotOf, keyOf, running>>
      BY <1>4 DEF Reset
    <2> HIDE DEF IInv, AsyncTaskSafe
    <2> QED
      BY <2>1, <2>2, <2>3, GiveUpIInv
  <1>5. CASE Close
    <2>1. TypeOK'
      BY <1>5, GivingUp DEF Close, EmptyCache
    <2> QED
      BY <1>5, <2>1, GiveUpIInv DEF Close
  <1>6. CASE UNCHANGED vars
    BY <1>6 DEF vars, NothingOutdatedIsStored, GivenUpIsCancelled, Current, FlightsAreAlive,
                LateAreCancelled
  <1> QED
    BY <1>1, <1>2, <1>3, <1>4, <1>5, <1>6 DEF Next

-----------------------------------------------------------------------------

\* However polls, resets, cancellations and late workers mix: no result of a flight that
\* was given up is memoised, every worker that still runs is the flight of its slot or
\* cancelled, and no slot waits for a cancelled one.
THEOREM NoLateResult == ASSUME NoFlight \notin Flight PROVE Spec => []AsyncTaskSafe
  <1>1. Init => IInv
    BY InitIInv
  <1>2. IInv /\ [Next]_vars => IInv'
    BY NextIInv
  <1>3. IInv => AsyncTaskSafe
    BY DEF IInv
  <1> QED
    BY <1>1, <1>2, <1>3, PTL DEF Spec

\* A result once given is given again until a reset: none is replaced by that of another
\* flight, since there is no flight for what is memoised.
THEOREM ResultsStay == ASSUME NoFlight \notin Flight PROVE Spec => ResultsAreStable
  <1> DEFINE Stable(s, k) ==
        cache[s][k] # "absent" => cache'[s][k] \in {cache[s][k], "absent"}
  <1>1. ASSUME IInv, Next, NEW s \in Slot, NEW k \in Key PROVE Stable(s, k)
    <2> USE DEF IInv, AsyncTaskSafe, TypeOK
    <2>1. CASE \E t \in Slot, l \in Key : DoAsyncOrGet(t, l)
      BY <1>1, <2>1 DEF DoAsyncOrGet
    <2>2. ASSUME NEW f \in Flight, NEW result \in {"completed", "failed"}, FlightEnds(f, result)
          PROVE  Stable(s, k)
      <3>1. Current(f) => cache[slotOf[f]][keyOf[f]] = "absent"
        BY <1>1, <2>2 DEF Current, FlightsAreAlive, FlightEnds
      <3>2. \/ cache' = cache
            \/ Current(f) /\ cache' = [cache EXCEPT ![slotOf[f]][keyOf[f]] = result]
        BY <2>2 DEF FlightEnds
      <3> QED
        BY <1>1, <3>1, <3>2
    <2>3. ASSUME NEW t \in Slot, Cancel(t) \/ Reset(t) PROVE Stable(s, k)
      <3>1. cache' = cache \/ cache' = [cache EXCEPT ![t] = EmptyCache]
        BY <2>3 DEF Cancel, Reset
      <3>2. EmptyCache[k] = "absent"
        BY <1>1 DEF EmptyCache
      <3> QED
        BY <1>1, <3>1, <3>2
    <2>4. CASE Close
      BY <1>1, <2>4 DEF Close, EmptyCache
    <2> QED
      BY <1>1, <2>1, <2>2, <2>3, <2>4 DEF Next
  <1>2. IInv /\ [Next]_vars => [\A s \in Slot, k \in Key : Stable(s, k)]_vars
    BY <1>1
  <1>3. Init => IInv
    BY InitIInv
  <1>4. IInv /\ [Next]_vars => IInv'
    BY NextIInv
  <1> QED
    BY <1>2, <1>3, <1>4, PTL DEF Spec, ResultsAreStable

=============================================================================
