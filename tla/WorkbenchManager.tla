--------------------------- MODULE WorkbenchManager -------------------------
(***************************************************************************)
(* WorkbenchManager and its Sweeper (pkg/server/workbench/manager.go,      *)
(* sweeper.go): at most one loaded inspection per workbench ID, shared by  *)
(* concurrent openers, kept by a lease and evicted when the lease runs out *)
(* unless it is the only one.                                              *)
(*                                                                         *)
(* Each load makes a new Workbench, named after the call that leads it.    *)
(* Time is left out: a lease runs out at any moment, and any of those that *)
(* have may be the oldest.  Left out: progress, and Stop, which only tests *)
(* call.                                                                   *)
(***************************************************************************)
EXTENDS FiniteSets, Integers

CONSTANTS
  Id,          \* workbench IDs
  Inspection,
  Call,        \* as many calls of GetOrOpen as are ever made
  None

ASSUME NoneAssumption == None \notin Id \cup Call

VARIABLES
  workbenches,  \* workbenches[id]: the workbench of the ID, or None
  leases,       \* leases[id]: "none", "live" or "expired"
  pc,           \* pc[c]: where the call is
  idOf,         \* the workbench ID and the inspection of each call
  inspectionOf,
  flight,       \* flight[id]: the call that leads loadGroup.Do for the ID
  result,       \* result[c]: the workbench the call returns, None for an error
  loaded,       \* the workbenches that were made
  closed,       \* those that were closed
  closing,      \* those taken out of the map by Close or Remove, to be closed
  victim        \* what the sweeper found expired in its snapshot

callVars == <<pc, idOf, inspectionOf, flight, result>>
vars == <<workbenches, leases, callVars, loaded, closed, closing, victim>>

TypeOK ==
  /\ workbenches \in [Id -> Call \cup {None}]
  /\ leases \in [Id -> {"none", "live", "expired"}]
  /\ pc \in [Call -> {"idle", "called", "missed", "leading", "loading", "loaded", "ending", "joined", "done"}]
  /\ \A c \in Call : pc[c] # "idle" => idOf[c] \in Id /\ inspectionOf[c] \in Inspection
  /\ flight \in [Id -> Call \cup {None}]
  /\ result \in [Call -> Call \cup {None}]
  /\ loaded \subseteq Call /\ closed \subseteq Call /\ closing \subseteq Call
  /\ victim \in Id \cup {None}

Init ==
  /\ workbenches = [id \in Id |-> None]
  /\ leases = [id \in Id |-> "none"]
  /\ pc = [c \in Call |-> "idle"]
  /\ idOf = [c \in Call |-> None] /\ inspectionOf = [c \in Call |-> None]
  /\ flight = [id \in Id |-> None]
  /\ result = [c \in Call |-> None]
  /\ loaded = {} /\ closed = {} /\ closing = {}
  /\ victim = None

Open == {id \in Id : workbenches[id] # None}

\* A lease that ran out still counts as long as there is no other workbench.
Active(id) ==
  id \in Open /\ (leases[id] = "live" \/ Cardinality(Open) <= 1)

Closed(id) == workbenches[id] \in closed

Attachable(c) ==
  /\ ~Closed(idOf[c])
  /\ inspectionOf[workbenches[idOf[c]]] = inspectionOf[c]

Renew(id) == leases' = [leases EXCEPT ![id] = "live"]

Forget(id) ==
  /\ workbenches' = [workbenches EXCEPT ![id] = None]
  /\ leases' = [leases EXCEPT ![id] = "none"]

-----------------------------------------------------------------------------
(* GetOrOpen.                                                              *)

CallGetOrOpen(c) ==
  /\ pc[c] = "idle"
  /\ pc' = [pc EXCEPT ![c] = "called"]
  /\ \E id \in Id : idOf' = [idOf EXCEPT ![c] = id]
  /\ \E i \in Inspection : inspectionOf' = [inspectionOf EXCEPT ![c] = i]
  /\ UNCHANGED <<workbenches, leases, flight, result, loaded, closed, closing, victim>>

Attach(c) ==
  /\ pc[c] = "called"
  /\ Active(idOf[c]) /\ Attachable(c)
  /\ Renew(idOf[c])
  /\ result' = [result EXCEPT ![c] = workbenches[idOf[c]]]
  /\ pc' = [pc EXCEPT ![c] = "done"]
  /\ UNCHANGED <<workbenches, idOf, inspectionOf, flight, loaded, closed, closing, victim>>

\* What the ID still has, expired or of another inspection, is closed.
Miss(c) ==
  /\ pc[c] = "called"
  /\ ~(Active(idOf[c]) /\ Attachable(c))
  /\ pc' = [pc EXCEPT ![c] = "missed"]
  /\ \/ /\ idOf[c] \in Open /\ ~Closed(idOf[c])
        /\ closed' = closed \cup {workbenches[idOf[c]]}
        /\ Forget(idOf[c])
     \/ /\ idOf[c] \notin Open \/ Closed(idOf[c])
        /\ UNCHANGED <<workbenches, leases, closed>>
  /\ UNCHANGED <<idOf, inspectionOf, flight, result, loaded, closing, victim>>

\* loadGroup.Do: the first call leads, the others wait for its result.
Lead(c) ==
  /\ pc[c] = "missed" /\ flight[idOf[c]] = None
  /\ flight' = [flight EXCEPT ![idOf[c]] = c]
  /\ pc' = [pc EXCEPT ![c] = "leading"]
  /\ UNCHANGED <<workbenches, leases, idOf, inspectionOf, result, loaded, closed, closing, victim>>

Join(c) ==
  /\ pc[c] = "missed" /\ flight[idOf[c]] # None
  /\ pc' = [pc EXCEPT ![c] = "joined"]
  /\ UNCHANGED <<workbenches, leases, idOf, inspectionOf, flight, result, loaded, closed, closing, victim>>

\* The leader looks again; here an expired lease counts.
Recheck(c) ==
  /\ pc[c] = "leading"
  /\ LET id == idOf[c]
     IN \/ /\ id \in Open /\ Attachable(c)
           /\ Renew(id)
           /\ result' = [result EXCEPT ![c] = workbenches[id]]
           /\ pc' = [pc EXCEPT ![c] = "ending"]
        \/ /\ ~(id \in Open /\ Attachable(c))
           /\ pc' = [pc EXCEPT ![c] = "loading"]
           /\ UNCHANGED <<leases, result>>
  /\ UNCHANGED <<workbenches, idOf, inspectionOf, flight, loaded, closed, closing, victim>>

\* loadInspectionData and NewFromReader; either may fail, and so may a callback.
Load(c) ==
  /\ pc[c] = "loading"
  /\ \/ pc' = [pc EXCEPT ![c] = "loaded"] /\ loaded' = loaded \cup {c}
     \/ pc' = [pc EXCEPT ![c] = "ending"] /\ UNCHANGED loaded
  /\ UNCHANGED <<workbenches, leases, idOf, inspectionOf, flight, result, closed, closing, victim>>

\* Mutant of Insert: the workbench that was there is overwritten.
InsertOver(c) ==
  /\ pc[c] = "loaded"
  /\ workbenches' = [workbenches EXCEPT ![idOf[c]] = c]
  /\ Renew(idOf[c])
  /\ result' = [result EXCEPT ![c] = c]
  /\ pc' = [pc EXCEPT ![c] = "ending"]
  /\ UNCHANGED <<idOf, inspectionOf, flight, loaded, closed, closing, victim>>

\* The new workbench replaces what has come to the ID meanwhile.
Insert(c) ==
  /\ pc[c] = "loaded"
  /\ closed' = IF idOf[c] \in Open THEN closed \cup {workbenches[idOf[c]]} ELSE closed
  /\ workbenches' = [workbenches EXCEPT ![idOf[c]] = c]
  /\ Renew(idOf[c])
  /\ result' = [result EXCEPT ![c] = c]
  /\ pc' = [pc EXCEPT ![c] = "ending"]
  /\ UNCHANGED <<idOf, inspectionOf, flight, loaded, closing, victim>>

\* Do returns to all who called it with this ID meanwhile.
Share(c) ==
  /\ pc[c] = "ending"
  /\ flight' = [flight EXCEPT ![idOf[c]] = None]
  /\ LET sharing == {c} \cup {d \in Call : pc[d] = "joined" /\ idOf[d] = idOf[c]}
     IN /\ pc' = [d \in Call |-> IF d \in sharing THEN "done" ELSE pc[d]]
        /\ result' = [d \in Call |-> IF d \in sharing THEN result[c] ELSE result[d]]
  /\ UNCHANGED <<workbenches, leases, idOf, inspectionOf, loaded, closed, closing, victim>>

-----------------------------------------------------------------------------

\* Heartbeat, and GetAndTouch
Heartbeat(id) ==
  /\ Active(id) /\ ~Closed(id)
  /\ leases[id] # "live"
  /\ Renew(id)
  /\ UNCHANGED <<workbenches, callVars, loaded, closed, closing, victim>>

Expire(id) ==
  /\ leases[id] = "live"
  /\ leases' = [leases EXCEPT ![id] = "expired"]
  /\ UNCHANGED <<workbenches, callVars, loaded, closed, closing, victim>>

\* Close and Remove take the workbench out under mu, and close it after that.
Take(id) ==
  /\ Forget(id)
  /\ closing' = IF id \in Open THEN closing \cup {workbenches[id]} ELSE closing
  /\ UNCHANGED <<callVars, loaded, closed>>

Close(id) == id \in Open /\ Take(id) /\ UNCHANGED victim

WorkbenchClose(w) ==
  /\ w \in closing
  /\ closing' = closing \ {w}
  /\ closed' = closed \cup {w}
  /\ UNCHANGED <<workbenches, leases, callVars, loaded, victim>>

\* Mutant of Leases: a lease has to be the only one.
LeasesOfOne ==
  /\ victim = None
  /\ Cardinality({id \in Id : leases[id] # "none"}) = 1
  /\ victim' \in {id \in Id : leases[id] = "expired"}
  /\ UNCHANGED <<workbenches, leases, callVars, loaded, closed, closing>>

\* Sweep picks from a snapshot of the leases ...
Leases ==
  /\ victim = None
  /\ Cardinality({id \in Id : leases[id] # "none"}) > 1
  /\ victim' \in {id \in Id : leases[id] = "expired"}
  /\ UNCHANGED <<workbenches, leases, callVars, loaded, closed, closing>>

\* Mutant of Remove: what was picked is kept.
RemoveNothing ==
  victim # None /\ victim' = None /\ UNCHANGED <<workbenches, leases, callVars, loaded, closed, closing>>

\* ... and removes what it picked.
Remove == victim # None /\ victim' = None /\ Take(victim)

GetOrOpen(c) ==
  \/ Attach(c) \/ Miss(c) \/ Lead(c) \/ Join(c)
  \/ Recheck(c) \/ Load(c) \/ Insert(c) \/ Share(c)

Next ==
  \/ \E c \in Call : CallGetOrOpen(c) \/ GetOrOpen(c)
  \/ \E id \in Id : Heartbeat(id) \/ Expire(id) \/ Close(id)
  \/ \E w \in Call : WorkbenchClose(w)
  \/ Leases \/ Remove

Spec == Init /\ [][Next]_vars

\* A call that is made runs to its end, and the sweeper runs on.  Nobody has to
\* call, to renew a lease or to let it run out.
Fairness ==
  /\ \A c \in Call : WF_vars(GetOrOpen(c))
  /\ \A w \in Call : WF_vars(WorkbenchClose(w))
  /\ WF_vars(Leases) /\ WF_vars(Remove)

FairSpec == Spec /\ Fairness

-----------------------------------------------------------------------------

\* No workbench is lost: one that is not closed is in the map under its ID, or with
\* whoever is about to insert or to close it.  (Each holds a whole inspection.)
NoneIsLost ==
  \A w \in loaded \ closed :
    workbenches[idOf[w]] = w \/ pc[w] = "loaded" \/ w \in closing

\* What the map holds is open, was loaded for that ID, and has a lease; so
\* ErrWorkbenchClosed is never returned.
MapIsOpen ==
  \A id \in Id :
    /\ workbenches[id] # None <=> leases[id] # "none"
    /\ id \in Open => workbenches[id] \in loaded \ closed /\ idOf[workbenches[id]] = id

\* Openers return, those that wait for the load of another one included.
OpenersReturn ==
  \A c \in Call : (pc[c] # "idle") ~> (pc[c] = "done")

\* Whatever else is opened, closed or renewed: a workbench whose lease has run out
\* goes, unless it is used again or comes to be the only one.
ExpiredAreSwept ==
  \A id \in Id : []<>(leases[id] # "expired" \/ Cardinality(Open) <= 1)

\* All of this at once.
WorkbenchManagerSafe == TypeOK /\ NoneIsLost /\ MapIsOpen

=============================================================================
