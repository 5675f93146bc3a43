--------------------------- MODULE Server_proofs ---------------------------
(***************************************************************************)
(* Proofs about what a server keeps for its clients, for any sets and      *)
(* numbers of them: the workbenches, the loading of one, the index of an   *)
(* inspection, the estimates, the jobs, the login and the search of a log. *)
(* Each has an invariant of its own that the steps of that component       *)
(* preserve.                                                               *)
(***************************************************************************)
EXTENDS Server, FiniteSetTheorems, SequenceTheorems, WellFoundedInduction, TLAPS

-----------------------------------------------------------------------------
(* Workbenches.  One has exactly one owner from its load to its close: the *)
(* call that is about to insert it, the map, or whoever took it out of the *)
(* map; WhereItIs says so.                                                 *)

\* What the history of a workbench says about where it can be.
WhereItIs ==
  /\ idOf \in [Call -> Id \cup {None}]
  /\ inspectionOf \in [Call -> Inspection \cup {None}]
  /\ \A w \in loaded : pc[w] \in {"loaded", "ending", "done"}
  /\ closed \cup closing \subseteq loaded
  /\ \A c \in Call : pc[c] = "loaded" =>
       c \in loaded \ (closed \cup closing) /\ \A id \in Id : workbenches[id] # c
  /\ \A id \in Id : workbenches[id] \notin closing

ManagerIInv == WorkbenchManagerSafe /\ WhereItIs

USE NoneAssumption

LEMMA InitManagerIInv == ASSUME Init PROVE ManagerIInv
  BY DEF Init, ManagerIInv, WorkbenchManagerSafe, TypeOK, NoneIsLost, MapIsOpen, WhereItIs, Open

\* Calls that touch neither the map nor the workbenches: only pc, idOf, flight and result
\* change, and no call comes to or leaves the state in which it holds a workbench.
LEMMA CallStep ==
  ASSUME ManagerIInv, TypeOK', idOf' \in [Call -> Id \cup {None}],
         inspectionOf' \in [Call -> Inspection \cup {None}],
         UNCHANGED <<workbenches, leases, loaded, closed, closing>>,
         \A w \in loaded : idOf'[w] = idOf[w],
         \A c \in Call : pc[c] = "loaded" <=> pc'[c] = "loaded",
         \A w \in loaded : pc'[w] \in {"loaded", "ending", "done"}
  PROVE  ManagerIInv'
  <1> USE DEF ManagerIInv, WorkbenchManagerSafe, TypeOK, WhereItIs
  <1>1. NoneIsLost'
    BY DEF NoneIsLost
  <1>2. MapIsOpen'
    BY DEF MapIsOpen, Open
  <1>3. WhereItIs'
    OBVIOUS
  <1> QED
    BY <1>1, <1>2, <1>3

\* A lease that is renewed, or runs out, where there is one.
LEMMA LeaseStep ==
  ASSUME ManagerIInv, NEW id \in Open, NEW l \in {"live", "expired"},
         leases' = [leases EXCEPT ![id] = l],
         UNCHANGED <<workbenches, callVars, loaded, closed, closing, victim>>
  PROVE  ManagerIInv'
  <1> USE DEF ManagerIInv, WorkbenchManagerSafe, TypeOK, WhereItIs, callVars
  <1>1. id \in Id
    BY DEF Open
  <1>2. TypeOK'
    BY <1>1
  <1>3. NoneIsLost'
    BY DEF NoneIsLost
  <1>4. MapIsOpen'
    BY <1>1, NoneAssumption DEF MapIsOpen, Open
  <1>5. WhereItIs'
    OBVIOUS
  <1> QED
    BY <1>2, <1>3, <1>4, <1>5

\* A workbench taken out of the map is closed, or will be by whoever took it.
LEMMA ForgetStep ==
  ASSUME ManagerIInv, NEW id \in Id, Forget(id), TypeOK',
         UNCHANGED <<idOf, inspectionOf, loaded>>,
         \A c \in Call : pc[c] \in {"loaded", "ending", "done"} => pc'[c] = pc[c],
         \A c \in Call : pc'[c] = "loaded" => pc[c] = "loaded",
         closed' \cup closing' =
           IF id \in Open THEN closed \cup closing \cup {workbenches[id]} ELSE closed \cup closing,
         closed \subseteq closed', closing \subseteq closing'
  PROVE  ManagerIInv'
  <1> USE DEF ManagerIInv, WorkbenchManagerSafe, TypeOK, WhereItIs
  <1>1. /\ workbenches' = [workbenches EXCEPT ![id] = None]
        /\ leases' = [leases EXCEPT ![id] = "none"]
    BY DEF Forget
  <1>2. id \in Open
          => workbenches[id] \in loaded \ (closed \cup closing) /\ idOf[workbenches[id]] = id
    BY DEF MapIsOpen, Open
  <1>3. ASSUME NEW w \in loaded' \ closed'
        PROVE  workbenches'[idOf'[w]] = w \/ pc'[w] = "loaded" \/ w \in closing'
    <2>1. w \in loaded \ closed /\ w \in Call
      BY <1>3
    <2>2. workbenches[idOf[w]] = w \/ pc[w] = "loaded" \/ w \in closing
      BY <2>1 DEF NoneIsLost
    <2>3. CASE workbenches[idOf[w]] = w /\ idOf[w] = id
      <3>1. id \in Open
        BY <2>1, <2>3 DEF Open
      <3> QED
        BY <1>3, <2>3, <3>1
    <2>4. CASE workbenches[idOf[w]] = w /\ idOf[w] # id
      <3>1. idOf[w] \in Id
        BY <2>1
      <3> QED
        BY <1>1, <2>4, <3>1
    <2>5. CASE pc[w] = "loaded" \/ w \in closing
      BY <2>1, <2>5
    <2> QED
      BY <2>2, <2>3, <2>4, <2>5
  <1>4. ASSUME NEW i \in Id
        PROVE  /\ workbenches'[i] # None <=> leases'[i] # "none"
               /\ i \in Open' => /\ workbenches'[i] \in loaded' \ (closed' \cup closing')
                                 /\ idOf'[workbenches'[i]] = i
    <2>1. CASE i = id
      BY <1>1, <2>1 DEF Open
    <2>2. CASE i # id
      <3>1. workbenches'[i] = workbenches[i] /\ leases'[i] = leases[i]
        BY <1>1, <2>2
      <3>2. /\ workbenches[i] # None <=> leases[i] # "none"
            /\ i \in Open => /\ workbenches[i] \in loaded \ (closed \cup closing)
                             /\ idOf[workbenches[i]] = i
        BY DEF MapIsOpen
      <3>3. i \in Open /\ id \in Open => workbenches[i] # workbenches[id]
        BY <1>2, <2>2, <3>2
      <3> QED
        BY <3>1, <3>2, <3>3 DEF Open
    <2> QED
      BY <2>1, <2>2
  <1>5. \A i \in Id : workbenches'[i] \notin closing'
    <2>1. None \notin closing'
      BY NoneAssumption
    <2> QED
      BY <1>4, <2>1 DEF Open
  <1>6. ASSUME NEW c \in Call, pc'[c] = "loaded"
        PROVE  /\ c \in loaded' \ (closed' \cup closing')
               /\ \A i \in Id : workbenches'[i] # c
    <2>1. /\ pc[c] = "loaded" /\ c \in loaded \ (closed \cup closing)
          /\ \A i \in Id : workbenches[i] # c
      BY <1>6
    <2> QED
      BY <1>1, <2>1, NoneAssumption
  <1>7. closed' \cup closing' \subseteq loaded'
    BY <1>2
  <1>8. \A w \in loaded' : pc'[w] \in {"loaded", "ending", "done"}
    OBVIOUS
  <1>9. WhereItIs'
    BY <1>5, <1>6, <1>7, <1>8
  <1> QED
    BY <1>3, <1>4, <1>9 DEF NoneIsLost, MapIsOpen

\* The new workbench is nowhere else, and the one it replaces is closed at once.
LEMMA InsertIInv == ASSUME ManagerIInv, NEW c \in Call, Insert(c) PROVE ManagerIInv'
  <1> USE DEF ManagerIInv, WorkbenchManagerSafe, TypeOK, WhereItIs
  <1> DEFINE id == idOf[c]
  <1>1. /\ pc[c] = "loaded" /\ id \in Id
        /\ workbenches' = [workbenches EXCEPT ![id] = c]
        /\ leases' = [leases EXCEPT ![id] = "live"]
        /\ closed' = IF id \in Open THEN closed \cup {workbenches[id]} ELSE closed
        /\ pc' = [pc EXCEPT ![c] = "ending"]
        /\ UNCHANGED <<idOf, inspectionOf, flight, loaded, closing, victim>>
    BY DEF Insert, Renew
  <1>2. /\ c \in loaded \ (closed \cup closing) /\ c # None
        /\ \A i \in Id : workbenches[i] # c
    BY <1>1, NoneAssumption
  <1>3. id \in Open
          => workbenches[id] \in loaded \ (closed \cup closing) /\ idOf[workbenches[id]] = id
    BY DEF MapIsOpen, Open
  <1>4. TypeOK'
    <2>1. result' \in [Call -> Call \cup {None}]
      BY DEF Insert
    <2>2. closed' \subseteq Call
      BY <1>1, <1>3
    <2> QED
      BY <1>1, <2>1, <2>2
  <1>5. ASSUME NEW w \in loaded' \ closed'
        PROVE  workbenches'[idOf'[w]] = w \/ pc'[w] = "loaded" \/ w \in closing'
    <2>1. w \in loaded \ closed /\ w \in Call
      BY <1>1, <1>5
    <2>2. workbenches[idOf[w]] = w \/ pc[w] = "loaded" \/ w \in closing
      BY <2>1 DEF NoneIsLost
    <2>3. CASE w = c
      BY <1>1, <2>3
    <2>4. CASE w # c /\ idOf[w] = id /\ workbenches[id] = w
      BY <1>1, <1>5, <2>1, <2>4, NoneAssumption DEF Open
    <2>5. CASE w # c /\ ~(idOf[w] = id /\ workbenches[id] = w)
      <3>1. idOf[w] \in Id
        BY <2>1
      <3> QED
        BY <1>1, <2>1, <2>2, <2>5, <3>1
    <2> QED
      BY <2>3, <2>4, <2>5
  <1>6. ASSUME NEW i \in Id
        PROVE  /\ workbenches'[i] # None <=> leases'[i] # "none"
               /\ i \in Open' => /\ workbenches'[i] \in loaded' \ (closed' \cup closing')
                                 /\ idOf'[workbenches'[i]] = i
    <2>1. CASE i = id
      BY <1>1, <1>2, <2>1 DEF Open
    <2>2. CASE i # id
      <3>1. /\ workbenches[i] # None <=> leases[i] # "none"
            /\ i \in Open => /\ workbenches[i] \in loaded \ (closed \cup closing)
                             /\ idOf[workbenches[i]] = i
        BY DEF MapIsOpen
      <3>2. i \in Open /\ id \in Open => workbenches[i] # workbenches[id]
        BY <1>3, <2>2, <3>1
      <3> QED
        BY <1>1, <2>2, <3>1, <3>2 DEF Open
    <2> QED
      BY <2>1, <2>2
  <1>7. ASSUME NEW d \in Call, pc'[d] = "loaded"
        PROVE  d \in loaded' \ (closed' \cup closing') /\ \A i \in Id : workbenches'[i] # d
    <2>1. d # c /\ pc[d] = "loaded"
      BY <1>1, <1>7
    <2> QED
      BY <1>1, <2>1
  <1>8. \A i \in Id : workbenches'[i] \notin closing'
    BY <1>1, <1>2
  <1>9. closed' \cup closing' \subseteq loaded'
    BY <1>1, <1>3
  <1>10. \A w \in loaded' : pc'[w] \in {"loaded", "ending", "done"}
    BY <1>1
  <1>11. WhereItIs'
    BY <1>1, <1>7, <1>8, <1>9, <1>10
  <1> QED
    BY <1>4, <1>5, <1>6, <1>11 DEF NoneIsLost, MapIsOpen

LEMMA LoadWorkbenchIInv == ASSUME ManagerIInv, NEW c \in Call, Load(c) PROVE ManagerIInv'
  <1> USE DEF ManagerIInv, WorkbenchManagerSafe, TypeOK, WhereItIs
  <1>1. /\ pc[c] = "loading" /\ c \notin loaded
        /\ UNCHANGED <<workbenches, leases, idOf, inspectionOf, flight, result, closed, closing,
                       victim>>
    BY DEF Load
  <1>2. CASE pc' = [pc EXCEPT ![c] = "loaded"] /\ loaded' = loaded \cup {c}
    <2>1. \A id \in Id : workbenches[id] # c
      BY <1>1, NoneAssumption DEF MapIsOpen, Open
    <2>2. TypeOK' /\ WhereItIs'
      BY <1>1, <1>2, <2>1
    <2>3. NoneIsLost'
      BY <1>1, <1>2 DEF NoneIsLost
    <2>4. MapIsOpen'
      BY <1>1, <1>2 DEF MapIsOpen, Open
    <2> QED
      BY <2>2, <2>3, <2>4
  <1>3. CASE pc' = [pc EXCEPT ![c] = "ending"] /\ UNCHANGED loaded
    <2>1. TypeOK'
      BY <1>1, <1>3
    <2> HIDE DEF TypeOK
    <2> QED
      BY <1>1, <1>3, <2>1, CallStep DEF TypeOK
  <1> QED
    BY <1>2, <1>3 DEF Load

LEMMA WorkbenchCloseIInv == ASSUME ManagerIInv, NEW w \in Call, WorkbenchClose(w) PROVE ManagerIInv'
  <1> USE DEF ManagerIInv, WorkbenchManagerSafe, TypeOK, WhereItIs
  <1>1. /\ w \in closing /\ closing' = closing \ {w} /\ closed' = closed \cup {w}
        /\ UNCHANGED <<workbenches, leases, callVars, loaded, victim>>
    BY DEF WorkbenchClose
  <1>2. TypeOK' /\ WhereItIs'
    BY <1>1 DEF callVars
  <1>3. NoneIsLost'
    BY <1>1 DEF NoneIsLost, callVars
  <1>4. MapIsOpen'
    BY <1>1 DEF MapIsOpen, Open, callVars
  <1> QED
    BY <1>2, <1>3, <1>4

LEMMA TakeIInv == ASSUME ManagerIInv, NEW id \in Id, Take(id), victim' \in Id \cup {None}
                  PROVE ManagerIInv'
  <1>1. TypeOK'
    BY DEF ManagerIInv, WorkbenchManagerSafe, TypeOK, Take, Forget, callVars, Open
  <1>2. /\ Forget(id) /\ UNCHANGED <<pc, idOf, inspectionOf, loaded, closed>>
        /\ closing' = IF id \in Open THEN closing \cup {workbenches[id]} ELSE closing
    BY DEF Take, callVars
  <1> QED
    BY <1>1, <1>2, ForgetStep

LEMMA MissIInv == ASSUME ManagerIInv, NEW c \in Call, Miss(c) PROVE ManagerIInv'
  <1> USE DEF ManagerIInv, WorkbenchManagerSafe, TypeOK, WhereItIs
  <1>1. /\ pc[c] = "called" /\ pc' = [pc EXCEPT ![c] = "missed"] /\ idOf[c] \in Id
        /\ UNCHANGED <<idOf, inspectionOf, flight, result, loaded, closing, victim>>
    BY DEF Miss
  <1>2. CASE /\ idOf[c] \in Open /\ closed' = closed \cup {workbenches[idOf[c]]}
             /\ Forget(idOf[c])
    <2>1. TypeOK'
      BY <1>1, <1>2 DEF Forget, Open
    <2> HIDE DEF ManagerIInv, WorkbenchManagerSafe, WhereItIs
    <2> QED
      BY <1>1, <1>2, <2>1, ForgetStep
  <1>3. CASE UNCHANGED <<workbenches, leases, closed>>
    <2>1. TypeOK'
      BY <1>1, <1>3
    <2> QED
      BY <1>1, <1>3, <2>1, CallStep
  <1> QED
    BY <1>2, <1>3 DEF Miss

\* What else a call does.
LEMMA GetOrOpenIInv ==
  ASSUME ManagerIInv, NEW c \in Call,
         Attach(c) \/ Lead(c) \/ Join(c) \/ Recheck(c) \/ Share(c)
  PROVE  ManagerIInv'
  <1> USE DEF ManagerIInv, WorkbenchManagerSafe, TypeOK, WhereItIs
  <1>1. CASE Attach(c)
    <2>1. idOf[c] \in Id
      BY <1>1 DEF Attach, Active, Open
    <2>2. TypeOK'
      BY <1>1, <2>1 DEF Attach, Renew
    <2>3. NoneIsLost' /\ WhereItIs'
      BY <1>1 DEF Attach, NoneIsLost
    <2>4. MapIsOpen'
      BY <1>1, <2>1 DEF Attach, Active, Renew, MapIsOpen, Open
    <2> QED
      BY <2>2, <2>3, <2>4
  <1>2. CASE Lead(c)
    <2>1. TypeOK'
      BY <1>2 DEF Lead
    <2> QED
      BY <1>2, <2>1, CallStep DEF Lead
  <1>3. CASE Join(c)
    <2>1. TypeOK'
      BY <1>3 DEF Join
    <2> QED
      BY <1>3, <2>1, CallStep DEF Join
  <1>4. CASE Recheck(c)
    <2>1. idOf[c] \in Id /\ pc[c] = "leading" /\ c \notin loaded
      BY <1>4 DEF Recheck
    <2>2. TypeOK'
      BY <1>4, <2>1 DEF Recheck, Renew
    <2>3. NoneIsLost' /\ WhereItIs'
      BY <1>4, <2>1 DEF Recheck, NoneIsLost
    <2>4. MapIsOpen'
      BY <1>4, <2>1 DEF Recheck, Renew, MapIsOpen, Open
    <2> QED
      BY <2>2, <2>3, <2>4
  <1>5. CASE Share(c)
    <2>1. TypeOK'
      BY <1>5 DEF Share
    <2> QED
      BY <1>5, <2>1, CallStep DEF Share
  <1> QED
    BY <1>1, <1>2, <1>3, <1>4, <1>5

LEMMA NextManagerIInv == ASSUME ManagerIInv, [Next]_vars PROVE ManagerIInv'
  <1>1. ASSUME NEW c \in Call, CallGetOrOpen(c) PROVE ManagerIInv'
    <2>1. TypeOK' /\ c \notin loaded
      BY <1>1 DEF CallGetOrOpen, ManagerIInv, WorkbenchManagerSafe, TypeOK, WhereItIs
    <2>2. idOf' \in [Call -> Id \cup {None}] /\ inspectionOf' \in [Call -> Inspection \cup {None}]
      BY <1>1 DEF CallGetOrOpen, ManagerIInv, WhereItIs
    <2> QED
      BY <1>1, <2>1, <2>2, CallStep
      DEF CallGetOrOpen, ManagerIInv, WorkbenchManagerSafe, TypeOK, WhereItIs
  <1>2. ASSUME NEW c \in Call, GetOrOpen(c) PROVE ManagerIInv'
    BY <1>2, GetOrOpenIInv, MissIInv, LoadWorkbenchIInv, InsertIInv DEF GetOrOpen
  <1>3. ASSUME NEW id \in Id, Heartbeat(id) PROVE ManagerIInv'
    BY <1>3, LeaseStep DEF Heartbeat, Active, Renew
  <1>4. ASSUME NEW id \in Id, Expire(id) PROVE ManagerIInv'
    BY <1>4, LeaseStep DEF Expire, ManagerIInv, WorkbenchManagerSafe, MapIsOpen, Open
  <1>5. ASSUME NEW id \in Id, Close(id) PROVE ManagerIInv'
    BY <1>5, TakeIInv DEF Close, ManagerIInv, WorkbenchManagerSafe, TypeOK
  <1>6. ASSUME NEW w \in Call, WorkbenchClose(w) PROVE ManagerIInv'
    BY <1>6, WorkbenchCloseIInv
  <1>7. CASE Leases
    BY <1>7 DEF Leases, callVars, ManagerIInv, WorkbenchManagerSafe, TypeOK, NoneIsLost, MapIsOpen,
                Open, WhereItIs
  <1>8. CASE Remove
    BY <1>8, TakeIInv DEF Remove, ManagerIInv, WorkbenchManagerSafe, TypeOK
  <1>9. CASE UNCHANGED vars
    BY <1>9 DEF vars, callVars, ManagerIInv, WorkbenchManagerSafe, TypeOK, NoneIsLost, MapIsOpen,
                Open, WhereItIs
  <1> QED
    BY <1>1, <1>2, <1>3, <1>4, <1>5, <1>6, <1>7, <1>8, <1>9 DEF Next

\* However openers, heartbeats, closes and sweeps mix: every workbench that was loaded and
\* is not closed is in the map under its ID, or with the one that is about to insert or to
\* close it; and the map holds only open workbenches, each under its ID and with a lease.
THEOREM NoWorkbenchIsLost == Spec => []WorkbenchManagerSafe
  <1>1. Init => ManagerIInv
    BY InitManagerIInv
  <1>2. ManagerIInv /\ [Next]_vars => ManagerIInv'
    BY NextManagerIInv
  <1>3. ManagerIInv => WorkbenchManagerSafe
    BY DEF ManagerIInv
  <1> QED
    BY <1>1, <1>2, <1>3, PTL DEF Spec

HIDE NoneAssumption

-----------------------------------------------------------------------------
(* The loading of one workbench.  Unless the group is being stopped, every *)
(* chunk that was taken is somewhere on its way (OnItsWay); a worker then  *)
(* returns only at the end of the file, or leaves the result of a corrupt  *)
(* chunk behind for the collector (ReturnedInv); so the collector ends     *)
(* with the whole file.                                                    *)

OnItsWay ==
  /\ load_ingested <= load_taken
  /\ ~Loading!Stopping =>
       /\ \A n \in 1..load_taken :
            \/ n <= load_ingested \/ n \in load_results \cup load_buffered
            \/ \E w \in Worker : load_work[w] = n
       /\ load_strings = {n \in 1..load_taken : load_file[n] = "strings"}
  /\ \A n \in 1..Chunks : n <= load_ingested \/ n \in load_buffered => n \notin Loading!Bad

ReturnedInv ==
  /\ load_reader = "sending" => load_sent < Chunks
  /\ load_reader = "ended" => load_sent = Chunks
  /\ \A w \in load_stopped : load_work[w] = 0
  /\ ~Loading!Stopping /\ load_stopped # {} =>
       \/ load_reader = "ended" /\ load_taken = load_sent
       \/ \E n \in load_results : n \in Loading!Bad

CollectedInv ==
  /\ load_collector = "ended" /\ ~load_cancelled /\ load_reader # "failed" =>
       load_reader = "ended" /\ load_taken = Chunks /\ Loading!Whole
  /\ load_outcome # "none" => load_collector # "collecting"
  /\ load_outcome = "workbench" => load_collector = "ended" /\ load_reader = "ended"

LoadingIInv ==
  /\ Loading!TypeOK /\ Loading!EachOnce
  /\ OnItsWay /\ ReturnedInv /\ CollectedInv

LEMMA InitLoadingIInv ==
  ASSUME Loading!Init
  PROVE  LoadingIInv
  <1> USE ServerAssumption DEF Loading!Init, ServerAssumption
  <1>1. load_sent \in 0..Chunks /\ load_taken \in 0..load_sent /\ load_ingested \in 0..Chunks
    OBVIOUS
  <1>2. load_work \in [Worker -> 0..Chunks]
    OBVIOUS
  <1>3. Loading!TypeOK
    BY <1>1, <1>2 DEF Loading!TypeOK
  <1>4. Loading!EachOnce
    BY DEF Loading!EachOnce
  <1>5. OnItsWay
    BY DEF OnItsWay
  <1>6. ReturnedInv /\ CollectedInv
    BY DEF ReturnedInv, CollectedInv
  <1> QED
    BY <1>3, <1>4, <1>5, <1>6 DEF LoadingIInv

LEMMA NextLoadingIInv ==
  ASSUME LoadingIInv, [Loading!Next]_(Loading!vars)
  PROVE  LoadingIInv'
  <1> USE DEF LoadingIInv, Loading!TypeOK, Loading!Stopping
  <1>0. Chunks \in Nat /\ Worker # {}
    BY ServerAssumption DEF ServerAssumption
  <1> USE <1>0
  <1>1. CASE Loading!NextRawChunk
    BY <1>1 DEF Loading!NextRawChunk, Loading!EachOnce, OnItsWay, ReturnedInv, CollectedInv,
                Loading!Bad, Loading!Whole
  <1>2. CASE Loading!SendTask
    BY <1>2 DEF Loading!SendTask, Loading!EachOnce, OnItsWay, ReturnedInv, CollectedInv,
                Loading!Bad, Loading!Whole
  <1>3. ASSUME NEW w \in Worker, Loading!Parse(w)
        PROVE  LoadingIInv'
    <2> USE <1>3 DEF Loading!Parse
    <2>1. Loading!TypeOK'
      OBVIOUS
    <2>2. Loading!EachOnce'
      BY DEF Loading!EachOnce, OnItsWay
    <2>3. OnItsWay'
      BY DEF OnItsWay, Loading!Bad
    <2>4. ReturnedInv'
      BY DEF ReturnedInv, Loading!Bad
    <2>5. CollectedInv'
      BY DEF ReturnedInv, CollectedInv, Loading!Whole, Loading!Bad
    <2> QED
      BY <2>1, <2>2, <2>3, <2>4, <2>5
  <1>4. ASSUME NEW w \in Worker, Loading!SendResult(w)
        PROVE  LoadingIInv'
    <2> USE <1>4 DEF Loading!SendResult
    <2> DEFINE n == load_work[w]
    <2>1. n \in 1..Chunks
      OBVIOUS
    <2>2. Loading!TypeOK'
      <3>1. load_results' \subseteq 1..Chunks /\ load_stopped' \subseteq Worker
        BY <2>1
      <3>2. load_work' \in [Worker -> 0..Chunks]
        OBVIOUS
      <3> QED
        BY <3>1, <3>2
    <2>3. Loading!EachOnce'
      <3>1. load_results' = load_results \cup {n} /\ \A v \in Worker : load_work'[v] # 0
              => v # w /\ load_work'[v] = load_work[v]
        OBVIOUS
      <3>2. /\ n \in ((load_ingested + 1)..load_taken) \ (load_results \cup load_buffered)
            /\ \A v \in Worker : load_work[v] = n => v = w
        BY <2>1 DEF Loading!EachOnce
      <3> QED
        BY <3>1, <3>2 DEF Loading!EachOnce
    <2>4. OnItsWay'
      BY DEF OnItsWay, Loading!Bad
    <2>5. ReturnedInv'
      BY DEF ReturnedInv, Loading!Bad, Loading!EachOnce
    <2>6. CollectedInv'
      BY DEF CollectedInv, Loading!Whole, Loading!Bad
    <2> QED
      BY <2>2, <2>3, <2>4, <2>5, <2>6
  <1>5. ASSUME NEW w \in Worker, Loading!Abandon(w)
        PROVE  LoadingIInv'
    <2> USE <1>5 DEF Loading!Abandon
    <2>1. Loading!TypeOK' /\ Loading!EachOnce'
      BY DEF Loading!EachOnce
    <2>2. OnItsWay' /\ ReturnedInv'
      BY DEF OnItsWay, ReturnedInv, Loading!Bad
    <2>3. CollectedInv'
      BY DEF ReturnedInv, CollectedInv, Loading!Whole, Loading!Bad
    <2> QED
      BY <2>1, <2>2, <2>3
  <1>6. ASSUME NEW w \in Worker, Loading!EndWorker(w)
        PROVE  LoadingIInv'
    BY <1>6 DEF Loading!EndWorker, Loading!EachOnce, OnItsWay, ReturnedInv, CollectedInv,
                Loading!Bad, Loading!Whole
  <1>7. ASSUME NEW n \in load_results, Loading!Receive(n)
        PROVE  LoadingIInv'
    <2> USE <1>7 DEF Loading!Receive
    <2>1. Loading!TypeOK'
      OBVIOUS
    <2>2. Loading!EachOnce'
      <3>1. /\ load_results' \cup load_buffered' \subseteq load_results \cup load_buffered
            /\ load_results' \cap load_buffered' = {}
        BY DEF Loading!EachOnce
      <3> QED
        BY <3>1 DEF Loading!EachOnce
    <2>3. OnItsWay'
      BY DEF OnItsWay, Loading!Bad
    <2>4. ReturnedInv' /\ CollectedInv'
      BY DEF ReturnedInv, CollectedInv, Loading!Whole, Loading!Bad
    <2> QED
      BY <2>1, <2>2, <2>3, <2>4
  <1>8. CASE Loading!Ingest
    <2> USE <1>8 DEF Loading!Ingest
    <2>1. Loading!TypeOK' /\ Loading!EachOnce'
      BY DEF Loading!EachOnce
    <2>2. OnItsWay'
      BY DEF OnItsWay, Loading!Bad, Loading!EachOnce
    <2>3. ReturnedInv' /\ CollectedInv'
      BY DEF ReturnedInv, CollectedInv, Loading!Whole, Loading!Bad
    <2> QED
      BY <2>1, <2>2, <2>3
  <1>9. CASE Loading!EndCollector
    <2> USE <1>9 DEF Loading!EndCollector
    <2>1. Loading!TypeOK' /\ Loading!EachOnce' /\ OnItsWay' /\ ReturnedInv'
      BY DEF Loading!EachOnce, OnItsWay, ReturnedInv, Loading!Bad
    <2>2. ASSUME ~load_cancelled, load_reader # "failed", load_outcome = "none"
          PROVE  load_reader = "ended" /\ load_taken = Chunks /\ Loading!Whole
      <3>1. ~Loading!Stopping /\ load_stopped # {}
        BY <2>2
      <3>2. load_reader = "ended" /\ load_taken = Chunks
        BY <3>1 DEF ReturnedInv
      <3>3. \A n \in 1..Chunks : n <= load_ingested \/ n \in load_buffered
        BY <3>1, <3>2 DEF OnItsWay, ReturnedInv
      <3>4. load_ingested = Chunks
        BY <3>3
      <3>5. Loading!Bad = {} /\ load_strings = {n \in 1..Chunks : load_file[n] = "strings"}
        BY <3>1, <3>2, <3>4 DEF OnItsWay, Loading!Bad
      <3> QED
        BY <3>2, <3>4, <3>5 DEF Loading!Whole
    <2>3. CollectedInv'
      BY <2>2 DEF CollectedInv, Loading!Whole, Loading!Bad
    <2> QED
      BY <2>1, <2>3
  <1>10. CASE Loading!Return
    BY <1>10 DEF Loading!Return, Loading!EachOnce, OnItsWay, ReturnedInv, CollectedInv, Loading!Bad,
                 Loading!Whole
  <1>11. CASE Loading!Cancel
    BY <1>11 DEF Loading!Cancel, Loading!EachOnce, OnItsWay, ReturnedInv, CollectedInv, Loading!Bad,
                 Loading!Whole
  <1>12. CASE UNCHANGED Loading!vars
    BY <1>12 DEF Loading!vars, Loading!EachOnce, OnItsWay, ReturnedInv, CollectedInv, Loading!Bad,
                 Loading!Whole
  <1> QED
    BY <1>1, <1>2, <1>3, <1>4, <1>5, <1>6, <1>7, <1>8, <1>9, <1>10, <1>11, <1>12
    DEF Loading!Next, Loading!Reader, Loading!WorkerStep, Loading!Collector

\* A workbench that was loaded without being cancelled has every chunk of its file, and
\* none of them twice, however its workers overtake each other and wherever one fails.
THEOREM LoadIsSafe == Loading!Spec => []WorkbenchLoadSafe
  <1>1. Loading!Init => LoadingIInv
    BY InitLoadingIInv
  <1>2. LoadingIInv /\ [Loading!Next]_(Loading!vars) => LoadingIInv'
    BY NextLoadingIInv
  <1>3. LoadingIInv => WorkbenchLoadSafe
    BY DEF WorkbenchLoadSafe, LoadingIInv, CollectedInv, Loading!WorkbenchLoadSafe,
           Loading!WholeUnlessCancelled
  <1> QED
    BY <1>1, <1>2, <1>3, PTL DEF Loading!Spec

-----------------------------------------------------------------------------
(* The index of an inspection.  Until an import takes the index away,      *)
(* whoever holds a "Ready" or a hit holds it for an index that is in       *)
(* memory (ReadyIsKept), and a builder that has found none is the first to *)
(* build (BuildsCounted).                                                  *)

Invalidated == index_importer \notin {"none", "invalidate"}

\* The index is in memory, or will be when the flight of buildGroup has saved it.
IsBuilt == index_mem \/ index_build \in {"save", "rename", "store"}

\* The builder has found no index, or will: it goes on to build one.
Committed ==
  index_asks["builder"] \in {"loading", "miss"} \/ index_build \in {"announce", "open", "read"}

BuildsCounted ==
  /\ index_built <= IF Invalidated THEN 2 ELSE 1
  /\ ~IsBuilt \/ Committed => index_built <= IF Invalidated THEN 1 ELSE 0
  /\ index_asks["builder"] # "no" => index_build = "get"

ReadyIn(events) == \E n \in 1 .. Len(events) : events[n] = "Ready"

ReadyIsKept ==
  /\ index_mem \/ (index_event # "Ready" /\ index_load # "cached" /\ index_build # "ready")
  /\ \A p \in Index!Caller : index_asks[p] = "hit" => index_mem
  /\ \A w \in Workbench :
       /\ index_initial[w] = "Ready" => index_mem
       /\ ReadyIn(index_inbox[w]) => index_mem
       /\ index_workbench[w] = "final" /\ w \notin index_closed
            => index_mem /\ index_asks[w] \in {"no", "hit"}
       /\ index_workbench[w] = "unindexed" => w \in index_closed

WantedOnly ==
  \A w \in Workbench : index_asks[w] # "no" => index_workbench[w] \in {"start", "starting", "final"}

IndexIInv == Index!TypeOK /\ BuildsCounted /\ WantedOnly /\ (~Invalidated => ReadyIsKept)


LEMMA AppendReady ==
  ASSUME NEW events \in Seq(Index!Terminal), NEW e \in Index!Terminal, ReadyIn(Append(events, e)),
         e # "Ready"
  PROVE  ReadyIn(events)
  BY DEF ReadyIn

\* What a broadcast leaves in the channels.
LEMMA BroadcastSent ==
  ASSUME Index!TypeOK, NEW e \in Index!State, Index!Broadcast(e)
  PROVE  /\ index_event' = e /\ index_inbox' \in [Workbench -> Seq(Index!Terminal)]
         /\ \A w \in Workbench : ReadyIn(index_inbox'[w]) => ReadyIn(index_inbox[w]) \/ e = "Ready"
  <1>1. ASSUME NEW w \in Workbench
        PROVE  /\ Index!Sent(w, e) \in Seq(Index!Terminal) /\ index_inbox[w] \in Seq(Index!Terminal)
               /\ ReadyIn(Index!Sent(w, e)) => ReadyIn(index_inbox[w]) \/ e = "Ready"
    BY AppendReady DEF Index!Sent, Index!TypeOK
  <1> QED
    BY <1>1 DEF Index!Broadcast

LEMMA StepTypes ==
  ASSUME Index!TypeOK, NEW w \in Workbench, NEW from,
         NEW to \in {"start", "subscribe", "emit", "check", "starting", "waiting",
                     "final", "indexed", "unindexed", "failed"}, Index!Step(w, from, to)
  PROVE  /\ index_workbench'
              \in [Workbench -> {"start", "subscribe", "emit", "check", "starting", "waiting",
                                           "final", "indexed", "unindexed", "failed"}]
         /\ index_workbench[w] = from
         /\ UNCHANGED <<Index!indexVars, index_load, index_build, index_importer, index_closed,
              index_built>>
  BY DEF Index!Step, Index!TypeOK

LEMMA GotTypes ==
  ASSUME Index!TypeOK, NEW p \in Index!Caller, NEW answer, Index!Got(p, answer)
  PROVE  index_asks' \in [Index!Caller -> {"no", "loading", "hit", "miss"}]
  BY DEF Index!Got, Index!TypeOK

LEMMA TypesKept ==
  ASSUME {"importer", "builder"} \cap Workbench = {}, IndexIInv, Index!Next
  PROVE  Index!TypeOK'
  <1> USE BroadcastSent DEF IndexIInv, Index!Caller, Index!TypeOK, Index!indexVars, Index!State,
        Index!Terminal
  <1>1. ASSUME NEW p \in Index!Caller, Index!Ask(p) PROVE Index!TypeOK'
    BY <1>1 DEF Index!Ask, Index!Wants
  <1>2. ASSUME Index!LoadBegins PROVE Index!TypeOK'
    BY <1>2 DEF Index!LoadBegins
  <1>3. ASSUME Index!LoadEnds PROVE Index!TypeOK'
    BY <1>3 DEF Index!LoadEnds
  <1>4. ASSUME NEW w \in Workbench, Index!FindIndex(w) PROVE Index!TypeOK'
    BY <1>4, StepTypes, GotTypes DEF Index!FindIndex, Index!NoBroadcast
  <1>5. ASSUME NEW w \in Workbench, Index!SubscribeIndexProgress(w) PROVE Index!TypeOK'
    BY <1>5 DEF Index!SubscribeIndexProgress, Index!Step, Index!Got, Index!NoBroadcast, Index!Status
  <1>6. ASSUME NEW w \in Workbench, Index!EmitInitial(w) PROVE Index!TypeOK'
    BY <1>6 DEF Index!EmitInitial, Index!Step, Index!Got, Index!NoBroadcast, Index!Sent
  <1>7. ASSUME NEW w \in Workbench, Index!CheckStatus(w) PROVE Index!TypeOK'
    BY <1>7, StepTypes, GotTypes DEF Index!CheckStatus, Index!NoBroadcast
  <1>8. ASSUME NEW w \in Workbench, Index!StartIndexing(w) PROVE Index!TypeOK'
    <2>1. /\ index_workbench'
               \in [Workbench -> {"start", "subscribe", "emit", "check", "starting", "waiting",
                                            "final", "indexed", "unindexed", "failed"}]
          /\ UNCHANGED <<Index!indexVars, index_load, index_build, index_importer, index_closed,
               index_built, index_initial>>
      BY <1>8, StepTypes DEF Index!StartIndexing
    <2>2. index_asks' \in [Index!Caller -> {"no", "loading", "hit", "miss"}]
      BY <1>8, GotTypes DEF Index!StartIndexing, Index!StartAsyncIndexing
    <2>3. /\ index_event' \in Index!State /\ index_inbox' \in [Workbench -> Seq(Index!Terminal)]
          /\ index_pending' \in Nat
      BY <1>8 DEF Index!StartIndexing, Index!StartAsyncIndexing, Index!NoBroadcast
    <2> QED
      BY <2>1, <2>2, <2>3
  <1>9. ASSUME NEW w \in Workbench, Index!Receive(w) PROVE Index!TypeOK'
    BY <1>9 DEF Index!Receive, Index!Step, Index!Got, Index!NoBroadcast
  <1>10. ASSUME NEW w \in Workbench, Index!CloseWorkbench(w) PROVE Index!TypeOK'
    BY <1>10 DEF Index!CloseWorkbench, Index!Step, Index!Got, Index!NoBroadcast
  <1>11. ASSUME NEW w \in Workbench, Index!Finish(w) PROVE Index!TypeOK'
    BY <1>11, StepTypes, GotTypes DEF Index!Finish, Index!NoBroadcast
  <1>12. ASSUME Index!InvalidateMemory PROVE Index!TypeOK'
    BY <1>12 DEF Index!InvalidateMemory
  <1>13. ASSUME Index!InvalidateDisk PROVE Index!TypeOK'
    <2>1. CASE Index!RemoveIndexFile
      BY <2>1 DEF Index!RemoveIndexFile
    <2>2. CASE Index!RemoveTmpFile
      BY <2>2 DEF Index!RemoveTmpFile
    <2> QED
      BY <1>13, <2>1, <2>2 DEF Index!InvalidateDisk
  <1>14. ASSUME Index!StartAfterImport PROVE Index!TypeOK'
    BY <1>14 DEF Index!StartAfterImport, Index!StartAsyncIndexing, Index!Got, Index!NoBroadcast
  <1>15. ASSUME Index!JoinBuild PROVE Index!TypeOK'
    BY <1>15 DEF Index!JoinBuild, Index!BuildStep, Index!Got, Index!NoBroadcast
  <1>16. ASSUME Index!CheckAgain PROVE Index!TypeOK'
    BY <1>16 DEF Index!CheckAgain, Index!BuildStep, Index!Got, Index!NoBroadcast
  <1>17. ASSUME Index!Announce PROVE Index!TypeOK'
    BY <1>17 DEF Index!Announce, Index!BuildStep, Index!Got, Index!NoBroadcast
  <1>18. ASSUME Index!OpenReader PROVE Index!TypeOK'
    BY <1>18 DEF Index!OpenReader, Index!BuildStep, Index!Got, Index!NoBroadcast
  <1>19. ASSUME Index!BuildIndex PROVE Index!TypeOK'
    BY <1>19 DEF Index!BuildIndex, Index!BuildStep, Index!Got, Index!NoBroadcast
  <1>20. ASSUME Index!SaveTmp PROVE Index!TypeOK'
    BY <1>20 DEF Index!SaveTmp, Index!BuildStep, Index!Got, Index!NoBroadcast
  <1>21. ASSUME Index!RenameTmp PROVE Index!TypeOK'
    BY <1>21 DEF Index!RenameTmp, Index!BuildStep, Index!Got, Index!NoBroadcast
  <1>22. ASSUME Index!Store PROVE Index!TypeOK'
    BY <1>22 DEF Index!Store, Index!BuildStep, Index!Got, Index!NoBroadcast
  <1>23. ASSUME Index!AnnounceReady PROVE Index!TypeOK'
    BY <1>23 DEF Index!AnnounceReady, Index!BuildStep, Index!Got, Index!NoBroadcast
  <1>24. ASSUME Index!BuildReturns PROVE Index!TypeOK'
    BY <1>24 DEF Index!BuildReturns, Index!BuildStep, Index!Got, Index!NoBroadcast
  <1> QED
    BY <1>1, <1>2, <1>3, <1>4, <1>5, <1>6, <1>7, <1>8, <1>9, <1>10, <1>11, <1>12, <1>13, <1>14,
        <1>15, <1>16, <1>17, <1>18, <1>19, <1>20, <1>21, <1>22, <1>23, <1>24
    DEF Index!Next, Index!Background, Index!Import, Index!Builder

LEMMA BuildsCountedKept ==
  ASSUME {"importer", "builder"} \cap Workbench = {}, IndexIInv, Index!Next
  PROVE  BuildsCounted'
  <1> USE BroadcastSent DEF IndexIInv, Index!Caller, Index!TypeOK, BuildsCounted, Invalidated,
        IsBuilt, Committed, Index!indexVars, Index!State, Index!Terminal
  <1>1. ASSUME NEW p \in Index!Caller, Index!Ask(p) PROVE BuildsCounted'
    BY <1>1 DEF Index!Ask, Index!Wants
  <1>2. ASSUME Index!LoadBegins PROVE BuildsCounted'
    BY <1>2 DEF Index!LoadBegins
  <1>3. ASSUME Index!LoadEnds PROVE BuildsCounted'
    BY <1>3 DEF Index!LoadEnds
  <1>4. ASSUME NEW w \in Workbench, Index!FindIndex(w) PROVE BuildsCounted'
    BY <1>4 DEF Index!FindIndex, Index!Step, Index!Got, Index!NoBroadcast
  <1>5. ASSUME NEW w \in Workbench, Index!SubscribeIndexProgress(w) PROVE BuildsCounted'
    BY <1>5 DEF Index!SubscribeIndexProgress, Index!Step, Index!Got, Index!NoBroadcast, Index!Status
  <1>6. ASSUME NEW w \in Workbench, Index!EmitInitial(w) PROVE BuildsCounted'
    BY <1>6 DEF Index!EmitInitial, Index!Step, Index!Got, Index!NoBroadcast, Index!Sent
  <1>7. ASSUME NEW w \in Workbench, Index!CheckStatus(w) PROVE BuildsCounted'
    BY <1>7 DEF Index!CheckStatus, Index!Step, Index!Got, Index!NoBroadcast
  <1>8. ASSUME NEW w \in Workbench, Index!StartIndexing(w) PROVE BuildsCounted'
    BY <1>8
    DEF Index!StartIndexing, Index!Step, Index!Got, Index!NoBroadcast, Index!StartAsyncIndexing
  <1>9. ASSUME NEW w \in Workbench, Index!Receive(w) PROVE BuildsCounted'
    BY <1>9 DEF Index!Receive, Index!Step, Index!Got, Index!NoBroadcast
  <1>10. ASSUME NEW w \in Workbench, Index!CloseWorkbench(w) PROVE BuildsCounted'
    BY <1>10 DEF Index!CloseWorkbench, Index!Step, Index!Got, Index!NoBroadcast
  <1>11. ASSUME NEW w \in Workbench, Index!Finish(w) PROVE BuildsCounted'
    BY <1>11 DEF Index!Finish, Index!Step, Index!Got, Index!NoBroadcast
  <1>12. ASSUME Index!InvalidateMemory PROVE BuildsCounted'
    BY <1>12 DEF Index!InvalidateMemory
  <1>13. ASSUME Index!InvalidateDisk PROVE BuildsCounted'
    BY <1>13 DEF Index!InvalidateDisk, Index!RemoveIndexFile, Index!RemoveTmpFile
  <1>14. ASSUME Index!StartAfterImport PROVE BuildsCounted'
    BY <1>14 DEF Index!StartAfterImport, Index!StartAsyncIndexing, Index!Got, Index!NoBroadcast
  <1>15. ASSUME Index!JoinBuild PROVE BuildsCounted'
    BY <1>15 DEF Index!JoinBuild, Index!BuildStep, Index!Got, Index!NoBroadcast
  <1>16. ASSUME Index!CheckAgain PROVE BuildsCounted'
    BY <1>16 DEF Index!CheckAgain, Index!BuildStep, Index!Got, Index!NoBroadcast
  <1>17. ASSUME Index!Announce PROVE BuildsCounted'
    BY <1>17 DEF Index!Announce, Index!BuildStep, Index!Got, Index!NoBroadcast
  <1>18. ASSUME Index!OpenReader PROVE BuildsCounted'
    BY <1>18 DEF Index!OpenReader, Index!BuildStep, Index!Got, Index!NoBroadcast
  <1>19. ASSUME Index!BuildIndex PROVE BuildsCounted'
    BY <1>19 DEF Index!BuildIndex, Index!BuildStep, Index!Got, Index!NoBroadcast
  <1>20. ASSUME Index!SaveTmp PROVE BuildsCounted'
    BY <1>20 DEF Index!SaveTmp, Index!BuildStep, Index!Got, Index!NoBroadcast
  <1>21. ASSUME Index!RenameTmp PROVE BuildsCounted'
    BY <1>21 DEF Index!RenameTmp, Index!BuildStep, Index!Got, Index!NoBroadcast
  <1>22. ASSUME Index!Store PROVE BuildsCounted'
    BY <1>22 DEF Index!Store, Index!BuildStep, Index!Got, Index!NoBroadcast
  <1>23. ASSUME Index!AnnounceReady PROVE BuildsCounted'
    BY <1>23 DEF Index!AnnounceReady, Index!BuildStep, Index!Got, Index!NoBroadcast
  <1>24. ASSUME Index!BuildReturns PROVE BuildsCounted'
    BY <1>24 DEF Index!BuildReturns, Index!BuildStep, Index!Got, Index!NoBroadcast
  <1> QED
    BY <1>1, <1>2, <1>3, <1>4, <1>5, <1>6, <1>7, <1>8, <1>9, <1>10, <1>11, <1>12, <1>13, <1>14,
        <1>15, <1>16, <1>17, <1>18, <1>19, <1>20, <1>21, <1>22, <1>23, <1>24
    DEF Index!Next, Index!Background, Index!Import, Index!Builder

LEMMA WantedOnlyKept ==
  ASSUME {"importer", "builder"} \cap Workbench = {}, IndexIInv, Index!Next
  PROVE  WantedOnly'
  <1> USE BroadcastSent DEF IndexIInv, Index!Caller, Index!TypeOK, WantedOnly, Index!indexVars,
        Index!State, Index!Terminal
  <1>1. ASSUME NEW p \in Index!Caller, Index!Ask(p) PROVE WantedOnly'
    BY <1>1 DEF Index!Ask, Index!Wants
  <1>2. ASSUME Index!LoadBegins PROVE WantedOnly'
    BY <1>2 DEF Index!LoadBegins
  <1>3. ASSUME Index!LoadEnds PROVE WantedOnly'
    BY <1>3 DEF Index!LoadEnds
  <1>4. ASSUME NEW w \in Workbench, Index!FindIndex(w) PROVE WantedOnly'
    BY <1>4 DEF Index!FindIndex, Index!Step, Index!Got, Index!NoBroadcast
  <1>5. ASSUME NEW w \in Workbench, Index!SubscribeIndexProgress(w) PROVE WantedOnly'
    BY <1>5 DEF Index!SubscribeIndexProgress, Index!Step, Index!Got, Index!NoBroadcast, Index!Status
  <1>6. ASSUME NEW w \in Workbench, Index!EmitInitial(w) PROVE WantedOnly'
    BY <1>6 DEF Index!EmitInitial, Index!Step, Index!Got, Index!NoBroadcast, Index!Sent
  <1>7. ASSUME NEW w \in Workbench, Index!CheckStatus(w) PROVE WantedOnly'
    BY <1>7 DEF Index!CheckStatus, Index!Step, Index!Got, Index!NoBroadcast
  <1>8. ASSUME NEW w \in Workbench, Index!StartIndexing(w) PROVE WantedOnly'
    BY <1>8
    DEF Index!StartIndexing, Index!Step, Index!Got, Index!NoBroadcast, Index!StartAsyncIndexing
  <1>9. ASSUME NEW w \in Workbench, Index!Receive(w) PROVE WantedOnly'
    BY <1>9 DEF Index!Receive, Index!Step, Index!Got, Index!NoBroadcast
  <1>10. ASSUME NEW w \in Workbench, Index!CloseWorkbench(w) PROVE WantedOnly'
    BY <1>10 DEF Index!CloseWorkbench, Index!Step, Index!Got, Index!NoBroadcast
  <1>11. ASSUME NEW w \in Workbench, Index!Finish(w) PROVE WantedOnly'
    BY <1>11 DEF Index!Finish, Index!Step, Index!Got, Index!NoBroadcast
  <1>12. ASSUME Index!InvalidateMemory PROVE WantedOnly'
    BY <1>12 DEF Index!InvalidateMemory
  <1>13. ASSUME Index!InvalidateDisk PROVE WantedOnly'
    BY <1>13 DEF Index!InvalidateDisk, Index!RemoveIndexFile, Index!RemoveTmpFile
  <1>14. ASSUME Index!StartAfterImport PROVE WantedOnly'
    BY <1>14 DEF Index!StartAfterImport, Index!StartAsyncIndexing, Index!Got, Index!NoBroadcast
  <1>15. ASSUME Index!JoinBuild PROVE WantedOnly'
    BY <1>15 DEF Index!JoinBuild, Index!BuildStep, Index!Got, Index!NoBroadcast
  <1>16. ASSUME Index!CheckAgain PROVE WantedOnly'
    BY <1>16 DEF Index!CheckAgain, Index!BuildStep, Index!Got, Index!NoBroadcast
  <1>17. ASSUME Index!Announce PROVE WantedOnly'
    BY <1>17 DEF Index!Announce, Index!BuildStep, Index!Got, Index!NoBroadcast
  <1>18. ASSUME Index!OpenReader PROVE WantedOnly'
    BY <1>18 DEF Index!OpenReader, Index!BuildStep, Index!Got, Index!NoBroadcast
  <1>19. ASSUME Index!BuildIndex PROVE WantedOnly'
    BY <1>19 DEF Index!BuildIndex, Index!BuildStep, Index!Got, Index!NoBroadcast
  <1>20. ASSUME Index!SaveTmp PROVE WantedOnly'
    BY <1>20 DEF Index!SaveTmp, Index!BuildStep, Index!Got, Index!NoBroadcast
  <1>21. ASSUME Index!RenameTmp PROVE WantedOnly'
    BY <1>21 DEF Index!RenameTmp, Index!BuildStep, Index!Got, Index!NoBroadcast
  <1>22. ASSUME Index!Store PROVE WantedOnly'
    BY <1>22 DEF Index!Store, Index!BuildStep, Index!Got, Index!NoBroadcast
  <1>23. ASSUME Index!AnnounceReady PROVE WantedOnly'
    BY <1>23 DEF Index!AnnounceReady, Index!BuildStep, Index!Got, Index!NoBroadcast
  <1>24. ASSUME Index!BuildReturns PROVE WantedOnly'
    BY <1>24 DEF Index!BuildReturns, Index!BuildStep, Index!Got, Index!NoBroadcast
  <1> QED
    BY <1>1, <1>2, <1>3, <1>4, <1>5, <1>6, <1>7, <1>8, <1>9, <1>10, <1>11, <1>12, <1>13, <1>14,
        <1>15, <1>16, <1>17, <1>18, <1>19, <1>20, <1>21, <1>22, <1>23, <1>24
    DEF Index!Next, Index!Background, Index!Import, Index!Builder

LEMMA ReadyIsKeptKept ==
  ASSUME {"importer", "builder"} \cap Workbench = {}, IndexIInv, ~Invalidated', ~Invalidated,
         Index!Next
  PROVE  ReadyIsKept'
  <1> USE BroadcastSent DEF IndexIInv, Index!Caller, Index!TypeOK, BuildsCounted, WantedOnly,
        ReadyIsKept, Index!indexVars, Index!State, Index!Terminal
  <1>1. ASSUME NEW p \in Index!Caller, Index!Ask(p) PROVE ReadyIsKept'
    BY <1>1 DEF Index!Ask, Index!Wants
  <1>2. ASSUME Index!LoadBegins PROVE ReadyIsKept'
    BY <1>2 DEF Index!LoadBegins
  <1>3. ASSUME Index!LoadEnds PROVE ReadyIsKept'
    BY <1>3 DEF Index!LoadEnds
  <1>4. ASSUME NEW w \in Workbench, Index!FindIndex(w) PROVE ReadyIsKept'
    BY <1>4 DEF Index!FindIndex, Index!Step, Index!Got, Index!NoBroadcast
  <1>5. ASSUME NEW w \in Workbench, Index!SubscribeIndexProgress(w) PROVE ReadyIsKept'
    BY <1>5 DEF Index!SubscribeIndexProgress, Index!Step, Index!Got, Index!NoBroadcast, Index!Status
  <1>6. ASSUME NEW w \in Workbench, Index!EmitInitial(w) PROVE ReadyIsKept'
    BY <1>6, AppendReady DEF Index!EmitInitial, Index!Step, Index!Got, Index!NoBroadcast, Index!Sent
  <1>7. ASSUME NEW w \in Workbench, Index!CheckStatus(w) PROVE ReadyIsKept'
    BY <1>7 DEF Index!CheckStatus, Index!Step, Index!Got, Index!NoBroadcast
  <1>8. ASSUME NEW w \in Workbench, Index!StartIndexing(w) PROVE ReadyIsKept'
    BY <1>8
    DEF Index!StartIndexing, Index!Step, Index!Got, Index!NoBroadcast, Index!StartAsyncIndexing
  <1>9. ASSUME NEW w \in Workbench, Index!Receive(w) PROVE ReadyIsKept'
    <2>1. index_inbox[w] \in Seq(Index!Terminal) /\ index_inbox[w] # <<>>
      BY <1>9 DEF Index!Receive
    <2>2. Head(index_inbox[w]) = "Ready" => index_mem
      BY <2>1 DEF ReadyIn
    <2>3. ~ReadyIn(<<>>)
      BY DEF ReadyIn
    <2> QED
      BY <1>9, <2>2, <2>3 DEF Index!Receive, Index!Step
  <1>10. ASSUME NEW w \in Workbench, Index!CloseWorkbench(w) PROVE ReadyIsKept'
    <2>1. ~ReadyIn(<<>>)
      BY DEF ReadyIn
    <2> QED
      BY <1>10, <2>1 DEF Index!CloseWorkbench
  <1>11. ASSUME NEW w \in Workbench, Index!Finish(w) PROVE ReadyIsKept'
    BY <1>11 DEF Index!Finish, Index!Step, Index!Got, Index!NoBroadcast
  <1>12. ASSUME Index!InvalidateMemory PROVE ReadyIsKept'
    BY <1>12 DEF Index!InvalidateMemory, Invalidated
  <1>13. ASSUME Index!InvalidateDisk PROVE ReadyIsKept'
    BY <1>13 DEF Index!InvalidateDisk, Index!RemoveIndexFile, Index!RemoveTmpFile
  <1>14. ASSUME Index!StartAfterImport PROVE ReadyIsKept'
    BY <1>14 DEF Index!StartAfterImport, Index!StartAsyncIndexing, Index!Got, Index!NoBroadcast
  <1>15. ASSUME Index!JoinBuild PROVE ReadyIsKept'
    BY <1>15 DEF Index!JoinBuild, Index!BuildStep, Index!Got, Index!NoBroadcast
  <1>16. ASSUME Index!CheckAgain PROVE ReadyIsKept'
    BY <1>16 DEF Index!CheckAgain, Index!BuildStep, Index!Got, Index!NoBroadcast
  <1>17. ASSUME Index!Announce PROVE ReadyIsKept'
    BY <1>17 DEF Index!Announce, Index!BuildStep, Index!Got, Index!NoBroadcast
  <1>18. ASSUME Index!OpenReader PROVE ReadyIsKept'
    BY <1>18 DEF Index!OpenReader, Index!BuildStep, Index!Got, Index!NoBroadcast
  <1>19. ASSUME Index!BuildIndex PROVE ReadyIsKept'
    BY <1>19 DEF Index!BuildIndex, Index!BuildStep, Index!Got, Index!NoBroadcast
  <1>20. ASSUME Index!SaveTmp PROVE ReadyIsKept'
    BY <1>20 DEF Index!SaveTmp, Index!BuildStep, Index!Got, Index!NoBroadcast
  <1>21. ASSUME Index!RenameTmp PROVE ReadyIsKept'
    BY <1>21 DEF Index!RenameTmp, Index!BuildStep, Index!Got, Index!NoBroadcast
  <1>22. ASSUME Index!Store PROVE ReadyIsKept'
    BY <1>22 DEF Index!Store, Index!BuildStep, Index!Got, Index!NoBroadcast
  <1>23. ASSUME Index!AnnounceReady PROVE ReadyIsKept'
    BY <1>23 DEF Index!AnnounceReady, Index!BuildStep, Index!Got, Index!NoBroadcast
  <1>24. ASSUME Index!BuildReturns PROVE ReadyIsKept'
    BY <1>24 DEF Index!BuildReturns, Index!BuildStep, Index!Got, Index!NoBroadcast
  <1> QED
    BY <1>1, <1>2, <1>3, <1>4, <1>5, <1>6, <1>7, <1>8, <1>9, <1>10, <1>11, <1>12, <1>13, <1>14,
        <1>15, <1>16, <1>17, <1>18, <1>19, <1>20, <1>21, <1>22, <1>23, <1>24
    DEF Index!Next, Index!Background, Index!Import, Index!Builder

LEMMA NextIndexIInv ==
  ASSUME {"importer", "builder"} \cap Workbench = {}, IndexIInv, [Index!Next]_(Index!vars)
  PROVE  IndexIInv'
  <1>1. CASE Index!Next
    <2>1. Invalidated => Invalidated'
      BY <1>1
      DEF Index!Next, Invalidated, Index!LoadBegins, Index!LoadEnds, Index!Ask, Index!Background,
          Index!FindIndex, Index!SubscribeIndexProgress, Index!EmitInitial, Index!CheckStatus,
          Index!StartIndexing, Index!Receive, Index!Finish, Index!CloseWorkbench, Index!Step,
          Index!Import, Index!InvalidateMemory, Index!InvalidateDisk, Index!RemoveIndexFile,
          Index!RemoveTmpFile, Index!StartAfterImport,
          Index!Builder, Index!JoinBuild, Index!CheckAgain, Index!Announce, Index!OpenReader,
          Index!BuildIndex, Index!SaveTmp, Index!RenameTmp, Index!Store, Index!AnnounceReady,
          Index!BuildReturns, Index!BuildStep
    <2> QED
      BY <1>1, <2>1, TypesKept, BuildsCountedKept, WantedOnlyKept, ReadyIsKeptKept DEF IndexIInv
  <1>2. CASE UNCHANGED Index!vars
    BY <1>2
    DEF Index!vars, Index!indexVars, IndexIInv, Index!TypeOK, BuildsCounted, WantedOnly,
        ReadyIsKept, Invalidated, IsBuilt, Committed
  <1> QED
    BY <1>1, <1>2

LEMMA InitIndexIInv == ASSUME Index!Init PROVE IndexIInv
  <1>1. ~ReadyIn(<<>>)
    BY DEF ReadyIn
  <1>2. Index!TypeOK
    <2>1. index_inbox \in [Workbench -> Seq(Index!Terminal)]
      <3>1. <<>> \in Seq(Index!Terminal)
        OBVIOUS
      <3> QED
        BY <3>1 DEF Index!Init
    <2>2. /\ index_initial \in [Workbench -> Index!State]
          /\ index_asks \in [Index!Caller -> {"no", "loading", "hit", "miss"}]
          /\ index_event \in Index!State
      BY DEF Index!Init, Index!State
    <2> QED
      BY <2>1, <2>2 DEF Index!Init, Index!TypeOK
  <1>3. \A p \in Index!Caller : index_asks[p] = "no"
    BY DEF Index!Init
  <1>5. WantedOnly
    BY <1>3 DEF WantedOnly, Index!Caller
  <1>6. BuildsCounted
    BY <1>3 DEF Index!Init, BuildsCounted, Invalidated, IsBuilt, Committed, Index!Caller
  <1>4. ReadyIsKept
    BY <1>1, <1>3 DEF Index!Init, ReadyIsKept, Index!Caller
  <1> QED
    BY <1>2, <1>4, <1>5, <1>6 DEF IndexIInv

\* However subscriptions, broadcasts, loads and builds mix with each other and with an
\* import: the index is built once, and once more if it was invalidated, and a workbench
\* that is told of a ready index finds it.
THEOREM IndexIsFound == Index!Spec => []InspectionIndexSafe
  <1>1. Index!Init => IndexIInv
    BY InitIndexIInv
  <1>2. IndexIInv /\ [Index!Next]_(Index!vars) => IndexIInv'
    BY ServerAssumption, NextIndexIInv DEF ServerAssumption
  <1>3. IndexIInv => InspectionIndexSafe
    BY DEF IndexIInv, InspectionIndexSafe, Index!InspectionIndexSafe, BuildsCounted, ReadyIsKept,
           Invalidated, Index!BuiltOnce, Index!ReadyIsFound
  <1> QED
    BY <1>1, <1>2, <1>3, PTL DEF Index!Spec

-----------------------------------------------------------------------------
(* Shared estimates.  Three maps have to agree: flights by query, active   *)
(* tasks by slot, and what runs.  Only the slot that started a flight can  *)
(* leave it without a live holder, and by then has cancelled it.           *)

\* A flight in the map runs, for the query it is found under.
FlightsRun ==
  \A k \in Key : est_flights[k] # NoFlight
    => est_flights[k] \in Estimator!Running /\ est_call[est_flights[k]].key = k

EstimatorIInv == Estimator!CachedEstimatorSafe /\ FlightsRun

NamesAssumption == NoFlight \notin Flight /\ "none" \notin Key /\ MaxEdits \in Nat

LEMMA NamesAreFree == NamesAssumption
  BY ServerAssumption DEF ServerAssumption, NamesAssumption

LEMMA IdleIsNone ==
  ASSUME NamesAssumption, Estimator!TypeOK, NEW f \in Estimator!Running
  PROVE  /\ f \in Flight /\ est_call[f] \in [slot : Slot, key : Key, cancelled : BOOLEAN]
         /\ est_call[f].slot \in Slot /\ est_call[f].key \in Key
  BY DEF NamesAssumption, Estimator!TypeOK, Estimator!Running

LEMMA InitEstimatorIInv == ASSUME NamesAssumption, Estimator!Init PROVE EstimatorIInv
  <1>1. Estimator!Running = {}
    BY DEF Estimator!Init, Estimator!Running
  <1>2. Estimator!TypeOK
    <2>1. est_cache \subseteq Key /\ est_flights \in [Key -> Flight \cup {NoFlight}]
      BY DEF Estimator!Init
    <2>2. est_active
            \in [Slot -> {Estimator!NoTask} \cup [key : Key, flight : Flight \cup {NoFlight}]]
      BY DEF Estimator!Init
    <2>3. est_call \in [Flight -> {Estimator!Idle}
            \cup [slot : Slot, key : Key, cancelled : BOOLEAN]]
      BY DEF Estimator!Init
    <2>4. est_closed \in BOOLEAN
      BY DEF Estimator!Init
    <2>5. est_edits \in 0 .. MaxEdits
      <3>1. est_edits = 0 /\ MaxEdits \in Nat
        BY DEF Estimator!Init, NamesAssumption
      <3> QED
        BY <3>1
    <2>6. /\ est_query \in [Slot -> Key] /\ est_waiting \in [Slot -> Flight \cup {NoFlight}]
          /\ est_answer \in [Slot -> {"none", "pending", "estimate", "error"}]
      BY DEF Estimator!Init
    <2> QED
      BY <2>1, <2>2, <2>3, <2>4, <2>5, <2>6 DEF Estimator!TypeOK
  <1>3. FlightsRun
    BY DEF Estimator!Init, FlightsRun
  <1> QED
    BY <1>1, <1>2, <1>3
    DEF Estimator!Init, EstimatorIInv, Estimator!CachedEstimatorSafe, Estimator!LiveIsHeld,
        Estimator!EstimatedOnce, Estimator!Live

\* Cancelling contexts changes nothing else about the calls.
LEMMA Cancelling ==
  ASSUME NamesAssumption, Estimator!TypeOK, NEW F \in SUBSET Flight
  PROVE  /\ Estimator!Cancel(F)
              \in [Flight -> {Estimator!Idle} \cup [slot : Slot, key : Key, cancelled : BOOLEAN]]
         /\ \A f \in Flight :
              /\ Estimator!Cancel(F)[f].slot = est_call[f].slot
              /\ Estimator!Cancel(F)[f].key = est_call[f].key
              /\ Estimator!Cancel(F)[f] # Estimator!Idle <=> est_call[f] # Estimator!Idle
              /\ f \in Estimator!Running /\ ~Estimator!Cancel(F)[f].cancelled
                   => f \notin F /\ ~est_call[f].cancelled
  <1>1. ASSUME NEW f \in Flight
        PROVE  /\ Estimator!Cancel(F)[f]
                    \in {Estimator!Idle} \cup [slot : Slot, key : Key, cancelled : BOOLEAN]
               /\ Estimator!Cancel(F)[f].slot = est_call[f].slot
               /\ Estimator!Cancel(F)[f].key = est_call[f].key
               /\ Estimator!Cancel(F)[f] # Estimator!Idle <=> est_call[f] # Estimator!Idle
               /\ f \in Estimator!Running /\ ~Estimator!Cancel(F)[f].cancelled
                    => f \notin F /\ ~est_call[f].cancelled
    <2>1. CASE f \in F \cap Estimator!Running
      <3>1. Estimator!Cancel(F)[f] = [est_call[f] EXCEPT !.cancelled = TRUE]
        BY <2>1 DEF Estimator!Cancel
      <3>2. est_call[f] \in [slot : Slot, key : Key, cancelled : BOOLEAN]
        BY <2>1, IdleIsNone
      <3>3. /\ Estimator!Cancel(F)[f] \in [slot : Slot, key : Key, cancelled : BOOLEAN]
            /\ Estimator!Cancel(F)[f].slot = est_call[f].slot
            /\ Estimator!Cancel(F)[f].key = est_call[f].key
            /\ Estimator!Cancel(F)[f].cancelled = TRUE
        BY <3>1, <3>2
      <3>4. Estimator!Cancel(F)[f].key # "none" /\ est_call[f] # Estimator!Idle
        BY <2>1, <3>2, <3>3 DEF Estimator!Running, NamesAssumption
      <3> QED
        BY <3>3, <3>4 DEF Estimator!Idle
    <2>2. CASE f \notin F \cap Estimator!Running
      BY <2>2 DEF Estimator!Cancel, Estimator!TypeOK
    <2> QED
      BY <2>1, <2>2
  <1> QED
    BY <1>1 DEF Estimator!Cancel

\* The query of a slot is asked for when it is under way: the slot joins its flight.
LEMMA JoinFlightIInv ==
  ASSUME NamesAssumption, EstimatorIInv, NEW s \in Slot, Estimator!Join(s),
         est_waiting' \in [Slot -> Flight \cup {NoFlight}],
         est_answer' \in [Slot -> {"none", "pending", "estimate", "error"}],
         UNCHANGED <<est_cache, Estimator!formVars, est_closed>>
  PROVE  EstimatorIInv'
  <1> DEFINE g == est_flights[est_query[s]]
  <1> USE DEF EstimatorIInv, Estimator!CachedEstimatorSafe, NamesAssumption
  <1>1. /\ est_query[s] \notin est_cache /\ g # NoFlight /\ est_flights' = est_flights
        /\ est_active' = [est_active EXCEPT ![s] = [key |-> est_query[s], flight |-> g]]
        /\ est_call' = Estimator!Cancel(Estimator!Outdated(s))
    BY DEF Estimator!Join, Estimator!Activate
  <1>2. /\ est_query[s] \in Key /\ g \in Estimator!Running /\ est_call[g].key = est_query[s]
        /\ Estimator!Outdated(s) \in SUBSET Flight
    BY <1>1 DEF FlightsRun, Estimator!TypeOK, Estimator!Outdated
  <1>3. /\ est_call'
             \in [Flight -> {Estimator!Idle} \cup [slot : Slot, key : Key, cancelled : BOOLEAN]]
        /\ \A f \in Flight :
             /\ est_call'[f].slot = est_call[f].slot /\ est_call'[f].key = est_call[f].key
             /\ est_call'[f] # Estimator!Idle <=> est_call[f] # Estimator!Idle
             /\ f \in Estimator!Running /\ ~est_call'[f].cancelled
                  => f \notin Estimator!Outdated(s) /\ ~est_call[f].cancelled
    BY <1>1, <1>2, Cancelling
  <1>4. Estimator!Running' = Estimator!Running /\ Estimator!Running \subseteq Flight
    BY <1>3 DEF Estimator!Running
  <1>5. Estimator!TypeOK'
    BY <1>1, <1>2, <1>3, <1>4 DEF Estimator!TypeOK, Estimator!formVars
  <1>6. FlightsRun'
    BY <1>1, <1>3, <1>4 DEF FlightsRun
  <1>7. Estimator!EstimatedOnce'
    BY <1>1, <1>3, <1>4 DEF Estimator!EstimatedOnce
  <1>8. ASSUME ~est_closed, NEW f \in Estimator!Running, ~est_call'[f].cancelled
        PROVE  /\ est_active'[est_call[f].slot] = [key |-> est_call[f].key, flight |-> f]
               /\ est_flights[est_call[f].key] = f
    <2>1. /\ est_active[est_call[f].slot] = [key |-> est_call[f].key, flight |-> f]
          /\ est_flights[est_call[f].key] = f /\ f \notin Estimator!Outdated(s) /\ f \in Flight
      BY <1>3, <1>4, <1>8 DEF Estimator!LiveIsHeld, Estimator!Live
    <2>2. CASE est_call[f].slot = s
      <3>1. est_call[f].key = est_query[s]
        BY <2>1, <2>2 DEF Estimator!Outdated
      <3> QED
        BY <1>1, <2>1, <2>2, <3>1 DEF Estimator!TypeOK
    <2>3. CASE est_call[f].slot # s
      BY <1>1, <2>1, <2>3, IdleIsNone DEF Estimator!TypeOK
    <2> QED
      BY <2>1, <2>2, <2>3
  <1>9. Estimator!LiveIsHeld'
    BY <1>1, <1>3, <1>4, <1>8 DEF Estimator!LiveIsHeld, Estimator!Live
  <1> QED
    BY <1>5, <1>6, <1>7, <1>9

\* ... and when it is not: a flight is started.
LEMMA StartFlightIInv ==
  ASSUME NamesAssumption, EstimatorIInv, NEW s \in Slot, Estimator!Start(s),
         est_waiting' \in [Slot -> Flight \cup {NoFlight}],
         est_answer' \in [Slot -> {"none", "pending", "estimate", "error"}],
         UNCHANGED <<est_cache, Estimator!formVars, est_closed>>
  PROVE  EstimatorIInv'
  <1> USE DEF EstimatorIInv, Estimator!CachedEstimatorSafe, NamesAssumption
  <1>1. PICK g \in Flight \ Estimator!Running :
          /\ est_query[s] \notin est_cache /\ est_flights[est_query[s]] = NoFlight
          /\ est_active' = [est_active EXCEPT ![s] = [key |-> est_query[s], flight |-> g]]
          /\ est_flights' = [est_flights EXCEPT ![est_query[s]] = g]
          /\ est_call' = [Estimator!Cancel(Estimator!Outdated(s)) EXCEPT
                       ![g] = [slot |-> s, key |-> est_query[s], cancelled |-> FALSE]]
    BY DEF Estimator!Start, Estimator!Activate
  <1>2. est_query[s] \in Key /\ Estimator!Outdated(s) \in SUBSET Flight
    BY DEF Estimator!TypeOK, Estimator!Outdated
  <1>3. /\ est_call'
             \in [Flight -> {Estimator!Idle} \cup [slot : Slot, key : Key, cancelled : BOOLEAN]]
        /\ \A f \in Flight \ {g} :
             /\ est_call'[f].slot = est_call[f].slot /\ est_call'[f].key = est_call[f].key
             /\ est_call'[f] # Estimator!Idle <=> est_call[f] # Estimator!Idle
             /\ f \in Estimator!Running /\ ~est_call'[f].cancelled
                  => f \notin Estimator!Outdated(s) /\ ~est_call[f].cancelled
        /\ est_call'[g] = [slot |-> s, key |-> est_query[s], cancelled |-> FALSE]
    BY <1>1, <1>2, Cancelling
  <1>4. Estimator!Running' = Estimator!Running \cup {g} /\ Estimator!Running \subseteq Flight
    <2>1. est_call'[g].key # "none"
      BY <1>2, <1>3
    <2>2. est_call'[g] # Estimator!Idle
      BY <2>1 DEF Estimator!Idle
    <2> QED
      BY <1>1, <1>3, <2>2 DEF Estimator!Running
  <1>5. Estimator!TypeOK'
    BY <1>1, <1>2, <1>3 DEF Estimator!TypeOK, Estimator!formVars
  <1>6. FlightsRun'
    BY <1>1, <1>2, <1>3, <1>4 DEF FlightsRun, Estimator!TypeOK
  <1>7. \A f \in Estimator!Running : ~est_closed => est_call[f].key # est_query[s]
    BY <1>1 DEF Estimator!EstimatedOnce, Estimator!Running
  <1>8. Estimator!EstimatedOnce'
    BY <1>1, <1>2, <1>3, <1>4, <1>7 DEF Estimator!EstimatedOnce, Estimator!TypeOK
  <1>9. ASSUME ~est_closed, NEW f \in Estimator!Running, ~est_call'[f].cancelled
        PROVE  /\ est_active'[est_call[f].slot] = [key |-> est_call[f].key, flight |-> f]
               /\ est_flights'[est_call[f].key] = f
    <2>1. /\ est_active[est_call[f].slot] = [key |-> est_call[f].key, flight |-> f]
          /\ est_flights[est_call[f].key] = f /\ f \notin Estimator!Outdated(s)
          /\ f \in Flight \ {g}
      BY <1>1, <1>3, <1>4, <1>9 DEF Estimator!LiveIsHeld, Estimator!Live
    <2>2. est_call[f].slot # s
      BY <1>7, <1>9, <2>1 DEF Estimator!Outdated
    <2> QED
      BY <1>1, <1>2, <1>7, <1>9, <2>1, <2>2, IdleIsNone DEF Estimator!TypeOK
  <1>10. Estimator!LiveIsHeld'
    BY <1>1, <1>2, <1>3, <1>4, <1>9 DEF Estimator!LiveIsHeld, Estimator!Live, Estimator!TypeOK
  <1> QED
    BY <1>5, <1>6, <1>8, <1>10

\* The flight leaves both maps, whatever came of it, and no live one loses its entries.
LEMMA FlightEndsIInv ==
  ASSUME NamesAssumption, EstimatorIInv, NEW f \in Flight, NEW estimated \in BOOLEAN,
         Estimator!FlightEnds(f, estimated)
  PROVE  EstimatorIInv'
  <1> DEFINE t == est_call[f].slot
             k == est_call[f].key
  <1> USE DEF EstimatorIInv, Estimator!CachedEstimatorSafe, NamesAssumption
  <1>1. /\ f \in Estimator!Running /\ est_call' = [est_call EXCEPT ![f] = Estimator!Idle]
        /\ est_cache' = IF estimated THEN est_cache \cup {k} ELSE est_cache
        /\ est_flights' = [est_flights EXCEPT ![k] = NoFlight]
        /\ est_active' = [s \in Slot |->
             IF s = t /\ est_active[s].key = k THEN Estimator!NoTask
             ELSE IF est_active[s].flight = f THEN [est_active[s] EXCEPT !.flight = NoFlight]
               ELSE est_active[s]]
        /\ UNCHANGED <<Estimator!formVars, est_closed>>
    BY DEF Estimator!FlightEnds, Estimator!Forget
  <1>2. t \in Slot /\ k \in Key
    BY <1>1, IdleIsNone
  <1>3. /\ est_waiting' \in [Slot -> Flight \cup {NoFlight}]
        /\ est_answer' \in [Slot -> {"none", "pending", "estimate", "error"}]
    BY DEF Estimator!FlightEnds, Estimator!TypeOK
  <1>4. est_active'
          \in [Slot -> {Estimator!NoTask} \cup [key : Key, flight : Flight \cup {NoFlight}]]
    <2>1. ASSUME NEW s \in Slot
          PROVE  est_active'[s]
                   \in {Estimator!NoTask} \cup [key : Key, flight : Flight \cup {NoFlight}]
      <3>1. CASE s = t /\ est_active[s].key = k
        BY <1>1, <3>1
      <3>2. CASE ~(s = t /\ est_active[s].key = k) /\ est_active[s].flight = f
        <4>1. est_active[s] \in [key : Key, flight : Flight \cup {NoFlight}]
          BY <3>2 DEF Estimator!TypeOK, Estimator!NoTask
        <4> QED
          BY <1>1, <3>2, <4>1
      <3>3. CASE ~(s = t /\ est_active[s].key = k) /\ est_active[s].flight # f
        BY <1>1, <3>3 DEF Estimator!TypeOK
      <3> QED
        BY <3>1, <3>2, <3>3
    <2> QED
      BY <1>1, <2>1
  <1>5. Estimator!TypeOK'
    BY <1>1, <1>2, <1>3, <1>4 DEF Estimator!TypeOK, Estimator!formVars
  <1>6. /\ Estimator!Running' = Estimator!Running \ {f}
        /\ \A g \in Estimator!Running' : est_call'[g] = est_call[g] /\ g \in Flight
    BY <1>1 DEF Estimator!Running, Estimator!TypeOK
  <1>7. FlightsRun'
    <2>1. ASSUME NEW l \in Key, est_flights'[l] # NoFlight
          PROVE  est_flights'[l] \in Estimator!Running' /\ est_call'[est_flights'[l]].key = l
      <3>1. l # k /\ est_flights'[l] = est_flights[l]
        BY <1>1, <1>2, <2>1 DEF Estimator!TypeOK
      <3>2. est_flights[l] \in Estimator!Running /\ est_call[est_flights[l]].key = l
        BY <2>1, <3>1 DEF FlightsRun
      <3> QED
        BY <1>6, <3>1, <3>2
    <2> QED
      BY <2>1 DEF FlightsRun
  <1>8. ASSUME ~est_closed, NEW g \in Estimator!Running'
        PROVE  /\ est_call[g].key # k /\ est_call[g].key \notin est_cache
               /\ est_flights[est_call[g].key] = g
               /\ est_call[g].slot \in Slot /\ est_call[g].key \in Key
    BY <1>1, <1>6, <1>8, IdleIsNone DEF Estimator!EstimatedOnce
  <1>9. Estimator!EstimatedOnce'
    BY <1>1, <1>6, <1>8 DEF Estimator!EstimatedOnce, Estimator!TypeOK
  <1>10. ASSUME ~est_closed, NEW g \in Estimator!Live'
         PROVE  /\ est_flights'[est_call'[g].key] = g
                /\ est_active'[est_call'[g].slot] = [key |-> est_call'[g].key, flight |-> g]
    <2>1. g \in Estimator!Live /\ g \in Estimator!Running' /\ g # f
      BY <1>6, <1>10 DEF Estimator!Live
    <2>2. est_active[est_call[g].slot] = [key |-> est_call[g].key, flight |-> g]
      BY <1>10, <2>1 DEF Estimator!LiveIsHeld
    <2> QED
      BY <1>1, <1>6, <1>8, <1>10, <2>1, <2>2 DEF Estimator!TypeOK
  <1>11. Estimator!LiveIsHeld'
    BY <1>1, <1>10 DEF Estimator!LiveIsHeld
  <1> QED
    BY <1>5, <1>7, <1>9, <1>11

LEMMA NextEstimatorIInv == ASSUME NamesAssumption, EstimatorIInv, [Estimator!Next]_(Estimator!vars)
                           PROVE EstimatorIInv'
  <1> USE DEF EstimatorIInv, Estimator!CachedEstimatorSafe
  <1>1. ASSUME NEW s \in Slot, NEW k \in Key, Estimator!EditQuery(s, k) PROVE EstimatorIInv'
    <2>1. est_edits \in Nat /\ est_edits < MaxEdits /\ est_edits' = est_edits + 1
      BY <1>1 DEF Estimator!EditQuery, Estimator!TypeOK, NamesAssumption
    <2>2. Estimator!TypeOK'
      BY <1>1, <2>1 DEF Estimator!EditQuery, Estimator!TypeOK, NamesAssumption
    <2> QED
      BY <1>1, <2>2
      DEF Estimator!EditQuery, Estimator!LiveIsHeld, Estimator!EstimatedOnce, FlightsRun,
          Estimator!Running, Estimator!Live
  <1>2. ASSUME NEW s \in Slot, Estimator!Poll(s) PROVE EstimatorIInv'
    <2>1. est_answer' \in [Slot -> {"none", "pending", "estimate", "error"}]
      BY <1>2 DEF Estimator!Poll, Estimator!Cached, Estimator!TypeOK
    <2>2. /\ UNCHANGED <<est_cache, est_waiting, Estimator!formVars, est_closed>>
          /\ est_waiting \in [Slot -> Flight \cup {NoFlight}]
      BY <1>2 DEF Estimator!Poll, Estimator!TypeOK
    <2>3. CASE UNCHANGED <<est_flights, est_active, est_call>>
      <3>1. Estimator!TypeOK'
        BY <2>1, <2>2, <2>3 DEF Estimator!TypeOK, Estimator!formVars
      <3> QED
        BY <2>2, <2>3, <3>1
        DEF Estimator!LiveIsHeld, Estimator!EstimatedOnce, FlightsRun, Estimator!Running,
            Estimator!Live
    <2>4. CASE Estimator!Join(s)
      BY <2>1, <2>2, <2>4, JoinFlightIInv
    <2>5. CASE Estimator!Start(s)
      BY <2>1, <2>2, <2>5, StartFlightIInv
    <2> QED
      BY <1>2, <2>3, <2>4, <2>5 DEF Estimator!Poll, Estimator!Cached
  <1>3. ASSUME NEW s \in Slot, Estimator!Wait(s) PROVE EstimatorIInv'
    <2>1. /\ est_query[s] \in Key /\ s \in DOMAIN est_active
          /\ est_flights[est_query[s]] \in Flight \cup {NoFlight}
      BY DEF Estimator!TypeOK
    <2>2. Estimator!Join(s) \/ Estimator!Start(s)
            => est_active'[s].flight \in Flight \cup {NoFlight}
      BY <2>1 DEF Estimator!Join, Estimator!Start, Estimator!Activate
    <2>3. est_waiting' \in [Slot -> Flight \cup {NoFlight}]
      BY <1>3, <2>2 DEF Estimator!Wait, Estimator!TypeOK
    <2>4. /\ UNCHANGED <<est_cache, est_answer, Estimator!formVars, est_closed>>
          /\ est_answer \in [Slot -> {"none", "pending", "estimate", "error"}]
      BY <1>3 DEF Estimator!Wait, Estimator!TypeOK
    <2>5. CASE Estimator!Join(s)
      BY <2>3, <2>4, <2>5, JoinFlightIInv
    <2>6. CASE Estimator!Start(s)
      BY <2>3, <2>4, <2>6, StartFlightIInv
    <2> QED
      BY <1>3, <2>5, <2>6 DEF Estimator!Wait
  <1>4. ASSUME NEW f \in Flight, Estimator!Ends(f) PROVE EstimatorIInv'
    BY <1>4, FlightEndsIInv DEF Estimator!Ends
  <1>5. CASE Estimator!Close
    <2> DEFINE F == {f \in Flight : \/ \E s \in Slot : est_active[s].flight = f
                                   \/ \E k \in Key : est_flights[k] = f}
    <2>1. /\ est_closed' = TRUE /\ est_call' = Estimator!Cancel(F) /\ est_cache' = {}
          /\ est_active' = [s \in Slot |-> Estimator!NoTask]
          /\ est_flights' = [k \in Key |-> NoFlight]
          /\ UNCHANGED <<est_waiting, est_answer, Estimator!formVars>>
      BY <1>5 DEF Estimator!Close
    <2>2. est_call'
            \in [Flight -> {Estimator!Idle} \cup [slot : Slot, key : Key, cancelled : BOOLEAN]]
      BY <2>1, Cancelling
    <2>3. Estimator!TypeOK'
      BY <2>1, <2>2 DEF Estimator!TypeOK, Estimator!formVars
    <2> QED
      BY <2>1, <2>3 DEF Estimator!LiveIsHeld, Estimator!EstimatedOnce, FlightsRun
  <1>6. CASE UNCHANGED Estimator!vars
    BY <1>6 DEF Estimator!vars, Estimator!formVars, Estimator!TypeOK, Estimator!LiveIsHeld,
                Estimator!EstimatedOnce, FlightsRun, Estimator!Running, Estimator!Live
  <1> QED
    BY <1>1, <1>2, <1>3, <1>4, <1>5, <1>6 DEF Estimator!Next

\* However slots share flights, move on and come back, and whatever order flights end in:
\* until Close a query is under estimation at most once and never when its estimate is
\* there, and every live flight is held, and can be cancelled, by the slot that started it.
THEOREM EstimationsAreHeld == Estimator!Spec => []CachedEstimatorSafe
  <1>1. Estimator!Init => EstimatorIInv
    BY NamesAreFree, InitEstimatorIInv
  <1>2. EstimatorIInv /\ [Estimator!Next]_(Estimator!vars) => EstimatorIInv'
    BY NamesAreFree, NextEstimatorIInv
  <1>3. EstimatorIInv => CachedEstimatorSafe
    BY DEF EstimatorIInv, CachedEstimatorSafe
  <1> QED
    BY <1>1, <1>2, <1>3, PTL DEF Estimator!Spec

-----------------------------------------------------------------------------
(* Jobs that are polled.  A job that works and was not told to stop is the *)
(* current one, even when no call finds it any more.                       *)

Started == {j \in Jobs!Job : job_job[j] # "none"}

\* Only what was started in this process is known of.
KnownWereStarted ==
  /\ \A j \in Started : j <= job_generated
  /\ job_jobs \cup job_sweep \cup job_expired \subseteq Started
  /\ \A c \in Client : job_client[c] = "started" => job_id[c] \in Started

\* All jobs at work but the current one have been told to stop, those no call finds any
\* more included.
OthersAreCancelled ==
  /\ Jobs!Running \ job_cancelled \subseteq {job_current}
  /\ Jobs!Running \subseteq job_jobs \cup job_cancelled

\* A job at work expires only when it was not polled for long, so the sweep that evicts it
\* cancels it first.
ExpiredAreQuiet == job_expired \cap Jobs!Running \subseteq job_quiet

JobIInv ==
  /\ Jobs!TypeOK /\ Jobs!SweptAreCancelled
  /\ KnownWereStarted /\ OthersAreCancelled /\ ExpiredAreQuiet

LEMMA JobsCardinality == \A S : Jobs!Cardinality(S) = Cardinality(S)
  BY Zenon DEF Jobs!Cardinality, Cardinality

LEMMA JobIInvImplies == JobIInv => AsyncJobSafe
  <1> SUFFICES ASSUME JobIInv PROVE Jobs!OneLiveJob
    BY DEF JobIInv, AsyncJobSafe, Jobs!AsyncJobSafe
  <1>1. Jobs!Running \ job_cancelled \in SUBSET {job_current}
    BY DEF JobIInv, OthersAreCancelled
  <1>2. IsFiniteSet({job_current}) /\ Cardinality({job_current}) = 1
    BY FS_Singleton
  <1>3. Cardinality(Jobs!Running \ job_cancelled) <= 1
    BY <1>1, <1>2, FS_Subset
  <1> QED
    BY <1>3, JobsCardinality DEF Jobs!OneLiveJob

LEMMA JobInit == Jobs!Init => JobIInv
  <1> SUFFICES ASSUME Jobs!Init PROVE JobIInv
    OBVIOUS
  <1> USE ServerAssumption DEF Jobs!Init, Jobs!NoJobs
  <1>1. Jobs!TypeOK
    <2>1. job_job \in [Jobs!Job -> {"none"}]
      OBVIOUS
    <2>2. job_client \in [Client -> {"calling"}] /\ job_id \in [Client -> {0}]
      OBVIOUS
    <2>3. job_restarts \in 0..MaxRestarts
      OBVIOUS
    <2> QED
      BY <2>1, <2>2, <2>3 DEF Jobs!TypeOK
  <1>2. Started = {}
    BY DEF Started
  <1> QED
    BY <1>1, <1>2 DEF JobIInv, Jobs!SweptAreCancelled, KnownWereStarted, Started,
                      OthersAreCancelled, ExpiredAreQuiet, Jobs!Running

LEMMA JobStep == JobIInv /\ [Jobs!Next]_(Jobs!vars) => JobIInv'
  <1> SUFFICES ASSUME JobIInv, [Jobs!Next]_(Jobs!vars) PROVE JobIInv'
    OBVIOUS
  <1> USE ServerAssumption DEF JobIInv, Jobs!TypeOK, Jobs!SweptAreCancelled, KnownWereStarted,
          Started,
         OthersAreCancelled, ExpiredAreQuiet, Jobs!Running, Jobs!Job, Jobs!timeVars, Jobs!jobVars
  <1>1. ASSUME NEW c \in Client, Jobs!StartJob(c) PROVE JobIInv'
    <2> USE DEF Jobs!StartJob, Jobs!Superseded
    <2>1. Jobs!TypeOK'
      <3>1. job_generated + 1 \in Jobs!Job BY <1>1
      <3> QED BY <1>1, <3>1
    <2>2. Jobs!SweptAreCancelled' BY <1>1
    <2>3. KnownWereStarted' BY <1>1
    <2>4. OthersAreCancelled' BY <1>1
    <2>5. ExpiredAreQuiet' BY <1>1
    <2> QED BY <2>1, <2>2, <2>3, <2>4, <2>5
  <1>2. ASSUME NEW c \in Client, Jobs!FastAnswer(c) PROVE JobIInv'
    BY <1>2 DEF Jobs!FastAnswer, Jobs!Answered
  <1>3. ASSUME NEW c \in Client, Jobs!AnswerLost(c) PROVE JobIInv'
    BY <1>3 DEF Jobs!AnswerLost
  <1>4. ASSUME NEW c \in Client, Jobs!PollJob(c) PROVE JobIInv'
    BY <1>4 DEF Jobs!PollJob, Jobs!Answered
  <1>5. ASSUME NEW c \in Client, Jobs!JobNotFound(c) PROVE JobIInv'
    BY <1>5 DEF Jobs!JobNotFound
  <1>6. ASSUME NEW c \in Client, Jobs!Leave(c) PROVE JobIInv'
    BY <1>6 DEF Jobs!Leave
  <1>7. ASSUME NEW j \in Jobs!Job, NEW outcome \in {"done", "error"}, Jobs!JobEnds(j, outcome)
        PROVE JobIInv'
    BY <1>7 DEF Jobs!JobEnds
  <1>8. ASSUME NEW j \in Jobs!Job, Jobs!TimePasses(j) PROVE JobIInv'
    BY <1>8 DEF Jobs!TimePasses
  <1>9. ASSUME Jobs!Expirations PROVE JobIInv'
    BY <1>9 DEF Jobs!Expirations
  <1>10. ASSUME NEW j \in Jobs!Job, Jobs!Evict(j) PROVE JobIInv'
    BY <1>10 DEF Jobs!Evict
  <1>11. ASSUME Jobs!Close PROVE JobIInv'
    BY <1>11 DEF Jobs!Close
  <1>12. ASSUME Jobs!Restart PROVE JobIInv'
    <2> USE DEF Jobs!Restart, Jobs!NoJobs
    <2>1. /\ job_job' \in [Jobs!Job -> {"none"}]
          /\ job_client' \in [Client -> {"calling", "polling", "ready", "failed", "gone"}]
          /\ job_restarts' \in 0..MaxRestarts
      BY <1>12
    <2>2. Jobs!TypeOK'
      BY <1>12, <2>1
    <2> QED
      BY <1>12, <2>1, <2>2
  <1>13. ASSUME UNCHANGED Jobs!vars PROVE JobIInv'
    BY <1>13 DEF Jobs!vars
  <1> HIDE DEF JobIInv, Jobs!Job
  <1> QED
    BY <1>1, <1>2, <1>3, <1>4, <1>5, <1>6, <1>7, <1>8, <1>9, <1>10, <1>11, <1>12, <1>13
       DEF Jobs!Next, Jobs!PollStep, Jobs!Ends, Jobs!Cleaner

\* However calls are lost, repeated, cancelled and swept, at most one job works that has
\* not been told to stop, for any number of clients, jobs and restarts.
THEOREM OneJobWorks == Jobs!Spec => []AsyncJobSafe
  BY JobInit, JobStep, JobIInvImplies, PTL DEF Jobs!Spec

-----------------------------------------------------------------------------
(* The popups of a login.  That no request takes away the popup of another *)
(* rests on the order of the requests alone: the popup on display may well *)
(* be another one's than that of the request that dismisses it.            *)

\* The requests that were made, and the redirects that may still yield a token.
Made == {r \in OAuth!Request : oauth_phase[r] # "none"}
Alive(h) == oauth_login[h] \in {"exchanging", "token", "accepted"}

LoginHistory ==
  /\ \A r \in Made : \A q \in 1 .. r - 1 : oauth_phase[q] = "done"
  /\ \A r \in OAuth!Request : oauth_phase[r] = "none" => oauth_popup[r] = "none"
  /\ \A r \in OAuth!Request : oauth_phase[r] = "dismissing" => oauth_dismissing # 0
  /\ oauth_current \in Made \cup {0} /\ oauth_inbox \in Seq(Made \cup {0})
  /\ oauth_screen \in Made \cup {0} /\ oauth_windows \subseteq Made /\ oauth_codes \subseteq Made
  /\ \A h \in OAuth!Redirect : oauth_login[h] # "none" => oauth_of[h] \in oauth_windows
  /\ \A h \in OAuth!Redirect : Alive(h) => oauth_of[h] \notin oauth_codes

LoginIInv == OAuth!OAuthPopupSafe /\ LoginHistory

NumbersAssumption ==
  MaxRequests \in Nat /\ MaxRedirects \in Nat /\ Capacity \in Nat \ {0}

LEMMA NumbersAreSane == NumbersAssumption
  BY ServerAssumption DEF ServerAssumption, NumbersAssumption

LEMMA InitLoginIInv == ASSUME NumbersAssumption, OAuth!Init PROVE LoginIInv
  BY DEF NumbersAssumption, OAuth!Init, LoginIInv, OAuth!OAuthPopupSafe, OAuth!TypeOK,
         OAuth!ShownIsAwaited, OAuth!WaitingIsAsked, OAuth!ExchangedOnce, LoginHistory, Made, Alive,
         OAuth!Request, OAuth!Redirect

LEMMA SeqGrows == ASSUME NEW S, NEW T, S \subseteq T, NEW s \in Seq(S) PROVE s \in Seq(T)
  <1>1. Len(s) \in Nat /\ s \in [1 .. Len(s) -> T]
    OBVIOUS
  <1> QED
    BY <1>1, SeqDef

LEMMA BroadcastType ==
  ASSUME NumbersAssumption, NEW S, oauth_inbox \in Seq(S), Len(oauth_inbox) <= Capacity,
         NEW p \in S,
         OAuth!Broadcast(p)
  PROVE  oauth_inbox' \in Seq(S) /\ Len(oauth_inbox') <= Capacity
  BY DEF NumbersAssumption, OAuth!Broadcast

LEMMA ShowPopupIInv ==
  ASSUME NumbersAssumption, LoginIInv, NEW r \in OAuth!Request, OAuth!ShowPopup(r) PROVE LoginIInv'
  <1> USE DEF LoginIInv, OAuth!OAuthPopupSafe, OAuth!TypeOK, LoginHistory, OAuth!Request
  <1>1. /\ oauth_popup[r] = "pending" /\ oauth_popup' = [oauth_popup EXCEPT ![r] = "shown"]
        /\ oauth_current' = r /\ \A q \in OAuth!Request : oauth_popup[q] # "shown"
        /\ UNCHANGED <<oauth_phase, oauth_answered, oauth_dismissing, oauth_codes, oauth_login,
                       oauth_of, oauth_screen, oauth_windows>>
    BY DEF OAuth!ShowPopup, OAuth!requestVars, OAuth!loginVars, OAuth!pageVars
  <1>2. r \in Made /\ Made' = Made
    BY <1>1 DEF Made
  <1>3. oauth_inbox' \in Seq(Made \cup {0}) /\ Len(oauth_inbox') <= Capacity
    BY <1>2, BroadcastType DEF OAuth!ShowPopup
  <1>4. oauth_inbox' \in Seq({0} \cup OAuth!Request)
    BY <1>2, BroadcastType DEF OAuth!ShowPopup
  <1>5. OAuth!TypeOK'
    BY <1>1, <1>3, <1>4
  <1>6. LoginHistory'
    BY <1>1, <1>2, <1>3 DEF Alive
  <1>7. OAuth!ShownIsAwaited'
    BY <1>1 DEF OAuth!ShownIsAwaited
  <1>8. OAuth!WaitingIsAsked' /\ OAuth!ExchangedOnce'
    BY <1>1 DEF OAuth!WaitingIsAsked, OAuth!ExchangedOnce
  <1> QED
    BY <1>5, <1>6, <1>7, <1>8

\* When r dismisses, all the requests before it are done, and none after it was made.
LEMMA DismissIInv ==
  ASSUME NumbersAssumption, LoginIInv, NEW r \in OAuth!Request, OAuth!Dismiss(r) PROVE LoginIInv'
  <1> USE DEF LoginIInv, OAuth!OAuthPopupSafe, OAuth!TypeOK, LoginHistory, OAuth!Request
  <1>1. /\ oauth_phase[r] = "dismissing" /\ oauth_phase' = [oauth_phase EXCEPT ![r] = "done"]
        /\ oauth_dismissing' = 0 /\ OAuth!DismissActivePopup(oauth_dismissing)
        /\ UNCHANGED <<oauth_answered, oauth_codes, oauth_login, oauth_of, oauth_screen,
                       oauth_windows>>
    BY DEF OAuth!Dismiss, OAuth!loginVars, OAuth!pageVars
  <1>2. /\ Made' = Made
        /\ \A q \in OAuth!Request :
             oauth_phase[q] # "waiting" /\ (q # r => oauth_phase[q] # "dismissing")
    <2>1. ASSUME NEW q \in OAuth!Request, q # r PROVE oauth_phase[q] \in {"none", "done"}
      <3>1. CASE q < r
        <4>1. q \in 1 .. r - 1 /\ r \in Made
          BY <1>1, <3>1 DEF Made, NumbersAssumption
        <4> QED
          BY <4>1
      <3>2. CASE r < q
        <4>1. r \in 1 .. q - 1
          BY <3>2 DEF NumbersAssumption
        <4> QED
          BY <1>1, <4>1 DEF Made
      <3> QED
        BY <2>1, <3>1, <3>2 DEF NumbersAssumption
    <2> QED
      BY <1>1, <2>1 DEF Made
  <1>3. CASE oauth_current # oauth_dismissing /\ UNCHANGED OAuth!popupVars
    <2>1. OAuth!TypeOK' /\ LoginHistory'
      BY <1>1, <1>2, <1>3 DEF OAuth!popupVars, Alive
    <2> QED
      BY <1>1, <1>2, <1>3, <2>1
      DEF OAuth!popupVars, OAuth!ShownIsAwaited, OAuth!WaitingIsAsked, OAuth!ExchangedOnce
  <1>4. CASE /\ oauth_current = oauth_dismissing
             /\ oauth_popup' = [oauth_popup EXCEPT ![oauth_dismissing] = "closed"]
             /\ oauth_current' = 0 /\ OAuth!Broadcast(0)
    <2>1. oauth_dismissing \in OAuth!Request /\ oauth_popup[oauth_dismissing] = "shown"
      BY <1>1, <1>4 DEF OAuth!ShownIsAwaited
    <2>2. oauth_inbox' \in Seq(Made \cup {0}) /\ Len(oauth_inbox') <= Capacity
      BY <1>4, BroadcastType
    <2>3. oauth_inbox' \in Seq({0} \cup OAuth!Request)
      BY <1>4, BroadcastType
    <2>4. OAuth!TypeOK'
      BY <1>1, <1>4, <2>1, <2>2, <2>3
    <2>5. LoginHistory'
      BY <1>1, <1>2, <1>4, <2>1, <2>2 DEF Alive
    <2>6. OAuth!ShownIsAwaited'
      BY <1>4, <2>1 DEF OAuth!ShownIsAwaited
    <2>7. OAuth!WaitingIsAsked' /\ OAuth!ExchangedOnce'
      BY <1>1, <1>2 DEF OAuth!WaitingIsAsked, OAuth!ExchangedOnce
    <2> QED
      BY <2>4, <2>5, <2>6, <2>7
  <1> QED
    BY <1>1, <1>3, <1>4 DEF OAuth!DismissActivePopup

LEMMA RequestTokenIInv ==
  ASSUME NumbersAssumption, LoginIInv, NEW r \in OAuth!Request, OAuth!RequestToken(r)
  PROVE LoginIInv'
  <1> USE DEF LoginIInv, OAuth!OAuthPopupSafe, OAuth!TypeOK, LoginHistory, OAuth!Request
  <1>1. /\ oauth_phase[r] = "none" /\ \A q \in 1 .. r - 1 : oauth_phase[q] = "done"
        /\ oauth_codes' = oauth_codes \cup {r}
        /\ oauth_phase' = [oauth_phase EXCEPT ![r] = "waiting"]
        /\ oauth_popup' = [oauth_popup EXCEPT ![r] = "pending"]
        /\ UNCHANGED <<oauth_answered, oauth_dismissing, oauth_current, oauth_inbox, oauth_login,
                       oauth_of, oauth_screen, oauth_windows>>
    BY DEF OAuth!RequestToken, OAuth!InTurn, OAuth!loginVars, OAuth!pageVars
  <1>2. Made' = Made \cup {r} /\ r \notin Made
    BY <1>1 DEF Made
  <1>3. oauth_inbox' \in Seq(Made' \cup {0})
    BY <1>1, <1>2
  <1>4. \A q \in Made : q < r
    BY <1>1 DEF Made, NumbersAssumption
  <1>5. \A q \in Made' : \A p \in 1 .. q - 1 : oauth_phase'[p] = "done"
    BY <1>1, <1>2, <1>4
  <1>6. \A h \in OAuth!Redirect : Alive(h)' => oauth_of'[h] \notin oauth_codes'
    BY <1>1, <1>2 DEF Alive
  <1>7. OAuth!TypeOK'
    BY <1>1
  <1>8. LoginHistory'
    BY <1>1, <1>2, <1>3, <1>5, <1>6
  <1>9. OAuth!ShownIsAwaited'
    BY <1>1 DEF OAuth!ShownIsAwaited
  <1>10. OAuth!WaitingIsAsked' /\ OAuth!ExchangedOnce'
    BY <1>1 DEF OAuth!WaitingIsAsked, OAuth!ExchangedOnce
  <1> QED
    BY <1>7, <1>8, <1>9, <1>10

\* A request stops waiting, or finds the popup it will dismiss.
LEMMA PhaseStep ==
  ASSUME NumbersAssumption, LoginIInv, NEW r \in OAuth!Request,
         NEW v \in {"returning", "dismissing", "done"},
         oauth_phase[r] \in {"waiting", "returning"}, oauth_phase' = [oauth_phase EXCEPT ![r] = v],
         v = "dismissing" => oauth_dismissing' # 0, oauth_dismissing' \in {0} \cup OAuth!Request,
         \A q \in OAuth!Request : q # r => oauth_phase[q] # "dismissing",
         oauth_answered' \in [OAuth!Request -> {0} \cup OAuth!Redirect],
         oauth_login'
           \in [OAuth!Redirect -> {"none", "exchanging", "token", "error", "accepted", "refused"}],
         \A h \in OAuth!Redirect :
           /\ oauth_login'[h] # "none" => oauth_login[h] # "none"
           /\ Alive(h)' => Alive(h),
         UNCHANGED <<OAuth!popupVars, oauth_codes, oauth_of, OAuth!pageVars>>
  PROVE  LoginIInv'
  <1> USE DEF LoginIInv, OAuth!OAuthPopupSafe, OAuth!TypeOK, LoginHistory, OAuth!Request,
              OAuth!popupVars, OAuth!pageVars
  <1>1. Made' = Made
    BY DEF Made
  <1>2. OAuth!TypeOK'
    OBVIOUS
  <1>3. \A q \in Made : \A p \in 1 .. q - 1 : oauth_phase'[p] = "done"
    BY DEF Made
  <1>4. LoginHistory'
    BY <1>1, <1>3
  <1>5. OAuth!ShownIsAwaited'
    BY DEF OAuth!ShownIsAwaited
  <1>6. OAuth!WaitingIsAsked'
    BY DEF OAuth!WaitingIsAsked
  <1>7. OAuth!ExchangedOnce'
    BY DEF OAuth!ExchangedOnce, Alive
  <1> QED
    BY <1>2, <1>4, <1>5, <1>6, <1>7

\* The page receives, or subscribes anew.
LEMMA PageStep ==
  ASSUME NumbersAssumption, LoginIInv,
         UNCHANGED <<OAuth!requestVars, oauth_popup, oauth_current, oauth_codes, OAuth!loginVars>>,
         oauth_inbox' \in Seq(Made \cup {0}), Len(oauth_inbox') <= Capacity,
         oauth_screen' \in {0} \cup Made, oauth_windows' \subseteq oauth_windows \cup Made,
         oauth_windows \subseteq oauth_windows'
  PROVE  LoginIInv'
  <1> USE DEF LoginIInv, OAuth!OAuthPopupSafe, OAuth!TypeOK, LoginHistory, OAuth!requestVars,
              OAuth!loginVars
  <1>1. Made' = Made /\ Made \subseteq OAuth!Request
    BY DEF Made
  <1>2. oauth_inbox' \in Seq({0} \cup OAuth!Request)
    BY <1>1, SeqGrows
  <1>3. OAuth!TypeOK'
    BY <1>1, <1>2
  <1>4. LoginHistory'
    BY <1>1 DEF Alive
  <1> QED
    BY <1>3, <1>4 DEF OAuth!ShownIsAwaited, OAuth!WaitingIsAsked, OAuth!ExchangedOnce

LEMMA ReceiveIInv == ASSUME NumbersAssumption, LoginIInv, OAuth!Receive PROVE LoginIInv'
  <1>1. /\ oauth_inbox # <<>> /\ oauth_inbox' = Tail(oauth_inbox)
        /\ oauth_screen' = Head(oauth_inbox)
        /\ oauth_windows' = oauth_windows \cup ({oauth_screen'} \ {0})
        /\ UNCHANGED <<OAuth!requestVars, oauth_popup, oauth_current, oauth_codes, OAuth!loginVars>>
    BY DEF OAuth!Receive
  <1>2. /\ oauth_inbox \in Seq(Made \cup {0}) /\ Len(oauth_inbox) <= Capacity
        /\ Capacity \in Nat
    BY DEF LoginIInv, OAuth!OAuthPopupSafe, OAuth!TypeOK, LoginHistory, NumbersAssumption
  <1>3. Head(oauth_inbox) \in Made \cup {0} /\ Tail(oauth_inbox) \in Seq(Made \cup {0})
    BY <1>1, <1>2
  <1>4. Len(Tail(oauth_inbox)) <= Capacity
    BY <1>1, <1>2
  <1> QED
    BY <1>1, <1>3, <1>4, PageStep

LEMMA ReconnectIInv == ASSUME NumbersAssumption, LoginIInv, OAuth!Reconnect PROVE LoginIInv'
  <1>1. /\ oauth_inbox' = <<oauth_current>> /\ UNCHANGED <<oauth_screen, oauth_windows>>
        /\ UNCHANGED <<OAuth!requestVars, oauth_popup, oauth_current, oauth_codes, OAuth!loginVars>>
    BY DEF OAuth!Reconnect, OAuth!pageVars
  <1>2. <<oauth_current>> \in Seq(Made \cup {0}) /\ Len(<<oauth_current>>) <= Capacity
    BY DEF LoginIInv, LoginHistory, NumbersAssumption
  <1>3. oauth_screen \in {0} \cup Made
    BY DEF LoginIInv, LoginHistory
  <1> QED
    BY <1>1, <1>2, <1>3, PageStep

\* One code is exchanged by one handler, however often its window was opened.
LEMMA UserIsRedirectedIInv ==
  ASSUME NumbersAssumption, LoginIInv, NEW h \in OAuth!Redirect, OAuth!UserIsRedirected(h)
  PROVE LoginIInv'
  <1> USE DEF LoginIInv, OAuth!OAuthPopupSafe, OAuth!TypeOK, LoginHistory, OAuth!Request
  <1>1. PICK r \in oauth_windows :
          /\ oauth_of' = [oauth_of EXCEPT ![h] = r]
          /\ \/ /\ r \in oauth_codes /\ oauth_codes' = oauth_codes \ {r}
                /\ oauth_login' = [oauth_login EXCEPT ![h] = "exchanging"]
             \/ oauth_login' = [oauth_login EXCEPT ![h] = "error"] /\ UNCHANGED oauth_codes
    BY DEF OAuth!UserIsRedirected
  <1>2. oauth_login[h] = "none" /\ UNCHANGED <<OAuth!requestVars, OAuth!popupVars, OAuth!pageVars>>
    BY DEF OAuth!UserIsRedirected, OAuth!NextHandler
  <1> USE DEF OAuth!requestVars, OAuth!popupVars, OAuth!pageVars
  <1>3. Made' = Made
    BY <1>2 DEF Made
  <1>4. OAuth!TypeOK'
    BY <1>1, <1>2
  <1>5. ASSUME NEW g \in OAuth!Redirect, Alive(g)' PROVE oauth_of'[g] \notin oauth_codes'
    <2>1. CASE g = h
      BY <1>1, <1>2, <1>5, <2>1 DEF Alive
    <2>2. CASE g # h
      BY <1>1, <1>2, <1>5, <2>2 DEF Alive
    <2> QED
      BY <2>1, <2>2
  <1>6. \A g \in OAuth!Redirect : oauth_login'[g] # "none" => oauth_of'[g] \in oauth_windows'
    BY <1>1, <1>2
  <1>7. LoginHistory'
    BY <1>1, <1>2, <1>3, <1>5, <1>6
  <1>8. ASSUME NEW f \in OAuth!Redirect, NEW g \in OAuth!Redirect, f # g, Alive(f)', Alive(g)'
        PROVE  oauth_of'[f] # oauth_of'[g]
    <2>1. CASE f # h /\ g # h
      BY <1>1, <1>8, <2>1 DEF Alive, OAuth!ExchangedOnce
    <2>2. CASE f = h
      BY <1>1, <1>8, <2>2 DEF Alive
    <2>3. CASE g = h
      BY <1>1, <1>8, <2>3 DEF Alive
    <2> QED
      BY <2>1, <2>2, <2>3
  <1>9. OAuth!ExchangedOnce'
    BY <1>8 DEF OAuth!ExchangedOnce, Alive
  <1> QED
    BY <1>2, <1>4, <1>7, <1>9 DEF OAuth!ShownIsAwaited, OAuth!WaitingIsAsked

LEMMA ExchangeIInv ==
  ASSUME NumbersAssumption, LoginIInv, NEW h \in OAuth!Redirect, OAuth!Exchange(h) PROVE LoginIInv'
  <1> USE DEF LoginIInv, OAuth!OAuthPopupSafe, OAuth!TypeOK, LoginHistory, OAuth!requestVars,
              OAuth!popupVars, OAuth!pageVars
  <1>1. PICK outcome \in {"token", "error"} : oauth_login' = [oauth_login EXCEPT ![h] = outcome]
    BY DEF OAuth!Exchange
  <1>2. /\ oauth_login[h] = "exchanging"
        /\ UNCHANGED <<OAuth!requestVars, OAuth!popupVars, oauth_codes, oauth_of, OAuth!pageVars>>
    BY DEF OAuth!Exchange
  <1>3. \A g \in OAuth!Redirect :
          (Alive(g)' => Alive(g)) /\ (oauth_login'[g] # "none" => oauth_login[g] # "none")
    BY <1>1, <1>2 DEF Alive
  <1>4. OAuth!TypeOK'
    BY <1>1, <1>2
  <1>5. LoginHistory'
    BY <1>2, <1>3 DEF Made
  <1>6. OAuth!ExchangedOnce'
    BY <1>2, <1>3 DEF OAuth!ExchangedOnce, Alive
  <1> QED
    BY <1>2, <1>4, <1>5, <1>6 DEF OAuth!ShownIsAwaited, OAuth!WaitingIsAsked

LEMMA NextLoginIInv == ASSUME NumbersAssumption, LoginIInv, [OAuth!Next]_(OAuth!vars)
                       PROVE LoginIInv'
  <1>1. ASSUME NEW r \in OAuth!Request, OAuth!RequestToken(r) PROVE LoginIInv'
    BY <1>1, RequestTokenIInv
  <1>2. ASSUME NEW r \in OAuth!Request, oauth_phase[r] \in {"waiting", "returning"}
        PROVE  \A q \in OAuth!Request : q # r => oauth_phase[q] # "dismissing"
    <2> USE DEF LoginIInv, OAuth!OAuthPopupSafe, OAuth!TypeOK, LoginHistory, OAuth!Request, Made,
                NumbersAssumption
    <2>1. ASSUME NEW q \in OAuth!Request, q < r PROVE oauth_phase[q] = "done"
      <3>1. q \in 1 .. r - 1
        BY <2>1
      <3> QED
        BY <1>2, <3>1
    <2>2. ASSUME NEW q \in OAuth!Request, r < q PROVE oauth_phase[q] = "none"
      <3>1. r \in 1 .. q - 1
        BY <2>2
      <3> QED
        BY <1>2, <3>1
    <2> QED
      BY <2>1, <2>2
  <1>3. ASSUME NEW r \in OAuth!Request, OAuth!TimedOut(r) PROVE LoginIInv'
    <2>1. /\ oauth_phase[r] = "waiting" /\ oauth_phase' = [oauth_phase EXCEPT ![r] = "returning"]
          /\ UNCHANGED <<oauth_answered, oauth_dismissing, OAuth!popupVars, oauth_codes,
                         oauth_login, oauth_of, OAuth!pageVars>>
      BY <1>3 DEF OAuth!TimedOut, OAuth!loginVars
    <2>2. \A h \in OAuth!Redirect : Alive(h)' => Alive(h)
      BY <2>1 DEF Alive
    <2> QED
      BY <1>2, <2>1, <2>2, PhaseStep DEF LoginIInv, OAuth!OAuthPopupSafe, OAuth!TypeOK
  <1>4. ASSUME NEW r \in OAuth!Request, NEW h \in OAuth!Redirect, OAuth!Resolve(r, h)
        PROVE LoginIInv'
    <2>1. /\ oauth_phase[r] = "waiting" /\ oauth_phase' = [oauth_phase EXCEPT ![r] = "returning"]
          /\ oauth_login[h] \in {"token", "error"}
          /\ oauth_login'
               = [oauth_login EXCEPT ![h] = IF oauth_login[h] = "token" THEN "accepted"
                 ELSE "refused"]
          /\ oauth_answered' = [oauth_answered EXCEPT ![r] = h]
          /\ UNCHANGED <<oauth_dismissing, OAuth!popupVars, oauth_codes, oauth_of, OAuth!pageVars>>
      BY <1>4 DEF OAuth!Resolve
    <2>2. \A g \in OAuth!Redirect :
            (Alive(g)' => Alive(g)) /\ (oauth_login'[g] # "none" => oauth_login[g] # "none")
      BY <2>1 DEF Alive, LoginIInv, OAuth!OAuthPopupSafe, OAuth!TypeOK
    <2>3. oauth_login'
            \in [OAuth!Redirect -> {"none", "exchanging", "token", "error", "accepted", "refused"}]
      BY <2>1 DEF LoginIInv, OAuth!OAuthPopupSafe, OAuth!TypeOK
    <2>4. /\ oauth_answered' \in [OAuth!Request -> {0} \cup OAuth!Redirect]
          /\ oauth_dismissing \in {0} \cup OAuth!Request
      BY <2>1 DEF LoginIInv, OAuth!OAuthPopupSafe, OAuth!TypeOK
    <2> QED
      BY <1>2, <2>1, <2>2, <2>3, <2>4, PhaseStep
  <1>5. ASSUME NEW r \in OAuth!Request, OAuth!GetCurrentPopup(r) PROVE LoginIInv'
    <2>1. /\ oauth_phase[r] = "returning" /\ oauth_dismissing' = oauth_current
          /\ oauth_phase'
               = [oauth_phase EXCEPT ![r] = IF oauth_current = 0 THEN "done" ELSE "dismissing"]
          /\ UNCHANGED <<oauth_answered, OAuth!popupVars, oauth_codes, oauth_login, oauth_of,
                         OAuth!pageVars>>
      BY <1>5 DEF OAuth!GetCurrentPopup, OAuth!loginVars
    <2>2. \A h \in OAuth!Redirect : Alive(h)' => Alive(h)
      BY <2>1 DEF Alive
    <2> QED
      BY <1>2, <2>1, <2>2, PhaseStep DEF LoginIInv, OAuth!OAuthPopupSafe, OAuth!TypeOK
  <1>6. ASSUME NEW r \in OAuth!Request, OAuth!Dismiss(r) \/ OAuth!ShowPopup(r) PROVE LoginIInv'
    BY <1>6, DismissIInv, ShowPopupIInv
  <1>7. ASSUME NEW r \in OAuth!Request, OAuth!ShowPopupReturns(r) PROVE LoginIInv'
    <2>1. /\ oauth_popup[r] = "closed" /\ oauth_popup' = [oauth_popup EXCEPT ![r] = "over"]
          /\ UNCHANGED <<OAuth!requestVars, oauth_current, oauth_inbox, oauth_codes,
                         OAuth!loginVars, OAuth!pageVars>>
      BY <1>7 DEF OAuth!ShowPopupReturns
    <2> USE <2>1 DEF OAuth!requestVars, OAuth!loginVars, OAuth!pageVars, LoginIInv,
            OAuth!OAuthPopupSafe, OAuth!TypeOK, LoginHistory
    <2>2. OAuth!TypeOK'
      OBVIOUS
    <2>3. LoginHistory'
      BY DEF Made, Alive
    <2>4. OAuth!ShownIsAwaited'
      BY DEF OAuth!ShownIsAwaited
    <2>5. OAuth!WaitingIsAsked' /\ OAuth!ExchangedOnce'
      BY DEF OAuth!WaitingIsAsked, OAuth!ExchangedOnce
    <2> QED
      BY <2>2, <2>3, <2>4, <2>5
  <1>8. ASSUME NEW h \in OAuth!Redirect, OAuth!UserIsRedirected(h) \/ OAuth!Exchange(h)
        PROVE LoginIInv'
    BY <1>8, UserIsRedirectedIInv, ExchangeIInv
  <1>9. CASE UNCHANGED OAuth!vars
    BY <1>9 DEF OAuth!vars, OAuth!requestVars, OAuth!popupVars, OAuth!loginVars, OAuth!pageVars,
                LoginIInv, OAuth!OAuthPopupSafe, OAuth!TypeOK, LoginHistory, Made, Alive,
                OAuth!ShownIsAwaited, OAuth!WaitingIsAsked, OAuth!ExchangedOnce
  <1> QED
    BY <1>1, <1>3, <1>4, <1>5, <1>6, <1>7, <1>8, <1>9, ReceiveIInv, ReconnectIInv
    DEF OAuth!Next, OAuth!Leaving, OAuth!Showing

\* However logins, time-outs, lost events and late redirects mix: the popup on display is
\* the one whose ShowPopup waits, no request that waits loses its popup, and a state code
\* is exchanged once.
THEOREM LoginIsSafe == OAuth!Spec => []OAuthPopupSafe
  <1>1. OAuth!Init => LoginIInv
    BY NumbersAreSane, InitLoginIInv
  <1>2. LoginIInv /\ [OAuth!Next]_(OAuth!vars) => LoginIInv'
    BY NumbersAreSane, NextLoginIInv
  <1>3. LoginIInv => OAuthPopupSafe
    BY DEF LoginIInv, OAuthPopupSafe
  <1> QED
    BY <1>1, <1>2, <1>3, PTL DEF OAuth!Spec

-----------------------------------------------------------------------------
(* The search.  What is computed of a pattern or a query is a recursive    *)
(* function.  It exists, and is what its definition says, since what is    *)
(* below a pattern has a smaller height: RecursionExists and ByHeight are  *)
(* what the induction of this section comes down to.                       *)

\* A set of numbers has a least one.
LEMMA Least == ASSUME NEW T \in SUBSET Nat, T # {} PROVE \E x \in T : \A y \in T : x <= y
  <1> PICK m \in T : TRUE
    OBVIOUS
  <1> DEFINE S == 1..m
             U == {1..n : n \in {k \in T : k <= m}}
             R == StrictSubsetOrdering(S)
  <1>1. IsWellFoundedOn(R, SUBSET S)
    <2>1. IsFiniteSet(S)
      BY FS_Interval
    <2> HIDE DEF S
    <2>2. IsWellFoundedOn(R, FiniteSubsetsOf(S)) /\ FiniteSubsetsOf(S) = SUBSET S
      BY <2>1, FS_StrictSubsetOrderingWellFounded, FS_FiniteSubsetsOfFinite
    <2> QED
      BY <2>2
  <1>2. U \subseteq SUBSET S /\ 1..m \in U
    OBVIOUS
  <1> HIDE DEF U, R
  <1>3. PICK u \in U : \A v \in U : ~(<<v, u>> \in R)
    BY <1>1, <1>2, WFMin
  <1>4. PICK x \in T : x <= m /\ u = 1..x
    BY DEF U
  <1>5. ASSUME NEW y \in T, y < x PROVE FALSE
    <2>1. 1..y \in U /\ 1..y \in SUBSET S /\ u \in SUBSET S
      BY <1>2, <1>4, <1>5 DEF U
    <2>2. 1..y \subseteq u
      BY <1>4, <1>5
    <2>3. x \in u /\ x \notin 1..y
      BY <1>4, <1>5
    <2>4. <<1..y, u>> \in R
      BY <2>1, <2>2, <2>3 DEF R, StrictSubsetOrdering
    <2> QED
      BY <1>3, <2>1, <2>4
  <1> QED
    BY <1>5

\* A recursive function exists: one whose value at x is computed of the values at what
\* is lower than x, if what is computed step by step stays in a set of functions.
Recursive(S, N, h, F, G) ==
  /\ N \in Nat /\ h \in [S -> 0..N] /\ F # {}
  /\ \A f \in F : \A n \in 0..N : [x \in S |-> IF h[x] = n THEN G[x][f] ELSE f[x]] \in F
  /\ \A f \in F : \A g \in F : \A x \in S :
       (\A y \in S : h[y] < h[x] => f[y] = g[y]) => G[x][f] = G[x][g]

LEMMA RecursionExists ==
  ASSUME NEW S, NEW N, NEW h, NEW F, NEW G, Recursive(S, N, h, F, G)
  PROVE  \E f \in F : \A x \in S : f[x] = G[x][f]
<1>0. /\ N \in Nat /\ h \in [S -> 0..N] /\ F # {}
      /\ \A f \in F : \A n \in 0..N : [x \in S |-> IF h[x] = n THEN G[x][f] ELSE f[x]] \in F
      /\ \A f \in F : \A g \in F : \A x \in S :
           (\A y \in S : h[y] < h[x] => f[y] = g[y]) => G[x][f] = G[x][g]
  BY DEF Recursive
<1> DEFINE Built(n) == \E f \in F : \A x \in S : h[x] < n => f[x] = G[x][f]
           Missing == {n \in Nat : n <= N + 1 /\ ~Built(n)}
<1>1. ASSUME Built(N + 1) PROVE \E f \in F : \A x \in S : f[x] = G[x][f]
  <2>1. \A x \in S : h[x] \in 0..N /\ h[x] < N + 1
    BY <1>0
  <2> QED BY <1>1, <2>1
<1>2. ASSUME Missing # {} PROVE FALSE
  <2>1. PICK n \in Missing : \A m \in Missing : n <= m
    BY <1>2, Least
  <2>2. n # 0
    <3>1. \A x \in S : h[x] \in 0..N /\ ~(h[x] < 0)
      BY <1>0
    <3>2. Built(0)
      BY <1>0, <3>1
    <3> QED BY <2>1, <3>2
  <2>3. n - 1 \in Nat /\ n - 1 \in 0..N /\ Built(n - 1)
    BY <1>0, <2>1, <2>2
  <2>4. PICK f \in F : \A x \in S : h[x] < n - 1 => f[x] = G[x][f]
    BY <2>3
  <2> DEFINE g == [x \in S |-> IF h[x] = n - 1 THEN G[x][f] ELSE f[x]]
  <2>5. g \in F
    BY <1>0, <2>3
  <2>6. \A x \in S : g[x] = IF h[x] = n - 1 THEN G[x][f] ELSE f[x]
    OBVIOUS
  <2> HIDE DEF g
  <2>7. ASSUME NEW x \in S, h[x] < n PROVE g[x] = G[x][g]
    <3>0. h[x] \in 0..N /\ h[x] \in Nat /\ n \in Nat
      BY <1>0, <2>1
    <3>1. \A y \in S : h[y] < h[x] => f[y] = g[y]
      BY <2>6, <2>7, <3>0
    <3>2. G[x][f] = G[x][g]
      BY <1>0, <2>5, <3>1
    <3>3. h[x] # n - 1 => h[x] < n - 1
      <4>1. \A a, b \in Nat : a < b /\ a # b - 1 => a < b - 1
        OBVIOUS
      <4> QED BY ONLY <2>7, <3>0, <4>1
    <3>4. CASE h[x] = n - 1
      <4>1. g[x] = G[x][f]
        BY <2>6, <3>4
      <4> QED BY <3>2, <4>1
    <3>5. CASE h[x] # n - 1
      <4>1. f[x] = G[x][f]
        BY <2>4, <3>3, <3>5
      <4>2. g[x] = f[x]
        BY <2>6, <3>5
      <4> QED BY <3>2, <4>1, <4>2
    <3> QED BY <3>4, <3>5
  <2>8. Built(n)
    BY <2>5, <2>7
  <2> HIDE DEF Built
  <2> QED BY <2>1, <2>8
<1> QED
  <2>1. N + 1 \in Nat /\ N + 1 <= N + 1
    BY <1>0
  <2>2. Built(N + 1)
    BY <1>2, <2>1
  <2> HIDE DEF Built
  <2> QED BY <1>1, <2>2

-----------------------------------------------------------------------------
(* Patterns and queries have a height, the first level that they are in;   *)
(* what is evaluated, simplified or matched of them is of their parts.     *)

PatternsBy(f, n) == Searching!PatternsOver(IF n = 0 THEN {} ELSE f[n - 1])

LEMMA PatternsAre == Searching!Patterns = CHOOSE f : f = [n \in 0..MaxHeight |-> PatternsBy(f, n)]
BY DEF Searching!Patterns, PatternsBy

LEMMA PatternsExist == \E f : f = [n \in 0..MaxHeight |-> PatternsBy(f, n)]
<1> DEFINE S == 0..MaxHeight
           By(f, n) == PatternsBy(f, n)
           Built(m) == \E f : f = [n \in S |-> f[n]] /\ \A n \in S : n < m => f[n] = By(f, n)
           Missing == {m \in Nat : m <= MaxHeight + 1 /\ ~Built(m)}
<1>0. MaxHeight \in Nat
  BY SearchAssumption
<1>1. ASSUME Built(MaxHeight + 1) PROVE \E f : f = [n \in S |-> By(f, n)]
  <2>1. \A n \in S : n < MaxHeight + 1
    BY <1>0
  <2>2. PICK f : f = [n \in S |-> f[n]] /\ \A n \in S : n < MaxHeight + 1 => f[n] = By(f, n)
    BY <1>1
  <2> HIDE DEF By, S
  <2>3. f = [n \in S |-> By(f, n)]
    BY <2>1, <2>2
  <2> QED BY <2>3
<1>2. ASSUME Missing # {} PROVE FALSE
  <2>1. PICK m \in Missing : \A k \in Missing : m <= k
    BY <1>2, Least
  <2>2. m # 0
    <3> DEFINE f == [n \in S |-> n]
    <3>1. f = [n \in S |-> f[n]] /\ \A n \in S : ~(n < 0)
      BY <1>0
    <3>2. Built(0)
      BY <3>1
    <3> HIDE DEF Built
    <3> QED BY <2>1, <3>2
  <2>3. m - 1 \in Nat /\ m - 1 \in S /\ Built(m - 1)
    <3> HIDE DEF Built
    <3> QED BY <1>0, <2>1, <2>2
  <2>4. PICK f : f = [n \in S |-> f[n]] /\ \A n \in S : n < m - 1 => f[n] = By(f, n)
    BY <2>3
  <2> DEFINE g == [n \in S |-> IF n = m - 1 THEN By(f, n) ELSE f[n]]
  <2> HIDE DEF By
  <2>5. g = [n \in S |-> g[n]] /\ \A n \in S : g[n] = IF n = m - 1 THEN By(f, n) ELSE f[n]
    OBVIOUS
  <2> HIDE DEF g
  <2>6. ASSUME NEW n \in S, n < m PROVE g[n] = By(g, n)
    <3>1. n # 0 => n - 1 \in S /\ n - 1 # m - 1
      BY <1>0, <2>1, <2>6
    <3>2. n # 0 => g[n - 1] = f[n - 1]
      BY <2>5, <3>1
    <3>3. By(g, n) = By(f, n)
      BY <3>2 DEF By, PatternsBy
    <3>4. CASE n = m - 1
      BY <2>5, <3>3, <3>4
    <3>5. CASE n # m - 1
      <4>1. n < m - 1
        BY <1>0, <2>1, <2>6, <3>5
      <4>2. f[n] = By(f, n)
        BY <2>4, <4>1
      <4>3. g[n] = f[n]
        BY <2>5, <3>5
      <4> QED BY <3>3, <4>2, <4>3
    <3> QED BY <3>4, <3>5
  <2>7. Built(m)
    BY <2>5, <2>6
  <2> HIDE DEF Built
  <2> QED BY <2>1, <2>7
<1>3. Built(MaxHeight + 1)
  <2>1. MaxHeight + 1 \in Nat /\ MaxHeight + 1 <= MaxHeight + 1
    BY <1>0
  <2> HIDE DEF Built
  <2> QED BY <1>2, <2>1
<1> HIDE DEF Built
<1>4. \E f : f = [n \in S |-> By(f, n)]
  BY <1>1, <1>3
<1> QED BY <1>4

\* Each level is over the one below it.
LEMMA PatternsEqual ==
  \A n \in 0..MaxHeight :
    Searching!Patterns[n] = Searching!PatternsOver(IF n = 0 THEN {} ELSE Searching!Patterns[n - 1])
<1>1. Searching!Patterns = [n \in 0..MaxHeight |-> PatternsBy(Searching!Patterns, n)]
  BY PatternsAre, PatternsExist, Zenon
<1>2. \A n \in 0..MaxHeight : Searching!Patterns[n] = PatternsBy(Searching!Patterns, n)
  BY <1>1
<1> QED BY <1>2 DEF PatternsBy

QueriesBy(f, n) == Searching!QueriesOver(IF n = 0 THEN {} ELSE f[n - 1])

LEMMA QueriesAre == Searching!Queries = CHOOSE f : f = [n \in 0..(MaxHeight + 2) |-> QueriesBy(f, n)]
BY DEF Searching!Queries, QueriesBy

LEMMA QueriesExist == \E f : f = [n \in 0..(MaxHeight + 2) |-> QueriesBy(f, n)]
<1> DEFINE S == 0..(MaxHeight + 2)
           By(f, n) == QueriesBy(f, n)
           Built(m) == \E f : f = [n \in S |-> f[n]] /\ \A n \in S : n < m => f[n] = By(f, n)
           Missing == {m \in Nat : m <= (MaxHeight + 2) + 1 /\ ~Built(m)}
<1>0. (MaxHeight + 2) \in Nat
  <2>1. MaxHeight \in Nat
    BY SearchAssumption
  <2> QED BY <2>1
<1>1. ASSUME Built((MaxHeight + 2) + 1) PROVE \E f : f = [n \in S |-> By(f, n)]
  <2>1. \A n \in S : n < (MaxHeight + 2) + 1
    BY <1>0
  <2>2. PICK f : f = [n \in S |-> f[n]] /\ \A n \in S : n < (MaxHeight + 2) + 1 => f[n] = By(f, n)
    BY <1>1
  <2> HIDE DEF By, S
  <2>3. f = [n \in S |-> By(f, n)]
    BY <2>1, <2>2
  <2> QED BY <2>3
<1>2. ASSUME Missing # {} PROVE FALSE
  <2>1. PICK m \in Missing : \A k \in Missing : m <= k
    BY <1>2, Least
  <2>2. m # 0
    <3> DEFINE f == [n \in S |-> n]
    <3>1. f = [n \in S |-> f[n]] /\ \A n \in S : ~(n < 0)
      BY <1>0
    <3>2. Built(0)
      BY <3>1
    <3> HIDE DEF Built
    <3> QED BY <2>1, <3>2
  <2>3. m - 1 \in Nat /\ m - 1 \in S /\ Built(m - 1)
    <3> HIDE DEF Built
    <3> QED BY <1>0, <2>1, <2>2
  <2>4. PICK f : f = [n \in S |-> f[n]] /\ \A n \in S : n < m - 1 => f[n] = By(f, n)
    BY <2>3
  <2> DEFINE g == [n \in S |-> IF n = m - 1 THEN By(f, n) ELSE f[n]]
  <2> HIDE DEF By
  <2>5. g = [n \in S |-> g[n]] /\ \A n \in S : g[n] = IF n = m - 1 THEN By(f, n) ELSE f[n]
    OBVIOUS
  <2> HIDE DEF g
  <2>6. ASSUME NEW n \in S, n < m PROVE g[n] = By(g, n)
    <3>1. n # 0 => n - 1 \in S /\ n - 1 # m - 1
      BY <1>0, <2>1, <2>6
    <3>2. n # 0 => g[n - 1] = f[n - 1]
      BY <2>5, <3>1
    <3>3. By(g, n) = By(f, n)
      BY <3>2 DEF By, QueriesBy
    <3>4. CASE n = m - 1
      BY <2>5, <3>3, <3>4
    <3>5. CASE n # m - 1
      <4>1. n < m - 1
        BY <1>0, <2>1, <2>6, <3>5
      <4>2. f[n] = By(f, n)
        BY <2>4, <4>1
      <4>3. g[n] = f[n]
        BY <2>5, <3>5
      <4> QED BY <3>3, <4>2, <4>3
    <3> QED BY <3>4, <3>5
  <2>7. Built(m)
    BY <2>5, <2>6
  <2> HIDE DEF Built
  <2> QED BY <2>1, <2>7
<1>3. Built((MaxHeight + 2) + 1)
  <2>1. (MaxHeight + 2) + 1 \in Nat /\ (MaxHeight + 2) + 1 <= (MaxHeight + 2) + 1
    BY <1>0
  <2> HIDE DEF Built
  <2> QED BY <1>2, <2>1
<1> HIDE DEF Built
<1>4. \E f : f = [n \in S |-> By(f, n)]
  BY <1>1, <1>3
<1> QED BY <1>4

\* Each level is over the one below it.
LEMMA QueriesEqual ==
  \A n \in 0..(MaxHeight + 2) :
    Searching!Queries[n] = Searching!QueriesOver(IF n = 0 THEN {} ELSE Searching!Queries[n - 1])
<1>1. Searching!Queries = [n \in 0..(MaxHeight + 2) |-> QueriesBy(Searching!Queries, n)]
  BY QueriesAre, QueriesExist, Zenon
<1>2. \A n \in 0..(MaxHeight + 2) : Searching!Queries[n] = QueriesBy(Searching!Queries, n)
  BY <1>1
<1> QED BY <1>2 DEF QueriesBy

\* The more is below, the more there is over it.
LEMMA PatternsMore ==
  ASSUME NEW A, NEW B, A \subseteq B PROVE Searching!PatternsOver(A) \subseteq Searching!PatternsOver(B)
<1>1. \A t \in Seq(A) : t \in Seq(B)
  OBVIOUS
<1>2. [{1} -> A] \subseteq [{1} -> B]
  OBVIOUS
<1>3. Seq(A) \subseteq Seq(B) /\ Seq(A) \ {<<>>} \subseteq Seq(B) \ {<<>>}
  BY <1>1
<1> QED BY <1>2, <1>3 DEF Searching!PatternsOver

LEMMA QueriesMore ==
  ASSUME NEW A, NEW B, A \subseteq B PROVE Searching!QueriesOver(A) \subseteq Searching!QueriesOver(B)
<1>1. SUBSET A \subseteq SUBSET B /\ (SUBSET A) \ {{}} \subseteq (SUBSET B) \ {{}}
  OBVIOUS
<1> QED BY <1>1 DEF Searching!QueriesOver

\* A level has what the levels below it have.
LEMMA PatternsGrow ==
  \A m \in 0..MaxHeight : \A n \in 0..m : Searching!Patterns[n] \subseteq Searching!Patterns[m]
<1> DEFINE Grown(m) == \A n \in 0..m : Searching!Patterns[n] \subseteq Searching!Patterns[m]
           Missing == {m \in Nat : m \in 0..MaxHeight /\ ~Grown(m)}
<1>0. MaxHeight \in Nat
  <2>1. MaxHeight \in Nat
    BY SearchAssumption
  <2> QED BY <2>1
<1>1. ASSUME Missing # {} PROVE FALSE
  <2>1. PICK m \in Missing : \A k \in Missing : m <= k
    BY <1>1, Least
  <2>2. m # 0
    <3>1. Grown(0)
      BY <1>0
    <3> HIDE DEF Grown
    <3> QED BY <2>1, <3>1
  <2>3. m - 1 \in 0..MaxHeight /\ m \in 0..MaxHeight /\ m - 1 \in Nat /\ Grown(m - 1)
    <3> HIDE DEF Grown
    <3> QED BY <1>0, <2>1, <2>2
  <2>4. Searching!Patterns[m - 1] \subseteq Searching!Patterns[m]
    <3>1. Searching!Patterns[m] = Searching!PatternsOver(Searching!Patterns[m - 1])
      BY <2>2, <2>3, PatternsEqual
    <3>2. CASE m - 1 = 0
      <4>1. Searching!Patterns[m - 1] = Searching!PatternsOver({})
        BY <2>3, <3>2, PatternsEqual
      <4> QED BY <3>1, <4>1, PatternsMore
    <3>3. CASE m - 1 # 0
      <4>1. Searching!Patterns[m - 1] = Searching!PatternsOver(Searching!Patterns[(m - 1) - 1])
        BY <2>3, <3>3, PatternsEqual
      <4>2. (m - 1) - 1 \in 0..(m - 1)
        BY <2>3, <3>3
      <4>3. Searching!Patterns[(m - 1) - 1] \subseteq Searching!Patterns[m - 1]
        BY <2>3, <4>2
      <4> QED BY <3>1, <4>1, <4>3, PatternsMore
    <3> QED BY <3>2, <3>3
  <2>5. Grown(m)
    <3> SUFFICES ASSUME NEW n \in 0..m PROVE Searching!Patterns[n] \subseteq Searching!Patterns[m]
      OBVIOUS
    <3>1. n = m \/ n \in 0..(m - 1)
      BY <2>3
    <3>2. n \in 0..(m - 1) => Searching!Patterns[n] \subseteq Searching!Patterns[m - 1]
      BY <2>3
    <3> QED BY <2>4, <3>1, <3>2
  <2> HIDE DEF Grown
  <2> QED BY <2>1, <2>5
<1>2. \A m \in 0..MaxHeight : Grown(m)
  <2> HIDE DEF Grown
  <2> QED BY <1>0, <1>1
<1> QED BY <1>2

\* What is in a level is over what is lower.
LEMMA PatternsHeights ==
  \E h \in [Searching!Pattern -> 0..MaxHeight] :
    \A p \in Searching!Pattern :
      /\ p \in Searching!Patterns[h[p]]
      /\ \A n \in 0..MaxHeight : p \in Searching!Patterns[n] => h[p] <= n
      /\ p \in Searching!PatternsOver({q \in Searching!Pattern : h[q] < h[p]})
<1> DEFINE Lowest(p, n) == p \in Searching!Patterns[n] /\ \A k \in 0..MaxHeight : p \in Searching!Patterns[k] => n <= k
           h == [p \in Searching!Pattern |-> CHOOSE n \in 0..MaxHeight : Lowest(p, n)]
<1>0. MaxHeight \in Nat /\ MaxHeight \in 0..MaxHeight
  <2>1. MaxHeight \in Nat
    BY SearchAssumption
  <2> QED BY <2>1
<1>1. \A p \in Searching!Pattern : h[p] \in 0..MaxHeight /\ Lowest(p, h[p])
  <2> SUFFICES ASSUME NEW p \in Searching!Pattern
               PROVE  \E n \in 0..MaxHeight : Lowest(p, n)
    OBVIOUS
  <2> DEFINE T == {n \in Nat : n \in 0..MaxHeight /\ p \in Searching!Patterns[n]}
  <2>1. T # {} /\ T \in SUBSET Nat
    BY <1>0 DEF Searching!Pattern
  <2> HIDE DEF T
  <2>2. PICK n \in T : \A k \in T : n <= k
    BY <2>1, Least
  <2> QED BY <1>0, <2>2 DEF T
<1> HIDE DEF h
<1>2. ASSUME NEW p \in Searching!Pattern
      PROVE  p \in Searching!PatternsOver({q \in Searching!Pattern : h[q] < h[p]})
  <2> DEFINE Below == {q \in Searching!Pattern : h[q] < h[p]}
  <2>1. h[p] \in 0..MaxHeight /\ p \in Searching!Patterns[h[p]]
    BY <1>1
  <2>2. CASE h[p] = 0
    <3>1. p \in Searching!PatternsOver({})
      BY <2>1, <2>2, PatternsEqual
    <3> QED BY <3>1, PatternsMore
  <2>3. CASE h[p] # 0
    <3>1. p \in Searching!PatternsOver(Searching!Patterns[h[p] - 1])
      BY <2>1, <2>3, PatternsEqual
    <3>2. h[p] - 1 \in 0..MaxHeight
      BY <1>0, <2>1, <2>3
    <3>3. ASSUME NEW q \in Searching!Patterns[h[p] - 1] PROVE q \in Below
      <4>1. q \in Searching!Pattern
        BY <1>0, <3>2, PatternsGrow DEF Searching!Pattern
      <4>2. h[q] <= h[p] - 1 /\ h[q] \in 0..MaxHeight
        BY <1>1, <3>2, <4>1
      <4>3. h[q] < h[p]
        BY <1>0, <2>1, <4>2
      <4> QED BY <4>1, <4>3
    <3>4. Searching!Patterns[h[p] - 1] \subseteq Below
      BY <3>3
    <3> HIDE DEF Below
    <3>5. p \in Searching!PatternsOver(Below)
      BY <3>1, <3>4, PatternsMore
    <3> QED BY <3>5 DEF Below
  <2> QED BY <2>2, <2>3
<1>3. h \in [Searching!Pattern -> 0..MaxHeight]
  BY <1>1 DEF h
<1> HIDE DEF Lowest
<1>4. \A p \in Searching!Pattern :
        p \in Searching!Patterns[h[p]] /\ \A n \in 0..MaxHeight : p \in Searching!Patterns[n] => h[p] <= n
  BY <1>1 DEF Lowest
<1> QED BY <1>2, <1>3, <1>4

\* A level has what the levels below it have.
LEMMA QueriesGrow ==
  \A m \in 0..(MaxHeight + 2) : \A n \in 0..m : Searching!Queries[n] \subseteq Searching!Queries[m]
<1> DEFINE Grown(m) == \A n \in 0..m : Searching!Queries[n] \subseteq Searching!Queries[m]
           Missing == {m \in Nat : m \in 0..(MaxHeight + 2) /\ ~Grown(m)}
<1>0. (MaxHeight + 2) \in Nat
  <2>1. MaxHeight \in Nat
    BY SearchAssumption
  <2> QED BY <2>1
<1>1. ASSUME Missing # {} PROVE FALSE
  <2>1. PICK m \in Missing : \A k \in Missing : m <= k
    BY <1>1, Least
  <2>2. m # 0
    <3>1. Grown(0)
      BY <1>0
    <3> HIDE DEF Grown
    <3> QED BY <2>1, <3>1
  <2>3. m - 1 \in 0..(MaxHeight + 2) /\ m \in 0..(MaxHeight + 2) /\ m - 1 \in Nat /\ Grown(m - 1)
    <3> HIDE DEF Grown
    <3> QED BY <1>0, <2>1, <2>2
  <2>4. Searching!Queries[m - 1] \subseteq Searching!Queries[m]
    <3>1. Searching!Queries[m] = Searching!QueriesOver(Searching!Queries[m - 1])
      BY <2>2, <2>3, QueriesEqual
    <3>2. CASE m - 1 = 0
      <4>1. Searching!Queries[m - 1] = Searching!QueriesOver({})
        BY <2>3, <3>2, QueriesEqual
      <4> QED BY <3>1, <4>1, QueriesMore
    <3>3. CASE m - 1 # 0
      <4>1. Searching!Queries[m - 1] = Searching!QueriesOver(Searching!Queries[(m - 1) - 1])
        BY <2>3, <3>3, QueriesEqual
      <4>2. (m - 1) - 1 \in 0..(m - 1)
        BY <2>3, <3>3
      <4>3. Searching!Queries[(m - 1) - 1] \subseteq Searching!Queries[m - 1]
        BY <2>3, <4>2
      <4> QED BY <3>1, <4>1, <4>3, QueriesMore
    <3> QED BY <3>2, <3>3
  <2>5. Grown(m)
    <3> SUFFICES ASSUME NEW n \in 0..m PROVE Searching!Queries[n] \subseteq Searching!Queries[m]
      OBVIOUS
    <3>1. n = m \/ n \in 0..(m - 1)
      BY <2>3
    <3>2. n \in 0..(m - 1) => Searching!Queries[n] \subseteq Searching!Queries[m - 1]
      BY <2>3
    <3> QED BY <2>4, <3>1, <3>2
  <2> HIDE DEF Grown
  <2> QED BY <2>1, <2>5
<1>2. \A m \in 0..(MaxHeight + 2) : Grown(m)
  <2> HIDE DEF Grown
  <2> QED BY <1>0, <1>1
<1> QED BY <1>2

\* What is in a level is over what is lower.
LEMMA QueriesHeights ==
  \E h \in [Searching!Query -> 0..(MaxHeight + 2)] :
    \A p \in Searching!Query :
      /\ p \in Searching!Queries[h[p]]
      /\ \A n \in 0..(MaxHeight + 2) : p \in Searching!Queries[n] => h[p] <= n
      /\ p \in Searching!QueriesOver({q \in Searching!Query : h[q] < h[p]})
<1> DEFINE Lowest(p, n) == p \in Searching!Queries[n] /\ \A k \in 0..(MaxHeight + 2) : p \in Searching!Queries[k] => n <= k
           h == [p \in Searching!Query |-> CHOOSE n \in 0..(MaxHeight + 2) : Lowest(p, n)]
<1>0. (MaxHeight + 2) \in Nat /\ (MaxHeight + 2) \in 0..(MaxHeight + 2)
  <2>1. MaxHeight \in Nat
    BY SearchAssumption
  <2> QED BY <2>1
<1>1. \A p \in Searching!Query : h[p] \in 0..(MaxHeight + 2) /\ Lowest(p, h[p])
  <2> SUFFICES ASSUME NEW p \in Searching!Query
               PROVE  \E n \in 0..(MaxHeight + 2) : Lowest(p, n)
    OBVIOUS
  <2> DEFINE T == {n \in Nat : n \in 0..(MaxHeight + 2) /\ p \in Searching!Queries[n]}
  <2>1. T # {} /\ T \in SUBSET Nat
    BY <1>0 DEF Searching!Query
  <2> HIDE DEF T
  <2>2. PICK n \in T : \A k \in T : n <= k
    BY <2>1, Least
  <2> QED BY <1>0, <2>2 DEF T
<1> HIDE DEF h
<1>2. ASSUME NEW p \in Searching!Query
      PROVE  p \in Searching!QueriesOver({q \in Searching!Query : h[q] < h[p]})
  <2> DEFINE Below == {q \in Searching!Query : h[q] < h[p]}
  <2>1. h[p] \in 0..(MaxHeight + 2) /\ p \in Searching!Queries[h[p]]
    BY <1>1
  <2>2. CASE h[p] = 0
    <3>1. p \in Searching!QueriesOver({})
      BY <2>1, <2>2, QueriesEqual
    <3> QED BY <3>1, QueriesMore
  <2>3. CASE h[p] # 0
    <3>1. p \in Searching!QueriesOver(Searching!Queries[h[p] - 1])
      BY <2>1, <2>3, QueriesEqual
    <3>2. h[p] - 1 \in 0..(MaxHeight + 2)
      BY <1>0, <2>1, <2>3
    <3>3. ASSUME NEW q \in Searching!Queries[h[p] - 1] PROVE q \in Below
      <4>1. q \in Searching!Query
        BY <1>0, <3>2, QueriesGrow DEF Searching!Query
      <4>2. h[q] <= h[p] - 1 /\ h[q] \in 0..(MaxHeight + 2)
        BY <1>1, <3>2, <4>1
      <4>3. h[q] < h[p]
        BY <1>0, <2>1, <4>2
      <4> QED BY <4>1, <4>3
    <3>4. Searching!Queries[h[p] - 1] \subseteq Below
      BY <3>3
    <3> HIDE DEF Below
    <3>5. p \in Searching!QueriesOver(Below)
      BY <3>1, <3>4, QueriesMore
    <3> QED BY <3>5 DEF Below
  <2> QED BY <2>2, <2>3
<1>3. h \in [Searching!Query -> 0..(MaxHeight + 2)]
  BY <1>1 DEF h
<1> HIDE DEF Lowest
<1>4. \A p \in Searching!Query :
        p \in Searching!Queries[h[p]] /\ \A n \in 0..(MaxHeight + 2) : p \in Searching!Queries[n] => h[p] <= n
  BY <1>1 DEF Lowest
<1> QED BY <1>2, <1>3, <1>4

\* What a pattern over others is made of.
LEMMA PatternShapes ==
  ASSUME NEW A, NEW p \in Searching!PatternsOver(A)
  PROVE  \/ p.op = "literal" /\ p.text \in Seq(Char)
         \/ p.op = "any"
         \/ p.op = "concat" /\ p.sub \in Seq(A) /\ \A k \in DOMAIN p.sub : p.sub[k] \in A
         \/ /\ p.op = "alternate" /\ p.sub \in Seq(A) /\ \A k \in DOMAIN p.sub : p.sub[k] \in A
            /\ 1 \in DOMAIN p.sub
         \/ p.op \in {"star", "plus"} /\ p.sub[1] \in A
<1>1. \/ p.op = "literal" /\ p.text \in Seq(Char)
      \/ p.op = "any"
      \/ p.op = "concat" /\ p.sub \in Seq(A)
      \/ p.op = "alternate" /\ p.sub \in Seq(A) /\ p.sub # <<>>
      \/ p.op \in {"star", "plus"} /\ p.sub \in [{1} -> A]
  BY DEF Searching!PatternsOver, Searching!AnyChar
<1>2. p.sub \in Seq(A) => \A k \in DOMAIN p.sub : p.sub[k] \in A
  OBVIOUS
<1>3. p.sub \in Seq(A) /\ p.sub # <<>> => 1 \in DOMAIN p.sub
  OBVIOUS
<1> QED BY <1>1, <1>2, <1>3

\* What a query over others is made of.
LEMMA QueryShapes ==
  ASSUME NEW A, NEW q \in Searching!QueriesOver(A)
  PROVE  \/ q.op = "all" /\ q = Searching!AllQuery
         \/ q.op = "none" /\ q = Searching!NoneQuery
         \/ q.op = "term" /\ q.term \in Seq(Char) /\ q = Searching!TermQuery(q.term)
         \/ q.op = "and" /\ q.children \subseteq A /\ q = Searching!AndQuery(q.children)
         \/ q.op = "or" /\ q.children \subseteq A /\ q.children # {} /\ q = Searching!OrQuery(q.children)
BY DEF Searching!QueriesOver, Searching!AllQuery, Searching!NoneQuery, Searching!TermQuery,
       Searching!AndQuery, Searching!OrQuery

\* What has a lower counterexample for each has none.
Descending(S, N, h, B) ==
  N \in Nat /\ h \in [S -> 0..N] /\ B \in SUBSET S /\ \A x \in B : \E y \in B : h[y] < h[x]

LEMMA ByHeight ==
  ASSUME NEW S, NEW N, NEW h, NEW B, Descending(S, N, h, B)
  PROVE  B = {}
<1> SUFFICES ASSUME B # {} PROVE FALSE
  OBVIOUS
<1> DEFINE T == {h[x] : x \in B}
<1>0. N \in Nat /\ h \in [S -> 0..N] /\ B \in SUBSET S /\ \A x \in B : \E y \in B : h[y] < h[x]
  BY DEF Descending
<1>1. T \in SUBSET Nat /\ T # {}
  BY <1>0
<1>2. PICK n \in T : \A k \in T : n <= k
  BY <1>1, Least
<1>3. PICK x \in B : n = h[x]
  BY <1>2
<1>4. PICK y \in B : h[y] < h[x]
  BY <1>0, <1>3
<1>5. h[y] \in T /\ h[x] \in Nat /\ h[y] \in Nat
  BY <1>1, <1>3, <1>4
<1> HIDE DEF T
<1>6. h[x] <= h[y]
  BY <1>2, <1>3, <1>5
<1> QED BY ONLY <1>4, <1>5, <1>6

EvaluatedBy(f, q, trigrams) ==
  \/ q.op = "all"
  \/ q.op = "term" /\ q.term \in trigrams
  \/ q.op = "and" /\ \A c \in q.children : f[c]
  \/ q.op = "or" /\ \E c \in q.children : f[c]

LEMMA EvaluatedIs ==
  ASSUME NEW q, NEW T
  PROVE  Searching!evalTrigramQuery(q, T) =
           (CHOOSE f : f = [p \in Searching!Query |-> EvaluatedBy(f, p, T)])[q]
BY DEF Searching!evalTrigramQuery, EvaluatedBy

\* The recursive function exists that evaluates queries.
LEMMA EvaluatedExists ==
  ASSUME NEW T
  PROVE  \E f : f = [q \in Searching!Query |-> EvaluatedBy(f, q, T)]
<1> DEFINE S == Searching!Query
           F == [S -> BOOLEAN]
           G == [q \in S |-> [f \in F |-> EvaluatedBy(f, q, T)]]
<1>0. MaxHeight + 2 \in Nat
  <2>1. MaxHeight \in Nat
    BY SearchAssumption
  <2> QED BY <2>1
<1>1. PICK h \in [S -> 0..(MaxHeight + 2)] :
        \A q \in S : q \in Searching!QueriesOver({c \in S : h[c] < h[q]})
  BY QueriesHeights
<1>2. \A q \in S : \A f : EvaluatedBy(f, q, T) \in BOOLEAN
  BY DEF EvaluatedBy
<1>3. \A q \in S : \A f \in F : G[q][f] = EvaluatedBy(f, q, T)
  BY Zenon
<1> HIDE DEF S, G
<1>4. F # {}
  <2>1. [q \in S |-> TRUE] \in F
    OBVIOUS
  <2> QED BY <2>1
<1>5. ASSUME NEW f \in F, NEW n \in 0..(MaxHeight + 2)
      PROVE  [q \in S |-> IF h[q] = n THEN G[q][f] ELSE f[q]] \in F
  <2>1. \A q \in S : (IF h[q] = n THEN G[q][f] ELSE f[q]) \in BOOLEAN
    BY <1>2, <1>3
  <2> QED BY <2>1
<1>6. ASSUME NEW f \in F, NEW g \in F, NEW q \in S, \A c \in S : h[c] < h[q] => f[c] = g[c]
      PROVE  G[q][f] = G[q][g]
  <2>1. EvaluatedBy(f, q, T) = EvaluatedBy(g, q, T)
    <3>1. q.op \in {"and", "or"} => \A c \in q.children : f[c] = g[c]
      <4> DEFINE Below == {c \in S : h[c] < h[q]}
      <4>1. q \in Searching!QueriesOver(Below)
        BY <1>1
      <4> HIDE DEF Below
      <4>2. q.op \in {"and", "or"} => q.children \subseteq Below
        BY <4>1, QueryShapes
      <4>3. \A c \in Below : f[c] = g[c]
        BY <1>6 DEF Below
      <4> QED BY <4>2, <4>3
    <3> QED BY <3>1 DEF EvaluatedBy
  <2> QED BY <1>3, <2>1
<1> HIDE DEF F
<1>7. PICK f \in F : \A q \in S : f[q] = G[q][f]
  <2>1. \A f \in F : \A n \in 0..(MaxHeight + 2) :
          [q \in S |-> IF h[q] = n THEN G[q][f] ELSE f[q]] \in F
    BY <1>5
  <2>2. \A f \in F : \A g \in F : \A q \in S :
          (\A c \in S : h[c] < h[q] => f[c] = g[c]) => G[q][f] = G[q][g]
    BY <1>6
  <2>3. Recursive(S, MaxHeight + 2, h, F, G)
    BY <1>0, <1>1, <1>4, <2>1, <2>2, Zenon DEF Recursive
  <2> QED BY <2>3, RecursionExists
<1>8. \A q \in S : f[q] = EvaluatedBy(f, q, T)
  BY <1>3, <1>7
<1>9. f = [q \in S |-> EvaluatedBy(f, q, T)]
  <2>1. f = [q \in S |-> f[q]]
    BY <1>7 DEF F
  <2> QED BY <1>8, <2>1, Zenon
<1> QED BY <1>9 DEF S

\* A query is evaluated by its children.
LEMMA Evaluates ==
  ASSUME NEW T, NEW q \in Searching!Query
  PROVE  Searching!evalTrigramQuery(q, T) <=>
           \/ q.op = "all"
           \/ q.op = "term" /\ q.term \in T
           \/ q.op = "and" /\ \A c \in q.children : Searching!evalTrigramQuery(c, T)
           \/ q.op = "or" /\ \E c \in q.children : Searching!evalTrigramQuery(c, T)
<1> DEFINE e == CHOOSE f : f = [p \in Searching!Query |-> EvaluatedBy(f, p, T)]
<1>1. e = [p \in Searching!Query |-> EvaluatedBy(e, p, T)]
  BY EvaluatedExists, Zenon
<1>2. \A p : Searching!evalTrigramQuery(p, T) = e[p]
  BY EvaluatedIs
<1> HIDE DEF e
<1>3. e[q] = EvaluatedBy(e, q, T)
  BY <1>1
<1> QED BY <1>2, <1>3 DEF EvaluatedBy

\* What each level of the queries has.
LEMMA QueriesHave ==
  ASSUME NEW n \in 0..(MaxHeight + 2)
  PROVE  /\ Searching!Queries[n] \subseteq Searching!Query
         /\ Searching!AllQuery \in Searching!Queries[n] /\ Searching!NoneQuery \in Searching!Queries[n]
         /\ \A t \in Seq(Char) : Searching!TermQuery(t) \in Searching!Queries[n]
         /\ \A C : (n # 0 /\ C \subseteq Searching!Queries[n - 1]) \/ C = {} =>
              /\ Searching!AndQuery(C) \in Searching!Queries[n]
              /\ C # {} => Searching!OrQuery(C) \in Searching!Queries[n]
<1>0. MaxHeight \in Nat
  BY SearchAssumption
<1>1. Searching!Queries[n] \subseteq Searching!Query
  BY <1>0, QueriesGrow DEF Searching!Query
<1> DEFINE A == IF n = 0 THEN {} ELSE Searching!Queries[n - 1]
<1>2. Searching!Queries[n] = Searching!QueriesOver(A)
  BY QueriesEqual
<1>3. \A C : (n # 0 /\ C \subseteq Searching!Queries[n - 1]) \/ C = {} => C \in SUBSET A
  OBVIOUS
<1> HIDE DEF A
<1>4. /\ Searching!AllQuery \in Searching!QueriesOver(A)
      /\ Searching!NoneQuery \in Searching!QueriesOver(A)
      /\ \A t \in Seq(Char) : Searching!TermQuery(t) \in Searching!QueriesOver(A)
      /\ \A C \in SUBSET A : Searching!AndQuery(C) \in Searching!QueriesOver(A)
      /\ \A C \in SUBSET A : C # {} => Searching!OrQuery(C) \in Searching!QueriesOver(A)
  BY DEF Searching!QueriesOver, Searching!AllQuery, Searching!NoneQuery, Searching!TermQuery,
         Searching!AndQuery, Searching!OrQuery
<1> QED BY <1>1, <1>2, <1>3, <1>4

\* Trigrams are texts, and the query for them is that of any level but the first.
LEMMA TrigramsType ==
  ASSUME NEW text \in Seq(Char) PROVE Searching!Trigrams(text) \subseteq Seq(Char)
<1> SUFFICES ASSUME NEW i \in 1..(Len(text) - 2) PROVE SubSeq(text, i, i + 2) \in Seq(Char)
  BY DEF Searching!Trigrams
<1>1. i \in 1..Len(text) /\ i + 2 \in 1..Len(text)
  OBVIOUS
<1> QED BY <1>1

LEMMA TermsOfType ==
  ASSUME NEW text \in Seq(Char), NEW n \in 1..(MaxHeight + 2)
  PROVE  Searching!TermsOf(text) \in Searching!Queries[n]
<1>0. MaxHeight \in Nat /\ n \in 0..(MaxHeight + 2) /\ n - 1 \in 0..(MaxHeight + 2) /\ n # 0
  <2>1. MaxHeight \in Nat
    BY SearchAssumption
  <2> QED BY <2>1
<1> DEFINE C == {Searching!TermQuery(t) : t \in Searching!Trigrams(text)}
<1>1. C \subseteq Searching!Queries[n - 1]
  BY <1>0, TrigramsType, QueriesHave
<1> HIDE DEF C
<1>2. Searching!AndQuery(C) \in Searching!Queries[n]
  BY <1>0, <1>1, QueriesHave
<1>3. Searching!TermQuery(text) \in Searching!Queries[n] /\ Searching!AllQuery \in Searching!Queries[n]
  BY <1>0, QueriesHave
<1>4. Searching!TermsOf(text) \in {Searching!AllQuery, Searching!TermQuery(text), Searching!AndQuery(C)}
  BY DEF Searching!TermsOf, C
<1> QED BY <1>2, <1>3, <1>4

LEMMA QueryIs ==
  ASSUME NEW re
  PROVE  Searching!RegexToTrigramQuery(re) =
           (CHOOSE f : f = [p \in Searching!Pattern |-> Searching!QueryOf(p, f)])[re]
BY DEF Searching!RegexToTrigramQuery

\* The query of a pattern is at most one higher than the pattern.
LEMMA QueryOfType ==
  ASSUME NEW f, NEW n \in 0..MaxHeight, NEW A, NEW re \in Searching!PatternsOver(A),
         \A p \in A : n # 0 /\ f[p] \in Searching!Queries[n]
  PROVE  Searching!QueryOf(re, f) \in Searching!Queries[n + 1]
<1>0. /\ MaxHeight \in Nat /\ n \in 0..(MaxHeight + 2) /\ n + 1 \in 0..(MaxHeight + 2)
      /\ n + 1 \in 1..(MaxHeight + 2) /\ n + 1 # 0 /\ (n + 1) - 1 = n
      /\ n \in 0..(n + 1)
  <2>1. MaxHeight \in Nat
    BY SearchAssumption
  <2> QED BY <2>1
<1>1. Searching!Queries[n] \subseteq Searching!Queries[n + 1]
  BY <1>0, QueriesGrow
<1> DEFINE C == {f[re.sub[k]] : k \in DOMAIN re.sub}
<1>2. CASE re.op = "literal"
  <2>1. re.text \in Seq(Char)
    BY <1>2, PatternShapes
  <2> QED BY <1>0, <1>2, <2>1, TermsOfType DEF Searching!QueryOf
<1>3. CASE re.op \in {"concat", "alternate"}
  <2>1. \A k \in DOMAIN re.sub : re.sub[k] \in A
    BY <1>3, PatternShapes
  <2>2. C \subseteq Searching!Queries[n]
    BY <2>1
  <2>3. re.op = "alternate" => C # {}
    <3>1. re.op = "alternate" => 1 \in DOMAIN re.sub
      BY PatternShapes
    <3> QED BY <3>1
  <2>4. Searching!QueryOf(re, f) = IF re.op = "concat" THEN Searching!AndQuery(C) ELSE Searching!OrQuery(C)
    BY <1>3 DEF Searching!QueryOf
  <2> HIDE DEF C
  <2>5. Searching!AndQuery(C) \in Searching!Queries[n + 1]
    BY <1>0, <2>2, QueriesHave
  <2>6. C # {} => Searching!OrQuery(C) \in Searching!Queries[n + 1]
    BY <1>0, <2>2, QueriesHave
  <2> QED BY <1>3, <2>3, <2>4, <2>5, <2>6
<1>4. CASE re.op = "plus"
  <2>1. re.sub[1] \in A
    BY <1>4, PatternShapes
  <2> QED BY <1>1, <1>4, <2>1 DEF Searching!QueryOf
<1>5. CASE re.op \notin {"literal", "concat", "alternate", "plus"}
  <2>1. Searching!QueryOf(re, f) = Searching!AllQuery
    BY <1>5 DEF Searching!QueryOf
  <2> QED BY <1>0, <2>1, QueriesHave
<1> QED BY <1>2, <1>3, <1>4, <1>5

\* A query of a pattern, and of every pattern below it, is that of its level.
LEMMA QueryOfLevel ==
  ASSUME NEW h \in [Searching!Pattern -> 0..MaxHeight], NEW f, NEW re \in Searching!Pattern,
         re \in Searching!PatternsOver({p \in Searching!Pattern : h[p] < h[re]}),
         \A p \in Searching!Pattern : h[p] < h[re] => f[p] \in Searching!Queries[h[p] + 1]
  PROVE  Searching!QueryOf(re, f) \in Searching!Queries[h[re] + 1]
<1>0. MaxHeight \in Nat
  BY SearchAssumption
<1> DEFINE A == {p \in Searching!Pattern : h[p] < h[re]}
<1>1. ASSUME NEW p \in A PROVE h[re] # 0 /\ f[p] \in Searching!Queries[h[re]]
  <2>1. h[p] \in 0..MaxHeight /\ h[re] \in 0..MaxHeight /\ h[p] < h[re]
    OBVIOUS
  <2>2. h[p] + 1 \in 0..h[re] /\ h[re] \in 0..(MaxHeight + 2) /\ h[re] # 0
    BY <1>0, <2>1
  <2>3. Searching!Queries[h[p] + 1] \subseteq Searching!Queries[h[re]]
    BY <2>2, QueriesGrow
  <2> QED BY <2>2, <2>3
<1>2. re \in Searching!PatternsOver(A) /\ h[re] \in 0..MaxHeight
  OBVIOUS
<1> HIDE DEF A
<1> QED BY <1>1, <1>2, QueryOfType

\* The query of a pattern depends on those of its parts only.
LEMMA QueryOfParts ==
  ASSUME NEW A, NEW re \in Searching!PatternsOver(A), NEW f, NEW g, \A p \in A : f[p] = g[p]
  PROVE  Searching!QueryOf(re, f) = Searching!QueryOf(re, g)
<1>1. CASE re.op \in {"concat", "alternate"}
  <2>1. \A k \in DOMAIN re.sub : f[re.sub[k]] = g[re.sub[k]]
    BY <1>1, PatternShapes
  <2>2. {f[re.sub[k]] : k \in DOMAIN re.sub} = {g[re.sub[k]] : k \in DOMAIN re.sub}
    BY <2>1
  <2> QED BY <1>1, <2>2 DEF Searching!QueryOf
<1>2. CASE re.op = "plus"
  <2>1. f[re.sub[1]] = g[re.sub[1]]
    BY <1>2, PatternShapes
  <2> QED BY <1>2, <2>1 DEF Searching!QueryOf
<1>3. CASE re.op = "literal"
  BY <1>3 DEF Searching!QueryOf
<1>4. CASE re.op \notin {"literal", "concat", "alternate", "plus"}
  BY <1>4 DEF Searching!QueryOf
<1> QED BY <1>1, <1>2, <1>3, <1>4

\* The recursive function exists that gives each pattern its query.
LEMMA QueryExists == \E f : f = [re \in Searching!Pattern |-> Searching!QueryOf(re, f)]
<1> DEFINE S == Searching!Pattern
<1>0. MaxHeight \in Nat
  BY SearchAssumption
<1>1. PICK h \in [S -> 0..MaxHeight] :
        \A re \in S : re \in Searching!PatternsOver({p \in S : h[p] < h[re]})
  BY PatternsHeights
<1> DEFINE F == {f \in [S -> Searching!Query] : \A re \in S : f[re] \in Searching!Queries[h[re] + 1]}
           G == [re \in S |-> [f \in F |-> Searching!QueryOf(re, f)]]
<1>2. \A re \in S : h[re] \in 0..MaxHeight /\ h[re] + 1 \in 0..(MaxHeight + 2)
  BY <1>0
<1>3. \A re \in S : \A f \in F : G[re][f] = Searching!QueryOf(re, f)
  BY Zenon
<1>4. \A re \in S : \A f \in F : Searching!QueryOf(re, f) \in Searching!Queries[h[re] + 1]
  BY <1>1, QueryOfLevel
<1>5. \A re \in S : Searching!Queries[h[re] + 1] \subseteq Searching!Query
  BY <1>2, QueriesHave
<1> HIDE DEF S, G
<1>6. F # {}
  <2> DEFINE f == [re \in S |-> Searching!AllQuery]
  <2>1. \A re \in S : Searching!AllQuery \in Searching!Queries[h[re] + 1]
    BY <1>2, QueriesHave
  <2>2. f \in F
    BY <1>5, <2>1
  <2> QED BY <2>2
<1>7. ASSUME NEW f \in F, NEW n \in 0..MaxHeight
      PROVE  [re \in S |-> IF h[re] = n THEN G[re][f] ELSE f[re]] \in F
  <2>1. \A re \in S : (IF h[re] = n THEN G[re][f] ELSE f[re]) \in Searching!Queries[h[re] + 1]
    BY <1>3, <1>4
  <2> QED BY <1>5, <2>1
<1>8. ASSUME NEW f \in F, NEW g \in F, NEW re \in S, \A p \in S : h[p] < h[re] => f[p] = g[p]
      PROVE  G[re][f] = G[re][g]
  <2> DEFINE A == {p \in S : h[p] < h[re]}
  <2>1. re \in Searching!PatternsOver(A)
    BY <1>1
  <2>2. \A p \in A : f[p] = g[p]
    BY <1>8
  <2> HIDE DEF A
  <2>3. Searching!QueryOf(re, f) = Searching!QueryOf(re, g)
    BY <2>1, <2>2, QueryOfParts
  <2> QED BY <1>3, <2>3
<1>9. \A f \in F : f = [re \in S |-> f[re]]
  OBVIOUS
<1> HIDE DEF F
<1>10. PICK f \in F : \A re \in S : f[re] = G[re][f]
  <2>1. \A f \in F : \A n \in 0..MaxHeight :
          [re \in S |-> IF h[re] = n THEN G[re][f] ELSE f[re]] \in F
    BY <1>7
  <2>2. \A f \in F : \A g \in F : \A re \in S :
          (\A p \in S : h[p] < h[re] => f[p] = g[p]) => G[re][f] = G[re][g]
    BY <1>8
  <2>3. Recursive(S, MaxHeight, h, F, G)
    BY <1>0, <1>1, <1>6, <2>1, <2>2, Zenon DEF Recursive
  <2> QED BY <2>3, RecursionExists
<1>11. \A re \in S : f[re] = Searching!QueryOf(re, f)
  BY <1>3, <1>10
<1>12. f = [re \in S |-> Searching!QueryOf(re, f)]
  BY <1>9, <1>10, <1>11, Zenon
<1> QED BY <1>12 DEF S

\* The query of a pattern is made of those of its parts, and has room for that of a key.
LEMMA Queried ==
  \E f : \A re \in Searching!Pattern :
    /\ Searching!RegexToTrigramQuery(re) = f[re]
    /\ f[re] = Searching!QueryOf(re, f)
    /\ f[re] \in Searching!Queries[MaxHeight + 1]
<1> DEFINE S == Searching!Pattern
           f == CHOOSE f : f = [p \in S |-> Searching!QueryOf(p, f)]
<1>0. MaxHeight \in Nat
  BY SearchAssumption
<1>1. f = [p \in S |-> Searching!QueryOf(p, f)]
  BY QueryExists, Zenon
<1>2. \A re : Searching!RegexToTrigramQuery(re) = f[re]
  BY QueryIs
<1> HIDE DEF f
<1>3. \A re \in S : f[re] = Searching!QueryOf(re, f)
  BY <1>1
<1>4. PICK h \in [S -> 0..MaxHeight] :
        \A re \in S : re \in Searching!PatternsOver({p \in S : h[p] < h[re]})
  BY PatternsHeights
<1> DEFINE B == {re \in S : f[re] \notin Searching!Queries[h[re] + 1]}
<1>5. ASSUME NEW re \in B PROVE \E p \in B : h[p] < h[re]
  <2>1. Searching!QueryOf(re, f) \notin Searching!Queries[h[re] + 1]
    BY <1>3
  <2>2. ~\A p \in S : h[p] < h[re] => f[p] \in Searching!Queries[h[p] + 1]
    BY <1>4, <2>1, QueryOfLevel
  <2> QED BY <2>2
<1>6. B = {}
  <2>1. B \in SUBSET S
    OBVIOUS
  <2>2. \A re \in B : \E p \in B : h[p] < h[re]
    BY <1>5
  <2> HIDE DEF B, S
  <2>3. Descending(S, MaxHeight, h, B)
    BY <1>0, <1>4, <2>1, <2>2 DEF Descending
  <2> QED BY <2>3, ByHeight
<1>7. ASSUME NEW re \in S PROVE f[re] \in Searching!Queries[MaxHeight + 1]
  <2>1. f[re] \in Searching!Queries[h[re] + 1]
    BY <1>6
  <2>2. h[re] \in 0..MaxHeight
    OBVIOUS
  <2>3. h[re] + 1 \in 0..(MaxHeight + 1) /\ MaxHeight + 1 \in 0..(MaxHeight + 2)
    BY <1>0, <2>2
  <2> QED BY <2>1, <2>3, QueriesGrow
<1> QED BY <1>2, <1>3, <1>7

SimpleBy(f, q) ==
  IF q.op \in {"and", "or"} THEN Searching!Simplified(q.op, {f[c] : c \in q.children}) ELSE q

LEMMA SimplifyIs ==
  ASSUME NEW q
  PROVE  Searching!Simplify(q) = (CHOOSE f : f = [p \in Searching!Query |-> SimpleBy(f, p)])[q]
BY DEF Searching!Simplify, SimpleBy

LEMMA QueryChildren ==
  ASSUME NEW n \in 0..(MaxHeight + 2), NEW q \in Searching!Queries[n], q.op \in {"and", "or"}
  PROVE  q.children \subseteq Searching!Queries[n]
<1>0. MaxHeight \in Nat
  BY SearchAssumption
<1> DEFINE A == IF n = 0 THEN {} ELSE Searching!Queries[n - 1]
<1>1. q \in Searching!QueriesOver(A)
  BY QueriesEqual
<1>2. A \subseteq Searching!Queries[n]
  <2>1. n # 0 => n - 1 \in 0..n
    BY <1>0
  <2> QED BY <2>1, QueriesGrow
<1> HIDE DEF A
<1>3. q.children \subseteq A
  BY <1>1, QueryShapes
<1> QED BY <1>2, <1>3

\* The children, those of a child of the same kind instead of it.
Flat(op, children) ==
  UNION {IF q.op = op THEN q.children ELSE {q} :
           q \in children \ {IF op = "and" THEN Searching!AllQuery ELSE Searching!NoneQuery}}

LEMMA SimplifiedIs ==
  ASSUME NEW op \in {"and", "or"}, NEW C
  PROVE  LET flat == Flat(op, C)
             decides == IF op = "and" THEN Searching!NoneQuery ELSE Searching!AllQuery
             neutral == IF op = "and" THEN Searching!AllQuery ELSE Searching!NoneQuery
         IN \/ decides \in C /\ Searching!Simplified(op, C) = decides
            \/ decides \notin C /\ flat = {} /\ Searching!Simplified(op, C) = neutral
            \/ /\ decides \notin C
               /\ \E q \in flat : flat = {q} /\ Searching!Simplified(op, C) = q
            \/ /\ decides \notin C /\ flat # {}
               /\ Searching!Simplified(op, C) =
                    IF op = "and" THEN Searching!AndQuery(flat) ELSE Searching!OrQuery(flat)
<1> DEFINE flat == Flat(op, C)
           decides == IF op = "and" THEN Searching!NoneQuery ELSE Searching!AllQuery
           neutral == IF op = "and" THEN Searching!AllQuery ELSE Searching!NoneQuery
<1>1. Searching!Simplified(op, C) =
        CASE decides \in C -> decides
          [] decides \notin C /\ flat = {} -> neutral
          [] decides \notin C /\ (\E q \in flat : flat = {q}) -> CHOOSE q \in flat : TRUE
          [] OTHER -> [op |-> op, children |-> flat]
  BY DEF Searching!Simplified, Flat
<1>2. [op |-> op, children |-> flat] =
        IF op = "and" THEN Searching!AndQuery(flat) ELSE Searching!OrQuery(flat)
  BY DEF Searching!AndQuery, Searching!OrQuery
<1> HIDE DEF flat, decides, neutral
<1>3. CASE decides \in C
  BY <1>1, <1>3 DEF flat, decides, neutral
<1>4. CASE decides \notin C /\ flat = {}
  BY <1>1, <1>4 DEF flat, decides, neutral
<1>5. CASE decides \notin C /\ \E q \in flat : flat = {q}
  <2>1. PICK q \in flat : flat = {q}
    BY <1>5
  <2>2. (CHOOSE p \in flat : TRUE) = q
    BY <2>1
  <2>3. Searching!Simplified(op, C) = q
    BY <1>1, <1>5, <2>1, <2>2
  <2> QED BY <1>5, <2>1, <2>3 DEF flat, decides, neutral
<1>6. CASE decides \notin C /\ flat # {} /\ ~\E q \in flat : flat = {q}
  <2>1. Searching!Simplified(op, C) = [op |-> op, children |-> flat]
    BY <1>1, <1>6
  <2> QED BY <1>2, <1>6, <2>1 DEF flat, decides, neutral
<1> QED BY <1>3, <1>4, <1>5, <1>6

LEMMA SimplifiedType ==
  ASSUME NEW n \in 0..(MaxHeight + 2), NEW op \in {"and", "or"}, NEW C,
         \A q \in C : n # 0 /\ q \in Searching!Queries[n - 1]
  PROVE  Searching!Simplified(op, C) \in Searching!Queries[n]
<1>0. MaxHeight \in Nat
  BY SearchAssumption
<1> DEFINE flat == Flat(op, C)
<1>1. ASSUME NEW x \in flat PROVE n # 0 /\ x \in Searching!Queries[n - 1] /\ x \in Searching!Queries[n]
  <2>1. PICK q \in C : x \in IF q.op = op THEN q.children ELSE {q}
    BY DEF Flat
  <2>2. n # 0 /\ n - 1 \in 0..(MaxHeight + 2) /\ n - 1 \in 0..n
    BY <1>0
  <2>3. q \in Searching!Queries[n - 1] /\ (q.op = op => q.children \subseteq Searching!Queries[n - 1])
    BY <2>2, QueryChildren
  <2>4. x \in Searching!Queries[n - 1]
    BY <2>1, <2>3
  <2> QED BY <2>2, <2>4, QueriesGrow
<1>2. flat = {} \/ (n # 0 /\ flat \subseteq Searching!Queries[n - 1])
  BY <1>1
<1>3. \A x \in flat : x \in Searching!Queries[n]
  BY <1>1
<1>4. Searching!AndQuery(flat) \in Searching!Queries[n]
  BY <1>2, QueriesHave
<1>5. flat # {} => Searching!OrQuery(flat) \in Searching!Queries[n]
  BY <1>2, QueriesHave
<1>6. Searching!AllQuery \in Searching!Queries[n] /\ Searching!NoneQuery \in Searching!Queries[n]
  BY QueriesHave
<1> HIDE DEF flat
<1>7. \/ Searching!Simplified(op, C) \in {Searching!AllQuery, Searching!NoneQuery}
      \/ Searching!Simplified(op, C) \in flat
      \/ flat # {} /\ Searching!Simplified(op, C) \in {Searching!AndQuery(flat), Searching!OrQuery(flat)}
  BY SimplifiedIs DEF flat
<1> QED
  <2>1. CASE Searching!Simplified(op, C) \in {Searching!AllQuery, Searching!NoneQuery}
    BY <1>6, <2>1
  <2>2. CASE Searching!Simplified(op, C) \in flat
    BY <1>3, <2>2
  <2>3. CASE flat # {} /\ Searching!Simplified(op, C) \in {Searching!AndQuery(flat), Searching!OrQuery(flat)}
    BY <1>4, <1>5, <2>3
  <2> QED BY <1>7, <2>1, <2>2, <2>3

\* A query is simplified to one of its level.
LEMMA SimpleByLevel ==
  ASSUME NEW h \in [Searching!Query -> 0..(MaxHeight + 2)], NEW f, NEW q \in Searching!Query,
         q \in Searching!Queries[h[q]],
         q \in Searching!QueriesOver({c \in Searching!Query : h[c] < h[q]}),
         \A c \in Searching!Query : h[c] < h[q] => f[c] \in Searching!Queries[h[c]]
  PROVE  SimpleBy(f, q) \in Searching!Queries[h[q]]
<1>0. MaxHeight \in Nat
  BY SearchAssumption
<1> SUFFICES ASSUME q.op \in {"and", "or"} PROVE SimpleBy(f, q) \in Searching!Queries[h[q]]
  BY DEF SimpleBy
<1> DEFINE A == {c \in Searching!Query : h[c] < h[q]}
           C == {f[c] : c \in q.children}
<1>1. ASSUME NEW c \in A PROVE h[q] # 0 /\ f[c] \in Searching!Queries[h[q] - 1]
  <2>1. h[c] \in 0..(MaxHeight + 2) /\ h[q] \in 0..(MaxHeight + 2) /\ h[c] < h[q]
    OBVIOUS
  <2>2. h[c] \in 0..(h[q] - 1) /\ h[q] - 1 \in 0..(MaxHeight + 2) /\ h[q] # 0
    BY <1>0, <2>1
  <2>3. Searching!Queries[h[c]] \subseteq Searching!Queries[h[q] - 1]
    BY <2>2, QueriesGrow
  <2> QED BY <2>2, <2>3
<1>2. q \in Searching!QueriesOver(A) /\ h[q] \in 0..(MaxHeight + 2)
  OBVIOUS
<1> HIDE DEF A
<1>3. q.children \subseteq A
  BY <1>2, QueryShapes
<1>4. \A x \in C : h[q] # 0 /\ x \in Searching!Queries[h[q] - 1]
  BY <1>1, <1>3
<1>5. SimpleBy(f, q) = Searching!Simplified(q.op, C)
  BY DEF SimpleBy
<1> HIDE DEF C
<1> QED BY <1>2, <1>4, <1>5, SimplifiedType

LEMMA SimpleByParts ==
  ASSUME NEW A, NEW q \in Searching!QueriesOver(A), NEW f, NEW g, \A c \in A : f[c] = g[c]
  PROVE  SimpleBy(f, q) = SimpleBy(g, q)
<1>1. CASE q.op \in {"and", "or"}
  <2>1. q.children \subseteq A
    BY <1>1, QueryShapes
  <2>2. {f[c] : c \in q.children} = {g[c] : c \in q.children}
    BY <2>1
  <2> QED BY <1>1, <2>2 DEF SimpleBy
<1>2. CASE q.op \notin {"and", "or"}
  BY <1>2 DEF SimpleBy
<1> QED BY <1>1, <1>2

\* The recursive function exists that simplifies queries.
LEMMA SimpleExists == \E f : f = [q \in Searching!Query |-> SimpleBy(f, q)]
<1> DEFINE S == Searching!Query
           N == MaxHeight + 2
<1>0. N \in Nat
  <2>1. MaxHeight \in Nat
    BY SearchAssumption
  <2> QED BY <2>1
<1>1. PICK h \in [S -> 0..N] :
        \A q \in S : /\ q \in Searching!Queries[h[q]]
                     /\ q \in Searching!QueriesOver({c \in S : h[c] < h[q]})
  BY QueriesHeights
<1> DEFINE F == {f \in [S -> Searching!Query] : \A q \in S : f[q] \in Searching!Queries[h[q]]}
           G == [q \in S |-> [f \in F |-> SimpleBy(f, q)]]
<1>2. \A q \in S : h[q] \in 0..N
  BY <1>0
<1>3. \A q \in S : \A f \in F : G[q][f] = SimpleBy(f, q)
  BY Zenon
<1>4. \A q \in S : \A f \in F : SimpleBy(f, q) \in Searching!Queries[h[q]]
  BY <1>1, SimpleByLevel
<1>5. \A q \in S : Searching!Queries[h[q]] \subseteq Searching!Query
  BY <1>2, QueriesHave
<1> HIDE DEF S, G, N
<1>6. F # {}
  <2> DEFINE f == [q \in S |-> q]
  <2>1. f \in F
    BY <1>1, <1>5
  <2> QED BY <2>1
<1>7. ASSUME NEW f \in F, NEW n \in 0..N
      PROVE  [q \in S |-> IF h[q] = n THEN G[q][f] ELSE f[q]] \in F
  <2>1. \A q \in S : (IF h[q] = n THEN G[q][f] ELSE f[q]) \in Searching!Queries[h[q]]
    BY <1>3, <1>4
  <2> QED BY <1>5, <2>1
<1>8. ASSUME NEW f \in F, NEW g \in F, NEW q \in S, \A c \in S : h[c] < h[q] => f[c] = g[c]
      PROVE  G[q][f] = G[q][g]
  <2> DEFINE A == {c \in S : h[c] < h[q]}
  <2>1. q \in Searching!QueriesOver(A)
    BY <1>1
  <2>2. \A c \in A : f[c] = g[c]
    BY <1>8
  <2> HIDE DEF A
  <2>3. SimpleBy(f, q) = SimpleBy(g, q)
    BY <2>1, <2>2, SimpleByParts
  <2> QED BY <1>3, <2>3
<1>9. \A f \in F : f = [q \in S |-> f[q]]
  OBVIOUS
<1> HIDE DEF F
<1>10. PICK f \in F : \A q \in S : f[q] = G[q][f]
  <2>1. \A f \in F : \A n \in 0..N : [q \in S |-> IF h[q] = n THEN G[q][f] ELSE f[q]] \in F
    BY <1>7
  <2>2. \A f \in F : \A g \in F : \A q \in S :
          (\A c \in S : h[c] < h[q] => f[c] = g[c]) => G[q][f] = G[q][g]
    BY <1>8
  <2>3. Recursive(S, N, h, F, G)
    BY <1>0, <1>1, <1>6, <2>1, <2>2, Zenon DEF Recursive
  <2> QED BY <2>3, RecursionExists
<1>11. \A q \in S : f[q] = SimpleBy(f, q)
  BY <1>3, <1>10
<1>12. f = [q \in S |-> SimpleBy(f, q)]
  BY <1>9, <1>10, <1>11, Zenon
<1> QED BY <1>12 DEF S

\* A connective of what is true, or not, with these trigrams is simplified to what is
\* true, or not, with them.
LEMMA SimplifiedKeeps ==
  ASSUME NEW T, NEW op \in {"and", "or"}, NEW n \in 0..(MaxHeight + 2), NEW C,
         \A q \in C : n # 0 /\ q \in Searching!Queries[n - 1]
  PROVE  Searching!evalTrigramQuery(Searching!Simplified(op, C), T) <=>
           \/ op = "and" /\ \A q \in C : Searching!evalTrigramQuery(q, T)
           \/ op = "or" /\ \E q \in C : Searching!evalTrigramQuery(q, T)
<1> DEFINE flat == Flat(op, C)
           Holds(q) == Searching!evalTrigramQuery(q, T)
           simplified == Searching!Simplified(op, C)
<1>0. MaxHeight \in Nat
  BY SearchAssumption
<1>1. simplified \in Searching!Query
  <2>1. simplified \in Searching!Queries[n]
    BY SimplifiedType
  <2> QED BY <2>1, QueriesHave
<1>2. \A q \in C : q \in Searching!Query
  <2>1. ASSUME NEW q \in C PROVE q \in Searching!Query
    <3>1. n - 1 \in 0..(MaxHeight + 2) /\ q \in Searching!Queries[n - 1]
      BY <1>0
    <3> QED BY <3>1, QueriesHave
  <2> QED BY <2>1
<1>3. /\ Searching!AllQuery \in Searching!Query /\ Searching!AllQuery.op = "all"
      /\ Searching!NoneQuery \in Searching!Query /\ Searching!NoneQuery.op = "none"
  <2>1. n \in 0..(MaxHeight + 2)
    OBVIOUS
  <2> QED BY <2>1, QueriesHave DEF Searching!AllQuery, Searching!NoneQuery
<1>4. Holds(Searching!AllQuery) /\ ~Holds(Searching!NoneQuery)
  BY <1>3, Evaluates
<1>5. ASSUME op = "and"
      PROVE  (\A x \in flat : Holds(x)) <=> \A q \in C : Holds(q)
  <2>1. \A q \in C : q.op = "and" => (Holds(q) <=> \A x \in q.children : Holds(x))
    BY <1>2, Evaluates
  <2> DEFINE D == C \ {Searching!AllQuery}
  <2>2. flat = UNION {IF q.op = "and" THEN q.children ELSE {q} : q \in D}
    BY <1>5 DEF Flat
  <2> HIDE DEF flat
  <2>3. \A x \in flat : \E q \in D : (q.op = "and" /\ x \in q.children) \/ (q.op # "and" /\ x = q)
    BY <2>2
  <2>4. \A q \in D : q.op = "and" => q.children \subseteq flat
    BY <2>2
  <2>5. \A q \in D : q.op # "and" => q \in flat
    BY <2>2
  <2> HIDE DEF Holds
  <2>6. ASSUME \A q \in C : Holds(q), NEW x \in flat PROVE Holds(x)
    BY <2>1, <2>3, <2>6
  <2>7. ASSUME \A x \in flat : Holds(x), NEW q \in C PROVE Holds(q)
    BY <1>4, <2>1, <2>4, <2>5, <2>7
  <2> QED BY <2>6, <2>7
<1>6. ASSUME op = "or"
      PROVE  (\E x \in flat : Holds(x)) <=> \E q \in C : Holds(q)
  <2>1. \A q \in C : q.op = "or" => (Holds(q) <=> \E x \in q.children : Holds(x))
    BY <1>2, Evaluates
  <2> DEFINE D == C \ {Searching!NoneQuery}
  <2>2. flat = UNION {IF q.op = "or" THEN q.children ELSE {q} : q \in D}
    BY <1>6 DEF Flat
  <2> HIDE DEF flat
  <2>3. \A x \in flat : \E q \in D : (q.op = "or" /\ x \in q.children) \/ (q.op # "or" /\ x = q)
    BY <2>2
  <2>4. \A q \in D : q.op = "or" => q.children \subseteq flat
    BY <2>2
  <2>5. \A q \in D : q.op # "or" => q \in flat
    BY <2>2
  <2> HIDE DEF Holds
  <2>6. ASSUME NEW x \in flat, Holds(x) PROVE \E q \in C : Holds(q)
    BY <2>1, <2>3, <2>6
  <2>7. ASSUME NEW q \in C, Holds(q) PROVE \E x \in flat : Holds(x)
    BY <1>4, <2>1, <2>4, <2>5, <2>7
  <2> QED BY <2>6, <2>7
<1>7. simplified = Searching!AndQuery(flat) => (Holds(simplified) <=> \A x \in flat : Holds(x))
  <2>1. Searching!AndQuery(flat).op = "and" /\ Searching!AndQuery(flat).children = flat
    BY DEF Searching!AndQuery
  <2> QED BY <1>1, <2>1, Evaluates
<1>8. simplified = Searching!OrQuery(flat) => (Holds(simplified) <=> \E x \in flat : Holds(x))
  <2>1. Searching!OrQuery(flat).op = "or" /\ Searching!OrQuery(flat).children = flat
    BY DEF Searching!OrQuery
  <2> QED BY <1>1, <2>1, Evaluates
<1>9. CASE op = "and"
  <2>1. \/ Searching!NoneQuery \in C /\ simplified = Searching!NoneQuery
        \/ flat = {} /\ simplified = Searching!AllQuery
        \/ \E q \in flat : flat = {q} /\ simplified = q
        \/ simplified = Searching!AndQuery(flat)
    BY <1>9, SimplifiedIs
  <2> HIDE DEF flat, simplified, Holds
  <2>2. Holds(simplified) <=> \A q \in C : Holds(q)
    BY <1>4, <1>5, <1>7, <1>9, <2>1
  <2> QED BY <1>9, <2>2 DEF Holds, simplified
<1>10. CASE op = "or"
  <2>1. \/ Searching!AllQuery \in C /\ simplified = Searching!AllQuery
        \/ flat = {} /\ simplified = Searching!NoneQuery
        \/ \E q \in flat : flat = {q} /\ simplified = q
        \/ simplified = Searching!OrQuery(flat)
    BY <1>10, SimplifiedIs
  <2> HIDE DEF flat, simplified, Holds
  <2>2. Holds(simplified) <=> \E q \in C : Holds(q)
    BY <1>4, <1>6, <1>8, <1>10, <2>1
  <2> QED BY <1>10, <2>2 DEF Holds, simplified
<1> QED BY <1>9, <1>10

\* Simplifying a query loses and adds nothing.
LEMMA SimplifyKeeps ==
  ASSUME NEW T, NEW q \in Searching!Query
  PROVE  /\ Searching!Simplify(q) \in Searching!Query
         /\ Searching!evalTrigramQuery(Searching!Simplify(q), T) <=> Searching!evalTrigramQuery(q, T)
         /\ \A n \in 0..(MaxHeight + 2) : q \in Searching!Queries[n] => Searching!Simplify(q) \in Searching!Queries[n]
<1> DEFINE S == Searching!Query
           N == MaxHeight + 2
           f == CHOOSE f : f = [p \in S |-> SimpleBy(f, p)]
           Holds(p) == Searching!evalTrigramQuery(p, T)
<1>0. MaxHeight \in Nat /\ N \in Nat
  <2>1. MaxHeight \in Nat
    BY SearchAssumption
  <2> QED BY <2>1
<1>1. f = [p \in S |-> SimpleBy(f, p)]
  BY SimpleExists, Zenon
<1>2. \A p : Searching!Simplify(p) = f[p]
  BY SimplifyIs
<1> HIDE DEF f
<1>3. \A p \in S : f[p] = SimpleBy(f, p)
  BY <1>1
<1>4. PICK h \in [S -> 0..N] :
        \A p \in S : /\ p \in Searching!Queries[h[p]]
                     /\ \A n \in 0..N : p \in Searching!Queries[n] => h[p] <= n
                     /\ p \in Searching!QueriesOver({c \in S : h[c] < h[p]})
  BY QueriesHeights
<1> DEFINE B == {p \in S : f[p] \notin Searching!Queries[h[p]]}
           D == {p \in S : ~(Holds(f[p]) <=> Holds(p))}
<1>5. ASSUME NEW p \in B PROVE \E c \in B : h[c] < h[p]
  <2>1. SimpleBy(f, p) \notin Searching!Queries[h[p]]
    BY <1>3
  <2>2. ~\A c \in S : h[c] < h[p] => f[c] \in Searching!Queries[h[c]]
    BY <1>4, <2>1, SimpleByLevel
  <2> QED BY <2>2
<1>6. B = {}
  <2>1. B \in SUBSET S
    OBVIOUS
  <2>2. N \in Nat /\ h \in [S -> 0..N]
    BY <1>0, <1>4
  <2>3. \A p \in B : \E c \in B : h[c] < h[p]
    BY <1>5
  <2> HIDE DEF B, S, N
  <2>4. Descending(S, N, h, B)
    BY <2>1, <2>2, <2>3 DEF Descending
  <2> QED BY <2>4, ByHeight
<1>7. \A p \in S : f[p] \in Searching!Queries[h[p]] /\ h[p] \in 0..N
  BY <1>6
<1>8. ASSUME NEW p \in D PROVE \E c \in D : h[c] < h[p]
  <2> DEFINE A == {c \in S : h[c] < h[p]}
             C == {f[c] : c \in p.children}
  <2>1. p \in S /\ p \in Searching!QueriesOver(A) /\ ~(Holds(f[p]) <=> Holds(p)) /\ f[p] = SimpleBy(f, p)
    BY <1>3, <1>4
  <2>2. p.op \in {"and", "or"}
    BY <2>1 DEF SimpleBy
  <2>3. p.children \subseteq A
    <3> HIDE DEF A
    <3> QED BY <2>1, <2>2, QueryShapes
  <2>4. f[p] = Searching!Simplified(p.op, C)
    BY <2>1, <2>2 DEF SimpleBy
  <2>5. h[p] \in 0..(MaxHeight + 2)
    BY <1>7
  <2>6. ASSUME NEW c \in p.children PROVE h[p] # 0 /\ f[c] \in Searching!Queries[h[p] - 1]
    <3>1. c \in S /\ h[c] < h[p] /\ h[c] \in 0..N
      BY <1>7, <2>3
    <3>2. h[p] # 0 /\ h[p] - 1 \in 0..N /\ h[c] \in 0..(h[p] - 1)
      BY <1>0, <2>5, <3>1
    <3> QED BY <1>7, <3>1, <3>2, QueriesGrow
  <2>7. \A x \in C : h[p] # 0 /\ x \in Searching!Queries[h[p] - 1]
    BY <2>6
  <2> HIDE DEF C
  <2>8. Holds(f[p]) <=> \/ p.op = "and" /\ \A x \in C : Holds(x)
                        \/ p.op = "or" /\ \E x \in C : Holds(x)
    BY <2>2, <2>4, <2>5, <2>7, SimplifiedKeeps
  <2>9. Holds(p) <=> \/ p.op = "and" /\ \A c \in p.children : Holds(c)
                     \/ p.op = "or" /\ \E c \in p.children : Holds(c)
    BY <2>1, <2>2, Evaluates
  <2> HIDE DEF Holds, S
  <2>10. \E c \in p.children : ~(Holds(f[c]) <=> Holds(c))
    <3>1. (\A x \in C : Holds(x)) <=> \A c \in p.children : Holds(f[c])
      BY DEF C
    <3>2. (\E x \in C : Holds(x)) <=> \E c \in p.children : Holds(f[c])
      BY DEF C
    <3> QED BY <2>1, <2>8, <2>9, <3>1, <3>2
  <2> QED BY <2>3, <2>10
<1>9. D = {}
  <2>1. D \in SUBSET S
    OBVIOUS
  <2>2. N \in Nat /\ h \in [S -> 0..N]
    BY <1>0, <1>4
  <2>3. \A p \in D : \E c \in D : h[c] < h[p]
    BY <1>8
  <2> HIDE DEF D, S, N
  <2>4. Descending(S, N, h, D)
    BY <2>1, <2>2, <2>3 DEF Descending
  <2> QED BY <2>4, ByHeight
<1>10. Searching!Simplify(q) = f[q] /\ q \in S
  BY <1>2
<1>11. Holds(f[q]) <=> Holds(q)
  BY <1>9
<1>12. f[q] \in Searching!Query
  BY <1>7, QueriesHave
<1>13. ASSUME NEW n \in 0..(MaxHeight + 2), q \in Searching!Queries[n]
       PROVE  f[q] \in Searching!Queries[n]
  <2>1. h[q] <= n /\ h[q] \in 0..N /\ n \in 0..N
    BY <1>4, <1>7, <1>13
  <2>2. h[q] \in 0..n
    BY <1>0, <2>1
  <2> QED BY <1>7, <2>2, QueriesGrow
<1> QED BY <1>10, <1>11, <1>12, <1>13

ReachedBy(steps, i, f, k) == IF k = 0 THEN {i} ELSE UNION {steps[k][j] : j \in f[k - 1]}

LEMMA ThroughIs ==
  ASSUME NEW steps, NEW i
  PROVE  Searching!Through(steps, i) =
           (CHOOSE f : f = [k \in 0..Len(steps) |-> ReachedBy(steps, i, f, k)])[Len(steps)]
BY DEF Searching!Through, ReachedBy

LEMMA ReachedByType ==
  ASSUME NEW P, NEW m \in Nat, NEW steps, \A k \in 1..m : steps[k] \in [P -> SUBSET P],
         NEW i \in P, NEW f, NEW k \in 0..m, k # 0 => f[k - 1] \in SUBSET P
  PROVE  ReachedBy(steps, i, f, k) \in SUBSET P
<1>1. CASE k = 0
  BY <1>1 DEF ReachedBy
<1>2. CASE k # 0
  <2>1. steps[k] \in [P -> SUBSET P] /\ f[k - 1] \in SUBSET P
    BY <1>2
  <2>2. \A j \in f[k - 1] : steps[k][j] \in SUBSET P
    BY <2>1
  <2> QED BY <1>2, <2>2 DEF ReachedBy
<1> QED BY <1>1, <1>2

AreSteps(P, m, steps, i) ==
  m \in Nat /\ i \in P /\ \A k \in 1..m : steps[k] \in [P -> SUBSET P]

LEMMA ReachedExists ==
  ASSUME NEW P, NEW m, NEW steps, NEW i, AreSteps(P, m, steps, i)
  PROVE  \E f : f = [k \in 0..m |-> ReachedBy(steps, i, f, k)]
<1> DEFINE S == 0..m
           h == [k \in S |-> k]
           F == [S -> SUBSET P]
           G == [k \in S |-> [f \in F |-> ReachedBy(steps, i, f, k)]]
<1>0. m \in Nat /\ i \in P /\ \A k \in 1..m : steps[k] \in [P -> SUBSET P]
  BY DEF AreSteps
<1>1. h \in [S -> 0..m] /\ \A k \in S : h[k] = k
  BY <1>0
<1>2. \A k \in S : \A f \in F : G[k][f] = ReachedBy(steps, i, f, k)
  BY Zenon
<1>3. ASSUME NEW k \in S, NEW f \in F PROVE ReachedBy(steps, i, f, k) \in SUBSET P
  <2>1. k # 0 => k - 1 \in S
    BY <1>0
  <2>2. k # 0 => f[k - 1] \in SUBSET P
    BY <2>1
  <2> QED BY <1>0, <2>2, ReachedByType
<1> HIDE DEF G, h
<1>4. F # {}
  <2>1. [k \in S |-> {}] \in F
    OBVIOUS
  <2> QED BY <2>1
<1>5. ASSUME NEW f \in F, NEW n \in 0..m
      PROVE  [k \in S |-> IF h[k] = n THEN G[k][f] ELSE f[k]] \in F
  <2>1. \A k \in S : (IF h[k] = n THEN G[k][f] ELSE f[k]) \in SUBSET P
    BY <1>2, <1>3
  <2> QED BY <2>1
<1>6. ASSUME NEW f \in F, NEW g \in F, NEW k \in S, \A l \in S : h[l] < h[k] => f[l] = g[l]
      PROVE  G[k][f] = G[k][g]
  <2>1. k # 0 => k - 1 \in S /\ h[k - 1] < h[k]
    BY <1>0, <1>1
  <2>2. k # 0 => f[k - 1] = g[k - 1]
    BY <1>6, <2>1
  <2>3. ReachedBy(steps, i, f, k) = ReachedBy(steps, i, g, k)
    BY <2>2 DEF ReachedBy
  <2> QED BY <1>2, <2>3
<1>7. \A f \in F : f = [k \in S |-> f[k]]
  OBVIOUS
<1> HIDE DEF F, S
<1>8. PICK f \in F : \A k \in S : f[k] = G[k][f]
  <2>1. \A f \in F : \A n \in 0..m : [k \in S |-> IF h[k] = n THEN G[k][f] ELSE f[k]] \in F
    BY <1>5
  <2>2. \A f \in F : \A g \in F : \A k \in S :
          (\A l \in S : h[l] < h[k] => f[l] = g[l]) => G[k][f] = G[k][g]
    BY <1>6
  <2>3. Recursive(S, m, h, F, G)
    BY <1>0, <1>1, <1>4, <2>1, <2>2, Zenon DEF Recursive
  <2> QED BY <2>3, RecursionExists
<1>9. \A k \in S : f[k] = ReachedBy(steps, i, f, k)
  BY <1>2, <1>8
<1>10. f = [k \in S |-> ReachedBy(steps, i, f, k)]
  BY <1>7, <1>8, <1>9, Zenon
<1> QED BY <1>10 DEF S

\* A way through the steps takes each of them somewhere.
LEMMA ThroughSteps ==
  ASSUME NEW P, NEW steps, NEW i, AreSteps(P, Len(steps), steps, i)
  PROVE  /\ Searching!Through(steps, i) \in SUBSET P
         /\ Searching!Through(steps, i) # {} =>
              \A k \in 1..Len(steps) : \E j \in P : steps[k][j] # {}
<1> DEFINE m == Len(steps)
           S == 0..m
           r == CHOOSE f : f = [k \in S |-> ReachedBy(steps, i, f, k)]
<1>1. r = [k \in S |-> ReachedBy(steps, i, r, k)]
  <2> HIDE DEF r
  <2>1. AreSteps(P, m, steps, i)
    OBVIOUS
  <2> HIDE DEF m
  <2>2. \E f : f = [k \in S |-> ReachedBy(steps, i, f, k)]
    BY <2>1, ReachedExists
  <2> USE DEF r
  <2> QED BY <2>2, Zenon
<1>2. Searching!Through(steps, i) = r[m]
  BY ThroughIs
<1> HIDE DEF r
<1>3. \A k \in S : r[k] = ReachedBy(steps, i, r, k)
  BY <1>1
<1>4. m \in Nat /\ i \in P /\ \A k \in 1..m : steps[k] \in [P -> SUBSET P]
  BY DEF AreSteps
<1> HIDE DEF m
<1> DEFINE B == {k \in S : r[k] \notin SUBSET P}
           D == {k \in S : r[k] = {}}
<1>5. B = {}
  <2> DEFINE h == [k \in S |-> k]
  <2>1. h \in [S -> 0..m] /\ \A k \in S : h[k] = k
    OBVIOUS
  <2> HIDE DEF h
  <2>2. ASSUME NEW k \in B PROVE \E l \in B : h[l] < h[k]
    <3>1. ReachedBy(steps, i, r, k) \notin SUBSET P
      BY <1>3
    <3>2. k # 0 /\ r[k - 1] \notin SUBSET P
      BY <1>4, <3>1, ReachedByType
    <3>3. k - 1 \in S /\ k - 1 < k
      BY <1>4, <3>2
    <3> QED BY <2>1, <3>2, <3>3
  <2>3. B \in SUBSET S
    OBVIOUS
  <2>4. \A k \in B : \E l \in B : h[l] < h[k]
    BY <2>2
  <2>5. m \in Nat /\ h \in [S -> 0..m]
    BY <1>4, <2>1
  <2> HIDE DEF B, S
  <2>6. Descending(S, m, h, B)
    BY <2>3, <2>4, <2>5 DEF Descending
  <2> QED BY <2>6, ByHeight
<1>6. \A k \in S : r[k] \in SUBSET P
  BY <1>5
<1>7. ASSUME r[m] # {} PROVE D = {}
  <2> DEFINE h == [k \in S |-> m - k]
  <2>1. h \in [S -> 0..m] /\ \A k \in S : h[k] = m - k
    BY <1>4
  <2> HIDE DEF h
  <2>2. ASSUME NEW k \in D PROVE \E l \in D : h[l] < h[k]
    <3>1. k # m /\ k \in 0..m
      BY <1>7
    <3>2. k + 1 \in S /\ k + 1 # 0 /\ (k + 1) - 1 = k /\ m - (k + 1) < m - k
      BY <1>4, <3>1
    <3>3. r[k + 1] = ReachedBy(steps, i, r, k + 1)
      BY <1>3, <3>2
    <3>4. r[k + 1] = UNION {steps[k + 1][j] : j \in r[k]}
      BY <3>2, <3>3 DEF ReachedBy
    <3>5. r[k + 1] = {}
      BY <3>4
    <3>6. k + 1 \in D /\ h[k + 1] < h[k]
      BY <2>1, <3>2, <3>5
    <3> QED BY <3>6
  <2>3. D \in SUBSET S
    OBVIOUS
  <2>4. \A k \in D : \E l \in D : h[l] < h[k]
    BY <2>2
  <2>5. m \in Nat /\ h \in [S -> 0..m]
    BY <1>4, <2>1
  <2> HIDE DEF D, S
  <2>6. Descending(S, m, h, D)
    BY <2>3, <2>4, <2>5 DEF Descending
  <2> QED BY <2>6, ByHeight
<1>8. ASSUME r[m] # {}, NEW k \in 1..m PROVE \E j \in P : steps[k][j] # {}
  <2>1. k \in S /\ k # 0 /\ k - 1 \in S
    BY <1>4
  <2>2. r[k] # {} /\ r[k - 1] \in SUBSET P
    BY <1>6, <1>7, <1>8, <2>1
  <2>3. r[k] = UNION {steps[k][j] : j \in r[k - 1]}
    BY <1>3, <2>1 DEF ReachedBy
  <2> QED BY <2>2, <2>3
<1>9. m \in S
  BY <1>4
<1> QED BY <1>2, <1>6, <1>8, <1>9 DEF m

LEMMA TimesSteps ==
  ASSUME NEW P, NEW g \in [P -> SUBSET P], NEW n \in Nat, NEW i \in P
  PROVE  /\ Searching!Through([k \in 1..n |-> g], i) \in SUBSET P
         /\ n # 0 /\ Searching!Through([k \in 1..n |-> g], i) # {} => \E j \in P : g[j] # {}
<1> DEFINE steps == [k \in 1..n |-> g]
<1>1. Len(steps) = n /\ \A k \in 1..n : steps[k] = g
  OBVIOUS
<1> HIDE DEF steps
<1>2. \A k \in 1..Len(steps) : steps[k] \in [P -> SUBSET P]
  BY <1>1
<1>3. Len(steps) \in Nat
  BY <1>1
<1>4. /\ Searching!Through(steps, i) \in SUBSET P
      /\ Searching!Through(steps, i) # {} => \A k \in 1..Len(steps) : \E j \in P : steps[k][j] # {}
  <2>1. AreSteps(P, Len(steps), steps, i)
    BY <1>2, <1>3 DEF AreSteps
  <2> QED BY <2>1, ThroughSteps
<1>5. n # 0 => 1 \in 1..Len(steps) /\ steps[1] = g
  BY <1>1
<1> QED BY <1>4, <1>5 DEF steps

\* Of a pattern over others it is known where a match of these can end.
PartsEnd(A, re, f, text) ==
  /\ Len(text) \in Nat /\ re \in Searching!PatternsOver(A)
  /\ \A p \in A : f[p] \in [0..Len(text) -> SUBSET (0..Len(text))]

\* What a match of a pattern takes of its parts.
LEMMA EndsOfType ==
  ASSUME NEW A, NEW re, NEW f, NEW text, NEW i, PartsEnd(A, re, f, text), i \in 0..Len(text)
  PROVE  /\ Searching!EndsOf(re, f, text, i) \in SUBSET (0..Len(text))
         /\ Searching!EndsOf(re, f, text, i) # {} =>
              /\ re.op = "concat" => \A k \in DOMAIN re.sub : \E j \in 0..Len(text) : f[re.sub[k]][j] # {}
              /\ re.op = "alternate" => \E k \in DOMAIN re.sub : \E j \in 0..Len(text) : f[re.sub[k]][j] # {}
              /\ re.op = "plus" => \E j \in 0..Len(text) : f[re.sub[1]][j] # {}
<1> DEFINE P == 0..Len(text)
<1>0. /\ Len(text) \in Nat /\ re \in Searching!PatternsOver(A)
      /\ \A p \in A : f[p] \in [0..Len(text) -> SUBSET (0..Len(text))]
  BY DEF PartsEnd
<1>1. CASE re.op = "literal"
  <2>1. Searching!EndsOf(re, f, text, i) =
          {j \in P : j = i + Len(re.text) /\ SubSeq(text, i + 1, j) = re.text}
    BY <1>1, Zenon DEF Searching!EndsOf
  <2> QED BY <1>1, <2>1
<1>2. CASE re.op = "any"
  <2>1. Searching!EndsOf(re, f, text, i) = {j \in P : j = i + 1 /\ text[j] # "\n"}
    BY <1>2, Zenon DEF Searching!EndsOf
  <2> QED BY <1>2, <2>1
<1>3. CASE re.op = "concat"
  <2> DEFINE steps == [k \in DOMAIN re.sub |-> f[re.sub[k]]]
  <2>1. Searching!EndsOf(re, f, text, i) = Searching!Through(steps, i)
    BY <1>3, Zenon DEF Searching!EndsOf
  <2>2. re.sub \in Seq(A) /\ \A k \in DOMAIN re.sub : re.sub[k] \in A
    BY <1>3, <1>0, PatternShapes
  <2>3. Len(steps) = Len(re.sub) /\ Len(re.sub) \in Nat /\ DOMAIN re.sub = 1..Len(re.sub)
    BY <2>2
  <2>4. \A k \in DOMAIN re.sub : steps[k] = f[re.sub[k]]
    OBVIOUS
  <2> HIDE DEF steps, P
  <2>5. \A k \in 1..Len(steps) : steps[k] \in [P -> SUBSET P]
    BY <1>0, <2>2, <2>3, <2>4 DEF P
  <2>6. i \in P /\ Len(steps) \in Nat
    BY <2>3 DEF P
  <2>7. /\ Searching!Through(steps, i) \in SUBSET P
        /\ Searching!Through(steps, i) # {} => \A k \in 1..Len(steps) : \E j \in P : steps[k][j] # {}
    <3>1. AreSteps(P, Len(steps), steps, i)
      BY <2>5, <2>6 DEF AreSteps
    <3> QED BY <3>1, ThroughSteps
  <2> QED BY <1>3, <2>1, <2>3, <2>4, <2>7 DEF P
<1>4. CASE re.op = "alternate"
  <2>1. Searching!EndsOf(re, f, text, i) = UNION {f[re.sub[k]][i] : k \in DOMAIN re.sub}
    BY <1>4, Zenon DEF Searching!EndsOf
  <2>2. \A k \in DOMAIN re.sub : re.sub[k] \in A
    BY <1>4, <1>0, PatternShapes
  <2>3. \A k \in DOMAIN re.sub : f[re.sub[k]][i] \in SUBSET P
    BY <1>0, <2>2
  <2>4. Searching!EndsOf(re, f, text, i) \in SUBSET P
    BY <2>1, <2>3
  <2>5. Searching!EndsOf(re, f, text, i) # {} => \E k \in DOMAIN re.sub : f[re.sub[k]][i] # {}
    BY <2>1
  <2> QED BY <1>4, <2>4, <2>5
<1>5. CASE re.op \in {"star", "plus"}
  <2>1. f[re.sub[1]] \in [P -> SUBSET P]
    BY <1>5, <1>0, PatternShapes
  <2> DEFINE Passed(n) == Searching!Through([k \in 1..n |-> f[re.sub[1]]], i)
  <2>2. ASSUME re.op = "star"
        PROVE  Searching!EndsOf(re, f, text, i) = UNION {Passed(n) : n \in P}
    BY <2>2, Zenon DEF Searching!EndsOf
  <2>3. ASSUME re.op = "plus"
        PROVE  Searching!EndsOf(re, f, text, i) = UNION {Passed(n + 1) : n \in P}
    BY <2>3, Zenon DEF Searching!EndsOf
  <2>4. /\ re.op = "star" => Searching!EndsOf(re, f, text, i) = UNION {Passed(n) : n \in P}
        /\ re.op = "plus" => Searching!EndsOf(re, f, text, i) = UNION {Passed(n + 1) : n \in P}
    BY <2>2, <2>3
  <2>5. i \in P /\ \A n \in P : n \in Nat /\ n + 1 \in Nat /\ n + 1 # 0
    BY <1>0
  <2> HIDE DEF P
  <2>6. \A n \in Nat : Passed(n) \in SUBSET P /\ (n # 0 /\ Passed(n) # {} => \E j \in P : f[re.sub[1]][j] # {})
    BY <2>1, <2>5, TimesSteps
  <2> HIDE DEF Passed
  <2>7. Searching!EndsOf(re, f, text, i) \in SUBSET P
    BY <1>5, <2>4, <2>5, <2>6
  <2>8. re.op = "plus" /\ Searching!EndsOf(re, f, text, i) # {} => \E n \in P : Passed(n + 1) # {}
    BY <2>4
  <2>9. re.op = "plus" /\ Searching!EndsOf(re, f, text, i) # {} => \E j \in P : f[re.sub[1]][j] # {}
    BY <2>5, <2>6, <2>8
  <2> QED BY <1>5, <2>7, <2>9 DEF P
<1> QED BY <1>1, <1>2, <1>3, <1>4, <1>5, <1>0, PatternShapes

\* Where a match can end depends on the parts of the pattern only.
LEMMA EndsOfParts ==
  ASSUME NEW text, NEW A, NEW re \in Searching!PatternsOver(A), NEW f, NEW g,
         \A p \in A : f[p] = g[p], NEW i
  PROVE  Searching!EndsOf(re, f, text, i) = Searching!EndsOf(re, g, text, i)
<1>1. CASE re.op \in {"concat", "alternate"}
  <2>1. \A k \in DOMAIN re.sub : f[re.sub[k]] = g[re.sub[k]]
    BY <1>1, PatternShapes
  <2>2. [k \in DOMAIN re.sub |-> f[re.sub[k]]] = [k \in DOMAIN re.sub |-> g[re.sub[k]]]
    BY <2>1
  <2>3. {f[re.sub[k]][i] : k \in DOMAIN re.sub} = {g[re.sub[k]][i] : k \in DOMAIN re.sub}
    BY <2>1
  <2>4. CASE re.op = "concat"
    <3>1. Searching!EndsOf(re, f, text, i) = Searching!Through([k \in DOMAIN re.sub |-> f[re.sub[k]]], i)
      BY <2>4, Zenon DEF Searching!EndsOf
    <3>2. Searching!EndsOf(re, g, text, i) = Searching!Through([k \in DOMAIN re.sub |-> g[re.sub[k]]], i)
      BY <2>4, Zenon DEF Searching!EndsOf
    <3> QED BY <2>2, <3>1, <3>2, Zenon
  <2>5. CASE re.op = "alternate"
    <3>1. Searching!EndsOf(re, f, text, i) = UNION {f[re.sub[k]][i] : k \in DOMAIN re.sub}
      BY <2>5, Zenon DEF Searching!EndsOf
    <3>2. Searching!EndsOf(re, g, text, i) = UNION {g[re.sub[k]][i] : k \in DOMAIN re.sub}
      BY <2>5, Zenon DEF Searching!EndsOf
    <3> QED BY <2>3, <3>1, <3>2, Zenon
  <2> QED BY <1>1, <2>4, <2>5
<1>2. CASE re.op \in {"star", "plus"}
  <2>1. f[re.sub[1]] = g[re.sub[1]]
    BY <1>2, PatternShapes
  <2>2. CASE re.op = "star"
    <3>1. Searching!EndsOf(re, f, text, i) =
            UNION {Searching!Through([k \in 1..n |-> f[re.sub[1]]], i) : n \in 0..Len(text)}
      BY <2>2, Zenon DEF Searching!EndsOf
    <3>2. Searching!EndsOf(re, g, text, i) =
            UNION {Searching!Through([k \in 1..n |-> g[re.sub[1]]], i) : n \in 0..Len(text)}
      BY <2>2, Zenon DEF Searching!EndsOf
    <3>3. \A n \in 0..Len(text) :
            Searching!Through([k \in 1..n |-> f[re.sub[1]]], i) =
            Searching!Through([k \in 1..n |-> g[re.sub[1]]], i)
      BY <2>1
    <3> QED BY <3>1, <3>2, <3>3
  <2>3. CASE re.op = "plus"
    <3>1. Searching!EndsOf(re, f, text, i) =
            UNION {Searching!Through([k \in 1..(n + 1) |-> f[re.sub[1]]], i) : n \in 0..Len(text)}
      BY <2>3, Zenon DEF Searching!EndsOf
    <3>2. Searching!EndsOf(re, g, text, i) =
            UNION {Searching!Through([k \in 1..(n + 1) |-> g[re.sub[1]]], i) : n \in 0..Len(text)}
      BY <2>3, Zenon DEF Searching!EndsOf
    <3>3. \A n \in 0..Len(text) :
            Searching!Through([k \in 1..(n + 1) |-> f[re.sub[1]]], i) =
            Searching!Through([k \in 1..(n + 1) |-> g[re.sub[1]]], i)
      BY <2>1
    <3> QED BY <3>1, <3>2, <3>3
  <2> QED BY <1>2, <2>2, <2>3
<1>3. CASE re.op = "literal"
  <2>1. Searching!EndsOf(re, f, text, i) =
          {j \in 0..Len(text) : j = i + Len(re.text) /\ SubSeq(text, i + 1, j) = re.text}
    BY <1>3, Zenon DEF Searching!EndsOf
  <2>2. Searching!EndsOf(re, g, text, i) =
          {j \in 0..Len(text) : j = i + Len(re.text) /\ SubSeq(text, i + 1, j) = re.text}
    BY <1>3, Zenon DEF Searching!EndsOf
  <2> QED BY <2>1, <2>2, Zenon
<1>4. CASE re.op = "any"
  <2>1. Searching!EndsOf(re, f, text, i) = {j \in 0..Len(text) : j = i + 1 /\ text[j] # "\n"}
    BY <1>4, Zenon DEF Searching!EndsOf
  <2>2. Searching!EndsOf(re, g, text, i) = {j \in 0..Len(text) : j = i + 1 /\ text[j] # "\n"}
    BY <1>4, Zenon DEF Searching!EndsOf
  <2> QED BY <2>1, <2>2, Zenon
<1> QED BY <1>1, <1>2, <1>3, <1>4, PatternShapes

EndsBy(f, re, text) == [i \in 0..Len(text) |-> Searching!EndsOf(re, f, text, i)]

LEMMA EndsIs ==
  ASSUME NEW re, NEW text
  PROVE  Searching!Ends(re, text) =
           (CHOOSE f : f = [p \in Searching!Pattern |-> EndsBy(f, p, text)])[re]
BY DEF Searching!Ends, EndsBy

LEMMA EndsByType ==
  ASSUME NEW text, Len(text) \in Nat, NEW A, NEW re \in Searching!PatternsOver(A), NEW f,
         \A p \in A : f[p] \in [0..Len(text) -> SUBSET (0..Len(text))]
  PROVE  EndsBy(f, re, text) \in [0..Len(text) -> SUBSET (0..Len(text))]
<1>1. PartsEnd(A, re, f, text)
  BY DEF PartsEnd
<1>2. \A i \in 0..Len(text) : Searching!EndsOf(re, f, text, i) \in SUBSET (0..Len(text))
  BY <1>1, EndsOfType
<1> QED BY <1>2 DEF EndsBy

\* The recursive function exists that tells where a match can end.
LEMMA EndsExist ==
  ASSUME NEW text, Len(text) \in Nat
  PROVE  \E f : f = [re \in Searching!Pattern |-> EndsBy(f, re, text)]
<1> DEFINE S == Searching!Pattern
           W == [0..Len(text) -> SUBSET (0..Len(text))]
           F == [S -> W]
           G == [re \in S |-> [f \in F |-> EndsBy(f, re, text)]]
<1>0. MaxHeight \in Nat
  BY SearchAssumption
<1>1. PICK h \in [S -> 0..MaxHeight] :
        \A re \in S : re \in Searching!PatternsOver({p \in S : h[p] < h[re]})
  BY PatternsHeights
<1>2. \A re \in S : \A f \in F : G[re][f] = EndsBy(f, re, text)
  BY Zenon
<1>3. ASSUME NEW re \in S, NEW f \in F PROVE EndsBy(f, re, text) \in W
  <2> DEFINE A == {p \in S : h[p] < h[re]}
  <2>1. re \in Searching!PatternsOver(A)
    BY <1>1
  <2>2. \A p \in A : f[p] \in W
    OBVIOUS
  <2> HIDE DEF A
  <2> QED BY <2>1, <2>2, EndsByType
<1>4. {} \in SUBSET (0..Len(text)) /\ [i \in 0..Len(text) |-> {}] \in W
  OBVIOUS
<1> HIDE DEF S, G, W
<1>5. F # {}
  <2>1. [re \in S |-> [i \in 0..Len(text) |-> {}]] \in F
    BY <1>4
  <2> QED BY <2>1
<1>6. ASSUME NEW f \in F, NEW n \in 0..MaxHeight
      PROVE  [re \in S |-> IF h[re] = n THEN G[re][f] ELSE f[re]] \in F
  <2>1. \A re \in S : (IF h[re] = n THEN G[re][f] ELSE f[re]) \in W
    BY <1>2, <1>3
  <2> QED BY <2>1
<1>7. ASSUME NEW f \in F, NEW g \in F, NEW re \in S, \A p \in S : h[p] < h[re] => f[p] = g[p]
      PROVE  G[re][f] = G[re][g]
  <2> DEFINE A == {p \in S : h[p] < h[re]}
  <2>1. re \in Searching!PatternsOver(A)
    BY <1>1
  <2>2. \A p \in A : f[p] = g[p]
    BY <1>7
  <2> HIDE DEF A
  <2>3. \A i : Searching!EndsOf(re, f, text, i) = Searching!EndsOf(re, g, text, i)
    BY <2>1, <2>2, EndsOfParts
  <2>4. EndsBy(f, re, text) = EndsBy(g, re, text)
    BY <2>3 DEF EndsBy
  <2> QED BY <1>2, <2>4
<1>8. \A f \in F : f = [re \in S |-> f[re]]
  OBVIOUS
<1> HIDE DEF F
<1>9. PICK f \in F : \A re \in S : f[re] = G[re][f]
  <2>1. \A f \in F : \A n \in 0..MaxHeight :
          [re \in S |-> IF h[re] = n THEN G[re][f] ELSE f[re]] \in F
    BY <1>6
  <2>2. \A f \in F : \A g \in F : \A re \in S :
          (\A p \in S : h[p] < h[re] => f[p] = g[p]) => G[re][f] = G[re][g]
    BY <1>7
  <2>3. Recursive(S, MaxHeight, h, F, G)
    BY <1>0, <1>1, <1>5, <2>1, <2>2, Zenon DEF Recursive
  <2> QED BY <2>3, RecursionExists
<1>10. \A re \in S : f[re] = EndsBy(f, re, text)
  BY <1>2, <1>9
<1>11. f = [re \in S |-> EndsBy(f, re, text)]
  BY <1>8, <1>9, <1>10, Zenon
<1> QED BY <1>11 DEF S

\* The ends of a match of a pattern are made of those of its parts.
LEMMA EndsAre ==
  ASSUME NEW text, Len(text) \in Nat
  PROVE  \E f : \A re \in Searching!Pattern :
           /\ Searching!Ends(re, text) = f[re]
           /\ f[re] \in [0..Len(text) -> SUBSET (0..Len(text))]
           /\ \A i \in 0..Len(text) : f[re][i] = Searching!EndsOf(re, f, text, i)
<1> DEFINE S == Searching!Pattern
           W == [0..Len(text) -> SUBSET (0..Len(text))]
           f == CHOOSE f : f = [p \in S |-> EndsBy(f, p, text)]
<1>0. MaxHeight \in Nat
  BY SearchAssumption
<1>1. f = [p \in S |-> EndsBy(f, p, text)]
  BY EndsExist, Zenon
<1>2. \A re : Searching!Ends(re, text) = f[re]
  BY EndsIs
<1> HIDE DEF f
<1>3. \A re \in S : f[re] = EndsBy(f, re, text)
  BY <1>1
<1>4. PICK h \in [S -> 0..MaxHeight] :
        \A re \in S : re \in Searching!PatternsOver({p \in S : h[p] < h[re]})
  BY PatternsHeights
<1> DEFINE B == {re \in S : f[re] \notin W}
<1>5. ASSUME NEW re \in B PROVE \E p \in B : h[p] < h[re]
  <2> DEFINE A == {p \in S : h[p] < h[re]}
  <2>1. EndsBy(f, re, text) \notin W /\ re \in Searching!PatternsOver(A)
    BY <1>3, <1>4
  <2> HIDE DEF A
  <2>2. ~\A p \in A : f[p] \in W
    BY <2>1, EndsByType
  <2> QED BY <2>2 DEF A
<1>6. B = {}
  <2>1. B \in SUBSET S
    OBVIOUS
  <2>2. \A re \in B : \E p \in B : h[p] < h[re]
    BY <1>5
  <2> HIDE DEF B, S
  <2>3. Descending(S, MaxHeight, h, B)
    BY <1>0, <1>4, <2>1, <2>2 DEF Descending
  <2> QED BY <2>3, ByHeight
<1>7. \A re \in S : f[re] \in W
  BY <1>6
<1>8. \A re \in S : \A i \in 0..Len(text) : f[re][i] = Searching!EndsOf(re, f, text, i)
  BY <1>3 DEF EndsBy
<1> QED BY <1>2, <1>7, <1>8

-----------------------------------------------------------------------------
(* What a match needs is in the text, and a body has what its key and its  *)
(* value have.                                                             *)

\* What is a part of a text has only trigrams of it.
LEMMA PartTrigrams ==
  ASSUME NEW text \in Seq(Char), NEW part \in Seq(Char), NEW a \in Nat, a + Len(part) <= Len(text),
         \A k \in 1..Len(part) : part[k] = text[a + k]
  PROVE  Searching!Trigrams(part) \subseteq Searching!Trigrams(text)
<1> SUFFICES ASSUME NEW i \in 1..(Len(part) - 2)
             PROVE  SubSeq(part, i, i + 2) \in Searching!Trigrams(text)
  BY DEF Searching!Trigrams
<1>0. Len(part) \in Nat /\ Len(text) \in Nat
  OBVIOUS
<1>1. a + i \in 1..(Len(text) - 2) /\ (a + i) + 2 \in 1..Len(text) /\ i + 2 \in 1..Len(part) /\ i \in 1..Len(part)
  BY <1>0
<1> DEFINE s == SubSeq(part, i, i + 2)
           t == SubSeq(text, a + i, (a + i) + 2)
<1>2. s = [k \in 1..3 |-> part[i + k - 1]]
  BY <1>0, <1>1
<1>3. t = [k \in 1..3 |-> text[(a + i) + k - 1]]
  BY <1>0, <1>1
<1>4. \A k \in 1..3 : part[i + k - 1] = text[(a + i) + k - 1]
  <2> SUFFICES ASSUME NEW k \in 1..3 PROVE part[i + k - 1] = text[(a + i) + k - 1]
    OBVIOUS
  <2>1. i + k - 1 \in 1..Len(part) /\ a + (i + k - 1) = (a + i) + k - 1
    BY <1>0
  <2> QED BY <2>1
<1>5. s = t
  BY <1>2, <1>3, <1>4
<1> QED BY <1>1, <1>5 DEF Searching!Trigrams

\* A log that has the trigrams of a text has what the query of the text asks for.
LEMMA TermsHold ==
  ASSUME NEW text \in Seq(Char), NEW T, Searching!Trigrams(text) \subseteq T
  PROVE  Searching!evalTrigramQuery(Searching!TermsOf(text), T)
<1>0. MaxHeight \in Nat /\ 1 \in 1..(MaxHeight + 2) /\ 0 \in 0..(MaxHeight + 2)
  <2>1. MaxHeight \in Nat
    BY SearchAssumption
  <2> QED BY <2>1
<1>1. Searching!TermsOf(text) \in Searching!Query
  <2>1. Searching!TermsOf(text) \in Searching!Queries[1]
    BY <1>0, TermsOfType
  <2> QED BY <1>0, <2>1, QueriesHave
<1>2. \A t \in Seq(Char) : Searching!TermQuery(t) \in Searching!Query
  BY <1>0, QueriesHave
<1>3. ASSUME NEW t \in Searching!Trigrams(text) PROVE Searching!evalTrigramQuery(Searching!TermQuery(t), T)
  <2>1. Searching!TermQuery(t) \in Searching!Query
    BY <1>2, TrigramsType
  <2>2. Searching!TermQuery(t).op = "term" /\ Searching!TermQuery(t).term = t
    BY DEF Searching!TermQuery
  <2> QED BY <2>1, <2>2, Evaluates
<1>4. CASE Searching!TermsOf(text) = Searching!AllQuery
  <2>1. Searching!AllQuery.op = "all"
    BY DEF Searching!AllQuery
  <2> QED BY <1>1, <1>4, <2>1, Evaluates
<1>5. CASE Len(text) = 3 /\ Searching!TermsOf(text) = Searching!TermQuery(text)
  <2>1. SubSeq(text, 1, 3) = text
    BY <1>5
  <2>2. text \in Searching!Trigrams(text)
    BY <1>5, <2>1 DEF Searching!Trigrams
  <2> QED BY <1>3, <1>5, <2>2
<1>6. CASE Searching!TermsOf(text) = Searching!AndQuery({Searching!TermQuery(t) : t \in Searching!Trigrams(text)})
  <2> DEFINE C == {Searching!TermQuery(t) : t \in Searching!Trigrams(text)}
  <2>1. \A c \in C : Searching!evalTrigramQuery(c, T)
    BY <1>3
  <2> HIDE DEF C
  <2>2. Searching!AndQuery(C).op = "and" /\ Searching!AndQuery(C).children = C
    BY DEF Searching!AndQuery
  <2>3. Searching!TermsOf(text) = Searching!AndQuery(C)
    BY <1>6 DEF C
  <2> QED BY <1>1, <2>1, <2>2, <2>3, Evaluates
<1>7. \/ Searching!TermsOf(text) = Searching!AllQuery
      \/ Len(text) = 3 /\ Searching!TermsOf(text) = Searching!TermQuery(text)
      \/ Searching!TermsOf(text) = Searching!AndQuery({Searching!TermQuery(t) : t \in Searching!Trigrams(text)})
  BY DEF Searching!TermsOf
<1> QED BY <1>4, <1>5, <1>6, <1>7

\* A match of a pattern takes a match of each part that its query asks for.
LEMMA MatchOfParts ==
  ASSUME NEW text \in Seq(Char), NEW T, Searching!Trigrams(text) \subseteq T,
         NEW re \in Searching!Pattern, NEW A, A \subseteq Searching!Pattern, re \in Searching!PatternsOver(A),
         NEW i \in 0..Len(text), Searching!Ends(re, text)[i] # {},
         \A p \in A : \A j \in 0..Len(text) : Searching!Ends(p, text)[j] # {} =>
           Searching!evalTrigramQuery(Searching!RegexToTrigramQuery(p), T)
  PROVE  Searching!evalTrigramQuery(Searching!RegexToTrigramQuery(re), T)
<1> DEFINE P == 0..Len(text)
           Holds(q) == Searching!evalTrigramQuery(q, T)
<1>0. MaxHeight \in Nat /\ MaxHeight + 1 \in 0..(MaxHeight + 2) /\ Len(text) \in Nat
  <2>1. MaxHeight \in Nat
    BY SearchAssumption
  <2> QED BY <2>1
<1>1. PICK f : \A p \in Searching!Pattern :
        /\ Searching!RegexToTrigramQuery(p) = f[p]
        /\ f[p] = Searching!QueryOf(p, f)
        /\ f[p] \in Searching!Queries[MaxHeight + 1]
  BY Queried
<1>2. PICK e : \A p \in Searching!Pattern :
        /\ Searching!Ends(p, text) = e[p]
        /\ e[p] \in [P -> SUBSET P]
        /\ \A j \in P : e[p][j] = Searching!EndsOf(p, e, text, j)
  BY <1>0, EndsAre
<1>3. f[re] \in Searching!Query /\ f[re] = Searching!QueryOf(re, f) /\ Searching!RegexToTrigramQuery(re) = f[re]
  BY <1>0, <1>1, QueriesHave
<1>4. \A p \in A : \A j \in P : e[p][j] # {} => Holds(f[p])
  BY <1>1, <1>2
<1>5. /\ Searching!EndsOf(re, e, text, i) # {}
      /\ re.op = "concat" => \A k \in DOMAIN re.sub : \E j \in P : e[re.sub[k]][j] # {}
      /\ re.op = "alternate" => \E k \in DOMAIN re.sub : \E j \in P : e[re.sub[k]][j] # {}
      /\ re.op = "plus" => \E j \in P : e[re.sub[1]][j] # {}
  <2>1. \A p \in A : e[p] \in [P -> SUBSET P]
    BY <1>2
  <2>2. Searching!EndsOf(re, e, text, i) # {}
    BY <1>2
  <2>3. PartsEnd(A, re, e, text)
    BY <1>0, <2>1 DEF PartsEnd
  <2> QED BY <2>2, <2>3, EndsOfType
<1> HIDE DEF P, Holds
<1>6. CASE re.op = "literal"
  <2>1. re.text \in Seq(Char)
    BY <1>6, PatternShapes
  <2>2. Searching!EndsOf(re, e, text, i) =
          {j \in P : j = i + Len(re.text) /\ SubSeq(text, i + 1, j) = re.text}
    BY <1>6, Zenon DEF Searching!EndsOf, P
  <2>3. PICK j \in P : j = i + Len(re.text) /\ SubSeq(text, i + 1, j) = re.text
    BY <1>5, <2>2
  <2>4. Len(re.text) \in Nat /\ i \in Nat /\ i + Len(re.text) <= Len(text)
    BY <1>0, <2>1, <2>3 DEF P
  <2>5. \A k \in 1..Len(re.text) : re.text[k] = text[i + k]
    <3> DEFINE r == re.text
    <3>1. r = SubSeq(text, i + 1, i + Len(r)) /\ r \in Seq(Char) /\ Len(r) \in Nat /\ i + Len(r) <= Len(text)
      BY <2>1, <2>3, <2>4
    <3> HIDE DEF r
    <3>2. \A k \in 1..Len(r) : SubSeq(text, i + 1, i + Len(r))[k] = text[(i + 1) + k - 1]
      BY <2>4, <3>1
    <3>3. \A k \in 1..Len(r) : (i + 1) + k - 1 = i + k
      BY <2>4
    <3>4. \A k \in 1..Len(r) : r[k] = text[i + k]
      BY <3>1, <3>2, <3>3
    <3> QED BY <3>4 DEF r
  <2>6. Searching!Trigrams(re.text) \subseteq Searching!Trigrams(text)
    BY <2>1, <2>4, <2>5, PartTrigrams
  <2>7. Holds(Searching!TermsOf(re.text))
    BY <2>1, <2>6, TermsHold DEF Holds
  <2>8. Searching!QueryOf(re, f) = Searching!TermsOf(re.text)
    BY <1>6 DEF Searching!QueryOf
  <2> QED BY <1>3, <2>7, <2>8 DEF Holds
<1>7. CASE re.op = "concat"
  <2> DEFINE C == {f[re.sub[k]] : k \in DOMAIN re.sub}
  <2>1. \A c \in C : Holds(c)
    BY <1>4, <1>5, <1>7, PatternShapes
  <2>2. f[re] = Searching!AndQuery(C)
    BY <1>3, <1>7 DEF Searching!QueryOf
  <2> HIDE DEF C
  <2>3. f[re].op = "and" /\ f[re].children = C
    BY <2>2 DEF Searching!AndQuery
  <2> QED BY <1>3, <2>1, <2>3, Evaluates DEF Holds
<1>8. CASE re.op = "alternate"
  <2> DEFINE C == {f[re.sub[k]] : k \in DOMAIN re.sub}
  <2>1. \E c \in C : Holds(c)
    BY <1>4, <1>5, <1>8, PatternShapes
  <2>2. f[re] = Searching!OrQuery(C)
    BY <1>3, <1>8 DEF Searching!QueryOf
  <2> HIDE DEF C
  <2>3. f[re].op = "or" /\ f[re].children = C
    BY <2>2 DEF Searching!OrQuery
  <2> QED BY <1>3, <2>1, <2>3, Evaluates DEF Holds
<1>9. CASE re.op = "plus"
  <2>1. re.sub[1] \in A
    BY <1>9, PatternShapes
  <2>2. Holds(f[re.sub[1]])
    BY <1>4, <1>5, <1>9, <2>1
  <2>3. Searching!QueryOf(re, f) = f[re.sub[1]]
    BY <1>9 DEF Searching!QueryOf
  <2> QED BY <1>3, <2>2, <2>3 DEF Holds
<1>10. CASE re.op \notin {"literal", "concat", "alternate", "plus"}
  <2>1. Searching!QueryOf(re, f) = Searching!AllQuery /\ Searching!AllQuery.op = "all"
    BY <1>10 DEF Searching!QueryOf, Searching!AllQuery
  <2> QED BY <1>3, <2>1, Evaluates
<1> QED BY <1>6, <1>7, <1>8, <1>9, <1>10

\* Where a pattern matches, the trigrams are that its query asks for.
LEMMA MatchNeeds ==
  ASSUME NEW text \in Seq(Char), NEW T, Searching!Trigrams(text) \subseteq T,
         NEW re \in Searching!Pattern, Searching!MatchString(re, text)
  PROVE  Searching!evalTrigramQuery(Searching!RegexToTrigramQuery(re), T)
<1> DEFINE S == Searching!Pattern
           Matched(p) == \E i \in 0..Len(text) : Searching!Ends(p, text)[i] # {}
           Holds(p) == Searching!evalTrigramQuery(Searching!RegexToTrigramQuery(p), T)
           B == {p \in S : Matched(p) /\ ~Holds(p)}
<1>0. MaxHeight \in Nat
  BY SearchAssumption
<1>1. PICK h \in [S -> 0..MaxHeight] :
        \A p \in S : p \in Searching!PatternsOver({c \in S : h[c] < h[p]})
  BY PatternsHeights
<1>2. ASSUME NEW p \in B PROVE \E c \in B : h[c] < h[p]
  <2> DEFINE A == {c \in S : h[c] < h[p]}
  <2>1. p \in Searching!PatternsOver(A) /\ A \subseteq S /\ p \in S
    BY <1>1
  <2>2. PICK i \in 0..Len(text) : Searching!Ends(p, text)[i] # {}
    OBVIOUS
  <2> HIDE DEF A
  <2>3. ~\A c \in A : \A j \in 0..Len(text) : Searching!Ends(c, text)[j] # {} => Holds(c)
    BY <2>1, <2>2, MatchOfParts
  <2> QED BY <2>3 DEF A
<1>3. B = {}
  <2>1. B \in SUBSET S
    OBVIOUS
  <2>2. \A p \in B : \E c \in B : h[c] < h[p]
    BY <1>2
  <2> HIDE DEF B, S
  <2>3. Descending(S, MaxHeight, h, B)
    BY <1>0, <1>1, <2>1, <2>2 DEF Descending
  <2> QED BY <2>3, ByHeight
<1> QED BY <1>3 DEF Searching!MatchString

\* The texts that are put together one after the other, each after those before it.
FlattenedBy(f, seqs, i) == IF i = 1 THEN seqs[i] ELSE f[i - 1] \o seqs[i]

LEMMA FlattenIs ==
  ASSUME NEW seqs, Len(seqs) # 0
  PROVE  Searching!FlattenSeq(seqs) =
           (CHOOSE f : f = [i \in 1..Len(seqs) |-> FlattenedBy(f, seqs, i)])[Len(seqs)]
BY DEF Searching!FlattenSeq, FlattenedBy

LEMMA FlattenExists ==
  ASSUME NEW seqs \in Seq(Seq(Char))
  PROVE  \E f : /\ f = [i \in 1..Len(seqs) |-> FlattenedBy(f, seqs, i)]
                /\ \A i \in 1..Len(seqs) : f[i] \in Seq(Char)
<1> DEFINE N == Len(seqs)
           S == 1..N
           F == [S -> Seq(Char)]
           G == [i \in S |-> [f \in F |-> FlattenedBy(f, seqs, i)]]
           h == [i \in S |-> i]
<1>0. N \in Nat /\ h \in [S -> 0..N] /\ (\A i \in S : h[i] = i) /\ \A i \in S : seqs[i] \in Seq(Char)
  OBVIOUS
<1>1. \A i \in S : \A f \in F : G[i][f] = FlattenedBy(f, seqs, i)
  BY Zenon
<1>2. \A i \in S : i = 1 \/ (i - 1 \in S /\ i - 1 < i)
  BY <1>0
<1> HIDE DEF G, S, N, h
<1>3. ASSUME NEW i \in S, NEW f \in F PROVE FlattenedBy(f, seqs, i) \in Seq(Char)
  <2>1. CASE i = 1
    BY <1>0, <2>1 DEF FlattenedBy
  <2>2. CASE i # 1
    <3>1. f[i - 1] \in Seq(Char) /\ seqs[i] \in Seq(Char)
      BY <1>0, <1>2, <2>2
    <3>2. f[i - 1] \o seqs[i] \in Seq(Char)
      BY <3>1
    <3> QED BY <2>2, <3>2 DEF FlattenedBy
  <2> QED BY <2>1, <2>2
<1>4. F # {}
  <2>1. [i \in S |-> <<>>] \in F
    OBVIOUS
  <2> QED BY <2>1
<1>5. ASSUME NEW f \in F, NEW n \in 0..N
      PROVE  [i \in S |-> IF h[i] = n THEN G[i][f] ELSE f[i]] \in F
  <2>1. \A i \in S : (IF h[i] = n THEN G[i][f] ELSE f[i]) \in Seq(Char)
    BY <1>1, <1>3
  <2> QED BY <2>1
<1>6. ASSUME NEW f \in F, NEW g \in F, NEW i \in S, \A j \in S : h[j] < h[i] => f[j] = g[j]
      PROVE  G[i][f] = G[i][g]
  <2>1. i # 1 => f[i - 1] = g[i - 1]
    BY <1>0, <1>2, <1>6
  <2>2. FlattenedBy(f, seqs, i) = FlattenedBy(g, seqs, i)
    BY <2>1 DEF FlattenedBy
  <2> QED BY <1>1, <2>2
<1>7. \A f \in F : f = [i \in S |-> f[i]] /\ \A i \in S : f[i] \in Seq(Char)
  OBVIOUS
<1> HIDE DEF F
<1>8. PICK f \in F : \A i \in S : f[i] = G[i][f]
  <2>1. \A f \in F : \A n \in 0..N :
          [i \in S |-> IF h[i] = n THEN G[i][f] ELSE f[i]] \in F
    BY <1>5
  <2>2. \A f \in F : \A g \in F : \A i \in S :
          (\A j \in S : h[j] < h[i] => f[j] = g[j]) => G[i][f] = G[i][g]
    BY <1>6
  <2>3. Recursive(S, N, h, F, G)
    BY <1>0, <1>4, <2>1, <2>2, Zenon DEF Recursive
  <2> QED BY <2>3, RecursionExists
<1>9. \A i \in S : f[i] = FlattenedBy(f, seqs, i)
  BY <1>1, <1>8
<1>10. f = [i \in S |-> FlattenedBy(f, seqs, i)]
  BY <1>7, <1>8, <1>9, Zenon
<1> QED BY <1>7, <1>8, <1>10, Zenon DEF S, N

\* What is left as it is: a text of which every character is put for itself.
LEMMA Flattened ==
  ASSUME NEW seqs \in Seq(Seq(Char))
  PROVE  /\ Searching!FlattenSeq(seqs) \in Seq(Char)
         /\ \A text \in Seq(Char) : Len(text) = Len(seqs) /\ (\A i \in DOMAIN text : seqs[i] = <<text[i]>>) =>
              Searching!FlattenSeq(seqs) = text
<1>1. CASE Len(seqs) = 0
  <2>1. seqs = <<>> /\ Searching!FlattenSeq(seqs) = seqs
    BY <1>1 DEF Searching!FlattenSeq
  <2>2. \A text \in Seq(Char) : Len(text) = 0 => text = <<>>
    OBVIOUS
  <2>3. <<>> \in Seq(Char)
    OBVIOUS
  <2>4. \A text \in Seq(Char) : Len(text) = Len(seqs) => Searching!FlattenSeq(seqs) = text
    BY <1>1, <2>1, <2>2
  <2> QED BY <2>1, <2>3, <2>4
<1>2. CASE Len(seqs) # 0
  <2> DEFINE N == Len(seqs)
             f == CHOOSE f : f = [i \in 1..N |-> FlattenedBy(f, seqs, i)]
  <2>1. f = [i \in 1..N |-> FlattenedBy(f, seqs, i)]
    BY FlattenExists, Zenon
  <2>2. Searching!FlattenSeq(seqs) = f[N]
    BY <1>2, FlattenIs
  <2> HIDE DEF f
  <2>3. N \in 1..N /\ N \in Nat
    BY <1>2
  <2>4. \A i \in 1..N : f[i] = IF i = 1 THEN seqs[i] ELSE f[i - 1] \o seqs[i]
    BY <2>1 DEF FlattenedBy
  <2> DEFINE h == [i \in 1..N |-> i]
  <2>5. h \in [1..N -> 0..N] /\ (\A i \in 1..N : h[i] = i) /\ \A i \in 1..N : i = 1 \/ (i - 1 \in 1..N /\ i - 1 < i)
    BY <2>3
  <2>6. \A i \in 1..N : seqs[i] \in Seq(Char)
    OBVIOUS
  <2> HIDE DEF N, h
  <2>7. \A i \in 1..N : f[i] \in Seq(Char)
    <3> DEFINE B == {i \in 1..N : f[i] \notin Seq(Char)}
    <3>1. ASSUME NEW i \in B PROVE \E j \in B : h[j] < h[i]
      <4>1. i # 1
        BY <2>4, <2>6
      <4>2. i - 1 \in 1..N /\ i - 1 < i
        BY <2>5, <4>1
      <4>3. f[i] = f[i - 1] \o seqs[i] /\ seqs[i] \in Seq(Char)
        BY <2>4, <2>6, <4>1
      <4>4. ASSUME f[i - 1] \in Seq(Char) PROVE FALSE
        <5>1. f[i - 1] \o seqs[i] \in Seq(Char)
          BY <4>3, <4>4
        <5>2. f[i] \notin Seq(Char)
          OBVIOUS
        <5> QED BY <4>3, <5>1, <5>2, Zenon
      <4>5. i - 1 \in B
        BY <4>2, <4>4
      <4> QED BY <2>5, <4>2, <4>5
    <3>2. B \in SUBSET (1..N) /\ \A i \in B : \E j \in B : h[j] < h[i]
      BY <3>1
    <3> HIDE DEF B
    <3>3. Descending(1..N, N, h, B)
      BY <2>3, <2>5, <3>2 DEF Descending
    <3>4. B = {}
      BY <3>3, ByHeight
    <3> QED BY <3>4 DEF B
  <2>8. ASSUME NEW text \in Seq(Char), Len(text) = N, \A i \in DOMAIN text : seqs[i] = <<text[i]>>
        PROVE  f[N] = text
    <3> DEFINE B == {i \in 1..N : f[i] # SubSeq(text, 1, i)}
    <3>1. N = Len(text) /\ DOMAIN text = 1..N
      BY <2>8
    <3>2. SubSeq(text, 1, Len(text)) = text
      OBVIOUS
    <3>3. /\ \A i \in 1..N : text[i] \in Char /\ seqs[i] = <<text[i]>>
          /\ SubSeq(text, 1, N) = text
      BY <2>8, <3>1, <3>2
    <3>4. ASSUME NEW i \in B PROVE \E j \in B : h[j] < h[i]
      <4>1. i # 1
        <5>1. 1 \in 1..N /\ 1 <= Len(text)
          BY <2>3, <3>1
        <5>2. SubSeq(text, 1, 1) = <<text[1]>>
          <6> DEFINE s == SubSeq(text, 1, 1)
                     t == <<text[1]>>
          <6>1. t \in Seq(Char) /\ Len(t) = 1 /\ t[1] = text[1]
            BY <3>3, <5>1
          <6>2. s \in Seq(Char) /\ Len(s) = 1 /\ s[1] = text[1]
            BY <5>1
          <6> HIDE DEF s, t
          <6>3. s = t
            BY <6>1, <6>2
          <6> QED BY <6>3 DEF s, t
        <5>3. f[1] = <<text[1]>>
          BY <2>4, <3>3, <5>1
        <5> QED BY <5>2, <5>3
      <4>2. i - 1 \in 1..N /\ i - 1 < i
        BY <2>5, <4>1
      <4>3. f[i] = f[i - 1] \o <<text[i]>>
        BY <2>4, <3>3, <4>1
      <4>4. SubSeq(text, 1, i) = SubSeq(text, 1, i - 1) \o <<text[i]>>
        <5>1. 1 \in 1..Len(text) /\ i \in 1..Len(text)
          BY <2>3, <3>1
        <5> QED BY <5>1, SubSeqRecursiveSecond
      <4>5. i - 1 \in B
        BY <4>2, <4>3, <4>4
      <4> QED BY <2>5, <4>2, <4>5
    <3>5. B \in SUBSET (1..N) /\ \A i \in B : \E j \in B : h[j] < h[i]
      BY <3>4
    <3> HIDE DEF B
    <3>6. Descending(1..N, N, h, B)
      BY <2>3, <2>5, <3>5 DEF Descending
    <3>7. B = {}
      BY <3>6, ByHeight
    <3> QED BY <2>3, <3>3, <3>7 DEF B
  <2>9. f[N] \in Seq(Char)
    BY <2>3, <2>7
  <2> QED BY <2>2, <2>8, <2>9 DEF N
<1> QED BY <1>1, <1>2

\* What is printed is a text, and without anything to escape it is the text itself.
LEMMA EscapedType ==
  ASSUME NEW text \in Seq(Char)
  PROVE  /\ Searching!Escaped(text) \in Seq(Char)
         /\ (\A i \in DOMAIN text : text[i] \notin DOMAIN Escape) => Searching!Escaped(text) = text
<1> DEFINE seqs == [i \in DOMAIN text |-> IF text[i] \in DOMAIN Escape THEN Escape[text[i]] ELSE <<text[i]>>]
<1>1. Escape \in [DOMAIN Escape -> Seq(Char)]
  BY SearchAssumption
<1>2. DOMAIN text = 1..Len(text) /\ Len(text) \in Nat /\ \A i \in DOMAIN text : text[i] \in Char
  OBVIOUS
<1>3. \A i \in DOMAIN text : (IF text[i] \in DOMAIN Escape THEN Escape[text[i]] ELSE <<text[i]>>) \in Seq(Char)
  <2> SUFFICES ASSUME NEW i \in DOMAIN text
               PROVE  (IF text[i] \in DOMAIN Escape THEN Escape[text[i]] ELSE <<text[i]>>) \in Seq(Char)
    OBVIOUS
  <2>1. <<text[i]>> \in Seq(Char)
    BY <1>2
  <2>2. text[i] \in DOMAIN Escape => Escape[text[i]] \in Seq(Char)
    BY <1>1
  <2> QED BY <2>1, <2>2
<1>4. seqs \in Seq(Seq(Char)) /\ Len(seqs) = Len(text)
  <2>1. seqs \in [1..Len(text) -> Seq(Char)]
    BY <1>2, <1>3
  <2> HIDE DEF seqs
  <2> QED BY <1>2, <2>1
<1>5. Searching!Escaped(text) = Searching!FlattenSeq(seqs)
  BY DEF Searching!Escaped
<1>6. ASSUME \A i \in DOMAIN text : text[i] \notin DOMAIN Escape
      PROVE  \A i \in DOMAIN text : seqs[i] = <<text[i]>>
  BY <1>6
<1> HIDE DEF seqs
<1> QED BY <1>4, <1>5, <1>6, Flattened

LEMMA PrintedType ==
  ASSUME NEW text \in Seq(Char)
  PROVE  /\ Searching!Printed(text) \in Seq(Char)
         /\ (\A i \in DOMAIN text : text[i] \notin DOMAIN Escape) =>
              \/ Searching!Printed(text) = text
              \/ Searching!Printed(text) = (<<Searching!Quote>> \o text) \o <<Searching!Quote>>
<1>1. <<Searching!Quote>> \in Seq(Char)
  <2>1. Searching!Quote \in Char
    BY SearchAssumption
  <2> QED BY <2>1
<1> DEFINE q == <<Searching!Quote>>
           e == Searching!Escaped(text)
<1>2. Searching!Printed(text) \in {text, (q \o e) \o q}
  BY DEF Searching!Printed
<1>3. e \in Seq(Char) /\ ((\A i \in DOMAIN text : text[i] \notin DOMAIN Escape) => e = text)
  BY EscapedType
<1> HIDE DEF q, e
<1>4. (q \o e) \o q \in Seq(Char)
  BY <1>1, <1>3 DEF q
<1> QED BY <1>2, <1>3, <1>4 DEF q

\* A text between others has only trigrams of the whole.
LEMMA BetweenTrigrams ==
  ASSUME NEW a \in Seq(Char), NEW b \in Seq(Char), NEW c \in Seq(Char)
  PROVE  /\ (a \o b) \o c \in Seq(Char)
         /\ Searching!Trigrams(b) \subseteq Searching!Trigrams((a \o b) \o c)
<1> DEFINE u == a \o b
           t == u \o c
<1>1. u \in Seq(Char) /\ Len(u) = Len(a) + Len(b) /\ \A k \in 1..Len(b) : u[Len(a) + k] = b[k]
  OBVIOUS
<1>2. Len(a) \in Nat /\ Len(b) \in Nat /\ Len(c) \in Nat
  OBVIOUS
<1> HIDE DEF u
<1>3. t \in Seq(Char) /\ Len(t) = Len(u) + Len(c) /\ \A k \in 1..Len(u) : t[k] = u[k]
  <2>1. u \in Seq(Char)
    BY <1>1
  <2> QED BY ONLY <2>1, c \in Seq(Char), ConcatProperties
<1> HIDE DEF t
<1>4. \A k \in 1..Len(b) : b[k] = t[Len(a) + k]
  <2> SUFFICES ASSUME NEW k \in 1..Len(b) PROVE b[k] = t[Len(a) + k]
    OBVIOUS
  <2>1. Len(a) + k \in 1..Len(u)
    BY <1>1, <1>2
  <2> QED BY <1>1, <1>3, <2>1
<1>5. Len(a) + Len(b) <= Len(t)
  BY <1>1, <1>2, <1>3
<1>6. Searching!Trigrams(b) \subseteq Searching!Trigrams(t)
  BY <1>2, <1>3, <1>4, <1>5, PartTrigrams
<1> QED BY <1>3, <1>6 DEF t, u

LEMMA TextsAssociate ==
  ASSUME NEW a \in Seq(Char), NEW b \in Seq(Char), NEW c \in Seq(Char)
  PROVE  (a \o b) \o c = a \o (b \o c)
<1> DEFINE s == (a \o b) \o c
           t == a \o (b \o c)
<1>1. /\ s \in Seq(Char) /\ Len(s) = Len(a) + Len(b) + Len(c)
      /\ \A i \in 1..Len(s) :
           s[i] = IF i <= Len(a) THEN a[i]
                  ELSE IF i <= Len(a) + Len(b) THEN b[i - Len(a)] ELSE c[i - (Len(a) + Len(b))]
  OBVIOUS
<1>2. /\ t \in Seq(Char) /\ Len(t) = Len(a) + Len(b) + Len(c)
      /\ \A i \in 1..Len(t) :
           t[i] = IF i <= Len(a) THEN a[i]
                  ELSE IF i <= Len(a) + Len(b) THEN b[i - Len(a)] ELSE c[i - (Len(a) + Len(b))]
  OBVIOUS
<1> HIDE DEF s, t
<1>3. Len(s) = Len(t)
  BY <1>1, <1>2
<1>4. \A i \in 1..Len(s) : s[i] = t[i]
  BY <1>1, <1>2, <1>3
<1>5. s = t
  BY <1>1, <1>2, <1>3, <1>4, SeqEqual
<1> QED BY <1>5 DEF s, t

\* Facts about sequences of characters.
LEMMA PairIs ==
  ASSUME NEW a \in Char, NEW b \in Char
  PROVE  <<a, b>> \in Seq(Char) /\ <<a, b>> = <<a>> \o <<b>>
<1> DEFINE s == <<a, b>>
           t == <<a>> \o <<b>>
<1>1. s \in Seq(Char) /\ Len(s) = 2 /\ s[1] = a /\ s[2] = b
  OBVIOUS
<1>2. t \in Seq(Char) /\ Len(t) = 2 /\ t[1] = a /\ t[2] = b
  <2> DEFINE p == <<a>>
             q == <<b>>
  <2>1. p \in Seq(Char) /\ Len(p) = 1 /\ p[1] = a /\ q \in Seq(Char) /\ Len(q) = 1 /\ q[1] = b
    OBVIOUS
  <2> HIDE DEF p, q
  <2>2. p \o q \in Seq(Char) /\ Len(p \o q) = 2 /\ (p \o q)[1] = a /\ (p \o q)[2] = b
    <3>1. /\ p \o q \in Seq(Char) /\ Len(p \o q) = Len(p) + Len(q)
          /\ \A i \in 1..(Len(p) + Len(q)) : (p \o q)[i] = IF i <= Len(p) THEN p[i] ELSE q[i - Len(p)]
      BY <2>1, ConcatProperties
    <3> DEFINE u == p \o q
    <3> HIDE DEF u
    <3>2. u \in Seq(Char) /\ Len(u) = 2 /\ \A i \in 1..2 : u[i] = IF i <= 1 THEN p[i] ELSE q[i - 1]
      BY <2>1, <3>1 DEF u
    <3>3. u[1] = p[1] /\ u[2] = q[1]
      BY <3>2
    <3> QED BY <2>1, <3>2, <3>3 DEF u
  <2> QED BY <2>2 DEF p, q
<1> HIDE DEF s, t
<1>3. s = t
  BY <1>1, <1>2
<1> QED BY <1>1, <1>3 DEF s, t

\* The body of a log has the trigrams of its key, and of its value where nothing is escaped.
LEMMA BodyTrigrams ==
  ASSUME NEW name \in Seq(Char), NEW value \in Seq(Char)
  PROVE  /\ Searching!YAML(name, value) \in Seq(Char)
         /\ Searching!Printed(name) \o <<":">> \in Seq(Char)
         /\ Searching!Trigrams(Searching!Printed(name) \o <<":">>) \subseteq
              Searching!Trigrams(Searching!YAML(name, value))
         /\ (\A i \in DOMAIN value : value[i] \notin DOMAIN Escape) =>
              Searching!Trigrams(value) \subseteq Searching!Trigrams(Searching!YAML(name, value))
<1> DEFINE n == Searching!Printed(name)
           v == Searching!Printed(value)
           m == n \o <<":", " ">>
           k == n \o <<":">>
           r == <<" ">>
           e == <<"\n">>
           y == Searching!YAML(name, value)
<1>0. ":" \in Char /\ " " \in Char /\ "\n" \in Char
  BY SearchAssumption
<1>1. n \in Seq(Char) /\ v \in Seq(Char)
  BY PrintedType
<1>2. y = (m \o v) \o e
  BY DEF Searching!YAML
<1>3. \A c \in Char : <<c>> \in Seq(Char)
  OBVIOUS
<1>4. e \in Seq(Char) /\ r \in Seq(Char) /\ <<":">> \in Seq(Char)
  BY <1>0, <1>3, Zenon
<1> HIDE DEF n, v, y
<1>5. <<":", " ">> \in Seq(Char) /\ <<":", " ">> = <<":">> \o r
  BY <1>0, PairIs, Zenon DEF r
<1>6. m \in Seq(Char) /\ k \in Seq(Char) /\ m = k \o r
  <2> DEFINE c == <<":">>
  <2> HIDE DEF c, r
  <2>1. k = n \o c /\ m = n \o (c \o r)
    BY <1>5 DEF c
  <2>2. c \in Seq(Char) /\ r \in Seq(Char)
    BY <1>4 DEF c
  <2>3. n \o c \in Seq(Char) /\ c \o r \in Seq(Char)
    BY <1>1, <2>2, ConcatProperties
  <2>4. (n \o c) \o r = n \o (c \o r)
    BY <1>1, <2>2, TextsAssociate
  <2>5. n \o (c \o r) \in Seq(Char)
    BY <1>1, <2>3, ConcatProperties
  <2> QED BY <2>1, <2>3, <2>4, <2>5
<1> HIDE DEF m, k, e, r
<1>7. y \in Seq(Char) /\ Searching!Trigrams(v) \subseteq Searching!Trigrams(y)
  BY <1>1, <1>2, <1>4, <1>6, BetweenTrigrams
<1>8. Searching!Trigrams(k) \subseteq Searching!Trigrams(y)
  <2>1. Len(k) \in Nat /\ 0 \in Nat /\ 0 + Len(k) <= Len(y)
    BY <1>1, <1>2, <1>4, <1>6
  <2>2. \A j \in 1..Len(k) : k[j] = y[0 + j]
    BY <1>1, <1>2, <1>4, <1>6
  <2> QED BY <1>6, <1>7, <2>1, <2>2, PartTrigrams
<1>9. ASSUME \A i \in DOMAIN value : value[i] \notin DOMAIN Escape
      PROVE  Searching!Trigrams(value) \subseteq Searching!Trigrams(v)
  <2>1. <<Searching!Quote>> \in Seq(Char)
    <3>1. Searching!Quote \in Char
      BY SearchAssumption
    <3> QED BY <3>1
  <2>2. v = value \/ v = (<<Searching!Quote>> \o value) \o <<Searching!Quote>>
    BY <1>9, PrintedType DEF v
  <2> QED BY <2>1, <2>2, BetweenTrigrams
<1> QED BY <1>6, <1>7, <1>8, <1>9 DEF n, y, k

\* A query without constraints is met by every log.
LEMMA AllHolds == ASSUME NEW T PROVE Searching!evalTrigramQuery(Searching!AllQuery, T)
<1>1. MaxHeight \in Nat /\ 0 \in 0..(MaxHeight + 2)
  <2>1. MaxHeight \in Nat
    BY SearchAssumption
  <2> QED BY <2>1
<1>2. Searching!AllQuery \in Searching!Query
  BY <1>1, QueriesHave
<1>3. Searching!AllQuery.op = "all"
  BY DEF Searching!AllQuery
<1> QED BY <1>2, <1>3, Evaluates

\* What the index is asked: the trigrams of the key, and those the pattern needs.
LEMMA Asked ==
  ASSUME NEW key \in Seq(Char), NEW re \in Searching!Pattern, NEW T
  PROVE  /\ Searching!evalTrigramQuery(Searching!FindCandidateLogsWithField(key, re), T) <=>
              /\ Searching!evalTrigramQuery(Searching!PathToTrigramQuery(key), T)
              /\ Searching!evalTrigramQuery(Searching!RegexToTrigramQuery(re), T)
         /\ Searching!evalTrigramQuery(
              Searching!AndQuery({Searching!PathToTrigramQuery(key), Searching!RegexToTrigramQuery(re)}), T) <=>
              /\ Searching!evalTrigramQuery(Searching!PathToTrigramQuery(key), T)
              /\ Searching!evalTrigramQuery(Searching!RegexToTrigramQuery(re), T)
<1> DEFINE Holds(q) == Searching!evalTrigramQuery(q, T)
           p == Searching!PathToTrigramQuery(key)
           r == Searching!RegexToTrigramQuery(re)
           s == Searching!Simplify(r)
           Level == Searching!Queries[MaxHeight + 1]
           All == Searching!Query
<1>0. /\ MaxHeight \in Nat /\ MaxHeight + 1 \in 0..(MaxHeight + 2) /\ MaxHeight + 1 \in 1..(MaxHeight + 2)
      /\ MaxHeight + 2 \in 0..(MaxHeight + 2) /\ MaxHeight + 2 # 0 /\ (MaxHeight + 2) - 1 = MaxHeight + 1
  <2>1. MaxHeight \in Nat
    BY SearchAssumption
  <2> QED BY <2>1
<1>1. Level \subseteq All
  BY <1>0, QueriesHave
<1>2. \A C : C \subseteq Level => Searching!AndQuery(C) \in All
  BY <1>0, QueriesHave DEF Searching!Query
<1>3. p \in Level
  <2>1. Searching!AllQuery \in Level
    BY <1>0, QueriesHave
  <2>2. Searching!Printed(key) \o <<":">> \in Seq(Char)
    BY BodyTrigrams
  <2>3. Searching!TermsOf(Searching!Printed(key) \o <<":">>) \in Level
    BY <1>0, <2>2, TermsOfType
  <2> QED BY <2>1, <2>3 DEF Searching!PathToTrigramQuery
<1>4. r \in Level
  BY Queried
<1>5. s \in Level /\ (Holds(s) <=> Holds(r))
  BY <1>0, <1>1, <1>4, SimplifyKeeps
<1>6. Searching!FindCandidateLogsWithField(key, re) = Searching!Simplify(Searching!AndQuery({p, s}))
  BY DEF Searching!FindCandidateLogsWithField
<1> HIDE DEF p, s, r, Level, All, Holds
<1>7. ASSUME NEW a \in Level, NEW b \in Level
      PROVE  /\ Searching!AndQuery({a, b}) \in All
             /\ Holds(Searching!AndQuery({a, b})) <=> Holds(a) /\ Holds(b)
  <2>1. Searching!AndQuery({a, b}) \in All
    BY <1>2
  <2>2. Searching!AndQuery({a, b}).op = "and" /\ Searching!AndQuery({a, b}).children = {a, b}
    BY DEF Searching!AndQuery
  <2>3. Holds(Searching!AndQuery({a, b})) <=> \A c \in {a, b} : Holds(c)
    BY <2>1, <2>2, Evaluates DEF Holds, All
  <2> QED BY <2>1, <2>3
<1>8. Holds(Searching!Simplify(Searching!AndQuery({p, s}))) <=> Holds(p) /\ Holds(r)
  <2>1. Searching!AndQuery({p, s}) \in All /\ (Holds(Searching!AndQuery({p, s})) <=> Holds(p) /\ Holds(s))
    BY <1>3, <1>5, <1>7
  <2>2. Holds(Searching!Simplify(Searching!AndQuery({p, s}))) <=> Holds(Searching!AndQuery({p, s}))
    BY <2>1, SimplifyKeeps DEF Holds, All
  <2> QED BY <1>5, <2>1, <2>2
<1>9. Holds(Searching!AndQuery({p, r})) <=> Holds(p) /\ Holds(r)
  BY <1>3, <1>4, <1>7
<1> QED BY <1>6, <1>8, <1>9 DEF Holds, p, r

\* What the search does not know of its log: with it, and without it, the answers are the same.
LEMMA IndexAgrees ==
  ASSUME search_search \in Search
  PROVE  /\ Searching!Candidate =>
              Searching!evalTrigramQuery(
                Searching!AndQuery({Searching!PathToTrigramQuery(search_search.key),
                                    Searching!RegexToTrigramQuery(search_search.pattern)}),
                Searching!Trigrams(Searching!YAML(search_search.name, search_search.value)))
         /\ (search_search.key = Searching!AnyField \/ Searching!Verbatim) /\ Searching!Matches =>
              Searching!Candidate
<1> DEFINE name == search_search.name
           key == search_search.key
           value == search_search.value
           re == search_search.pattern
           y == Searching!YAML(name, value)
           T == Searching!Trigrams(y)
<1>1. name \in Seq(Char) /\ key \in Seq(Char) /\ value \in Seq(Char) /\ re \in Searching!Pattern
  BY SearchAssumption
<1>2. Searching!Candidate <=>
        Searching!evalTrigramQuery(Searching!FindCandidateLogsWithField(key, re), T)
  BY DEF Searching!Candidate
<1>3. ASSUME search_search.key = Searching!AnyField \/ Searching!Verbatim, Searching!Matches
      PROVE  /\ Searching!evalTrigramQuery(Searching!PathToTrigramQuery(key), T)
             /\ Searching!evalTrigramQuery(Searching!RegexToTrigramQuery(re), T)
  <2>0. y \in Seq(Char)
    BY <1>1, BodyTrigrams
  <2>1. CASE key = Searching!AnyField
    <3>1. Searching!MatchString(re, y)
      BY <1>3, <2>1 DEF Searching!Matches
    <3>2. Searching!evalTrigramQuery(Searching!RegexToTrigramQuery(re), T)
      BY <1>1, <2>0, <3>1, MatchNeeds
    <3>3. Searching!PathToTrigramQuery(key) = Searching!AllQuery
      BY <2>1 DEF Searching!PathToTrigramQuery
    <3> QED BY <3>2, <3>3, AllHolds
  <2>2. CASE key # Searching!AnyField
    <3>1. key = name /\ Searching!MatchString(re, value) /\ Searching!Verbatim
      BY <1>3, <2>2 DEF Searching!Matches
    <3>2. Searching!Trigrams(value) \subseteq T
      BY <1>1, <3>1, BodyTrigrams DEF Searching!Verbatim
    <3>3. Searching!evalTrigramQuery(Searching!RegexToTrigramQuery(re), T)
      BY <1>1, <3>1, <3>2, MatchNeeds
    <3>4. Searching!evalTrigramQuery(Searching!TermsOf(Searching!Printed(key) \o <<":">>), T)
      BY <1>1, <3>1, BodyTrigrams, TermsHold
    <3>5. Searching!evalTrigramQuery(Searching!PathToTrigramQuery(key), T)
      BY <3>4, AllHolds DEF Searching!PathToTrigramQuery
    <3> QED BY <3>3, <3>5
  <2> QED BY <2>1, <2>2
<1>4. Searching!Candidate =>
        Searching!evalTrigramQuery(
          Searching!AndQuery({Searching!PathToTrigramQuery(key), Searching!RegexToTrigramQuery(re)}), T)
  BY <1>1, <1>2, Asked
<1>5. ASSUME search_search.key = Searching!AnyField \/ Searching!Verbatim, Searching!Matches
      PROVE  Searching!Candidate
  BY <1>1, <1>2, <1>3, <1>5, Asked
<1> QED BY <1>4, <1>5

-----------------------------------------------------------------------------
(* The search itself.                                                      *)

\* The inductive invariant: the answer is that of the evaluator the worker took.
SearchIInv ==
  /\ search_search \in Search /\ Searching!TypeOK
  /\ search_matched # "unknown" =>
       /\ search_evaluator # "unset"
       /\ search_matched = "yes" <=>
            (search_evaluator = "indexed" => Searching!Candidate) /\ Searching!Matches

LEMMA SearchInit == ASSUME Searching!Init PROVE SearchIInv
<1>1. \A s \in Search : DOMAIN s = {"name", "value", "key", "pattern"}
  BY SearchAssumption
<1> QED BY <1>1 DEF Searching!Init, SearchIInv, Searching!TypeOK

LEMMA SearchNext == ASSUME SearchIInv, [Searching!Next]_(Searching!vars) PROVE SearchIInv'
<1> USE DEF SearchIInv
<1>1. ASSUME Searching!SetIndex PROVE SearchIInv'
  <2>1. UNCHANGED <<search_search, search_evaluator, search_matched>> /\ search_index' = TRUE
    BY <1>1 DEF Searching!SetIndex
  <2>2. (Searching!Candidate)' = Searching!Candidate /\ (Searching!Matches)' = Searching!Matches
    BY <2>1 DEF Searching!Candidate, Searching!Matches
  <2> QED BY <2>1, <2>2 DEF Searching!TypeOK
<1>2. ASSUME Searching!SetTrigramIndex PROVE SearchIInv'
  BY <1>2 DEF Searching!SetTrigramIndex, Searching!TypeOK
<1>3. ASSUME Searching!MatchLogField PROVE SearchIInv'
  <2>1. UNCHANGED <<search_search, search_index, search_evaluator>>
    BY <1>3 DEF Searching!MatchLogField
  <2>2. (Searching!Candidate)' = Searching!Candidate /\ (Searching!Matches)' = Searching!Matches
    BY <2>1 DEF Searching!Candidate, Searching!Matches
  <2> DEFINE Answer == (search_evaluator = "indexed" => Searching!Candidate) /\ Searching!Matches
  <2>3. search_evaluator # "unset" /\ search_matched' = IF Answer THEN "yes" ELSE "no"
    BY <1>3 DEF Searching!MatchLogField
  <2>4. Answer' <=> Answer
    BY <2>1, <2>2
  <2>5. (Searching!TypeOK)'
    BY <2>1, <2>3 DEF Searching!TypeOK
  <2>6. search_evaluator' # "unset" /\ (search_matched' = "yes" <=> Answer')
    <3> HIDE DEF Answer
    <3> QED BY <2>1, <2>3, <2>4
  <2>7. search_search' \in Search
    BY <2>1
  <2> HIDE DEF SearchIInv
  <2> QED BY <2>5, <2>6, <2>7 DEF SearchIInv
<1>4. ASSUME UNCHANGED Searching!vars PROVE SearchIInv'
  <2>1. UNCHANGED <<search_search, search_index, search_evaluator, search_matched>>
    BY <1>4 DEF Searching!vars
  <2>2. (Searching!Candidate)' = Searching!Candidate /\ (Searching!Matches)' = Searching!Matches
    BY <2>1 DEF Searching!Candidate, Searching!Matches
  <2> QED BY <2>1, <2>2 DEF Searching!TypeOK
<1> QED BY <1>1, <1>2, <1>3, <1>4 DEF Searching!Next

\* What has been shown of the operators and of the steps gives the invariant that is checked.
LEMMA SearchSafe == ASSUME SearchIInv PROVE LogSearchSafe
<1>1. search_search \in Search
  BY DEF SearchIInv
<1>2. Searching!TypeOK
  BY DEF SearchIInv
<1>3. Searching!IndexIsInvisible
  BY <1>1, IndexAgrees DEF SearchIInv, Searching!IndexIsInvisible
<1>4. Searching!SimplifyLosesNothing
  BY <1>1, IndexAgrees DEF Searching!SimplifyLosesNothing
<1> QED BY <1>2, <1>3, <1>4 DEF LogSearchSafe, Searching!LogSearchSafe

\* A search of a log's body is not affected by the index of its trigrams, whatever the
\* alphabet, the pattern and the text: the pattern matches only where the trigrams are
\* that its query asks for, the body has them printed if the value needs no escapes, and
\* simplifying the query neither loses nor adds anything.
THEOREM SearchIsUnaffected == Searching!Spec => []LogSearchSafe
<1>1. Searching!Init => SearchIInv
  BY SearchInit
<1>2. SearchIInv /\ [Searching!Next]_(Searching!vars) => SearchIInv'
  BY SearchNext
<1>3. SearchIInv => LogSearchSafe
  BY SearchSafe
<1> QED BY <1>1, <1>2, <1>3, PTL DEF Searching!Spec

=============================================================================
