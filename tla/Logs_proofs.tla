----------------------------- MODULE Logs_proofs ----------------------------
(***************************************************************************)
(* Proofs about the workers that fill the file of an inspection with logs, *)
(* for any number of them, any logs, and chunks of any size.               *)
(***************************************************************************)
EXTENDS Files, FiniteSetTheorems, SequenceTheorems, WellFoundedInduction, TLAPS

-----------------------------------------------------------------------------
(* The tables T of a state, and what a reference denotes by them.          *)

Refs == [ns : {"client", "server", "fields", "struct"}, id : Nat \ {0}]

Entries == [key : Seq(Refs), id : Nat \ {0}]
Bodies == [fields : Seq(Refs), cells : Seq(Refs)]

TableSet ==
  [str : [Logs!Pool -> [Text -> Nat]], ids : [Logs!Pool -> Seq(Text \cup {None})],
   fld : SUBSET Entries, fids : Seq(Seq(Refs)),
   st : SUBSET Entries, fst : Seq(Bodies), node : Seq(Struct)]

IsTables(U) ==
  U = [str |-> U.str, ids |-> U.ids, fld |-> U.fld, fids |-> U.fids,
       st |-> U.st, fst |-> U.fst, node |-> U.node]

Tables(n) ==
  [str |-> log_strToID, ids |-> log_idToStr, fld |-> log_fieldSetToID, fids |-> log_idToFieldSet,
   st |-> log_structToID, fst |-> log_flatStructs, node |-> n]

StringIs(T, r, t) == r.ns \in Logs!Pool /\ T.str[r.ns][t] = r.id
FieldsAre(T, r, names) == r.ns = "fields" /\ [key |-> names, id |-> r.id] \in T.fld
StructIs(T, r, s) == r.ns = "struct" /\ (\E p \in T.st : p.id = r.id) /\ T.node[r.id] = s
Is(T, r, v) == IF v \in Text THEN StringIs(T, r, v) ELSE StructIs(T, r, v)

\* The first of the values, by their references.
Are(T, refs, values) ==
  /\ refs \in Seq(Refs) /\ Len(refs) <= Len(values)
  /\ \A k \in 1..Len(refs) : Is(T, refs[k], values[k])
AllAre(T, refs, values) == Are(T, refs, values) /\ Len(refs) = Len(values)

\* A published struct is found by what it consists of, and so is its body.
Consists(T, s, fields, values) ==
  /\ fields \in Seq(Refs) /\ Len(fields) = 1
  /\ \E names \in Seq(Refs) : FieldsAre(T, fields[1], names) /\ AllAre(T, names, Names[s])
  /\ AllAre(T, values, Values[s])

StringsOK(T) ==
  \A pool \in Logs!Pool, t \in Text :
    T.str[pool][t] # 0 =>
      T.str[pool][t] <= Len(T.ids[pool]) /\ T.ids[pool][T.str[pool][t]] = t
FieldsOK(T) ==
  /\ \A p \in T.fld : p.id <= Len(T.fids) /\ T.fids[p.id] = p.key
  /\ \A p, q \in T.fld : p.key = q.key => p = q
StructsOK(T) ==
  /\ Len(T.node) = Len(T.fst)
  /\ \A p \in T.st :
       /\ p.id <= Len(T.node)
       /\ \E fields, values \in Seq(Refs) :
            /\ p.key = fields \o values /\ T.fst[p.id].fields = fields
            /\ Consists(T, T.node[p.id], fields, values)
       /\ AllAre(T, T.fst[p.id].cells, Values[T.node[p.id]])
  /\ \A p, q \in T.st : p.key = q.key => p = q
  /\ \A p, q \in T.st : p.id = q.id => p = q
TablesOK(T) == T \in TableSet /\ StringsOK(T) /\ FieldsOK(T) /\ StructsOK(T)

-----------------------------------------------------------------------------
(* Frames: the calls on the stack of a worker with a job.                  *)

StructPlaces ==
  {"names", "fields", "values", "load", "nested", "lock", "cells", "unlock", "publish",
   "stage", "flush"}

Strings == [call : {"string"}, pool : Logs!Pool, text : Text,
            at : {"own", "parent", "new", "publish", "stage", "flush"}, id : Nat]
FieldSets == [call : {"fields"}, pool : {"server"}, names : Seq(Refs),
              at : {"load", "publish", "stage", "flush"}, id : Nat]
Structs == [call : {"struct"}, pool : {"server"}, node : Struct, at : StructPlaces,
            names : Seq(Refs), fields : Seq(Refs), values : Seq(Refs), id : Nat,
            nested : Seq(Refs), cells : Seq(Refs)]
JobFrames == [call : {"log", "timeline"}, at : {"body", "text"}, body : Seq(Refs), text : Seq(Refs)]
Calling == Strings \cup FieldSets \cup Structs
Frames == Calling \cup JobFrames

Staged == {"stage", "flush"}
OwningAt == {"nested", "lock", "cells", "unlock", "publish", "stage"}
Called == {"string", "fields", "struct"}
Owning(f) == f.call \in Called /\ f.at \in OwningAt

\* A number that is not published.
Unpublished(T, r) ==
  /\ r.ns \in Logs!Pool => \A t \in Text : T.str[r.ns][t] # r.id
  /\ r.ns = "fields" => \A p \in T.fld : p.id # r.id
  /\ r.ns = "struct" => \A p \in T.st : p.id # r.id

StringOK(T, f) ==
  /\ f.at = "publish" =>
       f.id \in 1..Len(T.ids[f.pool]) /\ T.ids[f.pool][f.id] = f.text
  /\ f.at \in Staged => f.id # 0 /\ T.str[f.pool][f.text] = f.id
FieldSetOK(T, f) ==
  /\ f.at = "publish" => f.id \in 1..Len(T.fids) /\ T.fids[f.id] = f.names
  /\ f.at \in Staged => f.id # 0 /\ [key |-> f.names, id |-> f.id] \in T.fld
StructOK(T, f) ==
  /\ Are(T, f.names, Names[f.node])
  /\ Len(f.fields) <= 1 /\ (f.fields # <<>> => FieldsAre(T, f.fields[1], f.names))
  /\ Are(T, f.values, Values[f.node]) /\ Are(T, f.cells, Values[f.node])
  /\ Are(T, f.nested, Logs!Maps(f.node))
  /\ f.at = "names" => f.fields = <<>>
  /\ f.at # "names" => Len(f.names) = Len(Names[f.node])
  /\ f.at \notin {"names", "fields"} => Len(f.fields) = 1
  /\ f.at \notin {"names", "fields", "values"} => Len(f.values) = Len(Values[f.node])
  /\ f.at \in {"unlock", "publish"} \cup Staged => Len(f.cells) = Len(Values[f.node])
  /\ f.at \in OwningAt \cup Staged => f.id \in 1..Len(T.node) /\ T.node[f.id] = f.node
  /\ f.at \in {"publish"} \cup Staged => T.fst[f.id] = [fields |-> f.fields, cells |-> f.cells]
  /\ f.at \in Staged => [key |-> Logs!StructKey(f), id |-> f.id] \in T.st
JobOK(T, job, f) ==
  /\ f.call = job.kind
  /\ Are(T, f.text, <<job.text>>)
  /\ IF f.call = "log" THEN Are(T, f.body, <<job.body>>) ELSE f.at = "text"
  /\ f.call = "log" /\ f.at = "text" => Len(f.body) = 1
  /\ f.at = "body" => f.text = <<>>

FrameOK(T, job, f) ==
  /\ f.call = "string" => StringOK(T, f)
  /\ f.call = "fields" => FieldSetOK(T, f)
  /\ f.call = "struct" => StructOK(T, f)
  /\ f.call \notin Called => JobOK(T, job, f)
  /\ Owning(f) /\ f.at # "stage" => Unpublished(T, Logs!OwnRef(f))

\* The call that f makes next.
SameCall(f, g) ==
  /\ f.call = g.call
  /\ f.call = "string" => f.pool = g.pool /\ f.text = g.text
  /\ f.call = "fields" => f.names = g.names
  /\ f.call = "struct" => f.node = g.node
Serves(job, f, g) ==
  IF f.call \notin Called
  THEN /\ f[f.at] = <<>>
       /\ SameCall(IF f.at = "body" THEN Logs!StructCall(job.body)
            ELSE Logs!StringCall("client", job.text), g)
  ELSE /\ Logs!Collects(f) /\ Len(f[f.at]) < Len(Logs!Calls(f))
       /\ SameCall(Logs!NextCall(f), g)

Rests(f) == IF f.call \notin Called THEN Len(f[f.at]) = 1 ELSE ~Logs!Collects(f)

StackOK(T, job, st) ==
  /\ st \in Seq(Frames)
  /\ st # <<>> => st[1].call \notin Called /\ Rests(st[Len(st)])
  /\ \A i \in 1..Len(st) : FrameOK(T, job, st[i])
  /\ \A i \in 1..Len(st) : i > 1 => st[i].call \in Called /\ Serves(job, st[i - 1], st[i])

\* A set of natural numbers has a least element.
LEMMA Least == ASSUME NEW T \in SUBSET Nat, T # {} PROVE \E x \in T : \A y \in T : x <= y
  <1> PICK m \in T : TRUE
    OBVIOUS
  <1> DEFINE S == 1..m
             U == {1..n : n \in {k \in T : k <= m}}
             R == StrictSubsetOrdering(S)
  <1>1. IsWellFoundedOn(R, SUBSET S)
    <2>1. IsFiniteSet(S)
      BY FS_Interval
    <2> HIDE DEF S
    <2>2. IsWellFoundedOn(R, FiniteSubsetsOf(S)) /\ FiniteSubsetsOf(S) = SUBSET S
      BY <2>1, FS_StrictSubsetOrderingWellFounded, FS_FiniteSubsetsOfFinite
    <2> QED
      BY <2>2
  <1>2. U \subseteq SUBSET S /\ 1..m \in U
    OBVIOUS
  <1> HIDE DEF U, R
  <1>3. PICK u \in U : \A v \in U : ~(<<v, u>> \in R)
    BY <1>1, <1>2, WFMin
  <1>4. PICK x \in T : x <= m /\ u = 1..x
    BY DEF U
  <1>5. ASSUME NEW y \in T, y < x PROVE FALSE
    <2>1. 1..y \in U /\ 1..y \in SUBSET S /\ u \in SUBSET S
      BY <1>2, <1>4, <1>5 DEF U
    <2>2. 1..y \subseteq u
      BY <1>4, <1>5
    <2>3. x \in u /\ x \notin 1..y
      BY <1>4, <1>5
    <2>4. <<1..y, u>> \in R
      BY <2>1, <2>2, <2>3 DEF R, StrictSubsetOrdering
    <2> QED
      BY <1>3, <2>1, <2>4
  <1> QED
    BY <1>5

-----------------------------------------------------------------------------
(* The maps in logs, and the calls that interning one takes.               *)

LEMMA NodeTypes ==
  ASSUME NEW s \in Struct
  PROVE  /\ Names[s] \in Seq(Text) /\ Values[s] \in Seq(Text \cup Struct)
         /\ Len(Names[s]) \in Nat /\ Len(Values[s]) = Len(Names[s])
         /\ DOMAIN Values[s] = 1..Len(Values[s])
         /\ \A k \in 1..Len(Names[s]) : Names[s][k] \in Text /\ Values[s][k] \in Text \cup Struct
  BY IngestionAssumption

LEMMA CountOf ==
  ASSUME NEW N \in Nat, NEW P \in SUBSET (1..N), NEW i \in 1..Cardinality(P)
  PROVE  \E k \in P : Cardinality({l \in P : l <= k}) = i
  <1> DEFINE Upto(k) == P \cap (1..k)
             Far == {k \in Nat : Cardinality(Upto(k)) >= i}
  <1>1. \A k : IsFiniteSet(Upto(k)) /\ Cardinality(Upto(k)) \in Nat
    <2>0. IsFiniteSet(1..N)
      BY FS_Interval
    <2>1. IsFiniteSet(P)
      BY <2>0, FS_Subset
    <2> TAKE k
    <2>2. Upto(k) \subseteq P
      OBVIOUS
    <2> HIDE DEF Upto
    <2>3. IsFiniteSet(Upto(k))
      BY <2>1, <2>2, FS_Subset
    <2> QED
      BY <2>3, FS_CardinalityType
  <1>2. Upto(N) = P /\ Upto(0) = {} /\ Cardinality(Upto(0)) = 0
    <2>1. Upto(N) = P
      OBVIOUS
    <2>2. Upto(0) = {}
      <3>1. 1..0 = {}
        OBVIOUS
      <3> QED
        BY <3>1, Zenon
    <2> QED
      BY <2>1, <2>2, FS_EmptySet
  <1>3. N \in Far /\ 0 \notin Far
    <2> HIDE DEF Upto
    <2> QED
      BY <1>1, <1>2
  <1>4. PICK k \in Far : \A m \in Far : k <= m
    <2>1. Far \in SUBSET Nat /\ Far # {}
      BY <1>3
    <2> HIDE DEF Far
    <2> QED
      BY <2>1, Least
  <1>5. k - 1 \in Nat /\ k - 1 \notin Far
    <2>1. k \in Nat /\ k # 0
      BY <1>3
    <2> HIDE DEF Far
    <2> QED
      BY <1>4, <2>1
  <1>6. k \notin P => Upto(k) = Upto(k - 1)
    BY <1>5
  <1>7. k \notin Upto(k - 1) /\ (k \in P => Upto(k) = Upto(k - 1) \cup {k})
    BY <1>5
  <1>8. Cardinality(Upto(k - 1)) < i /\ Cardinality(Upto(k)) >= i
    <2> HIDE DEF Upto
    <2> QED
      BY <1>1, <1>4, <1>5
  <1>9. k \in P /\ Upto(k) = Upto(k - 1) \cup {k}
    <2> HIDE DEF Upto, Far
    <2> QED
      BY <1>1, <1>6, <1>7, <1>8
  <1>10. Cardinality(Upto(k)) = Cardinality(Upto(k - 1)) + 1
    <2> HIDE DEF Upto, Far
    <2> QED
      BY <1>1, <1>7, <1>9, FS_AddElement
  <1>11. Cardinality(Upto(k)) = i
    <2> HIDE DEF Upto, Far
    <2> QED
      BY <1>1, <1>8, <1>10
  <1>12. Upto(k) = {l \in P : l <= k}
    <2>1. k \in Nat /\ \A l \in P : l \in 1..k <=> l <= k
      OBVIOUS
    <2> QED
      BY <2>1, Zenon
  <1> QED
    BY <1>9, <1>11, <1>12

LEMMA MapsTypes ==
  ASSUME NEW s \in Struct
  PROVE  Logs!Maps(s) \in Seq(Struct)
  <1> DEFINE values == Values[s]
             places == {k \in DOMAIN values : values[k] \in Struct}
             Nth(i) == CHOOSE k \in places : Logs!Cardinality({l \in places : l <= k}) = i
  <1>1. Len(values) \in Nat /\ places \in SUBSET (1..Len(values))
    BY NodeTypes
  <1>2. \A S : Logs!Cardinality(S) = Cardinality(S)
    BY Zenon DEF Logs!Cardinality, Cardinality
  <1>3. Logs!Cardinality(places) \in Nat /\ Logs!Cardinality(places) = Cardinality(places)
    <2> HIDE DEF places
    <2>1. IsFiniteSet(1..Len(values))
      BY <1>1, FS_Interval
    <2>2. IsFiniteSet(places)
      BY <1>1, <2>1, FS_Subset
    <2>3. Cardinality(places) \in Nat
      BY <2>2, FS_CardinalityType
    <2> QED
      BY ONLY Zenon, <1>2, <2>3
  <1>4. \A i \in 1..Logs!Cardinality(places) : Nth(i) \in places
    <2> SUFFICES ASSUME NEW i \in 1..Logs!Cardinality(places)
                 PROVE  \E k \in places : Logs!Cardinality({l \in places : l <= k}) = i
      OBVIOUS
    <2> HIDE DEF places
    <2>1. PICK k \in places : Cardinality({l \in places : l <= k}) = i
      BY <1>1, <1>3, CountOf
    <2>2. Logs!Cardinality({l \in places : l <= k}) = i
      BY ONLY Zenon, <1>2, <2>1
    <2> QED
      BY <2>2
  <1>5. \A i \in 1..Logs!Cardinality(places) : values[Nth(i)] \in Struct
    BY <1>4
  <1>6. Logs!Maps(s) = [i \in 1..Logs!Cardinality(places) |-> values[Nth(i)]]
    BY DEF Logs!Maps
  <1> HIDE DEF places, Nth
  <1> QED
    BY <1>3, <1>5, <1>6

\* A call that has done nothing yet.
Fresh(g) ==
  /\ g \in Calling
  /\ g.call = "string" => g.at = "own"
  /\ g.call = "fields" => g.at = "load"
  /\ g.call = "struct" => g.at = "names" /\ g.names = <<>> /\ g.fields = <<>> /\ g.values = <<>>
                          /\ g.nested = <<>> /\ g.cells = <<>>

LEMMA FreshCalls ==
  /\ \A pool \in Logs!Pool, text \in Text : Fresh(Logs!StringCall(pool, text))
  /\ \A names \in Seq(Refs) : Fresh(Logs!FieldsCall(names))
  /\ \A node \in Struct : Fresh(Logs!StructCall(node)) /\ Logs!StructCall(node) \in Structs
  <1>1. \A pool \in Logs!Pool, text \in Text : Logs!StringCall(pool, text) \in Strings
    BY DEF Logs!StringCall, Strings
  <1>2. \A names \in Seq(Refs) : Logs!FieldsCall(names) \in FieldSets
    BY DEF Logs!FieldsCall, FieldSets
  <1>3. \A node \in Struct : Logs!StructCall(node) \in Structs
    BY DEF Logs!StructCall, Structs, StructPlaces
  <1> QED
    BY <1>1, <1>2, <1>3 DEF Fresh, Calling, Logs!StringCall, Logs!FieldsCall, Logs!StructCall

\* What the calls of a place are for.
Wanted(f) ==
  IF f.at = "names" THEN Names[f.node]
  ELSE IF f.at = "nested" THEN Logs!Maps(f.node) ELSE Values[f.node]

LEMMA CallsOf ==
  ASSUME NEW f \in Structs, Logs!Collects(f)
  PROVE  /\ f.at \in {"names", "fields", "values", "nested", "cells"}
         /\ f[f.at] \in Seq(Refs)
         /\ Logs!After[f.at] \in {"fields", "values", "load", "lock", "unlock"}
         /\ Len(Logs!Calls(f)) \in Nat
         /\ IF f.at = "fields" THEN Logs!Calls(f) = <<Logs!FieldsCall(f.names)>>
            ELSE /\ Wanted(f) \in Seq(Text \cup Struct) /\ Len(Logs!Calls(f)) = Len(Wanted(f))
                 /\ \A i \in 1..Len(Wanted(f)) : Logs!Calls(f)[i] = Logs!Call(Wanted(f)[i])
  <1>1. f.at \in {"names", "fields", "values", "nested", "cells"}
    BY DEF Logs!Collects, Logs!After
  <1>2. f.node \in Struct /\ f[f.at] \in Seq(Refs) /\ f.names \in Seq(Refs)
    BY <1>1 DEF Structs
  <1>3. Logs!After[f.at] \in {"fields", "values", "load", "lock", "unlock"}
    BY <1>1 DEF Logs!After
  <1>4. CASE f.at = "names"
    <2>1. Logs!Calls(f)
            = [i \in 1..Len(Names[f.node]) |-> Logs!StringCall("server", Names[f.node][i])]
      BY <1>2, <1>4, NodeTypes DEF Logs!Calls
    <2>2. Logs!Calls(f) = [i \in 1..Len(Names[f.node]) |-> Logs!Call(Names[f.node][i])]
      BY <1>2, <2>1, NodeTypes DEF Logs!Call
    <2> QED
      BY <1>1, <1>2, <1>3, <1>4, <2>2, NodeTypes DEF Wanted
  <1>5. CASE f.at = "fields"
    <2>1. Logs!Calls(f) = <<Logs!FieldsCall(f.names)>>
      BY <1>5 DEF Logs!Calls
    <2> QED
      BY <1>1, <1>2, <1>3, <1>5, <2>1
  <1>6. CASE f.at \in {"values", "cells"}
    <2>1. Logs!Calls(f) = [i \in 1..Len(Values[f.node]) |-> Logs!Call(Values[f.node][i])]
      BY <1>2, <1>6, NodeTypes DEF Logs!Calls
    <2>2. Wanted(f) = Values[f.node]
      BY <1>6 DEF Wanted
    <2> QED
      BY <1>1, <1>2, <1>3, <1>6, <2>1, <2>2, NodeTypes
  <1>7. CASE f.at = "nested"
    <2>0. Logs!Maps(f.node) \in Seq(Struct) /\ DOMAIN Logs!Maps(f.node) = 1..Len(Logs!Maps(f.node))
      BY <1>2, MapsTypes
    <2>1. Logs!Calls(f)
            = [i \in 1..Len(Logs!Maps(f.node)) |-> Logs!StructCall(Logs!Maps(f.node)[i])]
      BY <1>7, <2>0 DEF Logs!Calls
    <2>2. \A i \in 1..Len(Logs!Maps(f.node)) : Logs!Maps(f.node)[i] \in Struct /\
            Logs!Maps(f.node)[i] \notin Text
      BY <2>0, IngestionAssumption
    <2>3. Logs!Calls(f) = [i \in 1..Len(Logs!Maps(f.node)) |-> Logs!Call(Logs!Maps(f.node)[i])]
      BY <2>1, <2>2 DEF Logs!Call
    <2>4. Wanted(f) = Logs!Maps(f.node) /\ Logs!Maps(f.node) \in Seq(Text \cup Struct)
      BY <1>7, <2>0 DEF Wanted
    <2> QED
      BY <1>1, <1>2, <1>3, <1>7, <2>0, <2>3, <2>4
  <1> QED
    BY <1>1, <1>4, <1>5, <1>6, <1>7

LEMMA NextCallIsFresh ==
  ASSUME NEW f \in Structs, Logs!Collects(f), Len(f[f.at]) < Len(Logs!Calls(f))
  PROVE  /\ Fresh(Logs!NextCall(f))
         /\ Logs!NextCall(f).call = "struct" => f.at \in {"values", "nested", "cells"}
  <1>1. f[f.at] \in Seq(Refs) /\ f.names \in Seq(Refs)
    BY CallsOf DEF Structs
  <1>2. CASE f.at = "fields"
    <2>1. Logs!Calls(f) = <<Logs!FieldsCall(f.names)>> /\ Len(f[f.at]) = 0
      BY <1>1, <1>2, CallsOf
    <2> QED
      BY <1>1, <1>2, <2>1, FreshCalls DEF Logs!NextCall, Logs!FieldsCall
  <1>3. CASE f.at # "fields"
    <2> DEFINE k == Len(f[f.at]) + 1
    <2>1. /\ k \in 1..Len(Wanted(f)) /\ Wanted(f) \in Seq(Text \cup Struct)
          /\ Logs!NextCall(f) = Logs!Call(Wanted(f)[k])
      BY <1>1, <1>3, CallsOf DEF Logs!NextCall
    <2>2. Wanted(f)[k] \in Text \cup Struct
      BY <2>1
    <2>3. f.at = "names" => Wanted(f)[k] \in Text
      BY <2>1, NodeTypes DEF Wanted, Structs
    <2> QED
      BY <1>3, <2>1, <2>2, <2>3, CallsOf, FreshCalls DEF Logs!Call, Logs!Pool, Logs!StringCall
  <1> QED
    BY <1>2, <1>3

\* The results of the calls of a place.
Got(T, f) ==
  IF f.at = "fields"
  THEN Len(f.fields) <= 1 /\ (f.fields # <<>> => FieldsAre(T, f.fields[1], f.names))
  ELSE Are(T, f[f.at], Wanted(f))

LEMMA GotSoFar ==
  ASSUME NEW T, NEW f \in Structs, Logs!Collects(f)
  PROVE  /\ StructOK(T, f) => Got(T, f)
         /\ Got(T, f) => Len(f[f.at]) <= Len(Logs!Calls(f))
  <1>1. f.at \in {"names", "fields", "values", "nested", "cells"}
    BY CallsOf
  <1>2. f.fields \in Seq(Refs)
    BY DEF Structs
  <1>3. StructOK(T, f) => Got(T, f)
    BY <1>1 DEF StructOK, Got, Wanted
  <1>4. ASSUME Got(T, f) PROVE Len(f[f.at]) <= Len(Logs!Calls(f))
    <2>1. CASE f.at = "fields"
      BY <1>2, <1>4, <2>1, CallsOf DEF Got
    <2>2. CASE f.at # "fields"
      BY <1>4, <2>2, CallsOf DEF Got, Are
    <2> QED
      BY <2>1, <2>2
  <1> QED
    BY <1>3, <1>4

LEMMA MovesOn ==
  ASSUME NEW T, NEW f \in Structs, StructOK(T, f)
  PROVE  LET g == Logs!MovedOn(f)
         IN  /\ g \in Structs /\ StructOK(T, g) /\ SameCall(f, g)
             /\ g.id = f.id /\ (Owning(g) <=> Owning(f)) /\ (g.at = "stage" <=> f.at = "stage")
             /\ \/ g = f /\ (Logs!Collects(f) => Len(f[f.at]) < Len(Logs!Calls(f)))
                \/ /\ f.at \in {"names", "fields"} /\ g = [f EXCEPT !.at = Logs!After[f.at]]
                   /\ f.at = "names" => g.fields = <<>>
                \/ f.at \notin {"names", "fields"} /\ ~Logs!Collects(g)
  <1>1. CASE ~(Logs!Collects(f) /\ Len(f[f.at]) = Len(Logs!Calls(f)))
    <2>1. Logs!MovedOn(f) = f
      BY <1>1 DEF Logs!MovedOn
    <2>2. Logs!Collects(f) => Len(f[f.at]) < Len(Logs!Calls(f))
      <3> SUFFICES ASSUME Logs!Collects(f) PROVE Len(f[f.at]) < Len(Logs!Calls(f))
        OBVIOUS
      <3>1. f[f.at] \in Seq(Refs) /\ Len(f[f.at]) \in Nat /\ Len(Logs!Calls(f)) \in Nat
        BY CallsOf
      <3> QED
        BY <1>1, <3>1, GotSoFar
    <2> QED
      BY <2>1, <2>2 DEF SameCall
  <1>2. CASE Logs!Collects(f) /\ Len(f[f.at]) = Len(Logs!Calls(f))
    <2> DEFINE g == [f EXCEPT !.at = Logs!After[f.at]]
    <2>1. Logs!MovedOn(f) = g
      BY <1>2 DEF Logs!MovedOn
    <2>2. g \in Structs /\ g.at = Logs!After[f.at]
      BY <1>2, CallsOf DEF Structs, StructPlaces
    <2>3. /\ g.call = f.call /\ g.pool = f.pool /\ g.node = f.node /\ g.names = f.names
          /\ g.fields = f.fields /\ g.values = f.values /\ g.id = f.id /\ g.nested = f.nested
          /\ g.cells = f.cells
      BY DEF Structs
    <2>4. f.call = "struct"
      BY DEF Structs
    <2>5. f.at \in {"names", "fields", "values", "nested", "cells"}
      BY <1>2, CallsOf
    <2>6. /\ f.at = "names" => Len(f.names) = Len(Names[f.node]) /\ g.at = "fields"
          /\ f.at = "fields" => Len(f.fields) = 1 /\ g.at = "values"
          /\ f.at = "values" => Len(f.values) = Len(Values[f.node]) /\ g.at = "load"
          /\ f.at = "nested" => g.at = "lock"
          /\ f.at = "cells" => Len(f.cells) = Len(Values[f.node]) /\ g.at = "unlock"
      <3>1. CASE f.at = "fields"
        <4>1. Len(f.fields) = Len(<<Logs!FieldsCall(f.names)>>)
          BY <1>2, <3>1, CallsOf
        <4> QED
          BY <2>2, <3>1, <4>1 DEF Logs!After
      <3>2. CASE f.at # "fields"
        BY <1>2, <2>2, <2>5, <3>2, CallsOf DEF Wanted, Logs!After
      <3> QED
        BY <3>1, <3>2
    <2> HIDE DEF g
    <2>7. Owning(g) <=> Owning(f)
      BY <2>3, <2>4, <2>5, <2>6 DEF Owning, OwningAt
    <2>8. StructOK(T, g)
      BY <2>3, <2>4, <2>5, <2>6 DEF StructOK, OwningAt, Staged
    <2>9. f.at \notin {"names", "fields"} => ~Logs!Collects(g)
      BY <2>5, <2>6 DEF Logs!Collects, Logs!After
    <2>10. SameCall(f, g)
      BY <2>3, <2>4 DEF SameCall
    <2>11. f.at = "names" => g.fields = <<>>
      BY <2>3 DEF StructOK
    <2> QED
      BY <2>1, <2>2, <2>3, <2>5, <2>6, <2>7, <2>8, <2>9, <2>10, <2>11 DEF g
  <1> QED
    BY <1>1, <1>2

\* Two moves lead to a call to make or to a step.
LEMMA MovesOnTwice ==
  ASSUME NEW T, NEW f \in Structs, StructOK(T, f)
  PROVE  LET g == Logs!MovedOn(Logs!MovedOn(f))
         IN  /\ g \in Structs /\ StructOK(T, g) /\ SameCall(f, g)
             /\ g.id = f.id /\ (Owning(g) <=> Owning(f)) /\ (g.at = "stage" <=> f.at = "stage")
             /\ Logs!Collects(g) => Len(g[g.at]) < Len(Logs!Calls(g))
  <1> DEFINE h == Logs!MovedOn(f)
             g == Logs!MovedOn(h)
  <1> HIDE DEF g, h
  <1>1. h \in Structs /\ StructOK(T, h) /\ SameCall(f, h)
        /\ h.id = f.id /\ (Owning(h) <=> Owning(f)) /\ (h.at = "stage" <=> f.at = "stage")
    BY MovesOn DEF h
  <1>2. g \in Structs /\ StructOK(T, g) /\ SameCall(h, g)
        /\ g.id = h.id /\ (Owning(g) <=> Owning(h)) /\ (g.at = "stage" <=> h.at = "stage")
    BY <1>1, MovesOn DEF g
  <1>3. SameCall(f, g)
    BY <1>1, <1>2 DEF SameCall
  <1>5. \/ g = h /\ (Logs!Collects(h) => Len(h[h.at]) < Len(Logs!Calls(h)))
        \/ h.at \in {"names", "fields"}
        \/ ~Logs!Collects(g)
    BY <1>1, MovesOn DEF g
  <1>4. ASSUME Logs!Collects(g) PROVE Len(g[g.at]) < Len(Logs!Calls(g))
    <2>1. CASE h = f /\ (Logs!Collects(f) => Len(f[f.at]) < Len(Logs!Calls(f)))
      BY <1>1, <1>4, <2>1, MovesOn DEF g, h
    <2>2. CASE f.at \notin {"names", "fields"} /\ ~Logs!Collects(h)
      BY <1>4, <2>2 DEF g, Logs!MovedOn
    <2>3. CASE /\ f.at \in {"names", "fields"} /\ h = [f EXCEPT !.at = Logs!After[f.at]]
               /\ f.at = "names" => h.fields = <<>>
      <3>1. h.at = Logs!After[f.at]
        BY <2>3 DEF Structs
      <3>2. CASE f.at = "names"
        <4>0. h.at = "fields" /\ h.call = "struct"
          BY <1>1, <3>1, <3>2 DEF Logs!After, Structs
        <4>1. Logs!Collects(h) /\ h[h.at] = <<>>
          <5>1. Logs!Collects(h)
            BY <4>0 DEF Logs!After, Logs!Collects
          <5>2. h.fields = <<>>
            BY <2>3, <3>2
          <5> QED
            BY <4>0, <5>1, <5>2
        <4>2. Logs!Calls(h) = <<Logs!FieldsCall(h.names)>>
          BY <1>1, <4>0, <4>1, CallsOf
        <4>3. Len(h[h.at]) < Len(Logs!Calls(h))
          BY <4>1, <4>2
        <4>4. g = h
          BY <4>3 DEF g, Logs!MovedOn
        <4> QED
          BY <4>3, <4>4
      <3>3. CASE f.at = "fields"
        <4>1. h.at = "values"
          BY <3>1, <3>3 DEF Logs!After
        <4> QED
          BY <1>4, <1>5, <4>1
      <3> QED
        BY <2>3, <3>2, <3>3
    <2> QED
      BY <2>1, <2>2, <2>3, MovesOn DEF h
  <1> QED
    BY <1>1, <1>2, <1>3, <1>4 DEF g, h

LEMMA FreshIsOK ==
  ASSUME NEW T, NEW job, NEW g, Fresh(g)
  PROVE  g \in Frames /\ FrameOK(T, job, g) /\ ~Owning(g) /\ g.at # "stage" /\ g.call \in Called
  <1>1. CASE g \in Strings
    BY <1>1 DEF Fresh, Calling, Frames, FrameOK, Called, Strings, StringOK, Staged, Owning, OwningAt
  <1>2. CASE g \in FieldSets
    BY <1>2
    DEF Fresh, Calling, Frames, FrameOK, Called, FieldSets, FieldSetOK, Staged, Owning, OwningAt
  <1>3. CASE g \in Structs
    <2>1. g.call = "struct" /\ g.node \in Struct /\ g.at = "names" /\ g.names = <<>>
          /\ g.fields = <<>> /\ g.values = <<>> /\ g.nested = <<>> /\ g.cells = <<>>
      BY <1>3 DEF Fresh, Structs
    <2>2. /\ Are(T, <<>>, Names[g.node]) /\ Are(T, <<>>, Values[g.node])
          /\ Are(T, <<>>, Logs!Maps(g.node))
      <3>1. Len(Logs!Maps(g.node)) \in Nat
        BY <2>1, MapsTypes
      <3> QED
        BY <2>1, <3>1, NodeTypes DEF Are
    <2>3. StructOK(T, g)
      BY <2>1, <2>2 DEF StructOK, OwningAt, Staged
    <2> QED
      BY <1>3, <2>1, <2>3 DEF Frames, Calling, FrameOK, Called, Owning, OwningAt
  <1> QED
    BY <1>1, <1>2, <1>3 DEF Fresh, Calling

LEMMA ByCall ==
  ASSUME NEW f \in Frames
  PROVE  /\ f.call = "struct" => f \in Structs
         /\ f.call = "string" => f \in Strings
         /\ f.call = "fields" => f \in FieldSets
         /\ f.call \notin Called => f \in JobFrames
         /\ f.call \in Called => f \in Calling
         /\ f \in Structs => f.call = "struct"
  BY DEF Frames, Calling, Called, Structs, Strings, FieldSets, JobFrames

LEMMA ContinueGives ==
  ASSUME NEW T, NEW job, NEW f \in Frames, FrameOK(T, job, f),
         f.call \notin Called => Len(f[f.at]) = 1
  PROVE  LET c == Logs!Continue(f)
         IN  /\ c \in Seq(Frames) /\ Len(c) \in 1..3 /\ Rests(c[Len(c)])
             /\ \A i \in 1..Len(c) : FrameOK(T, job, c[i])
             /\ \A i \in 1..Len(c) : i > 1 =>
                  /\ c[i].call \in Called /\ Serves(job, c[i - 1], c[i])
                  /\ ~Owning(c[i]) /\ c[i].at # "stage"
             /\ SameCall(f, c[1]) /\ Logs!OwnRef(c[1]) = Logs!OwnRef(f)
             /\ (Owning(c[1]) <=> Owning(f)) /\ (c[1].at = "stage" <=> f.at = "stage")
             /\ f.call # "struct" => c = <<f>>
  <1> DEFINE g == Logs!MovedOn(Logs!MovedOn(f))
             called == Logs!MovedOn(Logs!NextCall(g))
  <1> HIDE DEF g, called
  <1>1. CASE f.call # "struct"
    <2>1. Logs!MovedOn(f) = f /\ ~Logs!Collects(f)
      BY <1>1 DEF Logs!MovedOn, Logs!Collects
    <2>2. Logs!Continue(f) = <<f>>
      BY <2>1 DEF Logs!Continue
    <2>3. Rests(f)
      BY <2>1 DEF Rests
    <2> QED
      BY <2>2, <2>3, <1>1 DEF SameCall
  <1>2. CASE f.call = "struct"
    <2>1. f \in Structs /\ StructOK(T, f)
      BY <1>2, ByCall DEF FrameOK
    <2>2. /\ g \in Structs /\ StructOK(T, g) /\ SameCall(f, g)
          /\ g.id = f.id /\ (Owning(g) <=> Owning(f)) /\ (g.at = "stage" <=> f.at = "stage")
          /\ Logs!Collects(g) => Len(g[g.at]) < Len(Logs!Calls(g))
      BY <2>1, MovesOnTwice DEF g
    <2>3. g.call = "struct" /\ g \in Frames /\ Logs!OwnRef(g) = Logs!OwnRef(f)
      BY <1>2, <2>2 DEF Structs, Frames, Calling, Logs!OwnRef
    <2>4. FrameOK(T, job, g)
      BY <1>2, <2>2, <2>3 DEF FrameOK, Called
    <2>5. CASE ~Logs!Collects(g)
      <3>1. Logs!Continue(f) = <<g>>
        BY <2>5 DEF Logs!Continue, g
      <3> QED
        BY <1>2, <2>2, <2>3, <2>4, <2>5, <3>1 DEF Rests, Called
    <2>6. CASE Logs!Collects(g)
      <3> DEFINE fresh == Logs!NextCall(g)
      <3>1. Fresh(fresh) /\ fresh \in Frames /\ FrameOK(T, job, fresh)
            /\ ~Owning(fresh) /\ fresh.at # "stage" /\ fresh.call \in Called
        BY <2>2, <2>6, NextCallIsFresh, FreshIsOK
      <3>2. Serves(job, g, fresh)
        BY <2>2, <2>3, <2>6 DEF Serves, SameCall, Called
      <3> HIDE DEF fresh
      <3>3. called = Logs!MovedOn(fresh)
        BY DEF called, fresh
      <3>4. /\ called \in Frames /\ FrameOK(T, job, called) /\ SameCall(fresh, called)
            /\ ~Owning(called) /\ called.at # "stage" /\ called.call \in Called
            /\ Logs!Collects(called)
                 => called \in Structs /\ Len(called[called.at]) < Len(Logs!Calls(called))
        <4>1. CASE fresh.call # "struct"
          <5>1. called = fresh
            BY <3>3, <4>1 DEF Logs!MovedOn, Logs!Collects
          <5> QED
            BY <3>1, <4>1, <5>1 DEF SameCall, Logs!Collects
        <4>2. CASE fresh.call = "struct"
          <5>1. fresh \in Structs /\ StructOK(T, fresh)
            BY <3>1, <4>2, ByCall DEF FrameOK
          <5>2. /\ called \in Structs /\ StructOK(T, called) /\ SameCall(fresh, called)
                /\ ~Owning(called) /\ called.at # "stage"
                /\ \/ /\ called = fresh
                      /\ (Logs!Collects(fresh) => Len(fresh[fresh.at]) < Len(Logs!Calls(fresh)))
                   \/ /\ fresh.at \in {"names", "fields"}
                      /\ called = [fresh EXCEPT !.at = Logs!After[fresh.at]]
                      /\ fresh.at = "names" => called.fields = <<>>
                   \/ ~Logs!Collects(called)
            BY <3>1, <3>3, <5>1, MovesOn
          <5>3. called.call = "struct"
            BY <5>2 DEF Structs
          <5>4. FrameOK(T, job, called) /\ called \in Frames
            BY <5>2, <5>3 DEF FrameOK, Frames, Calling, Called
          <5>5. ASSUME Logs!Collects(called) PROVE Len(called[called.at]) < Len(Logs!Calls(called))
            <6>1. CASE /\ called = fresh
                       /\ (Logs!Collects(fresh) => Len(fresh[fresh.at]) < Len(Logs!Calls(fresh)))
              BY <5>5, <6>1
            <6>2. CASE called = [fresh EXCEPT !.at = Logs!After[fresh.at]]
              <7>1. fresh.at = "names"
                BY <3>1, <4>2 DEF Fresh
              <7>2. called.at = "fields"
                BY <5>1, <6>2, <7>1 DEF Logs!After, Structs
              <7>3. called.fields = <<>>
                BY <3>1, <4>2, <5>1, <6>2 DEF Fresh, Structs
              <7>4. called[called.at] = <<>>
                BY <5>2, <7>2, <7>3
              <7>5. Logs!Calls(called) = <<Logs!FieldsCall(called.names)>>
                BY <5>2, <5>5, <7>2, CallsOf
              <7> QED
                BY <7>4, <7>5
            <6> QED
              BY <5>2, <5>5, <6>1, <6>2
          <5> QED
            BY <5>2, <5>3, <5>4, <5>5 DEF Called
        <4> QED
          BY <4>1, <4>2
      <3>5. Serves(job, g, called)
        BY <3>2, <3>4, <2>3, ByCall DEF Serves, SameCall, Called
      <3>6. CASE ~Logs!Collects(called)
        <4>1. Logs!Continue(f) = <<g, called>>
          BY <2>6, <3>6 DEF Logs!Continue, g, called
        <4>2. Rests(called)
          BY <3>4, <3>6 DEF Rests
        <4> QED
          BY <1>2, <2>2, <2>3, <2>4, <3>4, <3>5, <4>1, <4>2
      <3>7. CASE Logs!Collects(called)
        <4> DEFINE last == Logs!NextCall(called)
        <4>1. Logs!Continue(f) = <<g, called, last>>
          BY <2>6, <3>7 DEF Logs!Continue, g, called
        <4>2. called.at \in {"names", "fields"} => last.call # "struct"
          BY <3>4, <3>7, NextCallIsFresh
        <4>3. Fresh(last) /\ last \in Frames /\ FrameOK(T, job, last)
              /\ ~Owning(last) /\ last.at # "stage" /\ last.call \in Called
          BY <3>4, <3>7, NextCallIsFresh, FreshIsOK
        <4>4. Serves(job, called, last)
          BY <3>4, <3>7 DEF Serves, SameCall, Logs!Collects, Called
        <4>5. called.at \in {"names", "fields"}
          <5>1. fresh.call = "struct"
            BY <3>4, <3>7 DEF SameCall, Logs!Collects
          <5>2. fresh \in Structs /\ fresh.at = "names" /\ fresh.fields = <<>>
            BY <3>1, <5>1, ByCall DEF Fresh
          <5>3. called = fresh \/ called = [fresh EXCEPT !.at = Logs!After[fresh.at]]
            BY <3>3 DEF Logs!MovedOn
          <5> QED
            BY <5>2, <5>3 DEF Logs!After, Structs
        <4>6. Rests(last)
          BY <4>2, <4>3, <4>5 DEF Rests, Logs!Collects
        <4> HIDE DEF last
        <4> QED
          BY <1>2, <2>2, <2>3, <2>4, <3>4, <3>5, <4>1, <4>3, <4>4, <4>6
      <3> QED
        BY <3>6, <3>7
    <2> QED
      BY <2>5, <2>6
  <1> QED
    BY <1>1, <1>2

-----------------------------------------------------------------------------
(* Stacks.                                                                 *)

\* All is well below the innermost call.
Below(T, job, st) ==
  /\ st \in Seq(Frames) /\ st # <<>> /\ st[1].call \notin Called
  /\ \A i \in 1..Len(st) : i < Len(st) => FrameOK(T, job, st[i])
  /\ \A i \in 1..Len(st) : i > 1 => st[i].call \in Called /\ Serves(job, st[i - 1], st[i])

\* With g for the innermost call, the stack is in order again, and it owns no more.
Succeeds(T, job, st, g, s) ==
  /\ StackOK(T, job, s) /\ s # <<>> /\ Len(s) >= Len(st)
  /\ \A i \in 1..Len(st) : i < Len(st) => s[i] = st[i]
  /\ \A i \in 1..Len(s) : Owning(s[i]) /\ i >= Len(st) =>
       i = Len(st) /\ Owning(g) /\ Logs!OwnRef(s[i]) = Logs!OwnRef(g)
  /\ Logs!Last(s).at = "stage" <=> g.at = "stage"
  /\ g.at = "stage" => Logs!OwnRef(Logs!Last(s)) = Logs!OwnRef(g)

LEMMA FrontOf ==
  ASSUME NEW S, NEW st \in Seq(S), st # <<>>
  PROVE  /\ Logs!Front(st) \in Seq(S) /\ Len(Logs!Front(st)) = Len(st) - 1
         /\ \A i \in 1..(Len(st) - 1) : Logs!Front(st)[i] = st[i]
  <1>1. Logs!Front(st) = SubSeq(st, 1, Len(st) - 1)
    BY DEF Logs!Front
  <1>2. Len(st) \in Nat \ {0} /\ 1 \in Int /\ Len(st) - 1 \in Int
    OBVIOUS
  <1>3. \A i \in 1..(Len(st) - 1) : st[i] \in S
    OBVIOUS
  <1> DEFINE n == Len(st) - 1
  <1> HIDE DEF n
  <1>4. n \in Int /\ n \in Nat /\ \A i \in 1..n : st[i] \in S
    BY <1>2, <1>3 DEF n
  <1>5. /\ SubSeq(st, 1, n) \in Seq(S) /\ Len(SubSeq(st, 1, n)) = IF 1 <= n THEN n - 1 + 1 ELSE 0
        /\ \A i \in 1..(n - 1 + 1) : SubSeq(st, 1, n)[i] = st[1 + i - 1]
    BY <1>2, <1>4, SubSeqProperties
  <1>6. /\ SubSeq(st, 1, n) \in Seq(S) /\ Len(SubSeq(st, 1, n)) = n
        /\ \A i \in 1..n : SubSeq(st, 1, n)[i] = st[i]
    BY <1>4, <1>5
  <1> QED
    BY <1>1, <1>6 DEF n

LEMMA Joined ==
  ASSUME NEW S, NEW s \in Seq(S), NEW t \in Seq(S)
  PROVE  /\ s \o t \in Seq(S) /\ Len(s \o t) = Len(s) + Len(t)
         /\ \A i \in 1..Len(s) : (s \o t)[i] = s[i]
         /\ \A i \in 1..(Len(s) + Len(t)) : i > Len(s) => (s \o t)[i] = t[i - Len(s)]
  OBVIOUS

LEMMA Pushed ==
  ASSUME NEW T, NEW job, NEW st, Below(T, job, st),
         NEW f \in Frames, FrameOK(T, job, f), SameCall(st[Len(st)], f),
         f.call \notin Called => Len(f[f.at]) = 1
  PROVE  Succeeds(T, job, st, f, Logs!Front(st) \o Logs!Continue(f))
  <1> DEFINE c == Logs!Continue(f)
             m == Len(st) - 1
             s == Logs!Front(st) \o c
  <1>1. /\ c \in Seq(Frames) /\ Len(c) \in 1..3 /\ Rests(c[Len(c)])
        /\ \A i \in 1..Len(c) : FrameOK(T, job, c[i])
        /\ \A i \in 1..Len(c) : i > 1 =>
             /\ c[i].call \in Called /\ Serves(job, c[i - 1], c[i])
             /\ ~Owning(c[i]) /\ c[i].at # "stage"
        /\ SameCall(f, c[1]) /\ Logs!OwnRef(c[1]) = Logs!OwnRef(f)
        /\ (Owning(c[1]) <=> Owning(f)) /\ (c[1].at = "stage" <=> f.at = "stage")
    BY ContinueGives
  <1>2. st \in Seq(Frames) /\ Len(st) \in Nat \ {0} /\ m \in Nat
    BY DEF Below
  <1>3. Logs!Front(st) \in Seq(Frames) /\ Len(Logs!Front(st)) = m /\
          \A i \in 1..m : Logs!Front(st)[i] = st[i]
    BY <1>2, FrontOf
  <1> HIDE DEF c
  <1>4. /\ s \in Seq(Frames) /\ Len(s) = m + Len(c) /\ s # <<>>
        /\ \A i \in 1..m : s[i] = st[i]
        /\ \A i \in 1..Len(s) : i > m => s[i] = c[i - m]
    <2>1. s \in Seq(Frames) /\ Len(s) = Len(Logs!Front(st)) + Len(c)
      BY <1>1, <1>3, Joined
    <2>2. \A i \in 1..m : s[i] = Logs!Front(st)[i]
      BY <1>1, <1>3, Joined
    <2>3. \A i \in 1..Len(s) : i > m => s[i] = c[i - m]
      BY <1>1, <1>3, <2>1, Joined
    <2> HIDE DEF s
    <2> QED
      BY <1>1, <1>2, <1>3, <2>1, <2>2, <2>3
  <1> HIDE DEF m, s
  <1>5. \A i \in 1..Len(s) : FrameOK(T, job, s[i])
    <2> TAKE i \in 1..Len(s)
    <2>1. CASE i <= m
      BY <1>2, <1>4, <2>1 DEF Below, m
    <2>2. CASE i > m
      <3>1. i - m \in 1..Len(c)
        BY <1>1, <1>2, <1>4, <2>2
      <3> QED
        BY <1>1, <1>4, <2>2, <3>1
    <2> QED
      BY <1>2, <2>1, <2>2
  <1>6. c[1].call = st[m + 1].call /\ (m > 0 => Serves(job, st[m], c[1])) /\ s[m + 1] = c[1]
    <2>1. c[1].call = st[m + 1].call
      BY <1>1, <1>2 DEF SameCall, m
    <2>2. SameCall(st[m + 1], c[1])
      BY <1>1, <1>2 DEF SameCall, m
    <2>3. m > 0 => Serves(job, st[m], st[m + 1])
      <3> SUFFICES ASSUME m > 0 PROVE Serves(job, st[m], st[m + 1])
        OBVIOUS
      <3>1. m + 1 \in 1..Len(st) /\ m + 1 > 1 /\ (m + 1) - 1 = m
        BY <1>2 DEF m
      <3> QED
        BY <3>1 DEF Below
    <2>4. m > 0 => Serves(job, st[m], c[1])
      BY <2>2, <2>3 DEF Serves, SameCall
    <2> QED
      BY <1>1, <1>2, <1>4, <2>1, <2>4
  <1>7. \A i \in 1..Len(s) : i > 1 => s[i].call \in Called /\ Serves(job, s[i - 1], s[i])
    <2> TAKE i \in 1..Len(s)
    <2> HAVE i > 1
    <2>1. CASE i <= m
      <3>1. i \in 1..Len(st) /\ s[i] = st[i] /\ s[i - 1] = st[i - 1]
        BY <1>2, <1>4, <2>1 DEF m
      <3> QED
        BY <3>1 DEF Below
    <2>2. CASE i = m + 1
      <3>1. s[i - 1] = st[m] /\ s[i] = c[1] /\ m > 0
        BY <1>2, <1>4, <1>6, <2>2
      <3>2. st[m + 1].call \in Called
        BY <1>2, <2>2 DEF Below, m
      <3> QED
        BY <1>6, <3>1, <3>2
    <2>3. CASE i > m + 1
      <3>1. i - m \in 1..Len(c) /\ i - m > 1 /\ s[i] = c[i - m] /\ s[i - 1] = c[(i - m) - 1]
        BY <1>1, <1>2, <1>4, <2>3
      <3> QED
        BY <1>1, <3>1
    <2> QED
      BY <1>2, <2>1, <2>2, <2>3
  <1>8. s[1].call \notin Called
    BY <1>2, <1>4, <1>6 DEF Below, m
  <1>9. s[Len(s)] = c[Len(c)]
    BY <1>1, <1>2, <1>4
  <1>10. StackOK(T, job, s)
    BY <1>1, <1>4, <1>5, <1>7, <1>8, <1>9 DEF StackOK
  <1>11. ASSUME NEW i \in 1..Len(s), Owning(s[i]), i >= Len(st)
         PROVE  i = Len(st) /\ Owning(f) /\ Logs!OwnRef(s[i]) = Logs!OwnRef(f)
    <2>1. i - m \in 1..Len(c) /\ s[i] = c[i - m]
      BY <1>1, <1>2, <1>4, <1>11 DEF m
    <2>2. i - m = 1
      BY <1>1, <1>11, <2>1
    <2> QED
      BY <1>1, <1>2, <1>11, <2>1, <2>2 DEF m
  <1>12. c[Len(c)].at = "stage" => Len(c) = 1
    BY <1>1
  <1>13. ASSUME f.at = "stage" PROVE Len(c) = 1
    <2>1. c[1] \in Frames /\ c[1].at = "stage"
      BY <1>1, <1>13
    <2>2. c[1].call \in Called
      BY <2>1, ByCall DEF JobFrames
    <2>3. ~Logs!Collects(c[1])
      BY <2>1 DEF Logs!Collects, Logs!After
    <2>4. ASSUME Len(c) # 1 PROVE FALSE
      <3>1. 2 \in 1..Len(c) /\ 2 - 1 = 1
        BY <1>1, <2>4
      <3>2. Serves(job, c[1], c[2])
        BY <1>1, <3>1
      <3> QED
        BY <2>2, <2>3, <3>2 DEF Serves
    <2> QED
      BY <1>1, <2>4
  <1>14. Logs!Last(s) = c[Len(c)]
    BY <1>9 DEF Logs!Last
  <1>15. Len(s) >= Len(st) /\ \A i \in 1..Len(st) : i < Len(st) => s[i] = st[i]
    BY <1>1, <1>2, <1>4 DEF m
  <1>16. /\ Logs!Last(s).at = "stage" <=> f.at = "stage"
         /\ f.at = "stage" => Logs!OwnRef(Logs!Last(s)) = Logs!OwnRef(f)
    BY <1>1, <1>12, <1>13, <1>14
  <1>17. Succeeds(T, job, st, f, s)
    BY <1>4, <1>10, <1>11, <1>15, <1>16 DEF Succeeds
  <1> QED
    BY <1>17 DEF s, c

\* A reference that answers a call.
Answers(T, r, f) ==
  /\ r \in Refs
  /\ f.call = "string" => StringIs(T, r, f.text)
  /\ f.call = "fields" => FieldsAre(T, r, f.names)
  /\ f.call = "struct" => StructIs(T, r, f.node)

LEMMA AreMore ==
  ASSUME NEW T, NEW values, Len(values) \in Nat, NEW refs, Are(T, refs, values),
         Len(refs) < Len(values), NEW r \in Refs, Is(T, r, values[Len(refs) + 1])
  PROVE  Are(T, Append(refs, r), values)
  <1> DEFINE more == Append(refs, r)
  <1>1. refs \in Seq(Refs) /\ \A k \in 1..Len(refs) : Is(T, refs[k], values[k])
    BY DEF Are
  <1>2. /\ more \in Seq(Refs) /\ Len(more) = Len(refs) + 1 /\ more[Len(refs) + 1] = r
        /\ \A k \in 1..Len(refs) : more[k] = refs[k]
    BY <1>1
  <1> HIDE DEF more
  <1>3. \A k \in 1..Len(more) : Is(T, more[k], values[k])
    BY <1>1, <1>2
  <1> QED
    BY <1>1, <1>2, <1>3 DEF Are, more

\* A call with the result of one that it made.
Received(f, r) == [f EXCEPT ![f.at] = Append(@, r)]

LEMMA JobReceives ==
  ASSUME NEW T, NEW job \in JobSet, NEW f \in JobFrames, JobOK(T, job, f),
         NEW g \in Calling, Serves(job, f, g), NEW r, Answers(T, r, g)
  PROVE  LET h == Received(f, r)
         IN  /\ h \in JobFrames /\ JobOK(T, job, h)
             /\ h.call = f.call /\ h.at = f.at /\ Len(h[h.at]) = 1
  <1> DEFINE h == Received(f, r)
  <1>0. h = [f EXCEPT ![f.at] = Append(@, r)]
    BY DEF Received
  <1> HIDE DEF h
  <1>1. /\ f.call \in {"log", "timeline"} /\ f.at \in {"body", "text"} /\ f.call \notin Called
        /\ f[f.at] = <<>> /\ r \in Refs
        /\ DOMAIN f = {"call", "at", "body", "text"}
        /\ f.body \in Seq(Refs) /\ f.text \in Seq(Refs)
    BY DEF JobFrames, Called, Serves, Answers
  <1>a. Append(f[f.at], r) = <<r>>
    <2>1. Append(<<>>, r) = <<r>>
      OBVIOUS
    <2> QED
      BY <1>1, <2>1
  <1>b. /\ h.call = f.call /\ h.at = f.at
        /\ h.body = IF f.at = "body" THEN <<r>> ELSE f.body
        /\ h.text = IF f.at = "text" THEN <<r>> ELSE f.text
    BY <1>0, <1>1, <1>a
  <1>c. h \in JobFrames
    <2>1. DOMAIN h = DOMAIN f /\ h.body \in Seq(Refs) /\ h.text \in Seq(Refs)
      BY <1>0, <1>1, <1>b
    <2>2. f[f.at] \in Seq(Refs) /\ Append(f[f.at], r) \in Seq(Refs)
      BY <1>0, <1>1, <1>a
    <2> QED
      BY <1>0, <1>1, <2>2 DEF JobFrames
  <1>2. job.text \in Text /\ (job.kind = "log" => job.body \in Struct /\ job.body \notin Text)
    BY IngestionAssumption DEF JobSet
  <1>3. CASE f.at = "body"
    <2>2. f.call = "log" /\ job.kind = "log" /\ f.text = <<>>
      BY <1>1, <1>3 DEF JobOK
    <2>3. g.call = "struct" /\ g.node = job.body
      BY <1>1, <1>3 DEF Serves, SameCall, Logs!StructCall
    <2>4. Are(T, <<r>>, <<job.body>>)
      BY <1>1, <1>2, <2>2, <2>3 DEF Answers, Are, Is
    <2>5. h.body = <<r>> /\ h.text = f.text /\ h[h.at] = <<r>>
      BY <1>b, <1>c, <1>3 DEF JobFrames
    <2>7. JobOK(T, job, h)
      BY <1>b, <1>3, <2>2, <2>4, <2>5 DEF JobOK
    <2> QED
      BY <1>b, <1>c, <2>5, <2>7 DEF h
  <1>4. CASE f.at = "text"
    <2>2. g.call = "string" /\ g.text = job.text
      BY <1>1, <1>4 DEF Serves, SameCall, Logs!StringCall
    <2>3. Are(T, <<r>>, <<job.text>>)
      BY <1>1, <1>2, <2>2 DEF Answers, Are, Is
    <2>4. h.text = <<r>> /\ h.body = f.body /\ h[h.at] = <<r>>
      BY <1>b, <1>c, <1>4 DEF JobFrames
    <2>6. JobOK(T, job, h)
      BY <1>b, <1>4, <2>3, <2>4 DEF JobOK
    <2> QED
      BY <1>b, <1>c, <2>4, <2>6 DEF h
  <1> QED
    BY <1>1, <1>3, <1>4 DEF h

LEMMA StructReceives ==
  ASSUME NEW T, NEW job, NEW f \in Structs, StructOK(T, f),
         NEW g \in Calling, Serves(job, f, g), NEW r, Answers(T, r, g)
  PROVE  LET h == Received(f, r)
         IN  /\ h \in Structs /\ StructOK(T, h) /\ h.call = f.call /\ h.at = f.at
             /\ h.node = f.node /\ h.id = f.id
  <1> DEFINE h == Received(f, r)
  <1>0. h = [f EXCEPT ![f.at] = Append(@, r)]
    BY DEF Received
  <1> HIDE DEF h
  <1> DEFINE k == Len(f[f.at]) + 1
  <1>1. /\ Logs!Collects(f) /\ k <= Len(Logs!Calls(f)) /\ SameCall(Logs!Calls(f)[k], g)
        /\ f.call = "struct" /\ r \in Refs
    <2>1. f.call = "struct"
      BY DEF Structs
    <2>2. Logs!Collects(f) /\ Len(f[f.at]) < Len(Logs!Calls(f)) /\ SameCall(Logs!NextCall(f), g)
      BY <2>1 DEF Serves, Called
    <2> QED
      BY <2>1, <2>2, CallsOf DEF Logs!NextCall, Answers
  <1>2. f.at \in {"names", "fields", "values", "nested", "cells"}
    BY <1>1, CallsOf
  <1>3. /\ DOMAIN f = {"call", "pool", "node", "at", "names", "fields", "values", "id", "nested",
             "cells"}
        /\ f.node \in Struct /\ f.names \in Seq(Refs) /\ f.fields \in Seq(Refs)
        /\ f.values \in Seq(Refs) /\ f.nested \in Seq(Refs) /\ f.cells \in Seq(Refs)
    BY DEF Structs
  <1>4. /\ h.call = f.call /\ h.at = f.at /\ h.node = f.node /\ h.id = f.id
        /\ h.names = IF f.at = "names" THEN Append(f.names, r) ELSE f.names
        /\ h.fields = IF f.at = "fields" THEN Append(f.fields, r) ELSE f.fields
        /\ h.values = IF f.at = "values" THEN Append(f.values, r) ELSE f.values
        /\ h.nested = IF f.at = "nested" THEN Append(f.nested, r) ELSE f.nested
        /\ h.cells = IF f.at = "cells" THEN Append(f.cells, r) ELSE f.cells
    BY <1>0, <1>2, <1>3
  <1>5. h \in Structs
    <2>1. /\ DOMAIN h = DOMAIN f /\ h.names \in Seq(Refs) /\ h.fields \in Seq(Refs)
          /\ h.values \in Seq(Refs) /\ h.nested \in Seq(Refs) /\ h.cells \in Seq(Refs)
          /\ h.pool = f.pool
      BY <1>0, <1>1, <1>2, <1>3, <1>4
    <2>2. f[f.at] \in Seq(Refs) /\ Append(f[f.at], r) \in Seq(Refs)
      BY <1>1, CallsOf
    <2> QED
      BY <1>0, <1>2, <1>3, <2>2 DEF Structs
  <1>6. f.at # "fields" => Are(T, Append(f[f.at], r), Wanted(f))
    <2> SUFFICES ASSUME f.at # "fields" PROVE Are(T, Append(f[f.at], r), Wanted(f))
      OBVIOUS
    <2>1. /\ Wanted(f) \in Seq(Text \cup Struct) /\ Len(Logs!Calls(f)) = Len(Wanted(f))
          /\ k \in 1..Len(Wanted(f)) /\ Logs!Calls(f)[k] = Logs!Call(Wanted(f)[k])
      <3>1. f[f.at] \in Seq(Refs)
        BY <1>1, CallsOf
      <3> QED
        BY <1>1, <3>1, CallsOf
    <2>2. Wanted(f)[k] \in Text \cup Struct /\ Len(Wanted(f)) \in Nat
      BY <2>1
    <2>3. Is(T, r, Wanted(f)[k])
      BY <1>1, <2>1, <2>2 DEF Logs!Call, SameCall, Logs!StringCall, Logs!StructCall, Answers, Is
    <2>4. Are(T, f[f.at], Wanted(f))
      BY <1>1, GotSoFar DEF Got
    <2>5. Len(f[f.at]) < Len(Wanted(f))
      BY <2>1, <2>4 DEF Are
    <2> QED
      BY <1>1, <2>2, <2>3, <2>4, <2>5, AreMore
  <1>7. f.at = "fields" => f.fields = <<>> /\ FieldsAre(T, r, f.names)
    <2> SUFFICES ASSUME f.at = "fields" PROVE f.fields = <<>> /\ FieldsAre(T, r, f.names)
      OBVIOUS
    <2>1. Logs!Calls(f) = <<Logs!FieldsCall(f.names)>>
      BY <1>1, CallsOf
    <2>2. k = 1 /\ f.fields = <<>>
      <3>1. k = Len(f.fields) + 1 /\ k <= 1
        BY <1>1, <1>3, <2>1
      <3> QED
        BY <1>3, <3>1
    <2> QED
      BY <1>1, <2>1, <2>2 DEF SameCall, Logs!FieldsCall, Answers
  <1>8. ASSUME f.at = "names" PROVE StructOK(T, h)
    <2>1. Are(T, h.names, Names[h.node])
      BY <1>3, <1>4, <1>6, <1>8 DEF Wanted
    <2> QED
      BY <1>4, <1>5, <1>8, <2>1 DEF StructOK, Staged, OwningAt
  <1>9. ASSUME f.at = "fields" PROVE StructOK(T, h)
    <2>0. Append(<<>>, r) = <<r>>
      OBVIOUS
    <2>1. h.fields = <<r>> /\ Len(h.fields) = 1 /\ h.fields[1] = r
      <3>1. h.fields = Append(f.fields, r)
        BY <1>4, <1>9
      <3>2. h.fields = <<r>>
        BY <1>7, <1>9, <2>0, <3>1
      <3>3. Len(<<r>>) = 1 /\ <<r>>[1] = r
        OBVIOUS
      <3> QED
        BY <3>2, <3>3, Zenon
    <2> QED
      BY <1>4, <1>5, <1>7, <1>9, <2>1 DEF StructOK, Staged, OwningAt
  <1>10. ASSUME f.at = "values" PROVE StructOK(T, h)
    <2>1. Are(T, h.values, Values[h.node])
      BY <1>3, <1>4, <1>6, <1>10 DEF Wanted
    <2> QED
      BY <1>4, <1>5, <1>10, <2>1 DEF StructOK, Staged, OwningAt
  <1>11. ASSUME f.at = "nested" PROVE StructOK(T, h)
    <2>1. Are(T, h.nested, Logs!Maps(h.node))
      BY <1>3, <1>4, <1>6, <1>11 DEF Wanted
    <2> QED
      BY <1>4, <1>5, <1>11, <2>1 DEF StructOK, Staged, OwningAt
  <1>12. ASSUME f.at = "cells" PROVE StructOK(T, h)
    <2>1. Are(T, h.cells, Values[h.node])
      BY <1>3, <1>4, <1>6, <1>12 DEF Wanted
    <2> QED
      BY <1>4, <1>5, <1>12, <2>1 DEF StructOK, Staged, OwningAt
  <1>13. StructOK(T, h)
    BY <1>2, <1>8, <1>9, <1>10, <1>11, <1>12
  <1> QED
    BY <1>4, <1>5, <1>13 DEF h

\* The stack of a worker when its innermost call has returned r.
Replied(st, r) ==
  Logs!Front(Logs!Front(st)) \o Logs!Continue(Received(Logs!Last(Logs!Front(st)), r))

LEMMA Returned ==
  ASSUME NEW T, NEW job \in JobSet, NEW st, Below(T, job, st), Logs!Last(st).call \in Called,
         NEW r, Answers(T, r, Logs!Last(st)), NEW s, s = Replied(st, r)
  PROVE  /\ StackOK(T, job, s) /\ s # <<>> /\ Logs!Last(s).at # "stage"
         /\ \A i \in 1..Len(s) : Owning(s[i]) =>
              /\ i \in 1..Len(st) /\ i < Len(st) /\ Owning(st[i])
              /\ Logs!OwnRef(s[i]) = Logs!OwnRef(st[i])
  <1> DEFINE callers == Logs!Front(st)
             f == Logs!Last(callers)
             g == Logs!Last(st)
             h == Received(f, r)
             n == Len(st)
  <1>0. h = [f EXCEPT ![f.at] = Append(@, r)]
    BY DEF Received
  <1> HIDE DEF h
  <1>1. st \in Seq(Frames) /\ st # <<>> /\ n \in Nat \ {0} /\ g = st[n]
    BY DEF Below, Logs!Last
  <1> HIDE DEF n
  <1>2. n > 1
    BY <1>1 DEF Below, n
  <1>3. callers \in Seq(Frames) /\ Len(callers) = n - 1 /\ \A i \in 1..(n - 1) : callers[i] = st[i]
    BY <1>1, FrontOf DEF n
  <1> HIDE DEF callers, g
  <1>4. n - 1 \in 1..n /\ n - 1 \in 1..(n - 1) /\ n \in 1..n
    BY <1>1, <1>2
  <1>5. f = st[n - 1] /\ f = callers[n - 1] /\ f \in Frames
    BY <1>1, <1>3, <1>4 DEF Logs!Last, n
  <1> HIDE DEF f
  <1>6. FrameOK(T, job, f) /\ g.call \in Called /\ g \in Frames /\ Serves(job, f, g)
    <2>1. n - 1 \in 1..Len(st) /\ n \in 1..Len(st) /\ n - 1 < Len(st) /\ n > 1
      BY <1>1, <1>2, <1>4 DEF n
    <2>2. FrameOK(T, job, st[n - 1]) /\ st[n].call \in Called /\ Serves(job, st[n - 1], st[n])
      BY <2>1 DEF Below
    <2>3. st[n] \in Frames
      BY <1>1, <2>1
    <2> QED
      BY <1>1, <1>5, <2>2, <2>3
  <1>7. g \in Calling /\ Answers(T, r, g)
    BY <1>6, ByCall DEF g
  <1>8. /\ h \in Frames /\ FrameOK(T, job, h) /\ SameCall(f, h) /\ h.at = f.at
        /\ Logs!OwnRef(h) = Logs!OwnRef(f)
        /\ (Owning(h) <=> Owning(f)) /\ (h.call \notin Called => Len(h[h.at]) = 1)
        /\ h.at # "stage"
    <2>1. CASE f.call \notin Called
      <3>1. f \in JobFrames /\ JobOK(T, job, f)
        BY <1>5, <1>6, <2>1, ByCall DEF FrameOK
      <3>2. /\ h \in JobFrames /\ JobOK(T, job, h) /\ h.call = f.call /\ h.at = f.at
            /\ Len(h[h.at]) = 1
        BY <1>6, <1>7, <3>1, JobReceives DEF h
      <3>3. f.id = h.id
        BY <1>0, <3>1 DEF JobFrames
      <3>4. Logs!OwnRef(h) = Logs!OwnRef(f)
        BY <2>1, <3>2, <3>3 DEF Logs!OwnRef, Called
      <3> QED
        BY <2>1, <3>1, <3>2, <3>4 DEF Frames, FrameOK, SameCall, Owning, Called, JobFrames
    <2>2. CASE f.call \in Called
      <3>1. Logs!Collects(f) /\ f.call = "struct"
        BY <1>6, <2>2 DEF Serves, Logs!Collects
      <3>2. f \in Structs /\ StructOK(T, f)
        BY <1>5, <1>6, <3>1, ByCall DEF FrameOK
      <3>3. /\ h \in Structs /\ StructOK(T, h) /\ h.call = f.call /\ h.at = f.at
            /\ h.node = f.node /\ h.id = f.id
        BY <1>6, <1>7, <3>2, StructReceives DEF h
      <3>4. Logs!OwnRef(h) = Logs!OwnRef(f) /\ (Owning(h) <=> Owning(f)) /\ SameCall(f, h)
        BY <3>1, <3>3 DEF Logs!OwnRef, Owning, SameCall
      <3>5. f.at # "stage"
        BY <3>1 DEF Logs!Collects, Logs!After
      <3> QED
        BY <1>6, <2>2, <3>1, <3>3, <3>4, <3>5 DEF Frames, Calling, FrameOK
    <2> QED
      BY <2>1, <2>2
  <1>9. Below(T, job, callers)
    <2>1. callers # <<>> /\ callers[1] = st[1] /\ Len(callers) \in Nat
      BY <1>2, <1>3, <1>4
    <2>2. \A i \in 1..Len(callers) : i \in 1..n /\ i < n /\ callers[i] = st[i]
      BY <1>1, <1>3
    <2>3. \A i \in 1..Len(callers) : i > 1 => i - 1 \in 1..Len(callers)
      BY <1>1, <1>3
    <2> QED
      BY <1>3, <2>1, <2>2, <2>3 DEF Below, n
  <1>10. callers[Len(callers)] = f
    BY <1>3, <1>5
  <1>11. Succeeds(T, job, callers, h, s)
    <2>1. s = Logs!Front(callers) \o Logs!Continue(h)
      BY DEF Replied, h, f, callers
    <2> QED
      BY <1>8, <1>9, <1>10, <2>1, Pushed
  <1>12. s \in Seq(Frames) /\ Len(s) \in Nat
    BY <1>11 DEF Succeeds, StackOK
  <1>13. ASSUME NEW i \in 1..Len(s), Owning(s[i])
         PROVE  i \in 1..n /\ i < n /\ Owning(st[i]) /\ Logs!OwnRef(s[i]) = Logs!OwnRef(st[i])
    <2>1. CASE i < n - 1
      <3>1. i \in 1..(n - 1) /\ i \in 1..n
        BY <1>1, <1>12, <2>1
      <3>2. s[i] = callers[i] /\ callers[i] = st[i]
        BY <1>3, <1>11, <2>1, <3>1 DEF Succeeds
      <3>3. s[i] = st[i] /\ i < n
        BY <1>1, <2>1, <3>1, <3>2
      <3> QED
        BY <1>13, <3>1, <3>3
    <2>2. CASE i >= n - 1
      <3>1. i = n - 1 /\ Owning(h) /\ Logs!OwnRef(s[i]) = Logs!OwnRef(h)
        BY <1>3, <1>11, <1>13, <2>2 DEF Succeeds
      <3>2. st[i] = f /\ i \in 1..n /\ i < n
        <4>1. i = n - 1
          BY <3>1
        <4>2. st[i] = f
          BY <1>5, <4>1
        <4>3. i \in 1..n
          BY <1>4, <4>1
        <4>4. i < n
          BY <1>1, <4>1
        <4> QED
          BY <4>2, <4>3, <4>4
      <3> QED
        BY <1>8, <3>1, <3>2
    <2> QED
      BY <1>1, <1>12, <2>1, <2>2
  <1>14. StackOK(T, job, s) /\ s # <<>> /\ Logs!Last(s).at # "stage"
    BY <1>8, <1>11 DEF Succeeds
  <1> QED
    BY <1>13, <1>14 DEF n

-----------------------------------------------------------------------------
(* What others do to the tables.                                           *)

\* Tables grow, and only the number r, which is not published, gets other contents.
Grows(T, U, r) ==
  /\ TablesOK(T) /\ U \in TableSet /\ r \in Refs /\ Unpublished(T, r)
  /\ \A pool \in Logs!Pool, t \in Text :
       \/ U.str[pool][t] = T.str[pool][t]
       \/ T.str[pool][t] = 0 /\ r.ns = pool /\ U.str[pool][t] = r.id
  /\ \A pool \in Logs!Pool : \A i \in 1..Len(T.ids[pool]) :
       /\ i <= Len(U.ids[pool])
       /\ U.ids[pool][i] = T.ids[pool][i] \/ (r.ns = pool /\ r.id = i)
  /\ T.fld \subseteq U.fld /\ \A p \in U.fld : p \in T.fld \/ (r.ns = "fields" /\ p.id = r.id)
  /\ \A i \in 1..Len(T.fids) :
       i <= Len(U.fids) /\ (U.fids[i] = T.fids[i] \/ (r.ns = "fields" /\ r.id = i))
  /\ T.st \subseteq U.st /\ \A p \in U.st : p \in T.st \/ (r.ns = "struct" /\ p.id = r.id)
  /\ \A i \in 1..Len(T.fst) :
       i <= Len(U.fst) /\ (U.fst[i] = T.fst[i] \/ (r.ns = "struct" /\ r.id = i))
  /\ \A i \in 1..Len(T.node) : i <= Len(U.node) /\ U.node[i] = T.node[i]

LEMMA IsKept ==
  ASSUME NEW T, NEW U, NEW r, Grows(T, U, r), NEW x \in Refs
  PROVE  /\ \A t \in Text : StringIs(T, x, t) => StringIs(U, x, t)
         /\ \A names : FieldsAre(T, x, names) => FieldsAre(U, x, names)
         /\ \A s : StructIs(T, x, s) => StructIs(U, x, s)
         /\ \A v : Is(T, x, v) => Is(U, x, v)
  <1>1. \A t \in Text : StringIs(T, x, t) => StringIs(U, x, t)
    BY DEF Grows, StringIs, Refs
  <1>2. \A names : FieldsAre(T, x, names) => FieldsAre(U, x, names)
    BY DEF Grows, FieldsAre
  <1>3. ASSUME NEW s, StructIs(T, x, s) PROVE StructIs(U, x, s)
    <2>1. PICK p \in T.st : p.id = x.id
      BY <1>3 DEF StructIs
    <2>2. x.id \in Nat \ {0} /\ x.id <= Len(T.node) /\ T.node \in Seq(Struct)
      BY <2>1 DEF Grows, TablesOK, StructsOK, TableSet, Refs
    <2>3. x.id \in 1..Len(T.node)
      BY <2>2
    <2> QED
      BY <1>3, <2>1, <2>3 DEF Grows, StructIs
  <1> QED
    BY <1>1, <1>2, <1>3 DEF Is

LEMMA AreKept ==
  ASSUME NEW T, NEW U, NEW r, Grows(T, U, r), NEW refs, NEW values
  PROVE  /\ Are(T, refs, values) => Are(U, refs, values)
         /\ AllAre(T, refs, values) => AllAre(U, refs, values)
  <1>1. ASSUME refs \in Seq(Refs) PROVE \A k \in 1..Len(refs) : refs[k] \in Refs
    BY <1>1
  <1> QED
    BY <1>1, IsKept DEF Are, AllAre

\* References are equal when they are of the same number.
LEMMA SameRef ==
  /\ \A x, y \in Refs : x.ns = y.ns /\ x.id = y.id => x = y
  /\ \A x \in Refs : \A ns, id : x.ns = ns /\ x.id = id => x = Logs!Ref(ns, id)
  BY DEF Refs, Logs!Ref

LEMMA OwnNumber ==
  ASSUME NEW T, NEW f \in Frames, Owning(f)
  PROVE  /\ Logs!OwnRef(f).id = f.id
         /\ Logs!OwnRef(f).ns = IF f.call = "string" THEN f.pool ELSE f.call
         /\ f.call = "string" => f.pool \in Logs!Pool
         /\ f.call \in {"fields", "struct"} => f.call \notin Logs!Pool
  BY ByCall DEF Logs!OwnRef, Logs!Ref, Owning, Strings, Logs!Pool, Called

LEMMA FrameKept ==
  ASSUME NEW T, NEW U, NEW r, Grows(T, U, r), NEW job, NEW f \in Frames, FrameOK(T, job, f),
         Owning(f) => Logs!OwnRef(f) # r
  PROVE  FrameOK(U, job, f)
  <1>1. ASSUME Owning(f), f.at # "stage" PROVE Unpublished(U, Logs!OwnRef(f))
    <2>1. Unpublished(T, Logs!OwnRef(f))
      BY <1>1 DEF FrameOK
    <2>2. r = Logs!Ref(r.ns, r.id)
      BY SameRef DEF Grows
    <2>3. ~(r.ns = Logs!OwnRef(f).ns /\ r.id = Logs!OwnRef(f).id)
      BY <1>1, <2>2 DEF Logs!OwnRef, Logs!Ref
    <2> QED
      BY <2>1, <2>3 DEF Unpublished, Grows
  <1>2. CASE f.call = "string"
    <2>1. f \in Strings /\ StringOK(T, f) /\ f.pool \in Logs!Pool /\ f.text \in Text /\ f.id \in Nat
      BY <1>2, ByCall DEF FrameOK, Strings
    <2>2. ASSUME f.at = "publish"
          PROVE f.id \in 1..Len(U.ids[f.pool]) /\ U.ids[f.pool][f.id] = f.text
      <3>1. Owning(f)
        BY <1>2, <2>2 DEF Owning, Called, OwningAt
      <3>2. ~(r.ns = f.pool /\ r.id = f.id)
        BY <1>2, <3>1, SameRef DEF Logs!OwnRef, Grows
      <3>3. f.id \in 1..Len(T.ids[f.pool]) /\ T.ids[f.pool][f.id] = f.text
        BY <2>1, <2>2 DEF StringOK
      <3>4. U.ids[f.pool] \in Seq(Text \cup {None}) /\ T.ids[f.pool] \in Seq(Text \cup {None})
        BY <2>1 DEF Grows, TablesOK, TableSet
      <3>5. f.id <= Len(U.ids[f.pool]) /\ U.ids[f.pool][f.id] = T.ids[f.pool][f.id]
        BY <2>1, <3>2, <3>3 DEF Grows
      <3> QED
        BY <3>3, <3>4, <3>5
    <2>3. f.at \in Staged => f.id # 0 /\ U.str[f.pool][f.text] = f.id
      BY <2>1 DEF StringOK, Grows
    <2> QED
      BY <1>1, <1>2, <2>2, <2>3 DEF FrameOK, StringOK, Called
  <1>3. CASE f.call = "fields"
    <2>1. f \in FieldSets /\ FieldSetOK(T, f)
      BY <1>3, ByCall DEF FrameOK
    <2>2. ASSUME f.at = "publish" PROVE f.id \in 1..Len(U.fids) /\ U.fids[f.id] = f.names
      <3>1. Owning(f)
        BY <1>3, <2>2 DEF Owning, Called, OwningAt
      <3>2. ~(r.ns = "fields" /\ r.id = f.id)
        BY <1>3, <3>1, SameRef DEF Logs!OwnRef, Grows
      <3>3. f.id \in 1..Len(T.fids) /\ T.fids[f.id] = f.names
        BY <2>1, <2>2 DEF FieldSetOK
      <3>4. U.fids \in Seq(Seq(Refs)) /\ T.fids \in Seq(Seq(Refs))
        BY DEF Grows, TablesOK, TableSet
      <3>5. f.id <= Len(U.fids) /\ U.fids[f.id] = T.fids[f.id]
        BY <3>2, <3>3 DEF Grows
      <3> QED
        BY <3>3, <3>4, <3>5
    <2>3. f.at \in Staged => f.id # 0 /\ [key |-> f.names, id |-> f.id] \in U.fld
      BY <2>1 DEF FieldSetOK, Grows
    <2> QED
      BY <1>1, <1>3, <2>2, <2>3 DEF FrameOK, FieldSetOK, Called
  <1>4. CASE f.call = "struct"
    <2>1. f \in Structs /\ StructOK(T, f) /\ f.fields \in Seq(Refs)
      BY <1>4, ByCall DEF FrameOK, Structs
    <2>2. /\ Are(U, f.names, Names[f.node]) /\ Are(U, f.values, Values[f.node])
          /\ Are(U, f.cells, Values[f.node]) /\ Are(U, f.nested, Logs!Maps(f.node))
      BY <2>1, AreKept DEF StructOK
    <2>3. Len(f.fields) <= 1 /\ (f.fields # <<>> => FieldsAre(U, f.fields[1], f.names))
      <3>1. f.fields # <<>> => f.fields[1] \in Refs
        BY <2>1
      <3> QED
        BY <2>1, <3>1, IsKept DEF StructOK
    <2>4. ASSUME f.at \in OwningAt \cup Staged
          PROVE f.id \in 1..Len(U.node) /\ U.node[f.id] = f.node
      <3>1. f.id \in 1..Len(T.node) /\ T.node[f.id] = f.node
        BY <2>1, <2>4 DEF StructOK
      <3>2. U.node \in Seq(Struct) /\ T.node \in Seq(Struct)
        BY DEF Grows, TablesOK, TableSet
      <3>3. f.id <= Len(U.node) /\ U.node[f.id] = T.node[f.id]
        BY <3>1 DEF Grows
      <3> QED
        BY <3>1, <3>2, <3>3
    <2>5. f.at \in Staged => [key |-> Logs!StructKey(f), id |-> f.id] \in T.st
      BY <2>1 DEF StructOK
    <2>6. f.at \in Staged => [key |-> Logs!StructKey(f), id |-> f.id] \in U.st
      BY <2>5 DEF Grows
    <2>7. ASSUME f.at \in {"publish"} \cup Staged
          PROVE  U.fst[f.id] = [fields |-> f.fields, cells |-> f.cells]
      <3>1. ~(r.ns = "struct" /\ r.id = f.id)
        <4>1. CASE f.at \in Staged
          BY <2>5, <4>1 DEF Grows, Unpublished
        <4>2. CASE f.at = "publish"
          <5>1. Owning(f)
            BY <1>4, <4>2 DEF Owning, Called, OwningAt
          <5> QED
            BY <1>4, <5>1, SameRef DEF Logs!OwnRef, Grows
        <4> QED
          BY <2>7, <4>1, <4>2
      <3>2. f.id \in 1..Len(T.fst) /\ T.fst[f.id] = [fields |-> f.fields, cells |-> f.cells]
        BY <2>1, <2>7 DEF StructOK, Grows, TablesOK, StructsOK, OwningAt
      <3> QED
        BY <3>1, <3>2 DEF Grows
    <2>8. StructOK(U, f)
      BY <2>1, <2>2, <2>3, <2>4, <2>6, <2>7 DEF StructOK
    <2> QED
      BY <1>1, <1>4, <2>8 DEF FrameOK, Called
  <1>5. CASE f.call \notin Called
    <2>1. f \in JobFrames /\ JobOK(T, job, f)
      BY <1>5, ByCall DEF FrameOK
    <2>2. JobOK(U, job, f)
      BY <2>1, AreKept DEF JobOK
    <2> QED
      BY <1>5, <2>2 DEF FrameOK, Called, Owning
  <1> QED
    BY <1>2, <1>3, <1>4, <1>5 DEF Called

LEMMA StackKept ==
  ASSUME NEW T, NEW U, NEW r, Grows(T, U, r), NEW job, NEW st
  PROVE  /\ StackOK(T, job, st) /\ (\A i \in 1..Len(st) : Owning(st[i]) => Logs!OwnRef(st[i]) # r)
              => StackOK(U, job, st)
         /\ Below(T, job, st)
              /\ (\A i \in 1..Len(st) : i < Len(st) /\ Owning(st[i]) => Logs!OwnRef(st[i]) # r)
              => Below(U, job, st)
  <1>1. ASSUME st \in Seq(Frames) PROVE \A i \in 1..Len(st) : st[i] \in Frames
    BY <1>1
  <1> QED
    BY <1>1, FrameKept DEF StackOK, Below

LEMMA StringsKept == ASSUME NEW T, NEW U, NEW r, Grows(T, U, r), U.str = T.str PROVE StringsOK(U)
  <1> SUFFICES ASSUME NEW pool \in Logs!Pool, NEW t \in Text, U.str[pool][t] # 0
               PROVE  U.str[pool][t] <= Len(U.ids[pool]) /\ U.ids[pool][U.str[pool][t]] = t
    BY DEF StringsOK
  <1> DEFINE id == T.str[pool][t]
  <1>1. id \in Nat /\ id # 0 /\ T.ids[pool] \in Seq(Text \cup {None})
    BY DEF Grows, TablesOK, TableSet
  <1>2. id <= Len(T.ids[pool]) /\ T.ids[pool][id] = t
    BY <1>1 DEF Grows, TablesOK, StringsOK
  <1>3. ~(r.ns = pool /\ r.id = id)
    BY DEF Grows, Unpublished
  <1>4. id \in 1..Len(T.ids[pool])
    BY <1>1, <1>2
  <1> QED
    BY <1>2, <1>3, <1>4 DEF Grows

LEMMA FieldsKept == ASSUME NEW T, NEW U, NEW r, Grows(T, U, r), U.fld = T.fld PROVE FieldsOK(U)
  <1>1. ASSUME NEW p \in U.fld PROVE p.id <= Len(U.fids) /\ U.fids[p.id] = p.key
    <2>1. p.id \in Nat \ {0} /\ p.id <= Len(T.fids) /\ T.fids[p.id] = p.key /\ Len(T.fids) \in Nat
      BY <1>1 DEF Grows, TablesOK, TableSet, FieldsOK, Entries
    <2>2. ~(r.ns = "fields" /\ r.id = p.id)
      BY <1>1 DEF Grows, Unpublished
    <2>3. p.id \in 1..Len(T.fids)
      BY <2>1
    <2> QED
      BY <2>1, <2>2, <2>3 DEF Grows
  <1> QED
    BY <1>1 DEF Grows, TablesOK, FieldsOK

LEMMA ConsistsKept ==
  ASSUME NEW T, NEW U, NEW r, Grows(T, U, r), NEW s, NEW fields, NEW values,
         Consists(T, s, fields, values)
  PROVE  Consists(U, s, fields, values)
  <1>1. fields \in Seq(Refs) /\ Len(fields) = 1 /\ fields[1] \in Refs
    <2>1. fields \in Seq(Refs) /\ Len(fields) = 1
      BY DEF Consists
    <2> QED
      BY <2>1
  <1>2. PICK names \in Seq(Refs) : FieldsAre(T, fields[1], names) /\ AllAre(T, names, Names[s])
    BY DEF Consists
  <1>3. FieldsAre(U, fields[1], names) /\ AllAre(U, names, Names[s]) /\ AllAre(U, values, Values[s])
    BY <1>1, <1>2, IsKept, AreKept DEF Consists
  <1> QED
    BY <1>1, <1>3 DEF Consists

LEMMA StructKept ==
  ASSUME NEW T, NEW U, NEW r, Grows(T, U, r), NEW p \in T.st, Len(U.node) \in Nat
  PROVE  /\ p.id <= Len(U.node) /\ U.node[p.id] = T.node[p.id]
         /\ \E fields, values \in Seq(Refs) :
              /\ p.key = fields \o values /\ U.fst[p.id].fields = fields
              /\ Consists(U, U.node[p.id], fields, values)
         /\ AllAre(U, U.fst[p.id].cells, Values[U.node[p.id]])
  <1>1. p.id \in Nat \ {0} /\ p.id <= Len(T.node) /\ Len(T.node) \in Nat /\ Len(T.fst) = Len(T.node)
    BY DEF Grows, TablesOK, TableSet, StructsOK, Entries
  <1>2. p.id \in 1..Len(T.node) /\ p.id \in 1..Len(T.fst)
    BY <1>1
  <1>3. ~(r.ns = "struct" /\ r.id = p.id)
    BY DEF Grows, Unpublished
  <1>4. p.id <= Len(U.node) /\ U.node[p.id] = T.node[p.id] /\ U.fst[p.id] = T.fst[p.id]
    BY <1>2, <1>3 DEF Grows
  <1>5. PICK fields \in Seq(Refs), values \in Seq(Refs) :
          /\ p.key = fields \o values /\ T.fst[p.id].fields = fields
          /\ Consists(T, T.node[p.id], fields, values)
    BY DEF Grows, TablesOK, StructsOK
  <1>6. Consists(U, U.node[p.id], fields, values)
    BY <1>4, <1>5, ConsistsKept
  <1>7. AllAre(U, U.fst[p.id].cells, Values[U.node[p.id]])
    <2>1. AllAre(T, T.fst[p.id].cells, Values[T.node[p.id]])
      BY DEF Grows, TablesOK, StructsOK
    <2> QED
      BY <1>4, <2>1, AreKept
  <1> QED
    BY <1>4, <1>5, <1>6, <1>7

LEMMA StructsKept ==
  ASSUME NEW T, NEW U, NEW r, Grows(T, U, r), U.st = T.st, Len(U.node) = Len(U.fst)
  PROVE  StructsOK(U)
  <1>1. Len(U.node) \in Nat
    BY DEF Grows, TableSet
  <1>2. \A p, q \in U.st : (p.key = q.key => p = q) /\ (p.id = q.id => p = q)
    BY DEF Grows, TablesOK, StructsOK
  <1>3. \A p \in U.st :
          /\ p.id <= Len(U.node)
          /\ \E fields, values \in Seq(Refs) :
               /\ p.key = fields \o values /\ U.fst[p.id].fields = fields
               /\ Consists(U, U.node[p.id], fields, values)
          /\ AllAre(U, U.fst[p.id].cells, Values[U.node[p.id]])
    BY <1>1, StructKept
  <1> QED
    BY <1>2, <1>3 DEF StructsOK

\* A table with one more place has its old contents.
LEMMA OneMore ==
  ASSUME NEW S, NEW s \in Seq(S), NEW x \in S
  PROVE  /\ Append(s, x) \in Seq(S) /\ Len(Append(s, x)) = Len(s) + 1
         /\ Append(s, x)[Len(s) + 1] = x
         /\ \A i \in 1..Len(s) : i <= Len(Append(s, x)) /\ Append(s, x)[i] = s[i]
  OBVIOUS

LEMMA OneChanged ==
  ASSUME NEW S, NEW s \in Seq(S), NEW x \in S, NEW k \in 1..Len(s)
  PROVE  LET c == [s EXCEPT ![k] = x]
         IN  /\ c \in Seq(S) /\ Len(c) = Len(s) /\ c[k] = x
             /\ \A i \in 1..Len(s) : i <= Len(c) /\ (c[i] = s[i] \/ i = k)
  OBVIOUS

LEMMA TablesTypes ==
  ASSUME NEW T, T \in TableSet
  PROVE  /\ \A pool \in Logs!Pool : T.ids[pool] \in Seq(Text \cup {None}) /\
              Len(T.ids[pool]) \in Nat
         /\ \A pool \in Logs!Pool, t \in Text : T.str[pool][t] \in Nat
         /\ T.fids \in Seq(Seq(Refs)) /\ T.fst \in Seq(Bodies) /\ T.node \in Seq(Struct)
         /\ Len(T.fids) \in Nat /\ Len(T.fst) \in Nat /\ Len(T.node) \in Nat
         /\ \A p \in T.fld : p.key \in Seq(Refs) /\ p.id \in Nat \ {0}
         /\ \A p \in T.st : p.key \in Seq(Refs) /\ p.id \in Nat \ {0}
         /\ "client" \in Logs!Pool /\ "server" \in Logs!Pool /\ "fields" \notin Logs!Pool
         /\ "struct" \notin Logs!Pool
  BY DEF TableSet, Entries, Logs!Pool

\* The tables are the same but for those of one kind.
SameStrings(T, U) == U.str = T.str /\ U.ids = T.ids
SameFields(T, U) == U.fld = T.fld /\ U.fids = T.fids
SameStructs(T, U) == U.st = T.st /\ U.fst = T.fst /\ U.node = T.node

StringAdded(T, U, pool, t) ==
  /\ IsTables(U) /\ SameFields(T, U) /\ SameStructs(T, U) /\ U.str = T.str
  /\ U.ids = [T.ids EXCEPT ![pool] = Append(@, t)]

LEMMA NewStringTables ==
  ASSUME NEW T, TablesOK(T), NEW pool \in Logs!Pool, NEW t \in Text, NEW U,
         StringAdded(T, U, pool, t),
         NEW r, r = Logs!Ref(pool, Len(T.ids[pool]) + 1)
  PROVE  Grows(T, U, r) /\ TablesOK(U)
  <1> USE DEF StringAdded
  <1>1. T \in TableSet /\ T.ids \in [Logs!Pool -> Seq(Text \cup {None})]
    BY DEF TablesOK, TableSet
  <1>2. T.ids[pool] \in Seq(Text \cup {None}) /\ t \in Text \cup {None}
    BY <1>1
  <1>3. Append(T.ids[pool], t) \in Seq(Text \cup {None})
    BY <1>2
  <1>4. U \in TableSet
    <2>1. U.ids \in [Logs!Pool -> Seq(Text \cup {None})]
      BY <1>1, <1>3
    <2> QED
      BY <1>1, <2>1 DEF TableSet, IsTables, SameFields, SameStructs
  <1>5. r \in Refs /\ r.ns = pool /\ r.id = Len(T.ids[pool]) + 1
    BY <1>1, TablesTypes DEF Refs, Logs!Ref, Logs!Pool
  <1>6. Unpublished(T, r)
    <2>1. \A t1 \in Text : T.str[pool][t1] # r.id
      <3> TAKE t1 \in Text
      <3>1. T.str[pool][t1] \in Nat /\ Len(T.ids[pool]) \in Nat
        BY <1>1, TablesTypes
      <3>2. T.str[pool][t1] # 0 => T.str[pool][t1] <= Len(T.ids[pool])
        BY DEF TablesOK, StringsOK
      <3> QED
        BY <1>5, <3>1, <3>2
    <2> QED
      BY <1>5, <2>1 DEF Unpublished, Logs!Pool
  <1>7. \A q \in Logs!Pool : \A i \in 1..Len(T.ids[q]) : i <= Len(U.ids[q]) /\
          U.ids[q][i] = T.ids[q][i]
    <2> TAKE q \in Logs!Pool
    <2>1. CASE q = pool
      <3>1. U.ids[q] = Append(T.ids[q], t)
        BY <1>1, <2>1
      <3> QED
        BY <1>2, <2>1, <3>1, OneMore
    <2>2. CASE q # pool
      <3>1. U.ids[q] = T.ids[q] /\ Len(T.ids[q]) \in Nat
        BY <1>1, <2>2, TablesTypes
      <3> QED
        BY <3>1
    <2> QED
      BY <2>1, <2>2
  <1>8. Grows(T, U, r)
    BY <1>1, <1>4, <1>5, <1>6, <1>7, TablesTypes DEF Grows, SameFields, SameStructs
  <1> QED
    BY <1>4, <1>8, StringsKept, FieldsKept, StructsKept
    DEF TablesOK, StructsOK, SameFields, SameStructs

StringGivenUp(T, U, f) ==
  /\ IsTables(U) /\ SameFields(T, U) /\ SameStructs(T, U) /\ U.str = T.str
  /\ U.ids = [T.ids EXCEPT ![f.pool][f.id] = None]

LEMMA GiveUpStringTables ==
  ASSUME NEW T, TablesOK(T), NEW job, NEW f \in Strings, FrameOK(T, job, f), f.at = "publish",
         NEW U, StringGivenUp(T, U, f)
  PROVE  Grows(T, U, Logs!OwnRef(f)) /\ TablesOK(U)
  <1> USE DEF StringGivenUp
  <1> DEFINE r == Logs!OwnRef(f)
  <1>1. T \in TableSet /\ T.ids \in [Logs!Pool -> Seq(Text \cup {None})]
    BY DEF TablesOK, TableSet
  <1>2. f.call = "string" /\ f.pool \in Logs!Pool /\ f.text \in Text /\ Owning(f)
    BY DEF Strings, Owning, Called, OwningAt
  <1>3. f.id \in 1..Len(T.ids[f.pool]) /\ Unpublished(T, r)
    BY <1>2 DEF FrameOK, StringOK
  <1>4. r \in Refs /\ r.ns = f.pool /\ r.id = f.id
    BY <1>1, <1>2, <1>3, TablesTypes DEF Refs, Logs!Ref, Logs!Pool, Logs!OwnRef
  <1> HIDE DEF r
  <1> DEFINE ids == T.ids[f.pool]
             less == [ids EXCEPT ![f.id] = None]
  <1>5. ids \in Seq(Text \cup {None}) /\ None \in Text \cup {None}
    BY <1>1, <1>2
  <1>6. U.ids = [T.ids EXCEPT ![f.pool] = less]
    BY <1>1, <1>2
  <1>7. /\ less \in Seq(Text \cup {None}) /\ Len(less) = Len(ids)
        /\ \A i \in 1..Len(ids) : i <= Len(less) /\ (less[i] = ids[i] \/ i = f.id)
    <2> HIDE DEF ids
    <2> QED
      BY <1>3, <1>5, OneChanged DEF ids
  <1> HIDE DEF less
  <1>8. U \in TableSet
    <2>1. U.ids \in [Logs!Pool -> Seq(Text \cup {None})]
      BY <1>1, <1>6, <1>7
    <2> QED
      BY <1>1, <2>1 DEF TableSet, IsTables, SameFields, SameStructs
  <1>9. ASSUME NEW q \in Logs!Pool, NEW i \in 1..Len(T.ids[q])
        PROVE  i <= Len(U.ids[q]) /\ (U.ids[q][i] = T.ids[q][i] \/ (r.ns = q /\ r.id = i))
    <2>1. CASE q = f.pool
      <3>1. U.ids[q] = less /\ ids = T.ids[q]
        BY <1>1, <1>6, <2>1
      <3> QED
        BY <1>4, <1>7, <2>1, <3>1
    <2>2. CASE q # f.pool
      <3>1. U.ids[q] = T.ids[q] /\ Len(T.ids[q]) \in Nat
        BY <1>1, <1>6, <2>2, TablesTypes
      <3> QED
        BY <3>1
    <2> QED
      BY <2>1, <2>2
  <1>10. Grows(T, U, r)
    BY <1>1, <1>3, <1>4, <1>8, <1>9, TablesTypes DEF Grows, SameFields, SameStructs
  <1> QED
    BY <1>8, <1>10, StringsKept, FieldsKept, StructsKept
    DEF TablesOK, StructsOK, SameFields, SameStructs, r

\* The number of f is published.
StringPublished(T, U, f) ==
  /\ IsTables(U) /\ SameFields(T, U) /\ SameStructs(T, U) /\ U.ids = T.ids
  /\ U.str = [T.str EXCEPT ![f.pool][f.text] = f.id]

LEMMA PublishStringTables ==
  ASSUME NEW T, TablesOK(T), NEW job, NEW f \in Strings, FrameOK(T, job, f), f.at = "publish",
         T.str[f.pool][f.text] = 0,
         NEW U, StringPublished(T, U, f)
  PROVE  Grows(T, U, Logs!OwnRef(f)) /\ TablesOK(U) /\ f.id # 0 /\ U.str[f.pool][f.text] = f.id
  <1> USE DEF StringPublished
  <1> DEFINE r == Logs!OwnRef(f)
  <1>1. /\ T \in TableSet /\ T.str \in [Logs!Pool -> [Text -> Nat]]
        /\ T.ids \in [Logs!Pool -> Seq(Text \cup {None})]
    BY DEF TablesOK, TableSet
  <1>2. f.call = "string" /\ f.pool \in Logs!Pool /\ f.text \in Text /\ Owning(f) /\ f.id \in Nat
    BY DEF Strings, Owning, Called, OwningAt
  <1>3. f.id \in 1..Len(T.ids[f.pool]) /\ T.ids[f.pool][f.id] = f.text /\ Unpublished(T, r)
    BY <1>2 DEF FrameOK, StringOK
  <1>4. r \in Refs /\ r.ns = f.pool /\ r.id = f.id
    BY <1>1, <1>2, <1>3, TablesTypes DEF Refs, Logs!Ref, Logs!Pool, Logs!OwnRef
  <1> HIDE DEF r
  <1>5. U.str \in [Logs!Pool -> [Text -> Nat]]
    BY <1>1, <1>2
  <1>6. U \in TableSet
    BY <1>1, <1>5 DEF TableSet, IsTables, SameFields, SameStructs
  <1>7. \A q \in Logs!Pool, t \in Text :
          \/ U.str[q][t] = T.str[q][t] /\ ~(q = f.pool /\ t = f.text)
          \/ T.str[q][t] = 0 /\ q = f.pool /\ t = f.text /\ U.str[q][t] = f.id
    BY <1>1, <1>2
  <1>8. Grows(T, U, r)
    BY <1>1, <1>3, <1>4, <1>6, <1>7, TablesTypes DEF Grows, SameFields, SameStructs
  <1>9. StringsOK(U)
    BY <1>1, <1>3, <1>7, TablesTypes DEF TablesOK, StringsOK
  <1>10. f.id # 0 /\ U.str[f.pool][f.text] = f.id
    BY <1>2, <1>3, <1>7
  <1> QED
    BY <1>6, <1>8, <1>9, <1>10, FieldsKept, StructsKept
    DEF TablesOK, StructsOK, SameFields, SameStructs, r

FieldsAdded(T, U, names) ==
  /\ IsTables(U) /\ SameStrings(T, U) /\ SameStructs(T, U) /\ U.fld = T.fld
  /\ U.fids = Append(T.fids, names)

LEMMA NewFieldsTables ==
  ASSUME NEW T, TablesOK(T), NEW names \in Seq(Refs), NEW U, FieldsAdded(T, U, names),
         NEW r, r = Logs!Ref("fields", Len(T.fids) + 1)
  PROVE  Grows(T, U, r) /\ TablesOK(U)
  <1> USE DEF FieldsAdded
  <1>1. T \in TableSet /\ T.fids \in Seq(Seq(Refs)) /\ Len(T.fids) \in Nat
    BY TablesTypes DEF TablesOK
  <1>2. U.fids \in Seq(Seq(Refs)) /\ \A i \in 1..Len(T.fids) : i <= Len(U.fids) /\
          U.fids[i] = T.fids[i]
    BY <1>1, OneMore
  <1>3. U \in TableSet
    BY <1>1, <1>2 DEF TableSet, IsTables, SameStrings, SameStructs
  <1>4. r \in Refs /\ r.ns = "fields" /\ r.id = Len(T.fids) + 1
    BY <1>1 DEF Refs, Logs!Ref
  <1>5. Unpublished(T, r)
    BY <1>1, <1>4, TablesTypes DEF Unpublished, TablesOK, FieldsOK
  <1>6. Grows(T, U, r)
    BY <1>1, <1>2, <1>3, <1>4, <1>5, TablesTypes DEF Grows, SameStrings, SameStructs
  <1> QED
    BY <1>3, <1>6, StringsKept, FieldsKept, StructsKept
    DEF TablesOK, StructsOK, SameStrings, SameStructs

FieldsGivenUp(T, U, f) ==
  /\ IsTables(U) /\ SameStrings(T, U) /\ SameStructs(T, U) /\ U.fld = T.fld
  /\ U.fids = [T.fids EXCEPT ![f.id] = <<>>]

LEMMA GiveUpFieldsTables ==
  ASSUME NEW T, TablesOK(T), NEW job, NEW f \in FieldSets, FrameOK(T, job, f), f.at = "publish",
         NEW U, FieldsGivenUp(T, U, f)
  PROVE  Grows(T, U, Logs!OwnRef(f)) /\ TablesOK(U)
  <1> USE DEF FieldsGivenUp
  <1> DEFINE r == Logs!OwnRef(f)
  <1>1. T \in TableSet /\ T.fids \in Seq(Seq(Refs)) /\ Len(T.fids) \in Nat
    BY TablesTypes DEF TablesOK
  <1>2. f.call = "fields" /\ Owning(f)
    BY DEF FieldSets, Owning, Called, OwningAt
  <1>3. f.id \in 1..Len(T.fids) /\ Unpublished(T, r)
    BY <1>2 DEF FrameOK, FieldSetOK
  <1>4. r \in Refs /\ r.ns = "fields" /\ r.id = f.id
    BY <1>1, <1>2, <1>3 DEF Refs, Logs!Ref, Logs!OwnRef
  <1> HIDE DEF r
  <1>5. <<>> \in Seq(Refs)
    OBVIOUS
  <1>6. /\ U.fids \in Seq(Seq(Refs))
        /\ \A i \in 1..Len(T.fids) : i <= Len(U.fids) /\ (U.fids[i] = T.fids[i] \/ i = f.id)
    BY <1>1, <1>3, <1>5, OneChanged
  <1>7. U \in TableSet
    BY <1>1, <1>6 DEF TableSet, IsTables, SameStrings, SameStructs
  <1>8. Grows(T, U, r)
    BY <1>1, <1>3, <1>4, <1>6, <1>7, TablesTypes DEF Grows, SameStrings, SameStructs
  <1> QED
    BY <1>7, <1>8, StringsKept, FieldsKept, StructsKept
    DEF TablesOK, StructsOK, SameStrings, SameStructs, r

LEMMA LookupGives ==
  ASSUME NEW table \in SUBSET Entries, NEW key
  PROVE  /\ Logs!Lookup(table, key) # 0
              => \E p \in table : p.key = key /\ p.id = Logs!Lookup(table, key)
         /\ Logs!Lookup(table, key) = 0 => \A p \in table : p.key # key
  BY DEF Logs!Lookup, Entries

FieldsPublished(T, U, f) ==
  /\ IsTables(U) /\ SameStrings(T, U) /\ SameStructs(T, U) /\ U.fids = T.fids
  /\ U.fld = T.fld \cup {[key |-> f.names, id |-> f.id]}

LEMMA PublishFieldsTables ==
  ASSUME NEW T, TablesOK(T), NEW job, NEW f \in FieldSets, FrameOK(T, job, f), f.at = "publish",
         \A p \in T.fld : p.key # f.names,
         NEW U, FieldsPublished(T, U, f)
  PROVE  Grows(T, U, Logs!OwnRef(f)) /\ TablesOK(U) /\ f.id # 0
  <1> USE DEF FieldsPublished
  <1> DEFINE r == Logs!OwnRef(f)
             e == [key |-> f.names, id |-> f.id]
  <1>1. /\ T \in TableSet /\ T.fids \in Seq(Seq(Refs)) /\ Len(T.fids) \in Nat
        /\ T.fld \in SUBSET Entries
    BY TablesTypes DEF TablesOK, TableSet
  <1>2. f.call = "fields" /\ Owning(f) /\ f.names \in Seq(Refs)
    BY DEF FieldSets, Owning, Called, OwningAt
  <1>3. f.id \in 1..Len(T.fids) /\ T.fids[f.id] = f.names /\ Unpublished(T, r)
    BY <1>2 DEF FrameOK, FieldSetOK
  <1>4. r \in Refs /\ r.ns = "fields" /\ r.id = f.id /\ f.id \in Nat \ {0}
    BY <1>1, <1>2, <1>3 DEF Refs, Logs!Ref, Logs!OwnRef
  <1> HIDE DEF r
  <1>5. e \in Entries /\ e.key = f.names /\ e.id = f.id
    BY <1>2, <1>4 DEF Entries
  <1> HIDE DEF e
  <1>6. U.fld = T.fld \cup {e}
    BY DEF e
  <1>7. U \in TableSet
    BY <1>1, <1>5, <1>6 DEF TableSet, IsTables, SameStrings, SameStructs
  <1>8. Grows(T, U, r)
    BY <1>1, <1>3, <1>4, <1>5, <1>6, <1>7, TablesTypes DEF Grows, SameStrings, SameStructs
  <1>9. FieldsOK(U)
    <2>1. \A p \in U.fld : p.id <= Len(U.fids) /\ U.fids[p.id] = p.key
      BY <1>1, <1>3, <1>5, <1>6 DEF TablesOK, FieldsOK
    <2>2. \A p, q \in U.fld : p.key = q.key => p = q
      BY <1>5, <1>6 DEF TablesOK, FieldsOK
    <2> QED
      BY <2>1, <2>2 DEF FieldsOK
  <1> QED
    BY <1>4, <1>7, <1>8, <1>9, StringsKept, StructsKept
    DEF TablesOK, StructsOK, SameStrings, SameStructs, r

StructAdded(T, U, s) ==
  /\ IsTables(U) /\ SameStrings(T, U) /\ SameFields(T, U) /\ U.st = T.st
  /\ U.fst = Append(T.fst, Logs!Empty) /\ U.node = Append(T.node, s)

LEMMA NewStructTables ==
  ASSUME NEW T, TablesOK(T), NEW s \in Struct, NEW U, StructAdded(T, U, s),
         NEW r, r = Logs!Ref("struct", Len(T.fst) + 1)
  PROVE  /\ Grows(T, U, r) /\ TablesOK(U)
         /\ Len(T.fst) + 1 \in 1..Len(U.node) /\ U.node[Len(T.fst) + 1] = s
  <1> USE DEF StructAdded
  <1>1. T \in TableSet /\ T.fst \in Seq(Bodies) /\ Len(T.fst) \in Nat
        /\ T.node \in Seq(Struct) /\ Len(T.node) = Len(T.fst)
    BY TablesTypes DEF TablesOK, StructsOK
  <1>2. Logs!Empty \in Bodies
    BY DEF Logs!Empty, Bodies
  <1>3. /\ U.fst \in Seq(Bodies) /\ Len(U.fst) = Len(T.fst) + 1
        /\ \A i \in 1..Len(T.fst) : i <= Len(U.fst) /\ U.fst[i] = T.fst[i]
    BY <1>1, <1>2, OneMore
  <1>4. /\ U.node \in Seq(Struct) /\ Len(U.node) = Len(T.node) + 1 /\ U.node[Len(T.node) + 1] = s
        /\ \A i \in 1..Len(T.node) : i <= Len(U.node) /\ U.node[i] = T.node[i]
    BY <1>1, OneMore
  <1>5. U \in TableSet
    BY <1>1, <1>3, <1>4 DEF TableSet, IsTables, SameStrings, SameFields
  <1>6. r \in Refs /\ r.ns = "struct" /\ r.id = Len(T.fst) + 1
    BY <1>1 DEF Refs, Logs!Ref
  <1>7. Unpublished(T, r)
    BY <1>1, <1>6, TablesTypes DEF Unpublished, TablesOK, StructsOK
  <1>8. Grows(T, U, r)
    BY <1>1, <1>3, <1>4, <1>5, <1>6, <1>7, TablesTypes DEF Grows, SameStrings, SameFields
  <1>9. StructsOK(U)
    BY <1>1, <1>3, <1>4, <1>8, StructsKept
  <1> QED
    BY <1>1, <1>4, <1>5, <1>8, <1>9, StringsKept, FieldsKept DEF TablesOK, SameStrings, SameFields

BodyStored(T, U, f) ==
  /\ IsTables(U) /\ SameStrings(T, U) /\ SameFields(T, U) /\ U.st = T.st /\ U.node = T.node
  /\ U.fst = [T.fst EXCEPT ![f.id] = [fields |-> f.fields, cells |-> f.cells]]

LEMMA StoreStructTables ==
  ASSUME NEW T, TablesOK(T), NEW job, NEW f \in Structs, FrameOK(T, job, f), f.at = "unlock",
         NEW U, BodyStored(T, U, f)
  PROVE  /\ Grows(T, U, Logs!OwnRef(f)) /\ TablesOK(U)
         /\ U.fst[f.id] = [fields |-> f.fields, cells |-> f.cells]
  <1> USE DEF BodyStored
  <1> DEFINE r == Logs!OwnRef(f)
             body == [fields |-> f.fields, cells |-> f.cells]
  <1>1. T \in TableSet /\ T.fst \in Seq(Bodies) /\ Len(T.fst) \in Nat
        /\ T.node \in Seq(Struct) /\ Len(T.node) = Len(T.fst)
    BY TablesTypes DEF TablesOK, StructsOK
  <1>2. f.call = "struct" /\ Owning(f) /\ f.fields \in Seq(Refs) /\ f.cells \in Seq(Refs)
    BY DEF Structs, Owning, Called, OwningAt
  <1>3. f.id \in 1..Len(T.fst) /\ Unpublished(T, r)
    BY <1>1, <1>2 DEF FrameOK, StructOK, OwningAt
  <1>4. r \in Refs /\ r.ns = "struct" /\ r.id = f.id
    BY <1>1, <1>2, <1>3 DEF Refs, Logs!Ref, Logs!OwnRef
  <1>5. body \in Bodies
    BY <1>2 DEF Bodies
  <1> HIDE DEF r, body
  <1>6. U.fst = [T.fst EXCEPT ![f.id] = body]
    BY DEF body
  <1>7. /\ U.fst \in Seq(Bodies) /\ Len(U.fst) = Len(T.fst) /\ U.fst[f.id] = body
        /\ \A i \in 1..Len(T.fst) : i <= Len(U.fst) /\ (U.fst[i] = T.fst[i] \/ i = f.id)
    BY <1>1, <1>3, <1>5, <1>6, OneChanged
  <1>8. U \in TableSet
    BY <1>1, <1>7 DEF TableSet, IsTables, SameStrings, SameFields
  <1>9. Grows(T, U, r)
    BY <1>1, <1>3, <1>4, <1>7, <1>8, TablesTypes DEF Grows, SameStrings, SameFields
  <1>10. StructsOK(U)
    BY <1>1, <1>7, <1>9, StructsKept
  <1> QED
    BY <1>7, <1>8, <1>9, <1>10, StringsKept, FieldsKept
    DEF TablesOK, SameStrings, SameFields, r, body

\* What a struct frame knows when it has all of its references.
LEMMA FrameConsists ==
  ASSUME NEW T, NEW f \in Structs, StructOK(T, f),
         f.at \notin {"names", "fields", "values"}
  PROVE  Consists(T, f.node, f.fields, f.values)
  <1>1. f.fields \in Seq(Refs) /\ f.names \in Seq(Refs) /\ f.values \in Seq(Refs)
    BY DEF Structs
  <1>2. Len(f.fields) = 1 /\ f.fields # <<>>
    <2>1. Len(f.fields) = 1
      BY DEF StructOK
    <2> QED
      BY <2>1
  <1>3. FieldsAre(T, f.fields[1], f.names) /\ AllAre(T, f.names, Names[f.node])
    BY <1>2 DEF StructOK, AllAre
  <1>4. AllAre(T, f.values, Values[f.node])
    BY DEF StructOK, AllAre
  <1> QED
    BY <1>1, <1>2, <1>3, <1>4 DEF Consists

StructPublished(T, U, f) ==
  /\ IsTables(U) /\ SameStrings(T, U) /\ SameFields(T, U) /\ U.fst = T.fst /\ U.node = T.node
  /\ U.st = T.st \cup {[key |-> Logs!StructKey(f), id |-> f.id]}

LEMMA PublishStructTables ==
  ASSUME NEW T, TablesOK(T), NEW job, NEW f \in Structs, FrameOK(T, job, f), f.at = "publish",
         \A p \in T.st : p.key # Logs!StructKey(f),
         NEW U, StructPublished(T, U, f)
  PROVE  Grows(T, U, Logs!OwnRef(f)) /\ TablesOK(U)
  <1> USE DEF StructPublished
  <1> DEFINE r == Logs!OwnRef(f)
             e == [key |-> Logs!StructKey(f), id |-> f.id]
  <1>1. /\ T \in TableSet /\ T.fst \in Seq(Bodies) /\ Len(T.fst) \in Nat
        /\ T.node \in Seq(Struct) /\ Len(T.node) = Len(T.fst) /\ T.st \in SUBSET Entries
    BY TablesTypes DEF TablesOK, StructsOK, TableSet
  <1>2. /\ f.call = "struct" /\ Owning(f) /\ f.fields \in Seq(Refs) /\ f.cells \in Seq(Refs)
        /\ f.values \in Seq(Refs) /\ f.node \in Struct /\ f.id \in Nat
    BY DEF Structs, Owning, Called, OwningAt
  <1>3. StructOK(T, f) /\ Unpublished(T, r)
    BY <1>2 DEF FrameOK
  <1>4. /\ f.id \in 1..Len(T.fst) /\ T.node[f.id] = f.node
        /\ T.fst[f.id] = [fields |-> f.fields, cells |-> f.cells]
        /\ Are(T, f.cells, Values[f.node]) /\ Len(f.cells) = Len(Values[f.node])
    BY <1>1, <1>3 DEF StructOK, OwningAt
  <1>5. r \in Refs /\ r.ns = "struct" /\ r.id = f.id /\ f.id \in Nat \ {0}
    BY <1>1, <1>2, <1>4 DEF Refs, Logs!Ref, Logs!OwnRef
  <1>6. e \in Entries /\ e.key = Logs!StructKey(f) /\ e.id = f.id
    <2>1. f.fields \o f.values \in Seq(Refs)
      BY <1>2
    <2> QED
      BY <1>5, <2>1 DEF Entries, Logs!StructKey
  <1> HIDE DEF r, e
  <1>7. U.st = T.st \cup {e}
    BY DEF e
  <1>8. U \in TableSet
    BY <1>1, <1>6, <1>7 DEF TableSet, IsTables, SameStrings, SameFields
  <1>9. Grows(T, U, r)
    BY <1>1, <1>3, <1>5, <1>6, <1>7, <1>8, TablesTypes DEF Grows, SameStrings, SameFields
  <1>10. StructsOK(U)
    <2>1. /\ e.id <= Len(U.node)
          /\ \E fields, values \in Seq(Refs) :
               /\ e.key = fields \o values /\ U.fst[e.id].fields = fields
               /\ Consists(U, U.node[e.id], fields, values)
          /\ AllAre(U, U.fst[e.id].cells, Values[U.node[e.id]])
      <3>1. Consists(U, f.node, f.fields, f.values)
        BY <1>3, <1>9, FrameConsists, ConsistsKept
      <3>2. U.node[e.id] = f.node /\ U.fst[e.id].fields = f.fields /\ U.fst[e.id].cells = f.cells
            /\ e.id <= Len(U.node)
        BY <1>1, <1>4, <1>6
      <3>3. AllAre(U, f.cells, Values[f.node])
        BY <1>4, <1>9, AreKept DEF AllAre
      <3>4. e.key = f.fields \o f.values
        BY <1>6 DEF Logs!StructKey
      <3> QED
        BY <1>2, <3>1, <3>2, <3>3, <3>4
    <2>2. \A p \in U.st :
          /\ p.id <= Len(U.node)
          /\ \E fields, values \in Seq(Refs) :
               /\ p.key = fields \o values /\ U.fst[p.id].fields = fields
               /\ Consists(U, U.node[p.id], fields, values)
          /\ AllAre(U, U.fst[p.id].cells, Values[U.node[p.id]])
      <3>1. Len(U.node) \in Nat
        BY <1>1
      <3>2. \A p \in T.st :
            /\ p.id <= Len(U.node)
            /\ \E fields, values \in Seq(Refs) :
                 /\ p.key = fields \o values /\ U.fst[p.id].fields = fields
                 /\ Consists(U, U.node[p.id], fields, values)
            /\ AllAre(U, U.fst[p.id].cells, Values[U.node[p.id]])
        BY <1>9, <3>1, StructKept
      <3> QED
        BY <1>7, <2>1, <3>2
    <2>3. \A p \in T.st : p.key # e.key /\ p.id # e.id
      BY <1>3, <1>5, <1>6 DEF Unpublished
    <2>4. \A p, q \in U.st : (p.key = q.key => p = q) /\ (p.id = q.id => p = q)
      BY <1>7, <2>3 DEF TablesOK, StructsOK
    <2>5. Len(U.node) = Len(U.fst)
      BY <1>1
    <2> QED
      BY <2>2, <2>4, <2>5 DEF StructsOK
  <1> QED
    BY <1>8, <1>9, <1>10, StringsKept, FieldsKept DEF TablesOK, SameStrings, SameFields, r

-----------------------------------------------------------------------------
(* What is found is what was asked for.                                    *)

LEMMA Denotation ==
  ASSUME NEW T, TablesOK(T), NEW x \in Refs
  PROVE  /\ \A s, t \in Text : StringIs(T, x, s) /\ StringIs(T, x, t) => s = t
         /\ \A m, n : FieldsAre(T, x, m) /\ FieldsAre(T, x, n) => m = n
         /\ \A v, u \in Text \cup Struct : Is(T, x, v) /\ Is(T, x, u) => v = u
  <1>1. x.id # 0
    BY DEF Refs
  <1>2. \A s, t \in Text : StringIs(T, x, s) /\ StringIs(T, x, t) => s = t
    BY <1>1 DEF StringIs, TablesOK, StringsOK
  <1>3. ASSUME NEW m, NEW n, FieldsAre(T, x, m), FieldsAre(T, x, n) PROVE m = n
    <2>1. /\ [key |-> m, id |-> x.id] \in T.fld /\ [key |-> m, id |-> x.id].key = m
          /\ [key |-> n, id |-> x.id] \in T.fld /\ [key |-> n, id |-> x.id].key = n
          /\ [key |-> m, id |-> x.id].id = x.id /\ [key |-> n, id |-> x.id].id = x.id
      BY <1>3 DEF FieldsAre
    <2>2. T.fids[x.id] = m /\ T.fids[x.id] = n
      BY <2>1 DEF TablesOK, FieldsOK
    <2> QED
      BY <2>2
  <1>4. \A s, t : StructIs(T, x, s) /\ StructIs(T, x, t) => s = t
    BY DEF StructIs
  <1>5. \A s, t : ~(StringIs(T, x, s) /\ StructIs(T, x, t))
    BY DEF StringIs, StructIs, Logs!Pool
  <1>6. \A v \in Text \cup Struct : v \notin Text => v \in Struct
    OBVIOUS
  <1> QED
    BY <1>2, <1>3, <1>4, <1>5, <1>6 DEF Is

LEMMA Denotations ==
  ASSUME NEW T, TablesOK(T), NEW refs, NEW a \in Seq(Text \cup Struct),
         NEW b \in Seq(Text \cup Struct),
         AllAre(T, refs, a), AllAre(T, refs, b)
  PROVE  a = b
  <1>1. refs \in Seq(Refs) /\ Len(refs) = Len(a) /\ Len(refs) = Len(b)
    BY DEF AllAre, Are
  <1>2. \A k \in 1..Len(refs) : refs[k] \in Refs /\ a[k] \in Text \cup Struct /\
          b[k] \in Text \cup Struct
    <2> TAKE k \in 1..Len(refs)
    <2>1. k \in 1..Len(a) /\ k \in 1..Len(b)
      BY <1>1
    <2>2. refs[k] \in Refs
      BY <1>1
    <2>3. a[k] \in Text \cup Struct
      BY <2>1
    <2>4. b[k] \in Text \cup Struct
      BY <2>1
    <2> QED
      BY <2>2, <2>3, <2>4
  <1>3. \A k \in 1..Len(refs) : Is(T, refs[k], a[k]) /\ Is(T, refs[k], b[k])
    BY DEF AllAre, Are
  <1>4. \A k \in 1..Len(refs) : a[k] = b[k]
    BY <1>2, <1>3, Denotation
  <1> QED
    BY <1>1, <1>4, SeqEqual

LEMMA JoinedAlike ==
  ASSUME NEW a \in Seq(Refs), NEW b \in Seq(Refs), NEW c \in Seq(Refs), NEW d \in Seq(Refs),
         Len(a) = Len(c), a \o b = c \o d
  PROVE  a = c /\ b = d
  <1> DEFINE s == a \o b
             t == c \o d
  <1>1. /\ Len(s) = Len(a) + Len(b) /\ \A i \in 1..Len(a) : s[i] = a[i]
        /\ \A i \in 1..(Len(a) + Len(b)) : i > Len(a) => s[i] = b[i - Len(a)]
    BY Joined
  <1>2. /\ Len(t) = Len(c) + Len(d) /\ \A i \in 1..Len(c) : t[i] = c[i]
        /\ \A i \in 1..(Len(c) + Len(d)) : i > Len(c) => t[i] = d[i - Len(c)]
    BY Joined
  <1>3. s = t
    OBVIOUS
  <1> HIDE DEF s, t
  <1>4. Len(b) = Len(d) /\ Len(a) \in Nat /\ Len(b) \in Nat
    BY <1>1, <1>2, <1>3
  <1>5. \A i \in 1..Len(a) : a[i] = c[i]
    BY <1>1, <1>2, <1>3
  <1>6. \A i \in 1..Len(b) : b[i] = d[i]
    <2> TAKE i \in 1..Len(b)
    <2> DEFINE k == Len(a) + i
    <2>1. k \in 1..(Len(a) + Len(b)) /\ k > Len(a) /\ k - Len(a) = i
      BY <1>4
    <2> HIDE DEF k
    <2>2. s[k] = b[i]
      BY <1>1, <2>1
    <2>3. t[k] = d[i]
      BY <1>2, <1>4, <2>1
    <2> QED
      BY <1>3, <2>2, <2>3
  <1> QED
    BY <1>4, <1>5, <1>6, SeqEqual

LEMMA HeadOfJoined ==
  ASSUME NEW a \in Seq(Refs), NEW b \in Seq(Refs), Len(a) = 1
  PROVE  a = <<Head(a \o b)>>
  <1> DEFINE j == a \o b
  <1>1. j \in Seq(Refs) /\ Len(j) = Len(a) + Len(b) /\ \A i \in 1..Len(a) : j[i] = a[i]
    BY Joined
  <1> HIDE DEF j
  <1>2. Len(b) \in Nat
    OBVIOUS
  <1>3. Len(j) # 0 /\ j[1] = a[1]
    BY <1>1, <1>2
  <1>4. Head(j) = j[1]
    BY <1>1, <1>3
  <1> QED
    BY <1>3, <1>4 DEF j

LEMMA FoundStruct ==
  ASSUME NEW T, TablesOK(T), NEW f \in Structs, StructOK(T, f),
         f.at \notin {"names", "fields", "values"}, NEW p \in T.st, p.key = Logs!StructKey(f)
  PROVE  T.node[p.id] = f.node /\ f.fields = <<Head(p.key)>>
  <1>1. f.fields \in Seq(Refs) /\ f.values \in Seq(Refs) /\ f.node \in Struct
    BY DEF Structs
  <1>2. PICK fields \in Seq(Refs), values \in Seq(Refs) :
          p.key = fields \o values /\ Consists(T, T.node[p.id], fields, values)
    BY DEF TablesOK, StructsOK
  <1>3. Consists(T, f.node, f.fields, f.values)
    BY FrameConsists
  <1>4. Len(fields) = 1 /\ Len(f.fields) = 1
    BY <1>2, <1>3 DEF Consists
  <1>5. fields = f.fields /\ values = f.values
    BY <1>1, <1>2, <1>4, JoinedAlike DEF Logs!StructKey
  <1>6. T.node[p.id] \in Struct
    <2>1. p.id \in Nat \ {0} /\ p.id <= Len(T.node) /\ T.node \in Seq(Struct)
      BY TablesTypes DEF TablesOK, StructsOK
    <2> QED
      BY <2>1
  <1> DEFINE s == T.node[p.id]
  <1> HIDE DEF s
  <1>7. Consists(T, s, f.fields, f.values) /\ s \in Struct
    BY <1>2, <1>5, <1>6 DEF s
  <1>8. f.fields[1] \in Refs
    BY <1>1, <1>4
  <1>9. PICK m \in Seq(Refs) : FieldsAre(T, f.fields[1], m) /\ AllAre(T, m, Names[s])
    BY <1>7 DEF Consists
  <1>10. PICK n \in Seq(Refs) : FieldsAre(T, f.fields[1], n) /\ AllAre(T, n, Names[f.node])
    BY <1>3 DEF Consists
  <1>11. m = n
    BY <1>8, <1>9, <1>10, Denotation
  <1>12. Names[s] \in Seq(Text \cup Struct) /\ Names[f.node] \in Seq(Text \cup Struct)
    BY <1>1, <1>7, NodeTypes, SeqMonotonic
  <1>13. Names[s] = Names[f.node]
    BY <1>9, <1>10, <1>11, <1>12, Denotations
  <1>14. AllAre(T, f.values, Values[s]) /\ AllAre(T, f.values, Values[f.node])
    BY <1>3, <1>7 DEF Consists
  <1>15. Values[s] = Values[f.node]
    BY <1>1, <1>7, <1>14, NodeTypes, Denotations
  <1>16. s = f.node
    BY <1>1, <1>7, <1>13, <1>15, IngestionAssumption
  <1>17. f.fields = <<Head(p.key)>>
    BY <1>1, <1>2, <1>4, <1>5, HeadOfJoined
  <1> QED
    BY <1>16, <1>17 DEF s

LEMMA Found ==
  ASSUME NEW T, TablesOK(T)
  PROVE  /\ \A f \in Strings, pool \in Logs!Pool : T.str[pool][f.text] # 0 =>
              Answers(T, Logs!Ref(pool, T.str[pool][f.text]), f)
         /\ \A f \in FieldSets : Logs!Lookup(T.fld, f.names) # 0 =>
              Answers(T, Logs!Ref("fields", Logs!Lookup(T.fld, f.names)), f)
         /\ \A f \in Structs : StructOK(T, f) /\ f.at \notin {"names", "fields", "values"}
              /\ Logs!Lookup(T.st, Logs!StructKey(f)) # 0 =>
              Answers(T, Logs!Ref("struct", Logs!Lookup(T.st, Logs!StructKey(f))), f)
  <1>1. T \in TableSet /\ T.fld \in SUBSET Entries /\ T.st \in SUBSET Entries
    BY DEF TablesOK, TableSet
  <1>2. ASSUME NEW f \in Strings, NEW pool \in Logs!Pool, T.str[pool][f.text] # 0
        PROVE  Answers(T, Logs!Ref(pool, T.str[pool][f.text]), f)
    <2>1. f.call = "string" /\ f.text \in Text /\ T.str[pool][f.text] \in Nat \ {0}
      BY <1>1, <1>2, TablesTypes DEF Strings
    <2> QED
      BY <2>1 DEF Answers, Logs!Ref, Refs, Logs!Pool, StringIs
  <1>3. ASSUME NEW f \in FieldSets, Logs!Lookup(T.fld, f.names) # 0
        PROVE  Answers(T, Logs!Ref("fields", Logs!Lookup(T.fld, f.names)), f)
    <2>1. PICK p \in T.fld : p.key = f.names /\ p.id = Logs!Lookup(T.fld, f.names)
      BY <1>1, <1>3, LookupGives
    <2>2. p = [key |-> f.names, id |-> p.id] /\ p.id \in Nat \ {0} /\ f.call = "fields"
      BY <1>1, <2>1 DEF Entries, FieldSets
    <2> QED
      BY <2>1, <2>2 DEF Answers, Logs!Ref, Refs, FieldsAre
  <1>4. ASSUME NEW f \in Structs, StructOK(T, f), f.at \notin {"names", "fields", "values"},
               Logs!Lookup(T.st, Logs!StructKey(f)) # 0
        PROVE  Answers(T, Logs!Ref("struct", Logs!Lookup(T.st, Logs!StructKey(f))), f)
    <2>1. PICK p \in T.st : p.key = Logs!StructKey(f) /\ p.id = Logs!Lookup(T.st, Logs!StructKey(f))
      BY <1>1, <1>4, LookupGives
    <2>2. T.node[p.id] = f.node
      BY <1>4, <2>1, FoundStruct
    <2>3. p.id \in Nat \ {0} /\ f.call = "struct"
      BY <1>1 DEF Entries, Structs
    <2> QED
      BY <2>1, <2>2, <2>3 DEF Answers, Logs!Ref, Refs, StructIs
  <1> QED
    BY <1>2, <1>3, <1>4

-----------------------------------------------------------------------------
(* The stacks of all workers.                                              *)

Stacks(T, dn, st) ==
  /\ st \in [Worker -> Seq(Frames)] /\ dn \in [Worker -> Nat]
  /\ \A w \in Worker :
       /\ dn[w] <= Len(Jobs[w])
       /\ st[w] # <<>> => dn[w] < Len(Jobs[w]) /\ StackOK(T, Jobs[w][dn[w] + 1], st[w])
  /\ \A w, v \in Worker : \A i \in 1..Len(st[w]), j \in 1..Len(st[v]) :
       Owning(st[w][i]) /\ Owning(st[v][j]) /\ Logs!OwnRef(st[w][i]) = Logs!OwnRef(st[v][j])
         => w = v /\ i = j

\* Nobody but the innermost call of w may have the number r.
OnlyTop(st, w, r) ==
  \A v \in Worker : \A i \in 1..Len(st[v]) :
    Owning(st[v][i]) /\ Logs!OwnRef(st[v][i]) = r => v = w /\ i = Len(st[w])

StagedBy(s, r) == s # <<>> /\ Logs!Last(s).at = "stage" /\ Logs!OwnRef(Logs!Last(s)) = r
With(st, w, s) == [st EXCEPT ![w] = s]
GoneOn(s, g) == Logs!Front(s) \o Logs!Continue(g)
Placed(f, at) == [f EXCEPT !.at = at]
AtStage(st) == {r \in Refs : \E w \in Worker : StagedBy(st[w], r)}

LEMMA StacksStep ==
  ASSUME NEW T, NEW U, NEW r, Grows(T, U, r), NEW dn, NEW st, Stacks(T, dn, st),
         NEW w \in Worker, st[w] # <<>>, OnlyTop(st, w, r),
         NEW s, s # <<>>, StackOK(U, Jobs[w][dn[w] + 1], s),
         \A i \in 1..Len(s) : Owning(s[i]) =>
           \/ i \in 1..Len(st[w]) /\ Owning(st[w][i]) /\ Logs!OwnRef(s[i]) = Logs!OwnRef(st[w][i])
           \/ i = Len(st[w]) /\ Logs!OwnRef(s[i]) = r
  PROVE  Stacks(U, dn, With(st, w, s))
  <1> DEFINE q == With(st, w, s)
  <1>1. s \in Seq(Frames) /\ st \in [Worker -> Seq(Frames)] /\ dn \in [Worker -> Nat]
    BY DEF StackOK, Stacks
  <1>2. q \in [Worker -> Seq(Frames)] /\ q[w] = s /\ \A v \in Worker \ {w} : q[v] = st[v]
    BY <1>1 DEF With
  <1> HIDE DEF q
  <1>3. ASSUME NEW v \in Worker
        PROVE  /\ dn[v] <= Len(Jobs[v])
               /\ q[v] # <<>> => dn[v] < Len(Jobs[v]) /\ StackOK(U, Jobs[v][dn[v] + 1], q[v])
    <2>1. CASE v = w
      BY <1>2, <2>1 DEF Stacks
    <2>2. CASE v # w
      <3>1. q[v] = st[v] /\ dn[v] <= Len(Jobs[v])
        BY <1>2, <2>2 DEF Stacks
      <3>2. \A i \in 1..Len(st[v]) : Owning(st[v][i]) => Logs!OwnRef(st[v][i]) # r
        BY <2>2 DEF OnlyTop
      <3>3. st[v] # <<>> => dn[v] < Len(Jobs[v]) /\ StackOK(T, Jobs[v][dn[v] + 1], st[v])
        BY DEF Stacks
      <3>4. StackOK(T, Jobs[v][dn[v] + 1], st[v]) => StackOK(U, Jobs[v][dn[v] + 1], st[v])
        BY <3>2, StackKept
      <3> QED
        BY <3>1, <3>3, <3>4
    <2> QED
      BY <2>1, <2>2
  <1>4. \A v, u \in Worker : \A i \in 1..Len(st[v]), j \in 1..Len(st[u]) :
          Owning(st[v][i]) /\ Owning(st[u][j]) /\ Logs!OwnRef(st[v][i]) = Logs!OwnRef(st[u][j])
            => v = u /\ i = j
    BY DEF Stacks
  <1>5. \A v \in Worker : \A i \in 1..Len(q[v]) : Owning(q[v][i]) =>
          \/ i \in 1..Len(st[v]) /\ Owning(st[v][i]) /\ Logs!OwnRef(q[v][i]) = Logs!OwnRef(st[v][i])
          \/ v = w /\ i = Len(st[w]) /\ Logs!OwnRef(q[v][i]) = r
    <2> TAKE v \in Worker
    <2>1. CASE v = w
      BY <1>2, <2>1
    <2>2. CASE v # w
      BY <1>2, <2>2
    <2> QED
      BY <2>1, <2>2
  <1>6. ASSUME NEW v \in Worker, NEW u \in Worker, NEW i \in 1..Len(q[v]), NEW j \in 1..Len(q[u]),
               Owning(q[v][i]), Owning(q[u][j]), Logs!OwnRef(q[v][i]) = Logs!OwnRef(q[u][j])
        PROVE  v = u /\ i = j
    <2>1. \/ i \in 1..Len(st[v]) /\ Owning(st[v][i]) /\ Logs!OwnRef(q[v][i]) = Logs!OwnRef(st[v][i])
          \/ v = w /\ i = Len(st[w]) /\ Logs!OwnRef(q[v][i]) = r
      BY <1>5, <1>6
    <2>2. \/ j \in 1..Len(st[u]) /\ Owning(st[u][j]) /\ Logs!OwnRef(q[u][j]) = Logs!OwnRef(st[u][j])
          \/ u = w /\ j = Len(st[w]) /\ Logs!OwnRef(q[u][j]) = r
      BY <1>5, <1>6
    <2> QED
      BY <1>4, <1>6, <2>1, <2>2, Zenon DEF OnlyTop
  <1> QED
    BY <1>1, <1>2, <1>3, <1>6 DEF Stacks, q

LEMMA AtStageStep ==
  ASSUME NEW st \in [Worker -> Seq(Frames)], NEW w \in Worker, NEW s, st[w] # <<>>, s # <<>>
  PROVE  LET at == AtStage(st)
             next == AtStage(With(st, w, s))
         IN  /\ Logs!Last(st[w]).at # "stage" /\ Logs!Last(s).at # "stage" => next = at
             /\ (/\ Logs!Last(st[w]).at # "stage" /\ Logs!Last(s).at = "stage"
                 /\ Logs!OwnRef(Logs!Last(s)) \in Refs)
                => next = at \cup {Logs!OwnRef(Logs!Last(s))}
             /\ (/\ Logs!Last(s).at # "stage"
                 /\ \A v \in Worker \ {w} : ~StagedBy(st[v], Logs!OwnRef(Logs!Last(st[w]))))
                => next = at \ (IF Logs!Last(st[w]).at = "stage"
                                THEN {Logs!OwnRef(Logs!Last(st[w]))} ELSE {})
  <1> DEFINE q == With(st, w, s)
             at == AtStage(st)
             next == AtStage(q)
  <1>1. q[w] = s /\ \A v \in Worker \ {w} : q[v] = st[v]
    BY DEF With
  <1> HIDE DEF q
  <1>2. \A r \in Refs : r \in next <=> StagedBy(s, r) \/ \E v \in Worker \ {w} : StagedBy(st[v], r)
    BY <1>1 DEF AtStage
  <1>3. \A r \in Refs : r \in at
          <=> StagedBy(st[w], r) \/ \E v \in Worker \ {w} : StagedBy(st[v], r)
    BY DEF AtStage
  <1>4. at \subseteq Refs /\ next \subseteq Refs
    BY DEF AtStage
  <1> HIDE DEF at, next
  <1>5. ASSUME Logs!Last(st[w]).at # "stage", Logs!Last(s).at # "stage" PROVE next = at
    BY <1>2, <1>3, <1>4, <1>5 DEF StagedBy
  <1>6. ASSUME Logs!Last(st[w]).at # "stage", Logs!Last(s).at = "stage",
               Logs!OwnRef(Logs!Last(s)) \in Refs
        PROVE  next = at \cup {Logs!OwnRef(Logs!Last(s))}
    <2>1. \A r \in Refs : ~StagedBy(st[w], r) /\ (StagedBy(s, r) <=> r = Logs!OwnRef(Logs!Last(s)))
      BY <1>6 DEF StagedBy
    <2> QED
      BY <1>2, <1>3, <1>4, <1>6, <2>1
  <1>7. ASSUME Logs!Last(s).at # "stage", \A v \in Worker \ {w} :
                 ~StagedBy(st[v], Logs!OwnRef(Logs!Last(st[w])))
        PROVE  next = at \ (IF Logs!Last(st[w]).at = "stage" THEN {Logs!OwnRef(Logs!Last(st[w]))}
                 ELSE {})
    <2>1. \A r \in Refs : ~StagedBy(s, r)
                          /\ (StagedBy(st[w], r)
                                <=> /\ Logs!Last(st[w]).at = "stage"
                                    /\ r = Logs!OwnRef(Logs!Last(st[w])))
      BY <1>7 DEF StagedBy
    <2> QED
      BY <1>2, <1>3, <1>4, <1>7, <2>1
  <1> QED
    BY <1>5, <1>6, <1>7 DEF q, at, next

LEMMA Topmost ==
  ASSUME NEW T, NEW dn, NEW st, Stacks(T, dn, st), NEW w \in Worker, st[w] # <<>>
  PROVE  LET job == Jobs[w][dn[w] + 1]
             s == st[w]
         IN  /\ job \in JobSet /\ StackOK(T, job, s) /\ Below(T, job, s)
             /\ s \in Seq(Frames) /\ Len(s) \in Nat \ {0} /\ Logs!Last(s) = s[Len(s)]
             /\ Logs!Last(s) \in Frames /\ FrameOK(T, job, Logs!Last(s)) /\ Rests(Logs!Last(s))
             /\ Logs!Last(s).at = "stage" =>
                  /\ Owning(Logs!Last(s))
                  /\ \A v \in Worker \ {w} : ~StagedBy(st[v], Logs!OwnRef(Logs!Last(s)))
  <1> DEFINE job == Jobs[w][dn[w] + 1]
             s == st[w]
  <1>1. dn[w] \in Nat /\ dn[w] < Len(Jobs[w]) /\ StackOK(T, job, s) /\ s \in Seq(Frames) /\ s # <<>>
    BY DEF Stacks
  <1>2. job \in JobSet
    <2>1. Jobs[w] \in Seq(JobSet)
      BY IngestionAssumption
    <2>2. dn[w] + 1 \in 1..Len(Jobs[w])
      BY <1>1, <2>1
    <2> QED
      BY <2>1, <2>2
  <1>3. Len(s) \in Nat \ {0}
    BY <1>1
  <1>4. Logs!Last(s) = s[Len(s)]
    BY DEF Logs!Last
  <1>5. Below(T, job, s) /\ FrameOK(T, job, s[Len(s)]) /\ Rests(s[Len(s)])
    <2>1. Len(s) \in 1..Len(s)
      BY <1>3
    <2> HIDE DEF s, job
    <2> QED
      BY <1>1, <2>1 DEF StackOK, Below
  <1>6. Logs!Last(s) \in Frames
    BY <1>1, <1>3, <1>4
  <1>7. ASSUME Logs!Last(s).at = "stage"
        PROVE  Owning(Logs!Last(s)) /\
                 \A v \in Worker \ {w} : ~StagedBy(st[v], Logs!OwnRef(Logs!Last(s)))
    <2>1. \A f \in Frames : f.at = "stage" => Owning(f)
      BY DEF Frames, Calling, Strings, FieldSets, Structs, JobFrames, Owning, OwningAt, Called
    <2>2. ASSUME NEW v \in Worker \ {w}, StagedBy(st[v], Logs!OwnRef(Logs!Last(s))) PROVE FALSE
      <3>1. st[v] \in Seq(Frames) /\ st[v] # <<>>
        BY <2>2 DEF Stacks, StagedBy
      <3>2. /\ Len(st[v]) \in 1..Len(st[v]) /\ Logs!Last(st[v]) = st[v][Len(st[v])]
            /\ Logs!Last(st[v]) \in Frames
        BY <3>1 DEF Logs!Last
      <3>3. Owning(st[v][Len(st[v])]) /\ Logs!OwnRef(st[v][Len(st[v])]) = Logs!OwnRef(Logs!Last(s))
        BY <2>1, <2>2, <3>2 DEF StagedBy
      <3>4. Owning(s[Len(s)]) /\ Len(s) \in 1..Len(s)
        BY <1>3, <1>4, <1>6, <1>7, <2>1
      <3> QED
        BY <1>4, <2>2, <3>2, <3>3, <3>4 DEF Stacks
    <2> QED
      BY <1>6, <1>7, <2>1, <2>2
  <1> QED
    BY <1>1, <1>2, <1>3, <1>4, <1>5, <1>6, <1>7

TopOf(st, w) == Logs!Last(st[w])
Busy(st, w) == st[w] # <<>>
JobOf(dn, w) == Jobs[w][dn[w] + 1]
WentOn(st, w, g) == With(st, w, GoneOn(st[w], g))
Gone(st, w, x) == With(st, w, Replied(st[w], x))
Left(st, w) ==
  IF TopOf(st, w).at = "stage" THEN AtStage(st) \ {Logs!OwnRef(TopOf(st, w))} ELSE AtStage(st)

\* A worker goes on with g in place of its innermost call.
LEMMA Went ==
  ASSUME NEW T, NEW U, NEW r, Grows(T, U, r), NEW dn, NEW st, Stacks(T, dn, st),
         NEW w \in Worker, Busy(st, w), OnlyTop(st, w, r),
         NEW g \in Frames, FrameOK(U, JobOf(dn, w), g), g.call \in Called,
         SameCall(TopOf(st, w), g),
         Owning(g) => \/ Logs!OwnRef(g) = r
                      \/ Owning(TopOf(st, w)) /\ Logs!OwnRef(g) = Logs!OwnRef(TopOf(st, w)),
         NEW next, next = WentOn(st, w, g)
  PROVE  /\ Stacks(U, dn, next)
         /\ g.at # "stage" => AtStage(next) = Left(st, w)
         /\ TopOf(st, w).at # "stage" /\ g.at = "stage" /\ Logs!OwnRef(g) \in Refs =>
              AtStage(next) = AtStage(st) \cup {Logs!OwnRef(g)}
  <1> USE DEF TopOf, Busy, JobOf
  <1> DEFINE job == JobOf(dn, w)
             s == GoneOn(st[w], g)
  <1>1. next = With(st, w, s)
    BY DEF WentOn
  <1>2. /\ Below(T, job, st[w]) /\ st[w] \in Seq(Frames) /\ Len(st[w]) \in Nat \ {0}
        /\ TopOf(st, w) = st[w][Len(st[w])]
        /\ TopOf(st, w).at = "stage"
             => \A v \in Worker \ {w} : ~StagedBy(st[v], Logs!OwnRef(TopOf(st, w)))
    BY Topmost
  <1>3. Below(U, job, st[w])
    <2>1. \A i \in 1..Len(st[w]) : i < Len(st[w]) /\ Owning(st[w][i]) => Logs!OwnRef(st[w][i]) # r
      BY DEF OnlyTop
    <2> QED
      BY <1>2, <2>1, StackKept
  <1>4. Succeeds(U, job, st[w], g, s)
    BY <1>2, <1>3, Pushed DEF GoneOn
  <1> HIDE DEF job, s
  <1>5. s # <<>> /\ StackOK(U, job, s)
    BY <1>4 DEF Succeeds
  <1>6. \A i \in 1..Len(s) : Owning(s[i]) =>
          \/ i \in 1..Len(st[w]) /\ Owning(st[w][i]) /\ Logs!OwnRef(s[i]) = Logs!OwnRef(st[w][i])
          \/ i = Len(st[w]) /\ Logs!OwnRef(s[i]) = r
    <2> SUFFICES ASSUME NEW i \in 1..Len(s), Owning(s[i])
                 PROVE  \/ /\ i \in 1..Len(st[w]) /\ Owning(st[w][i])
                           /\ Logs!OwnRef(s[i]) = Logs!OwnRef(st[w][i])
                        \/ i = Len(st[w]) /\ Logs!OwnRef(s[i]) = r
      OBVIOUS
    <2>1. CASE i < Len(st[w])
      <3>1. i \in 1..Len(st[w]) /\ s[i] = st[w][i]
        BY <1>2, <1>4, <2>1 DEF Succeeds
      <3> QED
        BY <3>1
    <2>2. CASE i >= Len(st[w])
      <3>1. i = Len(st[w]) /\ Owning(g) /\ Logs!OwnRef(s[i]) = Logs!OwnRef(g)
        BY <1>4, <2>2 DEF Succeeds
      <3>2. i \in 1..Len(st[w]) /\ st[w][i] = TopOf(st, w)
        BY <1>2, <3>1
      <3> QED
        BY <3>1, <3>2
    <2> QED
      BY <1>2, <2>1, <2>2
  <1>7. Stacks(U, dn, next)
    BY <1>1, <1>5, <1>6, StacksStep DEF job
  <1>8. st \in [Worker -> Seq(Frames)]
    BY DEF Stacks
  <1>9. /\ (Logs!Last(s).at = "stage" <=> g.at = "stage")
        /\ (g.at = "stage" => Logs!OwnRef(Logs!Last(s)) = Logs!OwnRef(g))
    BY <1>4 DEF Succeeds
  <1>10. /\ TopOf(st, w).at # "stage" /\ Logs!Last(s).at # "stage" => AtStage(next) = AtStage(st)
         /\ (/\ TopOf(st, w).at # "stage" /\ Logs!Last(s).at = "stage"
             /\ Logs!OwnRef(Logs!Last(s)) \in Refs)
            => AtStage(next) = AtStage(st) \cup {Logs!OwnRef(Logs!Last(s))}
         /\ (/\ Logs!Last(s).at # "stage"
             /\ \A v \in Worker \ {w} : ~StagedBy(st[v], Logs!OwnRef(TopOf(st, w))))
            => AtStage(next)
                 = AtStage(st) \ (IF TopOf(st, w).at = "stage" THEN {Logs!OwnRef(TopOf(st, w))}
                   ELSE {})
    BY <1>1, <1>5, <1>8, AtStageStep
  <1> QED
    BY <1>1, <1>2, <1>7, <1>9, <1>10 DEF Left

\* The innermost call of a worker returns x.
LEMMA Gave ==
  ASSUME NEW T, NEW U, NEW r, Grows(T, U, r), NEW dn, NEW st, Stacks(T, dn, st),
         NEW w \in Worker, Busy(st, w), OnlyTop(st, w, r),
         TopOf(st, w).call \in Called, NEW x, Answers(U, x, TopOf(st, w)),
         NEW next, next = Gone(st, w, x)
  PROVE  /\ Stacks(U, dn, next)
         /\ AtStage(next) = Left(st, w)
  <1> USE DEF TopOf, Busy, JobOf
  <1> DEFINE job == JobOf(dn, w)
  <1>0. PICK s : s = Replied(st[w], x)
    OBVIOUS
  <1>1. next = With(st, w, s)
    BY <1>0 DEF Gone
  <1>2. /\ Below(T, job, st[w]) /\ st[w] \in Seq(Frames) /\ Len(st[w]) \in Nat \ {0}
        /\ job \in JobSet
        /\ TopOf(st, w).at = "stage"
             => \A v \in Worker \ {w} : ~StagedBy(st[v], Logs!OwnRef(TopOf(st, w)))
    BY Topmost
  <1>3. Below(U, job, st[w])
    <2>1. \A i \in 1..Len(st[w]) : i < Len(st[w]) /\ Owning(st[w][i]) => Logs!OwnRef(st[w][i]) # r
      BY DEF OnlyTop
    <2> QED
      BY <1>2, <2>1, StackKept
  <1>4. /\ StackOK(U, job, s) /\ s # <<>> /\ Logs!Last(s).at # "stage"
        /\ \A i \in 1..Len(s) : Owning(s[i]) =>
             /\ i \in 1..Len(st[w]) /\ i < Len(st[w]) /\ Owning(st[w][i])
             /\ Logs!OwnRef(s[i]) = Logs!OwnRef(st[w][i])
    <2> HIDE DEF job
    <2> QED
      BY <1>0, <1>2, <1>3, Returned
  <1>5. Stacks(U, dn, next)
    <2>1. \A i \in 1..Len(s) : Owning(s[i]) =>
            \/ i \in 1..Len(st[w]) /\ Owning(st[w][i]) /\ Logs!OwnRef(s[i]) = Logs!OwnRef(st[w][i])
            \/ i = Len(st[w]) /\ Logs!OwnRef(s[i]) = r
      BY <1>4
    <2>2. Stacks(U, dn, With(st, w, s))
      BY <1>4, <2>1, StacksStep
    <2> QED
      BY <1>1, <2>2
  <1>6. st \in [Worker -> Seq(Frames)]
    BY DEF Stacks
  <1>7. /\ TopOf(st, w).at # "stage" => AtStage(next) = AtStage(st)
        /\ (\A v \in Worker \ {w} : ~StagedBy(st[v], Logs!OwnRef(TopOf(st, w)))) =>
             AtStage(next)
               = AtStage(st) \ (IF TopOf(st, w).at = "stage" THEN {Logs!OwnRef(TopOf(st, w))}
                 ELSE {})
    <2>1. LET t == With(st, w, s)
          IN  /\ TopOf(st, w).at # "stage" => AtStage(t) = AtStage(st)
              /\ (\A v \in Worker \ {w} : ~StagedBy(st[v], Logs!OwnRef(TopOf(st, w)))) =>
                   AtStage(t)
                     = AtStage(st) \ (IF TopOf(st, w).at = "stage" THEN {Logs!OwnRef(TopOf(st, w))}
                       ELSE {})
      BY <1>4, <1>6, AtStageStep
    <2> QED
      BY <1>1, <2>1
  <1> QED
    BY <1>2, <1>5, <1>7 DEF Left

-----------------------------------------------------------------------------
(* What is staged, what is written, and what of it is published.           *)

PoolOf(x) == IF x.ns = "client" THEN "client" ELSE "server"

ShortOf(T, x) ==
  IF x.ns \in Logs!Pool THEN Logs!Item(x, T.ids[x.ns][x.id], <<>>)
  ELSE IF x.ns = "fields" THEN Logs!Item(x, None, T.fids[x.id])
  ELSE Logs!Item(x, None, <<>>)
FullOf(T, x) ==
  IF x.ns = "struct" THEN Logs!Item(x, None, T.fst[x.id].fields \o T.fst[x.id].cells)
  ELSE ShortOf(T, x)

Published(T, x) == x \in Refs /\ ~Unpublished(T, x)

\* What is published is written, or staged, or will be staged, or its pool failed.
Staging(T, un, fl, er, at) ==
  /\ un = [pool \in Logs!Pool |-> un[pool]] /\ er \in [Logs!Pool -> BOOLEAN]
  /\ \A i \in fl : Published(T, i.ref) /\ i = FullOf(T, i.ref)
  /\ \A pool \in Logs!Pool : \A i \in un[pool] :
       /\ Published(T, i.ref) /\ i = ShortOf(T, i.ref) /\ PoolOf(i.ref) = pool
       /\ \A j \in fl : j.ref # i.ref
  /\ \A x \in at : \A i \in fl \cup un["client"] \cup un["server"] : i.ref # x
  /\ \A x : Published(T, x) =>
       \/ x \in at \/ er[PoolOf(x)]
       \/ \E i \in fl \cup un[PoolOf(x)] : i.ref = x

LEMMA ItemKept ==
  ASSUME NEW T, NEW U, NEW r, Grows(T, U, r), NEW x, Published(T, x)
  PROVE  x # r /\ Published(U, x) /\ ShortOf(U, x) = ShortOf(T, x) /\ FullOf(U, x) = FullOf(T, x)
  <1>1. TablesOK(T) /\ T \in TableSet /\ x \in Refs /\ r \in Refs /\ x # r /\ x.id \in Nat \ {0}
    BY DEF Grows, TablesOK, Published, Refs
  <1>2. x.ns = r.ns => x.id # r.id
    BY <1>1, SameRef
  <1>3. CASE x.ns \in Logs!Pool
    <2>1. PICK t \in Text : T.str[x.ns][t] = x.id
      BY <1>3, TablesTypes DEF Published, Unpublished, Refs, Logs!Pool
    <2>2. T.str[x.ns][t] # 0
      BY <1>1, <2>1
    <2>3. U.str[x.ns][t] = x.id
      BY <1>2, <1>3, <2>1, <2>2 DEF Grows
    <2>4. x.id \in 1..Len(T.ids[x.ns])
      BY <1>1, <1>3, <2>1, <2>2, TablesTypes DEF TablesOK, StringsOK
    <2>5. U.ids[x.ns][x.id] = T.ids[x.ns][x.id]
      BY <1>2, <1>3, <2>4 DEF Grows
    <2> QED
      BY <1>1, <1>3, <2>3, <2>5 DEF Published, Unpublished, ShortOf, FullOf, Logs!Pool
  <1>4. CASE x.ns = "fields"
    <2>1. PICK p \in T.fld : p.id = x.id
      BY <1>4, <1>1, TablesTypes DEF Published, Unpublished
    <2>2. p \in U.fld
      BY DEF Grows
    <2>3. x.id \in 1..Len(T.fids)
      BY <1>1, <2>1, TablesTypes DEF TablesOK, FieldsOK
    <2>4. U.fids[x.id] = T.fids[x.id]
      BY <1>2, <1>4, <2>3 DEF Grows
    <2> QED
      BY <1>1, <1>4, <2>1, <2>2, <2>4 DEF Published, Unpublished, ShortOf, FullOf, Logs!Pool
  <1>5. CASE x.ns = "struct"
    <2>1. PICK p \in T.st : p.id = x.id
      BY <1>5, <1>1, TablesTypes DEF Published, Unpublished
    <2>2. p \in U.st
      BY DEF Grows
    <2>3. x.id \in 1..Len(T.fst)
      BY <1>1, <2>1, TablesTypes DEF TablesOK, StructsOK
    <2>4. U.fst[x.id] = T.fst[x.id]
      BY <1>2, <1>5, <2>3 DEF Grows
    <2> QED
      BY <1>1, <1>5, <2>1, <2>2, <2>4 DEF Published, Unpublished, ShortOf, FullOf, Logs!Pool
  <1> QED
    BY <1>1, <1>3, <1>4, <1>5 DEF Refs, Logs!Pool

LEMMA NewlyPublished ==
  ASSUME NEW T, NEW U, NEW r, Grows(T, U, r), NEW x, Published(U, x), x # r
  PROVE  Published(T, x)
  <1>1. x \in Refs /\ r \in Refs /\ T \in TableSet
    BY DEF Grows, TablesOK, Published
  <1>2. x.ns = r.ns => x.id # r.id
    BY <1>1, SameRef
  <1>3. CASE x.ns \in Logs!Pool
    <2>1. PICK t \in Text : U.str[x.ns][t] = x.id
      BY <1>3 DEF Published, Unpublished, Logs!Pool
    <2>2. T.str[x.ns][t] = x.id
      BY <1>2, <1>3, <2>1 DEF Grows
    <2> QED
      BY <1>1, <1>3, <2>2 DEF Published, Unpublished
  <1>4. CASE x.ns = "fields"
    <2>1. PICK p \in U.fld : p.id = x.id
      BY <1>4 DEF Published, Unpublished, Logs!Pool
    <2> QED
      BY <1>1, <1>2, <1>4, <2>1 DEF Published, Unpublished, Grows
  <1>5. CASE x.ns = "struct"
    <2>1. PICK p \in U.st : p.id = x.id
      BY <1>5 DEF Published, Unpublished, Logs!Pool
    <2> QED
      BY <1>1, <1>2, <1>5, <2>1 DEF Published, Unpublished, Grows
  <1> QED
    BY <1>1, <1>3, <1>4, <1>5 DEF Refs, Logs!Pool

LEMMA StagingGrows ==
  ASSUME NEW T, NEW U, NEW r, Grows(T, U, r),
         NEW un, NEW fl, NEW er, NEW at, Staging(T, un, fl, er, at),
         NEW next, at \subseteq next, next \subseteq at \cup {r}, Published(U, r) => r \in next
  PROVE  Staging(U, un, fl, er, next)
  <1>1. \A x : Published(T, x) =>
          x # r /\ Published(U, x) /\ ShortOf(U, x) = ShortOf(T, x) /\ FullOf(U, x) = FullOf(T, x)
    BY ItemKept
  <1>2. \A x : Published(U, x) => Published(T, x) \/ x = r
    BY NewlyPublished
  <1>3. un = [pool \in Logs!Pool |-> un[pool]] /\ er \in [Logs!Pool -> BOOLEAN]
    BY DEF Staging
  <1>4. \A i \in fl : Published(U, i.ref) /\ i = FullOf(U, i.ref) /\ i.ref # r
    BY <1>1 DEF Staging
  <1>5. \A pool \in Logs!Pool : \A i \in un[pool] :
          /\ Published(U, i.ref) /\ i = ShortOf(U, i.ref) /\ PoolOf(i.ref) = pool /\ i.ref # r
          /\ \A j \in fl : j.ref # i.ref
    BY <1>1 DEF Staging
  <1>6. \A x \in next : \A i \in fl \cup un["client"] \cup un["server"] : i.ref # x
    BY <1>4, <1>5 DEF Staging, Logs!Pool
  <1>7. \A x : Published(U, x) =>
          \/ x \in next \/ er[PoolOf(x)]
          \/ \E i \in fl \cup un[PoolOf(x)] : i.ref = x
    BY <1>2 DEF Staging
  <1> QED
    BY <1>3, <1>4, <1>5, <1>6, <1>7 DEF Staging

LEMMA StagingAdds ==
  ASSUME NEW T, NEW un, NEW fl, NEW er, NEW at, Staging(T, un, fl, er, at),
         NEW x \in at, Published(T, x)
  PROVE  Staging(T, [un EXCEPT ![PoolOf(x)] = @ \cup {ShortOf(T, x)}], fl, er, at \ {x})
  <1> DEFINE next == [un EXCEPT ![PoolOf(x)] = @ \cup {ShortOf(T, x)}]
  <1>1. ShortOf(T, x).ref = x
    BY DEF ShortOf, Logs!Item
  <1>2. PoolOf(x) \in Logs!Pool /\ \A y : PoolOf(y) \in Logs!Pool
    BY DEF PoolOf, Logs!Pool
  <1>3. un = [pool \in Logs!Pool |-> un[pool]] /\ er \in [Logs!Pool -> BOOLEAN]
    BY DEF Staging
  <1>4. /\ next = [pool \in Logs!Pool |-> next[pool]]
        /\ next[PoolOf(x)] = un[PoolOf(x)] \cup {ShortOf(T, x)}
        /\ \A pool \in Logs!Pool \ {PoolOf(x)} : next[pool] = un[pool]
    BY <1>2, <1>3
  <1> HIDE DEF next
  <1>5. \A pool \in Logs!Pool : \A i \in next[pool] : i \in un[pool] \/
          (i = ShortOf(T, x) /\ pool = PoolOf(x))
    <2> TAKE pool \in Logs!Pool
    <2>1. pool = PoolOf(x) => next[pool] = un[pool] \cup {ShortOf(T, x)}
      BY <1>4
    <2>2. ASSUME pool # PoolOf(x) PROVE next[pool] = un[pool]
      <3>1. pool \in Logs!Pool \ {PoolOf(x)}
        BY <2>2
      <3> QED
        BY <1>4, <3>1, Zenon
    <2> QED
      BY <2>1, <2>2
  <1>6. \A pool \in Logs!Pool : \A i \in next[pool] :
          /\ Published(T, i.ref) /\ i = ShortOf(T, i.ref) /\ PoolOf(i.ref) = pool
          /\ \A j \in fl : j.ref # i.ref
    <2> SUFFICES ASSUME NEW pool \in Logs!Pool, NEW i \in next[pool]
                 PROVE  /\ Published(T, i.ref) /\ i = ShortOf(T, i.ref) /\ PoolOf(i.ref) = pool
                        /\ \A j \in fl : j.ref # i.ref
      OBVIOUS
    <2>1. CASE i \in un[pool]
      BY <2>1 DEF Staging
    <2>2. CASE i = ShortOf(T, x) /\ pool = PoolOf(x)
      BY <1>1, <2>2 DEF Staging
    <2> QED
      BY <1>5, <2>1, <2>2
  <1>7. \A y \in at \ {x} : \A i \in fl \cup next["client"] \cup next["server"] : i.ref # y
    <2>1. \A i \in fl \cup next["client"] \cup next["server"] :
            i \in fl \cup un["client"] \cup un["server"] \/ i = ShortOf(T, x)
      BY <1>5 DEF Logs!Pool
    <2> QED
      BY <1>1, <2>1 DEF Staging
  <1>8. \A y : Published(T, y) =>
          \/ y \in at \ {x} \/ er[PoolOf(y)]
          \/ \E i \in fl \cup next[PoolOf(y)] : i.ref = y
    <2> SUFFICES ASSUME NEW y, Published(T, y)
                 PROVE  \/ y \in at \ {x} \/ er[PoolOf(y)]
                        \/ \E i \in fl \cup next[PoolOf(y)] : i.ref = y
      OBVIOUS
    <2>1. CASE y = x
      BY <1>1, <1>4, <2>1
    <2>2. CASE y # x
      <3>1. un[PoolOf(y)] \subseteq next[PoolOf(y)]
        BY <1>2, <1>4
      <3> QED
        BY <2>2, <3>1 DEF Staging
    <2> QED
      BY <2>1, <2>2
  <1> QED
    BY <1>3, <1>4, <1>6, <1>7, <1>8 DEF Staging, next

\* What a flush writes of what is staged.
WrittenBy(T, i) ==
  IF i.ref.ns = "struct"
  THEN [i EXCEPT !.refs = T.fst[i.ref.id].fields \o T.fst[i.ref.id].cells]
  ELSE i

Chunk(T, items) == {WrittenBy(T, i) : i \in items}

LEMMA StagingFlushes ==
  ASSUME NEW T, NEW un, NEW fl, NEW er, NEW at, Staging(T, un, fl, er, at), NEW pool \in Logs!Pool
  PROVE  LET next == [un EXCEPT ![pool] = {}]
         IN  /\ fl \cap Chunk(T, un[pool]) = {}
             /\ Staging(T, next, fl \cup Chunk(T, un[pool]), er, at)
             /\ Staging(T, next, fl, [er EXCEPT ![pool] = TRUE], at)
             /\ next[pool] = {}
  <1> USE DEF Chunk
  <1> DEFINE batch == {WrittenBy(T, i) : i \in un[pool]}
             next == [un EXCEPT ![pool] = {}]
             er2 == [er EXCEPT ![pool] = TRUE]
  <1>1. un = [p \in Logs!Pool |-> un[p]] /\ er \in [Logs!Pool -> BOOLEAN]
    BY DEF Staging
  <1>2. /\ next = [p \in Logs!Pool |-> next[p]] /\ next[pool] = {}
        /\ \A p \in Logs!Pool \ {pool} : next[p] = un[p]
        /\ er2 \in [Logs!Pool -> BOOLEAN] /\ er2[pool] = TRUE /\
             \A p \in Logs!Pool \ {pool} : er2[p] = er[p]
    BY <1>1
  <1> HIDE DEF next, er2
  <1>3. ASSUME NEW i \in un[pool]
        PROVE  /\ WrittenBy(T, i) = FullOf(T, i.ref) /\ WrittenBy(T, i).ref = i.ref
               /\ Published(T, i.ref)
    <2>1. Published(T, i.ref) /\ i = ShortOf(T, i.ref)
      BY DEF Staging
    <2>2. i.ref \in Refs
      BY <2>1 DEF Published
    <2>3. CASE i.ref.ns = "struct"
      <3>1. i = [ref |-> i.ref, text |-> None, refs |-> <<>>]
        BY <2>1, <2>3 DEF ShortOf, Logs!Pool, Logs!Item
      <3>2. WrittenBy(T, i) = [i EXCEPT !.refs = T.fst[i.ref.id].fields \o T.fst[i.ref.id].cells]
        BY <2>3 DEF WrittenBy
      <3>3. FullOf(T, i.ref)
              = [ref |-> i.ref, text |-> None,
                refs |-> T.fst[i.ref.id].fields \o T.fst[i.ref.id].cells]
        BY <2>3 DEF FullOf, Logs!Item
      <3> DEFINE x == i.ref
                 b == T.fst[i.ref.id].fields \o T.fst[i.ref.id].cells
      <3> HIDE DEF x, b
      <3>4. i = [ref |-> x, text |-> None, refs |-> <<>>]
        BY <3>1 DEF x
      <3>5. [i EXCEPT !.refs = b] = [ref |-> x, text |-> None, refs |-> b]
        BY <3>4
      <3>6. WrittenBy(T, i) = FullOf(T, i.ref) /\ FullOf(T, i.ref).ref = i.ref
        BY <3>2, <3>3, <3>5 DEF x, b
      <3> QED
        BY <2>1, <3>6
    <2>4. CASE i.ref.ns # "struct"
      BY <2>1, <2>4 DEF WrittenBy, FullOf
    <2> QED
      BY <2>3, <2>4
  <1>4. \A j \in batch : \E i \in un[pool] : j.ref = i.ref /\ Published(T, i.ref) /\
          j = FullOf(T, j.ref)
    BY <1>3
  <1>5. \A i \in un[pool] : \E j \in batch : j.ref = i.ref
    BY <1>3
  <1> HIDE DEF batch
  <1>6. fl \cap batch = {}
    <2>1. ASSUME NEW j \in fl \cap batch PROVE FALSE
      <3>1. PICK i \in un[pool] : j.ref = i.ref
        BY <1>4
      <3> QED
        BY <3>1 DEF Staging
    <2> QED
      BY <2>1
  <1>7. \A p \in Logs!Pool : next[p] \subseteq un[p]
    BY <1>2
  <1>8. Staging(T, next, fl \cup batch, er, at)
    <2>1. \A i \in fl \cup batch : Published(T, i.ref) /\ i = FullOf(T, i.ref)
      BY <1>4 DEF Staging
    <2>2. ASSUME NEW p \in Logs!Pool, NEW i \in next[p]
          PROVE  /\ Published(T, i.ref) /\ i = ShortOf(T, i.ref) /\ PoolOf(i.ref) = p
                 /\ \A j \in fl \cup batch : j.ref # i.ref
      <3>1. i \in un[p] /\ p # pool
        BY <1>2, <1>7
      <3>2. /\ Published(T, i.ref) /\ i = ShortOf(T, i.ref) /\ PoolOf(i.ref) = p
            /\ \A j \in fl : j.ref # i.ref
        BY <3>1 DEF Staging
      <3>3. ASSUME NEW j \in batch PROVE j.ref # i.ref
        <4>1. PICK k \in un[pool] : j.ref = k.ref
          BY <1>4
        <4>2. PoolOf(j.ref) = pool
          BY <4>1 DEF Staging
        <4> QED
          BY <3>1, <3>2, <4>2
      <3> QED
        BY <3>2, <3>3
    <2>3. \A x \in at : \A i \in (fl \cup batch) \cup next["client"] \cup next["server"] : i.ref # x
      <3>1. ASSUME NEW x \in at, NEW i \in batch PROVE i.ref # x
        <4>1. PICK k \in un[pool] : i.ref = k.ref
          BY <1>4
        <4>2. k \in un["client"] \cup un["server"]
          BY DEF Logs!Pool
        <4> QED
          BY <4>1, <4>2 DEF Staging
      <3>2. next["client"] \subseteq un["client"] /\ next["server"] \subseteq un["server"]
        BY <1>7 DEF Logs!Pool
      <3> QED
        BY <3>1, <3>2 DEF Staging
    <2>4. \A x : Published(T, x) =>
            \/ x \in at \/ er[PoolOf(x)]
            \/ \E i \in (fl \cup batch) \cup next[PoolOf(x)] : i.ref = x
      <3> SUFFICES ASSUME NEW x, Published(T, x), x \notin at, ~er[PoolOf(x)]
                   PROVE  \E i \in (fl \cup batch) \cup next[PoolOf(x)] : i.ref = x
        OBVIOUS
      <3>1. PICK i \in fl \cup un[PoolOf(x)] : i.ref = x
        BY DEF Staging
      <3>2. PoolOf(x) \in Logs!Pool
        BY DEF PoolOf, Logs!Pool
      <3>3. CASE PoolOf(x) = pool
        BY <1>5, <3>1, <3>3
      <3>4. CASE PoolOf(x) # pool
        BY <1>2, <3>1, <3>2, <3>4
      <3> QED
        BY <3>3, <3>4
    <2> QED
      BY <1>1, <1>2, <2>1, <2>2, <2>3, <2>4 DEF Staging
  <1>9. Staging(T, next, fl, er2, at)
    <2>1. \A p \in Logs!Pool : \A i \in next[p] :
            /\ Published(T, i.ref) /\ i = ShortOf(T, i.ref) /\ PoolOf(i.ref) = p
            /\ \A j \in fl : j.ref # i.ref
      BY <1>7 DEF Staging
    <2>2. \A x \in at : \A i \in fl \cup next["client"] \cup next["server"] : i.ref # x
      <3>1. next["client"] \subseteq un["client"] /\ next["server"] \subseteq un["server"]
        BY <1>7 DEF Logs!Pool
      <3> QED
        BY <3>1 DEF Staging
    <2>3. \A x : Published(T, x) =>
            \/ x \in at \/ er2[PoolOf(x)]
            \/ \E i \in fl \cup next[PoolOf(x)] : i.ref = x
      <3> SUFFICES ASSUME NEW x, Published(T, x), x \notin at, ~er2[PoolOf(x)]
                   PROVE  \E i \in fl \cup next[PoolOf(x)] : i.ref = x
        OBVIOUS
      <3>1. PoolOf(x) \in Logs!Pool
        BY DEF PoolOf, Logs!Pool
      <3>2. PoolOf(x) # pool /\ ~er[PoolOf(x)]
        BY <1>2, <3>1
      <3>3. next[PoolOf(x)] = un[PoolOf(x)]
        BY <1>2, <3>1, <3>2
      <3> QED
        BY <3>2, <3>3 DEF Staging
    <2>4. \A i \in fl : Published(T, i.ref) /\ i = FullOf(T, i.ref)
      BY DEF Staging
    <2> QED
      BY <1>2, <2>1, <2>2, <2>3, <2>4 DEF Staging
  <1> QED
    BY <1>2, <1>6, <1>8, <1>9 DEF batch, next, er2

-----------------------------------------------------------------------------
(* What interning keeps.                                                   *)

PoolsOK(T, un, fl, er, dn, st) ==
  TablesOK(T) /\ Stacks(T, dn, st) /\ Staging(T, un, fl, er, AtStage(st))

LEMMA OwnNumbers ==
  ASSUME NEW T, TablesOK(T), NEW job, NEW f \in Frames, FrameOK(T, job, f), Owning(f)
  PROVE  /\ f.call = "string" => f.id \in 1..Len(T.ids[f.pool])
         /\ f.call = "fields" => f.id \in 1..Len(T.fids)
         /\ f.call = "struct" => f.id \in 1..Len(T.node)
  <1>1. T \in TableSet
    BY DEF TablesOK
  <1>2. CASE f.call = "string"
    <2>1. f \in Strings /\ f.pool \in Logs!Pool /\ f.text \in Text /\ f.at \in {"publish", "stage"}
      BY <1>2, ByCall DEF Strings, Owning, OwningAt
    <2>2. StringOK(T, f)
      BY <1>2 DEF FrameOK
    <2>3. CASE f.at = "publish"
      BY <1>2, <2>2, <2>3 DEF StringOK
    <2>4. CASE f.at = "stage"
      <3>1. f.id # 0 /\ T.str[f.pool][f.text] = f.id
        BY <2>2, <2>4 DEF StringOK, Staged
      <3>2. f.id \in Nat /\ f.id <= Len(T.ids[f.pool]) /\ Len(T.ids[f.pool]) \in Nat
        BY <1>1, <2>1, <3>1, TablesTypes DEF TablesOK, StringsOK
      <3> QED
        BY <1>2, <3>1, <3>2
    <2> QED
      BY <2>1, <2>3, <2>4
  <1>3. CASE f.call = "fields"
    <2>1. f \in FieldSets /\ f.at \in {"publish", "stage"}
      BY <1>3, ByCall DEF FieldSets, Owning, OwningAt
    <2>2. FieldSetOK(T, f)
      BY <1>3 DEF FrameOK
    <2>3. CASE f.at = "publish"
      BY <1>3, <2>2, <2>3 DEF FieldSetOK
    <2>4. CASE f.at = "stage"
      <3> DEFINE p == [key |-> f.names, id |-> f.id]
      <3>1. p \in T.fld /\ p.id = f.id
        BY <2>2, <2>4 DEF FieldSetOK, Staged
      <3>2. p.id \in Nat \ {0} /\ p.id <= Len(T.fids) /\ Len(T.fids) \in Nat
        BY <1>1, <3>1, TablesTypes DEF TablesOK, FieldsOK
      <3> QED
        BY <1>3, <3>1, <3>2
    <2> QED
      BY <2>1, <2>3, <2>4
  <1>4. CASE f.call = "struct"
    BY <1>4 DEF FrameOK, StructOK, Owning
  <1> QED
    BY <1>2, <1>3, <1>4

\* A number that is not given yet is nobody's.
LEMMA NobodyHas ==
  ASSUME NEW T, TablesOK(T), NEW dn, NEW st, Stacks(T, dn, st), NEW w, NEW r,
         \/ \E pool \in Logs!Pool : r = Logs!Ref(pool, Len(T.ids[pool]) + 1)
         \/ r = Logs!Ref("fields", Len(T.fids) + 1)
         \/ r = Logs!Ref("struct", Len(T.node) + 1)
  PROVE  OnlyTop(st, w, r)
  <1> SUFFICES ASSUME NEW v \in Worker, NEW i \in 1..Len(st[v]), Owning(st[v][i]),
                      Logs!OwnRef(st[v][i]) = r
               PROVE  FALSE
    BY DEF OnlyTop
  <1> DEFINE f == st[v][i]
  <1>1. st[v] \in Seq(Frames) /\ st[v] # <<>> /\ f \in Frames
    BY DEF Stacks
  <1>2. FrameOK(T, Jobs[v][dn[v] + 1], f)
    BY <1>1 DEF Stacks, StackOK
  <1> HIDE DEF f
  <1>3. f \in Frames /\ Owning(f) /\ Logs!OwnRef(f) = r
    BY <1>1 DEF f
  <1>4. /\ f.call = "string" => f.id \in 1..Len(T.ids[f.pool])
        /\ f.call = "fields" => f.id \in 1..Len(T.fids)
        /\ f.call = "struct" => f.id \in 1..Len(T.node)
    BY <1>2, <1>3, OwnNumbers
  <1>5. /\ r.id = f.id /\ r.ns = (IF f.call = "string" THEN f.pool ELSE f.call)
        /\ f.call = "string" => f.pool \in Logs!Pool
        /\ f.call \in {"string", "fields", "struct"}
    BY <1>3, OwnNumber DEF Owning, Called
  <1>6. /\ \A pool \in Logs!Pool : Len(T.ids[pool]) \in Nat
        /\ Len(T.fids) \in Nat /\ Len(T.node) \in Nat
    BY TablesTypes DEF TablesOK
  <1>7. CASE \E pool \in Logs!Pool : r = Logs!Ref(pool, Len(T.ids[pool]) + 1)
    <2>1. PICK pool \in Logs!Pool : r = Logs!Ref(pool, Len(T.ids[pool]) + 1)
      BY <1>7
    <2>2. r.ns = pool /\ r.id = Len(T.ids[pool]) + 1
      BY <2>1 DEF Logs!Ref
    <2>3. f.call = "string" /\ f.pool = pool
      BY <1>5, <2>2 DEF Logs!Pool
    <2> QED
      BY <1>4, <1>5, <1>6, <2>2, <2>3
  <1>8. CASE r = Logs!Ref("fields", Len(T.fids) + 1)
    <2>1. r.ns = "fields" /\ r.id = Len(T.fids) + 1
      BY <1>8 DEF Logs!Ref
    <2> QED
      BY <1>4, <1>5, <1>6, <2>1 DEF Logs!Pool
  <1>9. CASE r = Logs!Ref("struct", Len(T.node) + 1)
    <2>1. r.ns = "struct" /\ r.id = Len(T.node) + 1
      BY <1>9 DEF Logs!Ref
    <2> QED
      BY <1>4, <1>5, <1>6, <2>1 DEF Logs!Pool
  <1> QED
    BY <1>7, <1>8, <1>9

\* A call's own number is nobody else's.
LEMMA HasOwn ==
  ASSUME NEW T, NEW dn, NEW st, Stacks(T, dn, st), NEW w \in Worker, Busy(st, w),
         Owning(TopOf(st, w))
  PROVE  OnlyTop(st, w, Logs!OwnRef(TopOf(st, w)))
  <1>1. TopOf(st, w) = st[w][Len(st[w])] /\ Len(st[w]) \in 1..Len(st[w])
    <2>1. Len(st[w]) \in Nat \ {0} /\ TopOf(st, w) = st[w][Len(st[w])]
      BY Topmost DEF Busy, TopOf
    <2> QED
      BY <2>1
  <1> QED
    BY <1>1 DEF OnlyTop, Stacks

\* The tables stay as they are.
LEMMA Still ==
  ASSUME NEW T, TablesOK(T), NEW dn, NEW st, Stacks(T, dn, st), NEW w
  PROVE  \E r : Grows(T, T, r) /\ Unpublished(T, r) /\ OnlyTop(st, w, r)
  <1> DEFINE r == Logs!Ref("struct", Len(T.node) + 1)
  <1>1. OnlyTop(st, w, r)
    BY NobodyHas
  <1>2. T \in TableSet /\ Len(T.node) \in Nat
    BY TablesTypes DEF TablesOK
  <1>3. r \in Refs /\ r.ns = "struct" /\ r.id = Len(T.node) + 1
    BY <1>2 DEF Logs!Ref, Refs
  <1>4. \A p \in T.st : p.id <= Len(T.node) /\ p.id \in Nat
    BY <1>2, TablesTypes DEF TablesOK, StructsOK
  <1> HIDE DEF r
  <1>5. Unpublished(T, r)
    BY <1>2, <1>3, <1>4 DEF Unpublished, Logs!Pool
  <1>6. Grows(T, T, r)
    BY <1>2, <1>3, <1>5 DEF Grows
  <1> QED
    BY <1>1, <1>5, <1>6

LEMMA GoesOn ==
  ASSUME NEW T, NEW un, NEW fl, NEW er, NEW dn, NEW st, PoolsOK(T, un, fl, er, dn, st),
         NEW U, NEW r, Grows(T, U, r), TablesOK(U), Unpublished(U, r),
         NEW w \in Worker, Busy(st, w), OnlyTop(st, w, r), TopOf(st, w).at # "stage",
         NEW g \in Frames, FrameOK(U, JobOf(dn, w), g), g.call \in Called, g.at # "stage",
         SameCall(TopOf(st, w), g),
         Owning(g) => \/ Logs!OwnRef(g) = r
                      \/ Owning(TopOf(st, w)) /\ Logs!OwnRef(g) = Logs!OwnRef(TopOf(st, w)),
         NEW next, next = WentOn(st, w, g)
  PROVE  PoolsOK(U, un, fl, er, dn, next)
  <1>1. Stacks(T, dn, st) /\ Staging(T, un, fl, er, AtStage(st))
    BY DEF PoolsOK
  <1>2. Stacks(U, dn, next) /\ AtStage(next) = AtStage(st)
    <2>1. Stacks(U, dn, next) /\ AtStage(next) = Left(st, w)
      BY <1>1, Went
    <2> QED
      BY <2>1 DEF Left
  <1>3. ~Published(U, r)
    BY DEF Published
  <1>4. Staging(U, un, fl, er, AtStage(next))
    BY <1>1, <1>2, <1>3, StagingGrows
  <1> QED
    BY <1>2, <1>4 DEF PoolsOK

LEMMA Publishes ==
  ASSUME NEW T, NEW un, NEW fl, NEW er, NEW dn, NEW st, PoolsOK(T, un, fl, er, dn, st),
         NEW U, NEW r, Grows(T, U, r), TablesOK(U),
         NEW w \in Worker, Busy(st, w), OnlyTop(st, w, r), TopOf(st, w).at # "stage",
         NEW g \in Frames, FrameOK(U, JobOf(dn, w), g), g.call \in Called, g.at = "stage",
         SameCall(TopOf(st, w), g), Logs!OwnRef(g) = r,
         NEW next, next = WentOn(st, w, g)
  PROVE  PoolsOK(U, un, fl, er, dn, next)
  <1>1. Stacks(T, dn, st) /\ Staging(T, un, fl, er, AtStage(st)) /\ r \in Refs
    BY DEF PoolsOK, Grows
  <1>2. Stacks(U, dn, next) /\ AtStage(next) = AtStage(st) \cup {r}
    BY <1>1, Went
  <1>3. AtStage(st) \subseteq AtStage(next) /\ r \in AtStage(next)
        /\ AtStage(next) \subseteq AtStage(st) \cup {r}
    BY <1>2
  <1>4. Staging(U, un, fl, er, AtStage(next))
    BY <1>1, <1>3, StagingGrows
  <1> QED
    BY <1>2, <1>4 DEF PoolsOK

LEMMA Gives ==
  ASSUME NEW T, NEW un, NEW fl, NEW er, NEW dn, NEW st, PoolsOK(T, un, fl, er, dn, st),
         NEW U, NEW r, Grows(T, U, r), TablesOK(U), Unpublished(U, r),
         NEW w \in Worker, Busy(st, w), OnlyTop(st, w, r), TopOf(st, w).at # "stage",
         TopOf(st, w).call \in Called, NEW x, Answers(U, x, TopOf(st, w)),
         NEW next, next = Gone(st, w, x)
  PROVE  PoolsOK(U, un, fl, er, dn, next)
  <1>1. Stacks(T, dn, st) /\ Staging(T, un, fl, er, AtStage(st))
    BY DEF PoolsOK
  <1>2. Stacks(U, dn, next) /\ AtStage(next) = AtStage(st)
    <2>1. Stacks(U, dn, next) /\ AtStage(next) = Left(st, w)
      BY <1>1, Gave
    <2> QED
      BY <2>1 DEF Left
  <1>3. ~Published(U, r)
    BY DEF Published
  <1>4. Staging(U, un, fl, er, AtStage(next))
    BY <1>1, <1>2, <1>3, StagingGrows
  <1> QED
    BY <1>2, <1>4 DEF PoolsOK

\* A published number of a call.
LEMMA StagedIsPublished ==
  ASSUME NEW T, TablesOK(T), NEW job, NEW f \in Frames, FrameOK(T, job, f), f.at \in Staged
  PROVE  /\ f.call \in Called /\ Published(T, Logs!OwnRef(f)) /\ Answers(T, Logs!OwnRef(f), f)
         /\ f.pool = PoolOf(Logs!OwnRef(f))
         /\ ShortOf(T, Logs!OwnRef(f))
              = Logs!Item(Logs!OwnRef(f), IF f.call = "string" THEN f.text ELSE None,
                                         IF f.call = "fields" THEN f.names ELSE <<>>)
  <1>0. T \in TableSet /\ f.call \in Called
    BY DEF TablesOK, Frames, Calling, Strings, FieldSets, Structs, JobFrames, Staged, Called
  <1>1. CASE f.call = "string"
    <2>1. /\ f \in Strings /\ f.pool \in Logs!Pool /\ f.text \in Text /\ f.id \in Nat
          /\ f.pool \in {"client", "server"}
      BY <1>1, ByCall DEF Strings, Logs!Pool
    <2>2. f.id # 0 /\ T.str[f.pool][f.text] = f.id
      BY <1>1 DEF FrameOK, StringOK
    <2>3. T.ids[f.pool][f.id] = f.text
      BY <2>1, <2>2 DEF TablesOK, StringsOK
    <2>4. Logs!OwnRef(f) = [ns |-> f.pool, id |-> f.id]
      BY <1>1 DEF Logs!OwnRef, Logs!Ref
    <2> DEFINE r == Logs!OwnRef(f)
    <2> HIDE DEF r
    <2>5. r.ns = f.pool /\ r.id = f.id /\ r \in Refs
      BY <2>1, <2>2, <2>4 DEF r, Refs
    <2>6. Published(T, r) /\ Answers(T, r, f) /\ f.pool = PoolOf(r)
      BY <1>1, <2>1, <2>2, <2>5 DEF Published, Unpublished, Answers, StringIs, PoolOf, Logs!Pool
    <2>7. ShortOf(T, r) = Logs!Item(r, f.text, <<>>)
      BY <2>1, <2>3, <2>5 DEF ShortOf
    <2> QED
      BY <1>0, <1>1, <2>6, <2>7 DEF r
  <1>2. CASE f.call = "fields"
    <2>1. f \in FieldSets /\ f.pool = "server" /\ f.id \in Nat
      BY <1>2, ByCall DEF FieldSets
    <2> DEFINE p == [key |-> f.names, id |-> f.id]
    <2>2. f.id # 0 /\ p \in T.fld /\ p.id = f.id /\ p.key = f.names
      BY <1>2 DEF FrameOK, FieldSetOK
    <2>3. T.fids[f.id] = f.names
      BY <2>2 DEF TablesOK, FieldsOK
    <2>4. Logs!OwnRef(f) = [ns |-> "fields", id |-> f.id]
      BY <1>2 DEF Logs!OwnRef, Logs!Ref
    <2> DEFINE r == Logs!OwnRef(f)
    <2> HIDE DEF r
    <2>5. r.ns = "fields" /\ r.id = f.id /\ r \in Refs
      BY <2>1, <2>2, <2>4 DEF r, Refs
    <2>6. Published(T, r) /\ Answers(T, r, f) /\ f.pool = PoolOf(r)
      BY <1>2, <2>1, <2>2, <2>5 DEF Published, Unpublished, Answers, FieldsAre, PoolOf, Logs!Pool
    <2>7. ShortOf(T, r) = Logs!Item(r, None, f.names)
      BY <2>1, <2>3, <2>5 DEF ShortOf, Logs!Pool
    <2> QED
      BY <1>0, <1>2, <2>6, <2>7 DEF r
  <1>3. CASE f.call = "struct"
    <2>1. f \in Structs /\ f.pool = "server"
      BY <1>3, ByCall DEF Structs
    <2> DEFINE p == [key |-> Logs!StructKey(f), id |-> f.id]
    <2>2. f.id \in Nat \ {0} /\ T.node[f.id] = f.node /\ p \in T.st /\ p.id = f.id
      BY <1>0, <1>3, TablesTypes DEF FrameOK, StructOK
    <2>4. Logs!OwnRef(f) = [ns |-> "struct", id |-> f.id]
      BY <1>3 DEF Logs!OwnRef, Logs!Ref
    <2> DEFINE r == Logs!OwnRef(f)
    <2> HIDE DEF r
    <2>5. r.ns = "struct" /\ r.id = f.id /\ r \in Refs
      BY <2>1, <2>2, <2>4 DEF r, Refs
    <2>6. Published(T, r) /\ Answers(T, r, f) /\ f.pool = PoolOf(r)
      BY <1>3, <2>1, <2>2, <2>5 DEF Published, Unpublished, Answers, StructIs, PoolOf, Logs!Pool
    <2>7. ShortOf(T, r) = Logs!Item(r, None, <<>>)
      BY <2>5 DEF ShortOf, Logs!Pool
    <2> QED
      BY <1>0, <1>3, <2>6, <2>7 DEF r
  <1> QED
    BY <1>0, <1>1, <1>2, <1>3 DEF Called

\* An item is staged: its call goes on to flush the batch, or returns.
LEMMA Stages ==
  ASSUME NEW T, NEW un, NEW fl, NEW er, NEW dn, NEW st, PoolsOK(T, un, fl, er, dn, st),
         NEW w \in Worker, Busy(st, w), TopOf(st, w).at = "stage",
         NEW item, item = ShortOf(T, Logs!OwnRef(TopOf(st, w))),
         NEW un2, un2 = [un EXCEPT ![TopOf(st, w).pool] = @ \cup {item}],
         NEW next,
         \/ next = WentOn(st, w, Placed(TopOf(st, w), "flush"))
         \/ next = Gone(st, w, Logs!OwnRef(TopOf(st, w)))
  PROVE  PoolsOK(T, un2, fl, er, dn, next)
  <1> DEFINE f == TopOf(st, w)
             job == JobOf(dn, w)
             g == [f EXCEPT !.at = "flush"]
  <1>1. TablesOK(T) /\ Stacks(T, dn, st) /\ Staging(T, un, fl, er, AtStage(st))
    BY DEF PoolsOK
  <1>2. f \in Frames /\ FrameOK(T, job, f)
    BY <1>1, Topmost DEF Busy, TopOf, JobOf
  <1>3. /\ f.call \in Called /\ Published(T, Logs!OwnRef(f)) /\ Answers(T, Logs!OwnRef(f), f)
        /\ f.pool = PoolOf(Logs!OwnRef(f))
    <2> HIDE DEF job
    <2> QED
      BY <1>1, <1>2, StagedIsPublished DEF Staged
  <1>4. PICK r : Grows(T, T, r) /\ Unpublished(T, r) /\ OnlyTop(st, w, r)
    BY <1>1, Still
  <1>5. Logs!OwnRef(f) \in AtStage(st)
    BY <1>3 DEF AtStage, StagedBy, Published, Busy, TopOf
  <1>6. Staging(T, un2, fl, er, AtStage(st) \ {Logs!OwnRef(f)})
    BY <1>1, <1>3, <1>5, StagingAdds
  <1>7. CASE next = WentOn(st, w, Placed(TopOf(st, w), "flush"))
    <2>0. Placed(f, "flush") = g
      BY DEF Placed
    <2>1. /\ g \in Frames /\ g.call = f.call /\ g.at = "flush" /\ ~Owning(g)
          /\ FrameOK(T, job, g) /\ SameCall(f, g)
      <3> HIDE DEF f, job
      <3>0. f.at = "stage"
        BY DEF f
      <3>1. CASE f.call = "string"
        <4>1. f \in Strings /\ StringOK(T, f)
          BY <1>2, <3>1, ByCall DEF FrameOK
        <4>2. /\ g \in Strings /\ g.at = "flush" /\ g.text = f.text /\ g.pool = f.pool
              /\ g.id = f.id /\ g.call = "string"
          BY <4>1 DEF Strings
        <4> QED
          BY <3>0, <3>1, <4>1, <4>2
          DEF Frames, Calling, Owning, OwningAt, FrameOK, StringOK, Staged, SameCall, Called
      <3>2. CASE f.call = "fields"
        <4>1. f \in FieldSets /\ FieldSetOK(T, f)
          BY <1>2, <3>2, ByCall DEF FrameOK
        <4>2. /\ g \in FieldSets /\ g.at = "flush" /\ g.names = f.names /\ g.id = f.id
              /\ g.call = "fields"
          BY <4>1 DEF FieldSets
        <4> QED
          BY <3>0, <3>2, <4>1, <4>2
          DEF Frames, Calling, Owning, OwningAt, FrameOK, FieldSetOK, Staged, SameCall, Called
      <3>3. CASE f.call = "struct"
        <4>1. f \in Structs /\ StructOK(T, f)
          BY <1>2, <3>3, ByCall DEF FrameOK
        <4>2. /\ g \in Structs /\ g.at = "flush" /\ g.names = f.names /\ g.id = f.id
              /\ g.call = "struct"
              /\ g.fields = f.fields /\ g.values = f.values /\ g.cells = f.cells
              /\ g.nested = f.nested
              /\ g.node = f.node
          BY <4>1 DEF Structs, StructPlaces
        <4>3. StructOK(T, g)
          BY <3>0, <4>1, <4>2 DEF StructOK, Logs!StructKey, Staged, OwningAt
        <4> QED
          BY <3>0, <3>3, <4>2, <4>3 DEF Frames, Calling, Owning, OwningAt, FrameOK, SameCall, Called
      <3> QED
        BY <1>3, <3>1, <3>2, <3>3 DEF Called
    <2> HIDE DEF g, job
    <2>2. next = WentOn(st, w, g)
      BY <1>7, <2>0
    <2>3. g.at # "stage" /\ Stacks(T, dn, st) /\ SameCall(TopOf(st, w), g) /\ g.call \in Called
      BY <1>1, <1>3, <2>1
    <2>4. Stacks(T, dn, next) /\ AtStage(next) = Left(st, w)
      BY <1>4, <2>1, <2>2, <2>3, Went DEF job
    <2> QED
      BY <1>1, <1>6, <2>4 DEF PoolsOK, Left
  <1>8. CASE next = Gone(st, w, Logs!OwnRef(TopOf(st, w)))
    <2>1. Stacks(T, dn, next) /\ AtStage(next) = Left(st, w)
      BY <1>1, <1>3, <1>4, <1>8, Gave
    <2> QED
      BY <1>1, <1>6, <2>1 DEF PoolsOK, Left
  <1> QED
    BY <1>7, <1>8

LEMMA StillGoes ==
  ASSUME NEW T, NEW un, NEW fl, NEW er, NEW dn, NEW st, PoolsOK(T, un, fl, er, dn, st),
         NEW w \in Worker, Busy(st, w), TopOf(st, w).at # "stage",
         NEW g \in Frames, FrameOK(T, JobOf(dn, w), g), g.call \in Called, g.at # "stage",
         SameCall(TopOf(st, w), g),
         Owning(g) => Owning(TopOf(st, w)) /\ Logs!OwnRef(g) = Logs!OwnRef(TopOf(st, w))
  PROVE  PoolsOK(T, un, fl, er, dn, WentOn(st, w, g))
  <1>1. TablesOK(T) /\ Stacks(T, dn, st)
    BY DEF PoolsOK
  <1>2. PICK r : Grows(T, T, r) /\ Unpublished(T, r) /\ OnlyTop(st, w, r)
    BY <1>1, Still
  <1> QED
    BY <1>1, <1>2, GoesOn

LEMMA StillGives ==
  ASSUME NEW T, NEW un, NEW fl, NEW er, NEW dn, NEW st, PoolsOK(T, un, fl, er, dn, st),
         NEW w \in Worker, Busy(st, w), TopOf(st, w).at # "stage",
         TopOf(st, w).call \in Called, NEW x, Answers(T, x, TopOf(st, w))
  PROVE  PoolsOK(T, un, fl, er, dn, Gone(st, w, x))
  <1>1. TablesOK(T) /\ Stacks(T, dn, st)
    BY DEF PoolsOK
  <1>2. PICK r : Grows(T, T, r) /\ Unpublished(T, r) /\ OnlyTop(st, w, r)
    BY <1>1, Still
  <1> QED
    BY <1>1, <1>2, Gives

-----------------------------------------------------------------------------
(* The frames of the actions.                                              *)

Numbered(f, at, id) == [f EXCEPT !.at = at, !.id = id]

\* The number id was given for f, or is published for it.
StringHas(T, f, at, id) ==
  /\ id \in Nat /\ at \in {"publish", "stage"}
  /\ at = "publish" => id \in 1..Len(T.ids[f.pool]) /\ T.ids[f.pool][id] = f.text
                       /\ Unpublished(T, Logs!Ref(f.pool, id))
  /\ at = "stage" => id # 0 /\ T.str[f.pool][f.text] = id

\* The call f goes on as g at a place, and r is its number there.
Takes(T, job, f, g, at, r) ==
  /\ g \in Frames /\ FrameOK(T, job, g) /\ SameCall(f, g) /\ g.at = at /\ g.call \in Called
  /\ Logs!OwnRef(g) = r

LEMMA StringFrame ==
  ASSUME NEW T, NEW job, NEW f \in Strings, NEW at, NEW id, StringHas(T, f, at, id),
         NEW g, g = Numbered(f, at, id)
  PROVE  Takes(T, job, f, g, at, Logs!Ref(f.pool, id))
  <1>1. /\ g \in Strings /\ g.at = at /\ g.call = "string" /\ f.call = "string"
        /\ g.pool = f.pool /\ g.text = f.text /\ g.id = id
    BY DEF Strings, Numbered, StringHas
  <1>2. StringOK(T, g)
    BY <1>1 DEF StringOK, Staged, StringHas
  <1>3. Logs!OwnRef(g) = Logs!Ref(f.pool, id)
    BY <1>1 DEF Logs!OwnRef
  <1>4. at # "stage" => Unpublished(T, Logs!OwnRef(g))
    BY <1>3 DEF StringHas
  <1>5. FrameOK(T, job, g)
    BY <1>1, <1>2, <1>4 DEF FrameOK, Called
  <1> QED
    BY <1>1, <1>3, <1>4, <1>5 DEF Frames, Calling, SameCall, Called, Takes

FieldsHave(T, f, at, id) ==
  /\ id \in Nat /\ at \in {"publish", "stage"}
  /\ at = "publish" => id \in 1..Len(T.fids) /\ T.fids[id] = f.names
                       /\ Unpublished(T, Logs!Ref("fields", id))
  /\ at = "stage" => id # 0 /\ [key |-> f.names, id |-> id] \in T.fld

LEMMA FieldsFrame ==
  ASSUME NEW T, NEW job, NEW f \in FieldSets, NEW at, NEW id, FieldsHave(T, f, at, id),
         NEW g, g = Numbered(f, at, id)
  PROVE  Takes(T, job, f, g, at, Logs!Ref("fields", id))
  <1>1. /\ g \in FieldSets /\ g.at = at /\ g.call = "fields" /\ f.call = "fields"
        /\ g.names = f.names /\ g.id = id
    BY DEF FieldSets, Numbered, FieldsHave
  <1>2. FieldSetOK(T, g)
    BY <1>1 DEF FieldSetOK, Staged, FieldsHave
  <1>3. Logs!OwnRef(g) = Logs!Ref("fields", id)
    BY <1>1 DEF Logs!OwnRef
  <1>4. at # "stage" => Unpublished(T, Logs!OwnRef(g))
    BY <1>3 DEF FieldsHave
  <1>5. FrameOK(T, job, g)
    BY <1>1, <1>2, <1>4 DEF FrameOK, Called
  <1> QED
    BY <1>1, <1>3, <1>5 DEF Frames, Calling, SameCall, Called, Takes

StructHas(U, f, at, id) ==
  /\ at \in {"nested", "cells", "publish", "stage"}
  /\ id \in Nat /\ id \in 1..Len(U.node) /\ U.node[id] = f.node
  /\ at \in {"publish", "stage"} =>
       /\ Len(f.cells) = Len(Values[f.node])
       /\ U.fst[id] = [fields |-> f.fields, cells |-> f.cells]
  /\ at = "stage" => [key |-> Logs!StructKey(f), id |-> id] \in U.st
  /\ at # "stage" => Unpublished(U, Logs!Ref("struct", id))

LEMMA StructFrame ==
  ASSUME NEW T, NEW U, NEW r, Grows(T, U, r), NEW job, NEW f \in Structs, StructOK(T, f),
         f.at \notin {"names", "fields", "values"},
         NEW at, NEW id, StructHas(U, f, at, id), NEW g, g = Numbered(f, at, id)
  PROVE  Takes(U, job, f, g, at, Logs!Ref("struct", id))
  <1>1. /\ g \in Structs /\ g.at = at /\ g.call = "struct" /\ f.call = "struct" /\ g.node = f.node
        /\ g.names = f.names /\ g.fields = f.fields /\ g.values = f.values
        /\ g.nested = f.nested /\ g.cells = f.cells /\ g.id = id
    BY DEF Structs, StructPlaces, Numbered, StructHas
  <1>2. /\ Are(U, f.names, Names[f.node]) /\ Are(U, f.values, Values[f.node])
        /\ Are(U, f.cells, Values[f.node]) /\ Are(U, f.nested, Logs!Maps(f.node))
    BY AreKept DEF StructOK
  <1>3. Len(f.fields) <= 1 /\ (f.fields # <<>> => FieldsAre(U, f.fields[1], f.names))
    <2>1. f.fields \in Seq(Refs) /\ Len(f.fields) = 1
      BY DEF Structs, StructOK
    <2>2. f.fields[1] \in Refs
      BY <2>1
    <2> QED
      BY <2>1, <2>2, IsKept DEF StructOK
  <1>4. StructOK(U, g)
    BY <1>1, <1>2, <1>3 DEF StructOK, Logs!StructKey, Staged, OwningAt, StructHas
  <1>5. Logs!OwnRef(g) = Logs!Ref("struct", id)
    BY <1>1 DEF Logs!OwnRef
  <1>6. at # "stage" => Unpublished(U, Logs!OwnRef(g))
    BY <1>5 DEF StructHas
  <1>7. FrameOK(U, job, g)
    BY <1>1, <1>4, <1>6 DEF FrameOK, Called
  <1> QED
    BY <1>1, <1>5, <1>7 DEF Frames, Calling, SameCall, Called, Takes

LEMMA PlacedIs ==
  ASSUME NEW f \in Calling, NEW at
  PROVE  Placed(f, at) = Numbered(f, at, f.id)
  <1>1. CASE f \in Strings
    BY <1>1 DEF Strings, Placed, Numbered
  <1>2. CASE f \in FieldSets
    BY <1>2 DEF FieldSets, Placed, Numbered
  <1>3. CASE f \in Structs
    BY <1>3 DEF Structs, Placed, Numbered
  <1> QED
    BY <1>1, <1>2, <1>3 DEF Calling

\* A string call goes on to look elsewhere, or to make the string new.
LEMMA StringGoes ==
  ASSUME NEW T, NEW un, NEW fl, NEW er, NEW dn, NEW st, PoolsOK(T, un, fl, er, dn, st),
         NEW w \in Worker, Busy(st, w), NEW f \in Strings, f = TopOf(st, w), f.at # "stage",
         NEW at \in {"parent", "new"}
  PROVE  PoolsOK(T, un, fl, er, dn, WentOn(st, w, Placed(f, at)))
<1>1. f \in Calling /\ f.id \in Nat
  BY DEF Calling, Strings
<1>2. PICK g : g = Numbered(f, at, f.id)
  OBVIOUS
<1>3. Placed(f, at) = g
  BY <1>1, <1>2, PlacedIs
<1>4. at # "publish" /\ at # "stage"
  OBVIOUS
<1>5. /\ g \in Frames /\ FrameOK(T, JobOf(dn, w), g) /\ SameCall(f, g) /\ g.at = at
      /\ g.call \in Called /\ ~Owning(g)
  <2>1. /\ g \in Strings /\ g.at = at /\ g.call = "string" /\ f.call = "string"
        /\ g.pool = f.pool /\ g.text = f.text
    BY <1>2 DEF Strings, Numbered
  <2>2. StringOK(T, g) /\ ~Owning(g)
    BY <2>1 DEF StringOK, Staged, Owning, OwningAt
  <2> QED
    BY <2>1, <2>2 DEF FrameOK, Called, Frames, Calling, SameCall
<1> HIDE <1>2
<1>6. PoolsOK(T, un, fl, er, dn, WentOn(st, w, g))
  BY ONLY <1>4, <1>5, StillGoes, PoolsOK(T, un, fl, er, dn, st), w \in Worker, Busy(st, w),
      f = TopOf(st, w), f.at # "stage"
<1> QED BY <1>3, <1>6

\* What is needed of the innermost call.
LEMMA TopIs ==
  ASSUME NEW T, NEW un, NEW fl, NEW er, NEW dn, NEW st, PoolsOK(T, un, fl, er, dn, st),
         NEW w \in Worker, Busy(st, w)
  PROVE  /\ TablesOK(T) /\ Stacks(T, dn, st) /\ TopOf(st, w) \in Frames
         /\ FrameOK(T, JobOf(dn, w), TopOf(st, w))
         /\ Owning(TopOf(st, w)) => OnlyTop(st, w, Logs!OwnRef(TopOf(st, w)))
<1>1. TablesOK(T) /\ Stacks(T, dn, st)
  BY DEF PoolsOK
<1>2. TopOf(st, w) = Logs!Last(st[w]) /\ st[w] # <<>>
  BY DEF TopOf, Busy
<1>3. TopOf(st, w) \in Frames /\ FrameOK(T, JobOf(dn, w), TopOf(st, w))
  BY ONLY <1>1, <1>2, Topmost, w \in Worker DEF JobOf
<1>4. Owning(TopOf(st, w)) => OnlyTop(st, w, Logs!OwnRef(TopOf(st, w)))
  BY ONLY <1>1, HasOwn, w \in Worker, Busy(st, w)
<1> QED BY <1>1, <1>3, <1>4

LEMMA StringIsNew ==
  ASSUME NEW T, NEW un, NEW fl, NEW er, NEW dn, NEW st, PoolsOK(T, un, fl, er, dn, st),
         NEW w \in Worker, Busy(st, w), NEW f \in Strings, f = TopOf(st, w), f.at = "new",
         NEW U, StringAdded(T, U, f.pool, f.text),
         NEW g, g = Numbered(f, "publish", Len(T.ids[f.pool]) + 1)
  PROVE  PoolsOK(U, un, fl, er, dn, WentOn(st, w, g))
<1>1. /\ TablesOK(T) /\ Stacks(T, dn, st) /\ FrameOK(T, JobOf(dn, w), f)
      /\ f.pool \in Logs!Pool /\ f.text \in Text /\ f.call \in Called /\ f.at # "stage"
  BY TopIs DEF Strings, Called
<1>2. PICK r : r = Logs!Ref(f.pool, Len(T.ids[f.pool]) + 1)
  OBVIOUS
<1>3. Grows(T, U, r) /\ TablesOK(U)
  BY ONLY <1>1, <1>2, NewStringTables, StringAdded(T, U, f.pool, f.text)
<1>4. OnlyTop(st, w, r)
  BY ONLY <1>1, <1>2, NobodyHas
<1>5. /\ Len(T.ids[f.pool]) \in Nat /\ T.ids[f.pool] \in Seq(Text \cup {None})
      /\ DOMAIN T.ids = Logs!Pool
  BY <1>1, TablesTypes DEF TablesOK, TableSet
<1>6. U.ids[f.pool] = Append(T.ids[f.pool], f.text)
  BY <1>1, <1>5 DEF StringAdded
<1> DEFINE id == Len(T.ids[f.pool]) + 1
<1>7. /\ id \in Nat /\ id \in 1..Len(U.ids[f.pool]) /\ U.ids[f.pool][id] = f.text
  BY <1>1, <1>5, <1>6
<1>8. Unpublished(U, Logs!Ref(f.pool, id))
  <2>1. U.str = T.str /\ U.fld = T.fld /\ U.st = T.st
    BY DEF SameFields, SameStructs, StringAdded, StringGivenUp
  <2>2. Unpublished(T, r)
    BY <1>3 DEF Grows
  <2> QED BY <1>2, <2>1, <2>2 DEF Unpublished
<1>9. Takes(U, JobOf(dn, w), f, g, "publish", r)
  <2>1. StringHas(U, f, "publish", id)
    BY <1>7, <1>8 DEF StringHas
  <2> QED BY ONLY Zenon, <2>1, <1>2, f \in Strings, StringFrame,
                 g = Numbered(f, "publish", Len(T.ids[f.pool]) + 1)
<1>10. /\ Logs!OwnRef(g) = r /\ Unpublished(U, r) /\ g \in Frames /\ FrameOK(U, JobOf(dn, w), g)
       /\ SameCall(f, g) /\ g.at = "publish" /\ g.call \in Called
  BY <1>2, <1>8, <1>9 DEF Takes
<1>11. g.at # "stage"
  BY <1>10
<1> QED
  BY ONLY <1>1, <1>3, <1>4, <1>10, <1>11, GoesOn, PoolsOK(T, un, fl, er, dn, st), w \in Worker,
      Busy(st, w), f = TopOf(st, w)

LEMMA StringGivesUp ==
  ASSUME NEW T, NEW un, NEW fl, NEW er, NEW dn, NEW st, PoolsOK(T, un, fl, er, dn, st),
         NEW w \in Worker, Busy(st, w), NEW f \in Strings, f = TopOf(st, w), f.at = "publish",
         T.str[f.pool][f.text] # 0,
         NEW U, StringGivenUp(T, U, f)
  PROVE  PoolsOK(U, un, fl, er, dn, Gone(st, w, Logs!Ref(f.pool, T.str[f.pool][f.text])))
<1>1. /\ TablesOK(T) /\ FrameOK(T, JobOf(dn, w), f) /\ f.call \in Called /\ f.at # "stage"
      /\ f.pool \in Logs!Pool /\ f.text \in Text
  BY TopIs DEF Strings, Called
<1>2. Owning(f) /\ OnlyTop(st, w, Logs!OwnRef(f))
  BY <1>1, TopIs DEF Owning, OwningAt
<1>3. Grows(T, U, Logs!OwnRef(f)) /\ TablesOK(U)
  BY ONLY <1>1, GiveUpStringTables, f \in Strings, f.at = "publish", StringGivenUp(T, U, f)
<1>4. Unpublished(U, Logs!OwnRef(f))
  <2>1. U.str = T.str /\ U.fld = T.fld /\ U.st = T.st
    BY DEF SameFields, SameStructs, StringAdded, StringGivenUp
  <2>2. Unpublished(T, Logs!OwnRef(f))
    BY <1>3 DEF Grows
  <2> QED BY <2>1, <2>2 DEF Unpublished
<1>5. PICK x : x = Logs!Ref(f.pool, T.str[f.pool][f.text])
  OBVIOUS
<1>6. Answers(U, x, f)
  BY <1>1, <1>3, <1>5, Found DEF StringGivenUp
<1>7. PoolsOK(U, un, fl, er, dn, Gone(st, w, x))
  BY ONLY <1>1, <1>2, <1>3, <1>4, <1>6, Gives, PoolsOK(T, un, fl, er, dn, st), w \in Worker,
      Busy(st, w), f = TopOf(st, w)
<1> QED BY <1>5, <1>7

LEMMA StringIsPublished ==
  ASSUME NEW T, NEW un, NEW fl, NEW er, NEW dn, NEW st, PoolsOK(T, un, fl, er, dn, st),
         NEW w \in Worker, Busy(st, w), NEW f \in Strings, f = TopOf(st, w), f.at = "publish",
         T.str[f.pool][f.text] = 0,
         NEW U, StringPublished(T, U, f)
  PROVE  PoolsOK(U, un, fl, er, dn, WentOn(st, w, Placed(f, "stage")))
<1>1. /\ TablesOK(T) /\ FrameOK(T, JobOf(dn, w), f) /\ f.call \in Called /\ f.at # "stage"
      /\ f.pool \in Logs!Pool /\ f.text \in Text /\ f.id \in Nat /\ f \in Calling
  BY TopIs DEF Strings, Called, Calling
<1>2. Owning(f) /\ OnlyTop(st, w, Logs!OwnRef(f))
  BY <1>1, TopIs DEF Owning, OwningAt
<1>3. Grows(T, U, Logs!OwnRef(f)) /\ TablesOK(U) /\ f.id # 0 /\ U.str[f.pool][f.text] = f.id
  BY ONLY <1>1, PublishStringTables, f \in Strings, f.at = "publish", StringPublished(T, U, f),
      T.str[f.pool][f.text] = 0
<1>4. PICK g : g = Numbered(f, "stage", f.id)
  OBVIOUS
<1>5. Placed(f, "stage") = g
  BY <1>1, <1>4, PlacedIs
<1>6. Takes(U, JobOf(dn, w), f, g, "stage", Logs!Ref(f.pool, f.id))
  <2>1. StringHas(U, f, "stage", f.id)
    BY <1>1, <1>3 DEF StringHas
  <2> QED BY ONLY Zenon, <2>1, <1>4, f \in Strings, StringFrame
<1>7. /\ Logs!OwnRef(g) = Logs!OwnRef(f) /\ g \in Frames /\ FrameOK(U, JobOf(dn, w), g)
      /\ SameCall(f, g) /\ g.at = "stage" /\ g.call \in Called
  BY <1>6 DEF Logs!OwnRef, Strings, Takes
<1>8. PoolsOK(U, un, fl, er, dn, WentOn(st, w, g))
  BY ONLY <1>1, <1>2, <1>3, <1>7, Publishes, PoolsOK(T, un, fl, er, dn, st), w \in Worker, Busy(st,
      w), f = TopOf(st, w)
<1> QED BY <1>5, <1>8

LEMMA FieldsAreNew ==
  ASSUME NEW T, NEW un, NEW fl, NEW er, NEW dn, NEW st, PoolsOK(T, un, fl, er, dn, st),
         NEW w \in Worker, Busy(st, w), NEW f \in FieldSets, f = TopOf(st, w), f.at = "load",
         NEW U, FieldsAdded(T, U, f.names),
         NEW g, g = Numbered(f, "publish", Len(T.fids) + 1)
  PROVE  PoolsOK(U, un, fl, er, dn, WentOn(st, w, g))
<1>1. /\ TablesOK(T) /\ Stacks(T, dn, st) /\ FrameOK(T, JobOf(dn, w), f)
      /\ f.names \in Seq(Refs) /\ f.call \in Called /\ f.at # "stage"
  BY TopIs DEF FieldSets, Called
<1>2. PICK r : r = Logs!Ref("fields", Len(T.fids) + 1)
  OBVIOUS
<1>3. Grows(T, U, r) /\ TablesOK(U)
  BY ONLY <1>1, <1>2, NewFieldsTables, FieldsAdded(T, U, f.names)
<1>4. OnlyTop(st, w, r)
  BY ONLY <1>1, <1>2, NobodyHas
<1>5. Len(T.fids) \in Nat /\ T.fids \in Seq(Seq(Refs)) /\ U.fids = Append(T.fids, f.names)
  BY <1>1, TablesTypes DEF TablesOK, FieldsAdded
<1> DEFINE id == Len(T.fids) + 1
<1>6. id \in Nat /\ id \in 1..Len(U.fids) /\ U.fids[id] = f.names
  BY <1>1, <1>5
<1>7. Unpublished(U, Logs!Ref("fields", id))
  <2>1. U.str = T.str /\ U.fld = T.fld /\ U.st = T.st
    BY DEF SameStrings, SameStructs, FieldsAdded
  <2>2. Unpublished(T, r)
    BY <1>3 DEF Grows
  <2> QED BY <1>2, <2>1, <2>2 DEF Unpublished
<1>8. Takes(U, JobOf(dn, w), f, g, "publish", r)
  <2>1. FieldsHave(U, f, "publish", id)
    BY <1>6, <1>7 DEF FieldsHave
  <2> QED BY ONLY Zenon, <2>1, <1>2, f \in FieldSets, FieldsFrame,
                 g = Numbered(f, "publish", Len(T.fids) + 1)
<1>9. /\ Logs!OwnRef(g) = r /\ Unpublished(U, r) /\ g \in Frames /\ FrameOK(U, JobOf(dn, w), g)
      /\ SameCall(f, g) /\ g.at # "stage" /\ g.call \in Called
  BY <1>2, <1>7, <1>8 DEF Takes
<1> QED
  BY ONLY <1>1, <1>3, <1>4, <1>9, GoesOn, PoolsOK(T, un, fl, er, dn, st), w \in Worker, Busy(st, w),
      f = TopOf(st, w)

LEMMA FieldsGiveUp ==
  ASSUME NEW T, NEW un, NEW fl, NEW er, NEW dn, NEW st, PoolsOK(T, un, fl, er, dn, st),
         NEW w \in Worker, Busy(st, w), NEW f \in FieldSets, f = TopOf(st, w), f.at = "publish",
         Logs!Lookup(T.fld, f.names) # 0, NEW U, FieldsGivenUp(T, U, f)
  PROVE  PoolsOK(U, un, fl, er, dn, Gone(st, w, Logs!Ref("fields", Logs!Lookup(T.fld, f.names))))
<1>1. /\ TablesOK(T) /\ FrameOK(T, JobOf(dn, w), f) /\ f.call \in Called /\ f.at # "stage"
  BY TopIs DEF FieldSets, Called
<1>2. Owning(f) /\ OnlyTop(st, w, Logs!OwnRef(f))
  BY <1>1, TopIs DEF Owning, OwningAt
<1>3. Grows(T, U, Logs!OwnRef(f)) /\ TablesOK(U)
  BY ONLY <1>1, GiveUpFieldsTables, f \in FieldSets, f.at = "publish", FieldsGivenUp(T, U, f)
<1>4. Unpublished(U, Logs!OwnRef(f))
  <2>1. U.str = T.str /\ U.fld = T.fld /\ U.st = T.st
    BY DEF SameStrings, SameStructs, FieldsGivenUp
  <2>2. Unpublished(T, Logs!OwnRef(f))
    BY <1>3 DEF Grows
  <2> QED BY <2>1, <2>2 DEF Unpublished
<1>5. PICK x : x = Logs!Ref("fields", Logs!Lookup(T.fld, f.names))
  OBVIOUS
<1>6. Answers(U, x, f)
  BY <1>1, <1>3, <1>5, Found DEF FieldsGivenUp
<1>7. PoolsOK(U, un, fl, er, dn, Gone(st, w, x))
  BY ONLY <1>1, <1>2, <1>3, <1>4, <1>6, Gives, PoolsOK(T, un, fl, er, dn, st), w \in Worker,
      Busy(st, w), f = TopOf(st, w)
<1> QED BY <1>5, <1>7

LEMMA FieldsArePublished ==
  ASSUME NEW T, NEW un, NEW fl, NEW er, NEW dn, NEW st, PoolsOK(T, un, fl, er, dn, st),
         NEW w \in Worker, Busy(st, w), NEW f \in FieldSets, f = TopOf(st, w), f.at = "publish",
         Logs!Lookup(T.fld, f.names) = 0, NEW U, FieldsPublished(T, U, f)
  PROVE  PoolsOK(U, un, fl, er, dn, WentOn(st, w, Placed(f, "stage")))
<1>1. /\ TablesOK(T) /\ FrameOK(T, JobOf(dn, w), f) /\ f.call \in Called /\ f.at # "stage"
      /\ f.id \in Nat /\ f \in Calling
  BY TopIs DEF FieldSets, Called, Calling
<1>2. Owning(f) /\ OnlyTop(st, w, Logs!OwnRef(f))
  BY <1>1, TopIs DEF Owning, OwningAt
<1>3. \A p \in T.fld : p.key # f.names
  <2>1. T.fld \in SUBSET Entries
    BY <1>1 DEF TablesOK, TableSet
  <2> QED BY <2>1, LookupGives
<1>4. Grows(T, U, Logs!OwnRef(f)) /\ TablesOK(U) /\ f.id # 0
  BY ONLY <1>1, <1>3, PublishFieldsTables, f \in FieldSets, f.at = "publish", FieldsPublished(T, U,
      f)
<1>5. PICK g : g = Numbered(f, "stage", f.id)
  OBVIOUS
<1>6. Placed(f, "stage") = g
  BY <1>1, <1>5, PlacedIs
<1>7. Takes(U, JobOf(dn, w), f, g, "stage", Logs!Ref("fields", f.id))
  <2>1. FieldsHave(U, f, "stage", f.id)
    BY <1>1, <1>4 DEF FieldsHave, FieldsPublished
  <2> QED BY ONLY Zenon, <2>1, <1>5, f \in FieldSets, FieldsFrame
<1>8. /\ Logs!OwnRef(g) = Logs!OwnRef(f) /\ g \in Frames /\ FrameOK(U, JobOf(dn, w), g)
      /\ SameCall(f, g) /\ g.at = "stage" /\ g.call \in Called
  BY <1>7 DEF Logs!OwnRef, FieldSets, Takes
<1>9. PoolsOK(U, un, fl, er, dn, WentOn(st, w, g))
  BY ONLY <1>1, <1>2, <1>4, <1>8, Publishes, PoolsOK(T, un, fl, er, dn, st), w \in Worker, Busy(st,
      w), f = TopOf(st, w)
<1> QED BY <1>6, <1>9

LEMMA FieldsAreFound ==
  ASSUME NEW T, NEW un, NEW fl, NEW er, NEW dn, NEW st, PoolsOK(T, un, fl, er, dn, st),
         NEW w \in Worker, Busy(st, w), NEW f \in FieldSets, f = TopOf(st, w), f.at # "stage",
         Logs!Lookup(T.fld, f.names) # 0
  PROVE  PoolsOK(T, un, fl, er, dn, Gone(st, w, Logs!Ref("fields", Logs!Lookup(T.fld, f.names))))
<1>1. TablesOK(T) /\ f.call \in Called
  BY TopIs DEF FieldSets, Called
<1>2. PICK x : x = Logs!Ref("fields", Logs!Lookup(T.fld, f.names))
  OBVIOUS
<1>3. Answers(T, x, f)
  BY <1>1, <1>2, Found
<1>4. PoolsOK(T, un, fl, er, dn, Gone(st, w, x))
  BY ONLY <1>1, <1>3, StillGives, PoolsOK(T, un, fl, er, dn, st), w \in Worker, Busy(st, w),
      f = TopOf(st, w), f.at # "stage"
<1> QED BY <1>2, <1>4

LEMMA StructIsNew ==
  ASSUME NEW T, NEW un, NEW fl, NEW er, NEW dn, NEW st, PoolsOK(T, un, fl, er, dn, st),
         NEW w \in Worker, Busy(st, w), NEW f \in Structs, f = TopOf(st, w), f.at = "load",
         NEW U, StructAdded(T, U, f.node),
         NEW g, g = Numbered(f, "nested", Len(T.fst) + 1)
  PROVE  PoolsOK(U, un, fl, er, dn, WentOn(st, w, g))
<1>1. /\ TablesOK(T) /\ Stacks(T, dn, st) /\ StructOK(T, f)
      /\ f.node \in Struct /\ f.call \in Called
      /\ f.at \notin {"stage", "names", "fields", "values"}
  BY TopIs DEF Structs, Called, FrameOK
<1>2. PICK r : r = Logs!Ref("struct", Len(T.fst) + 1)
  OBVIOUS
<1> DEFINE id == Len(T.fst) + 1
<1>3. /\ Grows(T, U, r) /\ TablesOK(U) /\ id \in 1..Len(U.node) /\ U.node[id] = f.node
  BY ONLY <1>1, <1>2, NewStructTables, StructAdded(T, U, f.node)
<1>4. Len(T.fst) \in Nat /\ Len(T.node) = Len(T.fst) /\ id \in Nat
  BY <1>1, TablesTypes DEF TablesOK, StructsOK
<1>5. OnlyTop(st, w, r)
  <2>1. r = Logs!Ref("struct", Len(T.node) + 1)
    BY <1>2, <1>4
  <2> QED BY ONLY <1>1, <2>1, NobodyHas
<1>6. Unpublished(U, r)
  <2>1. U.str = T.str /\ U.fld = T.fld /\ U.st = T.st
    BY DEF SameStrings, SameFields, StructAdded
  <2>2. Unpublished(T, r)
    BY <1>3 DEF Grows
  <2> QED BY <2>1, <2>2 DEF Unpublished
<1>7. Takes(U, JobOf(dn, w), f, g, "nested", r)
  <2>1. StructHas(U, f, "nested", id)
    BY <1>2, <1>3, <1>4, <1>6 DEF StructHas
  <2>2. f.at \notin {"names", "fields", "values"}
    BY <1>1
  <2> QED BY ONLY Zenon, <2>1, <2>2, <1>1, <1>2, <1>3, f \in Structs, StructFrame,
                 g = Numbered(f, "nested", Len(T.fst) + 1)
<1>8. /\ Logs!OwnRef(g) = r /\ g \in Frames /\ FrameOK(U, JobOf(dn, w), g)
      /\ SameCall(f, g) /\ g.at # "stage" /\ g.call \in Called /\ f.at # "stage"
  BY <1>1, <1>7 DEF Takes
<1> QED
  BY ONLY <1>1, <1>3, <1>5, <1>6, <1>8, GoesOn, PoolsOK(T, un, fl, er, dn, st), w \in Worker,
      Busy(st, w), f = TopOf(st, w)

LEMMA StructIsFound ==
  ASSUME NEW T, NEW un, NEW fl, NEW er, NEW dn, NEW st, PoolsOK(T, un, fl, er, dn, st),
         NEW w \in Worker, Busy(st, w), NEW f \in Structs, f = TopOf(st, w),
         f.at \in {"load", "publish"}, Logs!Lookup(T.st, Logs!StructKey(f)) # 0
  PROVE  PoolsOK(T, un, fl, er, dn,
           Gone(st, w, Logs!Ref("struct", Logs!Lookup(T.st, Logs!StructKey(f)))))
<1>1. /\ TablesOK(T) /\ f.call \in Called /\ StructOK(T, f)
      /\ f.at \notin {"names", "fields", "values"} /\ f.at # "stage"
  BY TopIs DEF Structs, Called, FrameOK
<1>2. PICK x : x = Logs!Ref("struct", Logs!Lookup(T.st, Logs!StructKey(f)))
  OBVIOUS
<1>3. Answers(T, x, f)
  BY <1>1, <1>2, Found
<1>4. PoolsOK(T, un, fl, er, dn, Gone(st, w, x))
  BY ONLY <1>1, <1>3, StillGives, PoolsOK(T, un, fl, er, dn, st), w \in Worker, Busy(st, w),
      f = TopOf(st, w)
<1> QED BY <1>2, <1>4

LEMMA StructLocks ==
  ASSUME NEW T, NEW un, NEW fl, NEW er, NEW dn, NEW st, PoolsOK(T, un, fl, er, dn, st),
         NEW w \in Worker, Busy(st, w), NEW f \in Structs, f = TopOf(st, w), f.at = "lock"
  PROVE  PoolsOK(T, un, fl, er, dn, WentOn(st, w, Placed(f, "cells")))
<1>1. /\ TablesOK(T) /\ Stacks(T, dn, st) /\ StructOK(T, f) /\ f.call = "struct"
      /\ f.at \notin {"names", "fields", "values"} /\ f.at # "stage"
      /\ Owning(f) /\ Unpublished(T, Logs!OwnRef(f)) /\ f \in Calling /\ f.id \in Nat
  BY TopIs DEF Structs, Called, FrameOK, Owning, OwningAt, Calling
<1>2. Logs!OwnRef(f) = Logs!Ref("struct", f.id)
  BY <1>1 DEF Logs!OwnRef
<1>3. f.id \in 1..Len(T.node) /\ T.node[f.id] = f.node
  BY <1>1 DEF StructOK, OwningAt
<1>4. StructHas(T, f, "cells", f.id)
  BY <1>1, <1>2, <1>3 DEF StructHas
<1>5. PICK r : Grows(T, T, r)
  BY <1>1, Still
<1>6. PICK g : g = Numbered(f, "cells", f.id)
  OBVIOUS
<1>7. Placed(f, "cells") = g
  BY <1>1, <1>6, PlacedIs
<1>8. Takes(T, JobOf(dn, w), f, g, "cells", Logs!OwnRef(f))
  <2>1. f.at \notin {"names", "fields", "values"}
    BY <1>1
  <2> QED BY ONLY Zenon, <2>1, <1>1, <1>2, <1>4, <1>5, <1>6, f \in Structs, StructFrame
<1>9. /\ Logs!OwnRef(g) = Logs!OwnRef(f) /\ g \in Frames /\ FrameOK(T, JobOf(dn, w), g)
      /\ SameCall(f, g) /\ g.at # "stage" /\ g.call \in Called
  BY <1>8 DEF Takes
<1>10. PoolsOK(T, un, fl, er, dn, WentOn(st, w, g))
  BY ONLY <1>1, <1>9, StillGoes, PoolsOK(T, un, fl, er, dn, st), w \in Worker, Busy(st, w),
      f = TopOf(st, w)
<1> QED BY <1>7, <1>10

LEMMA BodyIsStored ==
  ASSUME NEW T, NEW un, NEW fl, NEW er, NEW dn, NEW st, PoolsOK(T, un, fl, er, dn, st),
         NEW w \in Worker, Busy(st, w), NEW f \in Structs, f = TopOf(st, w), f.at = "unlock",
         NEW U, BodyStored(T, U, f)
  PROVE  PoolsOK(U, un, fl, er, dn, WentOn(st, w, Placed(f, "publish")))
<1>1. /\ TablesOK(T) /\ FrameOK(T, JobOf(dn, w), f) /\ StructOK(T, f) /\ f.call = "struct"
      /\ f.at \notin {"names", "fields", "values"} /\ f.at # "stage"
      /\ Owning(f) /\ Unpublished(T, Logs!OwnRef(f)) /\ f \in Calling /\ f.id \in Nat
  BY TopIs DEF Structs, Called, FrameOK, Owning, OwningAt, Calling
<1>2. Logs!OwnRef(f) = Logs!Ref("struct", f.id) /\ OnlyTop(st, w, Logs!OwnRef(f))
  BY <1>1, TopIs DEF Logs!OwnRef
<1>3. /\ Grows(T, U, Logs!OwnRef(f)) /\ TablesOK(U)
      /\ U.fst[f.id] = [fields |-> f.fields, cells |-> f.cells]
  BY ONLY <1>1, StoreStructTables, f \in Structs, f.at = "unlock", BodyStored(T, U, f)
<1>4. Unpublished(U, Logs!OwnRef(f))
  <2>1. U.str = T.str /\ U.fld = T.fld /\ U.st = T.st
    BY DEF SameStrings, SameFields, BodyStored
  <2> QED BY <1>1, <2>1 DEF Unpublished
<1>5. f.id \in 1..Len(U.node) /\ U.node[f.id] = f.node /\ Len(f.cells) = Len(Values[f.node])
  BY <1>1 DEF StructOK, OwningAt, BodyStored
<1>6. StructHas(U, f, "publish", f.id)
  BY <1>1, <1>2, <1>3, <1>4, <1>5 DEF StructHas
<1>7. PICK g : g = Numbered(f, "publish", f.id)
  OBVIOUS
<1>8. Placed(f, "publish") = g
  BY <1>1, <1>7, PlacedIs
<1>9. Takes(U, JobOf(dn, w), f, g, "publish", Logs!OwnRef(f))
  <2>1. f.at \notin {"names", "fields", "values"}
    BY <1>1
  <2> QED BY ONLY Zenon, <2>1, <1>1, <1>2, <1>3, <1>6, <1>7, f \in Structs, StructFrame
<1>10. /\ Logs!OwnRef(g) = Logs!OwnRef(f) /\ g \in Frames /\ FrameOK(U, JobOf(dn, w), g)
       /\ SameCall(f, g) /\ g.at # "stage" /\ g.call \in Called
  BY <1>9 DEF Takes
<1>11. PoolsOK(U, un, fl, er, dn, WentOn(st, w, g))
  BY ONLY <1>1, <1>2, <1>3, <1>4, <1>10, GoesOn, PoolsOK(T, un, fl, er, dn, st), w \in Worker,
      Busy(st, w), f = TopOf(st, w)
<1> QED BY <1>8, <1>11

LEMMA StructIsPublished ==
  ASSUME NEW T, NEW un, NEW fl, NEW er, NEW dn, NEW st, PoolsOK(T, un, fl, er, dn, st),
         NEW w \in Worker, Busy(st, w), NEW f \in Structs, f = TopOf(st, w), f.at = "publish",
         Logs!Lookup(T.st, Logs!StructKey(f)) = 0, NEW U, StructPublished(T, U, f)
  PROVE  PoolsOK(U, un, fl, er, dn, WentOn(st, w, Placed(f, "stage")))
<1>1. /\ TablesOK(T) /\ FrameOK(T, JobOf(dn, w), f) /\ StructOK(T, f) /\ f.call = "struct"
      /\ f.at \notin {"names", "fields", "values"} /\ f.at # "stage"
      /\ Owning(f) /\ f \in Calling /\ f.id \in Nat
  BY TopIs DEF Structs, Called, FrameOK, Owning, OwningAt, Calling
<1>2. Logs!OwnRef(f) = Logs!Ref("struct", f.id) /\ OnlyTop(st, w, Logs!OwnRef(f))
  BY <1>1, TopIs DEF Logs!OwnRef
<1>3. \A p \in T.st : p.key # Logs!StructKey(f)
  <2>1. T.st \in SUBSET Entries
    BY <1>1 DEF TablesOK, TableSet
  <2> QED BY <2>1, LookupGives
<1>4. Grows(T, U, Logs!OwnRef(f)) /\ TablesOK(U)
  BY ONLY <1>1, <1>3, PublishStructTables, f \in Structs, f.at = "publish", StructPublished(T, U, f)
<1>5. /\ f.id \in 1..Len(U.node) /\ U.node[f.id] = f.node /\ Len(f.cells) = Len(Values[f.node])
      /\ U.fst[f.id] = [fields |-> f.fields, cells |-> f.cells]
  BY <1>1 DEF StructOK, OwningAt, StructPublished
<1>6. StructHas(U, f, "stage", f.id)
  BY <1>1, <1>5 DEF StructHas, StructPublished
<1>7. PICK g : g = Numbered(f, "stage", f.id)
  OBVIOUS
<1>8. Placed(f, "stage") = g
  BY <1>1, <1>7, PlacedIs
<1>9. Takes(U, JobOf(dn, w), f, g, "stage", Logs!OwnRef(f))
  <2>1. f.at \notin {"names", "fields", "values"}
    BY <1>1
  <2> QED BY ONLY Zenon, <2>1, <1>1, <1>2, <1>4, <1>6, <1>7, f \in Structs, StructFrame
<1>10. /\ Logs!OwnRef(g) = Logs!OwnRef(f) /\ g \in Frames /\ FrameOK(U, JobOf(dn, w), g)
       /\ SameCall(f, g) /\ g.at = "stage" /\ g.call \in Called
  BY <1>9, <1>1 DEF Takes, Called
<1>11. PoolsOK(U, un, fl, er, dn, WentOn(st, w, g))
  BY ONLY <1>1, <1>2, <1>4, <1>10, Publishes, PoolsOK(T, un, fl, er, dn, st), w \in Worker, Busy(st,
      w), f = TopOf(st, w)
<1> QED BY <1>8, <1>11

\* A pool is flushed, or has failed or nothing to flush.
FlushedTo(T, un, fl, er, pool, un2, fl2, er2) ==
  \/ un2 = un /\ fl2 = fl /\ er2 = er
  \/ /\ un2 = [un EXCEPT ![pool] = {}]
     /\ \/ fl2 = fl \cup Chunk(T, un[pool]) /\ er2 = er
        \/ fl2 = fl /\ er2 = [er EXCEPT ![pool] = TRUE]

LEMMA Flushed ==
  ASSUME NEW T, NEW un, NEW fl, NEW er, NEW dn, NEW st, PoolsOK(T, un, fl, er, dn, st),
         NEW pool \in Logs!Pool, NEW un2, NEW fl2, NEW er2,
         FlushedTo(T, un, fl, er, pool, un2, fl2, er2)
  PROVE  PoolsOK(T, un2, fl2, er2, dn, st)
<1>1. TablesOK(T) /\ Stacks(T, dn, st) /\ Staging(T, un, fl, er, AtStage(st))
  BY DEF PoolsOK
<1>2. Staging(T, un2, fl2, er2, AtStage(st))
  <2>1. /\ Staging(T, [un EXCEPT ![pool] = {}], fl \cup Chunk(T, un[pool]), er, AtStage(st))
        /\ Staging(T, [un EXCEPT ![pool] = {}], fl, [er EXCEPT ![pool] = TRUE], AtStage(st))
    <3> DEFINE at == AtStage(st)
    <3>1. Staging(T, un, fl, er, at)
      BY <1>1
    <3> HIDE DEF at
    <3>2. Staging(T, [un EXCEPT ![pool] = {}], fl \cup Chunk(T, un[pool]), er, at)
      BY ONLY <3>1, StagingFlushes, pool \in Logs!Pool
    <3>3. Staging(T, [un EXCEPT ![pool] = {}], fl, [er EXCEPT ![pool] = TRUE], at)
      BY ONLY <3>1, StagingFlushes, pool \in Logs!Pool
    <3> QED BY <3>2, <3>3 DEF at
  <2>2. CASE un2 = un /\ fl2 = fl /\ er2 = er
    BY <1>1, <2>2
  <2>3. CASE /\ un2 = [un EXCEPT ![pool] = {}] /\ fl2 = fl \cup Chunk(T, un[pool])
             /\ er2 = er
    BY ONLY Zenon, <2>1, <2>3
  <2>4. CASE un2 = [un EXCEPT ![pool] = {}] /\ fl2 = fl /\ er2 = [er EXCEPT ![pool] = TRUE]
    BY ONLY Zenon, <2>1, <2>4
  <2> QED BY ONLY Zenon, <2>2, <2>3, <2>4,
             FlushedTo(T, un, fl, er, pool, un2, fl2, er2) DEF FlushedTo
<1> QED BY <1>1, <1>2 DEF PoolsOK

LEMMA FlushesBatch ==
  ASSUME NEW T, NEW un, NEW fl, NEW er, NEW dn, NEW st, PoolsOK(T, un, fl, er, dn, st),
         NEW w \in Worker, Busy(st, w), NEW f, f = TopOf(st, w), f.at = "flush",
         NEW un2, NEW fl2, NEW er2, FlushedTo(T, un, fl, er, f.pool, un2, fl2, er2)
  PROVE  PoolsOK(T, un2, fl2, er2, dn, Gone(st, w, Logs!OwnRef(f)))
<1>1. /\ TablesOK(T) /\ f \in Frames /\ FrameOK(T, JobOf(dn, w), f) /\ f.at \in Staged
      /\ f.at # "stage"
  BY TopIs DEF Staged
<1>2. f.call \in Called /\ Answers(T, Logs!OwnRef(f), f) /\ f.pool \in Logs!Pool
  <2>1. f.call \in Called /\ Answers(T, Logs!OwnRef(f), f) /\ f.pool = PoolOf(Logs!OwnRef(f))
    BY ONLY <1>1, StagedIsPublished
  <2> QED BY <2>1 DEF PoolOf, Logs!Pool
<1>3. PoolsOK(T, un2, fl2, er2, dn, st)
  BY <1>2, Flushed
<1> QED
  BY ONLY <1>1, <1>2, <1>3, StillGives, w \in Worker, Busy(st, w), f = TopOf(st, w)

-----------------------------------------------------------------------------
(* The actions of interning.                                               *)

PoolsInv(n) == PoolsOK(Tables(n), log_unflushed, log_file, log_err, log_done, log_stack)

LEMMA Opened ==
  ASSUME NEW n, PoolsInv(n), NEW w \in Worker, log_stack[w] # <<>>
  PROVE  LET T == Tables(n)
             f == TopOf(log_stack, w)
         IN  /\ PoolsOK(T, log_unflushed, log_file, log_err, log_done, log_stack)
             /\ TablesOK(T) /\ Stacks(T, log_done, log_stack) /\ Busy(log_stack, w)
             /\ f = Logs!Top(w) /\ f \in Frames /\ FrameOK(T, JobOf(log_done, w), f)
             /\ Owning(f) => OnlyTop(log_stack, w, Logs!OwnRef(f))
<1>1. /\ PoolsOK(Tables(n), log_unflushed, log_file, log_err, log_done, log_stack)
      /\ TablesOK(Tables(n))
      /\ Stacks(Tables(n), log_done, log_stack) /\ Busy(log_stack, w)
  BY DEF PoolsInv, PoolsOK, Busy
<1>2. TopOf(log_stack, w) = Logs!Top(w) /\ TopOf(log_stack, w) = Logs!Last(log_stack[w])
  BY DEF TopOf, Logs!Top
<1>3. TopOf(log_stack, w) \in Frames /\ FrameOK(Tables(n), JobOf(log_done, w), TopOf(log_stack, w))
  BY ONLY <1>1, <1>2, Topmost, w \in Worker, log_stack[w] # <<>> DEF JobOf
<1>4. Owning(TopOf(log_stack, w)) => OnlyTop(log_stack, w, Logs!OwnRef(TopOf(log_stack, w)))
  BY ONLY <1>1, HasOwn, w \in Worker
<1> QED BY <1>1, <1>2, <1>3, <1>4

LEMMA Moves ==
  ASSUME NEW w \in Worker
  PROVE  /\ \A g : Logs!GoOn(w, g) => log_stack' = WentOn(log_stack, w, g)
         /\ \A at : Logs!GoTo(w, at)
              => log_stack' = WentOn(log_stack, w, Placed(TopOf(log_stack, w), at))
         /\ \A x : Logs!Return(w, x) => log_stack' = Gone(log_stack, w, x)
<1>1. \A g : Logs!GoOn(w, g) => log_stack' = WentOn(log_stack, w, g)
  BY DEF Logs!GoOn, WentOn, With, GoneOn
<1>2. \A at : Logs!GoTo(w, at) => log_stack' = WentOn(log_stack, w, Placed(TopOf(log_stack, w), at))
  BY <1>1 DEF Logs!GoTo, Placed, TopOf, Logs!Top
<1>3. \A x : Logs!Return(w, x) => log_stack' = Gone(log_stack, w, x)
  BY DEF Logs!Return, Gone, With, Replied, Received
<1> QED BY <1>1, <1>2, <1>3

LEMMA SameTables ==
  ASSUME NEW n, UNCHANGED <<log_strToID, log_idToStr, log_fieldSetToID, log_idToFieldSet,
           log_structToID, log_flatStructs>>
  PROVE  Tables(n)' = Tables(n)
BY DEF Tables

LEMMA LoadOwnKeeps ==
  ASSUME NEW n, PoolsInv(n), NEW w \in Worker, Logs!LoadOwn(w), log_done' = log_done
  PROVE  PoolsInv(n)'
<1> DEFINE T == Tables(n)
           f == TopOf(log_stack, w)
<1>1. /\ log_stack[w] # <<>> /\ Logs!Top(w).call = "string" /\ Logs!Top(w).at = "own"
      /\ UNCHANGED <<log_strToID, log_idToStr, Logs!structVars, Logs!stagingVars>>
  BY DEF Logs!LoadOwn, Logs!In
<1>2. Tables(n)' = T /\ log_unflushed' = log_unflushed /\ log_file' = log_file /\ log_err' = log_err
  BY <1>1, SameTables DEF Logs!structVars, Logs!stagingVars
<1>3. /\ PoolsOK(T, log_unflushed, log_file, log_err, log_done, log_stack) /\ TablesOK(T)
      /\ Busy(log_stack, w)
      /\ f = Logs!Top(w) /\ f \in Frames /\ FrameOK(T, JobOf(log_done, w), f)
  BY <1>1, Opened
<1>4. f \in Strings /\ f.call = "string" /\ f.at = "own" /\ f.call \in Called /\ f \in Calling
  BY <1>1, <1>3, ByCall DEF Called
<1>5. T.str = log_strToID
  BY DEF Tables
<1> HIDE DEF T, f
<1>6. CASE log_strToID[f.pool][f.text] # 0
  <2>1. log_stack' = Gone(log_stack, w, Logs!Ref(f.pool, log_strToID[f.pool][f.text]))
    BY <1>3, <1>6, Moves DEF Logs!LoadOwn
  <2>2. Answers(T, Logs!Ref(f.pool, log_strToID[f.pool][f.text]), f)
    BY <1>3, <1>4, <1>5, <1>6, Found DEF Strings
  <2>3. PoolsOK(T, log_unflushed, log_file, log_err, log_done, log_stack')
    BY <1>3, <1>4, <2>1, <2>2, StillGives DEF f
  <2> QED BY <2>3, <1>2 DEF PoolsInv
<1>7. CASE log_strToID[f.pool][f.text] = 0
  <2>1. PICK at \in {"parent", "new"} : Logs!GoTo(w, at)
    BY <1>3, <1>7 DEF Logs!LoadOwn
  <2>2. log_stack' = WentOn(log_stack, w, Placed(f, at))
    BY <2>1, Moves DEF f
  <2>3. f = TopOf(log_stack, w) /\ f.at # "stage"
    BY <1>4 DEF f
  <2>4. PoolsOK(T, log_unflushed, log_file, log_err, log_done, log_stack')
    BY ONLY <1>3, <1>4, <2>2, <2>3, StringGoes, w \in Worker, at \in {"parent", "new"}
  <2> QED BY <2>4, <1>2 DEF PoolsInv
<1> QED BY <1>6, <1>7

LEMMA LoadParentKeeps ==
  ASSUME NEW n, PoolsInv(n), NEW w \in Worker, Logs!LoadParent(w), log_done' = log_done
  PROVE  PoolsInv(n)'
<1> DEFINE T == Tables(n)
           f == TopOf(log_stack, w)
<1>1. /\ log_stack[w] # <<>> /\ Logs!Top(w).call = "string" /\ Logs!Top(w).at = "parent"
      /\ UNCHANGED <<log_strToID, log_idToStr, Logs!structVars, Logs!stagingVars>>
  BY DEF Logs!LoadParent, Logs!In
<1>2. Tables(n)' = T /\ log_unflushed' = log_unflushed /\ log_file' = log_file /\ log_err' = log_err
  BY <1>1, SameTables DEF Logs!structVars, Logs!stagingVars
<1>3. /\ PoolsOK(T, log_unflushed, log_file, log_err, log_done, log_stack) /\ TablesOK(T)
      /\ Busy(log_stack, w)
      /\ f = Logs!Top(w) /\ f \in Frames /\ FrameOK(T, JobOf(log_done, w), f)
  BY <1>1, Opened
<1>4. f \in Strings /\ f.at = "parent" /\ f.call \in Called /\ f.at # "stage"
  BY <1>1, <1>3, ByCall DEF Called
<1>5. T.str = log_strToID
  BY DEF Tables
<1> HIDE DEF T, f
<1>6. CASE log_strToID["client"][f.text] # 0
  <2>1. log_stack' = Gone(log_stack, w, Logs!Ref("client", log_strToID["client"][f.text]))
    BY <1>3, <1>6, Moves DEF Logs!LoadParent
  <2>2. Answers(T, Logs!Ref("client", log_strToID["client"][f.text]), f)
    BY <1>3, <1>4, <1>5, <1>6, Found DEF Logs!Pool
  <2>3. PoolsOK(T, log_unflushed, log_file, log_err, log_done, log_stack')
    BY <1>3, <1>4, <2>1, <2>2, StillGives DEF f
  <2> QED BY <2>3, <1>2 DEF PoolsInv
<1>7. CASE log_strToID["client"][f.text] = 0
  <2>1. Logs!GoTo(w, "new")
    BY <1>3, <1>7 DEF Logs!LoadParent
  <2>2. log_stack' = WentOn(log_stack, w, Placed(f, "new"))
    BY <2>1, Moves DEF f
  <2>3. f = TopOf(log_stack, w)
    BY DEF f
  <2>4. PoolsOK(T, log_unflushed, log_file, log_err, log_done, log_stack')
    BY ONLY <1>3, <1>4, <2>2, <2>3, StringGoes, w \in Worker
  <2> QED BY <2>4, <1>2 DEF PoolsInv
<1> QED BY <1>6, <1>7

LEMMA NewStringKeeps ==
  ASSUME NEW n, PoolsInv(n), NEW w \in Worker, Logs!NewString(w), log_done' = log_done
  PROVE  PoolsInv(n)'
<1> DEFINE T == Tables(n)
           f == TopOf(log_stack, w)
<1>1. /\ log_stack[w] # <<>> /\ Logs!Top(w).call = "string" /\ Logs!Top(w).at = "new"
      /\ UNCHANGED <<log_strToID, Logs!structVars, Logs!stagingVars>>
  BY DEF Logs!NewString, Logs!In
<1>2. /\ PoolsOK(T, log_unflushed, log_file, log_err, log_done, log_stack)
      /\ Busy(log_stack, w) /\ f = Logs!Top(w) /\ f \in Frames
  BY <1>1, Opened
<1>3. f \in Strings /\ f.at = "new"
  BY <1>1, <1>2, ByCall
<1>4. log_stack' = WentOn(log_stack, w, Numbered(f, "publish", Len(T.ids[f.pool]) + 1))
  BY <1>2, Moves DEF Logs!NewString, Numbered, Tables
<1>5. PICK U : U = Tables(n)'
  OBVIOUS
<1>6. StringAdded(T, U, f.pool, f.text)
  BY <1>1, <1>2, <1>5
  DEF Tables, Logs!NewString, Logs!structVars, StringAdded, IsTables, SameFields, SameStructs
<1>7. log_unflushed' = log_unflushed /\ log_file' = log_file /\ log_err' = log_err
  BY <1>1 DEF Logs!stagingVars
<1> HIDE DEF T, f
<1>8. f = TopOf(log_stack, w)
  BY DEF f
<1>9. PoolsOK(U, log_unflushed, log_file, log_err, log_done, log_stack')
  BY ONLY <1>2, <1>3, <1>4, <1>6, <1>8, StringIsNew, w \in Worker
<1> QED BY <1>5, <1>7, <1>9 DEF PoolsInv

LEMMA PublishStringKeeps ==
  ASSUME NEW n, PoolsInv(n), NEW w \in Worker, Logs!PublishString(w), log_done' = log_done
  PROVE  PoolsInv(n)'
<1> DEFINE T == Tables(n)
           f == TopOf(log_stack, w)
<1>1. /\ log_stack[w] # <<>> /\ Logs!Top(w).call = "string" /\ Logs!Top(w).at = "publish"
      /\ UNCHANGED <<Logs!structVars, Logs!stagingVars>>
  BY DEF Logs!PublishString, Logs!In
<1>2. /\ PoolsOK(T, log_unflushed, log_file, log_err, log_done, log_stack)
      /\ Busy(log_stack, w) /\ f = Logs!Top(w)
      /\ f \in Frames /\ f = TopOf(log_stack, w)
  BY <1>1, Opened
<1>3. f \in Strings /\ f.at = "publish" /\ f.at # "stage"
  BY <1>1, <1>2, ByCall
<1>4. log_unflushed' = log_unflushed /\ log_file' = log_file /\ log_err' = log_err
  BY <1>1 DEF Logs!stagingVars
<1> HIDE DEF T, f
<1>5. PICK U : U = Tables(n)'
  OBVIOUS
<1>6. /\ T.str = log_strToID /\ T.ids = log_idToStr
      /\ T.str[f.pool][f.text] = log_strToID[Logs!Top(w).pool][Logs!Top(w).text]
  BY <1>2 DEF T, Tables
<1>7. CASE T.str[f.pool][f.text] # 0
  <2>1. /\ log_idToStr' = [log_idToStr EXCEPT ![f.pool][f.id] = None] /\ UNCHANGED log_strToID
        /\ log_stack' = Gone(log_stack, w, Logs!Ref(f.pool, T.str[f.pool][f.text]))
    BY <1>2, <1>6, <1>7, Moves DEF Logs!PublishString
  <2>2. StringGivenUp(T, U, f)
    BY <1>1, <1>5, <2>1
    DEF T, Tables, Logs!structVars, StringGivenUp, IsTables, SameFields, SameStructs
  <2>3. PoolsOK(U, log_unflushed, log_file, log_err, log_done, log_stack')
    BY ONLY <1>2, <1>3, <1>7, <2>1, <2>2, StringGivesUp, w \in Worker
  <2> QED BY <1>4, <1>5, <2>3 DEF PoolsInv
<1>8. CASE T.str[f.pool][f.text] = 0
  <2>1. /\ log_strToID' = [log_strToID EXCEPT ![f.pool][f.text] = f.id] /\ UNCHANGED log_idToStr
        /\ Logs!GoTo(w, "stage")
    BY <1>2, <1>6, <1>8 DEF Logs!PublishString
  <2>2. log_stack' = WentOn(log_stack, w, Placed(f, "stage"))
    BY <1>2, <2>1, Moves
  <2>3. StringPublished(T, U, f)
    BY <1>1, <1>5, <2>1
    DEF T, Tables, Logs!structVars, StringPublished, IsTables, SameFields, SameStructs
  <2>4. PoolsOK(U, log_unflushed, log_file, log_err, log_done, log_stack')
    BY ONLY <1>2, <1>3, <1>8, <2>2, <2>3, StringIsPublished, w \in Worker
  <2> QED BY <1>4, <1>5, <2>4 DEF PoolsInv
<1> QED BY <1>7, <1>8

LEMMA LoadFieldsKeeps ==
  ASSUME NEW n, PoolsInv(n), NEW w \in Worker, Logs!LoadFields(w), log_done' = log_done
  PROVE  PoolsInv(n)'
<1> DEFINE T == Tables(n)
           f == TopOf(log_stack, w)
<1>1. /\ log_stack[w] # <<>> /\ Logs!Top(w).call = "fields" /\ Logs!Top(w).at = "load"
      /\ UNCHANGED <<log_strToID, log_idToStr, log_fieldSetToID, log_structToID, log_flatStructs,
           Logs!stagingVars>>
  BY DEF Logs!LoadFields, Logs!In
<1>2. /\ PoolsOK(T, log_unflushed, log_file, log_err, log_done, log_stack)
      /\ Busy(log_stack, w) /\ f = Logs!Top(w)
      /\ f \in Frames /\ f = TopOf(log_stack, w)
  BY <1>1, Opened
<1>3. f \in FieldSets /\ f.at = "load" /\ f.at # "stage"
  BY <1>1, <1>2, ByCall
<1>4. log_unflushed' = log_unflushed /\ log_file' = log_file /\ log_err' = log_err
  BY <1>1 DEF Logs!stagingVars
<1> HIDE DEF T, f
<1>5. PICK U : U = Tables(n)'
  OBVIOUS
<1>6. /\ T.fld = log_fieldSetToID /\ T.fids = log_idToFieldSet
      /\ Logs!Lookup(T.fld, f.names) = Logs!Lookup(log_fieldSetToID, Logs!Top(w).names)
  BY <1>2 DEF T, Tables
<1>7. CASE Logs!Lookup(T.fld, f.names) # 0
  <2>1. /\ UNCHANGED log_idToFieldSet
        /\ log_stack' = Gone(log_stack, w, Logs!Ref("fields", Logs!Lookup(T.fld, f.names)))
    BY <1>2, <1>6, <1>7, Moves DEF Logs!LoadFields
  <2>2. U = T
    BY <1>1, <1>5, <2>1 DEF T, Tables
  <2>3. PoolsOK(T, log_unflushed, log_file, log_err, log_done, log_stack')
    BY ONLY <1>2, <1>3, <1>7, <2>1, FieldsAreFound, w \in Worker
  <2> QED BY <1>4, <1>5, <2>2, <2>3 DEF PoolsInv
<1>8. CASE Logs!Lookup(T.fld, f.names) = 0
  <2>1. /\ log_idToFieldSet' = Append(log_idToFieldSet, f.names)
        /\ log_stack' = WentOn(log_stack, w, Numbered(f, "publish", Len(T.fids) + 1))
    BY <1>2, <1>6, <1>8, Moves DEF Logs!LoadFields, Numbered
  <2>2. FieldsAdded(T, U, f.names)
    BY <1>1, <1>5, <2>1 DEF T, Tables, FieldsAdded, IsTables, SameStrings, SameStructs
  <2>3. PoolsOK(U, log_unflushed, log_file, log_err, log_done, log_stack')
    BY ONLY <1>2, <1>3, <2>1, <2>2, FieldsAreNew, w \in Worker
  <2> QED BY <1>4, <1>5, <2>3 DEF PoolsInv
<1> QED BY <1>7, <1>8

LEMMA PublishFieldsKeeps ==
  ASSUME NEW n, PoolsInv(n), NEW w \in Worker, Logs!PublishFields(w), log_done' = log_done
  PROVE  PoolsInv(n)'
<1> DEFINE T == Tables(n)
           f == TopOf(log_stack, w)
<1>1. /\ log_stack[w] # <<>> /\ Logs!Top(w).call = "fields" /\ Logs!Top(w).at = "publish"
      /\ UNCHANGED <<log_strToID, log_idToStr, log_structToID, log_flatStructs, Logs!stagingVars>>
  BY DEF Logs!PublishFields, Logs!In
<1>2. /\ PoolsOK(T, log_unflushed, log_file, log_err, log_done, log_stack)
      /\ Busy(log_stack, w) /\ f = Logs!Top(w)
      /\ f \in Frames /\ f = TopOf(log_stack, w)
  BY <1>1, Opened
<1>3. f \in FieldSets /\ f.at = "publish" /\ f.at # "stage"
  BY <1>1, <1>2, ByCall
<1>4. log_unflushed' = log_unflushed /\ log_file' = log_file /\ log_err' = log_err
  BY <1>1 DEF Logs!stagingVars
<1> HIDE DEF T, f
<1>5. PICK U : U = Tables(n)'
  OBVIOUS
<1>6. /\ T.fld = log_fieldSetToID /\ T.fids = log_idToFieldSet
      /\ Logs!Lookup(T.fld, f.names) = Logs!Lookup(log_fieldSetToID, Logs!Top(w).names)
  BY <1>2 DEF T, Tables
<1>7. CASE Logs!Lookup(T.fld, f.names) # 0
  <2>1. /\ log_idToFieldSet' = [log_idToFieldSet EXCEPT ![f.id] = <<>>]
        /\ UNCHANGED log_fieldSetToID
        /\ log_stack' = Gone(log_stack, w, Logs!Ref("fields", Logs!Lookup(T.fld, f.names)))
    BY <1>2, <1>6, <1>7, Moves DEF Logs!PublishFields
  <2>2. FieldsGivenUp(T, U, f)
    BY <1>1, <1>5, <2>1 DEF T, Tables, FieldsGivenUp, IsTables, SameStrings, SameStructs
  <2>3. PoolsOK(U, log_unflushed, log_file, log_err, log_done, log_stack')
    BY ONLY <1>2, <1>3, <1>7, <2>1, <2>2, FieldsGiveUp, w \in Worker
  <2> QED BY <1>4, <1>5, <2>3 DEF PoolsInv
<1>8. CASE Logs!Lookup(T.fld, f.names) = 0
  <2>1. /\ log_fieldSetToID' = log_fieldSetToID \cup {[key |-> f.names, id |-> f.id]}
        /\ UNCHANGED log_idToFieldSet
        /\ Logs!GoTo(w, "stage")
    BY <1>2, <1>6, <1>8 DEF Logs!PublishFields
  <2>2. log_stack' = WentOn(log_stack, w, Placed(f, "stage"))
    BY <1>2, <2>1, Moves
  <2>3. FieldsPublished(T, U, f)
    BY <1>1, <1>5, <2>1 DEF T, Tables, FieldsPublished, IsTables, SameStrings, SameStructs
  <2>4. PoolsOK(U, log_unflushed, log_file, log_err, log_done, log_stack')
    BY ONLY <1>2, <1>3, <1>8, <2>2, <2>3, FieldsArePublished, w \in Worker
  <2> QED BY <1>4, <1>5, <2>4 DEF PoolsInv
<1> QED BY <1>7, <1>8

\* More nodes are known.
Goes(n, m) == m = n \/ \E s \in Struct : m = Append(n, s)

LEMMA LoadStructKeeps ==
  ASSUME NEW n \in Seq(Struct), PoolsInv(n), NEW w \in Worker, Logs!LoadStruct(w),
         log_done' = log_done
  PROVE  \E m \in Seq(Struct) : PoolsInv(m)' /\ Goes(n, m)
<1> DEFINE T == Tables(n)
           f == TopOf(log_stack, w)
<1>1. /\ log_stack[w] # <<>> /\ Logs!Top(w).call = "struct" /\ Logs!Top(w).at = "load"
      /\ UNCHANGED <<log_strToID, log_idToStr, log_fieldSetToID, log_idToFieldSet, log_structToID,
           Logs!stagingVars>>
  BY DEF Logs!LoadStruct, Logs!In
<1>2. /\ PoolsOK(T, log_unflushed, log_file, log_err, log_done, log_stack)
      /\ Busy(log_stack, w) /\ f = Logs!Top(w)
      /\ f \in Frames /\ f = TopOf(log_stack, w)
  BY <1>1, Opened
<1>3. f \in Structs /\ f.at = "load" /\ f.at # "stage"
  BY <1>1, <1>2, ByCall
<1>4. log_unflushed' = log_unflushed /\ log_file' = log_file /\ log_err' = log_err
  BY <1>1 DEF Logs!stagingVars
<1> HIDE DEF T, f
<1>5. /\ T.st = log_structToID /\ T.fst = log_flatStructs
      /\ Logs!Lookup(T.st, Logs!StructKey(f))
           = Logs!Lookup(log_structToID, Logs!StructKey(Logs!Top(w)))
  BY <1>2 DEF T, Tables
<1>6. CASE Logs!Lookup(T.st, Logs!StructKey(f)) # 0
  <2>1. /\ UNCHANGED log_flatStructs
        /\ log_stack' = Gone(log_stack, w, Logs!Ref("struct", Logs!Lookup(T.st, Logs!StructKey(f))))
    BY <1>2, <1>5, <1>6, Moves DEF Logs!LoadStruct
  <2>2. Tables(n)' = T
    BY <1>1, <2>1 DEF T, Tables
  <2>3. PoolsOK(T, log_unflushed, log_file, log_err, log_done, log_stack')
    BY ONLY <1>2, <1>3, <1>6, <2>1, StructIsFound, w \in Worker
  <2> QED BY <1>4, <2>2, <2>3 DEF PoolsInv, Goes
<1>7. CASE Logs!Lookup(T.st, Logs!StructKey(f)) = 0
  <2>1. /\ log_flatStructs' = Append(log_flatStructs, Logs!Empty)
        /\ log_stack' = WentOn(log_stack, w, Numbered(f, "nested", Len(T.fst) + 1))
    BY <1>2, <1>5, <1>7, Moves DEF Logs!LoadStruct, Numbered
  <2>2. PICK m : m = Append(n, f.node)
    OBVIOUS
  <2>3. f.node \in Struct
    BY <1>3 DEF Structs
  <2>4. m \in Seq(Struct) /\ Goes(n, m)
    BY <2>2, <2>3 DEF Goes
  <2>5. PICK U : U = Tables(m)'
    OBVIOUS
  <2>6. StructAdded(T, U, f.node)
    BY <1>1, <2>1, <2>2, <2>5 DEF T, Tables, StructAdded, IsTables, SameStrings, SameFields
  <2>7. PoolsOK(U, log_unflushed, log_file, log_err, log_done, log_stack')
    BY ONLY <1>2, <1>3, <2>1, <2>6, StructIsNew, w \in Worker
  <2> QED BY <1>4, <2>4, <2>5, <2>7 DEF PoolsInv
<1> QED BY <1>6, <1>7

LEMMA LockStoreKeeps ==
  ASSUME NEW n, PoolsInv(n), NEW w \in Worker, Logs!LockStore(w), log_done' = log_done
  PROVE  PoolsInv(n)'
<1> DEFINE T == Tables(n)
           f == TopOf(log_stack, w)
<1>1. /\ log_stack[w] # <<>> /\ Logs!Top(w).call = "struct" /\ Logs!Top(w).at = "lock"
      /\ UNCHANGED <<log_strToID, log_idToStr, log_fieldSetToID, log_idToFieldSet, log_structToID,
           log_flatStructs, Logs!stagingVars>>
  BY DEF Logs!LockStore, Logs!In
<1>2. /\ PoolsOK(T, log_unflushed, log_file, log_err, log_done, log_stack)
      /\ Busy(log_stack, w) /\ f = Logs!Top(w)
      /\ f \in Frames /\ f = TopOf(log_stack, w)
  BY <1>1, Opened
<1>3. f \in Structs /\ f.at = "lock" /\ f.at # "stage"
  BY <1>1, <1>2, ByCall
<1>4. log_unflushed' = log_unflushed /\ log_file' = log_file /\ log_err' = log_err
  BY <1>1 DEF Logs!stagingVars
<1> HIDE DEF T, f
<1>5. log_stack' = WentOn(log_stack, w, Placed(f, "cells"))
  BY <1>2, Moves DEF Logs!LockStore
<1>6. Tables(n)' = T
  BY <1>1 DEF T, Tables
<1>7. PoolsOK(T, log_unflushed, log_file, log_err, log_done, log_stack')
  BY ONLY <1>2, <1>3, <1>5, StructLocks, w \in Worker
<1> QED BY <1>4, <1>6, <1>7 DEF PoolsInv

LEMMA UnlockStoreKeeps ==
  ASSUME NEW n, PoolsInv(n), NEW w \in Worker, Logs!UnlockStore(w), log_done' = log_done
  PROVE  PoolsInv(n)'
<1> DEFINE T == Tables(n)
           f == TopOf(log_stack, w)
<1>1. /\ log_stack[w] # <<>> /\ Logs!Top(w).call = "struct" /\ Logs!Top(w).at = "unlock"
      /\ UNCHANGED <<log_strToID, log_idToStr, log_fieldSetToID, log_idToFieldSet, log_structToID,
           Logs!stagingVars>>
  BY DEF Logs!UnlockStore, Logs!In
<1>2. /\ PoolsOK(T, log_unflushed, log_file, log_err, log_done, log_stack)
      /\ Busy(log_stack, w) /\ f = Logs!Top(w)
      /\ f \in Frames /\ f = TopOf(log_stack, w)
  BY <1>1, Opened
<1>3. f \in Structs /\ f.at = "unlock" /\ f.at # "stage"
  BY <1>1, <1>2, ByCall
<1>4. log_unflushed' = log_unflushed /\ log_file' = log_file /\ log_err' = log_err
  BY <1>1 DEF Logs!stagingVars
<1> HIDE DEF T, f
<1>5. PICK U : U = Tables(n)'
  OBVIOUS
<1>6. /\ log_flatStructs'
           = [log_flatStructs EXCEPT ![f.id] = [fields |-> f.fields, cells |-> f.cells]]
      /\ log_stack' = WentOn(log_stack, w, Placed(f, "publish"))
  BY <1>2, Moves DEF Logs!UnlockStore
<1>7. BodyStored(T, U, f)
  BY <1>1, <1>5, <1>6 DEF T, Tables, BodyStored, IsTables, SameStrings, SameFields
<1>8. PoolsOK(U, log_unflushed, log_file, log_err, log_done, log_stack')
  BY ONLY <1>2, <1>3, <1>6, <1>7, BodyIsStored, w \in Worker
<1> QED BY <1>4, <1>5, <1>8 DEF PoolsInv

LEMMA PublishStructKeeps ==
  ASSUME NEW n, PoolsInv(n), NEW w \in Worker, Logs!PublishStruct(w), log_done' = log_done
  PROVE  PoolsInv(n)'
<1> DEFINE T == Tables(n)
           f == TopOf(log_stack, w)
<1>1. /\ log_stack[w] # <<>> /\ Logs!Top(w).call = "struct" /\ Logs!Top(w).at = "publish"
      /\ UNCHANGED <<log_strToID, log_idToStr, log_fieldSetToID, log_idToFieldSet, log_flatStructs,
           Logs!stagingVars>>
  BY DEF Logs!PublishStruct, Logs!In
<1>2. /\ PoolsOK(T, log_unflushed, log_file, log_err, log_done, log_stack)
      /\ Busy(log_stack, w) /\ f = Logs!Top(w)
      /\ f \in Frames /\ f = TopOf(log_stack, w)
  BY <1>1, Opened
<1>3. f \in Structs /\ f.at = "publish" /\ f.at # "stage"
  BY <1>1, <1>2, ByCall
<1>4. log_unflushed' = log_unflushed /\ log_file' = log_file /\ log_err' = log_err
  BY <1>1 DEF Logs!stagingVars
<1> HIDE DEF T, f
<1>5. PICK U : U = Tables(n)'
  OBVIOUS
<1>6. /\ T.st = log_structToID /\ T.fst = log_flatStructs
      /\ Logs!Lookup(T.st, Logs!StructKey(f))
           = Logs!Lookup(log_structToID, Logs!StructKey(Logs!Top(w)))
  BY <1>2 DEF T, Tables
<1>7. CASE Logs!Lookup(T.st, Logs!StructKey(f)) # 0
  <2>1. /\ UNCHANGED log_structToID
        /\ log_stack' = Gone(log_stack, w, Logs!Ref("struct", Logs!Lookup(T.st, Logs!StructKey(f))))
    BY <1>2, <1>6, <1>7, Moves DEF Logs!PublishStruct
  <2>2. U = T
    BY <1>1, <1>5, <2>1 DEF T, Tables
  <2>3. PoolsOK(T, log_unflushed, log_file, log_err, log_done, log_stack')
    BY ONLY <1>2, <1>3, <1>7, <2>1, StructIsFound, w \in Worker
  <2> QED BY <1>4, <1>5, <2>2, <2>3 DEF PoolsInv
<1>8. CASE Logs!Lookup(T.st, Logs!StructKey(f)) = 0
  <2>1. /\ log_structToID' = log_structToID \cup {[key |-> Logs!StructKey(f), id |-> f.id]}
        /\ Logs!GoTo(w, "stage")
    BY <1>2, <1>6, <1>8 DEF Logs!PublishStruct
  <2>2. log_stack' = WentOn(log_stack, w, Placed(f, "stage"))
    BY <1>2, <2>1, Moves
  <2>3. StructPublished(T, U, f)
    BY <1>1, <1>5, <2>1 DEF T, Tables, StructPublished, IsTables, SameStrings, SameFields
  <2>4. PoolsOK(U, log_unflushed, log_file, log_err, log_done, log_stack')
    BY ONLY <1>2, <1>3, <1>8, <2>2, <2>3, StructIsPublished, w \in Worker
  <2> QED BY <1>4, <1>5, <2>4 DEF PoolsInv
<1> QED BY <1>7, <1>8

LEMMA StageKeeps ==
  ASSUME NEW n, PoolsInv(n), NEW w \in Worker, log_stack[w] # <<>>, NEW text, NEW refs,
         Logs!Stage(w, text, refs), log_done' = log_done,
         text = (IF Logs!Top(w).call = "string" THEN Logs!Top(w).text ELSE None),
         refs = (IF Logs!Top(w).call = "fields" THEN Logs!Top(w).names ELSE <<>>)
  PROVE  PoolsInv(n)' /\ log_twice' = log_twice
<1> DEFINE T == Tables(n)
           f == TopOf(log_stack, w)
<1>1. /\ Logs!Top(w).at = "stage"
      /\ UNCHANGED <<log_strToID, log_idToStr, log_fieldSetToID, log_idToFieldSet, log_structToID,
                     log_flatStructs, log_storeLock, log_err, log_file, log_twice>>
  BY DEF Logs!Stage
<1>2. /\ PoolsOK(T, log_unflushed, log_file, log_err, log_done, log_stack)
      /\ Busy(log_stack, w) /\ f = Logs!Top(w)
      /\ TablesOK(T) /\ f \in Frames /\ f = TopOf(log_stack, w) /\ FrameOK(T, JobOf(log_done, w), f)
  BY <1>1, Opened
<1>3. Tables(n)' = T
  BY <1>1 DEF Tables
<1> HIDE DEF T, f
<1>4. f.at = "stage" /\ f.at \in Staged
  BY <1>1, <1>2 DEF Staged
<1>5. PICK item : item = Logs!Item(Logs!OwnRef(f), text, refs)
  OBVIOUS
<1>6. item = ShortOf(T, Logs!OwnRef(f))
  <2>1. ShortOf(T, Logs!OwnRef(f))
          = Logs!Item(Logs!OwnRef(f), IF f.call = "string" THEN f.text ELSE None,
                                     IF f.call = "fields" THEN f.names ELSE <<>>)
    BY ONLY <1>2, <1>4, StagedIsPublished
  <2> QED BY <1>2, <1>5, <2>1
<1>7. log_unflushed' = [log_unflushed EXCEPT ![f.pool] = @ \cup {item}]
  BY <1>2, <1>5 DEF Logs!Stage
<1>8. \/ log_stack' = WentOn(log_stack, w, Placed(f, "flush"))
      \/ log_stack' = Gone(log_stack, w, Logs!OwnRef(f))
  BY <1>2, Moves DEF Logs!Stage
<1>9. PoolsOK(T, log_unflushed', log_file, log_err, log_done, log_stack')
  BY ONLY <1>2, <1>4, <1>6, <1>7, <1>8, Stages, w \in Worker
<1> QED BY <1>1, <1>3, <1>9 DEF PoolsInv

LEMMA StagingKeeps ==
  ASSUME NEW n, PoolsInv(n), NEW w \in Worker, log_stack[w] # <<>>, log_done' = log_done,
         Logs!StageString(w) \/ Logs!StageFields(w) \/ Logs!StageStruct(w)
  PROVE  PoolsInv(n)' /\ log_twice' = log_twice
<1>1. CASE Logs!StageString(w)
  <2>1. Logs!Top(w).call = "string" /\ Logs!Stage(w, Logs!Top(w).text, <<>>)
    BY <1>1 DEF Logs!StageString, Logs!In
  <2> QED BY <2>1, StageKeeps
<1>2. CASE Logs!StageFields(w)
  <2>1. Logs!Top(w).call = "fields" /\ Logs!Stage(w, None, Logs!Top(w).names)
    BY <1>2 DEF Logs!StageFields, Logs!In
  <2> QED BY <2>1, StageKeeps
<1>3. CASE Logs!StageStruct(w)
  <2>1. Logs!Top(w).call = "struct" /\ Logs!Stage(w, None, <<>>)
    BY <1>3 DEF Logs!StageStruct, Logs!In
  <2> QED BY <2>1, StageKeeps
<1> QED BY <1>1, <1>2, <1>3

LEMMA FlushLockedGives ==
  ASSUME NEW n, PoolsInv(n), NEW pool \in Logs!Pool, Logs!FlushLocked(pool)
  PROVE  /\ FlushedTo(Tables(n), log_unflushed, log_file, log_err, pool, log_unflushed', log_file',
              log_err')
         /\ log_twice' = log_twice
<1>1. Chunk(Tables(n), log_unflushed[pool]) = {Logs!Written(i) : i \in log_unflushed[pool]}
  BY DEF Chunk, WrittenBy, Logs!Written, Tables
<1>2. Staging(Tables(n), log_unflushed, log_file, log_err, AtStage(log_stack))
  BY DEF PoolsInv, PoolsOK
<1>3. log_file \cap Chunk(Tables(n), log_unflushed[pool]) = {}
  BY <1>2, StagingFlushes
<1>4. CASE UNCHANGED <<log_unflushed, log_err, log_file, log_twice>>
  BY <1>4 DEF FlushedTo
<1>5. CASE /\ log_unflushed' = [log_unflushed EXCEPT ![pool] = {}]
           /\ log_file' = log_file \cup {Logs!Written(i) : i \in log_unflushed[pool]}
           /\ log_twice'
                = log_twice \cup (log_file \cap {Logs!Written(i) : i \in log_unflushed[pool]})
           /\ UNCHANGED log_err
  BY <1>1, <1>3, <1>5 DEF FlushedTo
<1>6. CASE /\ log_unflushed' = [log_unflushed EXCEPT ![pool] = {}]
           /\ log_err' = [log_err EXCEPT ![pool] = TRUE] /\ UNCHANGED <<log_file, log_twice>>
  BY <1>6 DEF FlushedTo
<1> QED BY <1>4, <1>5, <1>6 DEF Logs!FlushLocked

LEMMA FlushBatchKeeps ==
  ASSUME NEW n, PoolsInv(n), NEW w \in Worker, Logs!FlushBatch(w), log_done' = log_done
  PROVE  PoolsInv(n)' /\ log_twice' = log_twice
<1> DEFINE T == Tables(n)
           f == TopOf(log_stack, w)
<1>1. /\ log_stack[w] # <<>> /\ Logs!Top(w).at = "flush"
      /\ Logs!FlushLocked(Logs!Top(w).pool) /\ Logs!Return(w, Logs!OwnRef(Logs!Top(w)))
      /\ UNCHANGED <<log_strToID, log_idToStr, log_fieldSetToID, log_idToFieldSet, log_structToID,
           log_flatStructs, log_storeLock>>
  BY DEF Logs!FlushBatch
<1>2. /\ PoolsOK(T, log_unflushed, log_file, log_err, log_done, log_stack)
      /\ Busy(log_stack, w) /\ f = Logs!Top(w)
      /\ TablesOK(T) /\ f \in Frames /\ f = TopOf(log_stack, w) /\ FrameOK(T, JobOf(log_done, w), f)
  BY <1>1, Opened
<1>3. Tables(n)' = T
  BY <1>1 DEF Tables
<1> HIDE DEF T, f
<1>4. f.at = "flush" /\ f.at \in Staged
  BY <1>1, <1>2 DEF Staged
<1>5. f.pool \in Logs!Pool
  <2>1. f.pool = PoolOf(Logs!OwnRef(f))
    BY ONLY <1>2, <1>4, StagedIsPublished
  <2> QED BY <2>1 DEF PoolOf, Logs!Pool
<1>6. FlushedTo(T, log_unflushed, log_file, log_err, f.pool, log_unflushed', log_file',
        log_err') /\ log_twice' = log_twice
  BY <1>1, <1>2, <1>5, FlushLockedGives DEF T
<1>7. log_stack' = Gone(log_stack, w, Logs!OwnRef(f))
  BY <1>1, <1>2, Moves
<1>8. PoolsOK(T, log_unflushed', log_file', log_err', log_done, log_stack')
  BY ONLY <1>2, <1>4, <1>6, <1>7, FlushesBatch, w \in Worker
<1> QED BY <1>3, <1>6, <1>8 DEF PoolsInv

\* Interning keeps all of it.
LEMMA InternKeeps ==
  ASSUME NEW n \in Seq(Struct), PoolsInv(n), NEW w \in Worker, Logs!Intern(w), log_stack[w] # <<>>,
         log_done' = log_done
  PROVE  log_twice' = log_twice /\ \E m \in Seq(Struct) : PoolsInv(m)' /\ Goes(n, m)
<1> USE DEF Goes
<1>1. CASE Logs!LoadOwn(w) \/ Logs!LoadParent(w) \/ Logs!NewString(w) \/ Logs!PublishString(w)
  <2>1. log_twice' = log_twice
    BY <1>1 DEF Logs!LoadOwn, Logs!LoadParent, Logs!NewString, Logs!PublishString, Logs!stagingVars
  <2> QED BY <1>1, <2>1, LoadOwnKeeps, LoadParentKeeps, NewStringKeeps, PublishStringKeeps
<1>2. CASE Logs!LoadFields(w) \/ Logs!PublishFields(w)
  <2>1. log_twice' = log_twice
    BY <1>2 DEF Logs!LoadFields, Logs!PublishFields, Logs!stagingVars
  <2> QED BY <1>2, <2>1, LoadFieldsKeeps, PublishFieldsKeeps
<1>3. CASE Logs!LoadStruct(w)
  <2>1. log_twice' = log_twice
    BY <1>3 DEF Logs!LoadStruct, Logs!stagingVars
  <2> QED BY <1>3, <2>1, LoadStructKeeps
<1>4. CASE Logs!LockStore(w) \/ Logs!UnlockStore(w) \/ Logs!PublishStruct(w)
  <2>1. log_twice' = log_twice
    BY <1>4 DEF Logs!LockStore, Logs!UnlockStore, Logs!PublishStruct, Logs!stagingVars
  <2> QED BY <1>4, <2>1, LockStoreKeeps, UnlockStoreKeeps, PublishStructKeeps
<1>5. CASE Logs!StageString(w) \/ Logs!StageFields(w) \/ Logs!StageStruct(w)
  BY <1>5, StagingKeeps
<1>6. CASE Logs!FlushBatch(w)
  BY <1>6, FlushBatchKeeps
<1> QED
  BY <1>1, <1>2, <1>3, <1>4, <1>5, <1>6
  DEF Logs!Intern, Logs!InternString, Logs!InternFieldSetFromIDs, Logs!ToInternedStruct

-----------------------------------------------------------------------------
(* What the jobs leave behind.                                             *)

EntrySet == [job : JobSet, body : Seq(Refs), text : Seq(Refs)]

EntryIs(T, e) ==
  /\ e \in EntrySet
  /\ AllAre(T, e.text, <<e.job.text>>)
  /\ e.job.kind = "log" => AllAre(T, e.body, <<e.job.body>>)

\* What is published stays so.
Extends(T, U) ==
  /\ \A pool \in Logs!Pool, t \in Text : T.str[pool][t] # 0 => U.str[pool][t] = T.str[pool][t]
  /\ T.st \subseteq U.st
  /\ \A i \in 1..Len(T.node) : U.node[i] = T.node[i]

LEMMA IsExtended ==
  ASSUME NEW T, TablesOK(T), NEW U, Extends(T, U), NEW x \in Refs
  PROVE  /\ \A t \in Text : StringIs(T, x, t) => StringIs(U, x, t)
         /\ \A s \in Struct : StructIs(T, x, s) => StructIs(U, x, s)
<1>1. x.id \in Nat \ {0}
  BY DEF Refs
<1>2. ASSUME NEW t \in Text, StringIs(T, x, t) PROVE StringIs(U, x, t)
  BY <1>1, <1>2 DEF StringIs, Extends
<1>3. ASSUME NEW s \in Struct, StructIs(T, x, s) PROVE StructIs(U, x, s)
  <2>1. PICK p \in T.st : p.id = x.id
    BY <1>3 DEF StructIs
  <2>2. p.id <= Len(T.node) /\ Len(T.node) \in Nat
    BY TablesTypes DEF TablesOK, StructsOK
  <2>3. x.id \in 1..Len(T.node)
    BY <1>1, <2>1, <2>2
  <2> QED BY <1>3, <2>1, <2>3 DEF StructIs, Extends
<1> QED BY <1>2, <1>3

LEMMA EntryExtended ==
  ASSUME NEW T, TablesOK(T), NEW U, Extends(T, U), NEW e, EntryIs(T, e)
  PROVE  EntryIs(U, e)
<1>1. \A v \in Text \cup Struct, x \in Refs : Is(T, x, v) => Is(U, x, v)
  BY IsExtended DEF Is
<1>2. ASSUME NEW v \in Text \cup Struct, NEW refs, AllAre(T, refs, <<v>>)
      PROVE  AllAre(U, refs, <<v>>)
  <2>1. refs \in Seq(Refs) /\ Len(refs) = 1 /\ Len(<<v>>) = 1 /\ <<v>>[1] = v
    BY <1>2 DEF AllAre, Are
  <2>2. refs[1] \in Refs /\ Is(T, refs[1], v)
    BY <1>2, <2>1 DEF AllAre, Are
  <2>3. Is(U, refs[1], v)
    BY <1>1, <2>2
  <2>4. \A k \in 1..Len(refs) : Is(U, refs[k], <<v>>[k])
    BY <2>1, <2>3
  <2> QED BY <2>1, <2>4 DEF AllAre, Are
<1>3. e \in EntrySet /\ e.job \in JobSet
  BY DEF EntryIs, EntrySet
<1>4. e.job.text \in Text /\ (e.job.kind = "log" => e.job.body \in Struct)
  BY <1>3 DEF JobSet
<1> QED BY <1>2, <1>3, <1>4 DEF EntryIs

LEMMA InternExtends ==
  ASSUME NEW n \in Seq(Struct), PoolsInv(n), NEW w \in Worker, Logs!Intern(w), log_stack[w] # <<>>,
         NEW m, Goes(n, m)
  PROVE  Extends(Tables(n), Tables(m)')
<1>1. log_strToID \in [Logs!Pool -> [Text -> Nat]]
  BY DEF PoolsInv, PoolsOK, TablesOK, TableSet, Tables
<1>2. \A i \in 1..Len(n) : m[i] = n[i]
  <2>1. CASE m = n
    BY <2>1
  <2>2. CASE \E s \in Struct : m = Append(n, s)
    BY <2>2, OneMore
  <2> QED BY <2>1, <2>2 DEF Goes
<1>3. log_structToID \subseteq log_structToID'
  BY DEF Logs!Intern, Logs!InternString, Logs!InternFieldSetFromIDs, Logs!ToInternedStruct,
         Logs!LoadOwn, Logs!LoadParent, Logs!NewString, Logs!PublishString, Logs!StageString,
         Logs!LoadFields, Logs!PublishFields, Logs!StageFields, Logs!LoadStruct, Logs!LockStore,
         Logs!UnlockStore, Logs!PublishStruct, Logs!StageStruct, Logs!FlushBatch, Logs!Stage,
         Logs!structVars
<1>4. \A pool \in Logs!Pool, t \in Text : log_strToID[pool][t] # 0
        => log_strToID'[pool][t] = log_strToID[pool][t]
  <2>1. CASE UNCHANGED log_strToID
    BY <2>1
  <2>2. CASE Logs!PublishString(w)
    <3>1. CASE log_strToID[Logs!Top(w).pool][Logs!Top(w).text] = 0
      <4>1. log_strToID'
              = [log_strToID EXCEPT ![Logs!Top(w).pool][Logs!Top(w).text] = Logs!Top(w).id]
        BY <2>2, <3>1 DEF Logs!PublishString
      <4> QED BY <1>1, <3>1, <4>1
    <3>2. CASE log_strToID[Logs!Top(w).pool][Logs!Top(w).text] # 0
      BY <2>2, <3>2 DEF Logs!PublishString
    <3> QED BY <3>1, <3>2
  <2> QED
    BY <2>1, <2>2
    DEF Logs!Intern, Logs!InternString, Logs!InternFieldSetFromIDs, Logs!ToInternedStruct,
        Logs!LoadOwn, Logs!LoadParent, Logs!NewString, Logs!StageString, Logs!LoadFields,
        Logs!PublishFields, Logs!StageFields, Logs!LoadStruct, Logs!LockStore, Logs!UnlockStore,
        Logs!PublishStruct, Logs!StageStruct, Logs!FlushBatch, Logs!Stage
<1> QED BY <1>2, <1>3, <1>4 DEF Extends, Tables

\* The stack of a worker that owns nothing is replaced by one that owns nothing.
Unowned(s) == (\A i \in 1..Len(s) : ~Owning(s[i])) /\ (s # <<>> => Logs!Last(s).at # "stage")

LEMMA StackReplaced ==
  ASSUME NEW T, NEW un, NEW fl, NEW er, NEW dn, NEW st, PoolsOK(T, un, fl, er, dn, st),
         NEW w \in Worker, Unowned(st[w]), NEW k \in Nat, k <= Len(Jobs[w]),
         NEW s \in Seq(Frames), Unowned(s),
         s # <<>> => k < Len(Jobs[w]) /\ StackOK(T, Jobs[w][k + 1], s),
         NEW dn2, dn2 = [dn EXCEPT ![w] = k], NEW next, next = With(st, w, s)
  PROVE  PoolsOK(T, un, fl, er, dn2, next)
<1>1. TablesOK(T) /\ Stacks(T, dn, st) /\ Staging(T, un, fl, er, AtStage(st))
  BY DEF PoolsOK
<1>2. st \in [Worker -> Seq(Frames)] /\ dn \in [Worker -> Nat]
  BY <1>1 DEF Stacks
<1>3. /\ next \in [Worker -> Seq(Frames)] /\ next[w] = s
      /\ \A v \in Worker : v # w => next[v] = st[v]
  BY <1>2 DEF With
<1>4. /\ dn2 \in [Worker -> Nat] /\ dn2[w] = k
      /\ \A v \in Worker : v # w => dn2[v] = dn[v]
  BY <1>2
<1>5. ASSUME NEW v \in Worker
      PROVE  /\ dn2[v] <= Len(Jobs[v])
             /\ next[v] # <<>> => dn2[v] < Len(Jobs[v]) /\ StackOK(T, Jobs[v][dn2[v] + 1], next[v])
  <2>1. CASE v = w
    BY <1>3, <1>4, <2>1
  <2>2. CASE v # w
    BY <1>1, <1>3, <1>4, <2>2 DEF Stacks
  <2> QED BY <2>1, <2>2
<1>6. ASSUME NEW v \in Worker, NEW u \in Worker, NEW i \in 1..Len(next[v]),
             NEW j \in 1..Len(next[u]),
             Owning(next[v][i]), Owning(next[u][j]),
             Logs!OwnRef(next[v][i]) = Logs!OwnRef(next[u][j])
      PROVE  v = u /\ i = j
  <2>1. v # w /\ u # w
    BY <1>3, <1>6 DEF Unowned
  <2>2. next[v] = st[v] /\ next[u] = st[u]
    BY <1>3, <2>1
  <2> QED BY <1>1, <1>6, <2>2 DEF Stacks
<1>7. Stacks(T, dn2, next)
  BY <1>3, <1>4, <1>5, <1>6 DEF Stacks
<1>8. AtStage(next) = AtStage(st)
  <2>1. \A r : ~StagedBy(st[w], r) /\ ~StagedBy(next[w], r)
    BY <1>3 DEF StagedBy, Unowned
  <2>2. \A v \in Worker : \A r : StagedBy(next[v], r) <=> StagedBy(st[v], r)
    BY <1>3, <2>1
  <2> QED BY <2>2 DEF AtStage
<1> QED BY <1>1, <1>7, <1>8 DEF PoolsOK

\* A job makes a call.
LEMMA Starts ==
  ASSUME NEW T, NEW job \in JobSet, NEW f \in JobFrames, JobOK(T, job, f), f[f.at] = <<>>,
         NEW g, g = (IF f.at = "body" THEN Logs!StructCall(job.body)
           ELSE Logs!StringCall("client", job.text)),
         NEW s, s = <<f>> \o Logs!Continue(g)
  PROVE  s \in Seq(Frames) /\ s # <<>> /\ StackOK(T, job, s) /\ Unowned(s)
<1>1. f.call \notin Called /\ f.at \in {"body", "text"} /\ f \in Frames
  BY DEF JobFrames, Called, Frames
<1>2. Fresh(g)
  <2>1. f.at = "body" => job.body \in Struct
    BY DEF JobOK, JobSet, JobFrames
  <2>2. job.text \in Text /\ "client" \in Logs!Pool
    BY DEF JobSet, Logs!Pool
  <2> QED BY <2>1, <2>2, FreshCalls
<1>3. g \in Frames /\ FrameOK(T, job, g) /\ ~Owning(g) /\ g.at # "stage" /\ g.call \in Called
  BY <1>2, FreshIsOK
<1> DEFINE st == <<f, g>>
<1>4. /\ st \in Seq(Frames) /\ st # <<>> /\ Len(st) = 2 /\ st[1] = f /\ st[2] = g
  BY <1>1, <1>3
<1>5. FrameOK(T, job, f)
  BY <1>1 DEF FrameOK, Owning, Called
<1>6. Serves(job, f, g)
  <2>1. SameCall(g, g)
    BY DEF SameCall
  <2> QED BY <1>1, <2>1 DEF Serves
<1>7. Logs!Front(st) = <<f>>
  <2> HIDE DEF st
  <2>1. Logs!Front(st) \in Seq(Frames) /\ Len(Logs!Front(st)) = Len(st) - 1
        /\ \A i \in 1..(Len(st) - 1) : Logs!Front(st)[i] = st[i]
    BY ONLY <1>4, FrontOf
  <2>2. Len(Logs!Front(st)) = 1 /\ Logs!Front(st)[1] = f
    BY <1>4, <2>1
  <2> QED BY <2>1, <2>2
<1> HIDE DEF st
<1>8. Below(T, job, st)
  <2>1. \A i \in 1..Len(st) : i = 1 \/ i = 2
    BY <1>4
  <2>2. \A i \in 1..Len(st) : i < Len(st) => FrameOK(T, job, st[i])
    BY <1>4, <1>5, <2>1
  <2>3. \A i \in 1..Len(st) : i > 1 => st[i].call \in Called /\ Serves(job, st[i - 1], st[i])
    <3> SUFFICES ASSUME NEW i \in 1..Len(st), i > 1
                 PROVE  st[i].call \in Called /\ Serves(job, st[i - 1], st[i])
      OBVIOUS
    <3>1. i = 2 /\ i - 1 = 1
      BY <2>1
    <3>2. st[i] = g /\ st[i - 1] = f
      BY <1>4, <3>1
    <3> QED BY <1>3, <1>6, <3>2
  <2> QED BY <1>1, <1>4, <2>2, <2>3 DEF Below
<1>9. SameCall(st[Len(st)], g)
  BY <1>4 DEF SameCall
<1>10. Succeeds(T, job, st, g, s)
  BY <1>3, <1>7, <1>8, <1>9, Pushed
<1>11. /\ StackOK(T, job, s) /\ s # <<>> /\ s \in Seq(Frames) /\ Logs!Last(s).at # "stage"
       /\ Len(s) >= 2
  BY <1>3, <1>4, <1>10 DEF Succeeds, StackOK
<1>12. ASSUME NEW i \in 1..Len(s) PROVE ~Owning(s[i])
  <2>1. CASE i >= 2
    BY <1>3, <1>4, <1>10, <2>1 DEF Succeeds
  <2>2. CASE i = 1
    <3>1. s[1] = f
      BY <1>4, <1>10 DEF Succeeds
    <3> QED BY <1>1, <2>2, <3>1 DEF Owning
  <2> QED BY <1>11, <2>1, <2>2
<1> QED BY <1>11, <1>12 DEF Unowned

LEMMA StringContinues ==
  ASSUME NEW pool, NEW t, NEW f
  PROVE  <<f>> \o Logs!Continue(Logs!StringCall(pool, t)) = <<f, Logs!StringCall(pool, t)>>
<1> DEFINE g == Logs!StringCall(pool, t)
<1>1. ~Logs!Collects(g)
  BY DEF Logs!StringCall, Logs!Collects
<1> HIDE DEF g
<1>2. Logs!Continue(g) = <<g>>
  BY <1>1 DEF Logs!Continue, Logs!MovedOn
<1>3. <<f>> \o <<g>> = <<f, g>>
  <2> DEFINE S == {f, g}
             j == <<f>> \o <<g>>
  <2>1. <<f>> \in Seq(S) /\ <<g>> \in Seq(S) /\ Len(<<f>>) = 1 /\ Len(<<g>>) = 1
    OBVIOUS
  <2> HIDE DEF S
  <2>2. j \in Seq(S) /\ Len(j) = 2 /\ j[1] = <<f>>[1] /\ j[2] = <<g>>[2 - 1]
    BY <2>1, Joined
  <2> HIDE DEF j
  <2>3. j[1] = f /\ j[2] = g /\ <<f, g>> \in Seq(S) /\ Len(<<f, g>>) = 2
    BY <2>1, <2>2 DEF S
  <2>4. \A i \in 1..2 : j[i] = <<f, g>>[i]
    BY <2>3
  <2>5. j = <<f, g>>
    BY ONLY <2>2, <2>3, <2>4, SeqEqual
  <2> QED BY <2>5 DEF j
<1> QED BY <1>2, <1>3 DEF g

\* The worker has a job.
LEMMA HasJob ==
  ASSUME NEW n, PoolsInv(n), NEW w \in Worker
  PROVE  /\ log_done[w] \in Nat /\ log_done[w] <= Len(Jobs[w]) /\ Len(Jobs[w]) \in Nat
         /\ log_done \in [Worker -> Nat] /\ log_stack \in [Worker -> Seq(Frames)]
         /\ log_done[w] < Len(Jobs[w])
              => Logs!Job(w) \in JobSet /\ log_done[w] + 1 \in DOMAIN Jobs[w]
         /\ log_stack[w] # <<>> => log_done[w] < Len(Jobs[w])
<1>1. Stacks(Tables(n), log_done, log_stack)
  BY DEF PoolsInv, PoolsOK
<1>2. /\ log_done \in [Worker -> Nat] /\ log_done[w] <= Len(Jobs[w])
      /\ log_stack \in [Worker -> Seq(Frames)]
      /\ log_stack[w] # <<>> => log_done[w] < Len(Jobs[w])
  BY <1>1 DEF Stacks
<1>3. Jobs[w] \in Seq(JobSet) /\ Len(Jobs[w]) \in Nat
  BY IngestionAssumption
<1>4. log_done[w] < Len(Jobs[w]) => Logs!Job(w) \in JobSet /\ log_done[w] + 1 \in DOMAIN Jobs[w]
  BY <1>2, <1>3 DEF Logs!Job
<1> QED BY <1>2, <1>3, <1>4

\* The innermost call of a worker that did all calls of a job.
LEMMA JobFrame ==
  ASSUME NEW n, PoolsInv(n), NEW w \in Worker, log_stack[w] # <<>>, Logs!Top(w).call \notin Called
  PROVE  /\ Logs!Top(w) \in JobFrames /\ JobOK(Tables(n), Logs!Job(w), Logs!Top(w))
         /\ Len(Logs!Top(w)[Logs!Top(w).at]) = 1
         /\ Unowned(log_stack[w])
<1>1. Stacks(Tables(n), log_done, log_stack) /\ Logs!Top(w) = Logs!Last(log_stack[w])
  BY DEF PoolsInv, PoolsOK, Logs!Top
<1> DEFINE s == log_stack[w]
           T == Tables(n)
<1>2. /\ StackOK(T, JobOf(log_done, w), s) /\ s \in Seq(Frames) /\ Len(s) \in Nat \ {0}
      /\ Logs!Last(s) = s[Len(s)]
      /\ Logs!Last(s) \in Frames /\ FrameOK(T, JobOf(log_done, w), Logs!Last(s))
      /\ Rests(Logs!Last(s))
      /\ (Logs!Last(s).at = "stage" => Owning(Logs!Last(s)))
  BY ONLY <1>1, Topmost, w \in Worker, log_stack[w] # <<>> DEF JobOf
<1> HIDE DEF s, T
<1>3. JobOf(log_done, w) = Logs!Job(w)
  BY DEF JobOf, Logs!Job
<1>4. Logs!Top(w) = Logs!Last(s)
  BY <1>1 DEF s
<1>5. Len(s) = 1
  <2>1. \A i \in 1..Len(s) : i > 1 => s[i].call \in Called
    BY <1>2 DEF StackOK
  <2>2. s[Len(s)].call \notin Called
    BY <1>2, <1>4
  <2>3. Len(s) \in 1..Len(s) /\ Len(s) \in Nat \ {0}
    BY <1>2
  <2>4. ~(Len(s) > 1)
    BY ONLY <2>1, <2>2, <2>3
  <2>5. PICK k : k = Len(s)
    OBVIOUS
  <2>6. k \in Nat /\ k # 0 /\ ~(k > 1)
    BY <2>3, <2>4, <2>5
  <2>7. k = 1
    BY <2>6
  <2> QED BY <2>5, <2>7
<1>6. Unowned(s)
  <2>1. Logs!Last(s).call \notin Called
    BY <1>4
  <2>2. \A i \in 1..Len(s) : s[i] = Logs!Last(s)
    BY <1>2, <1>5
  <2>3. ~Owning(Logs!Last(s))
    BY <2>1 DEF Owning
  <2> QED BY <1>2, <2>2, <2>3 DEF Unowned
<1>7. Logs!Top(w) \in JobFrames
  BY <1>2, <1>4, ByCall
<1>8. JobOK(T, Logs!Job(w), Logs!Top(w)) /\ Len(Logs!Top(w)[Logs!Top(w).at]) = 1
  BY <1>2, <1>3, <1>4 DEF FrameOK, Rests
<1> QED BY <1>6, <1>7, <1>8 DEF s, T

LEMMA BeginKeeps ==
  ASSUME NEW n, PoolsInv(n), NEW w \in Worker, Logs!Begin(w)
  PROVE  PoolsInv(n)'
<1> DEFINE T == Tables(n)
           job == Logs!Job(w)
           f == [call |-> job.kind, at |-> IF job.kind = "log" THEN "body" ELSE "text",
                 body |-> <<>>, text |-> <<>>]
           g == IF f.at = "body" THEN Logs!StructCall(job.body)
             ELSE Logs!StringCall("client", job.text)
           s == <<f>> \o Logs!Continue(g)
<1>1. /\ log_stack[w] = <<>> /\ log_done[w] < Len(Jobs[w])
      /\ UNCHANGED <<log_strToID, log_idToStr, Logs!structVars, Logs!stagingVars,
           Logs!ingestionVars>>
  BY DEF Logs!Begin, Logs!Idle
<1>2. /\ log_done \in [Worker -> Nat] /\ log_stack \in [Worker -> Seq(Frames)] /\ job \in JobSet
      /\ Len(Jobs[w]) \in Nat
  BY <1>1, HasJob
<1>3. log_stack' = With(log_stack, w, s)
  <2>1. CASE job.kind = "log"
    <3>1. f = [call |-> "log", at |-> "body", body |-> <<>>, text |-> <<>>]
      BY <2>1
    <3> QED BY <2>1, <3>1 DEF Logs!Begin, With
  <2>2. CASE job.kind # "log"
    <3>1. f = [call |-> "timeline", at |-> "text", body |-> <<>>, text |-> <<>>]
      BY <1>2, <2>2 DEF JobSet
    <3>2. s = <<f, Logs!StringCall("client", job.text)>>
      <4>1. g = Logs!StringCall("client", job.text)
        BY <3>1
      <4> HIDE DEF f, g
      <4> QED BY <4>1, StringContinues
    <3> QED BY <2>2, <3>1, <3>2 DEF Logs!Begin, With
  <2> QED BY <2>1, <2>2
<1>4. f \in JobFrames /\ f[f.at] = <<>> /\ JobOK(T, job, f)
  <2>1. job.kind \in {"log", "timeline"}
    BY <1>2 DEF JobSet
  <2>2. \A v : Are(T, <<>>, <<v>>)
    BY DEF Are
  <2>3. f \in JobFrames
    BY <2>1 DEF JobFrames
  <2> HIDE DEF T, job
  <2>4. JobOK(T, job, f)
    BY <2>1, <2>2 DEF JobOK
  <2> QED BY <2>1, <2>3, <2>4
<1> HIDE DEF f
<1>5. s \in Seq(Frames) /\ s # <<>> /\ StackOK(T, job, s) /\ Unowned(s)
  <2> DEFINE g1 == g
             s1 == s
  <2> HIDE DEF T, job, g1, s1
  <2>1. g1 = (IF f.at = "body" THEN Logs!StructCall(job.body)
          ELSE Logs!StringCall("client", job.text))
    BY DEF g1
  <2>2. s1 = <<f>> \o Logs!Continue(g1)
    BY DEF s1, g1
  <2>3. s1 \in Seq(Frames) /\ s1 # <<>> /\ StackOK(T, job, s1) /\ Unowned(s1)
    BY ONLY <1>2, <1>4, <2>1, <2>2, Starts
  <2> QED BY <2>3 DEF s1
<1> HIDE DEF s
<1>6. log_done' = [log_done EXCEPT ![w] = log_done[w]] /\ log_done[w] \in Nat
  BY <1>1, <1>2 DEF Logs!ingestionVars
<1>7. Unowned(log_stack[w])
  BY <1>1 DEF Unowned
<1>8. /\ PoolsOK(T, log_unflushed, log_file, log_err, log_done, log_stack)
      /\ StackOK(T, Jobs[w][log_done[w] + 1], s)
  BY <1>5 DEF PoolsInv, Logs!Job
<1>9. log_done[w] <= Len(Jobs[w])
  BY <1>1, <1>2, <1>6
<1>10. PoolsOK(T, log_unflushed, log_file, log_err, log_done', log_stack')
  BY ONLY <1>1, <1>3, <1>5, <1>6, <1>7, <1>8, <1>9, StackReplaced, w \in Worker
<1>11. /\ Tables(n)' = T /\ log_unflushed' = log_unflushed /\ log_file' = log_file
       /\ log_err' = log_err
  BY <1>1, SameTables DEF Logs!structVars, Logs!stagingVars
<1> QED BY <1>10, <1>11 DEF PoolsInv

LEMMA InternSummaryKeeps ==
  ASSUME NEW n, PoolsInv(n), NEW w \in Worker, Logs!InternSummary(w)
  PROVE  PoolsInv(n)'
<1> DEFINE T == Tables(n)
           job == Logs!Job(w)
           f == [Logs!Top(w) EXCEPT !.at = "text"]
           g == Logs!StringCall("client", job.text)
           s == <<f>> \o Logs!Continue(g)
<1>1. /\ log_stack[w] # <<>> /\ Logs!Top(w).call = "log" /\ Logs!Top(w).at = "body"
      /\ Logs!Top(w).call \notin Called
      /\ UNCHANGED <<log_strToID, log_idToStr, Logs!structVars, Logs!stagingVars,
           Logs!ingestionVars>>
  BY DEF Logs!InternSummary, Logs!In, Called
<1>2. /\ log_done \in [Worker -> Nat] /\ log_stack \in [Worker -> Seq(Frames)] /\ job \in JobSet
      /\ log_done[w] < Len(Jobs[w]) /\ Len(Jobs[w]) \in Nat
  BY <1>1, HasJob
<1>3. /\ Logs!Top(w) \in JobFrames /\ JobOK(T, job, Logs!Top(w))
      /\ Len(Logs!Top(w)[Logs!Top(w).at]) = 1
      /\ Unowned(log_stack[w])
  BY <1>1, JobFrame
<1>4. log_stack' = With(log_stack, w, s)
  <2>1. s = <<f, g>>
    BY StringContinues
  <2> QED BY <2>1 DEF Logs!InternSummary, With
<1>5. f \in JobFrames /\ f[f.at] = <<>> /\ JobOK(T, job, f) /\ f.at = "text"
  <2>1. /\ f \in JobFrames /\ f.at = "text" /\ f.call = "log" /\ f.body = Logs!Top(w).body
        /\ f.text = Logs!Top(w).text
    BY <1>1, <1>3 DEF JobFrames
  <2>2. Logs!Top(w).text = <<>> /\ Len(Logs!Top(w).body) = 1
    BY <1>1, <1>3 DEF JobOK
  <2> HIDE DEF T, job, f
  <2>3. JobOK(T, job, f)
    BY <1>1, <1>3, <2>1, <2>2 DEF JobOK
  <2>4. f[f.at] = <<>>
    BY <2>1, <2>2
  <2> QED BY <2>1, <2>3, <2>4
<1> HIDE DEF f
<1>6. s \in Seq(Frames) /\ s # <<>> /\ StackOK(T, job, s) /\ Unowned(s)
  <2> DEFINE s1 == s
  <2> HIDE DEF T, job, s1
  <2>1. g = (IF f.at = "body" THEN Logs!StructCall(job.body)
          ELSE Logs!StringCall("client", job.text))
    BY <1>5
  <2> HIDE DEF g
  <2>2. s1 = <<f>> \o Logs!Continue(g)
    BY DEF s1
  <2>3. s1 \in Seq(Frames) /\ s1 # <<>> /\ StackOK(T, job, s1) /\ Unowned(s1)
    BY ONLY <1>2, <1>5, <2>1, <2>2, Starts
  <2> QED BY <2>3 DEF s1
<1> HIDE DEF s
<1>7. log_done' = [log_done EXCEPT ![w] = log_done[w]] /\ log_done[w] \in Nat
  BY <1>1, <1>2 DEF Logs!ingestionVars
<1>8. /\ PoolsOK(T, log_unflushed, log_file, log_err, log_done, log_stack)
      /\ StackOK(T, Jobs[w][log_done[w] + 1], s)
  BY <1>6 DEF PoolsInv, Logs!Job
<1>9. log_done[w] <= Len(Jobs[w]) /\ log_done[w] < Len(Jobs[w])
  BY <1>2, <1>7
<1>10. PoolsOK(T, log_unflushed, log_file, log_err, log_done', log_stack')
  BY ONLY <1>3, <1>4, <1>6, <1>7, <1>8, <1>9, StackReplaced, w \in Worker
<1>11. /\ Tables(n)' = T /\ log_unflushed' = log_unflushed /\ log_file' = log_file
       /\ log_err' = log_err
  BY <1>1, SameTables DEF Logs!structVars, Logs!stagingVars
<1> QED BY <1>10, <1>11 DEF PoolsInv

LEMMA NoCallsAreUnowned == <<>> \in Seq(Frames) /\ Unowned(<<>>)
<1>1. <<>> \in Seq(Frames)
  OBVIOUS
<1>2. \A i \in 1..0 : FALSE
  OBVIOUS
<1> QED BY <1>1, <1>2 DEF Unowned

\* The job of a worker is over, or what is left of its jobs.
LEMMA EndKeeps ==
  ASSUME NEW n, PoolsInv(n), NEW w \in Worker, Unowned(log_stack[w]),
         NEW k \in Nat, k <= Len(Jobs[w]),
         log_stack' = With(log_stack, w, <<>>), log_done' = [log_done EXCEPT ![w] = k],
         UNCHANGED <<log_strToID, log_idToStr, Logs!structVars, log_unflushed, log_err, log_file>>
  PROVE  PoolsInv(n)'
<1> DEFINE T == Tables(n)
<1>1. Tables(n)' = T
  BY SameTables DEF Logs!structVars
<1>2. PoolsOK(T, log_unflushed, log_file, log_err, log_done, log_stack)
  BY DEF PoolsInv
<1>3. <<>> \in Seq(Frames) /\ Unowned(<<>>)
  BY NoCallsAreUnowned
<1> DEFINE s == <<>>
<1>4. s = <<>> /\ s \in Seq(Frames) /\ Unowned(s) /\ log_stack' = With(log_stack, w, s)
  BY <1>3
<1> HIDE DEF T, s
<1>5. s # <<>> => k < Len(Jobs[w]) /\ StackOK(T, Jobs[w][k + 1], s)
  BY <1>4
<1>6. PoolsOK(T, log_unflushed, log_file, log_err, log_done', log_stack')
  BY ONLY <1>2, <1>4, <1>5, StackReplaced, w \in Worker, Unowned(log_stack[w]), k \in Nat,
      k <= Len(Jobs[w]), log_done' = [log_done EXCEPT ![w] = k]
<1> QED BY <1>1, <1>6 DEF PoolsInv

\* What a worker has for its job when it did all calls of it.
LEMMA EntryIsGot ==
  ASSUME NEW n, PoolsInv(n), NEW w \in Worker, Logs!In(w, "log", "text") \/
           Logs!In(w, "timeline", "text")
  PROVE  /\ EntryIs(Tables(n), Logs!Entry(w)) /\ Unowned(log_stack[w]) /\ log_stack[w] # <<>>
         /\ Logs!Entry(w).job = Logs!Job(w) /\ Logs!Job(w).kind = Logs!Top(w).call
<1> DEFINE T == Tables(n)
           job == Logs!Job(w)
           f == Logs!Top(w)
           e == Logs!Entry(w)
<1>1. log_stack[w] # <<>> /\ f.call \in {"log", "timeline"} /\ f.at = "text" /\ f.call \notin Called
  BY DEF Logs!In, Called
<1>2. job \in JobSet
  BY <1>1, HasJob
<1>3. f \in JobFrames /\ JobOK(T, job, f) /\ Len(f[f.at]) = 1 /\ Unowned(log_stack[w])
  BY <1>1, JobFrame
<1>4. /\ e.job = job /\ e.body = f.body /\ e.text = f.text
      /\ e = [job |-> job, body |-> f.body, text |-> f.text]
  BY DEF Logs!Entry
<1> HIDE DEF T, job, f, e
<1>5. e \in EntrySet
  BY <1>2, <1>3, <1>4 DEF EntrySet, JobFrames
<1>6. AllAre(T, e.text, <<e.job.text>>)
  BY <1>1, <1>3, <1>4 DEF JobOK, AllAre
<1>7. e.job.kind = "log" => AllAre(T, e.body, <<e.job.body>>)
  BY <1>1, <1>3, <1>4 DEF JobOK, AllAre
<1>8. job.kind = f.call
  BY <1>3 DEF JobOK
<1>9. EntryIs(T, e)
  BY <1>5, <1>6, <1>7 DEF EntryIs
<1> QED BY <1>1, <1>3, <1>4, <1>8, <1>9 DEF T, job, f, e

-----------------------------------------------------------------------------
(* The invariant of log ingestion.                                         *)

Entered == log_logs \cup log_paths \cup log_written
Emptied(pool) == log_unflushed[pool] = {} /\ ~log_err[pool]

\* Each job that was done has left its entry, unless one failed, and no log is
\* written twice.
AccountsOK ==
  /\ \A e \in log_logs : e.job.kind = "log"
  /\ \A e \in Entered : \E w \in Worker : \E i \in 1..log_done[w] : e.job = Jobs[w][i]
  /\ log_logs \cap log_written = {} /\ log_twice = {}
  /\ ~log_hasErr
       => \A w \in Worker : \A i \in 1..log_done[w] : \E e \in Entered : e.job = Jobs[w][i]

\* How far the serializer is.
BuildOK ==
  /\ log_building \in {"logs", "timelines", "client", "server"}
  /\ log_building # "logs" \/ log_result # "none" => Logs!AllDone /\ ~log_hasErr
  /\ log_building # "logs" => log_logs = {}
  /\ log_building \in Logs!Pool => log_paths \subseteq log_written
  /\ log_building = "server" => Emptied("client")
  /\ log_result = "ok" => log_building = "server" /\ Emptied("server")

Good(n) ==
  PoolsInv(n) /\ (\A e \in Entered : EntryIs(Tables(n), e)) /\ AccountsOK /\ BuildOK

LEMMA StillBuilding ==
  ASSUME BuildOK, ~Logs!AllDone, log_building' = log_building, log_result' = log_result
  PROVE  BuildOK'
<1>1. log_building = "logs" /\ log_result = "none"
  BY DEF BuildOK
<1> QED BY <1>1 DEF BuildOK, Logs!Pool

LEMMA InternIsGood ==
  ASSUME NEW n \in Seq(Struct), Good(n), NEW w \in Worker,
         Logs!Intern(w) /\ log_stack[w] # <<>> /\ UNCHANGED Logs!ingestionVars
  PROVE  \E m \in Seq(Struct) : Good(m)'
<1>1. /\ UNCHANGED <<log_done, log_hasErr, log_logs, log_paths, log_written, log_building,
           log_result>>
      /\ PoolsInv(n) /\ AccountsOK /\ BuildOK
  BY DEF Good, Logs!ingestionVars
<1>2. PICK m \in Seq(Struct) : PoolsInv(m)' /\ Goes(n, m) /\ log_twice' = log_twice
  BY <1>1, InternKeeps
<1>3. Extends(Tables(n), Tables(m)')
  BY <1>1, <1>2, InternExtends
<1>4. Entered' = Entered
  BY <1>1 DEF Entered
<1>5. ASSUME NEW e \in Entered' PROVE EntryIs(Tables(m), e)'
  <2>1. EntryIs(Tables(n), e) /\ TablesOK(Tables(n))
    BY <1>1, <1>4, <1>5 DEF Good, PoolsInv, PoolsOK
  <2>2. EntryIs(Tables(m)', e)
    BY <1>3, <2>1, EntryExtended
  <2>3. EntryIs(Tables(m), e)' <=> EntryIs(Tables(m)', e)
    BY DEF EntryIs
  <2> QED BY <2>2, <2>3
<1>6. AccountsOK'
  BY <1>1, <1>2, <1>4 DEF AccountsOK
<1>7. BuildOK'
  <2>1. ~Logs!AllDone
    BY DEF Logs!AllDone, Logs!Idle
  <2> QED BY <1>1, <2>1, StillBuilding
<1> QED BY <1>2, <1>5, <1>6, <1>7 DEF Good

\* The pools stay as they are.
LEMMA StillGood ==
  ASSUME NEW n \in Seq(Struct), Good(n), PoolsInv(n)', AccountsOK', BuildOK',
         UNCHANGED <<log_strToID, log_idToStr, Logs!structVars>>,
         \A e \in Entered' : e \in Entered \/ EntryIs(Tables(n), e)
  PROVE  \E m \in Seq(Struct) : Good(m)'
<1>1. Tables(n)' = Tables(n)
  BY SameTables DEF Logs!structVars
<1>2. ASSUME NEW e \in Entered' PROVE EntryIs(Tables(n), e)'
  <2>1. EntryIs(Tables(n), e)
    BY <1>2 DEF Good
  <2>2. EntryIs(Tables(n), e)' <=> EntryIs(Tables(n)', e)
    BY DEF EntryIs
  <2> QED BY <1>1, <2>1, <2>2
<1> QED BY <1>2 DEF Good

LEMMA BeginIsGood ==
  ASSUME NEW n \in Seq(Struct), Good(n), NEW w \in Worker, Logs!Begin(w) \/ Logs!InternSummary(w)
  PROVE  \E m \in Seq(Struct) : Good(m)'
<1>1. /\ UNCHANGED <<log_strToID, log_idToStr, Logs!structVars, Logs!stagingVars,
           Logs!ingestionVars>>
      /\ ~Logs!AllDone
  <2>1. CASE Logs!Begin(w)
    <3>1. log_done[w] < Len(Jobs[w])
      BY <2>1 DEF Logs!Begin
    <3>2. log_done[w] \in Nat /\ Len(Jobs[w]) \in Nat
      BY HasJob DEF Good
    <3>3. log_done[w] # Len(Jobs[w])
      BY <3>1, <3>2
    <3> QED BY <2>1, <3>3 DEF Logs!Begin, Logs!AllDone
  <2>2. CASE Logs!InternSummary(w)
    BY <2>2 DEF Logs!InternSummary, Logs!In, Logs!AllDone, Logs!Idle
  <2> QED BY <2>1, <2>2
<1>2. UNCHANGED <<log_done, log_hasErr, log_logs, log_paths, log_written, log_building, log_result,
        log_twice>>
  BY <1>1 DEF Logs!ingestionVars, Logs!stagingVars
<1>3. Entered' = Entered
  BY <1>2 DEF Entered
<1>4. AccountsOK'
  BY <1>2, <1>3 DEF AccountsOK, Good
<1>5. BuildOK'
  BY <1>1, <1>2, StillBuilding DEF Good
<1>6. PoolsInv(n)'
  BY BeginKeeps, InternSummaryKeeps DEF Good
<1> QED BY <1>1, <1>3, <1>4, <1>5, <1>6, StillGood

\* A worker ends a job: the entry is of a job that left none before.
LEMMA Ends ==
  ASSUME NEW n, Good(n), NEW w \in Worker, Logs!In(w, "log", "text") \/
           Logs!In(w, "timeline", "text"), Logs!EndJob(w),
         UNCHANGED <<log_strToID, log_idToStr, Logs!structVars, log_unflushed, log_err, log_file,
           log_building, log_result>>
  PROVE  /\ PoolsInv(n)' /\ BuildOK' /\ EntryIs(Tables(n), Logs!Entry(w))
         /\ Logs!Entry(w).job = Jobs[w][log_done[w] + 1] /\ log_done \in [Worker -> Nat]
         /\ log_done' = [log_done EXCEPT ![w] = log_done[w] + 1]
         /\ Logs!In(w, "log", "text")
              => Logs!Entry(w).job.kind = "log" /\ \A e \in Entered : e # Logs!Entry(w)
<1>1. /\ EntryIs(Tables(n), Logs!Entry(w)) /\ Unowned(log_stack[w]) /\ log_stack[w] # <<>>
      /\ Logs!Entry(w).job = Logs!Job(w) /\ Logs!Job(w).kind = Logs!Top(w).call /\ PoolsInv(n)
  BY EntryIsGot DEF Good
<1>2. /\ log_done \in [Worker -> Nat] /\ log_done[w] < Len(Jobs[w]) /\ Len(Jobs[w]) \in Nat
      /\ log_done[w] + 1 \in DOMAIN Jobs[w] /\ log_stack \in [Worker -> Seq(Frames)]
  BY <1>1, HasJob
<1>3. log_stack' = With(log_stack, w, <<>>) /\ log_done' = [log_done EXCEPT ![w] = log_done[w] + 1]
  BY DEF Logs!EndJob, With
<1>4. log_done[w] + 1 \in Nat /\ log_done[w] + 1 <= Len(Jobs[w])
  BY <1>2
<1>5. PoolsInv(n)'
  BY ONLY <1>1, <1>3, <1>4, EndKeeps, w \in Worker, UNCHANGED <<log_strToID, log_idToStr,
      Logs!structVars, log_unflushed, log_err, log_file, log_building, log_result>>
<1>6. BuildOK'
  <2>1. ~Logs!AllDone
    BY <1>1 DEF Logs!AllDone, Logs!Idle
  <2> QED BY <2>1, StillBuilding DEF Good
<1>7. ASSUME Logs!In(w, "log", "text"), NEW e \in Entered, e = Logs!Entry(w) PROVE FALSE
  <2>1. PICK v \in Worker : \E i \in 1..log_done[v] : e.job = Jobs[v][i]
    BY DEF Good, AccountsOK
  <2>2. PICK i \in 1..log_done[v] : e.job = Jobs[v][i]
    BY <2>1
  <2>3. i \in DOMAIN Jobs[v]
    <3>1. log_done[v] <= Len(Jobs[v]) /\ log_done[v] \in Nat /\ Jobs[v] \in Seq(JobSet)
      BY <1>1, HasJob, IngestionAssumption
    <3> QED BY <3>1
  <2>4. Jobs[w][log_done[w] + 1] = Jobs[v][i] /\ Jobs[w][log_done[w] + 1].kind = "log"
    BY <1>1, <1>7, <2>2 DEF Logs!In, Logs!Job
  <2>5. w = v /\ log_done[w] + 1 = i
    BY <1>2, <2>3, <2>4, IngestionAssumption
  <2> QED BY <1>2, <2>5
<1>8. Logs!In(w, "log", "text") => Logs!Entry(w).job.kind = "log"
  BY <1>1 DEF Logs!In
<1> QED BY <1>1, <1>2, <1>3, <1>5, <1>6, <1>7, <1>8 DEF Logs!Job

LEMMA AccountsGrow ==
  ASSUME NEW w \in Worker, AccountsOK, log_done \in [Worker -> Nat],
         log_done' = [log_done EXCEPT ![w] = log_done[w] + 1],
         NEW x, x.job = Jobs[w][log_done[w] + 1], Entered' = Entered \cup {x} \/
           (log_hasErr' /\ Entered' \subseteq Entered),
         log_hasErr
           => log_hasErr', log_twice' = {}, log_logs' \cap log_written' = {}, \A e \in log_logs' :
             e.job.kind = "log"
  PROVE  AccountsOK'
<1>1. /\ log_done' \in [Worker -> Nat] /\ log_done'[w] = log_done[w] + 1
      /\ \A v \in Worker : v # w => log_done'[v] = log_done[v]
  OBVIOUS
<1>2. \A v \in Worker : \A i \in 1..log_done[v] : i \in 1..log_done'[v]
  BY <1>1
<1>3. log_done[w] + 1 \in 1..log_done'[w]
  BY <1>1
<1>4. ASSUME NEW e \in Entered'
      PROVE \E v \in Worker : \E i \in 1..log_done'[v] : e.job = Jobs[v][i]
  <2>1. CASE e = x
    BY <1>3, <2>1
  <2>2. CASE e \in Entered
    BY <1>2, <2>2 DEF AccountsOK
  <2> QED BY <2>1, <2>2
<1>5. ASSUME ~log_hasErr', NEW v \in Worker, NEW i \in 1..log_done'[v]
      PROVE  \E e \in Entered' : e.job = Jobs[v][i]
  <2>1. CASE i \in 1..log_done[v]
    BY <1>5, <2>1 DEF AccountsOK
  <2>2. CASE i \notin 1..log_done[v]
    <3>1. v = w /\ i = log_done[w] + 1
      BY <1>1, <2>2
    <3> QED BY <1>5, <3>1
  <2> QED BY <2>1, <2>2
<1>6. \A e \in Entered' : \E v \in Worker : \E i \in 1..log_done'[v] : e.job = Jobs[v][i]
  BY <1>4
<1>7. ~log_hasErr'
        => \A v \in Worker : \A i \in 1..log_done'[v] : \E e \in Entered' : e.job = Jobs[v][i]
  BY <1>5
<1> QED BY <1>6, <1>7 DEF AccountsOK

LEMMA AddLogIsGood ==
  ASSUME NEW n \in Seq(Struct), Good(n), NEW w \in Worker, Logs!AddLog(w)
  PROVE  \E m \in Seq(Struct) : Good(m)'
<1>1. /\ Logs!In(w, "log", "text") /\ Logs!EndJob(w)
      /\ UNCHANGED <<log_strToID, log_idToStr, Logs!structVars, log_flushLock, log_unflushed,
           log_err, log_file, log_paths, log_building, log_result>>
  BY DEF Logs!AddLog
<1> DEFINE x == Logs!Entry(w)
<1>2. /\ PoolsInv(n)' /\ BuildOK' /\ EntryIs(Tables(n), x)
      /\ x.job = Jobs[w][log_done[w] + 1] /\ log_done \in [Worker -> Nat]
      /\ log_done' = [log_done EXCEPT ![w] = log_done[w] + 1]
      /\ x.job.kind = "log" /\ \A e \in Entered : e # x
  BY <1>1, Ends
<1>3. /\ AccountsOK /\ log_logs \cap log_written = {} /\ log_twice = {} /\
           \A e \in log_logs : e.job.kind = "log"
      /\ x \notin log_logs /\ x \notin log_written /\ x \notin log_paths
  BY <1>2 DEF Good, AccountsOK, Entered
<1>4. \/ log_logs' = log_logs \cup {x} /\ UNCHANGED <<log_written, log_twice, log_hasErr>>
      \/ /\ log_written' = log_written \cup log_logs
         /\ log_twice' = log_twice \cup (log_written \cap log_logs)
         /\ log_logs' = {x} /\ (log_hasErr => log_hasErr')
      \/ UNCHANGED <<log_written, log_twice, log_logs>> /\ log_hasErr'
  <2>1. CASE /\ Logs!Cardinality(log_logs) < LogBatch /\ log_logs' = log_logs \cup {x}
             /\ UNCHANGED <<log_written, log_twice, log_hasErr>>
    BY <2>1
  <2>2. ASSUME NEW ok \in BOOLEAN, Logs!WriteLogs(ok), log_logs' = IF ok THEN {x} ELSE log_logs,
               log_hasErr' = (log_hasErr \/ ~ok)
        PROVE  \/ /\ log_written' = log_written \cup log_logs
                  /\ log_twice' = log_twice \cup (log_written \cap log_logs)
                  /\ log_logs' = {x} /\ (log_hasErr => log_hasErr')
               \/ UNCHANGED <<log_written, log_twice, log_logs>> /\ log_hasErr'
    <3>1. CASE ok
      BY <2>2, <3>1 DEF Logs!WriteLogs
    <3>2. CASE ~ok
      BY ONLY <2>2, <3>2 DEF Logs!WriteLogs
    <3> QED BY <3>1, <3>2
  <2>3. \/ /\ Logs!Cardinality(log_logs) < LogBatch /\ log_logs' = log_logs \cup {x}
           /\ UNCHANGED <<log_written, log_twice, log_hasErr>>
        \/ \E ok \in BOOLEAN : /\ Logs!WriteLogs(ok) /\ log_logs' = (IF ok THEN {x} ELSE log_logs)
                               /\ log_hasErr' = (log_hasErr \/ ~ok)
    BY DEF Logs!AddLog
  <2> QED BY ONLY <2>1, <2>2, <2>3
<1> HIDE DEF x
<1>5. /\ Entered' = Entered \cup {x} \/ (log_hasErr' /\ Entered' \subseteq Entered)
      /\ log_hasErr => log_hasErr'
      /\ log_twice' = {} /\ log_logs' \cap log_written' = {} /\
           \A e \in log_logs' : e.job.kind = "log"
  BY <1>1, <1>2, <1>3, <1>4 DEF Entered
<1>6. AccountsOK'
  BY ONLY <1>2, <1>3, <1>5, AccountsGrow, w \in Worker
<1>7. \A e \in Entered' : e \in Entered \/ EntryIs(Tables(n), e)
  BY <1>2, <1>5
<1> QED BY <1>1, <1>2, <1>6, <1>7, StillGood

LEMMA AddPathIsGood ==
  ASSUME NEW n \in Seq(Struct), Good(n), NEW w \in Worker, Logs!AddPath(w)
  PROVE  \E m \in Seq(Struct) : Good(m)'
<1> DEFINE x == Logs!Entry(w)
<1>1. /\ Logs!In(w, "timeline", "text") /\ Logs!EndJob(w) /\ log_paths' = log_paths \cup {x}
      /\ UNCHANGED <<log_strToID, log_idToStr, Logs!structVars, Logs!stagingVars, log_hasErr,
           log_logs, log_written, log_building, log_result>>
      /\ UNCHANGED <<log_unflushed, log_err, log_file, log_twice>>
  BY DEF Logs!AddPath, Logs!stagingVars
<1>2. /\ PoolsInv(n)' /\ BuildOK' /\ EntryIs(Tables(n), x)
      /\ x.job = Jobs[w][log_done[w] + 1] /\ log_done \in [Worker -> Nat]
      /\ log_done' = [log_done EXCEPT ![w] = log_done[w] + 1]
  BY <1>1, Ends
<1>3. /\ AccountsOK /\ log_logs \cap log_written = {} /\ log_twice = {} /\
           \A e \in log_logs : e.job.kind = "log"
  BY DEF Good, AccountsOK
<1> HIDE DEF x
<1>5. /\ Entered' = Entered \cup {x}
      /\ log_hasErr => log_hasErr'
      /\ log_twice' = {} /\ log_logs' \cap log_written' = {} /\
           \A e \in log_logs' : e.job.kind = "log"
  BY <1>1, <1>3 DEF Entered
<1>6. AccountsOK'
  BY ONLY <1>2, <1>3, <1>5, AccountsGrow, w \in Worker
<1>7. \A e \in Entered' : e \in Entered \/ EntryIs(Tables(n), e)
  BY <1>2, <1>5
<1> QED BY <1>1, <1>2, <1>6, <1>7, StillGood

LEMMA GiveUpIsGood ==
  ASSUME NEW n \in Seq(Struct), Good(n), NEW w \in Worker, Logs!GiveUp(w)
  PROVE  \E m \in Seq(Struct) : Good(m)'
<1>1. /\ log_stack[w] = <<>> /\ log_hasErr /\ log_done[w] < Len(Jobs[w])
      /\ log_done' = [log_done EXCEPT ![w] = Len(Jobs[w])]
      /\ UNCHANGED <<log_strToID, log_idToStr, Logs!structVars, log_stack, log_unflushed, log_err,
           log_file, log_twice>>
      /\ UNCHANGED <<log_hasErr, log_logs, log_paths, log_written, log_building, log_result>>
  BY DEF Logs!GiveUp, Logs!Idle, Logs!poolVars, Logs!structVars
<1>2. /\ log_done \in [Worker -> Nat] /\ log_stack \in [Worker -> Seq(Frames)]
      /\ Len(Jobs[w]) \in Nat
      /\ PoolsInv(n) /\ AccountsOK /\ BuildOK
  BY HasJob DEF Good
<1>3. log_stack' = With(log_stack, w, <<>>) /\ Unowned(log_stack[w])
  BY <1>1, <1>2, NoCallsAreUnowned DEF With
<1>4. PoolsInv(n)'
  <2>1. Len(Jobs[w]) <= Len(Jobs[w])
    BY <1>2
  <2> QED BY <1>1, <1>2, <1>3, <2>1, EndKeeps
<1>5. BuildOK'
  <2>1. ~Logs!AllDone
    BY <1>1, <1>2 DEF Logs!AllDone
  <2> QED BY <1>1, <1>2, <2>1, StillBuilding
<1>6. Entered' = Entered
  BY <1>1 DEF Entered
<1>7. AccountsOK'
  <2>1. \A v \in Worker : \A i \in 1..log_done[v] : i \in 1..log_done'[v]
    BY <1>1, <1>2
  <2>2. ASSUME NEW e \in Entered'
        PROVE \E v \in Worker : \E i \in 1..log_done'[v] : e.job = Jobs[v][i]
    <3>1. PICK v \in Worker : \E i \in 1..log_done[v] : e.job = Jobs[v][i]
      BY <1>2, <1>6, <2>2 DEF AccountsOK
    <3> QED BY <2>1, <3>1
  <2> QED BY <1>1, <1>2, <2>2 DEF AccountsOK
<1> QED BY <1>1, <1>4, <1>5, <1>6, <1>7, StillGood

\* Nobody works when the file is built.
LEMMA AtStep ==
  ASSUME NEW n, Good(n), NEW step, Logs!At(step), UNCHANGED <<log_stack, log_done, log_hasErr>>
  PROVE  /\ Logs!AllDone /\ Logs!AllDone' /\ ~log_hasErr /\ ~log_hasErr'
         /\ log_building = step /\ log_result = "none"
         /\ PoolsInv(n) /\ AccountsOK /\ BuildOK
<1>1. Logs!AllDone /\ ~log_hasErr /\ log_building = step /\ log_result = "none"
  BY DEF Logs!At
<1>2. Logs!AllDone'
  BY <1>1 DEF Logs!AllDone, Logs!Idle
<1> QED BY <1>1, <1>2 DEF Good

LEMMA FlushLogsIsGood ==
  ASSUME NEW n \in Seq(Struct), Good(n), Logs!FlushLogs
  PROVE  \E m \in Seq(Struct) : Good(m)'
<1>1. /\ UNCHANGED <<log_strToID, log_idToStr, Logs!structVars, log_flushLock, log_unflushed,
           log_err, log_file, log_stack, log_done, log_hasErr, log_paths>>
      /\ Logs!At("logs")
  BY DEF Logs!FlushLogs
<1>2. \/ /\ log_written' = log_written \cup log_logs
         /\ log_twice' = log_twice \cup (log_written \cap log_logs) /\ log_logs' = {}
         /\ log_building' = "timelines" /\ log_result' = log_result
      \/ UNCHANGED <<log_written, log_twice, log_logs, log_building>> /\ log_result' = "failed"
  <2>1. ASSUME NEW ok \in BOOLEAN, Logs!WriteLogs(ok), log_logs' = IF ok THEN {} ELSE log_logs,
               IF ok THEN Logs!Follow("timelines") ELSE Logs!Fail
        PROVE  \/ /\ log_written' = log_written \cup log_logs
                  /\ log_twice' = log_twice \cup (log_written \cap log_logs) /\ log_logs' = {}
                  /\ log_building' = "timelines" /\ log_result' = log_result
               \/ /\ UNCHANGED <<log_written, log_twice, log_logs, log_building>>
                  /\ log_result' = "failed"
    <3>1. CASE ok
      BY ONLY <2>1, <3>1 DEF Logs!WriteLogs, Logs!Follow
    <3>2. CASE ~ok
      BY ONLY <2>1, <3>2 DEF Logs!WriteLogs, Logs!Fail
    <3> QED BY <3>1, <3>2
  <2>2. \E ok \in BOOLEAN : /\ Logs!WriteLogs(ok) /\ log_logs' = (IF ok THEN {} ELSE log_logs)
                            /\ IF ok THEN Logs!Follow("timelines") ELSE Logs!Fail
    BY DEF Logs!FlushLogs
  <2> QED BY ONLY <2>1, <2>2
<1>3. /\ Logs!AllDone /\ Logs!AllDone' /\ ~log_hasErr /\ ~log_hasErr'
      /\ log_building = "logs" /\ log_result = "none"
      /\ PoolsInv(n) /\ AccountsOK /\ BuildOK
  BY <1>1, AtStep
<1>4. Entered' = Entered
  BY <1>1, <1>2 DEF Entered
<1>5. AccountsOK'
  BY <1>1, <1>2, <1>3, <1>4 DEF AccountsOK
<1>6. BuildOK'
  BY <1>1, <1>2, <1>3 DEF BuildOK, Logs!Pool
<1>7. PoolsInv(n)'
  <2>1. Tables(n)' = Tables(n)
    BY <1>1, SameTables DEF Logs!structVars
  <2> QED BY <1>1, <1>3, <2>1 DEF PoolsInv
<1> QED BY <1>1, <1>4, <1>5, <1>6, <1>7, StillGood

LEMMA WriteTimelinesIsGood ==
  ASSUME NEW n \in Seq(Struct), Good(n), Logs!WriteTimelines
  PROVE  \E m \in Seq(Struct) : Good(m)'
<1>1. /\ UNCHANGED <<log_strToID, log_idToStr, Logs!structVars, log_unflushed, log_err, log_file,
           log_stack, log_done, log_hasErr, log_logs, log_paths, log_twice>>
      /\ Logs!At("timelines")
      /\ \/ /\ log_written' = log_written \cup log_paths /\ log_building' = "client"
            /\ log_result' = log_result
         \/ UNCHANGED <<log_written, log_building>> /\ log_result' = "failed"
  BY DEF Logs!WriteTimelines, Logs!poolVars, Logs!structVars, Logs!Follow, Logs!Fail
<1>2. /\ Logs!AllDone /\ Logs!AllDone' /\ ~log_hasErr /\ ~log_hasErr'
      /\ log_building = "timelines" /\ log_result = "none"
      /\ PoolsInv(n) /\ AccountsOK /\ BuildOK
  BY <1>1, AtStep
<1>3. Entered' = Entered /\ log_logs = {}
  BY <1>1, <1>2 DEF Entered, BuildOK
<1>4. AccountsOK'
  BY <1>1, <1>2, <1>3 DEF AccountsOK
<1>5. BuildOK'
  BY <1>1, <1>2, <1>3 DEF BuildOK, Logs!Pool
<1>6. PoolsInv(n)'
  <2>1. Tables(n)' = Tables(n)
    BY <1>1, SameTables DEF Logs!structVars
  <2> QED BY <1>1, <1>2, <2>1 DEF PoolsInv
<1> QED BY <1>1, <1>3, <1>4, <1>5, <1>6, StillGood

LEMMA FlushPoolIsGood ==
  ASSUME NEW n \in Seq(Struct), Good(n), NEW pool \in Logs!Pool, Logs!FlushPool(pool)
  PROVE  \E m \in Seq(Struct) : Good(m)'
<1>1. /\ UNCHANGED <<log_strToID, log_idToStr, Logs!structVars, log_stack, log_done, log_hasErr,
           log_logs, log_paths, log_written>>
      /\ Logs!At(pool) /\ Logs!FlushLocked(pool)
  BY DEF Logs!FlushPool
<1>2. /\ Logs!AllDone /\ Logs!AllDone' /\ ~log_hasErr /\ ~log_hasErr' /\ log_building = pool
      /\ log_result = "none"
      /\ PoolsInv(n) /\ AccountsOK /\ BuildOK
  BY <1>1, AtStep
<1>3. /\ FlushedTo(Tables(n), log_unflushed, log_file, log_err, pool, log_unflushed', log_file',
           log_err')
      /\ log_twice' = log_twice
  BY <1>1, <1>2, FlushLockedGives
<1>4. PoolsInv(n)'
  <2>1. Tables(n)' = Tables(n)
    BY <1>1, SameTables DEF Logs!structVars
  <2>2. PoolsOK(Tables(n), log_unflushed, log_file, log_err, log_done, log_stack)
    BY <1>2 DEF PoolsInv
  <2>3. PoolsOK(Tables(n), log_unflushed', log_file', log_err', log_done, log_stack)
    BY ONLY <1>3, <2>2, Flushed, pool \in Logs!Pool
  <2> QED BY <1>1, <2>1, <2>3 DEF PoolsInv
<1>5. Entered' = Entered
  BY <1>1 DEF Entered
<1>6. AccountsOK'
  BY <1>1, <1>2, <1>3, <1>5 DEF AccountsOK
<1>7. ~log_err'[pool] => Emptied(pool)'
  <2>1. log_unflushed = [p \in Logs!Pool |-> log_unflushed[p]]
    BY <1>2 DEF PoolsInv, PoolsOK, Staging
  <2> QED BY <1>1, <2>1 DEF Logs!FlushLocked, Emptied
<1>8. log_building = "server" => Emptied("client")'
  <2>1. log_unflushed = [p \in Logs!Pool |-> log_unflushed[p]] /\ log_err \in [Logs!Pool -> BOOLEAN]
    BY <1>2 DEF PoolsInv, PoolsOK, Staging
  <2> QED BY <1>1, <1>2, <2>1 DEF Logs!FlushLocked, Emptied, BuildOK, Logs!Pool
<1>9. \/ log_err'[pool] /\ log_result' = "failed" /\ log_building' = log_building
      \/ ~log_err'[pool] /\ pool = "client" /\ log_building' = "server" /\ log_result' = log_result
      \/ ~log_err'[pool] /\ pool = "server" /\ log_building' = log_building /\ log_result' = "ok"
  BY DEF Logs!FlushPool, Logs!Fail, Logs!Follow, Logs!Pool
<1>10. BuildOK'
  BY <1>1, <1>2, <1>7, <1>8, <1>9 DEF BuildOK, Logs!Pool
<1> QED BY <1>1, <1>4, <1>5, <1>6, <1>10, StillGood

LEMMA InitIsGood == Logs!Init => Good(<<>>)
<1> SUFFICES ASSUME Logs!Init PROVE Good(<<>>)
  OBVIOUS
<1> DEFINE T == Tables(<<>>)
<1>1. /\ log_strToID = [pool \in Logs!Pool |-> [t \in Text |-> 0]]
      /\ log_idToStr = [pool \in Logs!Pool |-> <<>>]
      /\ log_fieldSetToID = {} /\ log_idToFieldSet = <<>> /\ log_structToID = {}
      /\ log_flatStructs = <<>>
      /\ log_unflushed = [pool \in Logs!Pool |-> {}] /\ log_err = [pool \in Logs!Pool |-> FALSE]
      /\ log_file = {} /\ log_twice = {} /\ log_stack = [w \in Worker |-> <<>>]
      /\ log_done = [w \in Worker |-> 0] /\ log_hasErr = FALSE
      /\ log_logs = {} /\ log_paths = {} /\ log_written = {} /\ log_building = "logs"
      /\ log_result = "none"
  BY DEF Logs!Init, Logs!InitPools
<1>2. T \in TableSet
  <2>1. log_strToID \in [Logs!Pool -> [Text -> Nat]]
    BY <1>1
  <2>2. log_idToStr \in [Logs!Pool -> Seq(Text \cup {None})]
    BY <1>1
  <2> QED BY <1>1, <2>1, <2>2 DEF Tables, TableSet
<1>3. TablesOK(T)
  BY <1>1, <1>2 DEF TablesOK, StringsOK, FieldsOK, StructsOK, Tables
<1>4. Stacks(T, log_done, log_stack)
  <2>1. \A w \in Worker : log_stack[w] = <<>> /\ log_done[w] = 0
    BY <1>1
  <2>2. \A w \in Worker : Len(Jobs[w]) \in Nat
    BY IngestionAssumption
  <2>3. log_stack \in [Worker -> Seq(Frames)] /\ log_done \in [Worker -> Nat]
    BY <1>1
  <2>4. \A w \in Worker : Len(log_stack[w]) = 0
    BY <2>1
  <2>5. \A w \in Worker : log_done[w] <= Len(Jobs[w])
    BY <2>1, <2>2
  <2>6. \A w \in Worker : \A i \in 1..Len(log_stack[w]) : FALSE
    BY <2>4
  <2> HIDE DEF T
  <2> QED BY <2>1, <2>3, <2>5, <2>6 DEF Stacks
<1>5. AtStage(log_stack) = {}
  BY <1>1 DEF AtStage, StagedBy
<1>6. \A x : ~Published(T, x)
  BY <1>1 DEF Published, Unpublished, Tables, Refs
<1>7. Staging(T, log_unflushed, log_file, log_err, {})
  <2> HIDE DEF T
  <2>1. /\ log_unflushed = [pool \in Logs!Pool |-> log_unflushed[pool]]
        /\ log_err \in [Logs!Pool -> BOOLEAN]
        /\ log_unflushed["client"] = {} /\ log_unflushed["server"] = {} /\
             \A pool \in Logs!Pool : log_unflushed[pool] = {}
    BY <1>1 DEF Logs!Pool
  <2> QED BY <1>1, <1>6, <2>1 DEF Staging
<1>8. PoolsInv(<<>>)
  BY <1>3, <1>4, <1>5, <1>7 DEF PoolsInv, PoolsOK
<1>9. Entered = {}
  BY <1>1 DEF Entered
<1>10. AccountsOK
  <2>1. \A w \in Worker : log_done[w] = 0
    BY <1>1
  <2>2. \A w \in Worker : \A i \in 1..log_done[w] : FALSE
    BY <2>1
  <2> QED BY <1>1, <1>9, <2>2 DEF AccountsOK
<1>11. BuildOK
  BY <1>1 DEF BuildOK, Logs!Pool
<1> QED BY <1>8, <1>9, <1>10, <1>11 DEF Good

\* The ingestion is in order: for some struct that each body in the store is of.
LogsInv == \E n \in Seq(Struct) : Good(n)

LEMMA NextIsGood == LogsInv /\ [Logs!Next]_(Logs!vars) => LogsInv'
<1> SUFFICES ASSUME LogsInv, [Logs!Next]_(Logs!vars) PROVE \E m \in Seq(Struct) : Good(m)'
  BY DEF LogsInv
<1>1. PICK n \in Seq(Struct) : Good(n)
  BY DEF LogsInv
<1>2. CASE Logs!FlushLogs
  BY <1>1, <1>2, FlushLogsIsGood
<1>3. CASE Logs!WriteTimelines
  BY <1>1, <1>3, WriteTimelinesIsGood
<1>4. CASE \E pool \in Logs!Pool : Logs!FlushPool(pool)
  BY <1>1, <1>4, FlushPoolIsGood
<1>5. ASSUME NEW w \in Worker, Logs!Begin(w) \/ Logs!InternSummary(w)
      PROVE \E m \in Seq(Struct) : Good(m)'
  BY <1>1, <1>5, BeginIsGood
<1>6. ASSUME NEW w \in Worker, Logs!AddLog(w) PROVE \E m \in Seq(Struct) : Good(m)'
  BY <1>1, <1>6, AddLogIsGood
<1>7. ASSUME NEW w \in Worker, Logs!AddPath(w) PROVE \E m \in Seq(Struct) : Good(m)'
  BY <1>1, <1>7, AddPathIsGood
<1>8. ASSUME NEW w \in Worker, Logs!GiveUp(w) PROVE \E m \in Seq(Struct) : Good(m)'
  BY <1>1, <1>8, GiveUpIsGood
<1>9. ASSUME NEW w \in Worker, Logs!Intern(w) /\ log_stack[w] # <<>> /\ UNCHANGED Logs!ingestionVars
      PROVE  \E m \in Seq(Struct) : Good(m)'
  BY <1>1, <1>9, InternIsGood
<1>10. CASE UNCHANGED Logs!vars
  <2>1. /\ UNCHANGED <<log_strToID, log_idToStr, Logs!structVars, log_unflushed, log_err, log_file,
             log_stack, log_twice>>
        /\ UNCHANGED <<log_done, log_hasErr, log_logs, log_paths, log_written, log_building,
             log_result>>
    BY <1>10 DEF Logs!vars, Logs!poolVars, Logs!ingestionVars, Logs!structVars
  <2>2. Entered' = Entered
    BY <2>1 DEF Entered
  <2>3. AccountsOK' /\ Logs!AllDone' = Logs!AllDone
    BY <1>1, <2>1, <2>2 DEF Good, AccountsOK, Logs!AllDone, Logs!Idle
  <2>4. BuildOK'
    BY <1>1, <2>1, <2>3 DEF Good, BuildOK, Emptied
  <2>5. PoolsInv(n)'
    <3>1. Tables(n)' = Tables(n)
      BY <2>1, SameTables DEF Logs!structVars
    <3> QED BY <1>1, <2>1, <3>1 DEF Good, PoolsInv
  <2> QED BY <1>1, <2>1, <2>2, <2>3, <2>4, <2>5, StillGood
<1> QED
  BY <1>2, <1>3, <1>4, <1>5, <1>6, <1>7, <1>8, <1>9, <1>10 DEF Logs!Next, Logs!Build, Logs!Work

\* Whatever workers and serializer do, the ingestion stays in order (intern.go,
\* struct.go, flat_struct.go, log_accumulator.go, builder.go).
THEOREM LogsInvHolds == Logs!Spec => []LogsInv
<1>1. Logs!Init => LogsInv
  <2>1. <<>> \in Seq(Struct)
    OBVIOUS
  <2> QED BY <2>1, InitIsGood DEF LogsInv
<1> QED BY <1>1, NextIsGood, PTL DEF Logs!Spec

-----------------------------------------------------------------------------
(* What the file decodes to.                                               *)

\* Decoded is a function that is its own image under DecodedBy.
DecodedBy(d, s) ==
  {i.ref : i \in {j \in log_file :
     /\ j.ref.ns = "struct"
     /\ Len(j.refs) = Len(Values[s]) + 1
     /\ \E f \in log_file :
          /\ f.ref = Head(j.refs) /\ Len(f.refs) = Len(Names[s])
          /\ \A k \in DOMAIN Names[s] : Logs!StringDecodes(f.refs[k], Names[s][k])
     /\ \A k \in DOMAIN Values[s] :
          IF Values[s][k] \in Text THEN Logs!StringDecodes(j.refs[k + 1], Values[s][k])
          ELSE j.refs[k + 1] \in d[Values[s][k]]}}

LEMMA DecodedIs == Logs!Decoded = CHOOSE d : d = [s \in Struct |-> DecodedBy(d, s)]
BY DEF Logs!Decoded, DecodedBy

\* More decodes by more.
LEMMA DecodedMore ==
  ASSUME NEW d, NEW e, \A s \in Struct : d[s] \subseteq e[s], NEW s \in Struct
  PROVE  DecodedBy(d, s) \subseteq DecodedBy(e, s)
<1>1. Values[s] \in Seq(Text \cup Struct)
  BY NodeTypes
<1>2. \A k \in DOMAIN Values[s] : Values[s][k] \notin Text => Values[s][k] \in Struct
  BY <1>1
<1> SUFFICES ASSUME NEW x \in DecodedBy(d, s) PROVE x \in DecodedBy(e, s)
  OBVIOUS
<1>3. PICK j \in log_file :
        /\ x = j.ref /\ j.ref.ns = "struct"
        /\ Len(j.refs) = Len(Values[s]) + 1
        /\ \E f \in log_file :
             /\ f.ref = Head(j.refs) /\ Len(f.refs) = Len(Names[s])
             /\ \A k \in DOMAIN Names[s] : Logs!StringDecodes(f.refs[k], Names[s][k])
        /\ \A k \in DOMAIN Values[s] :
             IF Values[s][k] \in Text THEN Logs!StringDecodes(j.refs[k + 1], Values[s][k])
             ELSE j.refs[k + 1] \in d[Values[s][k]]
  BY Zenon DEF DecodedBy
<1>4. ASSUME NEW k \in DOMAIN Values[s]
      PROVE  IF Values[s][k] \in Text THEN Logs!StringDecodes(j.refs[k + 1], Values[s][k])
             ELSE j.refs[k + 1] \in e[Values[s][k]]
  BY <1>2, <1>3, <1>4
<1> QED BY Zenon, <1>3, <1>4 DEF DecodedBy

LEMMA DecodedExists == \E d : d = [s \in Struct |-> DecodedBy(d, s)]
<1> DEFINE R == {i.ref : i \in log_file}
           Closed(d) == \A s \in Struct : DecodedBy(d, s) \subseteq d[s]
           g == [s \in Struct |-> {x \in R : \A d \in [Struct -> SUBSET R] : Closed(d)
             => x \in d[s]}]
           h == [s \in Struct |-> DecodedBy(g, s)]
<1>1. g \in [Struct -> SUBSET R] /\ h \in [Struct -> SUBSET R]
  <2>1. ASSUME NEW s \in Struct PROVE DecodedBy(g, s) \subseteq R
    BY Zenon DEF DecodedBy
  <2> QED BY <2>1
<1>2. ASSUME NEW d \in [Struct -> SUBSET R], Closed(d), NEW s \in Struct PROVE g[s] \subseteq d[s]
  BY <1>2
<1>3. ASSUME NEW s \in Struct PROVE DecodedBy(g, s) \subseteq g[s]
  <2> SUFFICES ASSUME NEW x \in DecodedBy(g, s) PROVE x \in g[s]
    OBVIOUS
  <2>1. x \in R
    BY <1>1, h[s] \in SUBSET R
  <2>2. ASSUME NEW d \in [Struct -> SUBSET R], Closed(d) PROVE x \in d[s]
    <3>1. DecodedBy(g, s) \subseteq DecodedBy(d, s)
      <4> HIDE DEF g
      <4> QED BY <1>2, <2>2, DecodedMore
    <3> QED BY <2>2, <3>1
  <2> QED BY <2>1, <2>2
<1>4. Closed(h)
  <2> SUFFICES ASSUME NEW s \in Struct PROVE DecodedBy(h, s) \subseteq DecodedBy(g, s)
    OBVIOUS
  <2>1. \A t \in Struct : h[t] \subseteq g[t]
    BY <1>3
  <2> HIDE DEF g, h
  <2> QED BY <2>1, DecodedMore
<1>5. \A s \in Struct : g[s] = DecodedBy(g, s)
  <2>1. \A s \in Struct : g[s] \subseteq h[s]
    BY <1>1, <1>2, <1>4
  <2> QED BY <1>3, <2>1
<1>6. g = [s \in Struct |-> DecodedBy(g, s)]
  <2> HIDE DEF R, Closed
  <2>1. g = [s \in Struct |-> g[s]]
    OBVIOUS
  <2> HIDE DEF g
  <2> QED BY <1>5, <2>1
<1> QED BY <1>6

LEMMA DecodedEquals == \A s \in Struct : Logs!Decoded[s] = DecodedBy(Logs!Decoded, s)
<1>1. Logs!Decoded = [s \in Struct |-> DecodedBy(Logs!Decoded, s)]
  BY DecodedIs, DecodedExists, Zenon
<1> QED BY <1>1

\* All that is published is in the file.
WholeFile(T) ==
  /\ TablesOK(T)
  /\ \A x : Published(T, x) => \E i \in log_file : i.ref = x /\ i = FullOf(T, x)

LEMMA PublishedIs ==
  ASSUME NEW T, NEW x \in Refs
  PROVE  /\ \A t \in Text : StringIs(T, x, t) => Published(T, x)
         /\ \A names : FieldsAre(T, x, names) => Published(T, x)
         /\ \A s : StructIs(T, x, s) => Published(T, x)
BY DEF StringIs, FieldsAre, StructIs, Published, Unpublished

LEMMA TextsDecode ==
  ASSUME NEW T, WholeFile(T), NEW x \in Refs, NEW t \in Text, StringIs(T, x, t)
  PROVE  Logs!StringDecodes(x, t)
<1>1. PICK i \in log_file : i.ref = x /\ i = FullOf(T, x)
  BY PublishedIs DEF WholeFile
<1>2. x.ns \in Logs!Pool /\ T.str[x.ns][t] = x.id /\ x.id # 0
  BY DEF StringIs, Refs
<1>3. T.ids[x.ns][x.id] = t
  BY <1>2 DEF WholeFile, TablesOK, StringsOK
<1>4. x.ns # "struct"
  BY <1>2 DEF Logs!Pool
<1>5. i.text = t
  BY <1>1, <1>2, <1>3, <1>4 DEF FullOf, ShortOf, Logs!Item
<1> QED BY <1>1, <1>5 DEF Logs!StringDecodes

LEMMA FieldsDecode ==
  ASSUME NEW T, WholeFile(T), NEW x \in Refs, NEW names \in Seq(Refs), FieldsAre(T, x, names)
  PROVE  \E f \in log_file : f.ref = x /\ f.refs = names
<1>1. PICK i \in log_file : i.ref = x /\ i = FullOf(T, x)
  BY PublishedIs DEF WholeFile
<1>2. x.ns = "fields" /\ [key |-> names, id |-> x.id] \in T.fld
  BY DEF FieldsAre
<1>3. T.fids[x.id] = names
  BY <1>2 DEF WholeFile, TablesOK, FieldsOK
<1>4. i.refs = names
  BY <1>1, <1>2, <1>3 DEF FullOf, ShortOf, Logs!Item, Logs!Pool
<1> QED BY <1>1, <1>4

LEMMA OneJoined ==
  ASSUME NEW a \in Seq(Refs), NEW b \in Seq(Refs), NEW n \in Nat, Len(a) = 1, Len(b) = n
  PROVE  /\ Len(a \o b) = n + 1 /\ Head(a \o b) = a[1]
         /\ \A k \in 1..n : (a \o b)[k + 1] = b[k]
<1>1. Len(a \o b) = n + 1
  BY Joined
<1>2. Head(a \o b) = a[1]
  <2>1. (a \o b)[1] = a[1]
    <3>1. \A i \in 1..Len(a) : (a \o b)[i] = a[i]
      BY ONLY a \in Seq(Refs), b \in Seq(Refs), Joined
    <3>2. 1 \in 1..Len(a)
      OBVIOUS
    <3> QED BY ONLY Zenon, <3>1, <3>2
  <2>2. a \o b # << >>
    BY <1>1
  <2> QED BY <2>1, <2>2
<1>3. ASSUME NEW k \in 1..n PROVE (a \o b)[k + 1] = b[k]
  <2>1. k + 1 \in 1..(Len(a) + Len(b)) /\ k + 1 > Len(a) /\ (k + 1) - Len(a) = k
    OBVIOUS
  <2>2. \A i \in 1..(Len(a) + Len(b)) : i > Len(a) => (a \o b)[i] = b[i - Len(a)]
    BY ONLY a \in Seq(Refs), b \in Seq(Refs), Joined
  <2> QED BY ONLY <2>1, <2>2
<1> QED BY <1>1, <1>2, <1>3

LEMMA BodyDecodes ==
  ASSUME NEW T, WholeFile(T), NEW x \in Refs, NEW s \in Struct, StructIs(T, x, s),
         NEW X, \A k \in DOMAIN Values[s] : Values[s][k] \notin X,
         \A t \in Struct \ X : \A y \in Refs : StructIs(T, y, t) => y \in Logs!Decoded[t]
  PROVE  x \in Logs!Decoded[s]
<1>1. PICK i \in log_file : i.ref = x /\ i = FullOf(T, x)
  BY PublishedIs DEF WholeFile
<1>2. x.ns = "struct" /\ T.node[x.id] = s /\ \E p \in T.st : p.id = x.id
  BY DEF StructIs
<1>3. PICK p \in T.st : p.id = x.id
  BY <1>2
<1>4. StructsOK(T) /\ T \in TableSet
  BY DEF WholeFile, TablesOK
<1>5. PICK fields \in Seq(Refs), values \in Seq(Refs) :
        T.fst[p.id].fields = fields /\ Consists(T, T.node[p.id], fields, values)
  BY <1>3, <1>4 DEF StructsOK
<1> DEFINE cells == T.fst[x.id].cells
<1>6. AllAre(T, cells, Values[s]) /\ Consists(T, s, fields, values) /\ T.fst[x.id].fields = fields
  BY <1>2, <1>3, <1>4, <1>5 DEF StructsOK
<1>7. i.refs = fields \o cells
  BY <1>1, <1>2, <1>6 DEF FullOf, Logs!Item
<1>8. /\ cells \in Seq(Refs) /\ Len(cells) = Len(Values[s])
      /\ \A k \in 1..Len(Values[s]) : cells[k] \in Refs /\ Is(T, cells[k], Values[s][k])
  BY <1>6 DEF AllAre, Are
<1>9. /\ Values[s] \in Seq(Text \cup Struct) /\ DOMAIN Values[s] = 1..Len(Values[s])
      /\ Len(Values[s]) \in Nat /\ Names[s] \in Seq(Text) /\ DOMAIN Names[s] = 1..Len(Names[s])
  BY NodeTypes
<1> HIDE DEF cells
<1>10. fields \in Seq(Refs) /\ Len(fields) = 1 /\ fields[1] \in Refs
  <2>1. fields \in Seq(Refs) /\ Len(fields) = 1
    BY <1>6 DEF Consists
  <2>2. 1 \in 1..Len(fields)
    BY ONLY <2>1
  <2> QED
    BY ONLY Zenon, <2>1, <2>2, ElementOfSeq
<1>11. /\ Len(i.refs) = Len(Values[s]) + 1 /\ Head(i.refs) = fields[1]
       /\ \A k \in 1..Len(Values[s]) : i.refs[k + 1] = cells[k]
  <2> DEFINE n == Len(Values[s])
  <2>1. n \in Nat /\ Len(cells) = n /\ cells \in Seq(Refs)
    BY <1>8, <1>9
  <2> HIDE DEF n
  <2>2. /\ Len(fields \o cells) = n + 1 /\ Head(fields \o cells) = fields[1]
        /\ \A k \in 1..n : (fields \o cells)[k + 1] = cells[k]
    <3>1. Len(fields) = 1 /\ fields \in Seq(Refs)
      BY <1>10
    <3> QED BY ONLY Zenon, <2>1, <3>1, OneJoined
  <2>3. /\ Len(i.refs) = n + 1 /\ Head(i.refs) = fields[1] /\
             \A k \in 1..n : i.refs[k + 1] = cells[k]
    BY ONLY Zenon, <1>7, <2>2
  <2> QED BY ONLY Zenon, <2>3 DEF n
<1>12. Head(i.refs) = fields[1] /\ Len(i.refs) = Len(Values[s]) + 1
  BY ONLY Zenon, <1>11
<1>13. \A k \in DOMAIN Values[s] : i.refs[k + 1] = cells[k]
  BY ONLY Zenon, <1>9, <1>11
<1>14. \E f \in log_file :
         /\ f.ref = Head(i.refs) /\ Len(f.refs) = Len(Names[s])
         /\ \A k \in DOMAIN Names[s] : Logs!StringDecodes(f.refs[k], Names[s][k])
  <2>1. PICK names \in Seq(Refs) : FieldsAre(T, fields[1], names) /\ AllAre(T, names, Names[s])
    BY <1>6 DEF Consists
  <2>2. PICK f \in log_file : f.ref = fields[1] /\ f.refs = names
    BY <1>10, <2>1, FieldsDecode
  <2>3. Len(names) = Len(Names[s]) /\ \A k \in 1..Len(Names[s]) : Is(T, names[k], Names[s][k])
    BY <2>1 DEF AllAre, Are
  <2>4. ASSUME NEW k \in DOMAIN Names[s] PROVE Logs!StringDecodes(names[k], Names[s][k])
    <3>1. Names[s][k] \in Text /\ names[k] \in Refs /\ k \in 1..Len(Names[s])
      BY <1>9, <2>3
    <3>2. StringIs(T, names[k], Names[s][k])
      BY <2>3, <3>1 DEF Is
    <3> QED BY <3>1, <3>2, TextsDecode
  <2> QED BY <1>12, <2>2, <2>3, <2>4
<1>15. ASSUME NEW k \in DOMAIN Values[s]
       PROVE  IF Values[s][k] \in Text THEN Logs!StringDecodes(i.refs[k + 1], Values[s][k])
              ELSE i.refs[k + 1] \in Logs!Decoded[Values[s][k]]
  <2>1. /\ cells[k] \in Refs /\ Is(T, cells[k], Values[s][k]) /\ i.refs[k + 1] = cells[k]
        /\ Values[s][k] \in Text \cup Struct
    BY <1>8, <1>9, <1>13
  <2>2. CASE Values[s][k] \in Text
    <3>1. StringIs(T, cells[k], Values[s][k])
      BY <2>1, <2>2 DEF Is
    <3> QED BY <2>1, <2>2, <3>1, TextsDecode
  <2>3. CASE Values[s][k] \notin Text
    <3>1. StructIs(T, cells[k], Values[s][k]) /\ Values[s][k] \in Struct \ X
      BY <2>1, <2>3 DEF Is
    <3>2. cells[k] \in Logs!Decoded[Values[s][k]]
      BY <2>1, <3>1
    <3> QED BY <2>1, <2>3, <3>2
  <2> QED BY <2>2, <2>3
<1>16. x \in DecodedBy(Logs!Decoded, s)
  BY Zenon, <1>1, <1>2, <1>12, <1>14, <1>15 DEF DecodedBy
<1> QED BY <1>16, DecodedEquals

\* Maps are made of smaller ones, so that all of them decode.
LEMMA StructsDecode ==
  ASSUME NEW T, WholeFile(T), NEW s \in Struct, NEW x \in Refs, StructIs(T, x, s)
  PROVE  x \in Logs!Decoded[s]
<1> DEFINE X == {t \in Struct : \E y \in Refs : StructIs(T, y, t) /\ y \notin Logs!Decoded[t]}
<1>1. ASSUME X # {} PROVE FALSE
  <2>1. PICK t \in X : \A k \in DOMAIN Values[t] : Values[t][k] \notin X
    BY <1>1, IngestionAssumption
  <2>2. PICK y \in Refs : StructIs(T, y, t) /\ y \notin Logs!Decoded[t]
    OBVIOUS
  <2>3. t \in Struct /\ \A u \in Struct \ X : \A z \in Refs : StructIs(T, z, u)
          => z \in Logs!Decoded[u]
    OBVIOUS
  <2> HIDE DEF X
  <2>4. y \in Logs!Decoded[t]
    BY <2>1, <2>2, <2>3, BodyDecodes
  <2> QED BY <2>2, <2>4
<1> QED BY <1>1

LEMMA LogsInvIsSafe == LogsInv => Logs!IngestionSafe
<1> SUFFICES ASSUME NEW n \in Seq(Struct), Good(n) PROVE Logs!IngestionSafe
  BY DEF LogsInv
<1> DEFINE T == Tables(n)
<1>1. /\ TablesOK(T) /\ Staging(T, log_unflushed, log_file, log_err, AtStage(log_stack))
      /\ AccountsOK /\ BuildOK
      /\ \A e \in Entered : EntryIs(T, e)
  BY DEF Good, PoolsInv, PoolsOK
<1>2. /\ T.str = log_strToID /\ T.ids = log_idToStr /\ T.fld = log_fieldSetToID
      /\ T.fids = log_idToFieldSet
      /\ T.st = log_structToID /\ T.fst = log_flatStructs
  BY DEF Tables
<1> HIDE DEF T
<1>3. Logs!ReferencesResolve
  <2>1. \A pool \in Logs!Pool, t \in Text :
          log_strToID[pool][t] # 0 => log_idToStr[pool][log_strToID[pool][t]] = t
    BY <1>1, <1>2 DEF TablesOK, StringsOK
  <2>2. \A p \in log_fieldSetToID : log_idToFieldSet[p.id] = p.key
    BY <1>1, <1>2 DEF TablesOK, FieldsOK
  <2>3. ASSUME NEW p \in log_structToID PROVE log_flatStructs[p.id].fields = <<Head(p.key)>>
    <3>1. PICK fields \in Seq(Refs), values \in Seq(Refs) :
            /\ p.key = fields \o values /\ log_flatStructs[p.id].fields = fields
            /\ Consists(T, T.node[p.id], fields, values)
      BY <1>1, <1>2 DEF TablesOK, StructsOK
    <3>2. Len(fields) = 1
      BY <3>1 DEF Consists
    <3> QED BY <3>1, <3>2, HeadOfJoined
  <2> QED BY <2>1, <2>2, <2>3 DEF Logs!ReferencesResolve
<1>4. ASSUME log_result = "ok"
      PROVE  /\ ~log_hasErr /\ Logs!AllDone /\ log_logs = {} /\ log_paths \subseteq log_written
             /\ \A pool \in Logs!Pool : log_unflushed[pool] = {} /\ ~log_err[pool]
  BY <1>1, <1>4 DEF BuildOK, Emptied, Logs!Pool
<1>5. Logs!ErrorsSurface
  BY <1>4 DEF Logs!ErrorsSurface
<1>6. ASSUME log_result = "ok" PROVE WholeFile(T)
  <2>1. AtStage(log_stack) = {}
    BY <1>4, <1>6 DEF AtStage, StagedBy, Logs!AllDone, Logs!Idle
  <2>2. ASSUME NEW x, Published(T, x) PROVE \E i \in log_file : i.ref = x /\ i = FullOf(T, x)
    <3>1. PoolOf(x) \in Logs!Pool
      BY DEF PoolOf, Logs!Pool
    <3>2. log_unflushed[PoolOf(x)] = {} /\ ~log_err[PoolOf(x)]
      BY <1>4, <1>6, <3>1
    <3>3. PICK i \in log_file : i.ref = x
      BY <1>1, <2>1, <2>2, <3>2 DEF Staging
    <3> QED BY <1>1, <3>3 DEF Staging
  <2> QED BY <1>1, <2>2 DEF WholeFile
<1>7. ASSUME NEW i \in log_file, NEW j \in log_file, i.ref = j.ref PROVE i = j
  BY <1>1, <1>7 DEF Staging
<1>8. ASSUME log_result = "ok" PROVE {e.job : e \in log_written} = Logs!AllJobs
  <2>1. Entered = log_written
    BY <1>4, <1>8 DEF Entered
  <2>2. \A w \in Worker : /\ Jobs[w] \in Seq(JobSet) /\ log_done[w] = Len(Jobs[w])
                          /\ Logs!Range(Jobs[w]) = {Jobs[w][i] : i \in 1..Len(Jobs[w])}
    BY <1>4, <1>8, IngestionAssumption DEF Logs!AllDone, Logs!Range
  <2>3. \A e \in log_written : e.job \in Logs!AllJobs
    <3> SUFFICES ASSUME NEW e \in log_written PROVE \E w \in Worker : e.job \in Logs!Range(Jobs[w])
      BY DEF Logs!AllJobs
    <3>1. PICK w \in Worker : \E i \in 1..log_done[w] : e.job = Jobs[w][i]
      BY <1>1, <2>1 DEF AccountsOK
    <3>2. e.job \in {Jobs[w][i] : i \in 1..Len(Jobs[w])}
      BY <2>2, <3>1
    <3>3. e.job \in Logs!Range(Jobs[w])
      BY ONLY Zenon, <2>2, <3>2
    <3> QED BY ONLY Zenon, <3>3
  <2>4. \A a \in Logs!AllJobs : \E e \in log_written : e.job = a
    <3> SUFFICES ASSUME NEW w \in Worker, NEW a \in Logs!Range(Jobs[w])
                 PROVE  \E e \in log_written : e.job = a
      BY DEF Logs!AllJobs
    <3>1. a \in {Jobs[w][i] : i \in 1..Len(Jobs[w])}
      BY ONLY Zenon, <2>2
    <3>2. PICK i \in 1..Len(Jobs[w]) : a = Jobs[w][i]
      BY <3>1
    <3>3. i \in 1..log_done[w]
      BY <2>2
    <3> QED
      BY <1>1, <1>4, <1>8, <2>1, <3>2, <3>3 DEF AccountsOK
  <2> QED BY <2>3, <2>4
<1>9. ASSUME log_result = "ok", NEW e \in log_written PROVE Logs!EntryDecodes(e)
  <2>1. EntryIs(T, e) /\ WholeFile(T)
    BY <1>1, <1>6, <1>9 DEF Entered
  <2>2. /\ AllAre(T, e.text, <<e.job.text>>) /\ e \in EntrySet /\ e.job \in JobSet
        /\ e.job.kind = "log" => AllAre(T, e.body, <<e.job.body>>)
    BY <2>1 DEF EntryIs, EntrySet
  <2>3. /\ e.job.text \in Text
        /\ (e.job.kind = "log" => e.job.body \in Struct /\ e.job.body \notin Text)
    BY <2>2, IngestionAssumption DEF JobSet
  <2>4. ASSUME NEW refs, NEW v, AllAre(T, refs, <<v>>)
        PROVE  Logs!Last(refs) \in Refs /\ Is(T, Logs!Last(refs), v)
    <3>1. refs \in Seq(Refs) /\ Len(refs) = 1 /\ <<v>>[1] = v
      BY <2>4 DEF AllAre, Are
    <3>2. Is(T, refs[1], <<v>>[1])
      BY <2>4, <3>1 DEF AllAre, Are
    <3>3. Logs!Last(refs) = refs[1] /\ refs[1] \in Refs
      BY ONLY <3>1 DEF Logs!Last
    <3> QED BY ONLY Zenon, <3>1, <3>2, <3>3
  <2>5. Logs!StringDecodes(Logs!Last(e.text), e.job.text)
    <3>1. Logs!Last(e.text) \in Refs /\ StringIs(T, Logs!Last(e.text), e.job.text)
      BY <2>2, <2>3, <2>4 DEF Is
    <3> QED BY <2>1, <2>3, <3>1, TextsDecode
  <2>6. ASSUME e.job.kind = "log" PROVE Logs!Last(e.body) \in Logs!Decoded[e.job.body]
    <3>1. Logs!Last(e.body) \in Refs /\ StructIs(T, Logs!Last(e.body), e.job.body)
      BY <2>2, <2>3, <2>4, <2>6 DEF Is
    <3> QED BY <2>1, <2>3, <2>6, <3>1, StructsDecode
  <2> QED BY <2>5, <2>6 DEF Logs!EntryDecodes
<1>10. Logs!FileIsComplete
  BY <1>1, <1>7, <1>8, <1>9 DEF Logs!FileIsComplete, AccountsOK
<1> QED BY <1>3, <1>5, <1>10 DEF Logs!IngestionSafe

(***************************************************************************)
(* However the workers of an import interleave in the four intern pools    *)
(* and the chunk they share, and wherever an error or a cancellation finds *)
(* them: every reference published is found again by what it names, and a  *)
(* file that is written without an error holds each log once, each with    *)
(* references a reader of that file decodes to the log's own text and body *)
(* (log_accumulator.go, intern_pool.go, flat_struct.go, struct.go).        *)
(***************************************************************************)
THEOREM LogsAreSafe == Logs!Spec => []LogsSafe
BY LogsInvHolds, LogsInvIsSafe, PTL DEF LogsSafe

=============================================================================
