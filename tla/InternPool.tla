------------------------------ MODULE InternPool ------------------------------
(***************************************************************************)
(* The pools that give strings, field sets and structs of a KHI file their *)
(* numbers (pkg/model/khifile/v6/intern.go, struct.go, flat_struct.go):    *)
(* the workers of many tasks intern at the same time, and what is new is   *)
(* staged and written to the file in chunks.                               *)
(*                                                                         *)
(* A server pool looks strings up in the client pool too.  Struct bodies   *)
(* are kept in a store of their own, whose lock is held while a body is    *)
(* encoded.  A worker carries a stack of the calls it is in, the innermost *)
(* last.  Values other than strings and maps are left out, and so are      *)
(* lists: maps in lists are what makes a struct part of another.  Texts    *)
(* are valid UTF-8, for which the second round of lookups of InternString  *)
(* finds what one later round would.                                       *)
(***************************************************************************)
EXTENDS Integers, Sequences, FiniteSets, SequencesExt

CONSTANTS
  Worker,      \* the goroutines that intern
  Text,        \* strings, names of fields among them
  Struct,      \* the map nodes
  Names,       \* the field names of a map node
  Values,      \* and its values, texts or map nodes
  BatchLimit,  \* chunkSizeLimit, in items
  None         \* no worker, and no text

Pool == {"client", "server"}

VARIABLES
  strToID,       \* of a pool: the numbers of strings, 0 where there is none
  idToStr,       \* of a pool: the strings of the numbers given so far
  fieldSetToID,  \* pairs of a list of string references and its number
  idToFieldSet,  \* the field sets of the numbers given so far
  structToID,    \* pairs of a key and its number
  flatStructs,   \* the bodies of the numbers given so far
  storeLock,     \* FlatStructStore.mu: who holds it
  flushLock,     \* of a pool: flushMu
  unflushed,     \* of a pool: the staged items
  err,           \* of a pool: a chunk could not be written
  file,          \* the items written
  twice,         \* the items written more than once
  stack          \* of a worker: the calls it is in

poolVars ==
  <<strToID, idToStr, fieldSetToID, idToFieldSet, structToID, flatStructs,
    storeLock, flushLock, unflushed, err, file, twice, stack>>

\* What is interned is referred to by a number of its namespace; strings of the
\* client and of the server have namespaces of their own.
Ref(ns, id) == [ns |-> ns, id |-> id]

Empty == [fields |-> <<>>, cells |-> <<>>]

InitPools ==
  /\ strToID = [pool \in Pool |-> [t \in Text |-> 0]]
  /\ idToStr = [pool \in Pool |-> <<>>]
  /\ fieldSetToID = {} /\ idToFieldSet = <<>>
  /\ structToID = {} /\ flatStructs = <<>>
  /\ storeLock = None
  /\ flushLock = [pool \in Pool |-> None]
  /\ unflushed = [pool \in Pool |-> {}]
  /\ err = [pool \in Pool |-> FALSE]
  /\ file = {} /\ twice = {}
  /\ stack = [w \in Worker |-> <<>>]

-----------------------------------------------------------------------------
(* Calls and their results                                                 *)

StringCall(pool, text) == [call |-> "string", pool |-> pool, text |-> text, at |-> "own", id |-> 0]

FieldsCall(names) == [call |-> "fields", pool |-> "server", names |-> names, at |-> "load", id |-> 0]

StructCall(node) ==
  [call |-> "struct", pool |-> "server", node |-> node, at |-> "names", names |-> <<>>,
   fields |-> <<>>, values |-> <<>>, id |-> 0, nested |-> <<>>, cells |-> <<>>]

Call(value) == IF value \in Text THEN StringCall("server", value) ELSE StructCall(value)

\* The maps among the values of a map node, in order.
Maps(node) ==
  LET values == Values[node]
      places == {k \in DOMAIN values : values[k] \in Struct}
      Nth(i) == CHOOSE k \in places : Cardinality({l \in places : l <= k}) = i
  IN  [i \in 1..Cardinality(places) |-> values[Nth(i)]]

\* The calls that ToInternedStruct makes at a place, in order, and the place that
\* follows: the names are interned, then the field set, then the values, which gives
\* the key; to store a body, its maps are interned before the store is locked, and
\* all of its values once more while it is.
Calls(f) ==
  LET values == Values[f.node]
  IN  CASE f.at = "names" -> [i \in DOMAIN values |-> StringCall("server", Names[f.node][i])]
        [] f.at = "fields" -> <<FieldsCall(f.names)>>
        [] f.at \in {"values", "cells"} -> [i \in DOMAIN values |-> Call(values[i])]
        [] f.at = "nested" -> [i \in DOMAIN Maps(f.node) |-> StructCall(Maps(f.node)[i])]

After == [names |-> "fields", fields |-> "values", values |-> "load", nested |-> "lock",
          cells |-> "unlock"]

Collects(f) == f.call = "struct" /\ f.at \in DOMAIN After

\* With the results of all calls of its place, a call is at the next place.
MovedOn(f) ==
  IF Collects(f) /\ Len(f[f.at]) = Len(Calls(f)) THEN [f EXCEPT !.at = After[f.at]] ELSE f

NextCall(f) == Calls(f)[Len(f[f.at]) + 1]

\* The calls that a worker in f is in when it comes to a step that others can notice.
\* A map may be empty, so that two places in a row need no call; its field set is
\* interned even so.
Continue(f) ==
  LET g == MovedOn(MovedOn(f))
      called == MovedOn(NextCall(g))
  IN  IF ~Collects(g) THEN <<g>>
      ELSE IF ~Collects(called) THEN <<g, called>>
      ELSE <<g, called, NextCall(called)>>

Top(w) == Last(stack[w])
In(w, call, at) == stack[w] # <<>> /\ Top(w).call = call /\ Top(w).at = at

\* The innermost call of the worker goes on as f.
GoOn(w, f) == stack' = [stack EXCEPT ![w] = Front(@) \o Continue(f)]
GoTo(w, at) == GoOn(w, [Top(w) EXCEPT !.at = at])

\* The innermost call returns ref to the one that made it, which keeps it with the
\* results it is collecting.
Return(w, ref) ==
  LET callers == Front(stack[w])
      caller == Last(callers)
  IN  stack' = [stack EXCEPT ![w] =
                  Front(callers) \o Continue([caller EXCEPT ![caller.at] = Append(@, ref)])]

\* What the innermost call returns when it has a number of its own.
OwnRef(f) == Ref(IF f.call = "string" THEN f.pool ELSE f.call, f.id)

-----------------------------------------------------------------------------
(* Staging and flushing                                                    *)

\* A staged item: a string has its text, a field set the references of its names.
Item(ref, text, refs) == [ref |-> ref, text |-> text, refs |-> refs]

\* What the chunk has for a staged item: the body of a struct is resolved now.
Written(item) ==
  IF item.ref.ns = "struct"
  THEN [item EXCEPT !.refs = flatStructs[item.ref.id].fields \o flatStructs[item.ref.id].cells]
  ELSE item

\* The body of a struct is resolved under the read lock of the store.
CanResolve(items) == (\E i \in items : i.ref.ns = "struct") => storeLock = None

\* flushLocked: what is staged goes to the file or, when the write fails, nowhere;
\* after that the pool writes nothing more.
FlushLocked(pool) ==
  LET items == unflushed[pool]
      chunk == {Written(i) : i \in items}
  IN  IF err[pool] \/ items = {}
      THEN UNCHANGED <<unflushed, err, file, twice>>
      ELSE /\ CanResolve(items)
           /\ unflushed' = [unflushed EXCEPT ![pool] = {}]
           /\ \/ /\ file' = file \cup chunk
                 /\ twice' = twice \cup (file \cap chunk)
                 /\ UNCHANGED err
              \/ /\ err' = [err EXCEPT ![pool] = TRUE]
                 /\ UNCHANGED <<file, twice>>

\* stageString, stageFieldSet and stageStruct: the item is added under the lock of
\* the pool, which is kept when the batch is full and must be flushed.  The size of
\* a struct is read from the store.
Stage(w, text, refs) ==
  LET f == Top(w)
      item == Item(OwnRef(f), text, refs)
  IN  /\ f.at = "stage"
      /\ flushLock[f.pool] = None /\ CanResolve({item})
      /\ unflushed' = [unflushed EXCEPT ![f.pool] = @ \cup {item}]
      /\ IF Cardinality(unflushed[f.pool]) + 1 >= BatchLimit
         THEN flushLock' = [flushLock EXCEPT ![f.pool] = w] /\ GoTo(w, "flush")
         ELSE UNCHANGED flushLock /\ Return(w, OwnRef(f))
      /\ UNCHANGED <<strToID, idToStr, fieldSetToID, idToFieldSet, structToID,
                     flatStructs, storeLock, err, file, twice>>

\* The full batch is written; the caller is not told of an error.
FlushBatch(w) ==
  /\ stack[w] # <<>> /\ Top(w).at = "flush"
  /\ FlushLocked(Top(w).pool)
  /\ flushLock' = [flushLock EXCEPT ![Top(w).pool] = None]
  /\ Return(w, OwnRef(Top(w)))
  /\ UNCHANGED <<strToID, idToStr, fieldSetToID, idToFieldSet, structToID,
                 flatStructs, storeLock>>

-----------------------------------------------------------------------------
(* InternString                                                            *)

structVars == <<fieldSetToID, idToFieldSet, structToID, flatStructs, storeLock>>
stagingVars == <<flushLock, unflushed, err, file, twice>>

LoadOwn(w) ==
  /\ In(w, "string", "own")
  /\ LET f == Top(w)
         id == strToID[f.pool][f.text]
     IN  IF id # 0 THEN Return(w, Ref(f.pool, id))
         ELSE GoTo(w, IF f.pool = "server" THEN "parent" ELSE "new")
  /\ UNCHANGED <<strToID, idToStr, structVars, stagingVars>>

LoadParent(w) ==
  /\ In(w, "string", "parent")
  /\ LET id == strToID["client"][Top(w).text]
     IN  IF id # 0 THEN Return(w, Ref("client", id)) ELSE GoTo(w, "new")
  /\ UNCHANGED <<strToID, idToStr, structVars, stagingVars>>

\* The string gets a number, which resolves before anybody is given it.
NewString(w) ==
  /\ In(w, "string", "new")
  /\ LET f == Top(w)
     IN  /\ idToStr' = [idToStr EXCEPT ![f.pool] = Append(@, f.text)]
         /\ GoOn(w, [f EXCEPT !.at = "publish", !.id = Len(idToStr[f.pool]) + 1])
  /\ UNCHANGED <<strToID, structVars, stagingVars>>

\* Mutant of PublishString: the worker that comes second returns the number it gave up.
PublishStringOfOwn(w) ==
  /\ In(w, "string", "publish")
  /\ LET f == Top(w)
     IN  IF strToID[f.pool][f.text] # 0
         THEN /\ idToStr' = [idToStr EXCEPT ![f.pool][f.id] = None]
              /\ Return(w, Ref(f.pool, f.id))
              /\ UNCHANGED strToID
         ELSE /\ strToID' = [strToID EXCEPT ![f.pool][f.text] = f.id]
              /\ GoTo(w, "stage")
              /\ UNCHANGED idToStr
  /\ UNCHANGED <<structVars, stagingVars>>

\* Mutant of PublishString: the worker that comes second publishes its number, too.
PublishStringAgain(w) ==
  /\ In(w, "string", "publish")
  /\ strToID' = [strToID EXCEPT ![Top(w).pool][Top(w).text] = Top(w).id]
  /\ GoTo(w, "stage")
  /\ UNCHANGED <<idToStr, structVars, stagingVars>>

\* Another worker may have been first: then the number is given up.
PublishString(w) ==
  /\ In(w, "string", "publish")
  /\ LET f == Top(w)
         actual == strToID[f.pool][f.text]
     IN  IF actual # 0
         THEN /\ idToStr' = [idToStr EXCEPT ![f.pool][f.id] = None]
              /\ Return(w, Ref(f.pool, actual))
              /\ UNCHANGED strToID
         ELSE /\ strToID' = [strToID EXCEPT ![f.pool][f.text] = f.id]
              /\ GoTo(w, "stage")
              /\ UNCHANGED idToStr
  /\ UNCHANGED <<structVars, stagingVars>>

StageString(w) == In(w, "string", "stage") /\ Stage(w, Top(w).text, <<>>)

InternString(w) ==
  LoadOwn(w) \/ LoadParent(w) \/ NewString(w) \/ PublishString(w) \/ StageString(w)

-----------------------------------------------------------------------------
(* InternFieldSetFromIDs                                                   *)

\* The number that a table of pairs has for key, 0 if none.
Lookup(table, key) ==
  IF \E p \in table : p.key = key THEN (CHOOSE p \in table : p.key = key).id ELSE 0

LoadFields(w) ==
  /\ In(w, "fields", "load")
  /\ LET id == Lookup(fieldSetToID, Top(w).names)
     IN  IF id # 0
         THEN Return(w, Ref("fields", id)) /\ UNCHANGED idToFieldSet
         ELSE /\ idToFieldSet' = Append(idToFieldSet, Top(w).names)
              /\ GoOn(w, [Top(w) EXCEPT !.at = "publish", !.id = Len(idToFieldSet) + 1])
  /\ UNCHANGED <<strToID, idToStr, fieldSetToID, structToID, flatStructs, storeLock, stagingVars>>

PublishFields(w) ==
  /\ In(w, "fields", "publish")
  /\ LET f == Top(w)
         actual == Lookup(fieldSetToID, f.names)
     IN  IF actual # 0
         THEN /\ idToFieldSet' = [idToFieldSet EXCEPT ![f.id] = <<>>]
              /\ Return(w, Ref("fields", actual))
              /\ UNCHANGED fieldSetToID
         ELSE /\ fieldSetToID' = fieldSetToID \cup {[key |-> f.names, id |-> f.id]}
              /\ GoTo(w, "stage")
              /\ UNCHANGED idToFieldSet
  /\ UNCHANGED <<strToID, idToStr, structToID, flatStructs, storeLock, stagingVars>>

StageFields(w) == In(w, "fields", "stage") /\ Stage(w, None, Top(w).names)

InternFieldSetFromIDs(w) == LoadFields(w) \/ PublishFields(w) \/ StageFields(w)

-----------------------------------------------------------------------------
(* ToInternedStruct                                                        *)

StructKey(f) == f.fields \o f.values

LoadStruct(w) ==
  /\ In(w, "struct", "load")
  /\ LET id == Lookup(structToID, StructKey(Top(w)))
     IN  IF id # 0
         THEN Return(w, Ref("struct", id)) /\ UNCHANGED flatStructs
         ELSE /\ flatStructs' = Append(flatStructs, Empty)
              /\ GoOn(w, [Top(w) EXCEPT !.at = "nested", !.id = Len(flatStructs) + 1])
  /\ UNCHANGED <<strToID, idToStr, fieldSetToID, idToFieldSet, structToID, storeLock, stagingVars>>

LockStore(w) ==
  /\ In(w, "struct", "lock") /\ storeLock = None
  /\ storeLock' = w
  /\ GoTo(w, "cells")
  /\ UNCHANGED <<strToID, idToStr, fieldSetToID, idToFieldSet, structToID, flatStructs, stagingVars>>

UnlockStore(w) ==
  /\ In(w, "struct", "unlock")
  /\ flatStructs' = [flatStructs EXCEPT ![Top(w).id] = [fields |-> Top(w).fields, cells |-> Top(w).cells]]
  /\ storeLock' = None
  /\ GoTo(w, "publish")
  /\ UNCHANGED <<strToID, idToStr, fieldSetToID, idToFieldSet, structToID, stagingVars>>

\* When another worker was first, the body it did not need stays in the store.
PublishStruct(w) ==
  /\ In(w, "struct", "publish")
  /\ LET f == Top(w)
         actual == Lookup(structToID, StructKey(f))
     IN  IF actual # 0 THEN Return(w, Ref("struct", actual)) /\ UNCHANGED structToID
         ELSE /\ structToID' = structToID \cup {[key |-> StructKey(f), id |-> f.id]}
              /\ GoTo(w, "stage")
  /\ UNCHANGED <<strToID, idToStr, fieldSetToID, idToFieldSet, flatStructs, storeLock, stagingVars>>

StageStruct(w) == In(w, "struct", "stage") /\ Stage(w, None, <<>>)

ToInternedStruct(w) ==
  LoadStruct(w) \/ LockStore(w) \/ UnlockStore(w) \/ PublishStruct(w) \/ StageStruct(w)

Intern(w) ==
  InternString(w) \/ InternFieldSetFromIDs(w) \/ ToInternedStruct(w) \/ FlushBatch(w)

-----------------------------------------------------------------------------
(***************************************************************************)
(* Properties                                                              *)
(***************************************************************************)

\* Whoever holds a reference can resolve it at once, even before it is written: a
\* number that was given up is given to nobody, and a number given is never erased.
ReferencesResolve ==
  /\ \A pool \in Pool, t \in Text :
       strToID[pool][t] # 0 => idToStr[pool][strToID[pool][t]] = t
  /\ \A p \in fieldSetToID : idToFieldSet[p.id] = p.key
  /\ \A p \in structToID : flatStructs[p.id].fields = <<Head(p.key)>>

\* The worker needs the lock of the store for what it does next.
NeedsStore(w) ==
  /\ stack[w] # <<>>
  /\ \/ Top(w).at = "lock"
     \/ Top(w).call = "struct" /\ Top(w).at = "stage"
     \/ Top(w).at = "flush" /\ \E i \in unflushed[Top(w).pool] : i.ref.ns = "struct"

NeedsFlush(w) == stack[w] # <<>> /\ Top(w).at = "stage"

\* Those who hold what the worker needs.
WaitsFor(w) ==
  (IF NeedsStore(w) THEN {storeLock} ELSE {})
    \cup (IF NeedsFlush(w) THEN {flushLock[Top(w).pool]} ELSE {})

\* The texts of the maps that are parts of others, names and values.
NestedTexts ==
  LET nested == UNION {Range(Maps(s)) : s \in Struct}
  IN  UNION {Range(Names[s]) \cup (Range(Values[s]) \cap Text) : s \in nested}

\* The texts with a number in either pool: the client pool got its own after a worker
\* had looked there for the server pool.
Doubled == {t \in Text : \A pool \in Pool : strToID[pool][t] # 0}

\* Encoding a body interns again what was interned for its key, so that the store is
\* locked while a pool may be locked, and the other way round when a batch is
\* flushed.  As long as no text of a nested map has a number in both pools, no workers
\* come to wait for each other, or for themselves: what is interned again is found.
NoDeadlock ==
  NestedTexts \cap Doubled = {} =>
    \A S \in SUBSET Worker \ {{}} : \E w \in S : WaitsFor(w) \cap S = {}

\* What must not happen to a worker that holds the lock of the store: that it needs
\* the lock again, because what it interns under the lock turns out to be new.
StoreLockNotReentered == \A w \in Worker : storeLock = w => ~NeedsStore(w)

\* Text and maps as a reader of the file decodes them.
StringDecodes(ref, text) == \E i \in file : i.ref = ref /\ i.text = text

\* Decoded[s] is the references of the structs in the file that decode to s.
Decoded ==
  LET decoded[s \in Struct] ==
        {i.ref : i \in {j \in file :
           /\ j.ref.ns = "struct"
           /\ Len(j.refs) = Len(Values[s]) + 1
           /\ \E f \in file :
                /\ f.ref = Head(j.refs) /\ Len(f.refs) = Len(Names[s])
                /\ \A k \in DOMAIN Names[s] : StringDecodes(f.refs[k], Names[s][k])
           /\ \A k \in DOMAIN Values[s] :
                IF Values[s][k] \in Text THEN StringDecodes(j.refs[k + 1], Values[s][k])
                ELSE j.refs[k + 1] \in decoded[Values[s][k]]}}
  IN  decoded

=============================================================================
