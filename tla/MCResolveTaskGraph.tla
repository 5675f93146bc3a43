-------------------------- MODULE MCResolveTaskGraph -------------------------
(***************************************************************************)
(* Four available tasks and a reference that none of them has.  Each task  *)
(* may depend on task 3 or on the missing reference, and be followed by    *)
(* one of the tasks 2, 3 and 4; task 1 is the feature, and task 4 may be   *)
(* required.  The longest chains of followers need five passes; with a     *)
(* limit of one or two passes, resolution gives up on some of them.  Tasks *)
(* that wait for each other, or for themselves, are among those that are   *)
(* to be sorted.                                                           *)
(***************************************************************************)
EXTENDS ResolveTaskGraph

Own == [t \in Task |-> {t}]

EnoughPasses ==
  [deps : [Task -> {{}, {3}, {5}}], subsequent : [Task -> {{}, {2}, {3}, {4}}],
   required : {{}, {4}}, requested : {{1}}, maxIteration : {6}]

TooFewPasses ==
  [deps : [Task -> {{}}], subsequent : [Task -> {{}, {2}, {3}}],
   required : {{}}, requested : {{1}}, maxIteration : {1, 2}]

SmallInputs == EnoughPasses \cup TooFewPasses

=============================================================================
