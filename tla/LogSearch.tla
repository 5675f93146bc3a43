----------------------------- MODULE LogSearch ------------------------------
(***************************************************************************)
(* The search of one log by a worker of LogCELFilter (pkg/server/workbench *)
(* and its cel/functions.go): a pattern is matched against the value of a  *)
(* field, or against the whole body printed as YAML.  The index of the     *)
(* trigrams comes while the workbench is in use already, and from then on  *)
(* logs without the trigrams that a pattern needs are passed over.         *)
(*                                                                         *)
(* The body has one field.  Left out: lists, nested maps, values that are  *)
(* no texts (timestamps are printed in yet another form than they are      *)
(* matched in), and the cache of candidates.                               *)
(***************************************************************************)
EXTENDS TrigramQuery

CONSTANT Search  \* the searches: name and value of the field, key and pattern

VARIABLES
  search,     \* the one that is made
  index,      \* whether the index of the trigrams is there
  evaluator,  \* what the worker's evaluator took: "unset", "plain" or "indexed"
  matched     \* its answer: "unknown", "yes" or "no"

vars == <<search, index, evaluator, matched>>

Init ==
  /\ search \in Search
  /\ index = FALSE /\ evaluator = "unset" /\ matched = "unknown"

\* The end of StartAsyncIndexing, at any time.
SetIndex ==
  /\ ~index /\ index' = TRUE
  /\ UNCHANGED <<search, evaluator, matched>>

\* A worker makes its evaluator once, for all its logs.
SetTrigramIndex ==
  /\ evaluator = "unset"
  /\ evaluator' = IF index THEN "indexed" ELSE "plain"
  /\ UNCHANGED <<search, index, matched>>

\* The index has the trigrams of the body as it is printed.
Candidate ==
  evalTrigramQuery(FindCandidateLogsWithField(search.key, search.pattern),
                   Trigrams(YAML(search.name, search.value)))

\* The pattern is matched against the body as it is printed, or the value as it is.
Matches ==
  IF search.key = AnyField THEN MatchString(search.pattern, YAML(search.name, search.value))
  ELSE search.key = search.name /\ MatchString(search.pattern, search.value)

MatchLogField ==
  /\ evaluator # "unset" /\ matched = "unknown"
  /\ matched' = IF (evaluator = "indexed" => Candidate) /\ Matches THEN "yes" ELSE "no"
  /\ UNCHANGED <<search, index, evaluator>>

Next == SetIndex \/ SetTrigramIndex \/ MatchLogField

Spec == Init /\ [][Next]_vars

-----------------------------------------------------------------------------

TypeOK ==
  /\ DOMAIN search = {"name", "value", "key", "pattern"}
  /\ index \in BOOLEAN
  /\ evaluator \in {"unset", "plain", "indexed"}
  /\ matched \in {"unknown", "yes", "no"}

\* Nothing in the value is escaped when it is printed.
Verbatim == \A i \in DOMAIN search.value : search.value[i] \notin DOMAIN Escape

\* The answer does not depend on the moment at which the index comes: the trigrams
\* that a pattern needs are in everything it can match, and simplifying what it needs
\* adds nothing.  So it is for a search in the whole body, and for one in a field
\* whose value is printed without escapes.
IndexIsInvisible ==
  matched # "unknown" /\ (search.key = AnyField \/ Verbatim) => (matched = "yes" <=> Matches)

\* The index is of use: simplifying what a pattern needs loses nothing of it either.
SimplifyLosesNothing ==
  matched # "unknown" /\ Candidate =>
    evalTrigramQuery(
      AndQuery({PathToTrigramQuery(search.key), RegexToTrigramQuery(search.pattern)}),
      Trigrams(YAML(search.name, search.value)))

\* All of this at once.
LogSearchSafe == TypeOK /\ IndexIsInvisible /\ SimplifyLosesNothing

=============================================================================
