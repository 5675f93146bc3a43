---------------------------- MODULE TrigramQuery ----------------------------
(***************************************************************************)
(* What the search of a workbench knows of texts and patterns (pkg/server/ *)
(* workbench/cel: trigram.go, trigram_query.go; model/khifile/v6/          *)
(* direct_yaml.go): how a log is printed, which trigrams (three characters *)
(* in a row) its text has, and which of them a pattern needs.              *)
(*                                                                         *)
(* A text is a sequence of characters, all in lower case.  Patterns are    *)
(* those of Go's syntax package; "star" stands for whatever may be absent, *)
(* "plus" for whatever repeats or groups what must be there.  Patterns and *)
(* queries are trees: what is computed of one is a recursive function.     *)
(***************************************************************************)
EXTENDS Integers, SequencesExt

CONSTANTS
  Char,           \* the characters
  Letter, Digit,  \* those of ASCII
  Escape,         \* for each character that YAML escapes, what is printed
  Reserved,       \* texts that YAML reads as something else, like "true"
  MaxHeight       \* a bound on the height of patterns

Quote == "\""

-----------------------------------------------------------------------------
(* The texts.                                                              *)

IsSafePlainScalar(text) ==
  /\ text # <<>> /\ text[1] \in Letter /\ text[Len(text)] # " " /\ text \notin Reserved
  /\ \A i \in DOMAIN text : text[i] \in Letter \cup Digit \cup {" ", "-", "_", ".", "/"}

Escaped(text) ==
  FlattenSeq([i \in DOMAIN text |->
    IF text[i] \in DOMAIN Escape THEN Escape[text[i]] ELSE <<text[i]>>])

\* A name or a value is printed as it is, or in quotes and with escapes; of a name more
\* characters are escaped, but the key of a search is printed the same way.
Printed(text) ==
  IF IsSafePlainScalar(text) THEN text ELSE <<Quote>> \o Escaped(text) \o <<Quote>>

\* The body of a log with one field.
YAML(name, value) == Printed(name) \o <<":", " ">> \o Printed(value) \o <<"\n">>

Trigrams(text) == {SubSeq(text, i, i + 2) : i \in 1..(Len(text) - 2)}

-----------------------------------------------------------------------------
(* Patterns, as regexp/syntax parses and simplifies them.                  *)

Literal(text) == [op |-> "literal", text |-> text, sub |-> <<>>]
AnyChar == [op |-> "any", text |-> <<>>, sub |-> <<>>]
Concat(sub) == [op |-> "concat", text |-> <<>>, sub |-> sub]
Alternate(sub) == [op |-> "alternate", text |-> <<>>, sub |-> sub]
Star(re) == [op |-> "star", text |-> <<>>, sub |-> <<re>>]
Plus(re) == [op |-> "plus", text |-> <<>>, sub |-> <<re>>]

PatternsOver(below) ==
  [op : {"literal"}, text : Seq(Char), sub : {<<>>}] \cup {AnyChar}
  \cup [op : {"concat"}, text : {<<>>}, sub : Seq(below)]
  \cup [op : {"alternate"}, text : {<<>>}, sub : Seq(below) \ {<<>>}]
  \cup [op : {"star", "plus"}, text : {<<>>}, sub : [{1} -> below]]

\* The patterns of each height and below it.
Patterns[n \in 0..MaxHeight] == PatternsOver(IF n = 0 THEN {} ELSE Patterns[n - 1])
Pattern == Patterns[MaxHeight]

\* Where a match can end that begins at i and goes through the steps in their order,
\* each of which tells for every position where it can end from there.
Through(steps, i) ==
  LET reached[k \in 0..Len(steps)] ==
        IF k = 0 THEN {i} ELSE UNION {steps[k][j] : j \in reached[k - 1]}
  IN reached[Len(steps)]

\* Where a match of the pattern can end that begins after the i-th character, if
\* ends tells it of its parts.
EndsOf(re, ends, text, i) ==
  LET Position == 0..Len(text)
      Times(n) == [k \in 1..n |-> ends[re.sub[1]]]
  IN CASE re.op = "literal" ->
            {j \in Position : j = i + Len(re.text) /\ SubSeq(text, i + 1, j) = re.text}
       [] re.op = "any" -> {j \in Position : j = i + 1 /\ text[j] # "\n"}
       [] re.op = "concat" -> Through([k \in DOMAIN re.sub |-> ends[re.sub[k]]], i)
       [] re.op = "alternate" -> UNION {ends[re.sub[k]][i] : k \in DOMAIN re.sub}
       [] re.op = "star" -> UNION {Through(Times(n), i) : n \in Position}
       [] re.op = "plus" -> UNION {Through(Times(n + 1), i) : n \in Position}

Ends(re, text) ==
  LET ends[p \in Pattern] == [i \in 0..Len(text) |-> EndsOf(p, ends, text, i)]
  IN ends[re]

MatchString(re, text) == \E i \in 0..Len(text) : Ends(re, text)[i] # {}

-----------------------------------------------------------------------------
(* The queries of trigrams: what the index must have for a log.            *)

AllQuery == [op |-> "all"]
NoneQuery == [op |-> "none"]
TermQuery(term) == [op |-> "term", term |-> term]
AndQuery(children) == [op |-> "and", children |-> children]
OrQuery(children) == [op |-> "or", children |-> children]

QueriesOver(below) ==
  {AllQuery, NoneQuery} \cup [op : {"term"}, term : Seq(Char)]
  \cup [op : {"and"}, children : SUBSET below]
  \cup [op : {"or"}, children : (SUBSET below) \ {{}}]

\* The queries of each height and below it: those of a pattern, with that of a key.
Queries[n \in 0..(MaxHeight + 2)] == QueriesOver(IF n = 0 THEN {} ELSE Queries[n - 1])
Query == Queries[MaxHeight + 2]

\* Simplify of either connective: what decides it ends it, what is neutral is dropped,
\* one of the same kind is merged, and a single child needs no connective.
Simplified(op, children) ==
  LET decides == IF op = "and" THEN NoneQuery ELSE AllQuery
      neutral == IF op = "and" THEN AllQuery ELSE NoneQuery
      flat == UNION {IF q.op = op THEN q.children ELSE {q} : q \in children \ {neutral}}
  IN CASE decides \in children -> decides
       [] decides \notin children /\ flat = {} -> neutral
       [] decides \notin children /\ (\E q \in flat : flat = {q}) -> CHOOSE q \in flat : TRUE
       [] OTHER -> [op |-> op, children |-> flat]

Simplify(query) ==
  LET simple[q \in Query] ==
        IF q.op \in {"and", "or"} THEN Simplified(q.op, {simple[c] : c \in q.children}) ELSE q
  IN simple[query]

\* The trigrams of a text that must be there.
TermsOf(text) ==
  CASE Len(text) < 3 -> AllQuery
    [] Len(text) = 3 -> TermQuery(text)
    [] OTHER -> AndQuery({TermQuery(t) : t \in Trigrams(text)})

\* Mutant of QueryOf: it needs the trigrams of what may be absent.
QueryOfStar(re, query) ==
  LET children == {query[re.sub[k]] : k \in DOMAIN re.sub}
  IN CASE re.op = "literal" -> TermsOf(re.text)
       [] re.op = "concat" -> AndQuery(children)
       [] re.op = "alternate" -> OrQuery(children)
       [] re.op \in {"plus", "star"} -> query[re.sub[1]]
       [] OTHER -> AllQuery

\* What a pattern needs, if query tells it of its parts.
QueryOf(re, query) ==
  LET children == {query[re.sub[k]] : k \in DOMAIN re.sub}
  IN CASE re.op = "literal" -> TermsOf(re.text)
       [] re.op = "concat" -> AndQuery(children)
       [] re.op = "alternate" -> OrQuery(children)
       [] re.op = "plus" -> query[re.sub[1]]
       [] OTHER -> AllQuery

RegexToTrigramQuery(pattern) ==
  LET query[re \in Pattern] == QueryOf(re, query)
  IN query[pattern]

\* The key of a search for a field; the text of a log that has it contains it as a key.
AnyField == <<"*">>
PathToTrigramQuery(key) ==
  IF key \in {<<>>, AnyField} THEN AllQuery ELSE TermsOf(Printed(key) \o <<":">>)

\* Whether a log with these trigrams is in the bitmap that the query yields.
evalTrigramQuery(query, trigrams) ==
  LET eval[q \in Query] ==
        \/ q.op = "all"
        \/ q.op = "term" /\ q.term \in trigrams
        \/ q.op = "and" /\ \A c \in q.children : eval[c]
        \/ q.op = "or" /\ \E c \in q.children : eval[c]
  IN eval[query]

FindCandidateLogsWithField(key, pattern) ==
  Simplify(AndQuery({PathToTrigramQuery(key), Simplify(RegexToTrigramQuery(pattern))}))

=============================================================================
