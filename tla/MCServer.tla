------------------------------ MODULE MCServer ------------------------------
(***************************************************************************)
(* Instances of the components of Server.  As in MCFiles, each is checked  *)
(* as it runs alone.                                                       *)
(*                                                                         *)
(* Two calls open workbenches of two inspections under two IDs; two        *)
(* workers load a file of four chunks, one of which may be broken; two     *)
(* workbenches wait for the index, or one of them while the inspection is  *)
(* imported; every pattern is searched in every value; a form with two     *)
(* slots changes its queries, one of which fails; a client whose answers   *)
(* may get lost starts two jobs, or one that another client may poll, too, *)
(* and after a restart either client starts one; two requests for a token  *)
(* get up to two redirects.                                                *)
(***************************************************************************)
EXTENDS Server, TLC

VARIABLE focus  \* the component that runs

Syntax == INSTANCE TrigramQuery

\* Of the characters that YAML escapes, two; of the words it reads as something else, one.
Chars == {"a", "b", "n", "o", "1", "\"", "\\", ":", " ", "*", "\n"}
Escapes == ("\"" :> <<"\\", "\"">>) @@ ("\\" :> <<"\\", "\\">>)
ReservedTexts == {<<"n", "o">>}

\* Values of up to three letters, and some longer ones, with digits, or with what is
\* escaped; patterns with a part that may be absent, repeat or be one of two.
Values ==
  UNION {[1..n -> {"a", "b"}] : n \in 0..3} \cup
  {<<"a", "b", "a", "b">>, <<"b", "a", "1">>, <<"1", "a", "b", "a">>,
   <<"a", "\"", "b">>, <<"\\", "a", "b">>, <<"a", "b", "\"", "a">>, <<"n", "o">>, <<"a", "b", " ">>}
Patterns ==
  LET ab == Syntax!Literal(<<"a", "b">>)
      aba == Syntax!Literal(<<"a", "b", "a">>)
      ba1 == Syntax!Literal(<<"b", "a", "1">>)
      abab == Syntax!Literal(<<"a", "b", "a", "b">>)
      quoted == Syntax!Literal(<<"a", "\"", "b">>)
      no == Syntax!Literal(<<" ", "n", "o">>)
      key == Syntax!Literal(<<"b", ":", " ">>)
  IN {ab, aba, abab, quoted, no, key,
      Syntax!Star(aba), Syntax!Plus(aba), Syntax!Plus(ab), Syntax!Concat(<<ab, Syntax!AnyChar>>),
      Syntax!Concat(<<Syntax!Star(aba), ab>>), Syntax!Concat(<<Syntax!Plus(aba), Syntax!AnyChar>>),
      Syntax!Concat(<<key, Syntax!Star(Syntax!AnyChar), aba>>),
      Syntax!Alternate(<<aba, ba1>>), Syntax!Alternate(<<abab, ab>>),
      Syntax!Concat(<<Syntax!Alternate(<<aba, ba1>>), Syntax!Star(ba1)>>),
      Syntax!Star(Syntax!Alternate(<<aba, Syntax!AnyChar>>))}
Searches ==
  {[name |-> field[1], key |-> field[2], value |-> value, pattern |-> pattern] :
     field \in {<<<<"a", "b">>, <<"*">>>>, <<<<"a", "b">>, <<"a", "b">>>>,
              <<<<"1", "a">>, <<"1", "a">>>>},
     value \in Values, pattern \in Patterns}

NoSearch == CHOOSE s \in Search : TRUE

allVars == <<focus, vars, loadVars, indexVars, searchVars, estVars, jobVars, oauthVars>>

\* The slots of the form begin with the same query, which is one that fails only where
\* it matters.  The second chunk of the file may be one with strings or a broken one.
AnyInit ==
  /\ focus \in {"workbench", "load", "index", "search", "estimator", "job", "oauth"}
  /\ search_search \in IF focus = "search" THEN Search ELSE {NoSearch}
  /\ est_query \in {[s \in Slot |-> k] : k \in IF focus = "estimator" THEN Key ELSE Failing}
  /\ load_file \in {[n \in 1..Chunks |-> IF n = 2 THEN kind ELSE "part"] :
                     kind \in IF focus = "load" THEN Loading!Kind ELSE {"part"}}
  /\ index_importer \in IF focus = "index" THEN {"none", "invalidate"} ELSE {"none"}
  /\ Init /\ Loading!Init /\ Index!Init /\ Searching!Init /\ Estimator!Init /\ Jobs!Init /\ OAuth!Init

\* While the inspection is imported, one of the workbenches is left out.
Spare == CHOOSE w \in Workbench : TRUE

IndexNext ==
  /\ Index!Next
  /\ index_importer = "none" \/ (index_workbench'[Spare] = "start" /\ index_asks'[Spare] = "no")

\* Two jobs are started by one client, the other of which comes after the restart; for
\* two clients, one job is started in each process.
Latecomer == CHOOSE c \in Client : TRUE

JobNext ==
  /\ Jobs!Next
  /\ job_generated' <= 1 \/ (job_restarts' = 0 /\ job_client'[Latecomer] = "calling")

AnyNext ==
  /\ UNCHANGED focus
  /\ \/ focus = "workbench" /\ Next /\ UNCHANGED <<loadVars, indexVars, searchVars, estVars, jobVars, oauthVars>>
     \/ focus = "load" /\ Loading!Next /\ UNCHANGED <<vars, indexVars, searchVars, estVars, jobVars, oauthVars>>
     \/ focus = "index" /\ IndexNext /\ UNCHANGED <<vars, loadVars, searchVars, estVars, jobVars, oauthVars>>
     \/ focus = "search" /\ Searching!Next /\ UNCHANGED <<vars, loadVars, indexVars, estVars, jobVars, oauthVars>>
     \/ focus = "estimator" /\ Estimator!Next /\ UNCHANGED <<vars, loadVars, indexVars, searchVars, jobVars, oauthVars>>
     \/ focus = "job" /\ JobNext /\ UNCHANGED <<vars, loadVars, indexVars, searchVars, estVars, oauthVars>>
     \/ focus = "oauth" /\ OAuth!Next /\ UNCHANGED <<vars, loadVars, indexVars, searchVars, estVars, jobVars>>

AnySpec == AnyInit /\ [][AnyNext]_allVars

-----------------------------------------------------------------------------
(* The properties of the components; those without a name here are Server's. *)

\* Whoever asks is answered, under the fairness of each component.
ClientsAreAnswered ==
  /\ focus = "workbench" /\ Fairness => OpenersReturn
  /\ focus = "load" /\ Loading!Fairness => Loading!LoadEnds
  /\ focus = "index" /\ Index!Fairness => Index!WaitersAreAnswered
  /\ focus = "estimator" /\ Estimator!Fairness => Estimator!SettledIsEstimated
  /\ focus = "oauth" /\ OAuth!Fairness => OAuth!PageAsks

\* What nobody uses any more goes, under the fairness of either component.
UnusedGoes ==
  /\ focus = "workbench" /\ Fairness => ExpiredAreSwept
  /\ focus = "job" /\ Jobs!Fairness => Jobs!AbandonedEnds

=============================================================================
