---------------------------- MODULE MCLogIngestion ----------------------------
(***************************************************************************)
(* A mapper adds a timeline, the name of which is also a text in the logs  *)
(* that two ingesters take in; one of the logs has the map that the other  *)
(* is as a part.                                                           *)
(***************************************************************************)
EXTENDS LogIngestion

FieldNames == [outer |-> <<"name">>, inner |-> <<"name">>]
FieldValues == [outer |-> <<"inner">>, inner |-> <<"nginx">>]

WorkerJobs ==
  <<<<[kind |-> "timeline", text |-> "nginx"]>>,
    <<[kind |-> "log", body |-> "outer", text |-> "started"]>>,
    <<[kind |-> "log", body |-> "inner", text |-> "started"]>>>>

=============================================================================
