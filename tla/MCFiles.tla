------------------------------- MODULE MCFiles ------------------------------
(***************************************************************************)
(* The components that take in files and write them: the files of a form   *)
(* field, one chunked upload, the asynchronous tasks that verify files,    *)
(* the import of inspections, and the workers that fill the file of an     *)
(* inspection with logs and with timelines.  They share no variable, so    *)
(* each is checked as it runs alone: a behaviour is one of the component   *)
(* in focus, and the others stay where they begin, where their invariants  *)
(* hold.                                                                   *)
(*                                                                         *)
(* Two files are given to the field, one of them refused; three bytes are  *)
(* uploaded in two chunks, with two attempts each; two workers serve two   *)
(* task slots; two clients import, and there may be a restart.             *)
(*                                                                         *)
(* Two workers ingest a log each: the body of one is part of the other's.  *)
(* One of them adds a timeline before, whose name is in both bodies and is *)
(* the summary of both logs, so that it may get a number in either pool    *)
(* and the struct store be locked twice.  Two mappers have two change sets *)
(* each; one makes a path an alias to which the other adds.                *)
(***************************************************************************)
EXTENDS Files, TLC

VARIABLE focus  \* the component that runs

allVars == <<focus, vars, chunkedVars, taskVars, importVars, logVars, timelineVars>>

\* What a flight that was not started is said to be for is never read.
AnyInit ==
  /\ focus \in {"file", "chunked", "async", "import", "log", "timeline"}
  /\ Init /\ Chunked!Init /\ Async!Init /\ Import!Init
  /\ Logs!Init /\ Timelines!Init
  /\ task_slotOf = CHOOSE g \in [Flight -> Slot] : TRUE
  /\ task_keyOf = CHOOSE g \in [Flight -> Key] : TRUE

AnyNext ==
  /\ UNCHANGED focus
  /\ \/ /\ focus = "file" /\ Next
        /\ UNCHANGED <<chunkedVars, taskVars, importVars, logVars, timelineVars>>
     \/ /\ focus = "chunked" /\ Chunked!Next
        /\ UNCHANGED <<vars, taskVars, importVars, logVars, timelineVars>>
     \/ /\ focus = "async" /\ Async!Next
        /\ UNCHANGED <<vars, chunkedVars, importVars, logVars, timelineVars>>
     \/ /\ focus = "import" /\ Import!Next
        /\ UNCHANGED <<vars, chunkedVars, taskVars, logVars, timelineVars>>
     \/ /\ focus = "log" /\ Logs!Next
        /\ UNCHANGED <<vars, chunkedVars, taskVars, importVars, timelineVars>>
     \/ /\ focus = "timeline" /\ Timelines!Next
        /\ UNCHANGED <<vars, chunkedVars, taskVars, importVars, logVars>>

AnySpec == AnyInit /\ [][AnyNext]_allVars

-----------------------------------------------------------------------------
(* The properties of the components; those without a name here are of Files. *)

\* Those who fill the file of an inspection with logs do not wait for each other, nor for
\* themselves, as long as no text of a nested map has a number in both pools.
NoDeadlock == Logs!NoDeadlock

\* Clients and forms get their answers, no upload session is left, and the timelines of
\* an inspection are completed or fail, under the fairness of either component.
WorkEnds ==
  /\ focus = "chunked" /\ Chunked!Fairness => Chunked!UploadEnds /\ Chunked!SessionEnds
  /\ focus = "file" /\ Fairness => VerdictArrives
  /\ focus = "timeline" /\ Timelines!Fairness => Timelines!TimelinesEnd

-----------------------------------------------------------------------------
(* The logs and the change sets of the instance.                           *)

FieldNames == [outer |-> <<"f">>, inner |-> <<"f">>]
FieldValues == [outer |-> <<"inner">>, inner |-> <<"v">>]
WorkerJobs ==
  <<<<[kind |-> "timeline", text |-> "f"], [kind |-> "log", body |-> "outer", text |-> "f"]>>,
    <<[kind |-> "log", body |-> "inner", text |-> "f"]>>>>

Adds(items) == [alias |-> <<>>, items |-> items]
MapperChangeSets ==
  <<<<Adds(<<"p", "r">>), Adds(<<"q">>)>>,
    <<[alias |-> <<"q", "p">>, items |-> <<"q">>], Adds(<<"p", "q">>)>>>>

=============================================================================
