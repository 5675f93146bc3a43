-------------------------- MODULE MCInspectionRunner ------------------------
(***************************************************************************)
(* Two tasks in a row; two calls of Run and two of Cancel that race, a dry *)
(* run and a poll of the inspection list.                                  *)
(***************************************************************************)
EXTENDS InspectionRunner

CONSTANTS a, b

Chain == [t \in {a, b} |-> IF t = b THEN {a} ELSE {}]

=============================================================================
