---------------------------- MODULE MCTaskSetSort ---------------------------
(***************************************************************************)
(* Every graph over three tasks with dependencies on each other and on one *)
(* reference that no task has.  In Separate no ID starts with the          *)
(* reference of another task; in Colliding the ID of task 2 starts with    *)
(* the reference of task 1, as those of foo-bar#default and foo do.        *)
(***************************************************************************)
EXTENDS TaskSetSort

Separate == [t \in Task |-> {t}]
Colliding == [t \in Task |-> IF t = 2 THEN {1, 2} ELSE {t}]

=============================================================================
