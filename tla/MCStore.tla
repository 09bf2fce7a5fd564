------------------------------ MODULE MCStore ------------------------------
(***************************************************************************)
(* Two calls of PutPrompt for one name and one for another, a run to save, *)
(* and a process that may go down once at any point.                       *)
(***************************************************************************)
EXTENDS Store

CONSTANTS put1, put2, put3, run1, greeting, farewell

MCName     == [p \in Puts |-> IF p = put3 THEN farewell ELSE greeting]
MCTable    == [s \in Saves |-> "workflow_runs"]
MCRecordOf == [s \in Saves |-> [stream |-> TRUE, text |-> Empty, detail |-> <<"part">>]]
=============================================================================
