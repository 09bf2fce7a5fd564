---------------------------- MODULE MCScheduler ----------------------------
(***************************************************************************)
(* Two jobs over four ticks: one due at any set of instants, the other at  *)
(* every tick or never (cron has expressions that never match).  The       *)
(* second one lacks an input its workflow declares.                        *)
(***************************************************************************)
EXTENDS Scheduler

CONSTANTS j1, j2

MCSchedules == {[j \in Jobs |-> IF j = j1 THEN s ELSE t] :
                  s \in SUBSET (1..MaxTime), t \in {{}, 1..MaxTime}}
=============================================================================
