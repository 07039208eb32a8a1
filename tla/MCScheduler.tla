---------------------------- MODULE MCScheduler ----------------------------
(* A task with a date and one with a delay that repeats.                   *)
EXTENDS Scheduler

CONSTANTS dated, delayed, none

MCTasks     == {dated, delayed}
MCRunAt     == [t \in Tasks |-> IF t = dated THEN 2 ELSE 0]
MCRunIn     == [t \in Tasks |-> IF t = delayed THEN 2 ELSE 0]
MCPeriod    == [t \in Tasks |-> IF t = delayed THEN 2 ELSE 0]
MCRemovable == {dated}
=============================================================================
