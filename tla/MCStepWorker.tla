----------------------------- MODULE MCStepWorker -----------------------------
(* Two threads that start and stop a device.                               *)
EXTENDS StepWorker

CONSTANTS c1, c2

TwoCallers == {c1, c2}
=============================================================================
