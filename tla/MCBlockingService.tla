------------------------- MODULE MCBlockingService -------------------------
(* Two threads that start the service and two that stop it.                *)
EXTENDS BlockingService

CONSTANTS r1, r2, s1, s2

TwoStarters == {r1, r2}
TwoStoppers == {s1, s2}
OneStarter  == {r1}
OneStopper  == {s1}
=============================================================================
