-------------------------------- MODULE Replay --------------------------------
(***************************************************************************)
(* What a player promises: the records of a provider are played from the   *)
(* first on, each once and in order, and the end is announced once, when   *)
(* none is left to play and none will come.  A player that has been reset  *)
(* begins anew; one that is started again without a reset goes on with the *)
(* records that are left, but promises no more to tell of the end.         *)
(***************************************************************************)
EXTENDS Naturals

CONSTANT Records   \* the number of records

VARIABLES given,   \* records the provider has given
          taken,   \* records taken to be played
          ended,   \* the end has been announced
          again    \* starts since the last reset, but for the first one

vars == <<given, taken, ended, again>>

Init == given = 0 /\ taken = 0 /\ ended = FALSE /\ again = 0

Give == /\ ~ended /\ given < Records
        /\ given' = given + 1
        /\ UNCHANGED <<taken, ended, again>>

Take == /\ ~ended /\ taken < given
        /\ taken' = taken + 1
        /\ UNCHANGED <<given, ended, again>>

Announce == /\ ~ended /\ taken = given /\ again = 0
            /\ ended' = TRUE
            /\ UNCHANGED <<given, taken, again>>

StartAgain == /\ again' = again + 1
              /\ ended' = FALSE
              /\ UNCHANGED <<given, taken>>

Reset == Init'

Next == Give \/ Take \/ Announce \/ StartAgain \/ Reset

Spec == Init /\ [][Next]_vars
=============================================================================
