------------------------------ MODULE JobPool ------------------------------
(***************************************************************************)
(* What a ThreadPool promises: submitted jobs are started in the order in  *)
(* which they were submitted, each at most once and never more at a time   *)
(* than there are threads; closing the pool discards the jobs that were    *)
(* not started, and none starts afterwards.                                *)
(***************************************************************************)
EXTENDS Naturals, Sequences, FiniteSets

CONSTANTS Width,       \* how many jobs run at a time
          MaxJobs      \* bound: jobs submitted in a behaviour

VARIABLES waiting,     \* submitted and not started, in order
          running,     \* started and not finished
          finished,    \* jobs that ran to their end
          discarded,   \* jobs that never ran and never will
          submitted,   \* how many were submitted
          closed

poolState == <<waiting, running, finished, discarded, submitted, closed>>

Init == /\ waiting = << >>
        /\ running = {} /\ finished = {} /\ discarded = {}
        /\ submitted = 0
        /\ closed = FALSE

Submit == /\ submitted < MaxJobs
          /\ submitted' = submitted + 1
          /\ waiting' = Append(waiting, submitted + 1)
          /\ UNCHANGED <<running, finished, discarded, closed>>

Start == /\ ~closed /\ waiting # << >>
         /\ Cardinality(running) < Width
         /\ running' = running \cup {Head(waiting)}
         /\ waiting' = Tail(waiting)
         /\ UNCHANGED <<finished, discarded, submitted, closed>>

Finish == \E j \in running :
            /\ running' = running \ {j}
            /\ finished' = finished \cup {j}
            /\ UNCHANGED <<waiting, discarded, submitted, closed>>

Close == /\ closed' = TRUE
         /\ discarded' = discarded \cup {waiting[i] : i \in 1 .. Len(waiting)}
         /\ waiting' = << >>
         /\ UNCHANGED <<running, finished, submitted>>

Next == Submit \/ Start \/ Finish \/ Close

Spec == Init /\ [][Next]_poolState
=============================================================================
