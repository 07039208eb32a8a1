--------------------------- MODULE BlockingService ---------------------------
(***************************************************************************)
(* sihd::util::ABlockingService: a service whose start runs in the thread  *)
(* that calls it, until another thread stops it or it ends by itself.  The *)
(* run is the loop that Collector and Poll share: declare oneself ready,   *)
(* raise a flag, and go on while the flag is up and there is something to  *)
(* do.  BlockingServiceController accepts or refuses each start and stop.  *)
(*                                                                         *)
(* A start or a stop that is refused changes nothing and is not a step.    *)
(*                                                                         *)
(* No name here is one of TcpServer, whose poll is such a service: their   *)
(* proofs extend both modules.                                             *)
(***************************************************************************)
EXTENDS Naturals

CONSTANTS Starters, Stoppers, \* the threads that call start and stop
          NoThread,
          WaitStop,           \* _wait_stop
          WaitReady,          \* whether a stop is called only on a ready service
          MayFail,            \* whether on_start may return false
          MaxAccepted         \* bound: starts accepted in a behaviour

Threads == Starters \cup Stoppers

ASSUME BlockingServiceAssumption ==
    /\ NoThread \notin Threads
    /\ WaitStop \in BOOLEAN /\ WaitReady \in BOOLEAN /\ MayFail \in BOOLEAN
    /\ MaxAccepted \in Nat

VARIABLES state,      \* BlockingServiceController::current_state
          ready,      \* _ready
          runner,     \* the thread that holds _running_mutex
          looping,    \* Collector::_running, the negation of Poll::_stop
          providing,  \* IProvider::providing
          at,         \* where each thread is in start or stop
          failed,     \* on_start returned false to the thread
          accepted    \* starts accepted so far

(* The runs are numbered; a stop catches the run whose flag it lowers.     *)
VARIABLES run,        \* the last run that took the mutex, 0 before the first
          caught      \* the run each stop has caught, 0 for none

serviceVars == <<state, ready, runner, looping, providing, at, failed, accepted, run, caught>>

ServiceInit == /\ state = "Stopped"
               /\ ready = FALSE
               /\ runner = NoThread
               /\ looping = FALSE
               /\ providing = TRUE
               /\ at = [t \in Threads |-> "idle"]
               /\ failed = [t \in Threads |-> FALSE]
               /\ accepted = 0
               /\ run = 0
               /\ caught = [t \in Threads |-> 0]

Goes(t, from, to) == at[t] = from /\ at' = [at EXCEPT ![t] = to]

-----------------------------------------------------------------------------
(* start: op_start, do_start, on_start, op_end.                            *)

AcceptStart(t) == /\ t \in Starters /\ accepted < MaxAccepted
                  /\ state \in {"Stopped", "Error"}
                  /\ state' = "Running"
                  /\ accepted' = accepted + 1
                  /\ failed' = [failed EXCEPT ![t] = FALSE]
                  /\ Goes(t, "idle", "lock")
                  /\ UNCHANGED <<ready, runner, looping, providing, run, caught>>

(* Mutant: the mutex is not taken.                                         *)
LockRunning_NoWait(t) == /\ runner' = t
                         /\ run' = run + 1
                         /\ Goes(t, "lock", "locked")
                         /\ UNCHANGED <<state, ready, looping, providing, failed, accepted, caught>>

LockRunning(t) == /\ runner = NoThread
                  /\ runner' = t
                  /\ run' = run + 1
                  /\ Goes(t, "lock", "locked")
                  /\ UNCHANGED <<state, ready, looping, providing, failed, accepted, caught>>

ClearReady(t) == /\ Goes(t, "locked", "begin")
                 /\ ready' = FALSE
                 /\ UNCHANGED <<state, runner, looping, providing, failed, accepted, run, caught>>

SetReady(t) == /\ Goes(t, "begin", "arm")
               /\ ready' = TRUE
               /\ UNCHANGED <<state, runner, looping, providing, failed, accepted, run, caught>>

(* on_start refuses its configuration.                                     *)
FailAtOnce(t) == /\ MayFail
                 /\ Goes(t, "begin", "unlock")
                 /\ failed' = [failed EXCEPT ![t] = TRUE]
                 /\ UNCHANGED <<state, ready, runner, looping, providing, accepted, run, caught>>

Arm(t) == /\ Goes(t, "arm", "loop")
          /\ looping' = TRUE
          /\ UNCHANGED <<state, ready, runner, providing, failed, accepted, run, caught>>

Leave(t) == /\ ~looping \/ ~providing
            /\ Goes(t, "loop", "unlock")
            /\ UNCHANGED <<state, ready, runner, looping, providing, failed, accepted, run, caught>>

(* The call to poll fails.                                                 *)
Fail(t) == /\ MayFail
           /\ Goes(t, "loop", "unlock")
           /\ failed' = [failed EXCEPT ![t] = TRUE]
           /\ UNCHANGED <<state, ready, runner, looping, providing, accepted, run, caught>>

Unlock(t) == /\ Goes(t, "unlock", "endStart")
             /\ runner' = NoThread
             /\ UNCHANGED <<state, ready, looping, providing, failed, accepted, run, caught>>

EndStart(t) == /\ Goes(t, "endStart", "idle")
               /\ state' = IF failed[t] THEN "Error" ELSE "Running"
               /\ UNCHANGED <<ready, runner, looping, providing, failed, accepted, run, caught>>

(* What is provided may come to an end, and come back.                     *)
ProviderChanges == /\ providing' = ~providing
                   /\ UNCHANGED <<state, ready, runner, looping, at, failed, accepted, run, caught>>

-----------------------------------------------------------------------------
(* stop: op_start, do_stop with on_stop, op_end.                           *)

AcceptStop(t) == /\ t \in Stoppers
                 /\ WaitReady => ready
                 /\ state = "Running"
                 /\ state' = "Stopped"
                 /\ caught' = [caught EXCEPT ![t] = 0]
                 /\ Goes(t, "idle", "disarm")
                 /\ UNCHANGED <<ready, runner, looping, providing, failed, accepted, run>>

Looping == looping /\ \E u \in Threads : at[u] = "loop"

(* Mutant: the flag is left up.                                            *)
Disarm_LeavesUp(t) == /\ Goes(t, "disarm", "unready")
                      /\ caught' = [caught EXCEPT ![t] = IF Looping THEN run ELSE 0]
                      /\ UNCHANGED <<state, ready, runner, looping, providing, failed, accepted, run>>

Disarm(t) == /\ Goes(t, "disarm", "unready")
             /\ looping' = FALSE
             /\ caught' = [caught EXCEPT ![t] = IF Looping THEN run ELSE 0]
             /\ UNCHANGED <<state, ready, runner, providing, failed, accepted, run>>

Unready(t) == /\ Goes(t, "unready", IF WaitStop THEN "wait" ELSE "endStop")
              /\ ready' = FALSE
              /\ UNCHANGED <<state, runner, looping, providing, failed, accepted, run, caught>>

(* Mutant: the mutex of the run is not waited for.                         *)
WaitForRun_Returns(t) == /\ Goes(t, "wait", "endStop")
                         /\ UNCHANGED <<state, ready, runner, looping, providing, failed, accepted,
                                        run, caught>>

(* service_wait_stop takes and gives back _running_mutex.                  *)
WaitForRun(t) == /\ runner = NoThread
                 /\ Goes(t, "wait", "endStop")
                 /\ UNCHANGED <<state, ready, runner, looping, providing, failed, accepted, run,
                                caught>>

EndStop(t) == /\ Goes(t, "endStop", "idle")
              /\ state' = "Stopped"
              /\ UNCHANGED <<ready, runner, looping, providing, failed, accepted, run, caught>>

Run(t) == \/ LockRunning(t) \/ ClearReady(t) \/ SetReady(t) \/ FailAtOnce(t) \/ Arm(t) \/ Leave(t)
          \/ Fail(t) \/ Unlock(t) \/ EndStart(t)

Stop(t) == Disarm(t) \/ Unready(t) \/ WaitForRun(t) \/ EndStop(t)

ServiceNext == \/ \E t \in Threads : AcceptStart(t) \/ Run(t) \/ AcceptStop(t) \/ Stop(t)
               \/ ProviderChanges

(* A call once accepted goes on; a mutex that is taken again and again may *)
(* never be obtained.  That poll fails, or the provider ends, is not       *)
(* promised either.                                                        *)
Proceed(t) == \/ LockRunning(t) \/ ClearReady(t) \/ SetReady(t) \/ Arm(t) \/ Leave(t) \/ Unlock(t)
              \/ EndStart(t) \/ Stop(t)

ServiceSafety == ServiceInit /\ [][ServiceNext]_serviceVars
ServiceSpec == ServiceSafety /\ \A t \in Threads : WF_serviceVars(Proceed(t))

-----------------------------------------------------------------------------
InRun == {"locked", "begin", "arm", "loop", "unlock"}

(* With the types, that the mutex belongs to the thread that is running.   *)
ServiceTypeOK ==
    /\ state \in {"Running", "Stopped", "Error"}
    /\ ready \in BOOLEAN /\ looping \in BOOLEAN /\ providing \in BOOLEAN
    /\ runner \in Threads \cup {NoThread}
    /\ at \in [Threads -> {"idle", "lock", "endStart", "disarm", "unready", "wait", "endStop"}
                          \cup InRun]
    /\ failed \in [Threads -> BOOLEAN]
    /\ accepted \in 0 .. MaxAccepted
    /\ run \in Nat /\ caught \in [Threads -> Nat]
    /\ \A t \in Threads : at[t] \in InRun <=> runner = t

(* The run has given _running_mutex back.                                  *)
Over(r) == r = run => runner = NoThread

(* When a stop that waits returns, the run that it caught is over: what the*)
(* run uses may be destroyed, whoever started the service again meanwhile. *)
StopJoins == \A t \in Threads : at[t] = "endStop" /\ WaitStop /\ caught[t] # 0 => Over(caught[t])

(* A run that a stop caught ends, whatever the provider has left to give.  *)
CaughtRunEnds == \A t \in Threads : caught[t] # 0 ~> caught[t] = 0 \/ Over(caught[t])

(* "wait_ready ... stop": the stop of a service that said it was ready     *)
(* returns.                                                                *)
ReadyStopReturns == \A t \in Stoppers : at[t] = "wait" ~> at[t] = "idle"
=============================================================================
