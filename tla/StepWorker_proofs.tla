-------------------------- MODULE StepWorker_proofs --------------------------
(***************************************************************************)
(* What is proved of a step worker, for any number of callers: a pause lets*)
(* at most one step through; one call at a time is in an operation, and the*)
(* thread exists, and has passed the synchronizer, where the state of the  *)
(* service says so.                                                        *)
(***************************************************************************)
EXTENDS StepWorker, FiniteSetTheorems, TLAPS

(* A step that was begun since the pause was begun by a thread that had    *)
(* passed its wait, and has not passed another.                            *)
Overrun ==
    /\ overrun \in {0, 1}
    /\ overrun = 1 => pause /\ thread # "test"

LEMMA PausePreserves ==
    ASSUME Overrun, Pause
    PROVE  Overrun'
BY DEF Overrun, Pause

LEMMA ResumePreserves ==
    ASSUME Overrun, Resume
    PROVE  Overrun'
BY DEF Overrun, Resume

(* Callers pause and resume the worker, and give it its thread.            *)
LEMMA CallPreserves ==
    ASSUME Overrun, NEW c \in Callers, AcceptStart(c) \/ AcceptStop(c) \/ CallStep(c)
    PROVE  Overrun'
<1> DEFINE Same == UNCHANGED <<overrun, pause, thread>>
<1>1. CASE AcceptStart(c) \/ AcceptStop(c) \/ Observe(c) \/ MapChannel(c) \/ ReadActivate(c)
           \/ StoreStarted(c) \/ EndStart(c) \/ Unobserve(c) \/ StopWorker(c) \/ Forget(c)
           \/ EndStop(c)
  <2>1. Same
    BY <1>1 DEF AcceptStart, AcceptStop, Observe, MapChannel, ReadActivate, StoreStarted, EndStart,
                Unobserve, StopWorker, Forget, EndStop, Call
  <2> QED BY <2>1 DEF Overrun
<1>2. CASE Synchronise(c) \/ CountCaller(c) \/ ReleaseThread(c) \/ AwaitThread(c)
  <2>1. Same
    BY <1>2 DEF Synchronise, CountCaller, ReleaseThread, AwaitThread, Call
  <2> QED BY <2>1 DEF Overrun
<1>3. CASE PauseAtStart(c)
  BY <1>3, PausePreserves DEF PauseAtStart
<1>4. CASE ResumeAtStop(c)
  BY <1>4, ResumePreserves DEF ResumeAtStop
<1>5. CASE StartWorker(c)
  BY <1>5 DEF StartWorker, Call, Overrun
<1>6. CASE Join(c)
  BY <1>6 DEF Join, Call, Overrun
<1> QED BY <1>1, <1>2, <1>3, <1>4, <1>5, <1>6 DEF CallStep

(* The thread begins a step from "test" only, where it comes while the     *)
(* worker is not paused.                                                   *)
LEMMA ThreadPreserves ==
    ASSUME Overrun, ThreadStep
    PROVE  Overrun'
<1>1. CASE Gate
  BY <1>1 DEF Gate, Thread, Overrun
<1>2. CASE TestStarted
  BY <1>2 DEF TestStarted, Thread, Overrun
<1>3. CASE Begin \/ CountThread \/ ReleaseCaller \/ AwaitCaller \/ TakeSamples \/ CopySamples \/ Nap
  <2>1. UNCHANGED <<overrun, pause>> /\ thread' # "test"
    BY <1>3 DEF Begin, CountThread, ReleaseCaller, AwaitCaller, TakeSamples, CopySamples, Nap, Thread
  <2> QED BY <2>1 DEF Overrun
<1> QED BY <1>1, <1>2, <1>3 DEF ThreadStep

LEMMA UserPreserves ==
    ASSUME Overrun, WriteChannel \/ Handle
    PROVE  Overrun'
<1>1. CASE WriteChannel
  BY <1>1 DEF WriteChannel, User, Overrun
<1>2. CASE HandleActivate
  BY <1>2, PausePreserves, ResumePreserves DEF HandleActivate
<1>3. CASE HandleSample
  BY <1>3 DEF HandleSample, User, Overrun
<1> QED BY <1>1, <1>2, <1>3 DEF Handle

(* pause_worker holds: whoever pauses the worker, at its start or while it *)
(* runs, the thread begins no second step until it is resumed.             *)
THEOREM PauseHolds == Spec => []OneStepAfterPause
<1>1. Init => Overrun
  BY DEF Init, Overrun
<1>2. Overrun /\ [Next]_vars => Overrun'
  <2> SUFFICES ASSUME Overrun, [Next]_vars
               PROVE  Overrun'
    OBVIOUS
  <2>1. CASE \E c \in Callers : AcceptStart(c) \/ AcceptStop(c) \/ CallStep(c)
    BY <2>1, CallPreserves
  <2>2. CASE ThreadStep
    BY <2>2, ThreadPreserves
  <2>3. CASE WriteChannel \/ Handle
    BY <2>3, UserPreserves
  <2>4. CASE UNCHANGED vars
    BY <2>4 DEF vars, caller, sync, sampler, Overrun
  <2> QED BY <2>1, <2>2, <2>3, <2>4 DEF Next
<1>3. Overrun => OneStepAfterPause
  BY DEF Overrun, OneStepAfterPause
<1> QED BY <1>1, <1>2, <1>3, PTL DEF Spec

-----------------------------------------------------------------------------
(* Where a call that starts is, and one that stops.                        *)
Unstarted == {"observe", "map", "read", "pause", "spawn"}
Meeting   == {"store", "synchronise", "count", "release", "await"}
Starting  == Unstarted \cup Meeting \cup {"end start"}
Ending    == {"resume", "join"}
Over      == {"forget", "end stop"}
Stopping  == {"unobserve", "clear"} \cup Ending \cup Over

(* The phases of the device: those of a call, and the two between calls.   *)
Phases == Starting \cup Stopping \cup {"stopped", "running"}

Types ==
    /\ kind \in {"pulsation", "sampler"}
    /\ state \in {"Stopped", "Starting", "Running", "Stopping"}
    /\ pc \in [Callers -> {"idle"} \cup Starting \cup Stopping]
    /\ thread \in {"none", "begin", "count", "release", "await", "gate", "asleep", "test", "step",
                   "copy", "nap", "exited"}
    /\ started \in BOOLEAN /\ pause \in BOOLEAN /\ observed \in BOOLEAN
    /\ mapped \in BOOLEAN /\ dirty \in BOOLEAN /\ taken \in BOOLEAN
    /\ count \in 0 .. 2 /\ round \in 0 .. MaxStarts /\ seen \in [Parties -> 0 .. MaxStarts]
    /\ input \in 0 .. MaxWrites /\ output \in 0 .. MaxWrites /\ refused \in 0 .. MaxWrites
    /\ user \in {"idle", "handle"} /\ starts \in 0 .. MaxStarts

(* The synchronizer meets once for a start.                                *)
SyncFits ==
    /\ count \in 0 .. 2 /\ round \in 0 .. MaxStarts /\ seen \in [Parties -> 0 .. MaxStarts]
    /\ starts \in 0 .. MaxStarts /\ round <= starts

(* The controller admits one call at a time.                               *)
OneCall ==
    /\ \A c, d \in Callers : pc[c] # "idle" /\ pc[d] # "idle" => c = d
    /\ \A c \in Callers : pc[c] \in Starting => state = "Starting"
    /\ \A c \in Callers : pc[c] \in Stopping => state = "Stopping"
    /\ state \in {"Starting", "Stopping"} => \E c \in Callers : pc[c] # "idle"

(* The thread has been let through by the synchronizer, or is about to be. *)
Passed == /\ count = 0 /\ thread \notin {"begin", "count", "release"}
          /\ thread = "await" => seen["thread"] # round

(* What holds in each phase of the worker, its thread and its device.      *)
Lives(p) ==
    /\ started <=> p \in Meeting \cup {"end start", "running", "unobserve", "clear"}
    /\ thread = "none" <=> p \in Unstarted \cup Over \cup {"stopped"}
    /\ thread = "exited" => p \in Ending
    /\ p \in {"stopped", "observe", "clear"} \cup Ending \cup Over => ~observed
    /\ p \in {"stopped", "end stop"} => ~dirty

Meets(p) ==
    /\ kind = "pulsation" => p \notin {"synchronise", "count", "release", "await"}
    /\ p \in {"store", "synchronise", "count"} /\ kind = "sampler" =>
          \/ thread = "begin" /\ count = 0
          \/ thread = "count" /\ count = 0 /\ seen["thread"] = round
          \/ thread = "await" /\ count = 1 /\ seen["thread"] = round
    /\ p = "count" => seen["caller"] = round
    /\ p = "release" => thread = "await" /\ count = 2 /\ seen["thread"] = round
    /\ p = "await" =>
          \/ seen["caller"] = round /\ thread \in {"begin", "count"} /\ count = 1
          \/ seen["caller"] = round /\ thread = "release" /\ count = 2
          \/ seen["caller"] # round /\ Passed
    /\ p \notin Meeting \/ kind = "pulsation" => Passed

(* Each start has one round of the synchronizer at most.                   *)
Rounds(p) ==
    /\ p \in Unstarted \cup {"store", "synchronise", "count", "release"} => round < starts
    /\ p = "await" /\ seen["caller"] = round => round < starts

Phase(p) == Lives(p) /\ Meets(p) /\ Rounds(p)

In(p) == \/ p = "stopped" /\ state = "Stopped"
         \/ p = "running" /\ state = "Running"
         \/ \E c \in Callers : pc[c] = p

Phased == \A p \in Phases : In(p) => Phase(p)

WorkerInv == /\ Types /\ OneCall /\ Phased
             /\ user = "handle" => observed
             /\ round <= starts

(* The steps of a call take the device from a phase to the next one.       *)
LEMMA Moves ==
    ASSUME Types, OneCall, NEW c \in Callers, NEW from, NEW to, NEW p,
           pc[c] = from, pc' = [pc EXCEPT ![c] = to],
           \/ from \in Starting /\ to \in Starting /\ p = to /\ state' = state
           \/ from \in Stopping /\ to \in Stopping /\ p = to /\ state' = state
           \/ from = "idle" /\ to = "observe" /\ p = to /\ state = "Stopped" /\ state' = "Starting"
           \/ from = "idle" /\ to = "unobserve" /\ p = to /\ state = "Running" /\ state' = "Stopping"
           \/ from = "end start" /\ to = "idle" /\ p = "running" /\ state' = "Running"
           \/ from = "end stop" /\ to = "idle" /\ p = "stopped" /\ state' = "Stopped"
    PROVE  /\ pc' \in [Callers -> {"idle"} \cup Starting \cup Stopping] /\ OneCall'
           /\ \A q \in Phases : In(q)' => q = p
<1> USE DEF Starting, Stopping, Unstarted, Meeting, Ending, Over
<1>1. pc' \in [Callers -> {"idle"} \cup Starting \cup Stopping] /\ pc'[c] = to
  BY DEF Types
<1>2. \A d \in Callers \ {c} : pc'[d] = pc[d] /\ pc[d] = "idle"
  BY DEF Types, OneCall
<1>3. OneCall'
  BY <1>1, <1>2 DEF OneCall
<1>4. ASSUME NEW q \in Phases, In(q)' PROVE q = p
  BY <1>1, <1>2, <1>4 DEF In, Phases, OneCall
<1> QED BY <1>1, <1>3, <1>4

LEMMA InitInv == Init => WorkerInv
<1> SUFFICES ASSUME Init PROVE WorkerInv
  OBVIOUS
<1>1. Types
  <2>1. /\ round \in 0 .. MaxStarts /\ seen \in [Parties -> 0 .. MaxStarts] /\ starts \in 0 .. MaxStarts
        /\ input \in 0 .. MaxWrites /\ output \in 0 .. MaxWrites
        /\ refused \in 0 .. MaxWrites /\ count \in 0 .. 2
    BY StepWorkerAssumption DEF Init
  <2>2. /\ kind \in {"pulsation", "sampler"} /\ state = "Stopped" /\ thread = "none" /\ user = "idle"
        /\ pc \in [Callers -> {"idle"} \cup Starting \cup Stopping]
    BY DEF Init
  <2>3. /\ started \in BOOLEAN /\ pause \in BOOLEAN /\ observed \in BOOLEAN
        /\ mapped \in BOOLEAN /\ dirty \in BOOLEAN /\ taken \in BOOLEAN
    BY DEF Init
  <2> QED BY <2>1, <2>2, <2>3 DEF Types
<1>2. OneCall
  BY DEF Init, OneCall, Starting, Stopping, Unstarted, Meeting, Ending, Over
<1>3. ASSUME NEW p \in Phases, In(p) PROVE Phase(p)
  <2>1. p = "stopped"
    BY <1>3 DEF Init, In, Phases, Starting, Stopping, Unstarted, Meeting, Ending, Over
  <2> QED BY <2>1 DEF Init, Phase, Lives, Meets, Rounds, Passed, Unstarted, Meeting, Ending, Over
<1> QED BY <1>1, <1>2, <1>3 DEF WorkerInv, Phased, Init

LEMMA FirstToCount == \A n : n = 0 => n + 1 = 1 /\ ~(n + 1 >= 2)
OBVIOUS

(* The thread keeps the phase, and cannot pass the synchronizer before the *)
(* call has come to it.                                                    *)
LEMMA ThreadKeepsPhase ==
    ASSUME Types, round <= starts, ThreadStep, NEW p \in Phases, Phase(p)
    PROVE  Phase(p)'
<1>0. round \in Nat
  BY StepWorkerAssumption DEF Types
<1> USE DEF Thread, caller, sync, sampler, Parties, Phases, Starting, Stopping, Unstarted, Meeting,
        Ending, Over, Phase, Lives, Meets, Rounds, Passed
<1>1. CASE Begin
  BY <1>1 DEF Begin, ReadRound, Types
<1>2. CASE CountThread
  <2>1. /\ thread = "count" /\ thread' = IF count + 1 >= 2 THEN "release" ELSE "await"
        /\ count' = count + 1 /\ count \in 0 .. 2
        /\ UNCHANGED <<kind, state, pc, starts, started, pause, observed, mapped, dirty, round, seen>>
    BY <1>2 DEF CountThread, Count, IsLast, Types
  <2>2. Lives(p)'
    BY <2>1
  <2>3. Meets(p)'
    <3>1. kind = "sampler" /\ p \in Meeting \ {"release"}
      BY <2>1 DEF Types
    <3>2. CASE p = "await"
      <4>1. count = 1 /\ count' = 2 /\ thread' = "release" /\ seen["caller"] = round
        BY <2>1, <3>2
      <4> QED BY <2>1, <3>1, <3>2, <4>1
    <3>3. CASE p # "await"
      <4>2. p \in {"store", "synchronise", "count"}
        BY <3>1, <3>3
      <4>3. count = 0 /\ seen["thread"] = round
        BY <2>1, <3>1, <4>2
      <4>1. count' = 1 /\ thread' = "await"
        BY <2>1, <4>3, FirstToCount, Zenon
      <4> QED BY <2>1, <3>1, <4>1, <4>2, <4>3
    <3> QED BY <3>2, <3>3
  <2>4. Rounds(p)'
    BY <2>1
  <2> QED BY <2>2, <2>3, <2>4
<1>3. CASE ReleaseCaller
  <2>1. /\ thread = "release" /\ thread' = "gate" /\ count' = 0 /\ round' = round + 1
        /\ UNCHANGED <<kind, state, pc, starts, started, pause, observed, mapped, dirty, seen>>
    BY <1>3 DEF ReleaseCaller, Release
  <2>4. kind = "sampler" /\ p \in Meeting \ {"release"}
    BY <2>1 DEF Types
  <2>2. p = "await" /\ seen["caller"] = round
    BY <2>1, <2>4
  <2>3. Lives(p)' /\ Meets(p)' /\ Rounds(p)'
    BY <2>1, <2>2, <1>0
  <2> QED BY <2>3
<1>4. CASE AwaitCaller
  BY <1>4 DEF AwaitCaller, Released
<1>5. CASE Gate
  BY <1>5 DEF Gate
<1>6. CASE TestStarted
  BY <1>6 DEF TestStarted
<1>7. CASE TakeSamples
  BY <1>7 DEF TakeSamples
<1>8. CASE CopySamples
  BY <1>8 DEF CopySamples, Copied
<1>9. CASE Nap
  BY <1>9 DEF Nap
<1> QED BY <1>1, <1>2, <1>3, <1>4, <1>5, <1>6, <1>7, <1>8, <1>9 DEF ThreadStep

(* There is a phase, in which a thread that counts is not the third, and   *)
(* one that releases does it for a start.                                  *)
LEMMA ThreadMeets ==
    ASSUME Types, OneCall, Phased
    PROVE  /\ thread = "count" => count < 2
           /\ thread = "release" => round < starts
<1>1. PICK p \in Phases : In(p)
  <2>1. CASE state \in {"Stopped", "Running"}
    BY <2>1 DEF In, Phases
  <2>2. CASE state \in {"Starting", "Stopping"}
    <3>1. PICK c \in Callers : pc[c] # "idle"
      BY <2>2 DEF OneCall
    <3>2. pc[c] \in Phases /\ In(pc[c])
      BY <3>1 DEF Types, Phases, In
    <3> QED BY <3>2
  <2> QED BY <2>1, <2>2 DEF Types
<1>2. Phase(p)
  BY <1>1 DEF Phased
<1> QED BY <1>2 DEF Phase, Meets, Rounds, Passed, Meeting, Types

LEMMA ThreadPreservesInv ==
    ASSUME WorkerInv, ThreadStep PROVE WorkerInv'
<1> USE DEF WorkerInv, Thread, caller, sync, sampler, Parties
<1>1. UNCHANGED <<kind, state, pc, starts, started, pause, observed, mapped, input, user>>
  BY DEF ThreadStep, Begin, CountThread, ReleaseCaller, AwaitCaller, Gate, TestStarted, TakeSamples,
         CopySamples, Nap
<1>2. thread' \in {"none", "begin", "count", "release", "await", "gate", "asleep", "test", "step",
                  "copy", "nap", "exited"}
  BY DEF ThreadStep, Begin, CountThread, ReleaseCaller, AwaitCaller, Gate, TestStarted, TakeSamples,
         CopySamples, Nap
<1>3. /\ dirty' \in BOOLEAN /\ taken' \in BOOLEAN
      /\ output' \in 0 .. MaxWrites /\ refused' \in 0 .. MaxWrites
  BY DEF ThreadStep, Begin, CountThread, ReleaseCaller, AwaitCaller, Gate, TestStarted, TakeSamples,
         CopySamples, Copied, Nap, Types
<1>4. /\ count' \in 0 .. 2 /\ round' \in 0 .. MaxStarts /\ seen' \in [Parties -> 0 .. MaxStarts]
      /\ round' <= starts
  <2>1. CASE Begin
    BY <2>1 DEF Begin, ReadRound, Types
  <2>2. CASE CountThread
    BY <2>2, ThreadMeets DEF CountThread, Count, Types
  <2>3. CASE ReleaseCaller
    BY <2>3, ThreadMeets, StepWorkerAssumption DEF ReleaseCaller, Release, Types
  <2>4. CASE UNCHANGED sync
    BY <2>4 DEF Types
  <2> QED BY <2>1, <2>2, <2>3, <2>4 DEF ThreadStep, AwaitCaller, Gate, TestStarted, TakeSamples,
                                        CopySamples, Nap
<1>5. Types'
  BY <1>1, <1>2, <1>3, <1>4 DEF Types
<1>6. OneCall' /\ \A p : In(p)' <=> In(p)
  BY <1>1 DEF OneCall, In
<1>7. Phased'
  BY <1>6, ThreadKeepsPhase DEF Phased
<1> QED BY <1>1, <1>4, <1>5, <1>6, <1>7

(* The device's handler keeps the phase: it wakes the thread or marks the  *)
(* channel, while the device observes it.                                  *)
LEMMA UserPreservesInv ==
    ASSUME WorkerInv, WriteChannel \/ Handle PROVE WorkerInv'
<1> USE DEF WorkerInv, User, caller, sync
<1>1. /\ UNCHANGED <<kind, state, pc, starts, started, count, round, seen, observed, mapped>>
      /\ UNCHANGED <<output, refused, taken>>
  BY DEF Handle, WriteChannel, HandleActivate, HandleSample
<1>2. /\ thread' \in {thread, Woken(thread)} /\ pause' \in BOOLEAN /\ dirty' \in BOOLEAN
      /\ dirty' => dirty \/ observed
  <2>1. CASE WriteChannel
    BY <2>1 DEF WriteChannel, Types
  <2>2. CASE HandleActivate
    BY <2>2 DEF HandleActivate, Resume, Pause, Types
  <2>3. CASE HandleSample
    BY <2>3 DEF HandleSample, Types
  <2> QED BY <2>1, <2>2, <2>3 DEF Handle
<1>3. input' \in 0 .. MaxWrites /\ user' \in {"idle", "handle"}
  BY StepWorkerAssumption DEF Handle, WriteChannel, HandleActivate, HandleSample, Types
<1>4. user' = "handle" => observed'
  BY DEF Handle, WriteChannel, HandleActivate, HandleSample
<1>5. Types'
  BY <1>1, <1>2, <1>3 DEF Types, Woken
<1>6. OneCall' /\ round' <= starts' /\ \A p : In(p)' <=> In(p)
  BY <1>1 DEF OneCall, In
<1>7. ASSUME NEW p \in Phases, Phase(p) PROVE Phase(p)'
  <2>1. Lives(p)'
    BY <1>1, <1>2, <1>7 DEF Phase, Lives, Woken, Over
  <2>2. Meets(p)'
    BY <1>1, <1>2, <1>7 DEF Phase, Meets, Passed, Woken
  <2>3. Rounds(p)'
    BY <1>1, <1>7 DEF Phase, Rounds
  <2> QED BY <2>1, <2>2, <2>3 DEF Phase
<1>8. Phased'
  BY <1>6, <1>7 DEF Phased
<1> QED BY <1>4, <1>5, <1>6, <1>8

(* A step of a call that brings the device to phase p.                     *)
LEMMA Arrives ==
    ASSUME Types', OneCall', NEW p, Phase(p)', \A q \in Phases : In(q)' => q = p,
           user' = "handle" => observed', round' <= starts'
    PROVE  WorkerInv'
BY DEF WorkerInv, Phased

(* What a step of a call may write is of the types; the synchronizer is a   *)
(* matter of its own.                                                      *)
LEMMA CallFits ==
    ASSUME Types, kind' = kind, input' = input, output' = output, refused' = refused,
           taken' = taken, user' = user,
           pc' \in [Callers -> {"idle"} \cup Starting \cup Stopping],
           state' \in {state, "Starting", "Running", "Stopping", "Stopped"},
           thread' \in {thread, "begin", "gate", "none"},
           started' \in BOOLEAN, pause' \in BOOLEAN, mapped' \in BOOLEAN, dirty' \in BOOLEAN,
           observed' \in BOOLEAN, user = "handle" => observed',
           SyncFits'
    PROVE  Types' /\ round' <= starts' /\ (user' = "handle" => observed')
<1>1. kind' \in {"pulsation", "sampler"} /\ user' \in {"idle", "handle"}
      /\ input' \in 0 .. MaxWrites /\ output' \in 0 .. MaxWrites /\ refused' \in 0 .. MaxWrites
  BY DEF Types
<1>2. /\ started' \in BOOLEAN /\ pause' \in BOOLEAN /\ observed' \in BOOLEAN
      /\ mapped' \in BOOLEAN /\ dirty' \in BOOLEAN /\ taken' \in BOOLEAN
  BY DEF Types
<1>3. /\ state' \in {"Stopped", "Starting", "Running", "Stopping"}
      /\ thread' \in {"none", "begin", "count", "release", "await", "gate", "asleep", "test", "step",
                      "copy", "nap", "exited"}
  BY DEF Types
<1>4. user' = "handle" => observed'
  OBVIOUS
<1> QED BY <1>1, <1>2, <1>3, <1>4 DEF Types, SyncFits

(* A step that leaves the synchronizer alone.                              *)
LEMMA SyncKept ==
    ASSUME Types, round <= starts, count' = count, round' = round, seen' = seen, starts' = starts
    PROVE  SyncFits'
BY StepWorkerAssumption DEF Types, SyncFits

(* A start, until its end.                                                 *)
LEMMA StartPreservesInv ==
    ASSUME WorkerInv, NEW c \in Callers,
           \/ AcceptStart(c) \/ Observe(c) \/ MapChannel(c) \/ ReadActivate(c) \/ PauseAtStart(c)
           \/ StartWorker(c) \/ StoreStarted(c) \/ Synchronise(c) \/ CountCaller(c)
           \/ ReleaseThread(c) \/ AwaitThread(c) \/ EndStart(c)
    PROVE  WorkerInv'
<1>0. /\ Types /\ OneCall /\ Phased /\ round <= starts /\ round \in Nat /\ starts \in Nat
      /\ user = "handle" => observed
  BY StepWorkerAssumption DEF WorkerInv, Types
<1>b. started \in BOOLEAN /\ pause \in BOOLEAN /\ mapped \in BOOLEAN /\ dirty \in BOOLEAN
      /\ observed \in BOOLEAN
  BY <1>0 DEF Types
<1>p. \A p \in Phases : In(p) => Phase(p)
  BY <1>0 DEF Phased
<1> DEFINE Fits == Types' /\ round' <= starts' /\ (user' = "handle" => observed')
<1>1. CASE AcceptStart(c)
  <2>1. /\ pc[c] = "idle" /\ pc' = [pc EXCEPT ![c] = "observe"] /\ state = "Stopped"
        /\ state' = "Starting" /\ starts < MaxStarts /\ starts' = starts + 1
        /\ UNCHANGED <<kind, input, output, refused, taken, user, started, pause, thread, count, round, seen,
                       observed, mapped, dirty>>
    BY <1>1 DEF AcceptStart, Call, sync
  <2>2. Phase("stopped")
    BY <1>p, <2>1 DEF In, Phases
  <2>3. pc' \in [Callers -> {"idle"} \cup Starting \cup Stopping] /\ OneCall'
        /\ \A q \in Phases : In(q)' => q = "observe"
    BY <1>0, <2>1, Moves
  <2>4. Fits
    <3>1. SyncFits'
      BY <1>0, <2>1, StepWorkerAssumption DEF Types, SyncFits
    <3> QED BY <1>0, <1>b, <2>1, <2>3, <3>1, CallFits
  <2>5. Phase("observe")'
    BY <2>1, <2>2, <1>0 DEF Phase, Lives, Meets, Rounds, Passed, Over, Unstarted, Meeting, Ending
  <2> QED BY <2>3, <2>4, <2>5, Arrives
<1>2. CASE Observe(c)
  <2>1. /\ pc[c] = "observe"
        /\ observed' = TRUE
        /\ UNCHANGED <<kind, state, starts, input, output, refused, taken, user, started, pause,
                       thread, count, round, seen, mapped, dirty>>
    BY <1>2 DEF Observe, Call, sync
  <2>2. Phase("observe")
    BY <1>p, <2>1 DEF In, Phases, Starting, Stopping, Unstarted, Meeting, Ending, Over
  <2>3. PICK to \in {"map", "read"} : pc' = [pc EXCEPT ![c] = to] /\ (to = "read" => kind = "pulsation")
    BY <1>0, <1>2 DEF Observe, Call, Types
  <2>4. /\ pc' \in [Callers -> {"idle"} \cup Starting \cup Stopping] /\ OneCall'
        /\ \A q \in Phases : In(q)' => q = to
    <3>1. "observe" \in Starting /\ to \in Starting
      BY <2>3 DEF Starting, Unstarted, Meeting
    <3> QED BY <1>0, <2>1, <2>3, <3>1, Moves
  <2>5. Fits
    <3>1. SyncFits'
      BY <1>0, <2>1, SyncKept
    <3> QED BY <1>0, <1>b, <2>1, <2>4, <3>1, CallFits
  <2>6. Phase(to)'
    BY <2>1, <2>3, <2>2, <1>0 DEF Phase, Lives, Meets, Rounds, Passed, Over, Unstarted, Meeting, Ending,
                              Types, Parties
  <2> QED BY <2>4, <2>5, <2>6, Arrives
<1>3. CASE MapChannel(c)
  <2>1. /\ pc[c] = "map" /\ pc' = [pc EXCEPT ![c] = "spawn"]
        /\ mapped' = TRUE
        /\ UNCHANGED <<kind, state, starts, input, output, refused, taken, user, started, pause,
                       thread, count, round, seen, observed, dirty>>
    BY <1>3 DEF MapChannel, Call, sync
  <2>2. Phase("map")
    BY <1>p, <2>1 DEF In, Phases, Starting, Stopping, Unstarted, Meeting, Ending, Over
  <2>4. /\ pc' \in [Callers -> {"idle"} \cup Starting \cup Stopping] /\ OneCall'
        /\ \A q \in Phases : In(q)' => q = "spawn"
    <3>1. "map" \in Starting /\ "spawn" \in Starting
      BY DEF Starting, Unstarted, Meeting
    <3> QED BY <1>0, <2>1, <3>1, Moves
  <2>5. Fits
    <3>1. SyncFits'
      BY <1>0, <2>1, SyncKept
    <3> QED BY <1>0, <1>b, <2>1, <2>4, <3>1, CallFits
  <2>6. Phase("spawn")'
    BY <2>1, <2>2, <1>0 DEF Phase, Lives, Meets, Rounds, Passed, Over, Unstarted, Meeting, Ending,
                              Types, Parties
  <2> QED BY <2>4, <2>5, <2>6, Arrives
<1>4. CASE ReadActivate(c)
  <2>1. /\ pc[c] = "read"
        /\ UNCHANGED <<kind, state, starts, input, output, refused, taken, user, started, pause,
                       thread, count, round, seen, observed, mapped, dirty>>
    BY <1>4 DEF ReadActivate, Call, sync
  <2>2. Phase("read")
    BY <1>p, <2>1 DEF In, Phases, Starting, Stopping, Unstarted, Meeting, Ending, Over
  <2>3. PICK to \in {"spawn", "pause"} : pc' = [pc EXCEPT ![c] = to]
    BY <1>4 DEF ReadActivate, Call
  <2>4. /\ pc' \in [Callers -> {"idle"} \cup Starting \cup Stopping] /\ OneCall'
        /\ \A q \in Phases : In(q)' => q = to
    <3>1. "read" \in Starting /\ to \in Starting
      BY <2>3 DEF Starting, Unstarted, Meeting
    <3> QED BY <1>0, <2>1, <2>3, <3>1, Moves
  <2>5. Fits
    <3>1. SyncFits'
      BY <1>0, <2>1, SyncKept
    <3> QED BY <1>0, <1>b, <2>1, <2>4, <3>1, CallFits
  <2>6. Phase(to)'
    BY <2>1, <2>3, <2>2, <1>0 DEF Phase, Lives, Meets, Rounds, Passed, Over, Unstarted, Meeting, Ending,
                              Types, Parties
  <2> QED BY <2>4, <2>5, <2>6, Arrives
<1>5. CASE PauseAtStart(c)
  <2>1. /\ pc[c] = "pause" /\ pc' = [pc EXCEPT ![c] = "spawn"]
        /\ pause' = TRUE
        /\ UNCHANGED <<kind, state, starts, input, output, refused, taken, user, started, thread,
                       count, round, seen, observed, mapped, dirty>>
    BY <1>5 DEF PauseAtStart, Call, sync, Pause
  <2>2. Phase("pause")
    BY <1>p, <2>1 DEF In, Phases, Starting, Stopping, Unstarted, Meeting, Ending, Over
  <2>4. /\ pc' \in [Callers -> {"idle"} \cup Starting \cup Stopping] /\ OneCall'
        /\ \A q \in Phases : In(q)' => q = "spawn"
    <3>1. "pause" \in Starting /\ "spawn" \in Starting
      BY DEF Starting, Unstarted, Meeting
    <3> QED BY <1>0, <2>1, <3>1, Moves
  <2>5. Fits
    <3>1. SyncFits'
      BY <1>0, <2>1, SyncKept
    <3> QED BY <1>0, <1>b, <2>1, <2>4, <3>1, CallFits
  <2>6. Phase("spawn")'
    BY <2>1, <2>2, <1>0 DEF Phase, Lives, Meets, Rounds, Passed, Over, Unstarted, Meeting, Ending,
                              Types, Parties
  <2> QED BY <2>4, <2>5, <2>6, Arrives
<1>6. CASE StartWorker(c)
  <2>1. /\ pc[c] = "spawn"
        /\ started' = TRUE
        /\ ~started => thread' = IF kind = "sampler" THEN "begin" ELSE "gate"
        /\ UNCHANGED <<kind, state, starts, input, output, refused, taken, user, pause, count, round,
                       seen, observed, mapped, dirty>>
    BY <1>6 DEF StartWorker, Call, sync, Spawned, Synchronised
  <2>2. Phase("spawn")
    BY <1>p, <2>1 DEF In, Phases, Starting, Stopping, Unstarted, Meeting, Ending, Over
  <2>3. PICK to \in {"store", "synchronise", "end start"} : pc' = [pc EXCEPT ![c] = to] /\ (~started => to = "store")
    BY <1>6 DEF StartWorker, Call, Spawned, Synchronised
  <2>4. /\ pc' \in [Callers -> {"idle"} \cup Starting \cup Stopping] /\ OneCall'
        /\ \A q \in Phases : In(q)' => q = to
    <3>1. "spawn" \in Starting /\ to \in Starting
      BY <2>3 DEF Starting, Unstarted, Meeting
    <3> QED BY <1>0, <2>1, <2>3, <3>1, Moves
  <2>5. Fits
    <3>1. SyncFits'
      BY <1>0, <2>1, SyncKept
    <3>2. ~started
      BY <2>2 DEF Phase, Lives, Meeting
    <3> QED BY <1>0, <1>b, <2>1, <2>4, <3>1, <3>2, CallFits
  <2>6. Phase(to)'
    BY <2>1, <2>3, <2>2, <1>0 DEF Phase, Lives, Meets, Rounds, Passed, Over, Unstarted, Meeting, Ending,
                              Types, Parties
  <2> QED BY <2>4, <2>5, <2>6, Arrives
<1>7. CASE StoreStarted(c)
  <2>1. /\ pc[c] = "store"
        /\ started' = TRUE
        /\ UNCHANGED <<kind, state, starts, input, output, refused, taken, user, pause, thread, count,
                       round, seen, observed, mapped, dirty>>
    BY <1>7 DEF StoreStarted, Call, sync, Spawned, Synchronised
  <2>2. Phase("store")
    BY <1>p, <2>1 DEF In, Phases, Starting, Stopping, Unstarted, Meeting, Ending, Over
  <2>3. PICK to \in {"synchronise", "end start"} : pc' = [pc EXCEPT ![c] = to] /\ (to = "synchronise" <=> kind = "sampler")
    BY <1>7 DEF StoreStarted, Call, Spawned, Synchronised
  <2>4. /\ pc' \in [Callers -> {"idle"} \cup Starting \cup Stopping] /\ OneCall'
        /\ \A q \in Phases : In(q)' => q = to
    <3>1. "store" \in Starting /\ to \in Starting
      BY <2>3 DEF Starting, Unstarted, Meeting
    <3> QED BY <1>0, <2>1, <2>3, <3>1, Moves
  <2>5. Fits
    <3>1. SyncFits'
      BY <1>0, <2>1, SyncKept
    <3> QED BY <1>0, <1>b, <2>1, <2>4, <3>1, CallFits
  <2>6. Phase(to)'
    BY <2>1, <2>3, <2>2, <1>0 DEF Phase, Lives, Meets, Rounds, Passed, Over, Unstarted, Meeting, Ending,
                              Types, Parties
  <2> QED BY <2>4, <2>5, <2>6, Arrives
<1>8. CASE Synchronise(c)
  <2>1. /\ pc[c] = "synchronise" /\ pc' = [pc EXCEPT ![c] = "count"]
        /\ seen' = [seen EXCEPT !["caller"] = round]
        /\ UNCHANGED <<kind, state, starts, input, output, refused, taken, user, started, pause,
                       thread, count, round, observed, mapped, dirty>>
    BY <1>8 DEF Synchronise, Call, sync, ReadRound
  <2>2. Phase("synchronise")
    BY <1>p, <2>1 DEF In, Phases, Starting, Stopping, Unstarted, Meeting, Ending, Over
  <2>4. /\ pc' \in [Callers -> {"idle"} \cup Starting \cup Stopping] /\ OneCall'
        /\ \A q \in Phases : In(q)' => q = "count"
    <3>1. "synchronise" \in Starting /\ "count" \in Starting
      BY DEF Starting, Unstarted, Meeting
    <3> QED BY <1>0, <2>1, <3>1, Moves
  <2>5. Fits
    <3>1. SyncFits'
      BY <1>0, <2>1, StepWorkerAssumption DEF Types, SyncFits, Parties
    <3> QED BY <1>0, <1>b, <2>1, <2>4, <3>1, CallFits
  <2>6. Phase("count")'
    BY <2>1, <2>2, <1>0 DEF Phase, Lives, Meets, Rounds, Passed, Over, Unstarted, Meeting, Ending,
                              Types, Parties
  <2> QED BY <2>4, <2>5, <2>6, Arrives
<1>9. CASE CountCaller(c)
  <2>1. /\ pc[c] = "count"
        /\ count' = count + 1
        /\ UNCHANGED <<kind, state, starts, input, output, refused, taken, user, started, pause,
                       thread, round, seen, observed, mapped, dirty>>
    BY <1>9 DEF CountCaller, Call, sync, Count, IsLast
  <2>2. Phase("count")
    BY <1>p, <2>1 DEF In, Phases, Starting, Stopping, Unstarted, Meeting, Ending, Over
  <2>3. PICK to \in {"release", "await"} : pc' = [pc EXCEPT ![c] = to] /\ (to = "release" <=> count + 1 >= 2)
    BY <1>9 DEF CountCaller, Call, Count, IsLast
  <2>4. /\ pc' \in [Callers -> {"idle"} \cup Starting \cup Stopping] /\ OneCall'
        /\ \A q \in Phases : In(q)' => q = to
    <3>1. "count" \in Starting /\ to \in Starting
      BY <2>3 DEF Starting, Unstarted, Meeting
    <3> QED BY <1>0, <2>1, <2>3, <3>1, Moves
  <2>5. Fits
    <3>1. SyncFits'
      <4>1. count = 0 \/ count = 1
        BY <1>0, <2>2 DEF Phase, Meets, Types
      <4> QED BY <1>0, <2>1, <4>1, StepWorkerAssumption DEF Types, SyncFits
    <3> QED BY <1>0, <1>b, <2>1, <2>3, <2>4, <3>1, CallFits
  <2>6. Phase(to)'
    <3>1. kind = "sampler" /\ seen["caller"] = round /\ round < starts
      BY <1>0, <2>2 DEF Phase, Meets, Rounds, Types
    <3>2. \/ thread \in {"begin", "count"} /\ count' = 1 /\ to = "await"
          \/ thread = "await" /\ seen["thread"] = round /\ count' = 2 /\ to = "release"
      <4>1. CASE count = 0
        <5>1. thread \in {"begin", "count"}
          BY <2>2, <3>1, <4>1 DEF Phase, Meets
        <5> QED BY <2>1, <2>3, <4>1, <5>1, FirstToCount, Zenon
      <4>2. CASE count = 1
        <5>1. thread = "await" /\ seen["thread"] = round
          BY <2>2, <3>1, <4>2 DEF Phase, Meets
        <5> QED BY <2>1, <2>3, <4>2, <5>1
      <4> QED BY <2>2, <3>1, <4>1, <4>2 DEF Phase, Meets
    <3>3. Lives(to)'
      BY <2>1, <2>2, <3>2 DEF Phase, Lives, Over, Unstarted, Meeting, Ending
    <3>4. Meets(to)'
      BY <2>1, <3>1, <3>2 DEF Meets, Meeting
    <3>5. Rounds(to)'
      BY <2>1, <3>1 DEF Rounds
    <3> QED BY <3>3, <3>4, <3>5 DEF Phase
  <2> QED BY <2>4, <2>5, <2>6, Arrives
<1>10. CASE ReleaseThread(c)
  <2>1. /\ pc[c] = "release" /\ pc' = [pc EXCEPT ![c] = "end start"]
        /\ count' = 0 /\ round' = round + 1
        /\ UNCHANGED <<kind, state, starts, input, output, refused, taken, user, started, pause,
                       thread, seen, observed, mapped, dirty>>
    BY <1>10 DEF ReleaseThread, Call, sync, Release
  <2>2. Phase("release")
    BY <1>p, <2>1 DEF In, Phases, Starting, Stopping, Unstarted, Meeting, Ending, Over
  <2>4. /\ pc' \in [Callers -> {"idle"} \cup Starting \cup Stopping] /\ OneCall'
        /\ \A q \in Phases : In(q)' => q = "end start"
    <3>1. "release" \in Starting /\ "end start" \in Starting
      BY DEF Starting, Unstarted, Meeting
    <3> QED BY <1>0, <2>1, <3>1, Moves
  <2>5. Fits
    <3>1. SyncFits'
      <4>1. round < starts
        BY <2>2 DEF Phase, Rounds
      <4>2. starts \in 0 .. MaxStarts /\ seen \in [Parties -> 0 .. MaxStarts]
        BY <1>0 DEF Types
      <4>3. round + 1 \in 0 .. MaxStarts /\ round + 1 <= starts
        BY <1>0, <4>1, <4>2, StepWorkerAssumption
      <4>4. count' = 0 /\ round' = round + 1 /\ seen' = seen /\ starts' = starts
        BY <2>1
      <4>5. count' \in 0 .. 2 /\ round' \in 0 .. MaxStarts /\ round' <= starts'
        BY <4>3, <4>4
      <4> QED BY <4>2, <4>4, <4>5 DEF SyncFits
    <3> QED BY <1>0, <1>b, <2>1, <2>4, <3>1, CallFits
  <2>6. Phase("end start")'
    <3>1. thread = "await" /\ seen["thread"] = round /\ round # round + 1
      BY <1>0, <2>2 DEF Phase, Meets
    <3>2. seen'["thread"] # round' /\ thread' = "await" /\ count' = 0
      BY <2>1, <3>1
    <3> QED BY <2>1, <2>2, <3>2 DEF Phase, Lives, Meets, Rounds, Passed, Over, Unstarted, Meeting, Ending
  <2> QED BY <2>4, <2>5, <2>6, Arrives
<1>11. CASE AwaitThread(c)
  <2>1. /\ pc[c] = "await" /\ pc' = [pc EXCEPT ![c] = "end start"]
        /\ UNCHANGED <<kind, state, starts, input, output, refused, taken, user, started, pause,
                       thread, count, round, seen, observed, mapped, dirty>>
    BY <1>11 DEF AwaitThread, Call, sync, Released
  <2>7. round # seen["caller"]
    BY <1>11 DEF AwaitThread, Released
  <2>2. Phase("await")
    BY <1>p, <2>1 DEF In, Phases, Starting, Stopping, Unstarted, Meeting, Ending, Over
  <2>4. /\ pc' \in [Callers -> {"idle"} \cup Starting \cup Stopping] /\ OneCall'
        /\ \A q \in Phases : In(q)' => q = "end start"
    <3>1. "await" \in Starting /\ "end start" \in Starting
      BY DEF Starting, Unstarted, Meeting
    <3> QED BY <1>0, <2>1, <3>1, Moves
  <2>5. Fits
    <3>1. SyncFits'
      BY <1>0, <2>1, SyncKept
    <3> QED BY <1>0, <1>b, <2>1, <2>4, <3>1, CallFits
  <2>6. Phase("end start")'
    BY <2>1, <2>2, <2>7, <1>0 DEF Phase, Lives, Meets, Rounds, Passed, Over, Unstarted, Meeting, Ending,
                              Types, Parties
  <2> QED BY <2>4, <2>5, <2>6, Arrives
<1>12. CASE EndStart(c)
  <2>1. /\ pc[c] = "end start" /\ pc' = [pc EXCEPT ![c] = "idle"]
        /\ state' = "Running"
        /\ UNCHANGED <<kind, starts, input, output, refused, taken, user, started, pause, thread,
                       count, round, seen, observed, mapped, dirty>>
    BY <1>12 DEF EndStart, Call, sync
  <2>2. Phase("end start")
    BY <1>p, <2>1 DEF In, Phases, Starting, Stopping, Unstarted, Meeting, Ending, Over
  <2>4. /\ pc' \in [Callers -> {"idle"} \cup Starting \cup Stopping] /\ OneCall'
        /\ \A q \in Phases : In(q)' => q = "running"
    BY <1>0, <2>1, Moves
  <2>5. Fits
    <3>1. SyncFits'
      BY <1>0, <2>1, SyncKept
    <3> QED BY <1>0, <1>b, <2>1, <2>4, <3>1, CallFits
  <2>6. Phase("running")'
    BY <2>1, <2>2, <1>0 DEF Phase, Lives, Meets, Rounds, Passed, Over, Unstarted, Meeting, Ending,
                              Types, Parties
  <2> QED BY <2>4, <2>5, <2>6, Arrives
<1> QED BY <1>1, <1>2, <1>3, <1>4, <1>5, <1>6, <1>7, <1>8, <1>9, <1>10, <1>11, <1>12

(* A stop, until its end.                                                  *)
LEMMA StopPreservesInv ==
    ASSUME WorkerInv, NEW c \in Callers,
           \/ AcceptStop(c) \/ Unobserve(c) \/ StopWorker(c) \/ ResumeAtStop(c) \/ Join(c)
           \/ Forget(c) \/ EndStop(c)
    PROVE  WorkerInv'
<1>0. /\ Types /\ OneCall /\ Phased /\ round <= starts /\ round \in Nat /\ starts \in Nat
      /\ user = "handle" => observed
  BY StepWorkerAssumption DEF WorkerInv, Types
<1>b. started \in BOOLEAN /\ pause \in BOOLEAN /\ mapped \in BOOLEAN /\ dirty \in BOOLEAN
      /\ observed \in BOOLEAN
  BY <1>0 DEF Types
<1>p. \A p \in Phases : In(p) => Phase(p)
  BY <1>0 DEF Phased
<1> DEFINE Fits == Types' /\ round' <= starts' /\ (user' = "handle" => observed')
<1>1. CASE AcceptStop(c)
  <2>1. /\ pc[c] = "idle" /\ pc' = [pc EXCEPT ![c] = "unobserve"]
        /\ state = "Running" /\ state' = "Stopping"
        /\ UNCHANGED <<kind, starts, input, output, refused, taken, user, started, pause, thread,
                       count, round, seen, observed, mapped, dirty>>
    BY <1>1 DEF AcceptStop, Call, sync
  <2>2. Phase("running")
    BY <1>p, <2>1 DEF In, Phases
  <2>4. /\ pc' \in [Callers -> {"idle"} \cup Starting \cup Stopping] /\ OneCall'
        /\ \A q \in Phases : In(q)' => q = "unobserve"
    BY <1>0, <2>1, Moves
  <2>5. Fits
    <3>1. SyncFits'
      BY <1>0, <2>1, SyncKept
    <3> QED BY <1>0, <1>b, <2>1, <2>4, <3>1, CallFits
  <2>6. Phase("unobserve")'
    BY <2>1, <2>2, <1>0 DEF Phase, Lives, Meets, Rounds, Passed, Over, Unstarted, Meeting, Ending, Types, Parties
  <2> QED BY <2>4, <2>5, <2>6, Arrives
<1>2. CASE Unobserve(c)
  <2>1. /\ pc[c] = "unobserve" /\ pc' = [pc EXCEPT ![c] = "clear"]
        /\ observed' = FALSE /\ user = "idle"
        /\ UNCHANGED <<kind, state, starts, input, output, refused, taken, user, started, pause,
                       thread, count, round, seen, mapped, dirty>>
    BY <1>2 DEF Unobserve, Call, sync
  <2>2. Phase("unobserve")
    BY <1>p, <2>1 DEF In, Phases, Starting, Stopping, Unstarted, Meeting, Ending, Over
  <2>4. /\ pc' \in [Callers -> {"idle"} \cup Starting \cup Stopping] /\ OneCall'
        /\ \A q \in Phases : In(q)' => q = "clear"
    <3>1. "unobserve" \in Stopping /\ "clear" \in Stopping
      BY DEF Stopping, Ending, Over
    <3> QED BY <1>0, <2>1, <3>1, Moves
  <2>5. Fits
    <3>1. SyncFits'
      BY <1>0, <2>1, SyncKept
    <3> QED BY <1>0, <1>b, <2>1, <2>4, <3>1, CallFits
  <2>6. Phase("clear")'
    BY <2>1, <2>2, <1>0 DEF Phase, Lives, Meets, Rounds, Passed, Over, Unstarted, Meeting, Ending, Types, Parties
  <2> QED BY <2>4, <2>5, <2>6, Arrives
<1>3. CASE StopWorker(c)
  <2>1. /\ pc[c] = "clear"
        /\ started' = FALSE
        /\ UNCHANGED <<kind, state, starts, input, output, refused, taken, user, pause, thread, count,
                       round, seen, observed, mapped, dirty>>
    BY <1>3 DEF StopWorker, Call, sync
  <2>2. Phase("clear")
    BY <1>p, <2>1 DEF In, Phases, Starting, Stopping, Unstarted, Meeting, Ending, Over
  <2>3. PICK to \in {"resume", "forget"} : pc' = [pc EXCEPT ![c] = to] /\ (started => to = "resume")
    BY <1>3 DEF StopWorker, Call
  <2>4. /\ pc' \in [Callers -> {"idle"} \cup Starting \cup Stopping] /\ OneCall'
        /\ \A q \in Phases : In(q)' => q = to
    <3>1. "clear" \in Stopping /\ to \in Stopping
      BY <2>3 DEF Stopping, Ending, Over
    <3> QED BY <1>0, <2>1, <2>3, <3>1, Moves
  <2>5. Fits
    <3>1. SyncFits'
      BY <1>0, <2>1, SyncKept
    <3> QED BY <1>0, <1>b, <2>1, <2>4, <3>1, CallFits
  <2>6. Phase(to)'
    BY <2>1, <2>3, <2>2, <1>0 DEF Phase, Lives, Meets, Rounds, Passed, Over, Unstarted, Meeting, Ending, Types, Parties
  <2> QED BY <2>4, <2>5, <2>6, Arrives
<1>4. CASE ResumeAtStop(c)
  <2>1. /\ pc[c] = "resume" /\ pc' = [pc EXCEPT ![c] = "join"]
        /\ pause' = FALSE /\ thread' = IF thread = "asleep" THEN "gate" ELSE thread
        /\ UNCHANGED <<kind, state, starts, input, output, refused, taken, user, started, count, round,
                       seen, observed, mapped, dirty>>
    BY <1>4 DEF ResumeAtStop, Call, sync, Resume, Woken
  <2>2. Phase("resume")
    BY <1>p, <2>1 DEF In, Phases, Starting, Stopping, Unstarted, Meeting, Ending, Over
  <2>4. /\ pc' \in [Callers -> {"idle"} \cup Starting \cup Stopping] /\ OneCall'
        /\ \A q \in Phases : In(q)' => q = "join"
    <3>1. "resume" \in Stopping /\ "join" \in Stopping
      BY DEF Stopping, Ending, Over
    <3> QED BY <1>0, <2>1, <3>1, Moves
  <2>5. Fits
    <3>1. SyncFits'
      BY <1>0, <2>1, SyncKept
    <3> QED BY <1>0, <1>b, <2>1, <2>4, <3>1, CallFits
  <2>6. Phase("join")'
    BY <2>1, <2>2, <1>0 DEF Phase, Lives, Meets, Rounds, Passed, Over, Unstarted, Meeting, Ending, Types, Parties
  <2> QED BY <2>4, <2>5, <2>6, Arrives
<1>5. CASE Join(c)
  <2>1. /\ pc[c] = "join" /\ pc' = [pc EXCEPT ![c] = "forget"]
        /\ thread = "exited" /\ thread' = "none"
        /\ UNCHANGED <<kind, state, starts, input, output, refused, taken, user, started, pause, count,
                       round, seen, observed, mapped, dirty>>
    BY <1>5 DEF Join, Call, sync
  <2>2. Phase("join")
    BY <1>p, <2>1 DEF In, Phases, Starting, Stopping, Unstarted, Meeting, Ending, Over
  <2>4. /\ pc' \in [Callers -> {"idle"} \cup Starting \cup Stopping] /\ OneCall'
        /\ \A q \in Phases : In(q)' => q = "forget"
    <3>1. "join" \in Stopping /\ "forget" \in Stopping
      BY DEF Stopping, Ending, Over
    <3> QED BY <1>0, <2>1, <3>1, Moves
  <2>5. Fits
    <3>1. SyncFits'
      BY <1>0, <2>1, SyncKept
    <3> QED BY <1>0, <1>b, <2>1, <2>4, <3>1, CallFits
  <2>6. Phase("forget")'
    BY <2>1, <2>2, <1>0 DEF Phase, Lives, Meets, Rounds, Passed, Over, Unstarted, Meeting, Ending, Types, Parties
  <2> QED BY <2>4, <2>5, <2>6, Arrives
<1>6. CASE Forget(c)
  <2>1. /\ pc[c] = "forget" /\ pc' = [pc EXCEPT ![c] = "end stop"]
        /\ mapped' = FALSE /\ dirty' = FALSE
        /\ UNCHANGED <<kind, state, starts, input, output, refused, taken, user, started, pause,
                       thread, count, round, seen, observed>>
    BY <1>6 DEF Forget, Call, sync
  <2>2. Phase("forget")
    BY <1>p, <2>1 DEF In, Phases, Starting, Stopping, Unstarted, Meeting, Ending, Over
  <2>4. /\ pc' \in [Callers -> {"idle"} \cup Starting \cup Stopping] /\ OneCall'
        /\ \A q \in Phases : In(q)' => q = "end stop"
    <3>1. "forget" \in Stopping /\ "end stop" \in Stopping
      BY DEF Stopping, Ending, Over
    <3> QED BY <1>0, <2>1, <3>1, Moves
  <2>5. Fits
    <3>1. SyncFits'
      BY <1>0, <2>1, SyncKept
    <3> QED BY <1>0, <1>b, <2>1, <2>4, <3>1, CallFits
  <2>6. Phase("end stop")'
    BY <2>1, <2>2, <1>0 DEF Phase, Lives, Meets, Rounds, Passed, Over, Unstarted, Meeting, Ending, Types, Parties
  <2> QED BY <2>4, <2>5, <2>6, Arrives
<1>7. CASE EndStop(c)
  <2>1. /\ pc[c] = "end stop" /\ pc' = [pc EXCEPT ![c] = "idle"]
        /\ state' = "Stopped"
        /\ UNCHANGED <<kind, starts, input, output, refused, taken, user, started, pause, thread,
                       count, round, seen, observed, mapped, dirty>>
    BY <1>7 DEF EndStop, Call, sync
  <2>2. Phase("end stop")
    BY <1>p, <2>1 DEF In, Phases, Starting, Stopping, Unstarted, Meeting, Ending, Over
  <2>4. /\ pc' \in [Callers -> {"idle"} \cup Starting \cup Stopping] /\ OneCall'
        /\ \A q \in Phases : In(q)' => q = "stopped"
    BY <1>0, <2>1, Moves
  <2>5. Fits
    <3>1. SyncFits'
      BY <1>0, <2>1, SyncKept
    <3> QED BY <1>0, <1>b, <2>1, <2>4, <3>1, CallFits
  <2>6. Phase("stopped")'
    BY <2>1, <2>2, <1>0 DEF Phase, Lives, Meets, Rounds, Passed, Over, Unstarted, Meeting, Ending, Types, Parties
  <2> QED BY <2>4, <2>5, <2>6, Arrives
<1> QED BY <1>1, <1>2, <1>3, <1>4, <1>5, <1>6, <1>7

LEMMA StutterPreservesInv == WorkerInv /\ UNCHANGED vars => WorkerInv'
<1> SUFFICES ASSUME WorkerInv, UNCHANGED vars PROVE WorkerInv'
  OBVIOUS
<1> USE DEF vars, caller, sync, sampler, WorkerInv
<1>1. Types'
  BY DEF Types
<1>2. OneCall' /\ (user' = "handle" => observed') /\ round' <= starts'
  BY DEF OneCall
<1>3. ASSUME NEW p \in Phases PROVE (In(p)' => In(p)) /\ (Phase(p) => Phase(p)')
  BY DEF In, Phase, Lives, Meets, Rounds, Passed
<1> QED BY <1>1, <1>2, <1>3 DEF Phased

LEMMA NextPreservesInv == WorkerInv /\ [Next]_vars => WorkerInv'
<1> SUFFICES ASSUME WorkerInv, [Next]_vars PROVE WorkerInv'
  OBVIOUS
<1>1. CASE \E c \in Callers : AcceptStart(c) \/ AcceptStop(c) \/ CallStep(c)
  BY <1>1, StartPreservesInv, StopPreservesInv DEF CallStep
<1>2. CASE ThreadStep
  BY <1>2, ThreadPreservesInv
<1>3. CASE WriteChannel \/ Handle
  BY <1>3, UserPreservesInv
<1>4. CASE UNCHANGED vars
  BY <1>4, StutterPreservesInv
<1> QED BY <1>1, <1>2, <1>3, <1>4 DEF Next

(* The calls that are in an operation are counted by the state.            *)
LEMMA CallsCounted ==
    ASSUME Types, OneCall
    PROVE  Cardinality(Working) = IF state \in {"Starting", "Stopping"} THEN 1 ELSE 0
<1>1. CASE state \in {"Starting", "Stopping"}
  <2>1. PICK c \in Callers : Working = {c}
    BY <1>1 DEF OneCall, Working
  <2> QED BY <1>1, <2>1, FS_Singleton
<1>2. CASE state \notin {"Starting", "Stopping"}
  <2>1. Working = {}
    BY <1>2 DEF Types, OneCall, Working
  <2> QED BY <1>2, <2>1, FS_EmptySet
<1> QED BY <1>1, <1>2

(* However many callers start and stop the device, one at a time is in an  *)
(* operation; the worker has its thread from the start to the end of the   *)
(* stop, and a sampler runs only once its thread has met the start at the  *)
(* synchronizer.                                                           *)
THEOREM TypeCorrect == Spec => []TypeOK
<1>1. WorkerInv => TypeOK
  <2> SUFFICES ASSUME WorkerInv PROVE TypeOK
    OBVIOUS
  <2>1. Types /\ OneCall
    BY DEF WorkerInv
  <2>2. state = "Stopped" => Phase("stopped")
    BY DEF WorkerInv, Phased, In, Phases
  <2>3. state = "Running" => Phase("running")
    BY DEF WorkerInv, Phased, In, Phases
  <2>4. /\ state = "Stopped" => thread = "none" /\ ~dirty
        /\ state = "Running" => thread \notin {"none", "exited"}
        /\ state = "Running" /\ kind = "sampler" => thread \notin {"begin", "count"}
    BY <2>2, <2>3 DEF Phase, Lives, Meets, Passed, Unstarted, Meeting, Ending, Over
  <2> QED BY <2>1, <2>4, CallsCounted DEF TypeOK, Types
<1> QED BY <1>1, InitInv, NextPreservesInv, PTL DEF Spec
=============================================================================
