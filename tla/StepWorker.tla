------------------------------ MODULE StepWorker ------------------------------
(***************************************************************************)
(* A device of sihd::core that owns a sihd::util::StepWorker: a thread     *)
(* that takes a step at each period, until it is stopped, and that can be  *)
(* paused.  Two devices do.  DevPulsation's steps are beats, and what is   *)
(* written to its channel activate resumes or pauses the worker.           *)
(* DevSampler's steps copy the channels that were written since the last   *)
(* one, and its start waits for the thread at a Synchronizer of two.       *)
(*                                                                         *)
(* Several threads start and stop the device, another writes its channel.  *)
(***************************************************************************)
EXTENDS Naturals, FiniteSets

CONSTANTS Callers,   \* threads that start and stop the device
          MaxWrites, \* bound: writes of the channel that the device observes
          MaxStarts  \* bound: starts

ASSUME StepWorkerAssumption == {MaxWrites, MaxStarts} \subseteq Nat

VARIABLES kind,      \* which device: "pulsation" or "sampler"
          state,     \* of its ServiceController
          pc,        \* where each caller is
          started,   \* Worker::_started
          pause,     \* StepWorker::_pause
          thread,    \* of the worker
          count,     \* Synchronizer::_sync_count
          round,     \* Synchronizer::_total_sync_round
          seen,      \* the round that each of the two parties read
          observed,  \* whether the device observes its channel
          mapped,    \* whether DevSampler::_channels_map holds the channel
          input,     \* the value of the channel
          dirty,     \* whether DevSampler::_channels_sample_set holds the channel
          taken,     \* whether the copy of that set does, in the step
          output,    \* what was sampled last, and
          refused,   \* what the output channel refused last
          user,      \* the thread that writes the channel
          starts,
          overrun    \* steps begun since a pause, up to 2

caller  == <<state, pc, starts>>
sync    == <<count, round, seen>>
sampler == <<dirty, taken, output, refused>>
vars == <<kind, caller, started, pause, thread, sync, observed, mapped, input, sampler, user,
          overrun>>

Parties == {"caller", "thread"}

Init == /\ kind \in {"pulsation", "sampler"}
        /\ state = "Stopped" /\ pc = [c \in Callers |-> "idle"]
        /\ started = FALSE /\ pause = FALSE /\ thread = "none"
        /\ count = 0 /\ round = 0 /\ seen = [p \in Parties |-> 0]
        /\ observed = FALSE /\ mapped = FALSE /\ input = 0
        /\ dirty = FALSE /\ taken = FALSE /\ output = 0 /\ refused = 0
        /\ user = "idle" /\ starts = 0 /\ overrun = 0

-----------------------------------------------------------------------------
(* The waitable of the pause, and the synchronizer.                        *)

Activated == input % 2 = 1

Woken(t) == IF t = "asleep" THEN "gate" ELSE t

Pause == /\ pause' = TRUE
         /\ overrun' = IF pause THEN overrun ELSE 0
         /\ UNCHANGED thread

Resume == /\ pause' = FALSE
          /\ overrun' = 0
          /\ thread' = Woken(thread)

(* sync: the round is read before the count is raised.                     *)
ReadRound(p) == /\ seen' = [seen EXCEPT ![p] = round]
                /\ UNCHANGED <<count, round>>

Count(p) == /\ count' = count + 1
            /\ UNCHANGED <<round, seen>>

IsLast == count + 1 >= 2

Release == /\ count' = 0
           /\ round' = round + 1
           /\ UNCHANGED seen

Released(p) == round # seen[p]

-----------------------------------------------------------------------------
(* Start and stop, of which the controller admits one at a time.           *)

Call(c, from, to, s) ==
    /\ pc[c] = from /\ pc' = [pc EXCEPT ![c] = to]
    /\ UNCHANGED <<kind, input, output, refused, taken, user>>
    /\ UNCHANGED s

AcceptStart(c) ==
    /\ Call(c, "idle", "observe", <<started, pause, thread, sync, observed, mapped, dirty, overrun>>)
    /\ state = "Stopped" /\ starts < MaxStarts
    /\ state' = "Starting" /\ starts' = starts + 1

Observe(c) ==
    /\ Call(c, "observe", IF kind = "sampler" THEN "map" ELSE "read",
            <<state, starts, started, pause, thread, sync, mapped, dirty, overrun>>)
    /\ observed' = TRUE

MapChannel(c) ==
    /\ Call(c, "map", "spawn",
            <<state, starts, started, pause, thread, sync, observed, dirty, overrun>>)
    /\ mapped' = TRUE

ReadActivate(c) ==
    Call(c, "read", IF Activated THEN "spawn" ELSE "pause",
         <<state, starts, started, pause, thread, sync, observed, mapped, dirty, overrun>>)

PauseAtStart(c) ==
    /\ Call(c, "pause", "spawn", <<state, starts, started, sync, observed, mapped, dirty>>)
    /\ Pause

(* start_worker, and start_sync_worker for the sampler.                    *)
Synchronised == kind = "sampler"
Spawned == IF Synchronised THEN "synchronise" ELSE "end start"

StartWorker(c) ==
    /\ Call(c, "spawn", IF started THEN Spawned ELSE "store",
            <<state, starts, pause, sync, observed, mapped, dirty, overrun>>)
    /\ started' = TRUE
    /\ thread' = IF started THEN thread ELSE IF Synchronised THEN "begin" ELSE "gate"

StoreStarted(c) ==
    /\ Call(c, "store", Spawned,
            <<state, starts, pause, thread, sync, observed, mapped, dirty, overrun>>)
    /\ started' = TRUE

Synchronise(c) ==
    /\ Call(c, "synchronise", "count",
            <<state, starts, started, pause, thread, observed, mapped, dirty, overrun>>)
    /\ ReadRound("caller")

CountCaller(c) ==
    /\ Call(c, "count", IF IsLast THEN "release" ELSE "await",
            <<state, starts, started, pause, thread, observed, mapped, dirty, overrun>>)
    /\ Count("caller")

ReleaseThread(c) ==
    /\ Call(c, "release", "end start",
            <<state, starts, started, pause, thread, observed, mapped, dirty, overrun>>)
    /\ Release

AwaitThread(c) ==
    /\ Call(c, "await", "end start", <<state, starts, started, pause, thread, sync, observed,
                                       mapped, dirty, overrun>>)
    /\ Released("caller")

EndStart(c) ==
    /\ Call(c, "end start", "idle",
            <<starts, started, pause, thread, sync, observed, mapped, dirty, overrun>>)
    /\ state' = "Running"

(* Mutant: a stop is accepted whatever the state.                          *)
AcceptStop_Always(c) ==
    /\ Call(c, "idle", "unobserve",
            <<starts, started, pause, thread, sync, observed, mapped, dirty, overrun>>)
    /\ state \in {"Running", "Starting"}
    /\ state' = "Stopping"

AcceptStop(c) ==
    /\ Call(c, "idle", "unobserve",
            <<starts, started, pause, thread, sync, observed, mapped, dirty, overrun>>)
    /\ state = "Running"
    /\ state' = "Stopping"

(* Mutant: the observation is left as it is.                               *)
Unobserve_Not(c) ==
    Call(c, "unobserve", "clear",
         <<state, starts, started, pause, thread, sync, mapped, dirty, overrun, observed>>)

(* remove_channels_observation, which waits for the handler.               *)
Unobserve(c) ==
    /\ Call(c, "unobserve", "clear",
            <<state, starts, started, pause, thread, sync, mapped, dirty, overrun>>)
    /\ user = "idle"
    /\ observed' = FALSE

(* stop_worker's exchange.                                                 *)
StopWorker(c) ==
    /\ Call(c, "clear", IF started THEN "resume" ELSE "forget",
            <<state, starts, pause, thread, sync, observed, mapped, dirty, overrun>>)
    /\ started' = FALSE

ResumeAtStop(c) ==
    /\ Call(c, "resume", "join", <<state, starts, started, sync, observed, mapped, dirty>>)
    /\ Resume

Join(c) ==
    /\ Call(c, "join", "forget",
            <<state, starts, started, pause, sync, observed, mapped, dirty, overrun>>)
    /\ thread = "exited"
    /\ thread' = "none"

(* The sampler's on_stop clears its map and its set.                       *)
Forget(c) ==
    /\ Call(c, "forget", "end stop",
            <<state, starts, started, pause, thread, sync, observed, overrun>>)
    /\ mapped' = FALSE /\ dirty' = FALSE

EndStop(c) ==
    /\ Call(c, "end stop", "idle",
            <<starts, started, pause, thread, sync, observed, mapped, dirty, overrun>>)
    /\ state' = "Stopped"

-----------------------------------------------------------------------------
(* The thread: pre_run and StepWorker::run, with a step of the device.     *)

Thread(from, to, s) ==
    /\ thread = from /\ thread' = to
    /\ UNCHANGED <<kind, caller, started, pause, observed, mapped, input, user>>
    /\ UNCHANGED s

Begin == /\ Thread("begin", "count", <<sampler, overrun>>)
         /\ ReadRound("thread")

CountThread == /\ Thread("count", IF IsLast THEN "release" ELSE "await", <<sampler, overrun>>)
               /\ Count("thread")

ReleaseCaller == /\ Thread("release", "gate", <<sampler, overrun>>)
                 /\ Release

AwaitCaller == /\ Thread("await", "gate", <<sync, sampler, overrun>>)
               /\ Released("thread")

Gate == Thread("gate", IF pause THEN "asleep" ELSE "test", <<sync, sampler, overrun>>)

(* Mutant: the thread does not wait for the end of the pause after a nap.  *)
Nap_NoGate == Thread("nap", "test", <<sync, sampler, overrun>>)

TestStarted ==
    /\ Thread("test", IF started THEN "step" ELSE "exited", <<sync, sampler>>)
    /\ overrun' = IF started /\ pause /\ overrun < 2 THEN overrun + 1 ELSE overrun

(* A step of the pulsation writes its beat, of the sampler copies the set. *)
TakeSamples == /\ Thread("step", "copy", <<sync, overrun, output, refused>>)
               /\ taken' = dirty
               /\ dirty' = FALSE

(* The write of a sample is refused while the output channel is written or *)
(* notified by another thread, or when it is too small: nothing is tried   *)
(* again.                                                                  *)
Copied == IF taken
          THEN \/ output' = input /\ UNCHANGED refused
               \/ refused' = input /\ UNCHANGED output
          ELSE UNCHANGED <<output, refused>>

(* Mutant: the set is cleared once its channels have been copied.          *)
CopySamples_Clears == /\ Thread("copy", "nap", <<sync, overrun>>)
                      /\ Copied
                      /\ dirty' = FALSE
                      /\ taken' = FALSE

CopySamples == /\ Thread("copy", "nap", <<sync, overrun, dirty>>)
               /\ Copied
               /\ taken' = FALSE

(* The sleep between two steps, which a stop or a resume may cut short.    *)
Nap == Thread("nap", "gate", <<sync, sampler, overrun>>)

-----------------------------------------------------------------------------
(* The thread that writes the channel and runs the device's handler.       *)

User(from, to, s) ==
    /\ user = from /\ user' = to
    /\ UNCHANGED <<kind, caller, started, sync, observed, mapped, output, refused, taken>>
    /\ UNCHANGED s

WriteChannel == /\ User("idle", IF observed THEN "handle" ELSE "idle",
                        <<thread, pause, dirty, overrun>>)
                /\ input < MaxWrites
                /\ input' = input + 1

HandleActivate == /\ User("handle", "idle", <<input, dirty>>)
                  /\ kind = "pulsation"
                  /\ IF Activated THEN Resume ELSE Pause

HandleSample == /\ User("handle", "idle", <<input, thread, pause, overrun>>)
                /\ kind = "sampler"
                /\ dirty' = (dirty \/ mapped)

-----------------------------------------------------------------------------
CallStep(c) ==
    \/ Observe(c) \/ MapChannel(c) \/ ReadActivate(c) \/ PauseAtStart(c) \/ StartWorker(c)
    \/ StoreStarted(c) \/ Synchronise(c) \/ CountCaller(c) \/ ReleaseThread(c) \/ AwaitThread(c)
    \/ EndStart(c) \/ Unobserve(c) \/ StopWorker(c) \/ ResumeAtStop(c) \/ Join(c) \/ Forget(c)
    \/ EndStop(c)
ThreadStep == \/ Begin \/ CountThread \/ ReleaseCaller \/ AwaitCaller \/ Gate \/ TestStarted
              \/ TakeSamples \/ CopySamples \/ Nap
Handle == HandleActivate \/ HandleSample

Next == \/ \E c \in Callers : AcceptStart(c) \/ AcceptStop(c) \/ CallStep(c)
        \/ ThreadStep \/ WriteChannel \/ Handle

(* Threads that are in an operation go on.                                 *)
Spec == /\ Init /\ [][Next]_vars
        /\ \A c \in Callers : WF_vars(CallStep(c))
        /\ WF_vars(ThreadStep) /\ WF_vars(Handle)

-----------------------------------------------------------------------------
Working == {c \in Callers : pc[c] # "idle"}

(* With the types, that one caller at a time is in an operation, that      *)
(* there is a thread exactly from a start to the end of the stop, and that *)
(* a sampler runs only once its thread has passed the synchronizer.        *)
TypeOK ==
    /\ kind \in {"pulsation", "sampler"}
    /\ state \in {"Stopped", "Starting", "Running", "Stopping"}
    /\ thread \in {"none", "begin", "count", "release", "await", "gate", "asleep", "test", "step",
                   "copy", "nap", "exited"}
    /\ {started, pause, observed, mapped, dirty, taken} \subseteq BOOLEAN
    /\ count \in 0 .. 2 /\ round \in 0 .. MaxStarts /\ seen \in [Parties -> 0 .. MaxStarts]
    /\ {input, output, refused} \subseteq 0 .. MaxWrites
    /\ user \in {"idle", "handle"} /\ starts \in 0 .. MaxStarts
    /\ Cardinality(Working) = IF state \in {"Starting", "Stopping"} THEN 1 ELSE 0
    /\ state = "Stopped" => thread = "none" /\ ~dirty
    /\ state = "Running" => thread \notin {"none", "exited"}
    /\ state = "Running" /\ kind = "sampler" => thread \notin {"begin", "count"}

(* Once pause_worker has returned the thread begins at most the one step   *)
(* for which it had already passed its wait.                               *)
OneStepAfterPause == overrun < 2

(* Start and stop return, wherever the thread is: before the synchronizer, *)
(* paused, in a step or asleep; whatever is written to the channel.        *)
CallsReturn == \A c \in Callers : pc[c] # "idle" ~> pc[c] = "idle"

(* A write that a running sampler is told of is written to the output,     *)
(* which takes it or refuses it, unless the sampler is stopped: none falls *)
(* between two steps.                                                      *)
Sampled == kind = "sampler" /\ user = "handle" /\ state = "Running"
               ~> input \in {output, refused} \/ state # "Running"
=============================================================================
