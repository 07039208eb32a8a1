----------------------------- MODULE Scheduler -----------------------------
(***************************************************************************)
(* sihd::util::Scheduler: one worker thread that sleeps until the first    *)
(* task of a multimap is due, plays it outside the lock, and puts it back  *)
(* or deletes it; clients that add, remove, clear, pause and resume from   *)
(* other threads; and an owner that starts and stops it.                   *)
(*                                                                         *)
(* A critical section of _waitable_task or _waitable_pause is one step,    *)
(* and so is what the worker does between two of them.  Time is a natural  *)
(* number that passes between any two steps; it starts at 1 because the    *)
(* code gives the timestamp 0 the meaning "not set".                       *)
(***************************************************************************)
EXTENDS Naturals, SequencesExt

CONSTANTS Tasks,
          NoTask,
          RunAt,       \* Task::run_at as the client sets it, 0 when not set
          RunIn,       \* Task::run_in, 0 when not set
          Period,      \* Task::reschedule_time, 0 when not set
          Preplay,     \* acceptable_task_preplay_ns_time
          Removable,   \* the tasks a client may call remove_task on
          Clears,      \* whether a client calls clear_tasks
          MaxTime,     \* bound: time stops there, or when the worker's sleep ends
          MaxStarts    \* bound: how many times the owner starts the scheduler

ASSUME SchedulerAssumption ==
    /\ NoTask \notin Tasks /\ Removable \subseteq Tasks /\ Clears \in BOOLEAN
    /\ RunAt \in [Tasks -> Nat] /\ RunIn \in [Tasks -> Nat] /\ Period \in [Tasks -> Nat]
    /\ \A t \in Tasks : RunAt[t] = 0 \/ RunIn[t] = 0     \* thrown by Task::Task
    /\ Preplay \in Nat /\ MaxTime \in Nat /\ MaxStarts \in Nat

VARIABLES now,            \* _clock_ptr->now()
          noDelay,        \* _no_delay
          runAt,          \* Task::run_at
          tasksToAdd,     \* _tasks_to_add
          taskMap,        \* _task_map, in the order of its iteration
          trash,          \* _trash_task_list
          deleted,        \* tasks whose memory was released
          free,           \* tasks that belong to the clients
          nextRun,        \* _next_run
          paused,         \* _paused
          pausedTimeAt,   \* _paused_time_at
          beginRun,       \* _begin_run
          prepared,       \* _tasks_prepared
          stopRequested,  \* stop_requested
          pc,             \* where the worker is
          asleep,         \* the worker is blocked on a condition variable
          deadline,       \* until when _wait_for_next_task sleeps, 0 outside of it
          current,        \* the task the worker took, with ...
          readNow,        \* ... the time it read before taking it
          owner,          \* where the owner is in start and stop
          starts          \* how many times it started the scheduler

(* What the clients were promised and got, kept beside the code's state.   *)
VARIABLES owed,           \* unpaused time left before a run_in task may run, until it is taken
          sincePause      \* tasks taken since the last pause, while paused

taskVars  == <<runAt, tasksToAdd, taskMap, trash, deleted, free, nextRun>>
pauseVars == <<paused, pausedTimeAt, sincePause>>
runVars   == <<beginRun, prepared, stopRequested, owner, starts>>
workVars  == <<pc, asleep, deadline, current, readNow>>
vars == <<now, noDelay, taskVars, pauseVars, runVars, workVars, owed>>

Init == /\ now = 1
        /\ noDelay \in BOOLEAN
        /\ runAt = RunAt
        /\ tasksToAdd = << >> /\ taskMap = << >> /\ trash = << >>
        /\ deleted = {}
        /\ free = Tasks
        /\ nextRun = 0
        /\ paused = FALSE /\ pausedTimeAt = 0
        /\ beginRun = 0 /\ prepared = FALSE
        /\ stopRequested = FALSE
        /\ pc = "none" /\ asleep = FALSE
        /\ deadline = 0 /\ current = NoTask /\ readNow = 0
        /\ owner = "stopped" /\ starts = 0
        /\ owed = [t \in Tasks |-> 0]
        /\ sincePause = 0

(* A multimap iterates in the order of the times, and in the order of the  *)
(* emplaces between equal ones: the one at j comes after those before it.  *)
IsBefore(s, at, i, j) == at[s[i]] < at[s[j]] \/ (at[s[i]] = at[s[j]] /\ i < j)
Rank(s, at, j)        == Cardinality({i \in DOMAIN s : IsBefore(s, at, i, j)}) + 1
ByTime(s, at)         == [k \in DOMAIN s |-> s[CHOOSE j \in DOMAIN s : Rank(s, at, j) = k]]

Emplace(map, at, t)        == ByTime(Append(map, t), at)
EmplaceAll(map, at, tasks) == ByTime(map \o tasks, at)

(* container::find and erase.                                              *)
Without(s, t) == IF Contains(s, t) THEN RemoveAt(s, CHOOSE i \in DOMAIN s : s[i] = t) ELSE s

FirstTime(map, at, default) == IF map = << >> THEN default ELSE at[Head(map)]

(* _waitable_task.notify and _waitable_pause.notify: the worker is the     *)
(* only thread that waits on either.                                       *)
(* Mutant: the notification is forgotten.                                  *)
NotifyTask_Missing == UNCHANGED asleep

NotifyTask  == asleep' = (asleep /\ pc \notin {"waitTask", "sleep"})
NotifyPause == asleep' = (asleep /\ pc # "waitPause")

-----------------------------------------------------------------------------
(* The clients.                                                            *)

Running == owner = "started" /\ pc # "begin"

AddTask(t) ==
    /\ t \in free
    /\ free' = free \ {t}
    /\ \/ /\ prepared
          /\ runAt' = IF RunIn[t] > 0 THEN [runAt EXCEPT ![t] = now + RunIn[t]] ELSE runAt
          /\ taskMap' = Emplace(taskMap, runAt', t)
          /\ nextRun' = runAt'[Head(taskMap')]
          /\ owed' = [owed EXCEPT ![t] = IF Running THEN RunIn[t] ELSE 0]
          /\ NotifyTask
          /\ UNCHANGED tasksToAdd
       \/ /\ ~prepared
          /\ tasksToAdd' = Append(tasksToAdd, t)
          /\ UNCHANGED <<runAt, taskMap, nextRun, owed, asleep>>
    /\ UNCHANGED <<now, noDelay, trash, deleted, pauseVars, runVars, pc, deadline, current,
                   readNow>>

(* The task is the caller's again when remove_task found it.               *)
RemoveTask(t) ==
    /\ t \in Removable \ free
    /\ LET found == t \in ToSet(tasksToAdd) \cup ToSet(taskMap) IN
         /\ tasksToAdd' = Without(tasksToAdd, t)
         /\ taskMap' = Without(taskMap, t)
         /\ nextRun' = IF t \in ToSet(taskMap) THEN FirstTime(taskMap', runAt, nextRun)
                       ELSE nextRun
         /\ free' = IF found THEN free \cup {t} ELSE free
    /\ NotifyTask
    /\ UNCHANGED <<now, noDelay, runAt, trash, deleted, pauseVars, runVars, pc, deadline,
                   current, readNow, owed>>

ClearTasks ==
    /\ Clears
    /\ deleted' = deleted \cup ToSet(trash) \cup ToSet(tasksToAdd) \cup ToSet(taskMap)
    /\ trash' = << >> /\ tasksToAdd' = << >> /\ taskMap' = << >>
    /\ NotifyTask
    /\ UNCHANGED <<now, noDelay, runAt, free, nextRun, pauseVars, runVars, pc, deadline,
                   current, readNow, owed>>

(* Bound: no pause begins once time has reached MaxTime.                   *)
Pause == /\ ~paused /\ now < MaxTime
         /\ paused' = TRUE
         /\ pausedTimeAt' = now
         /\ sincePause' = 0
         /\ UNCHANGED <<now, noDelay, taskVars, runVars, workVars, owed>>

(* Mutant: the subtraction is the wrong way round.                         *)
PausedTime_Swapped == (IF beginRun > pausedTimeAt THEN beginRun ELSE pausedTimeAt) - now

PausedTime == now - (IF beginRun > pausedTimeAt THEN beginRun ELSE pausedTimeAt)

(* Mutant: the tasks are not put off.                                      *)
ResumeTasks_KeepsTimes == pausedTimeAt' = 0 /\ UNCHANGED <<runAt, taskMap, nextRun>>

(* _resume_tasks: the tasks that have a run_in are put off by the time the *)
(* pause lasted, and the map is built again.                               *)
ResumeTasks ==
    \/ /\ prepared
       /\ pausedTimeAt' = 0
       /\ runAt' = [t \in Tasks |-> IF t \in ToSet(taskMap) /\ RunIn[t] > 0
                                    THEN runAt[t] + PausedTime ELSE runAt[t]]
       /\ taskMap' = EmplaceAll(<< >>, runAt', taskMap)
       /\ nextRun' = FirstTime(taskMap', runAt', nextRun)
    \/ /\ ~prepared
       /\ UNCHANGED <<pausedTimeAt, runAt, taskMap, nextRun>>

Resume == /\ paused
          /\ ResumeTasks
          /\ paused' = FALSE
          /\ sincePause' = 0
          /\ NotifyPause
          /\ UNCHANGED <<now, noDelay, tasksToAdd, trash, deleted, free, runVars, pc, deadline,
                         current, readNow, owed>>

Client == \/ \E t \in Tasks : AddTask(t) \/ RemoveTask(t)
          \/ ClearTasks \/ Pause \/ Resume

-----------------------------------------------------------------------------
(* start and stop (AWorkerService::on_start and on_stop, on_work_stop).    *)

Start == /\ owner = "stopped" /\ starts < MaxStarts
         /\ starts' = starts + 1
         /\ stopRequested' = FALSE
         /\ owner' = "started"
         /\ pc' = "begin"
         /\ UNCHANGED <<now, noDelay, taskVars, pauseVars, beginRun, prepared, asleep, deadline,
                        current, readNow, owed>>

RequestStop == /\ owner = "started"
               /\ stopRequested' = TRUE
               /\ owner' = "unpause"
               /\ UNCHANGED <<now, noDelay, taskVars, pauseVars, beginRun, prepared, starts,
                              workVars, owed>>

(* A pause that a stop ends puts no task off: what was owed is forgotten.  *)
StopPause == /\ owner = "unpause"
             /\ paused' = FALSE
             /\ sincePause' = 0
             /\ NotifyPause
             /\ owed' = [t \in Tasks |-> 0]
             /\ owner' = "wake"
             /\ UNCHANGED <<now, noDelay, taskVars, pausedTimeAt, beginRun, prepared,
                            stopRequested, starts, pc, deadline, current, readNow>>

StopWait == /\ owner = "wake"
            /\ beginRun' = 0
            /\ NotifyTask
            /\ owner' = "join"
            /\ UNCHANGED <<now, noDelay, taskVars, pauseVars, prepared, stopRequested, starts,
                           pc, deadline, current, readNow, owed>>

Join == /\ owner = "join" /\ pc = "exited"
        /\ owner' = "stopped"
        /\ UNCHANGED <<now, noDelay, taskVars, pauseVars, beginRun, prepared, stopRequested,
                       starts, workVars, owed>>

EndStop == StopPause \/ StopWait \/ Join
-----------------------------------------------------------------------------
(* The worker: on_work_start.                                              *)

BeginRun == /\ pc = "begin"
            /\ beginRun' = now
            /\ pc' = "prepare"
            /\ UNCHANGED <<now, noDelay, taskVars, pauseVars, prepared, stopRequested, owner,
                           starts, asleep, deadline, current, readNow, owed>>

PrepareTasks ==
    /\ pc = "prepare"
    /\ runAt' = [t \in Tasks |-> IF t \in ToSet(tasksToAdd) /\ RunIn[t] > 0
                                 THEN beginRun + RunIn[t] ELSE runAt[t]]
    /\ owed' = [t \in Tasks |->
                 IF Running /\ t \in ToSet(tasksToAdd) /\ RunIn[t] > 0 /\ runAt'[t] > now
                 THEN runAt'[t] - now ELSE owed[t]]
    /\ taskMap' = EmplaceAll(taskMap, runAt', tasksToAdd)
    /\ nextRun' = FirstTime(taskMap', runAt', nextRun)
    /\ tasksToAdd' = << >>
    /\ prepared' = TRUE
    /\ pc' = "loop"
    /\ UNCHANGED <<now, noDelay, trash, deleted, free, pauseVars, beginRun, stopRequested, owner,
                   starts, asleep, deadline, current, readNow>>

CheckStop == /\ pc = "loop"
             /\ pc' = IF stopRequested THEN "exited" ELSE "waitPause"
             /\ UNCHANGED <<now, noDelay, taskVars, pauseVars, runVars, asleep, deadline, current,
                            readNow, owed>>

(* Mutant: _paused is read once.                                           *)
Unpaused_Hoisted == TRUE

(* _paused == false, which the worker reads at two places.                 *)
Unpaused == ~paused

(* _wait_for_next_task: three waits, each with its predicate.              *)
WaitPause == /\ pc = "waitPause" /\ ~asleep
             /\ IF stopRequested \/ Unpaused
                THEN pc' = "waitTask" /\ UNCHANGED asleep
                ELSE asleep' = TRUE /\ UNCHANGED pc
             /\ UNCHANGED <<now, noDelay, taskVars, pauseVars, runVars, deadline, current,
                            readNow, owed>>

(* Mutant: the predicate does not look at stop_requested.                  *)
WaitTask_IgnoresStop == /\ pc = "waitTask" /\ ~asleep
                        /\ IF taskMap # << >>
                           THEN pc' = (IF noDelay THEN "check" ELSE "delay") /\ UNCHANGED asleep
                           ELSE asleep' = TRUE /\ UNCHANGED pc
                        /\ UNCHANGED <<now, noDelay, taskVars, pauseVars, runVars, deadline,
                                       current, readNow, owed>>

WaitTask == /\ pc = "waitTask" /\ ~asleep
            /\ IF stopRequested \/ taskMap # << >>
               THEN pc' = (IF noDelay THEN "check" ELSE "delay") /\ UNCHANGED asleep
               ELSE asleep' = TRUE /\ UNCHANGED pc
            /\ UNCHANGED <<now, noDelay, taskVars, pauseVars, runVars, deadline, current,
                           readNow, owed>>

(* The timeout is computed once, from a _next_run read without the lock.   *)
ComputeDelay == /\ pc = "delay"
                /\ deadline' = nextRun
                /\ pc' = "sleep"
                /\ UNCHANGED <<now, noDelay, taskVars, pauseVars, runVars, asleep, current,
                               readNow, owed>>

FallAsleep == /\ pc = "sleep" /\ ~asleep
              /\ ~stopRequested /\ now < deadline
              /\ asleep' = TRUE
              /\ UNCHANGED <<now, noDelay, taskVars, pauseVars, runVars, pc, deadline, current,
                             readNow, owed>>

SleepEnds == /\ pc = "sleep"
             /\ (stopRequested /\ ~asleep) \/ now >= deadline
             /\ pc' = "check" /\ asleep' = FALSE /\ deadline' = 0
             /\ UNCHANGED <<now, noDelay, taskVars, pauseVars, runVars, current,
                            readNow, owed>>

CheckRun == /\ pc = "check"
            /\ pc' = IF ~stopRequested /\ Unpaused THEN "clock" ELSE "loop"
            /\ UNCHANGED <<now, noDelay, taskVars, pauseVars, runVars, asleep, deadline, current,
                           readNow, owed>>

(* The clock is read after the check: a pause may begin in between.        *)
ReadClock == /\ pc = "clock"
             /\ readNow' = now
             /\ pc' = "get"
             /\ UNCHANGED <<now, noDelay, taskVars, pauseVars, runVars, asleep, deadline, current,
                            owed>>

Playable(t) == noDelay \/ runAt[t] <= readNow + Preplay

(* _get_playable_task reads the first element of the map.  When a client   *)
(* has emptied the map since WaitTask there is none: undefined behaviour,  *)
(* after which nothing is said of the program.                             *)
TakeTask == /\ pc = "get" /\ taskMap # << >>
            /\ Playable(Head(taskMap))
            /\ current' = Head(taskMap)
            /\ taskMap' = Tail(taskMap)
            /\ sincePause' = IF paused THEN sincePause + 1 ELSE 0
            /\ owed' = [owed EXCEPT ![Head(taskMap)] = 0]
            /\ pc' = "play"
            /\ UNCHANGED <<now, noDelay, runAt, tasksToAdd, trash, deleted, free, nextRun, paused,
                           pausedTimeAt, runVars, asleep, deadline, readNow>>

TooEarly == /\ pc = "get" /\ taskMap # << >>
            /\ ~Playable(Head(taskMap))
            /\ pc' = "clean" /\ readNow' = 0
            /\ UNCHANGED <<now, noDelay, taskVars, pauseVars, runVars, asleep, deadline,
                           current, owed>>

ReadEmptyMap == /\ pc = "get" /\ taskMap = << >>
                /\ pc' = "undefined"
                /\ UNCHANGED <<now, noDelay, taskVars, pauseVars, runVars, asleep, deadline,
                               current, readNow, owed>>

(* Bound: a task that is due after MaxTime runs until the stop.            *)
LastTask == pc = "play" /\ runAt[current] > MaxTime

RunTask == /\ pc = "play"
           /\ ~LastTask \/ stopRequested
           /\ pc' = "played"
           /\ UNCHANGED <<now, noDelay, taskVars, pauseVars, runVars, asleep, deadline, current,
                          readNow, owed>>

Reschedule ==
    /\ pc = "played" /\ Period[current] > 0
    /\ runAt' = [runAt EXCEPT ![current] = (IF @ = 0 THEN readNow ELSE @) + Period[current]]
    /\ taskMap' = Emplace(taskMap, runAt', current)
    /\ nextRun' = runAt'[Head(taskMap')]
    /\ current' = NoTask /\ readNow' = 0
    /\ pc' = "clean"
    /\ UNCHANGED <<now, noDelay, tasksToAdd, trash, deleted, free, pauseVars, runVars, asleep,
                   deadline, owed>>

TrashTask == /\ pc = "played" /\ Period[current] = 0
             /\ trash' = Append(trash, current)
             /\ current' = NoTask /\ readNow' = 0
             /\ pc' = "clean"
             /\ UNCHANGED <<now, noDelay, runAt, tasksToAdd, taskMap, deleted, free, nextRun,
                            pauseVars, runVars, asleep, deadline, owed>>

(* Mutant: the list is not cleared.                                        *)
DeleteTrashed_KeepsList == /\ pc = "clean"
                           /\ deleted' = deleted \cup ToSet(trash)
                           /\ pc' = "loop"
                           /\ UNCHANGED <<now, noDelay, runAt, tasksToAdd, taskMap, free, trash,
                                          nextRun, pauseVars, runVars, asleep, deadline, current,
                                          readNow, owed>>

DeleteTrashed == /\ pc = "clean"
                 /\ deleted' = deleted \cup ToSet(trash)
                 /\ trash' = << >>
                 /\ pc' = "loop"
                 /\ UNCHANGED <<now, noDelay, runAt, tasksToAdd, taskMap, free, nextRun,
                                pauseVars, runVars, asleep, deadline, current, readNow, owed>>

Worker == \/ BeginRun \/ PrepareTasks \/ CheckStop \/ WaitPause \/ WaitTask \/ ComputeDelay
          \/ FallAsleep \/ SleepEnds \/ CheckRun \/ ReadClock \/ TakeTask \/ TooEarly \/ ReadEmptyMap
          \/ RunTask \/ Reschedule \/ TrashTask \/ DeleteTrashed

(* Bound: time stops at MaxTime, but for a pause, which lasts at least one *)
(* unit, and for a sleep, which ends.                                      *)
Tick == /\ now < MaxTime \/ (paused /\ now = MaxTime) \/ (asleep /\ now < deadline)
        /\ now' = now + 1
        /\ owed' = [t \in Tasks |-> IF paused \/ owed[t] = 0 THEN owed[t] ELSE owed[t] - 1]
        /\ UNCHANGED <<noDelay, taskVars, pauseVars, runVars, workVars>>

Next == Client \/ Start \/ RequestStop \/ EndStop \/ Worker \/ Tick

(* The worker is a thread; time passes; a stop once begun goes on.  What   *)
(* the clients and the owner do of their own accord is not fair.           *)
Spec == Init /\ [][Next]_vars /\ WF_vars(Worker) /\ WF_vars(EndStop) /\ WF_vars(Tick)

-----------------------------------------------------------------------------
TypeOK ==
    /\ now \in Nat /\ noDelay \in BOOLEAN
    /\ runAt \in [Tasks -> Nat]
    /\ tasksToAdd \in Seq(Tasks) /\ taskMap \in Seq(Tasks) /\ trash \in Seq(Tasks)
    /\ deleted \subseteq Tasks /\ free \subseteq Tasks
    /\ nextRun \in Nat /\ pausedTimeAt \in Nat /\ beginRun \in Nat /\ deadline \in Nat
    /\ paused \in BOOLEAN /\ prepared \in BOOLEAN /\ stopRequested \in BOOLEAN
    /\ pc \in {"none", "begin", "prepare", "loop", "waitPause", "waitTask", "delay", "sleep",
               "check", "clock", "get", "play", "played", "clean", "exited", "undefined"}
    /\ asleep \in BOOLEAN /\ current \in Tasks \cup {NoTask} /\ readNow \in Nat
    /\ owner \in {"stopped", "started", "unpause", "wake", "join"} /\ starts \in 0 .. MaxStarts
    /\ owed \in [Tasks -> Nat] /\ sincePause \in Nat

(* A task belongs to one place at a time: a client, the list of tasks to   *)
(* prepare, the map, the worker, the trash, or the freed memory.  Were it  *)
(* in two of them it would be played after its deletion, or deleted twice. *)
Places == << free, ToSet(tasksToAdd), ToSet(taskMap), {current} \ {NoTask}, ToSet(trash),
             deleted >>

OnePlace == /\ \A t \in Tasks : \E i \in 1 .. 6 : t \in Places[i]
            /\ \A i, j \in 1 .. 6 : i # j => Places[i] \cap Places[j] = {}
            /\ IsInjective(tasksToAdd) /\ IsInjective(taskMap) /\ IsInjective(trash)

(* "If a task has a run_at set, it will be played at this exact time": it  *)
(* is taken no earlier than that, but for the preplay.  "If a task has a   *)
(* run_in set, it will be played relative to the scheduler's unpaused run  *)
(* time": that much time has passed outside of the pauses, but for the     *)
(* preplay, and for what has passed of a pause that began between the last *)
(* look at _paused and that at the clock.                                  *)
PauseCounted == IF paused /\ readNow > pausedTimeAt THEN readNow - pausedTimeAt ELSE 0

NeverEarly ==
    [][pc = "get" /\ pc' = "play" /\ ~noDelay => /\ runAt[current'] <= now + Preplay
                                               /\ owed[current'] <= Preplay + PauseCounted]_vars

(* pause does not wait for the worker: a task that it is about to take is  *)
(* still played, but no second one is until the scheduler is resumed.      *)
PauseHolds == sincePause <= 1

(* stop returns: no wait of the worker misses the stop.                    *)
StopReturns == owner = "unpause" ~> owner = "stopped" \/ pc = "undefined"

(* A task of the map is played once its time has come, unless the clients  *)
(* take it back or the scheduler is paused, stopped or destroyed.          *)
Waiting(t) == t \in ToSet(taskMap) /\ owner = "started" /\ ~paused /\ ~noDelay
              /\ runAt[t] <= MaxTime
TaskPlayed == \A t \in Tasks :
                Waiting(t) ~> \/ current = t \/ t \in free \cup deleted
                              \/ paused \/ stopRequested \/ pc = "undefined" \/ LastTask

(* "wait for new task if empty", then take the most urgent one: when the   *)
(* worker comes to take a task there is one.                               *)
TaskToTake == pc # "undefined"
=============================================================================
