------------------------------- MODULE DevPlayer -------------------------------
(***************************************************************************)
(* sihd::core::DevPlayer plays the records of a provider (a MemRecorder)   *)
(* at the times they were recorded.  Its worker collects records: it       *)
(* pushes each on a queue, waits until the queue has room, and adds a task *)
(* to a scheduler.  The scheduler's thread runs the tasks, and each of     *)
(* them plays whatever record is first in the queue.  The channel play     *)
(* pauses and resumes the scheduler, the channel end tells that the last   *)
(* record has been played.  Provider and player are children of one        *)
(* device, the provider first.                                             *)
(*                                                                         *)
(* Records are numbered in the order of their times, so a task is due when *)
(* the scheduler takes it: of times there is nothing left but that order.  *)
(***************************************************************************)
EXTENDS Naturals, Sequences

CONSTANTS Records,        \* records of the provider
          Limit,          \* _records_queue_limit
          EndsWhenEmpty,  \* MemRecorder::_stop_providing_when_empty
          MaxPlays,       \* bound: writes of the channel play
          MaxStarts       \* bound: starts

ASSUME DevPlayerAssumption ==
    /\ {Records, Limit, MaxPlays, MaxStarts} \subseteq Nat
    /\ EndsWhenEmpty \in BOOLEAN

VARIABLES given,      \* records the provider has given
          providing,  \* MemRecorder::_providing
          queue,      \* _safe_queue
          tasks,      \* tasks in the scheduler
          played,     \* records written to their channels
          last,       \* _last_record
          notified,   \* _end_notified
          end,        \* the channel end
          play,       \* the channel play
          paused,     \* Scheduler::_paused
          running,    \* DevPlayer::_running
          worker,     \* the thread of _main_loop
          sched,      \* the thread of the scheduler
          inHand,     \* the record that it plays, 0 for none
          ctl,        \* the thread that starts, stops and resets
          user,       \* the thread that writes play
          plays, starts,
          again       \* starts since the last reset, but for the first one

records == <<given, queue, tasks, played, inHand>>
vars == <<records, providing, last, notified, end, play, paused, running, worker, sched, ctl,
          user, plays, starts, again>>

Init == /\ given = 0 /\ providing = FALSE /\ queue = <<>> /\ tasks = 0 /\ played = 0
        /\ last = FALSE /\ notified = FALSE /\ end = FALSE /\ play = FALSE /\ paused = TRUE
        /\ running = FALSE /\ inHand = 0 /\ plays = 0 /\ starts = 0 /\ again = 0
        /\ worker = "off" /\ sched = "off" /\ ctl = "initialised" /\ user = "idle"

-----------------------------------------------------------------------------
(* _main_loop, with the collector and its handler.                         *)

Worker(from, to, s) ==
    /\ worker = from /\ worker' = to
    /\ UNCHANGED <<played, play, paused, running, inHand, sched, ctl, user, plays, starts, again>>
    /\ UNCHANGED s

BeginLoop == /\ Worker("begin", "collect", <<given, queue, tasks, providing, end>>)
             /\ last' = FALSE /\ notified' = FALSE

(* MemRecorder::provide, and the first half of handle.                     *)
Collect == /\ Worker("collect", "room", <<tasks, last, notified, end>>)
           /\ providing /\ given < Records
           /\ given' = given + 1
           /\ queue' = Append(queue, given + 1)
           /\ providing' = ~(EndsWhenEmpty /\ given + 1 = Records)

(* Mutant: off by one.                                                     *)
Room_OneMore == ~running \/ Len(queue) <= Limit + 1

(* The wait for room, which run and on_stop notify.                        *)
Room == ~running \/ Len(queue) <= Limit

TestRoom == Worker("room", IF ~Room THEN "asleep" ELSE IF running THEN "add" ELSE "collect",
                   <<given, queue, tasks, providing, last, notified, end>>)

AddTask == /\ Worker("add", "collect", <<given, queue, providing, last, notified, end>>)
           /\ tasks' = tasks + 1

EndCollect == /\ Worker("collect", "ended", <<given, queue, tasks, providing, notified, end>>)
              /\ ~providing
              /\ last' = TRUE

MayAnnounce == queue = <<>> /\ ~notified

(* Mutant: the flag is exchanged before the queue is looked at.            *)
WorkerEnds_FlagFirst == /\ Worker("ended", IF MayAnnounce THEN "announce" ELSE "off",
                                  <<given, queue, tasks, providing, last, end>>)
                        /\ notified' = TRUE

(* Mutant: the queue is not looked at.                                     *)
WorkerEnds_NoTest == /\ Worker("ended", IF notified THEN "off" ELSE "announce",
                               <<given, queue, tasks, providing, last, end>>)
                     /\ notified' = TRUE

WorkerEnds == /\ Worker("ended", IF MayAnnounce THEN "announce" ELSE "off",
                        <<given, queue, tasks, providing, last, end>>)
              /\ notified' = (notified \/ queue = <<>>)

WorkerAnnounces == /\ Worker("announce", "off", <<given, queue, tasks, providing, last, notified>>)
                   /\ end' = TRUE

-----------------------------------------------------------------------------
(* The scheduler's thread, and run.                                        *)

Scheduler(from, to, s) ==
    /\ sched = from /\ sched' = to
    /\ UNCHANGED <<given, providing, last, play, paused, running, ctl, user, plays, starts, again>>
    /\ UNCHANGED s

TakeTask == /\ Scheduler("idle", "run", <<queue, played, inHand, notified, end, worker>>)
            /\ ctl # "stopping" /\ ~paused /\ tasks > 0
            /\ tasks' = tasks - 1

(* A task that runs while the player does not leaves its record.           *)
Pop == /\ Scheduler("run", IF running THEN "write" ELSE "idle",
                    <<tasks, played, notified, end, worker>>)
       /\ inHand' = IF running THEN Head(queue) ELSE 0
       /\ queue' = IF running THEN Tail(queue) ELSE queue

Write == /\ Scheduler("write", "notify", <<queue, tasks, notified, end, worker>>)
         /\ played' = played + 1
         /\ inHand' = 0

Wake(t) == IF t = "asleep" THEN "room" ELSE t

NotifyRoom == /\ Scheduler("notify", "test", <<queue, tasks, played, inHand, notified, end>>)
              /\ worker' = Wake(worker)

(* The flag, the queue and the exchange are three steps: they are looked   *)
(* at while a worker that is started again resets the flags and collects.  *)
TestLast == Scheduler("test", IF last THEN "empty" ELSE "idle",
                      <<queue, tasks, played, inHand, notified, end, worker>>)

TestEmpty == Scheduler("empty", IF queue = <<>> THEN "exchange" ELSE "idle",
                       <<queue, tasks, played, inHand, notified, end, worker>>)

Exchange == /\ Scheduler("exchange", IF notified THEN "idle" ELSE "announce",
                         <<queue, tasks, played, inHand, end, worker>>)
            /\ notified' = TRUE

SchedulerAnnounces ==
    /\ Scheduler("announce", "idle", <<queue, tasks, played, inHand, notified, worker>>)
    /\ end' = TRUE

-----------------------------------------------------------------------------
(* The channel play, which the player observes from its start to its stop. *)

User(from, to, s) ==
    /\ user = from /\ user' = to
    /\ UNCHANGED <<records, providing, last, notified, end, running, worker, sched, ctl, starts,
                   again>>
    /\ UNCHANGED s

Observed == ctl \in {"read", "resume", "run", "started"}

WritePlay == /\ User("idle", IF Observed THEN "handle" ELSE "idle", <<paused>>)
             /\ plays < MaxPlays /\ plays' = plays + 1
             /\ play' = ~play

HandlePlay == /\ User("handle", "idle", <<play, plays>>)
              /\ paused' = ~play

-----------------------------------------------------------------------------
(* do_start of the parent: the provider, the scheduler and then on_start.  *)

Control(from, to, s) ==
    /\ ctl = from /\ ctl' = to
    /\ UNCHANGED <<play, last, notified, inHand, user, plays, again>> /\ UNCHANGED s

(* A player that has been stopped starts again with what is left in its    *)
(* queue and in its scheduler, unless it has been reset.                   *)
CanStart == ctl \in {"initialised", "stopped"}

Start == /\ CanStart /\ starts < MaxStarts
         /\ starts' = starts + 1
         /\ again' = IF ctl = "stopped" THEN again + 1 ELSE again
         /\ providing' = TRUE
         /\ sched' = "idle"
         /\ ctl' = "observe"
         /\ UNCHANGED <<records, last, notified, end, play, paused, running, worker, user, plays>>

Observe == /\ Control("observe", "read", <<given, queue, tasks, played, providing, paused, running,
                                           worker, sched, starts>>)
           /\ end' = FALSE

ReadPlay == Control("read", IF play THEN "resume" ELSE "run",
                    <<given, queue, tasks, played, providing, end, paused, running, worker, sched,
                      starts>>)

ResumeAtStart == /\ Control("resume", "run", <<given, queue, tasks, played, providing, end, running,
                                               worker, sched, starts>>)
                 /\ paused' = FALSE

StartWorker == /\ Control("run", "started", <<given, queue, tasks, played, providing, end, paused,
                                              sched, starts>>)
               /\ running' = TRUE
               /\ worker' = "begin"

(* do_stop of the parent: the provider; then the player's do_stop, which   *)
(* waits for the handler of play, and stops the scheduler, then on_stop.   *)
StopProvider == /\ Control("started", "unobserve", <<given, queue, tasks, played, end, paused,
                                                     running, worker, sched, starts>>)
                /\ providing' = FALSE

StopScheduler == /\ Control("unobserve", "stopping", <<given, queue, tasks, played, providing, end,
                                                       running, worker, sched, starts>>)
                 /\ user = "idle"
                 /\ paused' = FALSE

(* Its thread ends the task that it runs, and is joined.                   *)
JoinScheduler == /\ Control("stopping", "stop", <<given, queue, tasks, played, providing, end,
                                                  paused, running, worker, starts>>)
                 /\ sched = "idle"
                 /\ sched' = "off"

(* Mutant: on_stop does not notify the wait for room.                      *)
OnStop_NoNotify == /\ Control("stop", "join", <<given, queue, tasks, played, providing, end, paused,
                                                sched, worker, starts>>)
                   /\ running' = FALSE

OnStop == /\ Control("stop", "join", <<given, queue, tasks, played, providing, end, paused, sched,
                                       starts>>)
          /\ running' = FALSE
          /\ worker' = Wake(worker)

JoinWorker == /\ Control("join", "stopped", <<given, queue, tasks, played, providing, end, paused,
                                              running, worker, sched, starts>>)
              /\ worker = "off"

(* The scheduler is deleted with its tasks and the channels, the queue is  *)
(* cleared, and the provider gets records anew.  What an init makes is     *)
(* here too: the channels are false, the scheduler is paused.              *)
Reset == /\ ctl = "stopped" /\ ctl' = "initialised"
         /\ given' = 0 /\ queue' = <<>> /\ tasks' = 0 /\ played' = 0
         /\ play' = FALSE /\ end' = FALSE /\ paused' = TRUE /\ again' = 0
         /\ UNCHANGED <<inHand, providing, last, notified, running, worker, sched, user, plays,
                        starts>>

WorkerNext == \/ BeginLoop \/ Collect \/ TestRoom \/ AddTask \/ EndCollect \/ WorkerEnds
              \/ WorkerAnnounces
SchedulerNext == TakeTask \/ Pop \/ Write \/ NotifyRoom \/ TestLast \/ TestEmpty \/ Exchange
                 \/ SchedulerAnnounces
ControlNext == \/ Observe \/ ReadPlay \/ ResumeAtStart \/ StartWorker
               \/ StopScheduler \/ JoinScheduler \/ OnStop \/ JoinWorker

Next == \/ WorkerNext \/ SchedulerNext \/ ControlNext \/ WritePlay \/ HandlePlay
        \/ Start \/ StopProvider \/ Reset

(* The threads go on; whether play is written, and the device started,     *)
(* stopped or reset, is not promised.                                      *)
Spec == /\ Init /\ [][Next]_vars
        /\ WF_vars(WorkerNext) /\ WF_vars(SchedulerNext) /\ WF_vars(ControlNext)
        /\ WF_vars(HandlePlay)

-----------------------------------------------------------------------------
Waits == worker \in {"room", "asleep", "add"}
Drops == sched = "run"

(* With the types, that records are played in order, each once, and that   *)
(* the queue passes its limit by the one record that waits for room, and   *)
(* by one more for each start that found what a stop left; and that the    *)
(* tasks of the scheduler are no more than the records of the queue, but   *)
(* for that record and for the task that is being run: a task never finds  *)
(* the queue empty.  They are as many in a first run, where no record is   *)
(* left without a task.                                                    *)
TypeOK ==
    /\ {given, tasks, played, inHand} \subseteq 0 .. Records
    /\ {providing, last, notified, end, play, paused, running} \subseteq BOOLEAN
    /\ worker \in {"off", "begin", "collect", "room", "asleep", "add", "ended", "announce"}
    /\ sched \in {"off", "idle", "run", "write", "notify", "test", "empty", "exchange", "announce"}
    /\ ctl \in {"initialised", "observe", "read", "resume", "run", "started", "unobserve",
                "stopping", "stop", "join", "stopped"}
    /\ user \in {"idle", "handle"} /\ plays \in 0 .. MaxPlays /\ starts \in 0 .. MaxStarts
    /\ again \in 0 .. MaxStarts
    /\ Len(queue) <= Limit + 1 + again
    /\ inHand # 0 => inHand = played + 1
    /\ queue = [i \in 1 .. Len(queue) |-> given - Len(queue) + i]
    /\ tasks + (IF Drops THEN 1 ELSE 0) + (IF Waits THEN 1 ELSE 0) <= Len(queue)
    /\ ctl \in {"started", "unobserve", "stopping", "stop"} /\ again = 0 =>
           tasks + (IF Drops THEN 1 ELSE 0) + (IF Waits THEN 1 ELSE 0) = Len(queue)

Played == worker # "begin" /\ ctl \notin {"initialised", "observe", "read", "resume", "run"}
Ended == notified /\ Played /\ again = 0
Player == INSTANCE Replay WITH taken <- given - Len(queue), ended <- Ended

(* The player implements Replay: records are played in order, each once,   *)
(* through stops and starts; in a first run after a reset nothing is       *)
(* played after the end has been decided, and it is decided once all that  *)
(* was given is taken.                                                     *)
Refines == Player!Spec

(* Whoever waits for the end of a first run is told of it, unless the      *)
(* player is paused or stopped, though two threads each believe the other  *)
(* may have told.                                                          *)
EndAnnounced == ctl = "started" /\ last /\ again = 0 ~> end \/ paused \/ ctl # "started"

(* A stop that comes after the provider's returns, wherever the worker is. *)
StopReturns == ctl = "unobserve" ~> ctl = "stopped"
=============================================================================
