# A TLA+ model of sihd

sihd is a C++ framework for applications made of *devices* that exchange data
through *channels*. It comes as some twenty modules: `util` holds the threads,
queues, services and schedulers, `core` the channels and devices, `sys` and
`net` the processes, polls, sockets and servers; the others adapt libraries
(`http`, `ssh`, `zip`, `usb`, ...) or present the framework to users (`tui`,
`imgui`, `lua`, `py`).

This directory specifies the concurrent core of that framework in TLA+, checks
it with TLC and proves the most important parts with TLAPS. All paths below are
relative to `src/modules/` unless they say otherwise.

## 1. Inventory

| Part | State it keeps | Operations | How it interacts | What is hard |
|---|---|---|---|---|
| `SafeQueue` (util/include/sihd/util/SafeQueue.hpp) | the queue, `_terminated`, two condition variables | push, pop, wait_for_space, terminate, clear | between producers and the threads that pop | wake-ups lost or sent to the wrong thread; elements pushed after the end |
| `ThreadPool` (util/src/ThreadPool.cpp) | its threads, each with a stop flag; the queue of jobs | add_job, complete_all_jobs, wait_all_jobs, stop, destructor | pops from SafeQueue; clients wait on futures | a job lost, run twice, or both discarded and run; a stop that cannot join |
| `Scheduler` with `Task` (util/src/Scheduler.cpp) | a multimap of tasks by time, a list of tasks to add, a trash list, `_next_run`, the pause | add, remove, clear, pause, resume, start, stop | runs in a worker thread, called by any other thread, tasks belong to it or to the caller | stale values read outside of the lock, a pause or a removal between two steps of the worker, a stop that misses a sleep |
| `Observable` (util/include/sihd/util/Observable.hpp) | the list of handlers, the current one, a deferred removal | add_observer, remove_observer, notify_observers | base of channels, servers, services, polls | the list changes while it is walked |
| `Channel` (core/src/Channel.cpp) | an array, a time stamp, two mutexes | write, notify, read, subscribe | devices write to a channel from inside the notification of another | re-entrance, two writers, blocking on a cycle of channels |
| `ABlockingService`, `BlockingServiceController`, `Collector`, `Poll` | controller state, ready flag, run mutex, loop flag | start, stop, wait_ready | start runs in the thread of its caller; others stop it | a stop before, during and after the short steps of a start |
| `Worker`, `StepWorker`, `Synchronizer`, `AThreadedService`, `ThreadedServiceController` | started and stop flags, pause, start barrier | start, stop, pause, resume, synchronised start | threads of most devices | start and stop from several threads, a barrier that times out, a pause after the stop's resume |
| `ServiceController`, `StateMachine`; `Device`, `Core` (core/src/) | a life cycle state for each object of a tree | setup, init, start, stop, reset | `Core` operates its children in turn | one child that fails, states without an exit |
| `DevPlayer`, `MemRecorder`, `DevRecorder`, `Records` | a bounded queue of records, a scheduler, a collector thread | start, stop, pause, reset, play | a provider thread fills the queue, the scheduler plays records to channels | limits of the queue, the order of the stops, the end of the provider |
| `DevFilter`, `DevSampler`, `DevPulsation`, `DevMessage` | rules, sampled values, message fields | handle, start, stop | handlers of channels, some with a scheduler | a set that is copied while it is added to, a pause beside a start, writes around the mutexes of a channel |
| `TcpServer`, `BasicServerHandler`, `UdpReceiver` ... (net/src/) | a socket, a poll, a map of clients | start, stop, accept, read, send | composes two blocking services; clients used by other threads | a stop from inside the poll; clients erased and used |
| `ObserverWaiter`, `Waitable`, `Node`, `Named` (util) | counters, a tree of names | wait, notify, link | tests and services | counting from the wrong moment |
| arrays, strings, messages, configuration, logging, time (util) | values | conversions | everywhere | sequential; the unit tests reach it |
| `Process`, `proc` (sys/src/Process.cpp, proc.cpp) | the pid and the status of a child process, the ends of its pipes, a poll | execute, start, stop, read_pipes, wait, kill, terminate | `proc::execute` runs one and reads its pipes itself; the service polls them in the thread of its start | output lost or never read, a process waited for twice, killed late, left behind, a stop from inside the poll |
| sys: files, signals, shared memory, terminals; http, ssh, crypto, zip, json, csv, pcap, usb, bt | handles of the system and of libraries | wrappers | at the edge | the behaviour is in the system or the library |
| tui, imgui, lua, py, luabin | bindings and views | calls | users of the above | none of their own |

What makes each of them correct:

- *SafeQueue, ThreadPool*: a job is run once, in order, at most one per thread;
  a thread that waits is woken when there is a reason; stop leaves nothing running
  and no promise without an answer; a call returns.
- *Scheduler*: a task is never played early, twice, or after its deletion; a
  pause holds; a task that is due is played; a stop ends.
- *Observable, Channel*: a handler that is subscribed is called, one that is not
  is not; it reads the value it is notified of; no call blocks for ever but a `notify` in a
  cycle; a write that is not notified keeps every byte there was.
- *Blocking services*: one run at a time; a stop that returns has ended the run
  it stopped, and always returns.
- *Worker services*: one thread per worker; a stop joins the thread that was
  started; no start waits for ever at the barrier; a paused worker takes no step, but
  for the one it was about to take; a sampler offers every write to its output.
- *Devices*: a device runs with all the devices under it or with none, whatever fails
  on the way.
- *DevPlayer*: records are played in the order of their times, and all of them
  before the device says it has ended, when it plays from the beginning; a stop finds its way through three threads.
- *TcpServer*: the poll's list, the map of clients and the open sockets stay in step; no
  message read is overwritten before it is written to `rx`, no answer left in its buffer; the server does
  not wait in a read with the mutex that the others need.
- *Process*: what a process writes is given to the callbacks as long as its pipes are open;
  however it ends, and whoever waits for it, nothing of it is left: no process, no status to collect,
  no pipe; the result tells an exit from a failure; `execute` returns.

The hazards behind these sentences, at their lines, are in `PROJECT.json`.

## 2. Modules

| Module | Models | Extends / instances |
|---|---|---|
| `SafeQueue` | the queue's critical sections, waits and notifications | |
| `ThreadPool` | threads, clients and owner of a pool, composed with the queue | extends `SafeQueue`, instances `JobPool` |
| `JobPool` | abstract: what a pool promises of its jobs | |
| `Scheduler` | the worker's loop, clients, owner, and time | |
| `Observable` | one object per subject, walked by steps | |
| `Channel` | channels, threads and handlers wired to each other | extends `Observable` |
| `BlockingService` | start and stop of a blocking service that runs the loop of `Collector` and `Poll` | |
| `TcpServer` | a serving thread, its peers, a sender and the thread that starts and stops the device | |
| `Replay` | abstract: what a player promises of its records | |
| `DevPlayer` | a collector, a bounded queue, a scheduler's thread, the user of a player | instances `Replay` |
| `StepWorker` | the thread of a step worker and the two devices that own one, with the start barrier | |
| `DeviceTree` | a tree of devices, operated on as a whole and in part | |
| `Process` | a process, and the threads that execute, start and stop it | |
| `ThreadPool_proofs`, `Scheduler_proofs`, `Channel_proofs`, `TcpServer_proofs`, `DevPlayer_proofs`, `StepWorker_proofs`, `DeviceTree_proofs`, `Process_proofs` | what is proved of the module each is named for, and in `TcpServer_proofs` also of `BlockingService` (section 4) | extend it |
| `MC...` | the constants of the runs | extend the module they name |

### 2.1 SafeQueue and ThreadPool

A step is a critical section of the queue's mutex, or what a thread does between
two of them. `cvPush` and `cvPop` hold the threads asleep on each condition
variable. The wake-up is a step of its own (`NotifyOne`, `TerminateNotify`)
because `push`, `pop` and `terminate` notify after they unlock; threads also wake
spuriously (`Wakeup`). `pc` is the place of a thread in `Thread::_loop`
(ThreadPool.cpp:69-91): `CheckStop`, `PopSleeps | PopEnds | PopJob`,
`NotifyPopped`, `RunJob`. `call` is the call a client is in: `BeginAdd`, `AddJob`,
`NotifyAdded`, `GetFutures | LeaveFuture` for `add_job` and `complete_all_jobs`,
`BeginWait`, `WaitSleeps`, `WaitReturns` for `wait_all_jobs`, and `BeginStop`,
`StopNotifies`, `StopThread`, `JoinThread` for `stop`, which may come at any
moment, more than once, and be followed by more jobs. A job is its rank in the
queue; its future is pending, ready or broken. The statistics of the threads are
left out.

`JobPool` says what is promised whatever the threads do: jobs start in the order
of their submission, each at most once, no more of them at a time than the pool is
wide; closing discards those not started, and none starts later. `Refines` maps
the jobs held between the pop and the end of `job()` to the running ones.

### 2.2 Scheduler

A critical section of `_waitable_task` or `_waitable_pause` is one step, and what
the worker does between two of them is another, so that a client comes between
any two. `pc` follows `on_work_start` (Scheduler.cpp:129-160) and
`_wait_for_next_task` (61-73): `WaitPause`, `WaitTask`, `ComputeDelay`,
`FallAsleep`, `SleepEnds`, `CheckRun` (the second look at `_paused`), `ReadClock`, `TakeTask | TooEarly | ReadEmptyMap`,
`RunTask`, `Reschedule | TrashTask`, `DeleteTrashed`. `asleep` says that the worker
is blocked, and is cleared by the notification of the variable it is blocked on, or
by the deadline. `taskMap` is the multimap in the order of its iteration. Time is a
natural number that passes at any point (`Tick`). `owed` and `sincePause` are not
in the code: they record what the clients were promised.

`Preplay` is `acceptable_task_preplay_ns_time`, by which a task may be taken before its time (Scheduler.cpp:16, 85).
`start` is one step: the handshake by which
AWorkerService waits for its thread is the one of `StepWorker`.

### 2.3 Observable and Channel

The iterator of `notify_observers` is the element it designates; `NotifyBegins`,
`HandleBegins`, `HandleEnds`, `NotifyEnds` are its steps, between which the handler
runs, holding the recursive mutex of the observable. `Channel.write` is `CallWrite`,
`TryLock | GiveUp` (the try_lock of `_notify_mutex`, Channel.cpp:145-150),
`StoreNothing | Store` (the section of `_arr_mutex` with its early returns), then
the round of notifications and the release (`EndRound`). `notify` waits instead
(`LockToNotify`). `stack` is the nesting of a thread: a handler writes and notifies
other channels, or its own, subscribes and unsubscribes, along the wiring that the
constants give. An array is a sequence
of bytes, which the run takes from 0 and 1; a stamp is the rank of the write.

### 2.4 BlockingService

`start` is `AcceptStart` (the controller), `LockRunning`, `ClearReady`, `SetReady`,
`Arm` (`_running = true`), `Leave` when the flag is down or the provider has no more,
`Fail`, `FailAtOnce`, `Unlock`, `EndStart`; `stop` is `AcceptStop`, `Disarm`,
`Unready`, `WaitForRun`, `EndStop`. The flag `looping` is `Collector::_running` and
the negation of `Poll::_stop`; the two loops have the same shape (Collector.hpp:46-80,
sys/src/Poll.cpp). `run` numbers the runs and `caught` is the run whose flag a stop
lowered while it was looping; they are not in the code. `at` is the place of a thread. The names
differ from those of `TcpServer`, also a blocking service, so that one module of proofs extends both.

### 2.5 TcpServer

The serving thread (`pc`) goes through `TcpServer::on_start` and the loop of `Poll`:
`Setup`, `Serve`, then for each cycle `PollOnce`, which takes the events and empties the
lists of the cycle before; `Accept`, `Read`, `Write | Written`, one for each event, in any
order among descriptors but after the listening socket, whose slot is the first; and
`After`, which calls the device: `Show` writes what a client said to `rx`, `RemoveClient`
forgets one that left. The sender walks a copy of the map (`BeginSend`, `SendTo`,
`EndSend`); `MutexFree` is `BasicServerHandler::_mutex`, which only `Write` holds over two
steps. `StartDevice`, `StopDevice`, `Stopped` are the device's `on_start` and `on_stop`.

A descriptor is a number, the smallest free one is given to the next connection, and a
socket is closed when nothing refers to its client: not the map, the lists of the cycle,
nor the sender's copy (`CloseUnless`). So a client removed during a send keeps its
descriptor, and one removed before gives it to the next. `slots` is `Poll::_lst_fds`: a slot
whose events are all removed stays, and `Ask` gives none to a descriptor without `Room`, whose client is then in the map and
never polled. What a peer says is counted; a read takes any part of what is there into `inHand`, which `Show` writes to
`rx`: the write takes it (`shown`) or refuses it, the channel being notified, too small, or holding the same bytes (`refused`). What is
said to a peer is only `unsent` or not; a send to one that has left may fail (`error`). A peer connects once; whether it is
refused or fails its TLS handshake is not told apart.

### 2.6 DevPlayer

`worker` is the thread of `_main_loop` in `Collector::on_start` and `DevPlayer::handle`: `Collect`, `TestRoom` (asleep until notified),
`AddTask`, `EndCollect`, `WorkerEnds`, `WorkerAnnounces`. `sched` is the scheduler's thread, of which only what `Scheduler` establishes is
kept: it takes a due task when it is neither paused nor stopped (`TakeTask`), and finishes one before it stops. Its task is
`DevPlayer::run`: `Pop`, `Write`, `NotifyRoom`, then `TestLast`, `TestEmpty`, `Exchange`, `SchedulerAnnounces`, the steps of
`_provider_ended`. Records are numbered by their times, which leaves nothing else of time. `ctl` starts the parent of provider and player
(`Start`, `Observe`, `ReadPlay`, `ResumeAtStart`, `StartWorker`), stops it (`StopProvider`, `StopScheduler`, `JoinScheduler`, `OnStop`,
`JoinWorker`), starts it again or resets it; `user` writes `play`. `again` is not in the code: it counts the starts since the last reset,
but for the first.

`Replay` says that records are taken from the first on, each once, through stops and starts, and that the end is decided once,
when all that was given has been taken and nothing is given or taken after it. Of a player that was started again without a reset
(`StartAgain`) it promises the order, and nothing of the end: section 6 says why.

### 2.7 StepWorker

`kind` is the device that owns the worker. `pc` is the place of a caller: `AcceptStart`, `Observe`, then `ReadActivate | PauseAtStart`
(DevPulsation) or `MapChannel` (DevSampler), `StartWorker`, `StoreStarted`, for the sampler `Synchronise`, `CountCaller`, `ReleaseThread |
AwaitThread`, and `EndStart`; `AcceptStop`, `Unobserve`, `StopWorker`, `ResumeAtStop`, `Join`, `Forget`, `EndStop`. `thread` is
`Worker::pre_run` and `StepWorker::run`: its half of the synchronizer, `Gate` (the wait for the end of the pause), `TestStarted`, a step
(`TakeSamples`, `CopySamples`), `Nap`. The sleep may end at any time, since a resume, a stop or its timeout ends it. A sample is written to
its output or refused (`refused`). The value of `activate` is the parity of what was written. `overrun` is not in the code: it counts the
steps begun since a pause.

### 2.8 DeviceTree

Each device has a state, its `children` in the order in which they were added, which is the order of the loops, and a `frame`: the operation
it is in, its phase, the child it comes to next, what it will return, and who called it. `CallChild | ChildRefuses` are the loops over the
children of Device.cpp; `ResolveLinks`, `EndChildren`, `RemoveChildren` and `Own` what follows them; `Undo` the stop of those a failed start
has started, which goes through the same loop; `End` is `op_end` and the return to the parent. `Call` is an operation asked from outside, on
any device, by any thread; a reset deletes devices, so nothing else may be going on then (the code has no protection against it). `apart`
holds the devices whose last operation was asked from outside. `AddDevice` adds a child at any time but during an operation of its parent,
which walks the list of children; one added after the parent was set up is `apart` until the parent operates it. Children that are not
services, and links to services, are left out.

### 2.9 Process

`pc` is the place of three threads: the `caller` of `proc::execute` (proc.cpp:36-82), the `runner` of
`Process::on_start`, the `stopper` of `on_stop`. `Launch | LaunchFails` is `execute` of the class, `ReadPipes`, `WaitAny`,
`Again | Ended | TimeIsUp` the loop of `proc::execute`; `StartPoll`, `LockPoll`, `Arm`, `Poll`, `Leave`, `EndPoll` the
run of `_poll`; `AcceptStop`, `StopPoll`, `JoinPoll`, then `terminate`, `ResetProc`, `WaitForRun` the stop. `terminate` is one
sequence for caller and stopper (`Drain`, `Close`, `StopPoll`, `JoinPoll`, `ClearFds`, `Try | HasEnded | Kill`).

Any thread may be inside `wait`: its two sections of the watcher's mutex are `CheckStatus`, which asks the system and
writes what it answered, and `Told`, which reads that back; another thread comes between them. `astray` is not in the code: it says that
`Kill` sent its signal to a pid of -1, or to that of a process that was collected and may be another's. A `waitid` that fails leaves
an answer of zeros, as Linux does; POSIX leaves the structure, which the code does not initialise, unspecified. `PollOnce` is
`Poll::poll` with `Process::handle` as its observer: what can be read is read once, a pipe hung up and empty is closed, and
when no descriptor has an event the process is asked for.

The process is an actor: it writes (`Write`), blocks when a pipe is full, dies of a pipe that nobody reads, exits when it has written all
(`Exit`), or dies at any moment, with a core dump or without (`Die`). It closes a pipe that it is done with, and a process that it has
launched may keep one open after it (`Shut`): a pipe is hung up when nobody has its other end. What it writes is a count for each stream.
`lasts` says that it does not end by itself, `limit` that execute was given a timeout; both are chosen at the start, with the streams that
are redirected to a callback (`piped`).

## 3. Runs

| Run | Instance | Checks |
|---|---|---|
| `thread_pool` | 2 threads, an owner and a client, 3 jobs, batches of 1 or 2; about 62 000 states, deadlock checked | `TypeOK`; `NoLostWakeup`: a queued job always has a thread awake or about to be; `StopDrains`: after stop all threads are out and every job is resolved or, if added later, queued; `ReadJobsRun`: what wait_all_jobs saw read is never discarded; `Refines`; `Progress`: a queued job is resolved, stop, wait_all_jobs and complete_all_jobs return |
| `scheduler` | a task with a date, a periodic one with a delay, a preplay of 1, time up to 3, two starts; about 609 000 states | `TypeOK` (the times stay positive); `OnePlace`: a task is in one list, or one owner's; `NeverEarly`: nor taken before its time, but for the preplay and what is counted of a pause that has just begun; `PauseHolds`: at most the one task being taken is played after pause; `StopReturns`; `TaskPlayed` |
| `channel` | 2 channels that notify each other, 2 threads, 2 handlers that come and go; writes that fit, that grow the array with a zero or a one, that are refused; two stamps; about 213 000 states | `TypeOK`; `HandlersSeeWrite`; `AllNotified`; `ListIsSubscribed`; `SilentWriteKeepsBytes`: a write that is not notified leaves every byte, and adds at most the zeros it wrote; `CallsReturn`, but of a `notify` in a cycle |
| `blocking_service` | 2 starters, 2 stoppers, 3 starts, a provider that ends and comes back, runs that fail; about 163 000 states | `ServiceTypeOK` with the owner of the mutex; `StopJoins`: a stop returns after the run it caught; `CaughtRunEnds` |
| `tcp_server` | 2 peers, one of which speaks twice, 2 clients at most, 3 slots in the first run and 2 in the second, any number of answers, 2 starts; about 379 000 states | `TypeOK` with: every client has an open socket, and no two the same number; `ClientsArePolled`; `ReadNeverBlocks`; `SaidIsShown`; `AnswersWritten` |
| `dev_player` | 4 records, a limit of 1, 4 writes of play, 3 starts with and without a reset; about 114 000 states | `TypeOK` with the order of the queue, its limit, and as many tasks scheduled as records wait for one; `Refines`; `EndAnnounced`; `StopReturns` |
| `step_worker` | both devices, 2 callers, 3 starts, 4 writes of the channel, samples that are refused; about 44 000 states | `TypeOK` with one operation at a time and the thread's life; `OneStepAfterPause`; `CallsReturn`; `Sampled` |
| `device_tree` | a core, two devices, one with a device, each added at any time; 5 calls, 2 failures; about 355 000 states | `TypeOK`; `WholeOrNone` |
| `process` | 2 streams of at most 3 units, pipes of 2, read by 1, 3 tries, with and without a time limit, executed or started and stopped, any end, pipes that are closed early; about 754 000 states | `TypeOK` with what the started flag and the pid say of the process; `EndsClean`; `AllGiven`; `ExecuteReturns` |
| `scheduler_emptied`, `blocking_service_ready`, `process_stop` | the smallest instance that shows a disagreement | one property each, which is violated (section 5) |

**Bounds.** `MaxJobs`, `MaxBatch` (pool), `MaxTime`, `MaxStarts` (scheduler),
`MaxWrites` and one action per handler call (channel), `MaxAccepted` (service). Two
pool threads and two clients are the fewest with which a notification can go to the
wrong thread; three jobs leave one queued while each thread holds one. Time up to 3
lets a pause begin, last and end around a task at 2 and a period of 2, and a preplay of 1 lets one be taken
while its time is to come. Two stamps let a
write come between another and its handlers, and two channels close a cycle of `notify`. Three starts let one run follow
another while two stops are under way. When the scheduler's time is at its bound it
still passes as long as the worker sleeps, so that a sleep ends, and once in a pause; a task due after the
bound runs until the stop (`LastTask`).

`MaxSaid`, `MaxStarts` (server): with two peers one is removed, or refused, while the other is served, and its descriptor given again; the
second message of a peer comes while the first is handled; a second start finds the clients of the first. `PollLimit` is what the two
clients need in the first run, and in the second what one of them needs, so that one is accepted without a slot. Four records against a
limit of one (player) fill the queue, leave one in the hand of the worker and one in the scheduler's; with three starts one follows a stop
and one a reset. Three starts and two callers (step worker) let a synchronizer be used again and a stop meet another start. Five calls
(tree) are one life cycle from init to reset, or less of it and operations on its parts meanwhile; two failures let a start fail and then
the stop of what it had started.

`Capacity`, `Buffer`, `MaxSaid`, `Tries` (process): three units against a pipe of two let the process block on each pipe while the
other is read, and a buffer of one leaves something in the pipe when the process has ended. With three tries it ends
before, between and after them.

Deadlock is checked for the pool, whose owner may always stop again. It is not for
the others: clients may all stop calling, the starts or calls may be used up, time stops, a
process that was executed once is not again.

**Fairness.** *Pool*: each thread runs, and a client goes on with a call it has begun (weak fairness); no client has to begin one. A
condition variable's wait is weakly fair after its notification. *Scheduler*: the worker runs, time passes, and a stop goes on; `pause`,
`resume`, `add_task` and the others are never forced. *Channel*: strong fairness of each thread's progress, so that `notify`, which waits
for a mutex that others take and give back, obtains it in the end: a thread waiting on a free mutex is runnable. *Service*: weak fairness of
a call that was accepted. The run mutex is not fair, since starts may follow one another, so the property is that the caught run ends, not
that the stop obtains the mutex; and neither the end of the provider nor a failing poll is promised. *Server, player, step worker*: weak
fairness of each thread's next step, of a handler that has begun and of a start or stop that has begun; no peer, user or caller has to begin
anything. That a peer may talk for ever, which would keep its answers waiting (section 6), is excluded by `MaxSaid`; of a client without a
slot nothing is promised. *Tree*: none, it has no liveness. *Process*: weak fairness of each thread, and of a process that does not last,
when it can write or exit; strong fairness of `TimeIsUp`, since the clock is looked at in each round of the loop and goes on. A process that
lasts is promised nothing, so `ExecuteReturns` asks for a time limit then, and after a core dump, for which `execute` waits as if the
process ran.

## 4. Proofs

The proofs hold for any number of threads, clients, jobs, tasks, channels, handlers, devices or callers,
any wiring of channels and any tree of devices, and any value of the bounds. They assume the named assumptions of the
modules (`ThreadPoolAssumption`, ...), which TLC evaluates in the runs:

- the constants have their types, and the values that stand for nothing (`NoHandler`, `NoThread`, `NoTask`) are not among those
  they stand in for; in the pool the owner is a client, and clients are not confused with threads;
- `ChannelAssumption`: a channel's first observers are listed once each, as `add_observer` lists them, and its first array keeps within
  its capacity;
- `DeviceTreeAssumption`: the devices that the program adds form a tree: the children of a device have different names, no device
  has two parents, and none is below itself, which `Node::add_child` sees to.

No theorem about a property of a run has another premise. What the code admits is in the models, and the properties say what remains of
their promise then: a core dump (`EndsClean`), a player that is not reset (`Replay`), an array that grows by zeros (`SilentWriteKeepsBytes`),
a poll without room (`ClientsArePolled`).

Each invariant below was checked by TLC on its run's instance before it was proved. None of the properties is inductive by itself; what
the invariants add is said with each. A proof has one lemma for each action, or group of actions that change the same variables, and
the theorem combines them.

`ThreadPool_proofs`:

- `TypeCorrect` : `Spec => []TypeOK`. `TypeOK` is not inductive: that `left` stays natural
  needs `HasJobToAdd` (a client in `"add"` has a job left to add). `TypeInv` is their
  conjunction.
- `WakeupsKept` : `Spec => []NoLostWakeup`.
- `PoolInvariant` : `Spec => []PoolInv`, where `PoolInv` conjoins `TypeInv`;
  `JoinOrder` (only the owner is in a stop, the threads before the one it is joining have exited, and
  all of them have when a stop is over); `JobsInv`, which has three parts: `QueueOrder` (the queue
  is an increasing sequence of added jobs), `OneHolder` (a job is held by one thread, and held jobs are
  not queued) and `PendingIsSomewhere` (a job is resolved exactly when it was added and is neither
  queued nor held); and `ReadPast` (the jobs that wait_all_jobs saw read are no longer queued, and no
  promise is broken before terminate). Without `JobsInv` the join says nothing of the jobs.
- `StopDrained` and `ReadJobsNeverBroken` follow: after the joins no thread holds a job, so a job
  with a pending future can only be queued; and what is discarded was queued.
- `Implements` : `Spec => Refines`. Under `PoolInv` each step maps to a step
  of `JobPool` or a stutter: `AddJob` to `Submit`, `PopJob` to `Start`, `RunJob` to `Finish`, `BeginStop` to
  `Close`, everything else to a stutter. `OneHolder` bounds the jobs that run by the threads, which
  is what `Start` requires.

`Scheduler_proofs` : `Invariance`, then `TypeCorrect`, `InOnePlace`, `NotEarly`, `Holds`. `SchedulerInv` says in which of six sets each task
is (`Apart`), that no list holds one twice (`Once`), and when the worker holds one (`Held`): a task is added or rescheduled only from where
the code knows it to be. `NeverEarly` speaks of the task being played; what makes it true is `Promise`, that the time of each task of the
map leaves room for the delay that is still owed to it, counted from now, or, while the scheduler is paused, from the beginning of the pause
and of the run, since a resume moves the times by the later one; with `Past` (no time that the worker or the pause remembers is to come),
`Straight` and `Settled` (what is owed when the tasks are prepared). The worker may read the clock when a pause that it has not seen has
begun: the time it compares with is then later than the beginning of the pause by `PauseCounted`, and that much may still be owed to the
task it takes, with the preplay. `Due` says that nothing is owed to the task in the worker's hand. The lemma `Ranks` shows that the order in
which the multimap is kept is a permutation, and `Times` that inserting keeps the length, the elements and their being distinct.

`Channel_proofs` : `Invariance`, then `TypeCorrect`, `SeeWrite`, `AllCalled`, `ListKept`, `SilentKeepsBytes`. `ChannelInv` says that the
stack of a thread lists the channels whose lock it holds, once each (`Stacked`, `Locked`); that what is sent is sent by the holder of the
lock, after the store (`AllShown`), so that no other write comes between; where the iterator may be in the list in each stage of a round
(`Observed`); and that the handlers still to be called are ahead of it (`Ahead`), which is what `AllNotified` needs when handlers come and
go: lemmas on lists show that what is after the iterator stays after it when an element is added at either end (`AddedAhead`), when another
is erased (`ErasedAhead`), and when the handler that returns is erased under it (`ErasedHere`). `SilentKeepsBytes` follows from what is
compared: the array is lengthened with zeros first, so that only zeros written there go unnoticed.

`TcpServer_proofs`, of `BlockingService`: `ServiceInvariant`, `ServiceTypeCorrect`, `StopJoined`. The invariant is `ServiceTypeOK`, which
holds that the mutex belongs to the thread in its run, and `CaughtInv`: a caught run is not later than the last
one, and a stop past `WaitForRun` has seen its run over.

`TcpServer_proofs`, of `TcpServer`: `Invariance`, then `TypeCorrect`, `ReadsDoNotBlock`, `StayOnPoll` and `LongListsHaveRoom`.

- `Kept` says that while events are handled only the map and the sender's copy keep a socket open, and neither holds more than `MaxClients`.
  So at most twice that many descriptors are in use, and the least free one is not above them (lemma `FreeDescriptor`: the clients that have
  the descriptors below it would be more than the map and the copy hold). This bounds every descriptor (`Sockets`), and with it the slots of
  the poll (`Polled`), those of removed clients included.
- `Sockets` also says that no two open sockets have one descriptor. With it `Polled` has every event in hand belong to the client whose slot
  it is: a slot that asks for something is that of a client in the map, an event to read is one of a slot that still asks for it, and such a
  client has something unread or has left. A client that is removed in the middle of a cycle gives up its slot, so its descriptor, given to
  the next, brings no event with it. This is what `ReadNeverBlocks` needs.
- `StayOnPoll` speaks of every client that has a slot or for which there is room. Slots are kept while the poll runs, so room that is
  lost is not found again, and a client that has a slot keeps what it asked for. `LongListsHaveRoom` says when all clients are meant: if the
  poll has more slots than twice the clients allowed, or than there are peers. The defaults, 10 slots and 512 clients, do not satisfy that. One
  slot for each client and one for the listening socket are too few: the copy of the map that a sender walks keeps the sockets of removed
  clients open, as many as the map can hold, while new ones are accepted, and a slot is for a descriptor. TLC finds the server with 3
  peers, 1 client and 2 slots in which a client is not polled.
- `Counted` relates what is said, read and shown; `Told` says that only the accepted are told something; `Phases` what is empty in each part
  of a cycle, among others that the clients still in the map when a start begins are those of a run before.

`DevPlayer_proofs` : `Invariance`, then `TypeCorrect` and `Implements` (`Spec => Refines`). `PlayerInv` counts: a record given is played, in
hand or in the queue (`Counted`); in the first run after a reset each in the queue has its task but for the one that waits for room
(`OneTaskEach`), which holds as long as the player is active, and after a restart none has two. `HasRoom` bounds the queue: each start may
find it as long as a stop left it, with a record over the limit. `Controlled` says which threads exist at each step of a start or a stop,
`Fresh` that a reset leaves nothing of the play before, `Ending` that in a first run the end is not known while records are collected. A
step of the player is `Replay`'s `Give` or `Take`, its `Announce` when the end is decided, its `StartAgain` or `Reset`, or a stutter.

`StepWorker_proofs` : `PauseHolds` and `TypeCorrect`. For the first the invariant `Overrun` adds that while a step has been begun since the
pause, the worker is still paused and its thread is not about to test whether to begin another: it would have to pass `Gate` first. For the
second `WorkerInv` says that one caller at a time is in an operation (`OneCall`) and, for each step it may be in and for each state between
operations, whether the thread exists and what is observed (`Lives`), where the two sides of the synchronizer are (`Meets`), and that a
start has one round of it (`Rounds`).

`DeviceTree_proofs` : `Invariance`, then `TypeCorrect` and `AllOrNone`. Whether the children of a device run depends on how far its
operation has come; `Ordered` says, for each operation and place in its loop, which of them may run and which must. It needs `ByParent` (a
device called by its parent is the one its parent has come to), for the return to be counted once, and `ResetAlone` (nothing but what a
reset has called goes on below it), for no operation to survive the device it is of. A child that is added to a device that was set up
belongs to `apart`, which `AllOrNone` excepts.

`Process_proofs` : `Invariance`, then `TypeCorrect`, `EndsCleanly`, `GivesAll`. Any of three threads may be between the two sections of
`wait`: `Collected` relates what the system has answered, the pid, and what was written of it; `Awaited` says that a thread past the loop of
`terminate` has seen the end of the process, or is about to ask for it after the kill; `AloneToWait` that `execute` reads what it
wrote itself, from which the result follows; after a core dump it may ask again, of a pid that is -1, and is answered as if the process ran. `Aimed`
says who may have killed what was not the process. `Descriptors` follows the steps of `terminate`; `Given` says what may be left in a pipe.

**Only model-checked**: the liveness properties, whose proofs need ENABLED. Each type invariant, safety invariant and refinement of the
passing runs is stated by a theorem, and so are two of their action properties, `NeverEarly` and `SilentWriteKeepsBytes`.

## 5. Where the code and its documentation disagree

- `scheduler_emptied`: the worker reads the first element of the map in another critical section than the
  one in which it saw that there is one (Scheduler.cpp:65-78).
- `blocking_service_ready`: a service says it is ready before it raises the flag that a stop lowers
  (Collector.hpp:56-58, Poll.cpp:238-240). A stop in between is lost, and waits for the run for ever.
- `process_stop`: a process service "polls them until the process is stopped" (sys/Process.hpp:177), and a test expects its stop to
  succeed (sys/test/TestProcess.cpp:150). When the process ends by itself, `Process::handle` stops the poll from inside the poll's run
  (Process.cpp:1367), which waits for the mutex that its own thread holds: the run never ends, and no stop returns.

No run is spent on the following, which the models contain:

- `wait_all_jobs` waits "for all jobs to be read by threads" (ThreadPool.hpp:103). Each pop signals one waiter
  (SafeQueue.hpp:83): of two, the second sleeps on. The run `thread_pool` has one client that waits; with the owner as a second
  one `Progress` fails.
- A task with a `run_at` "will be played at this exact time", and one with a `run_in` "relative to the scheduler's unpaused run time"
  (Scheduler.hpp:32). The worker's sleep is not shortened by a task added meanwhile (Scheduler.cpp:71-72): it is played late. A task is taken
  up to 100 ns early (Scheduler.cpp:16, 85). The worker reads the clock (148) after its look at `_paused` (146): when a pause begins
  in between, what passes of it until the clock is read counts as run time, and a delayed task is taken early by as much. `NeverEarly` says
  that this is all.
- "Read remaining pipes" (Process.hpp:77): `terminate` reads each pipe once, 2048 bytes at most (Process.cpp:1277), and closes it. When
  the end of the process is seen before its output has been read, the rest is lost (`AllGiven` without `Terminating` fails).
- `wait` looks at what another thread's `wait` has written (Process.cpp:507-519). When a stop that comes before `_poll.start` and the run
  ask at once, one answer is written over the other: the process is believed to run with a pid of -1, and `terminate` sends SIGKILL
  to pid -1, every process of the user, or to a pid that was given back. So it does for a process that ends with a core dump, which is not counted as
  terminated (Process.cpp:512, 565); `proc::execute` without a timeout never returns from one. `EndsClean` and `ExecuteReturns` say so.
- "write and notify only if a change happened" (Channel.hpp:33): the array grows before the comparison
  (Channel.cpp:166-168), so a write of zeroes past the end of a resizable channel changes the size and is not
  notified. `SilentWriteKeepsBytes` admits that, and nothing else.
- `notify` may be called by a handler (DevMessage.cpp:55) and waits for a mutex that is not recursive (Channel.cpp:184): in a wiring with a cycle of
  such calls one thread waits for itself, or two for each other. No document forbids such a wiring; `CallsReturn` excepts exactly that (`Deadlocked`).
- "check if must play" (DevPlayer.cpp:144): a scheduler is paused when the player is initialised only
  (DevPlayer.cpp:105), and stopping it takes the pause away (Scheduler.cpp:215). Started again without a reset, which
  ServiceController.cpp:23 admits, the player plays though `play` is false.
- DevPulsation.cpp:85-86: a write of `activate` between the read and the pause is undone, and the pulsation is
  silent though it is active.

## 6. Limits

- *Server*: `poll_limit` and `max_clients` are independent (10 and 512 by default), and the answer of `add_client_read` is ignored
  (BasicServerHandler.cpp:175): a client accepted without a slot stays in the map and is never read nor written to. A slot is needed for the
  listening socket and for each descriptor in use, also those that only a sender still holds (section 4). What a client said is lost when
  `rx` refuses the write (DeviceTcpServer.cpp:196), which happens while the channel is being notified. A send that fails only sets `error`
  (BasicServerHandler.cpp:209), which the next read of the client sets again: the message is gone and the client stays. A stop between
  `service_set_ready` and the poll's `_stop = false` is lost (`ctl = "lost"`), as in section 5. The clients of a stopped server stay in its
  map, count as clients, and are not polled by the next run (`old`). `server()` is null before the first cycle ends, so a sender waits for
  it (`known`). A client that always has something to say is never written to, since an event is either; `send_all` waits with the mutex
  when a peer does not read; a second answer replaces one that was not sent. Removing a client from another thread leaves its event, whose
  descriptor may by then be another's; only the device removes clients here. Errors of the listening socket, which make the serving thread
  stop, and so wait for, itself, are left out.
- *Player*: the end may be announced while the last record taken is being written. A limit of 0 blocks the
  worker at its first record. A stop leaves records in the queue and tasks in the scheduler, and drops the task of a record that waits for room, so
  that after a restart without a reset some records may have no task: they are not played and the end is not announced. `_last_record` and
  `_end_notified` are those of the run before until the worker resets them: a task left from it may then announce the end of the new run before
  it has begun, and keep it from being announced when it comes. A provider that ends when it is empty looks whether it is when it gives a
  record: a player that is started again after the last one waits until it is stopped. `on_stop` joins the worker before it stops the
  collector (DevPlayer.cpp:227), so that it returns only because the provider, a sibling that was added before, has been stopped.
- *Step worker*: `AThreadedService` has the same barrier around its `on_start`: a thread of a service whose start is not synchronised waits
  at it for ever, and so does a synchronised start whose `on_start` failed. No caller uses the timeout of `sync`, which would leave its
  count behind. A sample that its output channel refuses, being notified, is lost until its input is written again (DevSampler.cpp:127-130):
  its channel has left the set. A failed start leaves its observations, and a device in the state error has no operation to remove them.
- *Tree*: children are stopped in the order in which they were started, not the reverse. A child that is added while an operation walks the list of
  children, which is undefined, is left out. A child operated on by itself makes
  the next operation of its parent fail when its state does not admit it, and `error` admits none. `Device::~Device` stops and
  resets by the last event of its controller (Device.cpp:48-51), which after an operation is `success` or `error`: it does nothing then; `Core`
  keeps flags of its own (Core.cpp:18-24).
- *Process*: a process is executed once; its standard input, redirections to files and other processes, and a process that is stopped and
  continued are left out. A process that it has launched may keep its pipes open but does not write to them. A failed launch leaves the
  pipes' write ends open (Process.cpp:1199-1204). A `wait_exit` that blocks holds the watcher's mutex, which `poll` needs: a user that calls
  it while the process has a pipe to fill waits for ever.

- A `run_in` task added during a pause is put off on resume by the whole pause
  (Scheduler.cpp:181-189): it is not early for that, and may be later than its delay.
- A stop between an accepted start and its mutex catches no run: it returns, and the run goes on
  afterwards. `StopJoins` and `CaughtRunEnds` speak of a caught run.
- The state of the controller is written again when an operation ends (BlockingServiceController.cpp:42): a
  run that ends by itself leaves `Running`, and the ends of a start and a stop overwrite each other. The
  model has this; no property speaks of it, as no document promises an order.
- `notify_observers` nested in itself on one object is not modelled. Channels cannot nest (their
  `_notify_mutex` is not recursive); observers of a service's state could.
- A handler subscribes only to the channel that notifies it. Subscribing to another from a handler takes a
  second mutex; the devices subscribe in `on_start`.
- The reading and copying of channels and queues, which change nothing, the statistics of threads and
  scheduler, and logging are left out.
- Not modelled at all: the conversions, the adapters of libraries and the user interfaces (section 1).

## 7. Plan

In order of importance; each module is written to be proved about: constants with named
assumptions, one action per operation, no recursive operator.

1. `SafeQueue`/`ThreadPool`, `Scheduler`, `Observable`/`Channel`, `BlockingService`: done, as above.
2. `TcpServer`, `Replay`/`DevPlayer`, `StepWorker`, `DeviceTree`, `Process`: done, as above.
3. Proofs: the type invariant and every safety invariant of the nine passing runs, and both refinements: done (section 4). What
   is left to TLC is liveness.
4. Not modelled yet and worth it: `DevFilter`'s rules and delayed writers, `DevMessage`'s writes around the channel's mutexes,
   `AThreadedService` with several threads, removal of a client by another thread.
5. Not planned: conversions, containers, parsing and the wrappers of the system and of libraries (section 1). They are most of
   the repository's lines; they are sequential, or their state is in the library.
