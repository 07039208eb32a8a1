----------------------------- MODULE ThreadPool -----------------------------
(***************************************************************************)
(* sihd::util::ThreadPool: threads that pop jobs from one SafeQueue and    *)
(* run them, and the clients of the pool, which add jobs, complete a batch *)
(* of jobs, wait for the queue to be read, and stop the pool.              *)
(*                                                                         *)
(* Jobs are numbered in the order in which they enter the queue.  A job is *)
(* a packaged_task: future[j] is "ready" when it has run and "broken" when *)
(* it was destroyed without having run.                                    *)
(***************************************************************************)
EXTENDS SafeQueue, FiniteSets

CONSTANTS NumThreads,   \* number_of_threads
          Clients,      \* the threads that use the pool
          Owner,        \* the client that stops and destroys it
          Waiters,      \* the clients that call wait_all_jobs
          MaxJobs,      \* bound: jobs added in a behaviour
          MaxBatch      \* bound: number_of_jobs of complete_all_jobs

ASSUME ThreadPoolAssumption ==
    /\ NumThreads \in Nat \ {0} /\ MaxJobs \in Nat /\ MaxBatch \in Nat
    /\ Owner \in Clients /\ Waiters \subseteq Clients
    /\ Clients \cap Nat = {}

Threads == 1 .. NumThreads
Jobs    == 1 .. MaxJobs
NoJob   == 0

VARIABLES pc,        \* where each thread of the pool is in _loop
          job,       \* the job a thread holds
          stop,      \* Thread::_stop
          call,      \* the call each client is in
          left,      \* jobs the client's call has still to add
          batch,     \* jobs whose futures the client's call waits for
          joining,   \* the thread ThreadPool::stop is at
          reserved,  \* jobs the calls begun so far have asked for
          added,     \* number of jobs added so far
          future,    \* the state of each job's future
          runs,      \* how many times each job was run
          read       \* the last job added when wait_all_jobs found no job left

queueVars  == <<queue, terminated, cvPush, cvPop>>
threadVars == <<pc, job, stop>>
clientVars == <<call, left, batch, reserved>>
jobVars    == <<added, future, runs, read>>
vars == <<queueVars, threadVars, clientVars, joining, jobVars>>

Init == /\ SafeQueueInit
        /\ pc = [t \in Threads |-> "check"]
        /\ job = [t \in Threads |-> NoJob]
        /\ stop = [t \in Threads |-> FALSE]
        /\ call = [c \in Clients |-> "none"]
        /\ left = [c \in Clients |-> 0]
        /\ batch = [c \in Clients |-> {}]
        /\ joining = 0
        /\ reserved = 0
        /\ added = 0
        /\ future = [j \in Jobs |-> "pending"]
        /\ runs = [j \in Jobs |-> 0]
        /\ read = 0

-----------------------------------------------------------------------------
(* Thread::_loop.  The notification of pop comes after its unlock.         *)

CheckStop(t) == /\ pc[t] = "check"
                /\ pc' = [pc EXCEPT ![t] = IF stop[t] THEN "exited" ELSE "pop"]
                /\ UNCHANGED <<queueVars, clientVars, jobVars, job, stop, joining>>

PopSleeps(t) == /\ pc[t] = "pop"
                /\ PopWait(t)
                /\ UNCHANGED <<threadVars, clientVars, jobVars, joining>>

PopEnds(t) == /\ pc[t] = "pop"
              /\ PopThrows(t)
              /\ pc' = [pc EXCEPT ![t] = "exited"]
              /\ UNCHANGED <<clientVars, jobVars, job, stop, joining>>

PopJob(t) == /\ pc[t] = "pop"
             /\ PopTakes(t)
             /\ job' = [job EXCEPT ![t] = Head(queue)]
             /\ pc' = [pc EXCEPT ![t] = "popped"]
             /\ UNCHANGED <<clientVars, jobVars, stop, joining>>

NotifyPopped(t) == /\ pc[t] = "popped"
                   /\ NotifyOne(cvPop, cvPop')
                   /\ pc' = [pc EXCEPT ![t] = "run"]
                   /\ UNCHANGED <<clientVars, jobVars, queue, terminated, cvPush, job, stop,
                                  joining>>

(* job(), whatever it does, ends by setting the promise.                   *)
RunJob(t) == /\ pc[t] = "run"
             /\ runs' = [runs EXCEPT ![job[t]] = @ + 1]
             /\ future' = [future EXCEPT ![job[t]] = "ready"]
             /\ job' = [job EXCEPT ![t] = NoJob]
             /\ pc' = [pc EXCEPT ![t] = "check"]
             /\ UNCHANGED <<queueVars, clientVars, stop, joining, added, read>>

Thread(t) == \/ CheckStop(t) \/ PopSleeps(t) \/ PopEnds(t) \/ PopJob(t)
             \/ NotifyPopped(t) \/ RunJob(t)

-----------------------------------------------------------------------------
(* add_job and complete_all_jobs: add_job is a batch of one job that the   *)
(* caller may or may not wait for.                                         *)

BeginAdd(c) == /\ call[c] = "none"
               /\ \E n \in 1 .. MaxBatch :
                    /\ reserved + n <= MaxJobs
                    /\ reserved' = reserved + n
                    /\ left' = [left EXCEPT ![c] = n]
               /\ call' = [call EXCEPT ![c] = "add"]
               /\ UNCHANGED <<queueVars, threadVars, jobVars, batch, joining>>

AddJob(c) == /\ call[c] = "add" /\ added < MaxJobs
             /\ Push(added + 1, 0)
             /\ added' = added + 1
             /\ batch' = [batch EXCEPT ![c] = @ \cup {added + 1}]
             /\ left' = [left EXCEPT ![c] = @ - 1]
             /\ call' = [call EXCEPT ![c] = "added"]
             /\ UNCHANGED <<threadVars, reserved, joining, future, runs, read>>

NotifyAdded(c) == /\ call[c] = "added"
                  /\ NotifyOne(cvPush, cvPush')
                  /\ call' = [call EXCEPT ![c] = IF left[c] = 0 THEN "get" ELSE "add"]
                  /\ UNCHANGED <<threadVars, jobVars, queue, terminated, cvPop, left, batch,
                                 reserved, joining>>

Resolved(j) == future[j] # "pending"

(* future.wait on every future, then future.get, which returns or throws.  *)
GetFutures(c) == /\ call[c] = "get"
                 /\ \A j \in batch[c] : Resolved(j)
                 /\ call' = [call EXCEPT ![c] = "none"]
                 /\ batch' = [batch EXCEPT ![c] = {}]
                 /\ UNCHANGED <<queueVars, threadVars, jobVars, left, reserved, joining>>

(* add_job alone: the caller leaves with a future it does not wait for.    *)
LeaveFuture(c) == /\ call[c] = "get" /\ Cardinality(batch[c]) = 1
                  /\ call' = [call EXCEPT ![c] = "none"]
                  /\ batch' = [batch EXCEPT ![c] = {}]
                  /\ UNCHANGED <<queueVars, threadVars, jobVars, left, reserved, joining>>

-----------------------------------------------------------------------------
(* wait_all_jobs                                                           *)

BeginWait(c) == /\ call[c] = "none" /\ c \in Waiters
                /\ call' = [call EXCEPT ![c] = "space"]
                /\ UNCHANGED <<queueVars, threadVars, jobVars, left, batch, joining, reserved>>

WaitSleeps(c) == /\ call[c] = "space"
                 /\ SpaceWait(c, 1)
                 /\ UNCHANGED <<threadVars, clientVars, jobVars, joining>>

WaitReturns(c) == /\ call[c] = "space"
                  /\ SpaceReturns(c, 1)
                  /\ call' = [call EXCEPT ![c] = "none"]
                  /\ read' = IF terminated THEN read ELSE added
                  /\ UNCHANGED <<threadVars, left, batch, joining, reserved, added, future, runs>>

-----------------------------------------------------------------------------
(* stop, which the destructor calls too.  terminate destroys the jobs that *)
(* are still in the queue; then each thread in turn is told to stop and is *)
(* joined.                                                                 *)

Discarded(fut) == [j \in Jobs |-> IF \E i \in 1 .. Len(queue) : queue[i] = j
                                  THEN "broken" ELSE fut[j]]

BeginStop(c) == /\ call[c] = "none" /\ c = Owner
                /\ TerminateLocked
                /\ future' = Discarded(future)
                /\ call' = [call EXCEPT ![c] = "terminated"]
                /\ UNCHANGED <<threadVars, left, batch, joining, reserved, added, runs, read>>

StopNotifies(c) == /\ call[c] = "terminated"
                   /\ TerminateNotify
                   /\ joining' = 1
                   /\ call' = [call EXCEPT ![c] = "stop"]
                   /\ UNCHANGED <<threadVars, jobVars, left, batch, reserved>>

StopThread(c) == /\ call[c] = "stop"
                 /\ stop' = [stop EXCEPT ![joining] = TRUE]
                 /\ call' = [call EXCEPT ![c] = "join"]
                 /\ UNCHANGED <<queueVars, jobVars, pc, job, left, batch, joining, reserved>>

(* Mutants: the last thread is not recognised; the thread is not waited for.*)
JoinThread_PastEnd(c) == /\ call[c] = "join" /\ joining <= NumThreads
                         /\ pc[joining] = "exited"
                         /\ joining' = joining + 1
                         /\ call' = [call EXCEPT ![c] = "stop"]
                         /\ UNCHANGED <<queueVars, threadVars, jobVars, left, batch, reserved>>

JoinThread_NoWait(c) == /\ call[c] = "join"
                        /\ IF joining = NumThreads
                           THEN joining' = 0 /\ call' = [call EXCEPT ![c] = "none"]
                           ELSE joining' = joining + 1 /\ call' = [call EXCEPT ![c] = "stop"]
                        /\ UNCHANGED <<queueVars, threadVars, jobVars, left, batch, reserved>>

JoinThread(c) == /\ call[c] = "join"
                 /\ pc[joining] = "exited"
                 /\ IF joining = NumThreads
                    THEN joining' = 0 /\ call' = [call EXCEPT ![c] = "none"]
                    ELSE joining' = joining + 1 /\ call' = [call EXCEPT ![c] = "stop"]
                 /\ UNCHANGED <<queueVars, threadVars, jobVars, left, batch, reserved>>

Wakeup(u) == /\ SpuriousWakeup(u)
             /\ UNCHANGED <<threadVars, clientVars, jobVars, joining>>

Client(c) == \/ BeginAdd(c) \/ AddJob(c) \/ NotifyAdded(c) \/ GetFutures(c) \/ LeaveFuture(c)
             \/ BeginWait(c) \/ WaitSleeps(c) \/ WaitReturns(c)
             \/ BeginStop(c) \/ StopNotifies(c) \/ StopThread(c) \/ JoinThread(c)

Next == \/ \E t \in Threads : Thread(t)
        \/ \E c \in Clients : Client(c)
        \/ \E u \in Threads \cup Clients : Wakeup(u)

Safety == Init /\ [][Next]_vars

(* Every thread runs, and a job that was started ends; nothing makes a     *)
(* client begin a call, but it goes on with the one it is in.              *)
Proceed(c) == \/ AddJob(c) \/ NotifyAdded(c) \/ GetFutures(c)
              \/ WaitSleeps(c) \/ WaitReturns(c)
              \/ StopNotifies(c) \/ StopThread(c) \/ JoinThread(c)

Fairness == /\ \A t \in Threads : WF_vars(Thread(t))
            /\ \A c \in Clients : WF_vars(Proceed(c))

Spec == Safety /\ Fairness
-----------------------------------------------------------------------------
InQueue(j)  == \E i \in 1 .. Len(queue) : queue[i] = j
Holds(t)    == pc[t] \in {"popped", "run"}

TypeOK ==
    /\ queue \in Seq(Jobs)
    /\ terminated \in BOOLEAN
    /\ cvPush \subseteq Threads
    /\ cvPop \subseteq Clients
    /\ pc \in [Threads -> {"check", "pop", "popped", "run", "exited"}]
    /\ job \in [Threads -> Jobs \cup {NoJob}]
    /\ stop \in [Threads -> BOOLEAN]
    /\ call \in [Clients -> {"none", "add", "added", "get", "space", "terminated", "stop",
                             "join"}]
    /\ left \in [Clients -> Nat]
    /\ batch \in [Clients -> SUBSET Jobs]
    /\ joining \in 0 .. NumThreads
    /\ reserved \in 0 .. MaxJobs
    /\ added \in 0 .. MaxJobs
    /\ future \in [Jobs -> {"pending", "ready", "broken"}]
    /\ runs \in [Jobs -> Nat]
    /\ read \in 0 .. MaxJobs

(* A job that waits in the queue is never forgotten: some thread of the    *)
(* pool is awake, or push is about to wake one.  And once terminate has    *)
(* sent its notifications no thread sleeps in pop, so stop can join it.    *)
NoLostWakeup ==
    /\ queue # << >> /\ ~terminated =>
         \/ \E t \in Threads : t \notin cvPush
         \/ \E c \in Clients : call[c] = "added"
    /\ terminated /\ call[Owner] # "terminated" => cvPush = {}

Stopped == terminated /\ call[Owner] \notin {"terminated", "stop", "join"}

(* "stop all jobs from being processed then kill all threads": when stop   *)
(* has returned every thread has left its loop, and every job was run to   *)
(* its end or its promise broken, but for those added after the stop.      *)
StopDrains ==
    Stopped => /\ \A t \in Threads : pc[t] = "exited"
               /\ \A j \in 1 .. added : Resolved(j) # InQueue(j)

(* A job that was added before wait_all_jobs found the queue empty is run, *)
(* whatever the order of the stop that follows and the thread that read it.*)
ReadJobsRun == \A j \in 1 .. read : future[j] # "broken"

(* The pool keeps the promises of JobPool.                                 *)
Pool == INSTANCE JobPool WITH
            Width     <- NumThreads,
            waiting   <- queue,
            running   <- {job[t] : t \in {t \in Threads : Holds(t)}},
            finished  <- {j \in Jobs : runs[j] > 0},
            discarded <- {j \in Jobs : future[j] = "broken"},
            submitted <- added,
            closed    <- terminated

Refines == Pool!Spec

(* A job that waits in the queue is run, or discarded by a stop; stop      *)
(* returns, and so does wait_all_jobs; complete_all_jobs does when the pool*)
(* was not stopped before its last job was added.                          *)
JobsResolve == \A j \in Jobs : InQueue(j) /\ ~terminated ~> Resolved(j)
StopReturns == call[Owner] = "terminated" ~> call[Owner] = "none"
WaitReturnsToCaller == \A c \in Waiters : call[c] = "space" ~> call[c] = "none"
BatchReturns ==
    \A c \in Clients : call[c] = "get" ~> \/ call[c] = "none"
                                          \/ terminated /\ \E j \in batch[c] : InQueue(j)
Progress == JobsResolve /\ StopReturns /\ WaitReturnsToCaller /\ BatchReturns
=============================================================================
