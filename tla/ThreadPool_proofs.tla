-------------------------- MODULE ThreadPool_proofs --------------------------
(***************************************************************************)
(* Proofs about ThreadPool, for every number of threads, clients and jobs. *)
(***************************************************************************)
EXTENDS ThreadPool, FiniteSetTheorems, TLAPS

(* A call that is about to add a job has one left to add: with this, and   *)
(* only with this, the types are kept by every step.                       *)
HasJobToAdd == \A c \in Clients : call[c] = "add" => left[c] > 0

TypeInv == TypeOK /\ HasJobToAdd

(* The first and the last thread that stop joins exist: a pool has         *)
(* threads.                                                                *)
LEMMA ThreadsNotEmpty == 1 \in Threads /\ NumThreads \in Threads
  BY ThreadPoolAssumption DEF Threads

(* The initial state is well typed.                                        *)
LEMMA InitTypeInv == Init => TypeInv
  <1> SUFFICES ASSUME Init PROVE TypeInv
    OBVIOUS
  <1> USE ThreadPoolAssumption DEF Init, SafeQueueInit
  <1>1. /\ queue \in Seq(Jobs)
        /\ terminated \in BOOLEAN
        /\ cvPush \subseteq Threads /\ cvPop \subseteq Clients
    <2>1. queue \in Seq(Jobs)
      OBVIOUS
    <2> QED BY <2>1, Zenon
  <1>2. /\ pc \in [Threads -> {"check", "pop", "popped", "run", "exited"}]
        /\ job \in [Threads -> Jobs \cup {NoJob}]
        /\ stop \in [Threads -> BOOLEAN]
    OBVIOUS
  <1>3. /\ call \in [Clients -> {"none", "add", "added", "get", "space", "terminated", "stop",
                                "join"}]
        /\ left \in [Clients -> Nat]
        /\ batch \in [Clients -> SUBSET Jobs]
    OBVIOUS
  <1>4. joining \in 0 .. NumThreads /\ reserved \in 0 .. MaxJobs /\ added \in 0 .. MaxJobs
    OBVIOUS
  <1>5. /\ future \in [Jobs -> {"pending", "ready", "broken"}]
        /\ runs \in [Jobs -> Nat]
        /\ read \in 0 .. MaxJobs
    OBVIOUS
  <1>6. HasJobToAdd
    BY DEF HasJobToAdd
  <1> QED BY <1>1, <1>2, <1>3, <1>4, <1>5, <1>6 DEF TypeInv, TypeOK

(* Every step of a thread of the pool keeps the types.                     *)
LEMMA ThreadTypeInv == ASSUME TypeInv, NEW t \in Threads, Thread(t) PROVE TypeInv'
  <1> USE ThreadPoolAssumption DEF TypeInv, TypeOK, HasJobToAdd
  <1>1. CASE CheckStop(t)
    BY <1>1 DEF CheckStop, queueVars, clientVars, jobVars
  <1>2. CASE PopSleeps(t)
    BY <1>2 DEF PopSleeps, PopWait, threadVars, clientVars, jobVars
  <1>3. CASE PopEnds(t)
    BY <1>3 DEF PopEnds, PopThrows, clientVars, jobVars
  <1>4. CASE PopJob(t)
    <2>1. Head(queue) \in Jobs /\ Tail(queue) \in Seq(Jobs)
      BY <1>4 DEF PopJob, PopTakes
    <2> QED BY <1>4, <2>1 DEF PopJob, PopTakes, clientVars, jobVars
  <1>5. CASE NotifyPopped(t)
    BY <1>5 DEF NotifyPopped, NotifyOne, clientVars, jobVars
  <1>6. CASE RunJob(t)
    <2>1. runs' \in [Jobs -> Nat]
      <3>1. runs' = [runs EXCEPT ![job[t]] = runs[job[t]] + 1]
        BY <1>6 DEF RunJob
      <3>2. ASSUME NEW j \in Jobs PROVE runs'[j] \in Nat
        BY <3>1
      <3> QED BY <3>1, <3>2
    <2>2. future' \in [Jobs -> {"pending", "ready", "broken"}]
      BY <1>6 DEF RunJob
    <2>3. /\ job' \in [Threads -> Jobs \cup {NoJob}]
          /\ pc' \in [Threads -> {"check", "pop", "popped", "run", "exited"}]
      BY <1>6 DEF RunJob
    <2> QED BY <1>6, <2>1, <2>2, <2>3 DEF RunJob, queueVars, clientVars
  <1> QED BY <1>1, <1>2, <1>3, <1>4, <1>5, <1>6 DEF Thread
(* So does every step of a client.                                         *)
LEMMA ClientTypeInv == ASSUME TypeInv, NEW c \in Clients, Client(c) PROVE TypeInv'
  <1> USE ThreadPoolAssumption DEF TypeInv, TypeOK, HasJobToAdd
  <1>1. CASE BeginAdd(c)
    <2>1. PICK n \in 1 .. MaxBatch : /\ reserved + n <= MaxJobs
                                    /\ reserved' = reserved + n
                                    /\ left' = [left EXCEPT ![c] = n]
      BY <1>1 DEF BeginAdd
    <2>2. reserved' \in 0 .. MaxJobs /\ left' \in [Clients -> Nat]
      BY <2>1
    <2> QED BY <1>1, <2>1, <2>2 DEF BeginAdd, queueVars, threadVars, jobVars
  <1>2. CASE AddJob(c)
    <2>1. added + 1 \in Jobs /\ added' \in 0 .. MaxJobs
      BY <1>2 DEF AddJob, Jobs
    <2>2. queue' \in Seq(Jobs)
      BY <1>2, <2>1 DEF AddJob, Push
    <2>3. left' \in [Clients -> Nat]
      BY <1>2 DEF AddJob
    <2>4. batch' \in [Clients -> SUBSET Jobs]
      BY <1>2, <2>1 DEF AddJob
    <2> QED BY <1>2, <2>1, <2>2, <2>3, <2>4 DEF AddJob, Push, threadVars
  <1>3. CASE NotifyAdded(c)
    BY <1>3 DEF NotifyAdded, NotifyOne, threadVars, jobVars
  <1>4. CASE GetFutures(c)
    BY <1>4 DEF GetFutures, queueVars, threadVars, jobVars
  <1>5. CASE LeaveFuture(c)
    BY <1>5 DEF LeaveFuture, queueVars, threadVars, jobVars
  <1>6. CASE BeginWait(c)
    BY <1>6 DEF BeginWait, queueVars, threadVars, jobVars
  <1>7. CASE WaitSleeps(c)
    BY <1>7 DEF WaitSleeps, SpaceWait, threadVars, clientVars, jobVars
  <1>8. CASE WaitReturns(c)
    BY <1>8 DEF WaitReturns, SpaceReturns, threadVars
  <1>9. CASE BeginStop(c)
    <2>1. future' \in [Jobs -> {"pending", "ready", "broken"}]
      BY <1>9 DEF BeginStop, Discarded
    <2>2. queue' \in Seq(Jobs)
      BY <1>9 DEF BeginStop, TerminateLocked
    <2> QED BY <1>9, <2>1, <2>2 DEF BeginStop, TerminateLocked, threadVars
  <1>10. CASE StopNotifies(c)
    BY <1>10 DEF StopNotifies, TerminateNotify, threadVars, jobVars
  <1>11. CASE StopThread(c)
    BY <1>11 DEF StopThread, queueVars, jobVars
  <1>12. CASE JoinThread(c)
    <2>1. joining' \in 0 .. NumThreads
      BY <1>12 DEF JoinThread
    <2>2. \E where \in {"none", "stop"} : call' = [call EXCEPT ![c] = where]
      BY <1>12 DEF JoinThread
    <2>3. UNCHANGED <<queueVars, threadVars, jobVars, left, batch, reserved>>
      BY <1>12 DEF JoinThread
    <2> QED BY <2>1, <2>2, <2>3 DEF queueVars, threadVars, jobVars
  <1> QED BY <1>1, <1>2, <1>3, <1>4, <1>5, <1>6, <1>7, <1>8, <1>9, <1>10, <1>11, <1>12 DEF Client

(* A spurious wake-up only takes a thread out of cvPush and cvPop.         *)
LEMMA WakeupTypeInv == ASSUME TypeInv, NEW u, Wakeup(u) PROVE TypeInv'
  <1>1. TypeOK'
    BY DEF TypeInv, TypeOK, Wakeup, SpuriousWakeup, threadVars, clientVars, jobVars
  <1>2. HasJobToAdd'
    BY DEF TypeInv, HasJobToAdd, Wakeup, clientVars
  <1> QED BY <1>1, <1>2 DEF TypeInv

(* Every step keeps the types and the job a client has still to add.       *)
LEMMA NextTypeInv == TypeInv /\ [Next]_vars => TypeInv'
  <1> SUFFICES ASSUME TypeInv, [Next]_vars PROVE TypeInv'
    OBVIOUS
  <1>1. CASE \E t \in Threads : Thread(t)
    BY <1>1, ThreadTypeInv
  <1>2. CASE \E c \in Clients : Client(c)
    BY <1>2, ClientTypeInv
  <1>3. CASE \E u \in Threads \cup Clients : Wakeup(u)
    BY <1>3, WakeupTypeInv
  <1>4. CASE UNCHANGED vars
    <2>1. TypeOK'
      BY <1>4 DEF vars, queueVars, threadVars, clientVars, jobVars, TypeInv, TypeOK
    <2>2. HasJobToAdd'
      BY <1>4 DEF vars, clientVars, TypeInv, HasJobToAdd
    <2> QED BY <2>1, <2>2 DEF TypeInv
  <1> QED BY <1>1, <1>2, <1>3, <1>4 DEF Next

(* The state of the pool is well typed in every behaviour: a call never    *)
(* adds more jobs than it was asked to, and stop visits only threads that  *)
(* exist.                                                                  *)
THEOREM TypeCorrect == Safety => []TypeOK
  <1>1. Safety => []TypeInv
    BY InitTypeInv, NextTypeInv, PTL DEF Safety
  <1> QED BY <1>1, PTL DEF TypeInv
-----------------------------------------------------------------------------
(* NoLostWakeup is inductive, given the types: the two places where a      *)
(* thread falls asleep or a job comes in re-establish it by themselves.    *)
LEMMA WakeupStep == ASSUME TypeInv, NoLostWakeup, [Next]_vars PROVE NoLostWakeup'
  <1> USE DEF NoLostWakeup
  <1> DEFINE Awake == \E t \in Threads : t \notin cvPush
  <1>1. ASSUME NEW t \in Threads, Thread(t) PROVE NoLostWakeup'
    <2>1. UNCHANGED <<call, terminated>>
      BY <1>1 DEF Thread, CheckStop, PopSleeps, PopEnds, PopJob, NotifyPopped, RunJob, PopWait,
                  PopThrows, PopTakes, queueVars, clientVars
    <2>2. CASE PopSleeps(t)
      BY <2>1, <2>2 DEF PopSleeps, PopWait
    <2>3. CASE PopJob(t)
      <3>1. UNCHANGED cvPush /\ t \notin cvPush /\ ~terminated
        BY <2>3 DEF PopJob, PopTakes
      <3> QED BY <2>1, <3>1
    <2>4. CASE ~PopSleeps(t) /\ ~PopJob(t)
      <3>1. UNCHANGED <<queue, cvPush>>
        BY <1>1, <2>4 DEF Thread, CheckStop, PopEnds, NotifyPopped, RunJob, PopThrows, queueVars
      <3> QED BY <2>1, <3>1
    <2> QED BY <2>2, <2>3, <2>4
  <1>2. ASSUME NEW c \in Clients, Client(c) PROVE NoLostWakeup'
    <2>0. call \in [Clients -> {"none", "add", "added", "get", "space", "terminated", "stop",
                               "join"}]
          /\ cvPush \subseteq Threads /\ Owner \in Clients
      BY ThreadPoolAssumption DEF TypeInv, TypeOK
    <2>1. CASE AddJob(c)
      <3>1. call'[c] = "added" /\ UNCHANGED <<terminated, cvPush>>
        BY <2>0, <2>1 DEF AddJob, Push
      <3>2. call[Owner] = "terminated" => call'[Owner] = "terminated"
        BY <2>0, <2>1 DEF AddJob
      <3> QED BY <3>1, <3>2
    <2>2. CASE NotifyAdded(c)
      <3>1. \E t \in Threads : t \notin cvPush'
        BY <2>0, <2>2, ThreadsNotEmpty DEF NotifyAdded, NotifyOne
      <3>2. cvPush' \subseteq cvPush /\ UNCHANGED terminated
        BY <2>2 DEF NotifyAdded, NotifyOne
      <3>3. call[Owner] = "terminated" => call'[Owner] = "terminated"
        BY <2>0, <2>2 DEF NotifyAdded
      <3> QED BY <3>1, <3>2, <3>3
    <2>3. CASE BeginStop(c)
      BY <2>0, <2>3 DEF BeginStop, TerminateLocked
    <2>4. CASE StopNotifies(c)
      BY <2>4, ThreadsNotEmpty DEF StopNotifies, TerminateNotify
    <2>5. CASE ~AddJob(c) /\ ~NotifyAdded(c) /\ ~BeginStop(c) /\ ~StopNotifies(c)
      <3>1. UNCHANGED <<queue, terminated, cvPush>>
        BY <1>2, <2>5 DEF Client, BeginAdd, GetFutures, LeaveFuture, BeginWait, WaitSleeps,
             WaitReturns, StopThread, JoinThread, SpaceWait, SpaceReturns, queueVars
      <3>2. call[c] \notin {"added", "terminated"} \/ UNCHANGED call
        BY <1>2, <2>5 DEF Client, BeginAdd, GetFutures, LeaveFuture, BeginWait, WaitSleeps,
             WaitReturns, StopThread, JoinThread, clientVars
      <3>3. \A d \in Clients : d # c => call'[d] = call[d]
        BY <2>0, <1>2, <2>5 DEF Client, BeginAdd, GetFutures, LeaveFuture, BeginWait, WaitSleeps,
             WaitReturns, StopThread, JoinThread, clientVars
      <3>4. call[Owner] = "terminated" => call'[Owner] = "terminated"
        BY <2>0, <3>2, <3>3
      <3>5. \A d \in Clients : call[d] = "added" => call'[d] = "added"
        BY <3>2, <3>3
      <3> QED BY <3>1, <3>4, <3>5
    <2> QED BY <1>2, <2>1, <2>2, <2>3, <2>4, <2>5
  <1>3. ASSUME NEW u, Wakeup(u) PROVE NoLostWakeup'
    <2>1. UNCHANGED <<queue, terminated, call>> /\ cvPush' \subseteq cvPush
      BY <1>3 DEF Wakeup, SpuriousWakeup, clientVars
    <2> QED BY <2>1
  <1>4. CASE UNCHANGED vars
    BY <1>4 DEF vars, queueVars, clientVars
  <1> QED BY <1>1, <1>2, <1>3, <1>4 DEF Next

(* No wake-up is lost: while a job is in the queue of a pool that runs, a  *)
(* thread is awake or push is about to wake one, and none sleeps in pop    *)
(* once terminate has sent its notifications.                              *)
THEOREM WakeupsKept == Safety => []NoLostWakeup
  <1>1. Init => NoLostWakeup
    BY DEF Init, SafeQueueInit, NoLostWakeup
  <1> QED BY <1>1, InitTypeInv, NextTypeInv, WakeupStep, PTL DEF Safety
-----------------------------------------------------------------------------
(* What stop relies on.  Only the owner stops the pool; the threads before *)
(* the one it is at have left their loop, and none of them comes back.     *)
Stopping == {"terminated", "stop", "join"}

JoinOrder ==
    /\ \A c \in Clients : call[c] \in Stopping => c = Owner /\ terminated
    /\ call[Owner] \in {"stop", "join"} =>
         /\ joining \in Threads
         /\ \A t \in Threads : t < joining => pc[t] = "exited"
    /\ terminated /\ call[Owner] \notin Stopping => \A t \in Threads : pc[t] = "exited"

(* Where the jobs are: the queue is in the order of their numbers, a job   *)
(* is in one place, and it is unresolved as long as it is in one.          *)
QueueOrder ==
    /\ \A i \in 1 .. Len(queue) : queue[i] <= added
    /\ \A i, k \in 1 .. Len(queue) : i < k => queue[i] < queue[k]

OneHolder ==
    /\ \A t \in Threads : Holds(t) => job[t] \in 1 .. added /\ ~InQueue(job[t])
    /\ \A t, u \in Threads : Holds(t) /\ Holds(u) /\ t # u => job[t] # job[u]

Held(j) == \E t \in Threads : Holds(t) /\ job[t] = j

PendingIsSomewhere ==
    \A j \in Jobs : Resolved(j) <=> j <= added /\ ~InQueue(j) /\ ~Held(j)

JobsInv == QueueOrder /\ OneHolder /\ PendingIsSomewhere

(* The jobs added before the queue was found empty are not in it, and only *)
(* terminate breaks promises.                                              *)
ReadPast ==
    /\ read <= added
    /\ \A i \in 1 .. Len(queue) : queue[i] > read
    /\ ~terminated => \A j \in Jobs : future[j] # "broken"
    /\ ReadJobsRun

(* Every step keeps what stop knows of the threads it has joined.          *)
LEMMA JoinOrderStep == ASSUME TypeInv, JoinOrder, [Next]_vars PROVE JoinOrder'
  <1> USE DEF JoinOrder, Stopping
  <1>0. /\ call \in [Clients -> {"none", "add", "added", "get", "space", "terminated", "stop",
                                "join"}]
        /\ pc \in [Threads -> {"check", "pop", "popped", "run", "exited"}]
        /\ Owner \in Clients /\ joining \in 0 .. NumThreads /\ NumThreads \in Nat \ {0}
    BY ThreadPoolAssumption DEF TypeInv, TypeOK
  <1>1. ASSUME NEW t \in Threads, Thread(t) PROVE JoinOrder'
    <2>1. UNCHANGED <<call, terminated, joining>>
      BY <1>1 DEF Thread, CheckStop, PopSleeps, PopEnds, PopJob, NotifyPopped, RunJob, PopWait,
                  PopThrows, PopTakes, queueVars, clientVars
    <2>2. \A u \in Threads : pc[u] = "exited" => pc'[u] = "exited"
      BY <1>0, <1>1 DEF Thread, CheckStop, PopSleeps, PopEnds, PopJob, NotifyPopped, RunJob,
                        threadVars
    <2> QED BY <2>1, <2>2
  <1>2. ASSUME NEW c \in Clients, Client(c) PROVE JoinOrder'
    <2>1. UNCHANGED pc
      BY <1>2 DEF Client, BeginAdd, AddJob, NotifyAdded, GetFutures, LeaveFuture, BeginWait,
           WaitSleeps, WaitReturns, BeginStop, StopNotifies, StopThread, JoinThread, threadVars
    <2>2. CASE BeginStop(c)
      <3>1. c = Owner /\ call' = [call EXCEPT ![c] = "terminated"] /\ terminated'
        BY <2>2 DEF BeginStop, TerminateLocked
      <3> QED BY <1>0, <2>1, <3>1
    <2>3. CASE StopNotifies(c)
      <3>1. /\ call[c] = "terminated" /\ call' = [call EXCEPT ![c] = "stop"]
            /\ joining' = 1 /\ UNCHANGED terminated
        BY <2>3 DEF StopNotifies, TerminateNotify
      <3>2. \A t \in Threads : ~(t < 1)
        BY DEF Threads
      <3> QED BY <1>0, <2>1, <3>1, <3>2, ThreadsNotEmpty
    <2>4. CASE StopThread(c)
      <3>1. /\ call[c] = "stop" /\ call' = [call EXCEPT ![c] = "join"]
            /\ UNCHANGED <<joining, terminated>>
        BY <2>4 DEF StopThread, queueVars
      <3> QED BY <1>0, <2>1, <3>1
    <2>5. CASE JoinThread(c)
      <3>1. /\ call[c] = "join" /\ pc[joining] = "exited" /\ UNCHANGED terminated
            /\ c = Owner /\ terminated /\ joining \in Threads
            /\ \A t \in Threads : t <= joining => pc[t] = "exited"
        BY <2>5 DEF JoinThread, queueVars, Threads
      <3>2. CASE joining = NumThreads
        <4>1. \A t \in Threads : pc[t] = "exited"
          BY <3>1, <3>2 DEF Threads
        <4>2. call' = [call EXCEPT ![c] = "none"]
          BY <2>5, <3>2 DEF JoinThread
        <4> QED BY <1>0, <2>1, <3>1, <4>1, <4>2
      <3>3. CASE joining # NumThreads
        <4>1. joining' = joining + 1 /\ call' = [call EXCEPT ![c] = "stop"]
          BY <2>5, <3>3 DEF JoinThread
        <4>2. joining' \in Threads /\ \A t \in Threads : t < joining' => pc[t] = "exited"
          BY <1>0, <3>1, <3>3, <4>1 DEF Threads
        <4> QED BY <1>0, <2>1, <3>1, <4>1, <4>2
      <3> QED BY <3>2, <3>3
    <2>6. CASE ~BeginStop(c) /\ ~StopNotifies(c) /\ ~StopThread(c) /\ ~JoinThread(c)
      <3>1. UNCHANGED <<terminated, joining>>
        BY <1>2, <2>6 DEF Client, BeginAdd, AddJob, NotifyAdded, GetFutures, LeaveFuture,
             BeginWait, WaitSleeps, WaitReturns, Push, SpaceWait, SpaceReturns, queueVars
      <3>2. \A d \in Clients : \/ call'[d] = call[d]
                               \/ call[d] \notin Stopping /\ call'[d] \notin Stopping
        BY <1>0, <1>2, <2>6 DEF Client, BeginAdd, AddJob, NotifyAdded, GetFutures, LeaveFuture,
             BeginWait, WaitSleeps, WaitReturns, clientVars
      <3> QED BY <1>0, <2>1, <3>1, <3>2
    <2> QED BY <2>2, <2>3, <2>4, <2>5, <2>6
  <1>3. ASSUME NEW u, Wakeup(u) PROVE JoinOrder'
    BY <1>3 DEF Wakeup, SpuriousWakeup, threadVars, clientVars
  <1>4. CASE UNCHANGED vars
    BY <1>4 DEF vars, queueVars, threadVars, clientVars
  <1> QED BY <1>1, <1>2, <1>3, <1>4 DEF Next
-----------------------------------------------------------------------------
(* The three steps that move a job, and the one that discards the queue.   *)

(* The number of jobs is a natural number.                                 *)
LEMMA MaxJobsNat == MaxJobs \in Nat
  BY ThreadPoolAssumption

(* A thread that pops the first job becomes its only holder.               *)
LEMMA PopKeepsJobs == ASSUME TypeInv, JobsInv, NEW t \in Threads, PopJob(t) PROVE JobsInv'
  <1> PICK j \in Jobs : j = Head(queue)
    BY DEF TypeInv, TypeOK, PopJob, PopTakes
  <1>1. /\ queue \in Seq(Jobs) /\ queue # << >> /\ queue' = Tail(queue)
        /\ UNCHANGED <<added, future>> /\ added \in Nat
        /\ pc[t] = "pop" /\ pc' = [pc EXCEPT ![t] = "popped"] /\ job' = [job EXCEPT ![t] = j]
        /\ pc \in [Threads -> {"check", "pop", "popped", "run", "exited"}]
        /\ job \in [Threads -> Jobs \cup {NoJob}]
    BY ThreadPoolAssumption DEF TypeInv, TypeOK, PopJob, PopTakes, jobVars
  <1>2. /\ Len(queue) \in Nat \ {0} /\ Len(queue') = Len(queue) - 1
        /\ \A i \in 1 .. Len(queue') : queue'[i] = queue[i + 1]
        /\ j = queue[1] /\ \A i \in 1 .. Len(queue) : queue[i] \in Nat
    <2>1. Len(queue) \in Nat \ {0} /\ j = queue[1]
      BY <1>1
    <2>2. Len(queue') = Len(queue) - 1
      BY <1>1
    <2>3. \A i \in 1 .. Len(queue') : queue'[i] = queue[i + 1]
      BY <1>1
    <2>4. \A i \in 1 .. Len(queue) : queue[i] \in Nat
      BY <1>1, MaxJobsNat DEF Jobs
    <2> QED BY <2>1, <2>2, <2>3, <2>4
  <1>3. QueueOrder'
    BY <1>1, <1>2 DEF JobsInv, QueueOrder
  <1>4. j \in 1 .. added /\ InQueue(j) /\ j \in Jobs
    <2>1. j \in Jobs /\ j <= added
      BY <1>1, <1>2 DEF JobsInv, QueueOrder
    <2>2. InQueue(j)
      BY <1>2 DEF InQueue
    <2> QED BY <1>1, <2>1, <2>2 DEF Jobs
  <1>5. ~InQueue(j)'
    BY <1>1, <1>2 DEF JobsInv, QueueOrder, InQueue
  <1>6. \A k \in Jobs : k # j => (InQueue(k)' <=> InQueue(k))
    <2> SUFFICES ASSUME NEW k \in Jobs, k # j PROVE InQueue(k)' <=> InQueue(k)
      OBVIOUS
    <2>1. InQueue(k)' => InQueue(k)
      BY <1>2 DEF InQueue
    <2>2. ASSUME InQueue(k) PROVE InQueue(k)'
      <3>1. PICK i \in 1 .. Len(queue) : queue[i] = k
        BY <2>2 DEF InQueue
      <3>2. i - 1 \in 1 .. Len(queue') /\ queue'[i - 1] = k
        BY <1>2, <3>1
      <3> QED BY <3>2 DEF InQueue
    <2> QED BY <2>1, <2>2
  <1>7. /\ Holds(t)' /\ job'[t] = j /\ ~Holds(t)
        /\ \A u \in Threads : u # t => (Holds(u)' <=> Holds(u)) /\ job'[u] = job[u]
    BY <1>1 DEF Holds
  <1>8. OneHolder'
    <2>1. ASSUME NEW u \in Threads, Holds(u)' PROVE (job[u] \in 1 .. added /\ ~InQueue(job[u]))'
      <3>1. CASE u = t
        BY <1>1, <1>4, <1>5, <1>7, <3>1 DEF InQueue
      <3>2. CASE u # t
        <4>1. PICK k \in Jobs \cup {NoJob} : k = job[u]
          BY <1>1
        <4>2. job'[u] = k /\ k \in 1 .. added /\ ~InQueue(k)
          BY <1>7, <2>1, <3>2, <4>1 DEF JobsInv, OneHolder
        <4>3. ~InQueue(k)'
          BY <1>2, <4>2 DEF InQueue
        <4> QED BY <1>1, <4>2, <4>3 DEF InQueue
      <3> QED BY <3>1, <3>2
    <2>2. ASSUME NEW u \in Threads, NEW v \in Threads, Holds(u)', Holds(v)', u # v
          PROVE (job[u] # job[v])'
      BY <1>4, <1>7, <2>2 DEF JobsInv, OneHolder
    <2> QED BY <2>1, <2>2 DEF OneHolder
  <1>9. PendingIsSomewhere'
    <2> SUFFICES ASSUME NEW k \in Jobs
                 PROVE (Resolved(k) <=> k <= added /\ ~InQueue(k) /\ ~Held(k))'
      BY DEF PendingIsSomewhere
    <2>1. Resolved(k)' <=> Resolved(k)
      BY <1>1 DEF Resolved
    <2>2. CASE k = j
      <3>1. Held(k)'
        BY <1>7, <2>2 DEF Held
      <3>2. ~Resolved(k)
        BY <1>4, <2>2 DEF JobsInv, PendingIsSomewhere
      <3> QED BY <2>1, <3>1, <3>2
    <2>3. CASE k # j
      <3>1. Held(k)' <=> Held(k)
        BY <1>7, <2>3 DEF Held
      <3> QED BY <1>1, <1>6, <2>1, <2>3, <3>1 DEF JobsInv, PendingIsSomewhere
    <2> QED BY <2>2, <2>3
  <1> QED BY <1>3, <1>8, <1>9 DEF JobsInv

(* A job that has run is in no queue and in no hand.                       *)
LEMMA RunKeepsJobs == ASSUME TypeInv, JobsInv, NEW t \in Threads, RunJob(t) PROVE JobsInv'
  <1>1. /\ pc[t] = "run" /\ Holds(t) /\ UNCHANGED <<queue, added>> /\ added \in Nat
        /\ pc' = [pc EXCEPT ![t] = "check"]
        /\ pc \in [Threads -> {"check", "pop", "popped", "run", "exited"}]
        /\ job' = [job EXCEPT ![t] = NoJob] /\ job \in [Threads -> Jobs \cup {NoJob}]
        /\ future \in [Jobs -> {"pending", "ready", "broken"}]
    BY DEF TypeInv, TypeOK, RunJob, Holds, queueVars
  <1>2. PICK j \in 1 .. added : j = job[t] /\ ~InQueue(j)
    BY <1>1 DEF JobsInv, OneHolder
  <1>3. j \in Jobs /\ future' = [future EXCEPT ![j] = "ready"]
    BY <1>1, <1>2, MaxJobsNat DEF RunJob, TypeInv, TypeOK, Jobs
  <1>4. /\ ~Holds(t)'
        /\ \A u \in Threads : u # t => (Holds(u)' <=> Holds(u)) /\ job'[u] = job[u]
    BY <1>1 DEF Holds
  <1>5. \A k : InQueue(k)' <=> InQueue(k)
    BY <1>1 DEF InQueue
  <1>6. QueueOrder'
    BY <1>1 DEF JobsInv, QueueOrder
  <1>7. OneHolder'
    <2>1. ASSUME NEW u \in Threads, Holds(u)' PROVE (job[u] \in 1 .. added /\ ~InQueue(job[u]))'
      <3>1. PICK k \in Jobs \cup {NoJob} : k = job[u]
        BY <1>1
      <3>2. job'[u] = k /\ k \in 1 .. added /\ ~InQueue(k)
        BY <1>4, <2>1, <3>1 DEF JobsInv, OneHolder
      <3> QED BY <1>1, <3>2 DEF InQueue
    <2>2. ASSUME NEW u \in Threads, NEW v \in Threads, Holds(u)', Holds(v)', u # v
          PROVE (job[u] # job[v])'
      BY <1>4, <2>2 DEF JobsInv, OneHolder
    <2> QED BY <2>1, <2>2 DEF OneHolder
  <1>8. PendingIsSomewhere'
    <2> SUFFICES ASSUME NEW k \in Jobs
                 PROVE (Resolved(k) <=> k <= added /\ ~InQueue(k) /\ ~Held(k))'
      BY DEF PendingIsSomewhere
    <2>1. CASE k = j
      <3>1. ~Held(k)'
        BY <1>1, <1>2, <1>4, <2>1 DEF Held, JobsInv, OneHolder
      <3>2. Resolved(k)'
        BY <1>1, <1>3, <2>1 DEF Resolved
      <3> QED BY <1>1, <1>2, <1>5, <2>1, <3>1, <3>2
    <2>2. CASE k # j
      <3>1. Held(k)' <=> Held(k)
        BY <1>1, <1>2, <1>4, <2>2 DEF Held
      <3>2. Resolved(k)' <=> Resolved(k)
        BY <1>1, <1>3, <2>2 DEF Resolved
      <3> QED BY <1>1, <1>5, <3>1, <3>2 DEF JobsInv, PendingIsSomewhere
    <2> QED BY <2>1, <2>2
  <1> QED BY <1>6, <1>7, <1>8 DEF JobsInv

(* A job that is added comes last in the queue, and no thread holds it.    *)
LEMMA AddKeepsJobs == ASSUME TypeInv, JobsInv, NEW c \in Clients, AddJob(c) PROVE JobsInv'
  <1>1. /\ queue \in Seq(Jobs) /\ queue' = Append(queue, added + 1)
        /\ added \in Nat /\ added' = added + 1 /\ added + 1 \in Jobs
        /\ UNCHANGED <<pc, job, future>>
        /\ job \in [Threads -> Jobs \cup {NoJob}]
    BY MaxJobsNat DEF TypeInv, TypeOK, AddJob, Push, threadVars, Jobs
  <1>2. /\ Len(queue) \in Nat /\ Len(queue') = Len(queue) + 1
        /\ \A i \in 1 .. Len(queue) : queue'[i] = queue[i] /\ queue[i] \in Nat
        /\ queue'[Len(queue')] = added + 1
    BY <1>1, MaxJobsNat DEF Jobs
  <1>3. QueueOrder'
    <2>1. \A i \in 1 .. Len(queue') : i \in 1 .. Len(queue) \/ i = Len(queue')
      BY <1>2
    <2>2. \A i \in 1 .. Len(queue') : queue'[i] <= added'
      BY <1>1, <1>2, <2>1 DEF JobsInv, QueueOrder
    <2>3. ASSUME NEW i \in 1 .. Len(queue'), NEW k \in 1 .. Len(queue'), i < k
          PROVE queue'[i] < queue'[k]
      <3>1. i \in 1 .. Len(queue) /\ queue'[i] = queue[i] /\ queue[i] <= added /\ queue[i] \in Nat
        BY <1>2, <2>3 DEF JobsInv, QueueOrder
      <3>2. CASE k \in 1 .. Len(queue)
        BY <1>2, <2>3, <3>1, <3>2 DEF JobsInv, QueueOrder
      <3>3. CASE k = Len(queue')
        BY <1>1, <1>2, <3>1, <3>3
      <3> QED BY <2>1, <3>2, <3>3
    <2> QED BY <2>2, <2>3 DEF QueueOrder
  <1>4. \A k \in Nat : InQueue(k)' <=> InQueue(k) \/ k = added + 1
    <2> SUFFICES ASSUME NEW k \in Nat PROVE InQueue(k)' <=> InQueue(k) \/ k = added + 1
      OBVIOUS
    <2>1. InQueue(k) => InQueue(k)'
      BY <1>2 DEF InQueue
    <2>2. k = added + 1 => InQueue(k)'
      BY <1>2 DEF InQueue
    <2>3. InQueue(k)' => InQueue(k) \/ k = added + 1
      BY <1>2 DEF InQueue
    <2> QED BY <2>1, <2>2, <2>3
  <1>5. OneHolder'
    <2>1. ASSUME NEW u \in Threads, Holds(u)' PROVE (job[u] \in 1 .. added /\ ~InQueue(job[u]))'
      <3>1. PICK k \in Jobs \cup {NoJob} : k = job[u]
        BY <1>1
      <3>2. job'[u] = k /\ k \in 1 .. added /\ ~InQueue(k)
        BY <1>1, <2>1, <3>1 DEF JobsInv, OneHolder, Holds
      <3>3. ~InQueue(k)' /\ k \in 1 .. added'
        BY <1>1, <1>4, <3>2
      <3> QED BY <3>2, <3>3 DEF InQueue
    <2>2. ASSUME NEW u \in Threads, NEW v \in Threads, Holds(u)', Holds(v)', u # v
          PROVE (job[u] # job[v])'
      BY <1>1, <2>2 DEF JobsInv, OneHolder, Holds
    <2> QED BY <2>1, <2>2 DEF OneHolder
  <1>6. PendingIsSomewhere'
    <2> SUFFICES ASSUME NEW k \in Jobs
                 PROVE (Resolved(k) <=> k <= added /\ ~InQueue(k) /\ ~Held(k))'
      BY DEF PendingIsSomewhere
    <2>1. k \in Nat /\ (k <= added' <=> k <= added \/ k = added + 1)
      BY <1>1, MaxJobsNat DEF Jobs
    <2>2. (Held(k)' <=> Held(k)) /\ (Resolved(k)' <=> Resolved(k))
      BY <1>1 DEF Held, Holds, Resolved
    <2> QED BY <1>1, <1>4, <2>1, <2>2 DEF JobsInv, PendingIsSomewhere
  <1> QED BY <1>3, <1>5, <1>6 DEF JobsInv

(* The jobs that terminate takes out of the queue are broken with it.      *)
LEMMA StopKeepsJobs == ASSUME TypeInv, JobsInv, NEW c \in Clients, BeginStop(c) PROVE JobsInv'
  <1>1. /\ queue' = << >> /\ future' = Discarded(future) /\ UNCHANGED <<pc, job, added>>
        /\ added \in Nat
        /\ job \in [Threads -> Jobs \cup {NoJob}]
    BY MaxJobsNat DEF TypeInv, TypeOK, BeginStop, TerminateLocked, threadVars
  <1>2. \A k : ~InQueue(k)'
    BY <1>1 DEF InQueue
  <1>3. QueueOrder'
    BY <1>1 DEF QueueOrder
  <1>4. OneHolder'
    <2>1. ASSUME NEW u \in Threads, Holds(u)' PROVE (job[u] \in 1 .. added /\ ~InQueue(job[u]))'
      BY <1>1, <2>1 DEF JobsInv, OneHolder, Holds, InQueue
    <2>2. ASSUME NEW u \in Threads, NEW v \in Threads, Holds(u)', Holds(v)', u # v
          PROVE (job[u] # job[v])'
      BY <1>1, <2>2 DEF JobsInv, OneHolder, Holds
    <2> QED BY <2>1, <2>2 DEF OneHolder
  <1>5. PendingIsSomewhere'
    <2> SUFFICES ASSUME NEW k \in Jobs
                 PROVE (Resolved(k) <=> k <= added /\ ~InQueue(k) /\ ~Held(k))'
      BY DEF PendingIsSomewhere
    <2>1. Held(k)' <=> Held(k)
      BY <1>1 DEF Held, Holds
    <2>2. Resolved(k)' <=> InQueue(k) \/ Resolved(k)
      BY <1>1 DEF Resolved, Discarded, InQueue
    <2>3. InQueue(k) => k <= added /\ ~Held(k)
      BY DEF JobsInv, QueueOrder, OneHolder, InQueue, Held
    <2> QED BY <1>1, <1>2, <2>1, <2>2, <2>3 DEF JobsInv, PendingIsSomewhere
  <1> QED BY <1>3, <1>4, <1>5 DEF JobsInv

(* The other steps leave every job where it is.                            *)
LEMMA JobsStep == ASSUME TypeInv, JobsInv, [Next]_vars PROVE JobsInv'
  <1>1. ASSUME UNCHANGED <<queue, added, job, future>>,
               \A t \in Threads : Holds(t)' <=> Holds(t)
        PROVE JobsInv'
    <2>1. QueueOrder'
      BY <1>1 DEF JobsInv, QueueOrder
    <2>2. OneHolder'
      BY <1>1 DEF JobsInv, OneHolder, InQueue
    <2>3. PendingIsSomewhere'
      BY <1>1 DEF JobsInv, PendingIsSomewhere, Resolved, InQueue, Held
    <2> QED BY <2>1, <2>2, <2>3 DEF JobsInv
  <1>2. ASSUME NEW t \in Threads, Thread(t), ~PopJob(t), ~RunJob(t) PROVE JobsInv'
    <2>1. UNCHANGED <<queue, added, job, future>>
      BY <1>2 DEF Thread, CheckStop, PopSleeps, PopEnds, NotifyPopped, PopWait, PopThrows,
                  queueVars, threadVars, jobVars
    <2>2. \A u \in Threads : Holds(u)' <=> Holds(u)
      BY <1>2 DEF Thread, CheckStop, PopSleeps, PopEnds, NotifyPopped, threadVars, Holds, TypeInv,
                  TypeOK
    <2> QED BY <1>1, <2>1, <2>2
  <1>3. ASSUME NEW c \in Clients, Client(c), ~AddJob(c), ~BeginStop(c) PROVE JobsInv'
    <2>1. UNCHANGED <<queue, added, job, pc, future>>
      BY <1>3 DEF Client, BeginAdd, NotifyAdded, GetFutures, LeaveFuture, BeginWait, WaitSleeps,
           WaitReturns, StopNotifies, StopThread, JoinThread, SpaceWait, SpaceReturns,
           TerminateNotify, queueVars, threadVars, jobVars
    <2> QED BY <1>1, <2>1 DEF Holds
  <1>4. ASSUME NEW u, Wakeup(u) PROVE JobsInv'
    <2>1. UNCHANGED <<queue, added, job, pc, future>>
      BY <1>4 DEF Wakeup, SpuriousWakeup, threadVars, jobVars
    <2> QED BY <1>1, <2>1 DEF Holds
  <1>5. CASE UNCHANGED vars
    <2>1. UNCHANGED <<queue, added, job, pc, future>>
      BY <1>5 DEF vars, queueVars, threadVars, jobVars
    <2> QED BY <1>1, <2>1 DEF Holds
  <1> QED BY <1>2, <1>3, <1>4, <1>5, PopKeepsJobs, RunKeepsJobs, AddKeepsJobs, StopKeepsJobs
          DEF Next
-----------------------------------------------------------------------------
(* Every step keeps the jobs that wait_all_jobs saw read out of the queue, *)
(* and from a broken promise.                                              *)
LEMMA ReadPastStep == ASSUME TypeInv, ReadPast, [Next]_vars PROVE ReadPast'
  <1> USE DEF ReadPast, ReadJobsRun
  <1>0. /\ read \in Nat /\ added \in Nat /\ MaxJobs \in Nat
        /\ queue \in Seq(Jobs) /\ Len(queue) \in Nat
        /\ future \in [Jobs -> {"pending", "ready", "broken"}]
    BY MaxJobsNat DEF TypeInv, TypeOK
  <1>1. ASSUME UNCHANGED <<queue, added, read, terminated, future>> PROVE ReadPast'
    BY <1>1
  <1>2. ASSUME NEW t \in Threads, PopJob(t) PROVE ReadPast'
    <2>1. /\ queue # << >> /\ queue' = Tail(queue)
          /\ UNCHANGED <<added, read, terminated, future>>
      BY <1>2 DEF PopJob, PopTakes, jobVars
    <2>2. Len(queue') = Len(queue) - 1 /\ \A i \in 1 .. Len(queue') : queue'[i] = queue[i + 1]
      BY <1>0, <2>1
    <2>3. \A i \in 1 .. Len(queue') : queue'[i] > read
      BY <1>0, <2>2
    <2> QED BY <2>1, <2>3
  <1>3. ASSUME NEW t \in Threads, RunJob(t) PROVE ReadPast'
    <2>1. /\ future' = [future EXCEPT ![job[t]] = "ready"]
          /\ UNCHANGED <<queue, added, read, terminated>>
      BY <1>3 DEF RunJob, queueVars
    <2>2. \A j \in Jobs : future[j] # "broken" => future'[j] # "broken"
      BY <1>0, <2>1
    <2>3. 1 .. read \subseteq Jobs
      BY <1>0 DEF TypeInv, TypeOK, Jobs
    <2> QED BY <2>1, <2>2, <2>3
  <1>4. ASSUME NEW c \in Clients, AddJob(c) PROVE ReadPast'
    <2>1. /\ queue' = Append(queue, added + 1) /\ added' = added + 1
          /\ UNCHANGED <<read, terminated, future>>
      BY <1>4 DEF AddJob, Push
    <2>2. \A i \in 1 .. Len(queue') : queue'[i] > read
      BY <1>0, <2>1
    <2> QED BY <1>0, <2>1, <2>2
  <1>5. ASSUME NEW c \in Clients, WaitReturns(c) PROVE ReadPast'
    <2>1. /\ UNCHANGED <<queue, added, terminated, future>>
          /\ terminated \/ Len(queue) < 1
          /\ read' = IF terminated THEN read ELSE added
      BY <1>5 DEF WaitReturns, SpaceReturns, HasSpace
    <2>2. CASE terminated
      BY <2>1, <2>2
    <2>3. CASE ~terminated
      <3>1. 1 .. added \subseteq Jobs
        BY <1>0 DEF TypeInv, TypeOK, Jobs
      <3> QED BY <1>0, <2>1, <2>3, <3>1
    <2> QED BY <2>2, <2>3
  <1>6. ASSUME NEW c \in Clients, BeginStop(c) PROVE ReadPast'
    <2>1. /\ queue' = << >> /\ terminated' = TRUE /\ UNCHANGED <<added, read>>
          /\ future' = Discarded(future)
      BY <1>6 DEF BeginStop, TerminateLocked
    <2>2. \A j \in 1 .. read : j \in Jobs /\ ~(\E i \in 1 .. Len(queue) : queue[i] = j)
      BY <1>0 DEF TypeInv, TypeOK, Jobs
    <2>3. \A j \in 1 .. read : future'[j] = future[j]
      BY <2>1, <2>2 DEF Discarded
    <2> QED BY <2>1, <2>3
  <1>7. ASSUME NEW t \in Threads, Thread(t), ~PopJob(t), ~RunJob(t) PROVE ReadPast'
    BY <1>1, <1>7 DEF Thread, CheckStop, PopSleeps, PopEnds, NotifyPopped, PopWait, PopThrows,
                      queueVars, jobVars
  <1>8. ASSUME NEW c \in Clients, Client(c), ~AddJob(c), ~WaitReturns(c), ~BeginStop(c)
        PROVE ReadPast'
    BY <1>1, <1>8 DEF Client, BeginAdd, NotifyAdded, GetFutures, LeaveFuture, BeginWait,
         WaitSleeps, StopNotifies, StopThread, JoinThread, SpaceWait, TerminateNotify, queueVars,
         jobVars
  <1>9. ASSUME NEW u, Wakeup(u) PROVE ReadPast'
    BY <1>1, <1>9 DEF Wakeup, SpuriousWakeup, jobVars
  <1>10. CASE UNCHANGED vars
    BY <1>1, <1>10 DEF vars, queueVars, jobVars
  <1> HIDE DEF ReadPast
  <1> QED BY <1>2, <1>3, <1>4, <1>5, <1>6, <1>7, <1>8, <1>9, <1>10 DEF Next

(* The invariant that every step keeps.                                    *)
PoolInv == TypeInv /\ JoinOrder /\ JobsInv /\ ReadPast

(* A new pool satisfies the invariant.                                     *)
LEMMA InitPoolInv == Init => PoolInv
  <1> SUFFICES ASSUME Init PROVE PoolInv
    OBVIOUS
  <1>1. JoinOrder
    BY ThreadPoolAssumption DEF Init, SafeQueueInit, JoinOrder, Stopping
  <1>2. /\ queue = << >> /\ added = 0 /\ read = 0 /\ ~terminated
        /\ \A t \in Threads : ~Holds(t)
        /\ \A j \in Jobs : future[j] = "pending" /\ ~(j <= 0)
    BY MaxJobsNat DEF Init, SafeQueueInit, Holds, Jobs
  <1>3. JobsInv
    BY <1>2 DEF JobsInv, QueueOrder, OneHolder, PendingIsSomewhere, Resolved
  <1>4. ReadPast
    BY <1>2 DEF ReadPast, ReadJobsRun
  <1> QED BY <1>1, <1>3, <1>4, InitTypeInv DEF PoolInv

(* The strengthening holds in every behaviour of the pool: types, the      *)
(* order of the joins, where each job is, and the jobs wait_all_jobs saw   *)
(* read.                                                                   *)
THEOREM PoolInvariant == Safety => []PoolInv
  <1>1. PoolInv /\ [Next]_vars => PoolInv'
    BY NextTypeInv, JoinOrderStep, JobsStep, ReadPastStep DEF PoolInv
  <1> QED BY <1>1, InitPoolInv, PTL DEF Safety

(* When stop has returned, every thread has left its loop, and of the jobs *)
(* added so far exactly those still in the queue are unresolved: none is   *)
(* both discarded and pending, and none is lost with a thread.             *)
THEOREM StopDrained == Safety => []StopDrains
  <1>1. PoolInv => StopDrains
    <2> SUFFICES ASSUME PoolInv, Stopped
                 PROVE /\ \A t \in Threads : pc[t] = "exited"
                       /\ \A j \in 1 .. added : Resolved(j) # InQueue(j)
      BY DEF StopDrains
    <2>1. \A t \in Threads : pc[t] = "exited"
      BY DEF PoolInv, JoinOrder, Stopped, Stopping
    <2>2. \A j : ~Held(j)
      BY <2>1 DEF Held, Holds
    <2>3. \A j \in 1 .. added : j \in Jobs /\ j <= added
      BY MaxJobsNat DEF PoolInv, TypeInv, TypeOK, Jobs
    <2>4. \A j \in 1 .. added : Resolved(j) <=> ~InQueue(j)
      BY <2>2, <2>3 DEF PoolInv, JobsInv, PendingIsSomewhere
    <2>5. \A j : Resolved(j) \in BOOLEAN /\ InQueue(j) \in BOOLEAN
      BY Zenon DEF Resolved, InQueue
    <2> QED BY <2>1, <2>4, <2>5, Zenon
  <1> QED BY <1>1, PoolInvariant, PTL

(* A job added before wait_all_jobs returned from a pool that was not      *)
(* stopped is never discarded by a later stop.                             *)
THEOREM ReadJobsNeverBroken == Safety => []ReadJobsRun
  <1>1. PoolInv => ReadJobsRun
    BY DEF PoolInv, ReadPast
  <1> QED BY <1>1, PoolInvariant, PTL

-----------------------------------------------------------------------------
(* ThreadPool implements JobPool.  The abstract state is read off the      *)
(* queue, the jobs the threads hold and the futures; the steps that put a  *)
(* job in the queue, take it, end it and terminate the queue are the steps *)
(* of the abstract pool, and all the others leave its state alone.         *)

RunningJobs == {job[t] : t \in {t \in Threads : Holds(t)}}

(* A thread that is about to take a job holds none: fewer jobs are running *)
(* than there are threads.                                                 *)
LEMMA RoomToRun ==
    ASSUME TypeInv, NEW t \in Threads, ~Holds(t)
    PROVE  Cardinality(RunningJobs) < NumThreads
  <1> DEFINE S == {u \in Threads : Holds(u)}
             f == [u \in S |-> job[u]]
  <1>1. IsFiniteSet(Threads) /\ Cardinality(Threads) = NumThreads /\ NumThreads \in Nat
    BY ThreadPoolAssumption, FS_Interval DEF Threads
  <1>2. S \subseteq Threads /\ S # Threads
    OBVIOUS
  <1>3. /\ IsFiniteSet(S) /\ Cardinality(S) <= NumThreads
        /\ Cardinality(S) # NumThreads /\ Cardinality(S) \in Nat
    BY <1>1, <1>2, FS_Subset, FS_CardinalityType
  <1>4. f \in Surjection(S, RunningJobs)
    BY DEF Surjection, RunningJobs
  <1> HIDE DEF S, f
  <1>5. /\ IsFiniteSet(RunningJobs)
        /\ Cardinality(RunningJobs) <= Cardinality(S)
    BY <1>3, <1>4, FS_Surjection
  <1>6. Cardinality(RunningJobs) \in Nat
    BY <1>5, FS_CardinalityType
  <1> QED BY <1>1, <1>3, <1>5, <1>6

(* A new pool is an abstract pool in which nothing was submitted.          *)
LEMMA InitRefines == Init => Pool!Init
  <1> SUFFICES ASSUME Init PROVE Pool!Init
    OBVIOUS
  <1>1. queue = << >> /\ added = 0 /\ terminated = FALSE
    BY DEF Init, SafeQueueInit
  <1>2. RunningJobs = {}
    BY DEF Init, RunningJobs, Holds
  <1>3. {j \in Jobs : runs[j] > 0} = {} /\ {j \in Jobs : future[j] = "broken"} = {}
    BY DEF Init
  <1> QED BY <1>1, <1>2, <1>3 DEF Pool!Init, RunningJobs

(* pop starts the first waiting job, and a thread was idle to take it.     *)
LEMMA PopRefines ==
    ASSUME PoolInv, NEW t \in Threads, PopJob(t) PROVE Pool!Start
  <1>1. /\ pc[t] = "pop" /\ pc' = [pc EXCEPT ![t] = "popped"]
        /\ job' = [job EXCEPT ![t] = Head(queue)]
        /\ ~terminated /\ queue # << >> /\ queue' = Tail(queue)
        /\ UNCHANGED <<terminated, added, future, runs>>
    BY DEF PopJob, PopTakes, jobVars
  <1>2. /\ pc \in [Threads -> {"check", "pop", "popped", "run", "exited"}]
        /\ job \in [Threads -> Jobs \cup {NoJob}]
    BY DEF PoolInv, TypeInv, TypeOK
  <1>3. ~Holds(t) /\ TypeInv
    BY <1>1 DEF Holds, PoolInv
  <1>4. Cardinality(RunningJobs) < NumThreads
    BY <1>3, RoomToRun
  <1>5. /\ Holds(t)' /\ job'[t] = Head(queue)
        /\ \A u \in Threads : u # t => (Holds(u)' <=> Holds(u)) /\ job'[u] = job[u]
    BY <1>1, <1>2 DEF Holds
  <1>6. RunningJobs' = RunningJobs \cup {Head(queue)}
    BY <1>3, <1>5 DEF RunningJobs
  <1>7. /\ {j \in Jobs : runs[j] > 0}' = {j \in Jobs : runs[j] > 0}
        /\ {j \in Jobs : future[j] = "broken"}' = {j \in Jobs : future[j] = "broken"}
    BY <1>1
  <1>8. Pool!Cardinality(RunningJobs) = Cardinality(RunningJobs)
    BY DEF Pool!Cardinality, Cardinality
  <1> QED BY <1>1, <1>4, <1>6, <1>7, <1>8, Zenon DEF Pool!Start, RunningJobs

(* Running a job finishes it.                                              *)
LEMMA RunRefines ==
    ASSUME PoolInv, NEW t \in Threads, RunJob(t) PROVE Pool!Finish
  <1>1. /\ pc[t] = "run" /\ Holds(t) /\ pc' = [pc EXCEPT ![t] = "check"]
        /\ job' = [job EXCEPT ![t] = NoJob]
        /\ UNCHANGED <<queue, terminated, added>>
    BY DEF RunJob, Holds, queueVars
  <1>2. /\ pc \in [Threads -> {"check", "pop", "popped", "run", "exited"}]
        /\ job \in [Threads -> Jobs \cup {NoJob}]
        /\ future \in [Jobs -> {"pending", "ready", "broken"}]
        /\ runs \in [Jobs -> Nat] /\ added \in 0 .. MaxJobs
    BY DEF PoolInv, TypeInv, TypeOK
  <1>3. PICK j \in 1 .. added : j = job[t]
    BY <1>1 DEF PoolInv, JobsInv, OneHolder
  <1>4. /\ j \in Jobs
        /\ future' = [future EXCEPT ![j] = "ready"] /\ runs' = [runs EXCEPT ![j] = @ + 1]
    BY <1>2, <1>3, MaxJobsNat DEF RunJob, Jobs
  <1>5. future[j] = "pending"
    BY <1>1, <1>3, <1>4 DEF PoolInv, JobsInv, PendingIsSomewhere, Held, Resolved
  <1>6. /\ ~Holds(t)'
        /\ \A u \in Threads : u # t => (Holds(u)' <=> Holds(u)) /\ job'[u] = job[u]
    BY <1>1, <1>2 DEF Holds
  <1>7. \A u \in Threads : Holds(u) /\ u # t => job[u] # j
    BY <1>1, <1>3 DEF PoolInv, JobsInv, OneHolder
  <1>8. j \in RunningJobs /\ RunningJobs' = RunningJobs \ {j}
    BY <1>1, <1>3, <1>6, <1>7 DEF RunningJobs
  <1>9. {k \in Jobs : runs'[k] > 0} = {k \in Jobs : runs[k] > 0} \cup {j}
    BY <1>2, <1>4
  <1>10. {k \in Jobs : future'[k] = "broken"} = {k \in Jobs : future[k] = "broken"}
    BY <1>2, <1>4, <1>5
  <1> QED BY <1>1, <1>8, <1>9, <1>10 DEF Pool!Finish, RunningJobs

(* The locked part of push submits a job.                                  *)
LEMMA AddRefines == ASSUME PoolInv, NEW c \in Clients, AddJob(c) PROVE Pool!Submit
  <1>1. /\ added < MaxJobs /\ added' = added + 1 /\ queue' = Append(queue, added + 1)
        /\ UNCHANGED <<terminated, future, runs, pc, job>>
    BY DEF AddJob, Push, threadVars
  <1>2. RunningJobs' = RunningJobs
    BY <1>1 DEF RunningJobs, Holds
  <1> QED BY <1>1, <1>2 DEF Pool!Submit, RunningJobs

(* The locked part of terminate closes the pool.                           *)
LEMMA StopRefines == ASSUME PoolInv, NEW c \in Clients, BeginStop(c) PROVE Pool!Close
  <1>1. /\ terminated' = TRUE /\ queue' = << >> /\ future' = Discarded(future)
        /\ UNCHANGED <<added, runs, pc, job>>
    BY DEF BeginStop, TerminateLocked, threadVars
  <1>2. RunningJobs' = RunningJobs
    BY <1>1 DEF RunningJobs, Holds
  <1>3. \A i \in 1 .. Len(queue) : queue[i] \in Jobs
    BY DEF PoolInv, TypeInv, TypeOK
  <1>4. {j \in Jobs : future'[j] = "broken"}
            = {j \in Jobs : future[j] = "broken"} \cup {queue[i] : i \in 1 .. Len(queue)}
    BY <1>1, <1>3 DEF Discarded
  <1> QED BY <1>1, <1>2, <1>4 DEF Pool!Close, RunningJobs

(* Every step is a step of the abstract pool or leaves its state alone.    *)
LEMMA StepRefines == PoolInv /\ [Next]_vars => [Pool!Next]_Pool!poolState
  <1> SUFFICES ASSUME PoolInv, [Next]_vars PROVE [Pool!Next]_Pool!poolState
    OBVIOUS
  <1>1. ASSUME UNCHANGED <<queue, terminated, added, job, future, runs>>,
               \A t \in Threads : Holds(t)' <=> Holds(t)
        PROVE UNCHANGED Pool!poolState
    <2>1. RunningJobs' = RunningJobs
      BY <1>1 DEF RunningJobs
    <2> QED BY <1>1, <2>1 DEF Pool!poolState, RunningJobs
  <1>2. ASSUME NEW t \in Threads, Thread(t), ~PopJob(t), ~RunJob(t)
        PROVE UNCHANGED Pool!poolState
    <2>1. UNCHANGED <<queue, terminated, added, job, future, runs>>
      BY <1>2 DEF Thread, CheckStop, PopSleeps, PopEnds, NotifyPopped, PopWait, PopThrows,
                  queueVars, threadVars, jobVars
    <2>2. \A u \in Threads : Holds(u)' <=> Holds(u)
      BY <1>2 DEF Thread, CheckStop, PopSleeps, PopEnds, NotifyPopped, threadVars, Holds,
                  PoolInv, TypeInv, TypeOK
    <2> QED BY <1>1, <2>1, <2>2
  <1>3. ASSUME NEW c \in Clients, Client(c), ~AddJob(c), ~BeginStop(c)
        PROVE UNCHANGED Pool!poolState
    <2>1. UNCHANGED <<queue, terminated, added, job, pc, future, runs>>
      BY <1>3 DEF Client, BeginAdd, NotifyAdded, GetFutures, LeaveFuture, BeginWait, WaitSleeps,
           WaitReturns, StopNotifies, StopThread, JoinThread, SpaceWait, SpaceReturns,
           TerminateNotify, queueVars, threadVars, jobVars
    <2> QED BY <1>1, <2>1 DEF Holds
  <1>4. ASSUME NEW u, Wakeup(u) PROVE UNCHANGED Pool!poolState
    <2>1. UNCHANGED <<queue, terminated, added, job, pc, future, runs>>
      BY <1>4 DEF Wakeup, SpuriousWakeup, threadVars, jobVars
    <2> QED BY <1>1, <2>1 DEF Holds
  <1>5. CASE UNCHANGED vars
    <2>1. UNCHANGED <<queue, terminated, added, job, pc, future, runs>>
      BY <1>5 DEF vars, queueVars, threadVars, jobVars
    <2> QED BY <1>1, <2>1 DEF Holds
  <1> QED BY <1>2, <1>3, <1>4, <1>5, PopRefines, RunRefines, AddRefines, StopRefines
          DEF Next, Pool!Next

(* The pool of threads implements the abstract pool of jobs: jobs start in *)
(* the order in which they were added, at most once, at most NumThreads at *)
(* a time, and none after stop has terminated the queue.                   *)
THEOREM Implements == Safety => Refines
  BY InitRefines, StepRefines, PoolInvariant, PTL DEF Safety, Refines, Pool!Spec
=============================================================================
