----------------------------- MODULE SafeQueue -----------------------------
(***************************************************************************)
(* sihd::util::SafeQueue<T>: a FIFO queue guarded by one mutex, with one   *)
(* condition variable for the threads that wait for an element (_cv_push)  *)
(* and one for the threads that wait for room (_cv_pop).                   *)
(*                                                                         *)
(* A critical section is one step.  cvPush and cvPop are the threads       *)
(* asleep on each condition variable: a thread in one of them cannot move  *)
(* until it is notified, or wakes up spuriously, and then it tests its     *)
(* predicate again.  A notification sent after the unlock is a step of its *)
(* own, which the caller takes by NotifyOne or NotifyAll.                  *)
(***************************************************************************)
EXTENDS Naturals, Sequences

VARIABLES queue,        \* _queue
          terminated,   \* _terminated
          cvPush,       \* threads asleep on _cv_push
          cvPop         \* threads asleep on _cv_pop

SafeQueueInit == /\ queue = << >>
                 /\ terminated = FALSE
                 /\ cvPush = {}
                 /\ cvPop = {}

(* condition_variable::notify_one: one sleeping thread wakes, if there is  *)
(* one; which one is not determined.                                       *)
NotifyOne(cv, cvNext) == \/ cv = {} /\ cvNext = {}
                         \/ \E u \in cv : cvNext = cv \ {u}

(* The locked part of push.  It does not look at _terminated.              *)
Push(value, maxSize) == /\ maxSize = 0 \/ Len(queue) < maxSize
                        /\ queue' = Append(queue, value)
                        /\ UNCHANGED <<terminated, cvPush, cvPop>>

(* pop: the three outcomes of testing the predicate with the lock held.    *)
PopWait(u) == /\ u \notin cvPush
              /\ ~terminated /\ queue = << >>
              /\ cvPush' = cvPush \cup {u}
              /\ UNCHANGED <<queue, terminated, cvPop>>

PopThrows(u) == /\ u \notin cvPush
                /\ terminated
                /\ UNCHANGED <<queue, terminated, cvPush, cvPop>>

(* Mutant: front() without pop().                                          *)
PopTakes_FrontOnly(u) == /\ u \notin cvPush
                         /\ ~terminated /\ queue # << >>
                         /\ UNCHANGED <<queue, terminated, cvPush, cvPop>>

PopTakes(u) == /\ u \notin cvPush
               /\ ~terminated /\ queue # << >>
               /\ queue' = Tail(queue)
               /\ UNCHANGED <<terminated, cvPush, cvPop>>

(* Mutant: size <= n.                                                      *)
HasSpace_OffByOne(n) == Len(queue) <= n

(* wait_for_space(n): wait, or return whether there is room.               *)
HasSpace(n) == Len(queue) < n

SpaceWait(u, n) == /\ u \notin cvPop
                   /\ ~terminated /\ ~HasSpace(n)
                   /\ cvPop' = cvPop \cup {u}
                   /\ UNCHANGED <<queue, terminated, cvPush>>

(* Mutant: the predicate does not look at _terminated.                     *)
SpaceReturns_IgnoresEnd(u, n) == /\ u \notin cvPop
                                 /\ HasSpace(n)
                                 /\ UNCHANGED <<queue, terminated, cvPush, cvPop>>

SpaceReturns(u, n) == /\ u \notin cvPop
                      /\ terminated \/ HasSpace(n)
                      /\ UNCHANGED <<queue, terminated, cvPush, cvPop>>

(* terminate: the locked part, then the two notify_all.                    *)
TerminateLocked == /\ terminated' = TRUE
                   /\ queue' = << >>
                   /\ UNCHANGED <<cvPush, cvPop>>

(* Mutant: notify_one instead of notify_all.                               *)
TerminateNotify_One == /\ NotifyOne(cvPush, cvPush')
                       /\ NotifyOne(cvPop, cvPop')
                       /\ UNCHANGED <<queue, terminated>>

TerminateNotify == /\ cvPush' = {}
                   /\ cvPop' = {}
                   /\ UNCHANGED <<queue, terminated>>

(* A condition variable may wake a thread that nobody notified.            *)
SpuriousWakeup(u) == /\ u \in cvPush \cup cvPop
                     /\ cvPush' = cvPush \ {u}
                     /\ cvPop' = cvPop \ {u}
                     /\ UNCHANGED <<queue, terminated>>
=============================================================================
