--------------------------- MODULE DevPlayer_proofs ---------------------------
(***************************************************************************)
(* What is proved of a player that is started, stopped and reset in any    *)
(* order, for any number of records and any limit of its queue: its types, *)
(* which say that records are played in order and that each has its task   *)
(* in a first run, and that it implements Replay.                          *)
(***************************************************************************)
EXTENDS DevPlayer, TLAPS

Before == {"initialised", "observe", "read", "resume", "run"}
Active == {"started", "unobserve", "stopping", "stop"}

(* The types without what relates the variables.                           *)
Types ==
    /\ given \in 0 .. Records /\ tasks \in 0 .. Records
    /\ played \in 0 .. Records /\ inHand \in 0 .. Records
    /\ providing \in BOOLEAN /\ last \in BOOLEAN /\ notified \in BOOLEAN /\ end \in BOOLEAN
    /\ play \in BOOLEAN /\ paused \in BOOLEAN /\ running \in BOOLEAN
    /\ worker \in {"off", "begin", "collect", "room", "asleep", "add", "ended", "announce"}
    /\ sched \in {"off", "idle", "run", "write", "notify", "test", "empty", "exchange",
                 "announce"}
    /\ ctl \in {"initialised", "observe", "read", "resume", "run", "started", "unobserve",
                "stopping", "stop", "join", "stopped"}
    /\ user \in {"idle", "handle"} /\ plays \in 0 .. MaxPlays /\ starts \in 0 .. MaxStarts
    /\ again \in Nat /\ again <= starts

(* The queue holds the records that were given last, in order.             *)
Consecutive(q, n) == q = [i \in 1 .. Len(q) |-> n - Len(q) + i]
Numbered ==
    /\ Len(queue) <= Limit + 1 + again
    /\ inHand # 0 => inHand = played + 1
    /\ Consecutive(queue, given)

(* In a first run a record of the queue has its task, but for the one that *)
(* waits for room, and a task that is being run its record.                *)
OneTaskEach ==
    ctl \in Active /\ again = 0 =>
        tasks + (IF Drops THEN 1 ELSE 0) + (IF Waits THEN 1 ELSE 0) = Len(queue)

(* The player runs, and its threads exist, where the control says so.      *)
Controlled ==
    /\ running <=> ctl \in Active
    /\ ctl \in Before \cup {"stopped"} => worker = "off"
    /\ sched = "off" <=> ctl \in {"initialised", "stop", "join", "stopped"}
    /\ ctl \in {"unobserve", "stopping", "stop", "join", "stopped"} => ~providing

(* Nothing of an earlier play is left when a first run begins.             *)
Fresh == again = 0 /\ (ctl \in Before \/ worker = "begin") =>
            given = 0 /\ queue = <<>> /\ tasks = 0 /\ played = 0 /\ sched \in {"off", "idle"}

(* A record that was given is played, in hand or in the queue; tasks are   *)
(* lost only when the player does not run any more.                        *)
Counted ==
    /\ queue \in Seq(Nat)
    /\ inHand # 0 <=> sched = "write"
    /\ inHand = 0 => played + Len(queue) = given
    /\ inHand # 0 => played + 1 + Len(queue) = given
    /\ tasks + (IF Drops THEN 1 ELSE 0) + (IF Waits THEN 1 ELSE 0) <= Len(queue)

(* The queue has room when a record is collected, for as many more as      *)
(* starts found it as a stop left it.                                      *)
HasRoom == ctl \in Before \/ worker \in {"begin", "add"} \/ (worker = "collect" /\ providing)
               => Len(queue) <= Limit + again

(* While records of a first run are collected the end is not known; once   *)
(* it has been decided nothing is left to play, and the scheduler decides  *)
(* it only where the worker has ended.                                     *)
Ending == /\ worker \in {"collect", "room", "asleep", "add"} => ~last
          /\ again = 0 =>
                /\ worker \in {"collect", "room", "asleep", "add"} => ~notified
                /\ notified /\ Played => queue = <<>>
                /\ sched \in {"empty", "exchange"} => last
                /\ sched = "exchange" => queue = <<>>

PlayerInv == Types /\ Numbered /\ OneTaskEach /\ Controlled /\ Fresh /\ Counted /\ HasRoom /\ Ending

-----------------------------------------------------------------------------
(* A queue of consecutive records that ends with the one given last stays  *)
(* one when the next record is added, and when the first is taken, which   *)
(* is the one after those that have been taken.                            *)
LEMMA Appended ==
    ASSUME NEW q \in Seq(Nat), NEW n \in Nat, Consecutive(q, n)
    PROVE  /\ Append(q, n + 1) \in Seq(Nat) /\ Len(Append(q, n + 1)) = Len(q) + 1
           /\ Consecutive(Append(q, n + 1), n + 1)
<1> DEFINE a == Append(q, n + 1)
<1>1. a \in Seq(Nat) /\ Len(a) = Len(q) + 1 /\ Len(q) \in Nat
  OBVIOUS
<1>2. ASSUME NEW i \in 1 .. Len(a) PROVE a[i] = n + 1 - Len(a) + i
  BY <1>1, <1>2 DEF Consecutive
<1> HIDE DEF a
<1>3. a = [i \in 1 .. Len(a) |-> a[i]]
  BY <1>1
<1>4. Consecutive(a, n + 1)
  BY <1>2, <1>3 DEF Consecutive
<1> QED BY <1>1, <1>4 DEF a

LEMMA Taken ==
    ASSUME NEW q \in Seq(Nat), NEW n \in Nat, Consecutive(q, n), q # <<>>
    PROVE  /\ Tail(q) \in Seq(Nat) /\ Len(Tail(q)) = Len(q) - 1 /\ Consecutive(Tail(q), n)
           /\ Head(q) = n - Len(q) + 1
<1> DEFINE t == Tail(q)
<1>1. t \in Seq(Nat) /\ Len(t) = Len(q) - 1 /\ Len(q) \in Nat \ {0}
  OBVIOUS
<1>2. ASSUME NEW i \in 1 .. Len(t) PROVE t[i] = n - Len(t) + i
  BY <1>1, <1>2 DEF Consecutive
<1>3. Head(q) = n - Len(q) + 1
  BY <1>1 DEF Consecutive
<1> HIDE DEF t
<1>4. t = [i \in 1 .. Len(t) |-> t[i]]
  BY <1>1
<1>5. Consecutive(t, n)
  BY <1>2, <1>4 DEF Consecutive
<1> QED BY <1>1, <1>3, <1>5 DEF t

LEMMA NoneConsecutive == Consecutive(<<>>, 0)
<1>1. Len(<<>>) = 0 /\ <<>> = [i \in 1 .. 0 |-> 0 - 0 + i]
  OBVIOUS
<1> QED BY <1>1 DEF Consecutive

LEMMA InitInv == Init => PlayerInv
<1> SUFFICES ASSUME Init PROVE PlayerInv
  OBVIOUS
<1> USE DevPlayerAssumption DEF Init
<1>1. queue = <<>> /\ queue \in Seq(Nat) /\ Len(queue) = 0 /\ given = 0
  OBVIOUS
<1>2. Consecutive(queue, given)
  BY NoneConsecutive
<1>6. Records \in Nat /\ Limit \in Nat /\ MaxPlays \in Nat /\ MaxStarts \in Nat
  OBVIOUS
<1>3. Types
  <2>1. /\ given \in 0 .. Records /\ tasks \in 0 .. Records
        /\ played \in 0 .. Records /\ inHand \in 0 .. Records
    BY <1>6
  <2>2. plays \in 0 .. MaxPlays /\ starts \in 0 .. MaxStarts /\ again = 0
    BY <1>6
  <2>3. /\ providing \in BOOLEAN /\ last \in BOOLEAN /\ notified \in BOOLEAN /\ end \in BOOLEAN
        /\ play \in BOOLEAN /\ paused \in BOOLEAN /\ running \in BOOLEAN
    OBVIOUS
  <2>4. worker = "off" /\ sched = "off" /\ ctl = "initialised" /\ user = "idle"
    OBVIOUS
  <2> HIDE DEF Init
  <2> QED BY <2>1, <2>2, <2>3, <2>4 DEF Types
<1>7. Numbered /\ OneTaskEach
  BY <1>1, <1>2 DEF Numbered, OneTaskEach, Active
<1>4. Controlled /\ Fresh /\ HasRoom /\ Ending
  BY <1>1 DEF Controlled, Fresh, HasRoom, Ending, Before, Active
<1>5. Counted
  BY <1>1 DEF Counted, Drops, Waits
<1> QED BY <1>3, <1>4, <1>5, <1>7 DEF PlayerInv

(* The thread that collects.                                               *)
LEMMA WorkerPreserves ==
    ASSUME PlayerInv, WorkerNext
    PROVE  PlayerInv'
<1> USE DevPlayerAssumption DEF PlayerInv, Worker, records, Types, Controlled, Fresh, Counted, HasRoom, Ending,
        Numbered, OneTaskEach, Before, Active, Drops, Waits, Played
<1>1. CASE BeginLoop
  <2>1. UNCHANGED <<given, queue, tasks, played, inHand>>
    BY <1>1 DEF BeginLoop
  <2>2. Types'
    BY <1>1, <2>1 DEF BeginLoop
  <2>3. Numbered'
    BY <1>1, <2>1 DEF BeginLoop
  <2>4. OneTaskEach' /\ Counted'
    BY <1>1, <2>1 DEF BeginLoop
  <2>5. Controlled' /\ Fresh' /\ HasRoom' /\ Ending'
    BY <1>1, <2>1 DEF BeginLoop
  <2> QED BY <2>2, <2>3, <2>4, <2>5
<1>2. CASE Collect
  <2>1. /\ given \in Nat /\ Len(queue) \in Nat
        /\ given < Records /\ given' = given + 1
    BY <1>2 DEF Collect
  <2>2. queue' = Append(queue, given + 1)
    BY <1>2 DEF Collect
  <2>3. queue' \in Seq(Nat) /\ Len(queue') = Len(queue) + 1 /\ Consecutive(queue', given')
    BY <2>1, <2>2, Appended
  <2>4. worker = "collect" /\ worker' = "room" /\ providing /\ providing' \in BOOLEAN
    BY <1>2 DEF Collect
  <2>5. UNCHANGED <<tasks, last, notified, end, played, play, paused, running, inHand, sched, ctl, user,
                   plays, starts, again>>
    BY <1>2 DEF Collect
  <2>6. Types'
    <3>1. given' \in 0 .. Records
      BY <2>1
    <3>2. Types
      OBVIOUS
    <3> HIDE DEF PlayerInv
    <3> QED BY <2>4, <2>5, <3>1, <3>2 DEF Types
  <2>7. Numbered'
    <3>1. /\ Len(queue) <= Limit + again /\ UNCHANGED <<inHand, played, again>>
          /\ inHand # 0 => inHand = played + 1
          /\ Limit \in Nat /\ again \in Nat
      BY <2>4, <2>5
    <3> HIDE DEF PlayerInv
    <3>2. Len(queue') <= Limit + 1 + again'
      BY <2>1, <2>3, <3>1
    <3> QED BY <2>3, <3>1, <3>2 DEF Numbered
  <2>8. OneTaskEach' /\ Counted'
    <3>0. /\ ~Waits /\ Waits' /\ (Drops' <=> Drops) /\ tasks' = tasks /\ tasks \in Nat
          /\ Len(queue') = Len(queue) + 1
      BY <2>1, <2>3, <2>4, <2>5
    <3>1. OneTaskEach'
      <4>1. ctl \in Active /\ again = 0 => tasks + (IF Drops THEN 1 ELSE 0) = Len(queue)
        BY <3>0
      <4>2. ctl' = ctl /\ again' = again
        BY <2>5
      <4> HIDE DEF PlayerInv, Drops, Waits, Active
      <4> QED BY <2>1, <3>0, <4>1, <4>2 DEF OneTaskEach
    <3>2. queue' \in Seq(Nat) /\ (inHand' # 0 <=> sched' = "write")
      BY <2>3, <2>5
    <3>3. /\ inHand' = 0 => played' + Len(queue') = given'
          /\ inHand' # 0 => played' + 1 + Len(queue') = given'
      <4>1. Len(queue') = Len(queue) + 1 /\ UNCHANGED <<played, inHand>>
        BY <2>3, <2>5
      <4>2. /\ played \in Nat
            /\ inHand = 0 => played + Len(queue) = given
            /\ inHand # 0 => played + 1 + Len(queue) = given
        OBVIOUS
      <4> HIDE DEF PlayerInv
      <4> QED BY <2>1, <4>1, <4>2
    <3>4. tasks' + (IF Drops' THEN 1 ELSE 0) + (IF Waits' THEN 1 ELSE 0) <= Len(queue')
      <4>1. tasks + (IF Drops THEN 1 ELSE 0) <= Len(queue)
        BY <3>0
      <4> HIDE DEF PlayerInv, Drops, Waits
      <4> QED BY <2>1, <3>0, <4>1
    <3> HIDE DEF PlayerInv
    <3> QED BY <3>1, <3>2, <3>3, <3>4 DEF Counted
  <2>9. Controlled' /\ Fresh' /\ HasRoom' /\ Ending'
    BY <2>4, <2>5
  <2> QED BY <2>6, <2>7, <2>8, <2>9
<1>3. CASE TestRoom
  <2>1. Types'
    BY <1>3 DEF TestRoom, Room
  <2>2. Numbered'
    BY <1>3 DEF TestRoom, Room
  <2>3. OneTaskEach'
    BY <1>3 DEF TestRoom, Room
  <2>4. Counted'
    <3>1. /\ UNCHANGED <<given, queue, tasks, played, inHand, sched>> /\ (Waits' => Waits)
          /\ tasks \in Nat /\ Len(queue) \in Nat
      BY <1>3 DEF TestRoom, Room
    <3>2. tasks' + (IF Drops' THEN 1 ELSE 0) + (IF Waits' THEN 1 ELSE 0) <= Len(queue')
      <4>1. /\ tasks + (IF Drops THEN 1 ELSE 0) + (IF Waits THEN 1 ELSE 0) <= Len(queue)
            /\ Drops' <=> Drops
        BY <3>1
      <4> HIDE DEF PlayerInv, Waits, Drops
      <4> QED BY <3>1, <4>1
    <3> QED BY <3>1, <3>2
  <2>5. Controlled' /\ Fresh'
    BY <1>3 DEF TestRoom, Room
  <2>6. HasRoom'
    <3>1. /\ UNCHANGED <<queue, ctl, providing, again>> /\ worker = "room"
          /\ worker' \in {"asleep", "add", "collect"}
          /\ worker' = "add" => Len(queue) <= Limit
          /\ worker' = "collect" => ~running
      BY <1>3 DEF TestRoom, Room
    <3>2. ~running => ~providing
      <4>1. ctl \notin Before \cup {"stopped"}
        BY <3>1
      <4> QED BY <4>1
    <3>3. Len(queue) \in Nat /\ Limit \in Nat /\ again \in Nat
      OBVIOUS
    <3>4. ctl' \notin Before
      BY <3>1
    <3> HIDE DEF PlayerInv, Before
    <3> QED BY <3>1, <3>2, <3>3, <3>4 DEF HasRoom
  <2>7. Ending'
    BY <1>3 DEF TestRoom, Room
  <2> QED BY <2>1, <2>2, <2>3, <2>4, <2>5, <2>6, <2>7
<1>4. CASE AddTask
  <2>1. worker = "add" /\ worker' = "collect" /\ tasks' = tasks + 1
    BY <1>4 DEF AddTask
  <2>7. /\ UNCHANGED <<given, queue, providing, last, notified, end, played, play, paused, running, inHand,
                     sched, ctl, user, plays, starts, again>>
        /\ tasks \in Nat /\ given \in 0 .. Records /\ Len(queue) \in Nat
    BY <1>4 DEF AddTask
  <2>8. Waits /\ ~Waits' /\ (Drops' <=> Drops)
    BY <2>1, <2>7
  <2>9. tasks + (IF Drops THEN 1 ELSE 0) + 1 <= Len(queue) /\ Len(queue) <= given
    <3>1. tasks + (IF Drops THEN 1 ELSE 0) + (IF Waits THEN 1 ELSE 0) <= Len(queue)
      OBVIOUS
    <3>2. /\ inHand = 0 => played + Len(queue) = given
          /\ inHand # 0 => played + 1 + Len(queue) = given
          /\ played \in Nat
      OBVIOUS
    <3> HIDE DEF PlayerInv, Drops, Waits
    <3> QED BY <2>7, <2>8, <3>1, <3>2
  <2>2. Types'
    <3>1. tasks' \in 0 .. Records
      <4> HIDE DEF PlayerInv, Drops, Waits
      <4> QED BY <2>1, <2>7, <2>9
    <3>2. Types
      OBVIOUS
    <3> HIDE DEF PlayerInv
    <3> QED BY <2>1, <2>7, <3>1, <3>2 DEF Types
  <2>3. OneTaskEach'
    <3>1. ctl \in Active /\ again = 0 => tasks + (IF Drops THEN 1 ELSE 0) + 1 = Len(queue)
      BY <2>8
    <3> HIDE DEF PlayerInv, Drops, Waits, Active
    <3> QED BY <2>1, <2>7, <2>8, <3>1 DEF OneTaskEach
  <2>4. Counted'
    <3>1. /\ queue \in Seq(Nat) /\ (inHand # 0 <=> sched = "write")
          /\ inHand = 0 => played + Len(queue) = given
          /\ inHand # 0 => played + 1 + Len(queue) = given
      OBVIOUS
    <3>2. tasks' + (IF Drops' THEN 1 ELSE 0) + (IF Waits' THEN 1 ELSE 0) <= Len(queue')
      <4> HIDE DEF PlayerInv, Drops, Waits
      <4> QED BY <2>1, <2>7, <2>8, <2>9
    <3> HIDE DEF PlayerInv, Drops, Waits
    <3> QED BY <2>7, <3>1, <3>2 DEF Counted
  <2>5. Numbered' /\ Controlled'
    BY <1>4 DEF AddTask
  <2>6. Fresh' /\ HasRoom' /\ Ending'
    BY <1>4 DEF AddTask
  <2> QED BY <2>2, <2>3, <2>4, <2>5, <2>6
<1>5. CASE EndCollect
  BY <1>5 DEF EndCollect
<1>6. CASE WorkerEnds
  BY <1>6 DEF WorkerEnds, MayAnnounce
<1>7. CASE WorkerAnnounces
  BY <1>7 DEF WorkerAnnounces
<1> QED BY <1>1, <1>2, <1>3, <1>4, <1>5, <1>6, <1>7 DEF WorkerNext

(* The thread that plays.                                                  *)
LEMMA SchedulerPreserves ==
    ASSUME PlayerInv, SchedulerNext
    PROVE  PlayerInv'
<1> USE DevPlayerAssumption DEF PlayerInv, Scheduler, records, Types, Controlled, Fresh, Counted, HasRoom,
        Ending, Numbered, OneTaskEach, Before, Active, Drops, Waits, Played
<1>1. CASE TakeTask
  BY <1>1 DEF TakeTask
<1>2. CASE Pop
  <2>1. CASE running
    <3>0. Drops /\ tasks \in Nat /\ tasks + 1 + (IF Waits THEN 1 ELSE 0) <= Len(queue)
      BY <1>2 DEF Pop
    <3>1. /\ queue # <<>> /\ Len(queue) \in Nat \ {0} /\ given \in Nat /\ inHand = 0
          /\ played + Len(queue) = given /\ (again = 0 => worker # "begin") /\ ctl \in Active
      <4>1. queue # <<>> /\ Len(queue) \in Nat \ {0}
        BY <3>0
      <4> QED BY <1>2, <2>1, <4>1 DEF Pop
    <3>2. queue' = Tail(queue) /\ inHand' = Head(queue)
      BY <1>2, <2>1 DEF Pop
    <3>3. /\ queue' \in Seq(Nat) /\ Len(queue') = Len(queue) - 1 /\ Consecutive(queue', given)
          /\ inHand' = given - Len(queue) + 1
      BY <3>1, <3>2, Taken
    <3>4. inHand' = played + 1 /\ inHand' # 0 /\ inHand' <= Records
      <4> HIDE DEF PlayerInv
      <4>1. inHand' = given - Len(queue) + 1
        BY <3>3
      <4>2. given <= Records /\ played \in Nat
        BY DEF PlayerInv
      <4> QED BY <3>1, <4>1, <4>2
    <3>5. /\ sched = "run" /\ sched' = "write"
          /\ UNCHANGED <<given, providing, last, play, paused, running, ctl, user, plays, starts, again,
                         tasks, played, notified, end, worker>>
      BY <1>2, <2>1 DEF Pop
    <3>6. /\ tasks' + (IF Drops' THEN 1 ELSE 0) + (IF Waits' THEN 1 ELSE 0) <= Len(queue')
          /\ again = 0 =>
                tasks' + (IF Drops' THEN 1 ELSE 0) + (IF Waits' THEN 1 ELSE 0) = Len(queue')
      <4>1. again = 0 => tasks + 1 + (IF Waits THEN 1 ELSE 0) = Len(queue)
        BY <3>0, <3>1
      <4>2. /\ Len(queue') = Len(queue) - 1 /\ tasks' = tasks /\ ~Drops' /\ Waits' = Waits
            /\ Len(queue) \in Nat
        BY <3>1, <3>3, <3>5
      <4> HIDE DEF PlayerInv, Waits, Drops
      <4> QED BY <3>0, <4>1, <4>2
    <3>10. Types'
      BY <3>1, <3>4, <3>5
    <3>7. Numbered' /\ OneTaskEach'
      <4>1. Len(queue') <= Limit + 1 + again'
        <5>1. /\ Len(queue) <= Limit + 1 + again /\ again' = again /\ again \in Nat
              /\ Limit \in Nat /\ Len(queue) \in Nat /\ Len(queue') = Len(queue) - 1
          BY <3>1, <3>3, <3>5
        <5> HIDE DEF PlayerInv
        <5> QED BY <5>1
      <4> QED BY <3>3, <3>4, <3>5, <3>6, <4>1
    <3>9. Counted'
      <4>1. queue' \in Seq(Nat) /\ (inHand' # 0 <=> sched' = "write")
        BY <3>3, <3>4, <3>5
      <4>2. played' + 1 + Len(queue') = given'
        <5>1. Len(queue') = Len(queue) - 1 /\ UNCHANGED <<given, played>> /\ played \in Nat
          BY <3>3, <3>5
        <5> HIDE DEF PlayerInv
        <5> QED BY <3>1, <5>1
      <4> QED BY <3>4, <3>6, <4>1, <4>2
    <3>8. Controlled' /\ Fresh'
      BY <3>1, <3>3, <3>5
    <3>11. HasRoom'
      <4>1. Len(queue) <= Limit + again => Len(queue') <= Limit + again'
        <5>1. again' = again /\ again \in Nat /\ Limit \in Nat
          BY <3>5
        <5> HIDE DEF PlayerInv
        <5> QED BY <3>1, <3>3, <5>1
      <4> QED BY <3>5, <4>1
    <3>12. Ending'
      <4>1. queue = <<>> => queue' = <<>>
        BY <3>1
      <4> QED BY <3>1, <3>3, <3>5, <4>1
    <3> QED BY <3>7, <3>8, <3>9, <3>10, <3>11, <3>12
  <2>2. CASE ~running
    BY <1>2, <2>2 DEF Pop
  <2> QED BY <2>1, <2>2
<1>3. CASE Write
  BY <1>3 DEF Write
<1>4. CASE NotifyRoom
  <2>1. Types' /\ Numbered'
    BY <1>4 DEF NotifyRoom, Wake
  <2>2. OneTaskEach' /\ Counted'
    BY <1>4 DEF NotifyRoom, Wake
  <2>3. Controlled' /\ Fresh' /\ HasRoom' /\ Ending'
    BY <1>4 DEF NotifyRoom, Wake
  <2> QED BY <2>1, <2>2, <2>3
<1>5. CASE TestLast
  BY <1>5 DEF TestLast
<1>6. CASE TestEmpty
  BY <1>6 DEF TestEmpty
<1>7. CASE Exchange
  BY <1>7 DEF Exchange
<1>8. CASE SchedulerAnnounces
  BY <1>8 DEF SchedulerAnnounces
<1> QED BY <1>1, <1>2, <1>3, <1>4, <1>5, <1>6, <1>7, <1>8 DEF SchedulerNext

(* The channel play.                                                       *)
LEMMA PlayPreserves ==
    ASSUME PlayerInv, WritePlay \/ HandlePlay
    PROVE  PlayerInv'
<1> USE DevPlayerAssumption DEF PlayerInv, User, records, Types, Controlled, Fresh, Counted, HasRoom,
        Ending, Numbered, OneTaskEach, Before, Active, Drops, Waits, Played
<1>1. CASE WritePlay
  BY <1>1 DEF WritePlay
<1>2. CASE HandlePlay
  BY <1>2 DEF HandlePlay
<1> QED BY <1>1, <1>2

(* A stop of the provider keeps the types.                                 *)
LEMMA ControlKeepsTypes ==
    ASSUME Types, ctl' = "unobserve", providing' = FALSE,
           UNCHANGED <<given, queue, tasks, played, end, paused, running, worker, sched, starts, play,
                       last, notified, inHand, user, plays, again>>
    PROVE  Types'
<1>1. /\ given' \in 0 .. Records /\ tasks' \in 0 .. Records
      /\ played' \in 0 .. Records /\ inHand' \in 0 .. Records
      /\ plays' \in 0 .. MaxPlays /\ starts' \in 0 .. MaxStarts
  BY DEF Types
<1>2. /\ providing' \in BOOLEAN /\ last' \in BOOLEAN /\ notified' \in BOOLEAN /\ end' \in BOOLEAN
      /\ play' \in BOOLEAN /\ paused' \in BOOLEAN /\ running' \in BOOLEAN
  BY DEF Types
<1> QED BY <1>1, <1>2 DEF Types

(* Starts, stops and resets.                                               *)
LEMMA ControlPreserves ==
    ASSUME PlayerInv, ControlNext \/ Start \/ StopProvider \/ Reset
    PROVE  PlayerInv'
<1> USE DevPlayerAssumption DEF PlayerInv, Control, records, Types, Controlled, Fresh, Counted, HasRoom,
        Ending, Numbered, OneTaskEach, Before, Active, Drops, Waits, Played
<1>1. CASE Start
  <2>1. /\ ctl \in {"initialised", "stopped"} /\ ctl' = "observe" /\ sched' = "idle"
        /\ starts < MaxStarts /\ starts' = starts + 1 /\ providing' = TRUE
        /\ again' = IF ctl = "stopped" THEN again + 1 ELSE again
        /\ UNCHANGED <<given, queue, tasks, played, inHand, last, notified, end, play, paused,
                       running, worker, user, plays>>
    BY <1>1 DEF Start, CanStart
  <2>2. /\ starts \in Nat /\ again \in Nat /\ again <= starts /\ Len(queue) \in Nat
        /\ Limit \in Nat /\ MaxStarts \in Nat
    OBVIOUS
  <2>3. again' \in Nat /\ again' <= starts' /\ starts' \in 0 .. MaxStarts
    <3> HIDE DEF PlayerInv
    <3> QED BY <2>1, <2>2
  <2>4. /\ ctl = "stopped" => again' # 0 /\ Len(queue) <= Limit + again'
        /\ ctl = "initialised" => again' = again /\ Len(queue) <= Limit + again
    <3>1. /\ Len(queue) <= Limit + 1 + again
          /\ ctl = "initialised" => Len(queue) <= Limit + again
      OBVIOUS
    <3> HIDE DEF PlayerInv
    <3> QED BY <2>1, <2>2, <3>1
  <2>5. Types'
    BY <2>1, <2>3
  <2>6. Numbered'
    <3>1. Len(queue') <= Limit + 1 + again'
      BY <2>1, <2>2, <2>3, <2>4
    <3> QED BY <2>1, <3>1
  <2>7. OneTaskEach' /\ Counted'
    BY <2>1
  <2>8. Controlled' /\ Fresh'
    BY <2>1, <2>4
  <2>9. HasRoom'
    BY <2>1, <2>4
  <2>10. Ending'
    BY <2>1, <2>4
  <2> QED BY <2>5, <2>6, <2>7, <2>8, <2>9, <2>10
<1>2. CASE Observe
  <2>1. Types' /\ Numbered'
    BY <1>2 DEF Observe
  <2>2. OneTaskEach' /\ Counted'
    BY <1>2 DEF Observe
  <2>3. Controlled' /\ Fresh' /\ HasRoom' /\ Ending'
    BY <1>2 DEF Observe
  <2> QED BY <2>1, <2>2, <2>3
<1>3. CASE ReadPlay
  BY <1>3 DEF ReadPlay
<1>4. CASE ResumeAtStart
  <2>1. Types' /\ Numbered'
    BY <1>4 DEF ResumeAtStart
  <2>2. OneTaskEach' /\ Counted'
    BY <1>4 DEF ResumeAtStart
  <2>3. Controlled' /\ Fresh' /\ HasRoom' /\ Ending'
    BY <1>4 DEF ResumeAtStart
  <2> QED BY <2>1, <2>2, <2>3
<1>5. CASE StartWorker
  BY <1>5 DEF StartWorker
<1>6. CASE StopProvider
  <2>1. Types'
    <3>1. /\ ctl' = "unobserve" /\ providing' = FALSE
          /\ UNCHANGED <<given, queue, tasks, played, end, paused, running, worker, sched, starts, play, last,
                         notified, inHand, user, plays, again>>
      BY <1>6 DEF StopProvider
    <3>2. Types
      OBVIOUS
    <3> HIDE DEF PlayerInv, Types
    <3> QED BY <3>1, <3>2, ControlKeepsTypes
  <2>2. Numbered'
    BY <1>6 DEF StopProvider
  <2>3. OneTaskEach'
    BY <1>6 DEF StopProvider
  <2>4. Counted'
    BY <1>6 DEF StopProvider
  <2>5. Controlled' /\ Fresh'
    BY <1>6 DEF StopProvider
  <2>6. HasRoom' /\ Ending'
    BY <1>6 DEF StopProvider
  <2> QED BY <2>1, <2>2, <2>3, <2>4, <2>5, <2>6
<1>7. CASE StopScheduler
  <2>1. Types'
    BY <1>7 DEF StopScheduler
  <2>2. Numbered'
    BY <1>7 DEF StopScheduler
  <2>3. OneTaskEach'
    BY <1>7 DEF StopScheduler
  <2>4. Counted'
    BY <1>7 DEF StopScheduler
  <2>5. Controlled' /\ Fresh'
    BY <1>7 DEF StopScheduler
  <2>6. HasRoom' /\ Ending'
    BY <1>7 DEF StopScheduler
  <2> QED BY <2>1, <2>2, <2>3, <2>4, <2>5, <2>6
<1>8. CASE JoinScheduler
  <2>1. Types'
    BY <1>8 DEF JoinScheduler
  <2>2. Numbered'
    BY <1>8 DEF JoinScheduler
  <2>3. OneTaskEach'
    BY <1>8 DEF JoinScheduler
  <2>4. Counted'
    BY <1>8 DEF JoinScheduler
  <2>5. Controlled' /\ Fresh'
    BY <1>8 DEF JoinScheduler
  <2>6. HasRoom' /\ Ending'
    BY <1>8 DEF JoinScheduler
  <2> QED BY <2>1, <2>2, <2>3, <2>4, <2>5, <2>6
<1>9. CASE OnStop
  <2>1. Types'
    BY <1>9 DEF OnStop, Wake
  <2>2. Numbered'
    BY <1>9 DEF OnStop, Wake
  <2>3. OneTaskEach'
    BY <1>9 DEF OnStop, Wake
  <2>4. Counted'
    BY <1>9 DEF OnStop, Wake
  <2>5. Controlled' /\ Fresh'
    BY <1>9 DEF OnStop, Wake
  <2>6. HasRoom' /\ Ending'
    BY <1>9 DEF OnStop, Wake
  <2> QED BY <2>1, <2>2, <2>3, <2>4, <2>5, <2>6
<1>10. CASE JoinWorker
  BY <1>10 DEF JoinWorker
<1>11. CASE Reset
  <2>1. /\ ctl' = "initialised" /\ ctl = "stopped"
        /\ given' = 0 /\ queue' = <<>> /\ tasks' = 0 /\ played' = 0
        /\ play' = FALSE /\ end' = FALSE /\ paused' = TRUE /\ again' = 0
        /\ UNCHANGED <<inHand, providing, last, notified, running, worker, sched, user, plays, starts>>
    BY <1>11 DEF Reset
  <2>2. Len(queue') = 0 /\ queue' \in Seq(Nat) /\ Consecutive(queue', given')
    BY <2>1, NoneConsecutive
  <2>3. worker = "off" /\ sched = "off" /\ inHand = 0 /\ ~running /\ ~providing
    BY <2>1
  <2>4. Types'
    <3>1. /\ Records \in Nat /\ MaxStarts \in Nat /\ starts \in 0 .. MaxStarts /\ starts' = starts
          /\ again' = 0
      BY <2>1
    <3>2. /\ again' \in Nat /\ again' <= starts' /\ given' \in 0 .. Records
          /\ tasks' \in 0 .. Records /\ played' \in 0 .. Records
      <4> HIDE DEF PlayerInv
      <4> QED BY <2>1, <3>1
    <3> QED BY <2>1, <2>3, <3>2
  <2>7. Numbered' /\ OneTaskEach'
    BY <2>1, <2>2, <2>3
  <2>5. Counted'
    BY <2>1, <2>2, <2>3
  <2>6. Controlled' /\ Fresh' /\ HasRoom' /\ Ending'
    BY <2>1, <2>2, <2>3
  <2> QED BY <2>4, <2>5, <2>6, <2>7
<1> QED BY <1>1, <1>2, <1>3, <1>4, <1>5, <1>6, <1>7, <1>8, <1>9, <1>10, <1>11 DEF ControlNext

LEMMA NextPreserves == PlayerInv /\ [Next]_vars => PlayerInv'
<1> SUFFICES ASSUME PlayerInv, [Next]_vars PROVE PlayerInv'
  OBVIOUS
<1>1. CASE UNCHANGED vars
  BY <1>1 DEF PlayerInv, vars, records, Types, Numbered, OneTaskEach, Controlled, Fresh, Counted,
              HasRoom, Ending, Drops, Waits, Played
<1> QED BY <1>1, WorkerPreserves, SchedulerPreserves, PlayPreserves, ControlPreserves DEF Next

(* The invariant that counts the records and the tasks of the collector,   *)
(* the queue and the scheduler holds in every state of the player          *)
(* (DevPlayer.cpp: handle, run, on_start, on_stop).                        *)
THEOREM Invariance == Spec => []PlayerInv
<1>1. PlayerInv /\ [Next]_vars => PlayerInv'
  BY NextPreserves
<1> QED BY <1>1, InitInv, PTL DEF Spec

(* The records are played in order, each once, through stops and starts;   *)
(* no task finds the queue empty, and in a first run every record of the   *)
(* queue has its task; the queue passes its limit by one record, and by    *)
(* one more for each start without a reset.                                *)
THEOREM TypeCorrect == Spec => []TypeOK
<1>1. PlayerInv => TypeOK
  <2>1. PlayerInv => again \in 0 .. MaxStarts
    BY DevPlayerAssumption DEF PlayerInv, Types
  <2> QED BY <2>1 DEF PlayerInv, Types, Numbered, OneTaskEach, Counted, Consecutive, Active, TypeOK
<1> QED BY <1>1, Invariance, PTL

-----------------------------------------------------------------------------
(* A step that gives no record, takes none and does not end the play is    *)
(* none of the abstract player.                                            *)
LEMMA Stutters ==
    ASSUME UNCHANGED <<given, queue, again>>, Ended' <=> Ended
    PROVE  UNCHANGED Player!vars
<1>1. Ended' = Ended
  <2>1. Ended \in BOOLEAN /\ Ended' \in BOOLEAN
    BY Zenon DEF Ended
  <2> QED BY <2>1
<1>2. (given - Len(queue))' = given - Len(queue)
  OBVIOUS
<1> QED BY <1>1, <1>2 DEF Player!vars

(* Where a thread decides that the end is to be announced, all that was    *)
(* given has been taken, and the worker has begun.                         *)
LEMMA Announces ==
    ASSUME PlayerInv, UNCHANGED <<given, queue, again>>, queue = <<>>, again = 0,
           ~Ended, Ended' = TRUE
    PROVE  Player!Announce
<1>1. given - Len(queue) = given
  BY DEF PlayerInv, Types
<1> QED BY <1>1 DEF Player!Announce

LEMMA NoneTaken == \A q : q = <<>> => 0 - Len(q) = 0
<1> TAKE q
<1>1. q = <<>> => Len(q) = 0
  OBVIOUS
<1>2. \A n : n = 0 => 0 - n = 0
  OBVIOUS
<1> QED BY <1>1, <1>2, Zenon

LEMMA InitRefines == Init => Player!Init
<1> SUFFICES ASSUME Init PROVE Player!Init
  OBVIOUS
<1>1. given = 0 /\ given - Len(queue) = 0
  BY NoneTaken DEF Init
<1>2. Ended = FALSE /\ again = 0
  BY DEF Init, Ended
<1> QED BY <1>1, <1>2 DEF Player!Init

LEMMA WorkerRefines ==
    ASSUME PlayerInv, WorkerNext PROVE [Player!Next]_(Player!vars)
<1> USE DEF PlayerInv, Worker, records, Types, Controlled, Ending, Before, Active, Played, Ended
<1>1. CASE BeginLoop
  BY <1>1, Stutters DEF BeginLoop
<1>2. CASE Collect
  <2>1. /\ given < Records /\ given' = given + 1 /\ Len(queue') = Len(queue) + 1
        /\ ~Ended /\ ~Ended' /\ again' = again
    BY <1>2 DEF Collect, Counted
  <2>2. given' - Len(queue') = given - Len(queue)
    BY <2>1 DEF Counted
  <2>3. Ended \in BOOLEAN /\ Ended' \in BOOLEAN
    BY Zenon
  <2> HIDE DEF Ended
  <2>4. Ended' = Ended
    BY <2>1, <2>3
  <2>5. Player!Give
    BY <2>1, <2>2, <2>4, Zenon DEF Player!Give
  <2> QED BY <2>5 DEF Player!Next
<1>3. CASE TestRoom
  BY <1>3, Stutters DEF TestRoom
<1>4. CASE AddTask
  BY <1>4, Stutters DEF AddTask
<1>5. CASE EndCollect
  BY <1>5, Stutters DEF EndCollect
<1>6. CASE WorkerEnds
  <2>1. Played' /\ Played /\ UNCHANGED <<given, queue, again>>
    BY <1>6 DEF WorkerEnds
  <2>2. CASE MayAnnounce /\ again = 0
    <3>1. queue = <<>> /\ ~Ended /\ Ended' = TRUE
      BY <1>6, <2>1, <2>2 DEF WorkerEnds, MayAnnounce
    <3> QED BY <2>1, <2>2, <3>1, Announces DEF Player!Next
  <2>3. CASE ~(MayAnnounce /\ again = 0)
    BY <1>6, <2>1, <2>3, Stutters DEF WorkerEnds, MayAnnounce
  <2> QED BY <2>2, <2>3
<1>7. CASE WorkerAnnounces
  BY <1>7, Stutters DEF WorkerAnnounces
<1> QED BY <1>1, <1>2, <1>3, <1>4, <1>5, <1>6, <1>7 DEF WorkerNext

LEMMA SchedulerRefines ==
    ASSUME PlayerInv, SchedulerNext PROVE [Player!Next]_(Player!vars)
<1> USE DEF PlayerInv, Scheduler, records, Types, Controlled, Fresh, Ending, Before, Active, Played,
        Ended
<1>1. CASE TakeTask
  BY <1>1, Stutters DEF TakeTask
<1>2. CASE Pop
  <2>1. CASE running
    <3>1. queue # <<>> /\ Len(queue) \in Nat
      <4>1. tasks \in Nat /\ tasks + 1 + (IF Waits THEN 1 ELSE 0) <= Len(queue)
        BY <1>2 DEF Pop, Counted, Drops
      <4> QED BY <4>1 DEF Counted
    <3>2. /\ Len(queue') = Len(queue) - 1 /\ given' = given /\ again' = again
          /\ ~Ended /\ ~Ended'
      BY <1>2, <2>1, <3>1 DEF Pop, Counted
    <3>3. Ended \in BOOLEAN /\ Ended' \in BOOLEAN
      BY Zenon
    <3>4. given \in Nat
      OBVIOUS
    <3> HIDE DEF Ended, PlayerInv
    <3>5. Ended' = Ended
      BY <3>2, <3>3
    <3>6. /\ given - Len(queue) < given
          /\ given' - Len(queue') = given - Len(queue) + 1
      <4>1. Len(queue) # 0
        BY <3>1
      <4> QED BY <3>1, <3>2, <3>4, <4>1
    <3>7. Player!Take
      BY <3>2, <3>5, <3>6 DEF Player!Take
    <3> QED BY <3>7 DEF Player!Next
  <2>2. CASE ~running
    BY <1>2, <2>2, Stutters DEF Pop
  <2> QED BY <2>1, <2>2
<1>3. CASE Write
  BY <1>3, Stutters DEF Write
<1>4. CASE NotifyRoom
  BY <1>4, Stutters DEF NotifyRoom, Wake
<1>5. CASE TestLast
  BY <1>5, Stutters DEF TestLast
<1>6. CASE TestEmpty
  BY <1>6, Stutters DEF TestEmpty
<1>7. CASE Exchange
  <2>1. Played' = Played /\ UNCHANGED <<given, queue, again>> /\ notified' = TRUE
    BY <1>7 DEF Exchange
  <2>2. CASE Ended
    BY <2>1, <2>2, Stutters
  <2>3. CASE again = 0 /\ ~Ended
    <3>1. queue = <<>> /\ Played
      BY <1>7, <2>3 DEF Exchange
    <3> QED BY <2>1, <2>3, <3>1, Announces DEF Player!Next
  <2>4. CASE again # 0
    BY <2>1, <2>4, Stutters
  <2> QED BY <2>2, <2>3, <2>4
<1>8. CASE SchedulerAnnounces
  BY <1>8, Stutters DEF SchedulerAnnounces
<1> QED BY <1>1, <1>2, <1>3, <1>4, <1>5, <1>6, <1>7, <1>8 DEF SchedulerNext

LEMMA ControlRefines ==
    ASSUME PlayerInv, ControlNext \/ Start \/ StopProvider \/ Reset
    PROVE  [Player!Next]_(Player!vars)
<1> USE DEF PlayerInv, Control, records, Types, Controlled, Fresh, Ending, Before, Active, Played,
        Ended
<1>1. CASE Start
  <2>1. CASE ctl = "initialised"
    BY <1>1, <2>1, Stutters DEF Start
  <2>2. CASE ctl = "stopped"
    <3>1. again' = again + 1 /\ UNCHANGED <<given, queue>> /\ ctl' = "observe"
      BY <1>1, <2>2 DEF Start
    <3>2. Ended' = FALSE
      BY <3>1
    <3>3. Player!StartAgain
      BY <3>1, <3>2 DEF Player!StartAgain
    <3> QED BY <3>3 DEF Player!Next
  <2> QED BY <1>1, <2>1, <2>2 DEF Start, CanStart
<1>2. CASE Observe
  BY <1>2, Stutters DEF Observe
<1>3. CASE ReadPlay
  BY <1>3, Stutters DEF ReadPlay
<1>4. CASE ResumeAtStart
  BY <1>4, Stutters DEF ResumeAtStart
<1>5. CASE StartWorker
  BY <1>5, Stutters DEF StartWorker
<1>6. CASE StopProvider
  BY <1>6, Stutters DEF StopProvider
<1>7. CASE StopScheduler
  BY <1>7, Stutters DEF StopScheduler
<1>8. CASE JoinScheduler
  BY <1>8, Stutters DEF JoinScheduler
<1>9. CASE OnStop
  BY <1>9, Stutters DEF OnStop, Wake
<1>10. CASE JoinWorker
  BY <1>10, Stutters DEF JoinWorker
<1>11. CASE Reset
  <2>1. given' = 0 /\ given' - Len(queue') = 0 /\ again' = 0
    BY <1>11, NoneTaken DEF Reset
  <2>2. Ended' = FALSE
    BY <1>11 DEF Reset
  <2>3. Player!Reset
    BY <2>1, <2>2 DEF Player!Reset, Player!Init
  <2> QED BY <2>3 DEF Player!Next
<1> QED BY <1>1, <1>2, <1>3, <1>4, <1>5, <1>6, <1>7, <1>8, <1>9, <1>10, <1>11 DEF ControlNext

LEMMA PlayRefines ==
    ASSUME WritePlay \/ HandlePlay \/ UNCHANGED vars PROVE [Player!Next]_(Player!vars)
BY Stutters DEF WritePlay, HandlePlay, User, vars, records, Played, Ended

(* The player implements Replay: whatever its two threads, the channel     *)
(* play and the device that starts, stops and resets it do, records are    *)
(* taken in order, each once; and in a first run nothing is played after   *)
(* the end has been decided, which happens once, when all that was given   *)
(* has been taken.                                                         *)
THEOREM Implements == Spec => Refines
<1>1. PlayerInv /\ [Next]_vars => [Player!Next]_(Player!vars)
  BY WorkerRefines, SchedulerRefines, ControlRefines, PlayRefines DEF Next
<1>2. Spec => []PlayerInv
  BY Invariance
<1> QED BY <1>1, <1>2, InitRefines, PTL DEF Spec, Refines, Player!Spec
=============================================================================
