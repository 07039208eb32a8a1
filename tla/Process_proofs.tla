---------------------------- MODULE Process_proofs ----------------------------
(***************************************************************************)
(* What is proved of a process, for any pipes, buffers and numbers of      *)
(* tries, and however it ends: that nothing of it is left behind, and that *)
(* what it wrote is given to the callbacks.                                *)
(***************************************************************************)
EXTENDS Process, TLAPS

Places == {"idle", "launch", "failed", "poll", "ask", "look", "drain", "close", "halt", "join",
           "clear", "try", "end", "done", "start", "lock", "arm", "loop", "self", "endPoll", "over",
           "stop", "joinRun", "wait"}

BeforeLaunch == {"idle", "launch", "failed"}

(* The process is executed or run as a service, and only what runs is      *)
(* stopped.                                                                *)
OneUser ==
    /\ pc \in [Threads -> Places]
    /\ pc["caller"] = "idle" \/ (pc["runner"] = "idle" /\ pc["stopper"] = "idle")
    /\ pc["stopper"] # "idle" => pc["runner"] \notin BeforeLaunch
    /\ \A t \in Threads : pc[t] \in BeforeLaunch => wait[t] = "no"
    /\ pc["caller"] \in BeforeLaunch /\ pc["runner"] \in BeforeLaunch <=> child = "none"

(* The pid is known until the system has said how the process ended, and   *)
(* it is believed to run until somebody has read that; both are forgotten  *)
(* by a reset, which comes after.                                          *)
Collected ==
    /\ reaped => Dead
    /\ child = "none" => ~started /\ ~known /\ code = "none"
    /\ child # "none" => (started \/ reaped) /\ (known \/ reaped)
    /\ code # "none" => reaped /\ code = child

(* A thread that has left terminate's loop has seen the end of the process,*)
(* or is about to ask for it after the kill.                               *)
Awaited == \A t \in Threads :
    /\ pc[t] = "end" => reaped \/ (Dead /\ wait[t] = "check")
    /\ pc[t] \in {"wait", "done"} => reaped /\ wait[t] = "no"

(* execute is alone to wait for the process: what it was told it keeps,    *)
(* unless that is a core dump, after which it asks again.                  *)
AloneToWait ==
    pc["runner"] = "idle" /\ reaped /\ child # "dumped" =>
        /\ code = child /\ wait["caller"] # "check"
        /\ started => wait["caller"] = "told"

(* No SIGKILL of execute goes astray, but for a core dump.                 *)
Aimed == astray => child = "dumped" \/ pc["stopper"] # "idle"

(* terminate's steps, in their order.                                      *)
Closed  == {"halt", "join", "clear", "try", "end", "wait", "done"}
Cleared == {"try", "end", "wait", "done"}
Descriptors == \A t \in {"caller", "stopper"} :
    /\ pc[t] \in Closed => readEnd = {}
    /\ pc[t] \in Cleared => slots = {}

(* What is left in the pipes: nothing where a pipe was closed before       *)
(* terminate did it, and nothing in those that the poll has when it finds  *)
(* no event.                                                               *)
Given ==
    ~Terminating("caller") /\ ~Terminating("stopper") =>
        /\ \A s \in piped \ readEnd : pipe[s] = 0
        /\ pc["runner"] \notin BeforeLaunch => slots = readEnd
        /\ pc["runner"] = "self" => reaped /\ \A s \in piped : pipe[s] = 0

Result == pc["caller"] = "done" => /\ (result = "status" <=> child = "exited")
                                  /\ (started => child = "dumped")

ProcessInv == TypeOK /\ OneUser /\ Collected /\ Awaited /\ AloneToWait /\ Aimed /\ Descriptors
              /\ Given /\ Result

-----------------------------------------------------------------------------
LEMMA InitInv == Init => ProcessInv
<1> SUFFICES ASSUME Init PROVE ProcessInv
  OBVIOUS
<1> USE ProcessAssumption DEF Init
<1>1. TypeOK
  <2>1. pc["runner"] \notin {"arm", "loop", "self"}
    BY DEF Threads
  <2>2. wait \in [Threads -> {"no", "check", "told"}]
    OBVIOUS
  <2>3. left \in [Streams -> 0 .. MaxSaid] /\ pipe \in [Streams -> 0 .. Capacity]
    OBVIOUS
  <2>4. pollRunning <=> pc["runner"] \in {"arm", "loop", "self"}
    BY <2>1
  <2>5. /\ child = "none" /\ code = "none" /\ started = FALSE /\ known = FALSE
        /\ tries \in 0 .. Tries /\ result = "none" /\ pollState = "Stopped"
    OBVIOUS
  <2>6. {reaped, lasts, limit, astray, sized, started, known, pollRunning, pollStop} \subseteq BOOLEAN
    OBVIOUS
  <2>7. /\ piped \subseteq Streams /\ writeEnd \subseteq piped
        /\ readEnd \subseteq piped /\ slots \subseteq piped
    OBVIOUS
  <2> HIDE DEF Init
  <2> QED BY <2>2, <2>3, <2>4, <2>5, <2>6, <2>7 DEF TypeOK
<1>2. OneUser
  BY DEF OneUser, Threads, Places, BeforeLaunch
<1>3. Collected /\ Awaited /\ AloneToWait /\ Aimed /\ Descriptors /\ Result
  BY DEF Collected, Awaited, AloneToWait, Aimed, Descriptors, Result, Threads, Closed, Cleared
<1>4. Given
  BY DEF Given, BeforeLaunch, Terminating, Threads
<1> QED BY <1>1, <1>2, <1>3, <1>4 DEF ProcessInv

(* The process by itself: it writes what is left, and may end.             *)
LEMMA ChildPreserves ==
    ASSUME ProcessInv, Exit \/ Die \/ \E s \in Streams : Write(s) \/ Shut(s)
    PROVE  ProcessInv'
<1> USE ProcessAssumption DEF ProcessInv, streamVars, fdVars, watchVars, pollVars, callVars
<1>1. CASE Exit \/ Die
  <2>1. /\ child = "running" /\ child' \in {"exited", "killed", "dumped"}
        /\ UNCHANGED <<reaped, left, lasts, pipe, writeEnd, piped, readEnd,
                       slots, sized, started, known, code,
                       pollState, pollRunning, pollStop, pc, wait, tries, limit, astray, result>>
    BY <1>1 DEF Exit, Die
  <2>2. TypeOK'
    BY <2>1 DEF TypeOK
  <2>3. OneUser' /\ Collected' /\ Awaited' /\ AloneToWait' /\ Aimed' /\ Descriptors'
    BY <2>1 DEF OneUser, Collected, Awaited, AloneToWait, Aimed, Descriptors, Dead
  <2>4. Given' /\ Result'
    BY <2>1 DEF Given, Terminating, Result, Awaited, Collected, Dead, Threads
  <2> QED BY <2>2, <2>3, <2>4
<1>2. ASSUME NEW s \in Streams, Write(s)
      PROVE  ProcessInv'
  <2>1. /\ child = "running" /\ child' \in {"running", "killed"} /\ left[s] > 0
        /\ left' = [left EXCEPT ![s] = @ - 1]
        /\ pipe' = pipe \/ (s \in readEnd /\ pipe[s] < Capacity /\ pipe' = [pipe EXCEPT ![s] = @ + 1])
        /\ UNCHANGED <<reaped, lasts, writeEnd, piped, readEnd, slots, sized, started, known, code,
                       pollState, pollRunning, pollStop, pc, wait, tries, limit, astray, result>>
    BY <1>2 DEF Write
  <2>2. TypeOK'
    BY <2>1 DEF TypeOK
  <2>3. OneUser' /\ Collected' /\ Awaited' /\ AloneToWait' /\ Aimed' /\ Descriptors'
    BY <2>1 DEF OneUser, Collected, Awaited, AloneToWait, Aimed, Descriptors, Dead
  <2>4. Result'
    BY <2>1 DEF Result, Awaited, Collected, Dead, Threads
  <2>5. Given'
    BY <2>1 DEF Given, Terminating, TypeOK, Collected, Dead
  <2> QED BY <2>2, <2>3, <2>4, <2>5
<1>3. ASSUME NEW s \in Streams, Shut(s)
      PROVE  ProcessInv'
  <2>1. /\ writeEnd' = writeEnd \ {s}
        /\ UNCHANGED <<child, reaped, left, lasts, pipe, piped, readEnd, slots, sized, started, known, code,
                       pollState, pollRunning, pollStop, pc, wait, tries, limit, astray, result>>
    BY <1>3 DEF Shut
  <2>2. TypeOK'
    BY <2>1 DEF TypeOK
  <2>3. OneUser' /\ Collected' /\ Awaited' /\ AloneToWait' /\ Aimed' /\ Descriptors'
    BY <2>1 DEF OneUser, Collected, Awaited, AloneToWait, Aimed, Descriptors, Dead
  <2>4. Given' /\ Result'
    BY <2>1 DEF Given, Terminating, Result
  <2> QED BY <2>2, <2>3, <2>4
<1> QED BY <1>1, <1>2, <1>3

(* The launch, after which the process runs or nothing was done.           *)
LEMMA LaunchPreserves ==
    ASSUME ProcessInv, Launch \/ LaunchFails
    PROVE  ProcessInv'
<1> USE DEF ProcessInv, procVars, streamVars, pollVars, callVars, watchVars
<1>1. ASSUME NEW t \in {"caller", "runner"}, NEW next \in {"ask", "poll", "over", "start"},
             t = "caller" <=> next \in {"ask", "poll"}, Launched(t, next)
      PROVE  ProcessInv'
  <2>1. /\ pc[t] = "launch" /\ wait[t] = "no" /\ pc' = [pc EXCEPT ![t] = next]
        /\ child' = "running" /\ known' = TRUE /\ started' = TRUE
        /\ slots' = readEnd /\ sized' = (readEnd # {})
        /\ UNCHANGED <<reaped, left, lasts, pipe, writeEnd, piped, readEnd, code, pollState, pollRunning,
                       pollStop, wait, tries, limit, astray, result>>
    BY <1>1 DEF Launched, Goes, At
  <2>2. child = "none" /\ ~reaped /\ code = "none"
    BY <2>1 DEF OneUser, Collected, BeforeLaunch, Dead, TypeOK
  <2>3. TypeOK'
    BY <1>1, <2>1, <2>2 DEF TypeOK, OneUser, Threads
  <2>4. OneUser'
    BY <1>1, <2>1, <2>2 DEF OneUser, Threads, Places, BeforeLaunch
  <2>5. Collected' /\ Awaited' /\ AloneToWait' /\ Aimed' /\ Descriptors' /\ Result'
    BY <1>1, <2>1, <2>2 DEF OneUser, Collected, Awaited, AloneToWait, Aimed, Descriptors,
      Result, Dead, Threads, Closed, Cleared, Places, BeforeLaunch
  <2>6. Given'
    BY <1>1, <2>1, <2>2 DEF OneUser, Given, Terminating, Threads, Places, BeforeLaunch
  <2> QED BY <2>3, <2>4, <2>5, <2>6
<1>2. CASE Launch
  BY <1>1, <1>2 DEF Launch
<1>3. ASSUME NEW t \in {"caller", "runner"}, Goes(t, "launch", "failed"),
             slots' = readEnd, sized' = (readEnd # {}),
             result' = IF t = "caller" THEN "failure" ELSE result,
             UNCHANGED <<procVars, readEnd, watchVars, pollVars, wait, tries, limit, astray>>
      PROVE  ProcessInv'
  <2>1. TypeOK'
    BY <1>3 DEF Goes, At, TypeOK, OneUser, Threads
  <2>2. OneUser' /\ Collected' /\ Awaited' /\ AloneToWait' /\ Aimed' /\ Descriptors' /\ Result'
    BY <1>3 DEF Goes, At, OneUser, Collected, Awaited, AloneToWait, Aimed, Descriptors, Result, Dead,
                Threads, Closed, Cleared, Places, BeforeLaunch
  <2>3. Given'
    BY <1>3 DEF Goes, At, OneUser, Given, Terminating, Threads, Places, BeforeLaunch
  <2> QED BY <2>1, <2>2, <2>3
<1> QED BY <1>2, <1>3 DEF LaunchFails

(* A poll with an event takes from the pipes, and closes those that have   *)
(* nothing more to give.                                                   *)
LEMMA Handled ==
    ASSUME TypeOK, Handle
    PROVE  /\ pipe' \in [Streams -> 0 .. Capacity]
           /\ \A s \in Streams : pipe[s] = 0 => pipe'[s] = 0
           /\ readEnd' \subseteq readEnd /\ slots' \subseteq slots
           /\ \A s \in readEnd \ readEnd' : pipe[s] = 0
           /\ slots = readEnd => slots' = readEnd'
           /\ UNCHANGED <<child, reaped, left, lasts, writeEnd, piped, sized, started, known, code, pollState,
                          pollRunning, pollStop, wait>>
<1>1. /\ pipe \in [Streams -> 0 .. Capacity]
      /\ pipe' = [s \in Streams |-> IF s \in Readable \ HungUp
                                    THEN pipe[s] - Least(pipe[s], Buffer) ELSE pipe[s]]
      /\ slots' = slots \ HungUp /\ readEnd' = readEnd \ HungUp
  BY DEF TypeOK, Handle
<1>2. ASSUME NEW n \in 0 .. Capacity
      PROVE  n - Least(n, Buffer) \in 0 .. Capacity /\ (n = 0 => n - Least(n, Buffer) = 0)
  BY ProcessAssumption DEF Least
<1>3. /\ pipe' \in [Streams -> 0 .. Capacity]
      /\ \A s \in Streams : pipe[s] = 0 => pipe'[s] = 0
  BY <1>1, <1>2
<1>4. \A s \in HungUp : pipe[s] = 0
  BY DEF HungUp
<1>5. UNCHANGED <<child, reaped, left, lasts, writeEnd, piped, sized, started, known, code, pollState,
                  pollRunning, pollStop, wait>>
  BY DEF Handle, watchVars, pollVars
<1> QED BY <1>1, <1>3, <1>4, <1>5

(* One without an event found every pipe that it polls empty.              *)
LEMMA TimedOut ==
    ASSUME TypeOK, NEW t, TimesOut(t)
    PROVE  /\ \A s \in slots \cap readEnd : pipe[s] = 0
           /\ wait' = [wait EXCEPT ![t] = IF started THEN "check" ELSE "no"]
           /\ pollState' \in {"Stopped", "Running"} /\ pollStop' \in BOOLEAN
           /\ UNCHANGED <<child, reaped, left, lasts, pipe, writeEnd, piped, readEnd, slots, sized, started,
                          known, code, pollRunning>>
<1>1. \A s \in slots \cap readEnd : pipe[s] = 0
  <2>1. Readable = {} /\ pipe \in [Streams -> 0 .. Capacity] /\ readEnd \subseteq Streams
    BY DEF TypeOK, TimesOut, Events
  <2> QED BY <2>1, ProcessAssumption DEF Readable
<1>2. pollState' \in {"Stopped", "Running"} /\ pollStop' \in BOOLEAN
  BY DEF TypeOK, TimesOut
<1>3. UNCHANGED <<child, reaped, left, lasts, pipe, writeEnd, piped, readEnd, slots, sized, started, known,
                  code, pollRunning>>
  BY DEF TimesOut, procVars, streamVars, fdVars, watchVars
<1> QED BY <1>1, <1>2, <1>3 DEF TimesOut, Waits

(* A step of the run that only moves its poll.                             *)
LEMMA PollMoves ==
    ASSUME TypeOK, UNCHANGED <<procVars, fdVars, watchVars, callVars, wait>>,
           pollState' = pollState, pollStop' \in {pollStop, FALSE}, pollRunning' \in {pollRunning, FALSE},
           pollRunning' <=> pc'["runner"] \in {"arm", "loop", "self"}
    PROVE  TypeOK'
<1>1. UNCHANGED <<child, reaped, left, lasts, pipe, writeEnd, piped, readEnd,
                       slots, sized, started, known, code,
                  wait, tries, limit, astray, result>>
  BY DEF procVars, streamVars, fdVars, watchVars, callVars
<1>2. pollStop' \in BOOLEAN /\ pollRunning' \in BOOLEAN
  BY DEF TypeOK
<1> QED BY <1>1, <1>2 DEF TypeOK

(* The run: its poll is armed, loops and is left, or stops itself.         *)
LEMMA RunPreserves ==
    ASSUME ProcessInv, Start
    PROVE  ProcessInv'
<1> USE DEF ProcessInv, RunKeeps, procVars, streamVars, fdVars, watchVars, callVars, Goes, At,
        OneUser, Collected, Awaited, AloneToWait, Aimed, Descriptors, Given, Result, Dead, Threads, Closed, Cleared, Places,
        BeforeLaunch, Terminating
<1>1. CASE StartPoll
  <2>1. TypeOK'
    BY <1>1 DEF StartPoll, TypeOK
  <2>2. OneUser' /\ Collected' /\ Awaited' /\ AloneToWait' /\ Aimed'
    BY <1>1 DEF StartPoll
  <2>3. Descriptors' /\ Result'
    BY <1>1 DEF StartPoll
  <2>4. Given'
    BY <1>1 DEF StartPoll
  <2> QED BY <2>1, <2>2, <2>3, <2>4
<1>2. CASE LockPoll
  <2>1. TypeOK'
    BY <1>2 DEF LockPoll, TypeOK
  <2>2. OneUser' /\ Collected' /\ Awaited' /\ AloneToWait' /\ Aimed'
    BY <1>2 DEF LockPoll
  <2>3. Descriptors' /\ Result'
    BY <1>2 DEF LockPoll
  <2>4. Given'
    BY <1>2 DEF LockPoll
  <2> QED BY <2>1, <2>2, <2>3, <2>4
<1>3. CASE Arm
  <2>1. TypeOK'
    <3>1. /\ UNCHANGED <<procVars, fdVars, watchVars, callVars, wait>>
          /\ pollState' = pollState /\ pollStop' \in {pollStop, FALSE}
          /\ pollRunning' <=> pc'["runner"] \in {"arm", "loop", "self"}
          /\ pollRunning' \in {pollRunning, FALSE}
      BY <1>3 DEF Arm, TypeOK
    <3> QED BY <3>1, PollMoves
  <2>2. OneUser' /\ Collected' /\ Awaited' /\ AloneToWait' /\ Aimed'
    BY <1>3 DEF Arm
  <2>3. Descriptors' /\ Result'
    BY <1>3 DEF Arm
  <2>4. Given'
    BY <1>3 DEF Arm
  <2> QED BY <2>1, <2>2, <2>3, <2>4
<1>4. CASE Leave
  <2>1. TypeOK'
    <3>1. /\ UNCHANGED <<procVars, fdVars, watchVars, callVars, wait>>
          /\ pollState' = pollState /\ pollStop' \in {pollStop, FALSE}
          /\ pollRunning' <=> pc'["runner"] \in {"arm", "loop", "self"}
          /\ pollRunning' \in {pollRunning, FALSE}
      BY <1>4 DEF Leave, TypeOK
    <3> QED BY <3>1, PollMoves
  <2>2. OneUser' /\ Collected' /\ Awaited' /\ AloneToWait' /\ Aimed'
    BY <1>4 DEF Leave
  <2>3. Descriptors' /\ Result'
    BY <1>4 DEF Leave
  <2>4. Given'
    BY <1>4 DEF Leave
  <2> QED BY <2>1, <2>2, <2>3, <2>4
<1>5. CASE EndPoll
  <2>1. TypeOK'
    BY <1>5 DEF EndPoll, TypeOK
  <2>2. OneUser' /\ Collected' /\ Awaited' /\ AloneToWait' /\ Aimed'
    BY <1>5 DEF EndPoll
  <2>3. Descriptors' /\ Result'
    BY <1>5 DEF EndPoll
  <2>4. Given'
    BY <1>5 DEF EndPoll
  <2> QED BY <2>1, <2>2, <2>3, <2>4
<1>6. CASE Poll
  <2>1. ASSUME Handle
        PROVE  ProcessInv'
    <3>1. pc' = pc /\ UNCHANGED <<tries, limit, astray, result>>
      BY <1>6, <2>1 DEF Poll, Handle
    <3>2. TypeOK'
      BY <2>1, <3>1, Handled DEF TypeOK
    <3>3. Given'
      BY <2>1, <3>1, Handled DEF TypeOK
    <3> QED BY <2>1, <3>1, <3>2, <3>3, Handled
  <2>2. ASSUME TimesOut("runner")
        PROVE  ProcessInv'
    <3>1. /\ pc["runner"] = "loop" /\ wait["runner"] = "no"
          /\ \E to \in {"loop", "self"} : pc' = [pc EXCEPT !["runner"] = to] /\ (to = "self" => ~started)
          /\ UNCHANGED <<tries, limit, astray, result>>
      BY <1>6 DEF Poll
    <3>2. pc'["runner"] \in {"loop", "self"} /\ pollRunning' = TRUE
      BY <2>2, <3>1, TimedOut DEF TypeOK
    <3>3. pc' \in [Threads -> Places] /\ \A t \in {"caller", "stopper"} : pc'[t] = pc[t]
      BY <3>1
    <3>4. /\ wait' \in [Threads -> {"no", "check", "told"}]
          /\ \A t \in {"caller", "stopper"} : wait'[t] = wait[t]
      BY <2>2, TimedOut DEF TypeOK
    <3>5. UNCHANGED <<child, reaped, readEnd, slots, started, known, code, astray, result>>
      BY <2>2, <3>1, TimedOut
    <3>6. TypeOK'
      BY <2>2, <3>1, <3>2, <3>4, TimedOut DEF TypeOK
    <3>7. Given'
      <4>1. pipe' = pipe /\ readEnd' = readEnd /\ slots' = slots /\ piped' = piped
            /\ \A s \in slots \cap readEnd : pipe[s] = 0
        BY <2>2, TimedOut
      <4>2. /\ Terminating("caller")' = Terminating("caller")
            /\ Terminating("stopper")' = Terminating("stopper")
        BY <3>3
      <4>3. /\ pc["runner"] = "loop" /\ pc["runner"] \notin BeforeLaunch
            /\ pc'["runner"] = "self" => ~started
        BY <3>1, <3>3
      <4>4. ~started => reaped
        BY <4>3
      <4>5. piped \in SUBSET Streams /\ readEnd \subseteq piped
        BY DEF TypeOK
      <4>6. Given
        OBVIOUS
      <4> HIDE DEF ProcessInv, Terminating, BeforeLaunch
      <4> QED BY <3>2, <3>5, <4>1, <4>2, <4>3, <4>4, <4>5, <4>6 DEF BeforeLaunch
    <3>8. OneUser' /\ Collected'
      BY <3>1, <3>2, <3>3, <3>4, <3>5
    <3>9. Awaited' /\ AloneToWait' /\ Aimed' /\ Descriptors' /\ Result'
      BY <3>2, <3>3, <3>4, <3>5
    <3> QED BY <3>6, <3>7, <3>8, <3>9
  <2> QED BY <1>6, <2>1, <2>2 DEF Poll, PollOnce
<1> QED BY <1>1, <1>2, <1>3, <1>4, <1>5, <1>6 DEF Start

(* A wait: the one that is told how the process ended collects it, and     *)
(* whoever reads the answer knows that it has ended.                       *)
LEMMA WaitPreserves ==
    ASSUME ProcessInv, NEW t \in Threads, Runs(t)
    PROVE  ProcessInv'
<1> USE DEF ProcessInv, fdVars, pollVars, callVars, procVars, streamVars
<1>1. CASE CheckStatus(t)
  <2>1. /\ wait[t] = "check" /\ wait' = [wait EXCEPT ![t] = "told"]
        /\ UNCHANGED <<child, left, lasts, pipe, writeEnd, piped, readEnd, slots, sized, started, pollState,
                       pollRunning, pollStop, pc, tries, limit, astray, result>>
    BY <1>1 DEF CheckStatus
  <2>2. /\ reaped' \in BOOLEAN /\ known' \in BOOLEAN
        /\ reaped => reaped' /\ code' = "none" /\ known' = FALSE
        /\ ~reaped /\ Dead => reaped' /\ code' = child /\ known' = (child = "dumped")
        /\ ~reaped /\ ~Dead => ~reaped' /\ code' = "none" /\ known' = known
    BY <1>1 DEF CheckStatus, Collected, Dead, TypeOK
  <2>3. pc[t] \notin BeforeLaunch
    BY <2>1 DEF OneUser
  <2>4. TypeOK'
    BY <2>1, <2>2 DEF TypeOK, Collected, Dead
  <2>5. OneUser' /\ Descriptors' /\ Result' /\ Given'
    BY <2>1, <2>2, <2>3 DEF OneUser, Descriptors, Result, Given, Terminating
  <2>6. Collected' /\ Awaited'
    BY <2>1, <2>2, <2>3 DEF Collected, Awaited, Dead, TypeOK
  <2>7. AloneToWait' /\ Aimed'
    BY <2>1, <2>2, <2>3 DEF AloneToWait, Aimed, OneUser, Threads, TypeOK, BeforeLaunch
  <2> QED BY <2>4, <2>5, <2>6, <2>7
<1>2. CASE Told(t)
  <2>1. /\ wait[t] = "told" /\ wait' = [wait EXCEPT ![t] = "no"]
        /\ started' = (started /\ code \notin {"exited", "killed"})
        /\ UNCHANGED <<child, reaped, left, lasts, pipe, writeEnd, piped, readEnd, slots, sized, known, code,
                       pollState, pollRunning, pollStop, pc, tries, limit, astray, result>>
    BY <1>2 DEF Told, HasTerminated
  <2>2. TypeOK'
    BY <2>1 DEF TypeOK
  <2>3. OneUser' /\ Descriptors' /\ Result' /\ Given' /\ Awaited'
    BY <2>1 DEF TypeOK, OneUser, Descriptors, Result, Given, Terminating, Awaited, Dead
  <2>4. Collected' /\ AloneToWait' /\ Aimed'
    BY <2>1 DEF Collected, AloneToWait, Aimed, Dead, TypeOK
  <2> QED BY <2>2, <2>3, <2>4
<1> QED BY <1>1, <1>2 DEF Runs

(* execute reads the pipes, and so does terminate before it closes them.   *)
LEMMA ReadPreserves ==
    ASSUME ProcessInv, NEW t \in {"caller", "stopper"},
           \/ t = "caller" /\ Goes(t, "poll", "ask")
           \/ Goes(t, "drain", "close"),
           PollOnce(t), UNCHANGED callVars
    PROVE  ProcessInv'
<1> USE DEF ProcessInv, callVars, Goes, At
<1>1. /\ pc[t] \in {"poll", "drain"} /\ wait[t] = "no"
      /\ \E to \in {"ask", "close"} : pc' = [pc EXCEPT ![t] = to]
      /\ UNCHANGED <<tries, limit, astray, result>>
  OBVIOUS
<1>2. /\ pc' \in [Threads -> Places] /\ pc'["runner"] = pc["runner"] /\ pc'[t] \in {"ask", "close"}
      /\ \A u \in Threads \ {t} : pc'[u] = pc[u]
  BY <1>1 DEF OneUser, Threads, Places
<1>3. /\ UNCHANGED <<child, reaped, left, lasts, writeEnd, piped, sized, started, known, code, pollRunning>>
      /\ pipe' \in [Streams -> 0 .. Capacity]
      /\ \A s \in Streams : pipe[s] = 0 => pipe'[s] = 0
      /\ readEnd' \subseteq readEnd /\ slots' \subseteq slots
      /\ \A s \in readEnd \ readEnd' : pipe[s] = 0
      /\ slots = readEnd => slots' = readEnd'
      /\ pollState' \in {"Stopped", "Running"} /\ pollStop' \in BOOLEAN
  BY Handled, TimedOut DEF PollOnce, TypeOK
<1>4. wait' = wait \/ wait' = [wait EXCEPT ![t] = IF started THEN "check" ELSE "no"]
  BY Handled, TimedOut DEF PollOnce
<1>5. TypeOK'
  <2>1. pollRunning' <=> pc'["runner"] \in {"arm", "loop", "self"}
    BY <1>2, <1>3 DEF TypeOK
  <2>2. wait' \in [Threads -> {"no", "check", "told"}]
    BY <1>4 DEF TypeOK
  <2> QED BY <1>1, <1>3, <2>1, <2>2 DEF TypeOK
<1>6. OneUser'
  <2>1. pc[t] \notin BeforeLaunch /\ pc'[t] \notin BeforeLaunch
    BY <1>1, <1>2 DEF BeforeLaunch
  <2>2. \A u \in Threads : pc'[u] \in BeforeLaunch => wait'[u] = "no"
    BY <1>2, <1>4, <2>1 DEF OneUser, TypeOK
  <2>3. pc'["caller"] \in BeforeLaunch /\ pc'["runner"] \in BeforeLaunch <=> child' = "none"
    BY <1>2, <1>3, <2>1 DEF OneUser, Threads
  <2>4. /\ pc'["caller"] = "idle" \/ (pc'["runner"] = "idle" /\ pc'["stopper"] = "idle")
        /\ pc'["stopper"] # "idle" => pc'["runner"] \notin BeforeLaunch
    BY <1>2, <2>1 DEF OneUser, Threads, BeforeLaunch
  <2> QED BY <1>2, <2>2, <2>3, <2>4 DEF OneUser
<1>7. Collected' /\ Awaited' /\ AloneToWait' /\ Aimed'
  BY <1>1, <1>2, <1>3, <1>4 DEF Collected, Awaited, AloneToWait, Aimed, Dead, TypeOK, Threads
<1>8. Descriptors' /\ Result'
  BY <1>1, <1>2, <1>3 DEF Descriptors, Result, Closed, Cleared, Threads
<1>9. Given'
  BY <1>1, <1>2, <1>3 DEF Given, Terminating, Threads, TypeOK
<1> QED BY <1>5, <1>6, <1>7, <1>8, <1>9

(* Poll::stop, of terminate and of the stop of the service.                *)
LEMMA StopPollPreserves ==
    ASSUME ProcessInv, NEW t \in {"caller", "stopper"},
           \/ StopPoll(t, "halt", "join", "clear") \/ JoinPoll(t, "join", "clear")
           \/ StopPoll(t, "stop", "joinRun", "drain") \/ JoinPoll(t, "joinRun", "drain"),
           t = "caller" => pc[t] \in {"halt", "join"}
    PROVE  ProcessInv'
<1> USE DEF ProcessInv, RunKeeps, procVars, streamVars, fdVars, watchVars, callVars, Goes, At
<1>1. /\ wait[t] = "no"
      /\ \/ pc[t] = "halt" /\ \E to \in {"join", "clear"} : pc' = [pc EXCEPT ![t] = to]
         \/ pc[t] = "join" /\ pc' = [pc EXCEPT ![t] = "clear"]
         \/ pc[t] = "stop" /\ \E to \in {"joinRun", "drain"} : pc' = [pc EXCEPT ![t] = to]
         \/ pc[t] = "joinRun" /\ pc' = [pc EXCEPT ![t] = "drain"]
      /\ UNCHANGED <<child, reaped, left, lasts, pipe, writeEnd, piped, readEnd,
                       slots, sized, started, known, code,
                     pollRunning, wait, tries, limit, astray, result>>
  BY DEF StopPoll, JoinPoll
<1>2. pollState' = "Stopped" /\ pollStop' \in BOOLEAN
  BY DEF StopPoll, JoinPoll, TypeOK
<1>3. /\ pc' \in [Threads -> Places] /\ pc'["runner"] = pc["runner"]
      /\ \A u \in Threads \ {t} : pc'[u] = pc[u]
  BY <1>1 DEF OneUser, Threads, Places
<1>4. TypeOK'
  BY <1>1, <1>2, <1>3 DEF TypeOK
<1>5. OneUser'
  BY <1>1, <1>3 DEF OneUser, Threads, BeforeLaunch
<1>6. Collected' /\ AloneToWait' /\ Aimed'
  BY <1>1, <1>3 DEF OneUser, Threads, Collected, AloneToWait, Aimed, Dead
<1>7. Awaited'
  BY <1>1, <1>3 DEF Awaited, Dead, Threads
<1>8. Descriptors' /\ Result' /\ Given'
  BY <1>1, <1>3 DEF Descriptors, Result, Given, Terminating, Closed, Cleared, Threads
<1> QED BY <1>4, <1>5, <1>6, <1>7, <1>8

(* A step that closes, clears or resets what it has.                       *)
LEMMA Cleans ==
    ASSUME TypeOK, UNCHANGED <<procVars, pollVars, callVars, wait>>, pc'["runner"] = pc["runner"],
           readEnd' \in {readEnd, {}}, slots' \in {slots, {}}, sized' \in BOOLEAN,
           started' \in BOOLEAN, started' => started, known' \in BOOLEAN, known' => known,
           code' \in {code, "none"}
    PROVE  TypeOK'
<1>1. UNCHANGED <<child, reaped, left, lasts, pipe, writeEnd, piped, pollState, pollRunning, pollStop,
                  tries, limit, astray, result, wait>>
  BY DEF procVars, streamVars, pollVars, callVars
<1>2. readEnd' \subseteq piped' /\ slots' \subseteq piped'
  BY <1>1 DEF TypeOK
<1>3. code' \in {"none", "exited", "killed", "dumped"}
  BY DEF TypeOK
<1>5. known' /\ reaped' => child' = "dumped"
  BY <1>1 DEF TypeOK
<1>6. started' => child' # "none"
  BY <1>1 DEF TypeOK
<1>7. pollRunning' <=> pc'["runner"] \in {"arm", "loop", "self"}
  BY <1>1 DEF TypeOK
<1> QED BY <1>1, <1>2, <1>3, <1>5, <1>6, <1>7 DEF TypeOK

(* terminate, by execute or by the stop of the service.                    *)
LEMMA TerminatePreserves ==
    ASSUME ProcessInv, NEW t \in {"caller", "stopper"}, Terminate(t)
    PROVE  ProcessInv'
<1> USE DEF ProcessInv, RunKeeps, procVars, streamVars, fdVars, watchVars, pollVars, callVars, Goes, At,
        OneUser, Collected, Awaited, AloneToWait, Aimed, Descriptors, Given, Result, Dead, Threads, Closed, Cleared,
        Places, BeforeLaunch, Terminating
<1>1. CASE StopPoll(t, "halt", "join", "clear") \/ JoinPoll(t, "join", "clear")
  BY <1>1, StopPollPreserves DEF StopPoll, JoinPoll
<1>2. CASE Drain(t)
  <2>1. CASE ~pollRunning /\ sized
    BY <1>2, <2>1, ReadPreserves DEF Drain
  <2>2. CASE ~(~pollRunning /\ sized)
    BY <1>2, <2>2 DEF Drain, TypeOK
  <2> QED BY <2>1, <2>2
<1>3. CASE Close(t)
  <2>1. TypeOK'
    BY <1>3 DEF Close, TypeOK
  <2>2. OneUser' /\ Collected' /\ Awaited' /\ AloneToWait' /\ Aimed'
    BY <1>3 DEF Close
  <2>3. Descriptors' /\ Result'
    BY <1>3 DEF Close
  <2>4. Given'
    BY <1>3 DEF Close
  <2> QED BY <2>1, <2>2, <2>3, <2>4
<1>4. CASE ClearFds(t)
  <2>1. TypeOK'
    <3>1. started \in BOOLEAN /\ known \in BOOLEAN
      BY DEF TypeOK
    <3> QED BY <1>4, <3>1, Cleans DEF ClearFds
  <2>2. OneUser' /\ Collected' /\ Awaited' /\ AloneToWait' /\ Aimed'
    BY <1>4 DEF ClearFds
  <2> QED BY <1>4, <2>1, <2>2 DEF ClearFds
<1>5. CASE Try(t)
  BY <1>5, ProcessAssumption DEF Try, Waits, TypeOK
<1>6. CASE HasEnded(t)
  <2>1. TypeOK'
    BY <1>6 DEF HasEnded, TypeOK
  <2>2. OneUser' /\ Collected' /\ Awaited' /\ AloneToWait' /\ Aimed'
    BY <1>6 DEF HasEnded
  <2>3. Descriptors' /\ Result'
    BY <1>6 DEF HasEnded
  <2>4. Given'
    BY <1>6 DEF HasEnded
  <2> QED BY <2>1, <2>2, <2>3, <2>4
<1>7. CASE Kill(t)
  BY <1>7 DEF Kill, Waits, TypeOK
<1> QED BY <1>1, <1>2, <1>3, <1>4, <1>5, <1>6, <1>7 DEF Terminate

(* The steps of the threads that only go on, and those that ask, reset or  *)
(* kill.                                                                   *)
LEMMA ExecutePreserves ==
    ASSUME ProcessInv, Execute \/ TimeIsUp \/ AcceptStop
    PROVE  ProcessInv'
<1> USE DEF ProcessInv, RunKeeps, procVars, streamVars, fdVars, watchVars, pollVars, callVars, Goes, At,
        OneUser, Collected, Awaited, AloneToWait, Aimed, Descriptors, Given, Result, Dead, Threads, Closed, Cleared,
        Places, BeforeLaunch, Terminating
<1>1. CASE ReadPipes
  BY <1>1, ReadPreserves DEF ReadPipes
<1>2. CASE WaitAny
  BY <1>2 DEF WaitAny, Waits, TypeOK
<1>3. CASE Again
  BY <1>3 DEF Again, TypeOK
<1>4. CASE Ended
  BY <1>4 DEF Ended, TypeOK
<1>5. CASE Return
  BY <1>5 DEF Return, TypeOK
<1>6. CASE TimeIsUp
  BY <1>6 DEF TimeIsUp, TypeOK
<1>7. CASE AcceptStop
  BY <1>7 DEF AcceptStop, TypeOK
<1>8. ASSUME Terminate("caller") PROVE ProcessInv'
  BY <1>8, TerminatePreserves
<1> QED BY <1>1, <1>2, <1>3, <1>4, <1>5, <1>6, <1>7, <1>8 DEF Execute

(* The stop of the service.                                                *)
LEMMA StopPreserves ==
    ASSUME ProcessInv, Stop
    PROVE  ProcessInv'
<1> USE DEF ProcessInv, RunKeeps, procVars, streamVars, fdVars, watchVars, pollVars, callVars, Goes, At,
        OneUser, Collected, Awaited, AloneToWait, Aimed, Descriptors, Given, Result, Dead, Threads, Closed, Cleared,
        Places, BeforeLaunch, Terminating
<1>1. CASE \/ StopPoll("stopper", "stop", "joinRun", "drain")
           \/ JoinPoll("stopper", "joinRun", "drain")
  BY <1>1, StopPollPreserves
<1>2. CASE Terminate("stopper")
  BY <1>2, TerminatePreserves
<1>3. CASE ResetProc
  <2>1. TypeOK'
    <3>1. /\ UNCHANGED <<procVars, fdVars, pollVars, callVars, wait>> /\ pc'["runner"] = pc["runner"]
          /\ started' = FALSE /\ known' = FALSE /\ code' = "none"
      BY <1>3 DEF ResetProc
    <3>2. readEnd' = readEnd /\ slots' = slots /\ sized' \in BOOLEAN
      BY <3>1 DEF TypeOK
    <3> HIDE DEF ProcessInv, procVars, streamVars, pollVars, callVars
    <3> QED BY <3>1, <3>2, Cleans DEF ProcessInv
  <2>2. OneUser' /\ Collected' /\ Awaited' /\ AloneToWait' /\ Aimed'
    BY <1>3 DEF ResetProc
  <2>3. Descriptors' /\ Result'
    BY <1>3 DEF ResetProc
  <2>4. Given'
    BY <1>3 DEF ResetProc
  <2> QED BY <2>1, <2>2, <2>3, <2>4
<1>4. CASE WaitForRun
  <2>1. TypeOK'
    BY <1>4 DEF WaitForRun, TypeOK
  <2>2. OneUser' /\ Collected' /\ Awaited' /\ AloneToWait' /\ Aimed'
    BY <1>4 DEF WaitForRun
  <2>3. Descriptors' /\ Result'
    BY <1>4 DEF WaitForRun
  <2>4. Given'
    BY <1>4 DEF WaitForRun
  <2> QED BY <2>1, <2>2, <2>3, <2>4
<1> QED BY <1>1, <1>2, <1>3, <1>4 DEF Stop

LEMMA StutterPreserves == ProcessInv /\ UNCHANGED vars => ProcessInv'
BY DEF ProcessInv, TypeOK, OneUser, Collected, Awaited, AloneToWait, Aimed, Descriptors, Given, Result,
       Terminating, Dead, vars, procVars, streamVars, fdVars, watchVars, pollVars, callVars

(* Every step keeps the invariant.                                         *)
LEMMA NextPreserves == ProcessInv /\ [Next]_vars => ProcessInv'
<1> SUFFICES ASSUME ProcessInv, [Next]_vars PROVE ProcessInv'
  OBVIOUS
<1>1. CASE Exit \/ Die \/ \E s \in Streams : Write(s) \/ Shut(s)
  BY <1>1, ChildPreserves
<1>2. CASE Launch \/ LaunchFails
  BY <1>2, LaunchPreserves
<1>3. CASE Execute \/ TimeIsUp \/ AcceptStop
  BY <1>3, ExecutePreserves
<1>4. CASE Start
  BY <1>4, RunPreserves
<1>5. CASE Stop
  BY <1>5, StopPreserves
<1>6. CASE \E t \in Threads : Runs(t)
  BY <1>6, WaitPreserves
<1>7. CASE UNCHANGED vars
  BY <1>7, StutterPreserves
<1> QED BY <1>1, <1>2, <1>3, <1>4, <1>5, <1>6, <1>7 DEF Next

(* Whoever executes, stops or waits for the process, the invariant of the  *)
(* status, the threads' waits and the pipes holds in every state           *)
(* (Process.cpp: wait, terminate, handle).                                 *)
THEOREM Invariance == Spec => []ProcessInv
<1>1. ProcessInv /\ [Next]_vars => ProcessInv'
  BY NextPreserves
<1> QED BY <1>1, InitInv, PTL DEF Spec

(* The variables keep their types, and the run mutex of the poll is held   *)
(* where the run says so.                                                  *)
THEOREM TypeCorrect == Spec => []TypeOK
<1>1. ProcessInv => TypeOK
  BY DEF ProcessInv
<1> QED BY <1>1, Invariance, PTL

(* However the end of the process, its output, the run and the stop are    *)
(* interleaved, whoever returns from terminate leaves a dead process whose *)
(* status was collected, and nothing open or polled; execute does not take *)
(* a kill for an exit, believes that a process runs only after a core dump,*)
(* and kills no other unless there was one.                                *)
THEOREM EndsCleanly == Spec => []EndsClean
<1>1. ProcessInv => EndsClean
  BY DEF ProcessInv, Collected, Awaited, Aimed, Descriptors, Result, EndsClean, Closed, Cleared, Threads
<1> QED BY <1>1, Invariance, PTL

(* Nothing that the process wrote is lost when it has ended by itself,     *)
(* whatever it writes, and however little is read at once.                 *)
THEOREM GivesAll == Spec => []AllGiven
<1>1. ProcessInv => AllGiven
  BY DEF ProcessInv, Given, AllGiven
<1> QED BY <1>1, Invariance, PTL
=============================================================================
