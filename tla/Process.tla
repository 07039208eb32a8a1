------------------------------- MODULE Process -------------------------------
(***************************************************************************)
(* sihd::sys::Process on POSIX, in its two uses: proc::execute runs a      *)
(* process, reads its pipes until it has ended or its time is up, and      *)
(* terminates it; the blocking service runs one and polls its pipes, and   *)
(* another thread may stop it.  The process writes to pipes that hold so   *)
(* much and are read so much at a time; it ends, or is killed, whenever it *)
(* likes, but can only exit when it has written what it has to.            *)
(*                                                                         *)
(* The standard input, the environment, files and the choice between fork  *)
(* and spawn are left out, and so is a process that is stopped and         *)
(* continued: the code then goes on as if it ran.                          *)
(***************************************************************************)
EXTENDS Naturals

CONSTANTS Capacity, \* bound: what a pipe holds, in units of what is written at once
          Buffer,   \* SIHD_PROCESS_READ_BUFFER_SIZE, in the same unit
          MaxSaid,  \* bound: what the process has to write on each stream
          Tries     \* how often terminate looks before it kills

Streams == {"out", "err"}
Threads == {"caller", "runner", "stopper"}  \* of execute, of start, of stop

ASSUME ProcessAssumption == /\ Capacity \in Nat \ {0} /\ Buffer \in Nat \ {0}
                            /\ MaxSaid \in Nat /\ Tries \in Nat

VARIABLES child,   \* the process: none, running, or how it ended
          reaped,  \* the system was asked how it ended
          left,    \* what it still has to write on the streams that are redirected
          lasts,   \* it does not end by itself
          pipe,    \* what each pipe holds
          writeEnd, \* the pipes whose other end it, or a process that it has launched, has
          piped,   \* the streams that were redirected to a callback
          readEnd, \* the streams whose fd_read is open
          slots,   \* those in _poll's list of descriptors
          sized    \* that list is not empty: Poll::fds_size() > 0
VARIABLES started, \* _started
          known,   \* ProcessWatcher::pid is not -1
          code,    \* ProcessWatcher::code
          pollState, pollRunning, pollStop, \* _poll: its controller, its run mutex, its _stop
          pc,      \* where each thread is
          wait,    \* where it is in wait(), "no" outside
          tries,   \* what is left of terminate's tries
          limit,   \* Options::timeout > 0
          astray,  \* SIGKILL went elsewhere: to pid -1, or to a pid that was given back
          result   \* what execute returned

streamVars == <<left, lasts, pipe, writeEnd, piped>>
procVars == <<child, reaped, streamVars>>
fdVars == <<readEnd, slots, sized>>
watchVars == <<started, known, code>>
pollVars == <<pollState, pollRunning, pollStop>>
callVars == <<tries, limit, astray, result>>
vars == <<procVars, fdVars, watchVars, pollVars, pc, wait, callVars>>

Dead == child \in {"exited", "killed", "dumped"}

Init == /\ child = "none" /\ reaped = FALSE
        /\ piped \in SUBSET Streams
        /\ left \in [Streams -> 0 .. MaxSaid] /\ \A s \in Streams \ piped : left[s] = 0
        /\ lasts \in BOOLEAN
        /\ pipe = [s \in Streams |-> 0]
        /\ readEnd = piped /\ writeEnd = piped
        /\ slots = {} /\ sized = FALSE
        /\ started = FALSE /\ known = FALSE /\ code = "none"
        /\ pollState = "Stopped" /\ pollRunning = FALSE /\ pollStop = FALSE
        /\ tries = Tries /\ limit \in BOOLEAN /\ astray = FALSE
        /\ \E user \in {"caller", "runner"} :
              /\ pc = [t \in Threads |-> IF t = user THEN "launch" ELSE "idle"]
              /\ user = "runner" => ~lasts /\ ~limit
        /\ wait = [t \in Threads |-> "no"]
        /\ result = "none"

At(t, place) == pc[t] = place /\ wait[t] = "no"
Goes(t, from, to) == At(t, from) /\ pc' = [pc EXCEPT ![t] = to]

-----------------------------------------------------------------------------
(* The process.  Writing into a pipe that nobody reads kills it.           *)

Write(s) == /\ child = "running" /\ left[s] > 0
            /\ left' = [left EXCEPT ![s] = @ - 1]
            /\ \/ /\ s \in readEnd /\ pipe[s] < Capacity
                  /\ pipe' = [pipe EXCEPT ![s] = @ + 1]
                  /\ UNCHANGED child
               \/ s \notin readEnd /\ child' = "killed" /\ UNCHANGED pipe
            /\ UNCHANGED <<reaped, lasts, writeEnd, piped, fdVars, watchVars, pollVars, pc, wait,
                           callVars>>

Exit == /\ child = "running" /\ \A s \in Streams : left[s] = 0
        /\ child' = "exited"
        /\ UNCHANGED <<reaped, streamVars, fdVars, watchVars, pollVars, pc, wait, callVars>>

(* It may close a stream that it has done with.  When it has ended a pipe  *)
(* is hung up, unless a process that it has launched has the pipe too.  To *)
(* close it changes nothing once the parent has.                           *)
Shut(s) == /\ s \in writeEnd \cap readEnd
           /\ Dead \/ (child = "running" /\ left[s] = 0)
           /\ writeEnd' = writeEnd \ {s}
           /\ UNCHANGED <<child, reaped, left, lasts, pipe, piped, fdVars, watchVars, pollVars, pc, wait,
                          callVars>>

Die == /\ child = "running"
       /\ child' \in {"killed", "dumped"}
       /\ UNCHANGED <<reaped, streamVars, fdVars, watchVars, pollVars, pc, wait, callVars>>

-----------------------------------------------------------------------------
(* execute: the descriptors to poll are set, the process is launched, the  *)
(* parent closes its copies of the ends that the process has.              *)

Launched(t, next) == /\ Goes(t, "launch", next)
                     /\ child' = "running" /\ known' = TRUE /\ started' = TRUE
                     /\ slots' = readEnd /\ sized' = (readEnd # {})
                     /\ UNCHANGED <<reaped, streamVars, readEnd, code, pollVars, wait, callVars>>

Launch == \/ Launched("caller", IF piped = {} THEN "ask" ELSE "poll")
          \/ Launched("runner", IF piped = {} THEN "over" ELSE "start")

LaunchFails == \E t \in {"caller", "runner"} :
                  /\ Goes(t, "launch", "failed")
                  /\ slots' = readEnd /\ sized' = (readEnd # {})
                  /\ result' = IF t = "caller" THEN "failure" ELSE result
                  /\ UNCHANGED <<procVars, readEnd, watchVars, pollVars, wait, tries, limit, astray>>

-----------------------------------------------------------------------------
(* wait: returns at once unless the process is believed to run; then asks  *)
(* the system, under the watcher's mutex (CheckStatus), looks at the       *)
(* answer, under the mutex again, and forgets the process if it has ended  *)
(* (Told).  Every wait either does not hang or comes after a kill.         *)

(* Mutant: the system is asked again about a process that has ended.       *)
Waits_Anyway(t) == wait' = [wait EXCEPT ![t] = "check"]

Waits(t) == wait' = [wait EXCEPT ![t] = IF started THEN "check" ELSE "no"]

(* Mutant: the pid of a process that was reported is kept.                 *)
CheckStatus_KeepsPid(t) ==
    /\ wait[t] = "check"
    /\ wait' = [wait EXCEPT ![t] = "told"]
    /\ LET ends == known /\ Dead /\ ~reaped IN
       /\ code' = IF ends THEN child ELSE "none"
       /\ known' = (known /\ (ends \/ ~reaped))
       /\ reaped' = (reaped \/ ends)
    /\ UNCHANGED <<child, streamVars, fdVars, started, pollVars, pc, callVars>>

(* waitid fails on a process that it has reported, and on pid -1.          *)
CheckStatus(t) ==
    /\ wait[t] = "check"
    /\ wait' = [wait EXCEPT ![t] = "told"]
    /\ LET ends == known /\ Dead /\ ~reaped IN
       /\ code' = IF ends THEN child ELSE "none"
       /\ known' = (known /\ IF ends THEN child = "dumped" ELSE ~reaped)
       /\ reaped' = (reaped \/ ends)
    /\ UNCHANGED <<child, streamVars, fdVars, started, pollVars, pc, callVars>>

HasTerminated == code \in {"exited", "killed"}

Told(t) == /\ wait[t] = "told"
           /\ wait' = [wait EXCEPT ![t] = "no"]
           /\ started' = (started /\ ~HasTerminated)
           /\ UNCHANGED <<procVars, fdVars, known, code, pollVars, pc, callVars>>

-----------------------------------------------------------------------------
(* Poll::poll with handle as its observer: a stream that has something is  *)
(* read once, one that has nothing more is closed; when the time is over   *)
(* without an event, one looks whether the process has ended.              *)

Least(m, n) == IF m < n THEN m ELSE n

Readable == {s \in slots \cap readEnd : pipe[s] > 0}

(* Mutant: a pipe that is hung up is closed, whatever it still holds.      *)
HungUp_WithData == (slots \cap readEnd) \ writeEnd

HungUp == {s \in (slots \cap readEnd) \ writeEnd : pipe[s] = 0}

Events == Readable \cup HungUp \cup (slots \ readEnd)  \* the last are POLLNVAL

Handle == /\ Events # {}
          /\ pipe' = [s \in Streams |-> IF s \in Readable \ HungUp
                                        THEN pipe[s] - Least(pipe[s], Buffer) ELSE pipe[s]]
          /\ slots' = slots \ HungUp /\ readEnd' = readEnd \ HungUp
          /\ UNCHANGED <<child, reaped, left, lasts, writeEnd, piped, sized, watchVars, pollVars, wait>>

(* A poll that is not running, or is stopped already, refuses the stop.    *)
TimesOut(t) ==
    /\ Events = {}
    /\ Waits(t)
    /\ IF ~started /\ pollState = "Running"
       THEN pollState' = "Stopped" /\ pollStop' = TRUE
       ELSE UNCHANGED <<pollState, pollStop>>
    /\ UNCHANGED <<procVars, fdVars, watchVars, pollRunning>>

PollOnce(t) == Handle \/ TimesOut(t)

-----------------------------------------------------------------------------
(* proc::execute: read, ask, look, until the process has terminated or the *)
(* time is up; then terminate, and tell how it ended.                      *)

ReadPipes == Goes("caller", "poll", "ask") /\ PollOnce("caller") /\ UNCHANGED callVars

WaitAny == /\ Goes("caller", "ask", "look") /\ Waits("caller")
           /\ UNCHANGED <<procVars, fdVars, watchVars, pollVars, callVars>>

(* Mutant: the pipes are no longer read after the first time.              *)
Again_NoRead == /\ ~HasTerminated
                /\ Goes("caller", "look", "ask")
                /\ UNCHANGED <<procVars, fdVars, watchVars, pollVars, wait, callVars>>

Again == /\ ~HasTerminated
         /\ Goes("caller", "look", IF piped = {} THEN "ask" ELSE "poll")
         /\ UNCHANGED <<procVars, fdVars, watchVars, pollVars, wait, callVars>>

Ended == /\ HasTerminated
         /\ Goes("caller", "look", "drain")
         /\ UNCHANGED <<procVars, fdVars, watchVars, pollVars, wait, callVars>>

TimeIsUp == /\ limit /\ ~HasTerminated
            /\ Goes("caller", "look", "drain")
            /\ UNCHANGED <<procVars, fdVars, watchVars, pollVars, wait, callVars>>

-----------------------------------------------------------------------------
(* start, in the thread of the run: _poll.start, its loop, its end.  The   *)
(* run that stops its poll from inside waits for the mutex that it holds,  *)
(* in "self", for ever.                                                    *)

RunKeeps == UNCHANGED <<procVars, fdVars, watchVars, wait, callVars>>

StartPoll == /\ Goes("runner", "start", "lock")
             /\ pollState' = "Running"
             /\ UNCHANGED <<pollRunning, pollStop>> /\ RunKeeps

LockPoll == /\ Goes("runner", "lock", "arm")
            /\ pollRunning' = TRUE
            /\ UNCHANGED <<pollState, pollStop>> /\ RunKeeps

Arm == /\ Goes("runner", "arm", "loop")
       /\ pollStop' = FALSE
       /\ UNCHANGED <<pollState, pollRunning>> /\ RunKeeps

Poll == /\ ~pollStop
        /\ LET stopsItself == Events = {} /\ ~started /\ pollState = "Running"
           IN Goes("runner", "loop", IF stopsItself THEN "self" ELSE "loop")
        /\ PollOnce("runner")
        /\ UNCHANGED callVars

Leave == /\ pollStop
         /\ Goes("runner", "loop", "endPoll")
         /\ pollRunning' = FALSE
         /\ UNCHANGED <<pollState, pollStop>> /\ RunKeeps

EndPoll == /\ Goes("runner", "endPoll", "over")
           /\ pollState' = "Running"
           /\ UNCHANGED <<pollRunning, pollStop>> /\ RunKeeps

-----------------------------------------------------------------------------
(* stop of the service, once it has said that it is ready: on_stop stops   *)
(* the poll, then resets the process, which terminates it.                 *)

AcceptStop == /\ pc["runner"] \notin {"idle", "launch", "failed"}
              /\ Goes("stopper", "idle", "stop")
              /\ UNCHANGED pollVars /\ RunKeeps

(* Poll::stop, refused unless the poll's state is Running.                 *)
StopPoll(t, from, join, next) ==
    /\ Goes(t, from, IF pollState = "Running" THEN join ELSE next)
    /\ pollState' = "Stopped"
    /\ pollStop' = (pollStop \/ pollState = "Running")
    /\ UNCHANGED pollRunning /\ RunKeeps

JoinPoll(t, join, next) == /\ ~pollRunning
                           /\ Goes(t, join, next)
                           /\ pollState' = "Stopped"
                           /\ UNCHANGED <<pollRunning, pollStop>> /\ RunKeeps

ResetProc == /\ Goes("stopper", "end", "wait")
             /\ started' = FALSE /\ known' = FALSE /\ code' = "none"
             /\ UNCHANGED <<procVars, fdVars, pollVars, wait, callVars>>

(* service_wait_stop takes the mutex of the run.                           *)
WaitForRun == /\ pc["runner"] = "over"
              /\ Goes("stopper", "wait", "done")
              /\ UNCHANGED pollVars /\ RunKeeps

-----------------------------------------------------------------------------
(* terminate: what can be read at once is read, the descriptors are closed *)
(* and the poll stopped; a process that has not ended after a few tries is *)
(* killed.                                                                 *)

Drain(t) == /\ Goes(t, "drain", "close")
            /\ IF ~pollRunning /\ sized THEN PollOnce(t)
               ELSE UNCHANGED <<procVars, fdVars, watchVars, pollVars, wait>>
            /\ UNCHANGED callVars

Close(t) == /\ Goes(t, "close", "halt")
            /\ readEnd' = {}
            /\ UNCHANGED <<procVars, slots, sized, watchVars, pollVars, wait, callVars>>

ClearFds(t) == /\ Goes(t, "clear", "try")
               /\ slots' = {} /\ sized' = FALSE
               /\ UNCHANGED <<procVars, readEnd, watchVars, pollVars, wait, callVars>>

Try(t) == /\ started /\ tries > 0
          /\ Goes(t, "try", "try")
          /\ Waits(t)
          /\ tries' = tries - 1
          /\ UNCHANGED <<procVars, fdVars, watchVars, pollVars, limit, astray, result>>

HasEnded(t) == /\ ~started
               /\ Goes(t, "try", "end")
               /\ UNCHANGED pollVars /\ RunKeeps

(* SIGKILL to the pid that is known, and the wait for the end.  A pid of   *)
(* -1 means every process of the user; one that the system was asked about *)
(* to the end may be another's by now.                                     *)
Kill(t) == /\ started /\ tries = 0
           /\ Goes(t, "try", "end")
           /\ child' = IF child = "running" THEN "killed" ELSE child
           /\ astray' = (astray \/ ~known \/ reaped)
           /\ Waits(t)
           /\ UNCHANGED <<reaped, streamVars, fdVars, watchVars, pollVars, tries, limit, result>>

Return == /\ Goes("caller", "end", "done")
          /\ result' = IF code = "exited" THEN "status" ELSE "failure"
          /\ UNCHANGED <<procVars, fdVars, watchVars, pollVars, wait, tries, limit, astray>>

Terminate(t) == \/ Drain(t) \/ Close(t) \/ StopPoll(t, "halt", "join", "clear")
                \/ JoinPoll(t, "join", "clear") \/ ClearFds(t) \/ Try(t) \/ HasEnded(t) \/ Kill(t)

-----------------------------------------------------------------------------
Runs(t) == CheckStatus(t) \/ Told(t)

Execute == ReadPipes \/ WaitAny \/ Again \/ Ended \/ Terminate("caller") \/ Return

Start == StartPoll \/ LockPoll \/ Arm \/ Poll \/ Leave \/ EndPoll

Stop == \/ StopPoll("stopper", "stop", "joinRun", "drain") \/ JoinPoll("stopper", "joinRun", "drain")
        \/ Terminate("stopper") \/ ResetProc \/ WaitForRun

Next == \/ Exit \/ Die \/ \E s \in Streams : Write(s) \/ Shut(s)
        \/ Launch \/ LaunchFails \/ AcceptStop
        \/ Execute \/ TimeIsUp \/ Start \/ Stop
        \/ \E t \in Threads : Runs(t)

(* A process that does not last writes and exits, if it can; a thread goes *)
(* on; and a time limit is reached in the end.                             *)
ChildProceeds == ~lasts /\ (Exit \/ \E s \in Streams : Write(s))

Spec == /\ Init /\ [][Next]_vars
        /\ WF_vars(ChildProceeds)
        /\ WF_vars(Execute \/ Runs("caller")) /\ SF_vars(TimeIsUp)
        /\ WF_vars(Start \/ Runs("runner")) /\ WF_vars(Stop \/ Runs("stopper"))

-----------------------------------------------------------------------------
TypeOK ==
    /\ child \in {"none", "running", "exited", "killed", "dumped"}
    /\ reaped \in BOOLEAN /\ lasts \in BOOLEAN /\ limit \in BOOLEAN /\ astray \in BOOLEAN
    /\ left \in [Streams -> 0 .. MaxSaid] /\ pipe \in [Streams -> 0 .. Capacity]
    /\ piped \subseteq Streams /\ writeEnd \subseteq piped
    /\ readEnd \subseteq piped /\ slots \subseteq piped
    /\ sized \in BOOLEAN
    /\ started \in BOOLEAN /\ known \in BOOLEAN /\ code \in {"none", "exited", "killed", "dumped"}
    /\ pollState \in {"Stopped", "Running"} /\ pollRunning \in BOOLEAN /\ pollStop \in BOOLEAN
    /\ wait \in [Threads -> {"no", "check", "told"}]
    /\ tries \in 0 .. Tries /\ result \in {"none", "status", "failure"}
    /\ pollRunning <=> pc["runner"] \in {"arm", "loop", "self"}
    /\ known /\ reaped => child = "dumped"
    /\ started => child # "none"

(* terminate "closes the file descriptors", waits and kills: once execute, *)
(* or a stop of the service, has returned, the process is dead and its     *)
(* status collected, whoever was waiting for it; no pipe is open or polled;*)
(* and execute tells an exit from everything else.  A core dump is an end  *)
(* that the code does not count: the process is believed to run.  With one,*)
(* or when a stop and the run ask at once, the SIGKILL may go astray, and  *)
(* never else.                                                             *)
EndsClean ==
    /\ "done" \in {pc["caller"], pc["stopper"]} => Dead /\ reaped /\ readEnd = {} /\ slots = {}
    /\ pc["caller"] = "done" => /\ (result = "status" <=> child = "exited")
                               /\ (started => child = "dumped")
    /\ astray => child = "dumped" \/ pc["stopper"] # "idle"

(* What the process wrote is given to the callbacks before its pipe is     *)
(* closed, unless terminate closes it; the poll of the service does not end*)
(* before that, though the end of the process may be known long before.    *)
Terminating(t) == pc[t] \notin {"idle", "launch", "failed", "poll", "ask", "look", "drain", "stop",
                                "joinRun", "close"}
AllGiven == ~Terminating("caller") /\ ~Terminating("stopper") =>
                \A s \in piped : s \notin readEnd \/ pc["runner"] = "self" => pipe[s] = 0

(* execute returns: the process is never left writing into a full pipe     *)
(* that nobody reads, and one that does not end is killed in time.  One    *)
(* that has ended with a core dump is waited for as long as one that runs. *)
ExecuteReturns == pc["caller"] \in {"poll", "ask"} /\ (limit \/ ~lasts) ~>
                      pc["caller"] = "done" \/ (child = "dumped" /\ ~limit)

(* "polls them until the process is stopped": a stop that comes when the   *)
(* poll has begun returns, whether or not the process has ended before.    *)
StopReturns == pc["stopper"] = "stop" /\ pc["runner"] \in {"loop", "self"} ~> pc["stopper"] = "done"
=============================================================================
