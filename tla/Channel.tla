------------------------------ MODULE Channel ------------------------------
(***************************************************************************)
(* sihd::core::Channel: an array that threads write, each write that       *)
(* changes it being stamped and notified to the channel's observers before *)
(* another can begin.  write takes _notify_mutex with try_to_lock and      *)
(* gives up when it is held, so a handler that writes cannot block; notify *)
(* waits for it.                                                           *)
(*                                                                         *)
(* The observers of a channel are handlers (devices) that write to other   *)
(* channels, or to this one, notify the channels downstream, and subscribe *)
(* and unsubscribe, from inside a notification as other threads do from    *)
(* outside.  Writing and Notifying are the wiring of the devices.          *)
(***************************************************************************)
EXTENDS Observable

CONSTANTS Threads, NoThread,
          Bytes,          \* the values of a byte
          Writes,         \* what is written: [data: a sequence of bytes, offset: Nat]
          Capacity,       \* byte_capacity of the arrays
          Resizable,      \* _resizable
          OnChange,       \* _write_change_only
          FirstArray,     \* the arrays' bytes at first
          FirstObservers, \* the observers at first
          Movable,        \* pairs: a handler that comes to a channel and goes
          Writing,        \* pairs: the handlers of a channel write to a channel
          Notifying,      \* pairs: the handlers of a channel notify a channel
          MaxWrites       \* bound: stamps given in a behaviour

Channels == Subjects

ASSUME ChannelAssumption ==
    /\ NoThread \notin Threads
    /\ 0 \in Bytes
    /\ Capacity \in Nat /\ MaxWrites \in Nat
    /\ Resizable \in BOOLEAN /\ OnChange \in BOOLEAN
    /\ Movable \subseteq Channels \X Handlers
    /\ Writing \subseteq Channels \X Channels
    /\ Notifying \subseteq Channels \X Channels
    /\ FirstArray \in Seq(Bytes) /\ Len(FirstArray) <= Capacity
    /\ FirstObservers \in [Channels -> Seq(Handlers)]
    /\ \A c \in Channels : IsInjective(FirstObservers[c])     \* see AddObserver
    /\ \A w \in Writes : w.offset \in Nat /\ w.data \in Seq(Bytes)

VARIABLES array,         \* the bytes of _array_ptr
          timestamp,     \* _timestamp
          clock,         \* the clock: a stamp differs from the earlier ones
          stage,         \* how far the write or notify that holds _notify_mutex is
          notifier,      \* the thread that holds _notify_mutex
          writing,       \* what it writes
          call,          \* the call a thread is entering: a channel and a write
          stack,         \* the channels a thread is writing or notifying
          acted          \* the running handler of a channel has done its action

(* The subscriptions as their callers see them, and the current round.     *)
VARIABLES subscribed,    \* handlers added and not removed
          due,           \* those of them since the round began
          seen,          \* handlers called in the round
          sent           \* the array and the stamp a thread notifies a channel of

channelVars == <<array, timestamp, clock, stage, notifier, writing>>
threadVars  == <<call, stack, acted>>
ghostVars   == <<subscribed, due, seen, sent>>
vars == <<observableVars, channelVars, threadVars, ghostVars>>

NoCall    == [kind |-> "none"]
Notify(c) == [kind |-> "notify", on |-> c]
Write(c, w) == [kind |-> "write", on |-> c, what |-> w]
Calls == {NoCall} \cup {Notify(c) : c \in Channels}
                  \cup {Write(c, w) : c \in Channels, w \in Writes}

Init == /\ ObservableInit(FirstObservers)
        /\ array = [c \in Channels |-> FirstArray]
        /\ timestamp = [c \in Channels |-> 0]
        /\ clock = 0
        /\ stage = [c \in Channels |-> "free"]
        /\ notifier = [c \in Channels |-> NoThread]
        /\ writing = [c \in Channels |-> NoCall]
        /\ call = [t \in Threads |-> NoCall]
        /\ stack = [t \in Threads |-> << >>]
        /\ acted = [c \in Channels |-> FALSE]
        /\ subscribed = [c \in Channels |-> ToSet(FirstObservers[c])]
        /\ due = [c \in Channels |-> {}]
        /\ seen = [c \in Channels |-> {}]
        /\ sent = [t \in Threads |-> [c \in Channels |-> << >>]]

(* A thread is free to act outside of every call, and in a handler.  Bound:*)
(* a handler acts once each time it is called.                             *)
InHandler(t) == stack[t] # << >> /\ stage[Last(stack[t])] = "handle"
MayAct(t) == /\ call[t] = NoCall
             /\ \/ stack[t] = << >>
                \/ InHandler(t) /\ ~acted[Last(stack[t])]

(* The channels a thread may turn to: from a handler, those it is wired to.*)
Wired(t, wiring) == {c \in Channels : InHandler(t) => <<Last(stack[t]), c>> \in wiring}

Acts(t) == acted' = [c \in Channels |-> acted[c] \/ (InHandler(t) /\ c = Last(stack[t]))]

-----------------------------------------------------------------------------
(* write                                                                   *)

(* Mutant: the lock is given back before the observers are notified.       *)
Held_WhileStoring(c) == stage[c] = "locked"

(* _notify_mutex is held for the whole of a write or notify.               *)
Held(c) == stage[c] # "free"

Enters(t, kind) == /\ call' = [call EXCEPT ![t] = kind]
                   /\ Acts(t)
                   /\ UNCHANGED <<observableVars, channelVars, stack, ghostVars>>

CallWrite(t) == /\ MayAct(t) /\ clock < MaxWrites
                /\ \E c \in Wired(t, Writing), w \in Writes : Enters(t, Write(c, w))

TryLock(t) ==
    /\ call[t].kind = "write"
    /\ LET c == call[t].on IN
         /\ ~Held(c)
         /\ stage' = [stage EXCEPT ![c] = "locked"]
         /\ notifier' = [notifier EXCEPT ![c] = t]
         /\ writing' = [writing EXCEPT ![c] = call[t]]
         /\ stack' = [stack EXCEPT ![t] = Append(@, c)]
    /\ call' = [call EXCEPT ![t] = NoCall]
    /\ UNCHANGED <<observableVars, array, timestamp, clock, acted, ghostVars>>

(* Mutant: the lock is waited for.                                         *)
GiveUp_Never(t) == FALSE /\ UNCHANGED vars

(* "Channel: cannot write while notifying": write returns false.           *)
GiveUp(t) == /\ call[t].kind = "write"
             /\ Held(call[t].on)
             /\ call' = [call EXCEPT ![t] = NoCall]
             /\ UNCHANGED <<observableVars, channelVars, stack, acted, ghostVars>>

Needed(w) == w.offset + Len(w.data)
(* Mutant: a resizable array is resized whatever its capacity.             *)
Fits_Unbounded(arr, w) == Needed(w) <= Len(arr) \/ Resizable

Fits(arr, w) == Needed(w) <= Len(arr) \/ (Resizable /\ Needed(w) <= Capacity)

(* byte_resize: the memory of a resizable channel is zeroed beforehand.    *)
Grown(arr, w) == [i \in 1 .. Max({Needed(w), Len(arr)}) |-> IF i \in DOMAIN arr THEN arr[i] ELSE 0]

Written(arr, w) == [i \in DOMAIN arr |-> IF i \in w.offset + 1 .. Needed(w)
                                         THEN w.data[i - w.offset] ELSE arr[i]]

Top(t) == Last(stack[t])
At(t, where) == stack[t] # << >> /\ stage[Top(t)] = where

Releases(t) == /\ stage' = [stage EXCEPT ![Top(t)] = "free"]
               /\ notifier' = [notifier EXCEPT ![Top(t)] = NoThread]
               /\ writing' = [writing EXCEPT ![Top(t)] = NoCall]
               /\ stack' = [stack EXCEPT ![t] = Front(@)]

(* Mutant: the array is resized before the write is refused.               *)
StoreNothing_ResizesFirst(t) ==
    /\ At(t, "locked")
    /\ LET c == Top(t)
           w == writing[c].what
           grown == Grown(array[c], w) IN
         /\ ~Fits(array[c], w) \/ (OnChange /\ Written(grown, w) = grown)
         /\ array' = [array EXCEPT ![c] = grown]
    /\ Releases(t)
    /\ UNCHANGED <<observableVars, timestamp, clock, call, acted, ghostVars>>

(* The critical section of _arr_mutex, and its early returns.              *)
StoreNothing(t) ==
    /\ At(t, "locked")
    /\ LET c == Top(t)
           w == writing[c].what
           grown == Grown(array[c], w) IN
         \/ ~Fits(array[c], w) /\ UNCHANGED array
         \/ /\ Fits(array[c], w) /\ OnChange /\ Written(grown, w) = grown
            /\ array' = [array EXCEPT ![c] = grown]
    /\ Releases(t)
    /\ UNCHANGED <<observableVars, timestamp, clock, call, acted, ghostVars>>

Store(t) ==
    /\ At(t, "locked") /\ clock < MaxWrites
    /\ LET c == Top(t)
           w == writing[c].what
           grown == Grown(array[c], w) IN
         /\ Fits(array[c], w) /\ ~(OnChange /\ Written(grown, w) = grown)
         /\ array' = [array EXCEPT ![c] = Written(grown, w)]
         /\ clock' = clock + 1
         /\ timestamp' = [timestamp EXCEPT ![c] = clock + 1]
         /\ stage' = [stage EXCEPT ![c] = "stored"]
         /\ sent' = [sent EXCEPT ![t][c] = <<array'[c], timestamp'[c]>>]
    /\ UNCHANGED <<observableVars, notifier, writing, threadVars, subscribed, due, seen>>

(* Bound: at the last stamp a write is given up.                           *)
StoreBound(t) == /\ At(t, "locked") /\ clock = MaxWrites
                 /\ Releases(t)
                 /\ UNCHANGED <<observableVars, array, timestamp, clock, call, acted, ghostVars>>

-----------------------------------------------------------------------------
(* notify, which waits for the lock.                                       *)

CallNotify(t) == /\ MayAct(t)
                 /\ \E c \in Wired(t, Notifying) : Enters(t, Notify(c))

LockToNotify(t) ==
    /\ call[t].kind = "notify"
    /\ LET c == call[t].on IN
         /\ ~Held(c)
         /\ stage' = [stage EXCEPT ![c] = "stored"]
         /\ notifier' = [notifier EXCEPT ![c] = t]
         /\ stack' = [stack EXCEPT ![t] = Append(@, c)]
         /\ sent' = [sent EXCEPT ![t][c] = <<array[c], timestamp[c]>>]
    /\ call' = [call EXCEPT ![t] = NoCall]
    /\ UNCHANGED <<observableVars, array, timestamp, clock, writing, acted, subscribed, due, seen>>

-----------------------------------------------------------------------------
(* notify_observers, by the thread that holds the lock.                    *)

BeginRound(t) == /\ At(t, "stored")
                 /\ NotifyBegins(Top(t))
                 /\ stage' = [stage EXCEPT ![Top(t)] = "next"]
                 /\ due' = [due EXCEPT ![Top(t)] = subscribed[Top(t)]]
                 /\ seen' = [seen EXCEPT ![Top(t)] = {}]
                 /\ UNCHANGED <<array, timestamp, clock, notifier, writing, threadVars, subscribed,
                                sent>>

CallHandler(t) == /\ At(t, "next")
                  /\ HandleBegins(Top(t))
                  /\ stage' = [stage EXCEPT ![Top(t)] = "handle"]
                  /\ acted' = [acted EXCEPT ![Top(t)] = FALSE]
                  /\ seen' = [seen EXCEPT ![Top(t)] = @ \cup {iter[Top(t)]}]
                  /\ UNCHANGED <<array, timestamp, clock, notifier, writing, call, stack,
                                 subscribed, due, sent>>

HandlerReturns(t) == /\ At(t, "handle") /\ call[t] = NoCall
                     /\ HandleEnds(Top(t))
                     /\ stage' = [stage EXCEPT ![Top(t)] = "next"]
                     /\ UNCHANGED <<array, timestamp, clock, notifier, writing, threadVars,
                                    ghostVars>>

EndRound(t) == /\ At(t, "next")
               /\ NotifyEnds(Top(t))
               /\ Releases(t)
               /\ sent' = [sent EXCEPT ![t][Top(t)] = << >>]
               /\ due' = [due EXCEPT ![Top(t)] = {}] /\ seen' = [seen EXCEPT ![Top(t)] = {}]
               /\ acted' = [acted EXCEPT ![Top(t)] = FALSE]
               /\ UNCHANGED <<array, timestamp, clock, call, subscribed>>

-----------------------------------------------------------------------------
(* add_observer and remove_observer wait for the mutex of notify_observers,*)
(* which is recursive: a handler of the channel has it already.            *)

CanLock(t, c) == \/ stack[t] = << >> /\ stage[c] \notin {"next", "handle"}
                 \/ InHandler(t) /\ c = Top(t)

Subscribe(t) ==
    /\ MayAct(t)
    /\ \E c \in Channels, h \in Handlers, front \in BOOLEAN :
         /\ <<c, h>> \in Movable /\ CanLock(t, c)
         /\ AddObserver(c, h, front)
         /\ subscribed' = IF IsObserver(c, h) THEN subscribed
                          ELSE [subscribed EXCEPT ![c] = @ \cup {h}]
    /\ Acts(t)
    /\ UNCHANGED <<channelVars, call, stack, due, seen, sent>>

Unsubscribe(t) ==
    /\ MayAct(t)
    /\ \E c \in Channels, h \in Handlers :
         /\ <<c, h>> \in Movable /\ CanLock(t, c)
         /\ RemoveObserver(c, h)
         /\ subscribed' = [subscribed EXCEPT ![c] = @ \ {h}]
         /\ due' = [due EXCEPT ![c] = @ \ {h}]
    /\ Acts(t)
    /\ UNCHANGED <<channelVars, call, stack, seen, sent>>

Proceed(t) == \/ TryLock(t) \/ GiveUp(t) \/ StoreNothing(t) \/ Store(t) \/ StoreBound(t)
              \/ LockToNotify(t) \/ BeginRound(t) \/ CallHandler(t) \/ HandlerReturns(t)
              \/ EndRound(t)

Next == \E t \in Threads : \/ CallWrite(t) \/ CallNotify(t) \/ Subscribe(t) \/ Unsubscribe(t)
                           \/ Proceed(t)

(* A call once begun goes on; a handler that may act may also return.      *)
Spec == Init /\ [][Next]_vars /\ \A t \in Threads : SF_vars(Proceed(t))

-----------------------------------------------------------------------------
TypeOK ==
    /\ observers \in [Channels -> Seq(Handlers)]
    /\ current \in [Channels -> Handlers \cup {NoHandler}]
    /\ removeCurrent \in [Channels -> BOOLEAN]
    /\ iter \in [Channels -> Handlers \cup {NoHandler}]
    /\ array \in [Channels -> Seq(Bytes)] /\ \A c \in Channels : Len(array[c]) <= Capacity
    /\ timestamp \in [Channels -> 0 .. MaxWrites] /\ clock \in 0 .. MaxWrites
    /\ stage \in [Channels -> {"free", "locked", "stored", "next", "handle"}]
    /\ notifier \in [Channels -> Threads \cup {NoThread}]
    /\ writing \in [Channels -> Calls]
    /\ call \in [Threads -> Calls]
    /\ stack \in [Threads -> Seq(Channels)]
    /\ acted \in [Channels -> BOOLEAN]
    /\ subscribed \in [Channels -> SUBSET Handlers]
    /\ due \in [Channels -> SUBSET Handlers] /\ seen \in [Channels -> SUBSET Handlers]

(* "prevent writing inside notification": from the store of a value to the *)
(* return of the last handler, the channel holds that value and its stamp, *)
(* so that what a handler reads is what it is notified of.                 *)
HandlersSeeWrite ==
    \A t \in Threads, c \in Channels : sent[t][c] \in {<< >>, <<array[c], timestamp[c]>>}

(* Every handler that was subscribed when a round began, and stayed so, is *)
(* called in it, whatever the handlers before it did to the list.          *)
AllNotified ==
    \A c \in Channels : stage[c] = "next" /\ iter[c] = NoHandler => due[c] \subseteq seen[c]

(* The list is what was subscribed, but for a handler that removed itself  *)
(* and has not returned; and the iterator designates an element of it.  So *)
(* no handler is called after its removal returned, even to its destructor.*)
ListIsSubscribed ==
    \A c \in Channels :
        /\ ToSet(observers[c]) = subscribed[c] \cup (IF removeCurrent[c] THEN {iter[c]} ELSE {})
        /\ stage[c] = "handle" => IsObserver(c, iter[c]) /\ current[c] = iter[c]
        /\ removeCurrent[c] => stage[c] = "handle" /\ iter[c] \notin subscribed[c]

(* "write and notify only if a change happened": a write that is not       *)
(* notified leaves every byte as it was.  The array itself may be longer   *)
(* than before, since it is resized before the comparison, but only up to  *)
(* the end of a write that was accepted, by zeros, which are what was      *)
(* written.                                                                *)
Silent(c) == stage[c] = "locked" /\ stage'[c] = "free"
GrewFor(c, w) == /\ Len(array[c]) < Needed(w) /\ Len(array'[c]) = Needed(w)
                 /\ Needed(w) <= Capacity
                 /\ \A i \in DOMAIN w.data : array'[c][w.offset + i] = w.data[i]

SilentWriteKeepsBytes ==
    [][\A c \in Channels : Silent(c) =>
          /\ \A i \in DOMAIN array'[c] :
                array'[c][i] = IF i \in DOMAIN array[c] THEN array[c][i] ELSE 0
          /\ array'[c] # array[c] => GrewFor(c, writing[c].what)]_vars

(* write never blocks, and notify does only when it is called in a cycle:  *)
(* by handlers of threads each of which holds a channel that the next one  *)
(* waits for, or of one thread that comes back to a channel it notifies.   *)
(* Every other call returns.                                               *)
WaitsFor(t, u) == call[t].kind = "notify" /\ notifier[call[t].on] = u
Deadlocked(t)  == \E S \in SUBSET Threads :
                     t \in S /\ \A u \in S : \E v \in S : WaitsFor(u, v)
InCall(t)      == stack[t] # << >> \/ call[t] # NoCall

CallsReturn == \A t \in Threads : InCall(t) ~> ~InCall(t) \/ Deadlocked(t)
=============================================================================
