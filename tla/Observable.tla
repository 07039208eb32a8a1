----------------------------- MODULE Observable -----------------------------
(***************************************************************************)
(* sihd::util::Observable<T>: a list of handlers without duplicates, which *)
(* notify_observers walks with an iterator, with the recursive _mutex held *)
(* from its first step to its last.  A handler may add and remove handlers *)
(* of the observable that is notifying it.  Removing itself is deferred    *)
(* until it returns, for the iterator designates it.                       *)
(*                                                                         *)
(* There is one such object per element of Subjects; nested notifications  *)
(* of one of them are not modelled (its users here never nest).            *)
(***************************************************************************)
EXTENDS Naturals, SequencesExt

CONSTANTS Subjects, Handlers, NoHandler

ASSUME ObservableAssumption == NoHandler \notin Handlers

VARIABLES observers,       \* _observers
          current,         \* _current_observer
          removeCurrent,   \* _remove_current_observer
          iter             \* the iterator of notify_observers, NoHandler at the end

observableVars == <<observers, current, removeCurrent, iter>>

ObservableInit(initial) == /\ observers = initial
                           /\ current = [s \in Subjects |-> NoHandler]
                           /\ removeCurrent = [s \in Subjects |-> FALSE]
                           /\ iter = [s \in Subjects |-> NoHandler]

IsObserver(s, h) == Contains(observers[s], h)

(* std::find, and the erase of what it found.                              *)
Position(list, h) == CHOOSE i \in DOMAIN list : list[i] = h
Erase(list, h)    == IF Contains(list, h) THEN RemoveAt(list, Position(list, h)) ELSE list

(* The element that follows h, NoHandler after the last one.               *)
After(list, h) == LET i == Position(list, h) IN
                  IF i < Len(list) THEN list[i + 1] ELSE NoHandler

FirstOf(list) == IF list = << >> THEN NoHandler ELSE Head(list)

AddObserver(s, h, front) ==
    /\ observers' = IF IsObserver(s, h) THEN observers
                    ELSE [observers EXCEPT ![s] = IF front THEN <<h>> \o @ ELSE Append(@, h)]
    /\ UNCHANGED <<current, removeCurrent, iter>>

(* Mutant: the current observer is erased under the iterator.              *)
RemoveObserver_AtOnce(s, h) ==
    /\ observers' = [observers EXCEPT ![s] = Erase(@, h)]
    /\ UNCHANGED <<current, removeCurrent, iter>>

RemoveObserver(s, h) ==
    /\ IF current[s] = h
       THEN removeCurrent' = [removeCurrent EXCEPT ![s] = TRUE] /\ UNCHANGED observers
       ELSE observers' = [observers EXCEPT ![s] = Erase(@, h)] /\ UNCHANGED removeCurrent
    /\ UNCHANGED <<current, iter>>

(* The steps of notify_observers.                                          *)
NotifyBegins(s) == /\ iter' = [iter EXCEPT ![s] = FirstOf(observers[s])]
                   /\ UNCHANGED <<observers, current, removeCurrent>>

HandleBegins(s) == /\ iter[s] # NoHandler
                   /\ current' = [current EXCEPT ![s] = iter[s]]
                   /\ UNCHANGED <<observers, removeCurrent, iter>>

(* Mutant: the iterator is advanced after an erase too.                    *)
HandleEnds_Skips(s) ==
    LET next == After(observers[s], iter[s]) IN
    /\ iter' = [iter EXCEPT ![s] = IF removeCurrent[s] /\ next # NoHandler
                                   THEN After(observers[s], next) ELSE next]
    /\ removeCurrent' = [removeCurrent EXCEPT ![s] = FALSE]
    /\ observers' = [observers EXCEPT ![s] = IF removeCurrent[s] THEN Erase(@, iter[s]) ELSE @]
    /\ UNCHANGED current

HandleEnds(s) ==
    /\ iter' = [iter EXCEPT ![s] = After(observers[s], @)]
    /\ removeCurrent' = [removeCurrent EXCEPT ![s] = FALSE]
    /\ observers' = [observers EXCEPT ![s] = IF removeCurrent[s] THEN Erase(@, iter[s]) ELSE @]
    /\ UNCHANGED current

NotifyEnds(s) == /\ iter[s] = NoHandler
                 /\ current' = [current EXCEPT ![s] = NoHandler]
                 /\ UNCHANGED <<observers, removeCurrent, iter>>
=============================================================================
