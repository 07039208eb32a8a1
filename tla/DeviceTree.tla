------------------------------ MODULE DeviceTree ------------------------------
(***************************************************************************)
(* The services of sihd::core: a Core and its devices, which have devices  *)
(* of their own.  Each has a sihd::util::ServiceController, a table of the *)
(* operations that its state admits, and an operation on a device does the *)
(* same on its children, in the order in which they were added, before it  *)
(* calls the device's own on_setup, on_init, on_start, on_stop or          *)
(* on_reset.  Any of these may fail.  Several threads operate on the tree, *)
(* and on any device of it.                                                *)
(*                                                                         *)
(* A device has one operation at a time, so what the operation keeps on    *)
(* the stack of its thread is kept here by device.                         *)
(***************************************************************************)
EXTENDS Integers, Sequences

CONSTANTS Devices,
          Root,         \* the core
          Children,     \* of each device, the ones the program adds, in that order
          MaxCalls,     \* bound: operations called from outside the tree
          MaxFailures   \* bound: calls of resolve_links and of on_... that fail

Elements(s) == {s[i] : i \in DOMAIN s}
Distinct(s) == \A i, j \in DOMAIN s : s[i] = s[j] => i = j

(* remove_children deletes the children, with the children they have: the  *)
(* least set with the children of d and, with a device, its children.      *)
Closed(d, S) == \A c \in S \cup {d} : Elements(Children[c]) \subseteq S
Below(d)     == {c \in Devices : \A S \in SUBSET Devices : Closed(d, S) => c \in S}

(* A tree: children have different names and one parent.                   *)
ASSUME DeviceTreeAssumption ==
    /\ Root \in Devices
    /\ Children \in [Devices -> Seq(Devices)]
    /\ \A d \in Devices : Distinct(Children[d]) /\ d \notin Below(d)
    /\ \A d, e \in Devices : Elements(Children[d]) \cap Elements(Children[e]) # {} => d = e
    /\ MaxCalls \in Nat /\ MaxFailures \in Nat

VARIABLES state,     \* of the controller of each device
          children,  \* of each device, in the order they were added
          frame,     \* the operation that each device is in
          apart,     \* devices whose last operation was not asked by their parent, or
                     \* that came when their parent had done one already
          calls, failures

vars == <<state, children, frame, apart, calls, failures>>

Operations == {"setup", "init", "start", "stop", "reset"}
Passing    == {"configuring", "initializing", "starting", "stopping", "resetting"}

(* ServiceController, with the optional_setup of a device.                 *)
Transitions ==
    {<<"none", "setup", "configuring">>, <<"none", "init", "initializing">>,
     <<"configured", "init", "initializing">>, <<"stopped", "start", "starting">>,
     <<"running", "stop", "stopping">>, <<"configured", "reset", "resetting">>,
     <<"stopped", "reset", "resetting">>,
     <<"configuring", "success", "configured">>, <<"initializing", "success", "stopped">>,
     <<"starting", "success", "running">>, <<"stopping", "success", "stopped">>,
     <<"resetting", "success", "none">>}
        \cup {<<s, "error", "error">> : s \in Passing}

Admits(s, event) == \E t \in Transitions : t[1] = s /\ t[2] = event
After(s, event)  == (CHOOSE t \in Transitions : t[1] = s /\ t[2] = event)[3]

(* next is the number of the child to call, begun how many a start has     *)
(* started when it fails, ok what the operation will return.               *)
Called(operation, by) == [op |-> operation, phase |-> "children", next |-> 1, begun |-> 0,
                          ok |-> TRUE, by |-> by]
Idle == [Called("none", "user") EXCEPT !.phase = "none"]

Init == /\ state = [d \in Devices |-> "none"]
        /\ children = Children
        /\ frame = [d \in Devices |-> Idle]
        /\ apart = {} /\ calls = 0 /\ failures = 0

-----------------------------------------------------------------------------
(* The tree.                                                               *)

InTree == {Root} \cup UNION {Elements(children[d]) : d \in Devices}

IsChild(c, d) == c \in Elements(children[d])

-----------------------------------------------------------------------------
(* An operation: its children first.                                       *)

Does(d, operation, p) == frame[d].op = operation /\ frame[d].phase = p

(* A start that fails stops the children that it has started.              *)
Undo(f) == [f EXCEPT !.phase = "undo", !.ok = FALSE, !.begun = f.next - 1, !.next = 1]

(* Mutant: a stop ends at the first child that fails to.                   *)
Answered_Breaks(f, good) ==
    IF f.op = "start" /\ f.phase = "children" /\ ~good THEN Undo(f)
    ELSE IF ~good THEN [f EXCEPT !.phase = "own", !.ok = FALSE]
    ELSE [f EXCEPT !.next = f.next + 1, !.ok = f.ok /\ good]

(* What the caller makes of the answer of a child.                         *)
Answered(f, good) ==
    IF f.op = "start" /\ f.phase = "children" /\ ~good THEN Undo(f)
    ELSE [f EXCEPT !.next = f.next + 1, !.ok = f.ok /\ good]

Asks(f)  == IF f.phase = "undo" THEN "stop" ELSE f.op
Count(d) == IF frame[d].phase = "undo" THEN frame[d].begun ELSE Len(children[d])

(* Whether d has child c to call: it is not waiting for it.                *)
IsNext(d, c) == /\ frame[d].phase \in {"children", "undo"}
                /\ frame[d].next <= Count(d)
                /\ c = children[d][frame[d].next]
                /\ ~(frame[c].op # "none" /\ frame[c].by = "parent")

CallChild(d, c) ==
    /\ IsNext(d, c) /\ Admits(state[c], Asks(frame[d]))
    /\ state' = [state EXCEPT ![c] = After(@, Asks(frame[d]))]
    /\ frame' = [frame EXCEPT ![c] = Called(Asks(frame[d]), "parent")]
    /\ apart' = apart \ {c}
    /\ UNCHANGED <<children, calls, failures>>

ChildRefuses(d, c) ==
    /\ IsNext(d, c) /\ ~Admits(state[c], Asks(frame[d]))
    /\ frame' = [frame EXCEPT ![d] = Answered(@, FALSE)]
    /\ UNCHANGED <<state, children, apart, calls, failures>>

ChildrenDone(d) == frame[d].phase = "children" /\ frame[d].next > Count(d)

-----------------------------------------------------------------------------
(* Then the device itself.                                                 *)

MayFail(good) == /\ good \/ failures < MaxFailures
                 /\ failures' = IF good THEN failures ELSE failures + 1

ResolveLinks(d, good) ==
    /\ frame[d].op = "start" /\ ChildrenDone(d)
    /\ MayFail(good)
    /\ frame' = [frame EXCEPT ![d] = IF good THEN [@ EXCEPT !.phase = "own"] ELSE Undo(@)]
    /\ UNCHANGED <<state, children, apart, calls>>

(* A setup or init with a child that failed does nothing of its own; a     *)
(* stop and a reset do.                                                    *)
EndChildren(d) ==
    /\ frame[d].op \in {"setup", "init", "stop"} /\ ChildrenDone(d)
    /\ frame' = [frame EXCEPT ![d].phase = IF frame[d].ok \/ frame[d].op = "stop"
                                          THEN "own" ELSE "end"]
    /\ UNCHANGED <<state, children, apart, calls, failures>>

RemoveChildren(d) ==
    /\ frame[d].op = "reset" /\ ChildrenDone(d)
    /\ children' = [c \in Devices |-> IF c = d \/ c \in Below(d) THEN <<>> ELSE children[c]]
    /\ apart' = apart \ Below(d)
    /\ state' = [c \in Devices |-> IF c \in Below(d) THEN "none" ELSE state[c]]
    /\ frame' = [frame EXCEPT ![d].phase = "own"]
    /\ UNCHANGED <<calls, failures>>

(* on_setup, on_init, on_start, on_stop or on_reset.                       *)
Own(d, good) ==
    /\ frame[d].phase = "own"
    /\ MayFail(good)
    /\ frame' = [frame EXCEPT ![d] = IF @.op = "start" /\ ~good THEN Undo(@)
                                     ELSE [@ EXCEPT !.phase = "end", !.ok = frame[d].ok /\ good]]
    /\ UNCHANGED <<state, children, apart, calls>>

(* op_end, and the return to the parent if that is who called.             *)
Ends(d) == \/ frame[d].phase = "end"
           \/ frame[d].phase = "undo" /\ frame[d].next > frame[d].begun

Returned(d) ==
    frame' = [c \in Devices |->
                 IF c = d THEN Idle
                 ELSE IF frame[d].by = "parent" /\ IsChild(d, c) THEN Answered(frame[c], frame[d].ok)
                 ELSE frame[c]]

(* Mutant: the controller has no transition for the failure of a reset.    *)
End_NoError(d) ==
    /\ Ends(d)
    /\ state' = IF ~frame[d].ok /\ frame[d].op = "reset" THEN state
                ELSE [state EXCEPT ![d] = After(@, IF frame[d].ok THEN "success" ELSE "error")]
    /\ Returned(d)
    /\ UNCHANGED <<children, apart, calls, failures>>

End(d) ==
    /\ Ends(d)
    /\ state' = [state EXCEPT ![d] = After(@, IF frame[d].ok THEN "success" ELSE "error")]
    /\ Returned(d)
    /\ UNCHANGED <<children, apart, calls, failures>>

-----------------------------------------------------------------------------
(* The program: it operates on any device, and puts devices in the tree.   *)
(* A reset deletes devices, so it is alone.                                *)

Busy == {d \in Devices : frame[d].op # "none"}

Call(d, operation) ==
    /\ d \in InTree /\ calls < MaxCalls
    /\ Admits(state[d], operation)
    /\ operation = "reset" => Busy = {}
    /\ \A c \in Busy : frame[c].op # "reset"
    /\ state' = [state EXCEPT ![d] = After(@, operation)]
    /\ frame' = [frame EXCEPT ![d] = Called(operation, "user")]
    /\ apart' = apart \cup {d}
    /\ calls' = calls + 1
    /\ UNCHANGED <<children, failures>>

(* A child may be added at any time but while an operation walks the list  *)
(* of children.  It is as it was made, whatever its parent has done.       *)
AddDevice(c, d) ==
    /\ c \in Elements(Children[d]) \ InTree /\ d \in InTree
    /\ state[d] \notin Passing
    /\ children' = [children EXCEPT ![d] = Append(@, c)]
    /\ apart' = IF state[d] = "none" THEN apart ELSE apart \cup {c}
    /\ UNCHANGED <<state, frame, calls, failures>>

Step(d) == \/ \E c \in Devices : CallChild(d, c) \/ ChildRefuses(d, c)
           \/ \E good \in BOOLEAN : ResolveLinks(d, good) \/ Own(d, good)
           \/ EndChildren(d) \/ RemoveChildren(d) \/ End(d)

Next == \/ \E d \in Devices : Step(d) \/ \E o \in Operations : Call(d, o)
        \/ \E c, d \in Devices : AddDevice(c, d)

Spec == Init /\ [][Next]_vars

-----------------------------------------------------------------------------
(* With the types, that a device is in an operation exactly while its      *)
(* state is a passing one, the one its operation has led to, and that the  *)
(* loops over the children come to no child that is not there.             *)
TypeOK ==
    /\ state \in [Devices -> {"none", "configured", "stopped", "running", "error"} \cup Passing]
    /\ children \in [Devices -> Seq(Devices)] /\ apart \subseteq InTree
    /\ calls \in 0 .. MaxCalls /\ failures \in 0 .. MaxFailures
    /\ \A d \in Devices :
           LET f == frame[d]
           IN  /\ f.op \in Operations \cup {"none"}
               /\ f.phase \in {"none", "children", "own", "undo", "end"}
               /\ f.next \in Nat /\ f.begun \in 0 .. Len(children[d])
               /\ f.phase \in {"children", "undo"} => f.next \in 1 .. Len(children[d]) + 1
               /\ f.ok \in BOOLEAN /\ f.by \in {"user", "parent"}
               /\ IF f.op = "none" THEN state[d] \notin Passing
                  ELSE \E t \in Transitions : t[2] = f.op /\ t[3] = state[d]

(* A device that runs has all its children running, and one that does not, *)
(* whether it was never started, has been stopped, or failed to start or   *)
(* to stop, has none; but for the children that somebody else operates on, *)
(* and those added to a device that is set up already, until it calls them.*)
(* on_start finds the children running, on_stop finds none.                *)
WholeOrNone ==
    \A d \in Devices : \A c \in Elements(children[d]) \ apart :
        /\ state[d] = "running" \/ Does(d, "start", "own") => state[c] = "running"
        /\ state[d] \notin Passing \cup {"running"} \/ Does(d, "stop", "own")
               => state[c] # "running"
=============================================================================
