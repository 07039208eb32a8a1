-------------------------- MODULE DeviceTree_proofs --------------------------
(***************************************************************************)
(* Proofs about DeviceTree.  WholeOrNone is not inductive: whether the     *)
(* children of a device run depends on how far its operation has come, so  *)
(* the invariant says, for each operation and place in the loop, which of  *)
(* them may run.  That no child runs on while a reset deletes it needs the *)
(* reset to be alone above its subtree, which needs who called whom.       *)
(***************************************************************************)
EXTENDS DeviceTree, TLAPS

States == {"none", "configured", "stopped", "running", "error"} \cup Passing
Phases == {"none", "children", "own", "undo", "end"}
Frames == [op : Operations \cup {"none"}, phase : Phases, next : Nat, begun : Nat,
           ok : BOOLEAN, by : {"user", "parent"}]

(* The state an operation leads to while it goes on, and when it succeeds. *)
Leads(operation) == CASE operation = "setup" -> "configuring"
                      [] operation = "init"  -> "initializing"
                      [] operation = "start" -> "starting"
                      [] operation = "stop"  -> "stopping"
                      [] operation = "reset" -> "resetting"
                      [] OTHER               -> "none"
Gives(operation) == CASE operation = "setup" -> "configured"
                      [] operation = "start" -> "running"
                      [] operation = "reset" -> "none"
                      [] OTHER               -> "stopped"

-----------------------------------------------------------------------------
(* The inductive invariant.                                                *)

Types == /\ state \in [Devices -> States]
         /\ children \in [Devices -> Seq(Devices)]
         /\ frame \in [Devices -> Frames]
         /\ apart \subseteq InTree
         /\ calls \in 0 .. MaxCalls /\ failures \in 0 .. MaxFailures

(* The tree is a part of the one the program adds.                         *)
PartOfTree == \A d \in Devices : /\ Distinct(children[d])
                           /\ Elements(children[d]) \subseteq Elements(Children[d])

(* What the frame of a device says of its state and of itself.             *)
Formed(f, s, count) ==
    /\ f.op = "none" <=> f.phase = "none"
    /\ f.op = "none" => s \notin Passing
    /\ f.op # "none" => s = Leads(f.op)
    /\ f.begun <= count /\ f.next >= 1
    /\ \/ f.next <= count + 1 \/ f.op = "none"
       \/ f.op = "reset" /\ f.phase \in {"own", "end"}
    /\ f.phase # "undo" => f.begun = 0
    /\ f.phase \in {"own", "end"} => f.next > count
    /\ f.phase = "undo" => f.op = "start" /\ ~f.ok /\ f.next <= f.begun + 1
    /\ f.op = "start" /\ f.phase # "undo" => f.ok

(* Whether the child that a device calls i-th may run, and must.           *)
Fits(f, s, i, runs) ==
    /\ s = "running" => runs
    /\ runs => \/ s = "running"
               \/ f.op = "start" /\ f.phase # "undo" /\ i < f.next
               \/ f.phase = "undo" /\ i \in f.next .. f.begun
               \/ f.op = "stop" /\ i >= f.next
    /\ f.op = "start" /\ f.phase # "undo" /\ i < f.next => runs

Runs(c) == state[c] = "running"

Ordered == \A d \in Devices : \A i \in DOMAIN children[d] :
               children[d][i] \notin apart => Fits(frame[d], state[d], i, Runs(children[d][i]))

(* A device called by its parent is the one the parent has come to.        *)
IsBusy(d)   == frame[d].op # "none"
HasCalled(p, c) == /\ frame[p].phase \in {"children", "undo"}
               /\ frame[p].next <= Count(p)
               /\ c = children[p][frame[p].next]
               /\ frame[c].op = Asks(frame[p]) /\ frame[c].by = "parent"

ByParent == \A c \in Devices : IsBusy(c) /\ frame[c].by = "parent" =>
                                   \E p \in Devices : HasCalled(p, c)
ByUser   == \A d \in Devices : IsBusy(d) /\ frame[d].by = "user" => d \in apart

(* A reset is asked of one device, while no other is in an operation that  *)
(* does not come from it.                                                  *)
Alone(r) == /\ frame[r].op = "reset" /\ frame[r].by = "user"
            /\ \A d \in Devices : IsBusy(d) /\ d # r => d \in Below(r) /\ frame[d].by = "parent"
ResetAlone == \A d \in Devices : frame[d].op = "reset" => \E r \in Devices : Alone(r)

OutOfTree == \A d \in Devices \ InTree : state[d] = "none"

TreeInv == /\ Types /\ PartOfTree
           /\ \A d \in Devices : Formed(frame[d], state[d], Len(children[d]))
           /\ Ordered /\ ByParent /\ ByUser /\ ResetAlone /\ OutOfTree

-----------------------------------------------------------------------------
(* The table of the controller.                                            *)

(* A state that admits an operation is not a passing one, it leads where   *)
(* the table says, and only one that runs can be stopped.                  *)
LEMMA AdmittedLeads ==
    ASSUME NEW s, NEW o \in Operations, Admits(s, o)
    PROVE  /\ s \in States \ Passing /\ After(s, o) = Leads(o)
           /\ s = "running" <=> o = "stop"
<1>1. PICK t \in Transitions : t[1] = s /\ t[2] = o
  BY DEF Admits
<1>2. \A u \in Transitions : u[1] = s /\ u[2] = o => u[3] = Leads(o)
  BY DEF Transitions, Operations, Leads, Passing
<1>3. After(s, o) = Leads(o)
  BY <1>1, <1>2 DEF After
<1>4. s \in States \ Passing /\ (s = "running" <=> o = "stop")
  BY <1>1 DEF Transitions, Operations, States, Passing
<1> QED BY <1>3, <1>4

LEMMA RunningStops == Admits("running", "stop")
<1>1. <<"running", "stop", "stopping">> \in Transitions
  BY DEF Transitions
<1> QED BY <1>1 DEF Admits

(* An operation ends in its own state or in error.                         *)
LEMMA EndLeads ==
    ASSUME NEW o \in Operations
    PROVE  After(Leads(o), "success") = Gives(o) /\ After(Leads(o), "error") = "error"
<1>1. /\ <<Leads(o), "success", Gives(o)>> \in Transitions
      /\ <<Leads(o), "error", "error">> \in Transitions
  BY DEF Transitions, Operations, Leads, Gives, Passing
<1>2. \A u \in Transitions : u[1] = Leads(o) /\ u[2] = "success" => u[3] = Gives(o)
  BY DEF Transitions, Operations, Leads, Gives, Passing
<1>3. \A u \in Transitions : u[1] = Leads(o) /\ u[2] = "error" => u[3] = "error"
  BY DEF Transitions, Operations, Leads, Passing
<1> QED BY <1>1, <1>2, <1>3 DEF After

LEMMA OperationStates ==
    ASSUME NEW o \in Operations
    PROVE  /\ Leads(o) \in Passing /\ Gives(o) \in States \ Passing
           /\ \E t \in Transitions : t[2] = o /\ t[3] = Leads(o)
           /\ "error" \in States \ Passing /\ "none" \in States \ Passing
           /\ "running" \in States \ Passing /\ Passing \subseteq States
           /\ Gives(o) = "running" <=> o = "start"
<1>1. \E t \in Transitions : t[2] = o /\ t[3] = Leads(o)
  <2>1. /\ <<"none", "setup", "configuring">> \in Transitions
        /\ <<"none", "init", "initializing">> \in Transitions
        /\ <<"stopped", "start", "starting">> \in Transitions
        /\ <<"running", "stop", "stopping">> \in Transitions
        /\ <<"configured", "reset", "resetting">> \in Transitions
    BY DEF Transitions
  <2> QED BY <2>1 DEF Operations, Leads
<1>2. Leads(o) \in Passing /\ Gives(o) \in States \ Passing /\ (Gives(o) = "running" <=> o = "start")
  BY DEF Operations, Leads, Gives, Passing, States
<1> QED BY <1>1, <1>2 DEF Passing, States

-----------------------------------------------------------------------------
(* The devices below another.                                              *)

LEMMA BelowLeast ==
    ASSUME NEW d \in Devices, NEW S \in SUBSET Devices, Closed(d, S)
    PROVE  Below(d) \subseteq S
BY DEF Below

LEMMA ChildrenAreDevices ==
    ASSUME NEW d \in Devices PROVE Elements(Children[d]) \subseteq Devices
BY DeviceTreeAssumption DEF Elements

LEMMA BelowClosed ==
    ASSUME NEW d \in Devices PROVE Closed(d, Below(d)) /\ Below(d) \subseteq Devices
<1> SUFFICES ASSUME NEW c \in Below(d) \cup {d}, NEW x \in Elements(Children[c])
             PROVE  x \in Below(d)
  BY DEF Closed, Below
<1>1. c \in Devices /\ x \in Devices
  BY ChildrenAreDevices DEF Below
<1>2. ASSUME NEW S \in SUBSET Devices, Closed(d, S) PROVE x \in S
  <2>1. c \in S \cup {d}
    BY <1>2 DEF Below
  <2> QED BY <2>1, <1>2 DEF Closed
<1> QED BY <1>1, <1>2 DEF Below

LEMMA BelowTransitive ==
    ASSUME NEW d \in Devices, NEW c \in Below(d) \cup {d}
    PROVE  Below(c) \subseteq Below(d)
<1>1. c \in Devices /\ Closed(d, Below(d)) /\ Below(d) \subseteq Devices
  BY BelowClosed
<1>2. Closed(c, Below(d))
  BY <1>1 DEF Closed
<1> QED BY <1>1, <1>2, BelowLeast

(* A child of a device that is not in the subtree is not below it.         *)
LEMMA ParentIsIn ==
    ASSUME NEW d \in Devices, NEW c \in Below(d), NEW e \in Devices, c \in Elements(Children[e])
    PROVE  e = d \/ e \in Below(d)
<1> SUFFICES ASSUME e # d, e \notin Below(d) PROVE FALSE
  OBVIOUS
<1> DEFINE S == Below(d) \ {c}
<1>1. Closed(d, Below(d)) /\ Below(d) \subseteq Devices
  BY BelowClosed
<1>2. ASSUME NEW x \in S \cup {d} PROVE Elements(Children[x]) \subseteq S
  <2>1. x \in Devices /\ x # e /\ Elements(Children[x]) \subseteq Below(d)
    BY <1>1 DEF Closed
  <2>2. c \notin Elements(Children[x])
    BY <2>1, DeviceTreeAssumption
  <2> QED BY <2>1, <2>2
<1>3. Closed(d, S)
  BY <1>2 DEF Closed
<1> QED BY <1>1, <1>3, BelowLeast

LEMMA ChildIsBelow ==
    ASSUME NEW d \in Devices, NEW c \in Elements(Children[d])
    PROVE  c \in Below(d) /\ c \in Devices /\ c # d
BY BelowClosed, DeviceTreeAssumption DEF Closed

-----------------------------------------------------------------------------
(* Who has called whom.                                                    *)

LEMMA ChildAt ==
    ASSUME Types, PartOfTree, NEW d \in Devices, NEW i \in DOMAIN children[d]
    PROVE  /\ children[d][i] \in Elements(children[d])
           /\ children[d][i] \in Elements(Children[d])
           /\ children[d][i] \in Devices /\ children[d][i] # d
           /\ i \in 1 .. Len(children[d]) /\ i \in Nat /\ i >= 1
<1>1. children[d] \in Seq(Devices)
  BY DEF Types
<1>2. i \in 1 .. Len(children[d]) /\ children[d][i] \in Devices
  BY <1>1
<1>3. children[d][i] \in Elements(children[d])
  BY DEF Elements
<1>4. children[d][i] \in Elements(Children[d])
  BY <1>3 DEF PartOfTree
<1> QED BY <1>2, <1>3, <1>4, ChildIsBelow

LEMMA OneParent ==
    ASSUME Types, PartOfTree, NEW d \in Devices, NEW e \in Devices,
           NEW c \in Elements(children[d]), c \in Elements(children[e])
    PROVE  d = e
BY DeviceTreeAssumption DEF PartOfTree

(* The next child of a device is one, and the one that it calls.           *)
LEMMA NextIsChild ==
    ASSUME TreeInv, NEW d \in Devices, frame[d].phase \in {"children", "undo"},
           frame[d].next <= Count(d)
    PROVE  frame[d].next \in DOMAIN children[d] /\ IsBusy(d)
<1> DEFINE f == frame[d]
           n == Len(children[d])
<1>1. Formed(f, state[d], n) /\ f \in Frames /\ n \in Nat
  BY DEF TreeInv, Types
<1>2. f.next \in Nat /\ f.begun \in Nat
  BY <1>1 DEF Frames
<1>3. Count(d) <= n
  BY <1>1, <1>2 DEF Count, Formed
<1>4. f.next \in 1 .. n
  BY <1>1, <1>2, <1>3 DEF Count, Formed
<1>5. f.op # "none"
  BY <1>1 DEF Formed
<1>6. children[d] \in Seq(Devices)
  BY DEF TreeInv, Types
<1> QED BY <1>4, <1>5, <1>6 DEF IsBusy

LEMMA CalledIsNext ==
    ASSUME TreeInv, NEW d \in Devices, NEW c, HasCalled(d, c)
    PROVE  /\ frame[d].next \in DOMAIN children[d] /\ IsBusy(d)
           /\ c = children[d][frame[d].next] /\ c \in Elements(children[d])
           /\ c \in Below(d) /\ c \in Devices /\ c # d
<1>1. frame[d].next \in DOMAIN children[d] /\ IsBusy(d)
  BY NextIsChild DEF HasCalled
<1>2. c = children[d][frame[d].next]
  BY DEF HasCalled
<1>3. c \in Elements(children[d]) /\ c \in Elements(Children[d])
  BY <1>1, <1>2, ChildAt DEF TreeInv
<1> QED BY <1>1, <1>2, <1>3, ChildIsBelow

(* When all that goes on comes from a device, and it or one below it waits *)
(* for no child, nothing goes on below that one.                           *)
LEMMA NoneBelow ==
    ASSUME TreeInv, NEW r \in Devices, Alone(r), NEW d \in Below(r) \cup {r},
           \A c \in Devices : ~HasCalled(d, c)
    PROVE  \A c \in Below(d) : ~IsBusy(c)
<1> DEFINE S == {c \in Below(d) : ~IsBusy(c)}
<1>0. d \in Devices /\ Below(d) \subseteq Devices /\ Below(d) \subseteq Below(r)
  BY BelowClosed, BelowTransitive
<1>1. SUFFICES Closed(d, S)
  BY <1>0, BelowLeast
<1>2. SUFFICES ASSUME NEW x \in S \cup {d}, NEW c \in Elements(Children[x]), IsBusy(c)
               PROVE  FALSE
  <2>1. \A x \in S \cup {d} : Elements(Children[x]) \subseteq Below(d)
    BY <1>0, BelowClosed DEF Closed
  <2> QED BY <1>2, <2>1 DEF Closed
<1>3. x \in Devices /\ c \in Below(d) /\ c \in Devices
  BY <1>0, BelowClosed DEF Closed
<1>4. c # r
  BY <1>0, <1>3, DeviceTreeAssumption
<1>5. frame[c].by = "parent"
  BY <1>2, <1>3, <1>4 DEF Alone
<1>6. PICK p \in Devices : HasCalled(p, c)
  BY <1>2, <1>3, <1>5 DEF TreeInv, ByParent
<1>7. IsBusy(p) /\ c \in Elements(children[p])
  BY <1>6, CalledIsNext
<1>8. p = x
  BY <1>2, <1>3, <1>7, DeviceTreeAssumption DEF TreeInv, PartOfTree
<1> QED BY <1>3, <1>6, <1>7, <1>8

(* The reset that is under way, when one is.                               *)
LEMMA TheReset ==
    ASSUME TreeInv, NEW d \in Devices, frame[d].op = "reset"
    PROVE  \E r \in Devices : Alone(r) /\ d \in Below(r) \cup {r}
BY DEF TreeInv, ResetAlone, Alone, IsBusy

-----------------------------------------------------------------------------
(* What the steps of an operation make of its frame: what fits f fits g.   *)

NoLess(f, g, s, count) == \A i \in 1 .. count : \A runs \in BOOLEAN :
                              Fits(f, s, i, runs) => Fits(g, s, i, runs)

LEMMA UndoFits ==
    ASSUME NEW f \in Frames, NEW s, NEW count \in Nat, Formed(f, s, count),
           f.op = "start", f.phase # "undo"
    PROVE  /\ Undo(f) \in Frames /\ Undo(f).op = f.op /\ Undo(f).by = f.by
           /\ Formed(Undo(f), s, count)
           /\ NoLess(f, Undo(f), s, count)
<1> DEFINE g == Undo(f)
<1>0. f.next \in Nat /\ f.by \in {"user", "parent"}
  BY DEF Frames
<1>1. g = [op |-> f.op, phase |-> "undo", next |-> 1, begun |-> f.next - 1,
           ok |-> FALSE, by |-> f.by]
  <2>1. ASSUME NEW n \in Int, NEW h,
               h = [f EXCEPT !.phase = "undo", !.ok = FALSE, !.begun = n, !.next = 1]
        PROVE  h = [op |-> f.op, phase |-> "undo", next |-> 1, begun |-> n,
                    ok |-> FALSE, by |-> f.by]
    BY <2>1 DEF Frames
  <2>2. f.next - 1 \in Int
    BY <1>0
  <2> QED BY <2>1, <2>2, Zenon DEF Undo
<1>2. f.next >= 1 /\ f.next <= count + 1
  BY DEF Formed
<1>3. g \in Frames /\ g.op = f.op /\ g.by = f.by
  BY <1>0, <1>1, <1>2 DEF Frames, Phases
<1>4. Formed(g, s, count)
  BY <1>0, <1>1, <1>2 DEF Formed
<1>5. ASSUME NEW i \in 1 .. count, NEW runs \in BOOLEAN, Fits(f, s, i, runs)
      PROVE  Fits(g, s, i, runs)
  BY <1>0, <1>1, <1>2, <1>5 DEF Fits
<1> QED BY <1>3, <1>4, <1>5 DEF NoLess

LEMMA AnsweredFits ==
    ASSUME NEW f \in Frames, NEW s, NEW count \in Nat, NEW good \in BOOLEAN,
           Formed(f, s, count), s # "running", f.phase \in {"children", "undo"},
           f.next <= IF f.phase = "undo" THEN f.begun ELSE count
    PROVE  /\ Answered(f, good) \in Frames
           /\ Answered(f, good).op = f.op /\ Answered(f, good).by = f.by
           /\ Formed(Answered(f, good), s, count)
           /\ \A i \in 1 .. count : \A runs \in BOOLEAN :
                  (IF i = f.next THEN runs <=> good /\ f.op = "start" /\ f.phase = "children"
                                 ELSE Fits(f, s, i, runs))
                      => Fits(Answered(f, good), s, i, runs)
<1> DEFINE g == Answered(f, good)
<1>0. /\ f.next \in Nat /\ f.begun \in Nat /\ f.ok \in BOOLEAN
      /\ f.op \in Operations \cup {"none"} /\ f.by \in {"user", "parent"}
  BY DEF Frames
<1>1. CASE f.op = "start" /\ f.phase = "children" /\ ~good
  <2>1. g = Undo(f)
    BY <1>1 DEF Answered
  <2>2. /\ g \in Frames /\ g.op = f.op /\ g.by = f.by
        /\ Formed(g, s, count)
        /\ NoLess(f, g, s, count)
    BY <1>1, <2>1, UndoFits
  <2>3. ASSUME NEW i \in 1 .. count, i = f.next PROVE Fits(g, s, i, FALSE)
    BY <1>1, <2>1 DEF Fits, Undo, Frames
  <2> QED BY <1>1, <2>2, <2>3 DEF NoLess
<1>2. CASE ~(f.op = "start" /\ f.phase = "children" /\ ~good)
  <2>1. g = [op |-> f.op, phase |-> f.phase, next |-> f.next + 1, begun |-> f.begun,
             ok |-> f.ok /\ good, by |-> f.by]
    BY <1>2 DEF Answered, Frames
  <2>2. g \in Frames /\ g.op = f.op /\ g.by = f.by
    BY <2>1, <1>0 DEF Frames, Phases
  <2>3. Formed(g, s, count)
    BY <2>1, <1>0, <1>2 DEF Formed
  <2>4. ASSUME NEW i \in 1 .. count, NEW runs \in BOOLEAN,
               IF i = f.next THEN runs <=> good /\ f.op = "start" /\ f.phase = "children"
                             ELSE Fits(f, s, i, runs)
        PROVE  Fits(g, s, i, runs)
    BY <2>1, <2>4, <1>0, <1>2 DEF Fits, Formed
  <2> QED BY <2>2, <2>3, <2>4
<1> QED BY <1>1, <1>2

(* The loop is over: the device comes to what it does itself.              *)
Onto(f, phase, ok) == [f EXCEPT !.phase = phase, !.ok = ok]

LEMMA PhaseFits ==
    ASSUME NEW f \in Frames, NEW s, NEW count \in Nat, Formed(f, s, count),
           f.op # "none", f.phase # "undo", f.next > count,
           NEW phase \in {"own", "end"}, NEW ok \in BOOLEAN, f.op = "start" => ok = TRUE
    PROVE  LET g == Onto(f, phase, ok)
           IN  /\ g \in Frames /\ g.op = f.op /\ g.by = f.by
               /\ Formed(g, s, count)
               /\ NoLess(f, g, s, count)
<1> DEFINE g == Onto(f, phase, ok)
<1>0. /\ f.next \in Nat /\ f.begun \in Nat /\ f.ok \in BOOLEAN
      /\ f.op \in Operations \cup {"none"} /\ f.by \in {"user", "parent"}
  BY DEF Frames
<1>1. g = [op |-> f.op, phase |-> phase, next |-> f.next, begun |-> f.begun,
           ok |-> ok, by |-> f.by]
  <2>1. ASSUME NEW h, h = [f EXCEPT !.phase = phase, !.ok = ok]
        PROVE  h = [op |-> f.op, phase |-> phase, next |-> f.next, begun |-> f.begun,
                    ok |-> ok, by |-> f.by]
    BY <2>1 DEF Frames
  <2> QED BY <2>1, Zenon DEF Onto
<1>2. g \in Frames /\ g.op = f.op /\ g.by = f.by
  BY <1>0, <1>1 DEF Frames, Phases
<1>3. Formed(g, s, count)
  BY <1>0, <1>1 DEF Formed
<1>4. ASSUME NEW i \in 1 .. count, NEW runs \in BOOLEAN, Fits(f, s, i, runs)
      PROVE  Fits(g, s, i, runs)
  BY <1>0, <1>1, <1>4 DEF Fits
<1> QED BY <1>2, <1>3, <1>4 DEF NoLess

(* A step of an operation that changes only its frame, while it waits for  *)
(* no child.                                                               *)
LEMMA Onward ==
    ASSUME TreeInv, NEW d \in Devices, NEW g \in Frames,
           IsBusy(d), g.op = frame[d].op, g.by = frame[d].by,
           \A c \in Devices : ~HasCalled(d, c),
           Formed(g, state[d], Len(children[d])),
           \A i \in DOMAIN children[d] : children[d][i] \notin apart
               => Fits(g, state[d], i, Runs(children[d][i])),
           frame' = [frame EXCEPT ![d] = g], UNCHANGED <<state, children, apart, calls>>,
           failures' \in 0 .. MaxFailures
    PROVE  TreeInv'
<1>1. frame \in [Devices -> Frames] /\ frame'[d] = g /\ \A x \in Devices \ {d} : frame'[x] = frame[x]
  BY DEF TreeInv, Types
<1>2. \A x \in Devices : frame'[x].op = frame[x].op /\ frame'[x].by = frame[x].by
  BY <1>1
<1>3. Types'
  BY <1>1 DEF TreeInv, Types, InTree
<1>4. PartOfTree' /\ OutOfTree'
  BY DEF TreeInv, PartOfTree, OutOfTree, InTree
<1>5. (\A x \in Devices : Formed(frame[x], state[x], Len(children[x])))'
  BY <1>1 DEF TreeInv
<1>6. Ordered'
  <2> SUFFICES ASSUME NEW x \in Devices, NEW i \in DOMAIN children[x], children[x][i] \notin apart
               PROVE  Fits(frame'[x], state[x], i, Runs(children[x][i]))
    BY DEF Ordered, Runs
  <2>1. CASE x = d
    BY <2>1, <1>1
  <2>2. CASE x # d
    BY <2>2, <1>1 DEF TreeInv, Ordered
  <2> QED BY <2>1, <2>2
<1>7. ByParent'
  <2> SUFFICES ASSUME NEW c \in Devices, IsBusy(c), frame[c].by = "parent"
               PROVE  \E p \in Devices : HasCalled(p, c)'
    BY <1>2 DEF ByParent, IsBusy
  <2>1. PICK p \in Devices : HasCalled(p, c)
    BY DEF TreeInv, ByParent
  <2>2. p # d
    BY <2>1
  <2>3. HasCalled(p, c)'
    BY <1>1, <1>2, <2>1, <2>2 DEF HasCalled, Count
  <2> QED BY <2>3
<1>8. ByUser' /\ ResetAlone'
  BY <1>2 DEF TreeInv, ByUser, ResetAlone, Alone, IsBusy
<1> QED BY <1>3, <1>4, <1>5, <1>6, <1>7, <1>8 DEF TreeInv

-----------------------------------------------------------------------------
(* Each action preserves the invariant.                                    *)

(* What the invariant says of a device that is in an operation.            *)
LEMMA InOperation ==
    ASSUME TreeInv, NEW d \in Devices, frame[d].phase # "none"
    PROVE  /\ frame[d] \in Frames /\ Len(children[d]) \in Nat
           /\ DOMAIN children[d] = 1 .. Len(children[d])
           /\ Formed(frame[d], state[d], Len(children[d]))
           /\ IsBusy(d) /\ frame[d].op \in Operations
           /\ state[d] = Leads(frame[d].op) /\ state[d] \in Passing
           /\ state[d] # "running" /\ state[d] # "none"
           /\ Asks(frame[d]) \in Operations
<1>1. frame[d] \in Frames /\ children[d] \in Seq(Devices)
  BY DEF TreeInv, Types
<1>2. Formed(frame[d], state[d], Len(children[d]))
  BY DEF TreeInv
<1>3. frame[d].op # "none" /\ frame[d].op \in Operations /\ state[d] = Leads(frame[d].op)
  BY <1>1, <1>2 DEF Formed, Frames
<1>4. state[d] \in Passing
  BY <1>3, OperationStates
<1>5. state[d] # "running" /\ state[d] # "none"
  BY <1>4 DEF Passing
<1>6. Asks(frame[d]) \in Operations
  BY <1>3 DEF Asks, Operations
<1> QED BY <1>1, <1>2, <1>3, <1>4, <1>5, <1>6 DEF IsBusy

LEMMA LoopOver ==
    ASSUME NEW d, frame[d].phase \in {"none", "own", "end"} \/ frame[d].next > Count(d),
           frame[d].next \in Nat, Count(d) \in Nat
    PROVE  \A c : ~HasCalled(d, c)
BY DEF HasCalled

LEMMA ChildRefusesKeeps ==
    ASSUME TreeInv, NEW d \in Devices, NEW c \in Devices, ChildRefuses(d, c)
    PROVE  TreeInv'
<1> DEFINE f == frame[d]
           n == Len(children[d])
           g == Answered(f, FALSE)
<1>1. /\ f \in Frames /\ n \in Nat /\ DOMAIN children[d] = 1 .. n /\ Formed(f, state[d], n)
      /\ IsBusy(d) /\ f.op \in Operations /\ state[d] # "running"
      /\ f.phase \in {"children", "undo"}
  BY InOperation DEF ChildRefuses, IsNext
<1>2. f.next <= IF f.phase = "undo" THEN f.begun ELSE n
  BY DEF ChildRefuses, IsNext, Count
<1>3. /\ g \in Frames /\ g.op = f.op /\ g.by = f.by /\ Formed(g, state[d], n)
      /\ \A i \in 1 .. n : \A runs \in BOOLEAN :
             (IF i = f.next THEN ~runs ELSE Fits(f, state[d], i, runs))
                 => Fits(g, state[d], i, runs)
  BY <1>1, <1>2, AnsweredFits
<1>4. ASSUME NEW i \in DOMAIN children[d], children[d][i] \notin apart
      PROVE  Fits(g, state[d], i, Runs(children[d][i]))
  <2>1. Fits(f, state[d], i, Runs(children[d][i])) /\ Runs(children[d][i]) \in BOOLEAN
    BY <1>4 DEF TreeInv, Ordered, Runs
  <2>2. ASSUME i = f.next PROVE ~Runs(children[d][i])
    <3>1. c = children[d][i] /\ ~Admits(state[c], Asks(f))
      BY <2>2 DEF ChildRefuses, IsNext
    <3>2. CASE Asks(f) = "stop"
      BY <3>1, <3>2, RunningStops DEF Runs
    <3>3. CASE Asks(f) # "stop"
      BY <1>1, <2>1, <2>2, <3>3 DEF Fits, Asks, Frames
    <3> QED BY <3>2, <3>3
  <2> QED BY <1>1, <1>3, <2>1, <2>2
<1>5. \A x \in Devices : ~HasCalled(d, x)
  <2> SUFFICES ASSUME NEW x \in Devices, HasCalled(d, x) PROVE FALSE
    OBVIOUS
  <2>1. x = c /\ frame[c].op = Asks(f) /\ frame[c].by = "parent"
    BY DEF ChildRefuses, IsNext, HasCalled
  <2>2. Asks(f) # "none"
    BY <1>1, InOperation DEF Operations
  <2> QED BY <2>1, <2>2 DEF ChildRefuses, IsNext
<1>6. frame' = [frame EXCEPT ![d] = g] /\ UNCHANGED <<state, children, apart, calls, failures>>
  BY DEF ChildRefuses
<1>7. failures' \in 0 .. MaxFailures
  BY <1>6 DEF TreeInv, Types
<1> QED BY <1>1, <1>3, <1>4, <1>5, <1>6, <1>7, Onward

LEMMA FailuresCounted ==
    ASSUME TreeInv, NEW good \in BOOLEAN, MayFail(good)
    PROVE  failures' \in 0 .. MaxFailures
BY DeviceTreeAssumption DEF TreeInv, Types, MayFail

(* A device that is done with its children goes on with a frame that fits. *)
LEMMA DoneKeeps ==
    ASSUME TreeInv, NEW d \in Devices, frame[d].phase # "none",
           frame[d].phase # "undo", frame[d].next > Len(children[d]),
           NEW g \in Frames, g.op = frame[d].op, g.by = frame[d].by,
           Formed(g, state[d], Len(children[d])),
           NoLess(frame[d], g, state[d], Len(children[d])),
           frame' = [frame EXCEPT ![d] = g], UNCHANGED <<state, children, apart, calls>>,
           failures' \in 0 .. MaxFailures
    PROVE  TreeInv'
<1>1. /\ frame[d] \in Frames /\ Len(children[d]) \in Nat
      /\ DOMAIN children[d] = 1 .. Len(children[d]) /\ IsBusy(d)
  BY InOperation
<1>2. ASSUME NEW i \in DOMAIN children[d], children[d][i] \notin apart
      PROVE  Fits(g, state[d], i, Runs(children[d][i]))
  <2>1. Fits(frame[d], state[d], i, Runs(children[d][i])) /\ Runs(children[d][i]) \in BOOLEAN
    BY <1>2 DEF TreeInv, Ordered, Runs
  <2> QED BY <1>1, <2>1 DEF NoLess
<1>3. Count(d) = Len(children[d]) /\ frame[d].next \in Nat
  BY <1>1 DEF Count, Frames
<1>4. \A c \in Devices : ~HasCalled(d, c)
  BY <1>1, <1>3, LoopOver
<1> QED BY <1>1, <1>2, <1>4, Onward

LEMMA ResolveLinksKeeps ==
    ASSUME TreeInv, NEW d \in Devices, NEW good \in BOOLEAN, ResolveLinks(d, good)
    PROVE  TreeInv'
<1> DEFINE f == frame[d]
           n == Len(children[d])
           g == IF good THEN [f EXCEPT !.phase = "own"] ELSE Undo(f)
<1>1. /\ f.op = "start" /\ f.phase = "children" /\ f.next > n
      /\ frame' = [frame EXCEPT ![d] = g] /\ UNCHANGED <<state, children, apart, calls>>
      /\ MayFail(good)
  BY DEF ResolveLinks, ChildrenDone, Count
<1>2. f \in Frames /\ n \in Nat /\ Formed(f, state[d], n)
  BY <1>1, InOperation
<1>3. failures' \in 0 .. MaxFailures
  BY <1>1, FailuresCounted
<1>4. /\ g \in Frames /\ g.op = f.op /\ g.by = f.by /\ Formed(g, state[d], n)
      /\ NoLess(f, g, state[d], n)
  <2>1. CASE good
    <3>1. f.ok /\ f.ok = TRUE
      BY <1>1, <1>2 DEF Formed, Frames
    <3>2. g = Onto(f, "own", f.ok)
      BY <1>2, <2>1, <3>1 DEF Frames, Onto
    <3>3. f.op # "none" /\ f.phase # "undo" /\ "own" \in {"own", "end"}
      BY <1>1
    <3>4. f.ok \in BOOLEAN
      BY <3>1
    <3> HIDE DEF f, n, g
    <3> QED BY <1>1, <1>2, <3>1, <3>2, <3>3, <3>4, PhaseFits
  <2>2. CASE ~good
    BY <1>1, <1>2, <2>2, UndoFits
  <2> QED BY <2>1, <2>2
<1> QED BY <1>1, <1>3, <1>4, DoneKeeps

LEMMA EndChildrenKeeps ==
    ASSUME TreeInv, NEW d \in Devices, EndChildren(d)
    PROVE  TreeInv'
<1> DEFINE f == frame[d]
           n == Len(children[d])
           p == IF f.ok \/ f.op = "stop" THEN "own" ELSE "end"
           g == [f EXCEPT !.phase = p]
<1>1. /\ f.op # "none" /\ f.op # "start" /\ f.phase = "children" /\ f.next > n
      /\ frame' = [frame EXCEPT ![d] = g]
      /\ UNCHANGED <<state, children, apart, calls, failures>>
  BY DEF EndChildren, ChildrenDone, Count
<1>2. f \in Frames /\ n \in Nat /\ Formed(f, state[d], n)
  BY <1>1, InOperation
<1>3. failures' \in 0 .. MaxFailures
  BY <1>1 DEF TreeInv, Types
<1>4. g \in Frames /\ g.op = f.op /\ g.by = f.by /\ Formed(g, state[d], n)
      /\ NoLess(f, g, state[d], n)
  <2>1. f.ok \in BOOLEAN /\ p \in {"own", "end"}
    BY <1>2 DEF Frames
  <2>2. g = Onto(f, p, f.ok)
    <3> HIDE DEF p
    <3>1. ASSUME NEW h, h = [f EXCEPT !.phase = p] PROVE h = [f EXCEPT !.phase = p, !.ok = f.ok]
      BY <1>2, <3>1 DEF Frames
    <3> QED BY <3>1, Zenon DEF Onto
  <2>3. f.op # "none" /\ f.op # "start" /\ f.phase # "undo" /\ f.next > n
    BY <1>1
  <2> HIDE DEF f, n, p, g
  <2> QED BY <1>2, <2>1, <2>2, <2>3, PhaseFits
<1> HIDE DEF g
<1> QED BY <1>1, <1>3, <1>4, DoneKeeps

LEMMA OwnKeeps ==
    ASSUME TreeInv, NEW d \in Devices, NEW good \in BOOLEAN, Own(d, good)
    PROVE  TreeInv'
<1> DEFINE f == frame[d]
           n == Len(children[d])
           g == IF f.op = "start" /\ ~good THEN Undo(f)
                ELSE [f EXCEPT !.phase = "end", !.ok = f.ok /\ good]
<1>1. /\ f.phase = "own" /\ MayFail(good)
      /\ frame' = [frame EXCEPT ![d] = g] /\ UNCHANGED <<state, children, apart, calls>>
  <2>1. frame' = [frame EXCEPT ![d] = g]
    BY Zenon DEF Own
  <2> QED BY <2>1 DEF Own
<1>2. f \in Frames /\ n \in Nat /\ Formed(f, state[d], n) /\ f.op # "none"
  BY <1>1, InOperation DEF IsBusy
<1>3. f.next > n
  BY <1>1, <1>2 DEF Formed
<1>4. failures' \in 0 .. MaxFailures
  BY <1>1, FailuresCounted
<1>5. g \in Frames /\ g.op = f.op /\ g.by = f.by /\ Formed(g, state[d], n)
      /\ NoLess(f, g, state[d], n)
  <2>1. CASE f.op = "start" /\ ~good
    <3>1. g = Undo(f) /\ f.phase # "undo"
      BY <1>1, <2>1
    <3> HIDE DEF f, n, g
    <3> QED BY <1>2, <2>1, <3>1, UndoFits
  <2>2. CASE ~(f.op = "start" /\ ~good)
    <3> DEFINE b == f.ok /\ good
    <3>1. b \in BOOLEAN /\ (f.op = "start" => b = TRUE)
      BY <1>1, <1>2, <2>2 DEF Formed, Frames
    <3>2. g = Onto(f, "end", b)
      BY <2>2, Zenon DEF Onto
    <3>3. f.op # "none" /\ f.phase # "undo" /\ "end" \in {"own", "end"} /\ f.next > n
      BY <1>1, <1>2, <1>3
    <3> HIDE DEF f, n, b, g
    <3> QED BY <1>2, <3>1, <3>2, <3>3, PhaseFits
  <2> QED BY <2>1, <2>2
<1> HIDE DEF g
<1> QED BY <1>1, <1>2, <1>3, <1>4, <1>5, DoneKeeps

(* A device begins the operation that it admits: its frame is a new one.   *)
LEMMA BeginFits ==
    ASSUME NEW f \in Frames, NEW s, NEW o \in Operations, NEW count \in Nat,
           Formed(f, s, count), Admits(s, o), NEW by \in {"user", "parent"}
    PROVE  /\ Called(o, by) \in Frames /\ f.op = "none"
           /\ Formed(Called(o, by), Leads(o), count)
           /\ \A i \in 1 .. count : \A runs \in BOOLEAN :
                  Fits(f, s, i, runs) => Fits(Called(o, by), Leads(o), i, runs)
<1> DEFINE g == Called(o, by)
<1>1. g = [op |-> o, phase |-> "children", next |-> 1, begun |-> 0, ok |-> TRUE, by |-> by]
  BY DEF Called
<1>2. s \notin Passing /\ (s = "running" <=> o = "stop")
  BY AdmittedLeads
<1>3. f.op = "none" /\ f.phase = "none"
  <2>1. f.op \in Operations \cup {"none"}
    BY DEF Frames
  <2> QED BY <1>2, <2>1, OperationStates DEF Formed
<1>4. g \in Frames
  BY <1>1 DEF Frames, Phases
<1>5. Leads(o) # "running"
  BY OperationStates DEF Passing
<1>6. Formed(g, Leads(o), count)
  BY <1>1 DEF Formed, Operations
<1>7. ASSUME NEW i \in 1 .. count, NEW runs \in BOOLEAN, Fits(f, s, i, runs)
      PROVE  Fits(g, Leads(o), i, runs)
  BY <1>1, <1>2, <1>3, <1>5, <1>7 DEF Fits
<1> QED BY <1>3, <1>4, <1>6, <1>7

(* All but what a reset needs to be alone.                                 *)
LEMMA Begins ==
    ASSUME TreeInv, NEW c \in InTree, c \in Devices, NEW o \in Operations,
           NEW by \in {"user", "parent"}, Admits(state[c], o),
           by = "parent" => \E p \in Devices : IsNext(p, c) /\ o = Asks(frame[p]),
           state' = [state EXCEPT ![c] = After(@, o)],
           frame' = [frame EXCEPT ![c] = Called(o, by)],
           apart' = IF by = "user" THEN apart \cup {c} ELSE apart \ {c},
           UNCHANGED children, calls' \in 0 .. MaxCalls, failures' \in 0 .. MaxFailures
    PROVE  /\ ~IsBusy(c) /\ frame[c].phase = "none"
           /\ (Types /\ PartOfTree)'
           /\ (\A d \in Devices : Formed(frame[d], state[d], Len(children[d])))'
           /\ (Ordered /\ ByParent /\ ByUser /\ OutOfTree)'
<1>1. /\ frame \in [Devices -> Frames] /\ state \in [Devices -> States]
      /\ children \in [Devices -> Seq(Devices)]
      /\ \A d \in Devices : Formed(frame[d], state[d], Len(children[d])) /\ Len(children[d]) \in Nat
  BY DEF TreeInv, Types
<1>2. After(state[c], o) = Leads(o) /\ Leads(o) \in States /\ Leads(o) # "running"
  BY AdmittedLeads, OperationStates DEF Passing, States
<1>3. /\ Called(o, by) \in Frames /\ frame[c].op = "none"
      /\ Formed(Called(o, by), Leads(o), Len(children[c]))
      /\ \A i \in 1 .. Len(children[c]) : \A runs \in BOOLEAN :
             Fits(frame[c], state[c], i, runs) => Fits(Called(o, by), Leads(o), i, runs)
  BY <1>1, BeginFits
<1>4. ~IsBusy(c) /\ frame[c].phase = "none"
  BY <1>1, <1>3 DEF IsBusy, Formed
<1>5. /\ frame'[c] = Called(o, by) /\ state'[c] = Leads(o)
      /\ \A x \in Devices \ {c} : frame'[x] = frame[x] /\ state'[x] = state[x]
  BY <1>1, <1>2
<1>6. Types' /\ PartOfTree' /\ InTree' = InTree
  BY <1>1, <1>2, <1>3 DEF TreeInv, Types, PartOfTree, InTree
<1>7. (\A d \in Devices : Formed(frame[d], state[d], Len(children[d])))'
  BY <1>1, <1>3, <1>5
<1>8. OutOfTree'
  BY <1>5, <1>6 DEF TreeInv, OutOfTree
<1>9. ByUser'
  BY <1>3, <1>5 DEF TreeInv, ByUser, IsBusy, Called
<1>10. ByParent'
  <2> SUFFICES ASSUME NEW y \in Devices, frame'[y].op # "none", frame'[y].by = "parent"
               PROVE  \E p \in Devices : HasCalled(p, y)'
    BY DEF ByParent, IsBusy
  <2>1. CASE y = c
    <3>1. by = "parent"
      BY <1>5, <2>1 DEF Called
    <3>2. PICK p \in Devices : IsNext(p, c) /\ o = Asks(frame[p])
      BY <3>1
    <3>3. p # c /\ frame'[p] = frame[p]
      BY <1>4, <1>5, <3>2 DEF IsNext
    <3>4. /\ frame[p].phase \in {"children", "undo"} /\ frame[p].next <= Count(p)
          /\ c = children[p][frame[p].next]
      BY <3>2 DEF IsNext
    <3>7. Count(p)' = Count(p) /\ children' = children
      BY <3>3 DEF Count
    <3>5. frame'[c].op = Asks(frame'[p]) /\ frame'[c].by = "parent"
      BY <1>5, <3>1, <3>2, <3>3 DEF Called
    <3>6. HasCalled(p, c)'
      BY <3>3, <3>4, <3>5, <3>7 DEF HasCalled
    <3> QED BY <2>1, <3>6
  <2>2. CASE y # c
    <3>1. PICK p \in Devices : HasCalled(p, y)
      BY <1>5, <2>2 DEF TreeInv, ByParent, IsBusy
    <3>2. p # c
      BY <1>4, <3>1 DEF HasCalled
    <3>3. HasCalled(p, y)'
      BY <1>5, <2>2, <3>1, <3>2 DEF HasCalled, Count
    <3> QED BY <3>3
  <2> QED BY <2>1, <2>2
<1>11. Ordered'
  <2> SUFFICES ASSUME NEW x \in Devices, NEW i \in DOMAIN children[x], children[x][i] \notin apart'
               PROVE  Fits(frame'[x], state'[x], i, state'[children[x][i]] = "running")
    BY DEF Ordered, Runs
  <2> DEFINE y == children[x][i]
  <2>1. y \in Devices /\ y # x /\ y \in Elements(children[x]) /\ i \in 1 .. Len(children[x])
    BY ChildAt DEF TreeInv
  <2>2. ASSUME y # c PROVE Fits(frame[x], state[x], i, Runs(y)) /\ Runs(y) = Runs(y)'
    BY <1>5, <2>1, <2>2 DEF TreeInv, Ordered, Runs
  <2>3. CASE x = c
    <3>1. Fits(frame[c], state[c], i, Runs(y)) /\ Runs(y) \in BOOLEAN /\ Runs(y) = Runs(y)'
      BY <2>1, <2>2, <2>3 DEF Runs
    <3>2. i \in 1 .. Len(children[c])
      BY <2>1, <2>3
    <3>3. Fits(Called(o, by), Leads(o), i, Runs(y))
      BY <1>3, <3>1, <3>2
    <3> QED BY <1>5, <2>3, <3>1, <3>3 DEF Runs
  <2>4. CASE x # c /\ y # c
    BY <1>5, <2>2, <2>4 DEF Runs
  <2>5. CASE x # c /\ y = c
    <3>1. by = "parent"
      BY <2>5
    <3>2. PICK p \in Devices : IsNext(p, c)
      BY <3>1
    <3>3. frame[p].phase \in {"children", "undo"} /\ frame[p].next <= Count(p)
          /\ c = children[p][frame[p].next]
      BY <3>2 DEF IsNext
    <3>4. frame[p].next \in DOMAIN children[p] /\ c \in Elements(children[p])
      BY <3>3, NextIsChild, ChildAt DEF TreeInv
    <3>5. p = x
      BY <2>1, <2>5, <3>4, OneParent DEF TreeInv
    <3>6. i = frame[x].next
      BY <2>5, <3>3, <3>4, <3>5 DEF TreeInv, PartOfTree, Distinct
    <3>7. state[x] # "running" /\ i \in Nat
      BY <2>1, <3>3, <3>5, InOperation
    <3>8. Fits(frame[x], state[x], i, FALSE)
      BY <3>6, <3>7 DEF Fits
    <3>9. (state'[y] = "running") = FALSE
      BY <1>2, <1>5, <2>5
    <3> QED BY <1>5, <2>5, <3>8, <3>9
  <2> QED BY <2>3, <2>4, <2>5
<1> QED BY <1>4, <1>6, <1>7, <1>8, <1>9, <1>10, <1>11

LEMMA CallKeeps ==
    ASSUME TreeInv, NEW d \in Devices, NEW operation \in Operations, Call(d, operation)
    PROVE  TreeInv'
<1>1. /\ d \in InTree /\ Admits(state[d], operation)
      /\ state' = [state EXCEPT ![d] = After(@, operation)]
      /\ frame' = [frame EXCEPT ![d] = Called(operation, "user")]
      /\ apart' = apart \cup {d} /\ UNCHANGED children
  BY DEF Call
<1>2. calls' \in 0 .. MaxCalls /\ failures' \in 0 .. MaxFailures
  BY DeviceTreeAssumption DEF Call, TreeInv, Types
<1>3. /\ ~IsBusy(d) /\ (Types /\ PartOfTree /\ Ordered /\ ByParent /\ ByUser /\ OutOfTree)'
      /\ (\A x \in Devices : Formed(frame[x], state[x], Len(children[x])))'
  BY <1>1, <1>2, Begins
<1>4. ResetAlone'
  <2>1. /\ frame'[d].op = operation /\ frame'[d].by = "user"
        /\ \A x \in Devices \ {d} : frame'[x] = frame[x]
    BY <1>1 DEF TreeInv, Types, Called
  <2>2. \A x \in Devices : frame[x].op # "reset"
    BY DEF Call, Busy
  <2>3. CASE operation = "reset"
    <3>1. \A x \in Devices \ {d} : frame'[x].op = "none"
      BY <2>1, <2>3 DEF Call, Busy
    <3>2. Alone(d)'
      BY <2>1, <2>3, <3>1 DEF Alone, IsBusy
    <3> QED BY <3>2 DEF ResetAlone
  <2>4. CASE operation # "reset"
    BY <2>1, <2>2, <2>4 DEF ResetAlone
  <2> QED BY <2>3, <2>4
<1> QED BY <1>3, <1>4 DEF TreeInv

LEMMA CallChildKeeps ==
    ASSUME TreeInv, NEW d \in Devices, NEW c \in Devices, CallChild(d, c)
    PROVE  TreeInv'
<1> DEFINE o == Asks(frame[d])
<1>1. /\ IsNext(d, c) /\ Admits(state[c], o)
      /\ state' = [state EXCEPT ![c] = After(@, o)]
      /\ frame' = [frame EXCEPT ![c] = Called(o, "parent")]
      /\ apart' = apart \ {c} /\ UNCHANGED <<children, calls, failures>>
  BY DEF CallChild
<1>2. frame[d].next \in DOMAIN children[d] /\ IsBusy(d) /\ c = children[d][frame[d].next]
  BY <1>1, NextIsChild DEF IsNext
<1>3. c \in Elements(children[d]) /\ c \in Elements(Children[d]) /\ c \in InTree
  BY <1>2, ChildAt DEF TreeInv, InTree
<1>4. o \in Operations
  BY <1>1, InOperation DEF IsNext
<1>5. calls' \in 0 .. MaxCalls /\ failures' \in 0 .. MaxFailures
  BY <1>1 DEF TreeInv, Types
<1>6. /\ ~IsBusy(c) /\ (Types /\ PartOfTree /\ Ordered /\ ByParent /\ ByUser /\ OutOfTree)'
      /\ (\A x \in Devices : Formed(frame[x], state[x], Len(children[x])))'
  <2>1. \E p \in Devices : IsNext(p, c) /\ o = Asks(frame[p])
    BY <1>1
  <2>2. apart' = IF "parent" = "user" THEN apart \cup {c} ELSE apart \ {c}
    BY <1>1
  <2> HIDE DEF o
  <2> QED BY <1>1, <1>3, <1>4, <1>5, <2>1, <2>2, Begins
<1>7. ResetAlone'
  <2>1. /\ frame'[c].op = o /\ frame'[c].by = "parent"
        /\ \A x \in Devices \ {c} : frame'[x] = frame[x]
    BY <1>1 DEF TreeInv, Types, Called
  <2> SUFFICES ASSUME NEW x \in Devices, frame'[x].op = "reset"
               PROVE  \E r \in Devices : Alone(r)'
    BY DEF ResetAlone
  <2>2. PICK r \in Devices : Alone(r)
    <3>1. CASE x = c
      <4>1. frame[d].op = "reset"
        BY <2>1, <3>1 DEF Asks
      <4> QED BY <4>1, TheReset
    <3>2. CASE x # c
      BY <2>1, <3>2, TheReset
    <3> QED BY <3>1, <3>2
  <2>3. d \in Below(r) \cup {r}
    BY <1>2, <2>2 DEF Alone
  <2>4. c \in Below(r)
    BY <1>3, <2>3, BelowClosed DEF Closed
  <2>5. r # c
    BY <1>6, <2>2 DEF Alone, IsBusy
  <2>6. Alone(r)'
    BY <2>1, <2>2, <2>4, <2>5 DEF Alone, IsBusy
  <2> QED BY <2>6
<1> QED BY <1>6, <1>7 DEF TreeInv

(* What a device knows of its children fits the state it ends in.          *)
LEMMA EndFits ==
    ASSUME NEW f \in Frames, NEW count \in Nat, f.op \in Operations,
           Formed(f, Leads(f.op), count),
           f.phase = "end" \/ (f.phase = "undo" /\ f.next > f.begun),
           NEW s, s = IF f.ok THEN Gives(f.op) ELSE "error"
    PROVE  /\ Idle \in Frames /\ Formed(Idle, s, count)
           /\ \A i \in 1 .. count : \A runs \in BOOLEAN :
                  Fits(f, Leads(f.op), i, runs) => Fits(Idle, s, i, runs)
<1>0. f.next \in Nat /\ f.begun \in Nat /\ f.ok \in BOOLEAN
  BY DEF Frames
<1>1. Idle = [op |-> "none", phase |-> "none", next |-> 1, begun |-> 0, ok |-> TRUE,
              by |-> "user"]
  <2>1. ASSUME NEW h, h = [Called("none", "user") EXCEPT !.phase = "none"]
        PROVE  h = [op |-> "none", phase |-> "none", next |-> 1, begun |-> 0, ok |-> TRUE,
                    by |-> "user"]
    BY <2>1 DEF Called
  <2> QED BY <2>1, Zenon DEF Idle
<1>2. s \notin Passing /\ Leads(f.op) # "running" /\ (s = "running" <=> f.ok /\ f.op = "start")
  BY OperationStates DEF Passing
<1>3. Idle \in Frames
  BY <1>1 DEF Frames, Phases
<1>4. Formed(Idle, s, count)
  BY <1>1, <1>2 DEF Formed
<1>5. ASSUME NEW i \in 1 .. count, NEW runs \in BOOLEAN, Fits(f, Leads(f.op), i, runs)
      PROVE  Fits(Idle, s, i, runs)
  BY <1>0, <1>1, <1>2, <1>5 DEF Fits, Formed
<1> QED BY <1>3, <1>4, <1>5

(* An operation ends; its parent, when that is who called, has its answer. *)
LEMMA EndKeeps ==
    ASSUME TreeInv, NEW d \in Devices, End(d)
    PROVE  TreeInv'
<1> DEFINE f == frame[d]
           n == Len(children[d])
           s == IF f.ok THEN Gives(f.op) ELSE "error"
<1>1. f.phase = "end" \/ (f.phase = "undo" /\ f.next > f.begun)
  BY DEF End, Ends
<1>2. /\ f \in Frames /\ n \in Nat /\ Formed(f, Leads(f.op), n) /\ f.op \in Operations
      /\ DOMAIN children[d] = 1 .. n /\ IsBusy(d) /\ state[d] = Leads(f.op)
      /\ state[d] # "none"
  BY <1>1, InOperation
<1>3. /\ Idle \in Frames /\ Formed(Idle, s, n)
      /\ \A i \in 1 .. n : \A runs \in BOOLEAN :
             Fits(f, Leads(f.op), i, runs) => Fits(Idle, s, i, runs)
  <2> HIDE DEF f, n
  <2> QED BY <1>1, <1>2, EndFits
<1>4. /\ s \in States /\ UNCHANGED <<children, apart, calls, failures>>
      /\ state' = [state EXCEPT ![d] = s]
  <2>1. After(state[d], IF f.ok THEN "success" ELSE "error") = s
    BY <1>2, EndLeads
  <2> QED BY <1>2, <2>1, OperationStates DEF End
<1>5. /\ state'[d] = s /\ \A x \in Devices \ {d} : state'[x] = state[x]
      /\ frame \in [Devices -> Frames] /\ children \in [Devices -> Seq(Devices)]
  BY <1>4 DEF TreeInv, Types
<1>6. \A x \in Devices : ~HasCalled(d, x)
  <2>1. f.next \in Nat /\ f.begun \in Nat
    BY <1>2 DEF Frames
  <2> QED BY <1>1, <1>2, <2>1 DEF HasCalled, Count
<1>7. PICK p \in Devices : f.by = "parent" => HasCalled(p, d)
  BY <1>2 DEF TreeInv, ByParent
<1> DEFINE answered == f.by = "parent"
           g == Answered(frame[p], f.ok)
<1>8. ASSUME answered
      PROVE  /\ p # d /\ frame[p].next \in DOMAIN children[p] /\ d = children[p][frame[p].next]
             /\ d \in Elements(children[p]) /\ frame[p].phase \in {"children", "undo"}
             /\ f.op = Asks(frame[p])
             /\ state[p] # "running" /\ Formed(frame[p], state[p], Len(children[p]))
             /\ \A x \in Devices : IsChild(d, x) => x = p
             /\ g \in Frames /\ g.op = frame[p].op /\ g.by = frame[p].by
             /\ Formed(g, state[p], Len(children[p]))
             /\ \A i \in 1 .. Len(children[p]) : \A runs \in BOOLEAN :
                    (IF i = frame[p].next
                     THEN runs <=> f.ok /\ frame[p].op = "start" /\ frame[p].phase = "children"
                     ELSE Fits(frame[p], state[p], i, runs)) => Fits(g, state[p], i, runs)
  <2>1. HasCalled(p, d)
    BY <1>7, <1>8
  <2>2. /\ p # d /\ frame[p].next \in DOMAIN children[p] /\ d = children[p][frame[p].next]
        /\ d \in Elements(children[p])
    BY <2>1, CalledIsNext
  <2>3. /\ frame[p].phase \in {"children", "undo"} /\ frame[p].next <= Count(p)
        /\ f.op = Asks(frame[p])
    BY <2>1 DEF HasCalled
  <2>4. /\ state[p] # "running" /\ frame[p] \in Frames /\ Len(children[p]) \in Nat
        /\ Formed(frame[p], state[p], Len(children[p]))
    BY <2>3, InOperation
  <2>5. \A x \in Devices : IsChild(d, x) => x = p
    BY <2>2, OneParent DEF IsChild, TreeInv
  <2>6. frame[p].next <= IF frame[p].phase = "undo" THEN frame[p].begun ELSE Len(children[p])
    BY <2>3 DEF Count
  <2>7. f.ok \in BOOLEAN
    BY <1>2 DEF Frames
  <2> HIDE DEF f
  <2> QED BY <2>2, <2>3, <2>4, <2>5, <2>6, <2>7, AnsweredFits
<1>9. /\ frame'[d] = Idle
      /\ \A x \in Devices \ {d} : frame'[x] = IF answered /\ x = p THEN g ELSE frame[x]
  <2>1. \A x \in Devices : frame'[x] = IF x = d THEN Idle
            ELSE IF answered /\ IsChild(d, x) THEN Answered(frame[x], f.ok) ELSE frame[x]
    BY DEF End, Returned
  <2>2. answered => IsChild(d, p)
    BY <1>8 DEF IsChild
  <2> QED BY <1>8, <2>1, <2>2
<1>10. /\ \A x \in Devices \ {d} : frame'[x].op = frame[x].op /\ frame'[x].by = frame[x].by
       /\ frame'[d].op = "none"
  <2>1. Idle.op = "none"
    BY DEF Idle, Called
  <2> QED BY <1>8, <1>9, <2>1
<1>11. DOMAIN frame' = Devices /\ frame' \in [Devices -> Frames]
  <2>1. \A x \in Devices : frame'[x] \in Frames
    BY <1>3, <1>5, <1>8, <1>9
  <2>2. frame' = [x \in Devices |-> frame'[x]]
    BY DEF End, Returned
  <2> QED BY <2>1, <2>2
<1> HIDE DEF f, n, s, g, answered
<1>12. (Types /\ PartOfTree)' /\ InTree' = InTree
  BY <1>4, <1>11 DEF TreeInv, Types, PartOfTree, InTree
<1>13. (\A x \in Devices : Formed(frame[x], state[x], Len(children[x])))'
  <2> SUFFICES ASSUME NEW x \in Devices
               PROVE  Formed(frame'[x], state'[x], Len(children[x]))
    BY <1>4
  <2>1. Formed(frame[x], state[x], Len(children[x]))
    BY DEF TreeInv
  <2> QED BY <1>3, <1>5, <1>8, <1>9, <2>1 DEF n
<1>14. ByParent'
  <2> SUFFICES ASSUME NEW y \in Devices, frame'[y].op # "none", frame'[y].by = "parent"
               PROVE  \E q \in Devices : HasCalled(q, y)'
    BY DEF ByParent, IsBusy
  <2>1. y # d /\ frame[y].op # "none" /\ frame[y].by = "parent"
    BY <1>10
  <2>2. PICK q \in Devices : HasCalled(q, y)
    BY <2>1 DEF TreeInv, ByParent, IsBusy
  <2>3. q # d
    BY <1>6, <2>2
  <2>4. ~(answered /\ q = p)
    BY <1>8, <2>1, <2>2 DEF HasCalled
  <2>5. frame'[q] = frame[q]
    BY <1>9, <2>3, <2>4
  <2>6. HasCalled(q, y)'
    BY <1>4, <1>10, <2>1, <2>2, <2>5 DEF HasCalled, Count
  <2> QED BY <2>6
<1>15. ByUser'
  BY <1>4, <1>10 DEF TreeInv, ByUser, IsBusy
<1>16. OutOfTree'
  <2>1. d \in InTree
    BY <1>2 DEF TreeInv, OutOfTree
  <2> QED BY <1>5, <1>12, <2>1 DEF TreeInv, OutOfTree
<1>17. ResetAlone'
  <2> SUFFICES ASSUME NEW x \in Devices, frame'[x].op = "reset"
               PROVE  \E r \in Devices : Alone(r)'
    BY DEF ResetAlone
  <2>1. x # d /\ frame[x].op = "reset"
    BY <1>10
  <2>2. PICK r \in Devices : Alone(r) /\ x \in Below(r) \cup {r}
    BY <2>1, TheReset
  <2>3. r # d
    <3>1. r = d => \A y \in Below(d) : ~IsBusy(y)
      BY <1>6, <2>2, NoneBelow
    <3> QED BY <2>1, <2>2, <3>1 DEF IsBusy
  <2>4. Alone(r)'
    BY <1>10, <2>2, <2>3 DEF Alone, IsBusy
  <2> QED BY <2>4
<1>18. Ordered'
  <2> SUFFICES ASSUME NEW x \in Devices, NEW i \in DOMAIN children[x], children[x][i] \notin apart
               PROVE  Fits(frame'[x], state'[x], i, state'[children[x][i]] = "running")
    BY <1>4 DEF Ordered, Runs
  <2> DEFINE y == children[x][i]
  <2>1. y \in Devices /\ y # x /\ y \in Elements(children[x]) /\ i \in 1 .. Len(children[x])
    BY ChildAt DEF TreeInv
  <2>2. Fits(frame[x], state[x], i, Runs(y)) /\ Runs(y) \in BOOLEAN
    BY DEF TreeInv, Ordered, Runs
  <2>3. (state'[y] = "running") = Runs(y) \/ y = d
    BY <1>5, <2>1 DEF Runs
  <2>4. CASE x = d
    <3>1. Fits(Idle, s, i, Runs(y))
      BY <1>2, <1>3, <2>1, <2>2, <2>4 DEF f, n
    <3> QED BY <1>5, <1>9, <2>1, <2>3, <2>4, <3>1
  <2>5. CASE x # d /\ y = d
    <3>1. answered /\ x = p
      <4>1. f.by = "parent"
        BY <1>2, <2>5 DEF TreeInv, ByUser, Frames, f
      <4> QED BY <1>8, <2>1, <2>5, <4>1 DEF IsChild, answered
    <3>2. i = frame[p].next
      BY <1>8, <2>5, <3>1 DEF TreeInv, PartOfTree, Distinct
    <3>3. state'[y] = "running" <=> f.ok /\ f.op = "start"
      BY <1>2, <1>5, <2>5, OperationStates DEF s
    <3>4. f.op = "start" <=> frame[p].op = "start" /\ frame[p].phase = "children"
      BY <1>8, <3>1 DEF Asks
    <3>5. Fits(g, state[p], i, state'[y] = "running")
      BY <1>8, <2>1, <3>1, <3>2, <3>3, <3>4
    <3> QED BY <1>5, <1>9, <2>5, <3>1, <3>5
  <2>6. CASE x # d /\ y # d /\ answered /\ x = p
    <3>1. i # frame[p].next
      BY <1>8, <2>6
    <3>2. Fits(g, state[p], i, Runs(y))
      BY <1>8, <2>1, <2>2, <2>6, <3>1
    <3> QED BY <1>5, <1>9, <2>3, <2>6, <3>2
  <2>7. CASE x # d /\ y # d /\ ~(answered /\ x = p)
    BY <1>5, <1>9, <2>2, <2>3, <2>7
  <2> QED BY <2>4, <2>5, <2>6, <2>7
<1> QED BY <1>12, <1>13, <1>14, <1>15, <1>16, <1>17, <1>18 DEF TreeInv

(* A reset deletes what is below its device, where nothing goes on.        *)
LEMMA RemoveChildrenKeeps ==
    ASSUME TreeInv, NEW d \in Devices, RemoveChildren(d)
    PROVE  TreeInv'
<1> DEFINE f == frame[d]
           n == Len(children[d])
           g == [f EXCEPT !.phase = "own"]
           gone == Below(d) \cup {d}
<1>1. /\ f.op = "reset" /\ f.phase = "children" /\ f.next > n
      /\ children' = [c \in Devices |-> IF c \in gone THEN <<>> ELSE children[c]]
      /\ apart' = apart \ Below(d)
      /\ state' = [c \in Devices |-> IF c \in Below(d) THEN "none" ELSE state[c]]
      /\ frame' = [frame EXCEPT ![d] = g] /\ UNCHANGED <<calls, failures>>
  BY DEF RemoveChildren, ChildrenDone, Count
<1>2. f \in Frames /\ n \in Nat /\ Formed(f, state[d], n) /\ IsBusy(d)
  BY <1>1, InOperation
<1>3. \A x \in Devices : ~HasCalled(d, x)
  BY <1>1, <1>2 DEF HasCalled, Count, Frames
<1>4. PICK r \in Devices : Alone(r) /\ d \in Below(r) \cup {r}
  BY <1>1, TheReset
<1>5. \A x \in Below(d) : ~IsBusy(x)
  BY <1>3, <1>4, NoneBelow
<1>6. d \notin Below(d) /\ Below(d) \subseteq Devices
  BY DeviceTreeAssumption, BelowClosed
<1>7. /\ frame \in [Devices -> Frames] /\ children \in [Devices -> Seq(Devices)]
      /\ state \in [Devices -> States] /\ apart \subseteq InTree
  BY DEF TreeInv, Types
<1>8. g \in Frames /\ g.op = f.op /\ g.by = f.by /\ Formed(g, state[d], 0)
  <2>1. ASSUME NEW h, h = [f EXCEPT !.phase = "own"]
        PROVE  h = [op |-> f.op, phase |-> "own", next |-> f.next, begun |-> f.begun,
                    ok |-> f.ok, by |-> f.by]
    BY <1>2, <2>1 DEF Frames
  <2>2. g = [op |-> f.op, phase |-> "own", next |-> f.next, begun |-> f.begun,
             ok |-> f.ok, by |-> f.by]
    BY <2>1, Zenon
  <2> HIDE DEF g
  <2>3. g \in Frames
    BY <1>2, <2>2 DEF Frames, Phases
  <2>4. Formed(g, state[d], 0)
    BY <1>1, <1>2, <2>2 DEF Formed, Frames
  <2> QED BY <2>2, <2>3, <2>4
<1> HIDE DEF g
<1>9. /\ frame'[d] = g /\ \A x \in Devices \ {d} : frame'[x] = frame[x]
      /\ \A x \in Devices : frame'[x].op = frame[x].op /\ frame'[x].by = frame[x].by
  BY <1>1, <1>7, <1>8
<1>10. /\ \A x \in gone : children'[x] = <<>>
       /\ \A x \in Devices \ gone : children'[x] = children[x]
       /\ \A x \in Below(d) : state'[x] = "none"
       /\ \A x \in Devices \ Below(d) : state'[x] = state[x]
  BY <1>1, <1>6
<1>11. \A x \in gone : Elements(Children[x]) \subseteq Below(d)
  BY BelowClosed DEF Closed
<1>12. \A x \in Devices \ Below(d) : x \in InTree => x \in InTree'
  <2> SUFFICES ASSUME NEW x \in Devices \ Below(d), x \in InTree, x # Root PROVE x \in InTree'
    BY DEF InTree
  <2>1. PICK e \in Devices : x \in Elements(children[e])
    BY DEF InTree
  <2>2. e \notin gone
    BY <1>11, <2>1 DEF TreeInv, PartOfTree
  <2>3. x \in Elements(children'[e])
    BY <1>10, <2>1, <2>2
  <2> QED BY <2>3 DEF InTree
<1>13. Types'
  <2>1. apart' \subseteq InTree'
    <3> SUFFICES ASSUME NEW x \in apart, x \notin Below(d) PROVE x \in InTree'
      BY <1>1
    <3>1. x \in Devices /\ x \in InTree
      BY <1>7, DeviceTreeAssumption DEF InTree, Elements
    <3> QED BY <1>12, <3>1
  <2>2. children' \in [Devices -> Seq(Devices)] /\ state' \in [Devices -> States]
    BY <1>1, <1>7 DEF States
  <2>3. frame' \in [Devices -> Frames]
    BY <1>1, <1>7, <1>8
  <2> QED BY <1>1, <2>1, <2>2, <2>3 DEF TreeInv, Types
<1>14. PartOfTree'
  <2> SUFFICES ASSUME NEW x \in Devices
               PROVE  Distinct(children'[x]) /\ Elements(children'[x]) \subseteq Elements(Children[x])
    BY DEF PartOfTree
  <2>1. CASE x \in gone
    BY <1>10, <2>1 DEF Distinct, Elements
  <2>2. CASE x \notin gone
    BY <1>10, <2>2 DEF TreeInv, PartOfTree
  <2> QED BY <2>1, <2>2
<1>15. (\A x \in Devices : Formed(frame[x], state[x], Len(children[x])))'
  <2> SUFFICES ASSUME NEW x \in Devices
               PROVE  Formed(frame'[x], state'[x], Len(children'[x]))
    OBVIOUS
  <2>1. Formed(frame[x], state[x], Len(children[x])) /\ Len(<<>>) = 0 /\ frame[x] \in Frames
    BY <1>7 DEF TreeInv
  <2>2. CASE x = d
    BY <1>6, <1>8, <1>9, <1>10, <2>1, <2>2
  <2>3. CASE x \in Below(d)
    <3>1. frame'[x] = frame[x] /\ frame[x].op = "none" /\ state'[x] = "none"
          /\ children'[x] = <<>>
      BY <1>5, <1>6, <1>9, <1>10, <2>3 DEF IsBusy
    <3>2. Formed(frame[x], "none", 0)
      BY <2>1, <3>1 DEF Formed, Passing, Frames
    <3> QED BY <2>1, <3>1, <3>2
  <2>4. CASE x \notin gone
    BY <1>9, <1>10, <2>1, <2>4
  <2> QED BY <2>2, <2>3, <2>4
<1>16. Ordered'
  <2> SUFFICES ASSUME NEW x \in Devices, NEW i \in DOMAIN children'[x],
                      children'[x][i] \notin apart'
               PROVE  Fits(frame'[x], state'[x], i, state'[children'[x][i]] = "running")
    BY DEF Ordered, Runs
  <2>1. x \notin gone
    BY <1>10 
  <2>2. children'[x] = children[x] /\ frame'[x] = frame[x] /\ state'[x] = state[x]
    BY <1>9, <1>10, <2>1
  <2> DEFINE y == children[x][i]
  <2>3. y \in Devices /\ y \in Elements(Children[x])
    BY <2>2, ChildAt DEF TreeInv
  <2>4. y \notin Below(d)
    BY <2>1, <2>3, ParentIsIn
  <2>5. state'[y] = state[y] /\ y \notin apart
    BY <1>1, <1>10, <2>2, <2>3, <2>4
  <2> QED BY <2>2, <2>5 DEF TreeInv, Ordered, Runs
<1>17. ByParent'
  <2> SUFFICES ASSUME NEW y \in Devices, IsBusy(y), frame[y].by = "parent"
               PROVE  \E p \in Devices : HasCalled(p, y)'
    BY <1>9 DEF ByParent, IsBusy
  <2>1. PICK p \in Devices : HasCalled(p, y)
    BY DEF TreeInv, ByParent
  <2>2. p \notin gone
    BY <1>3, <1>5, <2>1, CalledIsNext
  <2>3. HasCalled(p, y)'
    BY <1>9, <1>10, <2>1, <2>2 DEF HasCalled, Count
  <2> QED BY <2>3
<1>18. ByUser'
  <2> SUFFICES ASSUME NEW x \in Devices, IsBusy(x), frame[x].by = "user" PROVE x \in apart'
    BY <1>9 DEF ByUser, IsBusy
  <2> QED BY <1>1, <1>5 DEF TreeInv, ByUser
<1>19. ResetAlone'
  BY <1>9 DEF TreeInv, ResetAlone, Alone, IsBusy
<1>20. OutOfTree'
  BY <1>10, <1>12 DEF TreeInv, OutOfTree
<1> QED BY <1>13, <1>14, <1>15, <1>16, <1>17, <1>18, <1>19, <1>20 DEF TreeInv

LEMMA AddDeviceKeeps ==
    ASSUME TreeInv, NEW d \in Devices, NEW c \in Devices, AddDevice(c, d)
    PROVE  TreeInv'
<1> DEFINE added == Append(children[d], c)
           n == Len(children[d])
<1>1. /\ c \in Elements(Children[d]) /\ c \notin InTree /\ d \in InTree /\ state[d] \notin Passing
      /\ children' = [children EXCEPT ![d] = added]
      /\ UNCHANGED <<state, frame, calls, failures>>
      /\ apart \subseteq apart' /\ apart' \subseteq apart \cup {c}
      /\ c \notin apart' => state[d] = "none"
  BY DEF AddDevice
<1>2. /\ frame \in [Devices -> Frames] /\ children \in [Devices -> Seq(Devices)]
      /\ children[d] \in Seq(Devices) /\ n \in Nat
  BY DEF TreeInv, Types
<1>3. /\ added \in Seq(Devices) /\ Len(added) = n + 1 /\ added[n + 1] = c
      /\ DOMAIN added = 1 .. n + 1 /\ DOMAIN children[d] = 1 .. n
      /\ \A i \in 1 .. n : added[i] = children[d][i]
  BY <1>2
<1> HIDE DEF added
<1>4. children'[d] = added /\ \A x \in Devices \ {d} : children'[x] = children[x]
  BY <1>1, <1>2
<1>5. Elements(added) = Elements(children[d]) \cup {c}
  <2>1. \A x : x \in Elements(added) <=> \E i \in 1 .. n + 1 : added[i] = x
    BY <1>3 DEF Elements
  <2>2. \A x : x \in Elements(children[d]) <=> \E i \in 1 .. n : children[d][i] = x
    BY <1>3 DEF Elements
  <2>3. 1 .. n + 1 = (1 .. n) \cup {n + 1}
    BY <1>2
  <2> HIDE DEF n
  <2> QED BY <1>3, <2>1, <2>2, <2>3
<1>6. InTree' = InTree \cup {c}
  <2>1. InTree' = {Root} \cup UNION {Elements(children'[x]) : x \in Devices}
    BY DEF InTree
  <2>2. \A x \in Devices : Elements(children'[x]) \subseteq Elements(children[x]) \cup {c}
                           /\ Elements(children[x]) \subseteq Elements(children'[x])
    BY <1>4, <1>5
  <2>3. c \in Elements(children'[d])
    BY <1>4, <1>5
  <2>4. InTree = {Root} \cup UNION {Elements(children[x]) : x \in Devices}
    BY DEF InTree
  <2>5. ASSUME NEW y \in InTree' PROVE y \in InTree \cup {c}
    <3>1. CASE y = Root
      BY <2>4, <3>1
    <3>2. CASE \E x \in Devices : y \in Elements(children'[x])
      BY <2>2, <2>4, <3>2
    <3> QED BY <2>1, <2>5, <3>1, <3>2
  <2>6. ASSUME NEW y \in InTree PROVE y \in InTree'
    <3>1. CASE y = Root
      BY <2>1, <3>1
    <3>2. CASE \E x \in Devices : y \in Elements(children[x])
      BY <2>1, <2>2, <3>2
    <3> QED BY <2>4, <2>6, <3>1, <3>2
  <2>7. c \in InTree'
    BY <2>1, <2>3
  <2> QED BY <2>5, <2>6, <2>7
<1>7. state[c] = "none"
  BY <1>1 DEF TreeInv, OutOfTree
<1>8. frame[d].op = "none" /\ frame[d].phase = "none"
  <2>1. frame[d].phase # "none" => state[d] \in Passing
    BY InOperation
  <2>2. Formed(frame[d], state[d], n)
    BY DEF TreeInv
  <2> QED BY <1>1, <2>1, <2>2 DEF Formed
<1>9. Types' /\ OutOfTree'
  BY <1>1, <1>2, <1>3, <1>6 DEF TreeInv, Types, OutOfTree
<1>10. PartOfTree'
  <2> SUFFICES ASSUME NEW x \in Devices
               PROVE  Distinct(children'[x]) /\ Elements(children'[x]) \subseteq Elements(Children[x])
    BY DEF PartOfTree
  <2>1. Distinct(children[x]) /\ Elements(children[x]) \subseteq Elements(Children[x])
    BY DEF TreeInv, PartOfTree
  <2>2. CASE x = d
    <3>1. \A i \in 1 .. n : children[d][i] # c
      BY <1>1, <1>3 DEF InTree, Elements
    <3>2. Distinct(added)
      <4> SUFFICES ASSUME NEW i \in 1 .. n + 1, NEW j \in 1 .. n + 1, added[i] = added[j]
                   PROVE  i = j
        BY <1>3 DEF Distinct
      <4>1. ASSUME NEW k \in 1 .. n + 1, k # n + 1
            PROVE  k \in 1 .. n /\ added[k] = children[d][k] /\ added[k] # c
        BY <1>2, <1>3, <3>1, <4>1
      <4>2. \A k, l \in 1 .. n : children[d][k] = children[d][l] => k = l
        BY <1>3, <2>1, <2>2 DEF Distinct
      <4> HIDE DEF n
      <4> QED BY <1>3, <4>1, <4>2
    <3> QED BY <1>1, <1>4, <1>5, <2>1, <2>2, <3>2
  <2>3. CASE x # d
    BY <1>4, <2>1, <2>3
  <2> QED BY <2>2, <2>3
<1>11. (\A x \in Devices : Formed(frame[x], state[x], Len(children[x])))'
  <2> SUFFICES ASSUME NEW x \in Devices
               PROVE  Formed(frame[x], state[x], Len(children'[x]))
    BY <1>1
  <2>1. Formed(frame[x], state[x], Len(children[x])) /\ frame[x] \in Frames
    BY <1>2 DEF TreeInv
  <2>2. CASE x = d
    <3>1. Formed(frame[d], state[d], n + 1)
      BY <1>2, <1>8, <2>1, <2>2 DEF Formed, Frames
    <3> QED BY <1>3, <1>4, <2>2, <3>1
  <2>3. CASE x # d
    BY <1>4, <2>1, <2>3
  <2> QED BY <2>2, <2>3
<1>12. Ordered'
  <2> SUFFICES ASSUME NEW x \in Devices, NEW i \in DOMAIN children'[x],
                      children'[x][i] \notin apart'
               PROVE  Fits(frame[x], state[x], i, Runs(children'[x][i]))
    BY <1>1 DEF Ordered, Runs
  <2>1. CASE x = d /\ i = n + 1
    <3>1. children'[x][i] = c
      BY <1>3, <1>4, <2>1
    <3>2. Fits(frame[d], state[d], i, FALSE)
      BY <1>1, <1>8, <2>1, <3>1 DEF Fits
    <3>3. Runs(children'[x][i]) = FALSE
      BY <1>7, <3>1 DEF Runs
    <3> QED BY <2>1, <3>2, <3>3
  <2>2. CASE x = d /\ i # n + 1
    <3>1. i \in DOMAIN children[d] /\ children'[d][i] = children[d][i]
      <4>1. i \in 1 .. n + 1 /\ children'[d] = added
        BY <1>3, <1>4, <2>2
      <4>2. i \in 1 .. n
        <5> HIDE DEF n
        <5> QED BY <1>2, <2>2, <4>1
      <4> QED BY <1>3, <4>1, <4>2
    <3> QED BY <1>1, <2>2, <3>1 DEF TreeInv, Ordered
  <2>3. CASE x # d
    BY <1>1, <1>4, <2>3 DEF TreeInv, Ordered
  <2> QED BY <2>1, <2>2, <2>3
<1>13. ByParent'
  <2> SUFFICES ASSUME NEW y \in Devices, IsBusy(y), frame[y].by = "parent"
               PROVE  \E p \in Devices : HasCalled(p, y)'
    BY <1>1 DEF ByParent, IsBusy
  <2>1. PICK p \in Devices : HasCalled(p, y)
    BY DEF TreeInv, ByParent
  <2>2. p # d
    BY <1>8, <2>1 DEF HasCalled
  <2>3. HasCalled(p, y)'
    BY <1>1, <1>4, <2>1, <2>2 DEF HasCalled, Count
  <2> QED BY <2>3
<1>14. ByUser' /\ ResetAlone'
  BY <1>1 DEF TreeInv, ByUser, ResetAlone, Alone, IsBusy
<1> QED BY <1>9, <1>10, <1>11, <1>12, <1>13, <1>14 DEF TreeInv

-----------------------------------------------------------------------------
(* The theorems.                                                           *)

LEMMA Initially == Init => TreeInv
<1> SUFFICES ASSUME Init PROVE TreeInv
  OBVIOUS
<1>1. /\ Idle = [op |-> "none", phase |-> "none", next |-> 1, begun |-> 0, ok |-> TRUE,
                 by |-> "user"]
  <2>1. ASSUME NEW h, h = [Called("none", "user") EXCEPT !.phase = "none"]
        PROVE  h = [op |-> "none", phase |-> "none", next |-> 1, begun |-> 0, ok |-> TRUE,
                    by |-> "user"]
    BY <2>1 DEF Called
  <2> QED BY <2>1, Zenon DEF Idle
<1>2. Idle \in Frames
  BY <1>1 DEF Frames, Phases
<1>3. \A d \in Devices : state[d] = "none" /\ frame[d] = Idle /\ children[d] = Children[d]
  BY DEF Init
<1>4. Types
  BY <1>2, DeviceTreeAssumption DEF Init, Types, States
<1>5. PartOfTree
  BY <1>3, DeviceTreeAssumption DEF PartOfTree
<1>6. \A d \in Devices : Formed(frame[d], state[d], Len(children[d]))
  <2>1. \A d \in Devices : Len(children[d]) \in Nat
    BY <1>4 DEF Types
  <2>2. ASSUME NEW count \in Nat PROVE Formed(Idle, "none", count)
    BY <1>1 DEF Formed, Passing
  <2> QED BY <1>3, <2>1, <2>2
<1>7. Ordered
  <2> SUFFICES ASSUME NEW d \in Devices, NEW i \in DOMAIN children[d]
               PROVE  Fits(frame[d], state[d], i, Runs(children[d][i]))
    BY DEF Ordered
  <2>1. children[d][i] \in Devices
    BY <1>4, <1>5, ChildAt
  <2>2. Runs(children[d][i]) = FALSE
    BY <1>3, <2>1 DEF Runs
  <2>3. Fits(Idle, "none", i, FALSE)
    BY <1>1 DEF Fits
  <2> QED BY <1>3, <2>2, <2>3
<1>8. \A d \in Devices : frame[d].op = "none"
  <2>1. Idle.op = "none"
    BY <1>1
  <2> QED BY <1>3, <2>1
<1>9. ByParent /\ ByUser /\ ResetAlone /\ OutOfTree
  BY <1>3, <1>8 DEF ByParent, ByUser, ResetAlone, OutOfTree, IsBusy
<1> QED BY <1>4, <1>5, <1>6, <1>7, <1>9 DEF TreeInv

LEMMA NextKeeps == TreeInv /\ [Next]_vars => TreeInv'
<1> SUFFICES ASSUME TreeInv, [Next]_vars PROVE TreeInv'
  OBVIOUS
<1>1. CASE UNCHANGED vars
  BY <1>1 DEF TreeInv, Types, InTree, PartOfTree, Ordered, Runs, ByParent, HasCalled, Count,
              ByUser, ResetAlone, Alone, IsBusy, OutOfTree, vars
<1>2. ASSUME NEW d \in Devices, Step(d) PROVE TreeInv'
  <2>1. ASSUME NEW c \in Devices, CallChild(d, c) PROVE TreeInv'
    BY <2>1, CallChildKeeps
  <2>2. ASSUME NEW c \in Devices, ChildRefuses(d, c) PROVE TreeInv'
    BY <2>2, ChildRefusesKeeps
  <2>3. ASSUME NEW good \in BOOLEAN, ResolveLinks(d, good) PROVE TreeInv'
    BY <2>3, ResolveLinksKeeps
  <2>4. ASSUME NEW good \in BOOLEAN, Own(d, good) PROVE TreeInv'
    BY <2>4, OwnKeeps
  <2>5. CASE EndChildren(d)
    BY <2>5, EndChildrenKeeps
  <2>6. CASE RemoveChildren(d)
    BY <2>6, RemoveChildrenKeeps
  <2>7. CASE End(d)
    BY <2>7, EndKeeps
  <2> QED BY <1>2, <2>1, <2>2, <2>3, <2>4, <2>5, <2>6, <2>7 DEF Step
<1>3. ASSUME NEW d \in Devices, NEW o \in Operations, Call(d, o) PROVE TreeInv'
  BY <1>3, CallKeeps
<1>4. ASSUME NEW c \in Devices, NEW d \in Devices, AddDevice(c, d) PROVE TreeInv'
  BY <1>4, AddDeviceKeeps
<1> QED BY <1>1, <1>2, <1>3, <1>4 DEF Next

(* The invariant holds for any tree of devices, and any threads that       *)
(* operate on it.                                                          *)
THEOREM Invariance == Spec => []TreeInv
BY Initially, NextKeeps, PTL DEF Spec

(* A device is in an operation while its controller is in a passing state, *)
(* and the loops over the children stay within them (Device.cpp:14-26).    *)
THEOREM TypeCorrect == Spec => []TypeOK
<1>1. TreeInv => TypeOK
  <2> SUFFICES ASSUME TreeInv PROVE TypeOK
    OBVIOUS
  <2>1. /\ state \in [Devices -> States] /\ children \in [Devices -> Seq(Devices)]
        /\ apart \subseteq InTree /\ calls \in 0 .. MaxCalls /\ failures \in 0 .. MaxFailures
    BY DEF TreeInv, Types
  <2>2. ASSUME NEW d \in Devices
        PROVE  LET f == frame[d]
               IN  /\ f.op \in Operations \cup {"none"}
                   /\ f.phase \in {"none", "children", "own", "undo", "end"}
                   /\ f.next \in Nat /\ f.begun \in 0 .. Len(children[d])
                   /\ f.phase \in {"children", "undo"} => f.next \in 1 .. Len(children[d]) + 1
                   /\ f.ok \in BOOLEAN /\ f.by \in {"user", "parent"}
                   /\ IF f.op = "none" THEN state[d] \notin Passing
                      ELSE \E t \in Transitions : t[2] = f.op /\ t[3] = state[d]
    <3> DEFINE f == frame[d]
    <3>1. /\ f \in Frames /\ Len(children[d]) \in Nat
          /\ Formed(f, state[d], Len(children[d]))
      BY <2>1 DEF TreeInv, Types
    <3>2. /\ f.op \in Operations \cup {"none"} /\ f.phase \in Phases
          /\ f.next \in Nat /\ f.begun \in Nat
          /\ f.ok \in BOOLEAN /\ f.by \in {"user", "parent"}
      BY <3>1 DEF Frames
    <3>3. /\ f.begun \in 0 .. Len(children[d])
          /\ f.phase \in {"children", "undo"} => f.next \in 1 .. Len(children[d]) + 1
      BY <3>1, <3>2 DEF Formed
    <3>4. IF f.op = "none" THEN state[d] \notin Passing
          ELSE \E t \in Transitions : t[2] = f.op /\ t[3] = state[d]
      BY <3>1, <3>2, OperationStates DEF Formed
    <3> QED BY <3>2, <3>3, <3>4 DEF Phases
  <2> QED BY <2>1, <2>2 DEF TypeOK, States
<1> QED BY <1>1, Invariance, PTL

(* A device that runs has its children running, and one that was stopped,  *)
(* or failed to start or to stop, has none running: start undoes what it   *)
(* started and stop goes through all the children (Device.cpp:91-136).     *)
THEOREM AllOrNone == Spec => []WholeOrNone
<1>1. TreeInv => WholeOrNone
  <2> SUFFICES ASSUME TreeInv, NEW d \in Devices, NEW i \in DOMAIN children[d],
                      children[d][i] \notin apart
               PROVE  LET c == children[d][i]
                      IN  /\ state[d] = "running" \/ Does(d, "start", "own")
                                 => state[c] = "running"
                          /\ state[d] \notin Passing \cup {"running"} \/ Does(d, "stop", "own")
                                 => state[c] # "running"
    BY DEF WholeOrNone, Elements
  <2> DEFINE f == frame[d]
             c == children[d][i]
  <2>1. Fits(f, state[d], i, Runs(c)) /\ (Runs(c) <=> state[c] = "running")
    BY DEF TreeInv, Ordered, Runs
  <2>2. /\ f \in Frames /\ Formed(f, state[d], Len(children[d])) /\ i \in 1 .. Len(children[d])
        /\ Len(children[d]) \in Nat
    BY ChildAt DEF TreeInv, Types
  <2>3. f.op # "none" => state[d] \in Passing
    BY <2>2, OperationStates DEF Formed, Frames
  <2>4. state[d] = "running" => state[c] = "running"
    BY <2>1 DEF Fits
  <2>5. Does(d, "start", "own") => state[c] = "running"
    BY <2>1, <2>2 DEF Fits, Formed, Frames, Does
  <2>6. state[d] \notin Passing \cup {"running"} => state[c] # "running"
    BY <2>1, <2>2, <2>3 DEF Fits, Formed
  <2>7. Does(d, "stop", "own") => state[c] # "running"
    <3>1. Does(d, "stop", "own") => state[d] # "running"
      BY <2>3 DEF Does, Passing
    <3> QED BY <2>1, <2>2, <3>1 DEF Fits, Formed, Frames, Does
  <2> QED BY <2>4, <2>5, <2>6, <2>7
<1> QED BY <1>1, Invariance, PTL
=============================================================================
