-------------------------- MODULE TcpServer_proofs --------------------------
(***************************************************************************)
(* Proofs about TcpServer, for any number of peers, clients, messages and  *)
(* starts, and first about BlockingService, which its poll is, for any     *)
(* threads that start and stop it.                                         *)
(***************************************************************************)
EXTENDS BlockingService, TcpServer, FiniteSetTheorems, WellFoundedInduction, TLAPS

-----------------------------------------------------------------------------
(* The blocking service.                                                   *)

(* A run that was caught is one of the runs so far, and a stop that found  *)
(* the mutex free leaves its run over.                                     *)
CaughtInv == /\ \A t \in Threads : caught[t] <= run
             /\ StopJoins

ServiceInv == ServiceTypeOK /\ CaughtInv

(* A new service is well typed, and no stop has caught anything.           *)
LEMMA ServiceInitInv == ServiceInit => ServiceInv
  <1> SUFFICES ASSUME ServiceInit PROVE ServiceInv
    OBVIOUS
  <1>1. ServiceTypeOK
    <2>1. \A t \in Threads : at[t] \notin InRun /\ runner # t
      BY BlockingServiceAssumption DEF ServiceInit, InRun
    <2>2. /\ at \in [Threads -> {"idle", "lock", "endStart", "disarm", "unready", "wait",
                                 "endStop"} \cup InRun]
          /\ failed \in [Threads -> BOOLEAN] /\ caught \in [Threads -> Nat]
      BY DEF ServiceInit
    <2>3. accepted \in 0 .. MaxAccepted /\ run \in Nat
      BY BlockingServiceAssumption, SMT DEF ServiceInit
    <2>4. /\ runner \in Threads \cup {NoThread}
          /\ ready \in BOOLEAN /\ looping \in BOOLEAN /\ providing \in BOOLEAN
          /\ state \in {"Running", "Stopped", "Error"}
      BY Zenon DEF ServiceInit
    <2> QED BY <2>1, <2>2, <2>3, <2>4 DEF ServiceTypeOK
  <1>2. CaughtInv
    BY DEF ServiceInit, CaughtInv, StopJoins
  <1> QED BY <1>1, <1>2 DEF ServiceInv

(* The steps of a start keep the types and the owner of the mutex.         *)
LEMMA RunType ==
    ASSUME ServiceTypeOK, NEW t \in Threads, AcceptStart(t) \/ Run(t) PROVE ServiceTypeOK'
  <1> USE BlockingServiceAssumption DEF ServiceTypeOK, InRun, Goes
  <1>1. CASE AcceptStart(t)
    BY <1>1 DEF AcceptStart
  <1>2. CASE LockRunning(t)
    BY <1>2 DEF LockRunning
  <1>3. CASE ClearReady(t)
    BY <1>3 DEF ClearReady
  <1>4. CASE SetReady(t)
    BY <1>4 DEF SetReady
  <1>5. CASE FailAtOnce(t)
    BY <1>5 DEF FailAtOnce
  <1>6. CASE Arm(t)
    BY <1>6 DEF Arm
  <1>7. CASE Leave(t)
    BY <1>7 DEF Leave
  <1>8. CASE Fail(t)
    BY <1>8 DEF Fail
  <1>9. CASE Unlock(t)
    BY <1>9 DEF Unlock
  <1>10. CASE EndStart(t)
    BY <1>10 DEF EndStart
  <1> QED BY <1>1, <1>2, <1>3, <1>4, <1>5, <1>6, <1>7, <1>8, <1>9, <1>10 DEF Run

(* So do the steps of a stop.                                              *)
LEMMA StopType ==
    ASSUME ServiceTypeOK, NEW t \in Threads, AcceptStop(t) \/ Stop(t) PROVE ServiceTypeOK'
  <1> USE BlockingServiceAssumption DEF ServiceTypeOK, InRun, Goes
  <1>1. CASE AcceptStop(t)
    BY <1>1 DEF AcceptStop
  <1>2. CASE Disarm(t)
    BY <1>2 DEF Disarm
  <1>3. CASE Unready(t)
    BY <1>3 DEF Unready
  <1>4. CASE WaitForRun(t)
    BY <1>4 DEF WaitForRun
  <1>5. CASE EndStop(t)
    BY <1>5 DEF EndStop
  <1> QED BY <1>1, <1>2, <1>3, <1>4, <1>5 DEF Stop

(* And the provider's.                                                     *)
LEMMA NextType == ServiceTypeOK /\ [ServiceNext]_serviceVars => ServiceTypeOK'
  <1> SUFFICES ASSUME ServiceTypeOK, [ServiceNext]_serviceVars PROVE ServiceTypeOK'
    OBVIOUS
  <1>1. CASE ProviderChanges
    BY <1>1 DEF ProviderChanges, ServiceTypeOK, InRun
  <1>2. CASE UNCHANGED serviceVars
    BY <1>2 DEF serviceVars, ServiceTypeOK, InRun
  <1> QED BY <1>1, <1>2, RunType, StopType DEF ServiceNext

(* A step that leaves the runs, the stops' runs and the stops that are     *)
(* about to return as they are, and takes the mutex for no run, keeps what *)
(* the stops have caught.                                                  *)
LEMMA CaughtKept ==
    ASSUME ServiceTypeOK, CaughtInv, UNCHANGED <<run, caught>>, runner' \in {runner, NoThread},
           \A t \in Threads : at'[t] = "endStop" => at[t] = "endStop"
    PROVE  CaughtInv'
  BY DEF ServiceTypeOK, CaughtInv, StopJoins, Over

(* A new run is none of those that were caught.                            *)
LEMMA LockKeepsCaught ==
    ASSUME ServiceTypeOK, CaughtInv, NEW t \in Threads, LockRunning(t) PROVE CaughtInv'
  <1>1. /\ run' = run + 1 /\ caught' = caught
        /\ \A u \in Threads : at'[u] = "endStop" => at[u] = "endStop"
    BY DEF LockRunning, Goes, ServiceTypeOK
  <1>2. \A u \in Threads : caught[u] \in Nat /\ caught[u] <= run /\ run \in Nat
    BY DEF ServiceTypeOK, CaughtInv
  <1>3. \A u \in Threads : caught'[u] <= run' /\ caught'[u] # run'
    BY <1>1, <1>2
  <1> QED BY <1>1, <1>3 DEF CaughtInv, StopJoins, Over

(* The other steps of a start.                                             *)
LEMMA RunKeepsCaught ==
    ASSUME ServiceTypeOK, CaughtInv, NEW t \in Threads, AcceptStart(t) \/ Run(t) PROVE CaughtInv'
  <1>1. CASE LockRunning(t)
    BY <1>1, LockKeepsCaught
  <1>2. CASE ~LockRunning(t)
    <2>1. UNCHANGED <<run, caught>> /\ runner' \in {runner, NoThread}
      BY <1>2 DEF AcceptStart, Run, ClearReady, SetReady, FailAtOnce, Arm, Leave, Fail, Unlock,
                  EndStart
    <2>2. \A u \in Threads : at'[u] = "endStop" => at[u] = "endStop"
      BY <1>2 DEF AcceptStart, Run, ClearReady, SetReady, FailAtOnce, Arm, Leave, Fail, Unlock,
                  EndStart, Goes, ServiceTypeOK
    <2> QED BY <2>1, <2>2, CaughtKept
  <1> QED BY <1>1, <1>2

(* The steps of a stop: it leaves the wait when no thread has the mutex.   *)
LEMMA StopKeepsCaught ==
    ASSUME ServiceTypeOK, CaughtInv, NEW t \in Threads, AcceptStop(t) \/ Stop(t) PROVE CaughtInv'
  <1>1. CASE AcceptStop(t) \/ Disarm(t)
    <2>1. /\ UNCHANGED <<run, runner>>
          /\ \A u \in Threads : caught'[u] \in {caught[u], 0, run}
          /\ \A u \in Threads : u # t => caught'[u] = caught[u]
      BY <1>1 DEF AcceptStop, Disarm, ServiceTypeOK
    <2>2. \A u \in Threads : at'[u] = "endStop" => at[u] = "endStop" /\ u # t
      BY <1>1 DEF AcceptStop, Disarm, Goes, ServiceTypeOK
    <2>3. \A u \in Threads : caught'[u] <= run'
      BY <2>1 DEF CaughtInv, ServiceTypeOK
    <2> QED BY <2>1, <2>2, <2>3 DEF CaughtInv, StopJoins, Over
  <1>2. CASE Unready(t)
    <2>1. UNCHANGED <<run, runner, caught>>
      BY <1>2 DEF Unready
    <2>2. \A u \in Threads : at'[u] = "endStop" /\ WaitStop => at[u] = "endStop"
      BY <1>2 DEF Unready, Goes, ServiceTypeOK
    <2> QED BY <2>1, <2>2 DEF CaughtInv, StopJoins, Over
  <1>3. CASE WaitForRun(t)
    BY <1>3 DEF WaitForRun, CaughtInv, StopJoins, Over
  <1>4. CASE EndStop(t)
    <2>1. UNCHANGED <<run, runner, caught>>
      BY <1>4 DEF EndStop
    <2>2. \A u \in Threads : at'[u] = "endStop" => at[u] = "endStop"
      BY <1>4 DEF EndStop, Goes, ServiceTypeOK
    <2> QED BY <2>1, <2>2, CaughtKept
  <1> QED BY <1>1, <1>2, <1>3, <1>4 DEF Stop

(* Every step keeps the invariant.                                         *)
LEMMA ServiceNextInv == ServiceInv /\ [ServiceNext]_serviceVars => ServiceInv'
  <1> SUFFICES ASSUME ServiceInv, [ServiceNext]_serviceVars PROVE ServiceInv'
    OBVIOUS
  <1>1. ServiceTypeOK /\ CaughtInv
    BY DEF ServiceInv
  <1>2. ServiceTypeOK'
    BY <1>1, NextType
  <1> SUFFICES CaughtInv'
    BY <1>2 DEF ServiceInv
  <1>3. CASE ProviderChanges \/ UNCHANGED serviceVars
    <2>1. UNCHANGED <<run, caught, runner, at>>
      BY <1>3 DEF ProviderChanges, serviceVars
    <2> QED BY <1>1, <2>1, CaughtKept
  <1>4. ASSUME NEW t \in Threads, AcceptStart(t) \/ Run(t) PROVE CaughtInv'
    BY <1>1, <1>4, RunKeepsCaught
  <1>5. ASSUME NEW t \in Threads, AcceptStop(t) \/ Stop(t) PROVE CaughtInv'
    BY <1>1, <1>5, StopKeepsCaught
  <1> QED BY <1>3, <1>4, <1>5 DEF ServiceNext

(* The invariant holds in every behaviour of the service.                  *)
THEOREM ServiceInvariant == ServiceSafety => []ServiceInv
  BY ServiceInitInv, ServiceNextInv, PTL DEF ServiceSafety

(* _running_mutex belongs to the thread that is in on_start, and to it     *)
(* alone: at most one run at a time, whoever starts and stops.             *)
THEOREM ServiceTypeCorrect == ServiceSafety => []ServiceTypeOK
  <1>1. ServiceInv => ServiceTypeOK
    BY DEF ServiceInv
  <1> QED BY <1>1, ServiceInvariant, PTL

(* When a stop that waits returns, the run it caught is over, for any      *)
(* number of threads that start and stop the service at once.              *)
THEOREM StopJoined == ServiceSafety => []StopJoins
  <1>1. ServiceInv => StopJoins
    BY DEF ServiceInv, CaughtInv
  <1> QED BY <1>1, ServiceInvariant, PTL

-----------------------------------------------------------------------------
(* The server: an invariant of its clients, descriptors and slots.         *)

(* The lists and the record that the types leave open.                     *)
Shapes ==
    /\ conn \in [Peers -> {"away", "queued", "open", "closed"}] /\ fd \in [Peers -> Fds \cup {0}]
    /\ left \subseteq Peers /\ map \subseteq Peers /\ gone \subseteq Peers
    /\ held \subseteq Peers /\ todo \subseteq Peers /\ old \subseteq Peers
    /\ reads \subseteq Peers /\ news \subseteq Peers /\ writes \subseteq Peers
    /\ tell \subseteq Peers /\ unsent \subseteq Peers /\ error \subseteq Peers
    /\ slots \in [DOMAIN slots -> SUBSET {"in", "out"}]
    /\ DOMAIN slots \subseteq Fds
    /\ events \in [readable : SUBSET Fds, writable : SUBSET Fds, accept : BOOLEAN]

Modes ==
    /\ pc \in {"off", "setup", "ready", "poll", "events", "writing", "after"}
    /\ ctl \in {"idle", "started", "stopping", "lost"}
    /\ stop \in BOOLEAN /\ known \in BOOLEAN /\ starts \in 0 .. MaxStarts

(* What a peer said is in its socket, in hand, shown or refused.           *)
Counted ==
    /\ said \in [Peers -> Nat] /\ unread \in [Peers -> Nat]
    /\ inHand \in [Peers -> Nat] /\ shown \in [Peers -> Nat] /\ refused \in [Peers -> Nat]
    /\ \A p \in Peers : unread[p] + inHand[p] + shown[p] + refused[p] <= said[p]

(* There is nothing to be sent to a peer that has never been a client.     *)
Told == \A p \in Peers : conn[p] \in {"away", "queued"} => p \notin unsent

(* No two open sockets have the same descriptor, whoever refers to them.   *)
Sockets ==
    /\ \A p \in Peers : Open(p) => fd[p] \in Fds /\ fd[p] <= 2 * MaxClients
    /\ \A p \in Peers : \A q \in Peers : Open(p) /\ Open(q) /\ fd[p] = fd[q] => p = q
    /\ \A p \in map \cup held \cup reads \cup news \cup writes : Open(p)

(* While events are handled, only the map and the sender keep clients.     *)
Kept ==
    /\ Cardinality(map) <= MaxClients /\ Cardinality(held) <= MaxClients
    /\ pc \in {"events", "writing"} =>
           /\ reads \cup news \cup writes \subseteq map
           /\ \A p \in Peers : Open(p) => p \in map \cup held

Phases ==
    /\ pc \notin {"events", "writing"} => events = NoEvents
    /\ pc = "after" => tell \subseteq reads
    /\ pc = "writing" => \E p \in map : tell = {p} /\ p \notin unsent
    /\ ctl = "idle" => pc = "off"
    /\ pc \in {"setup", "ready"} => map \subseteq old

(* Poll looks only at the sockets of clients, and an event to read is one  *)
(* of a slot that still asks for it.                                       *)
Polled ==
    /\ \A f \in DOMAIN slots : f <= 2 * MaxClients
    /\ \A f \in DOMAIN slots : slots[f] # {} => \E p \in map : fd[p] = f
    /\ \A f \in events.readable : f \in DOMAIN slots /\ "in" \in slots[f]
    /\ \A p \in map : fd[p] \in events.readable => unread[p] > 0 \/ p \in left

Inv == Shapes /\ Modes /\ Counted /\ Told /\ Sockets /\ Kept /\ Phases /\ Polled

-----------------------------------------------------------------------------
(* Numbers of descriptors.                                                 *)

(* A set of numbers that is not empty has a least one.                     *)
LEMMA Least == ASSUME NEW S \in SUBSET Nat, S # {} PROVE \E n \in S : \A m \in S : n <= m
  <1> DEFINE R == {ss \in Nat \X Nat : ss[1] < ss[2]}
  <1>1. IsWellFoundedOn(R, Nat)
    BY NatLessThanWellFounded DEF OpToRel
  <1>2. \A n \in Nat : \A m \in Nat : m < n => <<m, n>> \in R
    OBVIOUS
  <1> HIDE DEF R
  <1>3. PICK n \in S : \A m \in S : ~ (<<m, n>> \in R)
    BY <1>1, WFMin
  <1>4. \A m \in S : ~ (m < n)
    BY <1>2, <1>3
  <1> QED BY <1>3, <1>4

(* As many numbers as have owners of their own are at most the owners.     *)
LEMMA Owned ==
    ASSUME NEW U, IsFiniteSet(U), NEW n \in Nat, NEW h \in [1 .. n -> U],
           \A x \in 1 .. n : \A y \in 1 .. n : h[x] = h[y] => x = y
    PROVE  n <= Cardinality(U)
  <1>1. h \in Injection(1 .. n, U)
    BY DEF Injection, IsInjective
  <1>2. Cardinality(1 .. n) <= Cardinality(U)
    BY <1>1, FS_Injection
  <1>3. Cardinality(1 .. n) = n
    BY FS_Interval
  <1> QED BY <1>2, <1>3

(* The peers are finitely many, and the bounds are numbers.                *)
LEMMA Numbers ==
    /\ IsFiniteSet(Peers) /\ Cardinality(Peers) \in Nat
    /\ Fds \subseteq Nat \ {0} /\ \A f \in Fds : f <= Cardinality(Peers)
    /\ MaxClients \in Nat /\ MaxStarts \in Nat /\ PollLimit \in [0 .. MaxStarts -> Nat]
  <1>1. IsFiniteSet(Peers) /\ Cardinality(Peers) \in Nat
    BY TcpServerAssumption, FS_CardinalityType
  <1>2. Fds \subseteq Nat \ {0} /\ \A f \in Fds : f <= Cardinality(Peers)
    BY <1>1 DEF Fds
  <1> QED BY <1>1, <1>2, TcpServerAssumption

(* The owner of a descriptor is the open peer that has it.                 *)
LEMMA OwnerIs ==
    ASSUME Sockets, NEW p \in Peers, Open(p) PROVE Owner(fd[p]) = p
  BY DEF Sockets, Owner

(* It is an open peer, if there is one, and has it.                        *)
LEMMA OwnerHas ==
    ASSUME NEW f, Owner(f) # NoPeer
    PROVE  Owner(f) \in Peers /\ Open(Owner(f)) /\ fd[Owner(f)] = f
  BY DEF Owner

(* A descriptor without an owner is that of no open peer.                  *)
LEMMA NoOwner ==
    ASSUME NEW f, Owner(f) = NoPeer, NEW p \in Peers, Open(p)
    PROVE  fd[p] # f
  <1>1. NoPeer \notin Peers
    BY TcpServerAssumption
  <1> QED BY <1>1 DEF Owner

Free == {g \in Fds : Owner(g) = NoPeer}

(* While a client is accepted, fewer numbers from 1 on have owners than    *)
(* there are peers, and than the map and the sender's copy can hold.       *)
LEMMA OwnedBelow ==
    ASSUME Kept, pc = "events", map \subseteq Peers, held \subseteq Peers,
           NEW p \in Peers, conn[p] = "queued", Cardinality(map) < MaxClients,
           NEW n \in Nat, \A g \in 1 .. n : Owner(g) # NoPeer
    PROVE  n < 2 * MaxClients /\ n < Cardinality(Peers)
  <1> DEFINE U == {q \in Peers : Open(q)}
             h == [g \in 1 .. n |-> Owner(g)]
  <1>1. IsFiniteSet(Peers) /\ Cardinality(Peers) \in Nat /\ MaxClients \in Nat
    BY Numbers
  <1>2. IsFiniteSet(Peers \ {p}) /\ Cardinality(Peers \ {p}) = Cardinality(Peers) - 1
    BY <1>1, FS_RemoveElement
  <1>3. U \subseteq Peers \ {p}
    BY DEF Open
  <1>4. IsFiniteSet(U) /\ Cardinality(U) \in Nat /\ Cardinality(U) <= Cardinality(Peers) - 1
    BY <1>2, <1>3, FS_Subset, FS_CardinalityType
  <1>5. \A g \in 1 .. n : Owner(g) \in U /\ fd[Owner(g)] = g
    BY OwnerHas
  <1>6. U \subseteq map \cup held
    BY DEF Kept
  <1>7. /\ IsFiniteSet(map) /\ Cardinality(map) \in Nat
        /\ IsFiniteSet(held) /\ Cardinality(held) \in Nat
    BY <1>1, FS_Subset, FS_CardinalityType
  <1>8. /\ IsFiniteSet(map \cup held)
        /\ Cardinality(map \cup held) <= Cardinality(map) + Cardinality(held)
    <2>1. IsFiniteSet(map \cap held) /\ Cardinality(map \cap held) \in Nat
      BY <1>7, FS_Intersection, FS_CardinalityType
    <2> QED BY <1>7, <2>1, FS_Union
  <1>9. Cardinality(U) <= Cardinality(map \cup held)
    BY <1>6, <1>8, FS_Subset
  <1>10. Cardinality(map \cup held) \in Nat
    BY <1>8, FS_CardinalityType
  <1>11. Cardinality(held) <= MaxClients
    BY DEF Kept
  <1>12. h \in [1 .. n -> U] /\ \A x \in 1 .. n : \A y \in 1 .. n : h[x] = h[y] => x = y
    <2> HIDE DEF U
    <2>1. h \in [1 .. n -> U]
      BY <1>5
    <2>2. \A x \in 1 .. n : fd[h[x]] = x
      BY <1>5
    <2> HIDE DEF h
    <2> QED BY <2>1, <2>2
  <1> HIDE DEF U, h
  <1>13. n <= Cardinality(U)
    BY <1>4, <1>12, Owned
  <1>14. n <= Cardinality(Peers) - 1
    BY <1>1, <1>4, <1>13
  <1>15. n <= Cardinality(map) + Cardinality(held)
    BY <1>4, <1>7, <1>8, <1>9, <1>10, <1>13
  <1> QED BY <1>1, <1>7, <1>11, <1>14, <1>15

(* accept finds a descriptor: the least that nobody has is at most one     *)
(* more than the clients in the map and in the sender's copy.              *)
LEMMA FreeDescriptor ==
    ASSUME Kept, pc = "events", map \subseteq Peers, held \subseteq Peers,
           NEW p \in Peers, conn[p] = "queued", Cardinality(map) < MaxClients,
           NEW f, f = CHOOSE g \in Fds : /\ Owner(g) = NoPeer
                                         /\ \A h \in 1 .. g - 1 : Owner(h) # NoPeer
    PROVE  f \in Fds /\ Owner(f) = NoPeer /\ f <= 2 * MaxClients
  <1>1. /\ Cardinality(Peers) \in Nat /\ MaxClients \in Nat
        /\ Fds = 1 .. Cardinality(Peers)
    BY Numbers DEF Fds
  <1>2. Free # {}
    <2>1. SUFFICES ASSUME Free = {} PROVE FALSE
      OBVIOUS
    <2>2. \A g \in 1 .. Cardinality(Peers) : Owner(g) # NoPeer
      BY <1>1, <2>1 DEF Free
    <2>3. Cardinality(Peers) < Cardinality(Peers)
      BY <1>1, <2>2, OwnedBelow
    <2> QED BY <1>1, <2>3
  <1>3. Free \in SUBSET Nat
    BY <1>1 DEF Free
  <1>4. PICK m \in Free : \A g \in Free : m <= g
    BY <1>2, <1>3, Least
  <1>5. m \in Fds /\ Owner(m) = NoPeer
    BY DEF Free
  <1>6. \A h \in 1 .. m - 1 : Owner(h) # NoPeer
    BY <1>1, <1>4, <1>5 DEF Free
  <1>7. f \in Fds /\ Owner(f) = NoPeer /\ \A h \in 1 .. f - 1 : Owner(h) # NoPeer
    BY <1>5, <1>6
  <1>8. f \in Nat \ {0} /\ f - 1 \in Nat
    BY <1>1, <1>7
  <1>9. f - 1 < 2 * MaxClients
    BY <1>7, <1>8, OwnedBelow
  <1> QED BY <1>1, <1>7, <1>8, <1>9

-----------------------------------------------------------------------------
(* What is asked of poll.                                                  *)

Kinds == {"in", "out"}

(* A list of slots that is empty.                                          *)
LEMMA NoSlots == DOMAIN <<>> = {} /\ <<>> \in [DOMAIN <<>> -> SUBSET Kinds]
  OBVIOUS

(* To ask for a descriptor adds to its slot, if there is room for one, and *)
(* leaves the other slots.                                                 *)
LEMMA AskAdds ==
    ASSUME slots \in [DOMAIN slots -> SUBSET Kinds], NEW f \in Fds, NEW kind \in Kinds
    PROVE  /\ DOMAIN slots \subseteq DOMAIN Ask(f, kind)
           /\ DOMAIN Ask(f, kind) \subseteq DOMAIN slots \cup {f}
           /\ Ask(f, kind) \in [DOMAIN Ask(f, kind) -> SUBSET Kinds]
           /\ \A g \in DOMAIN slots : slots[g] \subseteq Ask(f, kind)[g]
           /\ \A g \in DOMAIN slots : g # f => Ask(f, kind)[g] = slots[g]
           /\ Room(f) => f \in DOMAIN Ask(f, kind) /\ kind \in Ask(f, kind)[f]
  <1>1. CASE ~Room(f)
    BY <1>1 DEF Ask
  <1>2. CASE Room(f)
    <2> DEFINE s == [g \in DOMAIN slots \cup {f} |->
                        (IF g \in DOMAIN slots THEN slots[g] ELSE {})
                            \cup (IF g = f THEN {kind} ELSE {})]
    <2>1. Ask(f, kind) = s
      BY <1>2 DEF Ask
    <2>2. DOMAIN s = DOMAIN slots \cup {f}
      OBVIOUS
    <2>3. \A g \in DOMAIN slots \cup {f} : s[g] \in SUBSET Kinds
      OBVIOUS
    <2>4. \A g \in DOMAIN slots : slots[g] \subseteq s[g] /\ (g # f => s[g] = slots[g])
      OBVIOUS
    <2>5. kind \in s[f]
      OBVIOUS
    <2>6. s \in [DOMAIN s -> SUBSET Kinds]
      BY <2>2, <2>3
    <2> HIDE DEF s
    <2> QED BY <2>1, <2>2, <2>4, <2>5, <2>6
  <1> QED BY <1>1, <1>2

(* To ask no more takes from the slot alone.                               *)
LEMMA UnaskTakes ==
    ASSUME slots \in [DOMAIN slots -> SUBSET Kinds], NEW f, NEW kind
    PROVE  /\ DOMAIN Unask(f, kind) = DOMAIN slots
           /\ Unask(f, kind) \in [DOMAIN Unask(f, kind) -> SUBSET Kinds]
           /\ \A g \in DOMAIN slots : /\ slots[g] \ {kind} \subseteq Unask(f, kind)[g]
                                      /\ Unask(f, kind)[g] \subseteq slots[g]
           /\ \A g \in DOMAIN slots : g # f => Unask(f, kind)[g] = slots[g]
  BY DEF Unask

(* In this run, poll has room for two generations of clients, those of the *)
(* map and those of the copy that the sender still walks, or for all the   *)
(* peers: for all the descriptors that can be open at once.                *)
PollHasRoom == PollLimit[starts] > 2 * MaxClients \/ PollLimit[starts] > Cardinality(Peers)

(* A descriptor that small finds a slot, though slots are never given up.  *)
LEMMA HasRoom ==
    ASSUME Modes, PollHasRoom, DOMAIN slots \subseteq Fds,
           \A g \in DOMAIN slots : g <= 2 * MaxClients, NEW f \in Fds, f <= 2 * MaxClients
    PROVE  Room(f)
  <1> SUFFICES ASSUME f \notin DOMAIN slots
               PROVE  Cardinality(DOMAIN slots) + 1 < PollLimit[starts]
    BY DEF Room
  <1>1. /\ Cardinality(Peers) \in Nat /\ MaxClients \in Nat /\ PollLimit[starts] \in Nat
        /\ Fds = 1 .. Cardinality(Peers) /\ 2 * MaxClients \in Nat
    BY Numbers, TcpServerAssumption DEF Fds, Modes
  <1>2. ASSUME NEW n \in Nat, DOMAIN slots \subseteq 1 .. n, f \in 1 .. n
        PROVE  Cardinality(DOMAIN slots) \in Nat /\ Cardinality(DOMAIN slots) < n
    <2>1. IsFiniteSet(1 .. n) /\ Cardinality(1 .. n) = n
      BY FS_Interval
    <2>2. DOMAIN slots \in SUBSET (1 .. n) /\ DOMAIN slots # 1 .. n
      BY <1>2
    <2>3. /\ IsFiniteSet(DOMAIN slots)
          /\ Cardinality(DOMAIN slots) <= n /\ Cardinality(DOMAIN slots) # n
      BY <2>1, <2>2, FS_Subset
    <2>4. Cardinality(DOMAIN slots) \in Nat
      BY <2>3, FS_CardinalityType
    <2> QED BY <2>3, <2>4
  <1>3. Cardinality(DOMAIN slots) \in Nat /\ Cardinality(DOMAIN slots) < Cardinality(Peers)
    BY <1>1, <1>2
  <1>4. DOMAIN slots \subseteq 1 .. 2 * MaxClients /\ f \in 1 .. 2 * MaxClients
    BY <1>1
  <1>5. Cardinality(DOMAIN slots) < 2 * MaxClients
    BY <1>1, <1>2, <1>4
  <1> QED BY <1>1, <1>3, <1>5 DEF PollHasRoom

-----------------------------------------------------------------------------
(* What keeps a part of the invariant when little changes.                 *)

(* Nothing is said, read or shown.                                         *)
LEMMA CountedKept ==
    ASSUME Counted, UNCHANGED <<said, unread, inHand, shown, refused>> PROVE Counted'
  BY DEF Counted

(* Nothing is written or sent, and a client is not forgotten.              *)
LEMMA ToldKept ==
    ASSUME Told, UNCHANGED unsent,
           \A p \in Peers : conn'[p] \in {"away", "queued"} => conn[p] \in {"away", "queued"}
    PROVE  Told'
  BY DEF Told

(* No socket is opened, and those that are referred to are not closed.     *)
LEMMA SocketsKept ==
    ASSUME Sockets,
           \A p \in Peers : conn'[p] = "open" => Open(p) /\ fd'[p] = fd[p],
           \A p \in map' \cup held' \cup reads' \cup news' \cup writes' : conn'[p] = "open"
    PROVE  Sockets'
  BY DEF Sockets, Open

(* The clients that are kept are the same, and so are the lists of events. *)
LEMMA KeptSame ==
    ASSUME Kept, UNCHANGED <<map, held>>, \A p \in Peers : conn'[p] = "open" => Open(p),
           pc' \in {"events", "writing"} => /\ pc \in {"events", "writing"}
                                            /\ UNCHANGED <<reads, news, writes>>
    PROVE  Kept'
  BY DEF Kept, Open

(* The slots are the same, and what is there to be read stays.             *)
LEMMA PolledSame ==
    ASSUME Polled, UNCHANGED <<slots, events, map>>, Counted, Counted', map \subseteq Peers,
           \A p \in map : fd'[p] = fd[p] /\ unread[p] <= unread'[p], left \subseteq left'
    PROVE  Polled'
  <1>1. \A p \in map : unread[p] \in Nat /\ unread'[p] \in Nat
    BY DEF Counted
  <1>2. \A p \in map : unread[p] > 0 => unread'[p] > 0
    BY <1>1
  <1> QED BY <1>2 DEF Polled

-----------------------------------------------------------------------------
(* The peers.                                                              *)

(* A peer that asks to be accepted is not open yet.                        *)
LEMMA ConnectsKeeps == ASSUME Inv, NEW p \in Peers, Connects(p) PROVE Inv'
  <1>1. /\ UNCHANGED <<left, said, unread, fd, map, gone, held, todo>>
        /\ UNCHANGED <<pc, slots, events, reads, news, writes, tell, inHand, shown, refused>>
        /\ UNCHANGED <<unsent, error, ctl, stop, known, starts, old>>
        /\ conn[p] = "away" /\ conn' = [conn EXCEPT ![p] = "queued"]
    BY DEF Connects, Network, lists, hands, sends
  <1>2. Shapes /\ Modes /\ Counted /\ Told /\ Sockets /\ Kept /\ Phases /\ Polled
    BY DEF Inv
  <1>3. /\ \A q \in Peers : conn'[q] \in {"away", "queued"} => conn[q] \in {"away", "queued"}
        /\ \A q \in Peers : conn'[q] = "open" <=> Open(q)
    BY <1>1, <1>2 DEF Shapes, Open
  <1>4. Shapes'
    BY <1>1, <1>2 DEF Shapes
  <1>5. Modes' /\ Phases'
    BY <1>1, <1>2 DEF Modes, Phases
  <1>6. Counted'
    BY <1>1, <1>2, CountedKept
  <1>7. Told'
    BY <1>1, <1>2, <1>3, ToldKept
  <1>8. Sockets'
    <2>1. \A q \in map' \cup held' \cup reads' \cup news' \cup writes' : q \in Peers /\ Open(q)
      BY <1>1, <1>2 DEF Shapes, Sockets
    <2> QED BY <1>1, <1>2, <1>3, <2>1, SocketsKept
  <1>9. Kept'
    BY <1>1, <1>2, <1>3, KeptSame
  <1>10. Polled'
    BY <1>1, <1>2 DEF Polled
  <1> QED BY <1>4, <1>5, <1>6, <1>7, <1>8, <1>9, <1>10 DEF Inv

(* What a peer says is in its socket, and counted.                         *)
LEMMA SaysKeeps == ASSUME Inv, NEW p \in Peers, Says(p) PROVE Inv'
  <1>1. /\ UNCHANGED <<conn, left, fd, map, gone, held, todo>>
        /\ UNCHANGED <<pc, slots, events, reads, news, writes, tell, inHand, shown, refused>>
        /\ UNCHANGED <<unsent, error, ctl, stop, known, starts, old>>
        /\ said' = [said EXCEPT ![p] = @ + 1] /\ unread' = [unread EXCEPT ![p] = @ + 1]
    BY DEF Says, Network, lists, hands, sends
  <1>2. Shapes /\ Modes /\ Counted /\ Told /\ Sockets /\ Kept /\ Phases /\ Polled
    BY DEF Inv
  <1>3. Shapes' /\ Modes' /\ Phases'
    BY <1>1, <1>2 DEF Shapes, Modes, Phases
  <1>4. Counted'
    <2>2. \A q \in Peers : /\ said'[q] = IF q = p THEN said[q] + 1 ELSE said[q]
                           /\ unread'[q] = IF q = p THEN unread[q] + 1 ELSE unread[q]
      BY <1>1, <1>2 DEF Counted
    <2>3. \A q \in Peers : /\ said[q] \in Nat /\ unread[q] \in Nat /\ inHand[q] \in Nat
                           /\ shown[q] \in Nat /\ refused[q] \in Nat
                           /\ unread[q] + inHand[q] + shown[q] + refused[q] <= said[q]
      BY <1>2 DEF Counted
    <2>4. \A q \in Peers : unread'[q] + inHand[q] + shown[q] + refused[q] <= said'[q]
      BY <2>2, <2>3
    <2>5. said' \in [Peers -> Nat] /\ unread' \in [Peers -> Nat]
      BY <1>1, <1>2 DEF Counted
    <2> QED BY <1>1, <1>2, <2>4, <2>5 DEF Counted
  <1>5. Told' /\ Sockets' /\ Kept'
    BY <1>1, <1>2 DEF Told, Sockets, Kept, Open
  <1>6. Polled'
    <2>1. \A q \in map : unread[q] <= unread'[q]
      BY <1>1, <1>2 DEF Shapes, Counted
    <2> QED BY <1>1, <1>2, <1>4, <2>1, PolledSame DEF Shapes
  <1> QED BY <1>3, <1>4, <1>5, <1>6 DEF Inv

(* A peer that leaves has something to be read, the end.                   *)
LEMMA LeavesKeeps == ASSUME Inv, NEW p \in Peers, Leaves(p) PROVE Inv'
  <1>1. /\ UNCHANGED <<conn, said, unread, fd, map, gone, held, todo>>
        /\ UNCHANGED <<pc, slots, events, reads, news, writes, tell, inHand, shown, refused>>
        /\ UNCHANGED <<unsent, error, ctl, stop, known, starts, old>>
        /\ left' = left \cup {p}
    BY DEF Leaves, Network, lists, hands, sends
  <1>2. Shapes /\ Modes /\ Counted /\ Told /\ Sockets /\ Kept /\ Phases /\ Polled
    BY DEF Inv
  <1>3. Shapes' /\ Modes' /\ Phases'
    BY <1>1, <1>2 DEF Shapes, Modes, Phases
  <1>4. Counted' /\ Told' /\ Sockets' /\ Kept'
    BY <1>1, <1>2 DEF Counted, Told, Sockets, Kept, Open
  <1>5. Polled'
    BY <1>1, <1>2 DEF Polled
  <1> QED BY <1>3, <1>4, <1>5 DEF Inv

-----------------------------------------------------------------------------
(* The serving thread.                                                     *)

(* The poll is set up with no slot, before any event.                      *)
LEMMA SetupKeeps == ASSUME Inv, Setup PROVE Inv'
  <1>1. /\ UNCHANGED <<conn, left, said, unread, fd, map, gone, held, todo>>
        /\ UNCHANGED <<events, reads, news, writes, tell, inHand, shown, refused>>
        /\ UNCHANGED <<unsent, error, ctl, stop, known, starts, old>>
        /\ pc = "setup" /\ pc' = "ready" /\ slots' = <<>>
    BY DEF Setup, Serving, lists, hands, sends
  <1>2. Shapes /\ Modes /\ Counted /\ Told /\ Sockets /\ Kept /\ Phases /\ Polled
    BY DEF Inv
  <1>3. Shapes'
    BY <1>1, <1>2, NoSlots DEF Shapes, Kinds
  <1>4. Modes' /\ Phases'
    BY <1>1, <1>2 DEF Modes, Phases
  <1>5. Counted' /\ Told' /\ Sockets' /\ Kept'
    BY <1>1, <1>2 DEF Counted, Told, Sockets, Kept, Open
  <1>6. Polled'
    <2>1. events.readable = {}
      BY <1>1, <1>2 DEF Phases, NoEvents
    <2> QED BY <1>1, <2>1, NoSlots DEF Polled
  <1> QED BY <1>3, <1>4, <1>5, <1>6 DEF Inv

(* The poll begins: the stop that came before it is forgotten.             *)
LEMMA ServeKeeps == ASSUME Inv, Serve PROVE Inv'
  <1>1. /\ UNCHANGED <<conn, left, said, unread, fd, map, gone, held, todo>>
        /\ UNCHANGED <<slots, events, reads, news, writes, tell, inHand, shown, refused>>
        /\ UNCHANGED <<unsent, error, ctl, known, starts, old>>
        /\ pc = "ready" /\ pc' = "poll" /\ stop' = FALSE
    BY DEF Serve, Serving, lists, hands, sends
  <1>2. Shapes /\ Modes /\ Counted /\ Told /\ Sockets /\ Kept /\ Phases /\ Polled
    BY DEF Inv
  <1>3. Shapes' /\ Modes' /\ Phases'
    BY <1>1, <1>2 DEF Shapes, Modes, Phases
  <1>4. Counted' /\ Told' /\ Sockets' /\ Kept' /\ Polled'
    BY <1>1, <1>2 DEF Counted, Told, Sockets, Kept, Polled, Open
  <1> QED BY <1>3, <1>4 DEF Inv

(* A poll closes the sockets that only the lists of the cycle before kept, *)
(* and reports slots of clients that have something to be read.            *)
LEMMA PollOnceKeeps == ASSUME Inv, PollOnce PROVE Inv'
  <1> DEFINE used == map \cup held
             readable == {f \in DOMAIN slots : "in" \in slots[f] /\ Readable(f)}
             writable == {f \in DOMAIN slots \ readable : "out" \in slots[f] /\ Owner(f) # NoPeer}
             accept == ctl # "lost" /\ \E p \in Peers : conn[p] = "queued"
  <1>1. /\ UNCHANGED <<left, said, unread, map, gone, held, todo>>
        /\ UNCHANGED <<slots, tell, inHand, shown, refused>>
        /\ UNCHANGED <<unsent, error, ctl, stop, known, starts, old>>
        /\ pc = "poll" /\ pc' = "events"
        /\ events' = [readable |-> readable, writable |-> writable, accept |-> accept]
        /\ reads' = {} /\ news' = {} /\ writes' = {}
    BY DEF PollOnce, Serving, hands, sends
  <1>2. /\ conn' = [p \in Peers |-> IF Open(p) /\ p \notin used THEN "closed" ELSE conn[p]]
        /\ fd' = [p \in Peers |-> IF p \in used THEN fd[p] ELSE 0]
    BY DEF PollOnce, CloseUnless
  <1>3. Shapes /\ Modes /\ Counted /\ Told /\ Sockets /\ Kept /\ Phases /\ Polled
    BY DEF Inv
  <1>4. \A p \in used : p \in Peers /\ Open(p)
    BY <1>3 DEF Shapes, Sockets
  <1>5. /\ \A p \in Peers : conn'[p] = "open" <=> p \in used
        /\ \A p \in used : fd'[p] = fd[p]
        /\ \A p \in Peers : conn'[p] \in {"away", "queued"} => conn[p] \in {"away", "queued"}
    BY <1>2, <1>4 DEF Open
  <1>6. readable \subseteq Fds /\ writable \subseteq Fds /\ accept \in BOOLEAN
    BY <1>3 DEF Shapes
  <1>7. \A f \in readable : f \in DOMAIN slots /\ "in" \in slots[f]
    OBVIOUS
  <1>8. \A p \in map : fd[p] \in readable => unread[p] > 0 \/ p \in left
    <2> SUFFICES ASSUME NEW p \in map, fd[p] \in readable PROVE unread[p] > 0 \/ p \in left
      OBVIOUS
    <2>1. Owner(fd[p]) = p
      BY <1>3, <1>4, OwnerIs
    <2>2. Readable(fd[p])
      OBVIOUS
    <2> QED BY <2>1, <2>2 DEF Readable
  <1> HIDE DEF used, readable, writable, accept
  <1>9. Shapes'
    <2>1. events' \in [readable : SUBSET Fds, writable : SUBSET Fds, accept : BOOLEAN]
      BY <1>1, <1>6
    <2>2. /\ conn' \in [Peers -> {"away", "queued", "open", "closed"}]
          /\ fd' \in [Peers -> Fds \cup {0}]
      BY <1>2, <1>3 DEF Shapes
    <2> QED BY <1>1, <1>3, <2>1, <2>2 DEF Shapes
  <1>10. Modes' /\ Phases'
    BY <1>1, <1>3 DEF Modes, Phases
  <1>11. Counted'
    BY <1>1, <1>3, CountedKept
  <1>12. Told'
    BY <1>1, <1>3, <1>5, ToldKept
  <1>13. Sockets'
    <2>1. map' \cup held' \cup reads' \cup news' \cup writes' = used
      BY <1>1 DEF used
    <2> QED BY <1>3, <1>4, <1>5, <2>1, SocketsKept
  <1>14. Kept'
    BY <1>1, <1>3, <1>5 DEF Kept, Open, used
  <1>15. Polled'
    <2>1. map \subseteq used
      BY DEF used
    <2>2. events'.readable = readable
      BY <1>1
    <2> QED BY <1>1, <1>3, <1>5, <1>7, <1>8, <2>1, <2>2 DEF Polled
  <1> QED BY <1>9, <1>10, <1>11, <1>12, <1>13, <1>14, <1>15 DEF Inv

(* The client that is accepted gets a descriptor that nobody has, and the  *)
(* one refused is closed.                                                  *)
LEMMA AcceptKeeps == ASSUME Inv, Accept PROVE Inv'
  <1>1. /\ UNCHANGED <<left, said, unread, gone, held, todo>>
        /\ UNCHANGED <<reads, writes, tell, inHand, shown, refused>>
        /\ UNCHANGED <<unsent, error, ctl, stop, known, starts, old>>
        /\ pc = "events" /\ pc' = "events"
        /\ events' = [events EXCEPT !.accept = FALSE]
    BY DEF Accept, Serving, hands, sends
  <1>2. PICK p \in Peers :
          LET f == CHOOSE g \in Fds : /\ Owner(g) = NoPeer
                                      /\ \A h \in 1 .. g - 1 : Owner(h) # NoPeer
          IN  /\ conn[p] = "queued"
              /\ \/ /\ Cardinality(map) < MaxClients
                    /\ conn' = [conn EXCEPT ![p] = "open"]
                    /\ fd' = [fd EXCEPT ![p] = f]
                    /\ slots' = Ask(f, "in")
                    /\ map' = map \cup {p} /\ news' = news \cup {p}
                 \/ /\ conn' = [conn EXCEPT ![p] = "closed"]
                    /\ UNCHANGED <<fd, slots, map, news>>
    BY DEF Accept
  <1>3. Shapes /\ Modes /\ Counted /\ Told /\ Sockets /\ Kept /\ Phases /\ Polled
    BY DEF Inv
  <1>4. /\ events'.readable = events.readable
        /\ events' \in [readable : SUBSET Fds, writable : SUBSET Fds, accept : BOOLEAN]
    BY <1>1, <1>3 DEF Shapes
  <1>5. Modes' /\ Phases'
    BY <1>1, <1>3 DEF Modes, Phases
  <1>6. Counted'
    BY <1>1, <1>3, CountedKept
  <1>7. CASE conn' = [conn EXCEPT ![p] = "closed"] /\ UNCHANGED <<fd, slots, map, news>>
    <2>1. /\ \A q \in Peers : conn'[q] = "open" <=> Open(q)
          /\ \A q \in Peers : conn'[q] \in {"away", "queued"} => conn[q] \in {"away", "queued"}
      BY <1>2, <1>3, <1>7 DEF Shapes, Open
    <2>2. Shapes'
      BY <1>1, <1>3, <1>4, <1>7 DEF Shapes
    <2>3. Told'
      BY <1>1, <1>3, <2>1, ToldKept
    <2>4. Sockets'
      <3>1. \A q \in map' \cup held' \cup reads' \cup news' \cup writes' : q \in Peers /\ Open(q)
        BY <1>1, <1>3, <1>7 DEF Shapes, Sockets
      <3> QED BY <1>1, <1>3, <1>7, <2>1, <3>1, SocketsKept
    <2>5. Kept'
      BY <1>1, <1>3, <1>7, <2>1, KeptSame
    <2>6. Polled'
      BY <1>1, <1>3, <1>4, <1>7 DEF Polled
    <2> QED BY <1>5, <1>6, <2>2, <2>3, <2>4, <2>5, <2>6 DEF Inv
  <1>8. CASE ~(conn' = [conn EXCEPT ![p] = "closed"] /\ UNCHANGED <<fd, slots, map, news>>)
    <2> DEFINE f == CHOOSE g \in Fds : /\ Owner(g) = NoPeer
                                       /\ \A h \in 1 .. g - 1 : Owner(h) # NoPeer
    <2>1. /\ conn[p] = "queued" /\ Cardinality(map) < MaxClients
          /\ conn' = [conn EXCEPT ![p] = "open"] /\ fd' = [fd EXCEPT ![p] = f]
          /\ slots' = Ask(f, "in") /\ map' = map \cup {p} /\ news' = news \cup {p}
      BY <1>2, <1>8
    <2>2. f \in Fds /\ Owner(f) = NoPeer /\ f <= 2 * MaxClients
      BY <1>1, <1>3, <2>1, FreeDescriptor DEF Shapes
    <2> HIDE DEF f
    <2>3. ~Open(p)
      BY <2>1 DEF Open
    <2>4. /\ \A q \in Peers : conn'[q] = "open" <=> Open(q) \/ q = p
          /\ \A q \in Peers : conn'[q] \in {"away", "queued"} => conn[q] \in {"away", "queued"}
          /\ \A q \in Peers : q # p => fd'[q] = fd[q]
          /\ fd'[p] = f
      BY <1>3, <2>1 DEF Shapes, Open
    <2>5. \A q \in Peers : Open(q) => fd[q] # f /\ q # p
      BY <2>2, <2>3, NoOwner
    <2>6. /\ DOMAIN slots \subseteq DOMAIN slots' /\ DOMAIN slots' \subseteq DOMAIN slots \cup {f}
          /\ slots' \in [DOMAIN slots' -> SUBSET Kinds]
          /\ \A g \in DOMAIN slots : slots[g] \subseteq slots'[g]
          /\ \A g \in DOMAIN slots : g # f => slots'[g] = slots[g]
      BY <1>3, <2>1, <2>2, AskAdds DEF Shapes, Kinds
    <2>7. Shapes'
      <3>1. /\ conn' \in [Peers -> {"away", "queued", "open", "closed"}]
            /\ fd' \in [Peers -> Fds \cup {0}]
        BY <1>3, <2>1, <2>2 DEF Shapes
      <3>2. map' \subseteq Peers /\ news' \subseteq Peers
        BY <1>3, <2>1 DEF Shapes
      <3>3. DOMAIN slots' \subseteq Fds
        BY <1>3, <2>2, <2>6 DEF Shapes
      <3> QED BY <1>1, <1>3, <1>4, <2>6, <3>1, <3>2, <3>3 DEF Shapes, Kinds
    <2>8. Told'
      BY <1>1, <1>3, <2>4, ToldKept
    <2>9. Sockets'
      <3>1. \A q \in Peers : conn'[q] = "open" => fd'[q] \in Fds /\ fd'[q] <= 2 * MaxClients
        BY <1>3, <2>2, <2>4 DEF Sockets
      <3>2. ASSUME NEW q \in Peers, NEW r \in Peers, fd'[q] = fd'[r],
                   conn'[q] = "open", conn'[r] = "open"
            PROVE  q = r
        BY <1>3, <2>4, <2>5, <3>2 DEF Sockets
      <3>3. \A q \in map' \cup held' \cup reads' \cup news' \cup writes' : conn'[q] = "open"
        BY <1>1, <1>3, <2>1, <2>4 DEF Sockets, Shapes
      <3> QED BY <3>1, <3>2, <3>3 DEF Sockets, Open
    <2>10. Kept'
      <3>1. IsFiniteSet(map) /\ Cardinality(map) \in Nat /\ MaxClients \in Nat
        BY <1>3, Numbers, FS_Subset, FS_CardinalityType DEF Shapes
      <3>2. Cardinality(map') <= MaxClients
        <4>1. Cardinality(map \cup {p}) \in {Cardinality(map), Cardinality(map) + 1}
          BY <3>1, FS_AddElement
        <4> QED BY <2>1, <3>1, <4>1
      <3>3. /\ reads' \cup news' \cup writes' \subseteq map'
            /\ \A q \in Peers : conn'[q] = "open" => q \in map' \cup held'
        BY <1>1, <1>3, <2>1, <2>4 DEF Kept
      <3> QED BY <1>1, <1>3, <3>2, <3>3 DEF Kept, Open
    <2>11. Polled'
      <3>1. \A g \in DOMAIN slots' : g <= 2 * MaxClients
        BY <1>3, <2>2, <2>6 DEF Polled
      <3>2. \A q \in map : q \in Peers /\ Open(q) /\ q # p /\ fd'[q] = fd[q] /\ fd[q] # f
        BY <1>3, <2>4, <2>5 DEF Shapes, Sockets
      <3>3. ASSUME NEW g \in DOMAIN slots', slots'[g] # {} PROVE \E q \in map' : fd'[q] = g
        <4>1. CASE g = f
          BY <2>1, <2>4, <4>1
        <4>2. CASE g # f
          <5>1. g \in DOMAIN slots /\ slots[g] # {}
            BY <2>6, <3>3, <4>2
          <5>2. PICK q \in map : fd[q] = g
            BY <1>3, <5>1 DEF Polled
          <5> QED BY <2>1, <3>2, <5>2
        <4> QED BY <4>1, <4>2
      <3>4. \A g \in events'.readable : g \in DOMAIN slots' /\ "in" \in slots'[g]
        BY <1>3, <1>4, <2>6 DEF Polled
      <3>5. f \notin events.readable
        <4> SUFFICES ASSUME f \in events.readable PROVE FALSE
          OBVIOUS
        <4>1. PICK q \in map : fd[q] = f
          BY <1>3 DEF Polled
        <4> QED BY <3>2, <4>1
      <3>6. \A q \in map' : fd'[q] \in events'.readable => unread'[q] > 0 \/ q \in left'
        BY <1>1, <1>3, <1>4, <2>1, <2>4, <3>2, <3>5 DEF Polled
      <3> QED BY <3>1, <3>3, <3>4, <3>6 DEF Polled
    <2> QED BY <1>5, <1>6, <2>7, <2>8, <2>9, <2>10, <2>11 DEF Inv
  <1> QED BY <1>7, <1>8

(* A read takes from the socket of its client, which nothing else reads,   *)
(* and asks no more of the slot of one that has left.                      *)
LEMMA ReadKeeps == ASSUME Inv, NEW f \in Fds, Read(f) PROVE Inv'
  <1> DEFINE p == Owner(f)
  <1>1. /\ UNCHANGED <<conn, left, said, fd, map, held, todo>>
        /\ UNCHANGED <<news, writes, tell, shown, refused, unsent>>
        /\ UNCHANGED <<ctl, stop, known, starts, old>>
        /\ pc = "events" /\ pc' = "events" /\ p \in map
        /\ f \in events.readable /\ events' = [events EXCEPT !.readable = @ \ {f}]
        /\ reads' = reads \cup {p} /\ error' = error \ {p}
    BY DEF Read, Serving, Handles
  <1>2. \/ \E n \in 1 .. unread[p] : /\ unread' = [unread EXCEPT ![p] = @ - n]
                                     /\ inHand' = [inHand EXCEPT ![p] = n]
                                     /\ gone' = gone \ {p}
                                     /\ UNCHANGED slots
        \/ /\ gone' = gone \cup {p}
           /\ slots' = Unask(f, "in")
           /\ UNCHANGED <<unread, inHand>>
    BY DEF Read
  <1>3. Shapes /\ Modes /\ Counted /\ Told /\ Sockets /\ Kept /\ Phases /\ Polled
    BY DEF Inv
  <1>4. p \in Peers /\ Open(p) /\ fd[p] = f
    BY <1>1, <1>3, OwnerHas, TcpServerAssumption DEF Shapes
  <1> HIDE DEF p
  <1>5. /\ events'.readable = events.readable \ {f}
        /\ events' \in [readable : SUBSET Fds, writable : SUBSET Fds, accept : BOOLEAN]
    BY <1>1, <1>3 DEF Shapes
  <1>6. /\ DOMAIN slots' = DOMAIN slots
        /\ slots' \in [DOMAIN slots' -> SUBSET Kinds]
        /\ \A g \in DOMAIN slots : slots'[g] \subseteq slots[g] /\ (g # f => slots'[g] = slots[g])
    BY <1>2, <1>3, UnaskTakes DEF Shapes, Kinds
  <1>7. Shapes'
    <2>1. gone' \subseteq Peers /\ reads' \subseteq Peers /\ error' \subseteq Peers
      BY <1>1, <1>2, <1>3, <1>4 DEF Shapes
    <2> QED BY <1>1, <1>3, <1>5, <1>6, <2>1 DEF Shapes, Kinds
  <1>8. Modes' /\ Phases'
    BY <1>1, <1>3 DEF Modes, Phases
  <1>9. Counted' /\ \A q \in Peers : q # p => unread'[q] = unread[q]
    <2>1. CASE UNCHANGED <<unread, inHand>>
      BY <1>1, <1>3, <2>1, CountedKept
    <2>2. CASE \E n \in 1 .. unread[p] : /\ unread' = [unread EXCEPT ![p] = @ - n]
                                         /\ inHand' = [inHand EXCEPT ![p] = n]
      <3>1. PICK n \in 1 .. unread[p] : /\ unread' = [unread EXCEPT ![p] = @ - n]
                                        /\ inHand' = [inHand EXCEPT ![p] = n]
        BY <2>2
      <3>2. \A q \in Peers : /\ said[q] \in Nat /\ unread[q] \in Nat /\ inHand[q] \in Nat
                             /\ shown[q] \in Nat /\ refused[q] \in Nat
                             /\ unread[q] + inHand[q] + shown[q] + refused[q] <= said[q]
        BY <1>3 DEF Counted
      <3>3. n \in Nat /\ n <= unread[p] /\ unread[p] - n \in Nat
        BY <1>4, <3>2
      <3>4. \A q \in Peers : /\ unread'[q] = IF q = p THEN unread[q] - n ELSE unread[q]
                             /\ inHand'[q] = IF q = p THEN n ELSE inHand[q]
        BY <1>3, <3>1 DEF Counted
      <3>5. \A q \in Peers : unread'[q] + inHand'[q] + shown[q] + refused[q] <= said[q]
        BY <3>2, <3>3, <3>4
      <3>6. unread' \in [Peers -> Nat] /\ inHand' \in [Peers -> Nat]
        BY <1>3, <3>1, <3>3 DEF Counted
      <3> QED BY <1>1, <1>3, <3>4, <3>5, <3>6 DEF Counted
    <2> QED BY <1>2, <2>1, <2>2
  <1>10. Told'
    BY <1>1, <1>3 DEF Told
  <1>11. Sockets'
    <2>1. \A q \in map' \cup held' \cup reads' \cup news' \cup writes' : Open(q)
      BY <1>1, <1>3, <1>4 DEF Sockets
    <2> QED BY <1>1, <1>3, <2>1 DEF Sockets, Open
  <1>12. Kept'
    BY <1>1, <1>3 DEF Kept, Open
  <1>13. Polled'
    <2>1. \A g \in DOMAIN slots' : g <= 2 * MaxClients
      BY <1>3, <1>6 DEF Polled
    <2>2. \A g \in DOMAIN slots' : slots'[g] # {} => \E q \in map : fd[q] = g
      BY <1>3, <1>6 DEF Polled
    <2>3. \A g \in events'.readable : g \in DOMAIN slots' /\ "in" \in slots'[g]
      BY <1>3, <1>5, <1>6 DEF Polled
    <2>4. \A q \in map : fd[q] \in events'.readable => unread'[q] > 0 \/ q \in left
      BY <1>3, <1>4, <1>5, <1>9 DEF Polled, Shapes
    <2> QED BY <1>1, <2>1, <2>2, <2>3, <2>4 DEF Polled
  <1> QED BY <1>7, <1>8, <1>9, <1>10, <1>11, <1>12, <1>13 DEF Inv

(* A write is for a client of the map, and sends the last it was given.    *)
LEMMA WriteKeeps == ASSUME Inv, NEW f \in Fds, Write(f) PROVE Inv'
  <1> DEFINE p == Owner(f)
  <1>1. /\ UNCHANGED <<conn, left, said, unread, fd, map, gone, held, todo>>
        /\ UNCHANGED <<slots, reads, news, inHand, shown, refused>>
        /\ UNCHANGED <<ctl, stop, known, starts, old>>
        /\ pc = "events" /\ pc' = "writing" /\ p \in map
        /\ events' = [events EXCEPT !.writable = @ \ {f}]
        /\ writes' = writes \cup {p} /\ unsent' = unsent \ {p} /\ tell' = {p}
        /\ error' \in {error \ {p}, error \cup {p}}
    BY DEF Write, Serving, Handles, hands
  <1>2. Shapes /\ Modes /\ Counted /\ Told /\ Sockets /\ Kept /\ Phases /\ Polled
    BY DEF Inv
  <1>3. p \in Peers /\ Open(p)
    BY <1>1, <1>2 DEF Shapes, Sockets
  <1> HIDE DEF p
  <1>4. /\ events'.readable = events.readable
        /\ events' \in [readable : SUBSET Fds, writable : SUBSET Fds, accept : BOOLEAN]
    BY <1>1, <1>2 DEF Shapes
  <1>5. Shapes'
    BY <1>1, <1>2, <1>3, <1>4 DEF Shapes
  <1>6. Modes'
    BY <1>1, <1>2 DEF Modes
  <1>7. Counted'
    BY <1>1, <1>2, CountedKept
  <1>9. Told'
    BY <1>1, <1>2 DEF Told
  <1>10. Phases'
    BY <1>1, <1>2 DEF Phases
  <1>11. Sockets'
    <2>1. \A q \in map' \cup held' \cup reads' \cup news' \cup writes' : Open(q)
      BY <1>1, <1>2, <1>3 DEF Sockets
    <2> QED BY <1>1, <1>2, <2>1 DEF Sockets, Open
  <1>12. Kept'
    BY <1>1, <1>2 DEF Kept, Open
  <1>13. Polled'
    BY <1>1, <1>2, <1>4 DEF Polled
  <1> QED BY <1>5, <1>6, <1>7, <1>9, <1>10, <1>11, <1>12, <1>13 DEF Inv

(* What is sent is no more asked to be written.                            *)
LEMMA WrittenKeeps == ASSUME Inv, Written PROVE Inv'
  <1> DEFINE f == fd[CHOOSE p \in tell : TRUE]
  <1>1. /\ UNCHANGED <<conn, left, said, unread, fd, map, gone, held, todo>>
        /\ UNCHANGED <<events, reads, news, writes, inHand, shown, refused>>
        /\ UNCHANGED <<unsent, error, ctl, stop, known, starts, old>>
        /\ pc = "writing" /\ pc' = "events" /\ tell' = {}
        /\ slots' = Unask(f, "out")
    BY DEF Written, Serving, lists, hands, sends
  <1> HIDE DEF f
  <1>2. Shapes /\ Modes /\ Counted /\ Told /\ Sockets /\ Kept /\ Phases /\ Polled
    BY DEF Inv
  <1>3. /\ DOMAIN slots' = DOMAIN slots
        /\ slots' \in [DOMAIN slots' -> SUBSET Kinds]
        /\ \A g \in DOMAIN slots : /\ slots[g] \ {"out"} \subseteq slots'[g]
                                   /\ slots'[g] \subseteq slots[g]
    BY <1>1, <1>2, UnaskTakes DEF Shapes, Kinds
  <1>4. Shapes'
    BY <1>1, <1>2, <1>3 DEF Shapes, Kinds
  <1>5. Modes' /\ Phases'
    BY <1>1, <1>2 DEF Modes, Phases
  <1>6. Counted' /\ Told' /\ Sockets' /\ Kept'
    BY <1>1, <1>2 DEF Counted, Told, Sockets, Kept, Open
  <1>7. Polled'
    <2>1. \A g \in events'.readable : g \in DOMAIN slots' /\ "in" \in slots'[g]
      BY <1>1, <1>2, <1>3 DEF Polled
    <2> QED BY <1>1, <1>2, <1>3, <2>1 DEF Polled
  <1> QED BY <1>4, <1>5, <1>6, <1>7 DEF Inv

(* The device hears of the clients that were read.                         *)
LEMMA AfterKeeps == ASSUME Inv, After PROVE Inv'
  <1>1. /\ UNCHANGED <<conn, left, said, unread, fd, map, gone, held, todo>>
        /\ UNCHANGED <<slots, events, reads, news, writes, inHand, shown, refused>>
        /\ UNCHANGED <<unsent, error, ctl, stop, starts, old>>
        /\ pc = "events" /\ pc' \in {"off", "poll", "after"} /\ known' = TRUE /\ tell' = reads
        /\ events = NoEvents
    BY DEF After, Serving, lists, hands, sends, NextCycle
  <1>2. Shapes /\ Modes /\ Counted /\ Told /\ Sockets /\ Kept /\ Phases /\ Polled
    BY DEF Inv
  <1>3. Shapes' /\ Modes' /\ Phases'
    BY <1>1, <1>2 DEF Shapes, Modes, Phases
  <1>4. Counted' /\ Told' /\ Sockets' /\ Kept' /\ Polled'
    BY <1>1, <1>2 DEF Counted, Told, Sockets, Kept, Polled, Open
  <1> QED BY <1>3, <1>4 DEF Inv

(* What is in hand is shown or refused.                                    *)
LEMMA ShowKeeps == ASSUME Inv, NEW p \in Peers, Show(p) PROVE Inv'
  <1>1. /\ UNCHANGED <<conn, left, said, unread, fd, map, gone, held, todo>>
        /\ UNCHANGED <<slots, events, reads, news, writes, unsent, error>>
        /\ UNCHANGED <<ctl, stop, known, starts, old>>
        /\ pc = "after" /\ pc' \in {"off", "poll", "after"} /\ tell' = tell \ {p}
        /\ inHand' = [inHand EXCEPT ![p] = 0]
        /\ \/ shown' = [shown EXCEPT ![p] = @ + inHand[p]] /\ UNCHANGED refused
           \/ refused' = [refused EXCEPT ![p] = @ + inHand[p]] /\ UNCHANGED shown
    BY DEF Show, Serving, lists, hands, sends, NextCycle
  <1>2. Shapes /\ Modes /\ Counted /\ Told /\ Sockets /\ Kept /\ Phases /\ Polled
    BY DEF Inv
  <1>3. Shapes' /\ Modes' /\ Phases'
    BY <1>1, <1>2 DEF Shapes, Modes, Phases
  <1>4. Counted'
    <2>1. \A q \in Peers : /\ said[q] \in Nat /\ unread[q] \in Nat /\ inHand[q] \in Nat
                           /\ shown[q] \in Nat /\ refused[q] \in Nat
                           /\ unread[q] + inHand[q] + shown[q] + refused[q] <= said[q]
      BY <1>2 DEF Counted
    <2>2. \A q \in Peers : /\ q # p => shown'[q] = shown[q] /\ refused'[q] = refused[q]
                           /\ q = p => \/ shown'[q] = shown[q] + inHand[q] /\ refused'[q] = refused[q]
                                       \/ refused'[q] = refused[q] + inHand[q] /\ shown'[q] = shown[q]
                           /\ inHand'[q] = IF q = p THEN 0 ELSE inHand[q]
      BY <1>1, <1>2 DEF Counted
    <2>3. \A q \in Peers : unread[q] + inHand'[q] + shown'[q] + refused'[q] <= said[q]
      BY <2>1, <2>2
    <2>4. shown' \in [Peers -> Nat] /\ refused' \in [Peers -> Nat] /\ inHand' \in [Peers -> Nat]
      BY <1>1, <1>2, <2>1 DEF Counted
    <2> QED BY <1>1, <1>2, <2>3, <2>4 DEF Counted
  <1>5. Told' /\ Sockets' /\ Kept' /\ Polled'
    BY <1>1, <1>2 DEF Told, Sockets, Kept, Polled, Open
  <1> QED BY <1>3, <1>4, <1>5 DEF Inv

(* A client that is removed keeps its socket until the lists are emptied,  *)
(* but no slot asks for it, nor for any other than a client.               *)
LEMMA RemoveClientKeeps == ASSUME Inv, NEW p \in Peers, RemoveClient(p) PROVE Inv'
  <1>1. /\ UNCHANGED <<conn, left, said, unread, fd, held, todo>>
        /\ UNCHANGED <<events, reads, news, writes, inHand, shown, refused>>
        /\ UNCHANGED <<unsent, error, ctl, stop, known, starts, old>>
        /\ pc = "after" /\ pc' \in {"off", "poll", "after"} /\ p \in tell /\ tell' = tell \ {p}
        /\ map' = map \ {p} /\ gone' = gone \ {p}
        /\ slots' = [g \in DOMAIN slots |-> IF g = fd[p] THEN {} ELSE slots[g]]
    BY DEF RemoveClient, Serving, lists, hands, sends, NextCycle
  <1>2. Shapes /\ Modes /\ Counted /\ Told /\ Sockets /\ Kept /\ Phases /\ Polled
    BY DEF Inv
  <1>3. Shapes'
    BY <1>1, <1>2 DEF Shapes
  <1>4. Modes' /\ Phases'
    BY <1>1, <1>2 DEF Modes, Phases
  <1>5. Counted' /\ Told'
    BY <1>1, <1>2 DEF Counted, Told
  <1>6. Sockets'
    <2>1. \A q \in map' \cup held' \cup reads' \cup news' \cup writes' : Open(q)
      BY <1>1, <1>2 DEF Sockets
    <2> QED BY <1>1, <1>2, <2>1 DEF Sockets, Open
  <1>7. Kept'
    <2>1. IsFiniteSet(map) /\ Cardinality(map) \in Nat /\ MaxClients \in Nat
      BY <1>2, Numbers, FS_Subset, FS_CardinalityType DEF Shapes
    <2>2. Cardinality(map') \in {Cardinality(map), Cardinality(map) - 1}
      BY <1>1, <2>1, FS_RemoveElement
    <2>3. Cardinality(map') <= MaxClients /\ Cardinality(held) <= MaxClients
      BY <1>2, <2>1, <2>2 DEF Kept
    <2> QED BY <1>1, <2>3 DEF Kept
  <1>8. Polled'
    <2>1. events'.readable = {}
      BY <1>1, <1>2 DEF Phases, NoEvents
    <2>2. \A g \in DOMAIN slots' : g <= 2 * MaxClients
      BY <1>1, <1>2 DEF Polled
    <2>3. ASSUME NEW g \in DOMAIN slots', slots'[g] # {} PROVE \E q \in map' : fd[q] = g
      <3>1. g \in DOMAIN slots /\ g # fd[p] /\ slots[g] # {}
        BY <1>1, <2>3
      <3>2. PICK q \in map : fd[q] = g
        BY <1>2, <3>1 DEF Polled
      <3> QED BY <1>1, <3>1, <3>2
    <2> QED BY <1>1, <2>1, <2>2, <2>3 DEF Polled
  <1> QED BY <1>3, <1>4, <1>5, <1>6, <1>7, <1>8 DEF Inv

-----------------------------------------------------------------------------
(* The sender.                                                             *)

(* The copy of the map has as many clients as the map.                     *)
LEMMA BeginSendKeeps == ASSUME Inv, BeginSend PROVE Inv'
  <1>1. /\ UNCHANGED <<conn, left, said, unread, fd, map, gone>>
        /\ UNCHANGED <<pc, slots, events, reads, news, writes, tell, inHand, shown, refused>>
        /\ UNCHANGED <<unsent, error, ctl, stop, known, starts, old>>
        /\ held = {} /\ held' = map /\ todo' = map
    BY DEF BeginSend, Sending, sockets, lists, hands, sends
  <1>2. Shapes /\ Modes /\ Counted /\ Told /\ Sockets /\ Kept /\ Phases /\ Polled
    BY DEF Inv
  <1>3. Shapes' /\ Modes' /\ Phases'
    BY <1>1, <1>2 DEF Shapes, Modes, Phases
  <1>4. Counted'
    BY <1>1, <1>2, CountedKept
  <1>5. Told'
    BY <1>1, <1>2 DEF Told
  <1>6. Sockets'
    BY <1>1, <1>2 DEF Sockets, Open
  <1>7. Kept' /\ Polled'
    BY <1>1, <1>2 DEF Kept, Polled, Open
  <1> QED BY <1>3, <1>4, <1>5, <1>6, <1>7 DEF Inv

(* Only a client that is still in the map is given something to send.      *)
LEMMA SendToKeeps == ASSUME Inv, NEW p \in Peers, SendTo(p) PROVE Inv'
  <1>1. /\ UNCHANGED <<conn, left, said, unread, fd, map, gone, held>>
        /\ UNCHANGED <<pc, events, reads, news, writes, tell, inHand, shown, refused, error>>
        /\ UNCHANGED <<ctl, stop, known, starts, old>>
        /\ pc # "writing" /\ todo' = todo \ {p}
        /\ IF p \in map
           THEN unsent' = unsent \cup {p} /\ slots' = Ask(fd[p], "out")
           ELSE UNCHANGED <<unsent, slots>>
    BY DEF SendTo, Sending, MutexFree, sockets, lists, hands, sends
  <1>2. Shapes /\ Modes /\ Counted /\ Told /\ Sockets /\ Kept /\ Phases /\ Polled
    BY DEF Inv
  <1>3. Modes' /\ Phases'
    BY <1>1, <1>2 DEF Modes, Phases
  <1>4. Counted' /\ Sockets' /\ Kept'
    BY <1>1, <1>2 DEF Counted, Sockets, Kept, Open
  <1>5. CASE p \notin map
    <2>1. Shapes' /\ Told' /\ Polled'
      BY <1>1, <1>2, <1>5 DEF Shapes, Told, Polled
    <2> QED BY <1>3, <1>4, <2>1 DEF Inv
  <1>6. CASE p \in map
    <2>1. Open(p) /\ fd[p] \in Fds /\ fd[p] <= 2 * MaxClients
      BY <1>2, <1>6 DEF Sockets
    <2>2. unsent' = unsent \cup {p} /\ slots' = Ask(fd[p], "out")
      BY <1>1, <1>6
    <2>3. /\ DOMAIN slots \subseteq DOMAIN slots'
          /\ DOMAIN slots' \subseteq DOMAIN slots \cup {fd[p]}
          /\ slots' \in [DOMAIN slots' -> SUBSET Kinds]
          /\ \A g \in DOMAIN slots : slots[g] \subseteq slots'[g]
          /\ \A g \in DOMAIN slots : g # fd[p] => slots'[g] = slots[g]
      BY <1>2, <2>1, <2>2, AskAdds DEF Shapes, Kinds
    <2>4. Shapes'
      <3>1. DOMAIN slots' \subseteq Fds
        BY <1>2, <2>1, <2>3 DEF Shapes
      <3> QED BY <1>1, <1>2, <2>3, <3>1 DEF Shapes, Kinds
    <2>5. Told'
      BY <1>1, <1>2, <2>1, <2>2 DEF Told, Open
    <2>6. Polled'
      <3>1. \A g \in DOMAIN slots' : g <= 2 * MaxClients
        BY <1>2, <2>1, <2>3 DEF Polled
      <3>2. \A g \in DOMAIN slots' : slots'[g] # {} => \E q \in map : fd[q] = g
        BY <1>2, <1>6, <2>3 DEF Polled
      <3>3. \A g \in events.readable : g \in DOMAIN slots' /\ "in" \in slots'[g]
        BY <1>2, <2>3 DEF Polled
      <3> QED BY <1>1, <1>2, <3>1, <3>2, <3>3 DEF Polled
    <2> QED BY <1>3, <1>4, <2>4, <2>5, <2>6 DEF Inv
  <1> QED BY <1>5, <1>6

(* The end of a send closes the sockets that only the copy kept.           *)
LEMMA EndSendKeeps == ASSUME Inv, EndSend PROVE Inv'
  <1> DEFINE used == map \cup reads \cup news \cup writes
  <1>1. /\ UNCHANGED <<left, said, unread, map, gone, todo>>
        /\ UNCHANGED <<pc, slots, events, reads, news, writes, tell, inHand, shown, refused>>
        /\ UNCHANGED <<unsent, error, ctl, stop, known, starts, old>>
        /\ held' = {}
    BY DEF EndSend, lists, hands, sends
  <1>2. /\ conn' = [p \in Peers |-> IF Open(p) /\ p \notin used THEN "closed" ELSE conn[p]]
        /\ fd' = [p \in Peers |-> IF p \in used THEN fd[p] ELSE 0]
    BY DEF EndSend, CloseUnless
  <1>3. Shapes /\ Modes /\ Counted /\ Told /\ Sockets /\ Kept /\ Phases /\ Polled
    BY DEF Inv
  <1>4. \A p \in used : p \in Peers /\ Open(p)
    BY <1>3 DEF Shapes, Sockets
  <1>5. /\ \A p \in Peers : conn'[p] = "open" <=> p \in used
        /\ \A p \in used : fd'[p] = fd[p]
        /\ \A p \in Peers : conn'[p] \in {"away", "queued"} => conn[p] \in {"away", "queued"}
    BY <1>2, <1>4 DEF Open
  <1>6. map \subseteq used
    OBVIOUS
  <1>7. Kept'
    <2>1. Cardinality(held') <= MaxClients
      BY <1>1, FS_EmptySet, Numbers
    <2>2. pc \in {"events", "writing"} => used \subseteq map
      BY <1>3 DEF Kept
    <2> QED BY <1>1, <1>3, <1>5, <2>1, <2>2 DEF Kept, Open
  <1>8. Sockets'
    <2>1. map' \cup held' \cup reads' \cup news' \cup writes' = used
      BY <1>1
    <2> HIDE DEF used
    <2> QED BY <1>3, <1>4, <1>5, <2>1, SocketsKept
  <1>9. Shapes'
    <2>1. /\ conn' \in [Peers -> {"away", "queued", "open", "closed"}]
          /\ fd' \in [Peers -> Fds \cup {0}]
      BY <1>2, <1>3 DEF Shapes
    <2> QED BY <1>1, <1>3, <2>1 DEF Shapes
  <1> HIDE DEF used
  <1>10. Modes' /\ Phases'
    BY <1>1, <1>3 DEF Modes, Phases
  <1>11. Counted'
    BY <1>1, <1>3, CountedKept
  <1>12. Told'
    BY <1>1, <1>3, <1>5, ToldKept
  <1>13. Polled'
    BY <1>1, <1>3, <1>5, <1>6 DEF Polled
  <1> QED BY <1>7, <1>8, <1>9, <1>10, <1>11, <1>12, <1>13 DEF Inv

-----------------------------------------------------------------------------
(* The thread that starts and stops the device.                            *)

(* A start finds the serving thread ended, and the clients that were left. *)
LEMMA StartDeviceKeeps == ASSUME Inv, StartDevice PROVE Inv'
  <1>1. /\ UNCHANGED <<conn, left, said, unread, fd, map, gone, held, todo>>
        /\ UNCHANGED <<slots, events, reads, news, writes, tell, inHand, shown, refused>>
        /\ UNCHANGED <<unsent, error, stop, known>>
        /\ ctl = "idle" /\ ctl' = "started" /\ pc' = "setup" /\ old' = map
        /\ starts < MaxStarts /\ starts' = starts + 1
    BY DEF StartDevice, Control, lists, hands, sends
  <1>2. Shapes /\ Modes /\ Counted /\ Told /\ Sockets /\ Kept /\ Phases /\ Polled
    BY DEF Inv
  <1>3. Shapes' /\ Phases'
    BY <1>1, <1>2 DEF Shapes, Phases
  <1>4. Modes'
    <2>1. starts' \in 0 .. MaxStarts
      BY <1>1, <1>2, Numbers DEF Modes
    <2> QED BY <1>1, <1>2, <2>1 DEF Modes
  <1>5. Counted' /\ Told' /\ Sockets' /\ Kept' /\ Polled'
    BY <1>1, <1>2 DEF Counted, Told, Sockets, Kept, Polled, Open
  <1> QED BY <1>3, <1>4, <1>5 DEF Inv

(* A stop that comes before the poll takes the slots from under it.        *)
LEMMA StopDeviceKeeps == ASSUME Inv, StopDevice PROVE Inv'
  <1>1. /\ UNCHANGED <<conn, left, said, unread, fd, map, gone, held, todo>>
        /\ UNCHANGED <<pc, events, reads, news, writes, tell, inHand, shown, refused>>
        /\ UNCHANGED <<unsent, error, known, starts, old>>
        /\ ctl' \in {"lost", "stopping"} /\ stop' = TRUE
        /\ slots' = slots \/ (pc = "ready" /\ slots' = <<>>)
    BY DEF StopDevice, Control, lists, hands, sends
  <1>2. Shapes /\ Modes /\ Counted /\ Told /\ Sockets /\ Kept /\ Phases /\ Polled
    BY DEF Inv
  <1>3. Shapes'
    BY <1>1, <1>2, NoSlots DEF Shapes, Kinds
  <1>4. Modes' /\ Phases'
    BY <1>1, <1>2 DEF Modes, Phases
  <1>5. Counted' /\ Told' /\ Sockets' /\ Kept'
    BY <1>1, <1>2 DEF Counted, Told, Sockets, Kept, Open
  <1>6. Polled'
    <2>1. CASE slots' = slots
      BY <1>1, <1>2, <2>1 DEF Polled
    <2>2. CASE pc = "ready" /\ slots' = <<>>
      <3>1. events'.readable = {}
        BY <1>1, <1>2, <2>2 DEF Phases, NoEvents
      <3> QED BY <2>2, <3>1, NoSlots DEF Polled
    <2> QED BY <1>1, <2>1, <2>2
  <1> QED BY <1>3, <1>4, <1>5, <1>6 DEF Inv

(* The end of a stop closes what waits to be accepted.                     *)
LEMMA StoppedKeeps == ASSUME Inv, Stopped PROVE Inv'
  <1>1. /\ UNCHANGED <<left, said, unread, fd, map, gone, held, todo>>
        /\ UNCHANGED <<pc, events, reads, news, writes, tell, inHand, shown, refused>>
        /\ UNCHANGED <<unsent, error, stop, known, starts, old>>
        /\ ctl' = "idle" /\ pc = "off" /\ slots' = <<>>
        /\ conn' = [p \in Peers |-> IF conn[p] = "queued" THEN "closed" ELSE conn[p]]
    BY DEF Stopped, Control, lists, hands, sends
  <1>2. Shapes /\ Modes /\ Counted /\ Told /\ Sockets /\ Kept /\ Phases /\ Polled
    BY DEF Inv
  <1>3. /\ \A p \in Peers : conn'[p] = "open" <=> Open(p)
        /\ \A p \in Peers : conn'[p] \in {"away", "queued"} => conn[p] \in {"away", "queued"}
    BY <1>1 DEF Open
  <1>4. Shapes'
    <2>1. conn' \in [Peers -> {"away", "queued", "open", "closed"}]
      BY <1>1, <1>2 DEF Shapes
    <2> QED BY <1>1, <1>2, <2>1, NoSlots DEF Shapes, Kinds
  <1>5. Modes' /\ Phases'
    BY <1>1, <1>2 DEF Modes, Phases
  <1>6. Counted'
    BY <1>1, <1>2, CountedKept
  <1>7. Told'
    BY <1>1, <1>2, <1>3, ToldKept
  <1>8. Sockets'
    <2>1. \A p \in map' \cup held' \cup reads' \cup news' \cup writes' : p \in Peers /\ Open(p)
      BY <1>1, <1>2 DEF Shapes, Sockets
    <2> QED BY <1>1, <1>2, <1>3, <2>1, SocketsKept
  <1>9. Kept'
    BY <1>1, <1>2, <1>3, KeptSame
  <1>10. Polled'
    <2>1. events'.readable = {}
      BY <1>1, <1>2 DEF Phases, NoEvents
    <2> QED BY <1>1, <2>1, NoSlots DEF Polled
  <1> QED BY <1>4, <1>5, <1>6, <1>7, <1>8, <1>9, <1>10 DEF Inv

-----------------------------------------------------------------------------
(* A new server keeps no client and polls nothing.                         *)
LEMMA InitInv == Init => Inv
  <1> SUFFICES ASSUME Init PROVE Inv
    OBVIOUS
  <1> USE DEF Init
  <1>1. MaxClients \in Nat /\ MaxStarts \in Nat
    BY Numbers
  <1>2. Shapes
    <2>1. events \in [readable : SUBSET Fds, writable : SUBSET Fds, accept : BOOLEAN]
      BY DEF NoEvents
    <2>2. slots = <<>>
      OBVIOUS
    <2>3. slots \in [DOMAIN slots -> SUBSET Kinds] /\ DOMAIN slots \subseteq Fds
      BY <2>2, NoSlots
    <2>4. conn \in [Peers -> {"away", "queued", "open", "closed"}] /\ fd \in [Peers -> Fds \cup {0}]
      OBVIOUS
    <2> QED BY <2>1, <2>3, <2>4 DEF Shapes, Kinds
  <1>3. Modes
    <2>1. stop = FALSE /\ known = FALSE /\ starts = 0 /\ pc = "off" /\ ctl = "idle"
      OBVIOUS
    <2>2. starts \in 0 .. MaxStarts
      BY <1>1, <2>1
    <2>3. stop \in BOOLEAN /\ known \in BOOLEAN
      BY <2>1
    <2> HIDE DEF Init
    <2> QED BY <2>1, <2>2, <2>3 DEF Modes
  <1>4. Counted
    <2>1. said = [p \in Peers |-> 0] /\ unread = said /\ inHand = said /\ shown = said
          /\ refused = said
      OBVIOUS
    <2> QED BY <1>1, <2>1 DEF Counted
  <1>5. Told
    BY DEF Told
  <1>6. Sockets
    BY DEF Sockets, Open
  <1>7. Kept
    <2>1. map = {} /\ held = {} /\ pc = "off"
      OBVIOUS
    <2> QED BY <1>1, <2>1, FS_EmptySet DEF Kept
  <1>8. Phases
    BY DEF Phases
  <1>9. Polled
    <2>1. slots = <<>> /\ events.readable = {}
      BY DEF NoEvents
    <2> QED BY <2>1, NoSlots DEF Polled
  <1> QED BY <1>2, <1>3, <1>4, <1>5, <1>6, <1>7, <1>8, <1>9 DEF Inv

(* Every step keeps the invariant.                                         *)
LEMMA NextInv == Inv /\ [Next]_vars => Inv'
  <1> SUFFICES ASSUME Inv, [Next]_vars PROVE Inv'
    OBVIOUS
  <1>1. CASE Server
    BY <1>1, SetupKeeps, ServeKeeps, PollOnceKeeps, AcceptKeeps, ReadKeeps, WriteKeeps,
       WrittenKeeps, AfterKeeps, ShowKeeps, RemoveClientKeeps DEF Server
  <1>2. CASE Sender
    BY <1>2, BeginSendKeeps, SendToKeeps, EndSendKeeps DEF Sender
  <1>3. CASE Controller
    BY <1>3, StartDeviceKeeps, StopDeviceKeeps, StoppedKeeps DEF Controller
  <1>4. CASE \E p \in Peers : Connects(p) \/ Says(p) \/ Leaves(p)
    BY <1>4, ConnectsKeeps, SaysKeeps, LeavesKeeps
  <1>5. CASE UNCHANGED vars
    <2>1. /\ UNCHANGED <<conn, left, said, unread, fd, map, gone, held, todo>>
          /\ UNCHANGED <<pc, slots, events, reads, news, writes, tell, inHand, shown, refused>>
          /\ UNCHANGED <<unsent, error, ctl, stop, known, starts, old>>
      BY <1>5 DEF vars, sockets, lists, hands, sends
    <2>2. Shapes /\ Modes /\ Counted /\ Told /\ Sockets /\ Kept /\ Phases /\ Polled
      BY DEF Inv
    <2>3. Shapes' /\ Modes' /\ Phases'
      BY <2>1, <2>2 DEF Shapes, Modes, Phases
    <2>4. Counted' /\ Told' /\ Sockets' /\ Kept' /\ Polled'
      BY <2>1, <2>2 DEF Counted, Told, Sockets, Kept, Polled, Open
    <2> QED BY <2>3, <2>4 DEF Inv
  <1> QED BY <1>1, <1>2, <1>3, <1>4, <1>5 DEF Next

(* The invariant holds in every behaviour of the server, its peers, its    *)
(* sender and the thread that starts and stops it.                         *)
THEOREM Invariance == Spec => []Inv
  BY InitInv, NextInv, PTL DEF Spec

(* Every client of the map or of the sender's copy has an open socket, and *)
(* no two the same descriptor, for any number of clients that come and go. *)
THEOREM TypeCorrect == Spec => []TypeOK
  <1>1. Inv => TypeOK
    <2> SUFFICES ASSUME Inv PROVE TypeOK
      OBVIOUS
    <2>1. Shapes /\ Modes /\ Counted /\ Told /\ Sockets
      BY DEF Inv
    <2>2. {said, unread, inHand, shown, refused} \subseteq [Peers -> Nat]
      BY <2>1 DEF Counted
    <2>3. \A p \in map \cup held : Open(p) /\ \A q \in map \cup held : fd[p] = fd[q] => p = q
      BY <2>1 DEF Sockets, Shapes
    <2>4. {left, map, gone, held, todo, reads, news, writes, tell, unsent, error, old}
              \subseteq SUBSET Peers
      BY <2>1 DEF Shapes
    <2>5. /\ DOMAIN slots \subseteq Fds /\ \A f \in DOMAIN slots : slots[f] \subseteq {"in", "out"}
          /\ events.readable \cup events.writable \subseteq Fds /\ events.accept \in BOOLEAN
      BY <2>1 DEF Shapes
    <2>7. /\ conn \in [Peers -> {"away", "queued", "open", "closed"}]
          /\ fd \in [Peers -> Fds \cup {0}]
      BY <2>1 DEF Shapes
    <2> QED BY <2>1, <2>2, <2>3, <2>4, <2>5, <2>7 DEF TypeOK, Modes
  <1> QED BY <1>1, Invariance, PTL

(* The serving thread, which holds the mutex every sender needs, reads     *)
(* only where something is to be read, however clients leave and their     *)
(* descriptors are given to others.                                        *)
THEOREM ReadsDoNotBlock == Spec => []ReadNeverBlocks
  <1>1. Inv => ReadNeverBlocks
    <2> SUFFICES ASSUME Inv, NEW f \in events.readable PROVE Owner(f) \in map /\ Readable(f)
      BY DEF ReadNeverBlocks
    <2>1. Shapes /\ Sockets /\ Polled
      BY DEF Inv
    <2>2. PICK p \in map : fd[p] = f
      BY <2>1 DEF Polled
    <2>3. p \in Peers /\ Open(p)
      BY <2>1 DEF Shapes, Sockets
    <2>4. Owner(f) = p
      BY <2>1, <2>2, <2>3, OwnerIs
    <2>5. unread[p] > 0 \/ p \in left
      BY <2>1, <2>2 DEF Polled
    <2>6. p # NoPeer
      BY <2>3, TcpServerAssumption
    <2> QED BY <2>4, <2>5, <2>6 DEF Readable
  <1> QED BY <1>1, Invariance, PTL

-----------------------------------------------------------------------------
(* The clients stay polled.                                                *)

(* What ClientsArePolled says of one client.                               *)
PolledFor(p) ==
    Room(fd[p]) => /\ p \notin gone => fd[p] \in DOMAIN slots /\ "in" \in slots[fd[p]]
                   /\ p \in unsent => fd[p] \in DOMAIN slots /\ "out" \in slots[fd[p]]

(* It is said of the clients of the run.                                   *)
LEMMA ClientsPolledFor ==
    ClientsArePolled <=> (Active => \A p \in map \ old : PolledFor(p))
  BY DEF ClientsArePolled, PolledFor

(* It is kept in the next state, once the poll is active, when it is for   *)
(* each client.                                                            *)
LEMMA NextPolledFor ==
    ASSUME Active' => \A p \in map' \ old' : PolledFor(p)' PROVE ClientsArePolled'
  BY DEF ClientsArePolled, PolledFor

(* A list that only grows in a run has no more room than it had for a      *)
(* descriptor that is not added.                                           *)
LEMMA RoomShrinks ==
    ASSUME Shapes, Modes, UNCHANGED starts, NEW g, g \in DOMAIN slots' => g \in DOMAIN slots,
           DOMAIN slots \subseteq DOMAIN slots', DOMAIN slots' \subseteq Fds, Room(g)'
    PROVE  Room(g)
  <1> SUFFICES ASSUME g \notin DOMAIN slots
               PROVE  Cardinality(DOMAIN slots) + 1 < PollLimit[starts]
    BY DEF Room
  <1>1. Cardinality(DOMAIN slots') + 1 < PollLimit[starts]
    BY DEF Room
  <1>2. PollLimit[starts] \in Nat
    BY TcpServerAssumption DEF Modes
  <1>3. IsFiniteSet(Fds)
    BY Numbers, FS_Interval DEF Fds
  <1>4. IsFiniteSet(DOMAIN slots')
    BY <1>3, FS_Subset
  <1>5. /\ IsFiniteSet(DOMAIN slots)
        /\ Cardinality(DOMAIN slots) <= Cardinality(DOMAIN slots')
    BY <1>4, FS_Subset
  <1>6. Cardinality(DOMAIN slots) \in Nat /\ Cardinality(DOMAIN slots') \in Nat
    BY <1>4, <1>5, FS_CardinalityType
  <1> QED BY <1>1, <1>2, <1>5, <1>6

(* A client stays polled when its own slot loses nothing that is still     *)
(* asked for.                                                              *)
LEMMA OneStaysPolled ==
    ASSUME Shapes, Modes, UNCHANGED starts, NEW q \in Peers, PolledFor(q), fd'[q] = fd[q],
           DOMAIN slots \subseteq DOMAIN slots', DOMAIN slots' \subseteq Fds,
           fd[q] \in DOMAIN slots' => fd[q] \in DOMAIN slots,
           q \notin gone' => /\ q \notin gone
                             /\ fd[q] \in DOMAIN slots /\ "in" \in slots[fd[q]] =>
                                    "in" \in slots'[fd[q]],
           q \in unsent' => /\ q \in unsent
                            /\ fd[q] \in DOMAIN slots /\ "out" \in slots[fd[q]] =>
                                   "out" \in slots'[fd[q]]
    PROVE  PolledFor(q)'
  <1> DEFINE g == fd[q]
  <1> SUFFICES ASSUME Room(fd[q])'
               PROVE  /\ q \notin gone' => g \in DOMAIN slots' /\ "in" \in slots'[g]
                      /\ q \in unsent' => g \in DOMAIN slots' /\ "out" \in slots'[g]
    BY DEF PolledFor
  <1>1. g \in DOMAIN slots' \/ Cardinality(DOMAIN slots') + 1 < PollLimit[starts']
    BY DEF Room
  <1>2. ASSUME NEW h, h = g PROVE Room(h)
    <2>1. Room(h)'
      BY <1>1, <1>2 DEF Room
    <2>2. h \in DOMAIN slots' => h \in DOMAIN slots
      BY <1>2
    <2> QED BY <2>1, <2>2, RoomShrinks
  <1>3. Room(fd[q])
    BY <1>2
  <1>4. /\ q \notin gone => g \in DOMAIN slots /\ "in" \in slots[g]
        /\ q \in unsent => g \in DOMAIN slots /\ "out" \in slots[g]
    BY <1>3 DEF PolledFor
  <1> QED BY <1>4

(* A step that takes nothing from a slot keeps the clients polled, when it *)
(* adds none and leaves nothing new to be sent to them.                    *)
LEMMA StayPolled ==
    ASSUME Shapes, Modes, ClientsArePolled, Active' => Active, UNCHANGED <<map, old, starts>>,
           \A p \in map : /\ fd'[p] = fd[p]
                          /\ p \notin gone' => p \notin gone
                          /\ p \in unsent' => p \in unsent,
           DOMAIN slots' = DOMAIN slots, \A f \in DOMAIN slots : slots[f] \subseteq slots'[f]
    PROVE  ClientsArePolled'
  <1> SUFFICES ASSUME Active', NEW q \in map \ old PROVE PolledFor(q)'
    BY NextPolledFor
  <1>1. PolledFor(q) /\ q \in Peers /\ DOMAIN slots' \subseteq Fds
    BY ClientsPolledFor DEF Shapes
  <1> QED BY <1>1, OneStaysPolled

(* An inactive poll has no client to poll.                                 *)
LEMMA NotActive == ASSUME ~Active' PROVE ClientsArePolled'
  BY DEF ClientsArePolled

(* The peers' steps, and the serving thread's that ask nothing.            *)
LEMMA QuietStayPolled ==
    ASSUME Inv, ClientsArePolled,
           \/ \E p \in Peers : Connects(p) \/ Says(p) \/ Leaves(p)
           \/ After \/ (\E p \in Peers : Show(p))
           \/ BeginSend
           \/ UNCHANGED vars
    PROVE  ClientsArePolled'
  <1>1. UNCHANGED <<fd, map, gone, slots, unsent, ctl, old, starts>>
    BY DEF Connects, Says, Leaves, Network, After, Show, Serving, BeginSend, Sending, vars,
           sockets, lists, sends
  <1>2. pc' = pc \/ pc \in {"events", "after"}
    BY DEF Connects, Says, Leaves, Network, After, Show, Serving, BeginSend, Sending, vars,
           sockets, lists
  <1>3. Active' => Active
    BY <1>1, <1>2 DEF Active
  <1>4. Shapes /\ Modes
    BY DEF Inv
  <1> QED BY <1>1, <1>3, <1>4, StayPolled

(* The sockets that are closed are no client's.                            *)
LEMMA CloseStayPolled ==
    ASSUME Inv, ClientsArePolled, PollOnce \/ EndSend
    PROVE  ClientsArePolled'
  <1>1. UNCHANGED <<map, gone, slots, unsent, ctl, old, starts>> /\ (Active' => Active)
    BY DEF PollOnce, EndSend, Serving, Active, sends
  <1>2. map \subseteq Peers /\ Shapes /\ Modes
    BY DEF Inv, Shapes
  <1>3. \A p \in map : fd'[p] = fd[p]
    BY <1>2 DEF PollOnce, EndSend, CloseUnless
  <1> QED BY <1>1, <1>2, <1>3, StayPolled

(* The poll begins with no client of its own.                              *)
LEMMA BeginStayPolled ==
    ASSUME Inv, Setup \/ Serve \/ StartDevice PROVE ClientsArePolled'
  <1>1. CASE Setup \/ StartDevice
    <2>1. pc' \in {"setup", "ready"}
      BY <1>1 DEF Setup, Serving, StartDevice
    <2> QED BY <2>1, NotActive DEF Active
  <1>2. CASE Serve
    <2>1. map \subseteq old /\ UNCHANGED <<map, old>>
      BY <1>2 DEF Inv, Phases, Serve, Serving
    <2> QED BY <2>1 DEF ClientsArePolled
  <1> QED BY <1>1, <1>2

(* A stop that is not lost leaves the slots until the poll is over.        *)
LEMMA StopStayPolled ==
    ASSUME Inv, ClientsArePolled, StopDevice \/ Stopped PROVE ClientsArePolled'
  <1>1. CASE Stopped
    <2>1. pc' = "off"
      BY <1>1 DEF Stopped, Control, Inv, Modes
    <2> QED BY <2>1, NotActive DEF Active
  <1>2. CASE StopDevice /\ pc = "ready"
    <2>1. pc' = "ready"
      BY <1>2 DEF StopDevice, Control
    <2> QED BY <2>1, NotActive DEF Active
  <1>3. CASE StopDevice /\ pc # "ready"
    <2>1. UNCHANGED <<fd, map, gone, slots, unsent, pc, old, starts>> /\ ctl = "started"
      BY <1>3 DEF StopDevice, Control, sends
    <2>2. Active' => Active
      BY <2>1 DEF Active
    <2>3. Shapes /\ Modes
      BY DEF Inv
    <2> QED BY <2>1, <2>2, <2>3, StayPolled
  <1> QED BY <1>1, <1>2, <1>3

(* The client that is accepted is polled, if poll has room for it, and the *)
(* slots of the others are left to them.                                   *)
LEMMA AcceptStayPolled ==
    ASSUME Inv, ClientsArePolled, Accept PROVE ClientsArePolled'
  <1>1. UNCHANGED <<gone, unsent, ctl, old, starts>> /\ (Active' => Active)
    BY DEF Accept, Serving, Active, sends
  <1>2. Shapes /\ Modes /\ Told /\ Sockets /\ Kept /\ Polled
    BY DEF Inv
  <1>3. PICK p \in Peers :
          LET f == CHOOSE g \in Fds : /\ Owner(g) = NoPeer
                                      /\ \A h \in 1 .. g - 1 : Owner(h) # NoPeer
          IN  /\ conn[p] = "queued"
              /\ \/ /\ Cardinality(map) < MaxClients
                    /\ conn' = [conn EXCEPT ![p] = "open"]
                    /\ fd' = [fd EXCEPT ![p] = f]
                    /\ slots' = Ask(f, "in")
                    /\ map' = map \cup {p} /\ news' = news \cup {p}
                 \/ /\ conn' = [conn EXCEPT ![p] = "closed"]
                    /\ UNCHANGED <<fd, slots, map, news>>
    BY DEF Accept
  <1>4. CASE UNCHANGED <<fd, slots, map>>
    BY <1>1, <1>2, <1>4, StayPolled
  <1>5. CASE ~UNCHANGED <<fd, slots, map>>
    <2> DEFINE f == CHOOSE g \in Fds : /\ Owner(g) = NoPeer
                                       /\ \A h \in 1 .. g - 1 : Owner(h) # NoPeer
    <2>1. /\ conn[p] = "queued" /\ Cardinality(map) < MaxClients /\ fd' = [fd EXCEPT ![p] = f]
          /\ slots' = Ask(f, "in") /\ map' = map \cup {p}
      BY <1>3, <1>5
    <2>2. pc = "events"
      BY DEF Accept, Serving
    <2>3. f \in Fds /\ Owner(f) = NoPeer
      BY <1>2, <2>1, <2>2, FreeDescriptor DEF Shapes
    <2> HIDE DEF f
    <2>4. /\ DOMAIN slots \subseteq DOMAIN slots' /\ DOMAIN slots' \subseteq DOMAIN slots \cup {f}
          /\ DOMAIN slots' \subseteq Fds
          /\ \A g \in DOMAIN slots : slots[g] \subseteq slots'[g]
          /\ Room(f) => f \in DOMAIN slots' /\ "in" \in slots'[f]
      BY <1>2, <2>1, <2>3, AskAdds DEF Shapes, Kinds
    <2>5. fd'[p] = f /\ p \notin map /\ p \notin unsent'
      BY <1>1, <1>2, <2>1 DEF Shapes, Sockets, Told, Open
    <2> SUFFICES ASSUME Active', NEW q \in map' \ old' PROVE PolledFor(q)'
      BY NextPolledFor
    <2>6. CASE q = p
      <3>1. ASSUME Room(fd[p])' PROVE f \in DOMAIN slots' /\ "in" \in slots'[f]
        <4>1. CASE Room(f)
          BY <2>4, <4>1
        <4>2. CASE ~Room(f)
          BY <1>1, <2>1, <2>5, <3>1, <4>2 DEF Room, Ask
        <4> QED BY <4>1, <4>2
      <3> QED BY <2>5, <2>6, <3>1 DEF PolledFor
    <2>7. CASE q # p
      <3>1. q \in map \ old /\ q \in Peers /\ Open(q) /\ fd'[q] = fd[q]
        BY <1>1, <1>2, <2>1, <2>7 DEF Shapes, Sockets
      <3>2. fd[q] # f
        BY <2>3, <3>1, NoOwner
      <3>3. PolledFor(q)
        BY <1>1, <3>1, ClientsPolledFor
      <3> QED BY <1>1, <1>2, <2>4, <3>1, <3>2, <3>3, OneStaysPolled
    <2> QED BY <2>6, <2>7
  <1> QED BY <1>4, <1>5

(* Reading, only the slot of a client that has left is no more asked for.  *)
LEMMA ReadStayPolled ==
    ASSUME Inv, ClientsArePolled, NEW f \in Fds, Read(f) PROVE ClientsArePolled'
  <1> DEFINE p == Owner(f)
  <1>1. UNCHANGED <<fd, map, unsent, ctl, old, starts>> /\ (Active' => Active) /\ p \in map
    BY DEF Read, Serving, Active
  <1>2. Shapes /\ Modes /\ Sockets /\ Polled
    BY DEF Inv
  <1>3. p \in Peers /\ Open(p) /\ fd[p] = f
    BY <1>1, <1>2, OwnerHas, TcpServerAssumption DEF Shapes
  <1>4. \/ gone' = gone \ {p} /\ UNCHANGED slots
        \/ gone' = gone \cup {p} /\ slots' = Unask(f, "in")
    BY DEF Read
  <1>5. f \in DOMAIN slots /\ "in" \in slots[f]
    BY <1>2 DEF Read, Handles, Polled
  <1> HIDE DEF p
  <1>6. \A q \in map : q # p => fd[q] # f
    BY <1>2, <1>3 DEF Shapes, Sockets
  <1> SUFFICES ASSUME Active', NEW q \in map \ old PROVE PolledFor(q)'
    BY <1>1, NextPolledFor
  <1>7. PolledFor(q) /\ q \in Peers
    BY <1>1, <1>2, ClientsPolledFor DEF Shapes
  <1>8. CASE gone' = gone \ {p} /\ UNCHANGED slots
    <2>1. CASE q = p
      BY <1>1, <1>3, <1>5, <1>7, <1>8, <2>1 DEF PolledFor, Room
    <2>2. CASE q # p
      BY <1>1, <1>2, <1>7, <1>8, <2>2, OneStaysPolled DEF Shapes
    <2> QED BY <2>1, <2>2
  <1>9. CASE gone' = gone \cup {p} /\ slots' = Unask(f, "in")
    <2>1. /\ DOMAIN slots' = DOMAIN slots
          /\ \A g \in DOMAIN slots : /\ slots[g] \ {"in"} \subseteq slots'[g]
                                     /\ g # f => slots'[g] = slots[g]
      BY <1>2, <1>9, UnaskTakes DEF Shapes, Kinds
    <2>2. q \notin gone' => q # p /\ q \notin gone /\ fd[q] # f
      BY <1>6, <1>9
    <2>3. DOMAIN slots' \subseteq Fds
      BY <1>2, <2>1 DEF Shapes
    <2> QED BY <1>1, <1>2, <1>7, <2>1, <2>2, <2>3, OneStaysPolled
  <1> QED BY <1>4, <1>8, <1>9

(* What a write sends is no more to be sent.                               *)
LEMMA WriteStayPolled ==
    ASSUME Inv, ClientsArePolled, NEW f \in Fds, Write(f) PROVE ClientsArePolled'
  <1>1. /\ UNCHANGED <<fd, map, gone, slots, ctl, old, starts>> /\ (Active' => Active)
        /\ unsent' \subseteq unsent
    BY DEF Write, Serving, Active
  <1>2. Shapes /\ Modes
    BY DEF Inv
  <1> QED BY <1>1, <1>2, StayPolled

(* It is not asked to be written again, nor is any other client's slot     *)
(* changed.                                                                *)
LEMMA WrittenStayPolled ==
    ASSUME Inv, ClientsArePolled, Written PROVE ClientsArePolled'
  <1>1. UNCHANGED <<fd, map, gone, unsent, ctl, old, starts>> /\ (Active' => Active) /\ pc = "writing"
    BY DEF Written, Serving, Active, sends
  <1>2. Shapes /\ Modes /\ Sockets
    BY DEF Inv
  <1>3. PICK p \in map : tell = {p} /\ p \notin unsent
    BY <1>1 DEF Inv, Phases
  <1>4. slots' = Unask(fd[p], "out")
    BY <1>3 DEF Written
  <1>5. /\ DOMAIN slots' = DOMAIN slots
        /\ \A g \in DOMAIN slots : slots[g] \ {"out"} \subseteq slots'[g]
        /\ \A g \in DOMAIN slots : g # fd[p] => slots'[g] = slots[g]
    BY <1>2, <1>4, UnaskTakes DEF Shapes, Kinds
  <1>6. \A q \in map : q # p => fd[q] # fd[p]
    BY <1>2 DEF Shapes, Sockets
  <1> SUFFICES ASSUME Active', NEW q \in map \ old PROVE PolledFor(q)'
    BY <1>1, NextPolledFor
  <1>7. PolledFor(q) /\ q \in Peers /\ DOMAIN slots' \subseteq Fds
    BY <1>1, <1>2, <1>5, ClientsPolledFor DEF Shapes
  <1> QED BY <1>1, <1>2, <1>3, <1>5, <1>6, <1>7, OneStaysPolled

(* Only the slot of the client that is removed is emptied.                 *)
LEMMA RemoveStayPolled ==
    ASSUME Inv, ClientsArePolled, NEW p \in Peers, RemoveClient(p) PROVE ClientsArePolled'
  <1>1. /\ UNCHANGED <<fd, unsent, ctl, old, starts>> /\ (Active' => Active)
        /\ map' = map \ {p} /\ gone' = gone \ {p} /\ p \in tell /\ pc = "after"
        /\ slots' = [g \in DOMAIN slots |-> IF g = fd[p] THEN {} ELSE slots[g]]
    BY DEF RemoveClient, Serving, Active, sends
  <1>2. Shapes /\ Modes /\ Sockets /\ Phases
    BY DEF Inv
  <1>3. Open(p)
    BY <1>1, <1>2 DEF Phases, Sockets
  <1>4. \A q \in map' : q \in map /\ q # p /\ fd[q] # fd[p]
    BY <1>1, <1>2, <1>3 DEF Shapes, Sockets
  <1>5. DOMAIN slots' = DOMAIN slots /\ \A g \in DOMAIN slots : g # fd[p] => slots'[g] = slots[g]
    BY <1>1
  <1> SUFFICES ASSUME Active', NEW q \in map' \ old' PROVE PolledFor(q)'
    BY NextPolledFor
  <1>6. q \in map \ old /\ fd[q] # fd[p] /\ (q \notin gone' => q \notin gone)
    BY <1>1, <1>4
  <1>7. PolledFor(q) /\ q \in Peers /\ DOMAIN slots' \subseteq Fds
    BY <1>1, <1>2, <1>5, <1>6, ClientsPolledFor DEF Shapes
  <1> QED BY <1>1, <1>2, <1>5, <1>6, <1>7, OneStaysPolled

(* The slot of the client that is written to is asked for, if poll has     *)
(* room for it.                                                            *)
LEMMA SendStayPolled ==
    ASSUME Inv, ClientsArePolled, NEW p \in Peers, SendTo(p) PROVE ClientsArePolled'
  <1>1. /\ UNCHANGED <<fd, map, gone, pc, ctl, old, starts>> /\ (Active' => Active)
        /\ IF p \in map
           THEN unsent' = unsent \cup {p} /\ slots' = Ask(fd[p], "out")
           ELSE UNCHANGED <<unsent, slots>>
    BY DEF SendTo, Sending, Active, sockets
  <1>2. Shapes /\ Modes /\ Sockets
    BY DEF Inv
  <1>3. CASE p \notin map
    BY <1>1, <1>2, <1>3, StayPolled
  <1>4. CASE p \in map
    <2>1. fd[p] \in Fds
      BY <1>2, <1>4 DEF Sockets
    <2>2. unsent' = unsent \cup {p} /\ slots' = Ask(fd[p], "out")
      BY <1>1, <1>4
    <2>3. /\ DOMAIN slots \subseteq DOMAIN slots' /\ DOMAIN slots' \subseteq DOMAIN slots \cup {fd[p]}
          /\ DOMAIN slots' \subseteq Fds
          /\ \A g \in DOMAIN slots : slots[g] \subseteq slots'[g]
          /\ Room(fd[p]) => fd[p] \in DOMAIN slots' /\ "out" \in slots'[fd[p]]
      BY <1>2, <2>1, <2>2, AskAdds DEF Shapes, Kinds
    <2> SUFFICES ASSUME Active', NEW q \in map \ old PROVE PolledFor(q)'
      BY <1>1, NextPolledFor
    <2>4. PolledFor(q) /\ q \in Peers
      BY <1>1, <1>2, ClientsPolledFor DEF Shapes
    <2>5. CASE q = p
      <3>1. CASE Room(fd[p])
        BY <1>1, <2>3, <2>4, <2>5, <3>1 DEF PolledFor
      <3>2. CASE ~Room(fd[p])
        BY <1>1, <2>2, <2>5, <3>2 DEF PolledFor, Room, Ask
      <3> QED BY <3>1, <3>2
    <2>6. CASE q # p
      <3>1. fd[q] # fd[p]
        BY <1>2, <1>4, <2>4, <2>6 DEF Shapes, Sockets
      <3> QED BY <1>1, <1>2, <2>2, <2>3, <2>4, <2>6, <3>1, OneStaysPolled
    <2> QED BY <2>5, <2>6
  <1> QED BY <1>3, <1>4

(* Every client of a run that poll has room for is polled until it leaves, *)
(* and for writing while something is to be sent to it, whatever the limit *)
(* of poll, the number of clients and what is refused by the full list.    *)
THEOREM StayOnPoll == Spec => []ClientsArePolled
  <1>1. Init => ClientsArePolled
    BY DEF Init, ClientsArePolled, Active
  <1>2. Inv /\ ClientsArePolled /\ [Next]_vars => ClientsArePolled'
    <2> SUFFICES ASSUME Inv, ClientsArePolled, [Next]_vars PROVE ClientsArePolled'
      OBVIOUS
    <2>1. CASE Server
      BY <2>1, BeginStayPolled, CloseStayPolled, AcceptStayPolled, ReadStayPolled, WriteStayPolled,
         WrittenStayPolled, QuietStayPolled, RemoveStayPolled DEF Server
    <2>2. CASE Sender
      BY <2>2, QuietStayPolled, CloseStayPolled, SendStayPolled DEF Sender
    <2>3. CASE Controller
      BY <2>3, BeginStayPolled, StopStayPolled DEF Controller
    <2>4. CASE (\E p \in Peers : Connects(p) \/ Says(p) \/ Leaves(p)) \/ UNCHANGED vars
      BY <2>4, QuietStayPolled
    <2> QED BY <2>1, <2>2, <2>3, <2>4 DEF Next
  <1> QED BY <1>1, <1>2, Invariance, PTL DEF Spec

(* No client is left out where the list is long enough: for two            *)
(* generations of clients, those of the map and those of the copy that the *)
(* sender still walks, or for all the peers.  One slot for each client of  *)
(* the map would not do: a sender may keep as many that were removed open  *)
(* while as many new ones are accepted.                                    *)
THEOREM LongListsHaveRoom ==
    ASSUME \A n \in 0 .. MaxStarts : PollLimit[n] > 2 * MaxClients \/ PollLimit[n] > Cardinality(Peers)
    PROVE  Spec => [](\A p \in map : Room(fd[p]))
  <1>1. Inv => \A p \in map : Room(fd[p])
    <2> SUFFICES ASSUME Inv, NEW p \in map PROVE Room(fd[p])
      OBVIOUS
    <2>1. Shapes /\ Modes /\ Sockets /\ Polled
      BY DEF Inv
    <2>2. p \in Peers /\ fd[p] \in Fds /\ fd[p] <= 2 * MaxClients
      BY <2>1 DEF Shapes, Sockets
    <2>3. PollHasRoom
      BY <2>1 DEF PollHasRoom, Modes
    <2> QED BY <2>1, <2>2, <2>3, HasRoom DEF Shapes, Polled
  <1> QED BY <1>1, Invariance, PTL
=============================================================================
