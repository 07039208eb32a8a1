------------------------------- MODULE TcpServer -------------------------------
(***************************************************************************)
(* sihd::net::DeviceTcpServer: a device that serves its peers from one     *)
(* thread, which loops in Poll; TcpServer dispatches what a poll returned, *)
(* BasicServerHandler keeps the map of clients and the device shows what   *)
(* they said on its channel rx.  Whoever writes its channel tx sends to    *)
(* the clients from a thread of their own (the sender), and a third thread *)
(* starts and stops the device.                                            *)
(*                                                                         *)
(* A client object is shared: its socket is closed, and its descriptor     *)
(* given to the next one accepted, when the last reference is dropped.  So *)
(* the map, the lists of a cycle and the copy that a sender walks decide   *)
(* together which descriptors are in use.  Descriptors are numbers and the *)
(* smallest free one is taken, as accept does.  A peer connects once.      *)
(***************************************************************************)
EXTENDS Naturals, FiniteSets

CONSTANTS Peers, NoPeer,
          MaxClients,  \* _max_clients
          PollLimit,   \* Poll::_max_fds in each run, one of them for the listening socket
          MaxSaid,     \* bound: messages each peer sends
          MaxStarts    \* bound: starts of the device

Fds == 1 .. Cardinality(Peers)

ASSUME TcpServerAssumption ==
    /\ IsFiniteSet(Peers) /\ NoPeer \notin Peers
    /\ MaxClients \in Nat /\ MaxStarts \in Nat
    /\ PollLimit \in [0 .. MaxStarts -> Nat] /\ MaxSaid \in [Peers -> Nat]

VARIABLES
    conn,       \* each peer: "away", "queued", "open" or "closed", as the server sees it
    left,       \* the peers that closed their end
    said,       \* messages each peer has sent
    unread,     \* those of them in the socket
    fd,         \* the descriptor of each peer whose connection is open
    map,        \* the clients of _client_map
    gone,       \* Client::disconnected or Client::error, as a read left them
    held,       \* the clients in the copy that the sender walks, and
    todo        \* those of them it has not reached
sockets == <<conn, left, said, unread, fd>>

VARIABLES
    pc,         \* the serving thread
    slots,      \* Poll::_lst_fds: each descriptor's POLLIN and POLLOUT, "in" and "out"
    events,     \* the events of this cycle that remain: readable, writable, accept
    reads, news, writes,  \* _read_event_lst, _connect_event_lst, _write_event_lst
    tell,       \* the clients whose event is being handled, by the device for those of reads
    inHand,     \* messages in read_array, not written to rx
    shown,      \* messages written to rx, and
    refused,    \* those that the write refused, or found to change nothing
    unsent,     \* the clients whose write_array has not been sent since it was written
    error       \* Client::error, as a send left it
lists == <<reads, news, writes>>

VARIABLES
    ctl,        \* the thread that starts and stops the device
    stop,       \* Poll::_stop
    known,      \* BasicServerHandler::_server is set
    starts,
    old         \* the clients left in the map by the runs before this one

hands == <<inHand, shown, refused>>
sends == <<unsent, error>>

vars == <<sockets, map, gone, held, todo, pc, slots, events, lists, tell, hands, sends, ctl, stop,
          known, starts, old>>

NoEvents == [readable |-> {}, writable |-> {}, accept |-> FALSE]

Init == /\ conn = [p \in Peers |-> "away"] /\ left = {} /\ fd = [p \in Peers |-> 0]
        /\ said = [p \in Peers |-> 0] /\ unread = said /\ inHand = said /\ shown = said
        /\ refused = said /\ unsent = {} /\ error = {}
        /\ map = {} /\ gone = {} /\ held = {} /\ todo = {} /\ old = {}
        /\ pc = "off" /\ slots = <<>> /\ events = NoEvents
        /\ reads = {} /\ news = {} /\ writes = {} /\ tell = {}
        /\ ctl = "idle" /\ stop = FALSE /\ known = FALSE /\ starts = 0

-----------------------------------------------------------------------------
(* Poll's list: a descriptor keeps its slot when nothing is asked of it    *)
(* any more; a new one is refused when the list is full.                   *)

(* Mutant: what is asked of a slot replaces what was asked before.         *)
Ask_Replaces(f, kind) ==
    IF Cardinality(DOMAIN slots \cup {f}) < PollLimit[starts]
    THEN [g \in DOMAIN slots \cup {f} |-> IF g = f THEN {kind} ELSE slots[g]]
    ELSE slots

Room(f) == f \in DOMAIN slots \/ Cardinality(DOMAIN slots) + 1 < PollLimit[starts]
Ask(f, kind) ==
    IF Room(f)
    THEN [g \in DOMAIN slots \cup {f} |->
            (IF g \in DOMAIN slots THEN slots[g] ELSE {}) \cup (IF g = f THEN {kind} ELSE {})]
    ELSE slots
Unask(f, kind) == [g \in DOMAIN slots |-> IF g = f THEN slots[g] \ {kind} ELSE slots[g]]

Open(p) == conn[p] = "open"
Owner(f) == IF \E p \in Peers : Open(p) /\ fd[p] = f
            THEN CHOOSE p \in Peers : Open(p) /\ fd[p] = f ELSE NoPeer

(* Mutant: clients() gives pointers that keep nothing alive.               *)
CloseUnless_Map(used) ==
    /\ conn' = [p \in Peers |-> IF Open(p) /\ p \notin map THEN "closed" ELSE conn[p]]
    /\ fd' = [p \in Peers |-> IF p \in map THEN fd[p] ELSE 0]

(* The sockets of the clients that nothing refers to any more are closed.  *)
CloseUnless(used) ==
    /\ conn' = [p \in Peers |-> IF Open(p) /\ p \notin used THEN "closed" ELSE conn[p]]
    /\ fd' = [p \in Peers |-> IF p \in used THEN fd[p] ELSE 0]

(* _mutex of the handler, which the serving thread holds from send_all to  *)
(* remove_client_write; every other section is one step.                   *)
MutexFree == pc # "writing"

-----------------------------------------------------------------------------
(* The peers.  What a peer does before it is accepted shows only then, and *)
(* counts from then on.                                                    *)

Network(s) == UNCHANGED <<map, gone, held, todo, pc, slots, events, lists, tell, hands, sends,
                          ctl, stop, known, starts, old>> /\ UNCHANGED s

Connects(p) == /\ conn[p] = "away" /\ pc \notin {"off", "setup"}
               /\ conn' = [conn EXCEPT ![p] = "queued"]
               /\ Network(<<left, said, unread, fd>>)

Says(p) == /\ Open(p) /\ p \notin left
           /\ said[p] < MaxSaid[p]
           /\ said' = [said EXCEPT ![p] = @ + 1]
           /\ unread' = [unread EXCEPT ![p] = @ + 1]
           /\ Network(<<conn, left, fd>>)

Leaves(p) == /\ Open(p) /\ p \notin left
             /\ left' = left \cup {p}
             /\ Network(<<conn, said, unread, fd>>)

-----------------------------------------------------------------------------
(* The serving thread.  TcpServer::on_start: set the poll up, declare the  *)
(* server ready, and poll until it is stopped.                             *)

Serving(from, to, s) ==
    /\ pc = from /\ pc' = to
    /\ UNCHANGED <<left, said, ctl, starts, old, held, todo>> /\ UNCHANGED s

Setup == /\ Serving("setup", "ready", <<conn, unread, fd, map, gone, events, lists, tell, hands,
                                        sends, stop, known>>)
         /\ slots' = <<>>

Serve == /\ Serving("ready", "poll", <<conn, unread, fd, map, gone, slots, events, lists, tell,
                                       hands, sends, known>>)
         /\ stop' = FALSE

Readable(f) == LET p == Owner(f) IN p # NoPeer /\ (unread[p] > 0 \/ p \in left)

(* One poll: what its slots report, then handle_activity or                *)
(* handle_no_activity, which empty the lists of the cycle before.          *)
PollOnce == LET ready == {f \in DOMAIN slots : "in" \in slots[f] /\ Readable(f)}
            IN  /\ Serving("poll", "events", <<unread, map, gone, slots, tell, hands, sends,
                                               stop, known>>)
                /\ events' = [readable |-> ready,
                              writable |-> {f \in DOMAIN slots \ ready :
                                                "out" \in slots[f] /\ Owner(f) # NoPeer},
                              accept |-> ctl # "lost" /\ \E p \in Peers : conn[p] = "queued"]
                /\ reads' = {} /\ news' = {} /\ writes' = {}
                /\ CloseUnless(map \cup held)

(* The listening socket has the first slot: handle_new_client.  The client *)
(* is refused when the map is full or its TLS handshake fails, but not     *)
(* when poll has no slot for it: what add_client_read returns is ignored.  *)
Accept == /\ Serving("events", "events", <<unread, gone, reads, writes, tell, hands, sends, stop,
                                           known>>)
          /\ events.accept
          /\ events' = [events EXCEPT !.accept = FALSE]
          /\ \E p \in Peers :
                LET f == CHOOSE g \in Fds : /\ Owner(g) = NoPeer
                                            /\ \A h \in 1 .. g - 1 : Owner(h) # NoPeer
                IN  /\ conn[p] = "queued"
                    /\ \/ /\ Cardinality(map) < MaxClients
                          /\ conn' = [conn EXCEPT ![p] = "open"]
                          /\ fd' = [fd EXCEPT ![p] = f]
                          /\ slots' = Ask(f, "in")
                          /\ map' = map \cup {p} /\ news' = news \cup {p}
                       \/ /\ conn' = [conn EXCEPT ![p] = "closed"]
                          /\ UNCHANGED <<fd, slots, map, news>>

Handles(kind, f) == /\ ~events.accept /\ f \in events[kind]
                    /\ events' = [events EXCEPT ![kind] = @ \ {f}]

(* receive waits for what an empty socket will get.                        *)
Read(f) == LET p == Owner(f)
           IN  /\ Serving("events", "events", <<conn, fd, map, news, writes, tell, shown,
                                                refused, unsent, stop, known>>)
               /\ Handles("readable", f)
               /\ p \in map /\ Readable(f)
               /\ reads' = reads \cup {p}
               /\ error' = error \ {p}
               /\ \/ \E n \in 1 .. unread[p] : /\ unread' = [unread EXCEPT ![p] = @ - n]
                                               /\ inHand' = [inHand EXCEPT ![p] = n]
                                               /\ gone' = gone \ {p}
                                               /\ UNCHANGED slots
                  \/ /\ unread[p] = 0
                     /\ gone' = gone \cup {p}
                     /\ slots' = Unask(f, "in")
                     /\ UNCHANGED <<unread, inHand>>

(* send_all of write_array, which may fail when the peer has left, and ... *)
Write(f) == LET p == Owner(f)
            IN  /\ Serving("events", "writing", <<conn, unread, fd, map, gone, slots, reads, news,
                                                  hands, stop, known>>)
                /\ Handles("writable", f)
                /\ p \in map
                /\ writes' = writes \cup {p}
                /\ unsent' = unsent \ {p}
                /\ \/ error' = error \ {p}
                   \/ p \in left /\ error' = error \cup {p}
                /\ tell' = {p}

(* ... remove_client_write, in either case.                                *)
Written == /\ Serving("writing", "events", <<conn, unread, fd, map, gone, events, lists, hands,
                                             sends, stop, known>>)
           /\ slots' = Unask(fd[CHOOSE p \in tell : TRUE], "out")
           /\ tell' = {}

NextCycle == IF stop THEN "off" ELSE "poll"

(* Mutant: had_activity forgets _read_event_lst.                           *)
After_NoReads == LET seen == IF news = {} /\ writes = {} THEN {} ELSE reads
                 IN  /\ Serving("events", IF seen = {} THEN NextCycle ELSE "after",
                                <<conn, unread, fd, map, gone, slots, events, lists, hands, sends,
                                  stop>>)
                     /\ events = NoEvents
                     /\ known' = TRUE
                     /\ tell' = seen

(* handle_after_activity, and the device as its observer: what a client    *)
(* said is written to rx, and a client that left is removed.  The write is *)
(* refused while rx is written or notified by another thread, and when rx  *)
(* is too small, and changes nothing when rx holds the same bytes.         *)
After == /\ Serving("events", IF reads = {} THEN NextCycle ELSE "after",
                    <<conn, unread, fd, map, gone, slots, events, lists, hands, sends, stop>>)
         /\ events = NoEvents
         /\ known' = TRUE
         /\ tell' = reads

Show(p) == /\ Serving("after", IF tell = {p} THEN NextCycle ELSE "after",
                      <<conn, unread, fd, map, gone, slots, events, lists, sends, stop, known>>)
           /\ p \in tell \ (gone \cup error)
           /\ tell' = tell \ {p}
           /\ \/ shown' = [shown EXCEPT ![p] = @ + inHand[p]] /\ UNCHANGED refused
              \/ refused' = [refused EXCEPT ![p] = @ + inHand[p]] /\ UNCHANGED shown
           /\ inHand' = [inHand EXCEPT ![p] = 0]

RemoveClient(p) == /\ Serving("after", IF tell = {p} THEN NextCycle ELSE "after",
                              <<conn, unread, fd, events, lists, hands, sends, stop, known>>)
                   /\ p \in tell \cap (gone \cup error)
                   /\ tell' = tell \ {p}
                   /\ map' = map \ {p} /\ gone' = gone \ {p}
                   /\ slots' = [g \in DOMAIN slots |-> IF g = fd[p] THEN {} ELSE slots[g]]

-----------------------------------------------------------------------------
(* The sender: handle of tx, for each client of a copy of the map.  It     *)
(* writes tx after the first cycle: before, server() is null.              *)

Sending(s) == UNCHANGED <<sockets, map, gone, pc, events, lists, tell, hands, error, ctl,
                          stop, known, starts, old>> /\ UNCHANGED s

BeginSend == /\ held = {} /\ ctl = "started" /\ known /\ MutexFree
             /\ held' = map /\ todo' = map
             /\ Sending(<<slots, unsent>>)

(* Mutant: _mutex is not taken.                                            *)
SendTo_NoMutex(p) == /\ p \in todo
                     /\ todo' = todo \ {p}
                     /\ IF p \in map
                        THEN unsent' = unsent \cup {p} /\ slots' = Ask(fd[p], "out")
                        ELSE UNCHANGED <<unsent, slots>>
                     /\ Sending(held)

(* Mutant: the sender removes a client that has left.                      *)
SendTo_Removes(p) == /\ p \in todo /\ MutexFree
                     /\ todo' = todo \ {p}
                     /\ map' = map \ left
                     /\ slots' = Unask(fd[p], "in")
                     /\ UNCHANGED <<sockets, gone, held, sends, pc, events, lists, tell,
                                    hands, ctl, stop, known, starts, old>>

SendTo(p) == /\ p \in todo /\ MutexFree
             /\ todo' = todo \ {p}
             /\ IF p \in map
                THEN unsent' = unsent \cup {p} /\ slots' = Ask(fd[p], "out")
                ELSE UNCHANGED <<unsent, slots>>
             /\ Sending(held)

EndSend == /\ held # {} /\ todo = {}
           /\ held' = {}
           /\ CloseUnless(map \cup reads \cup news \cup writes)
           /\ UNCHANGED <<left, said, unread, map, gone, todo, pc, slots, events, lists, tell,
                          hands, sends, ctl, stop, known, starts, old>>

-----------------------------------------------------------------------------
(* The device is started and stopped.  on_start observes tx, starts the    *)
(* worker and waits until the server is ready.  A stop waits for the       *)
(* handler of tx that is running; a stop that comes before the poll has    *)
(* started is lost, and the join of the worker never ends.                 *)

Control(from, to, s) ==
    /\ ctl = from /\ ctl' = to
    /\ UNCHANGED <<left, said, unread, fd, map, gone, held, todo, events, lists, tell, hands,
                   sends, known>> /\ UNCHANGED s

StartDevice == /\ Control("idle", "started", <<conn, slots, stop>>)
               /\ starts < MaxStarts /\ starts' = starts + 1
               /\ pc' = "setup"
               /\ old' = map

StopDevice == /\ Control("started", IF pc = "ready" THEN "lost" ELSE "stopping",
                         <<conn, pc, starts, old>>)
              /\ pc # "setup" /\ held = {}
              /\ stop' = TRUE
              /\ slots' = IF pc = "ready" THEN <<>> ELSE slots

(* The poll is over: its descriptors are cleared, the listening socket and *)
(* what waits on it closed.  The clients stay in the map.                  *)
Stopped == /\ Control("stopping", "idle", <<pc, stop, starts, old>>)
           /\ pc = "off"
           /\ slots' = <<>>
           /\ conn' = [p \in Peers |-> IF conn[p] = "queued" THEN "closed" ELSE conn[p]]

Server == \/ Setup \/ Serve \/ PollOnce \/ Accept \/ Written \/ After
          \/ \E f \in Fds : Read(f) \/ Write(f)
          \/ \E p \in Peers : Show(p) \/ RemoveClient(p)

Sender == BeginSend \/ EndSend \/ \E p \in Peers : SendTo(p)

Controller == StartDevice \/ StopDevice \/ Stopped

Next == \/ Server \/ Sender \/ Controller
        \/ \E p \in Peers : Connects(p) \/ Says(p) \/ Leaves(p)

(* The serving thread goes on, and so does a send or a stop once begun.    *)
Spec == /\ Init /\ [][Next]_vars
        /\ WF_vars(Server)
        /\ WF_vars(EndSend \/ \E p \in Peers : SendTo(p))
        /\ WF_vars(Stopped)

-----------------------------------------------------------------------------
Active == pc \in {"poll", "events", "writing", "after"} /\ ctl # "lost"

(* With the types, that a client has a socket, and no two the same number. *)
TypeOK ==
    /\ conn \in [Peers -> {"away", "queued", "open", "closed"}]
    /\ {left, map, gone, held, todo, reads, news, writes, tell, unsent, error, old} \subseteq SUBSET Peers
    /\ {said, unread, inHand, shown, refused} \subseteq [Peers -> Nat]
    /\ fd \in [Peers -> Fds \cup {0}]
    /\ DOMAIN slots \subseteq Fds
    /\ \A f \in DOMAIN slots : slots[f] \subseteq {"in", "out"}
    /\ events.readable \cup events.writable \subseteq Fds /\ events.accept \in BOOLEAN
    /\ pc \in {"off", "setup", "ready", "poll", "events", "writing", "after"}
    /\ ctl \in {"idle", "started", "stopping", "lost"}
    /\ stop \in BOOLEAN /\ known \in BOOLEAN /\ starts \in 0 .. MaxStarts
    /\ \A p \in map \cup held : Open(p) /\ \A q \in map \cup held : fd[p] = fd[q] => p = q

(* A client of this run that poll has, or has room for, is polled for      *)
(* reading until it leaves, and for writing while the last message for it  *)
(* has not been sent or failed: reused descriptors and the removal of      *)
(* another client do not touch it.  A slot is kept until the device stops, *)
(* so the only clients that are not polled are those that were accepted    *)
(* when every slot was taken, and they are not for the whole run.          *)
ClientsArePolled ==
    Active => \A p \in map \ old :
        Room(fd[p]) => /\ p \notin gone => fd[p] \in DOMAIN slots /\ "in" \in slots[fd[p]]
                       /\ p \in unsent => fd[p] \in DOMAIN slots /\ "out" \in slots[fd[p]]

(* "event.readable": the serving thread reads, with the mutex that every   *)
(* sender needs, only where there is something to read: the event is about *)
(* the client that has the descriptor when the event is handled.           *)
ReadNeverBlocks == \A f \in events.readable : Owner(f) \in map /\ Readable(f)

Halts == ctl # "started"

(* All that a client of this run says is written to rx, which takes it or  *)
(* refuses it, unless the client has no slot or the device is stopped: no  *)
(* read overwrites what has not been written.                              *)
SaidIsShown == \A p \in Peers :
    p \in map \ old /\ Room(fd[p]) /\ said[p] > shown[p] + refused[p]
        ~> said[p] = shown[p] + refused[p] \/ Halts

(* The last message for a client that has a slot is sent, unless the peer  *)
(* leaves or the device is stopped, though a readable client is not        *)
(* written to.                                                             *)
AnswersWritten == \A p \in Peers :
    p \in map \ old /\ Room(fd[p]) /\ p \in unsent
        ~> p \notin unsent \cup error \/ p \in left \/ Halts
=============================================================================
