------------------------ MODULE ClipboardTransport ------------------------
(***************************************************************************)
(* The clipboard connections between the authority and its peers           *)
(* (clipboard_transport.rs, PeerRegistry in transport.rs): the connectors  *)
(* of the authority, the listeners of the peers, and on every host a       *)
(* manager with its registry, the connection tasks, the queue of events    *)
(* and the runtime that holds the handles. Processes and transports start  *)
(* again, connections break, also without the other end noticing.          *)
(*                                                                         *)
(* A connection has a slot, which is its identity as long as anything      *)
(* refers to it; what it carries is modelled in ClipboardChannel.          *)
(***************************************************************************)
EXTENDS Integers, Sequences, FiniteSets, SequencesExt

CONSTANTS
    None,
    Server,         \* the authority
    Peers,          \* the other hosts
    Slots,          \* identities of connections, reused
    EVENTS,         \* capacity of a transport's event queue
    Restarting,     \* the hosts whose transport is replaced when the native actor changes
    MaxFaults,      \* bound on broken connections, failed dials and restarts
    MaxSilent,      \* bound on connections whose packets are lost from some point on
    MaxMessages     \* bound on messages that reach an end

(* The authority is none of its peers, and None is neither a connection nor an entry. *)
ASSUME TransportAssumption ==
    /\ Server \notin Peers
    /\ None \notin Slots /\ None \notin [proc : Nat, slot : Slots]

VARIABLES
    proc,           \* process session of every host
    reg,            \* registry[x][h]: the negotiated peer, by process session and slot
    active,         \* active[x][h]: the slot of the connection that the manager runs
    eq,             \* transport events that the runtime has not taken
    network,        \* network_peers[x][h]: the slot whose handle the runtime holds
    conn,           \* the connections, with the state of both ends
    connector,      \* the connector of every peer: dial, hello, waiting, backoff
    stale,          \* stale[x][h]: the last event on h did not reach x's runtime
    faults, silences, messages

vars == <<proc, reg, active, eq, network, conn, connector, stale, faults, silences, messages>>

Hosts == {Server} \cup Peers
Partner(c, x) == IF x = Server THEN conn[c].peer ELSE Server
Ends(c) == {Server, conn[c].peer}
Paired(x, h) == x # h /\ Server \in {x, h}

(* What one host knows of the other hosts. *)
Nothing == [h \in Hosts |-> None]

Referred(c) ==
    \/ \E x, h \in Hosts :
        \/ active[x][h] = c \/ network[x][h] = c
        \/ reg[x][h] # None /\ reg[x][h].slot = c
    \/ \E x \in Hosts : \E i \in DOMAIN eq[x] : eq[x][i].slot = c

Free == {c \in Slots : ~Referred(c) /\ (conn[c] = None \/ \A x \in Ends(c) : conn[c].end[x] = "closed")}

Init ==
    /\ proc = [x \in Hosts |-> 1]
    /\ reg = [x \in Hosts |-> Nothing]
    /\ active = [x \in Hosts |-> Nothing]
    /\ network = [x \in Hosts |-> Nothing]
    /\ stale = [x \in Hosts |-> [h \in Hosts |-> FALSE]]
    /\ eq = [x \in Hosts |-> <<>>]
    /\ conn = [c \in Slots |-> None]
    /\ connector = [p \in Peers |-> "dial"]
    /\ faults = 0 /\ silences = 0 /\ messages = 0

Put(c, x, state) == conn' = [conn EXCEPT ![c].end[x] = state]

(* The reconnect signal of a connection of the authority reaches the connector, which *)
(* waits for the newest connection of its peer only.                                  *)
Signal(x, p) == connector' = IF x = Server THEN [connector EXCEPT ![p] = "backoff"] ELSE connector

-----------------------------------------------------------------------------
(* Establishing a connection. *)

(* Both ends write their hello before they read the other's. *)
Dial(p) ==
    /\ connector[p] = "dial" /\ Free # {}
    /\ LET c == CHOOSE c \in Free : \A d \in Free : c <= d IN
       conn' = [conn EXCEPT ![c] = [peer |-> p, end |-> [x \in {Server, p} |-> "hello"],
                                    session |-> [x \in {Server, p} |-> proc[x]],
                                    broken |-> FALSE, silent |-> FALSE]]
    /\ connector' = [connector EXCEPT ![p] = "hello"]
    /\ UNCHANGED <<proc, reg, active, eq, network, stale, faults, silences, messages>>

DialFails(p) ==
    /\ connector[p] = "dial" /\ faults < MaxFaults
    /\ faults' = faults + 1
    /\ connector' = [connector EXCEPT ![p] = "backoff"]
    /\ UNCHANGED <<proc, reg, active, eq, network, conn, stale, silences, messages>>

(* The wait of at least RECONNECT_INITIAL is longer than the runtimes take for the      *)
(* events of the attempt before.                                                       *)
BackoffOver(p) ==
    /\ connector[p] = "backoff" /\ eq[Server] = <<>> /\ eq[p] = <<>>
    /\ connector' = [connector EXCEPT ![p] = "dial"]
    /\ UNCHANGED <<proc, reg, active, eq, network, conn, stale, faults, silences, messages>>

(* An end that waits for the hello of the other. *)
Greeting(c, x) == conn[c] # None /\ x \in Ends(c) /\ conn[c].end[x] = "hello"

(* The connection is handed to the manager, by the connector or by a task of the listener. *)
HelloDone(c, x) ==
    /\ Greeting(c, x)
    /\ ~conn[c].silent
    /\ Put(c, x, "queued")
    /\ connector' = IF x = Server THEN [connector EXCEPT ![conn[c].peer] = "waiting"] ELSE connector
    /\ UNCHANGED <<proc, reg, active, eq, network, stale, faults, silences, messages>>

HelloFails(c, x) ==
    /\ Greeting(c, x)
    /\ conn[c].broken \/ conn[c].silent
    /\ Put(c, x, "closed")
    /\ Signal(x, conn[c].peer)
    /\ UNCHANGED <<proc, reg, active, eq, network, stale, faults, silences, messages>>

-----------------------------------------------------------------------------
(* The manager. *)

(* Mutant of Register: a duplicate of the same process replaces the connection. *)
RegisterAnyway(x, h, session, c) ==
    [outcome |-> "Accepted", peer |-> [proc |-> session, slot |-> c]]

Register(x, h, session, c) ==
    IF reg[x][h] # None /\ reg[x][h].proc = session
    THEN [outcome |-> "DuplicateRejected", peer |-> reg[x][h]]
    ELSE [outcome |-> IF reg[x][h] = None THEN "Accepted" ELSE "Replaced",
          peer |-> [proc |-> session, slot |-> c]]


Unregister(x, h, c) ==
    IF reg[x][h] # None /\ reg[x][h].slot = c THEN [reg EXCEPT ![x][h] = None] ELSE reg

(* A connection task that the manager has started and not cancelled *)
Open(c, x) == conn[c] # None /\ x \in Ends(c) /\ conn[c].end[x] = "open"

(* start_connection follows the registration; without room for the event the new       *)
(* connection is cancelled, but it stays in the registry.                              *)
ManageConnection(c, x) ==
    /\ conn[c] # None /\ x \in Ends(c) /\ conn[c].end[x] = "queued"
    /\ LET h == Partner(c, x)
           r == Register(x, h, conn[c].session[h], c)
           previous == IF r.outcome = "Replaced" THEN active[x][h] ELSE None
           ended == [d \in Slots |->
                IF d = previous /\ Open(d, x) THEN [conn[d] EXCEPT !.end[x] = "cancelled"]
                ELSE conn[d]]
           room == Len(eq[x]) < EVENTS
       IN  IF r.outcome = "DuplicateRejected"
           THEN /\ Put(c, x, "closed") /\ Signal(x, conn[c].peer)
                /\ UNCHANGED <<reg, active, eq, stale>>
           ELSE /\ reg' = [reg EXCEPT ![x][h] = r.peer]
                /\ conn' = [ended EXCEPT ![c].end[x] = IF room THEN "open" ELSE "cancelled"]
                /\ active' = [active EXCEPT ![x][h] = IF room THEN c ELSE
                                                      IF r.outcome = "Replaced" THEN None ELSE @]
                /\ eq' = IF room THEN [eq EXCEPT ![x] = Append(@, [type |-> "Connected", host |-> h, slot |-> c])]
                         ELSE eq
                /\ stale' = [stale EXCEPT ![x][h] = ~room]
                /\ IF room THEN UNCHANGED connector ELSE Signal(x, conn[c].peer)
    /\ UNCHANGED <<proc, network, faults, silences, messages>>

(* Mutant of ManageEnded: the end of a connection that was replaced counts. *)
ManageAnyEnded(c, x) ==
    /\ conn[c] # None /\ x \in Ends(c) /\ conn[c].end[x] = "ending"
    /\ Put(c, x, "closed")
    /\ LET h == Partner(c, x) IN
       /\ active' = [active EXCEPT ![x][h] = None]
       /\ reg' = Unregister(x, h, c)
       /\ eq' = [eq EXCEPT ![x] = Append(@, [type |-> "Disconnected", host |-> h, slot |-> c])]
    /\ Signal(x, conn[c].peer)
    /\ UNCHANGED <<proc, network, stale, faults, silences, messages>>

ManageEnded(c, x) ==
    /\ conn[c] # None /\ x \in Ends(c) /\ conn[c].end[x] = "ending"
    /\ Put(c, x, "closed")
    /\ LET h == Partner(c, x)
           room == Len(eq[x]) < EVENTS
       IN  IF active[x][h] # c THEN UNCHANGED <<reg, active, eq, stale, connector>>
           ELSE /\ active' = [active EXCEPT ![x][h] = None]
                /\ reg' = Unregister(x, h, c)
                /\ eq' = IF room THEN [eq EXCEPT ![x] = Append(@, [type |-> "Disconnected", host |-> h, slot |-> c])]
                         ELSE eq
                /\ stale' = [stale EXCEPT ![x][h] = @ \/ ~room]
                /\ Signal(x, conn[c].peer)
    /\ UNCHANGED <<proc, network, faults, silences, messages>>

-----------------------------------------------------------------------------
(* The connection tasks. *)

(* Somebody has a handle, so that the writer goes on. *)
Held(c, x) ==
    \/ active[x][Partner(c, x)] = c \/ network[x][Partner(c, x)] = c
    \/ \E i \in DOMAIN eq[x] : eq[x][i] = [type |-> "Connected", host |-> Partner(c, x), slot |-> c]

(* The task of a connection ends. Only the manager that started it hears of that. A     *)
(* connection that lost its packets ends where something is written, which the          *)
(* authority does at every handoff and a peer only when it is asked.                    *)
TaskEnds(c, x) ==
    /\ conn[c] # None /\ x \in Ends(c) /\ conn[c].end[x] \in {"open", "orphan", "cancelled"}
    /\ \/ conn[c].end[x] = "cancelled" \/ ~Held(c, x) \/ conn[c].broken
       \/ ~conn[c].silent /\ conn[c].end[Partner(c, x)] \in {"ending", "closed"}
       \/ conn[c].silent /\ x = Server
    /\ Put(c, x, IF conn[c].end[x] = "open" THEN "ending" ELSE "closed")
    /\ UNCHANGED <<proc, reg, active, eq, network, connector, stale, faults, silences, messages>>

(* A message comes in; the runtime takes it from the event queue or the task ends. *)
MessageArrives(c, x) ==
    /\ conn[c] # None /\ x \in Ends(c) /\ conn[c].end[x] \in {"open", "orphan"} /\ ~conn[c].silent
    /\ messages < MaxMessages
    /\ messages' = messages + 1
    /\ IF conn[c].end[x] = "open" /\ Len(eq[x]) < EVENTS
       THEN /\ eq' = [eq EXCEPT ![x] = Append(@, [type |-> "Message", host |-> Partner(c, x), slot |-> c])]
            /\ UNCHANGED conn
       ELSE /\ Put(c, x, IF conn[c].end[x] = "open" THEN "ending" ELSE "closed")
            /\ UNCHANGED eq
    /\ UNCHANGED <<proc, reg, active, network, connector, stale, faults, silences>>

-----------------------------------------------------------------------------
(* The runtime. *)

HandleTransportEvent(x) ==
    /\ eq[x] # <<>>
    /\ eq' = [eq EXCEPT ![x] = Tail(@)]
    /\ LET e == Head(eq[x]) IN
        network' = CASE e.type = "Connected" -> [network EXCEPT ![x][e.host] = e.slot]
                        [] e.type = "Disconnected" /\ network[x][e.host] = e.slot ->
                                [network EXCEPT ![x][e.host] = None]
                        [] OTHER -> network
    /\ UNCHANGED <<proc, reg, active, conn, connector, stale, faults, silences, messages>>

-----------------------------------------------------------------------------
(* Faults. *)

(* The tasks of x's transport and its queues are gone. *)
Forget(x) ==
    /\ reg' = [reg EXCEPT ![x] = Nothing]
    /\ active' = [active EXCEPT ![x] = Nothing]
    /\ eq' = [eq EXCEPT ![x] = <<>>]
    /\ connector' = IF x = Server THEN [p \in Peers |-> "dial"] ELSE connector

RestartProcess(x) ==
    /\ faults < MaxFaults
    /\ faults' = faults + 1
    /\ proc' = [proc EXCEPT ![x] = @ + 1]
    /\ Forget(x)
    /\ network' = [network EXCEPT ![x] = Nothing]
    /\ stale' = [stale EXCEPT ![x] = [h \in Hosts |-> FALSE]]
    /\ conn' = [c \in Slots |-> IF conn[c] # None /\ x \in Ends(c)
                                THEN [conn[c] EXCEPT !.end[x] = "closed", !.broken = ~conn[c].silent]
                                ELSE conn[c]]
    /\ UNCHANGED <<silences, messages>>

(* shutdown aborts the manager: what was being established ends, open connections stay *)
(* with nobody to hear of them.                                                       *)
RestartTransport(x) ==
    /\ x \in Restarting /\ faults < MaxFaults
    /\ faults' = faults + 1
    /\ Forget(x)
    /\ stale' = [stale EXCEPT ![x] = [h \in Hosts |-> network[x][h] # None]]
    /\ conn' = [c \in Slots |->
            IF conn[c] = None \/ x \notin Ends(c) THEN conn[c]
            ELSE LET was == conn[c].end[x] IN
                 [conn[c] EXCEPT !.broken = @ \/ (was = "hello" /\ ~conn[c].silent),
                                 !.end[x] = IF was \in {"hello", "queued", "ending"} THEN "closed"
                                            ELSE IF was = "open" THEN "orphan" ELSE was]]
    /\ UNCHANGED <<proc, network, silences, messages>>

Break(c) ==
    /\ conn[c] # None /\ ~conn[c].broken /\ ~conn[c].silent
    /\ \E x \in Ends(c) : conn[c].end[x] # "closed"
    /\ faults < MaxFaults
    /\ faults' = faults + 1
    /\ conn' = [conn EXCEPT ![c].broken = TRUE]
    /\ UNCHANGED <<proc, reg, active, eq, network, connector, stale, silences, messages>>

Silence(c) ==
    /\ conn[c] # None /\ ~conn[c].broken /\ ~conn[c].silent
    /\ \E x \in Ends(c) : conn[c].end[x] # "closed"
    /\ silences < MaxSilent
    /\ silences' = silences + 1
    /\ conn' = [conn EXCEPT ![c].silent = TRUE]
    /\ UNCHANGED <<proc, reg, active, eq, network, connector, stale, faults, messages>>

Next ==
    \/ \E p \in Peers : Dial(p)
    \/ \E p \in Peers : DialFails(p)
    \/ \E p \in Peers : BackoffOver(p)
    \/ \E c \in Slots, x \in Hosts : HelloDone(c, x)
    \/ \E c \in Slots, x \in Hosts : HelloFails(c, x)
    \/ \E c \in Slots, x \in Hosts : ManageConnection(c, x)
    \/ \E c \in Slots, x \in Hosts : ManageEnded(c, x)
    \/ \E c \in Slots, x \in Hosts : TaskEnds(c, x)
    \/ \E c \in Slots, x \in Hosts : MessageArrives(c, x)
    \/ \E x \in Hosts : HandleTransportEvent(x)
    \/ \E x \in Hosts : RestartProcess(x)
    \/ \E x \in Hosts : RestartTransport(x)
    \/ \E c \in Slots : Break(c)
    \/ \E c \in Slots : Silence(c)

Spec == Init /\ [][Next]_vars

(* The scheduler runs every task: connectors, handshakes with their time limit,         *)
(* managers, connection tasks and runtimes.                                            *)
Fairness ==
    /\ \A p \in Peers : WF_vars(Dial(p)) /\ WF_vars(BackoffOver(p))
    /\ \A c \in Slots, x \in Hosts :
        /\ WF_vars(HelloDone(c, x)) /\ WF_vars(HelloFails(c, x))
        /\ WF_vars(ManageConnection(c, x)) /\ WF_vars(ManageEnded(c, x)) /\ WF_vars(TaskEnds(c, x))
    /\ \A x \in Hosts : WF_vars(HandleTransportEvent(x))

FairSpec == Spec /\ Fairness

-----------------------------------------------------------------------------
(* Properties. *)

Running(x, h) == {c \in Slots : Open(c, x) /\ Partner(c, x) = h}

(* A transport never runs two connections with one host: a duplicate is refused, and   *)
(* one of a newer process cancels the older (clipboardplan.md, "never retain two       *)
(* payload writers for one peer"; register, run_manager).                              *)
OneConnection == \A x, h \in Hosts : Paired(x, h) => Cardinality(Running(x, h)) <= 1

(* When the event queue is empty and no event on a host was lost, the runtime sends to *)
(* the connection that the manager runs, and to none when there is none, whatever      *)
(* order ends and registrations came in (run_manager, handle_transport_event).         *)
RuntimeCurrent ==
    \A x, h \in Hosts :
        Paired(x, h) /\ eq[x] = <<>> /\ ~stale[x][h] => network[x][h] = active[x][h]

(* Both runtimes send through the two ends of one open connection. *)
Linked(p) ==
    \E c \in Slots :
        /\ network[Server][p] = c /\ network[p][Server] = c
        /\ conn[c].end = [x \in {Server, p} |-> "open"]

(* After the last fault the hosts are connected for good: a connection that ended is   *)
(* dialed again, and a refused duplicate ends the old connection that refused it       *)
(* (run_connector; clipboarddesgin.md: the channel reconnects independently).          *)
Reconnects == \A p \in Peers : <>[]Linked(p)
=============================================================================
