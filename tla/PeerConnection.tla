--------------------------- MODULE PeerConnection ---------------------------
(* The connections of a lan-mouse host to its clients                       *)
(* (lan-mouse/src/connect.rs) with the name resolver (dns.rs) and the       *)
(* frontend requests of the service that edit a client.  A maintenance task *)
(* and every send that finds no connection ask for one; each connection     *)
(* has a task that pings and a task that receives, and they share the       *)
(* client table, the map of connections and the set of answered addresses.  *)
(* The tasks run on one thread: a step lasts from one await that waits to   *)
(* the next.  Locking an uncontended tokio mutex does not wait.             *)
EXTENDS Clients, Sequences, SequencesExt

CONSTANTS
  HostIps,    \* the addresses a name resolves to
  Conns,      \* identities of DTLS connections, reused when free
  MaxTasks,   \* bound: connection tasks that have been spawned and not run
  MaxSession, \* bound: session epochs a peer announces
  MaxEdits,   \* bound: edits by the frontend
  MaxFaults,  \* bound: restarts of a peer, and sends that fail
  Edits       \* the kinds of edit of this instance

Addrs == Ips \X Ports

VARIABLES
  clients,    \* the shared client table
  conns,      \* address -> connection: LanMouseConnection.conns
  con,        \* connection -> what its two tasks hold, or None
  spawned,    \* per client: tasks of request_connection that have not run yet
  connecting, \* clients with a connection attempt
  attempt,    \* per client: the addresses connect_any tries, or None
  pong,       \* ping_response
  told,       \* per client: the session last announced to the capture task
              \* since the client was added, 0 for "not ready"
  asked,      \* requests to the DNS task, in order
  lookup,     \* per client: the name its DNS task resolves, or None
  answers,    \* events of the DNS task, in order
  edits, faults

vars == <<clients, conns, con, spawned, connecting, attempt, pong, told,
          asked, lookup, answers, edits, faults>>

peers == <<conns, con, spawned, connecting, attempt, pong>>
dnsVars == <<asked, lookup, answers>>

(* Service::run activates the clients of the configuration, and so asks for *)
(* their addresses                                                          *)
Init ==
  /\ \E pos \in Positions, port \in Ports, host \in [Handles -> Hosts] :
       /\ clients = [h \in Handles |-> NewClient(host[h], {}, port, pos, TRUE)]
       /\ asked = SetToSeq({<<h, host[h]>> : h \in Handles})
  /\ conns = [a \in Addrs |-> None]
  /\ con = [c \in Conns |-> None]
  /\ spawned = [h \in Handles |-> 0]
  /\ connecting = {}
  /\ attempt = [h \in Handles |-> None]
  /\ pong = {}
  /\ told = [h \in Handles |-> 0]
  /\ lookup = [h \in Handles |-> None] /\ answers = <<>>
  /\ edits = 0 /\ faults = 0

-----------------------------------------------------------------------------
(* Asking for a connection and making it                                    *)

(* request_connection: the address and the activity are read now, the task  *)
(* it spawns runs later                                                     *)
Wants(h) == clients[h] # None /\ clients[h].addr = None /\ clients[h].active

RequestConnection(h) ==
  /\ Wants(h)
  /\ spawned[h] < MaxTasks
  /\ spawned' = [spawned EXCEPT ![h] = @ + 1]
  /\ UNCHANGED <<clients, conns, con, connecting, attempt, pong, told, dnsVars, edits, faults>>

(* the spawned task: one attempt per client at a time; the addresses are    *)
(* taken when the attempt starts                                            *)
StartAttempt(h) ==
  /\ spawned[h] > 0
  /\ spawned' = [spawned EXCEPT ![h] = @ - 1]
  /\ IF h \in connecting \/ clients[h] = None
       THEN UNCHANGED <<connecting, attempt>>
       ELSE /\ connecting' = connecting \union {h}
            /\ attempt' = [attempt EXCEPT ![h] = clients[h].ips \X {clients[h].port}]
  /\ UNCHANGED <<clients, conns, con, pong, told, dnsVars, edits, faults>>

(* connect_any fails when every address has failed or timed out *)
ConnectFails(h) ==
  /\ attempt[h] # None
  /\ attempt' = [attempt EXCEPT ![h] = None]
  /\ connecting' = connecting \ {h}
  /\ UNCHANGED <<clients, conns, con, spawned, pong, told, dnsVars, edits, faults>>

(* connect_any succeeds with the first address that answers; the connection *)
(* replaces whatever the map held for that address                          *)
ConnectSucceeds(h) ==
  \E c \in Conns, a \in Addrs :
    /\ attempt[h] # None /\ a \in attempt[h] /\ con[c] = None
    /\ clients' = SetActiveAddr(clients, h, a)
    /\ conns' = [conns EXCEPT ![a] = c]
    /\ con' = [con EXCEPT ![c] = [h |-> h, addr |-> a, latest |-> 0,
                                  tasks |-> {"ping", "recv"}, up |-> TRUE]]
    /\ attempt' = [attempt EXCEPT ![h] = None]
    /\ connecting' = connecting \ {h}
    /\ UNCHANGED <<spawned, pong, told, dnsVars, edits, faults>>

AttemptEnds(h) == ConnectFails(h) \/ ConnectSucceeds(h)

-----------------------------------------------------------------------------
(* Losing a connection                                                      *)

Current(c) == conns[con[c].addr] = c

(* disconnect: only the connection that the map holds resets the client *)
DisconnectKeepsAddr(h) ==
  ClearPeerReadiness(SetPeerCommit(SetAlive(clients, h, FALSE), h, None), h)


Disconnect(h) ==
  ClearPeerReadiness(SetPeerCommit(SetAlive(SetActiveAddr(clients, h, None), h, FALSE), h, None), h)

(* conn.close() may time out, and the transport goes on *)
Closed(c) == {FALSE, con[c].up}

FailInSilence(c, task) ==
  LET left == con[c].tasks \ {task}
  IN /\ pong' = pong \ {con[c].addr}
     /\ IF Current(c)
          THEN /\ clients' = Disconnect(con[c].h)
               /\ conns' = [conns EXCEPT ![con[c].addr] = None]
          ELSE UNCHANGED <<clients, conns>>
     /\ told' = told
     /\ \E up \in Closed(c) :
          con' = [con EXCEPT ![c] = IF left = {} THEN None
                                    ELSE [con[c] EXCEPT !.tasks = left, !.up = up]]

(* fail_connection, called by one of the tasks of c or by a send; the task  *)
(* that called it ends, and a connection without tasks is dropped           *)
FailConnection(c, task) ==
  LET h == con[c].h
      a == con[c].addr
      left == con[c].tasks \ {task}
  IN /\ pong' = pong \ {a}
     /\ IF Current(c)
          THEN /\ clients' = Disconnect(h)
               /\ conns' = [conns EXCEPT ![a] = None]
               /\ told' = [told EXCEPT ![h] = 0]
          ELSE UNCHANGED <<clients, conns, told>>
     /\ \E up \in Closed(c) :
          con' = [con EXCEPT ![c] = IF left = {} THEN None
                                    ELSE [con[c] EXCEPT !.tasks = left, !.up = up]]

(* the DTLS session is lost without notice: the peer restarted, or the      *)
(* network is gone                                                          *)
PeerRestarts(c) ==
  /\ con[c] # None /\ con[c].up /\ faults < MaxFaults
  /\ con' = [con EXCEPT ![c].up = FALSE]
  /\ faults' = faults + 1
  /\ UNCHANGED <<clients, conns, spawned, connecting, attempt, pong, told, dnsVars, edits>>

(* LanMouseConnection::send: the connection of the active address is used   *)
(* when the client is alive; an error or a timeout fails it.  A send that   *)
(* finds no connection asks for one (RequestConnection).                    *)
SendFails(h) ==
  LET a == ActiveAddr(clients, h)
  IN /\ a # None /\ conns[a] # None
     /\ Alive(clients, h)
     /\ faults < MaxFaults
     /\ faults' = faults + 1
     /\ LET c == conns[a]
        IN /\ pong' = pong \ {a}
           /\ clients' = Disconnect(h)
           /\ conns' = [conns EXCEPT ![a] = None]
           /\ told' = [told EXCEPT ![h] = 0]
           /\ \E up \in Closed(c) : con' = [con EXCEPT ![c].up = up]
     /\ UNCHANGED <<spawned, connecting, attempt, dnsVars, edits>>

-----------------------------------------------------------------------------
(* The two tasks of a connection                                            *)

(* four pings have been sent and time has passed: an answer to any of them  *)
(* is taken from the set of answered addresses, which connections to the    *)
(* same address share; without one, or after a send error, the task fails   *)
(* the connection and ends                                                  *)
PingRound(c) ==
  /\ con[c] # None /\ "ping" \in con[c].tasks
  /\ IF con[c].addr \in pong
       THEN /\ pong' = pong \ {con[c].addr}
            /\ UNCHANGED <<clients, conns, con, told>>
       ELSE FailConnection(c, "ping")
  /\ UNCHANGED <<spawned, connecting, attempt, dnsVars, edits, faults>>

PingSendFails(c) ==
  /\ con[c] # None /\ "ping" \in con[c].tasks /\ ~con[c].up
  /\ FailConnection(c, "ping")
  /\ UNCHANGED <<spawned, connecting, attempt, dnsVars, edits, faults>>

(* the receive task: an error, or a datagram on a connection that the map   *)
(* no longer holds, ends it                                                 *)
ReceiveEnds(c) ==
  /\ con[c] # None /\ "recv" \in con[c].tasks
  /\ ~con[c].up \/ ~Current(c)
  /\ FailConnection(c, "recv")
  /\ UNCHANGED <<spawned, connecting, attempt, dnsVars, edits, faults>>

Receives(c) == con[c] # None /\ "recv" \in con[c].tasks /\ con[c].up /\ Current(c)

(* record_pong: an answer proves that the peer is alive, ready or not *)
RecordPong(h, a) == SetAlive(SetActiveAddr(clients, h, a), h, TRUE)

PongArrives(c) ==
  /\ Receives(c)
  /\ clients' = RecordPong(con[c].h, con[c].addr)
  /\ pong' = pong \union {con[c].addr}
  /\ UNCHANGED <<conns, con, spawned, connecting, attempt, told, dnsVars, edits, faults>>

HelloArrives(c) ==
  \E commit \in Commits :
    /\ Receives(c)
    /\ CommitChanges(clients, con[c].h, commit)
    /\ clients' = SetPeerCommit(clients, con[c].h, commit)
    /\ UNCHANGED <<peers, told, dnsVars, edits, faults>>

(* accept_readiness_epoch: 0 only before any session and only "not ready",  *)
(* and never an older session than one this connection has announced        *)
AcceptReadinessEpoch(latest, ready, session) ==
  IF session = 0 THEN latest = 0 /\ ~ready ELSE session >= latest

ReadinessArrives(c) ==
  \E ready \in BOOLEAN, session \in 0..MaxSession :
    /\ Receives(c)
    /\ AcceptReadinessEpoch(con[c].latest, ready, session)
    /\ con' = [con EXCEPT ![c].latest = session]
    /\ clients' = SetPeerReadiness(clients, con[c].h, ready, session)
    /\ told' = [told EXCEPT ![con[c].h] = IF ready THEN session ELSE 0]
    /\ UNCHANGED <<conns, spawned, connecting, attempt, pong, dnsVars, edits, faults>>

-----------------------------------------------------------------------------
(* Names, and edits by the frontend                                         *)

(* Service::resolve *)
Resolve(h, host) ==
  IF host = None THEN UNCHANGED asked ELSE asked' = Append(asked, <<h, host>>)

(* do_dns: a new request ends the client's running lookup, but not the      *)
(* answer that the lookup has already queued                                *)
DnsTurn ==
  /\ asked # <<>>
  /\ asked' = Tail(asked)
  /\ lookup' = [lookup EXCEPT ![Head(asked)[1]] = Head(asked)[2]]
  /\ answers' = Append(answers, <<"resolving", Head(asked)[1]>>)
  /\ UNCHANGED <<clients, peers, told, edits, faults>>

(* resolve_hostname: the name service answers or fails *)
LookupEnds(h) ==
  \E ips \in {HostIps[host] : host \in {lookup[h]} \ {None}} \union {{}} :
    /\ lookup[h] # None
    /\ lookup' = [lookup EXCEPT ![h] = None]
    /\ answers' = Append(answers, <<"resolved", h, ips>>)
    /\ UNCHANGED <<clients, peers, told, asked, edits, faults>>

(* handle_resolver_event: the name that was resolved is not compared *)
HandleResolverEvent ==
  /\ answers # <<>>
  /\ LET e == Head(answers)
     IN clients' = IF e[1] = "resolving"
                     THEN SetResolving(clients, e[2], TRUE)
                     ELSE SetDnsIps(SetResolving(clients, e[2], FALSE), e[2], e[3])
  /\ answers' = Tail(answers)
  /\ UNCHANGED <<peers, told, asked, lookup, edits, faults>>

MayEdit(kind) == kind \in Edits /\ edits < MaxEdits /\ edits' = edits + 1

UpdateHostname(h, host) ==
  /\ MayEdit("host")
  /\ clients' = SetHostname(clients, h, host)
  /\ IF HostnameChanges(clients, h, host) THEN Resolve(h, host) ELSE UNCHANGED asked
  /\ UNCHANGED <<peers, told, lookup, answers, faults>>

UpdateFixIps(h, fix) ==
  /\ MayEdit("fix")
  /\ clients' = SetFixIps(clients, h, fix)
  /\ UNCHANGED <<peers, told, dnsVars, faults>>

UpdatePort(h, port) ==
  /\ MayEdit("port")
  /\ clients' = SetPort(clients, h, port)
  /\ UNCHANGED <<peers, told, dnsVars, faults>>

(* the resolver is asked even when the client is already active *)
Activate(h) ==
  /\ MayEdit("active")
  /\ clients' = ActivateClient(clients, h)
  /\ IF clients[h] = None THEN UNCHANGED asked ELSE Resolve(h, clients[h].host)
  /\ UNCHANGED <<peers, told, lookup, answers, faults>>

Deactivate(h) ==
  /\ MayEdit("active")
  /\ clients' = DeactivateClient(clients, h)
  /\ UNCHANGED <<peers, told, dnsVars, faults>>

(* neither the connection nor its tasks are told *)
RemovePeer(h) ==
  /\ MayEdit("remove") /\ clients[h] # None
  /\ clients' = RemoveClient(clients, h)
  /\ UNCHANGED <<peers, told, dnsVars, faults>>

(* the slab reuses the free slot; config clients come with a name and are active *)
AddPeer(h) ==
  /\ "remove" \in Edits /\ clients[h] = None
  /\ \E host \in Hosts, port \in Ports, pos \in Positions :
       /\ clients' = AddWithConfig(clients, h, NewClient(host, {}, port, pos, TRUE))
       /\ Resolve(h, host)
  /\ told' = [told EXCEPT ![h] = 0]
  /\ UNCHANGED <<peers, lookup, answers, edits, faults>>

-----------------------------------------------------------------------------
Next ==
  \/ \E h \in Handles :
       \/ RequestConnection(h) \/ StartAttempt(h)
       \/ AttemptEnds(h)
       \/ SendFails(h) \/ LookupEnds(h)
       \/ \E host \in Hosts \union {None} : UpdateHostname(h, host)
       \/ \E fix \in SUBSET Ips : UpdateFixIps(h, fix)
       \/ \E port \in Ports : UpdatePort(h, port)
       \/ Activate(h) \/ Deactivate(h) \/ RemovePeer(h) \/ AddPeer(h)
  \/ \E c \in Conns :
       \/ PeerRestarts(c) \/ PingRound(c) \/ PingSendFails(c) \/ ReceiveEnds(c)
       \/ PongArrives(c) \/ HelloArrives(c) \/ ReadinessArrives(c)
  \/ DnsTurn \/ HandleResolverEvent

Spec == Init /\ [][Next]_vars

(* Fairness: spawned tasks run, the maintenance task ticks, a ping round has *)
(* an end, and a closed connection reports its error.  A peer that is asked  *)
(* for a connection, or pinged over a working one, again and again, answers  *)
(* in the end; sends fail and peers restart only MaxFaults times.            *)
FairSpec ==
  /\ Spec
  /\ \A h \in Handles :
       /\ WF_vars(RequestConnection(h)) /\ WF_vars(StartAttempt(h))
       /\ WF_vars(AttemptEnds(h)) /\ SF_vars(ConnectSucceeds(h))
       /\ WF_vars(LookupEnds(h))
  /\ \A c \in Conns :
       /\ WF_vars(PingRound(c)) /\ WF_vars(PingSendFails(c)) /\ WF_vars(ReceiveEnds(c))
       /\ SF_vars(PongArrives(c))
  /\ WF_vars(DnsTurn) /\ WF_vars(HandleResolverEvent)

-----------------------------------------------------------------------------
(* Properties                                                               *)

(* A client has an active address only while the map holds a connection to  *)
(* that host: request_connection refuses a client that has an address, so   *)
(* an address without a connection would keep the client offline.  (An edit *)
(* of the port rewrites the address under the connection.)                  *)
AddrMeansConnected ==
  \A h \in Registered(clients) :
    clients[h].addr # None => \E port \in Ports : conns[<<clients[h].addr[1], port>>] # None

(* A client to which no connection is open is not reported ready, alive or  *)
(* compatible: the service decides from these fields whether the input may  *)
(* move there, and a reply that was on its way when the connection failed   *)
(* must not bring them back.                                                *)
NoStaleReadiness ==
  \A h \in Registered(clients) :
    \/ \E c \in Conns : con[c] # None /\ con[c].h = h /\ Current(c)
    \/ ~clients[h].alive /\ ~clients[h].ready /\ clients[h].commit = None

(* The capture task, and through it the service, is told of every change    *)
(* of a peer's readiness: the last announcement agrees with the table,      *)
(* however the connection was replaced or lost.                             *)
ReadinessTold ==
  \A h \in Registered(clients) :
    told[h] = IF clients[h].ready THEN clients[h].session ELSE 0

(* A client that stays active and has an address to try is alive again and  *)
(* again: no sequence of failed sends, restarts of the peer, racing         *)
(* connection tasks and edits leaves it without a connection for good.      *)
Reconnects ==
  \A h \in Handles :
    <>[](clients[h] # None /\ clients[h].active /\ clients[h].ips # {})
      => []<>(Alive(clients, h))

(* What set_hostname promises: "this automatically clears the active ip     *)
(* address", so that a client is afterwards reached under its new name.     *)
ActiveAddrBelongs ==
  \A h \in Registered(clients) :
    clients[h].addr # None => clients[h].addr[1] \in clients[h].ips

(* What set_hostname promises: it clears the "ips from dns", so that those  *)
(* the client has are of its present name.                                  *)
DnsIpsBelong ==
  \A h \in Registered(clients) :
    clients[h].dns \subseteq
      (IF clients[h].host = None THEN {} ELSE HostIps[clients[h].host])
=============================================================================
