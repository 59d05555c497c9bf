------------------------------ MODULE Clients ------------------------------
(* The client manager of a lan-mouse host (lan-mouse/src/client.rs): one     *)
(* slab of clients, each with its configuration and its connection state,   *)
(* shared by the service, the connection tasks and the capture task.  Every *)
(* method is an operator from a table of clients to a table of clients.     *)
(* `cs` is the table: a handle has a record, or None when the slot is free. *)
(* keyboard_ready and pointer_ready are one field, since every reader       *)
(* asks for both; a commit is compared only with the local one.             *)
EXTENDS Naturals, FiniteSets

CONSTANTS
  Handles,    \* the slots of the slab
  Hosts,      \* host names
  Ips,        \* ip addresses
  Ports,      \* ports a client may be configured with
  Positions,  \* screen edges
  None        \* the absent value

Commits == {"same", "other"}

Client ==
  [host : Hosts \union {None}, fix : SUBSET Ips, port : Ports, pos : Positions,
   active : BOOLEAN, addr : (Ips \X Ports) \union {None}, alive : BOOLEAN,
   dns : SUBSET Ips, ips : SUBSET Ips, resolving : BOOLEAN,
   commit : Commits \union {None}, ready : BOOLEAN, session : Nat]

Table == [Handles -> Client \union {None}]

(* a client with the given configuration and the default state *)
NewClient(host, fix, port, pos, active) ==
  [host |-> host, fix |-> fix, port |-> port, pos |-> pos, active |-> active,
   addr |-> None, alive |-> FALSE, dns |-> {}, ips |-> fix, resolving |-> FALSE,
   commit |-> None, ready |-> FALSE, session |-> 0]

Registered(cs) == {h \in Handles : cs[h] # None}

ActiveClients(cs) == {h \in Registered(cs) : cs[h].active}

(* every setter ignores a handle that is not registered *)
Update(cs, h, c) == IF cs[h] = None THEN cs ELSE [cs EXCEPT ![h] = c]

AddWithConfig(cs, h, client) == [cs EXCEPT ![h] = client]

RemoveClient(cs, h) == [cs EXCEPT ![h] = None]

(* TRUE when the call changes the client, which is what the callers ask *)
Activates(cs, h) == cs[h] # None /\ ~cs[h].active

ActivateClient(cs, h) == IF Activates(cs, h) THEN [cs EXCEPT ![h].active = TRUE] ELSE cs

Deactivates(cs, h) == cs[h] # None /\ cs[h].active

DeactivateClient(cs, h) == IF Deactivates(cs, h) THEN [cs EXCEPT ![h].active = FALSE] ELSE cs

(* the slab finds one of the active clients that match *)
GetClient(cs, ip) == {h \in ActiveClients(cs) : ip \in cs[h].ips}

ClientAt(cs, pos) == {h \in ActiveClients(cs) : cs[h].pos = pos}

UpdateIps(cs, h) ==
  Update(cs, h, [cs[h] EXCEPT !.ips = cs[h].fix \union cs[h].dns])

SetFixIps(cs, h, fix) == UpdateIps(Update(cs, h, [cs[h] EXCEPT !.fix = fix]), h)

SetDnsIps(cs, h, ips) == UpdateIps(Update(cs, h, [cs[h] EXCEPT !.dns = ips]), h)

HostnameChanges(cs, h, host) == cs[h] # None /\ cs[h].host # host

SetHostname(cs, h, host) ==
  IF HostnameChanges(cs, h, host)
    THEN UpdateIps([cs EXCEPT ![h].host = host, ![h].addr = None, ![h].dns = {}], h)
    ELSE cs

SetPort(cs, h, port) ==
  IF cs[h] # None /\ cs[h].port # port
    THEN [cs EXCEPT ![h].port = port,
                    ![h].addr = IF @ = None THEN None ELSE <<@[1], port>>]
    ELSE cs

SetPos(cs, h, pos) == Update(cs, h, [cs[h] EXCEPT !.pos = pos])

(* an active client that moves needs its capture moved *)
PosChangeMatters(cs, h, pos) == cs[h] # None /\ cs[h].pos # pos /\ cs[h].active

SetResolving(cs, h, status) == Update(cs, h, [cs[h] EXCEPT !.resolving = status])

SetActiveAddr(cs, h, addr) == Update(cs, h, [cs[h] EXCEPT !.addr = addr])

SetAlive(cs, h, alive) == Update(cs, h, [cs[h] EXCEPT !.alive = alive])

SetPeerCommit(cs, h, commit) == Update(cs, h, [cs[h] EXCEPT !.commit = commit])

CommitChanges(cs, h, commit) == cs[h] # None /\ cs[h].commit # commit

SetPeerReadiness(cs, h, ready, session) ==
  IF session = 0 /\ ready
    THEN cs
    ELSE Update(cs, h, [cs[h] EXCEPT !.ready = ready, !.session = session])

ClearPeerReadiness(cs, h) ==
  Update(cs, h, [cs[h] EXCEPT !.ready = FALSE, !.session = 0])

(* what the service learns of a peer before it moves the input *)
PeerInputReadiness(cs, h) ==
  [online |-> cs[h].alive,
   ready |-> cs[h].commit = "same" /\ cs[h].ready,
   session |-> cs[h].session]

ActiveAddr(cs, h) == IF cs[h] = None THEN None ELSE cs[h].addr

Alive(cs, h) == cs[h] # None /\ cs[h].alive
=============================================================================
