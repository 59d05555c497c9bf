----------------------------- MODULE MCClients -----------------------------
(***************************************************************************)
(* The two users of the client table: the service with the capture task and *)
(* its barriers (CaptureRegistry), and the connections to the peers         *)
(* (PeerConnection).  A behaviour is one of a single user; the variables of *)
(* the other keep still.                                                    *)
(***************************************************************************)
EXTENDS CaptureRegistry, TLC

CONSTANTS
  Users,                \* the users in question
  h1, n1, i1, e1, c1, c2   \* a peer: its handle, name, address and edge; connections to it

VARIABLES
  user,
  pClients, conns, con, spawned, connecting, attempt, pong, told, asked, lookup, answers, edits, faults

registryVars == vars
peerVars == <<pClients, conns, con, spawned, connecting, attempt, pong, told, asked, lookup,
              answers, edits, faults>>

(* Without incoming hosts, but with requests that wait for one another *)
Queued == INSTANCE CaptureRegistry WITH MaxTriggers <- 0, MaxQueue <- 2

P == INSTANCE PeerConnection WITH
  Handles <- {h1}, Hosts <- {n1}, Ips <- {i1}, Ports <- {1}, Positions <- {e1},
  HostIps <- [n \in {n1} |-> {i1}], Conns <- {c1, c2}, MaxTasks <- 1, MaxSession <- 1,
  MaxEdits <- 1, MaxFaults <- 1, Edits <- {"host", "remove", "active", "fix"},
  clients <- pClients

(* The registry stays as it is before it starts; of connections that are not in question *)
(* all variables are None.                                                               *)
PeersInit ==
  IF user = "peers" THEN P!Init
  ELSE /\ pClients = None /\ conns = None /\ con = None /\ spawned = None /\ connecting = None
       /\ attempt = None /\ pong = None /\ told = None /\ asked = None /\ lookup = None
       /\ answers = None /\ edits = None /\ faults = None

UserInit == user \in Users /\ Init /\ PeersInit

UserNext ==
  \/ user = "registry" /\ Next /\ UNCHANGED <<user, peerVars>>
  \/ user = "queued" /\ Queued!Next /\ UNCHANGED <<user, peerVars>>
  \/ user = "peers" /\ P!Next /\ UNCHANGED <<user, registryVars>>

UserSpec == UserInit /\ [][UserNext]_<<user, registryVars, peerVars>>

(* The edges are interchangeable, and so are the connections. *)
EdgesAndConns == Permutations(Positions) \union Permutations({c1, c2})

-----------------------------------------------------------------------------
(* The properties of both *)

(* The captures of the service, of the capture task and of the backend are the same when     *)
(* nothing is under way, and Create and Destroy are paired for every handle, whatever the    *)
(* user edits (RegistryAgrees, BackendAgrees and CreateDestroyPaired of CaptureRegistry).    *)
CapturesAgree == RegistryAgrees /\ BackendAgrees /\ CreateDestroyPaired

=============================================================================
