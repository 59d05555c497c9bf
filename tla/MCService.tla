----------------------------- MODULE MCService -----------------------------
(***************************************************************************)
(* The parts of one service side by side: the switch logic with the capture *)
(* task (Hub), its client at the controller (SwitchClient), the emulation   *)
(* of a peer's input (Handover) and the connections to the peers            *)
(* (PeerConnection).  A behaviour is one of a single part; the variables of *)
(* the others keep still.  Two instances of a part differ in its bounds and *)
(* in what the network does.                                                *)
(***************************************************************************)
EXTENDS Hub

CONSTANTS
  Parts,                                   \* the instances in question
  Server, Target,                          \* the hosts of the controller
  LEASE_TTL, GRANT_TTL, REQUEST_TIMEOUT,   \* the durations of the switch client
  p1, k1,                                  \* a peer, and a key of its keyboard
  n1, i1, e1, c1, c2                       \* its name, its address, an edge, connections

VARIABLES
  part,
  m, task, stray, req, ses, owner, issued, done, sCancelled, promise,         \* SwitchClient
  lt, rel, own, px, preq, pevt, em, os, back, snd, wire,                      \* Handover
  clients, conns, con, spawned, connecting, attempt, pong, told, asked,       \* PeerConnection
  lookup, answers, edits, faults

hubVars == vars
switchVars == <<m, task, stray, req, ses, owner, issued, done, sCancelled, promise>>
handoverVars == <<lt, rel, own, px, preq, pevt, em, os, back, snd, wire>>
peerVars == <<clients, conns, con, spawned, connecting, attempt, pong, told, asked, lookup,
              answers, edits, faults>>
partVars == <<part, hubVars, switchVars, handoverVars, peerVars>>

-----------------------------------------------------------------------------
S == INSTANCE SwitchClient WITH MaxRequests <- 2, MaxStray <- 1, cancelled <- sCancelled

(* One peer, and a network that loses and reorders *)
H == INSTANCE Handover WITH
  Peers <- {p1}, MaxSessions <- 1, MaxInFlight <- 0,
  Keys <- {k1}, MaxReleases <- 0, Lossy <- TRUE, Reorders <- TRUE, Failing <- TRUE

P == INSTANCE PeerConnection WITH
  Hosts <- {n1}, Ips <- {i1}, Ports <- {1, 2}, Positions <- {e1}, HostIps <- [n \in {n1} |-> {i1}],
  Conns <- {c1, c2}, MaxTasks <- 1, MaxSession <- 0, MaxEdits <- 1, MaxFaults <- 1,
  Edits <- {"port"}

-----------------------------------------------------------------------------
(* The part that runs; the hub stays as it is before it starts, and the variables of the *)
(* other parts are all None.                                                             *)

SwitchInit ==
  IF part = "switch" THEN S!Init
  ELSE /\ m = None /\ task = None /\ stray = None /\ req = None /\ ses = None /\ owner = None
       /\ issued = None /\ done = None /\ sCancelled = None /\ promise = None
HandoverInit ==
  IF part = "handover" THEN H!Init
  ELSE /\ lt = None /\ rel = None /\ own = None /\ px = None /\ preq = None /\ pevt = None
       /\ em = None /\ os = None /\ back = None /\ snd = None /\ wire = None
PeersInit ==
  IF part = "peers" THEN P!Init /\ (\A h \in Handles : clients[h].port = 1)
  ELSE /\ clients = None /\ conns = None /\ con = None /\ spawned = None /\ connecting = None
       /\ attempt = None /\ pong = None /\ told = None /\ asked = None /\ lookup = None
       /\ answers = None /\ edits = None /\ faults = None

PartInit == part \in Parts /\ Init /\ SwitchInit /\ HandoverInit /\ PeersInit

InHub == part = "hub" /\ UNCHANGED <<part, switchVars, handoverVars, peerVars>>
InSwitch == part = "switch" /\ UNCHANGED <<part, hubVars, handoverVars, peerVars>>
InHandover == part = "handover" /\ UNCHANGED <<part, hubVars, switchVars, peerVars>>
InPeers == part = "peers" /\ UNCHANGED <<part, hubVars, switchVars, handoverVars>>

PartNext ==
  \/ InHub /\ Next
  \/ InSwitch /\ S!Next
  \/ InHandover /\ H!Next
  \/ InPeers /\ P!Next

PartSpec == PartInit /\ [][PartNext]_partVars

-----------------------------------------------------------------------------
(* Every part's fairness, while it is the one that runs: see its module. *)

HubFair ==
  /\ WF_hubVars(part = "hub" /\ OnCaptureEvent) /\ WF_hubVars(part = "hub" /\ OnSwitchEvent)
  /\ WF_hubVars(part = "hub" /\ OnSwitchDeadline) /\ WF_hubVars(part = "hub" /\ TaskReports)
  /\ WF_hubVars(part = "hub" /\ Clock) /\ WF_hubVars(part = "hub" /\ CaptureTerminates)
  /\ WF_hubVars(part = "hub" /\ Stopped) /\ WF_hubVars(part = "hub" /\ TakeCaptureEvent)
  /\ WF_hubVars(part = "hub" /\ TakeDecision) /\ WF_hubVars(part = "hub" /\ TakePeerMessage)
  /\ WF_hubVars(part = "hub" /\ TakeRequest)

SwitchFair ==
  /\ WF_switchVars(part = "switch" /\ S!Tick) /\ WF_switchVars(part = "switch" /\ S!Send)
  /\ WF_switchVars(part = "switch" /\ S!CallFails) /\ WF_switchVars(part = "switch" /\ S!DeadlinePasses)
  /\ WF_switchVars(part = "switch" /\ S!ControllerExpires) /\ WF_switchVars(part = "switch" /\ S!StrayLost)

PeersFair ==
  /\ \A h \in Handles :
       /\ WF_peerVars(part = "peers" /\ P!RequestConnection(h)) /\ WF_peerVars(part = "peers" /\ P!StartAttempt(h))
       /\ WF_peerVars(part = "peers" /\ P!AttemptEnds(h)) /\ SF_peerVars(part = "peers" /\ P!ConnectSucceeds(h))
       /\ WF_peerVars(part = "peers" /\ P!LookupEnds(h))
  /\ \A x \in {c1, c2} :
       /\ WF_peerVars(part = "peers" /\ P!PingRound(x)) /\ WF_peerVars(part = "peers" /\ P!PingSendFails(x))
       /\ WF_peerVars(part = "peers" /\ P!ReceiveEnds(x)) /\ SF_peerVars(part = "peers" /\ P!PongArrives(x))
  /\ WF_peerVars(part = "peers" /\ P!DnsTurn) /\ WF_peerVars(part = "peers" /\ P!HandleResolverEvent)

ProgressSpec == PartSpec /\ HubFair /\ SwitchFair /\ PeersFair

-----------------------------------------------------------------------------
(* The properties of the parts; one that needs an instance of its own says which. *)

(* The switch client and the controller agree, though calls and answers are lost or late: *)
(* the hub never holds a grant or lease longer than the controller has promised, and what  *)
(* it has cancelled for certain does not come back (local_deadline, cancel_enter;           *)
(* HoldsWithinPromise and CancelIsFinal of SwitchClient).                                  *)
WithinPromise == part = "switch" => S!HoldsWithinPromise /\ S!CancelIsFinal


(* A reservation of the hub ends in a committed lease or in nothing; a prepare, commit or *)
(* cancel of the switch client never hangs; a client that stays active and has an address *)
(* is alive again and again (ReservationEnds, TaskEnds and Reconnects of the modules).    *)
Unfinished ==
  \/ part = "hub" /\ svc.mgr.kind \in {Preparing, GrantArmed}
  \/ part = "switch" /\ task # None
  \/ /\ part = "peers"
     /\ \E h \in Handles : /\ clients[h] # None /\ clients[h].active /\ clients[h].ips # {}
                          /\ ~clients[h].alive
WorkEnds == Unfinished ~> ~Unfinished

(* The controller hears of every lease that ended in a hub that keeps running, and what a *)
(* switch client has given up ends there (EndedLeaseReported, AbandonedEnds).             *)
Abandoned ==
  \/ /\ part = "hub" /\ life = "running"
     /\ \E e \in 1..svc.mgr.next : (svc.mgr.ctx = None \/ svc.mgr.ctx.epoch # e) /\ e \notin cancelled
  \/ part = "switch" /\ ~(S!IdsOf(req) \cup S!IdsOf(ses) \subseteq S!Wanted)
EndsAtController == Abandoned ~> ~Abandoned
=============================================================================
