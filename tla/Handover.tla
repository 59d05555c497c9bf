------------------------------ MODULE Handover ------------------------------
(***************************************************************************)
(* The input of peers handed to a host and taken back: the sending half of  *)
(* lan-mouse/src/capture.rs and connect.rs, one sender for each peer,       *)
(* composed with Emulation over datagrams that may be lost or overtaken     *)
(* (DTLS drops repeated ones).  When a sender may start to capture is in    *)
(* Hub; here it may whenever it knows a ready session of the host.          *)
(***************************************************************************)
EXTENDS Emulation

CONSTANTS Lossy, Reorders,   \* what the network does
          Failing,           \* whether the emulation may fail and be enabled again
          MaxInFlight        \* bound: no new stimulus while more than this is on its way

VARIABLES snd,     \* the sender of each peer: [alive, active, ack, keys, view, session]
          wire     \* what it sent and has not arrived, oldest first

vars == <<emulationVars, snd, wire>>

-----------------------------------------------------------------------------
Arrivals(queue) == IF Reorders THEN DOMAIN queue ELSE DOMAIN queue \cap {1}

Calm(p) ==
  Len(wire[p]) + (IF snd[p].alive THEN Len(back[p]) ELSE 0) + Len(preq) + Len(pevt) + Len(rel)
    <= MaxInFlight

Send(p, msgs) == wire' = [wire EXCEPT ![p] = @ \o msgs]

KeyEvent(k, down) == [what |-> "Input", key |-> k, down |-> down]

(* handle_capture_event for a Begin that was authorised. *)
Activate(p) ==
  /\ snd[p].alive /\ ~snd[p].active /\ snd[p].view.ready /\ Calm(p)
  /\ snd' = [snd EXCEPT ![p].active = TRUE, ![p].ack = FALSE, ![p].session = snd[p].view.epoch]
  /\ Send(p, <<[what |-> "Enter"]>>)
  /\ UNCHANGED emulationVars

(* The user presses or lets go of a key: Enter again until acknowledged. *)
TypeKey(p, k) ==
  /\ snd[p].active /\ Calm(p)
  /\ LET down == k \notin snd[p].keys IN
     /\ snd' = [snd EXCEPT ![p].keys = IF down THEN @ \cup {k} ELSE @ \ {k}]
     /\ Send(p, <<IF snd[p].ack THEN KeyEvent(k, down) ELSE [what |-> "Enter"]>>)
  /\ UNCHANGED emulationVars

(* release_capture: key-ups for what is held, then Leave. *)
Released(s) == [s EXCEPT !.active = FALSE, !.keys = {}]

Farewell(s) ==
  IF s.active
    THEN [i \in 1..Cardinality(s.keys) |-> KeyEvent(SetToSeq(s.keys)[i], FALSE)]
           \o <<[what |-> "Leave"]>>
    ELSE <<>>

(* The release bind, a lost grab, the end of the lease. *)
ReleaseLocally(p) ==
  /\ snd[p].active
  /\ snd' = [snd EXCEPT ![p] = Released(@)]
  /\ Send(p, Farewell(snd[p]))
  /\ UNCHANGED emulationVars

(* ping_pong *)
SendPing(p) ==
  /\ snd[p].alive /\ Calm(p) /\ ~\E i \in DOMAIN wire[p] : wire[p][i].what = "Ping"
  /\ Send(p, <<[what |-> "Ping"]>>)
  /\ UNCHANGED <<emulationVars, snd>>

-----------------------------------------------------------------------------
AcceptAny(view, m) == TRUE                        \* mutant: epochs not compared

(* accept_readiness_epoch; epoch 0 only before any other. *)
AcceptReadiness(view, m) ==
  IF m.epoch = 0 THEN view.epoch = 0 /\ ~m.ready ELSE m.epoch >= view.epoch

OnAck(s) == [to |-> [s EXCEPT !.ack = TRUE], msgs |-> <<>>]

OnReadiness(s, m) ==
  LET seen == [s EXCEPT !.view = [ready |-> m.ready, epoch |-> m.epoch]] IN
  IF ~AcceptReadiness(s.view, m) THEN [to |-> s, msgs |-> <<>>]
  ELSE IF s.active /\ (~m.ready \/ m.epoch # s.session)
    THEN [to |-> Released(seen), msgs |-> Farewell(s)]
    ELSE [to |-> seen, msgs |-> <<>>]

(* ReleaseAck follows the release, also when nothing was active. *)
OnReleaseRequest(s, m) ==
  [to |-> Released(s), msgs |-> Farewell(s) \o <<[what |-> "ReleaseAck", epoch |-> m.epoch]>>]

SenderReceives(p) ==
  /\ snd[p].alive
  /\ \E i \in Arrivals(back[p]) :
       LET m == back[p][i]
           r == CASE m.what = "Ack" -> OnAck(snd[p])
                  [] m.what = "Readiness" -> OnReadiness(snd[p], m)
                  [] m.what = "ReleaseRequest" -> OnReleaseRequest(snd[p], m)
       IN /\ back' = [back EXCEPT ![p] = RemoveAt(@, i)]
          /\ snd' = [snd EXCEPT ![p] = r.to]
          /\ Send(p, r.msgs)
  /\ UNCHANGED <<lt, rel, own, px, preq, pevt, em, os>>

ReleaseRequestArrives(p) ==
  /\ SenderReceives(p)
  /\ \E i \in DOMAIN back[p] : /\ back[p][i].what = "ReleaseRequest"
                               /\ back'[p] = RemoveAt(back[p], i)
                               /\ snd'[p] = Released(snd[p])

HostReceives(p) ==
  \E i \in Arrivals(wire[p]) :
    /\ OnMessage(p, wire[p][i])
    /\ wire' = [wire EXCEPT ![p] = RemoveAt(@, i)]
    /\ UNCHANGED snd

LoseDatagram(p) ==
  /\ Lossy
  /\ \/ /\ \E i \in DOMAIN wire[p] : wire' = [wire EXCEPT ![p] = RemoveAt(@, i)]
        /\ UNCHANGED back
     \/ /\ \E i \in DOMAIN back[p] : back' = [back EXCEPT ![p] = RemoveAt(@, i)]
        /\ UNCHANGED wire
  /\ UNCHANGED <<lt, rel, own, px, preq, pevt, em, os, snd>>

(* The peer's process ends, or fail_connection gives the connection up.     *)
(* The host may never hear of it.                                           *)
SenderGone(p) ==
  /\ snd[p].alive
  /\ snd' = [snd EXCEPT ![p] = [Released(@) EXCEPT !.alive = FALSE]]
  /\ back' = [back EXCEPT ![p] = <<>>]
  /\ UNCHANGED <<lt, rel, own, px, preq, pevt, em, os, wire>>

(* Without loss, pings keep a living peer from looking silent. *)
SilenceOf(p) == (Lossy \/ ~snd[p].alive) /\ Silence(p)

-----------------------------------------------------------------------------
Init ==
  /\ EmulationInit
  /\ snd = [p \in Peers |-> [alive |-> TRUE, active |-> FALSE, ack |-> FALSE, keys |-> {},
                             view |-> [ready |-> FALSE, epoch |-> 0], session |-> 0]]
  /\ wire = [p \in Peers |-> <<>>]

(* Whoever controls the host from a peer does not start its own capture too. *)
Host ==
  /\ \/ EmulationTurn
     \/ HandoffRefused
     \/ WatchdogTick
     \/ Failing /\ (\A p \in Peers : Calm(p)) /\ (EmulationFails \/ Reenable)
     \/ (\A p \in Peers : Calm(p) /\ ~snd[p].active) /\ OwnCaptureStarts
  /\ UNCHANGED <<snd, wire>>

Peer(p) ==
  \/ Activate(p)
  \/ \E k \in Keys : TypeKey(p, k)
  \/ ReleaseLocally(p)
  \/ SendPing(p)
  \/ SenderReceives(p)
  \/ HostReceives(p)
  \/ LoseDatagram(p)
  \/ SenderGone(p)
  \/ Calm(p) /\ (OnDisconnected(p) \/ SilenceOf(p) \/ AskRelease(p)) /\ UNCHANGED <<snd, wire>>

Next == Host \/ \E p \in Peers : Peer(p)

Spec == Init /\ [][Next]_vars

-----------------------------------------------------------------------------
(* Fairness: each loop serves its channels and timers, pings go on while    *)
(* the connection lives (strong, as the bound may hold one back), a closed  *)
(* connection is noticed by them, a silent peer's time passes, and of       *)
(* datagrams sent again and again one arrives.                              *)

Serves == (ServeRequest \/ DropWhileCreating \/ ServeBetweenSessions) /\ UNCHANGED <<snd, wire>>
CreatesClients == ClientsCreated /\ UNCHANGED <<snd, wire>>
ReadsEvents == ReadProxyEvent /\ UNCHANGED <<snd, wire>>
HandsOff == (HandoffReleased \/ HandoffCentered \/ HandoffRefused) /\ UNCHANGED <<snd, wire>>
Releases == ReleaseOwnCapture /\ UNCHANGED <<snd, wire>>
Watches == WatchdogTick /\ UNCHANGED <<snd, wire>>
FallsSilent(p) == Calm(p) /\ ~snd[p].alive /\ Silence(p) /\ UNCHANGED <<snd, wire>>
NoticesClose(p) == lt.conn[p] # "open" /\ SenderGone(p)
PingArrives(p) == HostReceives(p) /\ \E i \in DOMAIN wire[p] :
                    wire[p][i].what = "Ping" /\ wire'[p] = RemoveAt(wire[p], i)

FairSpec ==
  /\ Spec
  /\ WF_vars(Serves) /\ WF_vars(CreatesClients) /\ WF_vars(ReadsEvents)
  /\ WF_vars(HandsOff) /\ WF_vars(Releases) /\ WF_vars(Watches)
  /\ \A p \in Peers : /\ WF_vars(HostReceives(p)) /\ WF_vars(SenderReceives(p))
                      /\ SF_vars(SendPing(p)) /\ WF_vars(FallsSilent(p))
                      /\ WF_vars(NoticesClose(p))
                      /\ SF_vars(PingArrives(p)) /\ SF_vars(ReleaseRequestArrives(p))

-----------------------------------------------------------------------------

(* What a sender believes of the host's readiness never goes back to an     *)
(* older session, in whatever order the datagrams arrive (connect.rs,       *)
(* accept_readiness_epoch).                                                 *)
ReadinessNeverRegresses ==
  [][\A p \in Peers : snd'[p].view.epoch >= snd[p].view.epoch]_snd

(* A sender that forwards input has been let in: "Ack with the same serial  *)
(* is used for synchronization between devices" (lan-mouse-proto).          *)
ForwardsAfterHandoff ==
  \A p \in Peers : snd[p].active /\ snd[p].ack /\ lt.conn[p] = "open" => p \in lt.entered

(* An Enter is acknowledged only while the host's own capture is released   *)
(* (emulation.rs, EmulationEvent::ReleaseCapture).                          *)
AcknowledgesReleased ==
  [][\A p \in Peers :
       (\E i \in DOMAIN wire[p] : /\ wire[p][i].what = "Enter"
                                  /\ wire'[p] = RemoveAt(wire[p], i)
                                  /\ Len(back'[p]) > Len(back[p])) => ~own]_vars

(* The keys of a peer whose process or connection is gone are let go for    *)
(* good, by the watchdog or by the end of the connection, whatever is still *)
(* on its way.                                                              *)
GonePeerLetsGo ==
  \A p \in Peers : ~snd[p].alive ~> [](em.pressed[p] = {})

(* A sender that was asked to release its capture does, though requests and *)
(* pings may be lost: every ping repeats a request that is not acknowledged.*)
AskedReleaseHappens ==
  \A p \in Peers : lt.releases[p] # 0 ~> ~snd[p].active \/ lt.releases[p] = 0

(* Keys do not stay down on a host that the sender has left: key-ups and    *)
(* Leave release them, or the watchdog does (capture.rs, release_capture).  *)
LeftHostLetsGo ==
  \A p \in Peers : (em.pressed[p] # {} /\ ~snd[p].active) ~> (em.pressed[p] = {} \/ snd[p].active)
=============================================================================
