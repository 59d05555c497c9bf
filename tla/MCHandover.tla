----------------------------- MODULE MCHandover -----------------------------
(***************************************************************************)
(* Two instances of Handover with one peer: a network that loses and        *)
(* reorders datagrams and a service that asks for the release of the peer's *)
(* capture; and a network that does not, with a keyboard and an emulation   *)
(* that fails.                                                              *)
(***************************************************************************)
EXTENDS Handover

CONSTANTS p1, k1

VARIABLE network

Reliable == INSTANCE Handover WITH
  Keys <- {k1}, MaxReleases <- 0, Lossy <- FALSE, Reorders <- FALSE, Failing <- TRUE

OnLossy == network = "lossy"
OnReliable == network = "reliable"

EitherInit == network \in {"lossy", "reliable"} /\ Init

EitherNext ==
  \/ OnLossy /\ Next /\ UNCHANGED network
  \/ OnReliable /\ Reliable!Next /\ UNCHANGED network

(* The fairness of FairSpec, in either instance *)
EitherFair ==
  /\ EitherInit /\ [][EitherNext]_<<network, vars>>
  /\ WF_vars(\/ OnLossy /\ Serves
             \/ OnReliable /\ Reliable!Serves)
  /\ WF_vars(\/ OnLossy /\ CreatesClients
             \/ OnReliable /\ Reliable!CreatesClients)
  /\ WF_vars(\/ OnLossy /\ ReadsEvents
             \/ OnReliable /\ Reliable!ReadsEvents)
  /\ WF_vars(\/ OnLossy /\ HandsOff
             \/ OnReliable /\ Reliable!HandsOff)
  /\ WF_vars(\/ OnLossy /\ Releases
             \/ OnReliable /\ Reliable!Releases)
  /\ WF_vars(\/ OnLossy /\ Watches
             \/ OnReliable /\ Reliable!Watches)
  /\ WF_vars(\/ OnLossy /\ HostReceives(p1)
             \/ OnReliable /\ Reliable!HostReceives(p1))
  /\ WF_vars(\/ OnLossy /\ SenderReceives(p1)
             \/ OnReliable /\ Reliable!SenderReceives(p1))
  /\ WF_vars(\/ OnLossy /\ FallsSilent(p1)
             \/ OnReliable /\ Reliable!FallsSilent(p1))
  /\ WF_vars(\/ OnLossy /\ NoticesClose(p1)
             \/ OnReliable /\ Reliable!NoticesClose(p1))
  /\ SF_vars(\/ OnLossy /\ SendPing(p1)
             \/ OnReliable /\ Reliable!SendPing(p1))
  /\ SF_vars(\/ OnLossy /\ PingArrives(p1)
             \/ OnReliable /\ Reliable!PingArrives(p1))
  /\ SF_vars(\/ OnLossy /\ ReleaseRequestArrives(p1)
             \/ OnReliable /\ Reliable!ReleaseRequestArrives(p1))

Held(p) ==
  \/ OnReliable /\ em.pressed[p] # {} /\ ~snd[p].active
  \/ OnLossy /\ lt.releases[p] # 0 /\ snd[p].active

(* When nothing is lost, keys do not stay down on a host that the sender has left or that *)
(* it has died on, though the host may not hear of it; and a sender that was asked to      *)
(* release its capture does, though datagrams are lost (LeftHostLetsGo,                    *)
(* AskedReleaseHappens).                                                                   *)
LetsGo == \A p \in Peers : Held(p) ~> ~Held(p)
=============================================================================
