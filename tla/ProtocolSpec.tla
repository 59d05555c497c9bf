------------------------------ MODULE ProtocolSpec ------------------------------
(***************************************************************************)
(* One lifetime of the coordinator actor (coordinator.rs) around the        *)
(* transition function: it takes one event at a time, keeps the resulting    *)
(* state and hands the effects out.  What clients, peers and the TV may send *)
(* is left as open as the code lets it be.                                   *)
(***************************************************************************)
EXTENDS DisplayProtocol

CONSTANTS
    PeerSessions,       \* peer session epochs a peer or a lease may carry
    Modes,              \* TV modes the transport may report
    Signals,            \* signal lists the TV may report
    MaxSwitchEpoch,     \* bound on the display commands of a behaviour
    MaxRequestEpoch     \* bound on the enter requests of a behaviour

ASSUME EnvironmentAssumption ==
    /\ PeerSessions \subseteq Nat \ {0}
    /\ Modes \subseteq TvModes /\ Signals \subseteq [DisplayHosts -> BOOLEAN]
    /\ MaxSwitchEpoch \in Nat /\ MaxRequestEpoch \in Nat

VARIABLES
    st,         \* the coordinator's ProtocolState
    pending,    \* the TV commands the transport has not answered yet
    running     \* FALSE once the daemon has shut down

vars == <<st, pending, running>>

Init == st = WithDisplayHosts /\ pending = {} /\ running = TRUE

(* The new state is published without its effects, which go to the transport. *)
Publish(s, answered) ==
    /\ st' = [s EXCEPT !.effects = <<>>]
    /\ pending' = (pending \ answered)
                    \cup {e \in {s.effects[i] : i \in DOMAIN s.effects} : e.type # "Wake"}
    /\ s.switch_epoch <= MaxSwitchEpoch
    /\ s.request_epoch <= MaxRequestEpoch

(* An effect that is neither a Wake nor a fallback command fails the command    *)
(* when the ordinary queue is full.  The others are lost then, which is the     *)
(* same as never being answered.                                               *)
FailsWhenFull(effect) == effect.type # "Wake" /\ ~(effect.type = "SetInput" /\ effect.fallback)

(* One turn of the actor loop; a handler emits at most one effect. *)
Turn(result, answered) ==
    /\ running
    /\ \/ Publish(result.next, answered)
       \/ \E i \in DOMAIN result.next.effects :
            /\ FailsWhenFull(result.next.effects[i])
            /\ Publish(ApplyCommandFailed([result.next EXCEPT !.effects = <<>>],
                                          result.next.effects[i].switch_epoch).next,
                       answered)
    /\ UNCHANGED running

Handle(result) == Turn(result, {})

Inputs == Option(DisplayHosts)

(* The transport reports its lifecycle in order, through one FIFO channel. *)
TransportConnecting ==
    st.ws_state = "Disconnected" /\ Handle(ApplyTransportConnecting(st))

TransportRegistering ==
    st.ws_state = "Connecting" /\ Handle(ApplyTransportRegistering(st))

TransportSubscribed ==
    st.ws_state = "Registering" /\ Handle(ApplyTransportSubscribed(st))

TransportSynchronized(input, signals) ==
    /\ st.ws_state = "Synchronizing"
    /\ Handle(ApplyTransportSynchronized(st, "Fullscreen", input, signals))

TransportDisconnected ==
    st.ws_state # "Disconnected" /\ Handle(ApplyTransportDisconnected(st))

(* Answers to commands, in any order; they may be late or missing. *)
CommandAcknowledged(effect) ==
    /\ st.ws_state = "Connected" /\ effect.type = "SetInput"
    /\ Turn(ApplyCommandAcknowledged(st, effect.switch_epoch, effect.target), {effect})

CommandFailed(effect) ==
    /\ st.ws_state = "Connected"
    /\ Turn(ApplyCommandFailed(st, effect.switch_epoch), {effect})

Observation(effect, mode, input, signals) ==
    /\ st.ws_state = "Connected" /\ effect.type = "Observe"
    /\ Turn(ApplyObservation(st, effect.switch_epoch, mode, input, signals), {effect})

MultiViewAcknowledged(effect) ==
    /\ st.ws_state = "Connected" /\ effect.type = "SetMultiView"
    /\ Turn(ApplyMultiViewAcknowledged(st, effect.switch_epoch, effect.enabled), {effect})

SubscriptionObserved(mode, input) ==
    /\ st.ws_state \in {"Synchronizing", "Connected"}
    /\ Handle(ApplySubscriptionObserved(st, mode, input))

(* The other fields of an offline report are never read; neither is the entry *)
(* of the server itself.                                                       *)
Readiness ==
    [online : {FALSE}, ready : {FALSE}, session_epoch : {0}]
        \cup [online : {TRUE}, ready : BOOLEAN, session_epoch : PeerSessions]

PeerReadinessUpdated(host, readiness) ==
    Handle(ApplyPeerReadinessUpdated(st, host, readiness))

ArmManualRecovery(target) == Handle(ApplyArmManualRecovery(st, target))

(* The handler turned the client's lease_ttl_ms, at most LEASE_MS, into a      *)
(* deadline before the event was queued.                                       *)
OfferedLeases == [id : Leases, peer_session_epoch : PeerSessions, expires : 0 .. LEASE_MS]

CreateEnter(id, target, lease) == Handle(ApplyCreateEnter(st, id, target, lease))

Commit(id, requestEpoch, grantEpoch, lease) ==
    Handle(ApplyCommit(st, id, requestEpoch, grantEpoch, lease))

Cancel(id) == Handle(ApplyCancel(st, id))

Renew(id, lease, peerSession) == Handle(ApplyRenew(st, id, lease, peerSession))

MultiViewRequested(enabled) == Handle(ApplyMultiViewRequested(st, enabled))

(* The deadline timer fires. *)
Tick == DeadlineDue(st) /\ Handle(ApplyTick(st))

Shutdown ==
    /\ running
    /\ st' = ApplyShutdown(st).next
    /\ pending' = {}
    /\ running' = FALSE

Clock == running /\ st' = Elapse(st) /\ UNCHANGED <<pending, running>>

TransportStep ==
    \/ TransportConnecting \/ TransportRegistering \/ TransportSubscribed
    \/ \E input \in Inputs, signals \in Signals : TransportSynchronized(input, signals)
    \/ TransportDisconnected

TvAnswer ==
    \/ \E effect \in pending : CommandAcknowledged(effect)
    \/ \E effect \in pending : CommandFailed(effect)
    \/ \E effect \in pending, mode \in Modes, input \in Inputs, signals \in Signals :
            Observation(effect, mode, input, signals)
    \/ \E effect \in pending : MultiViewAcknowledged(effect)
    \/ \E mode \in Modes, input \in Inputs : SubscriptionObserved(mode, input)

ClientStep ==
    \/ \E host \in Hosts \ {Server}, readiness \in Readiness :
            PeerReadinessUpdated(host, readiness)
    \/ \E target \in Hosts : ArmManualRecovery(target)
    \/ \E id \in Requests, target \in Hosts, lease \in OfferedLeases :
            CreateEnter(id, target, lease)
    \/ \E id \in Requests, requestEpoch \in 1 .. st.request_epoch,
          grantEpoch \in 1 .. st.grant_epoch, lease \in Leases :
            Commit(id, requestEpoch, grantEpoch, lease)
    \/ \E id \in Requests : Cancel(id)
    \/ \E id \in Requests, lease \in Leases, peerSession \in PeerSessions :
            Renew(id, lease, peerSession)
    \/ \E enabled \in BOOLEAN : MultiViewRequested(enabled)

Next == TransportStep \/ TvAnswer \/ ClientStep \/ Tick \/ Shutdown \/ Clock

Spec == Init /\ [][Next]_vars
--------------------------------------------------------------------------------
(* The state apply() produces has the types of domain.rs, and only TV commands   *)
(* are pending.                                                                 *)
TypeOK == st \in ProtocolState /\ pending \subseteq Effect /\ running \in BOOLEAN

Owner == st.keyboard_owner
Request == st.active_request
Session == st.active_session

(* What the phase of a state promises about its request, session and fallback. *)
Coherent(s) ==
    LET request == s.active_request
        session == s.active_session
    IN  /\ request = None =>
            s.phase \notin {"Waking", "Switching", "Verifying", "GrantPending"}
        /\ request # None =>
            /\ request.status = "Waking" => s.phase \in {"Waking", "MultiviewChanging"}
            /\ request.status = "Switching" => s.phase \in {"Switching", "Verifying"}
            /\ request.status = "Grant" => s.phase = "GrantPending"
        /\ s.phase = "RemoteOwned" => session # None
        /\ session = None <=> s.keyboard_owner = Server
        /\ s.fallback_required =>
            /\ request = None /\ session = None
            /\ s.phase \in {"FallbackCommandPending", "FallbackVerifying", "FallbackDeferred"}
        /\ s.phase \in {"FallbackCommandPending", "FallbackVerifying"} => s.fallback_required
        /\ s.phase = "FallbackDeferred" => ~DaemonHealthy(s)
        /\ ~DaemonHealthy(s) =>
            request = None /\ session = None /\ s.phase \in {"Idle", "FallbackDeferred"}

(* A phase never outlives the request, session or fallback it belongs to, and   *)
(* none of these outlives the connection to the TV, in whatever order answers,  *)
(* cancellations, readiness losses and timeouts reach `apply'.                  *)
PhaseCoherent == Coherent(st)

(* While a remote host has the keyboard it has the pointer too, the TV is under *)
(* control, the peer's bundle is ready for the leased session, and the newest   *)
(* report of a routed display is the owner's input with a signal (validate() in *)
(* domain.rs checks most of this after an event; time and the transport's       *)
(* lifecycle must not undo it).                                                 *)
RemoteInputJustified ==
    /\ st.pointer_owner = Owner
    /\ Owner # Server =>
        /\ DaemonHealthy(st) /\ ~st.fallback_required /\ st.manual_recovery_target = None
        /\ Session # None /\ Session.target = Owner
        /\ BundleReady(st.peers[Owner], Session.lease.peer_session_epoch)
        /\ HasDisplayRoute(Owner) =>
            /\ TargetDisplayVerified(st, Owner, Session.switch_epoch)
            /\ st.verified_epoch = Session.switch_epoch

(* A grant, and the switch of a request, are about the newest display command   *)
(* and the newest grant: no later command or multiview change overtakes them    *)
(* (commit_enter hands the input over on the strength of these epochs).         *)
GrantIsForNewestCommand ==
    Request # None =>
        /\ Request.switch_epoch \in {None, st.switch_epoch}
        /\ Request.status = "Grant" =>
            /\ Request.grant # None
            /\ Request.grant.switch_epoch = st.switch_epoch
            /\ Request.grant.grant_epoch = st.grant_epoch
            /\ st.verified_epoch = st.switch_epoch

(* The daemon never waits for an answer without a deadline: outside of Idle and  *)
(* FallbackDeferred, which wait for clients and for the transport, next_deadline_ms *)
(* is set, so a lost answer or a dropped effect cannot strand it.               *)
NoAbandonedPhase ==
    st.phase \notin {"Idle", "FallbackDeferred"} => Deadlines(st) # {}

(* request_history keeps at most retained_request_limit requests, one entry per  *)
(* id, and none for the active request: `request()' has one answer per id.      *)
HistoryDistinct ==
    LET history == st.request_history
    IN  /\ Len(history) <= RetainedRequests
        /\ \A i, j \in DOMAIN history :
            history[i].request_id = history[j].request_id => i = j
        /\ Request # None => Archived(st, Request.request_id) = {}

(* The state after an event, with its effects handed out. *)
After(result) == [result.next EXCEPT !.effects = <<>>]

(* A client that repeats a create, commit or cancel because the answer was lost  *)
(* changes nothing the first call did not change, whether the first succeeded,   *)
(* was refused, or ended in a fallback.                                         *)
RetriesHarmless ==
    \A id \in Requests :
        /\ LET once == After(ApplyCancel(st, id))
           IN  After(ApplyCancel(once, id)) = once
        /\ \A target \in Hosts, lease \in OfferedLeases :
            LET once == After(ApplyCreateEnter(st, id, target, lease))
            IN  After(ApplyCreateEnter(once, id, target, lease)) = once
        /\ \A e \in 1 .. st.request_epoch, g \in 1 .. st.grant_epoch, lease \in Leases :
            LET once == After(ApplyCommit(st, id, e, g, lease))
            IN  After(ApplyCommit(once, id, e, g, lease)) = once

(* No state makes validate() reject an event that takes the input away from a   *)
(* remote host: losing the TV, a failed command, an offline peer, a shutdown.   *)
SafetyAccepted ==
    /\ ApplyTransportDisconnected(st).err = "none"
    /\ ApplyCommandFailed(st, st.switch_epoch).err = "none"
    /\ ApplyShutdown(st).err = "none"
    /\ Owner # Server =>
        ApplyPeerReadinessUpdated(st, Owner, [online |-> FALSE, ready |-> FALSE,
                                              session_epoch |-> 0]).err = "none"

(* The deadline timer's event is never rejected (the design lets every deadline  *)
(* invalidate the request or session it belongs to).                            *)
TickAccepted == DeadlineDue(st) => ApplyTick(st).err = "none"

(* A tick consumes the deadline that caused it.  The actor loop serves no queue  *)
(* while a deadline is due, so one that stays due starves the safety lane.       *)
TickSettles == DeadlineDue(st) => ~DeadlineDue(ApplyTick(st).next)

(* It does so but for the command deadline of a switch and the deadlines of a    *)
(* request made while a session is still active.                                *)
TickSettlesElsewhere ==
    running /\ st.phase # "Switching" /\ ~(Request # None /\ Session # None) =>
        TickAccepted /\ TickSettles

(* The TV may show the target of the active request. *)
Switched == Request # None /\ Request.switch_epoch # None /\ RoutedRemote(Request.target)

(* A switch that ends without a session leads to a restored server display      *)
(* (docs: cancellation drives the one verified display fallback transaction).   *)
EndedSwitchRestores ==
    [][Switched /\ Request' = None /\ Session' = None => st'.fallback_required]_vars

(* It does when the switch ends for any other reason than a cancel: expiry, a    *)
(* failed command, a lost peer, a lost connection, a lost display.              *)
FailedSwitchRestores ==
    [][/\ Switched /\ Request' = None /\ Session' = None
       /\ \A i \in Archived(st', Request.request_id) :
            st'.request_history[i].status # "Cancelled"
       => st'.fallback_required]_vars

================================================================================
