---------------------------- MODULE DisplayProtocol ----------------------------
(***************************************************************************)
(* The transition function of the display controller (protocol.rs): one     *)
(* operator Apply... for each Event of `apply', built from operators that   *)
(* bear the names of the functions of protocol.rs.  Each Apply... maps a     *)
(* state to a result [err, next]; `next' is the state the coordinator keeps, *)
(* which is the old state when err is not "none".                            *)
(***************************************************************************)
EXTENDS DisplayState

Ok(s) == [err |-> "none", next |-> s]
Err(s, error) == [err |-> error, next |-> s]

(* The new state is accepted only if validate() accepts it. *)
Validated(s, new) == IF Validate(new) THEN Ok(new) ELSE Err(s, "Invariant")

Emit(s, effect) == [s EXCEPT !.effects = Append(@, effect)]
--------------------------------------------------------------------------------
ReleaseToServer(s) ==
    [s EXCEPT !.keyboard_owner = Server, !.pointer_owner = Server,
              !.active_session = None]

StoreObservation(s, epoch, mode, input, signals) ==
    [s EXCEPT
        !.tv_mode = mode,
        !.observed_input = input,
        !.input_signal = [h \in DisplayHosts |->
                            [present |-> signals[h], switch_epoch |-> epoch]]]

(* Mutant of RequestObservation: the poll that asked for it stays armed. *)
RequestObservationStillPolling(s, epoch) ==
    Emit([s EXCEPT !.observation_in_flight = epoch, !.phase_deadline = OBSERVATION_MS],
         [type |-> "Observe", switch_epoch |-> epoch])

RequestObservation(s, epoch) ==
    Emit([s EXCEPT !.observation_in_flight = epoch,
                   !.next_signal_poll = None,
                   !.phase_deadline = OBSERVATION_MS],
         [type |-> "Observe", switch_epoch |-> epoch])

RequestObservationPreservingDeadline(s, epoch) ==
    [RequestObservation(s, epoch) EXCEPT !.phase_deadline = s.phase_deadline]

IssueGrant(s) ==
    LET request == s.active_request
        expires == IF GRANT_MS < request.lease.expires
                   THEN GRANT_MS ELSE request.lease.expires
    IN  [s EXCEPT
            !.grant_epoch = @ + 1,
            !.active_request =
                [@ EXCEPT !.status = "Grant", !.deadline = expires,
                          !.grant = [grant_epoch |-> s.grant_epoch + 1,
                                     switch_epoch |-> request.switch_epoch,
                                     expires |-> expires]],
            !.verified_epoch = request.switch_epoch,
            !.phase = "GrantPending",
            !.phase_deadline = expires]

(* Mutant of BeginSwitch: a target without a route is granted before the request *)
(* has its switch epoch.                                                         *)
BeginSwitchWithoutEpoch(s) ==
    IssueGrant([s EXCEPT !.switch_epoch = @ + 1, !.commanded_input = None])

(* A target without a display route is granted without touching the TV. *)
BeginSwitch(s) ==
    LET epoch == s.switch_epoch + 1
        target == s.active_request.target
        switching ==
            [s EXCEPT
                !.switch_epoch = epoch,
                !.active_request =
                    [@ EXCEPT !.status = "Switching", !.switch_epoch = epoch,
                              !.deadline = COMMAND_MS + OBSERVATION_MS]]
    IN  IF HasDisplayRoute(target)
        THEN Emit([switching EXCEPT !.commanded_input = target,
                                    !.phase = "Switching",
                                    !.phase_deadline = COMMAND_MS],
                  [type |-> "SetInput", target |-> target, switch_epoch |-> epoch,
                   fallback |-> FALSE])
        ELSE IssueGrant([switching EXCEPT !.commanded_input = None,
                                          !.phase_deadline = None])

(* Mutant of IssueFallbackCommand: no deadline for the answer. *)
IssueFallbackCommandOnce(s) ==
    Emit([s EXCEPT !.switch_epoch = @ + 1,
                   !.commanded_input = Server,
                   !.phase = "FallbackCommandPending",
                   !.phase_deadline = None],
         [type |-> "SetInput", target |-> Server, switch_epoch |-> s.switch_epoch + 1,
          fallback |-> TRUE])

IssueFallbackCommand(s) ==
    Emit([s EXCEPT !.switch_epoch = @ + 1,
                   !.commanded_input = Server,
                   !.phase = "FallbackCommandPending",
                   !.phase_deadline = COMMAND_MS],
         [type |-> "SetInput", target |-> Server, switch_epoch |-> s.switch_epoch + 1,
          fallback |-> TRUE])

DisplayRestoreRequired(s) ==
    \/ s.fallback_required
    \/ s.pending_multiview # None
    \/ /\ s.active_request # None
       /\ s.active_request.switch_epoch # None
       /\ HasDisplayRoute(s.active_request.target)
    \/ s.active_session # None /\ HasDisplayRoute(s.active_session.target)

(* Mutant of RoutedRemote: the server counts as a recovery target. *)
RoutedHost(host) == HasDisplayRoute(host)

RoutedRemote(host) == host # Server /\ HasDisplayRoute(host)

(* The committed request behind the session ends as a fallback. *)
FailCommittedRequest(s) ==
    LET at == IF s.active_session = None THEN {}
              ELSE Archived(s, s.active_session.request_id)
    IN  IF at # {} /\ s.request_history[Max(at)].status = "Committed"
        THEN [s EXCEPT !.request_history[Max(at)].status = "Fallback"]
        ELSE s

BeginFallbackWithRestore(s, restore) ==
    LET request == s.active_request
        recovery == IF request # None /\ RoutedRemote(request.target)
                    THEN request.target ELSE s.manual_recovery_target
        released ==
            [ReleaseToServer(FailCommittedRequest(s)) EXCEPT
                !.manual_recovery_target = recovery,
                !.fallback_required = restore,
                !.verified_epoch = None,
                !.pending_multiview = None,
                !.observation_in_flight = None,
                !.next_signal_poll = None,
                !.active_request = None]
        archived == IF request = None THEN released
                    ELSE ArchiveRequest(released, request, "Fallback")
    IN  IF restore /\ DaemonHealthy(s)
        THEN IssueFallbackCommand(archived)
        ELSE [archived EXCEPT
                !.phase = IF restore \/ ~DaemonHealthy(s)
                          THEN "FallbackDeferred" ELSE "Idle",
                !.phase_deadline = None]

BeginFallback(s) == BeginFallbackWithRestore(s, DisplayRestoreRequired(s))

BeginActiveSessionFailureFallback(s) ==
    BeginFallback(
        IF s.active_session # None /\ RoutedRemote(s.active_session.target)
        THEN [s EXCEPT !.manual_recovery_target = s.active_session.target]
        ELSE s)

FinishFallback(s) ==
    [ReleaseToServer(s) EXCEPT
        !.fallback_required = FALSE,
        !.phase = "Idle",
        !.phase_deadline = None,
        !.observation_in_flight = None,
        !.next_signal_poll = None,
        !.verified_epoch = s.switch_epoch]

ManualDisplayObserved(s) ==
    /\ s.tv_mode # "Fullscreen" \/ s.observed_input # Server
    /\ s.keyboard_owner = Server /\ s.pointer_owner = Server
    /\ s.active_request = None /\ s.active_session = None

AcceptManualDisplay(s) ==
    [ReleaseToServer(s) EXCEPT
        !.commanded_input = None,
        !.manual_recovery_target = None,
        !.fallback_required = FALSE,
        !.pending_multiview = None,
        !.phase = "Idle",
        !.phase_deadline = None,
        !.observation_in_flight = None,
        !.next_signal_poll = None]

CompleteMultiviewObservation(s) ==
    IF s.pending_multiview = None THEN s
    ELSE IF s.pending_multiview = TRUE /\ s.tv_mode = "Multiview"
    THEN [s EXCEPT !.pending_multiview = None, !.phase = "Idle",
                   !.phase_deadline = None]
    ELSE BeginFallback(s)
--------------------------------------------------------------------------------
(* Events of the SSAP transport. *)

ApplyTransportConnecting(s) == Validated(s, [s EXCEPT !.ws_state = "Connecting"])

ApplyTransportRegistering(s) == Validated(s, [s EXCEPT !.ws_state = "Registering"])

ApplyTransportSubscribed(s) == Validated(s, [s EXCEPT !.ws_state = "Synchronizing"])

ApplyTransportSynchronized(s, mode, input, signals) ==
    LET seen == StoreObservation([s EXCEPT !.ws_state = "Connected"],
                                 s.switch_epoch, mode, input, signals)
    IN  Validated(s, IF ServerDisplayVerified(seen, s.switch_epoch)
                     THEN FinishFallback(seen)
                     ELSE IF ManualDisplayObserved(seen)
                     THEN AcceptManualDisplay(seen)
                     ELSE BeginFallback(seen))

(* Mutant of ApplyTransportDisconnected: the session survives the connection. *)
ApplyTransportDisconnectedKeepsInput(s) ==
    Validated(s, [s EXCEPT !.ws_state = "Disconnected"])

ApplyTransportDisconnected(s) ==
    Validated(s, BeginFallback([s EXCEPT !.ws_state = "Disconnected"]))

(* An acknowledgement counts only for the newest command. *)
ApplyCommandAcknowledged(s, epoch, target) ==
    IF s.switch_epoch # epoch \/ s.commanded_input # target
    THEN Ok(s)
    ELSE Validated(s,
            IF /\ s.observation_in_flight = None
               /\ s.phase \in {"Switching", "FallbackCommandPending"}
            THEN RequestObservation(
                    [s EXCEPT !.phase = IF s.fallback_required
                                        THEN "FallbackVerifying" ELSE "Verifying"],
                    epoch)
            ELSE s)

ApplyCommandFailed(s, epoch) ==
    Validated(s, IF s.switch_epoch = epoch THEN BeginFallback(s) ELSE s)

(* What an observation means while a request is active. *)
ObserveForRequest(s, epoch) ==
    LET request == s.active_request
        verified == TargetDisplayVerified(s, request.target, epoch)
        authorized == \/ request.target = Server
                      \/ /\ BundleReady(s.peers[request.target],
                                        request.lease.peer_session_epoch)
                         /\ request.lease.expires > 0
    IN  IF request.switch_epoch # epoch THEN s
        ELSE IF s.phase = "Verifying" /\ verified
        THEN IF authorized THEN IssueGrant(s) ELSE BeginFallback(s)
        ELSE IF s.phase = "GrantPending" /\ ~verified
        THEN BeginFallback(s)
        ELSE s

(* What it means for an active session. *)
ObserveForSession(s, epoch) ==
    LET session == s.active_session
    IN  IF session = None THEN s
        ELSE IF /\ session.switch_epoch = epoch
                /\ ~TargetDisplayVerified(s, session.target, epoch)
        THEN BeginActiveSessionFailureFallback(s)
        ELSE [s EXCEPT !.phase_deadline = None,
                       !.next_signal_poll = SIGNAL_POLL_MS]

ApplyObservation(s, epoch, mode, input, signals) ==
    LET stored == StoreObservation(s, epoch, mode, input, signals)
        seen == [stored EXCEPT
                    !.observation_in_flight = IF @ = epoch THEN None ELSE @]
    IN  Validated(s,
            IF seen.fallback_required /\ seen.switch_epoch = epoch
            THEN IF ServerDisplayVerified(seen, epoch)
                 THEN FinishFallback(seen)
                 ELSE [seen EXCEPT !.phase = "FallbackVerifying"]
            ELSE IF seen.active_request # None
            THEN ObserveForRequest(seen, epoch)
            ELSE IF seen.phase = "RemoteOwned"
            THEN ObserveForSession(seen, epoch)
            ELSE IF seen.phase = "MultiviewChanging"
            THEN CompleteMultiviewObservation(seen)
            ELSE seen)

ApplyMultiViewAcknowledged(s, epoch, enabled) ==
    Validated(s, IF s.switch_epoch = epoch /\ s.pending_multiview = enabled
                 THEN [RequestObservation(s, epoch) EXCEPT !.phase = "MultiviewChanging"]
                 ELSE s)

(* The TV reports its foreground input on its own. *)
ApplySubscriptionObserved(s, mode, input) ==
    LET seen == [s EXCEPT !.tv_mode = mode, !.observed_input = input]
        shows(host) == mode = "Fullscreen" /\ input = host
        lost(holder) == /\ holder # None
                        /\ HasDisplayRoute(holder.target)
                        /\ ~shows(holder.target)
        idle == s.phase = "Idle"
    IN  Validated(s,
            IF /\ \/ s.fallback_required /\ s.phase = "FallbackVerifying" /\ shows(Server)
                  \/ /\ s.phase = "Verifying" /\ s.active_request # None
                     /\ shows(s.active_request.target)
               /\ s.observation_in_flight = None
            THEN RequestObservationPreservingDeadline(seen, s.switch_epoch)
            ELSE IF \/ s.phase = "GrantPending" /\ lost(s.active_request)
                    \/ lost(s.active_session)
            THEN BeginFallback(seen)
            ELSE IF ManualDisplayObserved(seen)
            THEN AcceptManualDisplay(seen)
            ELSE IF idle /\ shows(Server)
            THEN [seen EXCEPT !.manual_recovery_target = None]
            ELSE IF idle /\ (mode # "Fullscreen" \/ input \notin {None, Server})
            THEN BeginFallback(seen)
            ELSE seen)
--------------------------------------------------------------------------------
(* Events of the HTTP API. *)

ApplyPeerReadinessUpdated(s, host, readiness) ==
    LET told == [s EXCEPT !.peers[host] = readiness]
        request == s.active_request
        requestReady == BundleReady(readiness, request.lease.peer_session_epoch)
        forRequest ==
            IF request = None \/ request.target # host THEN told
            ELSE IF s.phase = "Waking" /\ requestReady THEN BeginSwitch(told)
            ELSE IF s.phase \in {"Switching", "Verifying", "GrantPending"} /\ ~requestReady
            THEN BeginFallback(told)
            ELSE told
        session == forRequest.active_session
        sessionEpoch == IF session = None THEN 0 ELSE session.lease.peer_session_epoch
    IN  Validated(s,
            IF /\ forRequest.keyboard_owner = host /\ host # Server
               /\ ~BundleReady(readiness, sessionEpoch)
            THEN BeginActiveSessionFailureFallback(forRequest)
            ELSE forRequest)

ApplyArmManualRecovery(s, target) ==
    IF target = Server THEN Err(s, "InvalidManualRecoveryTarget")
    ELSE IF \/ ~Ready(s)
            \/ s.phase # "Idle"
            \/ s.keyboard_owner # Server \/ s.pointer_owner # Server
            \/ s.active_request # None \/ s.active_session # None
            \/ ~ServerDisplayVerified(s, s.switch_epoch)
    THEN Err(s, "Unavailable")
    ELSE Validated(s, [s EXCEPT !.manual_recovery_target = target])

(* Mutant of KnownIdentity: finished requests are forgotten. *)
ActiveIdentity(s, id) ==
    IF s.active_request # None /\ s.active_request.request_id = id
    THEN <<s.active_request.target, s.active_request.lease.id>> ELSE None

(* The identity (target and lease) of a request id the state still knows. *)
KnownIdentity(s, id) ==
    LET at == Archived(s, id)
    IN  IF s.active_request # None /\ s.active_request.request_id = id
        THEN <<s.active_request.target, s.active_request.lease.id>>
        ELSE IF at = {} THEN None
        ELSE <<s.request_history[Max(at)].target, s.request_history[Max(at)].lease>>

(* A new request: local at once for the server, otherwise the target is woken, *)
(* denied because its input bundle is not ready, or switched to.               *)
StartRequest(s, id, target, lease) ==
    LET request == [request_id |-> id, target |-> target,
                    request_epoch |-> s.request_epoch + 1, lease |-> lease,
                    status |-> "Switching", switch_epoch |-> None, grant |-> None,
                    deadline |-> COMMAND_MS]
        fresh == [s EXCEPT !.manual_recovery_target = None, !.request_epoch = @ + 1]
        peer == s.peers[target]
    IN  IF target = Server
        THEN BeginSwitch([ReleaseToServer(fresh) EXCEPT !.active_request = request])
        ELSE IF ~peer.online
        THEN Emit([fresh EXCEPT
                    !.phase = "Waking", !.phase_deadline = WAKE_MS,
                    !.active_request =
                        [request EXCEPT !.status = "Waking", !.deadline = WAKE_MS]],
                  [type |-> "Wake", target |-> target])
        ELSE IF ~BundleReady(peer, lease.peer_session_epoch)
        THEN ArchiveRequest([fresh EXCEPT !.manual_recovery_target = target],
                            request, "Denied")
        ELSE BeginSwitch([fresh EXCEPT !.active_request = request])

ApplyCreateEnter(s, id, target, lease) ==
    LET known == KnownIdentity(s, id)
    IN  IF known # None
        THEN IF known = <<target, lease.id>>
             THEN Ok(s) ELSE Err(s, "RequestIdentityConflict")
        ELSE IF s.active_request # None THEN Err(s, "Busy")
        ELSE IF ~Ready(s) THEN Err(s, "Unavailable")
        ELSE IF lease.expires = 0 THEN Err(s, "InvalidLease")
        ELSE Validated(s, StartRequest(s, id, target, lease))

(* Keyboard and pointer move to the target together. *)
CommitRequest(s) ==
    LET request == s.active_request
        lease == [request.lease EXCEPT !.expires = LEASE_MS]
        local == request.target = Server
        owned ==
            [s EXCEPT
                !.active_request = None,
                !.keyboard_owner = request.target,
                !.pointer_owner = request.target,
                !.fallback_required = FALSE,
                !.manual_recovery_target = None,
                !.phase_deadline = None,
                !.observation_in_flight = None,
                !.active_session =
                    IF local THEN None
                    ELSE [request_id |-> request.request_id, target |-> request.target,
                          request_epoch |-> request.request_epoch,
                          switch_epoch |-> request.switch_epoch,
                          lease |-> lease, renewed_until |-> LEASE_MS],
                !.phase = IF local THEN "Idle" ELSE "RemoteOwned",
                !.next_signal_poll = IF ~local /\ HasDisplayRoute(request.target)
                                     THEN SIGNAL_POLL_MS ELSE None]
    IN  ArchiveRequest(owned, request, "Committed")

(* Mutant of ApplyCommit: an expired grant is good enough. *)
ApplyCommitLate(s, id, requestEpoch, grantEpoch, lease) ==
    LET request == s.active_request
    IN  IF /\ request # None
           /\ request.request_id = id /\ request.request_epoch = requestEpoch
           /\ request.status = "Grant" /\ request.grant.grant_epoch = grantEpoch
           /\ request.lease.id = lease
        THEN Validated(s, CommitRequest(s))
        ELSE Err(s, "StaleIdentity")

ApplyCommit(s, id, requestEpoch, grantEpoch, lease) ==
    LET committed == {i \in Archived(s, id) : s.request_history[i].status = "Committed"}
        entry == s.request_history[Max(committed)]
        request == s.active_request
    IN  IF committed # {}
        THEN IF /\ entry.request_epoch = requestEpoch
                /\ entry.lease = lease
                /\ entry.grant_epoch = grantEpoch
             THEN Validated(s, s) ELSE Err(s, "StaleIdentity")
        ELSE IF request = None THEN Err(s, "RequestNotFound")
        ELSE IF \/ request.grant = None
                \/ request.request_id # id
                \/ request.request_epoch # requestEpoch
                \/ request.status # "Grant"
                \/ request.lease.id # lease
                \/ request.grant.grant_epoch # grantEpoch
                \/ request.grant.expires = 0
                \/ request.lease.expires = 0
        THEN Err(s, "StaleIdentity")
        ELSE Validated(s,
                IF /\ request.target # Server
                   /\ ~BundleReady(s.peers[request.target],
                                   request.lease.peer_session_epoch)
                THEN BeginFallback(s)
                ELSE CommitRequest(s))

(* Mutant of ApplyCancel: the phase of a cancelled wake is kept. *)
ApplyCancelKeepsPhase(s, id) ==
    IF s.active_request = None \/ s.active_request.request_id # id
    THEN Err(s, "RequestNotFound")
    ELSE Validated(s, [ArchiveRequest(s, s.active_request, "Cancelled") EXCEPT
                        !.active_request = None])

ApplyCancel(s, id) ==
    LET at == Archived(s, id)
        request == s.active_request
        ended == [ArchiveRequest(s, request, "Cancelled") EXCEPT
                    !.active_request = None,
                    !.manual_recovery_target =
                        IF request.target # Server THEN request.target ELSE @]
    IN  IF \E i \in at : s.request_history[i].status \in {"Cancelled", "Fallback"}
        THEN Validated(s, s)
        ELSE IF s.active_session # None /\ s.active_session.request_id = id
        THEN IF at = {} THEN Err(s, "RequestNotFound")
             ELSE Validated(s, BeginFallback(
                    [s EXCEPT !.request_history[Max(at)].status = "Cancelled"]))
        ELSE IF request = None \/ request.request_id # id
        THEN Err(s, "RequestNotFound")
        ELSE Validated(s,
                IF request.switch_epoch # None
                THEN BeginFallback(ended)
                ELSE [ended EXCEPT !.phase = "Idle", !.phase_deadline = None])

ApplyRenew(s, id, lease, peerSession) ==
    LET session == s.active_session
        valid == /\ session # None
                 /\ session.request_id = id
                 /\ session.lease.id = lease
                 /\ session.lease.peer_session_epoch = peerSession
                 /\ BundleReady(s.peers[session.target], peerSession)
    IN  Validated(s,
            IF valid
            THEN [s EXCEPT !.active_session.renewed_until = LEASE_MS,
                           !.active_session.lease.expires = LEASE_MS]
            ELSE BeginActiveSessionFailureFallback(s))

(* Mutant of ApplyMultiViewRequested: an active request does not make it busy. *)
ApplyMultiViewRequestedAnyTime(s, enabled) ==
    IF ~Ready(s) \/ s.keyboard_owner # Server \/ s.pending_multiview # None
    THEN Err(s, "Unavailable")
    ELSE Validated(s, Emit([s EXCEPT !.switch_epoch = @ + 1,
                                     !.pending_multiview = enabled,
                                     !.phase = "MultiviewChanging",
                                     !.phase_deadline = COMMAND_MS],
                           [type |-> "SetMultiView", enabled |-> enabled,
                            switch_epoch |-> s.switch_epoch + 1]))

ApplyMultiViewRequested(s, enabled) ==
    IF ~Ready(s) THEN Err(s, "Unavailable")
    ELSE IF s.keyboard_owner # Server \/ s.pointer_owner # Server
    THEN Err(s, "InputNotLocal")
    ELSE IF s.active_request # None \/ s.pending_multiview # None
    THEN Err(s, "Busy")
    ELSE Validated(s,
            Emit([s EXCEPT !.switch_epoch = @ + 1,
                           !.pending_multiview = enabled,
                           !.phase = "MultiviewChanging",
                           !.phase_deadline = COMMAND_MS],
                 [type |-> "SetMultiView", enabled |-> enabled,
                  switch_epoch |-> s.switch_epoch + 1]))

ApplyShutdown(s) ==
    Validated(s, [ReleaseToServer(s) EXCEPT
                    !.ws_state = "Disconnected",
                    !.fallback_required = TRUE,
                    !.phase = "FallbackDeferred",
                    !.active_request = None,
                    !.pending_multiview = None,
                    !.phase_deadline = None])
--------------------------------------------------------------------------------
(* The deadline timer. *)

(* Mutant of ExpireRequest: whether the display must be restored is decided after *)
(* the request is gone.                                                           *)
ExpireRequestRestoresLate(s) ==
    LET request == s.active_request
        expired == [ArchiveRequest(s, request, "Expired") EXCEPT !.active_request = None]
    IN  IF request = None \/ request.deadline > 0 THEN s
        ELSE IF request.status = "Waking"
        THEN [expired EXCEPT !.phase = "Idle", !.phase_deadline = None]
        ELSE BeginFallback(expired)

ExpireRequest(s) ==
    LET request == s.active_request
        expired == [ArchiveRequest(s, request, "Expired") EXCEPT
                        !.active_request = None,
                        !.manual_recovery_target =
                            IF request.target # Server THEN request.target ELSE @]
    IN  IF request = None \/ request.deadline > 0 THEN s
        ELSE IF request.status = "Waking"
        THEN [expired EXCEPT !.phase = "Idle", !.phase_deadline = None]
        ELSE BeginFallbackWithRestore(expired, DisplayRestoreRequired(s))

ApplyTick(s) ==
    LET next == ExpireRequest(s)
        session == next.active_session
        due == next.phase_deadline = 0
    IN  Validated(s,
            IF session # None /\ SessionDeadline(session) = 0
            THEN BeginActiveSessionFailureFallback(next)
            ELSE IF /\ next.phase = "RemoteOwned"
                    /\ next.observation_in_flight = None
                    /\ next.next_signal_poll = 0
            THEN RequestObservation(next, session.switch_epoch)
            ELSE IF next.observation_in_flight # None /\ due
            THEN IF session # None
                 THEN BeginActiveSessionFailureFallback(next)
                 ELSE BeginFallback(next)
            ELSE IF next.phase = "Verifying" /\ due
            THEN BeginFallback(next)
            ELSE IF \/ next.phase \in {"FallbackCommandPending", "FallbackVerifying"} /\ due
                    \/ next.phase = "FallbackDeferred" /\ DaemonHealthy(next)
            THEN IssueFallbackCommand(next)
            ELSE IF next.phase = "MultiviewChanging" /\ due
            THEN BeginFallback(next)
            ELSE next)
================================================================================
