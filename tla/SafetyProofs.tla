------------------------------ MODULE SafetyProofs ------------------------------
(***************************************************************************)
(* The type invariant of the coordinator, and that remote input is always   *)
(* justified, for every set of hosts, leases and durations.                  *)
(***************************************************************************)
EXTENDS ProtocolProofs

(* What keeps the session and the request tied to the connection and the phase. *)
Anchored(s) ==
    /\ s.phase = "RemoteOwned" => s.active_session # None
    /\ ~DaemonHealthy(s) => s.active_request = None /\ s.active_session = None

(* Two states with the same connection, phase, request and session. *)
SameAnchors(s, t) ==
    /\ t.ws_state = s.ws_state /\ t.phase = s.phase
    /\ t.active_request = s.active_request /\ t.active_session = s.active_session

(* Anchored depends on the connection, the phase, the request and the *)
(* session only.                                                      *)
LEMMA SameAnchored ==
    ASSUME NEW s, NEW t, Anchored(s), SameAnchors(s, t)
    PROVE  Anchored(t)
  BY DEF Anchored, SameAnchors, DaemonHealthy

(* validated() returns one of its two states. *)
LEMMA ValidatedAnchored ==
    ASSUME NEW s, NEW new, Anchored(s), Anchored(new)
    PROVE  Anchored(Validated(s, new).next)
  BY DEF Validated, Ok, Err

(* Pushing an effect leaves the connection, phase, request and session *)
(* alone.                                                              *)
LEMMA EmitAnchors ==
    ASSUME NEW s \in ProtocolState, NEW e
    PROVE  SameAnchors(s, Emit(s, e))
  BY DEF SameAnchors, Emit, ProtocolState

(* So does request_observation. *)
LEMMA RequestObservationAnchors ==
    ASSUME NEW s \in ProtocolState, NEW epoch
    PROVE  SameAnchors(s, RequestObservation(s, epoch))
  BY DEF SameAnchors, Emit, RequestObservation, ProtocolState

(* So does archive_request. *)
LEMMA ArchiveRequestAnchors ==
    ASSUME NEW s \in ProtocolState, NEW request, NEW status
    PROVE  SameAnchors(s, ArchiveRequest(s, request, status))
  BY DEF SameAnchors, ArchiveRequest, ProtocolState

(* issue_fallback_command changes only the phase among them. *)
LEMMA IssueFallbackCommandAnchors ==
    ASSUME NEW s \in ProtocolState
    PROVE  LET t == IssueFallbackCommand(s)
           IN  /\ t.ws_state = s.ws_state /\ t.phase = "FallbackCommandPending"
               /\ t.active_request = s.active_request /\ t.active_session = s.active_session
  BY DEF IssueFallbackCommand, Emit, ProtocolState

(* What begin_fallback_with_restore clears leaves the connection and the *)
(* session alone and removes the request.                                *)
LEMMA QuiescentFields ==
    ASSUME NEW s \in ProtocolState, NEW recovery, NEW restore \in BOOLEAN
    PROVE  LET t == [s EXCEPT !.manual_recovery_target = recovery,
                              !.fallback_required = restore,
                              !.verified_epoch = None,
                              !.pending_multiview = None,
                              !.observation_in_flight = None,
                              !.next_signal_poll = None,
                              !.active_request = None]
           IN  /\ t.ws_state = s.ws_state /\ t.active_session = s.active_session
               /\ t.active_request = None
  BY DEF ProtocolState

(* Marking the session's request as a fallback leaves them alone. *)
LEMMA FailCommittedRequestAnchors ==
    ASSUME NEW s \in ProtocolState
    PROVE  SameAnchors(s, FailCommittedRequest(s))
  BY DEF SameAnchors, FailCommittedRequest, ProtocolState

(* release_to_server removes the session and leaves the rest alone. *)
LEMMA ReleaseToServerAnchors ==
    ASSUME NEW s \in ProtocolState
    PROVE  LET t == ReleaseToServer(s)
           IN  /\ t.ws_state = s.ws_state /\ t.active_session = None
               /\ t.phase = s.phase /\ t.active_request = s.active_request
  BY SMTT(40) DEF ReleaseToServer, ProtocolState

(* After begin_fallback_with_restore there is neither a request nor a *)
(* session, whatever the state before.                                *)
LEMMA BeginFallbackWithRestoreAnchors ==
    ASSUME NEW s \in ProtocolState, NEW restore \in BOOLEAN
    PROVE  LET t == BeginFallbackWithRestore(s, restore)
           IN  /\ t.ws_state = s.ws_state
               /\ t.active_request = None /\ t.active_session = None
               /\ t.phase \in {"FallbackCommandPending", "FallbackDeferred", "Idle"}
  <1> DEFINE request == s.active_request
             recovery == IF request # None /\ RoutedRemote(request.target)
                         THEN request.target ELSE s.manual_recovery_target
             free == ReleaseToServer(FailCommittedRequest(s))
             released == [free EXCEPT
                            !.manual_recovery_target = recovery,
                            !.fallback_required = restore,
                            !.verified_epoch = None,
                            !.pending_multiview = None,
                            !.observation_in_flight = None,
                            !.next_signal_poll = None,
                            !.active_request = None]
             archived == IF request = None THEN released
                         ELSE ArchiveRequest(released, request, "Fallback")
             phase == IF restore \/ ~DaemonHealthy(s) THEN "FallbackDeferred" ELSE "Idle"
             Quiet(t) == t.ws_state = s.ws_state /\ t.active_request = None
                         /\ t.active_session = None
  <1>1. request \in Option(EnterRequest) BY DEF ProtocolState
  <1>2. recovery \in Option(Hosts) BY <1>1 DEF ProtocolState, EnterRequest, Option
  <1>3. free \in ProtocolState BY SMTT(40), FailCommittedRequestType, ReleaseToServerType
  <1>4. free.ws_state = s.ws_state /\ free.active_session = None
    BY SMTT(40), FailCommittedRequestType, FailCommittedRequestAnchors, ReleaseToServerAnchors
       DEF SameAnchors
  <1> HIDE DEF recovery, free, request
  <1>5. released \in ProtocolState BY ZenonT(60), <1>2, <1>3, QuiescentType
  <1>6. Quiet(released) BY SMTT(40), <1>3, <1>4, QuiescentFields
  <1> HIDE DEF released
  <1>7. archived \in ProtocolState
    BY SMTT(40), <1>1, <1>5, ArchiveRequestType DEF Option, FinalStatus
  <1>8. Quiet(archived) BY SMTT(40), <1>5, <1>6, ArchiveRequestAnchors DEF SameAnchors
  <1> HIDE DEF archived
  <1>9. LET t == IssueFallbackCommand(archived)
        IN  Quiet(t) /\ t.phase = "FallbackCommandPending"
    BY SMTT(40), <1>7, <1>8, IssueFallbackCommandAnchors
  <1>10. LET t == [archived EXCEPT !.phase = phase, !.phase_deadline = None]
         IN  Quiet(t) /\ t.phase \in {"FallbackDeferred", "Idle"}
    BY SMTT(40), <1>7, <1>8 DEF ProtocolState
  <1> QED BY SMTT(40), <1>9, <1>10
          DEF BeginFallbackWithRestore, archived, released, free, recovery, request

(* Every fallback ends in an anchored state, whatever the state before. *)
LEMMA BeginFallbackAnchored ==
    ASSUME NEW s \in ProtocolState
    PROVE  /\ \A restore \in BOOLEAN : Anchored(BeginFallbackWithRestore(s, restore))
           /\ Anchored(BeginFallback(s))
  <1>1. ASSUME NEW restore \in BOOLEAN
        PROVE  Anchored(BeginFallbackWithRestore(s, restore))
    BY BeginFallbackWithRestoreAnchors DEF Anchored, DaemonHealthy
  <1>2. DisplayRestoreRequired(s) \in BOOLEAN
    BY DEF DisplayRestoreRequired, ProtocolState
  <1> QED BY SMTT(40), <1>1, <1>2 DEF BeginFallback

(* So does the fallback of a failed session. *)
LEMMA SessionFailureAnchored ==
    ASSUME NEW s \in ProtocolState
    PROVE  Anchored(BeginActiveSessionFailureFallback(s))
  <1> DEFINE target == s.active_session.target
  <1>1. s.active_session # None => target \in Hosts
    BY DEF ProtocolState, ActiveSession, Option
  <1> HIDE DEF target
  <1>2. target \in Hosts => [s EXCEPT !.manual_recovery_target = target] \in ProtocolState
    BY ZenonT(60) DEF ProtocolState, Option
  <1> QED BY SMTT(40), <1>1, <1>2, BeginFallbackAnchored
          DEF BeginActiveSessionFailureFallback, target

(* finish_fallback keeps a state anchored. *)
LEMMA FinishFallbackAnchored ==
    ASSUME NEW s \in ProtocolState, Anchored(s)
    PROVE  Anchored(FinishFallback(s))
  <1> DEFINE free == ReleaseToServer(s)
  <1>1. free \in ProtocolState BY ReleaseToServerType
  <1>2. /\ free.ws_state = s.ws_state /\ free.active_session = None
        /\ free.active_request = s.active_request
    BY ReleaseToServerAnchors
  <1> HIDE DEF free
  <1>3. LET t == [free EXCEPT !.fallback_required = FALSE, !.phase = "Idle",
                              !.phase_deadline = None, !.observation_in_flight = None,
                              !.next_signal_poll = None, !.verified_epoch = s.switch_epoch]
        IN  /\ t.phase = "Idle" /\ t.active_session = free.active_session
            /\ t.ws_state = free.ws_state /\ t.active_request = free.active_request
    BY <1>1 DEF ProtocolState
  <1> QED BY <1>2, <1>3 DEF FinishFallback, Anchored, DaemonHealthy, free

(* accept_manual_display keeps a state anchored. *)
LEMMA AcceptManualDisplayAnchored ==
    ASSUME NEW s \in ProtocolState, Anchored(s)
    PROVE  Anchored(AcceptManualDisplay(s))
  <1> DEFINE free == ReleaseToServer(s)
  <1>1. free \in ProtocolState BY ReleaseToServerType
  <1>2. /\ free.ws_state = s.ws_state /\ free.active_session = None
        /\ free.active_request = s.active_request
    BY ReleaseToServerAnchors
  <1> HIDE DEF free
  <1>3. LET t == [free EXCEPT !.commanded_input = None, !.manual_recovery_target = None,
                              !.fallback_required = FALSE, !.pending_multiview = None,
                              !.phase = "Idle", !.phase_deadline = None,
                              !.observation_in_flight = None, !.next_signal_poll = None]
        IN  /\ t.phase = "Idle" /\ t.active_session = free.active_session
            /\ t.ws_state = free.ws_state /\ t.active_request = free.active_request
    BY SMTT(40), <1>1 DEF ProtocolState
  <1> QED BY SMTT(40), <1>2, <1>3 DEF AcceptManualDisplay, Anchored, DaemonHealthy, free

(* store_observation leaves connection, phase, request and session alone. *)
LEMMA StoreObservationAnchors ==
    ASSUME NEW s \in ProtocolState, NEW epoch, NEW mode, NEW input, NEW signals
    PROVE  SameAnchors(s, StoreObservation(s, epoch, mode, input, signals))
  BY DEF SameAnchors, StoreObservation, ProtocolState

(* issue_grant changes the phase, not the connection. *)
LEMMA IssueGrantAnchors ==
    ASSUME NEW s \in ProtocolState
    PROVE  IssueGrant(s).phase = "GrantPending" /\ IssueGrant(s).ws_state = s.ws_state
  BY DEF IssueGrant, ProtocolState

(* Entering any phase but RemoteOwned keeps a state anchored. *)
LEMMA PhaseChangeAnchored ==
    ASSUME NEW s \in ProtocolState, NEW phase, phase # "RemoteOwned", Anchored(s)
    PROVE  Anchored([s EXCEPT !.phase = phase])
  BY DEF Anchored, DaemonHealthy, ProtocolState

(* begin_switch ends in an anchored state when the TV is connected. *)
LEMMA BeginSwitchAnchored ==
    ASSUME NEW s \in ProtocolState, s.active_request \in EnterRequest, DaemonHealthy(s)
    PROVE  Anchored(BeginSwitch(s))
  <1> DEFINE epoch == s.switch_epoch + 1
             target == s.active_request.target
             moved == [s.active_request EXCEPT !.status = "Switching", !.switch_epoch = epoch,
                                               !.deadline = COMMAND_MS + OBSERVATION_MS]
             switching == [s EXCEPT !.switch_epoch = epoch, !.active_request = moved]
             commanded == [switching EXCEPT !.commanded_input = target,
                                            !.phase = "Switching",
                                            !.phase_deadline = COMMAND_MS]
             local == [switching EXCEPT !.commanded_input = None, !.phase_deadline = None]
             effect == [type |-> "SetInput", target |-> target, switch_epoch |-> epoch,
                        fallback |-> FALSE]
             grant == [local.active_request EXCEPT !.status = "Grant"]
  <1> HIDE DEF epoch, target, moved, effect
  <1>1. /\ Emit(commanded, effect).phase = "Switching"
        /\ Emit(commanded, effect).ws_state = "Connected"
    BY DEF Emit, ProtocolState, DaemonHealthy
  <1>2. /\ IssueGrant(local).phase = "GrantPending"
        /\ IssueGrant(local).ws_state = "Connected"
    BY DEF IssueGrant, ProtocolState, DaemonHealthy
  <1> HIDE DEF commanded, local
  <1>3. BeginSwitch(s) = Emit(commanded, effect) \/ BeginSwitch(s) = IssueGrant(local)
    BY DEF BeginSwitch, commanded, local, switching, moved, effect, epoch, target
  <1> QED BY SMTT(40), <1>1, <1>2, <1>3 DEF Anchored, DaemonHealthy

(* The steps of the transport towards a connection keep a state anchored: *)
(* there is nothing to lose before Connected.                             *)
LEMMA OfflineLifecycleAnchored ==
    ASSUME NEW s \in ProtocolState, Anchored(s), ~DaemonHealthy(s)
    PROVE  /\ Anchored(ApplyTransportConnecting(s).next)
           /\ Anchored(ApplyTransportRegistering(s).next)
           /\ Anchored(ApplyTransportSubscribed(s).next)
  <1>1. \A ws \in WsStates : Anchored([s EXCEPT !.ws_state = ws])
    BY DEF Anchored, DaemonHealthy, ProtocolState
  <1> QED BY SMTT(40), <1>1, ValidatedAnchored
          DEF WsStates, ApplyTransportConnecting, ApplyTransportRegistering,
              ApplyTransportSubscribed

(* Losing the connection takes the request and the session with it. *)
LEMMA ApplyTransportDisconnectedAnchored ==
    ASSUME NEW s \in ProtocolState, Anchored(s)
    PROVE  Anchored(ApplyTransportDisconnected(s).next)
  <1>1. [s EXCEPT !.ws_state = "Disconnected"] \in ProtocolState
    BY ZenonT(60), WsStateUpdate DEF WsStates
  <1> QED BY SMTT(40), <1>1, ValidatedAnchored, BeginFallbackAnchored DEF ApplyTransportDisconnected

(* TransportSynchronized keeps a state anchored. *)
LEMMA ApplyTransportSynchronizedAnchored ==
    ASSUME NEW s \in ProtocolState, Anchored(s), NEW mode \in TvModes,
           NEW input \in Option(Hosts), NEW signals \in [DisplayHosts -> BOOLEAN]
    PROVE  Anchored(ApplyTransportSynchronized(s, mode, input, signals).next)
  <1> DEFINE online == [s EXCEPT !.ws_state = "Connected"]
             seen == StoreObservation(online, s.switch_epoch, mode, input, signals)
  <1>1. online \in ProtocolState BY ZenonT(60), WsStateUpdate DEF WsStates
  <1>2. s.switch_epoch \in Nat BY DEF ProtocolState
  <1>3. Anchored(online) BY DEF Anchored, DaemonHealthy, ProtocolState
  <1> HIDE DEF online
  <1>4. seen \in ProtocolState BY <1>1, <1>2, StoreObservationType
  <1>5. Anchored(seen) BY SMTT(40), <1>1, <1>3, StoreObservationAnchors, SameAnchored
  <1> HIDE DEF seen
  <1>6. /\ Anchored(FinishFallback(seen)) /\ Anchored(AcceptManualDisplay(seen))
        /\ Anchored(BeginFallback(seen))
    BY SMTT(40), <1>4, <1>5, FinishFallbackAnchored, AcceptManualDisplayAnchored, BeginFallbackAnchored
  <1> QED BY <1>6, ValidatedAnchored DEF ApplyTransportSynchronized, seen, online

(* CommandAcknowledged keeps a state anchored. *)
LEMMA ApplyCommandAcknowledgedAnchored ==
    ASSUME NEW s \in ProtocolState, Anchored(s), NEW epoch \in Nat, NEW target
    PROVE  Anchored(ApplyCommandAcknowledged(s, epoch, target).next)
  <1> DEFINE phase == IF s.fallback_required THEN "FallbackVerifying" ELSE "Verifying"
             told == [s EXCEPT !.phase = phase]
  <1>1. phase \in Phases /\ phase # "RemoteOwned" BY SMTT(40) DEF Phases
  <1> HIDE DEF phase
  <1>2. told \in ProtocolState BY ZenonT(60), <1>1, CommandUpdate DEF Option
  <1>3. Anchored(told) BY <1>1, PhaseChangeAnchored
  <1> HIDE DEF told
  <1>4. Anchored(RequestObservation(told, epoch))
    BY SMTT(40), <1>2, <1>3, RequestObservationAnchors, SameAnchored
  <1> QED BY SMTT(40), <1>4, ValidatedAnchored DEF ApplyCommandAcknowledged, Ok, told, phase

(* CommandFailed keeps a state anchored. *)
LEMMA ApplyCommandFailedAnchored ==
    ASSUME NEW s \in ProtocolState, Anchored(s), NEW epoch
    PROVE  Anchored(ApplyCommandFailed(s, epoch).next)
  BY BeginFallbackAnchored, ValidatedAnchored DEF ApplyCommandFailed

(* The branch of Observation for a request keeps a state anchored. *)
LEMMA ObserveForRequestAnchored ==
    ASSUME NEW s \in ProtocolState, Anchored(s), s.active_request # None, NEW epoch
    PROVE  Anchored(ObserveForRequest(s, epoch))
  <1>1. Anchored(IssueGrant(s)) BY IssueGrantAnchors DEF Anchored, DaemonHealthy
  <1> QED BY <1>1, BeginFallbackAnchored DEF ObserveForRequest

(* The branch of Observation for a session keeps a state anchored. *)
LEMMA ObserveForSessionAnchored ==
    ASSUME NEW s \in ProtocolState, Anchored(s), NEW epoch
    PROVE  Anchored(ObserveForSession(s, epoch))
  <1>1. Anchored([s EXCEPT !.phase_deadline = None, !.next_signal_poll = SIGNAL_POLL_MS])
    BY DEF Anchored, DaemonHealthy, ProtocolState
  <1> QED BY SMTT(40), <1>1, SessionFailureAnchored DEF ObserveForSession

(* complete_multiview_observation keeps a state anchored. *)
LEMMA CompleteMultiviewObservationAnchored ==
    ASSUME NEW s \in ProtocolState, Anchored(s)
    PROVE  Anchored(CompleteMultiviewObservation(s))
  <1>1. Anchored([s EXCEPT !.pending_multiview = None, !.phase = "Idle",
                           !.phase_deadline = None])
    BY DEF Anchored, DaemonHealthy, ProtocolState
  <1> QED BY SMTT(40), <1>1, BeginFallbackAnchored DEF CompleteMultiviewObservation

(* Observation keeps a state anchored. *)
LEMMA ApplyObservationAnchored ==
    ASSUME NEW s \in ProtocolState, Anchored(s), NEW epoch \in Nat, NEW mode \in TvModes,
           NEW input \in Option(Hosts), NEW signals \in [DisplayHosts -> BOOLEAN]
    PROVE  Anchored(ApplyObservation(s, epoch, mode, input, signals).next)
  <1> DEFINE stored == StoreObservation(s, epoch, mode, input, signals)
             seen == [stored EXCEPT !.observation_in_flight = IF @ = epoch THEN None ELSE @]
  <1>1. stored \in ProtocolState BY StoreObservationType
  <1>2. Anchored(stored) BY SMTT(40), StoreObservationAnchors, SameAnchored
  <1> HIDE DEF stored
  <1>3. seen \in ProtocolState BY SMTT(40), <1>1, ObservationUpdate
  <1>4. SameAnchors(stored, seen) BY SMTT(40), <1>1 DEF SameAnchors, ProtocolState
  <1> HIDE DEF seen
  <1>5. Anchored(seen) BY SMTT(40), <1>2, <1>4, SameAnchored
  <1>6. Anchored(FinishFallback(seen)) BY SMTT(40), <1>3, <1>5, FinishFallbackAnchored
  <1>7. Anchored([seen EXCEPT !.phase = "FallbackVerifying"])
    BY SMTT(40), <1>3, <1>5, PhaseChangeAnchored
  <1>8. seen.active_request # None => Anchored(ObserveForRequest(seen, epoch))
    BY SMTT(40), <1>3, <1>5, ObserveForRequestAnchored
  <1>9. Anchored(ObserveForSession(seen, epoch)) BY SMTT(40), <1>3, <1>5, ObserveForSessionAnchored
  <1>10. Anchored(CompleteMultiviewObservation(seen))
    BY <1>3, <1>5, CompleteMultiviewObservationAnchored
  <1> QED BY SMTT(40), <1>5, <1>6, <1>7, <1>8, <1>9, <1>10, ValidatedAnchored
          DEF ApplyObservation, seen, stored

(* MultiViewAcknowledged keeps a state anchored. *)
LEMMA ApplyMultiViewAcknowledgedAnchored ==
    ASSUME NEW s \in ProtocolState, Anchored(s), NEW epoch \in Nat, NEW enabled
    PROVE  Anchored(ApplyMultiViewAcknowledged(s, epoch, enabled).next)
  <1> DEFINE asked == RequestObservation(s, epoch)
  <1>1. asked \in ProtocolState BY RequestObservationType
  <1>2. Anchored(asked) BY SMTT(40), RequestObservationAnchors, SameAnchored
  <1> HIDE DEF asked
  <1>3. Anchored([asked EXCEPT !.phase = "MultiviewChanging"])
    BY SMTT(40), <1>1, <1>2, PhaseChangeAnchored
  <1> QED BY SMTT(40), <1>3, ValidatedAnchored DEF ApplyMultiViewAcknowledged, asked

(* SubscriptionObserved keeps a state anchored. *)
LEMMA ApplySubscriptionObservedAnchored ==
    ASSUME NEW s \in ProtocolState, Anchored(s), NEW mode \in TvModes,
           NEW input \in Option(Hosts)
    PROVE  Anchored(ApplySubscriptionObserved(s, mode, input).next)
  <1> DEFINE seen == [s EXCEPT !.tv_mode = mode, !.observed_input = input]
             asked == RequestObservation(seen, s.switch_epoch)
  <1>1. seen \in ProtocolState BY ZenonT(60) DEF ProtocolState
  <1>2. Anchored(seen) BY DEF Anchored, DaemonHealthy, ProtocolState
  <1>3. s.switch_epoch \in Nat BY DEF ProtocolState
  <1> HIDE DEF seen
  <1>4. asked \in ProtocolState /\ Anchored(asked)
    BY SMTT(40), <1>1, <1>2, <1>3, RequestObservationType, RequestObservationAnchors, SameAnchored
  <1> HIDE DEF asked
  <1>5. Anchored([asked EXCEPT !.phase_deadline = seen.phase_deadline])
    BY <1>4 DEF Anchored, DaemonHealthy, ProtocolState
  <1>6. Anchored(RequestObservationPreservingDeadline(seen, s.switch_epoch))
    BY <1>5 DEF RequestObservationPreservingDeadline, asked
  <1>7. Anchored(BeginFallback(seen)) /\ Anchored(AcceptManualDisplay(seen))
    BY SMTT(40), <1>1, <1>2, BeginFallbackAnchored, AcceptManualDisplayAnchored
  <1>8. Anchored([seen EXCEPT !.manual_recovery_target = None])
    BY SMTT(40), <1>1, <1>2 DEF Anchored, DaemonHealthy, ProtocolState
  <1> QED BY SMTT(40), <1>2, <1>6, <1>7, <1>8, ValidatedAnchored
          DEF ApplySubscriptionObserved, seen

(* PeerReadinessUpdated keeps a state anchored. *)
LEMMA ApplyPeerReadinessUpdatedAnchored ==
    ASSUME NEW s \in ProtocolState, Anchored(s), NEW host \in Hosts,
           NEW readiness \in PeerReadiness
    PROVE  Anchored(ApplyPeerReadinessUpdated(s, host, readiness).next)
  <1> DEFINE told == [s EXCEPT !.peers[host] = readiness]
             request == s.active_request
             requestReady == BundleReady(readiness, request.lease.peer_session_epoch)
             forRequest ==
                IF request = None \/ request.target # host THEN told
                ELSE IF s.phase = "Waking" /\ requestReady THEN BeginSwitch(told)
                ELSE IF s.phase \in {"Switching", "Verifying", "GrantPending"} /\ ~requestReady
                THEN BeginFallback(told)
                ELSE told
  <1>1. told \in ProtocolState BY PeersUpdate
  <1>2. SameAnchors(s, told) BY DEF SameAnchors, ProtocolState
  <1>3. request # None => request \in EnterRequest BY DEF ProtocolState, Option
  <1>4. request # None => DaemonHealthy(s) BY DEF Anchored
  <1> HIDE DEF told, requestReady, request
  <1>5. Anchored(told) BY <1>2, SameAnchored
  <1>6. told.active_request = request /\ told.ws_state = s.ws_state
    BY <1>2 DEF SameAnchors, request
  <1>7. request # None => Anchored(BeginSwitch(told))
    BY SMTT(40), <1>1, <1>3, <1>4, <1>6, BeginSwitchAnchored DEF DaemonHealthy
  <1>8. forRequest \in ProtocolState
    BY SMTT(40), <1>1, <1>3, <1>6, BeginSwitchType, BeginFallbackType
  <1>9. Anchored(forRequest) BY SMTT(40), <1>1, <1>5, <1>7, BeginFallbackAnchored
  <1> HIDE DEF forRequest
  <1> QED BY SMTT(40), <1>8, <1>9, SessionFailureAnchored, ValidatedAnchored
          DEF ApplyPeerReadinessUpdated, forRequest, requestReady, request, told

(* ArmManualRecovery keeps a state anchored. *)
LEMMA ApplyArmManualRecoveryAnchored ==
    ASSUME NEW s \in ProtocolState, Anchored(s), NEW target \in Hosts
    PROVE  Anchored(ApplyArmManualRecovery(s, target).next)
  <1>1. Anchored([s EXCEPT !.manual_recovery_target = target])
    BY DEF Anchored, DaemonHealthy, ProtocolState
  <1> QED BY SMTT(40), <1>1, ValidatedAnchored DEF ApplyArmManualRecovery, Err

(* A new request is made only under a connected TV, so it is anchored. *)
LEMMA StartRequestAnchored ==
    ASSUME NEW s \in ProtocolState, Anchored(s), DaemonHealthy(s), NEW id \in Requests,
           NEW target \in Hosts, NEW lease \in LeaseIdentity
    PROVE  Anchored(StartRequest(s, id, target, lease))
  <1> DEFINE epoch == s.request_epoch + 1
             request == [request_id |-> id, target |-> target,
                         request_epoch |-> epoch, lease |-> lease,
                         status |-> "Switching", switch_epoch |-> None, grant |-> None,
                         deadline |-> COMMAND_MS]
             asleep == [request EXCEPT !.status = "Waking", !.deadline = WAKE_MS]
             fresh == [s EXCEPT !.manual_recovery_target = None, !.request_epoch = epoch]
             free == ReleaseToServer(fresh)
             local == [free EXCEPT !.active_request = request]
             woken == [fresh EXCEPT !.phase = "Waking", !.phase_deadline = WAKE_MS,
                                    !.active_request = asleep]
             denied == [fresh EXCEPT !.manual_recovery_target = target]
             routed == [fresh EXCEPT !.active_request = request]
             wake == [type |-> "Wake", target |-> target]
  <1>1. epoch \in Nat BY DEF ProtocolState
  <1>2. COMMAND_MS \in Nat BY ConfigAssumption
  <1> HIDE DEF epoch, wake
  <1>3. request \in EnterRequest BY SMTT(40), <1>1, <1>2 DEF EnterRequest, LiveStatus, Option
  <1>4. fresh \in ProtocolState BY ZenonT(60), <1>1, FreshUpdate DEF Option
  <1>5. SameAnchors(s, fresh) BY DEF SameAnchors, ProtocolState
  <1> HIDE DEF request, asleep, fresh
  <1>6. Anchored(fresh) /\ DaemonHealthy(fresh)
    BY SMTT(40), <1>5, SameAnchored DEF SameAnchors, DaemonHealthy
  <1>7. free \in ProtocolState /\ DaemonHealthy(free)
    BY SMTT(40), <1>4, <1>6, ReleaseToServerType, ReleaseToServerAnchors DEF DaemonHealthy
  <1> HIDE DEF free
  <1>8. request \in Option(EnterRequest) BY <1>3 DEF Option
  <1>9. local \in ProtocolState /\ routed \in ProtocolState
    BY SMTT(40), <1>4, <1>7, <1>8, RequestUpdate
  <1>10. local.active_request = request /\ DaemonHealthy(local)
    BY SMTT(40), <1>7 DEF DaemonHealthy, ProtocolState
  <1>11. routed.active_request = request /\ DaemonHealthy(routed)
    BY SMTT(40), <1>4, <1>6 DEF DaemonHealthy, ProtocolState
  <1>12. Anchored(Emit(woken, wake))
    BY SMTT(40), <1>4, <1>6 DEF Emit, Anchored, DaemonHealthy, ProtocolState
  <1>13. denied \in ProtocolState BY SMTT(40), <1>4, RecoveryUpdate DEF Option
  <1>14. Anchored(denied) BY SMTT(40), <1>4, <1>6 DEF Anchored, DaemonHealthy, ProtocolState
  <1> HIDE DEF local, routed, woken, denied
  <1>15. Anchored(BeginSwitch(local)) BY SMTT(40), <1>3, <1>9, <1>10, BeginSwitchAnchored
  <1>16. Anchored(BeginSwitch(routed)) BY SMTT(40), <1>3, <1>9, <1>11, BeginSwitchAnchored
  <1>17. Anchored(ArchiveRequest(denied, request, "Denied"))
    BY SMTT(40), <1>13, <1>14, ArchiveRequestAnchors, SameAnchored
  <1> QED BY SMTT(40), <1>12, <1>15, <1>16, <1>17
          DEF StartRequest, local, routed, woken, denied, free, fresh, asleep, request,
              wake, epoch

(* CreateEnter keeps a state anchored: it is refused unless ready(). *)
LEMMA ApplyCreateEnterAnchored ==
    ASSUME NEW s \in ProtocolState, Anchored(s), NEW id \in Requests, NEW target \in Hosts,
           NEW lease \in LeaseIdentity
    PROVE  Anchored(ApplyCreateEnter(s, id, target, lease).next)
  <1>1. Ready(s) => Anchored(StartRequest(s, id, target, lease))
    BY StartRequestAnchored DEF Ready
  <1> QED BY SMTT(40), <1>1, ValidatedAnchored DEF ApplyCreateEnter, Ok, Err

(* The connection, phase and session Commit leaves behind. *)
LEMMA OwnedFields ==
    ASSUME NEW s \in ProtocolState, NEW owner, NEW session, NEW phase, NEW poll
    PROVE  LET t == [s EXCEPT !.active_request = None, !.keyboard_owner = owner,
                              !.pointer_owner = owner, !.fallback_required = FALSE,
                              !.manual_recovery_target = None, !.phase_deadline = None,
                              !.observation_in_flight = None, !.active_session = session,
                              !.phase = phase, !.next_signal_poll = poll]
           IN  t.ws_state = s.ws_state /\ t.phase = phase /\ t.active_session = session
  BY DEF ProtocolState

(* Commit enters RemoteOwned only together with its session. *)
LEMMA CommitRequestAnchored ==
    ASSUME NEW s \in ProtocolState, DaemonHealthy(s), s.active_request \in EnterRequest,
           s.active_request.switch_epoch \in Nat
    PROVE  Anchored(CommitRequest(s))
  <1> DEFINE request == s.active_request
             lease == [request.lease EXCEPT !.expires = LEASE_MS]
             local == request.target = Server
             session == [request_id |-> request.request_id, target |-> request.target,
                         request_epoch |-> request.request_epoch,
                         switch_epoch |-> request.switch_epoch,
                         lease |-> lease, renewed_until |-> LEASE_MS]
             chosen == IF local THEN None ELSE session
             phase == IF local THEN "Idle" ELSE "RemoteOwned"
             poll == IF ~local /\ HasDisplayRoute(request.target)
                     THEN SIGNAL_POLL_MS ELSE None
             owned == [s EXCEPT
                        !.active_request = None,
                        !.keyboard_owner = request.target,
                        !.pointer_owner = request.target,
                        !.fallback_required = FALSE,
                        !.manual_recovery_target = None,
                        !.phase_deadline = None,
                        !.observation_in_flight = None,
                        !.active_session = chosen,
                        !.phase = phase,
                        !.next_signal_poll = poll]
  <1>1. LEASE_MS \in Nat /\ SIGNAL_POLL_MS \in Nat BY ConfigAssumption
  <1>2. lease \in LeaseIdentity BY <1>1 DEF EnterRequest, LeaseIdentity
  <1>3. request.target \in Hosts BY DEF EnterRequest
  <1> HIDE DEF lease
  <1>4. session \in ActiveSession BY SMTT(40), <1>1, <1>2 DEF EnterRequest, ActiveSession
  <1> HIDE DEF session
  <1>5. session # None BY SMTT(40), <1>4, NoneAssumption
  <1>6. phase = "RemoteOwned" => chosen # None BY <1>5
  <1>7. chosen \in Option(ActiveSession) BY <1>4 DEF Option
  <1>8. phase \in Phases /\ poll \in Option(Nat) BY <1>1 DEF Phases, Option
  <1>9. request \in EnterRequest BY SMTT(40)
  <1> HIDE DEF chosen, phase, poll, request
  <1>10. owned \in ProtocolState BY ZenonT(60), <1>3, <1>7, <1>8, NoneOption, OwnedUpdate
  <1>11. owned.ws_state = s.ws_state /\ owned.phase = phase /\ owned.active_session = chosen
    BY OwnedFields
  <1> HIDE DEF owned
  <1>12. Anchored(owned) BY SMTT(40), <1>6, <1>11 DEF Anchored, DaemonHealthy
  <1>13. Anchored(ArchiveRequest(owned, request, "Committed"))
    BY SMTT(40), <1>10, <1>12, ArchiveRequestAnchors, SameAnchored
  <1> QED BY <1>13 DEF CommitRequest, owned, chosen, phase, poll, session, lease, request

(* Commit keeps a state anchored. *)
LEMMA ApplyCommitAnchored ==
    ASSUME NEW s \in ProtocolState, Anchored(s), s.active_request # None =>
                (s.active_request.status = "Grant" => s.active_request.switch_epoch \in Nat),
           NEW id, NEW requestEpoch, NEW grantEpoch, NEW lease
    PROVE  Anchored(ApplyCommit(s, id, requestEpoch, grantEpoch, lease).next)
  <1>1. s.active_request # None => s.active_request \in EnterRequest
    BY DEF ProtocolState, Option
  <1>2. s.active_request # None => DaemonHealthy(s) BY DEF Anchored
  <1>3. s.active_request # None /\ s.active_request.status = "Grant" =>
            Anchored(CommitRequest(s))
    BY SMTT(40), <1>1, <1>2, CommitRequestAnchored
  <1> QED BY SMTT(40), <1>3, BeginFallbackAnchored, ValidatedAnchored DEF ApplyCommit, Err

(* Ending a request that has not switched the display keeps a state *)
(* anchored.                                                        *)
LEMMA EndedAnchored ==
    ASSUME NEW s \in ProtocolState, Anchored(s), s.active_request # None,
           NEW status \in FinalStatus
    PROVE  LET t == [ArchiveRequest(s, s.active_request, status) EXCEPT
                        !.active_request = None,
                        !.manual_recovery_target = IF s.active_request.target # Server
                                                   THEN s.active_request.target ELSE @]
           IN  Anchored([t EXCEPT !.phase = "Idle", !.phase_deadline = None])
  <1> DEFINE archived == ArchiveRequest(s, s.active_request, status)
             target == IF s.active_request.target # Server
                       THEN s.active_request.target ELSE archived.manual_recovery_target
  <1>1. s.active_request \in EnterRequest BY DEF ProtocolState, Option
  <1>2. archived \in ProtocolState BY SMTT(40), <1>1, ArchiveRequestType
  <1>3. archived.ws_state = s.ws_state
    BY ArchiveRequestAnchors DEF SameAnchors
  <1>4. DaemonHealthy(s) BY DEF Anchored
  <1> HIDE DEF archived, target
  <1>5. Anchored([[archived EXCEPT !.active_request = None, !.manual_recovery_target = target]
                    EXCEPT !.phase = "Idle", !.phase_deadline = None])
    BY SMTT(40), <1>2, <1>3, <1>4 DEF Anchored, DaemonHealthy, ProtocolState
  <1> QED BY SMTT(40), <1>5 DEF archived, target

(* Cancel keeps a state anchored. *)
LEMMA ApplyCancelAnchored ==
    ASSUME NEW s \in ProtocolState, Anchored(s), NEW id
    PROVE  Anchored(ApplyCancel(s, id).next)
  <1> DEFINE at == Archived(s, id)
             request == s.active_request
             ended == [ArchiveRequest(s, request, "Cancelled") EXCEPT
                        !.active_request = None,
                        !.manual_recovery_target =
                            IF request.target # Server THEN request.target ELSE @]
             marked == [s EXCEPT !.request_history[Max(at)].status = "Cancelled"]
  <1>1. request # None => ended \in ProtocolState BY ZenonT(60), EndedType DEF FinalStatus
  <1>2. at # {} => marked \in ProtocolState
    BY ZenonT(60), ArchivedPositions, StatusUpdateType DEF FinalStatus
  <1>3. request # None => Anchored([ended EXCEPT !.phase = "Idle", !.phase_deadline = None])
    BY ZenonT(60), EndedAnchored DEF FinalStatus
  <1> HIDE DEF ended, marked, at, request
  <1>4. request # None => Anchored(BeginFallback(ended)) BY SMTT(40), <1>1, BeginFallbackAnchored
  <1>5. at # {} => Anchored(BeginFallback(marked)) BY SMTT(40), <1>2, BeginFallbackAnchored
  <1> QED BY SMTT(40), <1>3, <1>4, <1>5, ValidatedAnchored
          DEF ApplyCancel, Err, ended, marked, at, request

(* Renew keeps a state anchored: it renews the session or ends it. *)
LEMMA ApplyRenewAnchored ==
    ASSUME NEW s \in ProtocolState, Anchored(s), NEW id, NEW lease, NEW peerSession
    PROVE  Anchored(ApplyRenew(s, id, lease, peerSession).next)
  <1> DEFINE session == s.active_session
             held == [session.lease EXCEPT !.expires = LEASE_MS]
             renewed == [session EXCEPT !.renewed_until = LEASE_MS, !.lease = held]
  <1>1. LEASE_MS \in Nat BY SMTT(40), ConfigAssumption
  <1>2. session # None => session \in ActiveSession BY DEF ProtocolState, Option
  <1>3. session # None => DaemonHealthy(s) BY DEF Anchored
  <1> HIDE DEF session
  <1>4. session # None => held \in LeaseIdentity
    BY SMTT(40), <1>1, <1>2 DEF ActiveSession, LeaseIdentity
  <1> HIDE DEF held
  <1>5. session # None => renewed \in ActiveSession
    BY ZenonT(60), <1>1, <1>2, <1>4 DEF ActiveSession
  <1> HIDE DEF renewed
  <1>6. session # None => renewed # None BY <1>5, NoneAssumption
  <1>7. session # None => Anchored([s EXCEPT !.active_session = renewed])
    BY SMTT(40), <1>3, <1>6 DEF Anchored, DaemonHealthy, ProtocolState
  <1>8. session # None => [s EXCEPT !.active_session = renewed]
            = [s EXCEPT !.active_session.renewed_until = LEASE_MS,
                        !.active_session.lease.expires = LEASE_MS]
    BY ZenonT(60), <1>2 DEF renewed, held, session, ProtocolState, ActiveSession
  <1> QED BY SMTT(40), <1>7, <1>8, SessionFailureAnchored, ValidatedAnchored DEF ApplyRenew, session

(* MultiViewRequested keeps a state anchored. *)
LEMMA ApplyMultiViewRequestedAnchored ==
    ASSUME NEW s \in ProtocolState, Anchored(s), NEW enabled
    PROVE  Anchored(ApplyMultiViewRequested(s, enabled).next)
  <1>1. \A e : Anchored(Emit([s EXCEPT !.switch_epoch = @ + 1, !.pending_multiview = enabled,
                                       !.phase = "MultiviewChanging",
                                       !.phase_deadline = COMMAND_MS], e))
    BY DEF Anchored, DaemonHealthy, Emit, ProtocolState
  <1> QED BY SMTT(40), <1>1, ValidatedAnchored DEF ApplyMultiViewRequested, Err

(* Shutdown leaves neither request nor session. *)
LEMMA ApplyShutdownAnchored ==
    ASSUME NEW s \in ProtocolState, Anchored(s)
    PROVE  Anchored(ApplyShutdown(s).next)
  <1> DEFINE free == ReleaseToServer(s)
  <1>1. free \in ProtocolState /\ free.active_session = None
    BY SMTT(40), ReleaseToServerType, ReleaseToServerAnchors
  <1> HIDE DEF free
  <1>2. Anchored([free EXCEPT !.ws_state = "Disconnected", !.fallback_required = TRUE,
                              !.phase = "FallbackDeferred", !.active_request = None,
                              !.pending_multiview = None, !.phase_deadline = None])
    BY <1>1 DEF Anchored, DaemonHealthy, ProtocolState
  <1> QED BY SMTT(40), <1>2, ValidatedAnchored DEF ApplyShutdown, free

(* Ending an expired request keeps a state anchored. *)
LEMMA ExpireRequestAnchored ==
    ASSUME NEW s \in ProtocolState, Anchored(s)
    PROVE  Anchored(ExpireRequest(s))
  <1> DEFINE request == s.active_request
             expired == [ArchiveRequest(s, request, "Expired") EXCEPT
                            !.active_request = None,
                            !.manual_recovery_target =
                                IF request.target # Server THEN request.target ELSE @]
  <1>1. request # None => expired \in ProtocolState BY ZenonT(60), EndedType DEF FinalStatus
  <1>2. request # None => Anchored([expired EXCEPT !.phase = "Idle", !.phase_deadline = None])
    BY ZenonT(60), EndedAnchored DEF FinalStatus
  <1>3. DisplayRestoreRequired(s) \in BOOLEAN BY DEF DisplayRestoreRequired, ProtocolState
  <1> HIDE DEF expired, request
  <1>4. request # None =>
            Anchored(BeginFallbackWithRestore(expired, DisplayRestoreRequired(s)))
    BY SMTT(40), <1>1, <1>3, BeginFallbackAnchored
  <1> QED BY SMTT(40), <1>2, <1>4 DEF ExpireRequest, expired, request

(* Tick keeps an anchored state typed and anchored. *)
LEMMA ApplyTickAnchored ==
    ASSUME NEW s \in ProtocolState, Anchored(s)
    PROVE  ApplyTick(s).next \in ProtocolState /\ Anchored(ApplyTick(s).next)
  <1> DEFINE next == ExpireRequest(s)
             session == next.active_session
  <1>1. next \in ProtocolState /\ Anchored(next)
    BY SMTT(40), ExpireRequestType, ExpireRequestAnchored
  <1>2. ApplyTick(s).next \in ProtocolState BY SMTT(40), <1>1, ApplyTickType DEF Anchored
  <1> HIDE DEF next
  <1>3. Anchored(RequestObservation(next, session.switch_epoch))
    BY SMTT(40), <1>1, RequestObservationAnchors, SameAnchored
  <1>4. Anchored(IssueFallbackCommand(next))
    BY SMTT(40), <1>1, IssueFallbackCommandAnchors DEF Anchored, DaemonHealthy
  <1>5. /\ Anchored(BeginActiveSessionFailureFallback(next))
        /\ Anchored(BeginFallback(next))
    BY SMTT(40), <1>1, SessionFailureAnchored, BeginFallbackAnchored
  <1> QED BY SMTT(40), <1>1, <1>2, <1>3, <1>4, <1>5, ValidatedAnchored DEF ApplyTick, next

(* Time that passes keeps a state anchored. *)
LEMMA ElapseAnchored ==
    ASSUME NEW s \in ProtocolState, Anchored(s)
    PROVE  Anchored(Elapse(s))
  <1> DEFINE deadline == Lower(s.phase_deadline)
             poll == Lower(s.next_signal_poll)
             request == ElapseRequest(s.active_request)
             session == ElapseSession(s.active_session)
  <1>1. s.active_request = None => request = None BY DEF ElapseRequest
  <1>2. s.active_session = None => session = None BY SMTT(40) DEF ElapseSession
  <1>3. s.active_session # None => session # None
    BY SMTT(40), ElapseSessionType, NoneAssumption DEF ProtocolState
  <1> HIDE DEF deadline, poll, request, session
  <1>4. Anchored([s EXCEPT !.phase_deadline = deadline, !.next_signal_poll = poll,
                           !.active_request = request, !.active_session = session])
    BY SMTT(40), <1>1, <1>2, <1>3 DEF Anchored, DaemonHealthy, ProtocolState
  <1> QED BY SMTT(40), <1>4 DEF Elapse, deadline, poll, request, session

(* What validate() checks of a state that the passing of time cannot undo. *)
Sound(s) ==
    /\ s.keyboard_owner = s.pointer_owner
    /\ s.fallback_required => s.keyboard_owner = Server
    /\ s.manual_recovery_target # Server
    /\ s.manual_recovery_target # None => s.keyboard_owner = Server
    /\ s.keyboard_owner # Server =>
            /\ s.active_session # None
            /\ s.active_session.target = s.keyboard_owner
            /\ BundleReady(s.peers[s.active_session.target],
                           s.active_session.lease.peer_session_epoch)
            /\ HasDisplayRoute(s.active_session.target) =>
                /\ TargetDisplayVerified(s, s.active_session.target,
                                         s.active_session.switch_epoch)
                /\ s.verified_epoch = s.active_session.switch_epoch
    /\ s.active_request # None /\ s.active_request.status = "Grant" =>
            /\ s.active_request.grant # None
            /\ s.active_request.switch_epoch = s.active_request.grant.switch_epoch

(* What validate() accepts is sound; what it rejects leaves the old state *)
(* in place.                                                              *)
LEMMA ValidatedSound ==
    ASSUME NEW s, NEW new, Sound(s)
    PROVE  Sound(Validated(s, new).next)
  <1>1. Validate(new) => Sound(new) BY DEF Validate, Sound
  <1> QED BY SMTT(40), <1>1 DEF Validated, Ok, Err

(* The events of the transport keep a state sound. *)
LEMMA TransportSound ==
    ASSUME NEW s, Sound(s)
    PROVE  /\ Sound(ApplyTransportConnecting(s).next)
           /\ Sound(ApplyTransportRegistering(s).next)
           /\ Sound(ApplyTransportSubscribed(s).next)
           /\ Sound(ApplyTransportDisconnected(s).next)
           /\ \A mode, input, signals :
                Sound(ApplyTransportSynchronized(s, mode, input, signals).next)
  BY SMTT(40), ValidatedSound
     DEF ApplyTransportConnecting, ApplyTransportRegistering, ApplyTransportSubscribed,
         ApplyTransportDisconnected, ApplyTransportSynchronized

(* The answers and reports of the TV keep a state sound. *)
LEMMA TvAnswerSound ==
    ASSUME NEW s, Sound(s), NEW epoch
    PROVE  /\ \A target : Sound(ApplyCommandAcknowledged(s, epoch, target).next)
           /\ Sound(ApplyCommandFailed(s, epoch).next)
           /\ \A mode, input, signals :
                Sound(ApplyObservation(s, epoch, mode, input, signals).next)
           /\ \A enabled : Sound(ApplyMultiViewAcknowledged(s, epoch, enabled).next)
           /\ \A mode, input : Sound(ApplySubscriptionObserved(s, mode, input).next)
  <1>1. \A target : Sound(ApplyCommandAcknowledged(s, epoch, target).next)
    BY SMTT(40), ValidatedSound DEF ApplyCommandAcknowledged, Ok
  <1>2. Sound(ApplyCommandFailed(s, epoch).next) BY SMTT(40), ValidatedSound DEF ApplyCommandFailed
  <1>3. \A mode, input, signals :
            Sound(ApplyObservation(s, epoch, mode, input, signals).next)
    BY SMTT(40), ValidatedSound DEF ApplyObservation
  <1>4. \A enabled : Sound(ApplyMultiViewAcknowledged(s, epoch, enabled).next)
    BY SMTT(40), ValidatedSound DEF ApplyMultiViewAcknowledged
  <1>5. \A mode, input : Sound(ApplySubscriptionObserved(s, mode, input).next)
    BY SMTT(40), ValidatedSound DEF ApplySubscriptionObserved
  <1> QED BY SMTT(40), <1>1, <1>2, <1>3, <1>4, <1>5

(* The events of the HTTP API keep a state sound. *)
LEMMA ClientSound ==
    ASSUME NEW s, Sound(s)
    PROVE  /\ \A host, readiness : Sound(ApplyPeerReadinessUpdated(s, host, readiness).next)
           /\ \A target : Sound(ApplyArmManualRecovery(s, target).next)
           /\ \A id, target, lease : Sound(ApplyCreateEnter(s, id, target, lease).next)
           /\ \A id, r, g, lease : Sound(ApplyCommit(s, id, r, g, lease).next)
           /\ \A id : Sound(ApplyCancel(s, id).next)
           /\ \A id, lease, peer : Sound(ApplyRenew(s, id, lease, peer).next)
           /\ \A enabled : Sound(ApplyMultiViewRequested(s, enabled).next)
  <1>1. \A host, readiness : Sound(ApplyPeerReadinessUpdated(s, host, readiness).next)
    BY SMTT(40), ValidatedSound DEF ApplyPeerReadinessUpdated
  <1>2. \A target : Sound(ApplyArmManualRecovery(s, target).next)
    BY SMTT(40), ValidatedSound DEF ApplyArmManualRecovery, Err
  <1>3. \A id, target, lease : Sound(ApplyCreateEnter(s, id, target, lease).next)
    BY SMTT(40), ValidatedSound DEF ApplyCreateEnter, Ok, Err
  <1>4. \A id, r, g, lease : Sound(ApplyCommit(s, id, r, g, lease).next)
    BY SMTT(40), ValidatedSound DEF ApplyCommit, Err
  <1>5. \A id : Sound(ApplyCancel(s, id).next) BY SMTT(40), ValidatedSound DEF ApplyCancel, Err
  <1>6. \A id, lease, peer : Sound(ApplyRenew(s, id, lease, peer).next)
    BY SMTT(40), ValidatedSound DEF ApplyRenew
  <1>7. \A enabled : Sound(ApplyMultiViewRequested(s, enabled).next)
    BY SMTT(40), ValidatedSound DEF ApplyMultiViewRequested, Err
  <1> QED BY SMTT(40), <1>1, <1>2, <1>3, <1>4, <1>5, <1>6, <1>7

(* Tick and Shutdown keep a state sound. *)
LEMMA TimerSound ==
    ASSUME NEW s, Sound(s)
    PROVE  Sound(ApplyTick(s).next) /\ Sound(ApplyShutdown(s).next)
  BY SMTT(40), ValidatedSound DEF ApplyTick, ApplyShutdown

(* Time that passes changes only the times of a session. *)
LEMMA ElapseSessionFields ==
    ASSUME NEW v \in Option(ActiveSession), v # None
    PROVE  /\ ElapseSession(v) # None /\ ElapseSession(v).target = v.target
           /\ ElapseSession(v).switch_epoch = v.switch_epoch
           /\ ElapseSession(v).lease.peer_session_epoch = v.lease.peer_session_epoch
  <1>1. v \in ActiveSession BY DEF Option
  <1>2. ElapseSession(v) # None BY SMTT(40), ElapseSessionType, NoneAssumption
  <1>3. v.lease \in LeaseIdentity BY SMTT(40), <1>1 DEF ActiveSession
  <1>4. v.lease # None BY SMTT(40), <1>3, NoneAssumption
  <1>5. LowerExpiry(v.lease).peer_session_epoch = v.lease.peer_session_epoch
    BY SMTT(40), <1>3, <1>4 DEF LowerExpiry, LeaseIdentity
  <1> QED BY SMTT(40), <1>1, <1>2, <1>5 DEF ElapseSession, ActiveSession

(* Time that passes changes only the times of a request and its grant. *)
LEMMA ElapseRequestFields ==
    ASSUME NEW r \in Option(EnterRequest), r # None
    PROVE  /\ ElapseRequest(r).status = r.status
           /\ ElapseRequest(r).switch_epoch = r.switch_epoch
           /\ r.grant # None => /\ ElapseRequest(r).grant # None
                                /\ ElapseRequest(r).grant.switch_epoch = r.grant.switch_epoch
  <1>1. r \in EnterRequest BY DEF Option
  <1>2. r.grant # None => r.grant \in GrantIdentity BY SMTT(40), <1>1 DEF EnterRequest, Option
  <1>3. r.grant # None => LowerExpiry(r.grant) \in GrantIdentity
    BY SMTT(40), <1>2, LowerType DEF LowerExpiry, GrantIdentity
  <1>4. r.grant # None => LowerExpiry(r.grant) # None BY SMTT(40), <1>3, NoneAssumption
  <1>5. r.grant # None => LowerExpiry(r.grant).switch_epoch = r.grant.switch_epoch
    BY SMTT(40), <1>2 DEF LowerExpiry, GrantIdentity
  <1> QED BY SMTT(40), <1>1, <1>4, <1>5 DEF ElapseRequest, EnterRequest

(* Time that passes keeps a state sound, although no event revalidates it. *)
LEMMA ElapseSound ==
    ASSUME NEW s \in ProtocolState, Sound(s)
    PROVE  Sound(Elapse(s))
  <1> DEFINE t == Elapse(s)
             request == ElapseRequest(s.active_request)
             session == ElapseSession(s.active_session)
  <1>1. /\ t.keyboard_owner = s.keyboard_owner /\ t.pointer_owner = s.pointer_owner
        /\ t.fallback_required = s.fallback_required
        /\ t.manual_recovery_target = s.manual_recovery_target
        /\ t.active_request = request /\ t.active_session = session
        /\ t.peers = s.peers /\ t.verified_epoch = s.verified_epoch
        /\ t.tv_mode = s.tv_mode /\ t.observed_input = s.observed_input
        /\ t.input_signal = s.input_signal
    BY SMTT(40) DEF Elapse, ProtocolState
  <1>2. s.active_session \in Option(ActiveSession) /\ s.active_request \in Option(EnterRequest)
    BY DEF ProtocolState
  <1>3. s.active_session # None =>
            /\ session # None /\ session.target = s.active_session.target
            /\ session.switch_epoch = s.active_session.switch_epoch
            /\ session.lease.peer_session_epoch = s.active_session.lease.peer_session_epoch
    BY SMTT(40), <1>2, ElapseSessionFields
  <1>4. s.active_request # None =>
            /\ request.status = s.active_request.status
            /\ request.switch_epoch = s.active_request.switch_epoch
            /\ s.active_request.grant # None =>
                /\ request.grant # None
                /\ request.grant.switch_epoch = s.active_request.grant.switch_epoch
    BY SMTT(40), <1>2, ElapseRequestFields
  <1>5. s.active_request = None => request = None BY DEF ElapseRequest
  <1> HIDE DEF t, request, session
  <1>6. /\ t.keyboard_owner = t.pointer_owner
        /\ t.fallback_required => t.keyboard_owner = Server
        /\ t.manual_recovery_target # Server
        /\ t.manual_recovery_target # None => t.keyboard_owner = Server
    BY SMTT(40), <1>1 DEF Sound
  <1>7. ASSUME t.keyboard_owner # Server
        PROVE  /\ t.active_session # None
               /\ t.active_session.target = t.keyboard_owner
               /\ BundleReady(t.peers[t.active_session.target],
                              t.active_session.lease.peer_session_epoch)
               /\ HasDisplayRoute(t.active_session.target) =>
                   /\ TargetDisplayVerified(t, t.active_session.target,
                                            t.active_session.switch_epoch)
                   /\ t.verified_epoch = t.active_session.switch_epoch
    <2>1. /\ s.active_session # None
          /\ s.active_session.target = s.keyboard_owner
          /\ BundleReady(s.peers[s.active_session.target],
                         s.active_session.lease.peer_session_epoch)
          /\ HasDisplayRoute(s.active_session.target) =>
              /\ TargetDisplayVerified(s, s.active_session.target,
                                       s.active_session.switch_epoch)
              /\ s.verified_epoch = s.active_session.switch_epoch
      BY SMTT(40), <1>1, <1>7 DEF Sound
    <2>2. /\ session # None /\ session.target = s.active_session.target
          /\ session.switch_epoch = s.active_session.switch_epoch
          /\ session.lease.peer_session_epoch = s.active_session.lease.peer_session_epoch
      BY SMTT(40), <1>3, <2>1
    <2>3. TargetDisplayVerified(t, session.target, session.switch_epoch)
            <=> TargetDisplayVerified(s, s.active_session.target, s.active_session.switch_epoch)
      BY SMTT(40), <1>1, <2>2 DEF TargetDisplayVerified
    <2> QED BY SMTT(40), <1>1, <2>1, <2>2, <2>3
  <1>8. t.active_request # None /\ t.active_request.status = "Grant" =>
            /\ t.active_request.grant # None
            /\ t.active_request.switch_epoch = t.active_request.grant.switch_epoch
    BY SMTT(40), <1>1, <1>4, <1>5 DEF Sound
  <1>9. Sound(t) BY SMTT(40), <1>6, <1>7, <1>8 DEF Sound
  <1> QED BY <1>9 DEF t

(* The inductive invariant. *)
Invariant == TypeOK /\ Anchored(st) /\ Sound(st)

(* A state the actor may keep. *)
Keepable(s) == s \in ProtocolState /\ Anchored(s) /\ Sound(s)

(* Publishing a state without its effects changes nothing the invariant *)
(* reads.                                                               *)
LEMMA EffectsDropped ==
    ASSUME NEW s, Keepable(s)
    PROVE  Keepable([s EXCEPT !.effects = <<>>])
  <1> DEFINE t == [s EXCEPT !.effects = <<>>]
  <1>1. <<>> \in Seq(Effect) OBVIOUS
  <1>2. t \in ProtocolState BY ZenonT(60), <1>1 DEF ProtocolState, Keepable
  <1>3. Anchored(t) BY DEF Anchored, DaemonHealthy, ProtocolState, Keepable
  <1>4. /\ t.keyboard_owner = s.keyboard_owner /\ t.pointer_owner = s.pointer_owner
        /\ t.fallback_required = s.fallback_required
        /\ t.manual_recovery_target = s.manual_recovery_target
        /\ t.active_request = s.active_request /\ t.active_session = s.active_session
        /\ t.peers = s.peers /\ t.verified_epoch = s.verified_epoch
        /\ t.tv_mode = s.tv_mode /\ t.observed_input = s.observed_input
        /\ t.input_signal = s.input_signal
    BY SMTT(40) DEF ProtocolState, Keepable
  <1> HIDE DEF t
  <1>5. Sound(t) BY SMTT(40), <1>4 DEF Sound, TargetDisplayVerified, Keepable
  <1> QED BY SMTT(40), <1>2, <1>3, <1>5 DEF Keepable, t

(* Publishing a state keeps the invariant, and its effects are commands. *)
LEMMA PublishKeeps ==
    ASSUME NEW s, Keepable(s), NEW answered, TypeOK, Publish(s, answered)
    PROVE  Keepable(st') /\ pending' \subseteq Effect
  <1>1. Keepable(st') BY SMTT(40), EffectsDropped DEF Publish
  <1>2. s.effects \in Seq(Effect) BY DEF Keepable, ProtocolState
  <1>3. \A i \in DOMAIN s.effects : s.effects[i] \in Effect BY SMTT(40), <1>2
  <1> QED BY SMTT(40), <1>1, <1>3 DEF Publish, TypeOK

(* A turn of the actor keeps the invariant if the handler's result does,   *)
(* also when a full queue turns the effect into a CommandFailed within the *)
(* turn.                                                                   *)
LEMMA TurnKeeps ==
    ASSUME NEW result, Keepable(result.next), NEW answered, TypeOK, Turn(result, answered)
    PROVE  Invariant'
  <1> DEFINE bare == [result.next EXCEPT !.effects = <<>>]
  <1>1. Keepable(bare) BY SMTT(40), EffectsDropped
  <1> HIDE DEF bare
  <1>2. \A epoch : Keepable(ApplyCommandFailed(bare, epoch).next)
    BY SMTT(40), <1>1, ApplyCommandFailedType, ApplyCommandFailedAnchored, TvAnswerSound DEF Keepable
  <1>3. \/ Publish(result.next, answered)
        \/ \E epoch : Publish(ApplyCommandFailed(bare, epoch).next, answered)
    BY DEF Turn, bare
  <1>4. Keepable(st') /\ pending' \subseteq Effect BY SMTT(40), <1>2, <1>3, PublishKeeps
  <1> QED BY SMTT(40), <1>4 DEF Turn, TypeOK, Invariant, Keepable

(* A granted request has its switch epoch (Commit relies on it). *)
LEMMA GrantHasEpoch ==
    ASSUME NEW s \in ProtocolState, Sound(s)
    PROVE  s.active_request # None =>
                (s.active_request.status = "Grant" => s.active_request.switch_epoch \in Nat)
  <1>1. s.active_request # None => s.active_request \in EnterRequest
    BY DEF ProtocolState, Option
  <1>2. s.active_request # None /\ s.active_request.grant # None =>
            s.active_request.grant \in GrantIdentity
    BY SMTT(40), <1>1 DEF EnterRequest, Option
  <1> QED BY SMTT(40), <1>2 DEF Sound, GrantIdentity

(* The transport's events keep the invariant. *)
LEMMA TransportStepKeeps ==
    ASSUME Invariant, TransportStep
    PROVE  Invariant'
  <1> USE DEF Handle
  <1>0. Keepable(st) /\ TypeOK BY DEF Invariant, TypeOK, Keepable
  <1>1. CASE TransportConnecting
    <2>1. ~DaemonHealthy(st) BY SMTT(40), <1>1 DEF TransportConnecting, DaemonHealthy
    <2>2. Keepable(ApplyTransportConnecting(st).next)
      BY SMTT(40), <1>0, <2>1, TransportTypes, OfflineLifecycleAnchored, TransportSound DEF Keepable
    <2> QED BY SMTT(40), <1>0, <1>1, <2>2, TurnKeeps DEF TransportConnecting
  <1>2. CASE TransportRegistering
    <2>1. ~DaemonHealthy(st) BY SMTT(40), <1>2 DEF TransportRegistering, DaemonHealthy
    <2>2. Keepable(ApplyTransportRegistering(st).next)
      BY SMTT(40), <1>0, <2>1, TransportTypes, OfflineLifecycleAnchored, TransportSound DEF Keepable
    <2> QED BY SMTT(40), <1>0, <1>2, <2>2, TurnKeeps DEF TransportRegistering
  <1>3. CASE TransportSubscribed
    <2>1. ~DaemonHealthy(st) BY SMTT(40), <1>3 DEF TransportSubscribed, DaemonHealthy
    <2>2. Keepable(ApplyTransportSubscribed(st).next)
      BY SMTT(40), <1>0, <2>1, TransportTypes, OfflineLifecycleAnchored, TransportSound DEF Keepable
    <2> QED BY SMTT(40), <1>0, <1>3, <2>2, TurnKeeps DEF TransportSubscribed
  <1>4. ASSUME NEW input \in Inputs, NEW signals \in Signals,
               TransportSynchronized(input, signals)
        PROVE  Invariant'
    <2>1. /\ input \in Option(Hosts) /\ signals \in [DisplayHosts -> BOOLEAN]
          /\ "Fullscreen" \in TvModes
      BY SMTT(40), EnvironmentTypes, EnvironmentAssumption DEF TvModes
    <2>2. Keepable(ApplyTransportSynchronized(st, "Fullscreen", input, signals).next)
      BY ZenonT(60), <1>0, <2>1, ApplyTransportSynchronizedType, ApplyTransportSynchronizedAnchored,
         TransportSound DEF Keepable
    <2> QED BY SMTT(40), <1>0, <1>4, <2>2, TurnKeeps DEF TransportSynchronized
  <1>5. CASE TransportDisconnected
    <2>1. Keepable(ApplyTransportDisconnected(st).next)
      BY SMTT(40), <1>0, TransportTypes, ApplyTransportDisconnectedAnchored, TransportSound DEF Keepable
    <2> QED BY SMTT(40), <1>0, <1>5, <2>1, TurnKeeps DEF TransportDisconnected
  <1> QED BY SMTT(40), <1>1, <1>2, <1>3, <1>4, <1>5 DEF TransportStep

(* The TV's answers, late or out of order, keep the invariant. *)
LEMMA TvAnswerKeeps ==
    ASSUME Invariant, TvAnswer
    PROVE  Invariant'
  <1> USE DEF Handle
  <1>0. Keepable(st) /\ TypeOK BY DEF Invariant, TypeOK, Keepable
  <1>e. \A e \in pending : e \in Effect /\ (e.type # "Wake" => e.switch_epoch \in Nat)
    BY SMTT(40), <1>0, EnvironmentTypes DEF TypeOK
  <1>1. ASSUME NEW e \in pending, CommandAcknowledged(e) PROVE Invariant'
    <2>1. e.switch_epoch \in Nat BY SMTT(40), <1>1, <1>e DEF CommandAcknowledged
    <2>2. Keepable(ApplyCommandAcknowledged(st, e.switch_epoch, e.target).next)
      BY ZenonT(60), <1>0, <2>1, ApplyCommandAcknowledgedType, ApplyCommandAcknowledgedAnchored,
         TvAnswerSound DEF Keepable
    <2> QED BY SMTT(40), <1>0, <1>1, <2>2, TurnKeeps DEF CommandAcknowledged
  <1>2. ASSUME NEW e \in pending, CommandFailed(e) PROVE Invariant'
    <2>1. Keepable(ApplyCommandFailed(st, e.switch_epoch).next)
      BY SMTT(40), <1>0, ApplyCommandFailedType, ApplyCommandFailedAnchored, TvAnswerSound DEF Keepable
    <2> QED BY SMTT(40), <1>0, <1>2, <2>1, TurnKeeps DEF CommandFailed
  <1>3. ASSUME NEW e \in pending, NEW mode \in Modes, NEW input \in Inputs,
               NEW signals \in Signals, Observation(e, mode, input, signals)
        PROVE  Invariant'
    <2>1. e.switch_epoch \in Nat BY SMTT(40), <1>3, <1>e DEF Observation
    <2>2. /\ input \in Option(Hosts) /\ signals \in [DisplayHosts -> BOOLEAN]
          /\ mode \in TvModes
      BY SMTT(40), EnvironmentTypes, EnvironmentAssumption
    <2>3. Keepable(ApplyObservation(st, e.switch_epoch, mode, input, signals).next)
      BY ZenonT(60), <1>0, <2>1, <2>2, ApplyObservationType, ApplyObservationAnchored, TvAnswerSound
         DEF Keepable
    <2> QED BY SMTT(40), <1>0, <1>3, <2>3, TurnKeeps DEF Observation
  <1>4. ASSUME NEW e \in pending, MultiViewAcknowledged(e) PROVE Invariant'
    <2>1. e.switch_epoch \in Nat BY SMTT(40), <1>4, <1>e DEF MultiViewAcknowledged
    <2>2. Keepable(ApplyMultiViewAcknowledged(st, e.switch_epoch, e.enabled).next)
      BY ZenonT(60), <1>0, <2>1, ApplyMultiViewAcknowledgedType, ApplyMultiViewAcknowledgedAnchored,
         TvAnswerSound DEF Keepable
    <2> QED BY SMTT(40), <1>0, <1>4, <2>2, TurnKeeps DEF MultiViewAcknowledged
  <1>5. ASSUME NEW mode \in Modes, NEW input \in Inputs, SubscriptionObserved(mode, input)
        PROVE  Invariant'
    <2>1. input \in Option(Hosts) /\ mode \in TvModes
      BY SMTT(40), EnvironmentTypes, EnvironmentAssumption
    <2>2. Keepable(ApplySubscriptionObserved(st, mode, input).next)
      BY SMTT(40), <1>0, <2>1, ApplySubscriptionObservedType, ApplySubscriptionObservedAnchored,
         TvAnswerSound DEF Keepable
    <2> QED BY SMTT(40), <1>0, <1>5, <2>2, TurnKeeps DEF SubscriptionObserved
  <1> QED BY SMTT(40), <1>1, <1>2, <1>3, <1>4, <1>5 DEF TvAnswer

(* The clients' and peers' calls keep the invariant. *)
LEMMA ClientStepKeeps ==
    ASSUME Invariant, ClientStep
    PROVE  Invariant'
  <1> USE DEF Handle
  <1>0. Keepable(st) /\ TypeOK BY DEF Invariant, TypeOK, Keepable
  <1>1. ASSUME NEW host \in Hosts \ {Server}, NEW readiness \in Readiness,
               PeerReadinessUpdated(host, readiness)
        PROVE  Invariant'
    <2>1. host \in Hosts /\ readiness \in PeerReadiness BY SMTT(40), EnvironmentTypes
    <2>2. Keepable(ApplyPeerReadinessUpdated(st, host, readiness).next)
      BY SMTT(40), <1>0, <2>1, ApplyPeerReadinessUpdatedType, ApplyPeerReadinessUpdatedAnchored,
         ClientSound DEF Keepable
    <2> QED BY SMTT(40), <1>0, <1>1, <2>2, TurnKeeps DEF PeerReadinessUpdated
  <1>2. ASSUME NEW target \in Hosts, ArmManualRecovery(target) PROVE Invariant'
    <2>1. Keepable(ApplyArmManualRecovery(st, target).next)
      BY SMTT(40), <1>0, ApplyArmManualRecoveryType, ApplyArmManualRecoveryAnchored, ClientSound
         DEF Keepable
    <2> QED BY SMTT(40), <1>0, <1>2, <2>1, TurnKeeps DEF ArmManualRecovery
  <1>3. ASSUME NEW id \in Requests, NEW target \in Hosts, NEW lease \in OfferedLeases,
               CreateEnter(id, target, lease)
        PROVE  Invariant'
    <2>1. lease \in LeaseIdentity BY SMTT(40), EnvironmentTypes
    <2>2. Keepable(ApplyCreateEnter(st, id, target, lease).next)
      BY SMTT(40), <1>0, <2>1, ApplyCreateEnterType, ApplyCreateEnterAnchored, ClientSound DEF Keepable
    <2> QED BY SMTT(40), <1>0, <1>3, <2>2, TurnKeeps DEF CreateEnter
  <1>4. ASSUME NEW id \in Requests, NEW r, NEW g, NEW lease \in Leases, Commit(id, r, g, lease)
        PROVE  Invariant'
    <2>1. ApplyCommit(st, id, r, g, lease).next \in ProtocolState
      BY SMTT(40), <1>0, GrantHasEpoch, ApplyCommitType DEF Keepable
    <2>2. Anchored(ApplyCommit(st, id, r, g, lease).next)
      BY SMTT(40), <1>0, GrantHasEpoch, ApplyCommitAnchored DEF Keepable
    <2>3. Keepable(ApplyCommit(st, id, r, g, lease).next)
      BY SMTT(40), <1>0, <2>1, <2>2, ClientSound DEF Keepable
    <2> QED BY SMTT(40), <1>0, <1>4, <2>3, TurnKeeps DEF Commit
  <1>5. ASSUME NEW id \in Requests, Cancel(id) PROVE Invariant'
    <2>1. Keepable(ApplyCancel(st, id).next)
      BY SMTT(40), <1>0, ApplyCancelType, ApplyCancelAnchored, ClientSound DEF Keepable
    <2> QED BY <1>0, <1>5, <2>1, TurnKeeps DEF Cancel
  <1>6. ASSUME NEW id \in Requests, NEW lease \in Leases, NEW peer \in PeerSessions,
               Renew(id, lease, peer)
        PROVE  Invariant'
    <2>1. Keepable(ApplyRenew(st, id, lease, peer).next)
      BY ZenonT(60), <1>0, ApplyRenewType, ApplyRenewAnchored, ClientSound DEF Keepable
    <2> QED BY SMTT(40), <1>0, <1>6, <2>1, TurnKeeps DEF Renew
  <1>7. ASSUME NEW enabled \in BOOLEAN, MultiViewRequested(enabled) PROVE Invariant'
    <2>1. Keepable(ApplyMultiViewRequested(st, enabled).next)
      BY SMTT(40), <1>0, ApplyMultiViewRequestedType, ApplyMultiViewRequestedAnchored, ClientSound
         DEF Keepable
    <2> QED BY SMTT(40), <1>0, <1>7, <2>1, TurnKeeps DEF MultiViewRequested
  <1> QED BY SMTT(40), <1>1, <1>2, <1>3, <1>4, <1>5, <1>6, <1>7 DEF ClientStep

(* The daemon starts in the invariant. *)
LEMMA InitialInvariant == Init => Invariant
  <1> SUFFICES ASSUME Init PROVE Invariant OBVIOUS
  <1>1. TypeOK BY SMTT(40), InitialType DEF Init, TypeOK
  <1>2. Anchored(st) BY SMTT(40) DEF Init, WithDisplayHosts, Anchored, DaemonHealthy
  <1>3. Sound(st)
    <2>1. None # Server BY SMTT(40), ConfigAssumption, NoneAssumption
    <2> QED BY <2>1 DEF Init, WithDisplayHosts, Sound
  <1> QED BY SMTT(40), <1>1, <1>2, <1>3 DEF Invariant

(* The inductive invariant holds in every behaviour of the coordinator: its *)
(* state is typed, a request or a session exists only under a connected TV, *)
(* and what validate() checked stays true until the next event.             *)
THEOREM Correct == Spec => []Invariant
  <1>1. Invariant /\ [Next]_vars => Invariant'
    <2> SUFFICES ASSUME Invariant, [Next]_vars PROVE Invariant' OBVIOUS
    <2>0. Keepable(st) /\ TypeOK BY DEF Invariant, TypeOK, Keepable
    <2>1. CASE TransportStep BY SMTT(40), <2>1, TransportStepKeeps
    <2>2. CASE TvAnswer BY SMTT(40), <2>2, TvAnswerKeeps
    <2>3. CASE ClientStep BY <2>3, ClientStepKeeps
    <2>4. CASE Tick
      <3>1. Keepable(ApplyTick(st).next)
        BY SMTT(40), <2>0, ApplyTickAnchored, TimerSound DEF Keepable
      <3> QED BY SMTT(40), <2>0, <2>4, <3>1, TurnKeeps DEF Tick, Handle
    <2>5. CASE Shutdown
      <3>1. Keepable(ApplyShutdown(st).next)
        BY SMTT(40), <2>0, ApplyShutdownType, ApplyShutdownAnchored, TimerSound DEF Keepable
      <3> QED BY ZenonT(60), <2>5, <3>1 DEF Shutdown, Invariant, TypeOK, Keepable
    <2>6. CASE Clock
      <3>1. Keepable(Elapse(st))
        BY SMTT(40), <2>0, ElapseType, ElapseAnchored, ElapseSound DEF Keepable
      <3> QED BY SMTT(40), <2>0, <2>6, <3>1 DEF Clock, Invariant, TypeOK, Keepable
    <2>7. CASE UNCHANGED vars BY SMTT(40), <2>7 DEF vars, Invariant, TypeOK
    <2> QED BY SMTT(40), <2>1, <2>2, <2>3, <2>4, <2>5, <2>6, <2>7 DEF Next
  <1> QED BY <1>1, InitialInvariant, PTL DEF Spec

(* Every state apply() produces has the types of domain.rs, for any hosts, *)
(* leases, retained_request_limit and durations.                           *)
THEOREM TypeCorrect == Spec => []TypeOK
  BY Correct, PTL DEF Invariant

(* A remote host never has the input without a connected TV, an active   *)
(* session for it, a ready bundle of the leased peer session and, for a  *)
(* routed host, a verified display: for any hosts, leases and durations, *)
(* and any order of events.                                              *)
THEOREM RemoteInputIsJustified == Spec => []RemoteInputJustified
  <1>1. Invariant => RemoteInputJustified
    BY DEF Invariant, Anchored, Sound, RemoteInputJustified, Owner, Session
  <1> QED BY <1>1, Correct, PTL
================================================================================
